------------------------------ MODULE SqsQueue ------------------------------
(***************************************************************************)
(* The SQS queue adapter and the broker behind it.                         *)
(*                                                                         *)
(* The broker keeps one message per enqueued job.  Receiving it hides it   *)
(* for the visibility timeout under a new receipt handle, modelled by the  *)
(* receive count: the handle of the latest receive is receives[j].  The    *)
(* message reappears when that time is over, which may happen at any point *)
(* while it is in flight: the clock starts at the receive, and neither the *)
(* wait for a free worker nor the job extends it.  After MaxReceive        *)
(* receives the redrive policy moves it to the dead-letter queue.          *)
(*                                                                         *)
(* The adapter of a process keeps the handle of each job it received, at   *)
(* most one per job: a second receive of the same job replaces it.         *)
(***************************************************************************)
EXTENDS WorkerPool

CONSTANTS
    MaxReceive,     \* maxReceiveCount of the redrive policy
    QueueFaults     \* what may go wrong with a call to the broker

ASSUME QueueAssumption ==
    /\ MaxReceive \in Nat
    /\ QueueFaults \subseteq Faults

VARIABLES
    msg,            \* per job: where its message is
    receives,       \* per job: how often its message was received
    receipts,       \* per process: the handle held for each job, 0 for none
    batch,          \* per process: received deliveries not yet handed over
    consumer        \* per process: the state of the receiving goroutine

brokerVars == <<msg, receives>>

adapterVars == <<receipts, batch, consumer>>

queueVars == <<brokerVars, adapterVars>>

MsgStates == {"none", "visible", "inflight", "deleted", "dead"}

ConsumerStates == {"polling", "backoff", "closed"}

QueueTypeOK ==
    /\ msg \in [Jobs -> MsgStates]
    /\ receives \in [Jobs -> 0..MaxReceive]
    /\ receipts \in [Procs -> [Jobs -> 0..MaxReceive]]
    /\ batch \in [Procs -> SUBSET Jobs]
    /\ consumer \in [Procs -> ConsumerStates]

QueueInit ==
    /\ msg = [j \in Jobs |-> "none"]
    /\ receives = [j \in Jobs |-> 0]
    /\ receipts = [p \in Procs |-> [j \in Jobs |-> 0]]
    /\ batch = [p \in Procs |-> {}]
    /\ consumer = [p \in Procs |-> "polling"]

-----------------------------------------------------------------------------
(* The broker *)

Send(j, o) ==
    /\ msg' = IF o = "error" THEN msg ELSE [msg EXCEPT ![j] = "visible"]
    /\ UNCHANGED <<receives, adapterVars>>

\* Mutant: no redrive policy bounds the receives.
ReceivableUnbounded == {j \in Jobs : msg[j] = "visible"}

Receivable == {j \in Jobs : msg[j] = "visible" /\ receives[j] < MaxReceive}

\* The messages of S are handed out, each under a new handle.
HandOut(S) ==
    /\ msg' = [j \in Jobs |-> IF j \in S THEN "inflight" ELSE msg[j]]
    /\ receives' = [j \in Jobs |-> IF j \in S THEN receives[j] + 1 ELSE receives[j]]

VisibilityTimeout(j) ==
    /\ msg[j] = "inflight"
    /\ msg' = [msg EXCEPT ![j] = "visible"]
    /\ UNCHANGED <<receives, adapterVars>>

Redrive(j) ==
    /\ msg[j] = "visible"
    /\ receives[j] = MaxReceive
    /\ msg' = [msg EXCEPT ![j] = "dead"]
    /\ UNCHANGED <<receives, adapterVars>>

-----------------------------------------------------------------------------
(* ConsumeDeliveries: the receiving goroutine of process p *)

Receive(p) ==
    /\ consumer[p] = "polling"
    /\ batch[p] = {}
    /\ \E S \in SUBSET Receivable :
          /\ S # {}
          /\ HandOut(S)
          /\ receipts' = [receipts EXCEPT ![p] =
                [j \in Jobs |-> IF j \in S THEN receives[j] + 1 ELSE @[j]]]
          /\ batch' = [batch EXCEPT ![p] = S]
    /\ UNCHANGED consumer

\* The call fails, and what the broker handed out for it reaches nobody.
ReceiveFailed(p) ==
    /\ consumer[p] = "polling"
    /\ batch[p] = {}
    /\ QueueFaults # {}
    /\ \E S \in SUBSET Receivable :
          /\ S # {} => "lost" \in QueueFaults
          /\ HandOut(S)
    /\ consumer' = [consumer EXCEPT ![p] = "backoff"]
    /\ UNCHANGED <<receipts, batch>>

BackoffOver(p) ==
    /\ consumer[p] = "backoff"
    /\ consumer' = [consumer EXCEPT ![p] = "polling"]
    /\ UNCHANGED <<brokerVars, receipts, batch>>

\* Mutant: the rest of the batch is forgotten with the first delivery.
HandOverForgetsRest(p, j) ==
    /\ consumer[p] = "polling"
    /\ j \in batch[p]
    /\ batch' = [batch EXCEPT ![p] = {}]
    /\ UNCHANGED <<brokerVars, receipts, consumer>>

\* One delivery of the batch goes to a worker over the unbuffered channel.
HandOver(p, j) ==
    /\ consumer[p] = "polling"
    /\ j \in batch[p]
    /\ batch' = [batch EXCEPT ![p] = @ \ {j}]
    /\ UNCHANGED <<brokerVars, receipts, consumer>>

\* The context is done: the goroutine returns, and drops the rest of its batch
\* or cuts off the call it is in.
CloseConsumer(p) ==
    /\ phase[p] \in {"draining", "abandoned"}
    /\ consumer[p] # "closed"
    /\ \E S \in SUBSET Receivable :
          /\ S # {} => consumer[p] = "polling" /\ batch[p] = {}
          /\ HandOut(S)
    /\ batch' = [batch EXCEPT ![p] = {}]
    /\ consumer' = [consumer EXCEPT ![p] = "closed"]
    /\ UNCHANGED receipts

-----------------------------------------------------------------------------
(* Settling *)

\* The call has no effect: it is not made, it fails, or its handle is stale.
NoEffect(p, j) ==
    \/ receipts[p][j] = 0
    \/ receipts[p][j] # receives[j]
    \/ "error" \in QueueFaults

\* takeReceipt forgets the handle before the call, whatever comes of it.
TakeReceipt(p, j) ==
    /\ receipts' = [receipts EXCEPT ![p][j] = 0]
    /\ UNCHANGED <<receives, batch, consumer>>

\* Deleting works on a message that reappeared, but not in the dead-letter queue.
Ack(p, j) ==
    /\ TakeReceipt(p, j)
    /\ \/ /\ NoEffect(p, j) \/ msg[j] \notin {"visible", "inflight"}
          /\ UNCHANGED msg
       \/ /\ receipts[p][j] # 0
          /\ msg[j] \in {"visible", "inflight"}
          /\ msg' = [msg EXCEPT ![j] = "deleted"]

\* The visibility of a message that is not in flight cannot be changed.
Nack(p, j) ==
    /\ TakeReceipt(p, j)
    /\ \/ /\ NoEffect(p, j) \/ msg[j] # "inflight"
          /\ UNCHANGED msg
       \/ /\ receipts[p][j] # 0
          /\ msg[j] = "inflight"
          /\ msg' = [msg EXCEPT ![j] = "visible"]

-----------------------------------------------------------------------------
(* The adapter of a process that ends, and of the one that replaces it *)

AdapterGone(p) ==
    /\ receipts' = [receipts EXCEPT ![p] = [j \in Jobs |-> 0]]
    /\ batch' = [batch EXCEPT ![p] = {}]
    /\ consumer' = [consumer EXCEPT ![p] = "closed"]
    /\ UNCHANGED brokerVars

AdapterOpened(p) ==
    /\ consumer' = [consumer EXCEPT ![p] = "polling"]
    /\ UNCHANGED <<brokerVars, receipts, batch>>
=============================================================================
