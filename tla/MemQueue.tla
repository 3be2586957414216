------------------------------ MODULE MemQueue ------------------------------
(***************************************************************************)
(* The in-memory queue: a buffered channel, the lock that Enqueue and      *)
(* Close share, and the goroutine that a consumer starts to move           *)
(* deliveries to an unbuffered channel.  The queue does not acknowledge: a *)
(* delivery that was handed over is gone.                                  *)
(*                                                                         *)
(* An Enqueue holds the lock for reading until it has sent or given up.    *)
(* Close takes it for writing; while it waits no new reader gets in.       *)
(***************************************************************************)
EXTENDS WorkerPool, Sequences

CONSTANTS
    Buffers,        \* the capacities a channel may be configured with
    Process         \* the process the queue lives in

ASSUME MemAssumption == Buffers \subseteq Nat \ {0} /\ Procs = {Process}

VARIABLES
    buffer,         \* the capacity of the channel
    chan,           \* the buffered channel
    senders,        \* the jobs whose Enqueue holds the lock for reading
    closing,        \* how far Close has come
    held,           \* the delivery the consumer goroutine holds
    consumer        \* whether that goroutine runs

memVars == <<buffer, chan, senders, closing, held, consumer>>

MemTypeOK ==
    /\ buffer \in Buffers
    /\ chan \in Seq(Jobs) /\ Len(chan) <= buffer
    /\ senders \subseteq Jobs
    /\ closing \in {"open", "waiting", "closed"}
    /\ held \in Jobs \cup {NoDelivery}
    /\ consumer \in {"open", "closed"}

MemInit ==
    /\ buffer \in Buffers
    /\ chan = <<>> /\ senders = {} /\ closing = "open"
    /\ held = NoDelivery /\ consumer = "open"

-----------------------------------------------------------------------------
(* Enqueue *)

RLock(j) ==
    /\ closing = "open" /\ j \notin senders
    /\ senders' = senders \cup {j}
    /\ UNCHANGED <<buffer, chan, closing, held, consumer>>

\* Enqueue returns ErrClosed.
SendRefused(j) == closing = "closed" /\ j \notin senders /\ UNCHANGED memVars

\* Mutants: the channel has a place too many; its last place is never used.
OfferOverfull(j) ==
    /\ j \in senders
    /\ Len(chan) <= buffer
    /\ chan' = Append(chan, j)
    /\ senders' = senders \ {j}
    /\ UNCHANGED <<buffer, closing, held, consumer>>

OfferShort(j) ==
    /\ j \in senders
    /\ Len(chan) + 1 < buffer
    /\ chan' = Append(chan, j)
    /\ senders' = senders \ {j}
    /\ UNCHANGED <<buffer, closing, held, consumer>>

\* The send, which blocks while the channel is full, and the unlock.
Offer(j) ==
    /\ j \in senders
    /\ Len(chan) < buffer
    /\ chan' = Append(chan, j)
    /\ senders' = senders \ {j}
    /\ UNCHANGED <<buffer, closing, held, consumer>>

\* The context is done.
GiveUp(j) ==
    /\ j \in senders
    /\ senders' = senders \ {j}
    /\ UNCHANGED <<buffer, chan, closing, held, consumer>>

-----------------------------------------------------------------------------
(* Close *)

LockForClose ==
    /\ closing = "open"
    /\ closing' = "waiting"
    /\ UNCHANGED <<buffer, chan, senders, held, consumer>>

\* Mutant: Close does not take the lock.
CloseChannelUnlocked ==
    /\ closing = "waiting"
    /\ closing' = "closed"
    /\ UNCHANGED <<buffer, chan, senders, held, consumer>>

CloseChannel ==
    /\ closing = "waiting" /\ senders = {}
    /\ closing' = "closed"
    /\ UNCHANGED <<buffer, chan, senders, held, consumer>>

-----------------------------------------------------------------------------
(* ConsumeDeliveries *)

\* Mutant: the head is read and left in the channel.
FetchKeeps ==
    /\ consumer = "open"
    /\ held = NoDelivery /\ chan # <<>>
    /\ held' = Head(chan)
    /\ UNCHANGED <<buffer, chan, senders, closing, consumer>>

Fetch ==
    /\ consumer = "open"
    /\ held = NoDelivery /\ chan # <<>>
    /\ held' = Head(chan)
    /\ chan' = Tail(chan)
    /\ UNCHANGED <<buffer, senders, closing, consumer>>

Pass(j) ==
    /\ consumer = "open"
    /\ held = j
    /\ held' = NoDelivery
    /\ UNCHANGED <<buffer, chan, senders, closing, consumer>>

\* The context is done: the goroutine returns, with the delivery it holds.
Quit ==
    /\ consumer = "open"
    /\ phase[Process] # "running"
    /\ consumer' = "closed"
    /\ held' = NoDelivery
    /\ UNCHANGED <<buffer, chan, senders, closing>>
=============================================================================
