---------------------------- MODULE LocalStorage ----------------------------
(***************************************************************************)
(* The file system behind the memory backend: Put step by step.  The data  *)
(* goes to a temporary file of its own, which is renamed to the key's name *)
(* when it is complete and closed, and removed on every error.             *)
(*                                                                         *)
(* Files outlive the process.  They are as it left them: Put does not sync *)
(* them, so a crash of the machine is another matter.  How far the Put of  *)
(* a key has come is what its temporary file looks like; nobody puts the   *)
(* same key twice at a time.                                               *)
(***************************************************************************)
EXTENDS JobStore

VARIABLES
    temp,           \* per key: the temporary file of its Put
    file            \* per key: the file of that name

diskVars == <<temp, file>>

Contents == {"none", "partial", "whole"}

DiskTypeOK == temp \in [Keys -> Contents] /\ file \in [Keys -> Contents]

DiskInit ==
    /\ temp = [k \in Keys |-> "none"]
    /\ file = [k \in Keys |-> "none"]

\* MkdirAll and CreateTemp; an ended context is noticed here and nowhere later.
PutBegins(k, live) ==
    /\ live
    /\ temp[k] = "none"
    /\ temp' = [temp EXCEPT ![k] = "partial"]
    /\ UNCHANGED file

\* Copy and Close.
PutCopies(k) ==
    /\ temp[k] = "partial"
    /\ temp' = [temp EXCEPT ![k] = "whole"]
    /\ UNCHANGED file

\* Mutant: the file is renamed first and written under its own name.
PutRenamesEarly(k) ==
    /\ temp[k] # "none"
    /\ file' = [file EXCEPT ![k] = temp[k]]
    /\ temp' = [temp EXCEPT ![k] = "none"]

\* Rename, and Put returns nil; the deferred Remove finds nothing.
PutRenames(k) ==
    /\ temp[k] = "whole"
    /\ file' = [file EXCEPT ![k] = temp[k]]
    /\ temp' = [temp EXCEPT ![k] = "none"]

\* Mutant: the temporary file of a Put that failed is left behind.
PutFailsLittering(k) == UNCHANGED diskVars

\* Any of the calls fails: the deferred Remove takes the temporary file away.
PutFails(k) ==
    /\ temp' = [temp EXCEPT ![k] = "none"]
    /\ UNCHANGED file

\* Put returns with outcome o; an ended context counts before the first step.
PutReturns(k, live, o) ==
    /\ o \in Outcomes(live \/ temp[k] # "none", StorageFaults)
    /\ IF o = "ok" THEN PutRenames(k) ELSE PutFails(k)
=============================================================================
