----------------------------- MODULE DurableLog -----------------------------
(***************************************************************************)
(* What one partition's log promises to the broker above it, with every    *)
(* detail of files, system calls and recovery left out.                    *)
(*                                                                         *)
(*   log  - the records a restart at this moment would bring back, in      *)
(*          offset order;                                                  *)
(*   safe - how many of them, counted from offset 0, the log has promised  *)
(*          to keep whatever happens.                                      *)
(*                                                                         *)
(* The log grows one record at a time at its end, and what may be lost is  *)
(* only a tail that was never promised. TopicLog implements this.          *)
(***************************************************************************)
EXTENDS Naturals, Sequences

CONSTANT Payload    \* the record payloads

VARIABLES log, safe

vars == <<log, safe>>

TypeOK ==
    /\ log \in Seq(Payload)
    /\ safe \in 0..Len(log)

Init ==
    /\ log = <<>>
    /\ safe = 0

\* One record becomes recoverable at the next offset.
Add ==
    /\ \E v \in Payload : log' = Append(log, v)
    /\ UNCHANGED safe

\* The log promises to keep what it holds.
Promise ==
    /\ safe' = Len(log)
    /\ UNCHANGED log

\* A tail that was not promised disappears.
Lose ==
    /\ \E k \in safe..Len(log) : log' = SubSeq(log, 1, k)
    /\ UNCHANGED safe

Next == Add \/ Promise \/ Lose

Spec == Init /\ [][Next]_vars
=============================================================================
