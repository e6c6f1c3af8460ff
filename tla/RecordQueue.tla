---------------------------- MODULE RecordQueue ----------------------------
(***************************************************************************)
(* What the resident queue promises when its operations do not overlap: a  *)
(* bounded FIFO with at-least-once delivery.  A consumer takes a run of    *)
(* records from the head, handles them, and only then removes them; if it  *)
(* is lost in between, it takes them again.                                *)
(***************************************************************************)
EXTENDS Integers, Sequences

CONSTANTS
  Messages,   \* what can be queued
  Capacity,   \* the most messages the queue holds
  MaxRead     \* the most messages one take removes

VARIABLES
  queue,      \* messages accepted and not yet removed, oldest first
  taken,      \* how many of the head the consumer has handled, not removed
  handled     \* every message handled so far, in order, repeats included

vars == <<queue, taken, handled>>

Init ==
  /\ queue = << >>
  /\ taken = 0
  /\ handled = << >>

\* A message is accepted unless the queue is full.
Accept(m) ==
  /\ Len(queue) < Capacity
  /\ queue' = Append(queue, m)
  /\ UNCHANGED <<taken, handled>>

\* The consumer handles the n oldest messages.
Handle(n) ==
  /\ taken = 0
  /\ handled' = handled \o SubSeq(queue, 1, n)
  /\ taken' = n
  /\ UNCHANGED queue

\* It removes what it has handled ...
Remove ==
  /\ taken > 0
  /\ queue' = SubSeq(queue, taken + 1, Len(queue))
  /\ taken' = 0
  /\ UNCHANGED handled

\* ... or forgets that it has handled it.
Forget ==
  /\ taken > 0
  /\ taken' = 0
  /\ UNCHANGED <<queue, handled>>

Next ==
  \/ \E m \in Messages : Accept(m)
  \/ \E n \in 1 .. Len(queue) : n <= MaxRead /\ Handle(n)
  \/ Remove
  \/ Forget

Spec == Init /\ [][Next]_vars
=============================================================================
