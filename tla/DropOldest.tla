----------------------------- MODULE DropOldest -----------------------------
(***************************************************************************)
(* What every bounded queue of the library promises: its producer never    *)
(* waits, and when the queue is full the oldest element makes room.  The   *)
(* elements are known by the order in which they were put.                 *)
(***************************************************************************)
EXTENDS Integers, Sequences

CONSTANT Limit   \* the elements that may wait, at least one

VARIABLES
  queue,   \* the elements that wait, the oldest first
  put,     \* the number of the element put last
  taken    \* the number of the element taken last

queueVars == <<queue, put, taken>>

Init == queue = <<>> /\ put = 0 /\ taken = 0

Put ==
  /\ put' = put + 1 /\ UNCHANGED taken
  /\ \/ Len(queue) < Limit /\ queue' = Append(queue, put + 1)
     \/ Len(queue) = Limit /\ queue' = Append(Tail(queue), put + 1)

Take ==
  /\ queue # <<>>
  /\ taken' = Head(queue) /\ queue' = Tail(queue)
  /\ UNCHANGED put

(* The owner goes away, and may come back with a queue of its own. *)
Discard == queue' = <<>> /\ UNCHANGED <<put, taken>>

Restart == queue' = <<>> /\ put' = 0 /\ taken' = 0

Next == Put \/ Take \/ Discard \/ Restart

Spec == Init /\ [][Next]_queueVars

-----------------------------------------------------------------------------
(* What follows from it: the newest elements wait, in order and without a  *)
(* gap, and each is newer than what was taken.                             *)
NewestInOrder ==
  /\ \A i \in 1..Len(queue) : queue[i] = put - Len(queue) + i
  /\ taken <= put - Len(queue)
=============================================================================
