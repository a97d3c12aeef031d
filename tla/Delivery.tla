------------------------------ MODULE Delivery ------------------------------
(***************************************************************************)
(* What the receive path promises: of a stream of elements, numbered as    *)
(* they come, some are accepted, and of those some reach each receiver.    *)
(* Any may be lost on the way and a damaged one always is, but none comes  *)
(* twice, out of order, or before it was sent and accepted; and what one   *)
(* receiver misses or delays is nothing to another.                        *)
(***************************************************************************)
EXTENDS Integers

CONSTANTS
  Receiver,
  Damaged     \* the numbers of elements no receiver may be given

VARIABLES
  sent,       \* how many elements there have been
  accepted,   \* the newest that was accepted
  received    \* the newest each receiver has

Init == sent = 0 /\ accepted = 0 /\ received = [r \in Receiver |-> 0]

Send == sent' = sent + 1 /\ UNCHANGED <<accepted, received>>

Accept == accepted' \in accepted + 1 .. sent /\ UNCHANGED <<sent, received>>

Receive(r) ==
  /\ \E n \in (received[r] + 1 .. accepted) \ Damaged :
       received' = [received EXCEPT ![r] = n]
  /\ UNCHANGED <<sent, accepted>>

Next == Send \/ Accept \/ \E r \in Receiver : Receive(r)

Spec == Init /\ [][Next]_<<sent, accepted, received>>
=============================================================================
