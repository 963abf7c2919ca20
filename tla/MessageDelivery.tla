-------------------------- MODULE MessageDelivery --------------------------
(***************************************************************************)
(* What the message transfer promises: of the messages submitted, at most  *)
(* one for each key at a time, each is received once and as it was sent.   *)
(***************************************************************************)
EXTENDS Integers, Sequences

CONSTANT Message       \* the messages a sender may submit

VARIABLES
  pending,      \* messages submitted and not yet received
  received      \* messages received, in order

vars == <<pending, received>>

Init == pending = {} /\ received = <<>>

Submit(m) ==
  /\ \A n \in pending : n.key # m.key
  /\ pending' = pending \cup {m}
  /\ UNCHANGED received

Receive(m) ==
  /\ m \in pending
  /\ pending' = pending \ {m}
  /\ received' = Append(received, m)

Next == \E m \in Message : Submit(m) \/ Receive(m)

Spec == Init /\ [][Next]_vars

FairSpec == Spec /\ WF_vars(\E m \in Message : Receive(m))
=============================================================================
