----------------------------- MODULE WriteQueue -----------------------------
(***************************************************************************)
(* What the app may rely on when it calls setData or updateData: the       *)
(* writes of an account wait in a queue, the server commits or refuses     *)
(* them in order, a write leaves the queue only with the server's answer,  *)
(* and the completion handler is told that answer if it is told anything.  *)
(***************************************************************************)
EXTENDS Integers, Sequences

CONSTANTS
  Users,       \* accounts, by uid
  MaxWrites    \* writes are numbered in the order in which they are made

VARIABLES
  pending,     \* each account's writes that wait for the server's answer
  committed,   \* the writes the server has applied
  refused,     \* the writes the server has refused for good
  told         \* what the completion handler of each write has been told

vars == <<pending, committed, refused, told>>

Writes == 1 .. MaxWrites

Init ==
  /\ pending = [u \in Users |-> <<>>]
  /\ committed = {} /\ refused = {}
  /\ told = [w \in Writes |-> "nothing"]

Write(u, w) ==
  /\ \A v \in Users : \A i \in DOMAIN pending[v] : pending[v][i] # w
  /\ w \notin committed \cup refused
  /\ pending' = [pending EXCEPT ![u] = Append(@, w)]
  /\ UNCHANGED <<committed, refused, told>>

\* A write the server has applied may be applied, or refused, once more.
Answered(u, w) ==
  \E i \in DOMAIN pending[u] :
    /\ pending[u][i] = w
    /\ \A j \in 1 .. i - 1 : pending[u][j] \in committed \cup refused

Commit(u, w) ==
  /\ Answered(u, w)
  /\ committed' = committed \cup {w}
  /\ UNCHANGED <<pending, refused, told>>

Refuse(u, w) ==
  /\ Answered(u, w)
  /\ refused' = refused \cup {w}
  /\ UNCHANGED <<pending, committed, told>>

\* A handler is gone once the app has ended.
Leave(u, answer) ==
  /\ pending' = [pending EXCEPT ![u] = Tail(@)]
  /\ told' \in {told, [told EXCEPT ![Head(pending[u])] = answer]}
  /\ UNCHANGED <<committed, refused>>

Acknowledge(u) ==
  pending[u] # <<>> /\ Head(pending[u]) \in committed /\ Leave(u, "ok")

Reject(u) ==
  pending[u] # <<>> /\ Head(pending[u]) \in refused /\ Leave(u, "error")

Next ==
  \E u \in Users :
    \/ Acknowledge(u) \/ Reject(u)
    \/ \E w \in Writes : Write(u, w) \/ Commit(u, w) \/ Refuse(u, w)

Spec == Init /\ [][Next]_vars
=============================================================================
