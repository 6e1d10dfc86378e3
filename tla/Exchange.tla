------------------------------ MODULE Exchange ------------------------------
(***************************************************************************)
(* What a caller can rely on (docs/transport.md): for every request one of *)
(* five outcomes, exactly one of them, exactly once -- and a request that  *)
(* was begun gets one, whatever becomes of the connection.                 *)
(***************************************************************************)
CONSTANT Requests

VARIABLE outcome

Outcomes == {"answered", "failed", "timedOut", "withdrawn", "lost"}

Init == outcome = [q \in Requests |-> "none"]

Begin(q) == outcome[q] = "none" /\ outcome' = [outcome EXCEPT ![q] = "waiting"]

Settle(q) ==
  /\ outcome[q] = "waiting"
  /\ \E o \in Outcomes : outcome' = [outcome EXCEPT ![q] = o]

Next == \E q \in Requests : Begin(q) \/ Settle(q)

Spec ==
  /\ Init /\ [][Next]_outcome
  /\ \A q \in Requests : WF_outcome(Settle(q))
=============================================================================
