---------------------------- MODULE MCPacerWindow ----------------------------
(* The history of PacerWindow, bounded for model checking. *)
EXTENDS PacerWindow

CONSTANT MaxClock   \* the clock stops here

BoundedNext ==
  \/ clock < MaxClock /\ Pass
  \/ \E p \in Callers : Arrive(p) \/ Admit(p) \/ Wait(p)

BoundedSpec == Init /\ [][BoundedNext]_vars
================================================================================
