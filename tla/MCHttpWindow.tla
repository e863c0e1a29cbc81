------------------------------ MODULE MCHttpWindow ------------------------------
(* The history of HttpWindow, bounded for model checking. *)
EXTENDS HttpWindow

CONSTANT MaxClock   \* the clock stops here

BoundedNext == \/ clock < MaxClock /\ Pass
               \/ AdmitNow \/ SetRate \/ Quiet

BoundedSpec == Init /\ [][BoundedNext]_vars
================================================================================
