------------------------------ MODULE MCLifecycle ------------------------------
(* The flags of the runs of Lifecycle, for model checking. *)
EXTENDS Lifecycle

Flag(m, h) == [mode |-> m, hosts |-> h]

\* Every mode; names, and so a refresher, in the one that has all the steps.
SomeKinds == {Flag("hybrid", TRUE), Flag("http", FALSE), Flag("coarse", FALSE)}
================================================================================
