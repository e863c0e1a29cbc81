-------------------------------- MODULE RateCap --------------------------------
(***************************************************************************)
(* What both engines of goslow promise, and nothing about how: "a rate cap  *)
(* with a burst".  README: the HTTP cap is "a hard per-request cap", the    *)
(* TCP pacer paces "to `rate` tokens/sec with a burst of `max`".            *)
(*                                                                          *)
(* log holds the instant of every admission.  Between any earlier admission *)
(* and now, at most  Burst + Rate * elapsed  units of tokens may have been  *)
(* spent, each admission costing Token units.                               *)
(***************************************************************************)
EXTENDS Integers, Sequences

CONSTANTS Rate,    \* units that become available per instant
          Burst,   \* units that may be spent at once after a quiet time
          Token    \* units one admission costs

VARIABLES clock,   \* the current instant
          log      \* the instants of the admissions, oldest first

vars == <<clock, log>>

Init == clock = 0 /\ log = <<>>

\* The admissions from the i-th one to one more made now.
SpentSince(i) == (Len(log) - i + 2) * Token

Admit == /\ \A i \in 1..Len(log) :
               SpentSince(i) <= Burst + Rate * (clock - log[i])
         /\ log' = Append(log, clock)
         /\ UNCHANGED clock

Tick == clock' = clock + 1 /\ UNCHANGED log

Next == Admit \/ Tick

Spec == Init /\ [][Next]_vars
================================================================================
