------------------------------ MODULE PacerWindow ------------------------------
(***************************************************************************)
(* The TCP pacer's bucket with a history: when each token was granted.  The *)
(* history records what the bucket does and never restrains it.             *)
(***************************************************************************)
EXTENDS PacerBucket, Sequences

VARIABLES clock,   \* the current instant
          log      \* the instants at which a token was granted, oldest first

historyVars == <<clock, log>>
vars == <<bucketVars, historyVars>>

Init == InitBucket /\ clock = 0 /\ log = <<>>

Arrive(p) == Call(p) /\ UNCHANGED historyVars

Admit(p) == /\ Grant(p)
            /\ log' = Append(log, clock)
            /\ UNCHANGED clock

Wait(p) == Doze(p) /\ UNCHANGED historyVars

Pass == /\ Tick
        /\ clock' = clock + 1
        /\ UNCHANGED log

Next == Pass \/ \E p \in Callers : Arrive(p) \/ Admit(p) \/ Wait(p)

Spec == Init /\ [][Next]_vars
--------------------------------------------------------------------------------
\* What was spent since a grant, plus what could be spent at once now, never
\* exceeds one burst and what was earned since: the inductive form of the cap.
CreditBound ==
  \A i \in 1..Len(log) :
     /\ log[i] <= clock
     /\ (Len(log) - i + 1) * Token + TokensNow <= Full + Rate * (clock - log[i])

\* "pacing to `rate` tokens/sec with a burst of `max`" (tcpproxy.go:193-194):
\* over every stretch of time the grants of all callers together are at most
\* one bucket and the rate times the stretch, however the callers interleave,
\* oversleep or retry.
Cap == INSTANCE RateCap WITH Burst <- Full
CapSpec == Cap!Spec
================================================================================
