------------------------------- MODULE HttpWindow -------------------------------
(***************************************************************************)
(* The HTTP engine with a history of its admissions: when each one was      *)
(* made, and how many since the gauge last set the rate.  The history       *)
(* records what HttpLimiter does and never restrains it.                    *)
(***************************************************************************)
EXTENDS HttpLimiter

VARIABLES clock,   \* the current instant
          log,     \* the instants of the admissions, oldest first
          burst,   \* admissions since the gauge last set the rate, or the start
          since    \* instants since then

windowVars == <<clock, log, burst, since>>
vars == <<limiterVars, windowVars>>

Init == InitLimiter /\ clock = 0 /\ log = <<>> /\ burst = 0 /\ since = 0

AdmitNow == /\ Admit
            /\ log' = Append(log, clock) /\ burst' = burst + 1
            /\ UNCHANGED <<clock, since>>

SetRate == /\ Regulate
           /\ burst' = 0 /\ since' = 0
           /\ UNCHANGED <<clock, log>>

Pass == /\ Tick
        /\ clock' = clock + 1 /\ since' = since + 1
        /\ UNCHANGED <<log, burst>>

Quiet == (Sleep \/ Observe \/ Hook) /\ UNCHANGED windowVars

Next == AdmitNow \/ SetRate \/ Pass \/ Quiet

Spec == Init /\ [][Next]_vars
--------------------------------------------------------------------------------
\* The most that could ever be sent at once.
FullCap == Ceiling * Second

\* What the balance would be had the ceiling been in force all along: never
\* less than the balance itself.
Credit == Smaller(FullCap, tokens + Ceiling * lag)

\* The inductive form of the cap, over the gauge's whole history.
CreditBound ==
  \A i \in 1..Len(log) :
     /\ log[i] <= clock
     /\ (Len(log) - i + 1) * Token + Credit <= FullCap + Ceiling * (clock - log[i])

\* "HARD global HTTP request-rate cap" (ratelimit.py:1), "`--rate` is a CEILING
\* the effective rate can never exceed" (ratelimit.py:20-21): whatever the
\* gauge does to the rate, the burst and the balance, and whenever it does it,
\* no stretch of time sees more than one burst and the ceiling's earnings.
Cap == INSTANCE RateCap WITH Rate <- Ceiling, Burst <- FullCap
CapSpec == Cap!Spec

\* A rate the gauge sets is in force at once: what is admitted under it is at
\* most one second's burst of it and what it earned, although the lag from
\* before the change is credited after it and at the new rate.
RateInForce == burst * Token + TokensNow <= rate * Second + rate * since
================================================================================
