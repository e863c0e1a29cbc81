--------------------------- MODULE PacerWindowProofs ---------------------------
(***************************************************************************)
(* The TCP pacer never exceeds its rate, for any callers, rate and burst:   *)
(* the bucket with its history implements RateCap.                          *)
(***************************************************************************)
EXTENDS PacerWindow, PacerBucketProofs

WindowTypeOK == /\ BucketTypeOK
                /\ clock \in Nat
                /\ log \in Seq(Nat)

WindowInv == WindowTypeOK /\ CreditBound

\* Every step of the bucket with its history is a step of the bucket.
LEMMA StepIsBucketStep == [Next]_vars => [NextBucket]_bucketVars
  BY DEF Next, vars, NextBucket, Acquire, Arrive, Admit, Wait, Pass

LEMMA WindowTypeInit == Init => WindowTypeOK
  BY BucketTypeInit DEF Init, WindowTypeOK

LEMMA WindowTypeStep == WindowTypeOK /\ [Next]_vars => WindowTypeOK'
<1> SUFFICES ASSUME WindowTypeOK, [Next]_vars PROVE WindowTypeOK'
  OBVIOUS
<1>1. BucketTypeOK'
  BY StepIsBucketStep, BucketTypeStep DEF WindowTypeOK
<1>2. clock' \in Nat /\ log' \in Seq(Nat)
  BY DEF WindowTypeOK, Next, Arrive, Admit, Wait, Pass, vars, historyVars
<1>3. QED
  BY <1>1, <1>2 DEF WindowTypeOK
--------------------------------------------------------------------------------
\* The credit bound of one past grant, as a formula of its index.
Bound(i) == /\ log[i] <= clock
            /\ (Len(log) - i + 1) * Token + TokensNow <= Full + Rate * (clock - log[i])

\* The balance after a step is a balance too.
LEMMA NextBalance == ASSUME WindowTypeOK, [Next]_vars
                     PROVE  TokensNow \in 0..Full /\ TokensNow' \in 0..Full
<1>1. BucketTypeOK /\ BucketTypeOK'
  BY WindowTypeStep DEF WindowTypeOK
<1>2. TokensNow' = AtMost(Full, tokens' + Rate * lag')
  BY DEF TokensNow, AtMost, Full
<1>3. tokens' \in 0..Full /\ lag' \in Nat
  BY <1>1, BucketAssumption DEF BucketTypeOK, Full
<1>4. Rate * lag' \in Nat
  BY <1>3, BucketAssumption, ProductNat
<1>5. QED
  BY <1>1, <1>2, <1>3, <1>4, TokensNowType, FullNat DEF AtMost

\* A step that leaves the history alone and does not raise the balance.
LEMMA QuietStep ==
  ASSUME WindowInv, [Next]_vars, UNCHANGED <<clock, log>>, TokensNow' <= TokensNow
  PROVE  CreditBound'
<1> SUFFICES ASSUME NEW i \in 1..Len(log) PROVE Bound(i)'
  BY DEF CreditBound, Bound, Full
<1>1. /\ log[i] \in Nat /\ clock \in Nat /\ Len(log) - i + 1 \in Nat /\ clock - log[i] \in Nat
      /\ Rate \in Nat /\ Token \in Nat
  BY BucketAssumption DEF WindowInv, WindowTypeOK, CreditBound
<1>2. (Len(log) - i + 1) * Token \in Nat /\ Rate * (clock - log[i]) \in Nat
  BY <1>1, ProductNat
<1>3. Bound(i)
  BY DEF WindowInv, CreditBound, Bound
<1>4. TokensNow \in Nat /\ TokensNow' \in Nat /\ Full \in Nat
  BY NextBalance, FullNat DEF WindowInv
<1>5. QED
  BY <1>2, <1>3, <1>4 DEF Bound, Full

\* An instant earns at most Rate units and moves every deadline by Rate.
LEMMA PassStep == ASSUME WindowInv, Pass PROVE CreditBound'
<1> SUFFICES ASSUME NEW i \in 1..Len(log) PROVE Bound(i)'
  BY DEF CreditBound, Bound, Full, Pass
<1>1. /\ log[i] \in Nat /\ clock \in Nat /\ clock - log[i] \in Nat
      /\ Rate \in Nat /\ Token \in Nat /\ Full \in Nat
      /\ Len(log) - i + 1 \in Nat /\ log' = log /\ clock' = clock + 1
  BY BucketAssumption, FullNat DEF WindowInv, WindowTypeOK, CreditBound, Pass
<1>2. (Len(log) - i + 1) * Token \in Nat /\ Rate * (clock - log[i]) \in Nat
  BY <1>1, ProductNat
<1>3. Rate * (clock' - log'[i]) = Rate * (clock - log[i]) + Rate
  <2>1. clock' - log'[i] = (clock - log[i]) + 1
    BY <1>1
  <2>2. QED
    BY <1>1, <2>1, ProductSucc
<1>4. Bound(i)
  BY DEF WindowInv, CreditBound, Bound
<1>5. [Next]_vars
  BY DEF Next
<1>6. TokensNow \in Nat /\ TokensNow' \in Nat /\ TokensNow' <= TokensNow + Rate
  BY <1>5, NextBalance, FullNat, BalanceAfterTick DEF WindowInv, WindowTypeOK, Pass
<1>7. (Len(log') - i + 1) * Token = (Len(log) - i + 1) * Token
  BY <1>1
<1>8. (Len(log') - i + 1) * Token + TokensNow' <= Full + Rate * (clock' - log'[i])
  <2>1. (Len(log) - i + 1) * Token + TokensNow <= Full + Rate * (clock - log[i])
    BY <1>4 DEF Bound
  <2>2. Rate \in Nat /\ Full \in Nat
    BY <1>1
  <2>3. QED
    BY <1>2, <1>3, <1>6, <1>7, <2>1, <2>2
<1>9. QED
  BY <1>1, <1>4, <1>8 DEF Bound, Full

\* A grant takes a token from the balance and adds one to what was spent.
LEMMA AdmitStep == ASSUME WindowInv, NEW p \in Callers, Admit(p) PROVE CreditBound'
<1>1. /\ Len(log') = Len(log) + 1 /\ clock' = clock /\ Len(log) \in Nat
      /\ log'[Len(log) + 1] = clock
      /\ \A i \in 1..Len(log) : log'[i] = log[i]
  BY DEF WindowInv, WindowTypeOK, Admit
<1>2. Rate \in Nat /\ Token \in Nat /\ Full \in Nat /\ clock \in Nat
  BY BucketAssumption, FullNat DEF WindowInv, WindowTypeOK
<1>3. [Next]_vars
  BY DEF Next
<1>4. TokensNow \in 0..Full /\ TokensNow' = TokensNow - Token
  BY <1>3, NextBalance, BalanceAfterGrant DEF WindowInv, WindowTypeOK, Admit
<1> SUFFICES ASSUME NEW i \in 1..Len(log) + 1 PROVE Bound(i)'
  BY <1>1 DEF CreditBound, Bound, Full
<1>5. CASE i = Len(log) + 1
  <2>1. (Len(log') - i + 1) * Token = Token /\ Rate * (clock' - log'[i]) = 0
    BY <1>1, <1>2, <1>5
  <2>2. log'[i] <= clock'
    BY <1>1, <1>2, <1>5
  <2>3. QED
    BY <1>2, <1>4, <2>1, <2>2 DEF Bound, Full
<1>6. CASE i \in 1..Len(log)
  <2>1. log'[i] = log[i] /\ Len(log) - i + 1 \in Nat /\ log[i] \in Nat
    BY <1>1, <1>6 DEF WindowInv, WindowTypeOK
  <2>2. Bound(i)
    BY <1>6 DEF WindowInv, CreditBound, Bound
  <2>3. (Len(log') - i + 1) * Token = (Len(log) - i + 1) * Token + Token
    <3>1. Len(log') - i + 1 = (Len(log) - i + 1) + 1
      BY <1>1, <1>6
    <3>2. QED
      BY <1>2, <2>1, <3>1
  <2>4. (Len(log) - i + 1) * Token \in Nat
    BY <1>2, <2>1, ProductNat
  <2>5. clock - log[i] \in Nat
    BY <1>2, <2>1, <2>2 DEF Bound
  <2>6. Rate * (clock - log[i]) \in Nat
    BY <1>2, <2>5, ProductNat
  <2>7. (Len(log') - i + 1) * Token + TokensNow' <= Full + Rate * (clock' - log'[i])
    BY <1>1, <1>2, <1>4, <2>1, <2>2, <2>3, <2>4, <2>6 DEF Bound
  <2>8. QED
    BY <1>1, <2>1, <2>2, <2>7 DEF Bound, Full
<1>7. QED
  BY <1>1, <1>5, <1>6

LEMMA CreditStep == WindowInv /\ [Next]_vars => CreditBound'
<1> SUFFICES ASSUME WindowInv, [Next]_vars PROVE CreditBound'
  OBVIOUS
<1>1. TokensNow \in Nat
  BY NextBalance, FullNat DEF WindowInv
<1>2. ASSUME NEW p \in Callers, Arrive(p) PROVE CreditBound'
  <2>1. UNCHANGED <<clock, log>> /\ TokensNow' = TokensNow
    BY <1>2 DEF Arrive, Call, historyVars, TokensNow, AtMost, Full
  <2>2. QED
    BY <1>1, <2>1, QuietStep
<1>3. ASSUME NEW p \in Callers, Wait(p) PROVE CreditBound'
  <2>1. UNCHANGED <<clock, log>> /\ TokensNow' = TokensNow
    BY <1>3, BalanceAfterDoze DEF Wait, historyVars, WindowInv, WindowTypeOK
  <2>2. QED
    BY <1>1, <2>1, QuietStep
<1>4. CASE UNCHANGED vars
  <2>1. UNCHANGED <<clock, log>> /\ TokensNow' = TokensNow
    BY <1>4 DEF vars, bucketVars, historyVars, TokensNow, AtMost, Full
  <2>2. QED
    BY <1>1, <2>1, QuietStep
<1>5. QED
  BY <1>2, <1>3, <1>4, AdmitStep, PassStep DEF Next

LEMMA WindowInvInit == Init => WindowInv
<1>1. Init => CreditBound
  BY DEF Init, CreditBound
<1>2. QED
  BY <1>1, WindowTypeInit DEF WindowInv

LEMMA WindowInvStep == WindowInv /\ [Next]_vars => WindowInv'
  BY CreditStep, WindowTypeStep DEF WindowInv

\* What was spent since any grant plus what is left never exceeds one bucket
\* and what was earned since: acquire() keeps no credit it did not earn.
THEOREM PacerCredit == Spec => []CreditBound
<1>1. WindowInv => CreditBound
  BY DEF WindowInv
<1>2. QED
  BY <1>1, WindowInvInit, WindowInvStep, PTL DEF Spec
--------------------------------------------------------------------------------
\* A grant with a token in the balance is an admission the cap allows.
LEMMA AdmitIsCapped == ASSUME WindowInv, NEW p \in Callers, Admit(p) PROVE Cap!Admit
<1>1. TokensNow >= Token /\ log' = Append(log, clock) /\ UNCHANGED clock
  BY DEF Admit, Grant
<1>2. ASSUME NEW i \in 1..Len(log)
      PROVE  Cap!SpentSince(i) <= Full + Rate * (clock - log[i])
  <2>1. /\ (Len(log) - i + 1) * Token + TokensNow <= Full + Rate * (clock - log[i])
        /\ log[i] <= clock
    BY DEF WindowInv, CreditBound
  <2>2. /\ Len(log) - i + 1 \in Nat /\ Token \in Nat /\ Rate \in Nat /\ Full \in Nat
        /\ clock - log[i] \in Nat
    BY <2>1, BucketAssumption, FullNat DEF WindowInv, WindowTypeOK
  <2>3. (Len(log) - i + 2) * Token = (Len(log) - i + 1) * Token + Token
    <3>1. Len(log) - i + 2 = (Len(log) - i + 1) + 1
      BY DEF WindowInv, WindowTypeOK
    <3>2. QED
      BY <2>2, <3>1
  <2>4. (Len(log) - i + 1) * Token \in Nat /\ Rate * (clock - log[i]) \in Nat
    BY <2>2, ProductNat
  <2>5. TokensNow \in Nat
    BY TokensNowType, FullNat DEF WindowInv, WindowTypeOK
  <2>6. QED
    BY <1>1, <2>1, <2>2, <2>3, <2>4, <2>5 DEF Cap!SpentSince
<1>3. QED
  BY <1>1, <1>2 DEF Cap!Admit

LEMMA StepIsCapped == WindowInv /\ [Next]_vars => [Cap!Next]_Cap!vars
<1> SUFFICES ASSUME WindowInv, [Next]_vars PROVE [Cap!Next]_Cap!vars
  OBVIOUS
<1>1. ASSUME NEW p \in Callers, Arrive(p) PROVE UNCHANGED Cap!vars
  BY <1>1 DEF Arrive, historyVars, Cap!vars
<1>2. ASSUME NEW p \in Callers, Wait(p) PROVE UNCHANGED Cap!vars
  BY <1>2 DEF Wait, historyVars, Cap!vars
<1>3. ASSUME NEW p \in Callers, Admit(p) PROVE Cap!Next
  BY <1>3, AdmitIsCapped DEF Cap!Next
<1>4. CASE Pass
  BY <1>4 DEF Pass, Cap!Tick, Cap!Next
<1>5. CASE UNCHANGED vars
  BY <1>5 DEF vars, historyVars, Cap!vars
<1>6. QED
  BY <1>1, <1>2, <1>3, <1>4, <1>5 DEF Next

\* The pacer implements the abstract rate cap: over every stretch of time at
\* most one bucket plus the rate times the stretch is granted.
THEOREM PacerImplementsCap == Spec => CapSpec
<1>1. Init => Cap!Init
  BY DEF Init, Cap!Init
<1>2. WindowInv /\ [Next]_vars => [Cap!Next]_Cap!vars
  BY StepIsCapped
<1>3. QED
  BY <1>1, <1>2, WindowInvInit, WindowInvStep, PTL DEF Spec, CapSpec, Cap!Spec
--------------------------------------------------------------------------------
\* The cap as one would measure it: between any two grants, these included.
Stretches == \A j \in 1..Len(log) : \A i \in 1..j :
                /\ log[i] <= log[j]
                /\ (j - i + 1) * Token <= Full + Rate * (log[j] - log[i])

LEMMA StretchStep == Stretches /\ WindowInv /\ WindowInv' /\ [Next]_vars => Stretches'
<1> SUFFICES ASSUME Stretches, WindowInv, WindowInv', [Next]_vars,
                    NEW j \in 1..Len(log'), NEW i \in 1..j
             PROVE  /\ log'[i] <= log'[j]
                    /\ (j - i + 1) * Token <= Full + Rate * (log'[j] - log'[i])
  BY DEF Stretches, Full
<1>1. log \in Seq(Nat) /\ log' \in Seq(Nat) /\ Len(log) \in Nat
  BY DEF WindowInv, WindowTypeOK
<1>2. CASE log' = log
  BY <1>2 DEF Stretches
<1>3. ASSUME NEW p \in Callers, Admit(p)
      PROVE  /\ log'[i] <= log'[j]
             /\ (j - i + 1) * Token <= Full + Rate * (log'[j] - log'[i])
  <2>1. log' = Append(log, clock) /\ clock' = clock /\ clock \in Nat
    BY <1>3 DEF Admit, WindowInv, WindowTypeOK
  <2>2. Len(log') = Len(log) + 1 /\ \A k \in 1..Len(log) : log'[k] = log[k]
    BY <1>1, <2>1
  <2>3. CASE j \in 1..Len(log)
    <3>1. i \in 1..Len(log) /\ log'[i] = log[i] /\ log'[j] = log[j]
      BY <1>1, <2>2, <2>3
    <3>2. /\ log[i] <= log[j]
          /\ (j - i + 1) * Token <= Full + Rate * (log[j] - log[i])
      BY <2>3 DEF Stretches
    <3>3. QED
      BY <3>1, <3>2
  <2>4. CASE j = Len(log')
    <3>1. log'[j] = clock' /\ i \in 1..Len(log')
      BY <1>1, <2>1, <2>2, <2>4
    <3>2. /\ log'[i] <= clock'
          /\ (Len(log') - i + 1) * Token + TokensNow' <= Full + Rate * (clock' - log'[i])
      BY <3>1 DEF WindowInv, CreditBound, Full
    <3>3. TokensNow' \in Nat /\ Full \in Nat /\ Token \in Nat /\ Rate \in Nat
      BY NextBalance, FullNat, BucketAssumption DEF WindowInv
    <3>4. (Len(log') - i + 1) * Token \in Nat /\ Rate * (clock' - log'[i]) \in Nat
      <4>1. Len(log') - i + 1 \in Nat /\ clock' - log'[i] \in Nat
        BY <1>1, <2>1, <2>2, <3>1, <3>2
      <4>2. QED
        BY <3>3, <4>1, ProductNat
    <3>5. (Len(log') - i + 1) * Token <= Full + Rate * (clock' - log'[i])
      BY <3>2, <3>3, <3>4
    <3>6. QED
      BY <2>4, <3>1, <3>2, <3>5
  <2>5. QED
    BY <1>1, <2>2, <2>3, <2>4
<1>4. log' = log \/ \E p \in Callers : Admit(p)
  BY DEF Next, Arrive, Wait, Pass, historyVars, vars
<1>5. QED
  BY <1>2, <1>3, <1>4

\* Between any two grants of acquire() no more tokens are handed out than one
\* burst and what the rate earns in between, whoever took them.
THEOREM PacerStretches == Spec => []Stretches
<1>1. Init => Stretches
  BY DEF Init, Stretches
<1>2. QED
  BY <1>1, WindowInvInit, WindowInvStep, StretchStep, PTL DEF Spec
================================================================================
