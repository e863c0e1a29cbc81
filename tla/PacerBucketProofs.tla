--------------------------- MODULE PacerBucketProofs ---------------------------
(* What holds of the pacer's bucket for any number of callers and any rate. *)
EXTENDS PacerBucket, TLAPS

\* Multiplication is monotonic and distributes over an instant: the only facts
\* about products the proofs below need.
LEMMA ProductNat == ASSUME NEW a \in Nat, NEW b \in Nat PROVE a * b \in Nat
  OBVIOUS

LEMMA ProductSucc ==
  ASSUME NEW a \in Int, NEW b \in Int
  PROVE  /\ a * (b + 1) = a * b + a
         /\ a * (b - 1) = a * b - a
  OBVIOUS

LEMMA ProductPos ==
  ASSUME NEW a \in Nat \ {0}, NEW b \in Nat \ {0} PROVE a * b \in Nat \ {0}
  OBVIOUS

\* A sleep truncated to whole instants never earns more than what is missing.
LEMMA DivBound ==
  ASSUME NEW a \in Nat, NEW r \in Nat \ {0}
  PROVE  a \div r \in Nat /\ r * (a \div r) <= a
  OBVIOUS

LEMMA FullNat == Full \in Nat /\ Token <= Full
  BY BucketAssumption, ProductNat DEF Full

\* The refilled balance is a balance.
LEMMA TokensNowType == BucketTypeOK => TokensNow \in 0..Full
<1> SUFFICES ASSUME BucketTypeOK PROVE TokensNow \in 0..Full
  OBVIOUS
<1>1. Rate * lag \in Nat
  BY BucketAssumption, ProductNat DEF BucketTypeOK
<1>2. QED
  BY <1>1, FullNat DEF BucketTypeOK, TokensNow, AtMost

LEMMA NapForType == ASSUME NEW t \in Nat, t < Token PROVE NapFor(t) \in Nat \ {0}
<1>1. (Token - t) \div Rate \in Nat
  BY BucketAssumption, DivBound
<1>2. QED
  BY <1>1, BucketAssumption DEF NapFor
--------------------------------------------------------------------------------
LEMMA BucketTypeInit == InitBucket => BucketTypeOK
  BY FullNat, BucketAssumption DEF InitBucket, BucketTypeOK

LEMMA BucketTypeStep ==
  BucketTypeOK /\ [NextBucket]_bucketVars => BucketTypeOK'
<1> SUFFICES ASSUME BucketTypeOK, [NextBucket]_bucketVars PROVE BucketTypeOK'
  OBVIOUS
<1>1. TokensNow \in 0..Full
  BY TokensNowType
<1>2. ASSUME NEW p \in Callers, Call(p) PROVE BucketTypeOK'
  BY <1>2 DEF Call, BucketTypeOK, Full
<1>3. ASSUME NEW p \in Callers, Grant(p) PROVE BucketTypeOK'
  BY <1>1, <1>3, BucketAssumption DEF Grant, BucketTypeOK, Full
<1>4. ASSUME NEW p \in Callers, Doze(p) PROVE BucketTypeOK'
  <2>1. NapFor(TokensNow) \in Nat
    BY <1>1, <1>4, NapForType, FullNat DEF Doze
  <2>2. QED
    BY <1>1, <1>4, <2>1, BucketAssumption DEF Doze, BucketTypeOK, Full
<1>5. CASE Tick
  BY <1>5, BucketAssumption DEF Tick, BucketTypeOK, Full
<1>6. CASE UNCHANGED bucketVars
  BY <1>6 DEF bucketVars, BucketTypeOK, Full
<1>7. QED
  BY <1>2, <1>3, <1>4, <1>5, <1>6 DEF NextBucket, Acquire

\* Type correctness of the bucket, for any callers, rate and burst.
THEOREM BucketTypes == SpecBucket => []BucketTypeOK
<1>1. InitBucket => BucketTypeOK
  BY BucketTypeInit
<1>2. BucketTypeOK /\ [NextBucket]_bucketVars => BucketTypeOK'
  BY BucketTypeStep
<1>3. QED
  BY <1>1, <1>2, PTL DEF SpecBucket
--------------------------------------------------------------------------------
\* How each action moves the balance a caller would find.
LEMMA BalanceAfterGrant ==
  ASSUME BucketTypeOK, NEW p \in Callers, Grant(p)
  PROVE  TokensNow' = TokensNow - Token
<1>1. TokensNow \in 0..Full
  BY TokensNowType
<1>2. tokens' = TokensNow - Token /\ lag' = 0 /\ TokensNow >= Token
  BY DEF Grant
<1>3. Rate * lag' = 0
  BY <1>2, BucketAssumption
<1>4. TokensNow' = AtMost(Full, tokens' + Rate * lag')
  BY DEF TokensNow, AtMost, Full
<1>5. QED
  BY <1>1, <1>2, <1>3, <1>4, FullNat, BucketAssumption DEF AtMost

LEMMA BalanceAfterDoze ==
  ASSUME BucketTypeOK, NEW p \in Callers, Doze(p)
  PROVE  TokensNow' = TokensNow
<1>1. TokensNow \in 0..Full
  BY TokensNowType
<1>2. tokens' = TokensNow /\ lag' = 0
  BY DEF Doze
<1>3. Rate * lag' = 0
  BY <1>2, BucketAssumption
<1>4. TokensNow' = AtMost(Full, tokens' + Rate * lag')
  BY DEF TokensNow, AtMost, Full
<1>5. QED
  BY <1>1, <1>2, <1>3, <1>4, FullNat DEF AtMost

LEMMA BalanceAfterTick ==
  ASSUME BucketTypeOK, Tick
  PROVE  TokensNow' <= TokensNow + Rate
<1>1. /\ Rate \in Nat \ {0} /\ Full \in Nat /\ lag \in Nat /\ tokens \in 0..Full
      /\ Rate * lag \in Nat /\ Rate * lag' \in Nat
  BY FullNat, BucketAssumption, ProductNat DEF BucketTypeOK, Tick
<1>2. TokensNow' = AtMost(Full, tokens + Rate * lag')
  BY DEF TokensNow, AtMost, Full, Tick
<1>3. Rate * lag' <= Rate * lag + Rate
  BY <1>1, ProductSucc, BucketAssumption DEF Tick, BucketTypeOK
<1>4. QED
  BY <1>1, <1>2, <1>3 DEF TokensNow, AtMost
--------------------------------------------------------------------------------
\* Every caller's sleep was computed from a balance that others have since
\* drawn on, never added to: a caller that sleeps for longer than the one
\* millisecond floor is not owed a token before it wakes.
NapsFit == \A p \in Callers :
             nap[p] > MinNap => TokensNow + Rate * nap[p] <= Token

\* NapsFit is inductive: grants only draw on the balance, an instant shortens a
\* sleep by as much as it earns, and a fresh sleep fits by DivBound.
NapInv == BucketTypeOK /\ NapsFit

LEMMA FreshNapFits ==
  ASSUME NEW t \in Nat, t < Token, NapFor(t) > MinNap
  PROVE  t + Rate * NapFor(t) <= Token
<1>1. NapFor(t) = (Token - t) \div Rate
  BY BucketAssumption, DivBound DEF NapFor
<1>2. Token - t \in Nat
  BY BucketAssumption
<1>3. Rate * ((Token - t) \div Rate) <= Token - t /\ (Token - t) \div Rate \in Nat
  BY <1>2, DivBound, BucketAssumption
<1>4. Rate * NapFor(t) \in Nat
  BY <1>1, <1>3, ProductNat, BucketAssumption
<1>5. QED
  BY <1>1, <1>3, <1>4, BucketAssumption

LEMMA NapsFitStep == NapInv /\ [NextBucket]_bucketVars => NapsFit'
<1> SUFFICES ASSUME NapInv, [NextBucket]_bucketVars,
                    NEW q \in Callers, nap'[q] > MinNap
             PROVE  TokensNow' + Rate * nap'[q] <= Token
  BY BucketAssumption DEF NapsFit
<1> USE DEF NapInv
<1>1. TokensNow \in 0..Full /\ TokensNow' \in 0..Full
  <2>1. BucketTypeOK'
    BY BucketTypeStep
  <2>2. TokensNow' = AtMost(Full, tokens' + Rate * lag')
    BY DEF TokensNow, AtMost, Full
  <2>3. tokens' \in 0..Full /\ lag' \in Nat
    BY <2>1, BucketAssumption DEF BucketTypeOK, Full
  <2>4. Rate * lag' \in Nat
    BY <2>3, BucketAssumption, ProductNat
  <2>5. QED
    BY <2>2, <2>3, <2>4, TokensNowType, FullNat DEF AtMost
<1>2. /\ nap[q] \in Nat /\ Rate \in Nat /\ Token \in Nat /\ MinNap \in Nat
      /\ Full \in Nat
      /\ Rate * nap[q] \in Nat
  BY BucketAssumption, ProductNat, FullNat DEF BucketTypeOK
<1>3. ASSUME NEW p \in Callers, Call(p)
      PROVE  TokensNow' + Rate * nap'[q] <= Token
  BY <1>3 DEF Call, NapsFit, TokensNow, AtMost, Full
<1>4. ASSUME NEW p \in Callers, Grant(p)
      PROVE  TokensNow' + Rate * nap'[q] <= Token
  <2>1. nap'[q] = nap[q]
    BY <1>4 DEF Grant
  <2>2. TokensNow' = TokensNow - Token
    BY <1>4, BalanceAfterGrant
  <2>3. QED
    BY <1>1, <1>2, <2>1, <2>2 DEF NapsFit
<1>5. ASSUME NEW p \in Callers, Doze(p)
      PROVE  TokensNow' + Rate * nap'[q] <= Token
  <2>1. TokensNow' = TokensNow
    BY <1>5, BalanceAfterDoze
  <2>2. CASE q = p
    <3>1. nap'[q] = NapFor(TokensNow) /\ TokensNow < Token
      BY <1>5, <2>2 DEF Doze, BucketTypeOK
    <3>2. QED
      BY <1>1, <2>1, <3>1, FreshNapFits
  <2>3. CASE q # p
    BY <1>5, <2>1, <2>3 DEF Doze, BucketTypeOK, NapsFit
  <2>4. QED
    BY <2>2, <2>3
<1>6. CASE Tick
  <2>1. nap'[q] = nap[q] - 1 /\ nap[q] > MinNap
    BY <1>2, <1>6, BucketAssumption DEF Tick
  <2>2. Rate * nap'[q] = Rate * nap[q] - Rate
    BY <1>2, <2>1, ProductSucc
  <2>3. TokensNow' <= TokensNow + Rate
    BY <1>6, BalanceAfterTick
  <2>4. TokensNow + Rate * nap[q] <= Token
    BY <2>1 DEF NapsFit
  <2>5. QED
    BY <1>1, <1>2, <2>2, <2>3, <2>4
<1>7. CASE UNCHANGED bucketVars
  BY <1>7 DEF bucketVars, NapsFit, TokensNow, AtMost, Full
<1>8. QED
  BY <1>3, <1>4, <1>5, <1>6, <1>7 DEF NextBucket, Acquire

LEMMA NapsFitSuffices == NapInv => NoOversleep
<1> SUFFICES ASSUME NapInv, TokensNow >= Token, NEW p \in Callers,
                    ~(nap[p] <= MinNap)
             PROVE  FALSE
  BY DEF NoOversleep
<1>1. nap[p] \in Nat \ {0} /\ nap[p] > MinNap
  BY BucketAssumption DEF NapInv, BucketTypeOK
<1>2. Rate * nap[p] \in Nat \ {0}
  BY <1>1, ProductPos, BucketAssumption
<1>3. TokensNow + Rate * nap[p] <= Token
  BY <1>1 DEF NapInv, NapsFit
<1>4. TokensNow \in Nat
  BY TokensNowType, FullNat DEF NapInv
<1>5. QED
  BY <1>2, <1>3, <1>4, BucketAssumption

\* Whoever takes, refills or sleeps, once a token is in the bucket no waiting
\* caller sleeps for longer than the millisecond floor of acquire().
THEOREM BucketNoOversleep == SpecBucket => []NoOversleep
<1>1. InitBucket => NapInv
  <2>1. InitBucket => NapsFit
    BY BucketAssumption DEF InitBucket, NapsFit
  <2>2. QED
    BY <2>1, BucketTypeInit DEF NapInv
<1>2. NapInv /\ [NextBucket]_bucketVars => NapInv'
  BY NapsFitStep, BucketTypeStep DEF NapInv
<1>3. NapInv => NoOversleep
  BY NapsFitSuffices
<1>4. QED
  BY <1>1, <1>2, <1>3, PTL DEF SpecBucket
================================================================================
