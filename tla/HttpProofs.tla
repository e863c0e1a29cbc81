------------------------------- MODULE HttpProofs -------------------------------
(***************************************************************************)
(* What holds of the HTTP engine for any flows, rates and timeouts; and     *)
(* that it never exceeds its ceiling, however the gauge moves the rate:     *)
(* with its history it implements RateCap.                                  *)
(***************************************************************************)
EXTENDS HttpWindow, SequenceTheorems, TLAPS

LEMMA ProductNat == ASSUME NEW a \in Nat, NEW b \in Nat PROVE a * b \in Nat
  OBVIOUS

LEMMA ProductSucc == ASSUME NEW a \in Int, NEW b \in Int PROVE a * (b + 1) = a * b + a
  OBVIOUS

LEMMA ProductMono ==
  ASSUME NEW a \in Nat, NEW b \in Nat, NEW c \in Nat, a <= b
  PROVE  a * c <= b * c
<1>1. (b - a) * c \in Nat
  BY ProductNat
<1>2. b * c = a * c + (b - a) * c
  OBVIOUS
<1>3. a * c \in Nat /\ b * c \in Nat
  BY ProductNat
<1>4. QED
  BY <1>1, <1>2, <1>3

LEMMA DivNat == ASSUME NEW a \in Nat, NEW r \in Nat \ {0} PROVE a \div r \in Nat
  OBVIOUS

\* A sleep is a number of instants.
LEMMA SleepForType ==
  ASSUME LimiterTypeOK, NEW t \in Nat, t < Token PROVE SleepFor(t) \in Nat
<1>1. rate \in Nat \ {0}
  BY LimiterAssumption DEF LimiterTypeOK
<1>2. Token - t + rate - 1 \in Nat
  BY <1>1, LimiterAssumption
<1>3. QED
  BY <1>1, <1>2, DivNat DEF SleepFor

\* The capacity of every rate the gauge may choose.
LEMMA CapacityType ==
  ASSUME NEW r \in Floor..Ceiling PROVE r * Second \in 0..Ceiling * Second
<1>1. r \in Nat /\ Ceiling \in Nat /\ Second \in Nat /\ r <= Ceiling
  BY LimiterAssumption
<1>2. r * Second \in Nat /\ Ceiling * Second \in Nat /\ r * Second <= Ceiling * Second
  BY <1>1, ProductNat, ProductMono
<1>3. QED
  BY <1>2

\* The refilled balance fits the bucket.
LEMMA TokensNowType == LimiterTypeOK => TokensNow \in 0..capacity
<1> SUFFICES ASSUME LimiterTypeOK PROVE TokensNow \in 0..capacity
  OBVIOUS
<1>1. rate * lag \in Nat
  BY LimiterAssumption, ProductNat DEF LimiterTypeOK
<1>2. capacity \in Nat /\ tokens \in 0..capacity
  BY LimiterAssumption, ProductNat DEF LimiterTypeOK
<1>3. QED
  BY <1>1, <1>2 DEF TokensNow, Smaller

\* The gauge never leaves its band: back-off, ease and ramp all stay between
\* the floor and the ceiling.
LEMMA NextRateType ==
  ASSUME LimiterTypeOK, NEW r \in Ratios PROVE NextRate(r) \in Floor..Ceiling
<1>1. rate \in Floor..Ceiling /\ Floor \in Nat /\ Ceiling \in Nat /\ Step \in Nat
  BY LimiterAssumption DEF LimiterTypeOK
<1>2. Backoff \in Floor..Ceiling /\ Ease \in Floor..Ceiling /\ Ramp \in Floor..Ceiling
  BY <1>1, LimiterAssumption DEF Backoff, Ease, Ramp, Larger, Smaller
<1>3. QED
  BY <1>1, <1>2 DEF NextRate

\* A sequence without one of its elements.
LEMMA RemoveAtType ==
  ASSUME NEW S, NEW s \in Seq(S), NEW i \in DOMAIN s PROVE RemoveAt(s, i) \in Seq(S)
<1>1. SubSeq(s, 1, i - 1) \in Seq(S) /\ SubSeq(s, i + 1, Len(s)) \in Seq(S)
  BY SubSeqProperties
<1>2. QED
  BY <1>1, ConcatProperties DEF RemoveAt
--------------------------------------------------------------------------------
LEMMA LimiterTypeInit == InitLimiter => LimiterTypeOK
<1> SUFFICES ASSUME InitLimiter PROVE LimiterTypeOK
  OBVIOUS
<1>1. rate \in Floor..Ceiling /\ Floor \in Floor..Ceiling /\ Floor <= rate
  BY LimiterAssumption DEF InitLimiter
<1>2. /\ rate * Second \in 0..Ceiling * Second
      /\ Floor * Second \in Nat
      /\ Floor * Second <= rate * Second
  BY <1>1, CapacityType, ProductNat, ProductMono, LimiterAssumption
<1>3. capacity \in 0..Ceiling * Second /\ tokens \in 0..capacity
  BY <1>2 DEF InitLimiter
<1>4. queue \in Seq(Flows) /\ age \in [Flows -> -1..Reap + 1]
  BY LimiterAssumption DEF InitLimiter, Absent
<1>5. newLoss \in BOOLEAN /\ ratio \in Ratios /\ mode \in Modes
  BY DEF InitLimiter, Ratios
<1>6. /\ lag \in 0..FillTime /\ nap \in Nat /\ sent \subseteq Flows
      /\ warm \in 0..Warmup /\ timer \in 0..Second
  BY LimiterAssumption DEF InitLimiter
<1>7. QED
  BY <1>1, <1>3, <1>4, <1>5, <1>6 DEF LimiterTypeOK

LEMMA LimiterTypeStep ==
  LimiterTypeOK /\ [NextLimiter]_limiterVars => LimiterTypeOK'
<1> SUFFICES ASSUME LimiterTypeOK, [NextLimiter]_limiterVars PROVE LimiterTypeOK'
  OBVIOUS
<1>1. TokensNow \in 0..capacity /\ capacity \in Nat /\ Token \in Nat \ {0}
  BY TokensNowType, LimiterAssumption, ProductNat DEF LimiterTypeOK
<1>2. CASE Admit
  <2>1. tokens' \in 0..capacity /\ lag' = 0 /\ UNCHANGED <<rate, capacity>>
    BY <1>1, <1>2 DEF Admit
  <2>2. Head(queue) \in Flows /\ queue' \in Seq(Flows)
    BY <1>2, HeadTailProperties DEF Admit, LimiterTypeOK
  <2>3. sent' \subseteq Flows /\ age' \in [Flows -> -1..Reap + 1]
    BY <1>2, <2>2, LimiterAssumption DEF Admit, LimiterTypeOK
  <2>4. QED
    BY <1>2, <2>1, <2>2, <2>3, LimiterAssumption DEF Admit, LimiterTypeOK
<1>3. CASE Sleep
  <2>1. nap' \in Nat
    BY <1>1, <1>3, SleepForType DEF Sleep
  <2>2. tokens' \in 0..capacity' /\ lag' \in 0..FillTime
    BY <1>1, <1>3, LimiterAssumption DEF Sleep
  <2>3. QED
    BY <1>3, <2>1, <2>2 DEF Sleep, LimiterTypeOK
<1>4. CASE Observe
  BY <1>4, LimiterAssumption DEF Observe, LimiterTypeOK, bucket, flows
<1>5. CASE Regulate
  <2>1. rate' \in Floor..Ceiling /\ ratio' \in Ratios
    BY <1>5, NextRateType DEF Regulate
  <2>2. capacity' \in 0..Ceiling * Second
    BY <1>5, <2>1, CapacityType DEF Regulate, NextCapacity
  <2>3. tokens' \in 0..capacity'
    <3>1. tokens' = Smaller(capacity', tokens) /\ tokens \in Nat /\ capacity' \in Nat
      BY <1>1, <1>5, <2>2, LimiterAssumption, ProductNat DEF Regulate, LimiterTypeOK
    <3>2. QED
      BY <3>1 DEF Smaller
  <2>4. age' \in [Flows -> -1..Reap + 1]
    BY <1>5, LimiterAssumption DEF Regulate, Reaped, LimiterTypeOK, Absent
  <2>5. timer' \in 0..Second /\ UNCHANGED <<mode, lag, queue, nap, sent, warm>>
    BY <1>5, LimiterAssumption DEF Regulate
  <2>6. newLoss' \in BOOLEAN
    BY <1>5 DEF Regulate
  <2>7. QED
    BY <2>1, <2>2, <2>3, <2>4, <2>5, <2>6 DEF LimiterTypeOK
<1>6. CASE Tick
  <2>1. age' \in [Flows -> -1..Reap + 1]
    BY <1>6, LimiterAssumption DEF Tick, LimiterTypeOK, Absent, Smaller
  <2>2. /\ lag' \in 0..FillTime /\ nap' \in Nat
        /\ warm' \in 0..Warmup /\ timer' \in 0..Second
    BY <1>6, LimiterAssumption DEF Tick, LimiterTypeOK, Smaller, Down
  <2>3. QED
    BY <1>6, <2>1, <2>2 DEF Tick, LimiterTypeOK
<1>7. ASSUME NEW f \in Flows, Request(f) PROVE LimiterTypeOK'
  BY <1>7, AppendProperties DEF Request, LimiterTypeOK, bucket
<1>8. ASSUME NEW f \in Flows, Respond(f) \/ Fail(f) PROVE LimiterTypeOK'
  <2>1. age' \in [Flows -> -1..Reap + 1] /\ sent' \subseteq Flows
    BY <1>8, LimiterAssumption DEF Respond, Fail, LimiterTypeOK, Absent
  <2>2. newLoss' \in BOOLEAN
    BY <1>8 DEF Respond, Fail, LimiterTypeOK
  <2>3. UNCHANGED <<mode, rate, capacity, tokens, lag, queue, nap, warm, timer, ratio>>
    BY <1>8 DEF Respond, Fail, bucket
  <2>4. QED
    BY <2>1, <2>2, <2>3 DEF LimiterTypeOK
<1>9. ASSUME NEW i \in DOMAIN queue, Cancel(i) PROVE LimiterTypeOK'
  <2>1. queue' \in Seq(Flows)
    BY <1>9, RemoveAtType DEF Cancel, LimiterTypeOK
  <2>2. nap' \in Nat
    BY <1>9 DEF Cancel, LimiterTypeOK
  <2>3. QED
    BY <1>9, <2>1, <2>2 DEF Cancel, LimiterTypeOK, bucket
<1>10. CASE UNCHANGED limiterVars
  BY <1>10 DEF limiterVars, bucket, flows, LimiterTypeOK
<1>11. QED
  BY <1>2, <1>3, <1>4, <1>5, <1>6, <1>7, <1>8, <1>9, <1>10 DEF NextLimiter, Hook

\* Type correctness of the HTTP engine; in particular the rate stays between
\* the floor and the ceiling and the balance within the burst.
THEOREM LimiterTypes == SpecLimiter => []LimiterTypeOK
<1>1. InitLimiter => LimiterTypeOK
  BY LimiterTypeInit
<1>2. LimiterTypeOK /\ [NextLimiter]_limiterVars => LimiterTypeOK'
  BY LimiterTypeStep
<1>3. QED
  BY <1>1, <1>2, PTL DEF SpecLimiter
--------------------------------------------------------------------------------
\* Only the tick of the gauge clears the losses, and it backs off when there
\* are any: for any warm-up, timeouts and interleaving with the hooks.
THEOREM LossesBindTheGauge == SpecLimiter => NoLossForgotten
<1>1. ASSUME [NextLimiter]_limiterVars, newLoss, ~newLoss' PROVE rate' = Backoff
  <2>1. Regulate
    BY <1>1 DEF NextLimiter, Hook, limiterVars, flows, bucket,
       Admit, Sleep, Observe, Tick, Request, Respond, Fail, Cancel
  <2>2. PICK r \in Ratios : rate' = NextRate(r)
    BY <2>1 DEF Regulate
  <2>3. Distress(r)
    BY <1>1 DEF Distress
  <2>4. NextRate(r) = Backoff
    BY <2>3 DEF NextRate
  <2>5. QED
    BY <2>2, <2>4
<1>2. [NextLimiter]_limiterVars
      => [newLoss /\ ~newLoss' => rate' = Backoff]_limiterVars
  BY <1>1
<1>3. QED
  BY <1>2, PTL DEF SpecLimiter, NoLossForgotten
--------------------------------------------------------------------------------
\* Nobody is twice in line for the lock, or in line and upstream.
InLine == /\ \A i, j \in DOMAIN queue : queue[i] = queue[j] => i = j
          /\ \A i \in DOMAIN queue : queue[i] \notin sent
          /\ \A f \in Flows : age[f] # Absent => f \in sent

TrackInv == LimiterTypeOK /\ InLine

\* The place of what comes after the i-th of n.
LEMMA Shift ==
  ASSUME NEW n \in Nat, NEW i \in 1..n, NEW j \in 1..n - 1, ~(j < i)
  PROVE  /\ j - (i - 1) \in 1..n - i /\ i + (j - (i - 1)) = j + 1
         /\ j \in 1..(i - 1) + (n - i) /\ ~(j <= i - 1)
  OBVIOUS

\* What a sequence holds without one of its elements.
LEMMA RemoveAtElements ==
  ASSUME NEW S, NEW s \in Seq(S), NEW i \in DOMAIN s
  PROVE  /\ DOMAIN RemoveAt(s, i) = 1..Len(s) - 1
         /\ \A j \in 1..Len(s) - 1 : RemoveAt(s, i)[j] = IF j < i THEN s[j] ELSE s[j + 1]
<1>1. i \in 1..Len(s) /\ Len(s) \in Nat
  OBVIOUS
<1>2. /\ SubSeq(s, 1, i - 1) \in Seq(S) /\ Len(SubSeq(s, 1, i - 1)) = i - 1
      /\ \A j \in 1..i - 1 : SubSeq(s, 1, i - 1)[j] = s[j]
  BY <1>1, SubSeqProperties
<1>3. /\ SubSeq(s, i + 1, Len(s)) \in Seq(S) /\ Len(SubSeq(s, i + 1, Len(s))) = Len(s) - i
      /\ \A j \in 1..Len(s) - i : SubSeq(s, i + 1, Len(s))[j] = s[i + j]
  BY <1>1, SubSeqProperties
<1> DEFINE a == SubSeq(s, 1, i - 1)
           b == SubSeq(s, i + 1, Len(s))
<1>4. /\ Len(a \o b) = Len(a) + Len(b) /\ a \o b \in Seq(S)
      /\ \A j \in 1..Len(a) + Len(b) :
            (a \o b)[j] = IF j <= Len(a) THEN a[j] ELSE b[j - Len(a)]
  BY <1>2, <1>3, ConcatProperties
<1>5. RemoveAt(s, i) = a \o b /\ Len(a) = i - 1 /\ Len(b) = Len(s) - i
  BY <1>2, <1>3 DEF RemoveAt
<1> HIDE DEF a, b
<1>6. Len(a \o b) = Len(s) - 1 /\ DOMAIN (a \o b) = 1..Len(s) - 1
  BY <1>1, <1>4, <1>5
<1>7. ASSUME NEW j \in 1..Len(s) - 1
      PROVE  (a \o b)[j] = IF j < i THEN s[j] ELSE s[j + 1]
  <2>1. CASE j < i
    BY <1>1, <1>2, <1>4, <1>5, <2>1 DEF a
  <2>2. CASE ~(j < i)
    <3>1. /\ j - (i - 1) \in 1..Len(s) - i /\ i + (j - (i - 1)) = j + 1
          /\ j \in 1..Len(a) + Len(b) /\ ~(j <= Len(a))
      BY <1>1, <1>5, <2>2, Shift
    <3>2. b[j - (i - 1)] = s[j + 1]
      BY <1>3, <3>1 DEF b
    <3>3. QED
      BY <1>4, <1>5, <2>2, <3>1, <3>2
  <2>3. QED
    BY <2>1, <2>2
<1>8. QED
  BY <1>5, <1>6, <1>7

LEMMA TrackStep == TrackInv /\ [NextLimiter]_limiterVars => TrackInv'
<1> SUFFICES ASSUME TrackInv, [NextLimiter]_limiterVars PROVE InLine'
  BY LimiterTypeStep DEF TrackInv
<1>1. /\ LimiterTypeOK /\ InLine /\ queue \in Seq(Flows) /\ sent \subseteq Flows
      /\ age \in [Flows -> -1..Reap + 1]
  BY DEF TrackInv, LimiterTypeOK
<1>2. CASE Admit
  <2>1. /\ queue # <<>> /\ queue' = Tail(queue) /\ sent' = sent \cup {queue[1]}
        /\ 1 \in DOMAIN queue
        /\ \A f \in Flows : age'[f] # Absent => age[f] # Absent \/ f = queue[1]
    BY <1>1, <1>2 DEF Admit
  <2>2. /\ DOMAIN Tail(queue) = 1..Len(queue) - 1
        /\ \A i \in 1..Len(queue) - 1 : Tail(queue)[i] = queue[i + 1]
        /\ DOMAIN queue = 1..Len(queue) /\ Len(queue) \in Nat
    BY <1>1, <2>1, HeadTailProperties
  <2>3. \A i \in DOMAIN queue' : /\ i + 1 \in DOMAIN queue /\ i + 1 # 1 /\ i \in Nat
                                 /\ queue'[i] = queue[i + 1]
    BY <2>1, <2>2
  <2>4. \A i, j \in DOMAIN queue' : queue'[i] = queue'[j] => i = j
    BY <1>1, <2>3 DEF InLine
  <2>5. \A i \in DOMAIN queue' : queue'[i] \notin sent'
    BY <1>1, <2>1, <2>3 DEF InLine
  <2>6. QED
    BY <1>1, <2>1, <2>4, <2>5 DEF InLine
<1>3. CASE Sleep \/ Observe
  BY <1>1, <1>3 DEF Sleep, Observe, flows, InLine
<1>4. CASE Regulate \/ Tick
  <2>1. /\ UNCHANGED <<queue, sent>>
        /\ \A f \in Flows : age'[f] # Absent => age[f] # Absent
    BY <1>4 DEF Regulate, Tick, Reaped, Absent
  <2>2. QED
    BY <1>1, <2>1 DEF InLine
<1>5. ASSUME NEW f \in Flows, Request(f) PROVE InLine'
  <2>1. /\ queue' = Append(queue, f) /\ UNCHANGED <<sent, age>> /\ f \notin sent
        /\ \A i \in DOMAIN queue : queue[i] # f
    BY <1>5 DEF Request, Queued, ToSet
  <2>2. /\ DOMAIN Append(queue, f) = 1..Len(queue) + 1 /\ DOMAIN queue = 1..Len(queue)
        /\ \A i \in 1..Len(queue) : Append(queue, f)[i] = queue[i]
        /\ Append(queue, f)[Len(queue) + 1] = f /\ Len(queue) \in Nat
    BY <1>1, AppendProperties
  <2>3. QED
    BY <1>1, <2>1, <2>2 DEF InLine
<1>6. ASSUME NEW f \in Flows, Respond(f) \/ Fail(f) PROVE InLine'
  <2>1. sent' = sent \ {f} /\ queue' = queue /\ age' = [age EXCEPT ![f] = Absent]
    BY <1>6 DEF Respond, Fail
  <2>2. QED
    BY <1>1, <2>1 DEF InLine
<1>7. ASSUME NEW i \in DOMAIN queue, Cancel(i) PROVE InLine'
  <2>1. queue' = RemoveAt(queue, i) /\ UNCHANGED <<sent, age>>
    BY <1>7 DEF Cancel
  <2>2. /\ DOMAIN RemoveAt(queue, i) = 1..Len(queue) - 1
        /\ \A j \in 1..Len(queue) - 1 :
              RemoveAt(queue, i)[j] = IF j < i THEN queue[j] ELSE queue[j + 1]
        /\ DOMAIN queue = 1..Len(queue) /\ Len(queue) \in Nat /\ i \in Nat
    BY <1>1, RemoveAtElements
  <2> DEFINE From(j) == IF j < i THEN j ELSE j + 1
  <2>3. \A j \in DOMAIN queue' : /\ From(j) \in DOMAIN queue /\ j \in Nat
                                 /\ queue'[j] = queue[From(j)]
    BY <2>1, <2>2
  <2>4. \A j, k \in Nat : From(j) = From(k) => j = k
    BY <2>2
  <2> HIDE DEF From
  <2>5. \A j, k \in DOMAIN queue' : queue'[j] = queue'[k] => j = k
    BY <1>1, <2>3, <2>4 DEF InLine
  <2>6. \A j \in DOMAIN queue' : queue'[j] \notin sent'
    BY <1>1, <2>1, <2>3 DEF InLine
  <2>7. QED
    BY <1>1, <2>1, <2>5, <2>6 DEF InLine
<1>8. CASE UNCHANGED limiterVars
  BY <1>1, <1>8 DEF limiterVars, flows, InLine
<1>9. QED
  BY <1>2, <1>3, <1>4, <1>5, <1>6, <1>7, <1>8 DEF NextLimiter, Hook

\* An entry of inflight is of a request that is upstream, for any number of flows
\* and whatever is cancelled, answered or reaped meanwhile.
THEOREM EntriesAreUpstream == SpecLimiter => []TrackedIsUpstream
<1>1. InitLimiter => TrackInv
  BY LimiterTypeInit DEF InitLimiter, TrackInv, InLine
<1>2. TrackInv => TrackedIsUpstream
  BY DEF TrackInv, LimiterTypeOK, InLine, TrackedIsUpstream, Queued, ToSet
<1>3. QED
  BY <1>1, <1>2, TrackStep, PTL DEF SpecLimiter
--------------------------------------------------------------------------------
\* What is there and what will be earned before the last instant of the sleep is
\* less than a token.
Punctual == mode = "fixed" /\ nap > 0 => tokens + rate * (lag + nap - 1) < Token

NapInv == LimiterTypeOK /\ Punctual

\* A division that is rounded up goes past the dividend by less than one divisor.
LEMMA CeilBound ==
  ASSUME NEW x \in Nat \ {0}, NEW r \in Nat \ {0}
  PROVE  /\ (x + r - 1) \div r \in Nat \ {0}
         /\ r * ((x + r - 1) \div r - 1) < x
  OBVIOUS

\* An instant of a sleep.
LEMMA SleepGoesOn ==
  ASSUME NEW l \in Nat, NEW n \in Nat, n > 1, NEW m \in Nat, m <= l + 1
  PROVE  /\ m + (n - 1) - 1 \in Nat /\ l + n - 1 \in Nat
         /\ m + (n - 1) - 1 <= l + n - 1
  OBVIOUS

LEMMA NapStep == NapInv /\ [NextLimiter]_limiterVars => NapInv'
<1> SUFFICES ASSUME NapInv, [NextLimiter]_limiterVars, mode' = "fixed", nap' > 0
             PROVE  tokens' + rate' * (lag' + nap' - 1) < Token
  BY LimiterTypeStep DEF NapInv, Punctual
<1>1. /\ LimiterTypeOK /\ Punctual /\ mode = "fixed"
      /\ rate \in Nat \ {0} /\ tokens \in Nat /\ lag \in 0..FillTime /\ nap \in Nat
      /\ Token \in Nat \ {0} /\ FillTime \in Nat
  <2>1. mode = "fixed"
    BY DEF NextLimiter, Hook, limiterVars, Admit, Sleep, Observe, Regulate, Tick, Request,
           Respond, Fail, Cancel
  <2>2. QED
    BY <2>1, LimiterAssumption, ProductNat DEF NapInv, LimiterTypeOK
<1>2. CASE Sleep
  <2>1. tokens' = TokensNow /\ lag' = 0 /\ nap' = SleepFor(TokensNow) /\ rate' = rate
    BY <1>2 DEF Sleep
  <2>2. Token - TokensNow \in Nat \ {0} /\ TokensNow \in Nat
    BY <1>1, <1>2, TokensNowType, LimiterAssumption, ProductNat DEF Sleep, LimiterTypeOK
  <2>3. /\ SleepFor(TokensNow) \in Nat \ {0}
        /\ rate * (SleepFor(TokensNow) - 1) < Token - TokensNow
    BY <1>1, <2>2, CeilBound DEF SleepFor
  <2>4. 0 + SleepFor(TokensNow) - 1 = SleepFor(TokensNow) - 1
    BY <2>3
  <2>5. rate * (SleepFor(TokensNow) - 1) \in Nat
    BY <1>1, <2>3, ProductNat
  <2>6. QED
    BY <1>1, <2>1, <2>2, <2>3, <2>4, <2>5
<1>3. CASE Tick
  <2>1. /\ nap > 1 /\ nap' = nap - 1 /\ lag' \in Nat /\ lag' <= lag + 1
        /\ tokens' = tokens /\ rate' = rate
    BY <1>1, <1>3 DEF Tick, Down, Smaller
  <2>2. lag' + nap' - 1 \in Nat /\ lag + nap - 1 \in Nat /\ lag' + nap' - 1 <= lag + nap - 1
    <3>1. lag \in Nat
      BY <1>1
    <3>2. QED
      BY <1>1, <2>1, <3>1, SleepGoesOn
  <2>3. (lag' + nap' - 1) * rate <= (lag + nap - 1) * rate
    BY <1>1, <2>2, ProductMono
  <2>4. /\ rate * (lag' + nap' - 1) \in Nat /\ rate * (lag + nap - 1) \in Nat
        /\ rate * (lag' + nap' - 1) <= rate * (lag + nap - 1)
    BY <1>1, <2>2, <2>3, ProductNat
  <2>5. tokens + rate * (lag + nap - 1) < Token
    BY <1>1, <2>1 DEF Punctual
  <2>6. tokens + rate * (lag' + nap' - 1) < Token
    BY <1>1, <2>4, <2>5
  <2>7. QED
    BY <2>1, <2>6
<1>4. CASE Admit \/ Regulate
  BY <1>1, <1>4 DEF Admit, Regulate, Adaptive
<1>5. CASE Hook
  <2>1. UNCHANGED <<tokens, rate, lag>> /\ nap' = nap
    BY <1>5 DEF Hook, Request, Respond, Fail, Cancel, bucket
  <2>2. QED
    BY <1>1, <2>1 DEF Punctual
<1>6. CASE Observe \/ UNCHANGED limiterVars
  BY <1>1, <1>6 DEF Observe, limiterVars, bucket, flows, Punctual
<1>7. QED
  BY <1>2, <1>3, <1>4, <1>5, <1>6 DEF NextLimiter

\* "hold exactly `--rate`": without the gauge the holder of the lock is awake as
\* soon as there is a token, for any rate and any grid of time.
THEOREM NoTokenWaits == SpecLimiter => []NoIdleToken
<1>1. InitLimiter => NapInv
  BY LimiterTypeInit DEF InitLimiter, NapInv, Punctual
<1>2. NapInv => NoIdleToken
  <2> SUFFICES ASSUME NapInv, mode = "fixed", nap > 0 PROVE TokensNow < Token
    BY DEF NoIdleToken
  <2>1. /\ rate \in Nat \ {0} /\ tokens \in Nat /\ lag \in Nat /\ nap \in Nat \ {0}
        /\ capacity \in Nat /\ Token \in Nat
        /\ tokens + rate * (lag + nap - 1) < Token
    BY LimiterAssumption, ProductNat DEF NapInv, LimiterTypeOK, Punctual
  <2>2. lag * rate <= (lag + nap - 1) * rate
    BY <2>1, ProductMono
  <2>3. rate * lag \in Nat /\ rate * (lag + nap - 1) \in Nat
        /\ rate * lag <= rate * (lag + nap - 1)
    BY <2>1, <2>2, ProductNat
  <2>4. QED
    BY <2>1, <2>3 DEF TokensNow, Smaller
<1>3. QED
  BY <1>1, <1>2, NapStep, PTL DEF SpecLimiter
--------------------------------------------------------------------------------
WindowTypeOK == /\ LimiterTypeOK
                /\ clock \in Nat /\ log \in Seq(Nat)
                /\ burst \in Nat /\ since \in Nat

WindowInv == WindowTypeOK /\ CreditBound /\ RateInForce

LEMMA StepIsLimiterStep == [Next]_vars => [NextLimiter]_limiterVars
  BY DEF Next, vars, NextLimiter, AdmitNow, SetRate, Pass, Quiet

LEMMA WindowTypeInit == Init => WindowTypeOK
  BY LimiterTypeInit DEF Init, WindowTypeOK

LEMMA WindowTypeStep == WindowTypeOK /\ [Next]_vars => WindowTypeOK'
<1> SUFFICES ASSUME WindowTypeOK, [Next]_vars PROVE WindowTypeOK'
  OBVIOUS
<1>1. LimiterTypeOK'
  BY StepIsLimiterStep, LimiterTypeStep DEF WindowTypeOK
<1>2. clock' \in Nat /\ burst' \in Nat /\ since' \in Nat
  BY DEF WindowTypeOK, Next, AdmitNow, SetRate, Pass, Quiet, vars, windowVars
<1>3. log' \in Seq(Nat)
  BY AppendProperties DEF WindowTypeOK, Next, AdmitNow, SetRate, Pass, Quiet, vars, windowVars
<1>4. QED
  BY <1>1, <1>2, <1>3 DEF WindowTypeOK
--------------------------------------------------------------------------------
\* The smaller of two numbers grows by at most what its second argument does.
LEMMA SmallerShift ==
  ASSUME NEW m \in Nat, NEW x \in Nat, NEW y \in Nat, NEW r \in Nat, y <= x + r
  PROVE  Smaller(m, y) <= Smaller(m, x) + r /\ Smaller(m, y) \in 0..m
  BY DEF Smaller

LEMMA SmallerMono ==
  ASSUME NEW m \in Nat, NEW n \in Nat, NEW x \in Nat, NEW y \in Nat, m <= n, x <= y
  PROVE  Smaller(m, x) <= Smaller(n, y)
  BY DEF Smaller

LEMMA ProductSuccLeft == ASSUME NEW a \in Int, NEW b \in Int PROVE (a + 1) * b = a * b + b
  OBVIOUS

LEMMA ProductZero == ASSUME NEW a \in Int PROVE 0 * a = 0 /\ a * 0 = 0
  OBVIOUS

LEMMA FullCapNat == FullCap \in Nat
  BY LimiterAssumption, ProductNat DEF FullCap

\* The arguments of Credit, now and after a step that keeps the types.
LEMMA CreditArgs ==
  /\ LimiterTypeOK => tokens + Ceiling * lag \in Nat
  /\ LimiterTypeOK' => (tokens + Ceiling * lag)' \in Nat
<1>1. ASSUME LimiterTypeOK PROVE tokens + Ceiling * lag \in Nat
  <2>1. tokens \in Nat /\ Ceiling * lag \in Nat
    BY <1>1, LimiterAssumption, ProductNat DEF LimiterTypeOK
  <2>2. QED
    BY <2>1
<1>2. ASSUME LimiterTypeOK' PROVE (tokens + Ceiling * lag)' \in Nat
  <2>1. tokens' \in Nat /\ lag' \in Nat
    BY <1>2, LimiterAssumption, ProductNat DEF LimiterTypeOK
  <2>2. Ceiling * lag' \in Nat
    BY <2>1, LimiterAssumption, ProductNat
  <2>3. QED
    BY <2>1, <2>2
<1>3. QED
  BY <1>1, <1>2

LEMMA CreditType ==
  /\ LimiterTypeOK => Credit \in 0..FullCap
  /\ LimiterTypeOK' => Credit' \in 0..FullCap
<1>1. ASSUME LimiterTypeOK PROVE Credit \in 0..FullCap
  <2>1. tokens + Ceiling * lag \in Nat
    BY <1>1, CreditArgs
  <2>2. QED
    BY <2>1, FullCapNat DEF Credit, Smaller
<1>2. ASSUME LimiterTypeOK' PROVE Credit' \in 0..FullCap
  <2>1. Credit' = Smaller(FullCap, (tokens + Ceiling * lag)')
    BY DEF Credit, FullCap, Smaller
  <2>2. (tokens + Ceiling * lag)' \in Nat
    BY <1>2, CreditArgs
  <2>3. QED
    BY <2>1, <2>2, FullCapNat DEF Smaller
<1>3. QED
  BY <1>1, <1>2

\* The credit covers the balance: the ceiling earns at least what the rate does.
LEMMA CreditCovers == ASSUME LimiterTypeOK PROVE TokensNow <= Credit
<1>1. /\ rate \in Nat /\ lag \in Nat /\ Ceiling \in Nat /\ rate <= Ceiling
      /\ tokens \in Nat /\ capacity \in Nat /\ capacity <= FullCap
  BY LimiterAssumption, ProductNat DEF LimiterTypeOK, FullCap
<1>2. rate * lag <= Ceiling * lag /\ rate * lag \in Nat /\ Ceiling * lag \in Nat
  BY <1>1, ProductMono, ProductNat
<1>3. tokens + rate * lag <= tokens + Ceiling * lag /\ tokens + rate * lag \in Nat
  BY <1>1, <1>2
<1>4. QED
  BY <1>1, <1>3, CreditArgs, FullCapNat, SmallerMono DEF TokensNow, Credit

LEMMA CreditAfterTake ==
  ASSUME LimiterTypeOK', lag' = 0 PROVE Credit' = tokens'
<1>1. Credit' = Smaller(FullCap, tokens' + Ceiling * lag')
  BY DEF Credit, FullCap, Smaller
<1>2. tokens' \in Nat /\ tokens' <= FullCap
  BY LimiterAssumption, ProductNat DEF LimiterTypeOK, FullCap
<1>3. tokens' + Ceiling * lag' = tokens'
  <2>1. Ceiling * 0 = 0
    BY LimiterAssumption
  <2>2. QED
    BY <1>2, <2>1
<1>4. QED
  BY <1>1, <1>2, <1>3, FullCapNat DEF Smaller

LEMMA CreditAfterTick ==
  ASSUME LimiterTypeOK, LimiterTypeOK', Tick PROVE Credit' <= Credit + Ceiling
<1>1. tokens' = tokens /\ tokens \in Nat /\ lag \in Nat /\ (lag' = lag + 1 \/ lag' = lag)
  BY LimiterAssumption DEF Tick, LimiterTypeOK, Smaller
<1>2. Ceiling * (lag + 1) = Ceiling * lag + Ceiling /\ Ceiling * lag \in Nat
  BY <1>1, LimiterAssumption, ProductSucc, ProductNat
<1>3. (tokens + Ceiling * lag)' <= (tokens + Ceiling * lag) + Ceiling
  <2>1. Ceiling * lag' <= Ceiling * lag + Ceiling /\ Ceiling * lag' \in Nat
    BY <1>1, <1>2, LimiterAssumption
  <2>2. QED
    BY <1>1, <1>2, <2>1, LimiterAssumption
<1>4. Credit' = Smaller(FullCap, (tokens + Ceiling * lag)')
  BY DEF Credit, FullCap, Smaller
<1>5. QED
  BY <1>3, <1>4, CreditArgs, FullCapNat, LimiterAssumption, SmallerShift DEF Credit

\* Setting the rate may take tokens away, never add any.
LEMMA CreditAfterRegulate ==
  ASSUME LimiterTypeOK, LimiterTypeOK', Regulate PROVE Credit' <= Credit
<1>1. /\ tokens' = Smaller(capacity', tokens) /\ lag' = lag
      /\ tokens \in Nat /\ lag \in Nat /\ capacity' \in Nat
  BY LimiterAssumption, ProductNat DEF Regulate, LimiterTypeOK
<1>2. tokens' \in Nat /\ tokens' <= tokens
  BY <1>1 DEF Smaller
<1>3. (tokens + Ceiling * lag)' <= (tokens + Ceiling * lag) + 0
  <2>1. Ceiling * lag' = Ceiling * lag /\ Ceiling * lag \in Nat
    BY <1>1, LimiterAssumption, ProductNat
  <2>2. QED
    BY <1>1, <1>2, <2>1
<1>4. Credit' = Smaller(FullCap, (tokens + Ceiling * lag)')
  BY DEF Credit, FullCap, Smaller
<1>5. Smaller(FullCap, (tokens + Ceiling * lag)') <= Smaller(FullCap, tokens + Ceiling * lag) + 0
  BY <1>3, CreditArgs, FullCapNat, SmallerShift
<1>6. Credit \in Nat /\ Credit = Smaller(FullCap, tokens + Ceiling * lag)
  BY CreditType, FullCapNat DEF Credit
<1>7. QED
  BY <1>4, <1>5, <1>6
--------------------------------------------------------------------------------
\* The bound of one past admission, as a formula of its index.
Bound(i) ==
  /\ log[i] <= clock
  /\ (Len(log) - i + 1) * Token + Credit <= FullCap + Ceiling * (clock - log[i])

\* The numbers in the bound of one past admission.
LEMMA BoundArgs ==
  ASSUME WindowTypeOK, NEW i \in 1..Len(log), log[i] <= clock
  PROVE  /\ Len(log) - i + 1 \in Nat /\ log[i] \in Nat
         /\ clock - log[i] \in Nat
         /\ (Len(log) - i + 1) * Token \in Nat
         /\ Ceiling * (clock - log[i]) \in Nat
<1>1. Len(log) - i + 1 \in Nat /\ log[i] \in Nat /\ clock - log[i] \in Nat
  BY ElementOfSeq, LenProperties DEF WindowTypeOK
<1>2. QED
  BY <1>1, LimiterAssumption, ProductNat

\* A step that leaves the history alone and does not raise the credit.
LEMMA QuietStep ==
  ASSUME WindowTypeOK, WindowTypeOK', CreditBound, UNCHANGED <<clock, log>>,
         Credit' <= Credit
  PROVE  CreditBound'
<1> SUFFICES ASSUME NEW i \in 1..Len(log) PROVE Bound(i)'
  BY DEF CreditBound, Bound, FullCap
<1>1. Bound(i)
  BY DEF CreditBound, Bound
<1>2. (Len(log) - i + 1) * Token \in Nat /\ Ceiling * (clock - log[i]) \in Nat
  BY <1>1, BoundArgs DEF Bound
<1>3. Credit \in Nat /\ Credit' \in Nat /\ FullCap \in Nat
  BY CreditType, FullCapNat DEF WindowTypeOK
<1>4. QED
  BY <1>1, <1>2, <1>3 DEF Bound, FullCap

\* An instant raises the credit by what the ceiling earns, and every bound too.
LEMMA PassStep ==
  ASSUME WindowTypeOK, WindowTypeOK', CreditBound, Pass PROVE CreditBound'
<1> SUFFICES ASSUME NEW i \in 1..Len(log) PROVE Bound(i)'
  BY DEF CreditBound, Bound, FullCap, Pass
<1>1. Bound(i)
  BY DEF CreditBound, Bound
<1>2. /\ clock - log[i] \in Nat /\ log[i] \in Nat /\ clock \in Nat
      /\ (Len(log) - i + 1) * Token \in Nat /\ Ceiling * (clock - log[i]) \in Nat
  BY <1>1, BoundArgs DEF Bound, WindowTypeOK
<1>3. /\ Credit \in Nat /\ Credit' \in Nat /\ FullCap \in Nat /\ Ceiling \in Nat
      /\ Credit' <= Credit + Ceiling
  BY CreditType, FullCapNat, CreditAfterTick, LimiterAssumption DEF WindowTypeOK, Pass
<1>4. Ceiling * (clock' - log'[i]) = Ceiling * (clock - log[i]) + Ceiling
  <2>1. clock' - log'[i] = (clock - log[i]) + 1
    BY <1>2 DEF Pass
  <2>2. Ceiling * ((clock - log[i]) + 1) = Ceiling * (clock - log[i]) + Ceiling
    BY <1>2, LimiterAssumption, ProductSucc
  <2>3. QED
    BY <2>1, <2>2
<1>5. (Len(log') - i + 1) * Token = (Len(log) - i + 1) * Token
  BY DEF Pass
<1>6. (Len(log') - i + 1) * Token + Credit' <= FullCap + Ceiling * (clock' - log'[i])
  <2>1. (Len(log) - i + 1) * Token + Credit <= FullCap + Ceiling * (clock - log[i])
    BY <1>1 DEF Bound
  <2>2. (Len(log) - i + 1) * Token \in Nat /\ Ceiling * (clock - log[i]) \in Nat
    BY <1>2
  <2>3. QED
    BY <1>3, <1>4, <1>5, <2>1, <2>2
<1>7. log'[i] <= clock'
  BY <1>1, <1>2 DEF Bound, Pass
<1>8. QED
  BY <1>6, <1>7 DEF Bound, FullCap

\* An admission takes a token from the credit and adds one to what was spent.
LEMMA AdmitStep ==
  ASSUME WindowTypeOK, WindowTypeOK', CreditBound, AdmitNow PROVE CreditBound'
<1>1. /\ Len(log') = Len(log) + 1 /\ clock' = clock /\ Len(log) \in Nat
      /\ log'[Len(log) + 1] = clock
      /\ \A i \in 1..Len(log) : log'[i] = log[i]
  BY AppendProperties DEF WindowTypeOK, AdmitNow
<1>2. Ceiling \in Nat /\ Token \in Nat /\ FullCap \in Nat /\ clock \in Nat
  BY LimiterAssumption, FullCapNat DEF WindowTypeOK
<1>3. /\ Credit \in 0..FullCap /\ Credit' \in Nat
      /\ Credit' <= Credit - Token
  <2>1. Credit' = TokensNow - Token
    BY CreditAfterTake DEF AdmitNow, Admit, WindowTypeOK
  <2>2. capacity \in Nat
    BY LimiterAssumption, ProductNat DEF WindowTypeOK, LimiterTypeOK
  <2>3. TokensNow \in Nat /\ TokensNow <= Credit /\ TokensNow >= Token
    BY <2>2, CreditCovers, TokensNowType DEF WindowTypeOK, AdmitNow, Admit
  <2>4. QED
    BY <1>2, <2>1, <2>3, CreditType DEF WindowTypeOK
<1> SUFFICES ASSUME NEW i \in 1..Len(log) + 1 PROVE Bound(i)'
  BY <1>1 DEF CreditBound, Bound, FullCap
<1>4. CASE i = Len(log) + 1
  <2>1. (Len(log') - i + 1) * Token = Token /\ Ceiling * (clock' - log'[i]) = 0
    BY <1>1, <1>2, <1>4
  <2>2. log'[i] <= clock'
    BY <1>1, <1>2, <1>4
  <2>3. QED
    BY <1>2, <1>3, <2>1, <2>2 DEF Bound, FullCap
<1>5. CASE i \in 1..Len(log)
  <2>1. Bound(i)
    BY <1>5 DEF CreditBound, Bound
  <2>2. /\ Len(log) - i + 1 \in Nat /\ (Len(log) - i + 1) * Token \in Nat
        /\ Ceiling * (clock - log[i]) \in Nat
    BY <1>5, <2>1, BoundArgs DEF Bound
  <2>3. (Len(log') - i + 1) * Token = (Len(log) - i + 1) * Token + Token
    <3>1. Len(log') - i + 1 = (Len(log) - i + 1) + 1
      BY <1>1, <1>5
    <3>2. (Len(log) - i + 1 + 1) * Token = (Len(log) - i + 1) * Token + Token
      BY <1>2, <2>2, ProductSuccLeft
    <3>3. QED
      BY <3>1, <3>2
  <2>4. Ceiling * (clock' - log'[i]) = Ceiling * (clock - log[i]) /\ log'[i] <= clock'
    BY <1>1, <1>5, <2>1 DEF Bound
  <2>5. (Len(log') - i + 1) * Token + Credit' <= FullCap + Ceiling * (clock' - log'[i])
    <3>1. (Len(log) - i + 1) * Token + Credit <= FullCap + Ceiling * (clock - log[i])
      BY <2>1 DEF Bound
    <3>2. QED
      BY <1>2, <1>3, <2>2, <2>3, <2>4, <3>1
  <2>6. QED
    BY <2>4, <2>5 DEF Bound, FullCap
<1>6. QED
  BY <1>1, <1>4, <1>5

LEMMA QuietCredit ==
  ASSUME WindowTypeOK, WindowTypeOK', Quiet
  PROVE  UNCHANGED <<clock, log, burst, since, rate>> /\ Credit' <= Credit /\ TokensNow' <= TokensNow
<1>1. UNCHANGED <<clock, log, burst, since, rate, capacity>>
  BY DEF Quiet, windowVars, Sleep, Observe, Hook, Request, Respond, Fail, Cancel, bucket
<1>2. TokensNow \in Nat /\ TokensNow <= Credit /\ Credit \in Nat
  <2>1. capacity \in Nat
    BY LimiterAssumption, ProductNat DEF WindowTypeOK, LimiterTypeOK
  <2>2. QED
    BY <2>1, TokensNowType, CreditCovers, CreditType, FullCapNat DEF WindowTypeOK
<1>3. CASE Sleep
  <2>1. Credit' = TokensNow
    BY <1>3, CreditAfterTake DEF Sleep, WindowTypeOK
  <2>2. tokens' = TokensNow /\ rate * lag' = 0 /\ TokensNow <= capacity
    BY <1>3, TokensNowType, LimiterAssumption DEF Sleep, WindowTypeOK, LimiterTypeOK
  <2>3. TokensNow' = Smaller(capacity, tokens' + rate * lag')
    BY <1>1 DEF TokensNow, Smaller
  <2>4. capacity \in Nat
    BY LimiterAssumption, ProductNat DEF WindowTypeOK, LimiterTypeOK
  <2>5. QED
    BY <1>1, <1>2, <2>1, <2>2, <2>3, <2>4 DEF Smaller
<1>4. CASE Observe \/ Hook
  <2>1. UNCHANGED <<tokens, lag>>
    BY <1>4 DEF Observe, Hook, Request, Respond, Fail, Cancel, bucket
  <2>2. Credit' = Credit /\ TokensNow' = TokensNow
    BY <1>1, <2>1 DEF Credit, TokensNow, FullCap, Smaller
  <2>3. QED
    BY <1>1, <1>2, <2>2
<1>5. QED
  BY <1>3, <1>4 DEF Quiet

LEMMA CreditStep == WindowInv /\ [Next]_vars => CreditBound'
<1> SUFFICES ASSUME WindowInv, [Next]_vars PROVE CreditBound'
  OBVIOUS
<1>1. WindowTypeOK /\ WindowTypeOK' /\ CreditBound
  BY WindowTypeStep DEF WindowInv
<1>2. CASE AdmitNow
  BY <1>1, <1>2, AdmitStep
<1>3. CASE Pass
  BY <1>1, <1>3, PassStep
<1>4. CASE SetRate
  <2>1. Credit' <= Credit /\ UNCHANGED <<clock, log>>
    BY <1>1, <1>4, CreditAfterRegulate DEF WindowTypeOK, SetRate
  <2>2. QED
    BY <1>1, <2>1, QuietStep
<1>5. CASE Quiet
  BY <1>1, <1>5, QuietCredit, QuietStep
<1>6. CASE UNCHANGED vars
  <2>1. UNCHANGED <<clock, log>> /\ Credit' = Credit
    BY <1>6 DEF vars, windowVars, limiterVars, bucket, Credit, FullCap, Smaller
  <2>2. Credit \in Nat
    BY <1>1, CreditType, FullCapNat DEF WindowTypeOK
  <2>3. QED
    BY <1>1, <2>1, <2>2, QuietStep
<1>7. QED
  BY <1>2, <1>3, <1>4, <1>5, <1>6 DEF Next
--------------------------------------------------------------------------------
\* The balance of the state a step leads to is within its capacity.
LEMMA TokensNowNext == ASSUME LimiterTypeOK' PROVE TokensNow' \in 0..capacity'
<1>1. TokensNow' = Smaller(capacity', (tokens + rate * lag)')
  BY DEF TokensNow, Smaller
<1>2. capacity' \in Nat /\ tokens' \in Nat /\ rate' \in Nat /\ lag' \in Nat
  BY LimiterAssumption, ProductNat DEF LimiterTypeOK
<1>3. rate' * lag' \in Nat
  BY <1>2, ProductNat
<1>4. tokens' \in Nat /\ capacity' \in Nat
  BY <1>2
<1>5. (tokens + rate * lag)' \in Nat
  BY <1>3, <1>4
<1>6. QED
  BY <1>1, <1>4, <1>5 DEF Smaller

\* How each step moves the two sides of RateInForce.
LEMMA BalanceAfterAdmit ==
  ASSUME WindowTypeOK, WindowTypeOK', AdmitNow PROVE TokensNow' = TokensNow - Token
<1>1. TokensNow' = Smaller(capacity, tokens' + rate * lag')
  BY DEF AdmitNow, Admit, TokensNow, Smaller
<1>2. tokens' = TokensNow - Token /\ rate * lag' = 0
  BY LimiterAssumption DEF AdmitNow, Admit, WindowTypeOK, LimiterTypeOK
<1>3. tokens' \in 0..capacity /\ capacity \in Nat
  BY LimiterAssumption, ProductNat DEF WindowTypeOK, LimiterTypeOK, AdmitNow, Admit
<1>4. QED
  BY <1>1, <1>2, <1>3 DEF Smaller

LEMMA BalanceAfterPass ==
  ASSUME WindowTypeOK, WindowTypeOK', Pass PROVE TokensNow' <= TokensNow + rate
<1>1. /\ tokens \in Nat /\ lag \in Nat /\ rate \in Nat /\ capacity \in Nat
      /\ (lag' = lag + 1 \/ lag' = lag)
  BY LimiterAssumption, ProductNat DEF WindowTypeOK, LimiterTypeOK, Pass, Tick, Smaller
<1>2. rate * (lag + 1) = rate * lag + rate /\ rate * lag \in Nat
  BY <1>1, ProductSucc, ProductNat
<1>3. rate * lag' <= rate * lag + rate /\ rate * lag' \in Nat
  BY <1>1, <1>2
<1>4. TokensNow' = Smaller(capacity, tokens + rate * lag')
  BY DEF Pass, Tick, TokensNow, Smaller
<1>5. /\ tokens + rate * lag' \in Nat /\ tokens + rate * lag \in Nat
      /\ tokens + rate * lag' <= (tokens + rate * lag) + rate
  BY <1>1, <1>2, <1>3
<1>6. QED
  BY <1>1, <1>4, <1>5, SmallerShift DEF TokensNow

LEMMA RateInForceStep == WindowInv /\ [Next]_vars => RateInForce'
<1> SUFFICES ASSUME WindowInv, [Next]_vars PROVE RateInForce'
  OBVIOUS
<1>1. WindowTypeOK /\ WindowTypeOK' /\ RateInForce
  BY WindowTypeStep DEF WindowInv
<1>2. /\ burst \in Nat /\ since \in Nat /\ rate \in Nat /\ Second \in Nat /\ Token \in Nat
      /\ capacity \in Nat
  BY <1>1, LimiterAssumption, ProductNat DEF WindowTypeOK, LimiterTypeOK
<1>3. burst * Token \in Nat /\ rate * Second \in Nat /\ rate * since \in Nat
  BY <1>2, ProductNat
<1>4. TokensNow \in Nat
  BY <1>1, <1>2, TokensNowType DEF WindowTypeOK
<1>5. burst * Token + TokensNow <= rate * Second + rate * since
  BY <1>1 DEF RateInForce
<1>6. CASE AdmitNow
  <2>1. TokensNow' = TokensNow - Token /\ UNCHANGED <<rate, since>> /\ burst' = burst + 1
    BY <1>1, <1>6, BalanceAfterAdmit DEF AdmitNow, Admit
  <2>2. burst' * Token = burst * Token + Token
    BY <1>2, <2>1, ProductSuccLeft
  <2>3. rate' * Second = rate * Second /\ rate' * since' = rate * since
    BY <2>1
  <2>4. TokensNow' = TokensNow - Token /\ Token \in Nat
    BY <1>2, <2>1
  <2>5. QED
    BY <1>3, <1>4, <1>5, <2>2, <2>3, <2>4 DEF RateInForce
<1>7. CASE Pass
  <2>1. UNCHANGED <<rate, burst>> /\ since' = since + 1
    BY <1>7 DEF Pass, Tick
  <2>2. rate * (since + 1) = rate * since + rate
    BY <1>2, ProductSucc
  <2>3. rate' * Second = rate * Second /\ rate' * since' = rate * since + rate /\ burst' * Token = burst * Token
    BY <2>1, <2>2
  <2>4. TokensNow' <= TokensNow + rate /\ TokensNow' \in Int /\ rate \in Nat
    <3>1. TokensNow' \in 0..capacity'
      BY <1>1, TokensNowNext DEF WindowTypeOK
    <3>2. QED
      BY <1>1, <1>2, <1>7, <3>1, BalanceAfterPass
  <2>5. QED
    BY <1>3, <1>4, <1>5, <2>3, <2>4 DEF RateInForce
<1>8. CASE SetRate
  <2>1. burst' = 0 /\ since' = 0 /\ capacity' = rate' * Second
    BY <1>8 DEF SetRate, Regulate, NextCapacity
  <2>2. TokensNow' <= capacity'
    BY <1>1, TokensNowNext DEF WindowTypeOK
  <2>3. TokensNow' \in Int /\ rate' \in Nat
    <3>1. TokensNow' \in 0..capacity'
      BY <1>1, TokensNowNext DEF WindowTypeOK
    <3>2. QED
      BY <1>1, <3>1, LimiterAssumption, ProductNat DEF WindowTypeOK, LimiterTypeOK
  <2>4. burst' * Token = 0 /\ rate' * since' = 0
    <3>1. Token \in Int /\ rate' \in Int
      BY <1>2, <2>3
    <3>2. 0 * Token = 0
      BY <3>1, ProductZero
    <3>3. rate' * 0 = 0
      BY <3>1, ProductZero
    <3>4. QED
      BY <2>1, <3>2, <3>3
  <2>5. rate' * Second \in Nat
    BY <1>2, <2>3, ProductNat
  <2>6. QED
    BY <2>1, <2>2, <2>3, <2>4, <2>5 DEF RateInForce
<1>9. CASE Quiet
  <2>1. /\ burst' * Token = burst * Token /\ rate' * Second = rate * Second
        /\ rate' * since' = rate * since
    BY <1>1, <1>9, QuietCredit
  <2>2. TokensNow' <= TokensNow
    BY <1>1, <1>9, QuietCredit
  <2>3. TokensNow' \in Int
    BY <1>1, TokensNowNext DEF WindowTypeOK
  <2>4. QED
    BY <1>3, <1>4, <1>5, <2>1, <2>2, <2>3 DEF RateInForce
<1>10. CASE UNCHANGED vars
  BY <1>1, <1>10 DEF vars, windowVars, limiterVars, bucket, RateInForce, TokensNow, Smaller
<1>11. QED
  BY <1>6, <1>7, <1>8, <1>9, <1>10 DEF Next
--------------------------------------------------------------------------------
LEMMA WindowInvInit == Init => WindowInv
<1> SUFFICES ASSUME Init PROVE WindowInv
  OBVIOUS
<1>1. WindowTypeOK
  BY WindowTypeInit
<1>2. CreditBound
  BY DEF Init, CreditBound
<1>3. RateInForce
  <2>1. /\ TokensNow \in 0..capacity /\ capacity = rate * Second
        /\ capacity \in Nat /\ rate \in Nat /\ Token \in Nat
    BY <1>1, TokensNowType, LimiterAssumption, ProductNat
    DEF WindowTypeOK, LimiterTypeOK, Init, InitLimiter
  <2>2. burst * Token = 0 /\ rate * since = 0
    BY <2>1, ProductZero DEF Init
  <2>3. QED
    BY <2>1, <2>2 DEF RateInForce
<1>4. QED
  BY <1>1, <1>2, <1>3 DEF WindowInv

LEMMA WindowInvStep == WindowInv /\ [Next]_vars => WindowInv'
  BY CreditStep, RateInForceStep, WindowTypeStep DEF WindowInv

\* However the gauge moves the rate, what was spent since any admission plus
\* the credit left never exceeds one burst and the ceiling's earnings since.
THEOREM HttpCredit == Spec => []CreditBound
<1>1. WindowInv => CreditBound
  BY DEF WindowInv
<1>2. QED
  BY <1>1, WindowInvInit, WindowInvStep, PTL DEF Spec

\* A rate the gauge sets binds at once: no more than a second's burst of it and
\* what it earned is admitted until it is set again.
THEOREM HttpRateInForce == Spec => []RateInForce
<1>1. WindowInv => RateInForce
  BY DEF WindowInv
<1>2. QED
  BY <1>1, WindowInvInit, WindowInvStep, PTL DEF Spec
--------------------------------------------------------------------------------
\* An admission with a token in the balance is one the cap allows.
LEMMA AdmitIsCapped == ASSUME WindowInv, AdmitNow PROVE Cap!Admit
<1>1. log' = Append(log, clock) /\ UNCHANGED clock
  BY DEF AdmitNow
<1>2. TokensNow >= Token /\ TokensNow <= Credit /\ Credit \in 0..FullCap /\ TokensNow \in Nat
  <2>1. capacity \in Nat
    BY LimiterAssumption, ProductNat DEF WindowInv, WindowTypeOK, LimiterTypeOK
  <2>2. QED
    BY <2>1, CreditCovers, CreditType, TokensNowType DEF WindowInv, WindowTypeOK, AdmitNow, Admit
<1>3. Token \in Nat /\ FullCap \in Nat
  BY LimiterAssumption, FullCapNat
<1>4. ASSUME NEW i \in 1..Len(log)
      PROVE  Cap!SpentSince(i) <= FullCap + Ceiling * (clock - log[i])
  <2>1. Bound(i)
    BY DEF WindowInv, CreditBound, Bound
  <2>2. /\ (Len(log) - i + 1) * Token \in Nat /\ Ceiling * (clock - log[i]) \in Nat
    BY <2>1, BoundArgs DEF Bound, WindowInv
  <2>3. (Len(log) - i + 2) * Token = (Len(log) - i + 1) * Token + Token
    <3>1. Len(log) - i + 1 \in Int /\ Len(log) - i + 2 = (Len(log) - i + 1) + 1
      BY <2>1, BoundArgs, LenProperties DEF Bound, WindowInv, WindowTypeOK
    <3>2. (Len(log) - i + 1 + 1) * Token = (Len(log) - i + 1) * Token + Token
      BY <1>3, <3>1, ProductSuccLeft
    <3>3. QED
      BY <3>1, <3>2
  <2>4. (Len(log) - i + 1) * Token + Credit <= FullCap + Ceiling * (clock - log[i])
    BY <2>1 DEF Bound
  <2>5. (Len(log) - i + 2) * Token <= FullCap + Ceiling * (clock - log[i])
    BY <1>2, <1>3, <2>2, <2>3, <2>4
  <2>6. QED
    BY <2>5 DEF Cap!SpentSince
<1>5. QED
  BY <1>1, <1>4 DEF Cap!Admit

LEMMA StepIsCapped == WindowInv /\ [Next]_vars => [Cap!Next]_Cap!vars
<1> SUFFICES ASSUME WindowInv, [Next]_vars PROVE [Cap!Next]_Cap!vars
  OBVIOUS
<1>1. CASE AdmitNow
  BY <1>1, AdmitIsCapped DEF Cap!Next
<1>2. CASE Pass
  BY <1>2 DEF Pass, Cap!Tick, Cap!Next
<1>3. CASE SetRate \/ Quiet
  BY <1>3 DEF SetRate, Quiet, windowVars, Cap!vars
<1>4. CASE UNCHANGED vars
  BY <1>4 DEF vars, windowVars, Cap!vars
<1>5. QED
  BY <1>1, <1>2, <1>3, <1>4 DEF Next

\* The HTTP engine implements the abstract rate cap at the ceiling, whatever
\* the gauge does and whenever it does it.
THEOREM HttpImplementsCap == Spec => CapSpec
<1>1. Init => Cap!Init
  BY DEF Init, Cap!Init
<1>2. WindowInv /\ [Next]_vars => [Cap!Next]_Cap!vars
  BY StepIsCapped
<1>3. QED
  BY <1>1, <1>2, WindowInvInit, WindowInvStep, PTL DEF Spec, CapSpec, Cap!Spec
--------------------------------------------------------------------------------
\* The cap as a target would measure it: between any two admissions, these
\* included.
Stretches == \A j \in 1..Len(log) : \A i \in 1..j :
                /\ log[i] <= log[j]
                /\ (j - i + 1) * Token <= FullCap + Ceiling * (log[j] - log[i])

LEMMA StretchStep == Stretches /\ WindowInv /\ WindowInv' /\ [Next]_vars => Stretches'
<1> SUFFICES ASSUME Stretches, WindowInv, WindowInv', [Next]_vars,
                    NEW j \in 1..Len(log'), NEW i \in 1..j
             PROVE  /\ log'[i] <= log'[j]
                    /\ (j - i + 1) * Token <= FullCap + Ceiling * (log'[j] - log'[i])
  BY DEF Stretches, FullCap
<1>1. log \in Seq(Nat) /\ log' \in Seq(Nat) /\ Len(log) \in Nat
  BY LenProperties DEF WindowInv, WindowTypeOK
<1>2. CASE log' = log
  BY <1>2 DEF Stretches
<1>3. CASE AdmitNow
  <2>1. log' = Append(log, clock) /\ clock' = clock /\ clock \in Nat
    BY <1>3 DEF AdmitNow, WindowInv, WindowTypeOK
  <2>2. Len(log') = Len(log) + 1 /\ \A k \in 1..Len(log) : log'[k] = log[k]
    BY <1>1, <2>1, AppendProperties
  <2>3. CASE j \in 1..Len(log)
    <3>1. i \in 1..Len(log) /\ log'[i] = log[i] /\ log'[j] = log[j]
      BY <1>1, <2>2, <2>3
    <3>2. /\ log[i] <= log[j]
          /\ (j - i + 1) * Token <= FullCap + Ceiling * (log[j] - log[i])
      BY <2>3 DEF Stretches
    <3>3. QED
      BY <3>1, <3>2
  <2>4. CASE j = Len(log')
    <3>1. log'[j] = clock' /\ i \in 1..Len(log')
      BY <1>1, <2>1, <2>2, <2>4, AppendProperties
    <3>2. /\ log'[i] <= clock'
          /\ (Len(log') - i + 1) * Token + Credit' <= FullCap + Ceiling * (clock' - log'[i])
      BY <3>1 DEF WindowInv, CreditBound, FullCap
    <3>3. Credit' \in Nat /\ FullCap \in Nat /\ Token \in Nat /\ Ceiling \in Nat
      BY CreditType, FullCapNat, LimiterAssumption DEF WindowInv, WindowTypeOK
    <3>4. (Len(log') - i + 1) * Token \in Nat /\ Ceiling * (clock' - log'[i]) \in Nat
      <4>1. log'[i] \in Nat
        BY <1>1, <3>1, ElementOfSeq
      <4>2. Len(log') - i + 1 \in Nat /\ clock' - log'[i] \in Nat
        BY <1>1, <2>1, <2>2, <3>1, <3>2, <4>1
      <4>3. QED
        BY <3>3, <4>2, ProductNat
    <3>5. (Len(log') - i + 1) * Token <= FullCap + Ceiling * (clock' - log'[i])
      BY <3>2, <3>3, <3>4
    <3>6. QED
      BY <2>4, <3>1, <3>2, <3>5
  <2>5. QED
    BY <1>1, <2>2, <2>3, <2>4
<1>4. log' = log \/ AdmitNow
  BY DEF Next, SetRate, Pass, Quiet, windowVars, vars
<1>5. QED
  BY <1>2, <1>3, <1>4

\* Between any two admitted requests there are no more than a second's burst of
\* the ceiling and what the ceiling earns in between, whatever rates the gauge
\* went through.
THEOREM HttpStretches == Spec => []Stretches
<1>1. Init => Stretches
  BY DEF Init, Stretches
<1>2. QED
  BY <1>1, WindowInvInit, WindowInvStep, StretchStep, PTL DEF Spec
================================================================================
