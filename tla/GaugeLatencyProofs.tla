-------------------------- MODULE GaugeLatencyProofs --------------------------
(***************************************************************************)
(* What holds of the gauge's baseline for any hosts, latencies and lengths  *)
(* of the window: a low percentile is defined, trimming takes away what has *)
(* expired and nothing else, and variance is not read as distress.          *)
(*                                                                          *)
(* Whatever is said of all windows, however long, is an induction over      *)
(* numbers; it is made by taking the least number for which it is wrong.    *)
(***************************************************************************)
EXTENDS GaugeLatency, FiniteSetTheorems, SequenceTheorems, TLAPS

Below == {p \in Nat \X Nat : p[1] < p[2]}

LEMMA BelowIsWellFounded == IsWellFoundedOn(Below, Nat)
  BY NatLessThanWellFounded DEF OpToRel, Below

LEMMA Least ==
  ASSUME NEW S \in SUBSET Nat, S # {}
  PROVE  \E m \in S : \A n \in S : m <= n
<1>1. PICK m \in S : \A n \in S : <<n, m>> \notin Below
  BY BelowIsWellFounded, WFMin
<1>2. ASSUME NEW n \in S PROVE m <= n
  <2>1. m \in Nat /\ n \in Nat
    OBVIOUS
  <2>2. n < m => <<n, m>> \in Below
    BY <2>1 DEF Below
  <2> QED
    BY <1>1, <2>1, <2>2
<1> QED
  BY <1>2

LEMMA Induction ==
  ASSUME NEW S \in SUBSET Nat, 0 \in S, \A n \in S : n + 1 \in S
  PROVE  S = Nat
<1> SUFFICES ASSUME Nat \ S # {} PROVE FALSE
  OBVIOUS
<1>1. PICK n \in Nat \ S : \A k \in Nat \ S : n <= k
  BY Least
<1>2. n - 1 \in S
  BY <1>1
<1> QED
  BY <1>1, <1>2

\* What Min of the community modules gives.
LEMMA MinIsLeast ==
  ASSUME NEW S \in SUBSET Nat, S # {}
  PROVE  Min(S) \in S /\ \A n \in S : Min(S) <= n
  BY Least DEF Min
--------------------------------------------------------------------------------
Win == Seq(Sample)

\* The indices of a window, and how many there are.
LEMMA Indices ==
  ASSUME NEW w \in Win, NEW S \in SUBSET DOMAIN w
  PROVE  /\ DOMAIN w = 1..Len(w) /\ Len(w) \in Nat
         /\ IsFiniteSet(S) /\ Cardinality(S) \in 0..Len(w)
         /\ Cardinality(DOMAIN w) = Len(w)
<1>1. DOMAIN w = 1..Len(w) /\ Len(w) \in Nat
  BY DEF Win
<1>2. IsFiniteSet(1..Len(w)) /\ Cardinality(1..Len(w)) = Len(w)
  BY <1>1, FS_Interval
<1> QED
  BY <1>1, <1>2, FS_Subset, FS_CardinalityType

LEMMA SampleFields ==
  ASSUME NEW w \in Win, NEW i \in DOMAIN w
  PROVE  w[i] \in Sample /\ w[i].age \in 0..Window + 1 /\ w[i].lat \in Lats /\ w[i].lat \in Nat
<1>1. w[i] \in Sample
  BY DEF Win
<1> QED
  BY <1>1, LatencyAssumption DEF Sample

LEMMA TrimmedIsWindow ==
  ASSUME NEW w \in Win
  PROVE  /\ Trimmed(w) \in Win
         /\ Len(Trimmed(w)) = Len(w) - Cardinality(Expired(w))
         /\ \A i \in DOMAIN Trimmed(w) :
              /\ i + Cardinality(Expired(w)) \in DOMAIN w
              /\ Trimmed(w)[i] = w[i + Cardinality(Expired(w))]
<1> DEFINE n == Cardinality(Expired(w))
<1>1. n \in 0..Len(w) /\ DOMAIN w = 1..Len(w) /\ Len(w) \in Nat
  BY Indices DEF Expired
<1>2. \A i \in n + 1..Len(w) : w[i] \in Sample
  BY <1>1 DEF Win
<1>3. /\ Trimmed(w) \in Seq(Sample)
      /\ Len(Trimmed(w)) = IF n + 1 <= Len(w) THEN Len(w) - (n + 1) + 1 ELSE 0
      /\ \A i \in 1..Len(w) - (n + 1) + 1 : Trimmed(w)[i] = w[n + 1 + i - 1]
  BY <1>1, <1>2, SubSeqProperties DEF Trimmed
<1>4. Len(Trimmed(w)) = Len(w) - n
  BY <1>1, <1>3
<1>5. ASSUME NEW i \in DOMAIN Trimmed(w)
      PROVE  i + n \in DOMAIN w /\ Trimmed(w)[i] = w[i + n]
  BY <1>1, <1>3, <1>4
<1> QED
  BY <1>3, <1>4, <1>5 DEF Win

\* A window is in order of time, the oldest sample first.
InOrder(w) == \A i, j \in DOMAIN w : i <= j => w[j].age <= w[i].age

LEMMA MinOfTwo ==
  ASSUME NEW a \in Nat, NEW b \in Nat
  PROVE  Min({a, b}) = IF a <= b THEN a ELSE b
  BY MinIsLeast

\* What has expired is the head of the window.
LEMMA ExpiredIsHead ==
  ASSUME NEW w \in Win, InOrder(w)
  PROVE  Expired(w) = 1..Cardinality(Expired(w))
<1> DEFINE E == Expired(w)
           Out == {n \in Nat \ {0} : n \notin E}
<1>0. DOMAIN w = 1..Len(w) /\ Len(w) \in Nat /\ E \subseteq 1..Len(w)
  BY Indices DEF Expired
<1>1. PICK m \in Out : \A n \in Out : m <= n
  <2>1. Len(w) + 1 \in Out
    BY <1>0
  <2> QED
    BY <2>1, Least
<1>2. \A n \in 1..m - 1 : n \in E
  <2>1. ASSUME NEW n \in 1..m - 1, n \notin E PROVE FALSE
    <3>1. n \in Out
      BY <2>1
    <3> QED
      BY <1>1, <3>1
  <2> QED
    BY <2>1
<1>3. \A n \in E : n < m
  <2>1. ASSUME NEW n \in E, m <= n PROVE FALSE
    <3>1. m \in DOMAIN w /\ n \in DOMAIN w /\ w[n].age <= w[m].age
      BY <1>0, <2>1 DEF InOrder
    <3>2. m \in E
      BY <2>1, <3>1, SampleFields, LatencyAssumption DEF Expired, Fresh
    <3> QED
      BY <3>2
  <2> QED
    BY <1>0, <2>1
<1>4. E = 1..m - 1
  <2>1. m \in Nat /\ m > 0
    OBVIOUS
  <2>2. ASSUME NEW n \in E PROVE n \in 1..m - 1
    <3>1. n \in 1..Len(w) /\ n < m
      BY <1>0, <1>3
    <3> QED
      BY <1>0, <2>1, <3>1
  <2> QED
    BY <1>2, <2>2
<1>5. Cardinality(1..m - 1) = m - 1
  BY FS_Interval
<1> QED
  BY <1>4, <1>5

\* Cutting the window off is the same as picking what has not expired.
LEMMA TrimmingIsExact ==
  ASSUME NEW w \in Win, InOrder(w)
  PROVE  /\ InOrder(Trimmed(w))
         /\ \A i \in DOMAIN Trimmed(w) : Fresh(Trimmed(w)[i])
         /\ \A i \in DOMAIN w : Fresh(w[i]) => \E j \in DOMAIN Trimmed(w) : Trimmed(w)[j] = w[i]
<1> DEFINE n == Cardinality(Expired(w))
           t == Trimmed(w)
<1>0. /\ DOMAIN w = 1..Len(w) /\ Len(w) \in Nat /\ n \in 0..Len(w) /\ Expired(w) = 1..n
      /\ DOMAIN t = 1..Len(w) - n
      /\ \A i \in DOMAIN t : i + n \in DOMAIN w /\ t[i] = w[i + n]
  <2>1. t \in Win /\ Len(t) = Len(w) - n
    BY TrimmedIsWindow
  <2> QED
    BY <2>1, Indices, TrimmedIsWindow, ExpiredIsHead DEF Expired
<1>1. InOrder(t)
  <2>1. ASSUME NEW i \in DOMAIN t, NEW j \in DOMAIN t, i <= j PROVE t[j].age <= t[i].age
    <3>1. i + n \in DOMAIN w /\ j + n \in DOMAIN w /\ i + n <= j + n
      BY <1>0, <2>1
    <3> QED
      BY <1>0, <3>1 DEF InOrder
  <2> QED
    BY <2>1 DEF InOrder
<1>2. ASSUME NEW i \in DOMAIN t PROVE Fresh(t[i])
  <2>1. i + n \in DOMAIN w /\ i + n \notin Expired(w) /\ t[i] = w[i + n]
    BY <1>0
  <2> QED
    BY <2>1 DEF Expired
<1>3. ASSUME NEW i \in DOMAIN w, Fresh(w[i]) PROVE \E j \in DOMAIN t : t[j] = w[i]
  <2>1. i \notin 1..n
    BY <1>0, <1>3 DEF Expired
  <2>2. i - n \in DOMAIN t /\ t[i - n] = w[i - n + n] /\ i - n + n = i
    BY <1>0, <2>1
  <2> QED
    BY <2>2
<1> QED
  BY <1>1, <1>2, <1>3
--------------------------------------------------------------------------------
\* Some number bounds a window, and so one of its samples is the largest.
LEMMA Bounded ==
  ASSUME NEW w \in Win, w # <<>>
  PROVE  \E i \in DOMAIN w : \A j \in DOMAIN w : w[j].lat <= w[i].lat
<1> DEFINE Bounds == {m \in Nat : \A j \in DOMAIN w : w[j].lat <= m}
           Good == {n \in Nat : \E m \in Nat : \A j \in DOMAIN w : j <= n => w[j].lat <= m}
<1>0. /\ DOMAIN w = 1..Len(w) /\ Len(w) \in Nat \ {0}
      /\ \A j \in DOMAIN w : w[j].lat \in Nat
  BY Indices, SampleFields DEF Win
<1>1. Good = Nat
  <2>1. 0 \in Good
    BY <1>0
  <2>2. ASSUME NEW n \in Good PROVE n + 1 \in Good
    <3>1. PICK m \in Nat : \A j \in DOMAIN w : j <= n => w[j].lat <= m
      OBVIOUS
    <3>2. CASE n + 1 \in DOMAIN w
      <4>1. \E k \in Nat : m <= k /\ w[n + 1].lat <= k
        BY <1>0, <3>2
      <4>2. PICK k \in Nat : m <= k /\ w[n + 1].lat <= k
        BY <4>1
      <4>3. ASSUME NEW j \in DOMAIN w, j <= n + 1 PROVE w[j].lat <= k
        <5>1. j <= n \/ j = n + 1
          BY <1>0, <4>3
        <5> QED
          BY <1>0, <3>1, <4>2, <5>1
      <4> QED
        BY <4>3
    <3>3. CASE n + 1 \notin DOMAIN w
      <4>1. ASSUME NEW j \in DOMAIN w, j <= n + 1 PROVE w[j].lat <= m
        <5>1. j \in Nat /\ n \in Nat /\ j # n + 1
          BY <1>0, <3>3
        <5> QED
          BY <3>1, <4>1, <5>1
      <4> QED
        BY <4>1
    <3> QED
      BY <3>2, <3>3
  <2> HIDE DEF Good
  <2>3. Good \subseteq Nat
    BY DEF Good
  <2> QED
    BY <2>1, <2>2, <2>3, Induction
<1>2. Bounds # {}
  <2>1. \A n \in Nat : \E m \in Nat : \A j \in DOMAIN w : j <= n => w[j].lat <= m
    BY <1>1
  <2>2. PICK m \in Nat : \A j \in DOMAIN w : j <= Len(w) => w[j].lat <= m
    BY <1>0, <2>1
  <2>3. m \in Bounds
    BY <1>0, <2>2
  <2> QED
    BY <2>3
<1>3. PICK m \in Bounds : \A k \in Bounds : m <= k
  BY <1>2, Least
<1>4. ASSUME \A j \in DOMAIN w : w[j].lat # m PROVE FALSE
  <2>1. \A j \in DOMAIN w : w[j].lat < m
    BY <1>0, <1>3, <1>4
  <2>2. m - 1 \in Bounds
    BY <1>0, <2>1
  <2> QED
    BY <1>3, <2>2
<1> QED
  BY <1>3, <1>4
--------------------------------------------------------------------------------
LEMMA UpToGrows ==
  ASSUME NEW w \in Win, NEW l \in Nat, NEW m \in Nat, l <= m
  PROVE  Cardinality(UpTo(w, l)) <= Cardinality(UpTo(w, m))
<1>1. UpTo(w, m) \subseteq DOMAIN w /\ UpTo(w, l) \subseteq UpTo(w, m)
  BY SampleFields DEF UpTo
<1> QED
  BY <1>1, Indices, FS_Subset

\* A Share of n: the integer division is exact about whole numbers.
LEMMA ShareOf ==
  ASSUME NEW c \in Nat, NEW n \in Nat
  PROVE  /\ n \div Share \in Nat
         /\ c > n \div Share <=> Share * c > n
         /\ n > 0 => n > n \div Share
<1>1. Share \in Nat /\ Share > 1
  BY LatencyAssumption
<1>2. n \div Share \in Nat /\ Share * (n \div Share) <= n /\ n < Share * (n \div Share + 1)
  BY <1>1
<1> QED
  BY <1>1, <1>2

\* A window that is not empty has a percentile: one of the latencies, such that
\* more than one in Share of the samples are no larger, and the least such.
LEMMA PercentileIsThere ==
  ASSUME NEW w \in Win, w # <<>>
  PROVE  /\ Percentile(w) \in Lats
         /\ Cardinality(UpTo(w, Percentile(w))) > Len(w) \div Share
         /\ \A l \in Lats : Cardinality(UpTo(w, l)) > Len(w) \div Share => Percentile(w) <= l
<1> DEFINE P == {l \in Lats : Cardinality(UpTo(w, l)) > Len(w) \div Share}
<1>1. PICK i \in DOMAIN w : \A j \in DOMAIN w : w[j].lat <= w[i].lat
  BY Bounded
<1>2. UpTo(w, w[i].lat) = DOMAIN w
  BY <1>1 DEF UpTo
<1>3. Cardinality(DOMAIN w) = Len(w) /\ Len(w) \in Nat \ {0}
  BY Indices DEF Win
<1>4. Len(w) > Len(w) \div Share
  BY <1>3, ShareOf
<1>5. w[i].lat \in P
  BY <1>2, <1>3, <1>4, SampleFields
<1>6. P \subseteq Nat
  BY LatencyAssumption
<1>7. Percentile(w) = Min(P)
  BY DEF Percentile
<1> HIDE DEF P
<1>8. Percentile(w) \in P /\ \A l \in P : Percentile(w) <= l
  BY <1>5, <1>6, <1>7, MinIsLeast
<1> QED
  BY <1>8 DEF P
--------------------------------------------------------------------------------
\* Every window is one, in order of time, and holds no instant reset.
LatencyInv == LatencyTypeOK /\ \A h \in Hosts : InOrder(win[h])

LEMMA BlendNat == ASSUME NEW e \in Nat, NEW l \in Lats PROVE Blend(e, l) \in Nat
<1>1. l \in Nat /\ 3 * l + 7 * e \in Nat
  BY LatencyAssumption
<1>2. (3 * l + 7 * e) \div 10 \in Nat
  BY <1>1
<1> QED
  BY <1>1, <1>2 DEF Blend

LEMMA LatencyInit == Init => LatencyInv
  BY DEF Init, LatencyInv, LatencyTypeOK, InOrder, Absent, Bands, Severity

\* The window after a healthy answer.
LEMMA Served ==
  ASSUME NEW w \in Win, InOrder(w), \A i \in DOMAIN w : w[i].lat >= MinLat,
         NEW l \in Lats, l >= MinLat
  PROVE  LET t == Trimmed(Append(w, [age |-> 0, lat |-> l]))
         IN  t \in Win /\ InOrder(t) /\ \A i \in DOMAIN t : t[i].lat >= MinLat
<1> DEFINE x == [age |-> 0, lat |-> l]
           v == Append(w, x)
<1>1. x \in Sample /\ x.age = 0 /\ x.lat = l
  BY LatencyAssumption DEF Sample
<1>2. /\ v \in Win /\ DOMAIN v = 1..Len(w) + 1 /\ Len(w) \in Nat /\ DOMAIN w = 1..Len(w)
      /\ \A i \in DOMAIN w : v[i] = w[i]
      /\ v[Len(w) + 1] = x
  BY <1>1, AppendProperties DEF Win
<1>3. \A i \in DOMAIN v : i \in DOMAIN w \/ v[i] = x
  BY <1>2
<1>4. InOrder(v)
  <2>1. ASSUME NEW i \in DOMAIN v, NEW j \in DOMAIN v, i <= j PROVE v[j].age <= v[i].age
    <3>1. CASE j \in DOMAIN w
      BY <1>2, <2>1, <3>1 DEF InOrder
    <3>2. CASE v[j] = x
      BY <1>1, <1>2, <3>2, SampleFields, LatencyAssumption
    <3> QED
      BY <1>3, <3>1, <3>2
  <2> QED
    BY <2>1 DEF InOrder
<1>5. \A i \in DOMAIN v : v[i].lat >= MinLat
  BY <1>1, <1>2, <1>3
<1> HIDE DEF v
<1> QED
  BY <1>2, <1>4, <1>5, TrimmedIsWindow, TrimmingIsExact DEF v

\* The window after an instant.
LEMMA Aged ==
  ASSUME NEW w \in Win, InOrder(w)
  PROVE  LET a == [i \in DOMAIN w |-> [w[i] EXCEPT !.age = Min({@ + 1, Window + 1})]]
         IN  /\ a \in Win /\ InOrder(a) /\ DOMAIN a = DOMAIN w
             /\ \A i \in DOMAIN a : a[i].lat = w[i].lat
<1> DEFINE a == [i \in DOMAIN w |-> [w[i] EXCEPT !.age = Min({@ + 1, Window + 1})]]
           Older(n) == IF n + 1 <= Window + 1 THEN n + 1 ELSE Window + 1
<1>1. ASSUME NEW i \in DOMAIN w
      PROVE  a[i] \in Sample /\ a[i].age = Older(w[i].age) /\ a[i].lat = w[i].lat
  <2>1. /\ w[i] \in Sample /\ w[i].age \in 0..Window + 1 /\ w[i].lat \in Lats
        /\ Window \in Nat
    BY SampleFields, LatencyAssumption
  <2>2. Min({w[i].age + 1, Window + 1}) = Older(w[i].age) /\ Older(w[i].age) \in 0..Window + 1
    BY <2>1, MinOfTwo
  <2> QED
    BY <2>1, <2>2 DEF Sample
<1>2. DOMAIN w = 1..Len(w) /\ Len(w) \in Nat
  BY Indices
<1>3. a \in Win /\ DOMAIN a = DOMAIN w
  <2>1. a \in [1..Len(w) -> Sample]
    BY <1>1, <1>2
  <2> HIDE DEF a
  <2> QED
    BY <1>2, <2>1, SeqDef DEF Win
<1> HIDE DEF a
<1>4. InOrder(a)
  <2>1. ASSUME NEW i \in DOMAIN w, NEW j \in DOMAIN w, i <= j PROVE a[j].age <= a[i].age
    <3>1. w[j].age <= w[i].age /\ w[i].age \in Nat /\ w[j].age \in Nat /\ Window \in Nat
      BY <2>1, SampleFields, LatencyAssumption DEF InOrder
    <3>2. a[i].age = Older(w[i].age) /\ a[j].age = Older(w[j].age)
      BY <1>1
    <3> QED
      BY <3>1, <3>2
  <2> QED
    BY <1>3, <2>1 DEF InOrder
<1> QED
  BY <1>1, <1>3, <1>4 DEF a

LEMMA LatencyStep == LatencyInv /\ [Next]_vars => LatencyInv'
<1> SUFFICES ASSUME LatencyInv, [Next]_vars PROVE LatencyInv'
  OBVIOUS
<1>0. /\ win \in [Hosts -> Win] /\ ewma \in [Hosts -> Nat] /\ band \in Bands
      /\ \A h \in Hosts : InOrder(win[h]) /\ \A i \in DOMAIN win[h] : win[h][i].lat >= MinLat
  BY DEF LatencyInv, LatencyTypeOK, Win
<1> USE DEF LatencyInv, LatencyTypeOK, Win
<1>1. ASSUME NEW h \in Hosts, NEW l \in Lats, Serve(h, l) PROVE LatencyInv'
  <2> DEFINE t == Trimmed(Append(win[h], [age |-> 0, lat |-> l]))
  <2>1. t \in Win /\ InOrder(t) /\ \A i \in DOMAIN t : t[i].lat >= MinLat
    BY <1>0, <1>1, Served DEF Serve
  <2>2. /\ win' = [win EXCEPT ![h] = t] /\ ewma' = [ewma EXCEPT ![h] = Blend(@, l)]
        /\ UNCHANGED band
    BY <1>1 DEF Serve
  <2> HIDE DEF t
  <2>3. ewma' \in [Hosts -> Nat]
    BY <1>0, <2>2, BlendNat
  <2> QED
    BY <1>0, <2>1, <2>2, <2>3
<1>2. ASSUME NEW h \in Hosts, NEW l \in Lats, Flunk(h, l) PROVE LatencyInv'
  <2>1. ewma' \in [Hosts -> Nat]
    BY <1>0, <1>2, BlendNat DEF Flunk
  <2> QED
    BY <1>0, <1>2, <2>1 DEF Flunk
<1>3. CASE Judge
  BY <1>0, <1>3 DEF Judge, Found, BandOf, Bands, Severity
<1>4. CASE Tick
  <2>1. ASSUME NEW h \in Hosts
        PROVE  /\ win'[h] \in Win /\ InOrder(win'[h])
               /\ \A i \in DOMAIN win'[h] : win'[h][i].lat >= MinLat
    <3> DEFINE a == [i \in DOMAIN win[h] |->
                      [win[h][i] EXCEPT !.age = Min({@ + 1, Window + 1})]]
    <3>1. win'[h] = a
      BY <1>4 DEF Tick
    <3>2. /\ a \in Win /\ InOrder(a) /\ DOMAIN a = DOMAIN win[h]
          /\ \A i \in DOMAIN a : a[i].lat = win[h][i].lat
      BY <1>0, Aged
    <3> HIDE DEF a
    <3> QED
      BY <1>0, <3>1, <3>2
  <2>2. win' \in [Hosts -> Win] /\ UNCHANGED <<ewma, band>>
    <3>1. DOMAIN win' = Hosts /\ win' = [h \in Hosts |-> win'[h]]
      BY <1>4 DEF Tick
    <3> QED
      BY <1>4, <2>1, <3>1 DEF Tick
  <2> QED
    BY <1>0, <2>1, <2>2
<1>5. CASE UNCHANGED vars
  BY <1>0, <1>5 DEF vars
<1> QED
  BY <1>1, <1>2, <1>3, <1>4, <1>5 DEF Next, Answer

LEMMA LatencyAlways == Spec => []LatencyInv
  BY LatencyInit, LatencyStep, PTL DEF Spec

\* Type correctness of the windows and averages of any number of hosts: in
\* particular no instant reset is ever a sample, and the gauge always has an answer.
THEOREM LatencyTypes == Spec => []LatencyTypeOK
  BY LatencyAlways, PTL DEF LatencyInv

\* record_latency looks only at the first sample to see whether any has expired:
\* rightly, for the windows are always in order of time.
THEOREM OldestIsFirst == Spec => [](\A h \in Hosts : InOrder(win[h]))
  BY LatencyAlways, PTL DEF LatencyInv
--------------------------------------------------------------------------------
\* The baseline of a trusted host.
LEMMA BaseOfTrusted ==
  ASSUME LatencyInv, NEW h \in Hosts, Trusted(h)
  PROVE  /\ win[h] \in Win /\ win[h] # <<>> /\ Len(win[h]) \in Nat /\ ewma[h] \in Nat
         /\ Percentile(win[h]) \in Nat /\ Base(h) \in {Percentile(win[h]), BaseFloor}
         /\ Base(h) \in Nat \ {0} /\ Percentile(win[h]) <= Base(h)
<1>1. win[h] \in Win /\ win[h] # <<>> /\ Len(win[h]) \in Nat /\ ewma[h] \in Nat
  BY LatencyAssumption DEF LatencyInv, LatencyTypeOK, Trusted, Win
<1>2. Percentile(win[h]) \in Nat \ {0}
  BY <1>1, PercentileIsThere, LatencyAssumption
<1> QED
  BY <1>1, <1>2, LatencyAssumption DEF Base

\* "a jittery-but-healthy server's lucky-fast sample doesn't make normal
\* variance read as distress" (README.md, the adaptive gauge), for windows of any
\* length and any latencies: whatever one in Share of the samples were, a host that
\* answers within a third of the others is found healthy.
THEOREM LuckyFastIgnored == Spec => []LuckyFastIsNoDistress
<1>1. LatencyInv => LuckyFastIsNoDistress
  <2> SUFFICES ASSUME LatencyInv, NEW h \in Hosts, NEW l \in Lats, Trusted(h),
                      10 * ewma[h] <= 13 * l,
                      Share * Cardinality(UpTo(win[h], l - 1)) <= Len(win[h])
               PROVE  BandOf(h) = "healthy"
    BY DEF LuckyFastIsNoDistress
  <2> DEFINE w == win[h]
             p == Percentile(w)
  <2>0. w \in Win /\ w # <<>> /\ Len(w) \in Nat /\ ewma[h] \in Nat /\ l \in Nat \ {0}
        /\ p \in Nat /\ Base(h) \in Nat \ {0} /\ p <= Base(h)
    BY BaseOfTrusted, LatencyAssumption
  <2>1. Cardinality(UpTo(w, p)) > Len(w) \div Share
    BY <2>0, PercentileIsThere
  <2>2. ASSUME p <= l - 1 PROVE FALSE
    <3>1. Cardinality(UpTo(w, p)) <= Cardinality(UpTo(w, l - 1))
      BY <2>0, <2>2, UpToGrows
    <3>2. Cardinality(UpTo(w, p)) \in Nat /\ Cardinality(UpTo(w, l - 1)) \in Nat
      BY <2>0, Indices DEF UpTo
    <3>3. ~(Cardinality(UpTo(w, l - 1)) > Len(w) \div Share)
      <4>1. ~(Share * Cardinality(UpTo(w, l - 1)) > Len(w))
        BY <2>0, <3>2, LatencyAssumption
      <4> QED
        BY <2>0, <3>2, <4>1, ShareOf
    <3>4. Len(w) \div Share \in Nat
      BY <2>0, ShareOf
    <3> HIDE DEF w, p
    <3> QED
      BY <2>1, <3>1, <3>2, <3>3, <3>4
  <2>3. l <= Base(h)
    BY <2>0, <2>2
  <2>4. /\ ~(ewma[h] >= 4 * Base(h)) /\ ~(ewma[h] >= 2 * Base(h))
        /\ 10 * ewma[h] <= 13 * Base(h)
    BY <2>0, <2>3
  <2> QED
    BY <2>4 DEF BandOf
<1> QED
  BY <1>1, LatencyAlways, PTL

\* Nor is distress overlooked: a host that answers four times as slowly as more
\* than one in Share of its samples, beyond BASE_FLOOR, is in the worst band.
ClimbIsDistress ==
  \A h \in Hosts, l \in Lats :
     /\ Trusted(h) /\ l >= BaseFloor /\ ewma[h] >= 4 * l
     /\ Share * Cardinality(UpTo(win[h], l)) > Len(win[h])
     => BandOf(h) = "hard"

\* "p20 ignores the lucky-fast tail while still tracking a rate-induced latency
\* climb" (ratelimit.py:180-181): the second half, for any window.
THEOREM ClimbFound == Spec => []ClimbIsDistress
<1>1. LatencyInv => ClimbIsDistress
  <2> SUFFICES ASSUME LatencyInv, NEW h \in Hosts, NEW l \in Lats, Trusted(h),
                      l >= BaseFloor, ewma[h] >= 4 * l,
                      Share * Cardinality(UpTo(win[h], l)) > Len(win[h])
               PROVE  BandOf(h) = "hard"
    BY DEF ClimbIsDistress
  <2>0. win[h] \in Win /\ win[h] # <<>> /\ Len(win[h]) \in Nat /\ ewma[h] \in Nat /\ l \in Nat
        /\ Percentile(win[h]) \in Nat /\ Base(h) \in {Percentile(win[h]), BaseFloor}
        /\ Base(h) \in Nat \ {0}
    BY BaseOfTrusted, LatencyAssumption
  <2>1. Cardinality(UpTo(win[h], l)) \in Nat
    BY <2>0, Indices DEF UpTo
  <2>2. Cardinality(UpTo(win[h], l)) > Len(win[h]) \div Share
    BY <2>0, <2>1, ShareOf
  <2>3. Base(h) <= l
    BY <2>0, <2>2, PercentileIsThere
  <2>4. /\ ewma[h] >= 4 * Base(h)
        /\ ~(ewma[h] < 4 * Base(h)) /\ ~(10 * ewma[h] <= 13 * Base(h))
    BY <2>0, <2>3
  <2> QED
    BY <2>4 DEF BandOf
<1> QED
  BY <1>1, LatencyAlways, PTL
================================================================================
