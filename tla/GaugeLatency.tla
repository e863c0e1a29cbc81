----------------------------- MODULE GaugeLatency -----------------------------
(***************************************************************************)
(* Where the gauge's worst latency ratio comes from (ratelimit.py:          *)
(* record_latency, and the first half of _adapt_tick): per host a window of *)
(* healthy latencies, whose low percentile is the baseline, and a moving    *)
(* average of all answers, which is compared with it.                       *)
(*                                                                          *)
(* Latencies are whole numbers and the moving average is rounded down to    *)
(* one.  A sample beyond the window's length grows no older.                *)
(***************************************************************************)
EXTENDS Integers, SequencesExt

CONSTANTS Hosts,       \* the hosts that answer, by pretty_host
          Lats,        \* the latencies they may answer with
          MinLat,      \* MIN_LAT_SAMPLE
          BaseFloor,   \* BASE_FLOOR
          Window,      \* WINDOW, in instants
          MinSamples,  \* MIN_SAMPLES
          Share,       \* 5: the baseline passes over one sample in Share
          MaxSamples   \* bound: samples in a window

ASSUME LatencyAssumption ==
  /\ Lats \subseteq Nat \ {0}
  /\ MinLat \in Nat /\ BaseFloor \in Nat \ {0}
  /\ Window \in Nat /\ MinSamples \in Nat \ {0} /\ MaxSamples \in Nat
  /\ Share \in Nat \ {0, 1}

VARIABLES win,    \* hoststats[h]["win"], oldest first
          ewma,   \* hoststats[h]["ewma"], or Absent
          band    \* where _adapt_tick last found the worst ratio

vars == <<win, ewma, band>>

Absent == 0
Sample == [age : 0..Window + 1, lat : Lats]

\* worst_ratio against HARD, SOFT and RECOVER_RATIO; "none" when no host is
\* trusted.
Severity == [none |-> 0, healthy |-> 1, raised |-> 2, soft |-> 3, hard |-> 4]
Bands == DOMAIN Severity

Init == /\ win = [h \in Hosts |-> <<>>]
        /\ ewma = [h \in Hosts |-> Absent]
        /\ band = "none"
--------------------------------------------------------------------------------
\* Mutant of Blend: the worst answer is remembered, not the average.
Peak(e, l) == IF e > l THEN e ELSE l

\* EWMA_ALPHA is 0.3.
Blend(e, l) == IF e = Absent THEN l ELSE (3 * l + 7 * e) \div 10

Fresh(s) == s.age <= Window

\* The window is trimmed when its oldest sample has expired; being in order of
\* time, it has all that expired in front.
Expired(w) == {i \in DOMAIN w : ~Fresh(w[i])}
Trimmed(w) == SubSeq(w, Cardinality(Expired(w)) + 1, Len(w))

\* Mutant of Serve: an instant reset defines the floor too.
ServeAny(h, l) == LET w == Trimmed(Append(win[h], [age |-> 0, lat |-> l]))
                  IN  /\ ewma' = [ewma EXCEPT ![h] = Blend(@, l)]
                      /\ UNCHANGED band
                      /\ Len(w) <= MaxSamples
                      /\ win' = [win EXCEPT ![h] = w]

\* record_latency of a healthy answer.
Serve(h, l) == LET w == Trimmed(Append(win[h], [age |-> 0, lat |-> l]))
               IN  /\ l >= MinLat
                   /\ ewma' = [ewma EXCEPT ![h] = Blend(@, l)]
                   /\ UNCHANGED band
                   /\ Len(w) <= MaxSamples
                   /\ win' = [win EXCEPT ![h] = w]

\* record_latency of a 5xx or of an instant reset: not in the window.
Flunk(h, l) == /\ ewma' = [ewma EXCEPT ![h] = Blend(@, l)]
               /\ UNCHANGED <<win, band>>

\* The samples of w that are at most l.
UpTo(w, l) == {i \in DOMAIN w : w[i].lat <= l}

\* Mutant of Percentile: the fastest sample.
Fastest(w) == Min({w[i].lat : i \in DOMAIN w})

\* sorted(lats)[len(lats) // 5]
Percentile(w) == Min({l \in Lats : Cardinality(UpTo(w, l)) > Len(w) \div Share})

Base(h) == IF Percentile(win[h]) > BaseFloor THEN Percentile(win[h]) ELSE BaseFloor
Trusted(h) == Len(win[h]) >= MinSamples

BandOf(h) == CASE ewma[h] >= 4 * Base(h) -> "hard"
               [] ewma[h] >= 2 * Base(h) /\ ewma[h] < 4 * Base(h) -> "soft"
               [] 10 * ewma[h] <= 13 * Base(h) -> "healthy"
               [] OTHER -> "raised"

\* The bands of the trusted hosts.
Found == {"none"} \cup {BandOf(h) : h \in {g \in Hosts : Trusted(g)}}

\* _adapt_tick, as far as it reads the windows: the worst ratio of all hosts.
Judge == /\ UNCHANGED <<win, ewma>>
         /\ \E found \in {Found} : \E b \in found :
               /\ \A x \in found : Severity[x] <= Severity[b]
               /\ band' = b

\* An instant passes.
Tick == /\ UNCHANGED <<ewma, band>>
        /\ win' = [h \in Hosts |-> [i \in DOMAIN win[h] |->
                     [win[h][i] EXCEPT !.age = Min({@ + 1, Window + 1})]]]

Answer(h) == \E l \in Lats : Serve(h, l) \/ Flunk(h, l)

Next == (\E h \in Hosts : Answer(h)) \/ Judge \/ Tick

Spec == Init /\ [][Next]_vars

\* Time passes and the gauge runs once a second; hosts answer when they like.
FairSpec == Spec /\ WF_vars(Judge) /\ WF_vars(Tick)
--------------------------------------------------------------------------------
LatencyTypeOK == /\ win \in [Hosts -> Seq(Sample)]
                 /\ \A h \in Hosts : \A i \in DOMAIN win[h] : win[h][i].lat >= MinLat
                 /\ ewma \in [Hosts -> Nat]
                 /\ band \in Bands

\* "a jittery-but-healthy server's lucky-fast sample doesn't make normal
\* variance read as distress" (README.md, the adaptive gauge): a host that now
\* answers within a third of what four in five of its samples took (all but one
\* in Share) is not found in distress, however fast the fifth was.
LuckyFastIsNoDistress ==
  \A h \in Hosts, l \in Lats :
     /\ Trusted(h) /\ 10 * ewma[h] <= 13 * l
     /\ Share * Cardinality(UpTo(win[h], l - 1)) <= Len(win[h])
     => BandOf(h) = "healthy"

\* From some time on h answers with l only, and goes on answering.
Steady(h, l) == /\ <>[][Answer(h) => Serve(h, l)]_vars
                /\ []<><<Serve(h, l)>>_vars

\* "rolling seconds for the min-RTT baseline" (ratelimit.py:40): hosts that for
\* good answer each with a latency of its own, and go on answering, are not
\* found strained for ever, whatever they answered before.  (So a lasting strain
\* is forgotten too, and the rate climbs again.)  A host that is trusted and has
\* stopped answering is the exception: its last average stays.
NewNormalIsLearnt ==
  (\A h \in Hosts : <>[]~Trusted(h) \/ \E l \in {x \in Lats : x >= MinLat} : Steady(h, l))
  => <>[](band \in {"none", "healthy"})
================================================================================
