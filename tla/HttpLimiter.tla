------------------------------ MODULE HttpLimiter ------------------------------
(***************************************************************************)
(* The HTTP engine (class RateLimiter, ratelimit.py): one token bucket, the  *)
(* request / response / error hooks of the mitmproxy addon, and the adaptive *)
(* gauge that moves the rate once a second.                                  *)
(*                                                                           *)
(* Everything runs in one asyncio thread, so the code between two awaits is  *)
(* one step.  acquire() keeps the asyncio.Lock while it sleeps: the head of  *)
(* queue is the coroutine that holds the lock, the others wait for it in     *)
(* arrival order.  The gauge's tick may fall in the middle of that sleep.    *)
(*                                                                           *)
(* As in PacerBucket time advances in instants and tokens are counted in     *)
(* units; a rate is in units per instant, on the grid of one unit.           *)
(***************************************************************************)
EXTENDS Integers, SequencesExt

CONSTANTS Flows,      \* mitmproxy flows; an answered one may be used again
          Modes,      \* which of "gauge", "ceiling" and "fixed" may be started
          Ceiling,    \* RATE
          Floor,      \* min(ADAPT_MIN, RATE)
          Step,       \* self.step, the additive increase
          Token,      \* units in a token
          Second,     \* instants in STATS_EVERY, and in a full bucket
          FillTime,   \* instants after which an idle bucket is full
          Warmup,     \* WARMUP, in instants
          Stall,      \* STALL_S, in instants
          Reap        \* max(STALL_S * 3, 60), in instants

ASSUME LimiterAssumption ==
  /\ Modes \subseteq {"gauge", "ceiling", "fixed"}
  /\ Floor \in Nat \ {0} /\ Ceiling \in Nat /\ Floor <= Ceiling
  /\ Step \in Nat \ {0} /\ Token \in Nat \ {0} /\ Second \in Nat \ {0}
  /\ FillTime \in Nat /\ Ceiling * Second <= Floor * FillTime
  /\ Warmup \in Nat /\ Stall \in Nat /\ Reap \in Nat /\ Stall < Reap

VARIABLES mode,       \* how goslow was started; never changes
          rate,       \* self.rate
          capacity,   \* self.capacity, in units
          tokens,     \* self.tokens, in units, as of self.updated
          lag,        \* instants since self.updated, up to FillTime
          queue,      \* the flows inside acquire(), the holder of the lock first
          nap,        \* what is left of the holder's asyncio.sleep
          sent,       \* the flows admitted upstream and not yet answered
          age,        \* self.inflight: instants since admission, or Absent
          newLoss,    \* self.losses > self._last_losses
          warm,       \* instants of warm-up left
          timer,      \* instants until snapshot_loop wakes
          ratio       \* worst_ratio against SOFT, HARD and RECOVER_RATIO

bucket == <<rate, capacity, tokens, lag>>
flows == <<queue, nap, sent, age, newLoss>>
limiterVars == <<mode, bucket, flows, warm, timer, ratio>>

Absent == -1
Ratios == {"none", "healthy", "raised", "soft", "hard"}
Adaptive == mode # "fixed"

Smaller(a, b) == IF a < b THEN a ELSE b
Larger(a, b) == IF a < b THEN b ELSE a

\* Mutant of TokensNow: the balance is not clipped at the capacity.
TokensUnclipped == tokens + rate * lag

\* The balance acquire() refills to, and tokens_now().
TokensNow == Smaller(capacity, tokens + rate * lag)

\* Mutant of SleepFor: the time of a whole token.
SleepOfAToken(t) == (Token + rate - 1) \div rate

\* asyncio.sleep((1 - tokens) / rate), up to the next whole instant.
SleepFor(t) == (Token - t + rate - 1) \div rate

Queued == ToSet(queue)

InitLimiter ==
  /\ mode \in Modes
  /\ rate = IF mode = "gauge" THEN Floor ELSE Ceiling
  /\ capacity = rate * Second
  /\ tokens = IF mode = "fixed" THEN capacity ELSE Floor * Second
  /\ lag = 0
  /\ queue = <<>> /\ nap = 0
  /\ sent = {} /\ age = [f \in Flows |-> Absent] /\ newLoss = FALSE
  /\ warm = Warmup /\ timer = Second /\ ratio = "none"
--------------------------------------------------------------------------------
\* The request hook of an in-scope flow calls acquire(); a flow that finds the
\* lock taken waits behind the others.
Request(f) == /\ f \notin Queued \cup sent
              /\ queue' = Append(queue, f)
              /\ UNCHANGED <<mode, bucket, nap, sent, age, newLoss, warm, timer, ratio>>

\* Mutant of Admit: self.updated is left where it was.
AdmitKeepsUpdated ==
  /\ queue # <<>> /\ nap = 0
  /\ TokensNow >= Token
  /\ tokens' = TokensNow - Token
  /\ queue' = Tail(queue)
  /\ sent' = sent \cup {Head(queue)}
  /\ age' = IF Adaptive THEN [age EXCEPT ![Head(queue)] = 0] ELSE age
  /\ UNCHANGED <<mode, rate, capacity, lag, nap, newLoss, warm, timer, ratio>>

\* The holder refills, takes a token, leaves the lock to the next in line, and
\* its hook returns: the flow goes upstream, tracked when the gauge is on.
Admit == /\ queue # <<>> /\ nap = 0
         /\ TokensNow >= Token
         /\ tokens' = TokensNow - Token
         /\ lag' = 0
         /\ queue' = Tail(queue)
         /\ sent' = sent \cup {Head(queue)}
         /\ age' = IF Adaptive THEN [age EXCEPT ![Head(queue)] = 0] ELSE age
         /\ UNCHANGED <<mode, rate, capacity, nap, newLoss, warm, timer, ratio>>

\* Mutant of Sleep: what was earned since self.updated is not added.
SleepForgets ==
  /\ queue # <<>> /\ nap = 0
  /\ TokensNow < Token
  /\ lag' = 0
  /\ nap' = SleepFor(TokensNow)
  /\ UNCHANGED <<mode, rate, capacity, tokens, queue, sent, age, newLoss, warm, timer, ratio>>

\* The holder refills, finds no token and sleeps with the lock in its hands.
Sleep == /\ queue # <<>> /\ nap = 0
         /\ TokensNow < Token
         /\ tokens' = TokensNow
         /\ lag' = 0
         /\ nap' = SleepFor(TokensNow)
         /\ UNCHANGED <<mode, rate, capacity, queue, sent, age, newLoss, warm, timer, ratio>>

\* The hook of the i-th in line is cancelled inside acquire(): it gives up its
\* place, and the lock if it holds it.
Cancel(i) == /\ i \in DOMAIN queue
             /\ queue' = RemoveAt(queue, i)
             /\ nap' = IF i = 1 THEN 0 ELSE nap
             /\ UNCHANGED <<mode, bucket, sent, age, newLoss, warm, timer, ratio>>

\* Mutant of Respond: the flow stays in self.inflight.
RespondKeeps(f) ==
  /\ f \in sent
  /\ sent' = sent \ {f}
  /\ UNCHANGED <<mode, bucket, queue, nap, age, newLoss, warm, timer, ratio>>

\* The response hook: the flow is answered and no longer tracked.
Respond(f) == /\ f \in sent
              /\ sent' = sent \ {f}
              /\ age' = [age EXCEPT ![f] = Absent]
              /\ UNCHANGED <<mode, bucket, queue, nap, newLoss, warm, timer, ratio>>

\* The error hook: a loss, if the flow is still tracked.
Fail(f) == /\ f \in sent
           /\ sent' = sent \ {f}
           /\ age' = [age EXCEPT ![f] = Absent]
           /\ newLoss' = (newLoss \/ age[f] # Absent)
           /\ UNCHANGED <<mode, bucket, queue, nap, warm, timer, ratio>>
--------------------------------------------------------------------------------
Stalled == \E f \in Flows : age[f] > Stall
Distress(r) == newLoss \/ Stalled \/ r = "hard"

\* Mutants of Ramp: past the ceiling, and only while a whole step fits.
RampUncapped == rate + Step
RampShort == IF rate + Step < Ceiling THEN rate + Step ELSE rate

Backoff == Larger(Floor, rate \div 2)
Ease == Larger(Floor, (9 * rate) \div 10)
Ramp == Smaller(Ceiling, rate + Step)

\* The rate _adapt_tick decides on when the worst latency ratio is r.
NextRate(r) == CASE Distress(r) -> Backoff
                 [] ~Distress(r) /\ r = "soft" -> Ease
                 [] ~Distress(r) /\ r = "healthy" -> Ramp
                 [] OTHER -> rate

\* Mutants of NextCapacity and Reaped: the burst stays, no entry is dropped.
KeptCapacity(r) == capacity
NeverReaped(a) == a

\* The burst that goes with a rate, and an in-flight entry after the tick.
NextCapacity(r) == r * Second
Reaped(a) == IF a > Reap THEN Absent ELSE a

\* Mutant of Observe: the warm-up tick already takes note of the losses.
ObserveClears == /\ timer = 0
                 /\ ~Adaptive \/ warm > 0
                 /\ timer' = Second
                 /\ newLoss' = FALSE
                 /\ UNCHANGED <<mode, bucket, queue, nap, sent, age, warm, ratio>>

\* snapshot_loop wakes; the gauge is off, or still warming up.
Observe == /\ timer = 0
           /\ ~Adaptive \/ warm > 0
           /\ timer' = Second
           /\ UNCHANGED <<mode, bucket, flows, warm, ratio>>

\* snapshot_loop wakes and _adapt_tick moves the rate, and the burst with it.
Regulate == /\ timer = 0
            /\ Adaptive /\ warm = 0
            /\ timer' = Second
            /\ \E r \in Ratios : ratio' = r /\ rate' = NextRate(r)
            /\ capacity' = NextCapacity(rate')
            /\ tokens' = Smaller(capacity', tokens)
            /\ newLoss' = FALSE
            /\ age' = [f \in Flows |-> Reaped(age[f])]
            /\ UNCHANGED <<mode, lag, queue, nap, sent, warm>>

Down(n) == IF n > 0 THEN n - 1 ELSE 0

\* An instant passes.
Tick == /\ lag' = Smaller(FillTime, lag + 1)
        /\ nap' = Down(nap) /\ warm' = Down(warm) /\ timer' = Down(timer)
        /\ age' = [f \in Flows |-> IF age[f] = Absent THEN Absent
                                   ELSE Smaller(Reap + 1, age[f] + 1)]
        /\ UNCHANGED <<mode, rate, capacity, tokens, queue, sent, newLoss, ratio>>

Hook == \/ \E f \in Flows : Request(f) \/ Respond(f) \/ Fail(f)
        \/ \E i \in DOMAIN queue : Cancel(i)

NextLimiter == Admit \/ Sleep \/ Observe \/ Regulate \/ Tick \/ Hook

SpecLimiter == InitLimiter /\ [][NextLimiter]_limiterVars

\* The event loop runs what is ready and time passes.  Nothing obliges a
\* client to ask or a server to answer.
FairSpecLimiter == /\ SpecLimiter
                   /\ WF_limiterVars(Tick)
                   /\ WF_limiterVars(Admit \/ Sleep)
                   /\ WF_limiterVars(Observe \/ Regulate)
--------------------------------------------------------------------------------
LimiterTypeOK ==
  /\ mode \in Modes /\ ratio \in Ratios /\ newLoss \in BOOLEAN
  /\ rate \in Floor..Ceiling
  /\ capacity \in 0..Ceiling * Second /\ tokens \in 0..capacity
  /\ lag \in 0..FillTime /\ nap \in Nat
  /\ queue \in Seq(Flows) /\ sent \subseteq Flows
  /\ age \in [Flows -> -1..Reap + 1]
  /\ warm \in 0..Warmup /\ timer \in 0..Second

\* Every tracked flow is upstream: an answer, a failure and a cancellation
\* never leave an entry behind that would later read as a stall.
TrackedIsUpstream == \A f \in Flows : age[f] # Absent => f \in sent /\ f \notin Queued

\* "hold exactly `--rate`" (README.md:71): without the gauge the lock holder
\* never sleeps while a token is there for it, so none is wasted.
NoIdleToken == mode = "fixed" /\ nap > 0 => TokensNow < Token

\* A loss is never forgotten, not even one of the warm-up: the tick that
\* clears it backs the rate off.
NoLossForgotten == [][newLoss /\ ~newLoss' => rate' = Backoff]_limiterVars

\* "Over-cap requests are queued, then completed" (README.md:12).
EveryRequestAdmitted == \A f \in Flows : f \in Queued ~> f \notin Queued

\* "drop abandoned entries so inflight can't leak" (ratelimit.py:191): a flow
\* that is never answered is forgotten.
InflightNeverLeaks == \A f \in Flows : age[f] # Absent ~> age[f] = Absent

Calm == ratio' = "healthy" /\ ~newLoss /\ ~Stalled

\* "ramps UP toward that ceiling": a target that stays healthy is sent the
\* ceiling in the end, whatever back-offs came before.
RampReachesCeiling ==
  <>[][Regulate => Calm]_limiterVars => <>[](rate = Ceiling)
================================================================================
