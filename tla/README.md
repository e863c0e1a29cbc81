# goslow in TLA+

goslow is a governor for outgoing traffic: HTTP requests to the targets of a scope go through a
mitmproxy addon that queues them on a token bucket (`ratelimit.py`), every other TCP connection
through an in-process proxy that queues connections and client writes on a bucket of its own
(`tcpproxy.go`); iptables rules and an ipset steer the traffic there, and `goslow down` takes all
of it back. This directory models the parts that hold state and act concurrently, checks them with
TLC on small instances and proves what matters most with TLAPS.

Line numbers below, in the modules' comments and in `PROJECT.json` are those of the source tree.

## 1. Inventory

| Component | Source | State | Operations | Interacts with |
|---|---|---|---|---|
| TCP pacer: token bucket | `tcpproxy.go:192-235` | balance, `last`, mutex; one sleep per caller | `acquire`, `snapshot` | every connection goroutine |
| TCP pacer: connections | `tcpproxy.go:28-167` | `pstats.waiting`, `pstats.active`, two sockets and three goroutines per connection | `handleTCP`, `splice`, `pacedCopy` | the bucket, the two peers, `statsWriter` |
| HTTP engine: bucket and hooks | `ratelimit.py:51-145, 269-307` | rate, capacity, balance, `updated`, `asyncio.Lock`, `inflight`, `losses` | `acquire`; `request`, `response`, `error` hooks; cancellation | the gauge, which changes rate and burst in the middle of a sleep |
| HTTP engine: adaptive gauge | `ratelimit.py:164-225` | warm-up, `_last_losses`, the reason | `_adapt_tick`, once a second | the bucket, `inflight`, the latency baseline |
| HTTP engine: latency baseline | `ratelimit.py:147-162` | windows of samples per host, EWMA | `record_latency` | the gauge reads its worst ratio |
| Lifecycle | `main.go`, `proxy.go`, `coarse.go`, `teardown.go`, `system.go` | ipset, rules, `route_localnet`, files of confdir, mitmdump, refreshers, listening pacer | `runProxy`, `runCoarse`, `teardown`, `down` | processes that share all of this without a lock |
| Scope loading, refresher | `scope.go` | ipset entries, `domains.txt` | `loadScope`, `startRefresher`, `runRefresher` | lifecycle, the addon's `scope.txt` |
| Scope matching | `ratelimit.py:92-131` | names, networks | `_load`, `in_scope` | decides which flows the hooks throttle |
| Netfilter routing | `system.go` | OUTPUT rules | add, remove | sends a connection to mitmproxy, to the pacer, or nowhere |
| Snapshots, `status`, `top` | `stats.go`, `tcpproxy.go:237-302`, `ratelimit.py:228-265` | two JSON files | write, read, freshness | written by proxy and pacer, removed by teardown |
| Command line | `main.go` | `Config` | parsing, defaults | hands a rate to both engines |
| Install, proxy user, rendering | `system.go`, `stats.go` | none of their own | `apt-get`, `useradd`, terminal output | |

What makes each of them hard, and what makes it correct:

- **TCP bucket.** `acquire` unlocks before it sleeps, so a sleep is computed from a balance others
  then draw on. Correct: no stretch of time sees more than one burst and the rate; nobody oversleeps
  a token; tokens keep being handed out.
- **Connections.** Three goroutines a connection, two peers that may do anything at any time, and a
  return on every error. Correct: each dial and write is paid for, nothing is dropped or cut off,
  half-closes are passed on, counters are true, ended connections are released once the peers have
  read what was sent to them.
- **HTTP engine.** One thread, but the lock is held across sleeps and the gauge changes the rate
  meanwhile. Correct: the ceiling is never exceeded, a back-off is in force at once, no loss is
  forgotten, no entry is leaked, every request is admitted, the rate returns to the ceiling.
- **Lifecycle.** Commands of several processes interleave, any of them may be killed between two
  commands, and a new run may start over the remains. Correct: what was set up is reverted, by
  whoever tears down; a run throttles only its own scope; traffic is not sent to a listener that is
  not there; a run whose proxy has died ends.
- **Baseline.** A window that is trimmed only when a healthy sample arrives, a percentile that has
  to ignore a lucky fast answer, an average of healthy and failed answers alike. Correct: variance
  is not read as distress, and a lasting change of latency becomes the new normal.
- **Scope and routing.** Two definitions of "in scope": an address for the kernel, a name for the
  addon, filled from one file while DNS changes. Correct: each address in the set comes from an
  entry the addon throttles, a rotated address gets into the set, and a connection is throttled
  once, by the engine it should be, and never sent round in a loop.
- **Command line.** Flags in any position, values that look like flags, a second word that
  overrides. Correct: what was asked for is the rate of both engines.
- **Snapshots.** Files written by two processes, read at any moment by a third, removed by a fourth.
  Correct: what has died is not shown for long, what lives is shown without a gap, and no
  connection is counted twice in a frame.

`PROJECT.json` lists the hazards one by one, each at its line, with the properties that cover it.

## 2. Modules

```
RateCap                    what both engines promise: a rate cap with a burst
PacerBucket                tcpproxy.go, type bucket
  PacerWindow              + history of grants; implements RateCap      MCPacerWindow
  Pacer                    + connections: handleTCP, splice, pacedCopy
  PacerBucketProofs, PacerWindowProofs, PacerProofs
HttpLimiter                ratelimit.py: acquire, hooks, gauge
  HttpWindow               + history of admissions; implements RateCap  MCHttpWindow
  HttpProofs
GaugeLatency               ratelimit.py: the latency ratio the gauge reads
  GaugeLatencyProofs
Lifecycle                  invocations of goslow over the host's state  MCLifecycle
  LifecycleProofs
CommandLine                main.go: os.Args to a Config
  Scope                    + scope.go, the rules, the addon's matching  MCScope
  ScopeProofs
Stats                      the snapshot files, their writers and readers
  StatsProofs
```

### RateCap

The abstract specification. `log` holds the instants of all admissions; one more may be made only if
for every earlier one the tokens spent since are at most `Burst + Rate * elapsed`. It knows of no
bucket, caller, sleep or gauge.

### PacerBucket, PacerWindow

`tokens` is `b.tokens`, `lag` the time since `b.last`, `trying` the goroutines inside `acquire`,
`nap[p]` what is left of `p`'s `time.Sleep`. `Grant` and `Doze` are the two outcomes of a turn of the
loop in `acquire` (one critical section each; the mutex is never held across anything that blocks),
`Call` its entry, `Tick` the passing of an instant. `NapFor` keeps the truncation to a `Duration` and
the one-millisecond floor. Balances are exact: an instant earns `Rate` units and a token is `Token`
units, so rates that are no multiple of the token are covered and floating point is not. A `lag` of
`Second` fills the bucket, so it stops there; the state space is finite without a bound on time.
`PacerWindow` adds the clock and the instants of the grants.

### Pacer

One connection per caller of the bucket: a connection has three goroutines, but only one of them is ever in
`acquire`. `stage` follows `handleTCP`, `up` the loop of `pacedCopy` (read, pay, write), `down` the
`io.Copy` of the other direction (read, write). Payload is counted in writes (`asked`, `read`, `got`;
`reply`, `taken`, `seen`), and one read may take in several. Peers write, send a FIN, vanish, or do nothing
for ever; a peer that is gone may take unread data with it. A pump's write (`UpWrite`, `DownWrite`) returns
when the peer makes room for it, and nothing makes a peer do that: neither `pacedCopy` nor `io.Copy` sets a
deadline, so a pump may stay in its write for ever, with everything behind it unread. `credit` is the tokens
granted and not used.

### HttpLimiter, HttpWindow

The code between two awaits is one action. `queue` is the order in which coroutines get the
`asyncio.Lock`, its head the holder; `nap` is the holder's `asyncio.sleep`, `age` is `inflight`,
`newLoss` is `losses > _last_losses`, `ratio` the band the gauge found the worst latency ratio in.
`Request`, `Admit`, `Sleep`, `Cancel`, `Respond`, `Fail` are the hooks and `acquire`; `Observe` and
`Regulate` are a wake-up of `snapshot_loop` without and with a full `_adapt_tick`. The ratio is any
band at every tick: it covers whatever `GaugeLatency` computes. Rates lie on a grid of one unit per
instant, so that the halving and the ease of a tenth are rounded down; the code's are exact. The
three modes are the three ways the addon can be started (gauge from the floor, `SLOW_START=0`,
gauge off).

### Lifecycle

A process per invocation. `pc` is the command it executes next; an action is one command, or a few
that touch the same thing and that nothing could tell apart in between. `Setup` names the steps of
`runProxy` and `runCoarse`, `Undo` those of `teardown`. Between any two steps any other invocation, a
refresher, mitmdump or its death, the snapshot writers, or a kill of the invocation itself may come.
`Crash` is that kill, and every `die()` that has no teardown before it. `left`, `covers` and `lapse`
are history: the runs that ended without a teardown since, what a teardown found left when it began,
and whether runs overlapped, ran over one another's remains, or a teardown was itself killed. The
program counters stop when all invocations were used up, so the runs say `CHECK_DEADLOCK FALSE`.

Worth knowing, as the code has it: `teardown` without a saved value sets `route_localnet` to 0, also
after a coarse run, which never touched it; the installed CA is left trusted by design; an
`ipset destroy` fails while a rule refers to the set.

### GaugeLatency

`win` and `ewma` are the two fields of `hoststats`, `band` the range the worst ratio fell in when the
gauge last looked. `Serve` is `record_latency` of a healthy answer (append, then drop as many samples
from the front as have expired), `Flunk` of a failed one or an instant reset, `Judge` the part of `_adapt_tick`
that reads the windows: the worst of the bands of all trusted hosts (`Found`, by `Severity`). Latencies are
small whole numbers and the average is rounded down. The code passes over a fifth of a window; the model
over one sample in `Share`, so that short windows show it too.

### CommandLine, Scope

An argument is a word, a flag, or a flag joined to a value, which may be empty (`--rate=`); `argv`, `at` and
`words` are the loop of `parseArgs`, with one action for each branch of its switch, and `fate` says how the
invocation goes on. `Empty` stands for the flag of a word and for the empty text; `joined` tells `--rate=`
from `--rate`. `Scope` takes over when it has a scope file. `todo` is what `loadScope` has not read yet;
`ReadNet` and `ReadHost` are its two kinds of lines, each filling the ipset (`set`), the cleaned `scope.txt`
(`hosts`, `nets`) and `domains.txt`. `Wake` and `Renew` are the refresher's rounds, name by name, while
`Rotate` changes what DNS says of any name, down to nothing or IPv6 only. `Hop` is the rules as a function:
where a connection of a tool, of mitmdump or of the pacer goes next. `InScope` is `in_scope` of the addon.
Which lines of text are skipped, taken as networks or looked up is not modelled: a line is what
`parseScopeLine` has made of it. `added` is history.

### Stats

Each engine's writer goes through `at`: collect, load the gauges one after the other (the pacer only;
the addon does not await and its frame is of one moment), write to a temporary file, rename, sleep.
`draft` is the frame it makes, `file` what a reader finds. Frames carry their age and not a time of
day; connections move through `stage` while the gauges are loaded. A flush may fail, an engine may stop
anywhere, a teardown may unlink the file at any time, also while the pacer still writes. `Shown` is what
`readSnap` believes. `gone` and `sound` are history.

## 3. What is checked

Sizes and times are for two workers on a small machine.

| Run | What it asks | Bounds |
|---|---|---|
| `pacer_window` | `CreditBound`, `NoOversleep`; `CapSpec`, the refinement of `RateCap`; deadlock freedom | 3 callers, 2 units an instant, 7 a token (the wait is truncated and fractions remain), 12 instants: three bursts long, 71 thousand states |
| `pacer_conns` | `PaidFor`, `CountersTrue`, `Lossless`, `NothingCutOff`, deadlock freedom | 2 connections that come again for ever, 1 write each way, 721 thousand states |
| `pacer_live` | `SomebodyIsServed`, `EndedIsReleased`, `HalfClosePropagates` | 2 connections, on one of which (`Talking`) the peers write once each way: 92 thousand states |
| `http_limiter` | gauge and hooks: `TrackedIsUpstream`, `NoIdleToken`, `NoLossForgotten`; liveness: `EveryRequestAdmitted`, `InflightNeverLeaks`, `RampReachesCeiling`; deadlock freedom | 2 flows that come again for ever, three rates between floor and ceiling, all modes, warm-up, stall and reap all reached, 65 thousand states |
| `http_fraction` | violated: `EveryRequestAdmitted` | a ceiling whose second earns half a token |
| `http_window` | `CreditBound`, `RateInForce`, `CapSpec` | 1 flow that comes again for ever, 6 instants (three ticks of the gauge), 455 thousand states |
| `gauge` | `LuckyFastIsNoDistress`, `NewNormalIsLearnt` | 2 hosts, windows of up to 2 samples of which the baseline passes over one in 2 (`Share`; 2 are the fewest at which it is not the minimum), latencies 1, 2 and 8: an instant reset, normal, and four times that; 109 thousand states |
| `lifecycle` | `HostIsClean`, `ProxyIsGone`, `NotLeftRouting`, `PacerBehindRedirect`, `OwnScope`, `DeadProxyReverted` | 2 runs and a `down`, 654 thousand states |
| `lifecycle_rerun` | violated: `RerunReverted` | as above |
| `scope` | `CapAsAsked`, `ThrottledOnce`, `AddonKnowsTheSet`, `RotationIsCaught` | every command line of up to 4 of 11 arguments, 7 scope files over 4 names and 4 addresses, 78 thousand states |
| `scope_subdomain` | violated: `SubdomainsMatch` | as above |
| `stats` | `ShownIsAlive`, `AliveIsShown`, `CountedOnce` | 2 engines, 1 connection, a sleep of 1 or 2 and a flush of up to 1 against `staleAfter` of 5: one more than a sleep and two flushes; 430 thousand states |

The runs `pacer_conns`, `http_limiter`, `lifecycle`, `scope`, `gauge` and `stats` also check the type
invariant of their module.

**Why the bounds are enough.** Both buckets are finite without a bound on time: a lag beyond the fill time,
an age beyond the reap time or a nap beyond zero changes nothing, so the runs on them cover executions of
every length. Only the history of the two window runs needs `MaxClock`; theorems cover it for every length.
Two callers are the least that interleave, and three the least where two overtake a third. In `Pacer` the
bound on writes makes one read take one write; the theorems hold for any number. `pacer_live` has writes on
one connection only, the other competes with it for tokens: with writes on both it does not finish in a
short run. In `gauge` two hosts are the least of which one hides the other; the theorems hold for any
windows, latencies and share. In the lifecycle two runs and a `down` show a run over the remains of another,
a run taken down by another process and two teardowns at once (a run's own and `down`'s). `Overlap = FALSE`
lets a run start only when no other invocation is at work (a `down` may come at any time): with two live
runs at once the states are too many to finish in a short run. `HostIsClean` is proved without that bound.
`SomeKinds` has one kind of flags for each mode, with names and a refresher in the hybrid one. In `scope`
four arguments are the least in which a flag swallows a flag, and a word after it is still the rate; the DNS
answers of the three kinds of names (rotating, mixed with IPv6, an address) and the empty one are all there.
In `stats` every age beyond `staleAfter` is one, so time has no bound.

**Fairness.** In the buckets and the pacer: time passes, and a goroutine or coroutine that is ready is
scheduled in the end (Go's scheduler and the event loop are both fair in this sense). A dial returns because
it has a timeout, and a write to a peer that is gone fails because TCP gives up. A write to a peer that is
there has no fairness: that a peer reads is a premise of the properties it matters to (`ServerReads`,
`ClientReads`), and without it TLC finds both violated. `HalfClosePropagates` needs no client that reads;
`EndedIsReleased` needs both. In the lifecycle: a command that was started ends. Nothing obliges a client to
ask, a server to answer, an operator to press Ctrl-C, a proxy to start or to die, an invocation to crash. In
`Scope` the refresher wakes from its sleep and its lookups return, one name after the other; parsing and
loading need no fairness. In `GaugeLatency` `_adapt_tick` runs and time passes, but hosts answer when they
like: that a host goes on answering, or is never trusted, is a premise of `NewNormalIsLearnt`, not an
assumption of the model. The band is the worst of all hosts, so the premise is about each of them: one
trusted host that has fallen silent on a bad average is enough to keep it. `stats` has safety only; that a
writer is not late is a guard of its clock, and `StatsAssumption` says what it has to fit into. The TCP
bucket has no queue and serves nobody in particular, so its liveness says that somebody is served, and that
of `Pacer` is relative to it (`Overtaken`); the HTTP engine's lock is handed on in order, and its liveness
is unconditional. `RampReachesCeiling` assumes a target that stays healthy, which is what the documentation
does.

**Mutants.** Each property is paired in `PROJECT.json` with a plausible bug of the code (a dropped
reset, guard, rounding or error), written beside the definition it changes, and the run finds it.

## 4. What the code does otherwise

Three statements of the repository do not hold; each has a run with a counterexample.

1. `README.md:12`, "queued, then completed": with a rate or a floor below 1 per second the HTTP bucket
   can never hold a whole token, and every request hangs, the first one too (`http_fraction`).
2. `teardown.go:9`, "teardown reverts everything": a run started over one that was killed overwrites its
   pid file and saves the `route_localnet` the killed one had set, so the first mitmdump keeps the port
   and the setting stays (`lifecycle_rerun`).
3. `README.md:54` and `main.go:281`, "hostnames match subdomains": the addon matches them, but only the
   addresses of the listed name itself are redirected to it, so a subdomain with an address of its own
   is not throttled (`scope_subdomain`).

Smaller things the code does, for which there is no run:

- the TCP bucket has no queue, so "callers wait their turn" (`tcpproxy.go:194`) bounds nobody's wait;
- `splice` waits for both sides, not "until either side closes" (`tcpproxy.go:134`);
- the pacer's snapshot may be written once more after the teardown removed it, and is then shown until
  it is `staleAfter` old;
- a fractional rate is exact in the HTTP engine and becomes 50 in the TCP pacer;
- a name that does not resolve when goslow starts is never tried again;
- a host that falls silent with a bad average keeps the rate down, for all hosts, until it answers again;
- a connection to a peer that neither reads nor goes away is never released, both peers having sent their
  FIN or not: no write has a deadline (`tcpproxy.go:141,158`);
- `ADAPT=0` in the environment does not switch the gauge off, though `README.md:71` lists it beside
  `--fixed`: `runProxy` appends an `ADAPT` of its own (`proxy.go:66-71`), from the flag alone;
- a wall clock that is stepped makes a live engine look dead, or a dead one alive, for a while.

## 5. What is proved

All of it for every value of the constants that satisfies the named assumptions
(`BucketAssumption`, `PacerAssumption`, `LimiterAssumption`, `LatencyAssumption`,
`LifecycleAssumption`, `LineAssumption`, `ScopeAssumption`, `StatsAssumption`), with no further
hypothesis. Every safety invariant the passing runs check is among the statements.

| Module | Theorem | Statement |
|---|---|---|
| `PacerBucketProofs` | `BucketTypes`, `BucketNoOversleep` | `[]BucketTypeOK`, `[]NoOversleep` |
| `PacerWindowProofs` | `PacerCredit`, `PacerImplementsCap`, `PacerStretches` | `[]CreditBound`, `CapSpec`, `[]Stretches` |
| `PacerProofs` | `PacerTypes`, `EveryWriteIsPaidFor`, `CountersAreTrue`, `PumpsLoseNothing`, `SpliceCutsNothingOff` | `[]PacerTypeOK`, `[]PaidFor`, `[]CountersTrue`, `[]Lossless`, `NothingCutOff` |
| `PacerProofs` | `PacerImplementsBucket`, `PacerNoOversleep` | `SpecBucket`, `[]NoOversleep` |
| `HttpProofs` | `LimiterTypes`, `LossesBindTheGauge`, `EntriesAreUpstream`, `NoTokenWaits` | `[]LimiterTypeOK`, `NoLossForgotten`, `[]TrackedIsUpstream`, `[]NoIdleToken` |
| `HttpProofs` | `HttpCredit`, `HttpRateInForce`, `HttpImplementsCap`, `HttpStretches` | `[]CreditBound`, `[]RateInForce`, `CapSpec`, `[]Stretches` |
| `GaugeLatencyProofs` | `LatencyTypes`, `OldestIsFirst`, `LuckyFastIgnored`, `ClimbFound` | `[]LatencyTypeOK`, `[]` of `InOrder` for each window, `[]LuckyFastIsNoDistress`, `[]ClimbIsDistress` |
| `LifecycleProofs` | `LifecycleTypes`, `HostReverted`, `PacerBeforeRedirect` | `[]LifecycleTypeOK`, `[]HostIsClean`, `[]PacerBehindRedirect` |
| `LifecycleProofs` | `ScopeIsOwn`, `RoutingReverted`, `ProxyEnded` | `[]OwnScope`, `[]NotLeftRouting`, `[]ProxyIsGone` |
| `ScopeProofs` | `ScopeTypes`, `SetAndListAgree`, `NeverThrottledTwice`, `RateIsAsAsked` | `[]ScopeTypeOK`, `[]AddonKnowsTheSet`, `[]ThrottledOnce`, `[]CapAsAsked` |
| `StatsProofs` | `StatsTypes`, `GhostsAreBrief`, `NoGapBetweenFrames`, `GaugesAreDisjoint` | `[]StatsTypeOK`, `[]ShownIsAlive`, `[]AliveIsShown`, `[]CountedOnce` |

- **NoOversleep** is not inductive: it says nothing of a bucket that is still short of a token. The
  invariant is with `NapsFit`: what is there and what will be earned while a caller sleeps is at most
  one token. Others only take away from it, an instant moves it from one side to the other, and
  truncating the division keeps it true when a sleep is computed.
- **The cap (TCP)** says which admissions are allowed and nothing of the states in between. The
  inductive form, `CreditBound`, bounds what was spent since a grant *plus what could be spent now*.
- **The cap (HTTP)** has the gauge move rate, capacity and balance under the bucket. The balance
  itself is no good bound, for a raised rate credits the time before it. The invariant uses `Credit`,
  the balance had the ceiling been in force all along: never less than the balance, lowered by no
  more than a token by an admission, and never raised by the gauge.
- **Stretches** is the cap as one would measure it, between any two admissions of the history. It
  follows from `CreditBound` after each admission and from nothing else: what is behind a new admission
  is bounded by the credit that is left.
- **The connections and the bucket.** `PacerImplementsBucket` maps every step of `handleTCP` and the pumps
  to a step of `acquire` or a stutter, so what is proved of the bucket for any callers holds of them.
- **RateInForce** is inductive with the types; the gauge establishes it as it clips the balance.
- **TrackedIsUpstream** needs `InLine`: nobody is in line twice or both in line and upstream, so taking the
  head of the line never leaves a second entry behind.
- **NoIdleToken** becomes inductive as `Punctual`: the balance with what is earned before the last instant
  of a sleep is under a token, which holds because the sleep is rounded up by less than an instant.
- **HostIsClean** speaks only of states in which nothing runs. What holds always is `Owed`: for
  whatever is on the host some run still owes its removal (`Owes`): it is at work and has its own
  teardown before it, or it ended without one and every teardown that began since has the step that
  removes it still before it. A crash turns the first kind of debt into the second; the end of a
  teardown clears only runs whose things it has passed; a refused `ipset destroy` is saved by the rule
  that refused it, whose debtor owes the set as well. Neither overlapping runs nor crashed teardowns
  are excluded.
- **PacerBehindRedirect** rests on the same debts: whoever redirected to the pacer owes the rules' removal,
  and is there with its pacer until they are gone, or was left.
- **OwnScope** speaks of a run at work. `ScopeInv` follows the set from the flush on: once a run has begun
  to fill it, it holds that run's scope and what a refresher adds, and a refresher only has the names of
  a run that had names (`Named`). That nobody else fills it in the meantime is `Alone`: runs that do not
  overlap are one at a time.
- **NotLeftRouting**: in good order, nobody ever saves a 1 (`RouteInv`). Saving happens before the run
  switches routing on, and while it is on no run is that early, for the run that switched it on is still
  at work or owes a teardown that has the restore before it.
- **ProxyIsGone**: a proxy that lives is always traceable (`Traced`). Its run is about to write the pid
  file, or the file names it and its run owes a look at the file, or a teardown has read the file and is
  about to end it. A pid file written over by the next run is what `lapse` excludes, and what the run
  `lifecycle_rerun` shows. The snapshot of a proxy that died is removed by a debtor or by a `down` under
  way (`Sweeper`).
- **The baseline.** Windows stay in order, so what has expired is a prefix and trimming by count is exact.
  The p20 is defined as the least latency at or below which more than one sample in `Share` lies
  (five in the code); that
  there is one is shown for windows of any length by taking the least element of a set of naturals
  (`Least`, from well-foundedness). Then `LuckyFastIgnored` and `ClimbFound` are two sides of it: one
  sample in `Share` cannot pull it down, more than that do.
- **Pacer.** Everything follows from one predicate on a single connection, `Sane`: where each pump can be
  at each stage, that a pump between writes has forwarded what it has read, and what an ended pump
  implies of its peer. Every action changes one connection and keeps it sane; the counters then follow
  from the sets of connections in each stage, of which each action adds or removes one member.
- **AddonKnowsTheSet** says nothing of the names the refresher will look up next. `SameEntries` adds that
  the addon throttles every name in `domains.txt`; an IPv4 address written as a name is known through
  the network it stands for. `ThrottledOnce` needs no invariant: it is a fact about the three rules.
- **CapAsAsked** says of the end of the loop what was meant by the whole line, where an argument is a value
  or not by the parity of the flags before it. `LineInv` says it of the part already read: the next
  argument is at an even distance from the start of its run of flags (`Turn`), hence no value; the
  switches, the rate and the words so far are those of the arguments so far that are no values.
- **AliveIsShown** needs a bound on the age of the file at each step of the writer (`Punctual`): a sound
  file is at most a flush old when a sleep begins and at most a flush and a sleep old when the next flush
  begins. **ShownIsAlive** rests on a file being at least as old as the death of its writer, and
  **CountedOnce** on active connections never becoming queued ones.

Only model-checked: all liveness, since fairness and ENABLED are out of the prover's reach:
`SomebodyIsServed`, `EndedIsReleased`, `HalfClosePropagates`, `EveryRequestAdmitted`,
`InflightNeverLeaks`, `RampReachesCeiling`, `DeadProxyReverted`, `RotationIsCaught`,
`NewNormalIsLearnt`; and of course what the three violated runs show.

## 6. What is not modelled

- The content of the connections, `SO_ORIGINAL_DST`, a client that is not a `TCPConn`.
- The rates, counters and top targets in a snapshot (`totalConns`, `bytesPaced`, `dsts`, `allowed`,
  `host_counts`), `mergeTops`, and everything about rendering: display only.
- Floating point: balances and rates are exact on a grid, latencies are whole numbers.
- Text: how a scope line, an argument or a port list is split; patterns in `scope.txt` (`fnmatch`), which
  `loadScope` never writes.
- The CA's installation (never reverted), the refresher's pid file (teardown kills every process with
  its tag anyway), logging.
- Dependency installation, the proxy user: one-shot I/O without state.

## 7. Plan

- `GaugeLatency` composed with `HttpLimiter` in place of the arbitrary ratio; the composition is small
  only if the windows are.
- `Scope` under `Lifecycle`: two refreshers, or a reload, at work on one set.
