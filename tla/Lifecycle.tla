------------------------------- MODULE Lifecycle -------------------------------
(***************************************************************************)
(* What goslow does to the host and how it takes it back: the invocations   *)
(* of `goslow <scope>` (runProxy, runCoarse) and of `goslow down`           *)
(* (teardown), each a process that runs one command after the other, over   *)
(* the state they share: the ipset, the iptables rules, route_localnet, the *)
(* files of confdir, the proxy and the refreshers.                          *)
(*                                                                          *)
(* A step is one command or a few that touch the same thing.  Between two   *)
(* steps another invocation, a refresher or the proxy may act, the proxy    *)
(* may die, and the invocation may be killed (kill -9, the SIGHUP of a      *)
(* closed terminal, Ctrl-C before signal.Notify) or end in a die() that has *)
(* no teardown before it.  Rules are told apart by kind; flags that change  *)
(* a rule's text, the CA's installation and logging are left out.           *)
(***************************************************************************)
EXTENDS Integers

CONSTANTS Runs,     \* the invocations of goslow with a scope; each runs once
          Downs,    \* the invocations of goslow down; each runs once
          Kinds,    \* the flags they may be given: see Flags
          Overlap,  \* bound: whether a run may start while another invocation works
          Origin,   \* route_localnet as it was before the first of them
          None      \* no process, no content

Modes == {"hybrid", "http", "coarse"}

\* The mode, and whether a refresher is wanted: the scope has hostnames and
\* --refresh is not 0.
Flags == [mode : Modes, hosts : BOOLEAN]

ASSUME LifecycleAssumption ==
  /\ Kinds \subseteq Flags
  /\ Overlap \in BOOLEAN
  /\ Runs \cap Downs = {}
  /\ Origin \in {0, 1}
  /\ None \notin Runs \cup {0, 1}

Procs == Runs \cup Downs

VARIABLES pc,          \* the command each invocation executes next
          opts,        \* the flags of each run
          ipset,       \* whether the set exists, and whose scope it holds
          rules,       \* the OUTPUT rules that match the set
          rln,         \* net.ipv4.conf.all.route_localnet
          saved,       \* the file cfg.RLNState
          pidfile,     \* confdir/.mitm.pid
          ca,          \* mitmproxy has made its CA (cfg.CASrc exists)
          domains,     \* confdir/domains.txt
          stats,       \* the snapshots `goslow status` finds
          mitm,        \* the mitmdump of each run
          bound,       \* the runs whose TCP pacer listens
          refreshers,  \* the detached refreshers alive
          victim,      \* the mitmdump a teardown waits for
          left,        \* history: runs that ended without a teardown since
          covers,      \* history: what was left when a teardown began
          lapse        \* history: what the operator, or bad luck, has done

kernel == <<ipset, rules, rln>>
files == <<saved, pidfile, ca, domains, stats>>
children == <<mitm, bound, refreshers>>
story == <<left, covers, lapse>>
vars == <<pc, opts, kernel, files, children, victim, story>>

Setup == {"load", "fill", "coarse", "launch", "record", "wait",
          "redirect", "listen", "nonhttp", "spawn"}
Undo == {"unrule", "unfresh", "term", "reap", "restore", "destroy", "unstat", "exit"}

Active(p) == pc[p] \notin {"idle", "ended"}
AtRest == \A p \in Procs : ~Active(p)
Alive(r) == mitm[r] \in {"boot", "serve"}
Proxy(r) == opts[r].mode # "coarse"

Init == /\ pc = [p \in Procs |-> "idle"]
        /\ opts = [r \in Runs |-> [mode |-> "hybrid", hosts |-> FALSE]]
        /\ ipset = [live |-> FALSE, of |-> {}]
        /\ rules = {} /\ rln = Origin
        /\ saved = None /\ pidfile = None /\ domains = None
        /\ ca = FALSE /\ stats = {}
        /\ mitm = [r \in Runs |-> "none"]
        /\ bound = {} /\ refreshers = {}
        /\ victim = [p \in Procs |-> None]
        /\ left = {} /\ covers = [p \in Procs |-> {}] /\ lapse = {}

At(p, step) == pc[p] = step
Goto(p, step) == pc' = [pc EXCEPT ![p] = step]

\* teardown(cfg) is called: what earlier runs left is its to revert.
Teardown(p) == /\ Goto(p, "unrule")
               /\ covers' = [covers EXCEPT ![p] = left]
               /\ UNCHANGED <<left, lapse>>
--------------------------------------------------------------------------------
\* The operator starts a run, perhaps while another invocation is at work or
\* over what one left behind.
Start(r) ==
  /\ At(r, "idle")
  /\ Overlap \/ AtRest
  /\ \E k \in Kinds : opts' = [opts EXCEPT ![r] = k]
  /\ Goto(r, "load")
  /\ lapse' = lapse \cup (IF AtRest THEN {} ELSE {"overlap"})
                    \cup (IF left = {} THEN {} ELSE {"rerun"})
  /\ UNCHANGED <<kernel, files, children, victim, left, covers>>

\* Mutant of LoadScope: a set that exists is not flushed.
LoadScopeKeeps(r) == /\ At(r, "load")
                     /\ ipset' = [ipset EXCEPT !.live = TRUE]
                     /\ Goto(r, "fill")
                     /\ UNCHANGED <<opts, rules, rln, files, children, victim, story>>

\* loadScope: ipset create -exist, ipset flush.
LoadScope(r) == /\ At(r, "load")
                /\ ipset' = [live |-> TRUE, of |-> {}]
                /\ Goto(r, "fill")
                /\ UNCHANGED <<opts, rules, rln, files, children, victim, story>>

\* loadScope: ipset add; an add to a set that is gone fails and is not noticed.
FillScope(r) == /\ At(r, "fill")
                /\ ipset' = IF ipset.live THEN [ipset EXCEPT !.of = @ \cup {r}] ELSE ipset
                /\ Goto(r, IF Proxy(r) THEN "launch" ELSE "coarse")
                /\ UNCHANGED <<opts, rules, rln, files, children, victim, story>>

\* Mutant of Launch: route_localnet is read after it was switched on.
LaunchLate(r) == /\ At(r, "launch")
                 /\ rln' = 1 /\ saved' = 1
                 /\ mitm' = [mitm EXCEPT ![r] = "boot"]
                 /\ Goto(r, "record")
                 /\ UNCHANGED <<opts, ipset, rules, pidfile, ca, domains, stats, bound,
                                refreshers, victim, story>>

\* route_localnet is noted for teardown, over what was noted before; mitmdump
\* is started.
Launch(r) == /\ At(r, "launch")
             /\ saved' = rln
             /\ mitm' = [mitm EXCEPT ![r] = "boot"]
             /\ Goto(r, "record")
             /\ UNCHANGED <<opts, kernel, pidfile, ca, domains, stats, bound, refreshers,
                            victim, story>>

\* The pid file is written over whatever it held.
Record(r) == /\ At(r, "record")
             /\ pidfile' = r
             /\ Goto(r, "wait")
             /\ UNCHANGED <<opts, kernel, saved, ca, domains, stats, children, victim, story>>

\* The CA is there, fresh or from an earlier run; it is installed, and
\* route_localnet switched on.
Ready(r) == /\ At(r, "wait") /\ ca
            /\ rln' = 1
            /\ Goto(r, "redirect")
            /\ UNCHANGED <<opts, ipset, rules, files, children, victim, story>>

\* Mutant of GiveUp: only a live proxy is given up.
GiveUpAlive(r) == /\ At(r, "wait") /\ ~ca /\ Alive(r)
                  /\ Teardown(r)
                  /\ UNCHANGED <<opts, kernel, files, children, victim>>

\* Fifteen seconds without a CA.  A proxy that has died is a zombie until
\* mitm.Wait, processAlive says it lives, and the wait is the same.
GiveUp(r) == /\ At(r, "wait") /\ ~ca
             /\ Teardown(r)
             /\ UNCHANGED <<opts, kernel, files, children, victim>>

\* iptables -D, -A: without the set the rule is refused, and -A's error is
\* answered by a teardown; runCoarse has none.
Redirect(r) == /\ At(r, "redirect")
               /\ \/ /\ ipset.live
                     /\ rules' = rules \cup {"http"}
                     /\ Goto(r, IF opts[r].mode = "hybrid" THEN "listen" ELSE "spawn")
                     /\ UNCHANGED story
                  \/ /\ ~ipset.live
                     /\ Teardown(r)
                     /\ UNCHANGED rules
               /\ UNCHANGED <<opts, ipset, rln, files, children, victim>>

\* Mutant of Listen: the error of startTCPPacer is dropped.
ListenAnyway(r) == /\ At(r, "listen")
                   /\ bound' \in {bound, {r}}
                   /\ Goto(r, "nonhttp")
                   /\ UNCHANGED <<opts, kernel, files, mitm, refreshers, victim, story>>

\* startTCPPacer: the port may be taken, by another pacer or another program.
Listen(r) == /\ At(r, "listen")
             /\ \/ /\ bound = {}
                   /\ bound' = {r}
                   /\ Goto(r, "nonhttp")
                   /\ UNCHANGED story
                \/ /\ Teardown(r)
                   /\ UNCHANGED bound
             /\ UNCHANGED <<opts, kernel, files, mitm, refreshers, victim>>

RedirectNonHTTP(r) == /\ At(r, "nonhttp")
                      /\ \/ /\ ipset.live
                            /\ rules' = rules \cup {"tcp"}
                            /\ Goto(r, "spawn")
                            /\ UNCHANGED story
                         \/ /\ ~ipset.live
                            /\ Teardown(r)
                            /\ UNCHANGED rules
                      /\ UNCHANGED <<opts, ipset, rln, files, children, victim>>

\* runCoarse: the rule, or a die() without teardown.
Coarse(r) == /\ At(r, "coarse")
             /\ \/ /\ ipset.live
                   /\ rules' = rules \cup {"coarse"}
                   /\ Goto(r, "spawn")
                   /\ UNCHANGED left
                \/ /\ ~ipset.live
                   /\ Goto(r, "ended")
                   /\ left' = left \cup {r}
                   /\ UNCHANGED rules
             /\ UNCHANGED <<opts, ipset, rln, files, children, victim, covers, lapse>>

\* startRefresher, for a scope with hostnames.  A coarse run ends here and
\* stays in force until `goslow down`.
Spawn(r) == /\ At(r, "spawn")
            /\ domains' = IF opts[r].hosts THEN r ELSE domains
            /\ refreshers' = IF opts[r].hosts THEN refreshers \cup {r} ELSE refreshers
            /\ Goto(r, IF Proxy(r) THEN "serve" ELSE "ended")
            /\ left' = IF Proxy(r) THEN left ELSE left \cup {r}
            /\ UNCHANGED <<opts, kernel, saved, pidfile, ca, stats, mitm, bound, victim,
                           covers, lapse>>

\* Ctrl-C or SIGTERM; one that came during the setup is taken up here.
Interrupt(r) == /\ At(r, "serve")
                /\ Teardown(r)
                /\ UNCHANGED <<opts, kernel, files, children, victim>>

\* mitm.Wait returns.
ProxyExit(r) == /\ At(r, "serve") /\ mitm[r] = "dead"
                /\ Teardown(r)
                /\ UNCHANGED <<opts, kernel, files, children, victim>>
--------------------------------------------------------------------------------
\* `goslow down` is started.
Down(d) == /\ At(d, "idle")
           /\ Teardown(d)
           /\ UNCHANGED <<opts, kernel, files, children, victim>>

\* Mutant of RemoveRules: the filter table is not looked at.
RemoveNatRules(p) == /\ At(p, "unrule")
                     /\ rules' = rules \cap {"coarse"}
                     /\ Goto(p, "unfresh")
                     /\ UNCHANGED <<opts, ipset, rln, files, children, victim, story>>

\* removeRules, in both tables: every rule that matches the set.
RemoveRules(p) == /\ At(p, "unrule")
                  /\ rules' = {}
                  /\ Goto(p, "unfresh")
                  /\ UNCHANGED <<opts, ipset, rln, files, children, victim, story>>

\* The pid file's refresher, then every process with the tag.
KillRefreshers(p) == /\ At(p, "unfresh")
                     /\ refreshers' = {}
                     /\ Goto(p, "term")
                     /\ UNCHANGED <<opts, kernel, files, mitm, bound, victim, story>>

\* killPidfile, graceful: the file is read and removed, SIGTERM is sent.
Term(p) == /\ At(p, "term")
           /\ pidfile' = None
           /\ victim' = [victim EXCEPT ![p] = pidfile]
           /\ Goto(p, "reap")
           /\ UNCHANGED <<opts, kernel, saved, ca, domains, stats, children, story>>

\* Mutant of Reap: nobody waits for the proxy to be gone.
ReapAtOnce(p) == /\ At(p, "reap")
                 /\ victim' = [victim EXCEPT ![p] = None]
                 /\ Goto(p, "restore")
                 /\ UNCHANGED <<opts, kernel, files, children, story>>

\* It is gone within three seconds, or is sent SIGKILL.
Reap(p) == /\ At(p, "reap")
           /\ mitm' = [r \in Runs |-> IF r = victim[p] /\ Alive(r) THEN "dead" ELSE mitm[r]]
           /\ victim' = [victim EXCEPT ![p] = None]
           /\ Goto(p, "restore")
           /\ UNCHANGED <<opts, kernel, files, bound, refreshers, story>>

\* Mutant of Restore: there is no default for a file that is not there.
RestoreAnything(p) == /\ At(p, "restore")
                      /\ rln' = saved
                      /\ Goto(p, "destroy")
                      /\ UNCHANGED <<opts, ipset, rules, files, children, victim, story>>

\* The value noted last, whichever run noted it, or 0.
Restore(p) == /\ At(p, "restore")
              /\ rln' = IF saved = None THEN 0 ELSE saved
              /\ Goto(p, "destroy")
              /\ UNCHANGED <<opts, ipset, rules, files, children, victim, story>>

\* ipset destroy, which the kernel refuses while a rule matches the set.
Destroy(p) == /\ At(p, "destroy")
              /\ ipset' = IF rules = {} THEN [live |-> FALSE, of |-> {}] ELSE ipset
              /\ Goto(p, "unstat")
              /\ UNCHANGED <<opts, rules, rln, files, children, victim, story>>

RemoveStats(p) == /\ At(p, "unstat")
                  /\ stats' = {}
                  /\ Goto(p, "exit")
                  /\ UNCHANGED <<opts, kernel, saved, pidfile, ca, domains, children,
                                 victim, story>>

\* The process ends, and the pacer with it.
Exit(p) == /\ At(p, "exit")
           /\ Goto(p, "ended")
           /\ bound' = bound \ {p}
           /\ left' = left \ covers[p]
           /\ covers' = [covers EXCEPT ![p] = {}]
           /\ UNCHANGED <<opts, kernel, files, mitm, refreshers, victim, lapse>>
--------------------------------------------------------------------------------
\* An invocation is killed, or die()s where the code has no teardown.  Between
\* starting mitmdump and noting its pid, or between unnoting and stopping it,
\* that leaves a proxy no pid file names; a `down` leaves what it had not yet done.
Crash(p) == /\ Active(p)
            /\ Goto(p, "ended")
            /\ bound' = bound \ {p}
            /\ left' = IF p \in Runs THEN left \cup {p} ELSE left
            /\ covers' = [covers EXCEPT ![p] = {}]
            /\ victim' = [victim EXCEPT ![p] = None]
            /\ lapse' = IF p \in Downs \/ pc[p] \in {"record", "reap"}
                        THEN lapse \cup {"halfway"} ELSE lapse
            /\ UNCHANGED <<opts, kernel, files, mitm, refreshers>>

\* mitmdump starts up: it makes the CA, and takes the port or gives up.
Boot(r) == /\ mitm[r] = "boot"
           /\ ca' = TRUE
           /\ mitm' = [mitm EXCEPT ![r] = IF \E q \in Runs : mitm[q] = "serve"
                                          THEN "dead" ELSE "serve"]
           /\ UNCHANGED <<pc, opts, kernel, saved, pidfile, domains, stats, bound,
                          refreshers, victim, story>>

\* mitmdump ends, on an error or on the Ctrl-C its terminal sends it too.
Die(r) == /\ Alive(r)
          /\ mitm' = [mitm EXCEPT ![r] = "dead"]
          /\ UNCHANGED <<pc, opts, kernel, files, bound, refreshers, victim, story>>

\* snapshot_loop and statsWriter, once a second.
Flush == /\ \/ (\E r \in Runs : mitm[r] = "serve") /\ stats' = stats \cup {"http"}
            \/ bound # {} /\ stats' = stats \cup {"tcp"}
         /\ UNCHANGED <<pc, opts, kernel, saved, pidfile, ca, domains, children, victim, story>>

\* A refresher adds what the names of domains.txt resolve to.
Refresh == /\ refreshers # {} /\ domains # None /\ ipset.live
           /\ ipset' = [ipset EXCEPT !.of = @ \cup {domains}]
           /\ UNCHANGED <<pc, opts, rules, rln, files, children, victim, story>>

SetUp(r) == \/ LoadScope(r) \/ FillScope(r) \/ Launch(r) \/ Record(r)
            \/ Ready(r) \/ GiveUp(r) \/ Redirect(r) \/ Listen(r)
            \/ RedirectNonHTTP(r) \/ Coarse(r) \/ Spawn(r) \/ ProxyExit(r)

TearDown(p) == \/ RemoveRules(p) \/ KillRefreshers(p) \/ Term(p) \/ Reap(p)
               \/ Restore(p) \/ Destroy(p) \/ RemoveStats(p) \/ Exit(p)

Next == \/ \E r \in Runs : Start(r) \/ SetUp(r) \/ Interrupt(r) \/ Boot(r) \/ Die(r)
        \/ \E d \in Downs : Down(d)
        \/ \E p \in Procs : TearDown(p) \/ Crash(p)
        \/ Flush \/ Refresh

Spec == Init /\ [][Next]_vars

\* A command that was started ends.  Operators, proxies and crashes owe nothing.
FairSpec == /\ Spec
            /\ \A r \in Runs : WF_vars(SetUp(r))
            /\ \A p \in Procs : WF_vars(TearDown(p))
--------------------------------------------------------------------------------
LifecycleTypeOK ==
  /\ pc \in [Procs -> {"idle", "serve", "ended"} \cup Setup \cup Undo]
  /\ opts \in [Runs -> Flags]
  /\ ipset \in [live : BOOLEAN, of : SUBSET Runs]
  /\ rules \subseteq {"http", "tcp", "coarse"} /\ rln \in {0, 1}
  /\ saved \in {None, 0, 1} /\ pidfile \in Runs \cup {None} /\ ca \in BOOLEAN
  /\ domains \in Runs \cup {None} /\ stats \subseteq {"http", "tcp"}
  /\ mitm \in [Runs -> {"none", "boot", "serve", "dead"}]
  /\ bound \subseteq Runs /\ refreshers \subseteq Runs
  /\ victim \in [Procs -> Runs \cup {None}]
  /\ left \subseteq Runs /\ covers \in [Procs -> SUBSET Runs]
  /\ lapse \subseteq {"overlap", "rerun", "halfway"}

\* Nothing runs, and every run was followed by a teardown, its own or another's.
Reverted == AtRest /\ left = {}

\* "teardown reverts everything, regardless of which flags set it up"
\* (teardown.go:9): however invocations overlapped, crashed and were run over
\* one another, then there is no rule, no set and no refresher.
HostIsClean == Reverted => rules = {} /\ ~ipset.live /\ refreshers = {}

\* Nor does a proxy keep the port, or its snapshot come back after it was
\* removed, while runs neither overlap nor are started over the remains of one
\* that crashed.
ProxyIsGone == Reverted /\ lapse = {} => "http" \notin stats /\ \A r \in Runs : ~Alive(r)

\* Nor is routing to localhost left switched on where it was off.
NotLeftRouting == Reverted /\ lapse = {} /\ rln = 1 => Origin = 1

\* "the redirect only goes live once it's listening" (proxy.go:117): connections
\* are sent to the TCP pacer only while it is there to take them, until a crash.
PacerBehindRedirect == "tcp" \in rules /\ left = {} => bound # {}

\* A run throttles its own scope and nothing of another run's, even one started
\* over what a run of addresses only has left behind.  (A refresher that outlives
\* a run with names adds them to the set of the next.)
OwnScope ==
  \A r \in Runs :
     At(r, "serve") /\ "overlap" \notin lapse /\ (\A q \in Runs \ {r} : ~opts[q].hosts)
     => ipset.of \subseteq {r}

\* "Block until a signal arrives or mitmdump exits, then revert"
\* (proxy.go:135): traffic is not redirected to a dead proxy for ever.  At
\* whatever stage its proxy dies and whatever others do to the host meanwhile, a
\* run is over in the end.
DeadProxyReverted == \A r \in Runs : mitm[r] = "dead" ~> ~Active(r)

\* The same of runs started over what one that crashed has left: the port is
\* free ("so `down` returns only once port is free", teardown.go:21-22) and
\* route_localnet has "its pre-run value" (teardown.go:26).
RerunReverted ==
  Reverted /\ lapse \subseteq {"rerun"}
  => rln = Origin /\ \A r \in Runs : mitm[r] # "serve"
================================================================================
