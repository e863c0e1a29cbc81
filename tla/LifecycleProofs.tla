---------------------------- MODULE LifecycleProofs ----------------------------
(***************************************************************************)
(* Proofs about Lifecycle, for any number of invocations that overlap,      *)
(* crash and are run over one another: types, that a host on which every    *)
(* run was followed by a teardown is clean, that nothing is redirected to a *)
(* pacer that is not there, that a run throttles its own scope, and that    *)
(* neither the routing nor a proxy is left behind.                          *)
(*                                                                          *)
(* HostIsClean is not inductive: it speaks only of states in which nothing  *)
(* runs.  What holds in every state is that for whatever is on the host     *)
(* some run still owes its removal: it is at work and has its own teardown  *)
(* before it, or it ended without one and every teardown that began since   *)
(* has the step that removes it before it.                                  *)
(***************************************************************************)
EXTENDS Lifecycle, TLAPS

\* The steps of a teardown up to and including the one that takes away the
\* rules, the refreshers, the set.
ToRules == {"unrule"}
ToRefreshers == {"unrule", "unfresh"}
ToSet == {"unrule", "unfresh", "term", "reap", "restore", "destroy"}
ToTerm == {"unrule", "unfresh", "term"}
ToRestore == {"unrule", "unfresh", "term", "reap", "restore"}
ToStats == {"unrule", "unfresh", "term", "reap", "restore", "destroy", "unstat"}
Owable == {ToRules, ToRefreshers, ToSet, ToTerm, ToRestore, ToStats}

Owes(r, steps) == \/ pc[r] \in Setup \cup {"serve"} \cup steps
                  \/ r \in left /\ \A p \in Procs : r \in covers[p] => pc[p] \in steps

Debtor(steps) == \E r \in Runs : Owes(r, steps)

\* A run that was left is over.
LeftIsOver == /\ \A r \in left : pc[r] = "ended"
              /\ \A p \in Procs : \A r \in covers[p] : pc[r] = "ended"

Owed == /\ rules # {} => Debtor(ToRules)
        /\ refreshers # {} => Debtor(ToRefreshers)
        /\ ipset.live => Debtor(ToSet)

LifecycleInv == LifecycleTypeOK /\ LeftIsOver /\ Owed
--------------------------------------------------------------------------------
LEMMA TypesInit == Init => LifecycleTypeOK
<1> SUFFICES ASSUME Init PROVE LifecycleTypeOK
  OBVIOUS
<1> USE LifecycleAssumption DEF Init
<1>1. pc \in [Procs -> {"idle", "serve", "ended"} \cup Setup \cup Undo]
  OBVIOUS
<1>2. opts \in [Runs -> Flags]
  BY DEF Flags, Modes
<1>3. ipset \in [live : BOOLEAN, of : SUBSET Runs]
  OBVIOUS
<1>4. /\ rules \subseteq {"http", "tcp", "coarse"} /\ rln \in {0, 1}
      /\ saved \in {None, 0, 1} /\ pidfile \in Runs \cup {None} /\ ca \in BOOLEAN
      /\ domains \in Runs \cup {None} /\ stats \subseteq {"http", "tcp"}
  OBVIOUS
<1>5. /\ mitm \in [Runs -> {"none", "boot", "serve", "dead"}]
      /\ bound \subseteq Runs /\ refreshers \subseteq Runs
  OBVIOUS
<1>6. victim \in [Procs -> Runs \cup {None}]
  OBVIOUS
<1>7. left \subseteq Runs /\ covers \in [Procs -> SUBSET Runs]
  OBVIOUS
<1>8. lapse \subseteq {"overlap", "rerun", "halfway"}
  OBVIOUS
<1> QED
  BY <1>1, <1>2, <1>3, <1>4, <1>5, <1>6, <1>7, <1>8 DEF LifecycleTypeOK

\* One step per conjunct: few actions touch each, and the case split on the
\* actions is the same for all, hence the definitions in use throughout.
LEMMA TypesStep == LifecycleTypeOK /\ [Next]_vars => LifecycleTypeOK'
<1> SUFFICES ASSUME LifecycleTypeOK, [Next]_vars
             PROVE  LifecycleTypeOK'
  OBVIOUS
<1> USE LifecycleAssumption
    DEF LifecycleTypeOK, Procs, At, Goto, Teardown, kernel, files, children, story,
        vars, Next, SetUp, TearDown, Start, LoadScope, FillScope, Launch, Record,
        Ready, GiveUp, Redirect, Listen, RedirectNonHTTP, Coarse, Spawn, Interrupt,
        ProxyExit, Down, RemoveRules, KillRefreshers, Term, Reap, Restore, Destroy,
        RemoveStats, Exit, Crash, Boot, Die, Flush, Refresh
<1>1. pc' \in [Procs -> {"idle", "serve", "ended"} \cup Setup \cup Undo]
  BY DEF Setup, Undo
<1>2. opts' \in [Runs -> Flags]
  OBVIOUS
<1>3. ipset' \in [live : BOOLEAN, of : SUBSET Runs]
  <2>1. \/ UNCHANGED ipset
        \/ \E x \in BOOLEAN, scope \in SUBSET Runs : ipset' = [live |-> x, of |-> scope]
        \/ \E r \in Runs : ipset' = [ipset EXCEPT !.of = @ \cup {r}]
    OBVIOUS
  <2> QED
    BY <2>1
<1>4. rules' \subseteq {"http", "tcp", "coarse"} /\ rln' \in {0, 1}
  OBVIOUS
<1>5. saved' \in {None, 0, 1}
  OBVIOUS
<1>6. pidfile' \in Runs \cup {None} /\ ca' \in BOOLEAN
  OBVIOUS
<1>7. domains' \in Runs \cup {None} /\ stats' \subseteq {"http", "tcp"}
  OBVIOUS
<1>8. mitm' \in [Runs -> {"none", "boot", "serve", "dead"}]
  OBVIOUS
<1>9. bound' \subseteq Runs /\ refreshers' \subseteq Runs
  OBVIOUS
<1>10. victim' \in [Procs -> Runs \cup {None}]
  OBVIOUS
<1>11. left' \subseteq Runs /\ covers' \in [Procs -> SUBSET Runs]
  OBVIOUS
<1>12. lapse' \subseteq {"overlap", "rerun", "halfway"}
  OBVIOUS
<1> QED
  BY <1>1, <1>2, <1>3, <1>4, <1>5, <1>6, <1>7, <1>8, <1>9, <1>10, <1>11, <1>12

\* Type correctness of every invocation, file and rule, whatever overlaps or
\* crashes.
THEOREM LifecycleTypes == Spec => []LifecycleTypeOK
BY TypesInit, TypesStep, PTL DEF Spec
--------------------------------------------------------------------------------
LEMMA OverStep == LifecycleTypeOK /\ LeftIsOver /\ [Next]_vars => LeftIsOver'
<1> SUFFICES ASSUME LifecycleTypeOK, LeftIsOver, [Next]_vars
             PROVE  LeftIsOver'
  OBVIOUS
<1> USE DEF LeftIsOver, Procs, At, Goto, Teardown, story
<1>0. /\ pc \in [Procs -> {"idle", "serve", "ended"} \cup Setup \cup Undo]
      /\ left \subseteq Runs /\ covers \in [Procs -> SUBSET Runs]
  BY DEF LifecycleTypeOK
<1>1. ASSUME NEW r \in Runs, Start(r) \/ SetUp(r) \/ Interrupt(r) PROVE LeftIsOver'
  BY <1>0, <1>1 DEF Start, SetUp, LoadScope, FillScope, Launch, Record, Ready, GiveUp,
     Redirect, Listen, RedirectNonHTTP, Coarse, Spawn, ProxyExit, Interrupt
<1>2. ASSUME NEW d \in Downs, Down(d) PROVE LeftIsOver'
  BY <1>0, <1>2 DEF Down
<1>3. ASSUME NEW p \in Procs, TearDown(p) PROVE LeftIsOver'
  BY <1>0, <1>3 DEF TearDown, RemoveRules, KillRefreshers, Term, Reap, Restore, Destroy,
     RemoveStats, Exit
<1>4. ASSUME NEW p \in Procs, Crash(p) PROVE LeftIsOver'
  BY <1>0, <1>4 DEF Crash, Active
<1>5. CASE Flush \/ Refresh \/ \E r \in Runs : Boot(r) \/ Die(r)
  BY <1>5 DEF Flush, Refresh, Boot, Die
<1>6. CASE UNCHANGED vars
  BY <1>6 DEF vars
<1> QED
  BY <1>1, <1>2, <1>3, <1>4, <1>5, <1>6 DEF Next

\* Who owes goes on owing, however it ends, unless somebody takes the step.
LEMMA DebtKept ==
  ASSUME LifecycleTypeOK, LeftIsOver, [Next]_vars,
         NEW steps \in Owable,
         \A p \in Procs : pc[p] \in steps => pc'[p] \in steps \cup {"ended"},
         NEW r \in Runs, Owes(r, steps)
  PROVE  Owes(r, steps)'
<1> USE DEF LeftIsOver, At, Goto, Teardown, story, Procs
<1>0. /\ pc \in [Procs -> {"idle", "serve", "ended"} \cup Setup \cup Undo]
      /\ left \subseteq Runs /\ covers \in [Procs -> SUBSET Runs]
      /\ "unrule" \in steps /\ steps \subseteq Undo \ {"exit"}
      /\ "ended" \notin Setup \cup {"serve"} \cup steps
      /\ "exit" \notin Setup \cup {"serve"} \cup steps
      /\ steps \cap (Setup \cup {"idle", "serve"}) = {}
  BY DEF LifecycleTypeOK, Owable, ToRules, ToRefreshers, ToSet, ToTerm, ToRestore, ToStats,
     Undo, Setup
<1>1. ASSUME NEW q \in Runs, Start(q) \/ SetUp(q) \/ Interrupt(q) PROVE Owes(r, steps)'
  <2>1. /\ pc[q] \in Setup \cup {"idle", "serve"} /\ (q # r => pc'[r] = pc[r])
        /\ \/ pc'[q] \in Setup \cup {"serve"} /\ UNCHANGED <<left, covers>>
           \/ Teardown(q)
           \/ pc'[q] = "ended" /\ left' = left \cup {q} /\ UNCHANGED covers
        /\ \A p \in Procs \ {q} : pc'[p] = pc[p]
    BY <1>0, <1>1 DEF Setup, Start, SetUp, LoadScope, FillScope, Launch, Record, Ready, GiveUp,
       Redirect, Listen, RedirectNonHTTP, Coarse, Spawn, ProxyExit, Interrupt
  <2>2. \A p \in Procs : r \in covers[p] => pc[r] = "ended"
    OBVIOUS
  <2>3. CASE pc'[q] \in Setup \cup {"serve"} /\ UNCHANGED <<left, covers>>
    <3>1. CASE q = r
      BY <2>3, <3>1 DEF Owes
    <3>2. CASE q # r /\ pc[r] \in Setup \cup {"serve"} \cup steps
      BY <2>1, <3>2 DEF Owes
    <3>3. CASE r \in left /\ \A p \in Procs : r \in covers[p] => pc[p] \in steps
      <4>1. ASSUME NEW p \in Procs, r \in covers[p] PROVE pc'[p] \in steps
        <5>1. pc[p] \in steps /\ pc'[p] \in steps \cup {"ended"}
          BY <3>3, <4>1
        <5>2. pc'[p] # "ended"
          BY <1>0, <2>1, <2>3, <5>1
        <5> QED
          BY <5>1, <5>2
      <4> QED
        BY <2>3, <3>3, <4>1 DEF Owes
    <3> QED
      BY <3>1, <3>2, <3>3 DEF Owes
  <2>4. CASE Teardown(q)
    BY <1>0, <2>1, <2>4 DEF Owes
  <2>5. CASE pc'[q] = "ended" /\ left' = left \cup {q} /\ UNCHANGED covers
    <3>1. pc[r] # "ended" => \A p \in Procs : r \notin covers[p]
      BY <2>2
    <3>2. CASE q = r
      BY <1>0, <2>1, <2>5, <3>1, <3>2 DEF Owes, Setup
    <3>3. CASE q # r /\ pc[r] \in Setup \cup {"serve"} \cup steps
      BY <2>1, <3>3 DEF Owes
    <3>4. CASE q # r /\ r \in left /\ \A p \in Procs : r \in covers[p] => pc[p] \in steps
      <4>1. \A p \in Procs : r \in covers[p] => pc'[p] \in steps
        BY <1>0, <2>1, <3>4
      <4> QED
        BY <2>5, <3>4, <4>1 DEF Owes
    <3> QED
      BY <3>2, <3>3, <3>4 DEF Owes
  <2> QED
    BY <2>1, <2>3, <2>4, <2>5
<1>2. ASSUME NEW d \in Downs, Down(d) PROVE Owes(r, steps)'
  BY <1>0, <1>2 DEF Owes, Down
<1>3. ASSUME NEW p \in Procs, TearDown(p) PROVE Owes(r, steps)'
  <2>1. CASE Exit(p)
    BY <1>0, <2>1 DEF Owes, Exit
  <2>2. CASE ~Exit(p)
    <3>1. pc[p] \in Undo /\ UNCHANGED <<left, covers>> /\ pc' = [pc EXCEPT ![p] = pc'[p]]
          /\ pc'[p] \in Undo
      BY <1>0, <1>3, <2>2 DEF Undo, TearDown, RemoveRules, KillRefreshers, Term, Reap,
         Restore, Destroy, RemoveStats
    <3>2. pc[p] \in steps => pc'[p] \in steps
      BY <3>1 DEF Undo
    <3>3. Undo \cap (Setup \cup {"serve"}) = {}
      BY DEF Undo, Setup
    <3> QED
      BY <1>0, <3>1, <3>2, <3>3 DEF Owes
  <2> QED
    BY <2>1, <2>2
<1>4. ASSUME NEW p \in Procs, Crash(p) PROVE Owes(r, steps)'
  BY <1>0, <1>4 DEF Owes, Crash, Active
<1>5. CASE Flush \/ Refresh \/ \E q \in Runs : Boot(q) \/ Die(q)
  BY <1>5 DEF Owes, Flush, Refresh, Boot, Die
<1>6. CASE UNCHANGED vars
  BY <1>6 DEF Owes, vars
<1> QED
  BY <1>1, <1>2, <1>3, <1>4, <1>5, <1>6 DEF Next

\* The same, of whoever it is.
LEMMA DebtorStays ==
  ASSUME LifecycleTypeOK, LeftIsOver, [Next]_vars,
         NEW steps \in Owable,
         \A p \in Procs : pc[p] \in steps => pc'[p] \in steps \cup {"ended"},
         Debtor(steps)
  PROVE  Debtor(steps)'
BY DebtKept DEF Debtor

\* What a step may do to the host and to those who owe: the case split on the
\* actions, as in TypesStep.
LEMMA StepsTaken ==
  ASSUME LifecycleTypeOK, [Next]_vars
  PROVE  /\ \/ rules' = {}
            \/ \A p \in Procs : pc[p] \in ToRules => pc'[p] \in ToRules \cup {"ended"}
         /\ \/ refreshers' = {}
            \/ \A p \in Procs : pc[p] \in ToRefreshers => pc'[p] \in ToRefreshers \cup {"ended"}
         /\ \/ ~ipset'.live \/ rules' # {}
            \/ \A p \in Procs : pc[p] \in ToSet => pc'[p] \in ToSet \cup {"ended"}
         /\ rules' \subseteq rules \/ \E r \in Runs : pc'[r] \in Setup
         /\ (ipset'.live => ipset.live) \/ \E r \in Runs : pc'[r] \in Setup
         /\ refreshers' \subseteq refreshers \/ \E r \in Runs : Spawn(r)
<1>0. pc \in [Procs -> {"idle", "serve", "ended"} \cup Setup \cup Undo]
  BY DEF LifecycleTypeOK
<1>1. refreshers' \subseteq refreshers \/ \E r \in Runs : Spawn(r)
  BY DEF Next, SetUp, TearDown, vars, kernel, files, children, story, Start, LoadScope,
     FillScope, Launch, Record, Ready, GiveUp, Redirect, Listen, RedirectNonHTTP, Coarse,
     Interrupt, ProxyExit, Down, RemoveRules, KillRefreshers, Term, Reap, Restore,
     Destroy, RemoveStats, Exit, Crash, Boot, Die, Flush, Refresh
<1> USE <1>0
    DEF Procs, At, Goto, Teardown, kernel, files, children, story, Setup,
        vars, Next, SetUp, TearDown, Start, LoadScope, FillScope, Launch, Record,
        Ready, GiveUp, Redirect, Listen, RedirectNonHTTP, Coarse, Spawn, Interrupt,
        ProxyExit, Down, RemoveRules, KillRefreshers, Term, Reap, Restore, Destroy,
        RemoveStats, Exit, Crash, Boot, Die, Flush, Refresh
<1>2. \/ rules' = {}
      \/ \A p \in Procs : pc[p] \in ToRules => pc'[p] \in ToRules \cup {"ended"}
  BY DEF ToRules
<1>3. \/ refreshers' = {}
      \/ \A p \in Procs : pc[p] \in ToRefreshers => pc'[p] \in ToRefreshers \cup {"ended"}
  BY DEF ToRefreshers
<1>4. \/ ~ipset'.live \/ rules' # {}
      \/ \A p \in Procs : pc[p] \in ToSet => pc'[p] \in ToSet \cup {"ended"}
  BY DEF ToSet
<1>5. rules' \subseteq rules \/ \E r \in Runs : pc'[r] \in Setup
  OBVIOUS
<1>6. (ipset'.live => ipset.live) \/ \E r \in Runs : pc'[r] \in Setup
  BY DEF LifecycleTypeOK
<1> QED
  BY <1>1, <1>2, <1>3, <1>4, <1>5, <1>6

LEMMA OwedStep == LifecycleInv /\ [Next]_vars => Owed'
<1> SUFFICES ASSUME LifecycleInv, [Next]_vars
             PROVE  Owed'
  OBVIOUS
<1> USE StepsTaken, DebtorStays DEF LifecycleInv, Owable
<1>1. rules' # {} => Debtor(ToRules)'
  BY DEF Owed, Debtor, Owes
<1>2. refreshers' # {} => Debtor(ToRefreshers)'
  <2>1. ASSUME NEW r \in Runs, Spawn(r) PROVE Owes(r, ToRefreshers)'
    <3>1. /\ pc[r] = "spawn" /\ pc'[r] \in {"serve", "ended"} /\ UNCHANGED covers
          /\ pc'[r] = "ended" => r \in left'
      BY <2>1 DEF Spawn, At, Goto, LifecycleTypeOK, Procs
    <3>2. \A p \in Procs : r \notin covers[p]
      BY <3>1 DEF LeftIsOver
    <3> QED
      BY <3>1, <3>2 DEF Owes
  <2> QED
    BY <2>1 DEF Owed, Debtor
<1>3. ipset'.live => Debtor(ToSet)'
  <2>1. CASE rules' # {}
    BY <1>1, <2>1 DEF Debtor, Owes, ToRules, ToSet
  <2>2. CASE rules' = {}
    BY <2>2 DEF Owed, Debtor, Owes
  <2> QED
    BY <2>1, <2>2
<1> QED
  BY <1>1, <1>2, <1>3 DEF Owed

LEMMA NobodyOwes == Reverted => \A r \in Runs, steps \in Owable : ~Owes(r, steps)
  BY DEF Reverted, AtRest, Active, Procs, Owes, Setup, Owable, ToRules, ToRefreshers, ToSet,
     ToTerm, ToRestore, ToStats

\* "teardown reverts everything, regardless of which flags set it up"
\* (teardown.go:9), for any number of invocations that overlap, crash and are run
\* over one another: when nothing runs and every run was followed by a teardown,
\* there is no rule, no set and no refresher.
THEOREM HostReverted == Spec => []HostIsClean
<1>1. Init => LifecycleInv
  BY TypesInit DEF Init, LifecycleInv, LeftIsOver, Owed
<1>2. LifecycleInv /\ [Next]_vars => LifecycleInv'
  BY TypesStep, OverStep, OwedStep DEF LifecycleInv
<1>3. LifecycleInv => HostIsClean
  BY NobodyOwes DEF LifecycleInv, Owed, Debtor, HostIsClean, Owable
<1> QED
  BY <1>1, <1>2, <1>3, PTL DEF Spec
--------------------------------------------------------------------------------
\* A run that owes the removal of the rules, with its pacer or after a crash.
Behind(r) == Owes(r, ToRules) /\ r \in bound \cup left

\* Who is about to redirect to its pacer has one, and whoever has redirected has
\* it until the rules are gone, or was left.
PacerInv == /\ \A r \in Runs : At(r, "nonhttp") => r \in bound
            /\ "tcp" \in rules => \E r \in Runs : Behind(r)

\* What a step may do to the pacers and to the rule that leads to them.
LEMMA PacerSteps ==
  ASSUME LifecycleTypeOK, [Next]_vars
  PROVE  /\ \A r \in bound : r \in bound' \/ Exit(r) \/ Crash(r)
         /\ \A r \in left : r \in left' \/ \E p \in Procs : Exit(p) /\ r \in covers[p]
         /\ \A r \in Runs : At(r, "nonhttp")' => At(r, "nonhttp") \/ r \in bound'
         /\ \/ "tcp" \in rules' => "tcp" \in rules
            \/ \E r \in Runs : At(r, "nonhttp") /\ pc'[r] = "spawn" /\ UNCHANGED bound
<1>0. pc \in [Procs -> {"idle", "serve", "ended"} \cup Setup \cup Undo]
  BY DEF LifecycleTypeOK
<1> USE <1>0 DEF vars, Next, SetUp, TearDown, kernel, files, children, story,
     Start, LoadScope, FillScope, Launch, Record, Ready, GiveUp, Redirect, Listen,
     RedirectNonHTTP, Coarse, Spawn, Interrupt, ProxyExit, Down, RemoveRules,
     KillRefreshers, Term, Reap, Restore, Destroy, RemoveStats, Boot, Die, Flush, Refresh,
     Teardown
<1>1. \A r \in bound : r \in bound' \/ Exit(r) \/ Crash(r)
  BY DEF Exit, Crash, LifecycleTypeOK
<1>2. \A r \in left : r \in left' \/ \E p \in Procs : Exit(p) /\ r \in covers[p]
  BY DEF Exit, Crash
<1> USE DEF Exit, Crash, At, Goto, Procs
<1>3. \A r \in Runs : At(r, "nonhttp")' => At(r, "nonhttp") \/ r \in bound'
  OBVIOUS
<1>4. \/ "tcp" \in rules' => "tcp" \in rules
      \/ \E r \in Runs : At(r, "nonhttp") /\ pc'[r] = "spawn" /\ UNCHANGED bound
  OBVIOUS
<1> QED
  BY <1>1, <1>2, <1>3, <1>4

LEMMA PacerStep == LifecycleInv /\ PacerInv /\ [Next]_vars => PacerInv'
<1> SUFFICES ASSUME LifecycleInv, PacerInv, [Next]_vars
             PROVE  PacerInv'
  OBVIOUS
<1> USE PacerSteps DEF LifecycleInv
<1>0. /\ pc \in [Procs -> {"idle", "serve", "ended"} \cup Setup \cup Undo]
      /\ bound \subseteq Runs /\ left \subseteq Runs
  BY DEF LifecycleTypeOK
<1>1. ASSUME NEW r \in Runs, At(r, "nonhttp")' PROVE r \in bound'
  <2>1. CASE At(r, "nonhttp")
    <3>1. r \in bound
      BY <2>1 DEF PacerInv
    <3>2. pc'[r] # "ended"
      BY <1>1 DEF At
    <3> QED
      BY <1>0, <3>1, <3>2 DEF Exit, Crash, Goto, Procs
  <2>2. CASE ~At(r, "nonhttp")
    BY <1>1, <2>2
  <2> QED
    BY <2>1, <2>2
<1>2. ASSUME NEW r \in Runs, Behind(r), rules' # {} PROVE Behind(r)'
  <2>1. \A p \in Procs : pc[p] \in ToRules => pc'[p] \in ToRules \cup {"ended"}
    BY <1>2, StepsTaken
  <2>2. Owes(r, ToRules)'
    BY <1>2, <2>1, DebtKept DEF Behind, Owable
  <2>3. ASSUME r \in bound, Exit(r) PROVE r \in left'
    <3>1. pc[r] = "exit"
      BY <2>3 DEF Exit, At
    <3> QED
      BY <1>2, <3>1 DEF Behind, Owes, LeftIsOver, ToRules, Setup
  <2>4. ASSUME NEW p \in Procs, Exit(p), r \in covers[p] PROVE FALSE
    <3>1. pc[p] = "exit" /\ pc[r] = "ended"
      BY <2>4 DEF Exit, At, LeftIsOver
    <3> QED
      BY <1>2, <2>4, <3>1 DEF Behind, Owes, ToRules, Setup
  <2>5. r \in bound => r \in bound' \cup left'
    BY <1>2, <2>3 DEF Crash
  <2>6. r \in left => r \in left'
    BY <2>4
  <2> QED
    BY <1>2, <2>2, <2>5, <2>6 DEF Behind
<1>3. ASSUME NEW r \in Runs, At(r, "nonhttp"), pc'[r] = "spawn", UNCHANGED bound
      PROVE  Behind(r)'
  BY <1>3 DEF PacerInv, Behind, Owes, Setup
<1>4. "tcp" \in rules' => \E r \in Runs : Behind(r)'
  BY <1>2, <1>3 DEF PacerInv
<1> QED
  BY <1>1, <1>4 DEF PacerInv

\* "the redirect only goes live once it's listening" (proxy.go:117), and the
\* pacer outlives it: unless a crash has left a run's rules behind, connections
\* are sent to the TCP pacer only while there is one, however runs overlap.
THEOREM PacerBeforeRedirect == Spec => []PacerBehindRedirect
<1>1. Init => LifecycleInv /\ PacerInv
  BY TypesInit DEF Init, LifecycleInv, LeftIsOver, Owed, PacerInv, At, Procs
<1>2. LifecycleInv /\ PacerInv /\ [Next]_vars => (LifecycleInv /\ PacerInv)'
  BY TypesStep, OverStep, OwedStep, PacerStep DEF LifecycleInv
<1>3. PacerInv => PacerBehindRedirect
  BY DEF PacerInv, Behind, PacerBehindRedirect
<1> QED
  BY <1>1, <1>2, <1>3, PTL DEF Spec
--------------------------------------------------------------------------------
\* Unless the operator let them overlap, one run is at work at a time.
Alone == "overlap" \notin lapse => \A r, s \in Runs : Active(r) /\ Active(s) => r = s

LEMMA Lapses ==
  ASSUME LifecycleTypeOK, [Next]_vars
  PROVE  /\ lapse \subseteq lapse'
         /\ \A r \in Runs : Active(r)' => Active(r) \/ Start(r)
<1>0. /\ pc \in [Procs -> {"idle", "serve", "ended"} \cup Setup \cup Undo]
      /\ Runs \cap Downs = {}
  BY LifecycleAssumption DEF LifecycleTypeOK
<1> USE <1>0 DEF vars, Next, SetUp, TearDown, story, LoadScope, FillScope, Launch, Record, Ready,
     GiveUp, Redirect, Listen, RedirectNonHTTP, Coarse, Spawn, Interrupt, ProxyExit, Down,
     RemoveRules, KillRefreshers, Term, Reap, Restore, Destroy, RemoveStats, Exit, Crash,
     Boot, Die, Flush, Refresh, Teardown
<1>1. lapse \subseteq lapse'
  BY DEF Start
<1>2. ASSUME NEW q \in Runs, Start(q), NEW r \in Runs, Active(r)'
      PROVE  Active(r) \/ Start(r)
  BY <1>2 DEF Start, Active, At, Goto, Procs
<1>3. ASSUME ~\E q \in Runs : Start(q), NEW r \in Runs, Active(r)'
      PROVE  Active(r)
  BY <1>3 DEF Active, At, Goto, Procs
<1> QED
  BY <1>1, <1>2, <1>3

LEMMA AloneStep == LifecycleTypeOK /\ Alone /\ [Next]_vars => Alone'
<1> SUFFICES ASSUME LifecycleTypeOK, Alone, [Next]_vars, "overlap" \notin lapse',
                    NEW r \in Runs, NEW s \in Runs, Active(r)', Active(s)'
             PROVE  r = s
  BY DEF Alone
<1>1. ASSUME NEW q \in Runs, Start(q)
      PROVE  AtRest /\ \A p \in Procs \ {q} : ~Active(p)'
  BY <1>1 DEF Start, AtRest, Active, At, Goto, Procs, LifecycleTypeOK
<1>2. CASE Start(r) \/ Start(s)
  BY <1>1, <1>2 DEF Procs
<1>3. CASE Active(r) /\ Active(s)
  BY <1>3, Lapses DEF Alone
<1> QED
  BY <1>2, <1>3, Lapses

\* A run that is started in good order finds a host that nobody has to clean.
LEMMA StartsClean ==
  ASSUME NEW r \in Runs, Start(r), lapse' = {}
  PROVE  Reverted
  BY DEF Start, Reverted
--------------------------------------------------------------------------------
\* Whose scope the set may hold once a run has begun to fill it: its own, and
\* that of the names a refresher was started for.
Filled == {"fill", "coarse", "launch", "record", "wait", "redirect", "listen", "nonhttp",
           "spawn", "serve"}
Named(q) == opts[q].hosts /\ pc[q] # "idle"

ScopeInv ==
  /\ domains # None => Named(domains)
  /\ "overlap" \notin lapse =>
       \A r \in Runs : pc[r] \in Filled => \A q \in ipset.of : q = r \/ Named(q)

\* What a step may do to the set and to the flags.
LEMMA ScopeSteps ==
  ASSUME LifecycleTypeOK, [Next]_vars
  PROVE  /\ \A q \in Runs : Named(q) => Named(q)'
         /\ domains' = domains \/ \E r \in Runs : domains' = r /\ Named(r)
         /\ \A q \in ipset'.of : \/ q \in ipset.of
                                 \/ q \in Runs /\ At(q, "fill")
                                 \/ q = domains /\ domains # None
         /\ \A r \in Runs : pc'[r] \in Filled => pc[r] \in Filled \/ ipset'.of = {}
<1>0. /\ pc \in [Procs -> {"idle", "serve", "ended"} \cup Setup \cup Undo]
      /\ opts \in [Runs -> Flags] /\ ipset \in [live : BOOLEAN, of : SUBSET Runs]
      /\ Runs \cap Downs = {}
  BY LifecycleAssumption DEF LifecycleTypeOK
<1> USE <1>0 DEF At, Goto, Teardown, Procs, vars, Next, SetUp, TearDown, kernel, files, Start,
     LoadScope, FillScope, Launch, Record, Ready, GiveUp, Redirect, Listen, RedirectNonHTTP,
     Coarse, Spawn, Interrupt, ProxyExit, Down, RemoveRules, KillRefreshers, Term, Reap,
     Restore, Destroy, RemoveStats, Exit, Crash, Boot, Die, Flush, Refresh
<1>1. \A q \in Runs : Named(q) => Named(q)'
  BY DEF Named
<1>2. domains' = domains \/ \E r \in Runs : domains' = r /\ Named(r)
  BY DEF Named
<1>3. \A q \in ipset'.of : \/ q \in ipset.of
                           \/ q \in Runs /\ At(q, "fill")
                           \/ q = domains /\ domains # None
  OBVIOUS
<1>4. \A r \in Runs : pc'[r] \in Filled => pc[r] \in Filled \/ ipset'.of = {}
  BY DEF Filled
<1> QED
  BY <1>1, <1>2, <1>3, <1>4

LEMMA ScopeStep == LifecycleTypeOK /\ Alone /\ ScopeInv /\ [Next]_vars => ScopeInv'
<1> SUFFICES ASSUME LifecycleTypeOK, Alone, ScopeInv, [Next]_vars
             PROVE  ScopeInv'
  OBVIOUS
<1>0. \A q \in Runs : Named(q) => Named(q)'
  BY ScopeSteps
<1>1. domains' # None => Named(domains)'
  BY <1>0, ScopeSteps DEF ScopeInv, LifecycleTypeOK
<1>2. ASSUME "overlap" \notin lapse', NEW r \in Runs, pc'[r] \in Filled, NEW q \in ipset'.of
      PROVE  q = r \/ Named(q)'
  <2>1. pc[r] \in Filled /\ "overlap" \notin lapse
    BY <1>2, ScopeSteps, Lapses
  <2>2. CASE q \in ipset.of
    BY <1>0, <2>1, <2>2 DEF ScopeInv, LifecycleTypeOK
  <2>3. CASE q \in Runs /\ At(q, "fill")
    BY <2>1, <2>3 DEF Alone, Active, At, Filled
  <2>4. CASE q = domains /\ domains # None
    BY <1>0, <2>4 DEF ScopeInv, LifecycleTypeOK
  <2> QED
    BY <1>2, <2>2, <2>3, <2>4, ScopeSteps
<1> QED
  BY <1>1, <1>2 DEF ScopeInv

\* A run without names of another's throttles its own scope only, whatever was
\* left behind before it and however often runs crash, as long as they do not
\* overlap.
THEOREM ScopeIsOwn == Spec => []OwnScope
<1>1. Init => LifecycleTypeOK /\ Alone /\ ScopeInv
  BY TypesInit DEF Init, Alone, Active, ScopeInv, Filled, Procs
<1>2. LifecycleTypeOK /\ Alone /\ ScopeInv /\ [Next]_vars
      => (LifecycleTypeOK /\ Alone /\ ScopeInv)'
  BY TypesStep, AloneStep, ScopeStep
<1>3. LifecycleTypeOK /\ ScopeInv => OwnScope
  BY DEF ScopeInv, OwnScope, Named, Filled, At, LifecycleTypeOK
<1> QED
  BY <1>1, <1>2, <1>3, PTL DEF Spec
--------------------------------------------------------------------------------
\* The steps of a run before it switches route_localnet on.
Before == {"load", "fill", "coarse", "launch", "record", "wait"}

\* Where routing to localhost was off and runs follow one another in good order:
\* nobody noted it to be on, it is off until a run switches it on, and then some
\* run still owes switching it off.
RouteInv ==
  Origin = 0 /\ lapse = {} =>
    /\ saved # 1
    /\ rln # 0 => ~(\E r \in Runs : pc[r] \in Before) /\ Debtor(ToRestore)

\* What a step may do to the setting and to what was noted of it.
LEMMA RouteSteps ==
  ASSUME LifecycleTypeOK, [Next]_vars
  PROVE  /\ saved' = saved \/ \E r \in Runs : At(r, "launch") /\ saved' = rln
         /\ \/ rln' = rln
               /\ \A p \in Procs : pc[p] \in ToRestore => pc'[p] \in ToRestore \cup {"ended"}
            \/ rln' = 0
            \/ rln' = saved
            \/ \E r \in Runs : At(r, "wait") /\ pc' = [pc EXCEPT ![r] = "redirect"]
         /\ \A r \in Runs : pc'[r] \in Before => pc[r] \in Before \/ Start(r)
<1>0. /\ pc \in [Procs -> {"idle", "serve", "ended"} \cup Setup \cup Undo]
      /\ Runs \cap Downs = {}
  BY LifecycleAssumption DEF LifecycleTypeOK
<1> USE <1>0 DEF At, Goto, Teardown, vars, Next, SetUp, TearDown, kernel, files,
     LoadScope, FillScope, Launch, Record, Ready, GiveUp, Redirect, Listen, RedirectNonHTTP,
     Coarse, Spawn, Interrupt, ProxyExit, Down, RemoveRules, KillRefreshers, Term, Reap,
     Restore, Destroy, RemoveStats, Exit, Crash, Boot, Die, Flush, Refresh, Procs
<1>1. saved' = saved \/ \E r \in Runs : At(r, "launch") /\ saved' = rln
  BY DEF Start
<1>2. \/ rln' = rln
         /\ \A p \in Procs : pc[p] \in ToRestore => pc'[p] \in ToRestore \cup {"ended"}
      \/ rln' = 0
      \/ rln' = saved
      \/ \E r \in Runs : At(r, "wait") /\ pc' = [pc EXCEPT ![r] = "redirect"]
  BY DEF Start, ToRestore
<1>3. ASSUME NEW q \in Runs, Start(q), NEW r \in Runs, pc'[r] \in Before
      PROVE  pc[r] \in Before \/ Start(r)
  BY <1>3 DEF Start
<1>4. ASSUME ~\E q \in Runs : Start(q), NEW r \in Runs, pc'[r] \in Before
      PROVE  pc[r] \in Before
  BY <1>4 DEF Before
<1> QED
  BY <1>1, <1>2, <1>3, <1>4

LEMMA RouteStep ==
  LifecycleTypeOK /\ LeftIsOver /\ Alone /\ RouteInv /\ [Next]_vars => RouteInv'
<1> SUFFICES ASSUME LifecycleTypeOK, LeftIsOver, Alone, RouteInv, [Next]_vars,
                    Origin = 0, lapse' = {}
             PROVE  RouteInv'
  BY DEF RouteInv
<1>0. /\ lapse = {} /\ rln \in {0, 1} /\ saved \in {None, 0, 1} /\ rln' \in {0, 1}
      /\ pc \in [Procs -> {"idle", "serve", "ended"} \cup Setup \cup Undo]
  BY Lapses, TypesStep DEF LifecycleTypeOK
<1>1. saved # 1 /\ \A r \in Runs : pc[r] \in Before => rln = 0
  BY <1>0 DEF RouteInv
<1>2. saved' # 1
  BY <1>1, RouteSteps, LifecycleAssumption DEF At, Before
<1>3. ASSUME rln' # 0 PROVE Debtor(ToRestore)' /\ ~\E r \in Runs : pc'[r] \in Before
  <2>1. CASE /\ rln' = rln
             /\ \A p \in Procs : pc[p] \in ToRestore => pc'[p] \in ToRestore \cup {"ended"}
    <3>1. Debtor(ToRestore)
      BY <1>0, <1>3, <2>1 DEF RouteInv
    <3>2. Debtor(ToRestore)'
      BY <2>1, <3>1, DebtorStays DEF Owable
    <3>3. ASSUME NEW r \in Runs, pc'[r] \in Before PROVE FALSE
      <4>1. Start(r)
        BY <1>1, <1>3, <2>1, <3>3, RouteSteps
      <4> QED
        BY <3>1, <4>1, StartsClean, NobodyOwes DEF Debtor, Owable
    <3> QED
      BY <3>2, <3>3
  <2>2. CASE rln' = saved
    BY <1>0, <1>1, <1>3, <2>2, LifecycleAssumption DEF LifecycleTypeOK
  <2>3. ASSUME NEW r \in Runs, At(r, "wait"), pc' = [pc EXCEPT ![r] = "redirect"]
        PROVE  Debtor(ToRestore)' /\ ~\E q \in Runs : pc'[q] \in Before
    <3>1. pc'[r] = "redirect"
      BY <1>0, <2>3 DEF Procs
    <3>2. \A q \in Runs \ {r} : pc'[q] = pc[q] /\ ~Active(q)
      BY <1>0, <2>3 DEF Procs, Alone, Active, At
    <3>3. \A q \in Runs : pc'[q] \notin Before
      BY <3>1, <3>2 DEF Active, Before
    <3>4. Owes(r, ToRestore)'
      BY <3>1 DEF Owes, Setup
    <3> QED
      BY <3>3, <3>4 DEF Debtor
  <2> QED
    BY <1>3, <2>1, <2>2, <2>3, RouteSteps
<1> QED
  BY <1>2, <1>3 DEF RouteInv

\* "pre-run value" (teardown.go:26): runs that follow one another in good order
\* never leave routing to localhost on where it was off, for any number of them.
THEOREM RoutingReverted == Spec => []NotLeftRouting
<1> DEFINE Inv == LifecycleInv /\ Alone /\ RouteInv
<1>1. Init => Inv
  BY TypesInit, LifecycleAssumption
     DEF Init, LifecycleInv, LeftIsOver, Owed, Alone, Active, RouteInv, Procs
<1>2. Inv /\ [Next]_vars => Inv'
  BY TypesStep, OverStep, OwedStep, AloneStep, RouteStep DEF LifecycleInv
<1>3. Inv => NotLeftRouting
  BY NobodyOwes, LifecycleAssumption DEF RouteInv, NotLeftRouting, Debtor, Owable
<1> QED
  BY <1>1, <1>2, <1>3, PTL DEF Spec
--------------------------------------------------------------------------------
\* How a proxy that lives will be found: its run is about to note its pid, the
\* pid file names it and its run owes a look at that file, or a teardown that has
\* read the file is about to end it.
Traced(r) == \/ pc[r] = "record"
             \/ pidfile = r /\ Owes(r, ToTerm)
             \/ \E p \in Procs : pc[p] = "reap" /\ victim[p] = r

\* Somebody will remove the snapshots.
Sweeper == Debtor(ToStats) \/ \E d \in Downs : pc[d] \in ToStats

\* Of runs in good order: only the one at work has a proxy, if any, it is traced,
\* and its snapshot is to be removed.
ProxyInv ==
  lapse = {} =>
    /\ \A r \in Runs : Alive(r) => Traced(r) /\ \A s \in Runs : Active(s) => s = r
    /\ "http" \in stats => Sweeper

\* What a step may do to a proxy and to the trace of it.
LEMMA TraceSteps ==
  ASSUME LifecycleTypeOK, [Next]_vars, "halfway" \notin lapse'
  PROVE  /\ \A r \in Runs : Alive(r)' => Alive(r) \/ (At(r, "launch") /\ pc'[r] = "record")
         /\ \A r \in Runs : At(r, "record") =>
              At(r, "record")' \/ (pc'[r] = "wait" /\ pidfile' = r)
         /\ \A p \in Procs : At(p, "reap") =>
              \/ At(p, "reap")' /\ victim'[p] = victim[p]
              \/ \A r \in Runs : victim[p] = r => ~Alive(r)'
         /\ \/ /\ \A p \in Procs : pc[p] \in ToTerm => pc'[p] \in ToTerm \cup {"ended"}
               /\ pidfile' = pidfile \/ \E r \in Runs : Active(r) /\ pidfile' = r
            \/ \E p \in Procs : At(p, "reap")' /\ victim'[p] = pidfile
<1>0. /\ pc \in [Procs -> {"idle", "serve", "ended"} \cup Setup \cup Undo]
      /\ victim \in [Procs -> Runs \cup {None}]
      /\ mitm \in [Runs -> {"none", "boot", "serve", "dead"}]
  BY DEF LifecycleTypeOK
<1> USE <1>0 DEF At, Goto, Teardown, vars, Next, SetUp, TearDown, files, children, story,
     Start, LoadScope, FillScope, Launch, Record, Ready, GiveUp, Redirect, Listen,
     RedirectNonHTTP, Coarse, Spawn, Interrupt, ProxyExit, Down, RemoveRules,
     KillRefreshers, Term, Reap, Restore, Destroy, RemoveStats, Exit, Crash, Boot, Die,
     Flush, Refresh, Procs
<1>1. \A r \in Runs : Alive(r)' => Alive(r) \/ (At(r, "launch") /\ pc'[r] = "record")
  BY DEF Alive
<1>2. \A r \in Runs : At(r, "record") => At(r, "record")' \/ (pc'[r] = "wait" /\ pidfile' = r)
  BY DEF Setup, Undo
<1>3. \A p \in Procs : At(p, "reap") =>
        \/ At(p, "reap")' /\ victim'[p] = victim[p]
        \/ \A r \in Runs : victim[p] = r => ~Alive(r)'
  BY DEF Alive
<1>4. \/ /\ \A p \in Procs : pc[p] \in ToTerm => pc'[p] \in ToTerm \cup {"ended"}
         /\ pidfile' = pidfile \/ \E r \in Runs : Active(r) /\ pidfile' = r
      \/ \E p \in Procs : At(p, "reap")' /\ victim'[p] = pidfile
  BY DEF ToTerm, Active
<1> QED
  BY <1>1, <1>2, <1>3, <1>4

\* What a step may do to the snapshots and to those who will remove them.
LEMMA StatsSteps ==
  ASSUME LifecycleTypeOK, [Next]_vars, "halfway" \notin lapse'
  PROVE  \/ "http" \notin stats'
         \/ /\ \A p \in Procs : pc[p] \in ToStats => pc'[p] \in ToStats \cup {"ended"}
            /\ \A d \in Downs : pc[d] \in ToStats => pc'[d] \in ToStats
            /\ "http" \in stats \/ \E r \in Runs : Alive(r)
<1>0. /\ pc \in [Procs -> {"idle", "serve", "ended"} \cup Setup \cup Undo]
      /\ Runs \cap Downs = {}
  BY LifecycleAssumption DEF LifecycleTypeOK
<1> QED
  BY <1>0 DEF At, Goto, Teardown, vars, Next, SetUp, TearDown, files, Start, LoadScope,
     FillScope, Launch, Record, Ready, GiveUp, Redirect, Listen, RedirectNonHTTP, Coarse,
     Spawn, Interrupt, ProxyExit, Down, RemoveRules, KillRefreshers, Term, Reap, Restore,
     Destroy, RemoveStats, Exit, Crash, Boot, Die, Flush, Refresh, Procs, ToStats, Alive,
     Setup

\* Who is to end a proxy is also to remove the snapshots.
LEMMA TracerSweeps == ASSUME NEW r \in Runs, Traced(r) PROVE Sweeper
<1>1. CASE pc[r] = "record" \/ Owes(r, ToTerm)
  <2>1. Owes(r, ToStats)
    BY <1>1 DEF Owes, Setup, ToTerm, ToStats
  <2> QED
    BY <2>1 DEF Sweeper, Debtor
<1>2. ASSUME NEW p \in Procs, pc[p] = "reap" PROVE Sweeper
  BY <1>2 DEF Sweeper, Debtor, Owes, ToStats, Procs
<1> QED
  BY <1>1, <1>2 DEF Traced

LEMMA TraceStep ==
  ASSUME LifecycleTypeOK, LeftIsOver, [Next]_vars, lapse' = {},
         NEW r \in Runs, Alive(r)', Alive(r) => Traced(r) /\ \A s \in Runs : Active(s) => s = r
  PROVE  Traced(r)'
<1> USE TraceSteps
<1>1. CASE At(r, "launch") /\ pc'[r] = "record"
  BY <1>1 DEF Traced
<1>2. CASE Alive(r) /\ pc[r] = "record"
  BY <1>2 DEF Traced, At, Owes, Setup
<1>3. CASE Alive(r) /\ pidfile = r /\ Owes(r, ToTerm)
  <2>1. CASE \E p \in Procs : At(p, "reap")' /\ victim'[p] = pidfile
    BY <1>3, <2>1 DEF Traced, At, LifecycleTypeOK
  <2>2. CASE /\ \A p \in Procs : pc[p] \in ToTerm => pc'[p] \in ToTerm \cup {"ended"}
             /\ pidfile' = pidfile \/ \E s \in Runs : Active(s) /\ pidfile' = s
    <3>1. Owes(r, ToTerm)'
      BY <1>3, <2>2, DebtKept DEF Owable
    <3>2. pidfile' = r
      BY <1>3, <2>2
    <3> QED
      BY <3>1, <3>2 DEF Traced
  <2> QED
    BY <2>1, <2>2
<1>4. ASSUME NEW p \in Procs, pc[p] = "reap", victim[p] = r PROVE Traced(r)'
  BY <1>4 DEF Traced, At
<1> QED
  BY <1>1, <1>2, <1>3, <1>4 DEF Traced

LEMMA ProxyStep ==
  LifecycleTypeOK /\ LeftIsOver /\ Alone /\ ProxyInv /\ [Next]_vars => ProxyInv'
<1> SUFFICES ASSUME LifecycleTypeOK, LeftIsOver, Alone, ProxyInv, [Next]_vars, lapse' = {}
             PROVE  ProxyInv'
  BY DEF ProxyInv
<1>0. lapse = {}
  BY Lapses
<1>1. ASSUME NEW r \in Runs, Alive(r)' PROVE Traced(r)'
  BY <1>0, <1>1, TraceStep DEF ProxyInv
<1>2. ASSUME NEW r \in Runs, Alive(r)', NEW s \in Runs, Active(s)' PROVE s = r
  <2>1. Alive(r) \/ Active(r)
    BY <1>2, TraceSteps DEF At, Active
  <2>2. CASE Start(s)
    <3>1. Reverted
      BY <2>2, StartsClean
    <3>2. Alive(r) /\ Traced(r)
      BY <1>0, <2>1, <3>1 DEF ProxyInv, Reverted, AtRest, Procs
    <3> QED
      BY <3>1, <3>2, NobodyOwes DEF Traced, Reverted, AtRest, Active, Procs, Owable
  <2>3. CASE Active(s)
    BY <1>0, <2>1, <2>3 DEF ProxyInv, Alone
  <2> QED
    BY <1>2, <2>2, <2>3, Lapses
<1>3. ASSUME "http" \in stats' PROVE Sweeper'
  <2>1. /\ \A p \in Procs : pc[p] \in ToStats => pc'[p] \in ToStats \cup {"ended"}
        /\ \A d \in Downs : pc[d] \in ToStats => pc'[d] \in ToStats
        /\ "http" \in stats \/ \E r \in Runs : Alive(r)
    BY <1>3, StatsSteps
  <2>2. Sweeper
    BY <1>0, <2>1, TracerSweeps DEF ProxyInv
  <2>3. Debtor(ToStats) => Debtor(ToStats)'
    BY <2>1, DebtorStays DEF Owable
  <2> QED
    BY <2>1, <2>2, <2>3 DEF Sweeper
<1> QED
  BY <1>1, <1>2, <1>3 DEF ProxyInv

\* "so `down` returns only once port is free" (teardown.go:21): runs that follow
\* one another in good order leave no proxy and no snapshot of one behind, even
\* when two teardowns are at work on the same run.
THEOREM ProxyEnded == Spec => []ProxyIsGone
<1> DEFINE Inv == LifecycleInv /\ Alone /\ ProxyInv
<1>1. Init => Inv
  BY TypesInit DEF Init, LifecycleInv, LeftIsOver, Owed, Alone, Active, ProxyInv, Alive, Procs
<1>2. Inv /\ [Next]_vars => Inv'
  BY TypesStep, OverStep, OwedStep, AloneStep, ProxyStep DEF LifecycleInv
<1>3. Inv => ProxyIsGone
  BY NobodyOwes
     DEF ProxyInv, ProxyIsGone, Traced, Sweeper, Debtor, Reverted, AtRest, Active, Procs,
         Owable, ToStats
<1> QED
  BY <1>1, <1>2, <1>3, PTL DEF Spec
================================================================================
