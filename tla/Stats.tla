--------------------------------- MODULE Stats ---------------------------------
(***************************************************************************)
(* What `goslow status` and `goslow top` know (stats.go): the snapshot each *)
(* engine writes to a file of its own once a second (statsWriter of         *)
(* tcpproxy.go, snapshot_loop of ratelimit.py), which another process reads *)
(* and believes while it is less than StaleAfter old.                       *)
(*                                                                          *)
(* Of a frame only its time and the pacer's gauges are kept; they are sets  *)
(* of connections here and their sizes in the code.  statsWriter loads them *)
(* one after the other while connections move on; snapshot_loop does not    *)
(* await, so its frame is of one moment.  The clock is not stepped.         *)
(***************************************************************************)
EXTENDS Integers, SequencesExt

CONSTANTS Conns,       \* the connections made to the pacer
          Period,      \* the shortest sleep of snapshot_loop, STATS_EVERY
          Nap,         \* bound: the longest sleep of a writer
          Flush,       \* bound: the longest flush
          StaleAfter   \* staleAfter

\* A flush and the sleeps around it fit into StaleAfter: what the reader counts
\* on, and a host that starves its writers does not give.
ASSUME StatsAssumption ==
  /\ Period \in Nat /\ Nap \in Nat /\ Flush \in Nat /\ StaleAfter \in Nat
  /\ Period <= Nap /\ Nap + 2 * Flush < StaleAfter

Engines == {"http", "tcp"}

VARIABLES stage,   \* where handleTCP is with each connection
          alive,   \* the engines that run
          at,      \* what each writer does next
          timer,   \* how long it has slept, or been flushing
          draft,   \* the frame it is making
          file,    \* what a reader finds under the file's name
          gone,    \* history: how long each engine has not been running
          sound    \* history: the engines whose last flush went through and stands

vars == <<stage, alive, at, timer, draft, file, gone, sound>>

\* A frame by its age and gauges; no file; one that does not parse.
Ages == 0..StaleAfter + 1
Frame == [age : Ages, active : SUBSET Conns, queued : SUBSET Conns]
Now == [age |-> 0, active |-> {}, queued |-> {}]
Absent == [age |-> -1]
Torn == [age |-> -2]

Older(f) == IF f.age \in 0..StaleAfter
            THEN [age |-> f.age + 1, active |-> f.active, queued |-> f.queued]
            ELSE f

Init == /\ stage = [c \in Conns |-> "none"]
        /\ alive = {} /\ sound = {}
        /\ at = [e \in Engines |-> "sleep"]
        /\ timer = [e \in Engines |-> 0]
        /\ draft = [e \in Engines |-> Absent]
        /\ file = [e \in Engines |-> Absent]
        /\ gone = [e \in Engines |-> StaleAfter]
--------------------------------------------------------------------------------
In(s) == {c \in Conns : stage[c] = s}

\* handleTCP, as far as pstats sees it; an end at any stage.
Move(c) == /\ "tcp" \in alive
           /\ \E step \in {<<"none", "queued">>, <<"queued", "dialing">>,
                           <<"dialing", "active">>, <<"dialing", "over">>,
                           <<"active", "over">>} :
                 /\ stage[c] = step[1]
                 /\ stage' = [stage EXCEPT ![c] = step[2]]
           /\ UNCHANGED <<alive, at, timer, draft, file, gone, sound>>

\* The writer of e is started with e: its first flush comes before any sleep.
Start(e) == /\ e \notin alive
            /\ alive' = alive \cup {e}
            /\ at' = [at EXCEPT ![e] = "collect"]
            /\ timer' = [timer EXCEPT ![e] = 0]
            /\ gone' = [gone EXCEPT ![e] = 0]
            /\ sound' = sound \ {e}
            /\ UNCHANGED <<stage, draft, file>>

Goto(e, step) == at' = [at EXCEPT ![e] = step]

\* Mutant of Gauges: the queue is looked at first.
QueueFirst == <<"queued", "active">>

\* The gauges statsWriter loads, in the order of the map it makes of them.
Gauges == <<"active", "queued">>

\* flush: the frame's time is that of its first line.
Collect(e) == /\ e \in alive /\ at[e] = "collect"
              /\ draft' = [draft EXCEPT ![e] = Now]
              /\ Goto(e, IF e = "tcp" THEN Head(Gauges) ELSE "write")
              /\ UNCHANGED <<stage, alive, timer, file, gone, sound>>

Load(g) == /\ at["tcp"] = g
           /\ draft' = [draft EXCEPT !["tcp"][g] = In(g)]
           /\ Goto("tcp", IF g = Last(Gauges) THEN "write" ELSE Last(Gauges))
           /\ UNCHANGED <<stage, alive, timer, file, gone, sound>>

\* Mutant of Write: there is no file of another name.
WriteInPlace(e) == /\ at[e] = "write"
                   /\ file' = [file EXCEPT ![e] = Torn]
                   /\ Goto(e, "rename")
                   /\ UNCHANGED <<stage, alive, timer, draft, gone, sound>>

\* The frame goes to a file of another name.
Write(e) == /\ at[e] = "write"
            /\ Goto(e, "rename")
            /\ UNCHANGED <<stage, alive, timer, draft, file, gone, sound>>

\* Mutant of Rest: the frame is left to be flushed again.
RestWithDraft(e) == /\ timer' = [timer EXCEPT ![e] = 0]
                    /\ Goto(e, "sleep")
                    /\ UNCHANGED <<stage, alive, draft, gone>>

\* The flush is over and the writer sleeps.
Rest(e) == /\ draft' = [draft EXCEPT ![e] = Absent]
           /\ timer' = [timer EXCEPT ![e] = 0]
           /\ Goto(e, "sleep")
           /\ UNCHANGED <<stage, alive, gone>>

\* It takes the place of the file in one step.
Rename(e) == /\ at[e] = "rename"
             /\ file' = [file EXCEPT ![e] = draft[e]]
             /\ sound' = sound \cup {e}
             /\ Rest(e)

\* A disk that is full, a file of somebody else's: the file stays as it is.
WriteFail(e) == /\ at[e] = "rename"
                /\ sound' = sound \ {e}
                /\ Rest(e)
                /\ UNCHANGED file

\* asyncio.sleep returns; a tick of statsWriter's may come right after a slow
\* flush.
Wake(e) == /\ e \in alive /\ at[e] = "sleep"
           /\ e = "tcp" \/ timer[e] >= Period
           /\ timer' = [timer EXCEPT ![e] = 0]
           /\ Goto(e, "collect")
           /\ UNCHANGED <<stage, alive, draft, file, gone, sound>>

\* The engine exits or is killed, whatever it was doing; connections go with
\* the pacer.
Stop(e) == /\ e \in alive
           /\ alive' = alive \ {e}
           /\ Goto(e, "sleep")
           /\ draft' = [draft EXCEPT ![e] = Absent]
           /\ timer' = [timer EXCEPT ![e] = 0]
           /\ stage' = [c \in Conns |-> IF e = "tcp" /\ stage[c] # "none" THEN "over"
                                        ELSE stage[c]]
           /\ sound' = sound \ {e}
           /\ UNCHANGED <<file, gone>>

\* A teardown removes the files: the pacer's own does so while it still runs.
Unlink(e) == /\ file' = [file EXCEPT ![e] = Absent]
             /\ sound' = sound \ {e}
             /\ UNCHANGED <<stage, alive, at, timer, draft, gone>>

\* How long a writer may stay where it is.
Patience(e) == IF at[e] = "sleep" THEN Nap ELSE Flush

\* An instant passes, if no writer is late for it.
Tick == /\ \A e \in alive : timer[e] < Patience(e)
        /\ timer' = [e \in Engines |-> IF e \in alive THEN timer[e] + 1 ELSE 0]
        /\ draft' = [e \in Engines |-> Older(draft[e])]
        /\ file' = [e \in Engines |-> Older(file[e])]
        /\ gone' = [e \in Engines |-> IF e \in alive \/ gone[e] = StaleAfter THEN gone[e]
                                      ELSE gone[e] + 1]
        /\ UNCHANGED <<stage, alive, at, sound>>

Writer(e) == Collect(e) \/ Write(e) \/ Rename(e) \/ WriteFail(e) \/ Wake(e)

Next == \/ Tick \/ \E c \in Conns : Move(c)
        \/ Load("active") \/ Load("queued")
        \/ \E e \in Engines : Start(e) \/ Writer(e) \/ Stop(e) \/ Unlink(e)

Spec == Init /\ [][Next]_vars
--------------------------------------------------------------------------------
\* Mutant of Fresh: a frame is believed whatever its age.
FreshForEver(e) == file[e].age >= 0

\* readSnap of the file of e: it is there, it parses and it is recent.
Fresh(e) == file[e].age >= 0 /\ file[e].age < StaleAfter

\* The engines a reader says are running; none of them, and `goslow status`
\* says that goslow is not.
Shown == {e \in Engines : Fresh(e)}
--------------------------------------------------------------------------------
\* A writer holds a frame while it flushes one, only engines that run write, and
\* what is under a file's name is a frame, nothing, or half of one.
StatsTypeOK ==
  /\ stage \in [Conns -> {"none", "queued", "dialing", "active", "over"}]
  /\ alive \subseteq Engines /\ sound \subseteq alive
  /\ at \in [Engines -> {"sleep", "collect", "active", "queued", "write", "rename"}]
  /\ timer \in [Engines -> 0..Nap + Flush]
  /\ draft \in [Engines -> Frame \cup {Absent}]
  /\ \A e \in Engines : draft[e] = Absent <=> at[e] \in {"sleep", "collect"}
  /\ file \in [Engines -> Frame \cup {Absent, Torn}]
  /\ gone \in [Engines -> 0..StaleAfter]

\* "Absent/stale => the reader treats the pacer as not running"
\* (tcpproxy.go:239-240): an engine that has crashed, and left its last frame
\* behind, is shown for less than StaleAfter; nor does a frame it was still
\* making when it went appear afterwards.
ShownIsAlive == \A e \in Shown : gone[e] < StaleAfter

\* "the file exists the instant the pacer is up", "never reads a half-written
\* frame" (tcpproxy.go:296, :239): an engine whose last flush went through is
\* shown as running without a gap until a flush fails or somebody removes its
\* file, at whatever moment the reader looks.
AliveIsShown == sound \subseteq Shown

\* The queue and the active connections of a frame are loaded one after the
\* other without a lock: a connection that is dialed in between may be missing
\* from both, but is never in both, so they add up to connections there were.
CountedOnce == file["tcp"].age >= 0 => file["tcp"].active \cap file["tcp"].queued = {}
================================================================================
