----------------------------- MODULE StatsProofs -----------------------------
(* What holds of the snapshots for any number of connections, any sleeps and *)
(* flushes, and any crash: a reader is not told for long of an engine that   *)
(* is gone, is told of one that runs, and counts no connection twice.        *)
EXTENDS Stats, TLAPS

Working == {"active", "queued", "write", "rename"}

\* Only an engine that runs has a writer under way.
Resting == \A e \in Engines : e \notin alive => at[e] = "sleep"

\* A frame is no older than the flush that makes it, and the file than the
\* last crash.
Ageing == \A e \in Engines :
            /\ e \in alive => gone[e] = 0
            /\ file[e].age >= 0 => gone[e] <= file[e].age

\* How old the frame and the file of an engine can be at each of its steps.
Punctual == \A e \in Engines :
              /\ timer[e] <= Patience(e)
              /\ at[e] \in Working => draft[e].age <= timer[e]
              /\ e \in sound => file[e].age >= 0
              /\ e \in sound /\ at[e] = "sleep" => file[e].age <= Flush + timer[e]
              /\ e \in sound /\ at[e] # "sleep" => file[e].age <= Flush + Nap + timer[e]

\* A connection that was loaded as active is never queued again.
Counted ==
  /\ at["tcp"] = "queued" =>
       \A c \in draft["tcp"].active : stage[c] \in {"active", "over"}
  /\ at["tcp"] \in {"write", "rename"} => draft["tcp"].active \cap draft["tcp"].queued = {}
  /\ CountedOnce

IInv == StatsTypeOK /\ Resting /\ Ageing /\ Punctual /\ Counted
--------------------------------------------------------------------------------
LEMMA Loads == /\ Head(Gauges) = "active" /\ Last(Gauges) = "queued"
  BY DEF Gauges, Last

\* What ageing does to a frame, and to what is none.
LEMMA OlderAge ==
  ASSUME NEW f \in Frame \cup {Absent, Torn}
  PROVE  /\ f \in Frame => Older(f) \in Frame /\ Older(f).active = f.active
                           /\ Older(f).queued = f.queued
         /\ f \notin Frame => Older(f) = f /\ f.age < 0
         /\ f.age \in -2..StaleAfter + 1
         /\ Older(f).age = IF f.age \in 0..StaleAfter THEN f.age + 1 ELSE f.age
  BY StatsAssumption DEF Frame, Absent, Torn, Older, Ages

LEMMA NowFrame == Now \in Frame /\ Now # Absent /\ Absent \notin Frame
  BY StatsAssumption DEF Now, Frame, Absent, Ages

LEMMA Start0 == Init => IInv
<1> SUFFICES ASSUME Init PROVE IInv
  OBVIOUS
<1>1. StatsTypeOK
  BY StatsAssumption DEF Init, StatsTypeOK
<1>2. Resting /\ Ageing /\ Punctual
  BY StatsAssumption DEF Init, Resting, Ageing, Punctual, Patience, Working, Absent
<1>3. Counted
  BY DEF Init, Counted, CountedOnce, Engines, Absent
<1>4. QED
  BY <1>1, <1>2, <1>3 DEF IInv

LEMMA MoveKeeps == ASSUME NEW c \in Conns, IInv, Move(c) PROVE IInv'
<1>1. StatsTypeOK'
  BY StatsAssumption, NowFrame, Loads DEF Move, IInv, StatsTypeOK, Resting
<1>2. Resting' /\ Ageing'
  BY <1>1, StatsAssumption, NowFrame, Loads DEF Move, IInv, StatsTypeOK, Resting, Ageing
<1>3. Punctual'
  BY <1>1, StatsAssumption, NowFrame, Loads
     DEF Move, IInv, StatsTypeOK, Resting, Punctual, Patience, Working
<1>4. Counted'
  BY <1>1, StatsAssumption, NowFrame, Loads
     DEF Move, IInv, StatsTypeOK, Resting, Counted, CountedOnce, Engines
<1>5. QED
  BY <1>1, <1>2, <1>3, <1>4 DEF IInv

LEMMA StartKeeps == ASSUME NEW e \in Engines, IInv, Start(e) PROVE IInv'
<1>1. StatsTypeOK'
  BY StatsAssumption, NowFrame, Loads DEF Start, IInv, StatsTypeOK, Resting
<1>2. Resting' /\ Ageing'
  BY <1>1, StatsAssumption, NowFrame, Loads DEF Start, IInv, StatsTypeOK, Resting, Ageing
<1>3. Punctual'
  BY <1>1, StatsAssumption, NowFrame, Loads
     DEF Start, IInv, StatsTypeOK, Resting, Punctual, Patience, Working
<1>4. Counted'
  BY <1>1, StatsAssumption, NowFrame, Loads
     DEF Start, IInv, StatsTypeOK, Resting, Counted, CountedOnce, Engines
<1>5. QED
  BY <1>1, <1>2, <1>3, <1>4 DEF IInv

LEMMA CollectKeeps == ASSUME NEW e \in Engines, IInv, Collect(e) PROVE IInv'
<1>1. StatsTypeOK'
  BY StatsAssumption, NowFrame, Loads DEF Collect, Goto, Now, IInv, StatsTypeOK, Resting
<1>2. Resting' /\ Ageing'
  BY <1>1, StatsAssumption, NowFrame, Loads
     DEF Collect, Goto, Now, IInv, StatsTypeOK, Resting, Ageing
<1>3. Punctual'
  BY <1>1, StatsAssumption, NowFrame, Loads
     DEF Collect, Goto, Now, IInv, StatsTypeOK, Resting, Punctual, Patience, Working
<1>4. Counted'
  BY <1>1, StatsAssumption, NowFrame, Loads
     DEF Collect, Goto, Now, IInv, StatsTypeOK, Resting, Counted, CountedOnce, Engines
<1>5. QED
  BY <1>1, <1>2, <1>3, <1>4 DEF IInv

LEMMA WriteKeeps == ASSUME NEW e \in Engines, IInv, Write(e) PROVE IInv'
<1>1. StatsTypeOK'
  BY StatsAssumption, NowFrame, Loads DEF Write, Goto, IInv, StatsTypeOK, Resting
<1>2. Resting' /\ Ageing'
  BY <1>1, StatsAssumption, NowFrame, Loads
     DEF Write, Goto, IInv, StatsTypeOK, Resting, Ageing
<1>3. Punctual'
  BY <1>1, StatsAssumption, NowFrame, Loads
     DEF Write, Goto, IInv, StatsTypeOK, Resting, Punctual, Patience, Working
<1>4. Counted'
  BY <1>1, StatsAssumption, NowFrame, Loads
     DEF Write, Goto, IInv, StatsTypeOK, Resting, Counted, CountedOnce, Engines
<1>5. QED
  BY <1>1, <1>2, <1>3, <1>4 DEF IInv

LEMMA RenameKeeps == ASSUME NEW e \in Engines, IInv, Rename(e) PROVE IInv'
<1>1. StatsTypeOK'
  BY StatsAssumption, NowFrame, Loads
     DEF Rename, Rest, Goto, Absent, Frame, Ages, IInv, StatsTypeOK, Resting
<1>2. Resting' /\ Ageing'
  BY <1>1, StatsAssumption, NowFrame, Loads
     DEF Rename, Rest, Goto, Absent, Frame, Ages, IInv, StatsTypeOK, Resting, Ageing
<1>3. Punctual'
  BY <1>1, StatsAssumption, NowFrame, Loads
     DEF Rename, Rest, Goto, Absent, Frame, Ages, IInv, StatsTypeOK, Resting, Punctual,
         Patience, Working
<1>4. Counted'
  BY <1>1, StatsAssumption, NowFrame, Loads
     DEF Rename, Rest, Goto, Absent, Frame, Ages, IInv, StatsTypeOK, Resting, Counted,
         CountedOnce, Engines
<1>5. QED
  BY <1>1, <1>2, <1>3, <1>4 DEF IInv

LEMMA FailKeeps == ASSUME NEW e \in Engines, IInv, WriteFail(e) PROVE IInv'
<1>1. StatsTypeOK'
  BY StatsAssumption, NowFrame, Loads
     DEF WriteFail, Rest, Goto, Absent, IInv, StatsTypeOK, Resting
<1>2. Resting' /\ Ageing'
  BY <1>1, StatsAssumption, NowFrame, Loads
     DEF WriteFail, Rest, Goto, Absent, IInv, StatsTypeOK, Resting, Ageing
<1>3. Punctual'
  BY <1>1, StatsAssumption, NowFrame, Loads
     DEF WriteFail, Rest, Goto, Absent, IInv, StatsTypeOK, Resting, Punctual, Patience,
         Working
<1>4. Counted'
  BY <1>1, StatsAssumption, NowFrame, Loads
     DEF WriteFail, Rest, Goto, Absent, IInv, StatsTypeOK, Resting, Counted, CountedOnce,
         Engines
<1>5. QED
  BY <1>1, <1>2, <1>3, <1>4 DEF IInv

LEMMA WakeKeeps == ASSUME NEW e \in Engines, IInv, Wake(e) PROVE IInv'
<1>1. StatsTypeOK'
  BY StatsAssumption, NowFrame, Loads DEF Wake, Goto, IInv, StatsTypeOK, Resting
<1>2. Resting' /\ Ageing'
  BY <1>1, StatsAssumption, NowFrame, Loads
     DEF Wake, Goto, IInv, StatsTypeOK, Resting, Ageing
<1>3. Punctual'
  BY <1>1, StatsAssumption, NowFrame, Loads
     DEF Wake, Goto, Frame, Ages, Absent, Torn, IInv, StatsTypeOK, Resting, Punctual,
         Patience, Working
<1>4. Counted'
  BY <1>1, StatsAssumption, NowFrame, Loads
     DEF Wake, Goto, IInv, StatsTypeOK, Resting, Counted, CountedOnce, Engines
<1>5. QED
  BY <1>1, <1>2, <1>3, <1>4 DEF IInv

LEMMA StopKeeps == ASSUME NEW e \in Engines, IInv, Stop(e) PROVE IInv'
<1>1. StatsTypeOK'
  BY StatsAssumption, NowFrame, Loads DEF Stop, Goto, Absent, IInv, StatsTypeOK, Resting
<1>2. Resting' /\ Ageing'
  BY <1>1, StatsAssumption, NowFrame, Loads
     DEF Stop, Goto, Absent, IInv, StatsTypeOK, Resting, Ageing
<1>3. Punctual'
  BY <1>1, StatsAssumption, NowFrame, Loads
     DEF Stop, Goto, Absent, IInv, StatsTypeOK, Resting, Punctual, Patience, Working
<1>4. Counted'
  BY <1>1, StatsAssumption, NowFrame, Loads
     DEF Stop, Goto, Absent, IInv, StatsTypeOK, Resting, Counted, CountedOnce, Engines
<1>5. QED
  BY <1>1, <1>2, <1>3, <1>4 DEF IInv

LEMMA UnlinkKeeps == ASSUME NEW e \in Engines, IInv, Unlink(e) PROVE IInv'
<1>1. StatsTypeOK'
  BY StatsAssumption, NowFrame, Loads DEF Unlink, Absent, IInv, StatsTypeOK, Resting
<1>2. Resting' /\ Ageing'
  BY <1>1, StatsAssumption, NowFrame, Loads
     DEF Unlink, Absent, IInv, StatsTypeOK, Resting, Ageing
<1>3. Punctual'
  BY <1>1, StatsAssumption, NowFrame, Loads
     DEF Unlink, Absent, IInv, StatsTypeOK, Resting, Punctual, Patience, Working
<1>4. Counted'
  BY <1>1, StatsAssumption, NowFrame, Loads
     DEF Unlink, Absent, IInv, StatsTypeOK, Resting, Counted, CountedOnce, Engines
<1>5. QED
  BY <1>1, <1>2, <1>3, <1>4 DEF IInv

LEMMA LoadActiveKeeps == ASSUME IInv, Load("active") PROVE IInv'
<1>1. StatsTypeOK'
  BY StatsAssumption, NowFrame, Loads
     DEF Load, In, Goto, Frame, Ages, Absent, IInv, StatsTypeOK, Resting
<1>2. Resting' /\ Ageing'
  BY <1>1, StatsAssumption, NowFrame, Loads
     DEF Load, In, Goto, Frame, Ages, Absent, IInv, StatsTypeOK, Resting, Ageing
<1>3. Punctual'
  BY <1>1, StatsAssumption, NowFrame, Loads
     DEF Load, In, Goto, Frame, Ages, Absent, IInv, StatsTypeOK, Resting, Punctual,
         Patience, Working
<1>4. Counted'
  BY <1>1, StatsAssumption, NowFrame, Loads
     DEF Load, In, Goto, Frame, Ages, Absent, IInv, StatsTypeOK, Resting, Counted,
         CountedOnce, Engines
<1>5. QED
  BY <1>1, <1>2, <1>3, <1>4 DEF IInv

LEMMA LoadQueuedKeeps == ASSUME IInv, Load("queued") PROVE IInv'
<1>1. StatsTypeOK'
  BY StatsAssumption, NowFrame, Loads
     DEF Load, In, Goto, Frame, Ages, Absent, IInv, StatsTypeOK, Resting
<1>2. Resting' /\ Ageing'
  BY <1>1, StatsAssumption, NowFrame, Loads
     DEF Load, In, Goto, Frame, Ages, Absent, IInv, StatsTypeOK, Resting, Ageing
<1>3. Punctual'
  BY <1>1, StatsAssumption, NowFrame, Loads
     DEF Load, In, Goto, Frame, Ages, Absent, IInv, StatsTypeOK, Resting, Punctual,
         Patience, Working
<1>4. Counted'
  BY <1>1, StatsAssumption, NowFrame, Loads
     DEF Load, In, Goto, Frame, Ages, Absent, IInv, StatsTypeOK, Resting, Counted,
         CountedOnce, Engines
<1>5. QED
  BY <1>1, <1>2, <1>3, <1>4 DEF IInv

\* The instant that passes: the ages of the files and frames grow by one each.
LEMMA TickKeeps == ASSUME IInv, Tick PROVE IInv'
<1> DEFINE Is(f, g) == /\ f \in Frame => g \in Frame /\ g.active = f.active /\ g.queued = f.queued
                       /\ f \notin Frame => g = f /\ f.age < 0
                       /\ f.age \in -2..StaleAfter + 1
                       /\ g.age = IF f.age \in 0..StaleAfter THEN f.age + 1 ELSE f.age
<1>1. \A e \in Engines : Is(file[e], file'[e])
  BY OlderAge DEF IInv, StatsTypeOK, Tick
<1>2. \A e \in Engines : Is(draft[e], draft'[e])
  BY OlderAge DEF IInv, StatsTypeOK, Tick
<1>3. \A e \in alive : timer[e] < Patience(e)
  BY DEF Tick
<1>4. StatsTypeOK'
  <2>1. timer' \in [Engines -> 0..Nap + Flush]
    BY <1>3, StatsAssumption DEF Tick, Patience, IInv, StatsTypeOK
  <2>2. /\ file' \in [Engines -> Frame \cup {Absent, Torn}]
        /\ draft' \in [Engines -> Frame \cup {Absent}]
        /\ \A e \in Engines : draft'[e] = Absent <=> at'[e] \in {"sleep", "collect"}
    BY <1>1, <1>2, NowFrame DEF Tick, IInv, StatsTypeOK
  <2>3. gone' \in [Engines -> 0..StaleAfter]
    BY StatsAssumption DEF Tick, IInv, StatsTypeOK
  <2>4. QED
    BY <2>1, <2>2, <2>3 DEF Tick, IInv, StatsTypeOK
<1>5. Resting' /\ Ageing'
  BY <1>1, StatsAssumption DEF Tick, IInv, StatsTypeOK, Resting, Ageing
<1>6. Punctual'
  BY <1>1, <1>2, <1>3, StatsAssumption
     DEF Tick, IInv, StatsTypeOK, Resting, Punctual, Patience, Working
<1>7. Counted'
  BY <1>1, <1>2, NowFrame DEF Tick, IInv, StatsTypeOK, Counted, CountedOnce, Engines
<1>8. QED
  BY <1>4, <1>5, <1>6, <1>7 DEF IInv
--------------------------------------------------------------------------------
LEMMA Inductive == IInv /\ [Next]_vars => IInv'
<1> SUFFICES ASSUME IInv, [Next]_vars PROVE IInv'
  OBVIOUS
<1>1. CASE UNCHANGED vars
  BY <1>1 DEF vars, IInv, StatsTypeOK, Resting, Ageing, Punctual, Patience, Working,
              Counted, CountedOnce
<1>2. CASE Next
  BY <1>2, TickKeeps, MoveKeeps, LoadActiveKeeps, LoadQueuedKeeps, StartKeeps, CollectKeeps,
     WriteKeeps, RenameKeeps, FailKeeps, WakeKeeps, StopKeeps, UnlinkKeeps
     DEF Next, Writer
<1>3. QED
  BY <1>1, <1>2

LEMMA Always == Spec => []IInv
  BY Start0, Inductive, PTL DEF Spec

\* The types of stats.go's model, for any number of connections: a frame is made
\* only by an engine that runs and only while it flushes.
THEOREM StatsTypes == Spec => []StatsTypeOK
  BY Always, PTL DEF IInv

\* An engine that crashed is shown for less than StaleAfter (readSnap), whatever
\* it was doing and however often it came back.
THEOREM GhostsAreBrief == Spec => []ShownIsAlive
<1>1. IInv => ShownIsAlive
  BY StatsAssumption DEF IInv, StatsTypeOK, Ageing, ShownIsAlive, Shown, Fresh,
                         Frame, Ages, Absent, Torn
<1>2. QED
  BY Always, <1>1, PTL

\* While a sleep and two flushes fit into staleAfter, a reader finds no gap
\* between the frames of an engine whose flushes go through.
THEOREM NoGapBetweenFrames == Spec => []AliveIsShown
<1>1. IInv => AliveIsShown
  BY StatsAssumption DEF IInv, StatsTypeOK, Punctual, Patience, AliveIsShown, Shown, Fresh,
                         Frame, Ages, Absent, Torn
<1>2. QED
  BY Always, <1>1, PTL

\* Loading active before waiting (statsWriter) is enough for no connection to
\* be in both gauges of a frame, for any number of connections.
THEOREM GaugesAreDisjoint == Spec => []CountedOnce
  BY Always, PTL DEF IInv, Counted
================================================================================
