----------------------------- MODULE PacerProofs -----------------------------
(* What holds of the pacer's connections for any number of them, any rate and *)
(* any payload: types, payment, the counters, and that nothing is cut off.    *)
EXTENDS Pacer, PacerBucketProofs, FiniteSetTheorems

\* What holds of one connection: how far the pumps have come, what they may
\* have delivered, and the token in hand.
Sane(r) ==
  /\ r.stage # "spliced" => r.up = "read"
  /\ r.got <= r.read /\ r.read <= r.asked /\ r.seen <= r.taken /\ r.taken <= r.reply
  /\ r.up = "read" => r.got = r.read
  /\ r.down = "read" => r.seen = r.taken
  /\ r.credit = IF r.stage = "dialing" \/ r.up = "write" THEN 1 ELSE 0
  /\ r.client # "gone" /\ r.server # "gone" =>
       /\ r.up = "done" => r.client = "fin" /\ r.got = r.asked
       /\ r.down = "done" => r.server = "fin" /\ r.seen = r.reply

Queued == {c \in Callers : At(c, "queued")}
Spliced == {c \in Callers : At(c, "spliced")}
Paying == {c \in Callers : At(c, "queued") \/ conn[c].up = "pay"}

PInv == /\ BucketTypeOK
        /\ conn \in [Callers -> Conn]
        /\ \A c \in Callers : Sane(conn[c])
        /\ CountersTrue
--------------------------------------------------------------------------------
\* The actions of one connection, by what they do to it.
LEMMA FreshSane == Fresh \in Conn /\ Sane(Fresh)
  BY PacerAssumption DEF Fresh, Conn, Sane, Peer

LEMMA SetUpSane ==
  ASSUME PInv, NEW c \in Callers, Accept(c) \/ Leave(c) \/ Dial(c) \/ Finish(c)
  PROVE  /\ conn' = [conn EXCEPT ![c] = conn'[c]]
         /\ conn'[c] \in Conn /\ Sane(conn'[c])
<1>1. conn \in [Callers -> Conn] /\ Sane(conn[c])
  BY DEF PInv
<1>2. CASE Accept(c)
  BY <1>1, <1>2 DEF Accept, At, Sane, Conn
<1>3. CASE Leave(c)
  BY <1>1, <1>3 DEF Leave, At, Sane, Conn
<1>4. CASE DialOk(c)
  BY <1>1, <1>4 DEF DialOk, At, Sane, Conn
<1>5. CASE DialFail(c) \/ Finish(c)
  BY <1>1, <1>5, FreshSane DEF DialFail, Finish
<1>6. QED
  BY <1>2, <1>3, <1>4, <1>5 DEF Dial

LEMMA UpSane ==
  ASSUME PInv, NEW c \in Callers, UpTake(c) \/ UpPaid(c) \/ UpWrite(c) \/ UpBreak(c) \/ UpEnd(c)
  PROVE  /\ conn' = [conn EXCEPT ![c] = conn'[c]]
         /\ conn'[c] \in Conn /\ Sane(conn'[c])
<1>1. conn \in [Callers -> Conn] /\ conn[c] \in Conn /\ Sane(conn[c])
  BY DEF PInv
<1>2. CASE UpTake(c)
  <2>1. PICK n \in conn[c].read + 1 .. conn[c].asked :
           conn' = [conn EXCEPT ![c].read = n, ![c].up = "pay"]
    BY <1>2 DEF UpTake
  <2>2. n \in 0..MaxAsked /\ n <= conn[c].asked /\ conn[c].read <= n
    BY <1>1, <2>1, PacerAssumption DEF Conn
  <2>3. QED
    BY <1>1, <1>2, <2>1, <2>2, PacerAssumption DEF UpTake, At, Sane, Conn
<1>3. CASE UpPaid(c)
  BY <1>1, <1>3, PacerAssumption DEF UpPaid, At, Sane, Conn, Peer
<1>4. CASE UpWrite(c)
  BY <1>1, <1>4, PacerAssumption DEF UpWrite, At, Sane, Conn, Peer
<1>5. CASE UpBreak(c)
  BY <1>1, <1>5, PacerAssumption DEF UpBreak, At, Sane, Conn, Peer
<1>6. CASE UpEnd(c)
  BY <1>1, <1>6, PacerAssumption DEF UpEnd, At, Sane, Conn, Peer, ClientEnded
<1>7. QED
  BY <1>2, <1>3, <1>4, <1>5, <1>6

LEMMA DownSane ==
  ASSUME PInv, NEW c \in Callers, DownTake(c) \/ DownWrite(c) \/ DownBreak(c) \/ DownEnd(c)
  PROVE  /\ conn' = [conn EXCEPT ![c] = conn'[c]]
         /\ conn'[c] \in Conn /\ Sane(conn'[c])
<1>1. conn \in [Callers -> Conn] /\ conn[c] \in Conn /\ Sane(conn[c])
  BY DEF PInv
<1>2. CASE DownTake(c)
  <2>1. PICK n \in conn[c].taken + 1 .. conn[c].reply :
           conn' = [conn EXCEPT ![c].taken = n, ![c].down = "write"]
    BY <1>2 DEF DownTake
  <2>2. n \in 0..MaxReplies /\ n <= conn[c].reply /\ conn[c].taken <= n
    BY <1>1, <2>1, PacerAssumption DEF Conn
  <2>3. QED
    BY <1>1, <1>2, <2>1, <2>2, PacerAssumption DEF DownTake, At, Sane, Conn
<1>3. CASE DownWrite(c)
  <2>1. conn[c].down = "write" /\ conn[c].seen <= conn[c].taken /\ conn[c].taken <= conn[c].reply
    BY <1>1, <1>3 DEF DownWrite, Sane
  <2>2. conn' = [conn EXCEPT ![c] = [conn[c] EXCEPT !.down = "read", !.seen = conn[c].taken]]
    BY <1>1, <1>3 DEF DownWrite, Conn
  <2>3. conn'[c] = [conn[c] EXCEPT !.down = "read", !.seen = conn[c].taken]
    BY <1>1, <2>2
  <2>4. conn'[c] \in Conn
    BY <1>1, <2>3, PacerAssumption DEF Conn
  <2>5. Sane(conn'[c])
    BY <1>1, <2>1, <2>3, PacerAssumption DEF Sane, Conn, Peer
  <2>6. QED
    BY <2>2, <2>3, <2>4, <2>5
<1>4. CASE DownBreak(c)
  BY <1>1, <1>4, PacerAssumption DEF DownBreak, At, Sane, Conn, Peer
<1>5. CASE DownEnd(c)
  BY <1>1, <1>5, PacerAssumption DEF DownEnd, At, Sane, Conn, Peer, ServerEnded
<1>6. QED
  BY <1>2, <1>3, <1>4, <1>5

LEMMA PeersSane ==
  ASSUME PInv, NEW c \in Callers, ClientSend(c) \/ ClientEnd(c) \/ ServerSend(c) \/ ServerEnd(c)
  PROVE  /\ conn' = [conn EXCEPT ![c] = conn'[c]]
         /\ conn'[c] \in Conn /\ Sane(conn'[c])
<1>1. conn \in [Callers -> Conn] /\ conn[c] \in Conn /\ Sane(conn[c])
  BY DEF PInv
<1>2. CASE ClientSend(c)
  BY <1>1, <1>2, PacerAssumption DEF ClientSend, At, Sane, Conn, Peer
<1>3. CASE ClientEnd(c)
  BY <1>1, <1>3, PacerAssumption DEF ClientEnd, At, Sane, Conn, Peer
<1>4. CASE ServerSend(c)
  BY <1>1, <1>4, PacerAssumption DEF ServerSend, At, Sane, Conn, Peer
<1>5. CASE ServerEnd(c)
  BY <1>1, <1>5, PacerAssumption DEF ServerEnd, At, Sane, Conn, Peer
<1>6. QED
  BY <1>2, <1>3, <1>4, <1>5
--------------------------------------------------------------------------------
LEMMA SameSet ==
  ASSUME NEW S, NEW x
  PROVE  (x \notin S => S \ {x} = S) /\ (x \in S => S \cup {x} = S)
  OBVIOUS

\* The three sets the counters count, after a step of c.
LEMMA SetsAfter ==
  ASSUME PInv, NEW c \in Callers, conn' = [conn EXCEPT ![c] = conn'[c]]
  PROVE  /\ Queued' = IF conn'[c].stage = "queued" THEN Queued \cup {c} ELSE Queued \ {c}
         /\ Spliced' = IF conn'[c].stage = "spliced" THEN Spliced \cup {c} ELSE Spliced \ {c}
         /\ Paying' = IF conn'[c].stage = "queued" \/ conn'[c].up = "pay"
                      THEN Paying \cup {c} ELSE Paying \ {c}
<1>1. \A d \in Callers : d # c => conn'[d] = conn[d]
  BY DEF PInv
<1>2. QED
  BY <1>1 DEF Queued, Spliced, Paying, At

LEMMA Counts ==
  /\ IsFiniteSet(Queued) /\ Cardinality(Queued) \in 0..Cardinality(Callers)
  /\ IsFiniteSet(Spliced) /\ Cardinality(Spliced) \in 0..Cardinality(Callers)
<1>1. /\ IsFiniteSet(Callers) /\ Queued \in SUBSET Callers /\ Spliced \in SUBSET Callers
  BY PacerAssumption DEF Queued, Spliced
<1>2. /\ IsFiniteSet(Queued) /\ Cardinality(Queued) <= Cardinality(Callers)
      /\ IsFiniteSet(Spliced) /\ Cardinality(Spliced) <= Cardinality(Callers)
  BY <1>1, FS_Subset
<1>3. QED
  BY <1>1, <1>2, FS_CardinalityType

\* A step of c that leaves c in the sets and the counters where they were.
LEMMA StillCounted ==
  ASSUME PInv, NEW c \in Callers, conn' = [conn EXCEPT ![c] = conn'[c]],
         UNCHANGED <<waiting, active, trying>>, conn'[c].stage = conn[c].stage,
         conn'[c].up = "pay" <=> conn[c].up = "pay"
  PROVE  CountersTrue'
<1>1. Queued' = Queued /\ Spliced' = Spliced /\ Paying' = Paying
  BY SetsAfter DEF Queued, Spliced, Paying, At
<1>2. QED
  BY <1>1 DEF PInv, CountersTrue, Queued, Spliced, Paying

LEMMA CountersKept ==
  ASSUME PInv, NEW c \in Callers, conn' = [conn EXCEPT ![c] = conn'[c]],
         \/ Accept(c) \/ Paced(c) \/ Dial(c) \/ Up(c) \/ DownPump(c) \/ Writes(c)
         \/ Finish(c) \/ Peers(c)
  PROVE  CountersTrue'
<1>1. /\ conn \in [Callers -> Conn] /\ conn[c] \in Conn /\ Sane(conn[c])
      /\ waiting = Cardinality(Queued) /\ active = Cardinality(Spliced)
      /\ trying = Paying
  BY DEF PInv, CountersTrue, Queued, Spliced, Paying
<1>2. SUFFICES /\ waiting' = Cardinality(Queued') /\ active' = Cardinality(Spliced')
               /\ trying' = Paying'
  BY DEF CountersTrue, Queued, Spliced, Paying
<1>3. CASE Accept(c)
  <2>1. /\ conn'[c].stage = "queued" /\ c \notin Queued /\ c \notin Spliced
    BY <1>1, <1>3 DEF Accept, At, Conn, Queued, Spliced
  <2>2. Queued' = Queued \cup {c} /\ Spliced' = Spliced /\ Paying' = Paying \cup {c}
    BY <2>1, SetsAfter, SameSet
  <2>3. QED
    BY <1>1, <1>3, <2>1, <2>2, Counts, FS_AddElement DEF Accept, Call
<1>4. CASE Leave(c)
  <2>1. /\ conn'[c].stage = "dialing" /\ conn'[c].up = "read" /\ c \in Queued /\ c \notin Spliced
    BY <1>1, <1>4 DEF Leave, At, Conn, Sane, Queued, Spliced
  <2>2. Queued' = Queued \ {c} /\ Spliced' = Spliced /\ Paying' = Paying \ {c}
    BY <2>1, SetsAfter, SameSet
  <2>3. QED
    BY <1>1, <1>4, <2>1, <2>2, Counts, FS_RemoveElement DEF Leave, Grant
<1>5. CASE UpPaid(c)
  <2>1. /\ conn'[c].stage = "spliced" /\ conn'[c].up = "write" /\ c \notin Queued /\ c \in Spliced
    BY <1>1, <1>5 DEF UpPaid, At, Conn, Sane, Queued, Spliced
  <2>2. Queued' = Queued /\ Spliced' = Spliced /\ Paying' = Paying \ {c}
    <3>1. Queued' = Queued \ {c} /\ Spliced' = Spliced \cup {c} /\ Paying' = Paying \ {c}
      BY <2>1, SetsAfter
    <3>2. QED
      BY <2>1, <3>1, SameSet
  <2>3. QED
    BY <1>1, <1>5, <2>2 DEF UpPaid, Grant
<1>6. CASE UpTake(c)
  <2>1. /\ conn'[c].stage = "spliced" /\ conn'[c].up = "pay" /\ c \notin Queued /\ c \in Spliced
    <3>1. PICK n \in conn[c].read + 1 .. conn[c].asked :
             conn' = [conn EXCEPT ![c].read = n, ![c].up = "pay"]
      BY <1>6 DEF UpTake
    <3>2. conn'[c].up = "pay" /\ conn'[c].stage = conn[c].stage
      BY <1>1, <3>1 DEF Conn
    <3>3. QED
      BY <1>1, <1>6, <3>2 DEF UpTake, At, Queued, Spliced
  <2>2. Queued' = Queued /\ Spliced' = Spliced /\ Paying' = Paying \cup {c}
    BY <2>1, SetsAfter, SameSet
  <2>3. QED
    BY <1>1, <1>6, <2>2 DEF UpTake, Call
<1>7. CASE DialOk(c)
  <2>1. /\ conn'[c].stage = "spliced" /\ conn'[c].up = "read"
        /\ c \notin Queued /\ c \notin Spliced /\ c \notin Paying
    BY <1>1, <1>7 DEF DialOk, At, Conn, Sane, Queued, Spliced, Paying
  <2>2. Queued' = Queued /\ Spliced' = Spliced \cup {c} /\ Paying' = Paying
    BY <2>1, SetsAfter, SameSet
  <2>3. QED
    BY <1>1, <1>7, <2>1, <2>2, Counts, FS_AddElement DEF DialOk, bucketVars
<1>8. CASE DialFail(c)
  <2>1. /\ conn'[c].stage = "none" /\ conn'[c].up = "read"
        /\ c \notin Queued /\ c \notin Spliced /\ c \notin Paying
    BY <1>1, <1>8 DEF DialFail, Fresh, At, Conn, Sane, Queued, Spliced, Paying
  <2>2. Queued' = Queued /\ Spliced' = Spliced /\ Paying' = Paying
    BY <2>1, SetsAfter, SameSet
  <2>3. QED
    BY <1>1, <1>8, <2>2 DEF DialFail, Idle, bucketVars
<1>9. CASE Finish(c)
  <2>1. /\ conn'[c].stage = "none" /\ conn'[c].up = "read"
        /\ c \notin Queued /\ c \in Spliced /\ c \notin Paying
    BY <1>1, <1>9 DEF Finish, Fresh, At, Conn, Sane, Queued, Spliced, Paying
  <2>2. Queued' = Queued /\ Spliced' = Spliced \ {c} /\ Paying' = Paying
    BY <2>1, SetsAfter, SameSet
  <2>3. QED
    BY <1>1, <1>9, <2>1, <2>2, Counts, FS_RemoveElement DEF Finish, bucketVars

<1>10. CASE Wait(c)
  BY <1>1, <1>10 DEF Wait, Doze, Queued, Spliced, Paying, At
<1>11. CASE UpWrite(c) \/ UpBreak(c) \/ UpEnd(c)
  <2>1. /\ conn'[c].stage = conn[c].stage
        /\ conn'[c].up = "pay" <=> conn[c].up = "pay"
        /\ UNCHANGED <<waiting, active, trying>>
    BY <1>1, <1>11 DEF UpWrite, UpBreak, UpEnd, Conn, Idle, bucketVars
  <2>2. QED
    BY <2>1, StillCounted DEF CountersTrue, Queued, Spliced, Paying
<1>12. CASE DownPump(c) \/ DownWrite(c) \/ Peers(c)
  <2>1. /\ conn'[c].stage = conn[c].stage /\ conn'[c].up = conn[c].up
        /\ UNCHANGED <<waiting, active, trying>>
    <3>1. CASE DownTake(c)
      <4>1. PICK n \in conn[c].taken + 1 .. conn[c].reply :
               conn' = [conn EXCEPT ![c].taken = n, ![c].down = "write"]
        BY <3>1 DEF DownTake
      <4>2. QED
        BY <1>1, <3>1, <4>1 DEF DownTake, Conn, Idle, bucketVars
    <3>2. CASE DownWrite(c)
      BY <1>1, <3>2 DEF DownWrite, Conn, Idle, bucketVars
    <3>3. CASE DownBreak(c) \/ DownEnd(c)
      BY <1>1, <3>3 DEF DownBreak, DownEnd, Conn, Idle, bucketVars
    <3>4. CASE Peers(c)
      BY <1>1, <3>4 DEF Peers, ClientSend, ClientEnd, ServerSend, ServerEnd, Conn, Idle, bucketVars
    <3>5. QED
      BY <1>12, <3>1, <3>2, <3>3, <3>4 DEF DownPump
  <2>2. QED
    BY <2>1, StillCounted DEF CountersTrue, Queued, Spliced, Paying
<1>13. QED
  BY <1>3, <1>4, <1>5, <1>6, <1>7, <1>8, <1>9, <1>10, <1>11, <1>12 DEF Paced, Dial, Up, Writes
--------------------------------------------------------------------------------
LEMMA BucketSteps ==
  ASSUME Next PROVE [NextBucket]_bucketVars
  BY DEF Next, Pass, Accept, Paced, Leave, UpPaid, Wait, Dial, DialOk, DialFail, Up, UpTake,
         UpBreak, UpEnd, DownPump, DownTake, DownBreak, DownEnd, Writes, UpWrite, DownWrite,
         Finish, Peers, ClientSend, ClientEnd, ServerSend, ServerEnd, Idle, NextBucket, Acquire

LEMMA PacerInductive == PInv /\ [Next]_vars => PInv'
<1> SUFFICES ASSUME PInv, [Next]_vars PROVE PInv'
  OBVIOUS
<1>1. CASE UNCHANGED vars
  BY <1>1 DEF vars, bucketVars, PInv, BucketTypeOK, Full, CountersTrue, At
<1>2. CASE Next
  <2>1. BucketTypeOK'
    BY <1>2, BucketSteps, BucketTypeStep DEF PInv
  <2>2. CASE Pass
    BY <2>1, <2>2 DEF Pass, Tick, PInv, CountersTrue, At
  <2>3. ASSUME NEW c \in Callers,
               \/ Accept(c) \/ Paced(c) \/ Dial(c) \/ Up(c) \/ DownPump(c) \/ Writes(c)
               \/ Finish(c) \/ Peers(c)
        PROVE  PInv'
    <3>1. /\ conn' = [conn EXCEPT ![c] = conn'[c]]
          /\ conn'[c] \in Conn /\ Sane(conn'[c])
      <4>1. CASE Wait(c)
        BY <4>1 DEF Wait, PInv
      <4>2. QED
        BY <2>3, <4>1, SetUpSane, UpSane, DownSane, PeersSane
           DEF Paced, Up, DownPump, Writes, Peers
    <3>2. CountersTrue'
      BY <2>3, <3>1, CountersKept
    <3>3. /\ conn' \in [Callers -> Conn]
          /\ \A d \in Callers : Sane(conn'[d])
      BY <3>1 DEF PInv
    <3>4. QED
      BY <2>1, <3>2, <3>3 DEF PInv, Sane
  <2>4. QED
    BY <1>2, <2>2, <2>3 DEF Next
<1>3. QED
  BY <1>1, <1>2

LEMMA PacerAlways == Spec => []PInv
<1>1. Init => PInv
  <2> SUFFICES ASSUME Init PROVE PInv
    OBVIOUS
  <2>1. /\ conn \in [Callers -> Conn] /\ \A c \in Callers : conn[c] = Fresh
    BY FreshSane DEF Init
  <2>2. Queued = {} /\ Spliced = {} /\ Paying = {}
    BY <2>1 DEF Queued, Spliced, Paying, At, Fresh
  <2>3. CountersTrue
    BY <2>2, FS_EmptySet DEF Init, InitBucket, CountersTrue, Queued, Spliced, Paying
  <2>4. QED
    BY <2>1, <2>3, FreshSane, BucketTypeInit DEF Init, PInv
<1>2. QED
  BY <1>1, PacerInductive, PTL DEF Spec

\* Types of handleTCP and the pumps; the counters stay in the range of a count.
THEOREM PacerTypes == Spec => []PacerTypeOK
<1>1. PInv => PacerTypeOK
  BY Counts DEF PInv, PacerTypeOK, CountersTrue, Queued, Spliced
<1>2. QED
  BY PacerAlways, <1>1, PTL

\* Whatever the connections do, one that is about to
\* dial or to write upstream has taken exactly one token for it (acquire).
THEOREM EveryWriteIsPaidFor == Spec => []PaidFor
<1>1. PInv => PaidFor
  BY DEF PInv, PaidFor, Sane, At
<1>2. QED
  BY PacerAlways, <1>1, PTL

\* pstats.waiting and pstats.active are the numbers of queued and of spliced
\* connections, on every path out of handleTCP.
THEOREM CountersAreTrue == Spec => []CountersTrue
  BY PacerAlways, PTL DEF PInv

\* "Lossless: nothing dropped": a pump that ended has delivered everything.
THEOREM PumpsLoseNothing == Spec => []Lossless
<1>1. PInv => Lossless
  BY DEF PInv, Lossless, Sane
<1>2. QED
  BY PacerAlways, <1>1, PTL

\* splice closes the sockets only when both directions are complete.
THEOREM SpliceCutsNothingOff == Spec => NothingCutOff
<1>1. PInv /\ [Next]_vars
      => [\A c \in Callers :
            /\ At(c, "spliced") /\ conn'[c].stage = "none"
            /\ conn[c].client # "gone" /\ conn[c].server # "gone"
            => conn[c].got = conn[c].asked /\ conn[c].seen = conn[c].reply]_vars
  <2> SUFFICES ASSUME PInv, Next, NEW c \in Callers, At(c, "spliced"),
                      conn'[c].stage = "none",
                      conn[c].client # "gone", conn[c].server # "gone"
               PROVE  conn[c].got = conn[c].asked /\ conn[c].seen = conn[c].reply
    OBVIOUS
  <2>1. conn \in [Callers -> Conn] /\ conn[c] \in Conn /\ Sane(conn[c])
    BY DEF PInv
  <2>2. PICK d \in Callers : \/ Accept(d) \/ Paced(d) \/ Dial(d) \/ Up(d) \/ DownPump(d)
                             \/ Writes(d) \/ Finish(d) \/ Peers(d)
    BY DEF Next, Pass, Tick, At
  <2>3. d = c
    BY <2>1, <2>2, SetUpSane, UpSane, DownSane, PeersSane
       DEF Paced, Wait, Up, DownPump, Writes, Peers, At, PInv
  <2>4. ~Accept(c) /\ ~Leave(c) /\ ~Dial(c)
    BY DEF Accept, Leave, Dial, DialOk, DialFail, At
  <2>5. ~UpPaid(c) /\ ~Wait(c) /\ ~UpWrite(c) /\ ~UpBreak(c) /\ ~UpEnd(c)
    BY <2>1 DEF UpPaid, Wait, UpWrite, UpBreak, UpEnd, At, Conn
  <2>6. ~UpTake(c)
    BY <2>1 DEF UpTake, At, Conn
  <2>7. ~DownPump(c) /\ ~DownWrite(c)
    BY <2>1 DEF DownPump, DownTake, DownBreak, DownEnd, DownWrite, At, Conn
  <2>8. ~Peers(c)
    BY <2>1 DEF Peers, ClientSend, ClientEnd, ServerSend, ServerEnd, At, Conn
  <2>9. Finish(c)
    BY <2>2, <2>3, <2>4, <2>5, <2>6, <2>7, <2>8 DEF Paced, Up, Writes
  <2>10. QED
    BY <2>1, <2>9 DEF Finish, Sane
<1>2. QED
  BY PacerAlways, <1>1, PTL DEF Spec, NothingCutOff
--------------------------------------------------------------------------------
\* A step of a connection is one of the bucket's or leaves the bucket alone:
\* what is proved of acquire() for any callers holds of handleTCP and pacedCopy.
LEMMA ConnectionStep == [Next]_vars => [NextBucket]_bucketVars
<1> SUFFICES ASSUME [Next]_vars PROVE [NextBucket]_bucketVars
  OBVIOUS
<1>1. ASSUME NEW c \in Callers, Accept(c) \/ UpTake(c) PROVE NextBucket
  BY <1>1 DEF Accept, UpTake, NextBucket
<1>2. ASSUME NEW c \in Callers, Paced(c) PROVE NextBucket
  BY <1>2 DEF Paced, Leave, UpPaid, Wait, Acquire, NextBucket
<1>3. ASSUME NEW c \in Callers,
             \/ Dial(c) \/ UpBreak(c) \/ UpEnd(c) \/ DownPump(c) \/ Writes(c)
             \/ Finish(c) \/ Peers(c)
      PROVE  UNCHANGED bucketVars
  BY <1>3 DEF Dial, DialOk, DialFail, UpBreak, UpEnd, DownPump, DownTake, DownBreak, DownEnd,
              Writes, UpWrite, DownWrite, Finish, Peers, ClientSend, ClientEnd, ServerSend, ServerEnd, Idle
<1>4. CASE Pass \/ UNCHANGED vars
  BY <1>4 DEF Pass, NextBucket, vars
<1>5. QED
  BY <1>1, <1>2, <1>3, <1>4 DEF Next, Up

\* The connections use the bucket as acquire() is meant to be used: the pacer
\* implements its own bucket, whatever the peers do.
THEOREM PacerImplementsBucket == Spec => SpecBucket
<1>1. Init => InitBucket
  BY DEF Init
<1>2. QED
  BY <1>1, ConnectionStep, PTL DEF Spec, SpecBucket

\* No queued connection and no chunk oversleeps a token by more than the
\* one-millisecond floor.
THEOREM PacerNoOversleep == Spec => []NoOversleep
  BY PacerImplementsBucket, BucketNoOversleep, PTL
================================================================================
