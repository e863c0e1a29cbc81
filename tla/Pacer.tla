--------------------------------- MODULE Pacer ---------------------------------
(***************************************************************************)
(* The connections of the TCP pacer (tcpproxy.go): handleTCP, splice and    *)
(* pacedCopy over the shared bucket of PacerBucket.  A connection has three *)
(* goroutines: handleTCP, which acquires, dials and then waits in splice,   *)
(* and the two pumps.  Only one of them is ever inside acquire(), so the    *)
(* callers of the bucket are the connections.                               *)
(*                                                                          *)
(* Payload is counted in writes.  The two peers are the environment: either *)
(* may write, shut its sending side ("fin") or vanish ("gone", closed or    *)
(* reset) at any time, or do nothing for ever: not read what it is sent     *)
(* either, so a pump can be stuck in a write.  What a socket buffer holds   *)
(* of a peer that is gone may still be read, or may be lost.                *)
(***************************************************************************)
EXTENDS PacerBucket, FiniteSets

CONSTANTS Talking,    \* bound: the connections on which the peers write at all
          MaxAsked,   \* bound: writes of a client on one connection
          MaxReplies  \* bound: writes of a server on one connection

ASSUME PacerAssumption ==
  IsFiniteSet(Callers) /\ Talking \subseteq Callers /\ MaxAsked \in Nat /\ MaxReplies \in Nat

VARIABLES conn,       \* the state of each connection, see Conn
          waiting,    \* pstats.waiting
          active      \* pstats.active

vars == <<bucketVars, conn, waiting, active>>

Peer == {"open", "fin", "gone"}

Conn == [stage  : {"none", "queued", "dialing", "spliced"},
         up     : {"read", "pay", "write", "done"},   \* client to server pump
         down   : {"read", "write", "done"},          \* server to client pump
         client : Peer, server : Peer,
         asked  : 0..MaxAsked,      \* writes the client made
         read   : 0..MaxAsked,      \* ... the pump has taken in
         got    : 0..MaxAsked,      \* ... forwarded to the server
         reply  : 0..MaxReplies,    \* writes the server made
         taken  : 0..MaxReplies,    \* ... io.Copy has taken in
         seen   : 0..MaxReplies,    \* ... forwarded to the client
         credit : Int]              \* tokens granted and not used upstream yet

Fresh == [stage |-> "none", up |-> "read", down |-> "read",
          client |-> "open", server |-> "open", asked |-> 0, read |-> 0, got |-> 0,
          reply |-> 0, taken |-> 0, seen |-> 0, credit |-> 0]

Init == /\ InitBucket
        /\ conn = [c \in Callers |-> Fresh]
        /\ waiting = 0 /\ active = 0

At(c, stage) == conn[c].stage = stage
Idle == UNCHANGED <<bucketVars, waiting, active>>
--------------------------------------------------------------------------------
\* handleTCP is started on a redirected connection whose destination is known;
\* without one it closes the client and nothing changes.
Accept(c) == /\ At(c, "none")
             /\ conn' = [conn EXCEPT ![c].stage = "queued"]
             /\ waiting' = waiting + 1
             /\ Call(c)
             /\ UNCHANGED active

\* Mutant of Leave: waiting is not counted down.
LeaveUncounted(c) ==
  /\ At(c, "queued")
  /\ Grant(c)
  /\ conn' = [conn EXCEPT ![c].stage = "dialing", ![c].credit = @ + 1]
  /\ UNCHANGED <<waiting, active>>

\* acquire() returns to handleTCP.
Leave(c) == /\ At(c, "queued")
            /\ Grant(c)
            /\ conn' = [conn EXCEPT ![c].stage = "dialing", ![c].credit = @ + 1]
            /\ waiting' = waiting - 1
            /\ UNCHANGED active

\* The upstream connection is there: both pumps start.
DialOk(c) == /\ At(c, "dialing")
             /\ conn' = [conn EXCEPT ![c].stage = "spliced", ![c].credit = @ - 1]
             /\ active' = active + 1
             /\ UNCHANGED <<bucketVars, waiting>>

\* Refused or timed out: the deferred Close drops the client.
DialFail(c) == /\ At(c, "dialing")
               /\ conn' = [conn EXCEPT ![c] = Fresh]
               /\ Idle

\* Mutant of UpTake: the chunk is written without a token.
UpTakeFree(c) ==
  /\ At(c, "spliced") /\ conn[c].up = "read"
  /\ \E n \in conn[c].read + 1 .. conn[c].asked :
        conn' = [conn EXCEPT ![c].read = n, ![c].up = "write"]
  /\ Idle

\* pacedCopy reads what the client has written so far, in one chunk or in
\* several, and asks for a token for it.
UpTake(c) == /\ At(c, "spliced") /\ conn[c].up = "read"
             /\ \E n \in conn[c].read + 1 .. conn[c].asked :
                   conn' = [conn EXCEPT ![c].read = n, ![c].up = "pay"]
             /\ Call(c)
             /\ UNCHANGED <<waiting, active>>

\* acquire() returns to pacedCopy.
UpPaid(c) == /\ conn[c].up = "pay"
             /\ Grant(c)
             /\ conn' = [conn EXCEPT ![c].up = "write", ![c].credit = @ + 1]
             /\ UNCHANGED <<waiting, active>>

\* Write returns: the server, or its socket buffer, has room for the chunk. A
\* server that does not read need never have, and no deadline is set.
UpWrite(c) == /\ conn[c].up = "write"
              /\ conn' = [conn EXCEPT ![c].up = "read", ![c].got = conn[c].read,
                                      ![c].credit = @ - 1]
              /\ Idle

\* The write fails, at the latest when TCP gives the server up: the pump ends
\* with a chunk in hand.
UpBreak(c) == /\ conn[c].up = "write" /\ conn[c].server = "gone"
              /\ conn' = [conn EXCEPT ![c].up = "done", ![c].credit = @ - 1]
              /\ Idle

\* Mutants of ClientEnded: what was written before the FIN is not waited for,
\* and an error of Read is not an end.
ClientEndedEarly(c) == conn[c].client # "open"
ClientEndedByFin(c) == conn[c].client = "fin" /\ conn[c].read = conn[c].asked

\* Whether the read side of the client is at its end: all was read, or it was
\* reset and what was not read is lost.
ClientEnded(c) == \/ conn[c].client = "fin" /\ conn[c].read = conn[c].asked
                  \/ conn[c].client = "gone"

\* Mutant of UpEnd: the FIN is held back until the other pump is done.
UpEndLate(c) == /\ At(c, "spliced") /\ conn[c].up = "read" /\ conn[c].down = "done"
                /\ ClientEnded(c)
                /\ conn' = [conn EXCEPT ![c].up = "done"]
                /\ Idle

\* End of file or an error from the client: the pump ends, the server is sent
\* a FIN.
UpEnd(c) == /\ At(c, "spliced") /\ conn[c].up = "read"
            /\ ClientEnded(c)
            /\ conn' = [conn EXCEPT ![c].up = "done"]
            /\ Idle

\* io.Copy reads some of what the server has written, ungated, ...
DownTake(c) == /\ At(c, "spliced") /\ conn[c].down = "read"
               /\ \E n \in conn[c].taken + 1 .. conn[c].reply :
                     conn' = [conn EXCEPT ![c].taken = n, ![c].down = "write"]
               /\ Idle

\* ... and writes it, once the client has room for it.
DownWrite(c) == /\ conn[c].down = "write"
                /\ conn' = [conn EXCEPT ![c].down = "read", ![c].seen = conn[c].taken]
                /\ Idle

\* The client is not there to write to.
DownBreak(c) == /\ conn[c].down = "write" /\ conn[c].client = "gone"
                /\ conn' = [conn EXCEPT ![c].down = "done"]
                /\ Idle

ServerEnded(c) == \/ conn[c].server = "fin" /\ conn[c].taken = conn[c].reply
                  \/ conn[c].server = "gone"

\* io.Copy reads the server's end of file, or an error; the client is sent a
\* FIN.
DownEnd(c) == /\ At(c, "spliced") /\ conn[c].down = "read"
              /\ ServerEnded(c)
              /\ conn' = [conn EXCEPT ![c].down = "done"]
              /\ Idle

\* Mutants of Finish: one pump is enough, and active is not counted down.
FinishEarly(c) == /\ At(c, "spliced")
                  /\ conn[c].up = "done" \/ conn[c].down = "done"
                  /\ conn' = [conn EXCEPT ![c] = Fresh]
                  /\ active' = active - 1
                  /\ UNCHANGED <<bucketVars, waiting>>
FinishUncounted(c) == /\ At(c, "spliced")
                      /\ conn[c].up = "done" /\ conn[c].down = "done"
                      /\ conn' = [conn EXCEPT ![c] = Fresh]
                      /\ Idle

\* splice has heard from both pumps: both sockets are closed.
Finish(c) == /\ At(c, "spliced") /\ conn[c].up = "done" /\ conn[c].down = "done"
             /\ conn' = [conn EXCEPT ![c] = Fresh]
             /\ active' = active - 1
             /\ UNCHANGED <<bucketVars, waiting>>

Wait(c) == Doze(c) /\ UNCHANGED <<conn, waiting, active>>

Pass == Tick /\ UNCHANGED <<conn, waiting, active>>
--------------------------------------------------------------------------------
\* The client's socket is served by the kernel from the moment it is accepted.
ClientSend(c) == /\ ~At(c, "none") /\ conn[c].client = "open"
                 /\ c \in Talking /\ conn[c].asked < MaxAsked
                 /\ conn' = [conn EXCEPT ![c].asked = @ + 1]
                 /\ Idle

ClientEnd(c) == /\ ~At(c, "none")
                /\ \/ conn[c].client = "open" /\ conn' = [conn EXCEPT ![c].client = "fin"]
                   \/ conn[c].client # "gone" /\ conn' = [conn EXCEPT ![c].client = "gone"]
                /\ Idle

ServerSend(c) == /\ At(c, "spliced") /\ conn[c].server = "open"
                 /\ c \in Talking /\ conn[c].reply < MaxReplies
                 /\ conn' = [conn EXCEPT ![c].reply = @ + 1]
                 /\ Idle

ServerEnd(c) == /\ At(c, "spliced")
                /\ \/ conn[c].server = "open" /\ conn' = [conn EXCEPT ![c].server = "fin"]
                   \/ conn[c].server # "gone" /\ conn' = [conn EXCEPT ![c].server = "gone"]
                /\ Idle

Peers(c) == ClientSend(c) \/ ClientEnd(c) \/ ServerSend(c) \/ ServerEnd(c)
Paced(c) == Leave(c) \/ UpPaid(c) \/ Wait(c)
Dial(c) == DialOk(c) \/ DialFail(c)
Up(c) == UpTake(c) \/ UpBreak(c) \/ UpEnd(c)
DownPump(c) == DownTake(c) \/ DownBreak(c) \/ DownEnd(c)
Writes(c) == UpWrite(c) \/ DownWrite(c)

Next == \/ Pass
        \/ \E c \in Callers : \/ Accept(c) \/ Paced(c) \/ Dial(c) \/ Up(c)
                              \/ DownPump(c) \/ Writes(c) \/ Finish(c) \/ Peers(c)

Spec == Init /\ [][Next]_vars

\* Every goroutine that can run does in the end, a dial returns within its ten
\* seconds, TCP gives up on a peer that is gone, and time passes.  Clients and
\* servers owe nothing: no fairness makes them write, close, or read (Writes).
FairSpec == /\ Spec
            /\ WF_vars(Pass)
            /\ \A c \in Callers : /\ WF_vars(Paced(c)) /\ WF_vars(Dial(c))
                                  /\ WF_vars(Up(c)) /\ WF_vars(DownPump(c))
                                  /\ WF_vars(Finish(c))
--------------------------------------------------------------------------------
\* Every connection is at one of handleTCP's stages and each pump at one of its
\* own; the two counters of pstats never leave the range of a count.
PacerTypeOK == /\ BucketTypeOK
               /\ \A c \in Callers : conn[c] \in Conn
               /\ waiting \in 0..Cardinality(Callers)
               /\ active \in 0..Cardinality(Callers)

\* "QUEUED on a shared token bucket before we dial upstream", "one token per
\* write" (tcpproxy.go:69,135): a connection holds a token exactly when it is
\* about to dial or to write upstream, never two, and never acts without one.
PaidFor ==
  \A c \in Callers :
     conn[c].credit = IF At(c, "dialing") \/ conn[c].up = "write" THEN 1 ELSE 0

\* What `goslow top` shows as queue and active is what there is, on every path
\* out of handleTCP; only queued connections and chunks are in acquire().
CountersTrue ==
  /\ waiting = Cardinality({c \in Callers : At(c, "queued")})
  /\ active = Cardinality({c \in Callers : At(c, "spliced")})
  /\ trying = {c \in Callers : At(c, "queued") \/ conn[c].up = "pay"}

\* "Lossless: nothing dropped" (main.go:8): while neither peer vanished, a pump
\* ends, and passes its FIN on, only with every write of its side delivered.
Lossless ==
  \A c \in Callers :
     conn[c].client # "gone" /\ conn[c].server # "gone" =>
        /\ conn[c].up = "done" => conn[c].got = conn[c].asked
        /\ conn[c].down = "done" => conn[c].seen = conn[c].reply

\* Nor does tearing the connection down cut off what either side still had to
\* send: both directions are complete before the sockets are closed.
NothingCutOff ==
  [][\A c \in Callers :
        /\ At(c, "spliced") /\ conn'[c].stage = "none"
        /\ conn[c].client # "gone" /\ conn[c].server # "gone"
        => conn[c].got = conn[c].asked /\ conn[c].seen = conn[c].reply]_vars

\* Others are granted tokens for ever: acquire() is not first come first served
\* and bounds nobody's wait then.
Overtaken(c) == []<><<\E d \in Callers \ {c} : Grant(d)>>_vars

BothEnded(c) == /\ At(c, "spliced")
                /\ conn[c].client # "open" /\ conn[c].server # "open"

\* A peer that reads, for as long as it is there, what it is sent: a write to
\* it does not stay blocked.
ServerReads(c) == WF_vars(UpWrite(c))
ClientReads(c) == WF_vars(DownWrite(c))

\* A connection both of whose peers have closed is torn down and its sockets
\* and goroutines released, whatever was still to be paid for and in whatever
\* order the pumps end, provided the peers read what is on its way to them.
\* (Nothing releases it otherwise: no write has a deadline.)
EndedIsReleased ==
  \A c \in Callers : ServerReads(c) /\ ClientReads(c) =>
     (BothEnded(c) ~> ~BothEnded(c)) \/ Overtaken(c)

\* "propagating half-close" (tcpproxy.go:134): when the client shuts its side,
\* a server that reads is sent a FIN without having to say anything itself,
\* and although the client may not read what the server says.
HalfClosePropagates ==
  \A c \in Callers : ServerReads(c) =>
     \/ (At(c, "spliced") /\ conn[c].client = "fin") ~> (conn[c].up = "done" \/ At(c, "none"))
     \/ Overtaken(c)
================================================================================
