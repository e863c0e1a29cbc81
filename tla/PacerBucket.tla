------------------------------ MODULE PacerBucket ------------------------------
(***************************************************************************)
(* The token bucket of the TCP pacer (type bucket, tcpproxy.go): acquire()  *)
(* called by any number of goroutines at once, each of which loops "lock,   *)
(* refill, take a token or compute a sleep, unlock, sleep".                 *)
(*                                                                          *)
(* Time advances in instants.  Amounts of tokens are counted in units:      *)
(* Rate units are earned per instant and a token is Token units, so a       *)
(* fraction of a token is exact.  A critical section is one step (the mutex *)
(* is held throughout and nothing in it blocks); between two critical       *)
(* sections other callers and the clock move freely, and a sleep may last   *)
(* longer than was asked for.                                               *)
(***************************************************************************)
EXTENDS Integers

CONSTANTS Callers,   \* the goroutines that call acquire()
          Rate,      \* units earned per instant
          Token,     \* units in a token
          Second,    \* instants in a second: the bucket holds a second's worth
          MinNap     \* the shortest sleep, time.Millisecond, in instants

\* startTCPPacer replaces a rate below one token a second by defRate, so a
\* second always earns a token.  It sets max = rate: a burst of one second.
ASSUME BucketAssumption ==
  /\ Rate \in Nat \ {0}
  /\ Token \in Nat \ {0}
  /\ Second \in Nat \ {0}
  /\ MinNap \in Nat \ {0}
  /\ Token <= Rate * Second

VARIABLES tokens,    \* b.tokens, in units, as of b.last
          lag,       \* instants since b.last; a lag of Second fills the bucket
          trying,    \* the callers that are inside acquire()
          nap        \* what is left of each caller's time.Sleep(wait)

bucketVars == <<tokens, lag, trying, nap>>

Full == Rate * Second                                   \* b.max

AtMost(m, x) == IF x > m THEN m ELSE x

\* Mutant of TokensNow: the balance is not clipped at b.max.
TokensUnclipped == tokens + Rate * lag

\* The tokens a caller finds after refilling; also what snapshot() returns.
TokensNow == AtMost(Full, tokens + Rate * lag)

\* Mutant of NapFor: the time of a whole token.
NapOfAToken(t) == LET wait == Token \div Rate
                  IN  IF wait < MinNap THEN MinNap ELSE wait

\* The sleep acquire() computes for a balance of t < Token units: the time to
\* the next token, truncated to a whole time.Duration, at least a millisecond.
NapFor(t) == LET wait == (Token - t) \div Rate
             IN  IF wait < MinNap THEN MinNap ELSE wait

InitBucket == /\ tokens = Full
              /\ lag = 0
              /\ trying = {}
              /\ nap = [p \in Callers |-> 0]
--------------------------------------------------------------------------------
\* p calls acquire().
Call(p) == /\ p \notin trying
           /\ trying' = trying \cup {p}
           /\ UNCHANGED <<tokens, lag, nap>>

\* Mutant of Grant: b.last is left where it was.
GrantKeepsLast(p) == /\ p \in trying
                     /\ nap[p] = 0
                     /\ TokensNow >= Token
                     /\ tokens' = TokensNow - Token
                     /\ trying' = trying \ {p}
                     /\ UNCHANGED <<lag, nap>>

\* p is awake, refills the bucket, finds a token, takes it and returns.
Grant(p) == /\ p \in trying
            /\ nap[p] = 0
            /\ TokensNow >= Token
            /\ tokens' = TokensNow - Token
            /\ lag' = 0
            /\ trying' = trying \ {p}
            /\ UNCHANGED nap

\* Mutant of Doze: b.last moves on and what was earned since is not added.
DozeForgets(p) == /\ p \in trying
                  /\ nap[p] = 0
                  /\ TokensNow < Token
                  /\ lag' = 0
                  /\ nap' = [nap EXCEPT ![p] = NapFor(TokensNow)]
                  /\ UNCHANGED <<tokens, trying>>

\* p is awake, refills the bucket, finds no token and goes to sleep.
Doze(p) == /\ p \in trying
           /\ nap[p] = 0
           /\ TokensNow < Token
           /\ tokens' = TokensNow
           /\ lag' = 0
           /\ nap' = [nap EXCEPT ![p] = NapFor(TokensNow)]
           /\ UNCHANGED trying

\* An instant passes.
Tick == /\ lag' = IF lag < Second THEN lag + 1 ELSE lag
        /\ nap' = [p \in Callers |-> IF nap[p] > 0 THEN nap[p] - 1 ELSE 0]
        /\ UNCHANGED <<tokens, trying>>

Acquire(p) == Grant(p) \/ Doze(p)

NextBucket == Tick \/ \E p \in Callers : Call(p) \/ Acquire(p)

SpecBucket == InitBucket /\ [][NextBucket]_bucketVars
--------------------------------------------------------------------------------
BucketTypeOK == /\ tokens \in 0..Full
                /\ lag \in 0..Second
                /\ trying \subseteq Callers
                /\ nap \in [Callers -> Nat]

\* acquire() sleeps "until a token is available" (tcpproxy.go:193): whoever
\* took a token, refilled or slept meanwhile, once a token is in the bucket no
\* waiting caller is more than the one-millisecond floor away from looking.
NoOversleep == TokensNow >= Token => \A p \in Callers : nap[p] <= MinNap

\* "Nothing is dropped" (tcpproxy.go:194): a caller can stay in acquire() for
\* ever only if other callers are granted tokens for ever.  While anybody
\* waits, tokens keep being handed out.
SomebodyIsServed ==
  \A p \in Callers :
     \/ []<>(p \notin trying)
     \/ []<><<\E q \in Callers \ {p} : Grant(q)>>_bucketVars
================================================================================
