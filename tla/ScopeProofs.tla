----------------------------- MODULE ScopeProofs -----------------------------
(* What holds of the scope for every file, command line and answer of DNS:   *)
(* the kernel's set and the addon's list come from the same entries, a       *)
(* connection is throttled once, and the rate and the switches are those the *)
(* operator meant.                                                           *)
EXTENDS Scope, FiniteSetTheorems, TLAPS

\* The addon throttles what is sent to n, by its name or by its address.
Known(n) == n \in hosts \/ (n \in Literals /\ Answers[n] \subseteq SUBSET nets)

\* The refresher only has names the addon knows, and every address of the set
\* was added for such a name or is in a network.
SameEntries ==
  /\ \A n \in domains : Known(n)
  /\ \A x \in added : Known(x[1])
  /\ \A a \in set : (\E x \in added : x[2] = a) \/ a \in nets

\* What the proof needs of the loader: it reads lines, DNS answers, and there is
\* no round before there is a refresher.
Loading == /\ todo \in Seq(Line)
           /\ phase # "parse" => \A n \in Names : dns[n] \in Answers[n]
           /\ phase # "serve" => round = {}

IInv == ScopeTypeOK /\ Loading /\ SameEntries
--------------------------------------------------------------------------------
LEMMA Cap == PacerCap \in Nat \ {0}
  BY LineAssumption DEF PacerCap

LEMMA CapAfter == PacerCap' \in Nat \ {0}
  BY LineAssumption DEF PacerCap

LEMMA FirstLine ==
  ASSUME IInv, NEW k, Reads(k)
  PROVE  /\ Head(todo) \in Line /\ todo' \in Seq(Line) /\ phase = "load"
         /\ Head(todo).kind = k
         /\ Head(todo).addrs \subseteq Addrs
         /\ k = "host" => Head(todo).name \in Names
<1>1. /\ todo \in Seq(Line) /\ todo # <<>> /\ todo' = Tail(todo) /\ phase = "load"
      /\ Head(todo).kind = k
  BY DEF IInv, Loading, Reads
<1>2. Head(todo) \in Line /\ Tail(todo) \in Seq(Line)
  BY <1>1
<1>3. QED
  BY <1>1, <1>2 DEF Line

\* What a lookup of n adds.
LEMMA LookedUp ==
  ASSUME IInv, NEW n \in Names, AddV4(n)
  PROVE  /\ set' = set \cup Four(dns[n]) /\ added' = added \cup ({n} \X Four(dns[n]))
         /\ Four(dns[n]) \subseteq Addrs \ Six
         /\ set' \subseteq Addrs \ Six /\ added' \subseteq Names \X set'
         /\ \A x \in added' : x \in added \/ x[1] = n
         /\ \A a \in set' : a \in set \/ (\E x \in added' : x[2] = a)
<1>1. /\ set' = set \cup Four(dns[n]) /\ added' = added \cup ({n} \X Four(dns[n]))
      /\ Four(dns[n]) \subseteq Addrs \ Six /\ set \subseteq Addrs \ Six
      /\ added \subseteq Names \X set
  BY DEF AddV4, IInv, ScopeTypeOK, Four
<1>2. \A a \in Four(dns[n]) : <<n, a>> \in added' /\ <<n, a>>[2] = a
  BY <1>1
<1>3. \A x \in {n} \X Four(dns[n]) : x[1] = n
  OBVIOUS
<1>4. QED
  BY <1>1, <1>2, <1>3
--------------------------------------------------------------------------------
LEMMA InitHolds == Init => IInv
  BY Cap DEF Init, InitLine, IInv, ScopeTypeOK, Loading, SameEntries, Fates

LEMMA ParseKeeps == ASSUME IInv, Parse PROVE IInv'
<1>1. UNCHANGED scopeVars /\ fate' \in Fates /\ at' \in Nat
  <2>1. UNCHANGED scopeVars /\ fate \in Fates /\ at \in Nat /\ NextLine
    BY DEF Parse, IInv, ScopeTypeOK
  <2>0. at + 1 \in Nat /\ at + 2 \in Nat
    BY <2>1
  <2>2. CASE TurnOn
    BY <2>1, <2>0, <2>2 DEF TurnOn, Advance
  <2>3. CASE Ignore
    BY <2>1, <2>0, <2>3 DEF Ignore, Advance
  <2>4. CASE TakeNext
    BY <2>1, <2>0, <2>4 DEF TakeNext, SetTo, Advance, Ends, Fates
  <2>5. CASE TakeJoined
    BY <2>1, <2>0, <2>5 DEF TakeJoined, SetTo, Advance, Ends, Fates
  <2>6. CASE Dispatch
    BY <2>1, <2>6 DEF Dispatch, Ends, Fates
  <2>7. CASE Help
    BY <2>1, <2>7 DEF Help, Ends, Fates
  <2>8. CASE Unknown
    BY <2>1, <2>8 DEF Unknown, Ends, Fates
  <2>9. CASE Word \/ Parsed
    BY <2>1, <2>0, <2>9 DEF Word, Parsed, Fates
  <2>10. QED
    BY <2>1, <2>2, <2>3, <2>4, <2>5, <2>6, <2>7, <2>8, <2>9 DEF NextLine
<1>2. QED
  BY <1>1, CapAfter DEF scopeVars, IInv, ScopeTypeOK, Loading, SameEntries, Known

LEMMA OpenKeeps == ASSUME IInv, Open PROVE IInv'
<1>1. /\ todo' \in Seq(Line) /\ phase' = "load" /\ round = {}
      /\ \A n \in Names : dns'[n] \in Answers[n] /\ dns'[n] \in SUBSET Addrs
      /\ dns' \in [Names -> SUBSET Addrs]
  BY ScopeAssumption DEF Open, IInv, Loading
<1>2. QED
  BY <1>1, CapAfter DEF Open, IInv, ScopeTypeOK, Loading, SameEntries, Known, Fates

LEMMA SkipKeeps == ASSUME IInv, Skip PROVE IInv'
<1>1. todo' \in Seq(Line)
  BY FirstLine DEF Skip
<1>2. QED
  BY <1>1, CapAfter DEF Skip, lineVars, IInv, ScopeTypeOK, Loading, SameEntries, Known, Reads

LEMMA ReadNetKeeps == ASSUME IInv, ReadNet PROVE IInv'
<1>1. /\ todo' \in Seq(Line) /\ Head(todo).addrs \subseteq Addrs
      /\ nets' = nets \cup Head(todo).addrs /\ set' = set \cup Four(Head(todo).addrs)
  BY FirstLine DEF ReadNet
<1>2. SameEntries'
  BY <1>1 DEF ReadNet, IInv, SameEntries, Known, Four
<1>3. ScopeTypeOK'
  BY <1>1, CapAfter DEF ReadNet, lineVars, IInv, ScopeTypeOK, Four
<1>4. QED
  BY <1>1, <1>2, <1>3 DEF ReadNet, IInv, Loading

LEMMA ReadHostKeeps == ASSUME IInv, ReadHost PROVE IInv'
<1>1. PICK n \in Names : n = Head(todo).name
  BY FirstLine DEF ReadHost
<1> DEFINE resolved == IF Four(dns[n]) = {} THEN {} ELSE {n}
<1>2. /\ todo' \in Seq(Line) /\ phase = "load"
      /\ AddV4(n)
      /\ hosts' = hosts \cup (resolved \ Literals)
      /\ nets' = nets \cup (IF n \in Literals THEN dns[n] ELSE {})
      /\ domains' = domains \cup resolved
      /\ UNCHANGED <<lineVars, dns, round, phase>>
  BY <1>1, FirstLine DEF ReadHost
<1>3. dns[n] \in Answers[n] /\ dns[n] \subseteq Addrs
  BY <1>2 DEF IInv, Loading, ScopeTypeOK
<1>4. ASSUME Four(dns[n]) # {} PROVE Known(n)'
  <2>1. CASE n \in Literals
    <3>1. Answers[n] = {dns[n]}
      BY <1>3, <2>1, ScopeAssumption
    <3>2. dns[n] \subseteq nets'
      BY <1>2, <2>1
    <3>3. QED
      BY <2>1, <3>1, <3>2 DEF Known
  <2>2. CASE n \notin Literals
    BY <1>2, <1>4, <2>2 DEF Known
  <2>3. QED
    BY <2>1, <2>2
<1>5. ASSUME NEW m, Known(m) PROVE Known(m)'
  <2>1. hosts \subseteq hosts' /\ nets \subseteq nets'
    BY <1>2
  <2>2. QED
    BY <1>5, <2>1 DEF Known
<1>6. SameEntries'
  <2>1. ASSUME NEW x \in added' PROVE Known(x[1])'
    <3>1. x \in added \/ (x[1] = n /\ Four(dns[n]) # {})
      BY <1>2 DEF AddV4
    <3>2. CASE x \in added
      BY <1>5, <3>2 DEF IInv, SameEntries
    <3>3. CASE x[1] = n /\ Four(dns[n]) # {}
      BY <1>4, <3>3 DEF Known
    <3>4. QED
      BY <3>1, <3>2, <3>3
  <2>2. \A m \in domains' : Known(m)'
    BY <1>2, <1>4, <1>5 DEF IInv, SameEntries
  <2>3. \A a \in set' : (\E x \in added' : x[2] = a) \/ a \in nets'
    BY <1>2, LookedUp DEF IInv, SameEntries, AddV4
  <2>4. QED
    BY <2>1, <2>2, <2>3 DEF SameEntries, Known
<1>7. ScopeTypeOK'
  BY <1>2, <1>3, CapAfter, LookedUp DEF lineVars, IInv, ScopeTypeOK
<1>8. QED
  BY <1>2, <1>6, <1>7 DEF IInv, Loading

LEMMA EnforceKeeps == ASSUME IInv, Enforce PROVE IInv'
  BY CapAfter DEF Enforce, lineVars, IInv, ScopeTypeOK, Loading, SameEntries, Known

LEMMA WakeKeeps == ASSUME IInv, Wake PROVE IInv'
  BY CapAfter DEF Wake, lineVars, IInv, ScopeTypeOK, Loading, SameEntries, Known

LEMMA RenewKeeps == ASSUME IInv, NEW n \in Names, Renew(n) PROVE IInv'
<1>1. /\ n \in domains /\ Known(n) /\ AddV4(n)
      /\ round' = round \ {n} /\ UNCHANGED <<lineVars, dns, todo, hosts, nets, domains, phase>>
  BY DEF Renew, IInv, ScopeTypeOK, SameEntries
<1>2. SameEntries'
  BY <1>1, LookedUp DEF IInv, SameEntries, Known
<1>3. ScopeTypeOK'
  BY <1>1, CapAfter, LookedUp DEF lineVars, IInv, ScopeTypeOK
<1>4. QED
  BY <1>1, <1>2, <1>3 DEF IInv, Loading

LEMMA RotateKeeps == ASSUME IInv, NEW n \in Names, Rotate(n) PROVE IInv'
<1>1. /\ dns' \in [Names -> SUBSET Addrs]
      /\ \A m \in Names : dns'[m] \in Answers[m]
  <2>1. PICK S \in Answers[n] : dns' = [dns EXCEPT ![n] = S]
    BY DEF Rotate
  <2>2. S \subseteq Addrs
    BY ScopeAssumption
  <2>3. QED
    BY <2>1, <2>2 DEF Rotate, IInv, ScopeTypeOK, Loading
<1>2. QED
  BY <1>1, CapAfter DEF Rotate, lineVars, IInv, ScopeTypeOK, Loading, SameEntries, Known

LEMMA Always == Spec => []IInv
<1>1. IInv /\ [Next]_vars => IInv'
  BY ParseKeeps, OpenKeeps, SkipKeeps, ReadNetKeeps, ReadHostKeeps, EnforceKeeps, WakeKeeps,
     RenewKeeps, RotateKeeps, CapAfter
     DEF Next, Load, Refresher, vars, lineVars, scopeVars, IInv, ScopeTypeOK, Loading,
         SameEntries, Known
<1>2. QED
  BY InitHolds, <1>1, PTL DEF Spec
--------------------------------------------------------------------------------
\* The types of the scope, for every file: no IPv6 address in the set, no rate of
\* the pacer below one.
THEOREM ScopeTypes == Spec => []ScopeTypeOK
  BY Always, PTL DEF IInv

\* Every address of the ipset, at load or from the refresher, comes from an entry
\* of scope.txt that in_scope() finds.
THEOREM SetAndListAgree == Spec => []AddonKnowsTheSet
<1>1. IInv => AddonKnowsTheSet
  BY DEF IInv, SameEntries, Known, AddonKnowsTheSet, InScope
<1>2. QED
  BY Always, <1>1, PTL

\* The nat rules and the marks of system.go put no connection through both
\* engines, nor round again, whatever the ports and the mode.
THEOREM NeverThrottledTwice == Spec => []ThrottledOnce
<1>1. ThrottledOnce
  BY DEF ThrottledOnce, Hop, ToProxy, ToPacer
<1>2. QED
  BY <1>1, PTL
--------------------------------------------------------------------------------
\* The arguments up to at, as the operator meant them.  Whether an argument is a
\* value depends on where the run of bare valued flags before it starts.
Bare(i) == argv[i].flag \in Valued /\ ~argv[i].joined
RunFrom(k, j) == /\ k \in 1..j
                 /\ \A i \in k..j - 1 : Bare(i)
                 /\ k = 1 \/ ~Bare(k - 1)
TurnOf(j) == \E k \in 1..j : RunFrom(k, j) /\ (j - k) % 2 = 0
Turn == TurnOf(at + 1)

Past(flag) == Given(flag) \cap 1..at
RateAt(j) == IF argv[j].joined THEN argv[j].value ELSE Text(argv[j + 1])

\* What was read so far is what was meant so far.
SwitchesHeard == \A f \in DOMAIN Switch : cfg[f] <=> Default[f] \/ Past(Switch[f]) # {}
RateHeard == /\ Past("--rate") = {} => cfg.rate = Default.rate
             /\ Past("--rate") # {} =>
                  \E j \in Past("--rate") :
                     /\ \A i \in Past("--rate") : i <= j
                     /\ cfg.rate = RateAt(j)
WordsHeard == /\ Cardinality(Past(Empty)) = Len(words)
              /\ Len(words) >= 2 =>
                   \E j \in Past(Empty) : /\ Cardinality(Given(Empty) \cap 1..j) = 2
                                       /\ words[2] = argv[j].value

LineTypeOK == /\ argv \in Seq(Argument) /\ at \in 0..Len(argv)
              /\ words \in Seq(STRING) /\ cfg \in Config
Heard == Turn /\ SwitchesHeard /\ RateHeard /\ WordsHeard
LineInv == LineTypeOK /\ (fate = "parse" => Heard) /\ CapAsAsked

LEMMA OneRun ==
  ASSUME NEW j \in Nat \ {0}, NEW k, NEW l, RunFrom(k, j), RunFrom(l, j)
  PROVE  k = l
<1>1. k \in 1..j /\ l \in 1..j
  BY DEF RunFrom
<1>2. ASSUME k < l PROVE FALSE
  <2>1. l - 1 \in k..j - 1 /\ l # 1
    BY <1>1, <1>2
  <2>2. QED
    BY <2>1 DEF RunFrom
<1>3. ASSUME l < k PROVE FALSE
  <2>1. k - 1 \in l..j - 1 /\ k # 1
    BY <1>1, <1>3
  <2>2. QED
    BY <2>1 DEF RunFrom
<1>4. QED
  BY <1>1, <1>2, <1>3

LEMMA ValueOfRun ==
  ASSUME NEW j \in Nat \ {0}, NEW k, RunFrom(k, j)
  PROVE  IsValue(j) <=> (j - k) % 2 = 1
<1>1. ASSUME IsValue(j) PROVE (j - k) % 2 = 1
  <2>1. PICK l \in 1..j - 1 : /\ (j - l) % 2 = 1
                              /\ \A i \in l..j - 1 : Bare(i)
                              /\ l = 1 \/ ~Bare(l - 1)
    BY <1>1 DEF IsValue, Bare
  <2>2. RunFrom(l, j)
    BY <2>1 DEF RunFrom
  <2>3. QED
    BY <2>1, <2>2, OneRun
<1>2. ASSUME (j - k) % 2 = 1 PROVE IsValue(j)
  <2>1. k \in 1..j - 1
    BY <1>2 DEF RunFrom
  <2>2. QED
    BY <1>2, <2>1 DEF RunFrom, IsValue, Bare
<1>3. QED
  BY <1>1, <1>2

LEMMA NextRun ==
  ASSUME NEW j \in Nat \ {0}, NEW k, RunFrom(k, j)
  PROVE  /\ Bare(j) => RunFrom(k, j + 1)
         /\ ~Bare(j) => RunFrom(j + 1, j + 1)
<1>1. /\ k \in 1..j /\ (\A i \in k..j - 1 : Bare(i)) /\ (k = 1 \/ ~Bare(k - 1))
      /\ j + 1 - 1 = j
  BY DEF RunFrom
<1>2. ASSUME Bare(j) PROVE RunFrom(k, j + 1)
  <2>1. \A i \in k..j : i = j \/ i \in k..j - 1
    BY <1>1
  <2>2. QED
    BY <1>1, <1>2, <2>1 DEF RunFrom
<1>3. ASSUME ~Bare(j) PROVE RunFrom(j + 1, j + 1)
  BY <1>1, <1>3 DEF RunFrom
<1>4. QED
  BY <1>2, <1>3

\* An argument, or a flag and the value after it, has been read.
ReadOn == /\ at < Len(argv) /\ argv' = argv
          /\ \/ at' = at + 1 /\ ~Bare(at + 1)
             \/ at' = at + 2 /\ at + 2 <= Len(argv) /\ Bare(at + 1)

LEMMA ArgumentsStay ==
  ASSUME argv' = argv
  PROVE  /\ \A flag : Given(flag)' = Given(flag)
         /\ \A i : Bare(i)' = Bare(i) /\ RateAt(i)' = RateAt(i)
<1>1. \A j : IsValue(j)' = IsValue(j)
  BY DEF IsValue
<1>2. Own' = Own
  BY <1>1 DEF Own
<1>3. QED
  BY <1>2 DEF Given, Bare, RateAt, Text, IsWord

LEMMA TurnPasses ==
  ASSUME NEW j \in Nat \ {0}, TurnOf(j)
  PROVE  /\ ~IsValue(j)
         /\ ~Bare(j) => TurnOf(j + 1)
         /\ Bare(j) => IsValue(j + 1) /\ TurnOf(j + 2)
<1>1. PICK k \in 1..j : RunFrom(k, j) /\ (j - k) % 2 = 0
  BY DEF TurnOf
<1>2. ~IsValue(j)
  BY <1>1, ValueOfRun
<1>3. /\ j + 1 \in Nat \ {0} /\ j + 2 \in Nat \ {0}
      /\ (j + 1 - (j + 1)) % 2 = 0 /\ (j + 2 - (j + 2)) % 2 = 0
      /\ (j + 1 - k) % 2 = 1 /\ (j + 2 - k) % 2 = 0 /\ j + 1 + 1 = j + 2
  BY <1>1
<1>4. ASSUME ~Bare(j) PROVE TurnOf(j + 1)
  BY <1>1, <1>3, <1>4, NextRun DEF TurnOf
<1>5. ASSUME Bare(j) PROVE IsValue(j + 1) /\ TurnOf(j + 2)
  <2>1. RunFrom(k, j + 1)
    BY <1>1, <1>5, NextRun
  <2>2. IsValue(j + 1)
    BY <1>3, <2>1, ValueOfRun
  <2>3. RunFrom(k, j + 2) \/ RunFrom(j + 2, j + 2)
    BY <1>3, <2>1, NextRun
  <2>4. k \in 1..j + 2 /\ j + 2 \in 1..j + 2
    BY <1>1
  <2>5. QED
    BY <1>3, <2>2, <2>3, <2>4 DEF TurnOf
<1>6. QED
  BY <1>2, <1>4, <1>5

LEMMA TurnAfter == ASSUME argv' = argv, TurnOf(at' + 1) PROVE Turn'
  BY DEF Turn, TurnOf, RunFrom, Bare

LEMMA PastAfter ==
  ASSUME argv' = argv, at \in Nat, at' \in Nat, at + 1 \in DOMAIN argv, at + 1 \in Own, at' > at,
         \A i \in 1..at' : i \in 1..at \/ i = at + 1 \/ i \notin Own
  PROVE  /\ \A flag : This.flag # flag => Past(flag)' = Past(flag)
         /\ \A flag : This.flag = flag =>
              Past(flag)' = Past(flag) \cup {at + 1} /\ at + 1 \notin Past(flag)
<1>1. ASSUME NEW flag PROVE Past(flag)' = Given(flag) \cap 1..at'
  BY ArgumentsStay DEF Past
<1>2. ASSUME NEW flag
      PROVE  /\ Given(flag) \subseteq Own
             /\ at + 1 \in Given(flag) <=> This.flag = flag
             /\ at + 1 \notin Past(flag)
  BY DEF Given, Past, This
<1>3. 1..at \subseteq 1..at' /\ at + 1 \in 1..at'
  OBVIOUS
<1>4. ASSUME NEW flag, This.flag = flag
      PROVE  Past(flag)' = Past(flag) \cup {at + 1} /\ at + 1 \notin Past(flag)
  <2>1. at + 1 \in Given(flag) /\ at + 1 \notin Past(flag) /\ Given(flag) \subseteq Own
    BY <1>2, <1>4
  <2>2. Given(flag) \cap 1..at' = (Given(flag) \cap 1..at) \cup {at + 1}
    BY <1>3, <2>1
  <2>3. QED
    BY <1>1, <2>1, <2>2 DEF Past
<1>5. ASSUME NEW flag, This.flag # flag PROVE Past(flag)' = Past(flag)
  <2>1. at + 1 \notin Given(flag) /\ Given(flag) \subseteq Own
    BY <1>2, <1>5
  <2>2. Given(flag) \cap 1..at' = Given(flag) \cap 1..at
    BY <1>3, <2>1
  <2>3. QED
    BY <1>1, <2>2 DEF Past
<1>6. QED
  BY <1>4, <1>5

LEMMA ReadInTurn ==
  ASSUME LineTypeOK, Turn, ReadOn
  PROVE  /\ at' \in 0..Len(argv') /\ at \in Nat /\ at + 1 \in DOMAIN argv
         /\ Turn'
         /\ \A flag : This.flag # flag => Past(flag)' = Past(flag)
         /\ \A flag : This.flag = flag =>
              Past(flag)' = Past(flag) \cup {at + 1} /\ at + 1 \notin Past(flag)
<1>1. /\ at \in Nat /\ at' \in Nat /\ at' > at /\ at + 1 \in 1..Len(argv) /\ at + 1 \in Nat \ {0}
      /\ at' \in 0..Len(argv) /\ DOMAIN argv = 1..Len(argv) /\ Len(argv) \in Nat /\ argv' = argv
      /\ at + 1 + 1 = at + 2 /\ at + 1 + 2 = at + 3
  BY DEF LineTypeOK, ReadOn
<1>2. /\ ~IsValue(at + 1)
      /\ ~Bare(at + 1) => TurnOf(at + 2)
      /\ Bare(at + 1) => IsValue(at + 2) /\ TurnOf(at + 3)
  BY <1>1, TurnPasses DEF Turn
<1>3. at + 1 \in Own
  BY <1>1, <1>2 DEF Own
<1>4. TurnOf(at' + 1)
  <2>1. (at' = at + 1 /\ ~Bare(at + 1)) \/ (at' = at + 2 /\ Bare(at + 1))
    BY DEF ReadOn
  <2>2. at' = at + 1 => at' + 1 = at + 2
    BY <1>1
  <2>3. at' = at + 2 => at' + 1 = at + 3
    BY <1>1
  <2>4. QED
    BY <1>2, <2>1, <2>2, <2>3
<1>5. \A i \in 1..at' : i \in 1..at \/ i = at + 1 \/ i \notin Own
  <2>1. (at' = at + 1) \/ (at' = at + 2 /\ at + 2 \notin Own)
    BY <1>2 DEF ReadOn, Own
  <2>2. QED
    BY <1>1, <2>1
<1>6. QED
  BY <1>1, <1>3, <1>4, <1>5, TurnAfter, PastAfter

LEMMA SwitchesAfter ==
  ASSUME LineTypeOK, Turn, SwitchesHeard, ReadOn,
         \A f \in DOMAIN Switch : cfg'[f] <=> cfg[f] \/ This.flag = Switch[f]
  PROVE  SwitchesHeard'
<1> SUFFICES ASSUME NEW f \in DOMAIN Switch
             PROVE  cfg'[f] <=> Default[f] \/ Past(Switch[f])' # {}
  BY DEF SwitchesHeard, Switch
<1>1. cfg[f] <=> Default[f] \/ Past(Switch[f]) # {}
  BY DEF SwitchesHeard
<1>2. CASE This.flag = Switch[f]
  BY <1>2, ReadInTurn
<1>3. CASE This.flag # Switch[f]
  BY <1>1, <1>3, ReadInTurn
<1>4. QED
  BY <1>2, <1>3

LEMMA RateAfter ==
  ASSUME LineTypeOK, Turn, RateHeard, ReadOn,
         This.flag # "--rate" => cfg'.rate = cfg.rate,
         This.flag = "--rate" => cfg'.rate = RateAt(at + 1)
  PROVE  RateHeard'
<1>1. \A i : RateAt(i)' = RateAt(i)
  BY ArgumentsStay DEF ReadOn
<1>2. CASE This.flag # "--rate"
  <2>1. Past("--rate")' = Past("--rate") /\ cfg'.rate = cfg.rate
    BY <1>2, ReadInTurn
  <2>2. QED
    BY <1>1, <2>1 DEF RateHeard
<1>3. CASE This.flag = "--rate"
  <2>1. /\ Past("--rate")' = Past("--rate") \cup {at + 1} /\ cfg'.rate = RateAt(at + 1)
        /\ at \in Nat
    BY <1>3, ReadInTurn
  <2>2. \A i \in Past("--rate")' : i <= at + 1
    BY <2>1 DEF Past
  <2>3. at + 1 \in Past("--rate")'
    BY <2>1
  <2>4. QED
    BY <1>1, <2>1, <2>2, <2>3 DEF RateHeard
<1>4. QED
  BY <1>2, <1>3

LEMMA EmptyIsNoFlag ==
  /\ Empty \notin Valued /\ Empty \notin NoOps /\ Empty \notin Helps
  /\ \A f \in DOMAIN Switch : Switch[f] # Empty
<1>1. Empty \notin {"--coarse", "--http-only", "--fixed", "--no-install"}
  BY Zenon DEF Empty
<1>2. \A f \in DOMAIN Switch : Switch[f] \in {"--coarse", "--http-only", "--fixed", "--no-install"}
  BY DEF Switch
<1>3. Empty \notin Valued /\ Empty \notin NoOps /\ Empty \notin Helps
  BY Zenon DEF Empty, Valued, NoOps, Helps
<1>4. QED
  BY <1>1, <1>2, <1>3

LEMMA WordsAfter ==
  ASSUME LineTypeOK, Turn, WordsHeard, ReadOn,
         This.flag # Empty => words' = words,
         This.flag = Empty => words' = Append(words, This.value)
  PROVE  WordsHeard' /\ words' \in Seq(STRING)
<1>1. /\ Given(Empty)' = Given(Empty) /\ at \in Nat /\ at + 1 \in DOMAIN argv
      /\ Len(words) \in Nat /\ words \in Seq(STRING) /\ argv' = argv /\ argv \in Seq(Argument)
  <2>1. argv' = argv /\ words \in Seq(STRING) /\ argv \in Seq(Argument)
    BY DEF ReadOn, LineTypeOK
  <2>2. QED
    BY <2>1, ArgumentsStay, ReadInTurn
<1>2. CASE This.flag # Empty
  <2>1. Past(Empty)' = Past(Empty) /\ words' = words
    BY <1>2, ReadInTurn
  <2>2. QED
    BY <1>1, <2>1 DEF WordsHeard
<1>3. CASE This.flag = Empty
  <2>1. /\ Past(Empty)' = Past(Empty) \cup {at + 1} /\ at + 1 \notin Past(Empty)
        /\ words' = Append(words, This.value) /\ This.value \in STRING
    <3>1. This \in Argument
      BY <1>1 DEF This
    <3>2. QED
      BY <1>3, <3>1, ReadInTurn DEF Argument
  <2>2. IsFiniteSet(Past(Empty))
    <3>1. 0 \in Int /\ 1 \in Int /\ at \in Int
      BY <1>1
    <3>2. IsFiniteSet(1..at)
      BY <3>1, FS_Interval
    <3>3. Past(Empty) \in SUBSET (1..at)
      BY DEF Past
    <3>4. QED
      BY <3>2, <3>3, FS_Subset
  <2>3. Cardinality(Past(Empty)') = Cardinality(Past(Empty)) + 1
    BY <2>1, <2>2, FS_AddElement
  <2>4. Len(words') = Len(words) + 1 /\ Cardinality(Past(Empty)') = Len(words')
    BY <1>1, <2>1, <2>3 DEF WordsHeard
  <2>5. Past(Empty)' = Given(Empty) \cap 1..at + 1
    <3>1. ~Bare(at + 1)
      BY <1>3, EmptyIsNoFlag DEF Bare, This
    <3>2. at' = at + 1
      BY <3>1 DEF ReadOn
    <3>3. QED
      BY <1>1, <3>2 DEF Past
  <2>6. ASSUME Len(words) >= 1
        PROVE  \E j \in Past(Empty)' : /\ Cardinality(Given(Empty) \cap 1..j) = 2
                                    /\ words'[2] = argv[j].value
    <3>1. CASE Len(words) = 1
      <4>1. at + 1 \in Past(Empty)' /\ Cardinality(Given(Empty) \cap 1..at + 1) = 2
        <5>1. Len(words') = 2 /\ Cardinality(Past(Empty)') = 2 /\ at + 1 \in Past(Empty)'
          BY <2>1, <2>4, <3>1
        <5>2. QED
          BY <2>5, <5>1
      <4>2. words'[2] = argv[at + 1].value
        <5>1. words'[Len(words) + 1] = This.value
          BY <1>1, <2>1
        <5>2. QED
          BY <3>1, <5>1 DEF This
      <4>3. QED
        BY <4>1, <4>2
    <3>2. CASE Len(words) >= 2
      <4>1. PICK j \in Past(Empty) : /\ Cardinality(Given(Empty) \cap 1..j) = 2
                                  /\ words[2] = argv[j].value
        BY <3>2 DEF WordsHeard
      <4>2. words'[2] = words[2]
        BY <1>1, <2>1, <3>2
      <4>3. QED
        BY <2>1, <4>1, <4>2
    <3>3. QED
      <4>1. \A n \in Nat : n >= 1 => n = 1 \/ n >= 2
        OBVIOUS
      <4>2. QED
        BY <1>1, <2>6, <3>1, <3>2, <4>1
  <2>7. Len(words') >= 2 => Len(words) >= 1
    BY <1>1, <2>4
  <2>8. words' \in Seq(STRING)
    BY <1>1, <2>1
  <2>9. QED
    BY <1>1, <2>4, <2>6, <2>7, <2>8 DEF WordsHeard
<1>4. QED
  BY <1>2, <1>3

LEMMA LatestIs ==
  ASSUME NEW S \in SUBSET Nat, NEW j \in S, \A i \in S : i <= j
  PROVE  Latest(S) = j
<1>1. \A l \in S : (\A i \in S : i <= l) => l = j
  OBVIOUS
<1>2. QED
  BY <1>1 DEF Latest

LEMMA GivenIsFinite ==
  ASSUME LineTypeOK, NEW flag
  PROVE  /\ Given(flag) \in SUBSET Nat /\ IsFiniteSet(Given(flag))
         /\ Given(flag) \subseteq 1..Len(argv) /\ Len(argv) \in Nat
<1>1. DOMAIN argv = 1..Len(argv) /\ Len(argv) \in Nat
  BY DEF LineTypeOK
<1>2. Given(flag) \in SUBSET (1..Len(argv))
  BY <1>1 DEF Given, Own
<1>3. 1 \in Int /\ Len(argv) \in Int
  BY <1>1
<1>4. IsFiniteSet(1..Len(argv))
  BY <1>3, FS_Interval
<1>5. QED
  BY <1>1, <1>2, <1>4, FS_Subset

\* Of two words, the later one has more words before it.
LEMMA OneSecond ==
  ASSUME LineTypeOK, NEW i \in Given(Empty), NEW j \in Given(Empty),
         Cardinality(Given(Empty) \cap 1..i) = Cardinality(Given(Empty) \cap 1..j)
  PROVE  i = j
<1> DEFINE G(l) == Given(Empty) \cap 1..l
<1>1. i \in Nat /\ j \in Nat /\ IsFiniteSet(Given(Empty)) /\ i >= 1 /\ j >= 1
  BY GivenIsFinite
<1>2. IsFiniteSet(G(i)) /\ IsFiniteSet(G(j)) /\ i \in G(i) /\ j \in G(j)
  <2>1. G(i) \in SUBSET Given(Empty) /\ G(j) \in SUBSET Given(Empty)
    OBVIOUS
  <2>2. QED
    BY <1>1, <2>1, FS_Subset
<1>3. ASSUME i < j PROVE FALSE
  <2>1. G(i) \in SUBSET G(j) /\ j \notin G(i)
    BY <1>1, <1>3
  <2>2. G(i) = G(j)
    BY <1>2, <2>1, FS_Subset
  <2>3. QED
    BY <1>2, <2>1, <2>2
<1>4. ASSUME j < i PROVE FALSE
  <2>1. G(j) \in SUBSET G(i) /\ i \notin G(j)
    BY <1>1, <1>4
  <2>2. G(i) = G(j)
    BY <1>2, <2>1, FS_Subset
  <2>3. QED
    BY <1>2, <2>1, <2>2
<1>5. QED
  BY <1>1, <1>3, <1>4

LEMMA AskedIs ==
  ASSUME LineTypeOK, Heard, at = Len(argv)
  PROVE  Asked = IF Len(words) >= 2 THEN words[2] ELSE cfg.rate
<1> DEFINE second == {j \in Given(Empty) : Cardinality(Given(Empty) \cap 1..j) = 2}
           rates  == Given("--rate")
<1>1. \A flag : Past(flag) = Given(flag)
  BY GivenIsFinite DEF Past
<1>2. Len(words) \in Nat /\ Cardinality(Given(Empty)) = Len(words)
  BY <1>1 DEF LineTypeOK, Heard, WordsHeard
<1>3. second \in SUBSET Nat /\ rates \in SUBSET Nat
  BY GivenIsFinite
<1>4. CASE Len(words) >= 2
  <2>1. PICK j \in Given(Empty) : /\ Cardinality(Given(Empty) \cap 1..j) = 2
                                  /\ words[2] = argv[j].value
    BY <1>1, <1>4 DEF Heard, WordsHeard
  <2>2. j \in second /\ second # {}
    BY <2>1
  <2>3. \A i \in second : i = j
    BY <2>1, OneSecond
  <2>4. \A i \in second : i <= j
    <3>1. j \in Nat
      BY GivenIsFinite
    <3>2. QED
      BY <2>3, <3>1
  <2>5. Latest(second) = j
    BY <1>3, <2>2, <2>4, LatestIs
  <2>6. Asked = argv[Latest(second)].value
    BY <2>2 DEF Asked
  <2>7. QED
    BY <1>4, <2>1, <2>5, <2>6
<1>5. CASE ~(Len(words) >= 2)
  <2>1. ASSUME NEW j \in second PROVE FALSE
    <3>1. Given(Empty) \cap 1..j \in SUBSET Given(Empty)
      OBVIOUS
    <3>2. Cardinality(Given(Empty) \cap 1..j) <= Cardinality(Given(Empty))
      BY <3>1, GivenIsFinite, FS_Subset
    <3>3. QED
      BY <1>2, <1>5, <3>2
  <2>2. second = {}
    BY <2>1
  <2>3. CASE rates = {}
    BY <1>1, <1>5, <2>2, <2>3 DEF Asked, Heard, RateHeard
  <2>4. CASE rates # {}
    <3>1. PICK j \in rates : (\A i \in rates : i <= j) /\ cfg.rate = RateAt(j)
      BY <1>1, <2>4 DEF Heard, RateHeard
    <3>2. Latest(rates) = j
      BY <1>3, <3>1, LatestIs
    <3>3. Asked = RateAt(Latest(rates))
      BY <2>2, <2>4 DEF Asked, RateAt
    <3>4. QED
      BY <1>5, <3>1, <3>2, <3>3
  <2>5. QED
    BY <2>3, <2>4
<1>6. QED
  BY <1>4, <1>5
--------------------------------------------------------------------------------
LEMMA ReadKeeps ==
  ASSUME LineInv, fate = "parse", fate' = fate, ReadOn, cfg' \in Config,
         \A f \in DOMAIN Switch : cfg'[f] <=> cfg[f] \/ This.flag = Switch[f],
         This.flag # "--rate" => cfg'.rate = cfg.rate,
         This.flag = "--rate" => cfg'.rate = RateAt(at + 1),
         This.flag # Empty => words' = words,
         This.flag = Empty => words' = Append(words, This.value)
  PROVE  LineInv'
<1>1. LineTypeOK /\ Turn /\ SwitchesHeard /\ RateHeard /\ WordsHeard
  BY DEF LineInv, Heard
<1>2. /\ Turn' /\ at' \in 0..Len(argv') /\ argv' \in Seq(Argument)
      /\ WordsHeard' /\ words' \in Seq(STRING)
  BY <1>1, ReadInTurn, WordsAfter DEF LineTypeOK, ReadOn
<1>3. SwitchesHeard' /\ RateHeard'
  BY <1>1, SwitchesAfter, RateAfter
<1>4. CapAsAsked'
  BY DEF CapAsAsked
<1>5. QED
  BY <1>2, <1>3, <1>4 DEF LineInv, LineTypeOK, Heard

LEMMA EndKeeps ==
  ASSUME LineInv, NEW how \in {"command", "usage", "die"}, Ends(how)
  PROVE  LineInv'
<1>1. LineTypeOK'
  BY DEF LineInv, LineTypeOK, Ends
<1>2. QED
  BY <1>1 DEF LineInv, Ends, CapAsAsked

\* What a flag with a value does, if it is not the end.
LEMMA SetToKeeps ==
  ASSUME LineInv, fate = "parse", at < Len(argv), This.flag \in Valued,
         NEW v \in STRING, v = RateAt(at + 1), NEW n \in {1, 2},
         n = 1 => ~Bare(at + 1), n = 2 => Bare(at + 1) /\ at + 2 <= Len(argv),
         SetTo(This.flag, v, n)
  PROVE  LineInv'
<1>1. CASE Ends("die")
  BY <1>1, EndKeeps
<1>2. CASE ~Ends("die")
  <2>1. /\ at' = at + n /\ argv' = argv /\ words' = words /\ fate' = fate
        /\ cfg \in Config
    BY <1>2 DEF SetTo, Advance, LineInv, LineTypeOK
  <2>2. /\ cfg' \in Config
        /\ \A f \in DOMAIN Switch : cfg'[f] = cfg[f]
        /\ This.flag # "--rate" => cfg'.rate = cfg.rate
        /\ This.flag = "--rate" => cfg'.rate = v
    BY <1>2, <2>1, LineAssumption DEF SetTo, Advance, Config, Switch
  <2>3. This.flag # Empty /\ \A f \in DOMAIN Switch : This.flag # Switch[f]
    BY EmptyIsNoFlag DEF Valued, Switch
  <2>4. ReadOn
    BY <2>1 DEF ReadOn
  <2>5. QED
    BY <2>1, <2>2, <2>3, <2>4, ReadKeeps
<1>3. QED
  BY <1>1, <1>2

LEMMA ParsedKeeps == ASSUME LineInv, Parsed PROVE LineInv'
<1>1. /\ LineTypeOK /\ Heard /\ at = Len(argv) /\ fate' # "parse"
      /\ argv' = argv /\ at' = at /\ words' = words
      /\ cfg' = IF Len(words) >= 2 THEN [cfg EXCEPT !.rate = words[2]] ELSE cfg
  BY DEF LineInv, Parsed
<1>2. /\ cfg \in Config /\ words \in Seq(STRING) /\ Default \in Config
      /\ argv \in Seq(Argument) /\ at \in 0..Len(argv)
  BY <1>1, LineAssumption DEF LineTypeOK
<1>3. /\ cfg' \in Config
      /\ \A f \in DOMAIN Switch : cfg'[f] = cfg[f]
      /\ cfg'.rate = IF Len(words) >= 2 THEN words[2] ELSE cfg.rate
  <2>1. CASE Len(words) >= 2
    <3>1. words[2] \in STRING
      BY <1>2, <2>1
    <3>2. QED
      BY <1>1, <1>2, <2>1, <3>1 DEF Config, Switch
  <2>2. CASE ~(Len(words) >= 2)
    BY <1>1, <1>2, <2>2
  <2>3. QED
    BY <2>1, <2>2
<1>4. cfg'.rate = Asked
  BY <1>1, <1>3, AskedIs
<1>5. Asked' = Asked /\ \A flag : Given(flag)' = Given(flag)
  <2>1. \A flag : Given(flag)' = Given(flag)
    BY <1>1, ArgumentsStay
  <2>2. QED
    BY <1>1, <2>1 DEF Asked, Text, IsWord
<1>6. ASSUME NEW f \in DOMAIN Switch
      PROVE  cfg'[f] = (Default[f] \/ Given(Switch[f])' # {})
  <2>1. Past(Switch[f]) = Given(Switch[f])
    BY <1>1, GivenIsFinite DEF Past
  <2>2. cfg'[f] <=> Default[f] \/ Given(Switch[f])' # {}
    BY <1>1, <1>3, <1>5, <2>1 DEF Heard, SwitchesHeard
  <2>3. cfg'[f] \in BOOLEAN
    BY <1>3 DEF Config, Switch
  <2>4. QED
    BY <2>2, <2>3
<1>7. Asked \in DOMAIN Number /\ Number[Asked] > 0 => PacerCap' = Number[Asked]
  BY <1>4 DEF PacerCap
<1>8. CapAsAsked'
  BY <1>4, <1>5, <1>6, <1>7 DEF CapAsAsked
<1>9. QED
  BY <1>1, <1>2, <1>3, <1>8 DEF LineInv, LineTypeOK

LEMMA NextLineKeeps == ASSUME LineInv, NextLine PROVE LineInv'
<1>0. /\ argv \in Seq(Argument) /\ at \in Nat /\ Len(argv) \in Nat /\ cfg \in Config
      /\ at < Len(argv) => This \in Argument
      /\ at + 2 <= Len(argv) => Text(argv[at + 2]) \in STRING
  <2>1. argv \in Seq(Argument) /\ at \in 0..Len(argv) /\ cfg \in Config
    BY DEF LineInv, LineTypeOK
  <2>2. at < Len(argv) => This \in Argument
    BY <2>1 DEF This
  <2>3. ASSUME at + 2 <= Len(argv) PROVE Text(argv[at + 2]) \in STRING
    <3>1. argv[at + 2] \in Argument
      BY <2>1, <2>3
    <3>2. QED
      BY <3>1 DEF Text, Argument
  <2>4. QED
    BY <2>1, <2>2, <2>3
<1>1. CASE TurnOn
  <2>1. PICK f \in DOMAIN Switch : /\ Sees(Switch[f]) /\ ~This.joined
                                   /\ Advance(1, [cfg EXCEPT ![f] = TRUE])
    BY <1>1 DEF TurnOn
  <2>2. /\ fate = "parse" /\ at < Len(argv) /\ This.flag = Switch[f] /\ at' = at + 1
        /\ cfg' = [cfg EXCEPT ![f] = TRUE]
        /\ argv' = argv /\ words' = words /\ fate' = fate
    BY <2>1 DEF Sees, Advance, This
  <2>3. /\ cfg' \in Config /\ cfg'.rate = cfg.rate
        /\ \A g \in DOMAIN Switch : cfg'[g] <=> cfg[g] \/ g = f
    BY <1>0, <2>2 DEF Config, Switch
  <2>4. \A g \in DOMAIN Switch : Switch[g] = Switch[f] <=> g = f
    BY DEF Switch
  <2>5. Switch[f] \notin Valued /\ Switch[f] # "--rate" /\ Switch[f] # Empty
    BY EmptyIsNoFlag DEF Switch, Valued
  <2>6. ReadOn
    BY <2>2, <2>5 DEF ReadOn, Bare, This
  <2>7. QED
    BY <2>2, <2>3, <2>4, <2>5, <2>6, ReadKeeps
<1>2. CASE Ignore
  <2>1. PICK flag \in NoOps : Sees(flag) /\ Advance(1, cfg)
    BY <1>2 DEF Ignore
  <2>2. /\ fate = "parse" /\ at < Len(argv) /\ This.flag = flag /\ at' = at + 1
        /\ cfg' = cfg /\ argv' = argv /\ words' = words /\ fate' = fate
    BY <2>1 DEF Sees, Advance, This
  <2>3. /\ flag \notin Valued /\ flag # "--rate" /\ flag # Empty
        /\ \A f \in DOMAIN Switch : flag # Switch[f]
    BY EmptyIsNoFlag DEF NoOps, Switch, Valued
  <2>4. ReadOn
    BY <2>2, <2>3 DEF ReadOn, Bare, This
  <2>5. QED
    BY <1>0, <2>2, <2>3, <2>4, ReadKeeps
<1>3. CASE TakeNext
  <2>1. PICK flag \in Valued :
          /\ Sees(flag) /\ ~This.joined
          /\ \/ at + 2 <= Len(argv) /\ SetTo(flag, Text(argv[at + 2]), 2)
             \/ at + 1 = Len(argv) /\ Ends("die")
    BY <1>3 DEF TakeNext
  <2>2. fate = "parse" /\ at < Len(argv) /\ This.flag = flag /\ Bare(at + 1)
    BY <2>1 DEF Sees, This, Bare
  <2>3. CASE Ends("die")
    BY <2>3, EndKeeps
  <2>4. CASE at + 2 <= Len(argv) /\ SetTo(flag, Text(argv[at + 2]), 2)
    <3>1. RateAt(at + 1) = Text(argv[at + 2])
      BY <1>0, <2>1 DEF RateAt, This
    <3>2. PICK v \in STRING : v = Text(argv[at + 2])
      BY <1>0, <2>4
    <3>3. SetTo(This.flag, v, 2) /\ v = RateAt(at + 1) /\ This.flag \in Valued
      BY <2>2, <2>4, <3>1, <3>2
    <3>4. QED
      BY <2>2, <2>4, <3>3, SetToKeeps
  <2>5. QED
    BY <2>1, <2>3, <2>4
<1>4. CASE TakeJoined
  <2>1. PICK flag \in Valued : Sees(flag) /\ This.joined /\ SetTo(flag, This.value, 1)
    BY <1>4 DEF TakeJoined
  <2>2. /\ fate = "parse" /\ at < Len(argv) /\ This.flag = flag /\ ~Bare(at + 1)
        /\ This.value = RateAt(at + 1)
    BY <2>1 DEF Sees, This, Bare, RateAt
  <2>3. This.value \in STRING
    BY <1>0, <2>2 DEF Argument
  <2>4. PICK v \in STRING : v = This.value
    BY <2>3
  <2>5. SetTo(This.flag, v, 1) /\ v = RateAt(at + 1) /\ This.flag \in Valued
    BY <2>1, <2>2, <2>4
  <2>6. QED
    BY <2>2, <2>5, SetToKeeps
<1>5. CASE Word
  <2>1. /\ fate = "parse" /\ at < Len(argv) /\ This.flag = Empty /\ at' = at + 1
        /\ cfg' = cfg /\ argv' = argv /\ words' = Append(words, This.value) /\ fate' = fate
    BY <1>5 DEF Word, Sees, This
  <2>2. Empty # "--rate" /\ ~Bare(at + 1) /\ \A f \in DOMAIN Switch : Empty # Switch[f]
    BY <2>1, EmptyIsNoFlag DEF Bare, This, Valued
  <2>3. ReadOn
    BY <2>1, <2>2 DEF ReadOn
  <2>4. QED
    BY <1>0, <2>1, <2>2, <2>3, ReadKeeps
<1>6. CASE Dispatch \/ Help \/ Unknown
  BY <1>6, EndKeeps DEF Dispatch, Help, Unknown
<1>7. CASE Parsed
  BY <1>7, ParsedKeeps
<1>8. QED
  BY <1>1, <1>2, <1>3, <1>4, <1>5, <1>6, <1>7 DEF NextLine

LEMMA LineInit == Init => LineInv
<1> SUFFICES ASSUME Init PROVE LineInv
  OBVIOUS
<1>1. /\ argv \in Seq(Argument) /\ at = 0 /\ words = <<>> /\ cfg = Default /\ cfg \in Config
      /\ fate = "parse"
  BY LineAssumption DEF Init, InitLine
<1>2. LineTypeOK
  BY <1>1 DEF LineTypeOK
<1>3. \A flag : Past(flag) = {}
  BY <1>1 DEF Past
<1>4. Turn
  <2>1. RunFrom(1, 1) /\ (1 - 1) % 2 = 0
    BY DEF RunFrom
  <2>2. QED
    BY <1>1, <2>1 DEF Turn, TurnOf
<1>5. SwitchesHeard /\ RateHeard /\ WordsHeard
  <2>1. SwitchesHeard
    BY <1>1, <1>3 DEF SwitchesHeard
  <2>2. RateHeard
    BY <1>1, <1>3 DEF RateHeard
  <2>3. Cardinality(Past(Empty)) = 0 /\ Len(words) = 0
    BY <1>1, <1>3, FS_EmptySet
  <2>4. QED
    BY <2>1, <2>2, <2>3 DEF WordsHeard
<1>6. QED
  BY <1>1, <1>2, <1>4, <1>5 DEF LineInv, Heard, CapAsAsked

LEMMA OpenForgets == ASSUME LineInv, Open PROVE LineInv'
<1>1. /\ argv' = <<>> /\ at' = 0 /\ words' = <<>> /\ cfg' = cfg /\ fate' # "parse"
      /\ cfg \in Config
  BY DEF Open, LineInv, LineTypeOK
<1>2. QED
  BY <1>1 DEF LineInv, LineTypeOK, CapAsAsked

LEMMA LineStays == ASSUME LineInv, UNCHANGED lineVars PROVE LineInv'
<1>1. /\ argv' = argv /\ at' = at /\ words' = words /\ cfg' = cfg /\ fate' = fate
      /\ \A flag : Given(flag)' = Given(flag)
      /\ \A i : RateAt(i)' = RateAt(i)
  BY ArgumentsStay DEF lineVars
<1>2. \A flag : Past(flag)' = Past(flag)
  BY <1>1 DEF Past
<1>3. LineTypeOK'
  BY <1>1 DEF LineInv, LineTypeOK
<1>4. ASSUME fate' = "parse" PROVE Heard'
  <2>1. Heard
    BY <1>1, <1>4 DEF LineInv
  <2>2. Turn'
    BY <1>1, <2>1, TurnAfter DEF Heard, Turn
  <2>3. SwitchesHeard'
    BY <1>1, <1>2, <2>1 DEF Heard, SwitchesHeard
  <2>4. RateHeard'
    BY <1>1, <1>2, <2>1 DEF Heard, RateHeard
  <2>5. WordsHeard'
    BY <1>1, <1>2, <2>1 DEF Heard, WordsHeard
  <2>6. QED
    BY <2>2, <2>3, <2>4, <2>5 DEF Heard
<1>5. Asked' = Asked /\ PacerCap' = PacerCap
  BY <1>1 DEF Asked, Text, IsWord, PacerCap
<1>6. CapAsAsked'
  BY <1>1, <1>5 DEF LineInv, CapAsAsked
<1>7. QED
  BY <1>3, <1>4, <1>6 DEF LineInv

LEMMA LineAlways == Spec => []LineInv
<1>1. ASSUME LineInv, [Next]_vars PROVE LineInv'
  <2>1. CASE NextLine
    BY <1>1, <2>1, NextLineKeeps
  <2>2. CASE Open
    BY <1>1, <2>2, OpenForgets
  <2>3. CASE UNCHANGED lineVars
    BY <1>1, <2>3, LineStays
  <2>4. QED
    BY <1>1, <2>1, <2>2, <2>3
       DEF Next, Parse, Load, Skip, ReadNet, ReadHost, Enforce, Refresher, Wake, Renew, Rotate,
           vars
<1>2. QED
  BY LineInit, <1>1, PTL DEF Spec
--------------------------------------------------------------------------------
\* For command lines of any length, in whatever order the flags, the values and
\* the words come and whatever swallows what: parseArgs turns on the switches
\* that were given and no others, and the second word, else the last --rate, is
\* the rate (main.go:158-213), which startTCPPacer makes the cap.
THEOREM RateIsAsAsked == Spec => []CapAsAsked
  BY LineAlways, PTL DEF LineInv
================================================================================
