------------------------------ MODULE CommandLine ------------------------------
(***************************************************************************)
(* From os.Args to a Config (main.go: main, parseArgs, defaultConfig), and  *)
(* from the Config's rate to the caps of the engines.                        *)
(*                                                                          *)
(* An argument is a word, a flag, or a flag joined to its value by "=".     *)
(* takeVal swallows whatever comes next, a flag too; a switch counts        *)
(* wherever it stands; the first two words are the scope file and a rate    *)
(* that goes before any --rate.  Texts are left uninterpreted, except for   *)
(* Number: what strconv.Atoi makes of them.                                 *)
(***************************************************************************)
EXTENDS Integers, SequencesExt

CONSTANTS Vectors,     \* the argument vectors the program may be given
          Number,      \* the texts strconv.Atoi reads, and what it reads
          Readable,    \* the texts that are the path of a readable file
          Default,     \* the Config from the environment and the defaults
          DefRate      \* defRate

\* One argument, and what the arguments are read into.  "--rate=" is joined,
\* to an empty value.
Argument == [flag : STRING, joined : BOOLEAN, value : STRING]
Config == [coarse : BOOLEAN, httpOnly : BOOLEAN, fixed : BOOLEAN, noInstall : BOOLEAN,
           rate : STRING, ports : STRING, refresh : Int]

ASSUME LineAssumption ==
  /\ Vectors \subseteq Seq(Argument) /\ Default \in Config /\ DefRate \in Nat \ {0}
  /\ \A x \in DOMAIN Number : Number[x] \in Int

VARIABLES argv,        \* os.Args[1:]
          at,          \* how many of them were looked at
          words,       \* the positional arguments so far
          cfg,         \* the Config
          fate         \* what has become of the invocation, see Fates

lineVars == <<argv, at, words, cfg, fate>>

\* The fields that switches set, and their flags; then flags that do nothing,
\* that ask for the usage text and that take a value, and the words that are
\* commands when they come first.
Switch == [coarse |-> "--coarse", httpOnly |-> "--http-only",
           fixed |-> "--fixed", noInstall |-> "--no-install"]
NoOps == {"--slow-start", "--adapt"}
Helps == {"-h", "--help"}
Valued == {"--rate", "--ports", "--refresh"}
Commands == {"down", "top", "status", "__refresh"}

\* Still parsing, given a scope to throttle, serving a command, or ended
\* before anything was touched.
Fates == {"parse", "scope", "command", "usage", "die"}

\* No flag.
Empty == ""

IsWord(a) == a.flag = Empty
Text(a) == IF IsWord(a) THEN a.value ELSE a.flag
IsCommand == argv # <<>> /\ IsWord(argv[1]) /\ argv[1].value \in Commands

InitLine == /\ argv \in Vectors
            /\ at = 0 /\ words = <<>> /\ cfg = Default
            /\ fate = "parse"
--------------------------------------------------------------------------------
Ends(how) == fate' = how /\ UNCHANGED <<argv, at, words, cfg>>

\* main looks for a command in the first place only.
Dispatch == fate = "parse" /\ IsCommand /\ Ends("command")

Sees(flag) == /\ fate = "parse" /\ ~IsCommand /\ at < Len(argv)
               /\ argv[at + 1].flag = flag
This == argv[at + 1]

\* n arguments are done with, the Config is now c.
Advance(n, c) == /\ at' = at + n /\ cfg' = c
                 /\ UNCHANGED <<argv, words, fate>>

TurnOn == \E f \in DOMAIN Switch :
            /\ Sees(Switch[f]) /\ ~This.joined
            /\ Advance(1, [cfg EXCEPT ![f] = TRUE])

Ignore == \E flag \in NoOps : Sees(flag) /\ ~This.joined /\ Advance(1, cfg)

\* The Config field a valued flag sets to v; --refresh reads a number or dies.
SetTo(flag, v, n) ==
  \/ flag = "--rate" /\ Advance(n, [cfg EXCEPT !.rate = v])
  \/ flag = "--ports" /\ Advance(n, [cfg EXCEPT !.ports = v])
  \/ /\ flag = "--refresh" /\ v \in DOMAIN Number
     /\ Advance(n, [cfg EXCEPT !.refresh = Number[v]])
  \/ flag = "--refresh" /\ v \notin DOMAIN Number /\ Ends("die")

\* Mutant of TakeNext: the value is left to be looked at again.
TakeNextTwice ==
  \E flag \in Valued :
     /\ Sees(flag) /\ ~This.joined
     /\ at + 2 <= Len(argv) /\ SetTo(flag, Text(argv[at + 2]), 1)

\* "--rate N": takeVal, which dies when nothing comes.
TakeNext ==
  \E flag \in Valued :
     /\ Sees(flag) /\ ~This.joined
     /\ \/ at + 2 <= Len(argv) /\ SetTo(flag, Text(argv[at + 2]), 2)
        \/ at + 1 = Len(argv) /\ Ends("die")

\* "--rate=N".
TakeJoined ==
  \E flag \in Valued : Sees(flag) /\ This.joined /\ SetTo(flag, This.value, 1)

Help == \E flag \in Helps : Sees(flag) /\ ~This.joined /\ Ends("usage")

Word == /\ Sees(Empty)
        /\ words' = Append(words, This.value)
        /\ at' = at + 1
        /\ UNCHANGED <<argv, cfg, fate>>

Unknown == /\ fate = "parse" /\ ~IsCommand /\ at < Len(argv)
           /\ This.flag \notin Valued \cup {Empty}
           /\ \/ This.joined
              \/ This.flag \notin NoOps \cup Helps \cup {Switch[f] : f \in DOMAIN Switch}
           /\ Ends("die")

\* All was looked at: main goes on with the scope file, if there is one.
Parsed == /\ fate = "parse" /\ ~IsCommand /\ at = Len(argv)
          /\ fate' = CASE words = <<>> \/ words[1] = Empty -> "usage"
                       [] words # <<>> /\ words[1] \notin Readable \cup {Empty} -> "die"
                       [] OTHER -> "scope"
          /\ cfg' = IF Len(words) >= 2 THEN [cfg EXCEPT !.rate = words[2]] ELSE cfg
          /\ UNCHANGED <<argv, at, words>>

NextLine == \/ Dispatch \/ TurnOn \/ Ignore \/ TakeNext \/ TakeJoined
            \/ Help \/ Word \/ Unknown \/ Parsed
--------------------------------------------------------------------------------
\* strconv.Atoi of the rate in startTCPPacer; what is no rate becomes defRate.
PacerCap == IF cfg.rate \in DOMAIN Number /\ Number[cfg.rate] > 0
            THEN Number[cfg.rate] ELSE DefRate

\* The argument at j is the value of the flag before it: an odd number of
\* valued flags stand before it, all but the first of which are values too.
IsValue(j) ==
  \E k \in 1..j - 1 :
     /\ (j - k) % 2 = 1
     /\ \A i \in k..j - 1 : argv[i].flag \in Valued /\ ~argv[i].joined
     /\ k = 1 \/ argv[k - 1].flag \notin Valued \/ argv[k - 1].joined

Own == {j \in DOMAIN argv : ~IsValue(j)}
Given(flag) == {j \in Own : argv[j].flag = flag}
Latest(S) == CHOOSE j \in S : \A i \in S : i <= j

\* The rate the operator asked for: the second word, else the last --rate,
\* else the default.
Asked ==
  LET second == {j \in Given(Empty) : Cardinality(Given(Empty) \cap 1..j) = 2}
      rates  == Given("--rate")
  IN  CASE second # {} -> argv[Latest(second)].value
        [] second = {} /\ rates # {} ->
             (IF argv[Latest(rates)].joined THEN argv[Latest(rates)].value
              ELSE Text(argv[Latest(rates) + 1]))
        [] OTHER -> Default.rate

\* "flags in any position plus up to two positionals" (main.go:158), "--rate N
\* CEILING: req/s (HTTP) and conn/s (non-HTTP) ... also positional" (main.go:272):
\* in whatever order they come and whatever swallows what, a switch that was
\* given is on and no other, and a whole rate is the cap of both engines.  (argv
\* is forgotten afterwards.)
CapAsAsked ==
  fate = "scope" /\ argv # <<>> =>
    /\ \A f \in DOMAIN Switch : cfg[f] = (Default[f] \/ Given(Switch[f]) # {})
    /\ cfg.rate = Asked
    /\ Asked \in DOMAIN Number /\ Number[Asked] > 0 => PacerCap = Number[Asked]
================================================================================
