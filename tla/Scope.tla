--------------------------------- MODULE Scope ---------------------------------
(***************************************************************************)
(* What is throttled: the scope file as loadScope reads it (scope.go), the  *)
(* names the refresher resolves again, the kernel's set of addresses and    *)
(* the rules over it (system.go), and the names and networks the addon goes *)
(* by (_load, in_scope and request of ratelimit.py).                        *)
(*                                                                          *)
(* DNS answers change at any time, and a lookup may fail or give only IPv6  *)
(* addresses.  A scope line stands for what parseScopeLine makes of it: one *)
(* to skip, an address or network taken as it is, or a name to look up,     *)
(* which an address pasted with a port or a path also becomes.  Crashes and *)
(* teardown are in Lifecycle.                                               *)
(***************************************************************************)
EXTENDS CommandLine

CONSTANTS Names,     \* host names, in the scope file or not
          Literals,  \* those that are IPv4 addresses
          Addrs,     \* addresses
          Six,       \* those the set refuses: IPv6
          Answers,   \* Answers[n]: what DNS may say of n; the empty set is a failure
          Above,     \* Above[n]: the names that n is a subdomain of
          Files,     \* the scope files: sequences of lines, see Line
          Ports,     \* TCP ports
          PortsOf,   \* the ports of the texts iptables takes for a port list
          None       \* no address

\* A line that is skipped (a comment, a wildcard), a net or a name.
Line == {l \in [kind : {"skip", "net", "host"}, name : Names \cup {None},
                addrs : SUBSET Addrs] : l.kind = "host" <=> l.name # None}

ASSUME ScopeAssumption ==
  /\ Literals \subseteq Names /\ Six \subseteq Addrs /\ None \notin Names \cup Addrs
  /\ Files \subseteq Seq(Line)
  /\ Answers \in [Names -> SUBSET SUBSET Addrs]
  /\ \A n \in Literals : \E a \in Addrs : Answers[n] = {{a}}
  /\ Above \in [Names -> SUBSET Names]

VARIABLES dns,       \* what DNS says, from when it is first asked
          todo,      \* the lines loadScope has not read yet
          set,       \* the addresses the ipset covers
          hosts,     \* the names of the cleaned scope.txt
          nets,      \* the addresses of its other entries
          domains,   \* domains.txt, once a refresher runs
          round,     \* the domains left in the refresher's round
          phase,     \* "parse", "load", "serve" or "dead"
          added      \* history: the addresses added for a name

scopeVars == <<dns, todo, set, hosts, nets, domains, round, phase, added>>
vars == <<lineVars, scopeVars>>

Four(S) == S \ Six

Init == /\ InitLine
        /\ dns = [n \in Names |-> {}]
        /\ todo = <<>> /\ set = {} /\ hosts = {} /\ nets = {}
        /\ domains = {} /\ round = {} /\ phase = "parse" /\ added = {}
--------------------------------------------------------------------------------
Parse == NextLine /\ UNCHANGED scopeVars

\* loadScope: the set is created and flushed, the file opened.  The arguments
\* have been read.
Open == /\ phase = "parse" /\ fate = "scope"
        /\ todo' \in Files
        /\ phase' = "load"
        /\ argv' = <<>> /\ at' = 0 /\ words' = <<>>
        /\ dns' \in {d \in [Names -> UNION {Answers[n] : n \in Names}] :
                       \A n \in Names : d[n] \in Answers[n]}
        /\ UNCHANGED <<cfg, fate, set, hosts, nets, domains, round, added>>

Reads(kind) == phase = "load" /\ todo # <<>> /\ todo' = Tail(todo) /\ Head(todo).kind = kind

Skip == Reads("skip")
        /\ UNCHANGED <<lineVars, dns, set, hosts, nets, domains, round, phase, added>>

\* An address or network: the set may refuse it, scope.txt gets it anyway.
ReadNet == /\ Reads("net")
           /\ set' = set \cup Four(Head(todo).addrs)
           /\ nets' = nets \cup Head(todo).addrs
           /\ UNCHANGED <<lineVars, dns, hosts, domains, round, phase, added>>

\* Mutant of AddV4: the addresses are not looked at.
AddEvery(n) == /\ set' = set \cup dns[n]
               /\ added' = added \cup ({n} \X dns[n])

\* ipsetAddV4: the lookup of n, all of whose IPv4 addresses are added.
AddV4(n) == /\ set' = set \cup Four(dns[n])
            /\ added' = added \cup ({n} \X Four(dns[n]))

\* Mutant of ReadHost: scope.txt gets only the nets.
ReadHostUnsaid == /\ Reads("host")
                  /\ AddV4(Head(todo).name)
                  /\ domains' = domains \cup {Head(todo).name}
                  /\ UNCHANGED <<lineVars, dns, hosts, nets, round, phase>>

\* A name: one that gives no IPv4 address is dropped for good.  One that is an
\* address is looked up like any other, but the addon takes it for a network.
ReadHost == /\ Reads("host")
            /\ LET n == Head(todo).name
                   resolved == IF Four(dns[n]) = {} THEN {} ELSE {n}
               IN  /\ AddV4(n)
                   /\ hosts' = hosts \cup (resolved \ Literals)
                   /\ nets' = nets \cup (IF n \in Literals THEN dns[n] ELSE {})
                   /\ domains' = domains \cup resolved
            /\ UNCHANGED <<lineVars, dns, round, phase>>

\* Whether iptables takes the rules: their port list, or their rate.
Accepted == IF cfg.coarse THEN cfg.rate \in DOMAIN Number /\ Number[cfg.rate] > 0
            ELSE cfg.ports \in DOMAIN PortsOf

\* The rules are there, and a refresher if there are names and --refresh is
\* not 0.
Enforce == /\ phase = "load" /\ todo = <<>>
           /\ phase' = IF Accepted THEN "serve" ELSE "dead"
           /\ domains' = IF cfg.refresh = 0 \/ phase' = "dead" THEN {} ELSE domains
           /\ UNCHANGED <<lineVars, dns, todo, set, hosts, nets, round, added>>

\* The refresher wakes and reads domains.txt.
Wake == /\ round = {} /\ phase = "serve" /\ domains # {}
        /\ round' = domains
        /\ UNCHANGED <<lineVars, dns, todo, set, hosts, nets, domains, phase, added>>

\* Mutant of Renew: a name that no longer resolves ends the round.
RenewOrQuit(n) == /\ n \in round
                  /\ round' = IF dns[n] = {} THEN {} ELSE round \ {n}
                  /\ AddV4(n)
                  /\ UNCHANGED <<lineVars, dns, todo, hosts, nets, domains, phase>>

\* It looks up one name after the other and adds what it finds.
Renew(n) == /\ n \in round
            /\ round' = round \ {n}
            /\ AddV4(n)
            /\ UNCHANGED <<lineVars, dns, todo, hosts, nets, domains, phase>>

\* A load balancer, or DNS, rotates.
Rotate(n) == /\ phase \in {"load", "serve"}
             /\ \E S \in Answers[n] : S # dns[n] /\ dns' = [dns EXCEPT ![n] = S]
             /\ UNCHANGED <<lineVars, todo, set, hosts, nets, domains, round, phase, added>>

Load == Open \/ Skip \/ ReadNet \/ ReadHost \/ Enforce
Refresher == Wake \/ \E n \in Names : Renew(n)

Next == Parse \/ Load \/ Refresher \/ \E n \in Names : Rotate(n)

Spec == Init /\ [][Next]_vars

\* The refresher's sleep ends and so do its lookups, of every name in turn.
FairSpec == Spec /\ WF_vars(Wake) /\ \A n \in Names : WF_vars(Renew(n))
--------------------------------------------------------------------------------
HttpPorts == IF cfg.ports \in DOMAIN PortsOf THEN PortsOf[cfg.ports] ELSE {}

\* Mutant of ToPacer: the pacer's mark is not excluded.
ToPacerUnmarked(who, a, p) == /\ ~cfg.coarse /\ ~cfg.httpOnly
                              /\ a \in set /\ p \notin HttpPorts

\* The nat rules, for a connection of a tool, of mitmdump or of the pacer.
ToProxy(who, a, p) == ~cfg.coarse /\ a \in set /\ p \in HttpPorts /\ who # "mitmdump"
ToPacer(who, a, p) == /\ ~cfg.coarse /\ ~cfg.httpOnly
                      /\ a \in set /\ p \notin HttpPorts /\ who # "pacer"

\* The first rule that matches decides; the coarse one is in another table.
Hop(who, a, p) == CASE ToProxy(who, a, p) -> "mitmdump"
                    [] ~ToProxy(who, a, p) /\ ToPacer(who, a, p) -> "pacer"
                    [] cfg.coarse /\ a \in set -> "hashlimit"
                    [] OTHER -> "direct"

\* in_scope, for the Host header h and the peer's address, which is not known
\* when there is no connection yet.
InScope(h, ip) == \/ hosts = {} /\ nets = {}
                  \/ \E n \in hosts : n = h \/ n \in Above[h]
                  \/ ip \in nets
                  \/ h \in Literals /\ Answers[h] \subseteq SUBSET nets

Serving == phase = "serve"
--------------------------------------------------------------------------------
\* Only IPv4 addresses get into the set, and what was added stays there.
ScopeTypeOK ==
  /\ fate \in Fates /\ at \in Nat /\ PacerCap \in Nat \ {0}
  /\ phase \in {"parse", "load", "serve", "dead"}
  /\ dns \in [Names -> SUBSET Addrs]
  /\ set \subseteq Addrs \ Six /\ nets \subseteq Addrs
  /\ hosts \subseteq Names /\ domains \subseteq Names /\ round \subseteq domains
  /\ added \subseteq Names \X set

\* "never loops", "no double-count" (README.md:190-192): what is in the set is
\* throttled once, by the engine its port and the mode call for, and what that
\* engine dials goes straight out.
ThrottledOnce ==
  Serving => \A a \in set, p \in Ports :
    LET first == Hop("tool", a, p)
    IN  /\ first = "direct" <=> (~cfg.coarse /\ cfg.httpOnly /\ p \notin HttpPorts)
        /\ first \in {"mitmdump", "pacer"} => Hop(first, a, p) = "direct"

\* The kernel goes by address and the addon by name: "IP rotation cannot dodge
\* the cap" (ratelimit.py:6) only if each address in the set, whenever it got
\* there, comes from an entry the addon throttles, connected or not yet.
AddonKnowsTheSet ==
  Serving => /\ \A x \in added, ip \in Addrs \cup {None} : InScope(x[1], ip)
             /\ \A a \in set : (\E x \in added : x[2] = a) \/ \A h \in Names : InScope(h, a)

\* "the cap holds even as the LB/DNS rotates backend IPs" (README.md:61): an
\* address that DNS goes on giving for a watched name is in the set in the end,
\* whatever happens to the lookups of the other names.
RotationIsCaught ==
  \A n \in Names : \A a \in Four(UNION Answers[n]) :
     <>[](Serving /\ n \in domains /\ a \in dns[n]) => <>(a \in set)

\* "hostname --- matches subdomains" (README.md:54): a request to a subdomain of
\* a listed name is sent to the proxy and throttled there.
SubdomainsMatch ==
  Serving /\ ~cfg.coarse =>
    \A h \in Names, p \in HttpPorts : \A a \in Four(dns[h]) :
       (\E n \in hosts : n \in Above[h]) => Hop("tool", a, p) = "mitmdump" /\ InScope(h, a)
================================================================================
