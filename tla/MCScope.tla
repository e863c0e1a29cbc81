-------------------------------- MODULE MCScope --------------------------------
(* Command lines, names, addresses and scope files for model checking. *)
EXTENDS Scope

CONSTANTS t, s, u, i,   \* a target, its subdomain, another name, an address as a name
          a, b, c, v    \* addresses, the last of them IPv6

W(x) == [flag |-> "", joined |-> FALSE, value |-> x]
F(x) == [flag |-> x, joined |-> FALSE, value |-> ""]
J(x, y) == [flag |-> x, joined |-> TRUE, value |-> y]

MCArguments == {W("scope"), W("9"), W("down"), F("--rate"), J("--rate", "3"), J("--rate", ""),
                F("--refresh"), F("--coarse"), F("--adapt"), F("-h"), F("-x")}
MCVectors == UNION {[1..n -> MCArguments] : n \in 0..4}
             \cup {<<W("scope"), F("--http-only"), F("--refresh"), W("0")>>,
                   <<F("--ports"), W("9"), W("scope")>>, <<W("scope"), F("--help")>>,
                   <<W("scope"), J("--help", "")>>, <<F("--coarse"), W("")>>}
MCNumber == [x \in {"0", "3", "9", "50"} |->
               CASE x = "0" -> 0 [] x = "3" -> 3 [] x = "9" -> 9 [] x = "50" -> 50]
MCDefault == [coarse |-> FALSE, httpOnly |-> FALSE, fixed |-> FALSE, noInstall |-> FALSE,
              rate |-> "50", ports |-> "80", refresh |-> 30]
MCPortsOf == [x \in {"80", "9"} |-> IF x = "80" THEN {80} ELSE {9}]

MCNames == {t, s, u, i}
MCAddrs == {a, b, c, v}
MCAnswers == [n \in MCNames |-> CASE n = t -> {{a}, {b}, {a, b}, {v}, {}}
                                  [] n = s -> {{c}}
                                  [] n = u -> {{a, v}, {}}
                                  [] n = i -> {{c}}]
MCAbove == [n \in MCNames |-> IF n = s THEN {t} ELSE {}]

Blank == [kind |-> "skip", name |-> None, addrs |-> {}]
Net(S) == [kind |-> "net", name |-> None, addrs |-> S]
Host(n) == [kind |-> "host", name |-> n, addrs |-> {}]
MCFiles == {<<>>, <<Host(t)>>, <<Host(u), Host(t)>>, <<Blank, Net({a, b})>>, <<Net({v})>>,
            <<Host(i), Host(t), Host(t)>>, <<Net({c}), Host(u)>>}
================================================================================
