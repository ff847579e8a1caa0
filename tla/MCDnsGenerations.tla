--------------------------- MODULE MCDnsGenerations ---------------------------
(* Bounded instances of DnsGenerations.                                      *)
EXTENDS DnsGenerations, TLC

CONSTANTS c1, c2, h1, h2

TwoCallers == {c1, c2}
TwoHosts == {h1, h2}
Symmetry == Permutations(TwoCallers) \cup Permutations(TwoHosts)

Conf(up, static, max, negative, fake) ==
  [upstream |-> up, static |-> static, max |-> max, negative |-> negative, fake |-> fake]

\* Caches of two sizes, the small one with negative caching; another upstream
\* with static hosts; fake-IP, which no reload may change.
MCConfigs == {Conf("a", {}, 2, FALSE, FALSE), Conf("a", {}, 1, TRUE, FALSE),
              Conf("b", TwoHosts, 1, TRUE, FALSE), Conf("b", {}, 1, TRUE, TRUE)}
=============================================================================
