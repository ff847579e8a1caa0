---------------------------- MODULE RouteMatching ----------------------------
(***************************************************************************)
(* The routing algorithm: src/router/matcher.ts (domain suffixes, IP       *)
(* addresses, CIDR blocks), rules.ts (one compiled rule) and router.ts     *)
(* (first matching rule, else the default outbound).                       *)
(*                                                                         *)
(* A text is a record: its word, whether blanks surround it, whether it is *)
(* written in upper case.  The tables HostOf and CidrOf give the pieces a  *)
(* word falls into when it is split at its dots, colons and slashes.       *)
(***************************************************************************)
EXTENDS Integers, Sequences, FiniteSets, SequencesExt

CONSTANTS HostOf,     \* word |-> [version, labels, head, gap, tail], version 0: not an IP
          CidrOf,     \* word |-> [parts, address, prefix], address a word of HostOf
          GroupBits   \* bits in one part of an address (8 for IPv4, 16 for IPv6 in the code)

\* 1n << n
PowerOfTwo[n \in Nat] == IF n = 0 THEN 1 ELSE 2 * PowerOfTwo[n - 1]

GroupCount(version) == IF version = 4 THEN 4 ELSE 8

\* A host is cut into groups that fit, and only an IPv6 address can have "::".
ASSUME AddressAssumption ==
    /\ GroupBits \in Nat \ {0}
    /\ \A w \in DOMAIN HostOf :
          LET h == HostOf[w]
          IN  /\ h.version \in {0, 4, 6} /\ h.gap \in BOOLEAN
              /\ {h.head, h.tail} \subseteq Seq(0..(PowerOfTwo[GroupBits] - 1))
              /\ h.gap => h.version = 6
              /\ h.tail # <<>> => h.gap
    /\ \A w \in DOMAIN CidrOf : CidrOf[w].address \in DOMAIN HostOf

Text(w) == [w |-> w, pad |-> FALSE, up |-> FALSE]
Trim(s) == [s EXCEPT !.pad = FALSE]
Lower(s) == [s EXCEPT !.up = FALSE]
Blank(s) == s.w = ""

normalizeDomain(s) == Lower(Trim(s))

matchesExactDomain(host, domains) == normalizeDomain(host) \in domains

\* Equal to the suffix or ending in it at a label boundary; a suffix loses its
\* leading dot, so the table gives ".cn" the labels of "cn".
matchesDomainSuffix(host, suffixes) ==
    \E s \in ToSet(suffixes) :
        IsSuffix(HostOf[normalizeDomain(s).w].labels, HostOf[normalizeDomain(host).w].labels)

(***************************************************************************)
(* Addresses.  head and tail are the groups before and after "::", gap     *)
(* says whether "::" was there.  <<>> stands for undefined.                *)
(***************************************************************************)
parseIpv4ToBigInt(parts) == IF Len(parts) # GroupCount(4) THEN <<>> ELSE parts

parseIpv6ToBigInt(head, gap, tail) ==
    LET missing == GroupCount(6) - Len(head) - Len(tail)
        groups  == IF gap THEN head \o [i \in 1..missing |-> 0] \o tail ELSE head
    IN  IF (gap /\ missing < 1) \/ Len(groups) # GroupCount(6) THEN <<>> ELSE groups

ParsedGroups(h) == IF h.version = 4 THEN parseIpv4ToBigInt(h.head)
                   ELSE parseIpv6ToBigInt(h.head, h.gap, h.tail)

\* The shift-and-add loop that turns the groups into one integer.
parseIpToBigInt(h) ==
    LET groups == ParsedGroups(h)
        output[n \in 0..Len(groups)] ==
            IF n = 0 THEN 0 ELSE output[n - 1] * PowerOfTwo[GroupBits] + groups[n]
    IN  output[Len(groups)]

IsIp(h) == h.version # 0 /\ ParsedGroups(h) # <<>>

BitsOf(version) == GroupBits * GroupCount(version)

\* Number(prefixText): a blank text is 0, digits are their value.
NotANumber == -1
NumberOf(text) == CASE text.t = "blank"  -> 0
                    [] text.t = "digits" -> text.n
                    [] OTHER             -> NotANumber

\* new CidrMatcher(cidr) throws unless there are two parts, an IP address and
\* an integer prefix no longer than the address.
isValidCidr(s) ==
    /\ s.w \in DOMAIN CidrOf /\ ~s.pad
    /\ LET c == CidrOf[s.w]
       IN  /\ c.parts = 2
           /\ IsIp(HostOf[c.address])
           /\ NumberOf(c.prefix) \in 0..BitsOf(HostOf[c.address].version)

\* Mutant of CidrMatches: the shift drops one bit too many.
CidrMatchesShort(s, host) ==
    LET c     == CidrOf[s.w]
        h     == HostOf[host.w]
        net   == HostOf[c.address]
        shift == PowerOfTwo[BitsOf(net.version) - NumberOf(c.prefix) + 1]
    IN  /\ ~host.pad /\ IsIp(h) /\ h.version = net.version
        /\ parseIpToBigInt(h) \div shift = parseIpToBigInt(net) \div shift

CidrMatches(s, host) ==
    LET c      == CidrOf[s.w]
        h      == HostOf[host.w]
        net    == HostOf[c.address]
        prefix == NumberOf(c.prefix)
        shift  == PowerOfTwo[BitsOf(net.version) - prefix]
    IN  /\ ~host.pad /\ IsIp(h) /\ h.version = net.version
        /\ \/ prefix = 0
           \/ parseIpToBigInt(h) \div shift = parseIpToBigInt(net) \div shift

(***************************************************************************)
(* CompiledRouteRule.match.  domain and port tell an absent list (no       *)
(* restriction) from an empty one (matches nothing); the two lists that    *)
(* geo tags expand into do not: empty is no restriction.                   *)
(***************************************************************************)
RuleMatches(rule, req) ==
    /\ rule.domain.given =>
           matchesExactDomain(req.host, {normalizeDomain(d) : d \in ToSet(rule.domain.list)})
    /\ rule.domainSuffix # <<>> => matchesDomainSuffix(req.host, rule.domainSuffix)
    /\ rule.ipCidr # <<>> => \E c \in ToSet(rule.ipCidr) : CidrMatches(c, req.host)
    /\ rule.port.given => req.port \in ToSet(rule.port.list)

\* Router.match: the first rule that matches, else the default outbound (0).
RouteMatch(rules, req) ==
    LET hits == {i \in DOMAIN rules : RuleMatches(rules[i], req)}
    IN  IF hits = {} THEN 0 ELSE CHOOSE i \in hits : \A j \in hits : i <= j
===============================================================================
