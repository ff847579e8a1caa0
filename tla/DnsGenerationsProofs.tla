------------------------- MODULE DnsGenerationsProofs -------------------------
(***************************************************************************)
(* Safety of the DNS generations for any number of calls of resolve(), any *)
(* set of hosts and configurations and any number of reloads: what the     *)
(* queryRefs counters and the single-flight tables hold, what the store    *)
(* registers, and what may be in the caches.                               *)
(***************************************************************************)
EXTENDS DnsGenerations, FiniteSetTheorems, SequenceTheorems, WellFoundedInduction, TLAPS

-----------------------------------------------------------------------------
(* The cache of one generation.                                            *)

\* A cache of at most max entries, one for a host, all of them answers of the
\* upstream via, and none for a host that is still looked up.
GoodCache(cache, max, flights, via) ==
  /\ cache \in Seq(Entry)
  /\ Len(cache) <= max
  /\ \A i, j \in 1 .. Len(cache) : cache[i].host = cache[j].host => i = j
  /\ \A i \in 1 .. Len(cache) : cache[i].host \notin flights /\ cache[i].via = via

\* A nonempty set of natural numbers has a least element.
LEMMA LeastNatural ==
  ASSUME NEW T \in SUBSET Nat, T # {}
  PROVE  \E x \in T : \A y \in T : x <= y
<1>1. PICK x \in T : \A y \in T : ~ (<<y, x>> \in OpToRel(<, Nat))
  BY NatLessThanWellFounded, WFMin, Zenon
<1>2. \A y \in T : ~ (y < x)
  BY <1>1 DEF OpToRel
<1> QED BY <1>2

\* The size of an interval that begins with 1.
LEMMA IntervalSize ==
  ASSUME NEW n \in Nat
  PROVE  IsFiniteSet(1 .. n) /\ Cardinality(1 .. n) = n
BY FS_Interval

\* The entries of s are entries of cache, from different places.
Drawn(s, cache) ==
  /\ s \in Seq(Entry)
  /\ \E m \in [1 .. Len(s) -> 1 .. Len(cache)] :
       /\ \A j, k \in 1 .. Len(s) : m[j] = m[k] => j = k
       /\ \A k \in 1 .. Len(s) : s[k] = cache[m[k]]

\* Entries drawn from a good cache make a good cache, of any size they keep to.
LEMMA DrawnCache ==
  ASSUME NEW cache, NEW s, NEW max, NEW most, NEW fl, NEW via,
         GoodCache(cache, max, fl, via), Drawn(s, cache), Len(s) <= most
  PROVE  GoodCache(s, most, fl, via)
<1>1. PICK m \in [1 .. Len(s) -> 1 .. Len(cache)] :
       /\ \A j, k \in 1 .. Len(s) : m[j] = m[k] => j = k
       /\ \A k \in 1 .. Len(s) : s[k] = cache[m[k]]
  BY DEF Drawn
<1>2. \A k \in 1 .. Len(s) : m[k] \in 1 .. Len(cache)
  BY <1>1
<1>3. s \in Seq(Entry)
  BY DEF Drawn
<1>4. \A j, k \in 1 .. Len(s) : s[j].host = s[k].host => j = k
  <2> SUFFICES ASSUME NEW j \in 1 .. Len(s), NEW k \in 1 .. Len(s), s[j].host = s[k].host
               PROVE  m[j] = m[k]
    BY <1>1
  <2> QED BY <1>1, <1>2 DEF GoodCache
<1>5. \A k \in 1 .. Len(s) : s[k].host \notin fl /\ s[k].via = via
  BY <1>1, <1>2 DEF GoodCache
<1> QED BY <1>3, <1>4, <1>5 DEF GoodCache

\* A flight that ends asks less of the cache.
LEMMA GoodCacheLess ==
  ASSUME NEW cache, NEW max, NEW fl, NEW fewer, NEW via, GoodCache(cache, max, fl, via),
         fewer \subseteq fl
  PROVE  GoodCache(cache, max, fewer, via)
BY DEF GoodCache

\* What the deletions of a Map leave: the entries at the places in I, each
\* once.
LEMMA KeptFacts ==
  ASSUME NEW cache \in Seq(Entry), NEW I \in SUBSET (1 .. Len(cache)), NEW s \in Kept(cache, I)
  PROVE  /\ s \in Seq(Entry)
         /\ Len(s) = Cardinality(I) /\ Len(s) <= Len(cache)
         /\ \E e \in [1 .. Len(s) -> I] :
              /\ \A j, k \in 1 .. Len(s) : e[j] = e[k] => j = k
              /\ \A k \in 1 .. Len(s) : s[k] = cache[e[k]]
<1> DEFINE n == Cardinality(I)
<1>1. IsFiniteSet(I) /\ n \in Nat /\ n <= Len(cache)
  <2>1. IsFiniteSet(1 .. Len(cache)) /\ Cardinality(1 .. Len(cache)) = Len(cache)
    BY IntervalSize
  <2> QED BY <2>1, FS_Subset, FS_CardinalityType
<1>2. PICK e \in [1 .. n -> I] :
        /\ \A j, k \in DOMAIN e : j < k => e[j] < e[k]
        /\ s = [k \in DOMAIN e |-> cache[e[k]]]
  BY DEF Kept
<1> HIDE DEF n
<1>3. s = [k \in 1 .. n |-> cache[e[k]]]
  BY <1>2
<1>4. \A k \in 1 .. n : cache[e[k]] \in Entry
  BY <1>2, ElementOfSeq
<1>5. s \in Seq(Entry) /\ Len(s) = n
  BY <1>1, <1>3, <1>4
<1>6. \A j, k \in 1 .. n : e[j] = e[k] => j = k
  <2> SUFFICES ASSUME NEW j \in 1 .. n, NEW k \in 1 .. n, j # k
               PROVE  e[j] # e[k]
    OBVIOUS
  <2>1. e[j] \in Int /\ e[k] \in Int
    <3>1. e[j] \in I /\ e[k] \in I
      BY <1>2
    <3>2. \A x \in I : x \in Int
      OBVIOUS
    <3> QED BY <3>1, <3>2, Zenon
  <2>2. j < k \/ k < j
    BY <1>1
  <2> QED BY <1>2, <2>1, <2>2
<1> QED BY <1>1, <1>2, <1>3, <1>5, <1>6 DEF n

\* Kept entries are drawn from the cache they were kept in.
LEMMA KeptDrawn ==
  ASSUME NEW cache \in Seq(Entry), NEW I \in SUBSET (1 .. Len(cache)), NEW s \in Kept(cache, I)
  PROVE  Drawn(s, cache)
<1>1. /\ s \in Seq(Entry)
      /\ \E e \in [1 .. Len(s) -> I] :
              /\ \A j, k \in 1 .. Len(s) : e[j] = e[k] => j = k
              /\ \A k \in 1 .. Len(s) : s[k] = cache[e[k]]
  BY KeptFacts
<1>2. PICK e \in [1 .. Len(s) -> I] :
              /\ \A j, k \in 1 .. Len(s) : e[j] = e[k] => j = k
              /\ \A k \in 1 .. Len(s) : s[k] = cache[e[k]]
  BY <1>1
<1>3. e \in [1 .. Len(s) -> 1 .. Len(cache)]
  BY <1>2
<1> QED BY <1>1, <1>2, <1>3 DEF Drawn

\* After a host's entry is deleted its lookup may be in flight (getPositive and
\* getNegative of an expired entry).
LEMMA WithoutFacts ==
  ASSUME NEW cache, NEW max \in Nat, NEW fl, NEW via, NEW h, GoodCache(cache, max, fl, via),
         NEW s \in Without(cache, h)
  PROVE  GoodCache(s, max, fl \cup {h}, via)
<1> DEFINE I == DOMAIN cache \ Places(cache, h)
<1>0. cache \in Seq(Entry) /\ DOMAIN cache = 1 .. Len(cache)
  BY DEF GoodCache
<1>1. I \in SUBSET (1 .. Len(cache)) /\ s \in Kept(cache, I)
      /\ \A i \in I : cache[i].host # h
  BY <1>0 DEF Without, Places
<1> HIDE DEF I
<1>2. Drawn(s, cache) /\ s \in Seq(Entry) /\ Len(s) <= Len(cache) /\ Len(cache) <= max
      /\ \E e \in [1 .. Len(s) -> I] : \A k \in 1 .. Len(s) : s[k] = cache[e[k]]
  BY <1>0, <1>1, KeptFacts, KeptDrawn DEF GoodCache
<1>3. \A k \in 1 .. Len(s) : s[k].host # h
  <2>1. PICK e \in [1 .. Len(s) -> I] : \A k \in 1 .. Len(s) : s[k] = cache[e[k]]
    BY <1>2
  <2>2. \A k \in 1 .. Len(s) : e[k] \in I
    BY <2>1
  <2> QED BY <1>1, <2>1, <2>2
<1>4. Len(s) <= max
  BY <1>0, <1>2
<1>5. GoodCache(s, max, fl, via)
  BY <1>2, <1>4, DrawnCache
<1> QED BY <1>3, <1>5 DEF GoodCache

\* What trimCache's deletion of one entry leaves.
LEMMA DroppedFacts ==
  ASSUME NEW S, NEW c \in Seq(S), NEW i \in 1 .. Len(c)
  PROVE  /\ Dropped(c, i) \in Seq(S) /\ Len(Dropped(c, i)) = Len(c) - 1
         /\ \A k \in 1 .. Len(c) - 1 : Dropped(c, i)[k] = IF k < i THEN c[k] ELSE c[k + 1]
<1> DEFINE a == SubSeq(c, 1, i - 1)
           b == SubSeq(c, i + 1, Len(c))
<1>0. Len(c) \in Nat /\ \A j \in 1 .. Len(c) : c[j] \in S
  OBVIOUS
<1>1. a \in Seq(S) /\ Len(a) = i - 1 /\ \A k \in 1 .. i - 1 : a[k] = c[k]
  <2>1. \A j \in 1 .. i - 1 : c[j] \in S
    BY <1>0
  <2> QED BY <1>0, <2>1, SubSeqProperties
<1>2. b \in Seq(S) /\ Len(b) = Len(c) - i /\ \A k \in 1 .. Len(c) - i : b[k] = c[k + i]
  <2>1. \A j \in i + 1 .. Len(c) : c[j] \in S
    BY <1>0
  <2>2. /\ b \in Seq(S)
        /\ Len(b) = IF i + 1 <= Len(c) THEN Len(c) - (i + 1) + 1 ELSE 0
        /\ \A j \in 1 .. Len(c) - (i + 1) + 1 : b[j] = c[(i + 1) + j - 1]
    BY <1>0, <2>1, SubSeqProperties
  <2> QED BY <1>0, <2>2
<1>3. Dropped(c, i) = a \o b
  BY DEF Dropped
<1> HIDE DEF a, b
<1>4. /\ a \o b \in Seq(S)
      /\ Len(a \o b) = Len(a) + Len(b)
      /\ \A j \in 1 .. Len(a) + Len(b) : (a \o b)[j] = IF j <= Len(a) THEN a[j] ELSE b[j - Len(a)]
  BY <1>1, <1>2, ConcatProperties
<1> QED BY <1>0, <1>1, <1>2, <1>3, <1>4, SMTT(30)

\* setPositive and setNegative of the result of a flight that has just ended
\* keep the cache good: the limit is kept although an entry is added, and the
\* host's old entry is gone.
LEMMA StoredFacts ==
  ASSUME NEW cache, NEW max \in Nat \ {0}, NEW fl, NEW e \in Entry,
         GoodCache(cache, max, fl, e.via), NEW s \in Stored(cache, e, max)
  PROVE  GoodCache(s, max, fl \ {e.host}, e.via)
<1>1. PICK rest \in Without(cache, e.host) : s \in Trimmed(Append(rest, e), max)
  BY DEF Stored
<1>2. GoodCache(rest, max, fl \cup {e.host}, e.via)
  BY <1>1, WithoutFacts
<1> DEFINE full == Append(rest, e)
           n == Len(rest)
<1>3. /\ full \in Seq(Entry) /\ Len(full) = n + 1 /\ n \in Nat
      /\ \A i \in 1 .. n : full[i] = rest[i]
      /\ full[n + 1] = e
  BY <1>2, AppendProperties DEF GoodCache
<1>4. GoodCache(full, n + 1, fl \ {e.host}, e.via)
  <2>1. \A i \in 1 .. n + 1 : i \in 1 .. n \/ i = n + 1
    BY <1>3
  <2>2. \A i \in 1 .. n : full[i].host \notin fl \cup {e.host} /\ full[i].via = e.via
    BY <1>2, <1>3 DEF GoodCache
  <2>3. \A i, j \in 1 .. n : full[i].host = full[j].host => i = j
    BY <1>2, <1>3 DEF GoodCache
  <2>6. n + 1 <= n + 1 /\ n + 1 \in Nat
    BY <1>3
  <2> HIDE DEF full, n
  <2>4. \A i, j \in 1 .. n + 1 : full[i].host = full[j].host => i = j
    BY <1>3, <2>1, <2>2, <2>3
  <2>5. \A i \in 1 .. n + 1 : full[i].host \notin fl \ {e.host} /\ full[i].via = e.via
    BY <1>3, <2>1, <2>2
  <2> QED BY <1>3, <2>4, <2>5, <2>6 DEF GoodCache
<1>5. n <= max /\ s \in Trimmed(full, max)
  BY <1>1, <1>2 DEF GoodCache
<1> HIDE DEF full, n
<1>6. CASE Len(full) <= max
  <2>1. s = full
    BY <1>5, <1>6 DEF Trimmed
  <2> QED BY <1>4, <1>6, <2>1 DEF GoodCache
<1>7. CASE ~(Len(full) <= max)
  <2>1. PICK i \in Victims(full) : s = Dropped(full, i)
    BY <1>5, <1>7 DEF Trimmed
  <2>2. i \in 1 .. Len(full)
    BY <1>3, <2>1 DEF Victims
  <2>3. /\ s \in Seq(Entry) /\ Len(s) = Len(full) - 1
        /\ \A k \in 1 .. Len(full) - 1 : s[k] = IF k < i THEN full[k] ELSE full[k + 1]
    BY <1>3, <2>1, <2>2, DroppedFacts
  <2> DEFINE m == [k \in 1 .. Len(s) |-> IF k < i THEN k ELSE k + 1]
  <2>4. m \in [1 .. Len(s) -> 1 .. Len(full)]
    BY <1>3, <2>2, <2>3
  <2>5. /\ \A k \in 1 .. Len(s) : s[k] = full[m[k]]
        /\ \A j, k \in 1 .. Len(s) : m[j] = m[k] => j = k
    BY <1>3, <2>2, <2>3
  <2> HIDE DEF m
  <2>6. Drawn(s, full)
    BY <2>3, <2>4, <2>5 DEF Drawn
  <2>7. Len(s) <= max
    BY <1>3, <1>5, <2>3
  <2> QED BY <1>4, <2>6, <2>7, DrawnCache
<1> QED BY <1>6, <1>7

\* A cache hit moves the entry to the end and changes nothing else.
LEMMA TouchedFacts ==
  ASSUME NEW cache, NEW max \in Nat, NEW fl, NEW via, NEW h, GoodCache(cache, max, fl, via),
         NEW s \in Touched(cache, h)
  PROVE  GoodCache(s, max, fl, via)
<1> DEFINE P == Places(cache, h)
           n == Len(cache)
<1>0. cache \in Seq(Entry) /\ n \in Nat /\ DOMAIN cache = 1 .. n
  BY DEF GoodCache
<1>1. PICK a \in Without(cache, h), b \in Kept(cache, P) : s = a \o b
  BY DEF Touched
<1>2. P \in SUBSET (1 .. n) /\ (1 .. n) \ P \in SUBSET (1 .. n)
  BY <1>0 DEF Places
<1>3. a \in Kept(cache, (1 .. n) \ P) /\ b \in Kept(cache, P)
  BY <1>0, <1>1 DEF Without
<1> HIDE DEF P
<1>4. /\ a \in Seq(Entry) /\ Len(a) = Cardinality((1 .. n) \ P)
      /\ \E e \in [1 .. Len(a) -> (1 .. n) \ P] :
              /\ \A j, k \in 1 .. Len(a) : e[j] = e[k] => j = k
              /\ \A k \in 1 .. Len(a) : a[k] = cache[e[k]]
  <2> DEFINE Q == (1 .. n) \ P
  <2>1. cache \in Seq(Entry) /\ Q \in SUBSET (1 .. Len(cache)) /\ a \in Kept(cache, Q)
    BY <1>0, <1>2, <1>3
  <2> HIDE DEF Q
  <2>2. /\ a \in Seq(Entry) /\ Len(a) = Cardinality(Q)
        /\ \E e \in [1 .. Len(a) -> Q] :
              /\ \A j, k \in 1 .. Len(a) : e[j] = e[k] => j = k
              /\ \A k \in 1 .. Len(a) : a[k] = cache[e[k]]
    BY <2>1, KeptFacts
  <2> QED BY <2>2 DEF Q
<1>5. /\ b \in Seq(Entry) /\ Len(b) = Cardinality(P)
      /\ \E e \in [1 .. Len(b) -> P] :
              /\ \A j, k \in 1 .. Len(b) : e[j] = e[k] => j = k
              /\ \A k \in 1 .. Len(b) : b[k] = cache[e[k]]
  <2>1. cache \in Seq(Entry) /\ P \in SUBSET (1 .. Len(cache)) /\ b \in Kept(cache, P)
    BY <1>0, <1>2, <1>3
  <2> QED BY <2>1, KeptFacts
<1>6. PICK e \in [1 .. Len(a) -> (1 .. n) \ P] :
              /\ \A j, k \in 1 .. Len(a) : e[j] = e[k] => j = k
              /\ \A k \in 1 .. Len(a) : a[k] = cache[e[k]]
  BY <1>4
<1>7. PICK f \in [1 .. Len(b) -> P] :
              /\ \A j, k \in 1 .. Len(b) : f[j] = f[k] => j = k
              /\ \A k \in 1 .. Len(b) : b[k] = cache[f[k]]
  BY <1>5
<1> DEFINE p == Len(a)
           q == Len(b)
<1>8. a \in Seq(Entry) /\ b \in Seq(Entry) /\ p \in Nat /\ q \in Nat
  <2>1. a \in Seq(Entry) /\ b \in Seq(Entry)
    BY <1>4, <1>5
  <2> QED BY <2>1, LenProperties
<1>9. p + q = n
  <2>1. IsFiniteSet(1 .. n) /\ Cardinality(1 .. n) = n
    BY <1>0, IntervalSize
  <2>2. (1 .. n) \cap P = P
    BY <1>2
  <2>3. Cardinality((1 .. n) \ P) = Cardinality(1 .. n) - Cardinality((1 .. n) \cap P)
    BY <2>1, FS_Difference
  <2>4. p = Cardinality(1 .. n) - q
    BY <1>4, <1>5, <2>2, <2>3
  <2> HIDE DEF n, p, q
  <2> QED BY <1>0, <1>8, <2>1, <2>4
<1>10. /\ s \in Seq(Entry) /\ Len(s) = p + q
       /\ \A k \in 1 .. p + q : s[k] = IF k <= p THEN a[k] ELSE b[k - p]
  BY <1>1, <1>8, ConcatProperties
<1> HIDE DEF n, p, q
<1> DEFINE m == [k \in 1 .. p + q |-> IF k <= p THEN e[k] ELSE f[k - p]]
<1>11. /\ \A k \in 1 .. p + q : k <= p => k \in 1 .. p
       /\ \A k \in 1 .. p + q : ~(k <= p) => k - p \in 1 .. q
  BY <1>8
<1>12. /\ \A k \in 1 .. p : e[k] \in (1 .. n) \ P /\ a[k] = cache[e[k]]
       /\ \A j, k \in 1 .. p : e[j] = e[k] => j = k
       /\ \A k \in 1 .. q : f[k] \in P /\ f[k] \in 1 .. n /\ b[k] = cache[f[k]]
       /\ \A j, k \in 1 .. q : f[j] = f[k] => j = k
  BY <1>2, <1>6, <1>7 DEF p, q
<1>13. m \in [1 .. p + q -> 1 .. n]
  BY <1>11, <1>12
<1>14. \A k \in 1 .. p + q : s[k] = cache[m[k]]
  BY <1>10, <1>11, <1>12
<1>15. \A j, k \in 1 .. p + q : m[j] = m[k] => j = k
  <2> SUFFICES ASSUME NEW j \in 1 .. p + q, NEW k \in 1 .. p + q, m[j] = m[k]
               PROVE  j = k
    OBVIOUS
  <2>1. CASE j <= p /\ k <= p
    BY <1>11, <1>12, <2>1
  <2>2. CASE ~(j <= p) /\ ~(k <= p)
    <3>1. f[j - p] = f[k - p] /\ j - p \in 1 .. q /\ k - p \in 1 .. q
      BY <1>11, <2>2
    <3>2. j - p = k - p
      BY <1>12, <3>1
    <3> QED BY <1>8, <3>2
  <2>3. CASE j <= p /\ ~(k <= p)
    BY <1>11, <1>12, <2>3
  <2>4. CASE ~(j <= p) /\ k <= p
    BY <1>11, <1>12, <2>4
  <2> QED BY <2>1, <2>2, <2>3, <2>4
<1> HIDE DEF m
<1>16. Drawn(s, cache)
  <2>1. Len(s) = p + q /\ s \in Seq(Entry)
    BY <1>10
  <2>2. /\ m \in [1 .. Len(s) -> 1 .. Len(cache)]
        /\ \A j, k \in 1 .. Len(s) : m[j] = m[k] => j = k
        /\ \A k \in 1 .. Len(s) : s[k] = cache[m[k]]
    BY <1>13, <1>14, <1>15, <2>1 DEF n
  <2> QED BY <2>1, <2>2 DEF Drawn
<1>17. Len(s) <= max
  BY <1>9, <1>10 DEF GoodCache, n
<1> QED BY <1>16, <1>17, DrawnCache

\* planDnsCacheCarryover: what the candidate begins with is a good cache under
\* the candidate's own limit and upstream.
LEMMA CarryoverFacts ==
  ASSUME NEW g \in Generation, NEW c \in Configs, NEW live,
         GoodCache(g.cache, g.cfg.max, g.flights, g.cfg.upstream),
         NEW s \in Carryover(g, c, live)
  PROVE  GoodCache(s, c.max, {}, c.upstream)
<1> DEFINE n == Len(g.cache)
<1>0. c.max \in Nat /\ g.cache \in Seq(Entry) /\ n \in Nat /\ DOMAIN g.cache = 1 .. n
  BY DnsAssumption DEF Config, GoodCache
<1>1. CASE SameResolver(g.cfg, c) /\ ~g.cfg.fake /\ ~c.fake
  <2> DEFINE E == {i \in DOMAIN g.cache : g.cache[i].positive /\ g.cache[i].host \in live}
             Above(i) == {j \in E : j >= i}
             I == {i \in E : Cardinality(Above(i)) <= c.max}
  <2>1. s \in Kept(g.cache, I)
    BY <1>1 DEF Carryover
  <2>2. E \in SUBSET (1 .. n) /\ I \in SUBSET (1 .. n) /\ I \subseteq E
    BY <1>0
  <2>3. IsFiniteSet(E)
    BY <1>0, <2>2, IntervalSize, FS_Subset
  <2>4. \A i \in I : Cardinality(Above(i)) <= c.max
    OBVIOUS
  <2>5. \A i \in I : (\A y \in I : i <= y) => I \subseteq Above(i)
    BY <2>2
  <2>6. \A i : Above(i) \in SUBSET E
    OBVIOUS
  <2> HIDE DEF E, I, Above
  <2>7. Cardinality(I) <= c.max
    <3>1. CASE I = {}
      <4>1. Cardinality(I) = 0
        BY <3>1, FS_EmptySet
      <4> QED BY <1>0, <4>1
    <3>2. CASE I # {}
      <4>1. I \in SUBSET Nat
        BY <2>2
      <4>2. PICK x \in I : \A y \in I : x <= y
        BY <3>2, <4>1, LeastNatural
      <4>3. I \subseteq Above(x) /\ Cardinality(Above(x)) <= c.max
        BY <2>4, <2>5, <4>2
      <4>4. IsFiniteSet(Above(x))
        BY <2>3, <2>6, FS_Subset
      <4>5. IsFiniteSet(I) /\ Cardinality(I) <= Cardinality(Above(x))
        BY <4>3, <4>4, FS_Subset
      <4>6. Cardinality(I) \in Nat /\ Cardinality(Above(x)) \in Nat
        BY <4>4, <4>5, FS_CardinalityType
      <4> QED BY <1>0, <4>3, <4>5, <4>6
    <3> QED BY <3>1, <3>2
  <2>8. Drawn(s, g.cache) /\ Len(s) = Cardinality(I)
    BY <1>0, <2>1, <2>2, KeptFacts, KeptDrawn
  <2>9. g.cfg.upstream = c.upstream
    BY <1>1 DEF SameResolver
  <2>10. GoodCache(s, c.max, g.flights, c.upstream)
    BY <2>7, <2>8, <2>9, DrawnCache
  <2> QED BY <2>10, GoodCacheLess
<1>2. CASE ~(SameResolver(g.cfg, c) /\ ~g.cfg.fake /\ ~c.fake)
  <2>1. s = <<>>
    BY <1>2 DEF Carryover
  <2> QED BY <1>0, <2>1 DEF GoodCache
<1> QED BY <1>1, <1>2

-----------------------------------------------------------------------------
(* The inductive invariant.                                                *)

\* The calls of resolve() that hold a handle on g.
OnOf(cl, g) == {c \in Callers : cl[c].gen = g}
\* The calls that await the lookup of h on g.
WaitOf(cl, g, h) == {c \in Callers : cl[c] = [gen |-> g, host |-> h]}

\* RefsExact of any objects and calls.
Exact(objs, cl) ==
  \A g \in DOMAIN objs :
    /\ objs[g].refs = Cardinality(OnOf(cl, g))
    /\ objs[g].flights = {h \in Hosts : WaitOf(cl, g, h) # {}}

\* The store: the active generation is registered, so is every generation that
\* a call holds, each under its own id, and all but the active one are
\* draining.
Sound(objs, st, act) ==
  /\ st[objs[act].id] = act
  /\ \A g \in DOMAIN objs : objs[g].refs > 0 => st[objs[g].id] = g
  /\ \A i \in Ids : st[i] # 0 => /\ objs[st[i]].id = i
                                 /\ objs[st[i]].draining = (st[i] # act)

\* Where the adapter's transaction stands in each phase. The candidate's id is
\* the next one, which nothing registered has; while it is only prepared the
\* candidate is not registered; a committed reload may have seen its old
\* generation released.
TxnSound ==
  /\ counter < Len(gens)
  /\ txn.phase = "idle" => txn = NoTxn /\ \A i \in Ids : store[i] # 0 => i <= counter
  /\ txn.phase # "idle" =>
       /\ txn.old \in DOMAIN gens /\ txn.cand \in DOMAIN gens /\ txn.old # txn.cand
       /\ counter + 1 < Len(gens)
       /\ gens[txn.cand].id = counter + 1 /\ gens[txn.old].id <= counter
       /\ active = IF txn.phase = "committed" THEN txn.cand ELSE txn.old
       /\ \A i \in Ids : store[i] # 0 => i <= counter \/ store[i] = txn.cand
  /\ txn.phase = "prepared" => \A i \in Ids : store[i] # txn.cand
  /\ txn.phase = "committed" => store[gens[txn.old].id] \in {0, txn.old}

\* A draining generation stays registered because a call holds it; the old one
\* of a committed reload also until cleanup looks.
Drained ==
  \A i \in Ids : store[i] \notin {0, active} =>
    \/ gens[store[i]].refs > 0
    \/ txn.phase = "committed" /\ store[i] = txn.old

\* CacheSound of any objects.
Caches(objs) ==
  \A g \in DOMAIN objs :
    GoodCache(objs[g].cache, objs[g].cfg.max, objs[g].flights, objs[g].cfg.upstream)

\* The inductive invariant.
DnsInv ==
  /\ TypeOK
  /\ Exact(gens, caller)
  /\ Sound(gens, store, active)
  /\ Caches(gens)
  /\ TxnSound
  /\ Drained

\* The calls of resolve(), with n generations built.
Callings(n) == [Callers -> {Idle} \cup [gen : 1 .. n, host : Hosts]]

-----------------------------------------------------------------------------
(* The store and the generation objects.                                   *)

\* A generation with a call on it, or with a lookup in flight, has references.
LEMMA BusyFacts ==
  ASSUME NEW objs, NEW cl, Exact(objs, cl), NEW g \in DOMAIN objs
  PROVE  /\ objs[g].refs \in Nat
         /\ \A c \in Callers : cl[c].gen = g => objs[g].refs > 0
         /\ \A h \in objs[g].flights : objs[g].refs > 0
         /\ objs[g].refs = 0 => objs[g].flights = {}
<1> DEFINE on == OnOf(cl, g)
<1>1. IsFiniteSet(on)
  <2>1. on \in SUBSET Callers
    BY DEF OnOf
  <2> QED BY <2>1, DnsAssumption, FS_Subset
<1>2. objs[g].refs = Cardinality(on) /\ objs[g].refs \in Nat
  BY <1>1, FS_CardinalityType DEF Exact
<1>3. objs[g].refs = 0 => on = {}
  BY <1>1, <1>2, FS_EmptySet
<1>4. \A c \in Callers : cl[c].gen = g => c \in on
  BY DEF OnOf
<1>5. \A h \in objs[g].flights : \E c \in Callers : cl[c].gen = g
  <2> SUFFICES ASSUME NEW h \in objs[g].flights
               PROVE  \E c \in Callers : cl[c].gen = g
    OBVIOUS
  <2>1. WaitOf(cl, g, h) # {}
    BY DEF Exact
  <2>2. PICK c \in Callers : cl[c] = [gen |-> g, host |-> h]
    BY <2>1 DEF WaitOf
  <2> QED BY <2>2
<1> HIDE DEF on
<1>6. \A c \in Callers : cl[c].gen = g => objs[g].refs > 0
  BY <1>2, <1>3, <1>4
<1> QED BY <1>2, <1>5, <1>6

\* releaseDrained keeps the store sound: it only removes generations that drain
\* and that no call holds, and leaves none of them.
LEMMA ReleaseFacts ==
  ASSUME NEW objs \in Seq(Generation), NEW cl, Exact(objs, cl),
         NEW st \in [Ids -> 0 .. Len(objs)], NEW act \in DOMAIN objs, Sound(objs, st, act)
  PROVE  LET r == ReleaseDrained(objs, st, act)
         IN  /\ r \in [Ids -> 0 .. Len(objs)]
             /\ Sound(objs, r, act)
             /\ \A i \in Ids : r[i] \in {0, st[i]}
             /\ \A i \in Ids : r[i] \notin {0, act} => objs[r[i]].refs > 0
<1> DEFINE r == ReleaseDrained(objs, st, act)
<1>0. /\ DOMAIN objs = 1 .. Len(objs) /\ Len(objs) \in Nat
      /\ \A g \in DOMAIN objs : objs[g].id \in Ids /\ objs[g].refs \in Nat
  <2>1. \A g \in DOMAIN objs : objs[g] \in Generation
    BY ElementOfSeq
  <2> QED BY <2>1 DEF Generation
<1>1. r = [i \in Ids |-> IF st[i] # 0 /\ st[i] # act /\ Releasable(objs[st[i]]) THEN 0
                         ELSE st[i]]
  BY DEF ReleaseDrained
<1>2. \A i \in Ids : r[i] = IF st[i] # 0 /\ st[i] # act /\ Releasable(objs[st[i]]) THEN 0
                           ELSE st[i]
  BY <1>1
<1>3. r \in [Ids -> 0 .. Len(objs)]
  BY <1>0, <1>1
<1> HIDE DEF r
<1>4. \A i \in Ids : st[i] # 0 => st[i] \in DOMAIN objs
  BY <1>0
<1>5. \A i \in Ids : st[i] # 0 /\ objs[st[i]].refs > 0 => r[i] = st[i]
  BY <1>0, <1>2, <1>4 DEF Releasable
<1>6. \A i \in Ids : st[i] = act => r[i] = st[i]
  BY <1>2
<1>7. \A i \in Ids : r[i] \in {0, st[i]}
  BY <1>2
<1>8. \A i \in Ids : r[i] \notin {0, act} => objs[r[i]].refs > 0
  <2> SUFFICES ASSUME NEW i \in Ids, r[i] \notin {0, act}
               PROVE  objs[r[i]].refs > 0
    OBVIOUS
  <2>1. r[i] = st[i] /\ st[i] \in DOMAIN objs /\ ~Releasable(objs[st[i]])
    BY <1>2, <1>4
  <2>2. objs[st[i]].draining
    BY <2>1 DEF Sound
  <2>3. objs[st[i]].refs = 0 => objs[st[i]].flights = {}
    BY <2>1, BusyFacts
  <2>4. objs[st[i]].refs # 0
    BY <2>1, <2>2, <2>3 DEF Releasable
  <2> QED BY <1>0, <2>1, <2>4
<1>9. Sound(objs, r, act)
  <2>1. r[objs[act].id] = act
    BY <1>0, <1>6 DEF Sound
  <2>2. \A g \in DOMAIN objs : objs[g].refs > 0 => r[objs[g].id] = g
    BY <1>0, <1>5 DEF Sound
  <2>3. \A i \in Ids : r[i] # 0 => /\ objs[r[i]].id = i
                                  /\ objs[r[i]].draining = (r[i] # act)
    BY <1>7 DEF Sound
  <2> QED BY <2>1, <2>2, <2>3 DEF Sound
<1> QED BY <1>3, <1>7, <1>8, <1>9 DEF r

\* One generation object is replaced.
LEMMA GensExcept ==
  ASSUME NEW objs \in Seq(Generation), NEW g \in DOMAIN objs, NEW r \in Generation
  PROVE  LET new == [objs EXCEPT ![g] = r]
         IN  /\ new \in Seq(Generation) /\ Len(new) = Len(objs) /\ DOMAIN new = DOMAIN objs
             /\ \A x \in DOMAIN objs : new[x] = IF x = g THEN r ELSE objs[x]
OBVIOUS

\* endQuery changes the counter alone.
LEMMA EndedFacts ==
  ASSUME NEW r \in Generation, NEW n \in Nat
  PROVE  /\ Ended(r, n) \in Generation
         /\ Ended(r, n).refs = IF r.refs >= n THEN r.refs - n ELSE 0
         /\ Ended(r, n).id = r.id /\ Ended(r, n).cfg = r.cfg /\ Ended(r, n).cache = r.cache
         /\ Ended(r, n).flights = r.flights /\ Ended(r, n).draining = r.draining
<1>1. Ended(r, n) = [r EXCEPT !.refs = IF r.refs >= n THEN r.refs - n ELSE 0]
  BY DEF Ended
<1>2. (IF r.refs >= n THEN r.refs - n ELSE 0) \in Nat
  BY DEF Generation
<1> QED BY <1>1, <1>2 DEF Generation

\* beginQuery changes the counter alone.
LEMMA BegunFacts ==
  ASSUME NEW r \in Generation
  PROVE  /\ Begun(r) \in Generation
         /\ Begun(r).refs = r.refs + 1
         /\ Begun(r).id = r.id /\ Begun(r).cfg = r.cfg /\ Begun(r).cache = r.cache
         /\ Begun(r).flights = r.flights /\ Begun(r).draining = r.draining
<1>1. Begun(r) = [r EXCEPT !.refs = r.refs + 1]
  BY DEF Begun
<1>2. r.refs + 1 \in Nat
  BY DEF Generation
<1> QED BY <1>1, <1>2 DEF Generation

\* The types, in the form the step lemmas use.
LEMMA TypeFacts ==
  ASSUME DnsInv
  PROVE  /\ gens \in Seq(Generation) /\ DOMAIN gens = 1 .. Len(gens) /\ Len(gens) \in 1 .. MaxGens
         /\ active \in DOMAIN gens /\ store \in [Ids -> 0 .. Len(gens)] /\ counter \in Ids
         /\ caller \in Callings(Len(gens)) /\ aborted \subseteq (1 .. Len(gens)) \X Hosts
         /\ stopped \in BOOLEAN
         /\ txn \in [phase : {"idle", "prepared", "committed", "rolled back"},
                    old : 0 .. Len(gens), cand : 0 .. Len(gens)]
         /\ MaxGens \in Nat /\ Len(gens) \in Nat
         /\ \A g \in DOMAIN gens : gens[g] \in Generation
         /\ \A g \in DOMAIN gens :
              /\ gens[g].id \in Ids /\ gens[g].refs \in Nat /\ gens[g].cfg \in Configs
              /\ gens[g].flights \in SUBSET Hosts /\ gens[g].cache \in Seq(Entry)
         /\ \A i \in Ids : store[i] # 0 => store[i] \in DOMAIN gens
<1>1. gens \in Seq(Generation) /\ DOMAIN gens = 1 .. Len(gens) /\ Len(gens) \in 1 .. MaxGens
  <2>1. gens \in Seq(Generation) /\ Len(gens) \in 1 .. MaxGens
    BY DEF DnsInv, TypeOK
  <2> QED BY <2>1, LenProperties
<1>2. \A g \in DOMAIN gens : gens[g] \in Generation
  BY <1>1, ElementOfSeq
<1>3. \A g \in DOMAIN gens :
        /\ gens[g].id \in Ids /\ gens[g].refs \in Nat /\ gens[g].cfg \in Configs
        /\ gens[g].flights \in SUBSET Hosts /\ gens[g].cache \in Seq(Entry)
  BY <1>2 DEF Generation
<1>4. store \in [Ids -> 0 .. Len(gens)]
  BY DEF DnsInv, TypeOK
<1>5. \A i \in Ids : store[i] # 0 => store[i] \in DOMAIN gens
  BY <1>1, <1>4
<1>6. MaxGens \in Nat /\ Len(gens) \in Nat
  BY <1>1, DnsAssumption
<1> QED BY <1>1, <1>2, <1>3, <1>4, <1>5, <1>6 DEF DnsInv, TypeOK, Callings

-----------------------------------------------------------------------------
(* The steps.                                                              *)

\* What all steps of a lookup share: no generation gains its first reference,
\* and releaseDrained ends the step.
LEMMA LookupStep ==
  ASSUME DnsInv,
         gens' \in Seq(Generation), Len(gens') = Len(gens),
         \A g \in DOMAIN gens : /\ gens'[g].id = gens[g].id
                                /\ gens'[g].draining = gens[g].draining
                                /\ gens'[g].refs > 0 => gens[g].refs > 0,
         Caches(gens'), Exact(gens', caller'), caller' \in Callings(Len(gens)),
         aborted' \subseteq (1 .. Len(gens)) \X Hosts, stopped' \in BOOLEAN,
         store' = ReleaseDrained(gens', store, active), UNCHANGED <<active, counter>>
  PROVE  /\ store' \in [Ids -> 0 .. Len(gens)]
         /\ Sound(gens', store', active')
         /\ \A i \in Ids : store'[i] \in {0, store[i]}
         /\ \A i \in Ids : store'[i] \notin {0, active} => gens'[store'[i]].refs > 0
         /\ UNCHANGED txn => DnsInv'
<1>0. /\ DOMAIN gens = 1 .. Len(gens) /\ active \in DOMAIN gens /\ store \in [Ids -> 0 .. Len(gens)]
      /\ \A g \in DOMAIN gens : gens[g].id \in Ids
      /\ \A i \in Ids : store[i] # 0 => store[i] \in DOMAIN gens
  BY TypeFacts
<1> USE <1>0
<1>1. DOMAIN gens' = DOMAIN gens /\ DOMAIN gens' = 1 .. Len(gens)
  OBVIOUS
<1>2. Sound(gens', store, active)
  <2>1. store[gens'[active].id] = active
    BY DEF DnsInv, Sound
  <2>2. \A g \in DOMAIN gens' : gens'[g].refs > 0 => store[gens'[g].id] = g
    BY <1>1 DEF DnsInv, Sound
  <2>3. \A i \in Ids : store[i] # 0 => /\ gens'[store[i]].id = i
                                      /\ gens'[store[i]].draining = (store[i] # active)
    BY DEF DnsInv, Sound
  <2> QED BY <2>1, <2>2, <2>3 DEF Sound
<1>3. /\ store' \in [Ids -> 0 .. Len(gens')]
      /\ Sound(gens', store', active)
      /\ \A i \in Ids : store'[i] \in {0, store[i]}
      /\ \A i \in Ids : store'[i] \notin {0, active} => gens'[store'[i]].refs > 0
  <2>1. active \in DOMAIN gens' /\ store \in [Ids -> 0 .. Len(gens')]
    BY <1>1
  <2> QED BY <1>2, <2>1, ReleaseFacts
<1>4. ASSUME UNCHANGED txn
      PROVE  DnsInv'
  <2>1. TypeOK'
    <3>1. /\ Len(gens') \in 1 .. MaxGens /\ counter' \in Ids /\ active' \in DOMAIN gens'
          /\ txn' \in [phase : {"idle", "prepared", "committed", "rolled back"},
                      old : 0 .. Len(gens'), cand : 0 .. Len(gens')]
      BY <1>1, <1>4, TypeFacts
    <3>2. /\ caller' \in [Callers -> {Idle} \cup [gen : DOMAIN gens', host : Hosts]]
          /\ aborted' \subseteq (DOMAIN gens') \X Hosts
      BY <1>1 DEF Callings
    <3> QED BY <1>3, <3>1, <3>2 DEF TypeOK
  <2>2. TxnSound'
    <3>1. \A i \in Ids : store'[i] # 0 => store'[i] = store[i]
      BY <1>3
    <3>2. txn.phase = "committed" => store'[gens'[txn.old].id] \in {0, txn.old}
      BY <1>3 DEF DnsInv, TxnSound
    <3>3. txn.phase = "prepared" => \A i \in Ids : store'[i] # txn.cand
      <4>1. txn.phase = "prepared" => txn.cand # 0
        BY DEF DnsInv, TxnSound
      <4> QED BY <1>3, <4>1 DEF DnsInv, TxnSound
    <3>4. txn.phase = "idle" => txn = NoTxn /\ \A i \in Ids : store'[i] # 0 => i <= counter
      BY <3>1 DEF DnsInv, TxnSound
    <3>5. txn.phase # "idle" =>
       /\ txn.old \in DOMAIN gens /\ txn.cand \in DOMAIN gens /\ txn.old # txn.cand
       /\ counter + 1 < Len(gens')
       /\ gens'[txn.cand].id = counter + 1 /\ gens'[txn.old].id <= counter
       /\ active = IF txn.phase = "committed" THEN txn.cand ELSE txn.old
       /\ \A i \in Ids : store'[i] # 0 => i <= counter \/ store'[i] = txn.cand
      BY <3>1 DEF DnsInv, TxnSound
    <3> QED BY <1>1, <1>4, <3>2, <3>3, <3>4, <3>5 DEF DnsInv, TxnSound
  <2>3. Drained'
    BY <1>3 DEF Drained
  <2> QED BY <1>3, <2>1, <2>2, <2>3 DEF DnsInv
<1> QED BY <1>3, <1>4

\* A static host or a cached result: the handle is acquired and released.
LEMMA ResolveAtOnceStep ==
  ASSUME DnsInv, NEW h \in Hosts, ResolveAtOnce(h)
  PROVE  DnsInv'
<1> DEFINE g == gens[active]
<1>0. /\ DOMAIN gens = 1 .. Len(gens) /\ active \in DOMAIN gens /\ gens \in Seq(Generation)
      /\ g \in Generation /\ caller \in Callings(Len(gens))
      /\ aborted \subseteq (1 .. Len(gens)) \X Hosts /\ stopped \in BOOLEAN
      /\ g.refs \in Nat /\ g.cfg \in Configs /\ g.flights \in SUBSET Hosts
  BY TypeFacts
<1>1. UNCHANGED <<active, txn, counter, caller, aborted, stopped>>
  BY DEF ResolveAtOnce
<1>2. CASE UNCHANGED gens /\ store' = ReleaseDrained(gens, store, active)
  BY <1>0, <1>1, <1>2, LookupStep DEF DnsInv
<1>3. ASSUME NEW cache \in Touched(g.cache, h),
             gens' = [gens EXCEPT ![active] = Ended(Begun([g EXCEPT !.cache = cache]), 1)],
             store' = ReleaseDrained(gens', store, active)
      PROVE  DnsInv'
  <2> DEFINE a == [g EXCEPT !.cache = cache]
             b == Begun(a)
             r == Ended(b, 1)
  <2>1. GoodCache(g.cache, g.cfg.max, g.flights, g.cfg.upstream) /\ g.cfg.max \in Nat
    BY <1>0, DnsAssumption DEF DnsInv, Caches, Config
  <2>2. GoodCache(cache, g.cfg.max, g.flights, g.cfg.upstream)
    BY <1>3, <2>1, TouchedFacts
  <2>3. /\ a \in Generation /\ a.cache = cache /\ a.flights = g.flights /\ a.id = g.id
        /\ a.cfg = g.cfg /\ a.draining = g.draining /\ a.refs = g.refs
    BY <1>0, <2>2 DEF Generation, GoodCache
  <2> HIDE DEF a
  <2>4. /\ b \in Generation /\ b.cache = cache /\ b.flights = g.flights /\ b.id = g.id
        /\ b.cfg = g.cfg /\ b.draining = g.draining /\ b.refs = g.refs + 1
    BY <2>3, BegunFacts
  <2> HIDE DEF b
  <2>5. /\ r \in Generation /\ r.cache = b.cache /\ r.flights = b.flights /\ r.id = b.id
        /\ r.cfg = b.cfg /\ r.draining = b.draining
        /\ r.refs = IF b.refs >= 1 THEN b.refs - 1 ELSE 0
    BY <2>4, EndedFacts
  <2>6. /\ r \in Generation /\ r.cache = cache /\ r.flights = g.flights /\ r.id = g.id
        /\ r.cfg = g.cfg /\ r.draining = g.draining /\ r.refs = g.refs
    <3>1. r.refs = g.refs
      BY <1>0, <2>4, <2>5
    <3> QED BY <2>4, <2>5, <3>1
  <2>7. gens' = [gens EXCEPT ![active] = r]
    BY <1>3 DEF a, b
  <2> HIDE DEF r
  <2>8. /\ gens' \in Seq(Generation) /\ Len(gens') = Len(gens) /\ DOMAIN gens' = DOMAIN gens
        /\ \A x \in DOMAIN gens : gens'[x] = IF x = active THEN r ELSE gens[x]
    BY <1>0, <2>6, <2>7, GensExcept
  <2>9. Caches(gens')
    BY <2>2, <2>6, <2>8 DEF DnsInv, Caches
  <2>10. Exact(gens', caller')
    BY <1>1, <2>6, <2>8 DEF DnsInv, Exact
  <2>11. \A x \in DOMAIN gens : /\ gens'[x].id = gens[x].id
                                /\ gens'[x].draining = gens[x].draining
                                /\ gens'[x].refs > 0 => gens[x].refs > 0
    BY <2>6, <2>8
  <2>12. /\ caller' \in Callings(Len(gens)) /\ stopped' \in BOOLEAN
         /\ aborted' \subseteq (1 .. Len(gens)) \X Hosts
    BY <1>0, <1>1
  <2> QED BY <1>1, <1>3, <2>8, <2>9, <2>10, <2>11, <2>12, LookupStep
<1> QED BY <1>2, <1>3 DEF ResolveAtOnce

\* The end of a flight: the calls that joined it release exactly the references
\* they took.
LEMMA LandedStep ==
  ASSUME DnsInv, NEW g \in DOMAIN gens, NEW h \in Hosts, h \in gens[g].flights, NEW cache,
         GoodCache(cache, gens[g].cfg.max, gens[g].flights \ {h}, gens[g].cfg.upstream),
         Landed(g, h, cache)
  PROVE  DnsInv'
<1> DEFINE w == Waiting(g, h)
           n == Cardinality(w)
           fl == gens[g].flights \ {h}
           a == [gens[g] EXCEPT !.cache = cache, !.flights = fl]
           r == Ended(a, n)
<1>0. /\ DOMAIN gens = 1 .. Len(gens) /\ gens \in Seq(Generation) /\ gens[g] \in Generation
      /\ caller \in Callings(Len(gens)) /\ aborted \subseteq (1 .. Len(gens)) \X Hosts
      /\ stopped \in BOOLEAN /\ gens[g].refs \in Nat /\ gens[g].flights \in SUBSET Hosts
  BY TypeFacts
<1>1. /\ UNCHANGED <<active, txn, counter, aborted, stopped>>
      /\ store' = ReleaseDrained(gens', store, active)
      /\ caller' = [c \in Callers |-> IF c \in w THEN Idle ELSE caller[c]]
      /\ gens' = [gens EXCEPT ![g] = r]
  BY DEF Landed
<1>2. w = WaitOf(caller, g, h) /\ w \subseteq OnOf(caller, g)
  BY DEF Waiting, WaitOf, OnOf
<1>3. /\ IsFiniteSet(OnOf(caller, g)) /\ IsFiniteSet(w) /\ n \in Nat
      /\ gens[g].refs = Cardinality(OnOf(caller, g)) /\ n <= gens[g].refs
      /\ Cardinality(OnOf(caller, g) \ w) = gens[g].refs - n
  <2>1. IsFiniteSet(OnOf(caller, g))
    <3>1. OnOf(caller, g) \in SUBSET Callers
      BY DEF OnOf
    <3> QED BY <3>1, DnsAssumption, FS_Subset
  <2>2. IsFiniteSet(w) /\ n <= Cardinality(OnOf(caller, g)) /\ n \in Nat
    BY <1>2, <2>1, FS_Subset, FS_CardinalityType
  <2>3. OnOf(caller, g) \cap w = w
    BY <1>2
  <2>4. Cardinality(OnOf(caller, g) \ w) = Cardinality(OnOf(caller, g)) - n
    BY <2>1, <2>3, FS_Difference
  <2>5. gens[g].refs = Cardinality(OnOf(caller, g))
    BY DEF DnsInv, Exact
  <2> QED BY <2>1, <2>2, <2>4, <2>5
<1> HIDE DEF w, n
<1>4. /\ a \in Generation /\ a.cache = cache /\ a.flights = fl
      /\ a.id = gens[g].id /\ a.cfg = gens[g].cfg /\ a.draining = gens[g].draining
      /\ a.refs = gens[g].refs
  BY <1>0 DEF Generation, GoodCache
<1> HIDE DEF a
<1>5. /\ r \in Generation /\ r.cache = cache /\ r.flights = fl
      /\ r.id = gens[g].id /\ r.cfg = gens[g].cfg /\ r.draining = gens[g].draining
      /\ r.refs = IF gens[g].refs >= n THEN gens[g].refs - n ELSE 0
  BY <1>3, <1>4, EndedFacts
<1>6. r.refs = gens[g].refs - n
  BY <1>0, <1>3, <1>5
<1> HIDE DEF r
<1>7. /\ gens' \in Seq(Generation) /\ Len(gens') = Len(gens) /\ DOMAIN gens' = DOMAIN gens
      /\ \A x \in DOMAIN gens : gens'[x] = IF x = g THEN r ELSE gens[x]
  BY <1>0, <1>1, <1>5, GensExcept
<1>8. Caches(gens')
  BY <1>5, <1>7 DEF DnsInv, Caches
<1>9. \A c \in Callers : caller'[c] = IF c \in w THEN Idle ELSE caller[c]
  BY <1>1
<1>10. \A x \in DOMAIN gens : OnOf(caller', x) = IF x = g THEN OnOf(caller, g) \ w ELSE OnOf(caller, x)
  <2>1. Idle.gen = 0 /\ \A x \in DOMAIN gens : x # 0
    BY <1>0 DEF Idle
  <2>2. \A c \in w : caller[c].gen = g
    BY <1>2 DEF OnOf
  <2> QED BY <1>9, <2>1, <2>2 DEF OnOf
<1>11. \A x \in DOMAIN gens, k \in Hosts :
         WaitOf(caller', x, k) = IF x = g /\ k = h THEN {} ELSE WaitOf(caller, x, k)
  <2>1. \A x \in DOMAIN gens, k \in Hosts : Idle # [gen |-> x, host |-> k]
    BY <1>0 DEF Idle
  <2>2. \A c \in Callers : c \in w <=> caller[c] = [gen |-> g, host |-> h]
    BY <1>2 DEF WaitOf
  <2>3. \A x, k : [gen |-> x, host |-> k] = [gen |-> g, host |-> h] => x = g /\ k = h
    OBVIOUS
  <2> QED BY <1>9, <2>1, <2>2, <2>3, ZenonT(60) DEF WaitOf
<1>12. Exact(gens', caller')
  <2> SUFFICES ASSUME NEW x \in DOMAIN gens
               PROVE  /\ gens'[x].refs = Cardinality(OnOf(caller', x))
                      /\ gens'[x].flights = {k \in Hosts : WaitOf(caller', x, k) # {}}
    BY <1>7 DEF Exact
  <2>0. /\ gens[x].refs = Cardinality(OnOf(caller, x))
        /\ gens[x].flights = {k \in Hosts : WaitOf(caller, x, k) # {}}
    BY DEF DnsInv, Exact
  <2>1. CASE x = g
    <3>1. gens'[x].refs = Cardinality(OnOf(caller', x))
      BY <1>3, <1>6, <1>7, <1>10, <2>1
    <3>2. gens'[x].flights = {k \in Hosts : WaitOf(caller', x, k) # {}}
      BY <1>5, <1>7, <1>11, <2>0, <2>1
    <3> QED BY <3>1, <3>2
  <2>2. CASE x # g
    BY <1>7, <1>10, <1>11, <2>0, <2>2
  <2> QED BY <2>1, <2>2
<1>13. caller' \in Callings(Len(gens))
  BY <1>0, <1>1 DEF Callings
<1>14. \A x \in DOMAIN gens : /\ gens'[x].id = gens[x].id
                              /\ gens'[x].draining = gens[x].draining
                              /\ gens'[x].refs > 0 => gens[x].refs > 0
  BY <1>0, <1>3, <1>5, <1>6, <1>7
<1>15. aborted' \subseteq (1 .. Len(gens)) \X Hosts /\ stopped' \in BOOLEAN
  BY <1>0, <1>1
<1> QED BY <1>1, <1>7, <1>8, <1>12, <1>13, <1>14, <1>15, LookupStep

\* A call joins or starts a flight on the active generation.
LEMMA ResolveUpstreamStep ==
  ASSUME DnsInv, NEW c \in Callers, NEW h \in Hosts, ResolveUpstream(c, h)
  PROVE  DnsInv'
<1> DEFINE g == gens[active]
           D == DOMAIN gens
<1>0. /\ D = 1 .. Len(gens) /\ active \in D /\ gens \in Seq(Generation)
      /\ g \in Generation /\ caller \in Callings(Len(gens))
      /\ g.refs \in Nat /\ g.cfg \in Configs /\ g.flights \in SUBSET Hosts
  BY TypeFacts
<1>1. /\ UNCHANGED <<store, active, txn, counter, aborted, stopped>>
      /\ caller[c] = Idle /\ caller' = [caller EXCEPT ![c] = [gen |-> active, host |-> h]]
  BY DEF ResolveUpstream
<1>2. PICK rest \in Without(g.cache, h) :
        gens' = [gens EXCEPT ![active] =
                   Begun([g EXCEPT !.cache = rest, !.flights = g.flights \cup {h}])]
  BY DEF ResolveUpstream
<1> DEFINE fl == g.flights \cup {h}
           a == [g EXCEPT !.cache = rest, !.flights = fl]
           r == Begun(a)
<1>3. GoodCache(rest, g.cfg.max, fl, g.cfg.upstream)
  <2>1. GoodCache(g.cache, g.cfg.max, g.flights, g.cfg.upstream) /\ g.cfg.max \in Nat
    BY <1>0, DnsAssumption DEF DnsInv, Caches, Config
  <2> QED BY <2>1, WithoutFacts
<1>4. /\ a \in Generation /\ a.cache = rest /\ a.flights = fl /\ a.id = g.id
      /\ a.cfg = g.cfg /\ a.draining = g.draining /\ a.refs = g.refs
  <2>1. rest \in Seq(Entry) /\ fl \in SUBSET Hosts
    BY <1>0, <1>3 DEF GoodCache
  <2> HIDE DEF fl
  <2> QED BY <1>0, <2>1 DEF Generation
<1>5. gens' = [gens EXCEPT ![active] = r]
  BY <1>2
<1> HIDE DEF a, fl
<1>6. /\ r \in Generation /\ r.cache = rest /\ r.flights = fl /\ r.id = g.id
      /\ r.cfg = g.cfg /\ r.draining = g.draining /\ r.refs = g.refs + 1
  BY <1>4, BegunFacts
<1> HIDE DEF r
<1>7. /\ gens' \in Seq(Generation) /\ Len(gens') = Len(gens) /\ DOMAIN gens' = D
      /\ \A x \in D : gens'[x] = IF x = active THEN r ELSE gens[x]
  BY <1>0, <1>5, <1>6, GensExcept
<1>8. Caches(gens')
  BY <1>3, <1>6, <1>7 DEF DnsInv, Caches
<1>9. /\ caller' \in Callings(Len(gens))
      /\ \A x \in Callers : caller'[x] = IF x = c THEN [gen |-> active, host |-> h] ELSE caller[x]
  BY <1>0, <1>1 DEF Callings
<1>10. \A x \in D : OnOf(caller', x) = IF x = active THEN OnOf(caller, x) \cup {c} ELSE OnOf(caller, x)
  <2>1. caller[c].gen = 0 /\ \A x \in D : x # 0
    BY <1>0, <1>1 DEF Idle
  <2> QED BY <1>9, <2>1 DEF OnOf
<1>11. \A x \in D, k \in Hosts :
         WaitOf(caller', x, k) = IF x = active /\ k = h THEN WaitOf(caller, x, k) \cup {c}
                                 ELSE WaitOf(caller, x, k)
  <2>1. \A x \in D, k \in Hosts : caller[c] # [gen |-> x, host |-> k]
    BY <1>0, <1>1 DEF Idle
  <2>2. \A x, k : [gen |-> x, host |-> k] = [gen |-> active, host |-> h] => x = active /\ k = h
    OBVIOUS
  <2> QED BY <1>9, <2>1, <2>2, ZenonT(60) DEF WaitOf
<1>12. Cardinality(OnOf(caller, active) \cup {c}) = g.refs + 1
  <2>1. OnOf(caller, active) \in SUBSET Callers
    BY DEF OnOf
  <2>2. IsFiniteSet(OnOf(caller, active))
    BY <2>1, DnsAssumption, FS_Subset
  <2>3. c \notin OnOf(caller, active)
    BY <1>0, <1>1 DEF OnOf, Idle
  <2>4. g.refs = Cardinality(OnOf(caller, active))
    BY <1>0 DEF DnsInv, Exact
  <2> QED BY <2>2, <2>3, <2>4, FS_AddElement
<1>13. Exact(gens', caller')
  <2> SUFFICES ASSUME NEW x \in D
               PROVE  /\ gens'[x].refs = Cardinality(OnOf(caller', x))
                      /\ gens'[x].flights = {k \in Hosts : WaitOf(caller', x, k) # {}}
    BY <1>7 DEF Exact
  <2>0. /\ gens[x].refs = Cardinality(OnOf(caller, x))
        /\ gens[x].flights = {k \in Hosts : WaitOf(caller, x, k) # {}}
    BY DEF DnsInv, Exact
  <2>1. CASE x = active
    <3>1. gens'[x].refs = Cardinality(OnOf(caller', x))
      BY <1>6, <1>7, <1>10, <1>12, <2>1
    <3>2. gens'[x].flights = {k \in Hosts : WaitOf(caller', x, k) # {}}
      BY <1>6, <1>7, <1>11, <2>0, <2>1 DEF fl
    <3> QED BY <3>1, <3>2
  <2>2. CASE x # active
    BY <1>7, <1>10, <1>11, <2>0, <2>2
  <2> QED BY <2>1, <2>2
<1>14. Sound(gens', store', active')
  <2>1. \A x \in D : gens'[x].id = gens[x].id /\ gens'[x].draining = gens[x].draining
                     /\ (gens'[x].refs > 0 => gens[x].refs > 0 \/ x = active)
    BY <1>6, <1>7
  <2>2. store[gens[active].id] = active
    BY DEF DnsInv, Sound
  <2>3. store'[gens'[active'].id] = active'
    BY <1>0, <1>1, <2>1, <2>2
  <2>4. \A x \in DOMAIN gens' : gens'[x].refs > 0 => store'[gens'[x].id] = x
    BY <1>1, <1>7, <2>1, <2>2 DEF DnsInv, Sound
  <2>5. \A i \in Ids : store[i] # 0 => store[i] \in D
    BY TypeFacts
  <2>6. \A i \in Ids : store'[i] # 0 => /\ gens'[store'[i]].id = i
                                       /\ gens'[store'[i]].draining = (store'[i] # active')
    BY <1>1, <2>1, <2>5 DEF DnsInv, Sound
  <2> QED BY <2>3, <2>4, <2>6 DEF Sound
<1>15. TypeOK'
  BY <1>1, <1>7, <1>9 DEF DnsInv, TypeOK, Callings
<1>16. TxnSound'
  <2>1. \A x \in D : gens'[x].id = gens[x].id
    BY <1>6, <1>7
  <2> QED BY <1>1, <1>7, <2>1 DEF DnsInv, TxnSound
<1>17. Drained'
  <2>1. \A x \in D : gens[x].refs > 0 => gens'[x].refs > 0
    BY <1>0, <1>6, <1>7
  <2>2. \A i \in Ids : store[i] # 0 => store[i] \in D
    BY TypeFacts
  <2> QED BY <1>1, <2>1, <2>2 DEF DnsInv, Drained
<1> QED BY <1>8, <1>13, <1>14, <1>15, <1>16, <1>17 DEF DnsInv

\* An answer, a failure and a fallback land on the generation that began the
\* flight.
LEMMA AnswerStep ==
  ASSUME DnsInv, NEW g \in DOMAIN gens, NEW h \in Hosts,
         Answer(g, h) \/ Failure(g, h) \/ Fallback(g, h)
  PROVE  DnsInv'
<1> DEFINE r == gens[g]
<1>0. r \in Generation /\ r.cfg \in Configs /\ h \in r.flights
  BY TypeFacts DEF Answer, Failure, Fallback
<1>1. GoodCache(r.cache, r.cfg.max, r.flights, r.cfg.upstream) /\ r.cfg.max \in Nat \ {0}
  BY <1>0, DnsAssumption DEF DnsInv, Caches, Config
<1>2. ASSUME NEW positive \in BOOLEAN, NEW cache \in Stored(r.cache, EntryOf(g, h, positive), r.cfg.max)
      PROVE  GoodCache(cache, r.cfg.max, r.flights \ {h}, r.cfg.upstream)
  <2> DEFINE e == EntryOf(g, h, positive)
  <2>1. e \in Entry /\ e.host = h /\ e.via = r.cfg.upstream
    BY <1>0 DEF EntryOf, Entry
  <2> HIDE DEF e
  <2>2. cache \in Stored(r.cache, e, r.cfg.max)
    BY <1>2 DEF e
  <2> QED BY <1>1, <2>1, <2>2, StoredFacts
<1>3. CASE Answer(g, h)
  <2>1. PICK cache \in Stored(r.cache, EntryOf(g, h, TRUE), r.cfg.max) : Landed(g, h, cache)
    BY <1>3 DEF Answer
  <2> QED BY <1>0, <1>2, <2>1, LandedStep
<1>4. CASE Failure(g, h)
  <2>1. PICK cache \in Stored(r.cache, EntryOf(g, h, FALSE), r.cfg.max) : Landed(g, h, cache)
    BY <1>4 DEF Failure
  <2> QED BY <1>0, <1>2, <2>1, LandedStep
<1>5. CASE Fallback(g, h)
  <2>1. GoodCache(r.cache, r.cfg.max, r.flights \ {h}, r.cfg.upstream)
    BY <1>1, GoodCacheLess
  <2> QED BY <1>0, <1>5, <2>1, LandedStep DEF Fallback
<1> QED BY <1>3, <1>4, <1>5

\* A lookup that returns after its abort writes nothing.
LEMMA LateAnswerStep ==
  ASSUME DnsInv, NEW g, NEW h, LateAnswer(g, h)
  PROVE  DnsInv'
<1>1. UNCHANGED <<gens, store, active, txn, counter, caller, stopped>> /\ aborted' \subseteq aborted
  BY DEF LateAnswer
<1>2. TypeOK'
  BY <1>1 DEF DnsInv, TypeOK
<1> QED BY <1>1, <1>2 DEF DnsInv, TxnSound, Drained

\* The abort of all lookups of some generations: their counters return to zero
\* because every call on them ends.
LEMMA AbortStep ==
  ASSUME DnsInv, NEW S \in SUBSET DOMAIN gens, Abort(S, store, active),
         UNCHANGED <<active, counter>>, stopped' \in BOOLEAN
  PROVE  /\ store' \in [Ids -> 0 .. Len(gens)]
         /\ Sound(gens', store', active')
         /\ \A i \in Ids : store'[i] \in {0, store[i]}
         /\ \A i \in Ids : store'[i] \notin {0, active} => gens'[store'[i]].refs > 0
         /\ \A g \in S : gens'[g].refs = 0
         /\ gens' \in Seq(Generation) /\ Len(gens') = Len(gens) /\ Caches(gens')
         /\ Exact(gens', caller') /\ caller' \in Callings(Len(gens))
         /\ aborted' \subseteq (1 .. Len(gens)) \X Hosts
         /\ \A g \in DOMAIN gens : gens'[g].id = gens[g].id
         /\ UNCHANGED txn => DnsInv'
<1> DEFINE D == DOMAIN gens
           n(g) == Cardinality({c \in Callers : caller[c].gen = g})
           b(g) == [gens[g] EXCEPT !.flights = {}]
           r(g) == IF g \in S THEN Ended(b(g), n(g)) ELSE gens[g]
<1>0. /\ D = 1 .. Len(gens) /\ gens \in Seq(Generation) /\ Len(gens) \in Nat
      /\ \A g \in D : gens[g] \in Generation
      /\ \A g \in D : gens[g].refs \in Nat /\ gens[g].flights \in SUBSET Hosts
      /\ caller \in Callings(Len(gens)) /\ aborted \subseteq (1 .. Len(gens)) \X Hosts
  BY TypeFacts
<1>1. /\ gens' = [g \in D |-> r(g)]
      /\ caller' = [c \in Callers |-> IF caller[c].gen \in S THEN Idle ELSE caller[c]]
      /\ aborted' = aborted \cup UNION {{g} \X gens[g].flights : g \in S}
      /\ store' = ReleaseDrained(gens', store, active)
  BY DEF Abort
<1>2. ASSUME NEW g \in D
      PROVE  /\ r(g) \in Generation /\ r(g).id = gens[g].id /\ r(g).draining = gens[g].draining
             /\ r(g).cfg = gens[g].cfg /\ r(g).cache = gens[g].cache
             /\ r(g).refs = IF g \in S THEN 0 ELSE gens[g].refs
             /\ r(g).flights = IF g \in S THEN {} ELSE gens[g].flights
  <2>1. gens[g].refs = n(g) /\ n(g) \in Nat
    BY <1>0 DEF DnsInv, Exact, OnOf
  <2>2. /\ b(g) \in Generation /\ b(g).id = gens[g].id /\ b(g).draining = gens[g].draining
        /\ b(g).cfg = gens[g].cfg /\ b(g).cache = gens[g].cache /\ b(g).flights = {}
        /\ b(g).refs = n(g)
    BY <1>0, <2>1 DEF Generation
  <2> HIDE DEF b, n
  <2>3. /\ Ended(b(g), n(g)) \in Generation
        /\ Ended(b(g), n(g)).refs = IF b(g).refs >= n(g) THEN b(g).refs - n(g) ELSE 0
        /\ Ended(b(g), n(g)).id = b(g).id /\ Ended(b(g), n(g)).cfg = b(g).cfg
        /\ Ended(b(g), n(g)).cache = b(g).cache
        /\ Ended(b(g), n(g)).flights = b(g).flights /\ Ended(b(g), n(g)).draining = b(g).draining
    BY <2>1, <2>2, EndedFacts
  <2>4. (IF b(g).refs >= n(g) THEN b(g).refs - n(g) ELSE 0) = 0
    BY <2>1, <2>2
  <2>5. CASE g \in S
    <3>1. r(g) = Ended(b(g), n(g))
      BY <2>5
    <3> HIDE DEF r
    <3> QED BY <2>2, <2>3, <2>4, <2>5, <3>1
  <2>6. CASE g \notin S
    <3>1. r(g) = gens[g]
      BY <2>6
    <3> HIDE DEF r
    <3> QED BY <1>0, <2>6, <3>1
  <2> QED BY <2>5, <2>6
<1> HIDE DEF r
<1>3. /\ DOMAIN gens' = D /\ \A g \in D : gens'[g] = r(g)
      /\ gens' \in Seq(Generation) /\ Len(gens') = Len(gens)
  BY <1>0, <1>1, <1>2
<1>4. Caches(gens')
  <2> SUFFICES ASSUME NEW g \in D
               PROVE  GoodCache(r(g).cache, r(g).cfg.max, r(g).flights, r(g).cfg.upstream)
    BY <1>3 DEF Caches
  <2>1. GoodCache(gens[g].cache, gens[g].cfg.max, gens[g].flights, gens[g].cfg.upstream)
    BY DEF DnsInv, Caches
  <2>2. r(g).flights \subseteq gens[g].flights
    BY <1>2
  <2> QED BY <1>2, <2>1, <2>2, GoodCacheLess
<1>5. \A c \in Callers : caller'[c] = IF caller[c].gen \in S THEN Idle ELSE caller[c]
  BY <1>1
<1>6. \A g \in D : OnOf(caller', g) = IF g \in S THEN {} ELSE OnOf(caller, g)
  <2>1. Idle.gen = 0 /\ \A x \in D : x # 0
    BY <1>0 DEF Idle
  <2> QED BY <1>5, <2>1 DEF OnOf
<1>7. \A g \in D, h \in Hosts : WaitOf(caller', g, h) = IF g \in S THEN {} ELSE WaitOf(caller, g, h)
  <2>1. \A x \in D, k \in Hosts : Idle # [gen |-> x, host |-> k]
    BY <1>0 DEF Idle
  <2>2. \A x, k : [gen |-> x, host |-> k].gen = x
    OBVIOUS
  <2> QED BY <1>5, <2>1, <2>2 DEF WaitOf
<1>8. Exact(gens', caller')
  <2> SUFFICES ASSUME NEW g \in D
               PROVE  /\ r(g).refs = Cardinality(OnOf(caller', g))
                      /\ r(g).flights = {h \in Hosts : WaitOf(caller', g, h) # {}}
    BY <1>3 DEF Exact
  <2>0. /\ gens[g].refs = Cardinality(OnOf(caller, g))
        /\ gens[g].flights = {h \in Hosts : WaitOf(caller, g, h) # {}}
    BY DEF DnsInv, Exact
  <2>1. CASE g \in S
    BY <1>2, <1>6, <1>7, <2>1, FS_EmptySet
  <2>2. CASE g \notin S
    BY <1>2, <1>6, <1>7, <2>0, <2>2
  <2> QED BY <2>1, <2>2
<1>9. caller' \in Callings(Len(gens))
  BY <1>0, <1>1 DEF Callings
<1>10. aborted' \subseteq (1 .. Len(gens)) \X Hosts
  <2>1. \A g \in S : {g} \X gens[g].flights \subseteq (1 .. Len(gens)) \X Hosts
    BY <1>0
  <2> QED BY <1>0, <1>1, <2>1
<1>11. \A g \in D : /\ gens'[g].id = gens[g].id
                    /\ gens'[g].draining = gens[g].draining
                    /\ gens'[g].refs > 0 => gens[g].refs > 0
  BY <1>0, <1>2, <1>3
<1>12. \A g \in S : gens'[g].refs = 0
  BY <1>2, <1>3
<1>13. /\ store' \in [Ids -> 0 .. Len(gens)]
       /\ Sound(gens', store', active')
       /\ \A i \in Ids : store'[i] \in {0, store[i]}
       /\ \A i \in Ids : store'[i] \notin {0, active} => gens'[store'[i]].refs > 0
       /\ UNCHANGED txn => DnsInv'
  BY <1>1, <1>3, <1>4, <1>8, <1>9, <1>10, <1>11, LookupStep
<1> QED BY <1>3, <1>4, <1>8, <1>9, <1>10, <1>11, <1>12, <1>13

\* SystemDnsResolver.stop.
LEMMA ShutdownStep ==
  ASSUME DnsInv, Shutdown
  PROVE  DnsInv'
<1> DEFINE S == {store[i] : i \in Ids} \ {0}
<1>1. S \in SUBSET DOMAIN gens
  BY TypeFacts
<1>2. Abort(S, store, active) /\ stopped' = TRUE /\ UNCHANGED <<active, txn, counter>>
  BY DEF Shutdown
<1> HIDE DEF S
<1> QED BY <1>1, <1>2, AbortStep

\* cleanup after a rollback: the candidate's lookups end, then its transaction.
LEMMA CleanupRolledBackStep ==
  ASSUME DnsInv, CleanupRolledBack
  PROVE  DnsInv'
<1>0. /\ DOMAIN gens = 1 .. Len(gens) /\ Len(gens) \in 1 .. MaxGens /\ Len(gens) \in Nat
      /\ active \in DOMAIN gens /\ counter \in Ids /\ stopped \in BOOLEAN
  BY TypeFacts
<1>1. /\ txn.phase = "rolled back" /\ Abort({txn.cand}, store, active) /\ txn' = NoTxn
      /\ UNCHANGED <<active, counter, stopped>>
  BY DEF CleanupRolledBack
<1>2. /\ txn.cand \in DOMAIN gens /\ active # txn.cand
      /\ \A i \in Ids : store[i] # 0 => i <= counter \/ store[i] = txn.cand
      /\ counter < Len(gens)
  BY <1>1 DEF DnsInv, TxnSound
<1>3. /\ store' \in [Ids -> 0 .. Len(gens)]
      /\ Sound(gens', store', active')
      /\ \A i \in Ids : store'[i] \in {0, store[i]}
      /\ \A i \in Ids : store'[i] \notin {0, active} => gens'[store'[i]].refs > 0
      /\ gens'[txn.cand].refs = 0
      /\ gens' \in Seq(Generation) /\ Len(gens') = Len(gens) /\ Caches(gens')
      /\ Exact(gens', caller') /\ caller' \in Callings(Len(gens))
      /\ aborted' \subseteq (1 .. Len(gens)) \X Hosts
  BY <1>0, <1>1, <1>2, AbortStep
<1>4. DOMAIN gens' = 1 .. Len(gens)
  BY <1>3
<1>5. \A i \in Ids : store'[i] # 0 => i <= counter
  BY <1>2, <1>3
<1>6. TypeOK'
  <2>1. txn' \in [phase : {"idle", "prepared", "committed", "rolled back"},
                  old : 0 .. Len(gens'), cand : 0 .. Len(gens')]
    <3>1. Len(gens') \in Nat /\ txn' = NoTxn
      BY <1>0, <1>1, <1>3
    <3> QED BY <3>1 DEF NoTxn
  <2> QED BY <1>0, <1>1, <1>3, <1>4, <2>1 DEF TypeOK, Callings
<1>7. TxnSound'
  BY <1>1, <1>2, <1>3, <1>5 DEF TxnSound, NoTxn
<1>8. Drained'
  BY <1>1, <1>3 DEF Drained
<1> QED BY <1>3, <1>6, <1>7, <1>8 DEF DnsInv

\* cleanup after success: the old generation is released, or kept for its
\* lookups, and the counter moves past the candidate's id.
LEMMA CleanupCommittedStep ==
  ASSUME DnsInv, CleanupCommitted
  PROVE  DnsInv'
<1>0. /\ DOMAIN gens = 1 .. Len(gens) /\ gens \in Seq(Generation) /\ Len(gens) \in 1 .. MaxGens
      /\ active \in DOMAIN gens /\ counter \in Ids /\ store \in [Ids -> 0 .. Len(gens)]
      /\ MaxGens \in Nat
  BY TypeFacts
<1>1. /\ txn.phase = "committed" /\ txn' = NoTxn /\ counter' = counter + 1
      /\ store' = ReleaseDrained(gens, store, active)
      /\ UNCHANGED <<gens, active, caller, aborted, stopped>>
  BY DEF CleanupCommitted
<1>2. /\ counter + 1 < Len(gens) /\ gens[txn.cand].id = counter + 1 /\ active = txn.cand
      /\ \A i \in Ids : store[i] # 0 => i <= counter \/ store[i] = txn.cand
  BY <1>1 DEF DnsInv, TxnSound
<1>3. /\ store' \in [Ids -> 0 .. Len(gens)]
      /\ Sound(gens, store', active)
      /\ \A i \in Ids : store'[i] \in {0, store[i]}
      /\ \A i \in Ids : store'[i] \notin {0, active} => gens[store'[i]].refs > 0
  BY <1>0, <1>1, ReleaseFacts DEF DnsInv
<1>4. \A i \in Ids : store'[i] # 0 => i <= counter + 1
  <2>1. \A i \in Ids : store[i] = txn.cand => i = counter + 1
    BY <1>0, <1>2 DEF DnsInv, Sound
  <2> QED BY <1>0, <1>2, <1>3, <2>1 DEF Ids
<1>5. TypeOK'
  <2>1. counter' \in Ids
    BY <1>0, <1>1, <1>2 DEF Ids
  <2>2. txn' \in [phase : {"idle", "prepared", "committed", "rolled back"},
                  old : 0 .. Len(gens'), cand : 0 .. Len(gens')]
    BY <1>0, <1>1 DEF NoTxn
  <2> QED BY <1>0, <1>1, <1>3, <2>1, <2>2 DEF DnsInv, TypeOK
<1>6. TxnSound'
  BY <1>1, <1>2, <1>4 DEF TxnSound, NoTxn
<1>7. Drained'
  BY <1>1, <1>3 DEF Drained
<1> QED BY <1>1, <1>3, <1>5, <1>6, <1>7 DEF DnsInv

\* prepare: the candidate is built and nobody can see it.
LEMMA PrepareStep ==
  ASSUME DnsInv, NEW c \in Configs, Prepare(c)
  PROVE  DnsInv'
<1> DEFINE D == 1 .. Len(gens)
           n == Len(gens) + 1
<1>0. /\ DOMAIN gens = D /\ gens \in Seq(Generation) /\ Len(gens) \in 1 .. MaxGens
      /\ active \in D /\ counter \in Ids /\ store \in [Ids -> 0 .. Len(gens)]
      /\ MaxGens \in Nat /\ caller \in Callings(Len(gens))
      /\ aborted \subseteq D \X Hosts /\ stopped \in BOOLEAN
      /\ \A g \in D : gens[g] \in Generation
      /\ \A i \in Ids : store[i] # 0 => store[i] \in D
  BY TypeFacts
<1>1. /\ txn.phase = "idle" /\ Len(gens) < MaxGens
      /\ txn' = [phase |-> "prepared", old |-> active, cand |-> n]
      /\ UNCHANGED <<store, active, counter, caller, aborted, stopped>>
  BY DEF Prepare
<1>2. PICK live \in SUBSET Hosts : \E cache \in Carryover(gens[active], c, live) :
       gens' = Append(gens, NewGeneration(counter + 1, c, cache))
  BY DEF Prepare
<1>3. PICK cache \in Carryover(gens[active], c, live) :
       gens' = Append(gens, NewGeneration(counter + 1, c, cache))
  BY <1>2
<1>4. GoodCache(cache, c.max, {}, c.upstream)
  <2>1. GoodCache(gens[active].cache, gens[active].cfg.max, gens[active].flights,
                  gens[active].cfg.upstream)
    BY <1>0 DEF DnsInv, Caches
  <2> QED BY <1>0, <2>1, CarryoverFacts
<1> DEFINE r == NewGeneration(counter + 1, c, cache)
<1>5. counter < Len(gens) /\ counter + 1 \in Ids
  BY <1>0, <1>1 DEF DnsInv, TxnSound, Ids
<1>6. /\ r \in Generation /\ r.id = counter + 1 /\ r.cfg = c /\ r.cache = cache /\ r.flights = {}
      /\ r.refs = 0 /\ r.draining = FALSE
  BY <1>4, <1>5 DEF NewGeneration, Generation, GoodCache
<1> HIDE DEF r
<1>7. /\ gens' \in Seq(Generation) /\ Len(gens') = n /\ DOMAIN gens' = 1 .. n
      /\ \A g \in D : gens'[g] = gens[g]
      /\ gens'[n] = r
  <2>1. gens' = Append(gens, r)
    BY <1>3 DEF r
  <2> QED BY <1>0, <1>6, <2>1, AppendProperties
<1>8. \A g \in 1 .. n : g \in D \/ g = n
  BY <1>0
<1>9. n \notin D /\ D \subseteq 1 .. n /\ n # 0
  BY <1>0
<1>10. Caches(gens')
  BY <1>0, <1>4, <1>6, <1>7, <1>8 DEF DnsInv, Caches
<1>11. OnOf(caller, n) = {} /\ \A h \in Hosts : WaitOf(caller, n, h) = {}
  <2>1. \A d \in Callers : caller[d].gen # n
    BY <1>0, <1>9 DEF Callings, Idle
  <2> QED BY <2>1 DEF OnOf, WaitOf
<1>12. Exact(gens', caller')
  <2> SUFFICES ASSUME NEW g \in 1 .. n
               PROVE  /\ gens'[g].refs = Cardinality(OnOf(caller, g))
                      /\ gens'[g].flights = {h \in Hosts : WaitOf(caller, g, h) # {}}
    BY <1>1, <1>7 DEF Exact
  <2>1. CASE g \in D
    BY <1>0, <1>7, <2>1 DEF DnsInv, Exact
  <2>2. CASE g = n
    BY <1>6, <1>7, <1>11, <2>2, FS_EmptySet
  <2> QED BY <1>8, <2>1, <2>2
<1>13. Sound(gens', store', active')
  <2>1. store'[gens'[active'].id] = active'
    BY <1>0, <1>1, <1>7 DEF DnsInv, Sound
  <2>2. \A g \in 1 .. n : gens'[g].refs > 0 => store'[gens'[g].id] = g
    BY <1>0, <1>1, <1>6, <1>7, <1>8 DEF DnsInv, Sound
  <2>3. \A i \in Ids : store'[i] # 0 => /\ gens'[store'[i]].id = i
                                       /\ gens'[store'[i]].draining = (store'[i] # active')
    BY <1>0, <1>1, <1>7 DEF DnsInv, Sound
  <2> QED BY <1>7, <2>1, <2>2, <2>3 DEF Sound
<1>14. TypeOK'
  <2>1. n \in 1 .. MaxGens
    BY <1>0, <1>1
  <2>2. store' \in [Ids -> 0 .. n]
    BY <1>0, <1>1
  <2>3. active' \in 1 .. n /\ txn' \in [phase : {"idle", "prepared", "committed", "rolled back"},
                                        old : 0 .. n, cand : 0 .. n]
    BY <1>0, <1>1
  <2>4. caller' \in [Callers -> {Idle} \cup [gen : 1 .. n, host : Hosts]]
    BY <1>0, <1>1, <1>9 DEF Callings
  <2>5. aborted' \subseteq (1 .. n) \X Hosts
    BY <1>0, <1>1, <1>9
  <2> QED BY <1>0, <1>1, <1>7, <2>1, <2>2, <2>3, <2>4, <2>5 DEF TypeOK
<1>15. TxnSound'
  <2>1. \A i \in Ids : store[i] # 0 => i <= counter
    BY <1>1 DEF DnsInv, TxnSound
  <2>2. gens[active].id <= counter
    <3>1. gens[active] \in Generation /\ active # 0
      BY <1>0
    <3>2. gens[active].id \in Ids
      BY <3>1 DEF Generation
    <3>3. store[gens[active].id] = active
      BY DEF DnsInv, Sound
    <3> QED BY <2>1, <3>1, <3>2, <3>3
  <2>3. \A i \in Ids : store[i] # n
    BY <1>0, <1>9
  <2>4. txn'.phase = "prepared" /\ txn'.old = active /\ txn'.cand = n
    BY <1>1
  <2>5. counter + 1 < n /\ counter < n
    BY <1>0, <1>5 DEF Ids
  <2>6. gens'[n].id = counter + 1 /\ gens'[active].id <= counter
    BY <1>0, <1>6, <1>7, <2>2
  <2>7. active # n /\ n \in DOMAIN gens' /\ active \in DOMAIN gens'
    BY <1>0, <1>7, <1>9
  <2> HIDE DEF n
  <2> QED BY <1>1, <1>7, <2>1, <2>3, <2>4, <2>5, <2>6, <2>7 DEF TxnSound
<1>16. Drained'
  BY <1>0, <1>1, <1>7 DEF DnsInv, Drained
<1> QED BY <1>10, <1>12, <1>13, <1>14, <1>15, <1>16 DEF DnsInv

\* switchTo and restore: x begins to drain and y stops draining.
LEMMA DrainFlip ==
  ASSUME DnsInv, NEW x \in DOMAIN gens, NEW y \in DOMAIN gens, x # y,
         gens' = [gens EXCEPT ![x].draining = TRUE, ![y].draining = FALSE]
  PROVE  /\ gens' \in Seq(Generation) /\ Len(gens') = Len(gens) /\ DOMAIN gens' = DOMAIN gens
         /\ Caches(gens') /\ Exact(gens', caller)
         /\ \A g \in DOMAIN gens : gens'[g].id = gens[g].id /\ gens'[g].refs = gens[g].refs
         /\ gens'[y].draining = FALSE /\ gens'[x].draining = TRUE
      /\ \A g \in DOMAIN gens : g \notin {x, y} => gens'[g].draining = gens[g].draining
<1> DEFINE r == [gens[x] EXCEPT !.draining = TRUE]
           s == [gens[y] EXCEPT !.draining = FALSE]
           m == [gens EXCEPT ![x] = r]
           Same(g) == /\ gens'[g].id = gens[g].id /\ gens'[g].refs = gens[g].refs
                      /\ gens'[g].flights = gens[g].flights /\ gens'[g].cache = gens[g].cache
                      /\ gens'[g].cfg = gens[g].cfg
<1>0. gens \in Seq(Generation) /\ \A g \in DOMAIN gens : gens[g] \in Generation
  BY TypeFacts
<1>1. /\ r \in Generation /\ r.id = gens[x].id /\ r.refs = gens[x].refs
      /\ r.flights = gens[x].flights /\ r.cache = gens[x].cache
      /\ r.cfg = gens[x].cfg /\ r.draining = TRUE
  <2>1. gens[x] \in Generation
    BY <1>0
  <2> QED BY <2>1 DEF Generation
<1>2. /\ s \in Generation /\ s.id = gens[y].id /\ s.refs = gens[y].refs
      /\ s.flights = gens[y].flights /\ s.cache = gens[y].cache
      /\ s.cfg = gens[y].cfg /\ s.draining = FALSE
  <2>1. gens[y] \in Generation
    BY <1>0
  <2> QED BY <2>1 DEF Generation
<1>3. gens' = [m EXCEPT ![y] = s]
  BY <1>0
<1> HIDE DEF r, s
<1>4. /\ m \in Seq(Generation) /\ Len(m) = Len(gens) /\ DOMAIN m = DOMAIN gens
      /\ \A g \in DOMAIN gens : m[g] = IF g = x THEN r ELSE gens[g]
  BY <1>0, <1>1, GensExcept
<1> HIDE DEF m
<1>5. /\ gens' \in Seq(Generation) /\ Len(gens') = Len(m) /\ DOMAIN gens' = DOMAIN m
      /\ \A g \in DOMAIN m : gens'[g] = IF g = y THEN s ELSE m[g]
  <2>1. m \in Seq(Generation) /\ y \in DOMAIN m /\ s \in Generation
    BY <1>2, <1>4
  <2> DEFINE n == [m EXCEPT ![y] = s]
  <2>2. /\ n \in Seq(Generation) /\ Len(n) = Len(m) /\ DOMAIN n = DOMAIN m
        /\ \A g \in DOMAIN m : n[g] = IF g = y THEN s ELSE m[g]
    BY ONLY <2>1, GensExcept
  <2> HIDE DEF n
  <2> QED BY ONLY <1>3, <2>2 DEF n
<1>6. \A g \in DOMAIN gens : gens'[g] = IF g = y THEN s ELSE IF g = x THEN r ELSE gens[g]
  BY <1>4, <1>5
<1>7. \A g \in DOMAIN gens : Same(g)
  BY <1>1, <1>2, <1>6
<1>8. /\ gens'[y].draining = FALSE /\ gens'[x].draining = TRUE
      /\ \A g \in DOMAIN gens : g \notin {x, y} => gens'[g].draining = gens[g].draining
  BY <1>1, <1>2, <1>6
<1>9. Len(gens') = Len(gens) /\ DOMAIN gens' = DOMAIN gens
  BY <1>4, <1>5
<1>10. Caches(gens')
  BY <1>7, <1>9 DEF DnsInv, Caches
<1>11. Exact(gens', caller)
  <2> SUFFICES ASSUME NEW g \in DOMAIN gens
               PROVE  /\ gens'[g].refs = Cardinality(OnOf(caller, g))
                      /\ gens'[g].flights = {h \in Hosts : WaitOf(caller, g, h) # {}}
    BY <1>9 DEF Exact
  <2>1. gens'[g].refs = gens[g].refs /\ gens'[g].flights = gens[g].flights
    BY <1>7
  <2> QED BY <2>1 DEF DnsInv, Exact
<1> QED BY <1>5, <1>7, <1>8, <1>9, <1>10, <1>11

\* switchTo: the candidate is registered under an id that was free.
LEMMA CommitStep ==
  ASSUME DnsInv, Commit
  PROVE  DnsInv'
<1> DEFINE D == 1 .. Len(gens)
           k == txn.cand
           i0 == counter + 1
<1>0. /\ DOMAIN gens = D /\ gens \in Seq(Generation) /\ Len(gens) \in 1 .. MaxGens
      /\ active \in D /\ counter \in Ids /\ store \in [Ids -> 0 .. Len(gens)]
      /\ MaxGens \in Nat /\ caller \in Callings(Len(gens))
      /\ \A g \in D : gens[g] \in Generation
      /\ \A i \in Ids : store[i] # 0 => store[i] \in D
  BY TypeFacts
<1>1. /\ txn.phase = "prepared"
      /\ gens' = [gens EXCEPT ![active].draining = TRUE, ![k].draining = FALSE]
      /\ store' = [store EXCEPT ![gens[k].id] = k]
      /\ active' = k
      /\ txn' = [txn EXCEPT !.phase = "committed"]
      /\ UNCHANGED <<counter, caller, aborted, stopped>>
  BY DEF Commit
<1>2. /\ txn.old = active /\ k \in D /\ active # k /\ i0 < Len(gens)
      /\ gens[k].id = i0 /\ gens[active].id <= counter /\ counter < Len(gens)
      /\ \A i \in Ids : store[i] # 0 => i <= counter \/ store[i] = k
      /\ \A i \in Ids : store[i] # k
  BY <1>0, <1>1 DEF DnsInv, TxnSound
<1>3. i0 \in Ids /\ counter \in Nat /\ i0 \in Nat
  BY <1>0, <1>2 DEF Ids
<1>4. /\ txn'.phase = "committed" /\ txn'.old = active /\ txn'.cand = k
      /\ txn' \in [phase : {"idle", "prepared", "committed", "rolled back"},
                  old : 0 .. Len(gens), cand : 0 .. Len(gens)]
  <2>1. txn \in [phase : {"idle", "prepared", "committed", "rolled back"},
                old : 0 .. Len(gens), cand : 0 .. Len(gens)]
    BY TypeFacts
  <2> QED BY <1>1, <1>2, <2>1
<1>5. /\ gens' \in Seq(Generation) /\ Len(gens') = Len(gens) /\ DOMAIN gens' = D
      /\ Caches(gens') /\ Exact(gens', caller)
      /\ \A g \in D : gens'[g].id = gens[g].id /\ gens'[g].refs = gens[g].refs
      /\ gens'[k].draining = FALSE /\ gens'[active].draining = TRUE
      /\ \A g \in D : g \notin {active, k} => gens'[g].draining = gens[g].draining
  BY <1>0, <1>1, <1>2, DrainFlip
<1>6. DOMAIN gens' = D /\ \A g \in D : gens'[g].id = gens[g].id /\ gens'[g].refs = gens[g].refs
  BY <1>5
<1>7. Caches(gens') /\ Exact(gens', caller')
  BY <1>1, <1>5
<1>8. store' \in [Ids -> 0 .. Len(gens)] /\ \A i \in Ids : store'[i] = IF i = i0 THEN k ELSE store[i]
  BY <1>0, <1>1, <1>2, <1>3
<1>9. \A g \in D : gens[g].id \in Ids
  BY <1>0 DEF Generation
<1>10. store[i0] = 0
  BY <1>2, <1>3
<1>11. Sound(gens', store', active')
  <2>1. store'[gens'[active'].id] = active'
    BY <1>1, <1>2, <1>3, <1>5, <1>8
  <2>2. \A g \in D : gens'[g].refs > 0 => store'[gens'[g].id] = g
    <3> SUFFICES ASSUME NEW g \in D, gens'[g].refs > 0
                 PROVE  store'[gens'[g].id] = g
      OBVIOUS
    <3>1. store[gens[g].id] = g /\ g # 0
      <4>1. gens[g].refs > 0
        BY <1>6
      <4>2. g \in DOMAIN gens /\ g # 0
        BY <1>0
      <4> QED BY <4>1, <4>2 DEF DnsInv, Sound
    <3>2. gens[g].id # i0
      BY <1>10, <3>1
    <3>3. gens'[g].id = gens[g].id /\ gens[g].id \in Ids
      BY <1>9, <1>6
    <3> QED BY <1>8, <3>1, <3>2, <3>3
  <2>3. ASSUME NEW i \in Ids, store'[i] # 0
        PROVE  /\ gens'[store'[i]].id = i
               /\ gens'[store'[i]].draining = (store'[i] # active')
    <3>1. CASE i = i0
      BY <1>1, <1>2, <1>5, <1>8, <3>1
    <3>2. CASE i # i0
      <4>1. store'[i] = store[i] /\ store[i] # 0 /\ store[i] \in D /\ store[i] # k
        BY <1>0, <1>2, <1>8, <2>3, <3>2
      <4>2. gens[store[i]].id = i /\ gens[store[i]].draining = (store[i] # active)
        BY <4>1 DEF DnsInv, Sound
      <4>3. gens'[store[i]].draining = TRUE
        BY <1>5, <4>1, <4>2
      <4> QED BY <1>1, <1>5, <4>1, <4>2, <4>3
    <3> QED BY <3>1, <3>2
  <2> QED BY <1>5, <2>1, <2>2, <2>3 DEF Sound
<1>12. TypeOK'
  BY <1>0, <1>1, <1>2, <1>4, <1>5, <1>8 DEF DnsInv, TypeOK
<1>13. TxnSound'
  <2>1. counter' < Len(gens') /\ counter' + 1 < Len(gens')
    BY <1>1, <1>2, <1>5
  <2>2. gens'[k].id = counter' + 1 /\ gens'[active].id <= counter'
    BY <1>0, <1>1, <1>2, <1>5
  <2>3. \A i \in Ids : store'[i] # 0 => i <= counter' \/ store'[i] = k
    BY <1>1, <1>2, <1>8
  <2>4. store'[gens'[active].id] \in {0, active}
    <3>1. gens'[active].id = gens[active].id /\ gens[active].id # i0 /\ gens[active].id \in Ids
      <4>1. gens'[active].id = gens[active].id /\ gens[active].id \in Ids
        BY <1>0, <1>9, <1>6
      <4>2. gens[active].id <= counter /\ gens[active].id \in Int
        BY <1>2, <4>1 DEF Ids
      <4> QED BY <1>3, <4>1, <4>2
    <3>2. store[gens[active].id] = active
      BY DEF DnsInv, Sound
    <3> QED BY <1>8, <3>1, <3>2
  <2> HIDE DEF k
  <2> QED BY <1>0, <1>1, <1>2, <1>4, <1>5, <2>1, <2>2, <2>3, <2>4, ZenonT(60) DEF TxnSound
<1>14. Drained'
  <2> SUFFICES ASSUME NEW i \in Ids, store'[i] \notin {0, k}
               PROVE  gens'[store'[i]].refs > 0 \/ store'[i] = active
    BY <1>1, <1>4 DEF Drained
  <2>1. store'[i] = store[i] /\ store[i] # 0 /\ store[i] \in D
    BY <1>0, <1>8
  <2> QED BY <1>1, <1>5, <2>1 DEF DnsInv, Drained
<1> QED BY <1>7, <1>11, <1>12, <1>13, <1>14 DEF DnsInv

\* rollback of a candidate that was not published.
LEMMA RollbackPreparedStep ==
  ASSUME DnsInv, RollbackPrepared
  PROVE  DnsInv'
<1>1. /\ txn.phase = "prepared" /\ txn' = [txn EXCEPT !.phase = "rolled back"]
      /\ UNCHANGED <<gens, store, active, counter, caller, aborted, stopped>>
  BY DEF RollbackPrepared
<1>2. /\ txn'.phase = "rolled back" /\ txn'.old = txn.old /\ txn'.cand = txn.cand
      /\ txn' \in [phase : {"idle", "prepared", "committed", "rolled back"},
                  old : 0 .. Len(gens), cand : 0 .. Len(gens)]
  BY <1>1, TypeFacts
<1>3. TypeOK'
  BY <1>1, <1>2 DEF DnsInv, TypeOK
<1>4. TxnSound'
  BY <1>1, <1>2 DEF DnsInv, TxnSound
<1>5. Drained'
  BY <1>1 DEF DnsInv, Drained
<1> QED BY <1>1, <1>3, <1>4, <1>5 DEF DnsInv

\* restore: both generations are registered again, also if the old one was
\* released meanwhile, and the candidate is released at once if nothing holds
\* it.
LEMMA RollbackCommittedStep ==
  ASSUME DnsInv, RollbackCommitted
  PROVE  DnsInv'
<1> DEFINE D == 1 .. Len(gens)
           k == txn.cand
           o == txn.old
           i0 == counter + 1
           io == gens[o].id
           st == [store EXCEPT ![io] = o, ![i0] = k]
<1>0. /\ DOMAIN gens = D /\ gens \in Seq(Generation) /\ Len(gens) \in 1 .. MaxGens
      /\ counter \in Ids /\ store \in [Ids -> 0 .. Len(gens)]
      /\ MaxGens \in Nat /\ caller \in Callings(Len(gens))
      /\ \A g \in D : gens[g].id \in Ids
      /\ \A i \in Ids : store[i] # 0 => store[i] \in D
  BY TypeFacts
<1>2. /\ txn.phase = "committed"
      /\ o \in D /\ k \in D /\ o # k /\ i0 < Len(gens) /\ active = k
      /\ gens[k].id = i0 /\ io <= counter /\ counter < Len(gens)
      /\ \A i \in Ids : store[i] # 0 => i <= counter \/ store[i] = k
      /\ store[io] \in {0, o}
  BY <1>0 DEF RollbackCommitted, DnsInv, TxnSound
<1>1. /\ gens' = [gens EXCEPT ![k].draining = TRUE, ![o].draining = FALSE]
      /\ store' = ReleaseDrained(gens', st, o)
      /\ active' = o
      /\ txn' = [txn EXCEPT !.phase = "rolled back"]
      /\ UNCHANGED <<counter, caller, aborted, stopped>>
  BY <1>2 DEF RollbackCommitted
<1>3. i0 \in Ids /\ io \in Ids /\ i0 # io
  BY <1>0, <1>2 DEF Ids
<1>4. /\ txn'.phase = "rolled back" /\ txn'.old = o /\ txn'.cand = k
      /\ txn' \in [phase : {"idle", "prepared", "committed", "rolled back"},
                  old : 0 .. Len(gens), cand : 0 .. Len(gens)]
  <2>1. txn \in [phase : {"idle", "prepared", "committed", "rolled back"},
                old : 0 .. Len(gens), cand : 0 .. Len(gens)]
    BY TypeFacts
  <2> QED BY <1>1, <2>1
<1>5. /\ gens' \in Seq(Generation) /\ Len(gens') = Len(gens) /\ DOMAIN gens' = D
      /\ Caches(gens') /\ Exact(gens', caller)
      /\ \A g \in D : gens'[g].id = gens[g].id /\ gens'[g].refs = gens[g].refs
      /\ gens'[o].draining = FALSE /\ gens'[k].draining = TRUE
      /\ \A g \in D : g \notin {k, o} => gens'[g].draining = gens[g].draining
  BY <1>0, <1>1, <1>2, DrainFlip
<1>6. DOMAIN gens' = D /\ \A g \in D : gens'[g].id = gens[g].id /\ gens'[g].refs = gens[g].refs
  BY <1>5
<1>7. /\ st \in [Ids -> 0 .. Len(gens)]
      /\ \A i \in Ids : st[i] = IF i = i0 THEN k ELSE IF i = io THEN o ELSE store[i]
  BY <1>0, <1>2, <1>3
<1> HIDE DEF st
<1>8. \A i \in Ids : store[i] = k => i = i0
  BY <1>2 DEF DnsInv, Sound
<1>9. Sound(gens', st, o)
  <2>1. st[gens'[o].id] = o
    BY <1>2, <1>3, <1>6, <1>7
  <2>2. \A g \in D : gens'[g].refs > 0 => st[gens'[g].id] = g
    <3> SUFFICES ASSUME NEW g \in D, gens'[g].refs > 0
                 PROVE  st[gens'[g].id] = g
      OBVIOUS
    <3>1. gens[g].refs > 0 /\ g \in DOMAIN gens /\ g # 0 /\ gens[g].id \in Ids
      BY <1>0, <1>6
    <3>2. store[gens[g].id] = g
      BY <3>1 DEF DnsInv, Sound
    <3>3. gens[g].id = i0 => g = k
      <4>1. store[i0] = k
        BY <1>2 DEF DnsInv, Sound
      <4> QED BY <3>2, <4>1
    <3>4. gens[g].id = io => g = o
      BY <1>2, <3>1, <3>2
    <3>5. gens'[g].id = gens[g].id
      BY <1>6
    <3> QED BY <1>7, <3>1, <3>2, <3>3, <3>4, <3>5
  <2>3. ASSUME NEW i \in Ids, st[i] # 0
        PROVE  /\ gens'[st[i]].id = i
               /\ gens'[st[i]].draining = (st[i] # o)
    <3>1. CASE i = i0
      <4>1. st[i] = k /\ k # o /\ k \in D /\ gens'[k].id = i0
        BY <1>2, <1>3, <1>6, <1>7, <3>1
      <4>2. gens'[k].draining = TRUE
        BY <1>5, <4>1
      <4> QED BY <3>1, <4>1, <4>2
    <3>2. CASE i # i0 /\ i = io
      BY <1>2, <1>5, <1>7, <3>2
    <3>3. CASE i # i0 /\ i # io
      <4>1. st[i] = store[i] /\ store[i] # 0 /\ store[i] \in D /\ store[i] # k
        BY <1>0, <1>7, <1>8, <2>3, <3>3
      <4>2. gens[store[i]].id = i /\ gens[store[i]].draining = (store[i] # active)
        BY <4>1 DEF DnsInv, Sound
      <4>3. store[i] # o
        BY <3>3, <4>2
      <4>4. gens[store[i]].draining = TRUE
        BY <1>2, <4>1, <4>2
      <4>5. gens'[store[i]].draining = TRUE /\ gens'[store[i]].id = i
        BY <1>5, <4>1, <4>2, <4>3, <4>4
      <4> QED BY <4>1, <4>3, <4>5
    <3> QED BY <3>1, <3>2, <3>3
  <2> QED BY <1>6, <2>1, <2>2, <2>3 DEF Sound
<1>10. /\ store' \in [Ids -> 0 .. Len(gens')]
       /\ Sound(gens', store', o)
       /\ \A i \in Ids : store'[i] \in {0, st[i]}
       /\ \A i \in Ids : store'[i] \notin {0, o} => gens'[store'[i]].refs > 0
  <2>1. o \in DOMAIN gens' /\ st \in [Ids -> 0 .. Len(gens')] /\ gens' \in Seq(Generation)
        /\ Exact(gens', caller)
    BY <1>2, <1>5, <1>7
  <2>2. Sound(gens', st, o) /\ store' = ReleaseDrained(gens', st, o)
    BY <1>1, <1>9
  <2> HIDE DEF o
  <2> QED BY ONLY <2>1, <2>2, ReleaseFacts
<1>11. TypeOK'
  <2>1. store' \in [Ids -> 0 .. Len(gens')] /\ active' \in DOMAIN gens'
    BY <1>1, <1>2, <1>5, <1>10
  <2>2. gens' \in Seq(Generation) /\ Len(gens') = Len(gens) /\ DOMAIN gens' = DOMAIN gens
    BY <1>0, <1>5
  <2> QED BY <1>1, <1>4, <2>1, <2>2 DEF DnsInv, TypeOK
<1>12. TxnSound'
  <2>1. counter' < Len(gens') /\ counter' + 1 < Len(gens')
    BY <1>1, <1>2, <1>5
  <2>2. gens'[k].id = counter' + 1 /\ gens'[o].id <= counter'
    BY <1>1, <1>2, <1>6
  <2>3. \A i \in Ids : store'[i] # 0 => i <= counter' \/ store'[i] = k
    <3> SUFFICES ASSUME NEW i \in Ids, store'[i] # 0, ~(i <= counter)
                 PROVE  store'[i] = k
      BY <1>1
    <3>1. store'[i] = st[i]
      BY <1>10
    <3>2. i # io
      BY <1>2
    <3> QED BY <1>2, <1>7, <3>1, <3>2
  <2> HIDE DEF k, o
  <2> QED BY <1>1, <1>2, <1>4, <1>6, <2>1, <2>2, <2>3 DEF TxnSound
<1>13. Drained'
  BY <1>1, <1>10 DEF Drained
<1> QED BY <1>1, <1>5, <1>10, <1>11, <1>12, <1>13 DEF DnsInv

\* The resolver as it is constructed.
LEMMA DnsInit ==
  ASSUME Init
  PROVE  DnsInv
<1>1. PICK c \in Configs : gens = <<NewGeneration(0, c, <<>>)>>
  BY DEF Init
<1> DEFINE r == NewGeneration(0, c, <<>>)
<1>2. MaxGens \in Nat \ {0} /\ 0 \in Ids /\ c.max \in Nat
  BY DnsAssumption DEF Ids, Config
<1>3. /\ r \in Generation /\ r.id = 0 /\ r.cfg = c /\ r.cache = <<>> /\ r.flights = {}
      /\ r.refs = 0 /\ r.draining = FALSE
  BY <1>2 DEF NewGeneration, Generation
<1> HIDE DEF r
<1>4. gens = <<r>>
  BY <1>1 DEF r
<1>5. gens \in Seq(Generation) /\ Len(gens) = 1 /\ DOMAIN gens = {1} /\ gens[1] = r
  BY <1>3, <1>4
<1>6. /\ store = [i \in Ids |-> IF i = 0 THEN 1 ELSE 0] /\ active = 1 /\ txn = NoTxn /\ counter = 0
      /\ caller = [d \in Callers |-> Idle] /\ aborted = {} /\ stopped = FALSE
  BY DEF Init
<1>7. TypeOK
  <2>1. NoTxn \in [phase : {"idle", "prepared", "committed", "rolled back"}, old : 0 .. 1, cand : 0 .. 1]
    BY DEF NoTxn
  <2>2. store \in [Ids -> 0 .. 1]
    BY <1>6
  <2>3. caller \in [Callers -> {Idle} \cup [gen : DOMAIN gens, host : Hosts]]
    BY <1>6
  <2>4. Len(gens) \in 1 .. MaxGens /\ active \in DOMAIN gens /\ counter \in Ids
    BY <1>2, <1>5, <1>6
  <2>5. aborted \subseteq (DOMAIN gens) \X Hosts /\ stopped \in BOOLEAN
    BY <1>6
  <2>6. 0 .. Len(gens) = 0 .. 1 /\ gens \in Seq(Generation) /\ txn = NoTxn
    BY <1>5, <1>6
  <2> QED BY ONLY <2>1, <2>2, <2>3, <2>4, <2>5, <2>6 DEF TypeOK
<1>8. Exact(gens, caller)
  <2>1. OnOf(caller, 1) = {} /\ \A h \in Hosts : WaitOf(caller, 1, h) = {}
    BY <1>6 DEF OnOf, WaitOf, Idle
  <2> QED BY <1>3, <1>5, <2>1, FS_EmptySet DEF Exact
<1>9. Sound(gens, store, active)
  <2>1. store[0] = 1 /\ \A i \in Ids : store[i] # 0 => i = 0 /\ store[i] = 1
    BY <1>2, <1>6
  <2> QED BY <1>3, <1>5, <1>6, <2>1 DEF Sound
<1>10. Caches(gens)
  <2>1. GoodCache(<<>>, c.max, {}, c.upstream)
    BY <1>2 DEF GoodCache
  <2> QED BY <1>3, <1>5, <2>1 DEF Caches
<1>11. TxnSound
  BY <1>2, <1>5, <1>6 DEF TxnSound, NoTxn, Ids
<1>12. Drained
  BY <1>6 DEF Drained
<1> QED BY <1>7, <1>8, <1>9, <1>10, <1>11, <1>12 DEF DnsInv

\* Every step keeps the invariant.
LEMMA DnsStep ==
  ASSUME DnsInv, [Next]_vars
  PROVE  DnsInv'
<1>1. CASE \E g \in DOMAIN gens, h \in Hosts :
             Answer(g, h) \/ Failure(g, h) \/ Fallback(g, h) \/ LateAnswer(g, h)
  BY <1>1, AnswerStep, LateAnswerStep
<1>2. CASE UNCHANGED vars
  BY <1>2 DEF DnsInv, vars, TypeOK, TxnSound, Drained
<1>3. CASE \E h \in Hosts : ResolveAtOnce(h)
  BY <1>3, ResolveAtOnceStep
<1>4. CASE \E c \in Callers, h \in Hosts : ResolveUpstream(c, h)
  BY <1>4, ResolveUpstreamStep
<1>5. CASE \E c \in Configs : Prepare(c)
  BY <1>5, PrepareStep
<1> QED BY <1>1, <1>2, <1>3, <1>4, <1>5, CommitStep, RollbackPreparedStep, RollbackCommittedStep,
           CleanupCommittedStep, CleanupRolledBackStep, ShutdownStep DEF Next

-----------------------------------------------------------------------------
(* The results.                                                            *)

\* The invariant holds in every reachable state.
LEMMA DnsAlways ==
  Spec => []DnsInv
<1>1. Init => DnsInv
  BY DnsInit
<1>2. DnsInv /\ [Next]_vars => DnsInv'
  BY DnsStep
<1> QED BY <1>1, <1>2, PTL DEF Spec

\* queryRefs counts exactly the calls that hold a handle, a flight is in the
\* table exactly as long as someone awaits it, the store registers the active
\* generation and every generation in use, and once a reload has ended a
\* draining generation is registered only as long as lookups hold it.
THEOREM LookupsAreAccounted ==
  Spec => []LookupsAccounted
<1>1. ASSUME DnsInv
      PROVE  LookupsAccounted
  <2>1. RefsExact
    BY <1>1 DEF DnsInv, Exact, OnOf, WaitOf, RefsExact, Waiting
  <2>2. StoreSound
    BY <1>1 DEF DnsInv, Sound, StoreSound
  <2>3. DrainedReleased
    BY <1>1 DEF DnsInv, Drained, DrainedReleased
  <2> QED BY <1>1, <2>1, <2>2, <2>3 DEF LookupsAccounted, DnsInv
<1> QED BY <1>1, DnsAlways, PTL

\* No cache of any generation outgrows its limit, has two entries for a host,
\* has an entry for a host still in flight, or holds what another upstream
\* answered, across lookups, carry-over, rollback and shutdown.
THEOREM CachesAreSound ==
  Spec => []CacheSound
<1>1. ASSUME DnsInv
      PROVE  CacheSound
  <2>1. \A g \in DOMAIN gens : DOMAIN gens[g].cache = 1 .. Len(gens[g].cache)
    BY <1>1, TypeFacts, LenProperties
  <2> QED BY <1>1, <2>1 DEF DnsInv, Caches, GoodCache, CacheSound
<1> QED BY <1>1, DnsAlways, PTL

\* A generation the store does not hold has no call, no lookup and is not
\* active.
LEMMA RetiredFacts ==
  ASSUME DnsInv, NEW g \in DOMAIN gens, \A i \in Ids : store[i] # g
  PROVE  /\ gens[g].refs = 0 /\ gens[g].flights = {} /\ g # active
<1>1. gens[g].refs \in Nat /\ (gens[g].refs = 0 => gens[g].flights = {})
  BY BusyFacts DEF DnsInv
<1>2. gens[g].id \in Ids /\ gens[active].id \in Ids
  BY TypeFacts
<1>3. ~(gens[g].refs > 0)
  BY <1>2 DEF DnsInv, Sound
<1>4. g # active
  BY <1>2 DEF DnsInv, Sound
<1> QED BY <1>1, <1>3, <1>4

\* A generation that is not registered and not part of an open reload is never
\* changed again, whatever happens.
LEMMA RetiredUntouched ==
  ASSUME DnsInv, Next, NEW g \in DOMAIN gens, \A i \in Ids : store[i] # g,
         g \notin {txn.old, txn.cand}
  PROVE  gens'[g] = gens[g]
<1>0. gens \in Seq(Generation) /\ DOMAIN gens = 1 .. Len(gens) /\ Len(gens) \in Nat
  BY TypeFacts
<1>1. gens[g].flights = {} /\ g # active
  BY RetiredFacts
<1>2. ASSUME NEW h \in Hosts, ResolveAtOnce(h)
      PROVE  gens'[g] = gens[g]
  BY <1>0, <1>1, <1>2 DEF ResolveAtOnce
<1>3. ASSUME NEW c \in Callers, NEW h \in Hosts, ResolveUpstream(c, h)
      PROVE  gens'[g] = gens[g]
  BY <1>0, <1>1, <1>3 DEF ResolveUpstream
<1>4. ASSUME NEW x \in DOMAIN gens, NEW h \in Hosts,
             Answer(x, h) \/ Failure(x, h) \/ Fallback(x, h) \/ LateAnswer(x, h)
      PROVE  gens'[g] = gens[g]
  <2>1. CASE LateAnswer(x, h)
    BY <2>1 DEF LateAnswer
  <2>2. CASE Answer(x, h) \/ Failure(x, h) \/ Fallback(x, h)
    <3>1. h \in gens[x].flights /\ \E cache : Landed(x, h, cache)
      BY <2>2 DEF Answer, Failure, Fallback
    <3>2. PICK r : gens' = [gens EXCEPT ![x] = r]
      BY <3>1 DEF Landed
    <3>3. x # g
      BY <1>1, <3>1
    <3> QED BY <1>0, <3>2, <3>3
  <2> QED BY <1>4, <2>1, <2>2
<1>5. ASSUME NEW c \in Configs, Prepare(c)
      PROVE  gens'[g] = gens[g]
  <2>1. PICK r : gens' = Append(gens, r)
    BY <1>5 DEF Prepare
  <2> QED BY <1>0, <2>1
<1>6. CASE Commit
  <2>1. active # g /\ txn.cand # g
    BY <1>1
  <2>2. gens' = [gens EXCEPT ![active].draining = TRUE, ![txn.cand].draining = FALSE]
    BY <1>6 DEF Commit
  <2> QED BY <1>0, <2>1, <2>2
<1>7. CASE RollbackPrepared \/ CleanupCommitted
  BY <1>7 DEF RollbackPrepared, CleanupCommitted
<1>8. CASE RollbackCommitted
  <2>1. gens' = [gens EXCEPT ![txn.cand].draining = TRUE, ![txn.old].draining = FALSE]
    BY <1>8 DEF RollbackCommitted
  <2> QED BY <1>0, <2>1
<1>9. ASSUME NEW S, g \notin S, Abort(S, store, active)
      PROVE  gens'[g] = gens[g]
  BY <1>9 DEF Abort
<1>10. CASE CleanupRolledBack
  BY <1>9, <1>10 DEF CleanupRolledBack
<1>11. CASE Shutdown
  <2>1. g \notin {store[i] : i \in Ids} \ {0}
    OBVIOUS
  <2> QED BY <1>9, <1>11, <2>1 DEF Shutdown
<1> QED BY <1>2, <1>3, <1>4, <1>5, <1>6, <1>7, <1>8, <1>10, <1>11 DEF Next

\* stop() reaches every pending call: a call's generation is registered.
LEMMA ShutdownFreesAll ==
  ASSUME DnsInv, Next, ~stopped, stopped'
  PROVE  \A c \in Callers : caller'[c] = Idle
<1> DEFINE S == {store[i] : i \in Ids} \ {0}
<1>1. Shutdown
  BY DEF Next, ResolveAtOnce, ResolveUpstream, Answer, Failure, Fallback, Landed, LateAnswer,
         Prepare, Commit, RollbackPrepared, RollbackCommitted, CleanupCommitted, CleanupRolledBack
<1>2. caller' = [c \in Callers |-> IF caller[c].gen \in S THEN Idle ELSE caller[c]]
  BY <1>1 DEF Shutdown, Abort
<1> SUFFICES ASSUME NEW c \in Callers, caller[c] # Idle
             PROVE  caller[c].gen \in S
  BY <1>2
<1>3. caller[c].gen \in DOMAIN gens /\ caller[c].gen # 0
  <2>1. caller \in Callings(Len(gens)) /\ DOMAIN gens = 1 .. Len(gens) /\ Len(gens) \in Nat
    BY TypeFacts
  <2>2. caller[c] \in [gen : 1 .. Len(gens), host : Hosts]
    BY <2>1 DEF Callings
  <2> QED BY <2>1, <2>2
<1>4. gens[caller[c].gen].refs > 0
  <2>1. Exact(gens, caller)
    BY DEF DnsInv
  <2> QED BY ONLY <1>3, <2>1, c \in Callers, BusyFacts
<1>5. gens[caller[c].gen].id \in Ids /\ store[gens[caller[c].gen].id] = caller[c].gen
  BY <1>3, <1>4, TypeFacts DEF DnsInv, Sound
<1> QED BY <1>3, <1>5

\* stop() rejects every pending lookup, on draining generations too, and
\* nothing is added to a generation that was released and whose reload has
\* ended.
THEOREM EndedStaysEnded ==
  Spec => EndedIsFinal
<1> DEFINE Final == /\ ~stopped /\ stopped' => \A c \in Callers : caller'[c] = Idle
                    /\ \A g \in DOMAIN gens :
                         (/\ \A i \in Ids : store[i] # g
                          /\ g \notin {txn.old, txn.cand})
                         => /\ gens'[g].flights = gens[g].flights
                            /\ Len(gens'[g].cache) <= Len(gens[g].cache)
<1>1. ASSUME DnsInv, Next
      PROVE  Final
  <2> USE <1>1
  <2>1. ~stopped /\ stopped' => \A c \in Callers : caller'[c] = Idle
    BY <1>1, ShutdownFreesAll
  <2>2. ASSUME NEW g \in DOMAIN gens, \A i \in Ids : store[i] # g, g \notin {txn.old, txn.cand}
        PROVE  /\ gens'[g].flights = gens[g].flights
               /\ Len(gens'[g].cache) <= Len(gens[g].cache)
    <3>1. gens'[g] = gens[g]
      BY ONLY DnsInv, Next, <2>2, RetiredUntouched
    <3>2. gens[g].cache \in Seq(Entry)
      BY TypeFacts
    <3>3. Len(gens[g].cache) \in Nat
      BY <3>2, LenProperties
    <3> QED BY <3>1, <3>3
  <2> QED BY <2>1, <2>2
<1>2. DnsInv /\ [Next]_vars => [Final]_vars
  BY <1>1
<1> HIDE DEF Final
<1>3. []DnsInv /\ [][Next]_vars => [][Final]_vars
  BY <1>2, PTL
<1>4. Spec => [][Final]_vars
  BY <1>3, DnsAlways, PTL DEF Spec
<1> QED BY <1>4 DEF EndedIsFinal, Final

=============================================================================
