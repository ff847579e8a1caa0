---------------------------- MODULE ServicesProofs ----------------------------
(***************************************************************************)
(* Safety of the services beside the engine: every promise over a socket   *)
(* of the outbounds and the DNS clients, the connection pool for any set   *)
(* of sockets and endpoints and any limit, the plugin runner for any       *)
(* number of hosts and calls, the routing policies and the prober for any  *)
(* policies, packets and limits, and the fake addresses for any range.     *)
(***************************************************************************)
EXTENDS MCServices, FiniteSetTheorems, SequenceTheorems, WellFoundedInduction, TLAPS

-----------------------------------------------------------------------------
(* One exchange over a socket.                                             *)

\* The functions that wrap a socket exchange in a promise.
Names == {"connectTcp", "connectTls", "sendUdpDatagram", "sendUdpToServer",
          "queryUdpA", "queryDohA", "readExact"}

\* Each of them is modelled.
LEMMA ExchangeNames == DOMAIN Exchanges = Names
BY DEF Exchanges, Names

\* What tells the functions apart, as far as the proof needs it.
LEMMA ExchangeFacts ==
  \A f \in Names :
    /\ Exchanges[f].settledFlag \in BOOLEAN
    /\ ~Exchanges[f].settledFlag => f = "sendUdpToServer"
    /\ Exchanges[f].via = "borrowed" <=> f = "readExact"
    /\ Exchanges[f].keepsSocket => f \in {"connectTcp", "connectTls"}
<1> SUFFICES ASSUME NEW f \in Names
             PROVE  /\ Exchanges[f].settledFlag \in BOOLEAN
                    /\ ~Exchanges[f].settledFlag => f = "sendUdpToServer"
                    /\ Exchanges[f].via = "borrowed" <=> f = "readExact"
                    /\ Exchanges[f].keepsSocket => f \in {"connectTcp", "connectTls"}
  OBVIOUS
<1>1. CASE f = "connectTcp"
  <2>1. Exchanges[f] = connectTcp
    BY <1>1 DEF Exchanges
  <2> QED BY <1>1, <2>1 DEF connectTcp, Plain
<1>2. CASE f = "connectTls"
  <2>1. Exchanges[f] = connectTls
    BY <1>2 DEF Exchanges
  <2> QED BY <1>2, <2>1 DEF connectTls, Plain
<1>3. CASE f = "sendUdpDatagram"
  <2>1. Exchanges[f] = sendUdpDatagram
    BY <1>3 DEF Exchanges
  <2> QED BY <1>3, <2>1 DEF sendUdpDatagram, Plain
<1>4. CASE f = "sendUdpToServer"
  <2>1. Exchanges[f] = sendUdpToServer
    BY <1>4 DEF Exchanges
  <2> QED BY <1>4, <2>1 DEF sendUdpToServer, Plain
<1>5. CASE f = "queryUdpA"
  <2>1. Exchanges[f] = queryUdpA
    BY <1>5 DEF Exchanges
  <2> QED BY <1>5, <2>1 DEF queryUdpA, Plain
<1>6. CASE f = "queryDohA"
  <2>1. Exchanges[f] = queryDohA
    BY <1>6 DEF Exchanges
  <2> QED BY <1>6, <2>1 DEF queryDohA, Plain
<1>7. CASE f = "readExact"
  <2>1. Exchanges[f] = readExact
    BY <1>7 DEF Exchanges
  <2> QED BY <1>7, <2>1 DEF readExact, Plain
<1> QED BY <1>1, <1>2, <1>3, <1>4, <1>5, <1>6, <1>7 DEF Names

\* The inductive invariant: ExchangeClean, who may hand its socket over, and
\* that before a call nothing is left of an earlier one.
ExchangeInv ==
  /\ op \in Names \cup {"none"}
  /\ phase \in {"idle", "waiting", "resolved", "rejected"}
  /\ phase = "idle" <=> op = "none"
  /\ phase = "idle" => ~timerSet /\ ~hears /\ wire = "none" /\ ~sendOpen /\ ~uncaught
  /\ wire = "handed over" => op \in {"connectTcp", "connectTls"}
  /\ uncaught => ExchangeOver
  /\ ExchangeClean

\* The error path of an exchange, also after its promise has settled.
LEMMA FailStep ==
  ASSUME ExchangeInv, fail, op' = op, phase # "idle",
         (sendFailed' = sendFailed /\ phase = "waiting") \/ sendFailed' = phase,
         UNCHANGED strays,
         sendOpen' => sendOpen
  PROVE  ExchangeInv'
<1> USE DEF ExchangeInv, ExchangeClean, ExchangeOver
<1>0. op \in Names
  BY DEF Names
<1>1. called.settledFlag \in BOOLEAN /\ (~called.settledFlag => op = "sendUdpToServer")
  BY <1>0, ExchangeFacts DEF called
<1>2. CASE UNCHANGED <<phase, timerSet, hears, wire, uncaught>>
  BY <1>2, <1>0
<1>3. CASE cleanup("rejected") /\ phase = "waiting"
  BY <1>3, <1>0, <1>1 DEF cleanup
<1>4. CASE cleanup("rejected") /\ phase # "waiting" /\ op = "sendUdpToServer"
  BY <1>4, <1>0, <1>1 DEF cleanup
<1> QED BY <1>1, <1>2, <1>3, <1>4 DEF fail

\* Every step keeps the invariant.
LEMMA ExchangeStep == ExchangeInv /\ [ExchangeNext]_exchangeVars => ExchangeInv'
<1> SUFFICES ASSUME ExchangeInv, [ExchangeNext]_exchangeVars PROVE ExchangeInv'
  OBVIOUS
<1> USE DEF ExchangeInv, ExchangeClean, ExchangeOver
<1>1. ASSUME NEW f \in DOMAIN Exchanges, Begin(f) PROVE ExchangeInv'
  <2>1. f \in Names
    BY <1>1, ExchangeNames
  <2> QED BY <1>1, <2>1 DEF Begin, Names
<1>2. ASSUME NEW f \in DOMAIN Exchanges, BeginAborted(f) PROVE ExchangeInv'
  <2>1. f \in Names
    BY <1>2, ExchangeNames
  <2> QED BY <1>2, <2>1 DEF BeginAborted, Names
<1>3. CASE onAnswer
  <2>1. op \in Names /\ phase = "waiting"
    BY <1>3 DEF onAnswer
  <2>2. CASE cleanup("resolved")
    <3>1. called.keepsSocket => op \in {"connectTcp", "connectTls"}
      BY <2>1, ExchangeFacts DEF called
    <3> QED BY <1>3, <2>1, <2>2, <3>1 DEF onAnswer, cleanup
  <2>3. CASE fail
    BY <1>3, <2>1, <2>3, FailStep DEF onAnswer
  <2> QED BY <1>3, <2>2, <2>3 DEF onAnswer
<1>4. CASE onStray
  BY <1>4 DEF onStray
<1>5. CASE onSocketError
  BY <1>5, FailStep DEF onSocketError
<1>6. CASE onTimer
  BY <1>6, FailStep DEF onTimer
<1>7. CASE onSent
  BY <1>7 DEF onSent
<1>8. CASE onSendError
  BY <1>8, FailStep DEF onSendError
<1>9. CASE onAbort
  BY <1>9, FailStep DEF onAbort
<1>10. ASSUME NEW n \in ChunkSizes, onReadable(n) PROVE ExchangeInv'
  <2>1. op \in Names /\ phase = "waiting"
    BY <1>10 DEF onReadable
  <2>2. op = "readExact" /\ (called.keepsSocket => op \in {"connectTcp", "connectTls"})
    BY <1>10, <2>1, ExchangeFacts DEF onReadable, called
  <2> QED BY <1>10, <2>1, <2>2 DEF onReadable, cleanup
<1>11. CASE UNCHANGED exchangeVars
  BY <1>11 DEF exchangeVars
<1> QED BY <1>1, <1>2, <1>3, <1>4, <1>5, <1>6, <1>7, <1>8, <1>9, <1>10, <1>11
        DEF ExchangeNext

\* However answer, timer, error, close and the send callback meet, an exchange
\* that has ended leaves no timer, no listener and no open socket but the one
\* it handed over.
THEOREM ExchangesEndClean ==
  ExchangeInit /\ [][ExchangeNext]_exchangeVars => []ExchangeClean
<1>1. ExchangeInit => ExchangeInv
  BY DEF ExchangeInit, ExchangeInv, ExchangeClean, ExchangeOver, Names
<1>2. ExchangeInv => ExchangeClean
  BY DEF ExchangeInv
<1> QED BY <1>1, <1>2, ExchangeStep, PTL

-----------------------------------------------------------------------------
(* The connection pool.                                                    *)

\* A nonempty set of natural numbers has a least element.
LEMMA LeastNatural ==
  ASSUME NEW T \in SUBSET Nat, T # {}
  PROVE  \E x \in T : \A y \in T : x <= y
<1>1. PICK x \in T : \A y \in T : ~ (<<y, x>> \in OpToRel(<, Nat))
  BY NatLessThanWellFounded, WFMin, Zenon
<1>2. \A y \in T : ~ (y < x)
  BY <1>1 DEF OpToRel
<1> QED BY <1>2

\* A nonempty set of places has a last one.
LEMMA GreatestIndex ==
  ASSUME NEW n \in Nat, NEW T \in SUBSET (1 .. n), T # {}
  PROVE  \E x \in T : \A y \in T : y <= x
<1> DEFINE U == {n - x : x \in T}
<1>0. \A x \in T : n - x \in Nat
  OBVIOUS
<1>1. U \in SUBSET Nat /\ U # {}
  BY <1>0
<1>2. PICK m \in U : \A y \in U : m <= y
  BY <1>1, LeastNatural
<1>3. PICK x \in T : m = n - x
  OBVIOUS
<1>4. \A y \in T : n - x <= n - y
  BY <1>2, <1>3
<1> QED BY <1>4

\* The socket is in the bucket of its endpoint.
InPool(s) == \E i \in 1 .. Len(idle[endpoint[s]]) : idle[endpoint[s]][i] = s

\* The types of the pool's state.
PoolType ==
  /\ socket \in [Sockets -> {"none", "open", "destroyed", "closed"}]
  /\ leased \in SUBSET Sockets
  /\ endpoint \in [Sockets -> PoolEndpoints]
  /\ idle \in [PoolEndpoints -> Seq(Sockets)]

\* A bucket keeps to the limit, and holds sockets of its endpoint, each once.
Buckets ==
  \A k \in PoolEndpoints :
    /\ Len(idle[k]) <= maxIdlePerEndpoint
    /\ \A i \in 1 .. Len(idle[k]) :
         /\ endpoint[idle[k][i]] = k
         /\ \A j \in 1 .. Len(idle[k]) : idle[k][i] = idle[k][j] => i = j

\* A socket in a bucket has its timer and its listeners and is not leased; an
\* open socket is leased or in a bucket.
Held ==
  /\ armed = {s \in Sockets : InPool(s)}
  /\ listened = armed
  /\ \A s \in Sockets :
       /\ InPool(s) => s \notin leased /\ socket[s] # "none"
       /\ socket[s] = "open" => s \in leased \/ InPool(s)

\* The inductive invariant.
PoolInv == PoolType /\ Buckets /\ Held

\* The sockets of all buckets are those in the bucket of their endpoint.
LEMMA PooledIs ==
  ASSUME PoolType, Buckets
  PROVE  UNION {ToSet(idle[k]) : k \in PoolEndpoints} = {s \in Sockets : InPool(s)}
<1>1. ASSUME NEW k \in PoolEndpoints
      PROVE  idle[k] \in Seq(Sockets) /\ DOMAIN idle[k] = 1 .. Len(idle[k])
  BY DEF PoolType
<1>2. ASSUME NEW k \in PoolEndpoints, NEW s \in ToSet(idle[k])
      PROVE  s \in Sockets /\ InPool(s)
  <2>1. PICK i \in 1 .. Len(idle[k]) : s = idle[k][i]
    BY <1>1 DEF ToSet
  <2>2. s \in Sockets /\ endpoint[s] = k
    BY <1>1, <2>1, ElementOfSeq DEF Buckets
  <2> QED BY <2>1, <2>2 DEF InPool
<1>3. ASSUME NEW s \in Sockets, InPool(s)
      PROVE  \E k \in PoolEndpoints : s \in ToSet(idle[k])
  <2>1. endpoint[s] \in PoolEndpoints
    BY DEF PoolType
  <2>2. s \in ToSet(idle[endpoint[s]])
    BY <1>1, <1>3, <2>1 DEF ToSet, InPool
  <2> QED BY <2>1, <2>2
<1>4. ASSUME NEW s
      PROVE  s \in UNION {ToSet(idle[k]) : k \in PoolEndpoints}
             <=> s \in {x \in Sockets : InPool(x)}
  BY <1>2, <1>3
<1> QED BY <1>4, Zenon

\* The invariant says that the pool is exact.
LEMMA PoolMeaning == PoolInv => IdleSocketsExact
<1> SUFFICES ASSUME PoolInv PROVE IdleSocketsExact
  OBVIOUS
<1>1. UNION {ToSet(idle[k]) : k \in PoolEndpoints} = {s \in Sockets : InPool(s)}
  BY PooledIs DEF PoolInv
<1>2. \A k \in PoolEndpoints : IsInjective(idle[k]) /\ Len(idle[k]) <= maxIdlePerEndpoint
  <2>1. \A k \in PoolEndpoints : DOMAIN idle[k] = 1 .. Len(idle[k])
    BY DEF PoolInv, PoolType
  <2> QED BY <2>1 DEF PoolInv, Buckets, IsInjective
<1>3. /\ armed = {s \in Sockets : InPool(s)} /\ listened = {s \in Sockets : InPool(s)}
      /\ {s \in Sockets : InPool(s)} \intersect leased = {}
      /\ \A s \in Sockets : socket[s] = "open" => s \in leased \union {x \in Sockets : InPool(x)}
  BY DEF PoolInv, Held
<1> QED BY <1>1, <1>2, <1>3 DEF IdleSocketsExact

\* The pool is empty.
LEMMA PoolInit0 == SocketsInit => PoolInv
<1> SUFFICES ASSUME SocketsInit PROVE PoolInv
  OBVIOUS
<1>1. PoolType
  BY DEF SocketsInit, PoolType
<1>2. \A k \in PoolEndpoints : Len(idle[k]) = 0
  BY DEF SocketsInit
<1>3. Buckets
  BY <1>2, IdleLimitAssumption DEF Buckets
<1>4. \A s \in Sockets : ~InPool(s)
  BY <1>1, <1>2 DEF InPool, PoolType
<1> QED BY <1>1, <1>3, <1>4 DEF PoolInv, Held, SocketsInit

\* A step that leaves the buckets alone.
LEMMA BucketsKept ==
  ASSUME PoolInv, UNCHANGED <<idle, endpoint>>
  PROVE  Buckets' /\ \A s \in Sockets : InPool(s)' <=> InPool(s)
BY DEF PoolInv, Buckets, InPool

\* destroy() of a socket opens none.
LEMMA CloseSocketFacts ==
  ASSUME PoolType, NEW s \in Sockets
  PROVE  /\ CloseSocket(s) \in [Sockets -> {"none", "open", "destroyed", "closed"}]
         /\ CloseSocket(s)[s] # "open"
         /\ \A t \in Sockets : /\ CloseSocket(s)[t] = "open" => socket[t] = "open"
                               /\ CloseSocket(s)[t] = "none" <=> socket[t] = "none"
BY DEF PoolType, CloseSocket

\* A connection is lost before its events are heard.
LEMMA PoolLoses ==
  ASSUME PoolInv, NEW s \in Sockets, ConnectionLost(s)
  PROVE  PoolInv'
<1>1. Buckets' /\ \A t \in Sockets : InPool(t)' <=> InPool(t)
  BY BucketsKept DEF ConnectionLost
<1>2. PoolType'
  BY CloseSocketFacts DEF PoolInv, PoolType, ConnectionLost
<1>3. Held'
  BY <1>1, CloseSocketFacts DEF PoolInv, Held, ConnectionLost
<1> QED BY <1>1, <1>2, <1>3 DEF PoolInv

\* What splice(i, 1) leaves of a sequence.
LEMMA RemoveAtFacts ==
  ASSUME NEW S, NEW b \in Seq(S), NEW i \in 1 .. Len(b)
  PROVE  /\ RemoveAt(b, i) \in Seq(S)
         /\ Len(RemoveAt(b, i)) = Len(b) - 1
         /\ \A j \in 1 .. Len(b) - 1 :
              RemoveAt(b, i)[j] = IF j < i THEN b[j] ELSE b[j + 1]
<1> DEFINE u == SubSeq(b, 1, i - 1)
           v == SubSeq(b, i + 1, Len(b))
<1>0. Len(b) \in Nat /\ \A j \in 1 .. Len(b) : b[j] \in S
  OBVIOUS
<1>1. u \in Seq(S) /\ Len(u) = i - 1 /\ \A j \in 1 .. i - 1 : u[j] = b[j]
  <2>1. \A j \in 1 .. i - 1 : b[j] \in S
    BY <1>0
  <2> QED BY <1>0, <2>1, SubSeqProperties
<1>2. v \in Seq(S) /\ Len(v) = Len(b) - i /\ \A j \in 1 .. Len(b) - i : v[j] = b[j + i]
  <2>1. \A j \in i + 1 .. Len(b) : b[j] \in S
    BY <1>0
  <2>2. /\ v \in Seq(S)
        /\ Len(v) = IF i + 1 <= Len(b) THEN Len(b) - (i + 1) + 1 ELSE 0
        /\ \A j \in 1 .. Len(b) - (i + 1) + 1 : v[j] = b[(i + 1) + j - 1]
    BY <1>0, <2>1, SubSeqProperties
  <2> QED BY <1>0, <2>2
<1>3. RemoveAt(b, i) = u \o v
  BY DEF RemoveAt
<1> HIDE DEF u, v
<1>4. /\ u \o v \in Seq(S)
      /\ Len(u \o v) = Len(u) + Len(v)
      /\ \A j \in 1 .. Len(u) + Len(v) :
           (u \o v)[j] = IF j <= Len(u) THEN u[j] ELSE v[j - Len(u)]
  BY <1>1, <1>2, ConcatProperties
<1>5. Len(u) + Len(v) = Len(b) - 1
  BY <1>0, <1>1, <1>2
<1>6. ASSUME NEW j \in 1 .. Len(b) - 1
      PROVE  (u \o v)[j] = IF j < i THEN b[j] ELSE b[j + 1]
  <2>1. CASE j < i
    BY <1>0, <1>1, <1>4, <1>5, <2>1
  <2>2. CASE ~(j < i)
    <3>1. j - Len(u) \in 1 .. Len(b) - i /\ (j - Len(u)) + i = j + 1 /\ ~(j <= Len(u))
      BY <1>0, <1>1, <2>2
    <3>2. (u \o v)[j] = v[j - Len(u)]
      BY <1>4, <1>5, <3>1
    <3> QED BY <3>1, <3>2, <1>2, <2>2
  <2> QED BY <2>1, <2>2
<1> QED BY <1>3, <1>4, <1>5, <1>6

\* Without one of its places, a sequence without repetitions has lost one
\* element and has none twice.
LEMMA RemoveAtInjective ==
  ASSUME NEW S, NEW b \in Seq(S), NEW i \in 1 .. Len(b),
         \A j, m \in 1 .. Len(b) : b[j] = b[m] => j = m
  PROVE  /\ \A j, m \in 1 .. Len(RemoveAt(b, i)) :
               RemoveAt(b, i)[j] = RemoveAt(b, i)[m] => j = m
         /\ \A x : (\E j \in 1 .. Len(RemoveAt(b, i)) : RemoveAt(b, i)[j] = x)
                  <=> x # b[i] /\ \E j \in 1 .. Len(b) : b[j] = x
<1> DEFINE r == RemoveAt(b, i)
<1>0. Len(b) \in Nat
  OBVIOUS
<1>1. Len(r) = Len(b) - 1 /\ \A j \in 1 .. Len(b) - 1 : r[j] = IF j < i THEN b[j] ELSE b[j + 1]
  BY RemoveAtFacts
<1> HIDE DEF r
<1>2. ASSUME NEW j \in 1 .. Len(r), NEW m \in 1 .. Len(r), r[j] = r[m] PROVE j = m
  <2> DEFINE At(x) == IF x < i THEN x ELSE x + 1
  <2>1. /\ At(j) \in 1 .. Len(b) /\ At(m) \in 1 .. Len(b)
        /\ r[j] = b[At(j)] /\ r[m] = b[At(m)]
    BY <1>0, <1>1
  <2>2. At(j) = At(m)
    BY <1>2, <2>1
  <2> QED BY <1>0, <1>1, <2>2
<1>3. ASSUME NEW j \in 1 .. Len(r)
      PROVE  r[j] # b[i] /\ \E m \in 1 .. Len(b) : b[m] = r[j]
  <2> DEFINE at == IF j < i THEN j ELSE j + 1
  <2>1. at \in 1 .. Len(b) /\ r[j] = b[at] /\ at # i
    BY <1>0, <1>1
  <2> QED BY <2>1
<1>4. ASSUME NEW j \in 1 .. Len(b), j # i
      PROVE  \E m \in 1 .. Len(r) : r[m] = b[j]
  <2>1. CASE j < i
    <3>1. j \in 1 .. Len(r) /\ r[j] = b[j]
      BY <1>0, <1>1, <2>1
    <3> QED BY <3>1
  <2>2. CASE j > i
    <3>1. j - 1 \in 1 .. Len(b) - 1 /\ ~(j - 1 < i) /\ (j - 1) + 1 = j
      BY <1>0, <1>1, <2>2
    <3>2. r[j - 1] = b[j]
      BY <1>1, <3>1
    <3> QED BY <3>1, <3>2, <1>1
  <2> QED BY <1>4, <2>1, <2>2
<1> QED BY <1>2, <1>3, <1>4, SMTT(30) DEF r

\* removeEntry takes exactly the entry of its socket out of the bucket, with
\* its timer and listeners.
LEMMA RemoveEntryStep ==
  ASSUME PoolInv, NEW s \in Sockets, removeEntry(s), UNCHANGED <<leased, endpoint>>
  PROVE  /\ idle' \in [PoolEndpoints -> Seq(Sockets)]
         /\ Buckets'
         /\ \A t \in Sockets : InPool(t)' <=> InPool(t) /\ t # s
         /\ armed' = armed \ {s}
         /\ listened' = listened \ {s}
<1> DEFINE k == endpoint[s]
           b == idle[k]
<1>1. k \in PoolEndpoints /\ b \in Seq(Sockets) /\ DOMAIN b = 1 .. Len(b) /\ Len(b) \in Nat
  BY DEF PoolInv, PoolType
<1>2. s \in ToSet(b) <=> InPool(s)
  BY <1>1 DEF ToSet, InPool
<1>3. CASE s \notin ToSet(b)
  <2>1. UNCHANGED <<idle, armed, listened>>
    BY <1>3 DEF removeEntry
  <2>2. Buckets' /\ \A t \in Sockets : InPool(t)' <=> InPool(t)
    BY <2>1, BucketsKept
  <2>3. s \notin armed /\ s \notin listened
    BY <1>2, <1>3 DEF PoolInv, Held
  <2> QED BY <1>2, <1>3, <2>1, <2>2, <2>3 DEF PoolInv, PoolType
<1>4. CASE s \in ToSet(b)
  <2>1. PICK i \in 1 .. Len(b) :
          b[i] = s /\ idle' = [idle EXCEPT ![k] = RemoveAt(b, i)]
    BY <1>1, <1>4 DEF removeEntry
  <2> DEFINE r == RemoveAt(b, i)
  <2>2. r \in Seq(Sockets) /\ Len(r) = Len(b) - 1
    BY <1>1, RemoveAtFacts
  <2>3. idle' \in [PoolEndpoints -> Seq(Sockets)] /\ idle'[k] = r
        /\ \A q \in PoolEndpoints \ {k} : idle'[q] = idle[q]
    BY <1>1, <2>1, <2>2 DEF PoolInv, PoolType
  <2>4. /\ \A j \in 1 .. Len(b) : endpoint[b[j]] = k
        /\ \A j, m \in 1 .. Len(b) : b[j] = b[m] => j = m
    BY <1>1 DEF PoolInv, Buckets
  <2> HIDE DEF b
  <2>5. /\ \A j, m \in 1 .. Len(r) : r[j] = r[m] => j = m
        /\ \A x : (\E j \in 1 .. Len(r) : r[j] = x)
                 <=> x # b[i] /\ \E j \in 1 .. Len(b) : b[j] = x
    BY <1>1, <2>4, RemoveAtInjective
  <2> HIDE DEF r
  <2>6. ASSUME NEW j \in 1 .. Len(r) PROVE endpoint[r[j]] = k
    <3>1. PICK m \in 1 .. Len(b) : b[m] = r[j]
      BY <2>5
    <3> QED BY <2>4, <3>1
  <2>7. Buckets'
    <3> SUFFICES ASSUME NEW q \in PoolEndpoints
                 PROVE  /\ Len(idle'[q]) <= maxIdlePerEndpoint
                        /\ \A j \in 1 .. Len(idle'[q]) :
                             /\ endpoint[idle'[q][j]] = q
                             /\ \A m \in 1 .. Len(idle'[q]) : idle'[q][j] = idle'[q][m] => j = m
      BY DEF Buckets
    <3>1. CASE q = k
      <4>1. Len(b) <= maxIdlePerEndpoint
        BY <1>1 DEF PoolInv, Buckets, b
      <4>2. Len(r) <= maxIdlePerEndpoint
        BY <1>1, <2>2, <4>1, IdleLimitAssumption
      <4> QED BY <3>1, <2>3, <2>5, <2>6, <4>2
    <3>2. CASE q # k
      BY <2>3, <3>2 DEF PoolInv, Buckets
    <3> QED BY <3>1, <3>2
  <2>8. ASSUME NEW t \in Sockets
        PROVE  InPool(t)' <=> InPool(t) /\ t # s
    <3>1. CASE endpoint[t] # k
      BY <1>1, <2>3, <3>1 DEF InPool, PoolInv, PoolType
    <3>2. CASE endpoint[t] = k
      <4>1. InPool(t) <=> \E j \in 1 .. Len(b) : b[j] = t
        BY <3>2 DEF InPool, b
      <4>2. InPool(t)' <=> \E j \in 1 .. Len(r) : r[j] = t
        BY <3>2, <2>3 DEF InPool
      <4> QED BY <4>1, <4>2, <2>1, <2>5
    <3> QED BY <3>1, <3>2
  <2>9. armed' = armed \ {s} /\ listened' = listened \ {s}
    BY <1>4 DEF removeEntry, b
  <2> QED BY <2>3, <2>7, <2>8, <2>9
<1> QED BY <1>3, <1>4

\* IdleTimeout, onError and onClose: the entry leaves and the socket is not
\* open.
LEMMA RemovedAndClosed ==
  ASSUME PoolInv, NEW s \in Sockets, removeEntry(s), UNCHANGED <<leased, endpoint>>,
         socket' \in [Sockets -> {"none", "open", "destroyed", "closed"}],
         socket'[s] # "open",
         \A t \in Sockets : /\ socket'[t] = "open" => socket[t] = "open"
                            /\ socket'[t] = "none" <=> socket[t] = "none"
  PROVE  PoolInv'
<1>1. /\ idle' \in [PoolEndpoints -> Seq(Sockets)]
      /\ Buckets'
      /\ \A t \in Sockets : InPool(t)' <=> InPool(t) /\ t # s
      /\ armed' = armed \ {s}
      /\ listened' = listened \ {s}
  BY RemoveEntryStep
<1>2. PoolType'
  BY <1>1 DEF PoolInv, PoolType
<1>3. Held'
  BY <1>1 DEF PoolInv, Held
<1> QED BY <1>1, <1>2, <1>3 DEF PoolInv

\* The idle timer fires, or the socket reports an error.
LEMMA TimeoutOrErrorStep ==
  ASSUME PoolInv, NEW s \in Sockets, IdleTimeout(s) \/ onError(s)
  PROVE  PoolInv'
BY RemovedAndClosed, CloseSocketFacts DEF IdleTimeout, onError, PoolInv

\* The close event of a pooled socket.
LEMMA OnCloseStep ==
  ASSUME PoolInv, NEW s \in Sockets, onClose(s)
  PROVE  PoolInv'
<1>1. /\ socket' \in [Sockets -> {"none", "open", "destroyed", "closed"}]
      /\ socket'[s] # "open"
      /\ \A t \in Sockets : /\ socket'[t] = "open" => socket[t] = "open"
                            /\ socket'[t] = "none" <=> socket[t] = "none"
  BY DEF onClose, PoolInv, PoolType
<1>2. CASE s \in listened
  BY <1>1, <1>2, RemovedAndClosed DEF onClose
<1>3. CASE s \notin listened
  <2>1. UNCHANGED <<leased, endpoint, idle, armed, listened>>
    BY <1>3 DEF onClose
  <2>2. Buckets' /\ \A t \in Sockets : InPool(t)' <=> InPool(t)
    BY <2>1, BucketsKept
  <2>3. PoolType'
    BY <1>1, <2>1 DEF PoolInv, PoolType
  <2>4. Held'
    BY <1>1, <2>1, <2>2 DEF PoolInv, Held
  <2> QED BY <2>2, <2>3, <2>4 DEF PoolInv
<1> QED BY <1>2, <1>3

\* release(): a usable socket is pooled, or destroyed when the bucket is full.
LEMMA ReleaseStep ==
  ASSUME PoolInv, NEW s \in Sockets, release(s)
  PROVE  PoolInv'
<1> DEFINE k == endpoint[s]
           b == idle[k]
<1>1. k \in PoolEndpoints /\ b \in Seq(Sockets) /\ Len(b) \in Nat
  BY DEF PoolInv, PoolType
<1>2. s \in leased /\ leased' = leased \ {s} /\ endpoint' = endpoint
  BY DEF release
<1>3. CASE socket[s] # "open" \/ Len(b) >= maxIdlePerEndpoint
  <2>1. socket' = CloseSocket(s) /\ UNCHANGED <<idle, armed, listened>>
    BY <1>3 DEF release
  <2>2. Buckets' /\ \A t \in Sockets : InPool(t)' <=> InPool(t)
    BY <1>2, <2>1, BucketsKept
  <2>3. PoolType'
    BY <1>2, <2>1, CloseSocketFacts DEF PoolInv, PoolType
  <2>4. Held'
    BY <1>2, <2>1, <2>2, CloseSocketFacts DEF PoolInv, Held
  <2> QED BY <2>2, <2>3, <2>4 DEF PoolInv
<1>4. CASE ~(socket[s] # "open" \/ Len(b) >= maxIdlePerEndpoint)
  <2>1. /\ idle' = [idle EXCEPT ![k] = Append(b, s)]
        /\ armed' = armed \union {s} /\ listened' = listened \union {s}
        /\ UNCHANGED socket
    BY <1>4 DEF release
  <2> DEFINE r == Append(b, s)
  <2>2. /\ r \in Seq(Sockets) /\ Len(r) = Len(b) + 1 /\ r[Len(b) + 1] = s
        /\ \A j \in 1 .. Len(b) : r[j] = b[j]
    BY <1>1, AppendProperties
  <2> HIDE DEF r
  <2>3. /\ idle' \in [PoolEndpoints -> Seq(Sockets)] /\ idle'[k] = r
        /\ \A q \in PoolEndpoints \ {k} : idle'[q] = idle[q]
    BY <1>1, <2>1, <2>2 DEF PoolInv, PoolType, r
  <2>4. /\ \A j \in 1 .. Len(b) : endpoint[b[j]] = k
        /\ \A j, m \in 1 .. Len(b) : b[j] = b[m] => j = m
    BY <1>1 DEF PoolInv, Buckets
  <2>5. ~InPool(s) /\ \A j \in 1 .. Len(b) : b[j] # s
    BY <1>2 DEF PoolInv, Held, InPool
  <2>6. Len(r) <= maxIdlePerEndpoint
    BY <1>1, <1>4, <2>2, IdleLimitAssumption
  <2>7. ASSUME NEW t \in Sockets PROVE InPool(t)' <=> InPool(t) \/ t = s
    <3>1. CASE endpoint[t] # k
      BY <1>1, <1>2, <2>3, <3>1 DEF InPool, PoolInv, PoolType
    <3>2. CASE endpoint[t] = k
      <4>1. InPool(t) <=> \E j \in 1 .. Len(b) : b[j] = t
        BY <3>2 DEF InPool
      <4>2. InPool(t)' <=> \E j \in 1 .. Len(r) : r[j] = t
        BY <1>2, <3>2, <2>3 DEF InPool
      <4> HIDE DEF b, k
      <4>3. (\E j \in 1 .. Len(r) : r[j] = t) <=> (\E j \in 1 .. Len(b) : b[j] = t) \/ t = s
        BY <1>1, <2>2
      <4> QED BY <4>1, <4>2, <4>3
    <3> QED BY <3>1, <3>2
  <2> HIDE DEF b
  <2>8. Buckets'
    <3> SUFFICES ASSUME NEW q \in PoolEndpoints
                 PROVE  /\ Len(idle'[q]) <= maxIdlePerEndpoint
                        /\ \A j \in 1 .. Len(idle'[q]) :
                             /\ endpoint[idle'[q][j]] = q
                             /\ \A m \in 1 .. Len(idle'[q]) : idle'[q][j] = idle'[q][m] => j = m
      BY <1>2 DEF Buckets
    <3>1. CASE q = k
      <4>1. \A j \in 1 .. Len(r) : endpoint[r[j]] = k
        BY <1>1, <2>2, <2>4
      <4>2. \A j, m \in 1 .. Len(r) : r[j] = r[m] => j = m
        BY <1>1, <2>2, <2>4, <2>5
      <4> QED BY <3>1, <2>3, <2>6, <4>1, <4>2
    <3>2. CASE q # k
      BY <2>3, <3>2 DEF PoolInv, Buckets
    <3> QED BY <3>1, <3>2
  <2>9. PoolType'
    BY <1>2, <2>1, <2>3 DEF PoolInv, PoolType
  <2>10. Held'
    BY <1>2, <1>4, <2>1, <2>7 DEF PoolInv, Held
  <2> QED BY <2>8, <2>9, <2>10 DEF PoolInv
<1> QED BY <1>3, <1>4

\* LastUsable is the last open socket of a bucket, or 0.
LEMMA LastUsableFacts ==
  ASSUME PoolType, NEW k \in PoolEndpoints
  PROVE  /\ LastUsable(k) \in 0 .. Len(idle[k])
         /\ LastUsable(k) # 0 => socket[idle[k][LastUsable(k)]] = "open"
         /\ \A i \in 1 .. Len(idle[k]) : i > LastUsable(k) => socket[idle[k][i]] # "open"
<1> DEFINE usable == {i \in DOMAIN idle[k] : socket[idle[k][i]] = "open"}
<1>1. Len(idle[k]) \in Nat /\ DOMAIN idle[k] = 1 .. Len(idle[k])
  BY DEF PoolType
<1>2. CASE usable = {}
  BY <1>1, <1>2 DEF LastUsable
<1>3. CASE usable # {}
  <2>1. \E i \in usable : \A j \in usable : j <= i
    BY <1>1, <1>3, GreatestIndex
  <2>2. LastUsable(k) = CHOOSE i \in usable : \A j \in usable : j <= i
    BY <1>3 DEF LastUsable
  <2>3. LastUsable(k) \in usable /\ \A j \in usable : j <= LastUsable(k)
    BY <2>1, <2>2
  <2>4. LastUsable(k) \in 1 .. Len(idle[k])
    BY <1>1, <2>3
  <2>5. \A i \in 1 .. Len(idle[k]) : i > LastUsable(k) => i \notin usable
    BY <1>1, <2>3, <2>4
  <2> QED BY <1>1, <2>3, <2>4, <2>5
<1> QED BY <1>2, <1>3

\* lease(): the unusable sockets behind the last usable one are dropped.
LEMMA LeaseStep ==
  ASSUME PoolInv, NEW k \in PoolEndpoints, lease(k)
  PROVE  PoolInv'
<1> DEFINE b == idle[k]
           n == LastUsable(k)
           r == SubSeq(b, 1, n - 1)
<1>1. b \in Seq(Sockets) /\ Len(b) \in Nat /\ DOMAIN b = 1 .. Len(b)
  BY DEF PoolInv, PoolType
<1>2. /\ n \in 0 .. Len(b)
      /\ n # 0 => socket[b[n]] = "open"
      /\ \A i \in 1 .. Len(b) : i > n => socket[b[i]] # "open"
  BY LastUsableFacts DEF PoolInv
<1>3. /\ idle' = [idle EXCEPT ![k] = r] /\ endpoint' = endpoint
      /\ listened' = listened \ Popped(k) /\ armed' = armed \ Popped(k)
  BY DEF lease
<1>4. Popped(k) = {b[i] : i \in {j \in 1 .. Len(b) : j >= n}}
  BY <1>1 DEF Popped
<1>5. /\ \A j \in 1 .. Len(b) : b[j] \in Sockets /\ endpoint[b[j]] = k
      /\ \A j, m \in 1 .. Len(b) : b[j] = b[m] => j = m
      /\ Len(b) <= maxIdlePerEndpoint
  BY <1>1 DEF PoolInv, Buckets
<1>6. \A t \in Sockets : endpoint[t] = k => (InPool(t) <=> \E j \in 1 .. Len(b) : b[j] = t)
  BY DEF InPool
<1>7. /\ n # 0 => leased' = leased \union {b[n]} /\ UNCHANGED socket
      /\ n = 0 => factory(k)
  BY DEF lease
<1> HIDE DEF b, n
<1>8. /\ r \in Seq(Sockets) /\ Len(r) = (IF n = 0 THEN 0 ELSE n - 1)
      /\ \A j \in 1 .. Len(r) : r[j] = b[j]
  <2>1. \A j \in 1 .. n - 1 : b[j] \in Sockets
    BY <1>1, <1>2, <1>5
  <2>2. /\ r \in Seq(Sockets)
        /\ Len(r) = IF 1 <= n - 1 THEN (n - 1) - 1 + 1 ELSE 0
        /\ \A j \in 1 .. (n - 1) - 1 + 1 : r[j] = b[1 + j - 1]
    BY <1>1, <1>2, <2>1, SubSeqProperties
  <2> QED BY <1>1, <1>2, <2>2
<1> HIDE DEF r
<1>9. /\ idle' \in [PoolEndpoints -> Seq(Sockets)] /\ idle'[k] = r
      /\ \A q \in PoolEndpoints \ {k} : idle'[q] = idle[q]
  BY <1>3, <1>8 DEF PoolInv, PoolType
<1>10. Buckets'
  <2> SUFFICES ASSUME NEW q \in PoolEndpoints
               PROVE  /\ Len(idle'[q]) <= maxIdlePerEndpoint
                      /\ \A j \in 1 .. Len(idle'[q]) :
                           /\ endpoint[idle'[q][j]] = q
                           /\ \A m \in 1 .. Len(idle'[q]) : idle'[q][j] = idle'[q][m] => j = m
    BY <1>3 DEF Buckets
  <2>1. CASE q = k
    <3>1. Len(r) <= maxIdlePerEndpoint /\ Len(r) <= Len(b) /\ Len(r) \in Nat
      BY <1>1, <1>2, <1>5, <1>8, IdleLimitAssumption
    <3>2. /\ \A j \in 1 .. Len(r) : endpoint[r[j]] = k
          /\ \A j, m \in 1 .. Len(r) : r[j] = r[m] => j = m
      BY <1>1, <1>5, <1>8, <3>1
    <3> QED BY <2>1, <1>9, <3>1, <3>2
  <2>2. CASE q # k
    BY <1>9, <2>2 DEF PoolInv, Buckets
  <2> QED BY <2>1, <2>2
<1>11. ASSUME NEW t \in Sockets PROVE InPool(t)' <=> InPool(t) /\ t \notin Popped(k)
  <2>1. CASE endpoint[t] # k
    <3>1. t \notin Popped(k)
      BY <1>4, <1>5, <2>1
    <3>2. InPool(t)' <=> InPool(t)
      BY <1>3, <1>9, <2>1 DEF InPool, PoolInv, PoolType
    <3> QED BY <3>1, <3>2
  <2>2. CASE endpoint[t] = k
    <3>1. InPool(t)' <=> \E j \in 1 .. Len(r) : r[j] = t
      BY <1>3, <1>9, <2>2 DEF InPool
    <3>2. ASSUME NEW j \in 1 .. Len(r)
          PROVE  j \in 1 .. Len(b) /\ r[j] = b[j] /\ r[j] \notin Popped(k)
      <4>1. j \in 1 .. Len(b) /\ ~(j >= n)
        BY <1>1, <1>2, <1>8
      <4> QED BY <4>1, <1>4, <1>5, <1>8
    <3>3. ASSUME NEW j \in 1 .. Len(b), b[j] \notin Popped(k)
          PROVE  j \in 1 .. Len(r) /\ r[j] = b[j]
      <4>1. ~(j >= n)
        BY <3>3, <1>4
      <4> QED BY <4>1, <1>1, <1>2, <1>8
    <3> QED BY <3>1, <3>2, <3>3, <1>6, <2>2
  <2> QED BY <2>1, <2>2
<1>12. CASE n # 0
  <2>1. b[n] \in Sockets /\ b[n] \in Popped(k)
    BY <1>1, <1>2, <1>4, <1>5, <1>12
  <2>2. \A t \in Sockets : t \in Popped(k) /\ socket[t] = "open" => t = b[n]
    <3>1. \A i \in 1 .. Len(b) : i >= n /\ i # n => socket[b[i]] # "open"
      BY <1>1, <1>2
    <3> QED BY <1>4, <3>1
  <2>3. InPool(b[n])
    BY <1>1, <1>2, <1>5, <1>6, <1>12, <2>1
  <2>4. PoolType'
    BY <1>3, <1>7, <1>9, <1>12, <2>1 DEF PoolInv, PoolType
  <2>5. Held'
    BY <1>3, <1>7, <1>11, <1>12, <2>1, <2>2, <2>3 DEF PoolInv, Held
  <2> QED BY <1>10, <2>4, <2>5 DEF PoolInv
<1>13. CASE n = 0
  <2>1. \A t \in Sockets : t \in Popped(k) => socket[t] # "open"
    <3>1. \A i \in 1 .. Len(b) : socket[b[i]] # "open"
      BY <1>1, <1>2, <1>13
    <3> QED BY <1>4, <3>1
  <2>2. CASE UNCHANGED <<socket, leased>>
    <3>1. PoolType'
      BY <1>3, <1>9, <2>2 DEF PoolInv, PoolType
    <3>2. Held'
      BY <1>3, <1>11, <2>1, <2>2 DEF PoolInv, Held
    <3> QED BY <1>10, <3>1, <3>2 DEF PoolInv
  <2>3. ASSUME NEW s \in Sockets, socket[s] = "none",
               socket' = [socket EXCEPT ![s] = "open"], leased' = leased \union {s}
        PROVE  PoolInv'
    <3>1. PoolType'
      BY <1>3, <1>9, <2>3 DEF PoolInv, PoolType
    <3>2. ~InPool(s)
      BY <2>3 DEF PoolInv, Held
    <3>3. \A t \in Sockets : socket'[t] = IF t = s THEN "open" ELSE socket[t]
      BY <2>3 DEF PoolInv, PoolType
    <3>4. Held'
      BY <1>3, <1>11, <2>1, <2>3, <3>2, <3>3 DEF PoolInv, Held
    <3> QED BY <1>10, <3>1, <3>4 DEF PoolInv
  <2> QED BY <1>7, <1>13, <2>2, <2>3 DEF factory
<1> QED BY <1>12, <1>13

\* closeAll empties every bucket.
LEMMA CloseAllStep ==
  ASSUME PoolInv, closeAll
  PROVE  PoolInv'
<1>1. UNION {ToSet(idle[k]) : k \in PoolEndpoints} = {s \in Sockets : InPool(s)}
  BY PooledIs DEF PoolInv
<1>2. /\ \A s \in Sockets : socket'[s] = IF InPool(s) /\ socket[s] = "open" THEN "destroyed" ELSE socket[s]
      /\ socket' \in [Sockets -> {"none", "open", "destroyed", "closed"}]
  BY <1>1 DEF closeAll, PoolInv, PoolType
<1>3. /\ idle' = [k \in PoolEndpoints |-> <<>>] /\ UNCHANGED <<leased, endpoint>>
      /\ armed' = {} /\ listened' = {}
  BY <1>1 DEF closeAll, PoolInv, Held
<1>4. PoolType'
  BY <1>2, <1>3 DEF PoolInv, PoolType
<1>5. \A k \in PoolEndpoints : Len(idle'[k]) = 0
  BY <1>3
<1>6. Buckets'
  BY <1>5, IdleLimitAssumption DEF Buckets
<1>7. \A s \in Sockets : ~InPool(s)'
  BY <1>4, <1>5 DEF InPool, PoolType
<1>8. Held'
  BY <1>2, <1>3, <1>7 DEF PoolInv, Held
<1> QED BY <1>4, <1>6, <1>8 DEF PoolInv

\* The pool holds exactly the idle sockets: within its limits, each with its
\* timer and listeners, none leased, and none open that is neither leased nor
\* pooled, in every order of lease, release, timeouts, socket events and
\* closeAll.
THEOREM PoolHoldsIdleSockets ==
  SocketsInit /\ [][SocketsNext]_socketVars => []IdleSocketsExact
<1>1. PoolInv /\ [SocketsNext]_socketVars => PoolInv'
  <2> SUFFICES ASSUME PoolInv, [SocketsNext]_socketVars PROVE PoolInv'
    OBVIOUS
  <2>1. CASE UNCHANGED socketVars
    <3>1. UNCHANGED <<socket, leased, endpoint, idle, armed, listened>>
      BY <2>1 DEF socketVars
    <3>2. Buckets' /\ \A s \in Sockets : InPool(s)' <=> InPool(s)
      BY <3>1, BucketsKept
    <3> QED BY <3>1, <3>2 DEF PoolInv, PoolType, Held
  <2> QED BY <2>1, LeaseStep, ReleaseStep, TimeoutOrErrorStep, PoolLoses, OnCloseStep,
             CloseAllStep DEF SocketsNext
<1> QED BY <1>1, PoolInit0, PoolMeaning, PTL

-----------------------------------------------------------------------------
(* The plugin runner.  Hosts and calls are numbered without gaps, and the  *)
(* current host, if there is one, is the last that was spawned.            *)

HostStates == {"none", "running", "killed", "quit", "exited"}
Methods == {"none", "setup", "start", "stop", "invoke"}
CallStates == {"idle", "pending", "ok", "error", "timed out", "exited"}

RunnerTypes ==
    /\ host \in [Hosts -> HostStates]
    /\ child \in Hosts \cup {0}
    /\ call \in [Calls -> [method : Methods, to : Hosts \cup {0}, state : CallStates]]
    /\ announced \subseteq Hosts

NumberedHosts ==
    /\ IsFiniteSet(Spawned)
    /\ Spawned = 1..Cardinality(Spawned)
    /\ child # 0 => child = Cardinality(Spawned)

NumberedCalls ==
    /\ IsFiniteSet(MadeCalls)
    /\ MadeCalls = 1..Cardinality(MadeCalls)
    /\ \A c \in Calls : c \in MadeCalls => call[c].to \in Spawned
    /\ \A c \in Calls : c \notin MadeCalls => call[c] = NoCall

\* What stop() awaits: its own call, then the exit of the thread it ended.
StopAwaits ==
    /\ plugin \in {"stopping", "cleaning"} =>
          waitsFor \in MadeCalls /\ call[waitsFor].method = "stop"
    /\ plugin \in {"terminating", "terminating, failed"} =>
          /\ waitsFor \in Spawned
          /\ \E c \in MadeCalls : call[c].method = "stop" /\ call[c].to <= waitsFor

\* A host that announces a factory has not exited.
AnnouncersLive == \A h \in announced : host[h] \notin {"none", "exited"}

\* The three parts of RunnerAccounted.
IsCause(c) == call[c].state = "timed out" \/ call[c].method = "stop"
StraysHaveCause ==
    \A h \in Running \ {child} : \E c \in Calls : call[c].to < h /\ IsCause(c)
RejectionsHaveCause ==
    \A c \in Calls : (call[c].state = "exited" /\ call[c].to \in Running \cap {child}) =>
        \E h \in Hosts : h < call[c].to /\ host[h] = "exited"
FactoryHosted == registered = "now" => \E h \in Hosts : host[h] \notin {"none", "exited"}

RunnerInv ==
    /\ RunnerTypes
    /\ NumberedHosts
    /\ NumberedCalls
    /\ StopAwaits
    /\ AnnouncersLive
    /\ StraysHaveCause
    /\ RejectionsHaveCause
    /\ FactoryHosted

\* A step that spawns no host and makes no call: hosts end and exit, pending
\* calls are settled.
HostsMoveOn ==
    \A h \in Hosts :
        \/ host'[h] = host[h]
        \/ host[h] \notin {"none", "exited"} /\ host'[h] \in {"killed", "quit", "exited"}
CallsMoveOn ==
    \A c \in Calls :
        \/ call'[c] = call[c]
        \/ /\ call[c].state = "pending" /\ call'[c].state \notin {"idle", "pending"}
           /\ call'[c].method = call[c].method /\ call'[c].to = call[c].to

\* What such a step leaves as it is.
LEMMA MovingOn ==
  ASSUME RunnerInv, RunnerTypes', HostsMoveOn, CallsMoveOn, child' \in {child, 0}
  PROVE  /\ Spawned' = Spawned /\ MadeCalls' = MadeCalls /\ Running' \subseteq Running
         /\ NumberedHosts' /\ NumberedCalls'
         /\ \A c \in Calls : /\ call'[c].to = call[c].to /\ call'[c].method = call[c].method
                             /\ IsCause(c) => IsCause(c)'
         /\ \A h \in Hosts : host[h] = "exited" => host'[h] = "exited"
<1>1. Spawned' = Spawned /\ Running' \subseteq Running
  BY DEF HostsMoveOn, Spawned, Running
<1>2. \A c \in Calls : /\ call'[c].to = call[c].to /\ call'[c].method = call[c].method
                       /\ (call'[c].state = "idle" <=> call[c].state = "idle")
                       /\ (call[c].state = "timed out" => call'[c].state = "timed out")
  BY DEF CallsMoveOn
<1>3. MadeCalls' = MadeCalls
  BY <1>2 DEF MadeCalls
<1>4. NumberedHosts'
  BY <1>1 DEF RunnerInv, NumberedHosts
<1>5. NumberedCalls'
  <2>1. \A c \in Calls : c \notin MadeCalls => call'[c] = call[c]
    BY DEF CallsMoveOn, MadeCalls
  <2>. QED  BY <1>1, <1>2, <1>3, <2>1 DEF RunnerInv, NumberedCalls, NoCall
<1>6. \A h \in Hosts : host[h] = "exited" => host'[h] = "exited"
  BY DEF HostsMoveOn
<1>. QED  BY <1>1, <1>2, <1>3, <1>4, <1>5, <1>6 DEF IsCause

\* It keeps the account if a host that runs on unknown has a cause, a call
\* rejected under a current host is rejected for an older one, and a factory
\* stays registered with its host.
LEMMA MovingOnAccounted ==
  ASSUME RunnerInv, RunnerTypes', HostsMoveOn, CallsMoveOn, child' \in {child, 0},
         StopAwaits', AnnouncersLive', FactoryHosted',
         \/ child' = child
         \/ child \notin Running'
         \/ \E c \in Calls : call[c].to < child /\ IsCause(c)',
         \/ child' = 0
         \/ \A c \in Calls : call'[c].state = "exited" => call[c].state = "exited"
         \/ \E h \in Hosts : h < child /\ host'[h] = "exited"
  PROVE  RunnerInv'
<1>1. /\ Running' \subseteq Running /\ NumberedHosts' /\ NumberedCalls'
      /\ \A c \in Calls : call'[c].to = call[c].to /\ (IsCause(c) => IsCause(c)')
      /\ \A h \in Hosts : host[h] = "exited" => host'[h] = "exited"
  BY MovingOn
<1>2. StraysHaveCause'
  <2>. SUFFICES ASSUME NEW h \in Running' \ {child'}
                PROVE  \E c \in Calls : call'[c].to < h /\ IsCause(c)'
    BY DEF StraysHaveCause
  <2>1. CASE h # child
    BY <1>1, <2>1 DEF RunnerInv, StraysHaveCause
  <2>2. CASE h = child
    BY <1>1, <2>2
  <2>. QED  BY <2>1, <2>2
<1>3. RejectionsHaveCause'
  <2>. SUFFICES ASSUME NEW c \in Calls, call'[c].state = "exited",
                       call'[c].to \in Running' \cap {child'}
                PROVE  \E h \in Hosts : h < call'[c].to /\ host'[h] = "exited"
    BY DEF RejectionsHaveCause
  <2>1. child' # 0
    BY RunnerAssumption DEF Running
  <2>2. child' = child /\ call[c].to = child /\ call'[c].to = child /\ child \in Running
    BY <1>1, <2>1
  <2>3. CASE call[c].state = "exited"
    BY <1>1, <2>2, <2>3 DEF RunnerInv, RejectionsHaveCause
  <2>4. CASE call[c].state # "exited"
    BY <2>1, <2>2, <2>4
  <2>. QED  BY <2>3, <2>4
<1>. QED  BY <1>1, <1>2, <1>3 DEF RunnerInv

\* Killing a host ends it if it runs and touches no other.
LEMMA KillEffect ==
  ASSUME RunnerTypes, NEW h \in Hosts \cup {0}
  PROVE  /\ Kill(h) \in [Hosts -> HostStates]
         /\ h \in Hosts => Kill(h)[h] # "running"
         /\ \A k \in Hosts : Kill(h)[k] = host[k] \/ (host[k] = "running" /\ Kill(h)[k] = "killed")
  BY RunnerAssumption DEF RunnerTypes, Kill, HostStates

\* What rejectAll does to the calls.
LEMMA RejectedEffect ==
  ASSUME RunnerTypes, NEW why \in {"error", "exited"}, call' = Rejected(why)
  PROVE  /\ call' \in [Calls -> [method : Methods, to : Hosts \cup {0}, state : CallStates]]
         /\ CallsMoveOn
         /\ \A c \in Calls : call'[c].state \in {call[c].state, why}
<1>1. \A c \in Calls : /\ call[c] \in [method : Methods, to : Hosts \cup {0}, state : CallStates]
                       /\ call'[c] = IF call[c].state = "pending"
                                     THEN [call[c] EXCEPT !.state = why] ELSE call[c]
  BY DEF Rejected, Pending, RunnerTypes
<1>2. \A c \in Calls : /\ call'[c] \in [method : Methods, to : Hosts \cup {0}, state : CallStates]
                       /\ call'[c].method = call[c].method /\ call'[c].to = call[c].to
                       /\ call'[c].state \in {call[c].state, why}
                       /\ call[c].state = "pending" => call'[c].state = why
                       /\ call[c].state # "pending" => call'[c] = call[c]
  BY <1>1 DEF CallStates
<1>3. CallsMoveOn
  BY <1>2 DEF CallsMoveOn
<1>4. call' = [c \in Calls |-> call'[c]]
  BY DEF Rejected
<1>. QED  BY <1>2, <1>3, <1>4

\* Settling one call.
LEMMA SettleEffect ==
  ASSUME RunnerTypes, NEW c \in Calls, Pending(c), NEW how \in {"ok", "error", "timed out"},
         call' = [call EXCEPT ![c].state = how]
  PROVE  /\ call' \in [Calls -> [method : Methods, to : Hosts \cup {0}, state : CallStates]]
         /\ CallsMoveOn
         /\ call'[c].state = how
         /\ \A k \in Calls : call'[k].state = "exited" => call[k].state = "exited"
<1>1. \A k \in Calls : call[k] \in [method : Methods, to : Hosts \cup {0}, state : CallStates]
  BY DEF RunnerTypes
<1>2. \A k \in Calls : k # c => call'[k] = call[k]
  BY DEF RunnerTypes
<1>3. call'[c] = [call[c] EXCEPT !.state = how]
  BY DEF RunnerTypes
<1>4. /\ call'[c] \in [method : Methods, to : Hosts \cup {0}, state : CallStates]
      /\ call'[c].method = call[c].method /\ call'[c].to = call[c].to /\ call'[c].state = how
  <2>1. call[c] \in [method : Methods, to : Hosts \cup {0}, state : CallStates] /\ how \in CallStates
    BY <1>1 DEF CallStates
  <2>. QED  BY <1>3, <2>1, ZenonT(60)
<1>5. CallsMoveOn
  BY <1>2, <1>4 DEF CallsMoveOn, Pending
<1>6. call' \in [Calls -> [method : Methods, to : Hosts \cup {0}, state : CallStates]]
  BY <1>4 DEF RunnerTypes
<1>. QED  BY <1>2, <1>4, <1>5, <1>6

\* One step per action that settles calls, ends hosts or moves the manager.
LEMMA MovingOnStep ==
  ASSUME RunnerInv,
         \/ \E c \in Calls : CallTimesOut(c) \/ HostSetsUp(c) \/ HostAnswers(c)
         \/ \E m \in answers : onMessage(m)
         \/ \E h \in Hosts : onRegister(h) \/ HostEnds(h) \/ onExit(h)
         \/ OutputLimit
         \/ SetupDone \/ StartDone \/ stopWithoutHost
         \/ StopDone \/ StopThrows \/ StopTerminates \/ StopTerminated
  PROVE  RunnerInv'
<1>. USE RunnerAssumption
<1>1. /\ RunnerTypes /\ NumberedHosts /\ NumberedCalls /\ StopAwaits /\ AnnouncersLive
      /\ FactoryHosted
      /\ host \in [Hosts -> HostStates] /\ child \in Hosts \cup {0} /\ announced \subseteq Hosts
      /\ \A c \in Calls : call[c].to \in Hosts \cup {0}
      /\ \A h \in Hosts : h \in Nat
  BY DEF RunnerInv, RunnerTypes
\* A host that was spawned is not newer than the current one.
<1>2. /\ \A h \in Spawned : h \in Hosts /\ (child # 0 => h <= child)
      /\ child # 0 => child \in Spawned
      /\ \A c \in MadeCalls : c \in Calls /\ call[c].to \in Spawned
      /\ \A c \in MadeCalls : child # 0 => (call[c].to < child \/ call[c].to = child)
  <2>1. Spawned = 1..Cardinality(Spawned) /\ Cardinality(Spawned) \in Nat
    BY <1>1, FS_CardinalityType DEF NumberedHosts
  <2>2. \A h \in Spawned : h \in Hosts
    BY DEF Spawned
  <2>3. ASSUME child # 0 PROVE child \in Spawned /\ \A h \in Spawned : h <= child
    BY <1>1, <2>1, <2>3 DEF NumberedHosts
  <2>4. \A c \in MadeCalls : c \in Calls
    BY DEF MadeCalls
  <2>5. \A c \in MadeCalls : call[c].to \in Spawned
    BY <1>1, <2>4 DEF NumberedCalls
  <2>6. ASSUME NEW c \in MadeCalls, child # 0
        PROVE  call[c].to < child \/ call[c].to = child
    <3>1. call[c].to \in Hosts /\ child \in Hosts /\ call[c].to <= child
      BY <1>1, <2>2, <2>3, <2>5, <2>6
    <3>2. call[c].to \in Nat /\ child \in Nat
      BY <1>1, <3>1
    <3>. QED  BY <3>1, <3>2
  <2>. QED  BY <2>2, <2>3, <2>4, <2>5, <2>6
<1>3. \A h \in Hosts : h \in Running <=> host[h] = "running"
  BY DEF Running
<1>4. ASSUME HostsMoveOn, CallsMoveOn, RunnerTypes', child' \in {child, 0}, UNCHANGED <<plugin, waitsFor>>
      PROVE  StopAwaits'
  <2>1. /\ Spawned' = Spawned /\ MadeCalls' = MadeCalls
        /\ \A c \in Calls : call'[c].to = call[c].to /\ call'[c].method = call[c].method
    BY <1>4, MovingOn
  <2>. QED  BY <1>1, <1>2, <1>4, <2>1 DEF StopAwaits
<1>5. ASSUME announced' \subseteq announced, \A h \in Hosts : host'[h] = "exited" => host[h] = "exited",
             HostsMoveOn
      PROVE  AnnouncersLive'
  BY <1>1, <1>5 DEF AnnouncersLive, HostsMoveOn
<1>6. ASSUME registered' = "now" => registered = "now",
             \A h \in Hosts : host'[h] = "exited" => host[h] = "exited", HostsMoveOn
      PROVE  FactoryHosted'
  BY <1>1, <1>6 DEF FactoryHosted, HostsMoveOn
<1>7. Unregistered # "now"
  BY DEF Unregistered
<1>8. ASSUME NEW h \in Hosts \cup {0}, host' = Kill(h)
      PROVE  /\ HostsMoveOn /\ host' \in [Hosts -> HostStates]
             /\ \A k \in Hosts : host'[k] = "exited" => host[k] = "exited"
             /\ h \in Hosts => host'[h] # "running"
  BY <1>1, <1>8, KillEffect DEF HostsMoveOn
<1>9. ASSUME UNCHANGED host PROVE HostsMoveOn
  BY <1>9 DEF HostsMoveOn
<1>10. ASSUME UNCHANGED call PROVE CallsMoveOn
  BY <1>10 DEF CallsMoveOn
<1>11. CASE \E c \in Calls : CallTimesOut(c)
  <2>. PICK c \in Calls : CallTimesOut(c)
    BY <1>11
  <2>1. /\ Pending(c) /\ host' = Kill(call[c].to) /\ child' = 0
        /\ call' = [call EXCEPT ![c].state = "timed out"]
        /\ UNCHANGED <<announced, registered, plugin, waitsFor>>
    BY DEF CallTimesOut
  <2>2. /\ HostsMoveOn /\ host' \in [Hosts -> HostStates]
        /\ \A k \in Hosts : host'[k] = "exited" => host[k] = "exited"
        /\ call[c].to \in Hosts => host'[call[c].to] # "running"
    BY <1>1, <1>8, <2>1
  <2>3. /\ CallsMoveOn /\ call'[c].state = "timed out"
        /\ call' \in [Calls -> [method : Methods, to : Hosts \cup {0}, state : CallStates]]
    BY <1>1, <2>1, SettleEffect
  <2>4. RunnerTypes'
    BY <1>1, <2>1, <2>2, <2>3 DEF RunnerTypes
  <2>5. child' \in {child, 0} /\ StopAwaits' /\ AnnouncersLive' /\ FactoryHosted'
    BY <1>4, <1>5, <1>6, <2>1, <2>2, <2>3, <2>4
  <2>6. c \in MadeCalls
    BY <2>1 DEF Pending, MadeCalls
  <2>7. child \notin Running' \/ \E k \in Calls : call[k].to < child /\ IsCause(k)'
    <3>1. CASE child = 0
      BY <3>1 DEF Running
    <3>2. CASE child = call[c].to
      BY <2>2, <3>2 DEF Running
    <3>3. CASE child # 0 /\ child # call[c].to
      <4>1. call[c].to < child
        BY <1>2, <2>6, <3>3
      <4>. QED  BY <2>3, <4>1 DEF IsCause
    <3>. QED  BY <3>1, <3>2, <3>3
  <2>. QED  BY <2>1, <2>2, <2>3, <2>4, <2>5, <2>7, MovingOnAccounted
<1>12. CASE \E m \in answers : onMessage(m)
  <2>. PICK m \in answers : onMessage(m)
    BY <1>12
  <2>1. UNCHANGED <<host, child, announced, registered, plugin, waitsFor>>
    BY DEF onMessage
  <2>2. /\ CallsMoveOn
        /\ call' \in [Calls -> [method : Methods, to : Hosts \cup {0}, state : CallStates]]
        /\ \A k \in Calls : call'[k].state = "exited" => call[k].state = "exited"
    <3>1. CASE m[1] \in Calls /\ Pending(m[1])
      <4>. DEFINE how == IF m[2] THEN "ok" ELSE "error"
      <4>1. call' = [call EXCEPT ![m[1]].state = how] /\ how \in {"ok", "error", "timed out"}
        BY <3>1 DEF onMessage
      <4>. HIDE DEF how
      <4>. QED  BY <1>1, <3>1, <4>1, SettleEffect
    <3>2. CASE ~Pending(m[1]) \/ m[1] \notin Calls
      <4>1. call' = call
        BY <1>1, <3>2 DEF onMessage, RunnerTypes
      <4>. QED  BY <1>1, <1>10, <4>1 DEF RunnerTypes
    <3>. QED  BY <3>1, <3>2
  <2>3. RunnerTypes' /\ HostsMoveOn
    BY <1>1, <1>9, <2>1, <2>2 DEF RunnerTypes
  <2>4. StopAwaits' /\ AnnouncersLive' /\ FactoryHosted'
    BY <1>4, <1>5, <1>6, <2>1, <2>2, <2>3
  <2>. QED  BY <2>1, <2>2, <2>3, <2>4, MovingOnAccounted
<1>13. CASE \E h \in Hosts : onRegister(h)
  <2>. PICK h \in Hosts : onRegister(h)
    BY <1>13
  <2>1. /\ UNCHANGED <<host, child, call, plugin, waitsFor>> /\ h \in announced
        /\ announced' \subseteq announced
    BY DEF onRegister
  <2>2. RunnerTypes' /\ HostsMoveOn /\ CallsMoveOn
    BY <1>1, <1>9, <1>10, <2>1 DEF RunnerTypes
  <2>3. StopAwaits' /\ AnnouncersLive'
    BY <1>4, <1>5, <2>1, <2>2
  <2>4. FactoryHosted'
    BY <1>1, <2>1 DEF AnnouncersLive, FactoryHosted
  <2>. QED  BY <2>1, <2>2, <2>3, <2>4, MovingOnAccounted
<1>14. CASE OutputLimit
  <2>1. /\ host' = Kill(child) /\ child' = 0 /\ child # 0 /\ call' = Rejected("error")
        /\ UNCHANGED <<announced, registered, plugin, waitsFor>>
    BY <1>14 DEF OutputLimit
  <2>2. /\ HostsMoveOn /\ host' \in [Hosts -> HostStates]
        /\ \A k \in Hosts : host'[k] = "exited" => host[k] = "exited"
        /\ host'[child] # "running"
    BY <1>1, <1>8, <2>1
  <2>3. /\ CallsMoveOn
        /\ call' \in [Calls -> [method : Methods, to : Hosts \cup {0}, state : CallStates]]
    BY <1>1, <2>1, RejectedEffect
  <2>4. RunnerTypes'
    BY <1>1, <2>1, <2>2, <2>3 DEF RunnerTypes
  <2>5. child' \in {child, 0} /\ StopAwaits' /\ AnnouncersLive' /\ FactoryHosted' /\ child \notin Running'
    BY <1>4, <1>5, <1>6, <2>1, <2>2, <2>3, <2>4 DEF Running
  <2>. QED  BY <2>1, <2>2, <2>3, <2>4, <2>5, MovingOnAccounted
<1>15. CASE \E h \in Hosts : onExit(h)
  <2>. PICK h \in Hosts : onExit(h)
    BY <1>15
  <2>1. /\ host[h] \in {"killed", "quit"} /\ h \notin announced
        /\ host' = [host EXCEPT ![h] = "exited"]
        /\ child' = IF child = h THEN 0 ELSE child
        /\ registered' = Unregistered
        /\ call' = call \/ call' = Rejected("exited")
        /\ UNCHANGED <<announced, plugin, waitsFor>>
    BY DEF onExit
  <2>2. /\ HostsMoveOn /\ host' \in [Hosts -> HostStates] /\ host'[h] = "exited"
        /\ \A k \in Hosts : k # h => host'[k] = host[k]
    BY <1>1, <2>1 DEF HostsMoveOn, HostStates
  <2>3. /\ CallsMoveOn
        /\ call' \in [Calls -> [method : Methods, to : Hosts \cup {0}, state : CallStates]]
    BY <1>1, <1>10, <2>1, RejectedEffect DEF RunnerTypes
  <2>4. RunnerTypes' /\ child' \in {child, 0}
    BY <1>1, <2>1, <2>2, <2>3 DEF RunnerTypes
  <2>5. StopAwaits' /\ FactoryHosted'
    BY <1>4, <1>7, <2>1, <2>2, <2>3, <2>4 DEF FactoryHosted
  <2>6. AnnouncersLive'
    BY <1>1, <2>1, <2>2 DEF AnnouncersLive
  <2>7. child' = child \/ child \notin Running'
    BY <2>1, <2>2 DEF Running
  <2>8. child' = 0 \/ \E k \in Hosts : k < child /\ host'[k] = "exited"
    <3>1. CASE child' # 0
      <4>1. h \in Spawned /\ h # child /\ child # 0
        BY <2>1, <3>1 DEF Spawned
      <4>2. h < child
        BY <1>1, <1>2, <4>1
      <4>. QED  BY <2>2, <4>2
    <3>. QED  BY <3>1
  <2>. QED  BY <2>2, <2>3, <2>4, <2>5, <2>6, <2>7, <2>8, MovingOnAccounted
<1>16. CASE \E h \in Hosts : HostEnds(h)
  <2>. PICK h \in Hosts : HostEnds(h)
    BY <1>16
  <2>1. /\ host[h] = "running" /\ UNCHANGED <<child, call, announced, registered, plugin, waitsFor>>
        /\ \E how \in {"killed", "quit"} : host' = [host EXCEPT ![h] = how]
    BY DEF HostEnds, Running
  <2>2. /\ HostsMoveOn /\ host' \in [Hosts -> HostStates]
        /\ \A k \in Hosts : host'[k] = "exited" => host[k] = "exited"
    BY <1>1, <2>1 DEF HostsMoveOn, HostStates
  <2>3. RunnerTypes' /\ CallsMoveOn
    BY <1>1, <1>10, <2>1, <2>2 DEF RunnerTypes
  <2>4. StopAwaits' /\ AnnouncersLive' /\ FactoryHosted'
    BY <1>4, <1>5, <1>6, <2>1, <2>2, <2>3
  <2>. QED  BY <2>1, <2>2, <2>3, <2>4, MovingOnAccounted
<1>17. CASE \E c \in Calls : HostSetsUp(c) \/ HostAnswers(c)
  <2>. PICK c \in Calls : HostSetsUp(c) \/ HostAnswers(c)
    BY <1>17
  <2>1. /\ UNCHANGED <<host, child, call, registered, plugin, waitsFor>>
        /\ announced' \subseteq announced \cup {call[c].to} /\ call[c].to \in Running
    BY DEF HostSetsUp, HostAnswers, Answer, Announcements
  <2>2. RunnerTypes' /\ HostsMoveOn /\ CallsMoveOn
    BY <1>1, <1>9, <1>10, <2>1 DEF RunnerTypes, Running
  <2>3. StopAwaits' /\ FactoryHosted'
    BY <1>4, <1>6, <2>1, <2>2
  <2>4. AnnouncersLive'
    BY <1>1, <2>1 DEF AnnouncersLive, Running
  <2>. QED  BY <2>1, <2>2, <2>3, <2>4, MovingOnAccounted
<1>18. CASE SetupDone \/ StartDone \/ StopThrows \/ stopWithoutHost
  <2>1. /\ UNCHANGED <<host, child, call, announced>>
        /\ registered' \in {registered, Unregistered}
        /\ plugin' \in {"loaded", "started", "removed"}
    BY <1>18 DEF SetupDone, StartDone, StopThrows, stopWithoutHost
  <2>2. RunnerTypes' /\ HostsMoveOn /\ CallsMoveOn
    BY <1>1, <1>9, <1>10, <2>1 DEF RunnerTypes
  <2>3. AnnouncersLive' /\ FactoryHosted'
    BY <1>5, <1>6, <1>7, <2>1, <2>2
  <2>4. StopAwaits'
    BY <2>1 DEF StopAwaits
  <2>. QED  BY <2>1, <2>2, <2>3, <2>4, MovingOnAccounted
<1>19. CASE StopDone
  <2>1. /\ plugin \in {"stopping", "cleaning"}
        /\ host' = Kill(call[waitsFor].to) /\ child' = 0 /\ registered' = Unregistered
        /\ plugin' \in {"started", "removed"}
        /\ UNCHANGED <<call, announced>>
    BY <1>19 DEF StopDone, StopAnswered, AfterStop
  <2>2. waitsFor \in MadeCalls /\ waitsFor \in Calls /\ call[waitsFor].method = "stop"
    BY <1>1, <1>2, <2>1 DEF StopAwaits
  <2>3. /\ HostsMoveOn /\ host' \in [Hosts -> HostStates]
        /\ \A k \in Hosts : host'[k] = "exited" => host[k] = "exited"
        /\ call[waitsFor].to \in Hosts => host'[call[waitsFor].to] # "running"
    BY <1>1, <1>8, <2>1, <2>2
  <2>4. RunnerTypes' /\ CallsMoveOn
    BY <1>1, <1>10, <2>1, <2>3 DEF RunnerTypes
  <2>5. AnnouncersLive' /\ FactoryHosted' /\ StopAwaits'
    BY <1>5, <1>6, <1>7, <2>1, <2>3 DEF StopAwaits
  <2>6. child \notin Running' \/ \E k \in Calls : call[k].to < child /\ IsCause(k)'
    <3>1. CASE child = 0
      BY <3>1 DEF Running
    <3>2. CASE child = call[waitsFor].to
      BY <2>3, <3>2 DEF Running
    <3>3. CASE child # 0 /\ child # call[waitsFor].to
      <4>1. call[waitsFor].to < child
        BY <1>2, <2>2, <3>3
      <4>. QED  BY <2>1, <2>2, <4>1 DEF IsCause
    <3>. QED  BY <3>1, <3>2, <3>3
  <2>. QED  BY <2>1, <2>3, <2>4, <2>5, <2>6, MovingOnAccounted
<1>20. CASE StopTerminates
  <2>1. /\ plugin \in {"stopping", "cleaning"} /\ child # 0
        /\ host' = Kill(child) /\ waitsFor' = child
        /\ plugin' \in {"terminating", "terminating, failed"}
        /\ UNCHANGED <<child, call, announced, registered>>
    BY <1>20 DEF StopTerminates, StopAnswered
  <2>2. waitsFor \in MadeCalls /\ waitsFor \in Calls /\ call[waitsFor].method = "stop"
    BY <1>1, <1>2, <2>1 DEF StopAwaits
  <2>3. /\ HostsMoveOn /\ host' \in [Hosts -> HostStates]
        /\ \A k \in Hosts : host'[k] = "exited" => host[k] = "exited"
    BY <1>1, <1>8, <2>1
  <2>4. RunnerTypes' /\ CallsMoveOn
    BY <1>1, <1>10, <2>1, <2>3 DEF RunnerTypes
  <2>5. AnnouncersLive' /\ FactoryHosted'
    BY <1>5, <1>6, <2>1, <2>3
  <2>6. StopAwaits'
    <3>1. Spawned' = Spawned /\ MadeCalls' = MadeCalls
      BY <2>1, <2>3, <2>4, MovingOn
    <3>2. child \in Spawned /\ call[waitsFor].to <= child
      BY <1>2, <2>1, <2>2
    <3>. QED  BY <2>1, <2>2, <3>1, <3>2 DEF StopAwaits
  <2>. QED  BY <2>1, <2>3, <2>4, <2>5, <2>6, MovingOnAccounted
<1>21. CASE StopTerminated
  <2>1. /\ plugin \in {"terminating", "terminating, failed"} /\ host[waitsFor] = "exited"
        /\ child' = 0 /\ registered' = Unregistered
        /\ plugin' \in {"removed", "started"}
        /\ UNCHANGED <<host, call, announced>>
    BY <1>21 DEF StopTerminated
  <2>2. RunnerTypes' /\ HostsMoveOn /\ CallsMoveOn
    BY <1>1, <1>9, <1>10, <2>1 DEF RunnerTypes
  <2>3. AnnouncersLive' /\ FactoryHosted' /\ StopAwaits'
    BY <1>5, <1>6, <1>7, <2>1, <2>2 DEF StopAwaits
  <2>4. child \notin Running' \/ \E k \in Calls : call[k].to < child /\ IsCause(k)'
    <3>1. CASE child \notin Running
      BY <2>1, <3>1 DEF Running
    <3>2. CASE child \in Running
      <4>1. child \in Hosts /\ child # 0 /\ child # waitsFor
        BY <2>1, <3>2 DEF Running
      <4>2. waitsFor \in Spawned
        BY <1>1, <2>1 DEF StopAwaits
      <4>3. waitsFor <= child /\ waitsFor \in Hosts
        BY <1>2, <4>1, <4>2
      <4>4. PICK c \in MadeCalls : call[c].method = "stop" /\ call[c].to <= waitsFor
        BY <1>1, <2>1 DEF StopAwaits
      <4>5. c \in Calls /\ call[c].to \in Nat /\ waitsFor \in Nat /\ child \in Nat
        BY <1>1, <1>2, <4>1, <4>3
      <4>6. call[c].to < child
        BY <4>1, <4>3, <4>4, <4>5
      <4>. QED  BY <2>1, <4>4, <4>5, <4>6 DEF IsCause
    <3>. QED  BY <3>1, <3>2
  <2>. QED  BY <2>1, <2>2, <2>3, <2>4, MovingOnAccounted
<1>. QED
  BY <1>11, <1>12, <1>13, <1>14, <1>15, <1>16, <1>17, <1>18, <1>19, <1>20, <1>21

\* A call is sent to the current host or to one that is spawned for it.
LEMMA SendStep ==
  ASSUME RunnerInv, NEW c \in Calls, NEW method \in Methods, Send(c, method),
         UNCHANGED <<announced, registered>>,
         \/ UNCHANGED <<plugin, waitsFor>>
         \/ plugin' \in {"setup", "starting"}
         \/ plugin' \in {"stopping", "cleaning"} /\ waitsFor' = c /\ method = "stop"
  PROVE  RunnerInv'
<1>. USE RunnerAssumption
<1>. DEFINE n == Cardinality(Spawned)
            k == Cardinality(MadeCalls)
<1>1. /\ n \in Nat /\ k \in Nat /\ Spawned = 1..n /\ MadeCalls = 1..k
      /\ Spawned \subseteq Hosts /\ MadeCalls \subseteq Calls
      /\ \A h \in Hosts : h \in Nat /\ h # 0
      /\ c \in Nat
  BY FS_CardinalityType DEF RunnerInv, NumberedHosts, NumberedCalls, Spawned, MadeCalls
<1>2. /\ c = k + 1 /\ Target \in Hosts /\ child' = Target
      /\ host' = IF child # 0 THEN host ELSE [host EXCEPT ![Target] = "running"]
      /\ call' = [call EXCEPT ![c] = [method |-> method, to |-> Target, state |-> "pending"]]
  BY DEF Send
<1>3. /\ child # 0 => child = n /\ Target = n /\ n \in Spawned
      /\ child = 0 => Target = n + 1
  <2>1. child # 0 => child = n /\ child \in Hosts
    BY DEF RunnerInv, NumberedHosts, RunnerTypes
  <2>2. child # 0 => n \in 1..n
    BY <1>1, <2>1
  <2>. QED  BY <1>1, <2>1, <2>2 DEF Target
<1>. HIDE DEF n, k
<1>4. /\ host \in [Hosts -> HostStates] /\ child \in Hosts \cup {0} /\ announced \subseteq Hosts
      /\ call \in [Calls -> [method : Methods, to : Hosts \cup {0}, state : CallStates]]
  BY DEF RunnerInv, RunnerTypes
<1>5. /\ call' \in [Calls -> [method : Methods, to : Hosts \cup {0}, state : CallStates]]
      /\ call'[c].method = method /\ call'[c].to = Target /\ call'[c].state = "pending"
      /\ \A d \in Calls : d # c => call'[d] = call[d]
  BY <1>2, <1>4 DEF CallStates
<1>6. /\ host' \in [Hosts -> HostStates]
      /\ \A h \in Hosts : h \in Spawned => host'[h] = host[h]
      /\ \A h \in Hosts : h # Target => host'[h] = host[h]
      /\ child = 0 => host'[Target] = "running"
  <2>1. CASE child # 0
    BY <1>2, <1>4, <2>1
  <2>2. CASE child = 0
    <3>1. Target \notin Spawned
      BY <1>1, <1>3, <2>2
    <3>. QED  BY <1>2, <1>4, <2>2, <3>1 DEF HostStates
  <2>. QED  BY <2>1, <2>2
<1>7. RunnerTypes'
  BY <1>2, <1>4, <1>5, <1>6 DEF RunnerTypes
<1>8. /\ Spawned \subseteq Spawned' /\ Target \in Spawned' /\ IsFiniteSet(Spawned')
      /\ Cardinality(Spawned') = Target /\ Spawned' = 1..Target
  <2>1. CASE child # 0
    <3>1. Spawned' = Spawned
      BY <1>2, <2>1 DEF Spawned
    <3>2. IsFiniteSet(Spawned) /\ Cardinality(Spawned) = n
      BY DEF n, RunnerInv, NumberedHosts
    <3>. QED  BY <1>1, <1>3, <2>1, <3>1, <3>2
  <2>2. CASE child = 0
    <3>1. \A h \in Hosts : h \in Spawned' <=> h \in Spawned \/ h = Target
      <4>. TAKE h \in Hosts
      <4>1. CASE h = Target
        BY <1>6, <2>2, <4>1 DEF Spawned
      <4>2. CASE h # Target
        BY <1>6, <4>2 DEF Spawned
      <4>. QED  BY <4>1, <4>2
    <3>2. Spawned' = Spawned \cup {Target}
      BY <1>1, <1>2, <3>1 DEF Spawned
    <3>3. Spawned' = 1..(n + 1)
      BY <1>1, <1>3, <2>2, <3>2
    <3>4. IsFiniteSet(1..(n + 1)) /\ Cardinality(1..(n + 1)) = n + 1
      <4>1. 1 \in Int /\ n + 1 \in Int /\ 1 <= n + 1
        BY <1>1
      <4>2. IsFiniteSet(1..(n + 1)) /\ Cardinality(1..(n + 1)) = (n + 1) - 1 + 1
        BY <4>1, FS_Interval
      <4>. QED  BY <1>1, <4>2
    <3>. QED  BY <1>1, <1>3, <2>2, <3>2, <3>3, <3>4
  <2>. QED  BY <2>1, <2>2
<1>9. NumberedHosts'
  BY <1>2, <1>8 DEF NumberedHosts
<1>10. /\ MadeCalls' = MadeCalls \cup {c} /\ c \notin MadeCalls
  <2>1. c \notin MadeCalls
    BY <1>1, <1>2
  <2>2. \A d \in Calls : d \in MadeCalls' <=> d \in MadeCalls \/ d = c
    BY <1>5 DEF MadeCalls
  <2>. QED  BY <1>1, <2>1, <2>2 DEF MadeCalls
<1>11. NumberedCalls'
  <2>1. MadeCalls' = 1..(k + 1)
    BY <1>1, <1>2, <1>10
  <2>2. IsFiniteSet(1..(k + 1)) /\ Cardinality(1..(k + 1)) = k + 1
    <3>1. 1 \in Int /\ k + 1 \in Int /\ 1 <= k + 1
      BY <1>1
    <3>2. IsFiniteSet(1..(k + 1)) /\ Cardinality(1..(k + 1)) = (k + 1) - 1 + 1
      BY <3>1, FS_Interval
    <3>. QED  BY <1>1, <3>2
  <2>3. \A d \in Calls : d \in MadeCalls' => call'[d].to \in Spawned'
    BY <1>5, <1>8, <1>10 DEF RunnerInv, NumberedCalls
  <2>4. \A d \in Calls : d \notin MadeCalls' => call'[d] = NoCall
    BY <1>5, <1>10 DEF RunnerInv, NumberedCalls
  <2>. QED  BY <2>1, <2>2, <2>3, <2>4 DEF NumberedCalls, NoCall
<1>12. StopAwaits'
  <2>1. \A d \in MadeCalls : d \in Calls /\ d # c /\ call'[d] = call[d]
    BY <1>1, <1>5, <1>10
  <2>2. CASE UNCHANGED <<plugin, waitsFor>>
    BY <1>8, <1>10, <2>1, <2>2 DEF RunnerInv, StopAwaits
  <2>3. CASE plugin' \in {"setup", "starting"}
    BY <2>3 DEF StopAwaits
  <2>4. CASE plugin' \in {"stopping", "cleaning"} /\ waitsFor' = c /\ method = "stop"
    BY <1>5, <1>10, <2>4 DEF StopAwaits
  <2>. QED  BY <2>2, <2>3, <2>4
<1>13. AnnouncersLive'
  <2>1. \A h \in announced : h \in Hosts /\ h \in Spawned /\ host[h] \notin {"none", "exited"}
    BY <1>4 DEF RunnerInv, AnnouncersLive, Spawned
  <2>. QED  BY <1>6, <2>1 DEF AnnouncersLive
<1>14. StraysHaveCause'
  <2>. SUFFICES ASSUME NEW h \in Running' \ {child'}
                PROVE  \E d \in Calls : call'[d].to < h /\ IsCause(d)'
    BY DEF StraysHaveCause
  <2>1. h \in Hosts /\ h # Target /\ host[h] = "running"
    BY <1>2, <1>6 DEF Running
  <2>2. h \in Running \ {child}
    BY <1>1, <1>3, <2>1 DEF Running
  <2>3. PICK d \in Calls : call[d].to < h /\ IsCause(d)
    BY <2>2 DEF RunnerInv, StraysHaveCause
  <2>4. d # c
    <3>1. c \notin MadeCalls /\ call[c] = NoCall
      BY <1>10 DEF RunnerInv, NumberedCalls
    <3>2. call[c].state = "idle" /\ call[c].method = "none"
      BY <3>1 DEF NoCall
    <3>. QED  BY <2>3, <3>2 DEF IsCause
  <2>. QED  BY <1>5, <2>3, <2>4 DEF IsCause
<1>15. RejectionsHaveCause'
  <2>. SUFFICES ASSUME NEW d \in Calls, call'[d].state = "exited",
                       call'[d].to \in Running' \cap {child'}
                PROVE  \E h \in Hosts : h < call'[d].to /\ host'[h] = "exited"
    BY DEF RejectionsHaveCause
  <2>1. d # c /\ call'[d] = call[d] /\ call[d].to = Target
    BY <1>2, <1>5
  <2>2. call[d].to \in Spawned
    BY <2>1 DEF RunnerInv, NumberedCalls, MadeCalls
  <2>3. child # 0
    BY <1>1, <1>3, <2>1, <2>2
  <2>4. host' = host /\ child' = child
    BY <1>2, <1>3, <2>3
  <2>. QED  BY <2>1, <2>4 DEF RunnerInv, RejectionsHaveCause, Running
<1>16. FactoryHosted'
  <2>1. \A h \in Hosts : host[h] # "none" => h \in Spawned
    BY DEF Spawned
  <2>. QED  BY <1>6, <2>1 DEF RunnerInv, FactoryHosted
<1>. QED  BY <1>7, <1>9, <1>11, <1>12, <1>13, <1>14, <1>15, <1>16 DEF RunnerInv

\* Whatever calls time out, hosts crash or are replaced and the manager does:
\* a host unknown to the runner, a call rejected by the exit of another host
\* and a registered factory have the cause RunnerAccounted names
\* (childProcessRunner.ts, workerThreadRunner.ts, plugin/manager.ts).
THEOREM RunnerStaysAccounted == RunnerInit /\ [][RunnerNext]_runnerVars => []RunnerAccounted
<1>1. RunnerInit => RunnerInv
  <2>. SUFFICES ASSUME RunnerInit PROVE RunnerInv
    OBVIOUS
  <2>1. /\ host = [h \in Hosts |-> "none"] /\ child = 0 /\ call = [c \in Calls |-> NoCall]
        /\ announced = {} /\ registered = "never" /\ plugin = "absent"
    BY DEF RunnerInit
  <2>2. Spawned = {} /\ MadeCalls = {} /\ Running = {}
    BY <2>1 DEF Spawned, MadeCalls, Running, NoCall
  <2>3. IsFiniteSet({}) /\ Cardinality({}) = 0 /\ 1..0 = {}
    BY FS_EmptySet
  <2>4. RunnerTypes
    BY <2>1 DEF RunnerTypes, HostStates, Methods, CallStates, NoCall
  <2>5. NumberedHosts /\ NumberedCalls
    BY <2>1, <2>2, <2>3 DEF NumberedHosts, NumberedCalls
  <2>. QED
    BY <2>1, <2>2, <2>4, <2>5 DEF RunnerInv, StopAwaits, AnnouncersLive, StraysHaveCause,
       RejectionsHaveCause, FactoryHosted
<1>2. RunnerInv /\ [RunnerNext]_runnerVars => RunnerInv'
  <2>. SUFFICES ASSUME RunnerInv, [RunnerNext]_runnerVars PROVE RunnerInv'
    OBVIOUS
  <2>1. CASE \E c \in Calls : invoke(c)
    BY <2>1, SendStep DEF invoke, Methods
  <2>2. CASE \E c \in Calls : loadOne(c) \/ start(c)
    BY <2>2, SendStep DEF loadOne, start, Methods
  <2>3. CASE \E c \in Calls : stop(c)
    <3>. PICK c \in Calls : stop(c)
      BY <2>3
    <3>1. /\ Send(c, "stop") /\ UNCHANGED <<announced, registered>>
          /\ plugin' \in {"stopping", "cleaning"} /\ waitsFor' = c
      BY DEF stop
    <3>. QED  BY <3>1, SendStep DEF Methods
  <2>4. CASE UNCHANGED runnerVars
    BY <2>4 DEF runnerVars, RunnerInv, RunnerTypes, NumberedHosts, NumberedCalls, StopAwaits,
       AnnouncersLive, StraysHaveCause, RejectionsHaveCause, FactoryHosted, IsCause,
       Spawned, MadeCalls, Running
  <2>. QED  BY <2>1, <2>2, <2>3, <2>4, MovingOnStep DEF RunnerNext, ManagerStep
<1>3. RunnerInv => RunnerAccounted
  BY DEF RunnerInv, RunnerAccounted, StraysHaveCause, RejectionsHaveCause, FactoryHosted, IsCause
<1>. QED  BY <1>1, <1>2, <1>3, PTL
-----------------------------------------------------------------------------
(* Array.prototype.filter, and lists joined and cut.                      *)

\* Counting up from zero reaches every natural number.
LEMMA Upwards ==
  ASSUME NEW T, 0 \in T, \A n \in Nat : n \in T => n + 1 \in T
  PROVE  Nat \subseteq T
<1> SUFFICES ASSUME Nat \ T # {} PROVE FALSE
  OBVIOUS
<1>1. PICK n \in Nat \ T : \A m \in Nat \ T : n <= m
  BY LeastNatural
<1>2. n # 0 /\ n - 1 \in Nat /\ ~(n <= n - 1)
  BY <1>1
<1> QED BY <1>1, <1>2

\* The first n steps of the filter.
KeptStep(list, wanted, g, n) ==
  IF n = 0 THEN <<>> ELSE IF list[n] \in wanted THEN Append(g[n - 1], list[n]) ELSE g[n - 1]
KeptUpTo(list, wanted, m) == CHOOSE g : g = [n \in 0 .. m |-> KeptStep(list, wanted, g, n)]

\* The filter's recursion has a solution.
LEMMA KeptExists ==
  ASSUME NEW list, NEW wanted, NEW m \in Nat
  PROVE  \E g : g = [n \in 0 .. m |-> KeptStep(list, wanted, g, n)]
<1> DEFINE T == {k \in Nat : \E g : g = [n \in 0 .. k |-> KeptStep(list, wanted, g, n)]}
<1>1. 0 \in T
  <2> DEFINE g == [n \in 0 .. 0 |-> <<>>]
  <2>1. g = [n \in 0 .. 0 |-> KeptStep(list, wanted, g, n)]
    BY DEF KeptStep
  <2> QED BY <2>1
<1>2. ASSUME NEW k \in Nat, k \in T PROVE k + 1 \in T
  <2>1. PICK g : g = [n \in 0 .. k |-> KeptStep(list, wanted, g, n)]
    BY <1>2
  <2> DEFINE h == [n \in 0 .. (k + 1) |-> IF n = k + 1 THEN KeptStep(list, wanted, g, n) ELSE g[n]]
  <2>2. \A n \in 0 .. (k + 1) : n # 0 => n - 1 \in 0 .. k /\ h[n - 1] = g[n - 1]
    OBVIOUS
  <2>3. \A n \in 0 .. (k + 1) : h[n] = KeptStep(list, wanted, g, n)
    BY <2>1
  <2>4. \A n \in 0 .. (k + 1) : KeptStep(list, wanted, h, n) = KeptStep(list, wanted, g, n)
    BY <2>2 DEF KeptStep
  <2> HIDE DEF h
  <2>5. h = [n \in 0 .. (k + 1) |-> KeptStep(list, wanted, h, n)]
    <3>1. h = [n \in 0 .. (k + 1) |-> h[n]]
      BY DEF h
    <3> QED BY <2>3, <2>4, <3>1
  <2> QED BY <2>5
<1>3. Nat \subseteq T
  <2> HIDE DEF T
  <2> QED BY <1>1, <1>2, Upwards
<1> QED BY <1>3

\* The filter is the last step of that recursion.
LEMMA ThoseIs ==
  ASSUME NEW list, NEW wanted
  PROVE  Those(list, wanted) = KeptUpTo(list, wanted, Len(list))[Len(list)]
BY DEF Those, KeptUpTo, KeptStep

\* k holds, in their order, the members of the list's first m that are in the set.
PickedBy(k, at, list, wanted, m) ==
  /\ at \in [1 .. Len(k) -> 1 .. m]
  /\ \A i, j \in 1 .. Len(k) : i < j => at[i] < at[j]
  /\ \A i \in 1 .. Len(k) : k[i] = list[at[i]] /\ list[at[i]] \in wanted
  /\ \A j \in 1 .. m : list[j] \in wanted => \E i \in 1 .. Len(k) : at[i] = j

\* What the recursion has kept after m steps.
KeptOk(k, list, wanted, S, m) ==
  /\ k \in Seq(S)
  /\ \E at : PickedBy(k, at, list, wanted, m)
  /\ (\A j \in 1 .. m : list[j] \in wanted) => Len(k) = m /\ \A i \in 1 .. m : k[i] = list[i]

\* One step of the filter.
LEMMA KeptNext ==
  ASSUME NEW S, NEW list \in Seq(S), NEW wanted, NEW m \in Nat, m + 1 \in 1 .. Len(list),
         NEW k, KeptOk(k, list, wanted, S, m)
  PROVE  KeptOk(IF list[m + 1] \in wanted THEN Append(k, list[m + 1]) ELSE k, list, wanted, S, m + 1)
<1> DEFINE x == list[m + 1]
<1>1. PICK at : PickedBy(k, at, list, wanted, m)
  BY DEF KeptOk
<1>2. x \in S /\ k \in Seq(S) /\ Len(k) \in Nat
  BY DEF KeptOk
<1>3. (\A j \in 1 .. m : list[j] \in wanted) => Len(k) = m /\ \A i \in 1 .. m : k[i] = list[i]
  BY DEF KeptOk
<1>a. /\ \A i \in 1 .. Len(k) : at[i] \in 1 .. m /\ k[i] = list[at[i]] /\ list[at[i]] \in wanted
      /\ \A i, j \in 1 .. Len(k) : i < j => at[i] < at[j]
      /\ \A j \in 1 .. m : list[j] \in wanted => \E i \in 1 .. Len(k) : at[i] = j
  BY <1>1 DEF PickedBy
<1>4. CASE x \in wanted
  <2> DEFINE to == [i \in 1 .. (Len(k) + 1) |-> IF i = Len(k) + 1 THEN m + 1 ELSE at[i]]
      k2 == Append(k, x)
  <2>1. /\ k2 \in Seq(S) /\ Len(k2) = Len(k) + 1 /\ k2[Len(k) + 1] = x
        /\ \A i \in 1 .. Len(k) : k2[i] = k[i]
    BY <1>2
  <2>2. /\ DOMAIN to = 1 .. (Len(k) + 1) /\ to[Len(k) + 1] = m + 1
        /\ \A i \in 1 .. Len(k) : to[i] = at[i]
    BY <1>2
  <2>0. Len(k2) \in Nat /\ 1 .. Len(k2) = 1 .. (Len(k) + 1)
    BY <1>2, <2>1
  <2> HIDE DEF k2, to
  <2>3. to \in [1 .. Len(k2) -> 1 .. (m + 1)]
    <3>1. to = [i \in 1 .. (Len(k) + 1) |-> to[i]]
      BY DEF to
    <3>2. \A i \in 1 .. (Len(k) + 1) : to[i] \in 1 .. (m + 1)
      <4> SUFFICES ASSUME NEW i \in 1 .. (Len(k) + 1) PROVE to[i] \in 1 .. (m + 1)
        OBVIOUS
      <4>1. CASE i = Len(k) + 1
        BY <2>2, <4>1
      <4>2. CASE i \in 1 .. Len(k)
        <5>1. at[i] \in 1 .. m
          BY <1>a, <4>2
        <5> QED BY <2>2, <4>2, <5>1
      <4> QED BY <1>2, <4>1, <4>2
    <3> QED BY <2>0, <3>1, <3>2
  <2>a. \A i \in 1 .. Len(k2) : i = Len(k) + 1 \/ i \in 1 .. Len(k)
    BY <1>2, <2>0
  <2>4. ASSUME NEW i \in 1 .. Len(k2), NEW j \in 1 .. Len(k2), i < j PROVE to[i] < to[j]
    <3>1. i \in 1 .. Len(k) /\ at[i] \in 1 .. m
      <4>1. i # Len(k) + 1
        BY <1>2, <2>0, <2>4
      <4> QED BY <1>a, <2>a, <4>1
    <3>2. CASE j = Len(k) + 1
      BY <2>2, <3>1, <3>2
    <3>3. CASE j \in 1 .. Len(k)
      BY <1>a, <2>2, <2>4, <3>1, <3>3
    <3> QED BY <2>a, <3>2, <3>3
  <2>5. ASSUME NEW i \in 1 .. Len(k2) PROVE k2[i] = list[to[i]] /\ list[to[i]] \in wanted
    <3>1. CASE i = Len(k) + 1
      BY <1>4, <2>1, <2>2, <3>1
    <3>2. CASE i \in 1 .. Len(k)
      BY <1>a, <2>1, <2>2, <3>2
    <3> QED BY <2>a, <3>1, <3>2
  <2>6. \A j \in 1 .. (m + 1) : list[j] \in wanted => \E i \in 1 .. Len(k2) : to[i] = j
    <3> SUFFICES ASSUME NEW j \in 1 .. (m + 1), list[j] \in wanted PROVE \E i \in 1 .. Len(k2) : to[i] = j
      OBVIOUS
    <3>1. CASE j = m + 1
      BY <1>2, <2>0, <2>2, <3>1
    <3>2. CASE j \in 1 .. m
      <4>1. PICK i \in 1 .. Len(k) : at[i] = j
        BY <1>a, <3>2
      <4> QED BY <1>2, <2>0, <2>2, <4>1
    <3> QED BY <3>1, <3>2
  <2>7. PickedBy(k2, to, list, wanted, m + 1)
    BY <2>3, <2>4, <2>5, <2>6 DEF PickedBy
  <2>8. (\A j \in 1 .. (m + 1) : list[j] \in wanted)
           => Len(k2) = m + 1 /\ \A i \in 1 .. (m + 1) : k2[i] = list[i]
    <3> SUFFICES ASSUME \A j \in 1 .. (m + 1) : list[j] \in wanted
                 PROVE  Len(k2) = m + 1 /\ \A i \in 1 .. (m + 1) : k2[i] = list[i]
      OBVIOUS
    <3>1. Len(k) = m /\ \A i \in 1 .. m : k[i] = list[i]
      BY <1>3
    <3> QED BY <2>1, <3>1
  <2>9. KeptOk(k2, list, wanted, S, m + 1)
    BY <2>1, <2>7, <2>8 DEF KeptOk
  <2> QED BY <1>4, <2>9 DEF k2
<1>5. CASE x \notin wanted
  <2>1. at \in [1 .. Len(k) -> 1 .. (m + 1)]
    BY <1>1 DEF PickedBy
  <2>2. \A j \in 1 .. (m + 1) : list[j] \in wanted => \E i \in 1 .. Len(k) : at[i] = j
    <3> SUFFICES ASSUME NEW j \in 1 .. (m + 1), list[j] \in wanted PROVE \E i \in 1 .. Len(k) : at[i] = j
      OBVIOUS
    <3>1. j \in 1 .. m
      BY <1>5
    <3> QED BY <1>1, <3>1 DEF PickedBy
  <2>3. PickedBy(k, at, list, wanted, m + 1)
    BY <1>1, <2>1, <2>2 DEF PickedBy
  <2>4. ~ \A j \in 1 .. (m + 1) : list[j] \in wanted
    BY <1>5
  <2>5. KeptOk(k, list, wanted, S, m + 1)
    BY <1>2, <2>3, <2>4 DEF KeptOk
  <2> QED BY <1>5, <2>5
<1> QED BY <1>4, <1>5

\* The filter picks the wanted members in their order, all of the list if all
\* are wanted.
LEMMA KeptFacts ==
  ASSUME NEW S, NEW list \in Seq(S), NEW wanted,
         NEW g, g = [n \in 0 .. Len(list) |-> KeptStep(list, wanted, g, n)]
  PROVE  KeptOk(g[Len(list)], list, wanted, S, Len(list))
<1> DEFINE T == {m \in Nat : m \in 0 .. Len(list) => KeptOk(g[m], list, wanted, S, m)}
<1>0. /\ Len(list) \in Nat
      /\ \A m \in 0 .. Len(list) : g[m] = KeptStep(list, wanted, g, m)
  <2> DEFINE h == [n \in 0 .. Len(list) |-> KeptStep(list, wanted, g, n)]
  <2>1. \A m \in 0 .. Len(list) : h[m] = KeptStep(list, wanted, g, m)
    OBVIOUS
  <2>2. g = h
    OBVIOUS
  <2> HIDE DEF h
  <2> QED BY <2>1, <2>2
<1>1. 0 \in T
  <2>1. g[0] = <<>>
    BY <1>0 DEF KeptStep
  <2> DEFINE at == [i \in 1 .. 0 |-> 0]
  <2>2. PickedBy(g[0], at, list, wanted, 0)
    BY <2>1 DEF PickedBy
  <2>3. KeptOk(g[0], list, wanted, S, 0)
    BY <2>1, <2>2 DEF KeptOk
  <2> QED BY <2>3
<1>2. ASSUME NEW m \in Nat, m \in T PROVE m + 1 \in T
  <2> SUFFICES ASSUME m + 1 \in 0 .. Len(list) PROVE KeptOk(g[m + 1], list, wanted, S, m + 1)
    OBVIOUS
  <2>1. m \in 0 .. Len(list) /\ m + 1 \in 1 .. Len(list)
    BY <1>0
  <2>2. KeptOk(g[m], list, wanted, S, m)
    BY <1>2, <2>1
  <2>3. g[m + 1] = IF list[m + 1] \in wanted THEN Append(g[m], list[m + 1]) ELSE g[m]
    <3>1. g[m + 1] = KeptStep(list, wanted, g, m + 1)
      BY <1>0
    <3>2. m + 1 # 0 /\ (m + 1) - 1 = m
      OBVIOUS
    <3> QED BY <3>1, <3>2 DEF KeptStep
  <2> QED BY <2>1, <2>2, <2>3, KeptNext
<1>3. Nat \subseteq T
  <2> HIDE DEF T
  <2> QED BY <1>1, <1>2, Upwards
<1> QED BY <1>0, <1>3

\* The filter's result, as an order-preserving choice of places.
LEMMA ThosePicks ==
  ASSUME NEW S, NEW list \in Seq(S), NEW wanted
  PROVE  KeptOk(Those(list, wanted), list, wanted, S, Len(list))
<1> DEFINE g == KeptUpTo(list, wanted, Len(list))
<1>1. Len(list) \in Nat
  OBVIOUS
<1>2. g = [i \in 0 .. Len(list) |-> KeptStep(list, wanted, g, i)]
  BY <1>1, KeptExists DEF KeptUpTo
<1>3. Those(list, wanted) = g[Len(list)]
  BY ThoseIs
<1> HIDE DEF g
<1> QED BY <1>2, <1>3, KeptFacts

\* What the filter keeps: the members in the set, each where the list has it,
\* once if the list has it once.
LEMMA ThoseFacts ==
  ASSUME NEW S, NEW list \in Seq(S), NEW wanted
  PROVE  /\ Those(list, wanted) \in Seq(S)
         /\ ToSet(Those(list, wanted)) = ToSet(list) \cap wanted
         /\ IsInjective(list) => IsInjective(Those(list, wanted))
         /\ ToSet(list) \subseteq wanted => Those(list, wanted) = list
<1> DEFINE k == Those(list, wanted)
<1>1. /\ k \in Seq(S)
      /\ \E at : PickedBy(k, at, list, wanted, Len(list))
      /\ (\A j \in 1 .. Len(list) : list[j] \in wanted) => k = list
  BY ThosePicks, SeqEqual DEF KeptOk
<1> HIDE DEF k
<1>2. PICK at : PickedBy(k, at, list, wanted, Len(list))
  BY <1>1
<1>3. /\ DOMAIN k = 1 .. Len(k) /\ DOMAIN list = 1 .. Len(list)
      /\ Len(k) \in Nat /\ Len(list) \in Nat
  BY <1>1
<1>a. /\ \A i \in 1 .. Len(k) : at[i] \in 1 .. Len(list) /\ k[i] = list[at[i]] /\ list[at[i]] \in wanted
      /\ \A i, j \in 1 .. Len(k) : i < j => at[i] < at[j]
      /\ \A j \in 1 .. Len(list) : list[j] \in wanted => \E i \in 1 .. Len(k) : at[i] = j
  BY <1>2 DEF PickedBy
<1>4. ToSet(k) = ToSet(list) \cap wanted
  <2>1. \A i \in DOMAIN k : k[i] \in ToSet(list) \cap wanted
    BY <1>3, <1>a DEF ToSet
  <2>2. ASSUME NEW j \in DOMAIN list, list[j] \in wanted PROVE \E i \in DOMAIN k : k[i] = list[j]
    BY <1>3, <1>a, <2>2
  <2> QED BY <2>1, <2>2 DEF ToSet
<1>5. ASSUME IsInjective(list) PROVE IsInjective(k)
  <2>1. \A i, j \in 1 .. Len(list) : list[i] = list[j] => i = j
    BY <1>3, <1>5 DEF IsInjective
  <2> SUFFICES ASSUME NEW i \in 1 .. Len(k), NEW j \in 1 .. Len(k), k[i] = k[j] PROVE i = j
    BY <1>3 DEF IsInjective
  <2>2. at[i] = at[j] /\ at[i] \in Nat
    BY <1>3, <1>a, <2>1
  <2>3. ~(i < j) /\ ~(j < i)
    BY <1>a, <2>2
  <2> QED BY <2>3
<1>6. ToSet(list) \subseteq wanted => k = list
  BY <1>1, <1>3 DEF ToSet
<1> QED BY <1>1, <1>4, <1>5, <1>6 DEF k

\* A list that is not empty has members.
LEMMA FirstMember ==
  ASSUME NEW S, NEW s \in Seq(S), s # <<>>
  PROVE  s[1] \in ToSet(s) /\ Head(s) = s[1] /\ Len(s) > 0
<1>1. Len(s) > 0 /\ DOMAIN s = 1 .. Len(s) /\ Len(s) \in Nat
  BY EmptySeq
<1> QED BY <1>1 DEF ToSet

\* A list holds its head and what its tail holds.
LEMMA HeadOrTail ==
  ASSUME NEW S, NEW s \in Seq(S), s # <<>>
  PROVE  ToSet(s) = {Head(s)} \cup ToSet(Tail(s))
<1> DEFINE tail == Tail(s)
<1>1. Len(s) > 0 /\ Head(s) = s[1] /\ Len(s) \in Nat /\ DOMAIN s = 1 .. Len(s)
  BY FirstMember
<1>2. tail \in Seq(S) /\ Len(tail) = Len(s) - 1 /\ \A i \in 1 .. Len(tail) : tail[i] = s[i + 1]
  BY HeadTailProperties
<1> HIDE DEF tail
<1>3. DOMAIN tail = 1 .. (Len(s) - 1)
  BY <1>2
<1>4. ToSet(tail) \subseteq ToSet(s)
  <2>1. \A i \in DOMAIN tail : i + 1 \in DOMAIN s /\ tail[i] = s[i + 1]
    BY <1>1, <1>2, <1>3
  <2> QED BY <2>1 DEF ToSet
<1>5. Head(s) \in ToSet(s)
  BY <1>1 DEF ToSet
<1>6. ASSUME NEW x \in ToSet(s) PROVE x = Head(s) \/ x \in ToSet(tail)
  <2>1. PICK i \in DOMAIN s : x = s[i]
    BY DEF ToSet
  <2>2. CASE i = 1
    BY <1>1, <2>1, <2>2
  <2>3. CASE i # 1
    <3>1. i - 1 \in DOMAIN tail /\ (i - 1) + 1 = i
      BY <1>1, <1>3, <2>3
    <3>2. tail[i - 1] = x
      BY <1>2, <1>3, <2>1, <3>1
    <3> QED BY <3>1, <3>2 DEF ToSet
  <2> QED BY <2>2, <2>3
<1> QED BY <1>4, <1>5, <1>6 DEF tail

\* Where the members of two lists one after the other come from.
LEMMA JoinedPlaces ==
  ASSUME NEW S, NEW a \in Seq(S), NEW b \in Seq(S)
  PROVE  /\ a \o b \in Seq(S) /\ Len(a \o b) = Len(a) + Len(b)
         /\ DOMAIN (a \o b) = 1 .. (Len(a) + Len(b)) /\ DOMAIN a = 1 .. Len(a) /\ DOMAIN b = 1 .. Len(b)
         /\ \A i \in DOMAIN (a \o b) :
               \/ i \in DOMAIN a /\ (a \o b)[i] = a[i]
               \/ i - Len(a) \in DOMAIN b /\ (a \o b)[i] = b[i - Len(a)] /\ i > Len(a)
         /\ \A i \in DOMAIN a : i \in DOMAIN (a \o b) /\ (a \o b)[i] = a[i]
         /\ \A i \in DOMAIN b : i + Len(a) \in DOMAIN (a \o b) /\ (a \o b)[i + Len(a)] = b[i]
         /\ ToSet(a \o b) = ToSet(a) \cup ToSet(b)
<1> DEFINE c == a \o b
<1>1. /\ c \in Seq(S) /\ Len(c) = Len(a) + Len(b)
      /\ \A i \in 1 .. (Len(a) + Len(b)) : c[i] = IF i <= Len(a) THEN a[i] ELSE b[i - Len(a)]
  BY ConcatProperties
<1>2. /\ Len(a) \in Nat /\ Len(b) \in Nat /\ DOMAIN a = 1 .. Len(a) /\ DOMAIN b = 1 .. Len(b)
  OBVIOUS
<1> HIDE DEF c
<1>3. DOMAIN c = 1 .. (Len(a) + Len(b))
  BY <1>1, <1>2
<1>4. \A i \in DOMAIN c : (i \in DOMAIN a /\ c[i] = a[i]) \/ (i - Len(a) \in DOMAIN b /\ c[i] = b[i - Len(a)] /\ i > Len(a))
  BY <1>1, <1>2, <1>3
<1>5. /\ \A i \in DOMAIN a : i \in DOMAIN c /\ c[i] = a[i]
      /\ \A i \in DOMAIN b : i + Len(a) \in DOMAIN c /\ c[i + Len(a)] = b[i]
  <2>1. \A i \in DOMAIN b : (i + Len(a)) - Len(a) = i /\ ~(i + Len(a) <= Len(a))
    BY <1>2
  <2> QED BY <1>1, <1>2, <1>3, <2>1
<1>6. ToSet(c) = ToSet(a) \cup ToSet(b)
  BY <1>4, <1>5 DEF ToSet
<1> QED BY <1>1, <1>2, <1>3, <1>4, <1>5, <1>6 DEF c

\* Two lists without a common member, one after the other: what is in the first
\* comes first.
LEMMA ApartJoined ==
  ASSUME NEW S, NEW a \in Seq(S), NEW b \in Seq(S), ToSet(a) \cap ToSet(b) = {}
  PROVE  /\ a \o b \in Seq(S)
         /\ ToSet(a \o b) = ToSet(a) \cup ToSet(b)
         /\ IsInjective(a) /\ IsInjective(b) => IsInjective(a \o b)
         /\ \A i, j \in DOMAIN (a \o b) : i < j /\ (a \o b)[j] \in ToSet(a) => (a \o b)[i] \in ToSet(a)
<1> DEFINE c == a \o b
<1>1. /\ c \in Seq(S) /\ Len(c) = Len(a) + Len(b)
      /\ DOMAIN c = 1 .. (Len(a) + Len(b)) /\ DOMAIN a = 1 .. Len(a) /\ DOMAIN b = 1 .. Len(b)
      /\ ToSet(c) = ToSet(a) \cup ToSet(b)
  BY JoinedPlaces
<1>2. Len(a) \in Nat /\ Len(b) \in Nat
  OBVIOUS
<1>3. DOMAIN c = 1 .. (Len(a) + Len(b))
  BY <1>1
<1>4. \A i \in DOMAIN c : (i \in DOMAIN a /\ c[i] = a[i]) \/ (i - Len(a) \in DOMAIN b /\ c[i] = b[i - Len(a)] /\ i > Len(a))
  BY JoinedPlaces
<1>5. \A i \in DOMAIN a : i \in DOMAIN c /\ c[i] = a[i]
  BY JoinedPlaces
<1>6. \A x \in DOMAIN a, y \in DOMAIN b : a[x] # b[y]
  BY DEF ToSet
<1> HIDE DEF c
<1>7. ASSUME IsInjective(a), IsInjective(b) PROVE IsInjective(c)
  <2> SUFFICES ASSUME NEW i \in DOMAIN c, NEW j \in DOMAIN c, c[i] = c[j] PROVE i = j
    BY DEF IsInjective
  <2>2. \A x, y \in DOMAIN a : a[x] = a[y] => x = y
    BY <1>7 DEF IsInjective
  <2>3. \A x, y \in DOMAIN b : b[x] = b[y] => x = y
    BY <1>7 DEF IsInjective
  <2>4. CASE i \in DOMAIN a /\ c[i] = a[i]
    BY <1>4, <1>6, <2>2, <2>4
  <2>5. CASE i - Len(a) \in DOMAIN b /\ c[i] = b[i - Len(a)]
    <3>1. j - Len(a) \in DOMAIN b /\ c[j] = b[j - Len(a)]
      BY <1>4, <1>6, <2>5
    <3>2. i - Len(a) = j - Len(a)
      BY <2>3, <2>5, <3>1
    <3>3. i \in Nat /\ j \in Nat
      BY <1>2, <1>3
    <3> QED BY <1>2, <3>2, <3>3
  <2> QED BY <1>4, <2>4, <2>5
<1>8. ASSUME NEW i \in DOMAIN c, NEW j \in DOMAIN c, i < j, c[j] \in ToSet(a)
      PROVE  c[i] \in ToSet(a)
  <2>1. j \in DOMAIN a
    <3>1. PICK x \in DOMAIN a : c[j] = a[x]
      BY <1>8 DEF ToSet
    <3> QED BY <1>4, <1>6, <3>1
  <2>2. i \in DOMAIN a
    BY <1>1, <1>2, <1>3, <1>8, <2>1
  <2> QED BY <1>5, <2>2 DEF ToSet
<1> QED BY <1>1, <1>7, <1>8 DEF c

\* Cutting a list in two loses nothing.
LEMMA CutFacts ==
  ASSUME NEW S, NEW s \in Seq(S), NEW n \in 0 .. Len(s)
  PROVE  /\ SubSeq(s, 1, n) \in Seq(S) /\ SubSeq(s, n + 1, Len(s)) \in Seq(S)
         /\ Len(SubSeq(s, 1, n)) = n /\ Len(SubSeq(s, n + 1, Len(s))) = Len(s) - n
         /\ \A i \in 1 .. n : SubSeq(s, 1, n)[i] = s[i]
         /\ \A i \in 1 .. (Len(s) - n) : SubSeq(s, n + 1, Len(s))[i] = s[n + i]
         /\ ToSet(SubSeq(s, 1, n)) \cup ToSet(SubSeq(s, n + 1, Len(s))) = ToSet(s)
<1> DEFINE a == SubSeq(s, 1, n)
    b == SubSeq(s, n + 1, Len(s))
<1>0. Len(s) \in Nat /\ DOMAIN s = 1 .. Len(s) /\ n \in Nat /\ n <= Len(s)
  OBVIOUS
<1>1. a \in Seq(S) /\ Len(a) = n /\ \A i \in 1 .. n : a[i] = s[i]
  BY <1>0
<1>2. b \in Seq(S) /\ Len(b) = Len(s) - n /\ \A i \in 1 .. (Len(s) - n) : b[i] = s[n + i]
  <2>1. n + 1 \in Int /\ Len(s) \in Int /\ \A i \in (n + 1) .. Len(s) : s[i] \in S
    BY <1>0
  <2>2. /\ b \in Seq(S) /\ Len(b) = IF n + 1 <= Len(s) THEN Len(s) - (n + 1) + 1 ELSE 0
        /\ \A i \in 1 .. (Len(s) - (n + 1) + 1) : b[i] = s[(n + 1) + i - 1]
    BY <2>1, SubSeqProperties
  <2> HIDE DEF b
  <2>3. Len(s) - (n + 1) + 1 = Len(s) - n /\ \A i \in 1 .. (Len(s) - n) : (n + 1) + i - 1 = n + i
    BY <1>0
  <2> DEFINE m == Len(s)
  <2>a. m \in Nat /\ n \in Nat /\ n <= m /\ Len(b) = IF n + 1 <= m THEN m - (n + 1) + 1 ELSE 0
    BY <1>0, <2>2
  <2> HIDE DEF m
  <2>4. Len(b) = m - n
    BY <2>a
  <2>5. ASSUME NEW i \in 1 .. (Len(s) - n) PROVE b[i] = s[n + i]
    BY <2>2, <2>3
  <2> QED BY <2>2, <2>4, <2>5 DEF m
<1> HIDE DEF a, b
<1>3. DOMAIN a = 1 .. n /\ DOMAIN b = 1 .. (Len(s) - n)
  BY <1>1, <1>2
<1>4. ToSet(a) \cup ToSet(b) = ToSet(s)
  <2>1. \A i \in DOMAIN a : i \in DOMAIN s
    BY <1>0, <1>3
  <2>2. \A i \in DOMAIN b : n + i \in DOMAIN s
    BY <1>0, <1>3
  <2>3. \A i \in DOMAIN s : i \in DOMAIN a \/ (i - n \in DOMAIN b /\ n + (i - n) = i)
    BY <1>0, <1>3
  <2>4. ASSUME NEW x \in ToSet(s) PROVE x \in ToSet(a) \cup ToSet(b)
    <3>1. PICK i \in DOMAIN s : x = s[i]
      BY DEF ToSet
    <3>2. CASE i \in DOMAIN a
      BY <1>1, <1>3, <3>1, <3>2 DEF ToSet
    <3>3. CASE i - n \in DOMAIN b /\ n + (i - n) = i
      <4>1. b[i - n] = x
        BY <1>2, <1>3, <3>1, <3>3
      <4> QED BY <3>3, <4>1 DEF ToSet
    <3> QED BY <2>3, <3>2, <3>3
  <2>5. ToSet(a) \subseteq ToSet(s)
    BY <1>1, <1>3, <2>1 DEF ToSet
  <2>6. ToSet(b) \subseteq ToSet(s)
    BY <1>2, <1>3, <2>2 DEF ToSet
  <2> QED BY <2>4, <2>5, <2>6
<1> QED BY <1>1, <1>2, <1>4 DEF a, b

\* A list that repeats nothing is cut into two that share nothing.
LEMMA CutApart ==
  ASSUME NEW S, NEW s \in Seq(S), IsInjective(s), NEW n \in 0 .. Len(s)
  PROVE  /\ IsInjective(SubSeq(s, 1, n)) /\ IsInjective(SubSeq(s, n + 1, Len(s)))
         /\ ToSet(SubSeq(s, 1, n)) \cap ToSet(SubSeq(s, n + 1, Len(s))) = {}
<1> DEFINE a == SubSeq(s, 1, n)
    b == SubSeq(s, n + 1, Len(s))
    L == Len(s)
<1>1. /\ a \in Seq(S) /\ b \in Seq(S) /\ Len(a) = n /\ Len(b) = L - n
      /\ \A i \in 1 .. n : a[i] = s[i]
      /\ \A i \in 1 .. (L - n) : b[i] = s[n + i]
  BY CutFacts
<1>2. L \in Nat /\ n \in Nat /\ n <= L /\ DOMAIN s = 1 .. L
  OBVIOUS
<1>3. \A i, j \in 1 .. L : s[i] = s[j] => i = j
  BY <1>2 DEF IsInjective
<1> HIDE DEF a, b, L
<1>4. DOMAIN a = 1 .. n /\ DOMAIN b = 1 .. (L - n)
  BY <1>1, <1>2
<1>5. \A i \in 1 .. n : i \in 1 .. L
  BY <1>2
<1>6. \A i \in 1 .. (L - n) : n + i \in 1 .. L /\ n + i > n
  BY <1>2
<1>7. IsInjective(a)
  BY <1>1, <1>3, <1>4, <1>5 DEF IsInjective
<1>8. IsInjective(b)
  <2> SUFFICES ASSUME NEW i \in 1 .. (L - n), NEW j \in 1 .. (L - n), b[i] = b[j] PROVE i = j
    BY <1>4 DEF IsInjective
  <2>1. n + i = n + j
    BY <1>1, <1>3, <1>6
  <2> QED BY <1>2, <2>1
<1>9. ToSet(a) \cap ToSet(b) = {}
  <2> SUFFICES ASSUME NEW i \in 1 .. n, NEW j \in 1 .. (L - n), a[i] = b[j] PROVE FALSE
    BY <1>4 DEF ToSet
  <2>1. i = n + j
    BY <1>1, <1>3, <1>5, <1>6
  <2> QED BY <1>2, <2>1
<1> QED BY <1>7, <1>8, <1>9 DEF a, b, L

\* A list has no more members than places.
LEMMA MembersBound ==
  ASSUME NEW S, NEW s \in Seq(S)
  PROVE  IsFiniteSet(ToSet(s)) /\ Cardinality(ToSet(s)) \in Nat /\ Cardinality(ToSet(s)) <= Len(s)
<1>1. Len(s) \in Nat /\ DOMAIN s = 1 .. Len(s)
  OBVIOUS
<1>2. IsFiniteSet(1 .. Len(s)) /\ Cardinality(1 .. Len(s)) = Len(s)
  BY <1>1, FS_Interval
<1>3. s \in Surjection(1 .. Len(s), ToSet(s))
  <2>1. s \in [1 .. Len(s) -> ToSet(s)]
    BY <1>1 DEF ToSet
  <2> QED BY <1>1, <2>1 DEF Surjection, ToSet
<1>4. IsFiniteSet(ToSet(s)) /\ Cardinality(ToSet(s)) <= Cardinality(1 .. Len(s))
  BY <1>2, <1>3, FS_Surjection
<1> QED BY <1>2, <1>4, FS_CardinalityType

\* A member is added at the end.
LEMMA AddedLast ==
  ASSUME NEW S, NEW s \in Seq(S), NEW x \in S, x \notin ToSet(s)
  PROVE  /\ Append(s, x) \in Seq(S) /\ ToSet(Append(s, x)) = ToSet(s) \cup {x}
         /\ IsInjective(s) => IsInjective(Append(s, x))
<1> DEFINE a == Append(s, x)
    m == Len(s)
<1>1. /\ a \in Seq(S) /\ Len(a) = m + 1 /\ m \in Nat /\ DOMAIN s = 1 .. m
      /\ a[m + 1] = x /\ \A i \in 1 .. m : a[i] = s[i]
  OBVIOUS
<1> HIDE DEF a, m
<1>2. DOMAIN a = 1 .. (m + 1) /\ \A i \in 1 .. (m + 1) : i = m + 1 \/ i \in 1 .. m
  BY <1>1
<1>3. m + 1 \in DOMAIN a /\ \A i \in 1 .. m : i \in DOMAIN a
  BY <1>1, <1>2
<1>4. ToSet(a) = ToSet(s) \cup {x}
  BY <1>1, <1>2, <1>3 DEF ToSet
<1>5. \A i \in 1 .. m : s[i] # x
  BY <1>1 DEF ToSet
<1>6. ASSUME IsInjective(s) PROVE IsInjective(a)
  <2>1. \A i, j \in 1 .. m : s[i] = s[j] => i = j
    BY <1>1, <1>6 DEF IsInjective
  <2> SUFFICES ASSUME NEW i \in 1 .. (m + 1), NEW j \in 1 .. (m + 1), a[i] = a[j] PROVE i = j
    BY <1>2 DEF IsInjective
  <2> QED BY <1>1, <1>2, <1>5, <2>1
<1> QED BY <1>1, <1>4, <1>6 DEF a

\* A set numbered from 1 to n has n members.
LEMMA CountedOnce ==
  ASSUME NEW n \in Nat, NEW T, NEW f \in [1 .. n -> T],
         \A i, j \in 1 .. n : f[i] = f[j] => i = j, \A t \in T : \E i \in 1 .. n : f[i] = t
  PROVE  Cardinality(T) = n
<1>1. IsFiniteSet(1 .. n) /\ Cardinality(1 .. n) = n
  BY FS_Interval
<1>2. f \in Bijection(1 .. n, T)
  BY DEF Bijection, Injection, Surjection, IsInjective
<1>3. ExistsBijection(1 .. n, T)
  BY <1>2 DEF ExistsBijection
<1> QED BY <1>1, <1>3, FS_Bijection

-----------------------------------------------------------------------------
(* Routing policies: packets, probes and reloads.                          *)

\* The outbounds of a policy, as it lists them.
Listed(p) == Policies[p].outbounds

\* Something is listed, and all of it is a tag.
LEMMA ListedFacts ==
  ASSUME NEW p \in DOMAIN Policies
  PROVE  /\ Listed(p) \in Seq(Tags) /\ Listed(p) # <<>>
         /\ Len(Listed(p)) \in Nat \ {0} /\ ToSet(Listed(p)) \subseteq Tags
<1>1. Listed(p) \in Seq(ToSet(Listed(p))) /\ Listed(p) # <<>>
  BY PoliciesAssumption DEF Listed
<1>2. ToSet(Listed(p)) \subseteq Tags
  BY DEF Tags, Listed
<1>3. Listed(p) \in Seq(Tags)
  BY <1>1, <1>2, SeqMonotonic
<1> QED BY <1>1, <1>2, <1>3, EmptySeq

\* What Without leaves.
LEMMA WithoutFacts ==
  ASSUME NEW S, NEW s \in Seq(S), NEW away
  PROVE  /\ Without(s, away) \in Seq(S)
         /\ ToSet(Without(s, away)) = ToSet(s) \ away
         /\ IsInjective(s) => IsInjective(Without(s, away))
<1> DEFINE wanted == ToSet(s) \ away
<1>1. Without(s, away) = Those(s, wanted)
  BY DEF Without
<1> HIDE DEF wanted
<1>2. /\ Those(s, wanted) \in Seq(S)
      /\ ToSet(Those(s, wanted)) = ToSet(s) \cap wanted
      /\ IsInjective(s) => IsInjective(Those(s, wanted))
  BY ThoseFacts
<1> QED BY <1>1, <1>2 DEF wanted

\* The types of the health records.
HealthRecords == [failures : Nat, lastFailureAt : Nat, latencyEwmaMs : Nat]

\* The list's members that are healthy come first; nothing is lost or repeated.
SoundOrder(p, order, healthy) ==
  /\ order \in Seq(Tags) /\ order # <<>>
  /\ ToSet(order) = ToSet(Listed(p))
  /\ IsInjective(Listed(p)) => IsInjective(order)
  /\ \A i, j \in DOMAIN order : i < j /\ order[j] \in healthy => order[i] \in healthy

\* What the filter by health keeps.
LEMMA HealthyFacts ==
  ASSUME NEW g, NEW p \in DOMAIN Policies
  PROVE  /\ Healthy(g, p) \in Seq(Tags)
         /\ ToSet(Healthy(g, p)) \subseteq ToSet(Listed(p))
         /\ IsInjective(Listed(p)) => IsInjective(Healthy(g, p))
         /\ ToSet(Healthy(g, p)) = ToSet(Listed(p)) => Healthy(g, p) = Listed(p)
<1> DEFINE up == {t \in Tags : isHealthy(g, t)}
<1>1. Healthy(g, p) = Those(Listed(p), up)
  BY DEF Healthy, Listed
<1> HIDE DEF up
<1>2. Listed(p) \in Seq(Tags)
  BY ListedFacts
<1>3. /\ Those(Listed(p), up) \in Seq(Tags)
      /\ ToSet(Those(Listed(p), up)) = ToSet(Listed(p)) \cap up
      /\ IsInjective(Listed(p)) => IsInjective(Those(Listed(p), up))
      /\ ToSet(Listed(p)) \subseteq up => Those(Listed(p), up) = Listed(p)
  BY <1>2, ThoseFacts
<1> QED BY <1>1, <1>3

\* A pool that is not empty has a first member with the least latency.
LEMMA FastestExists ==
  ASSUME NEW g \in Generations, health \in [Generations -> [Tags -> HealthRecords]],
         NEW pool \in Seq(Tags), pool # <<>>
  PROVE  \E i \in DOMAIN pool : \A j \in DOMAIN pool :
            Faster(g, pool[i], pool[j]) \/ (~Faster(g, pool[j], pool[i]) /\ i <= j)
<1> DEFINE ms(t) == health[g][t].latencyEwmaMs
    Known == {ms(pool[i]) : i \in {k \in DOMAIN pool : ms(pool[k]) # 0}}
<1>1. DOMAIN pool = 1 .. Len(pool) /\ Len(pool) \in Nat /\ 1 \in DOMAIN pool
  BY EmptySeq
<1>2. \A i \in DOMAIN pool : ms(pool[i]) \in Nat
  BY <1>1 DEF HealthRecords
<1>3. \A i, j \in DOMAIN pool :
         Faster(g, pool[i], pool[j]) <=> (ms(pool[i]) # 0 /\ (ms(pool[j]) = 0 \/ ms(pool[i]) < ms(pool[j])))
  BY DEF Faster
<1> HIDE DEF ms
<1>4. CASE Known = {}
  <2>1. \A i \in DOMAIN pool : ms(pool[i]) = 0
    BY <1>4
  <2> QED BY <1>1, <1>3, <2>1
<1>5. CASE Known # {}
  <2>1. Known \in SUBSET Nat
    BY <1>2
  <2>2. PICK m \in Known : \A n \in Known : m <= n
    BY <1>5, <2>1, LeastNatural
  <2> DEFINE First == {i \in DOMAIN pool : ms(pool[i]) = m}
  <2>3. First \in SUBSET Nat /\ First # {} /\ m \in Nat /\ m # 0
    <3>1. First \in SUBSET Nat
      BY <1>1
    <3>2. PICK i \in {k \in DOMAIN pool : ms(pool[k]) # 0} : m = ms(pool[i])
      BY <2>2
    <3>3. i \in First
      BY <3>2
    <3> QED BY <2>1, <3>1, <3>2, <3>3
  <2>4. PICK i \in First : \A j \in First : i <= j
    BY <2>3, LeastNatural
  <2>5. ASSUME NEW j \in DOMAIN pool
        PROVE  Faster(g, pool[i], pool[j]) \/ (~Faster(g, pool[j], pool[i]) /\ i <= j)
    <3>1. CASE ms(pool[j]) = 0
      BY <1>3, <2>3, <2>4, <3>1
    <3>2. CASE ms(pool[j]) # 0 /\ ms(pool[j]) # m
      <4>1. m <= ms(pool[j]) /\ ms(pool[j]) \in Nat
        BY <1>2, <2>2, <3>2
      <4> QED BY <1>3, <2>3, <2>4, <3>2, <4>1
    <3>3. CASE ms(pool[j]) = m
      <4>1. i <= j
        BY <2>4, <3>3
      <4> QED BY <1>3, <2>3, <2>4, <3>3, <4>1
    <3> QED BY <3>1, <3>2, <3>3
  <2> QED BY <2>4, <2>5
<1> QED BY <1>4, <1>5

\* The first one comes out of the pool; under round robin it is the one whose
\* turn it is.
LEMMA FirstFacts ==
  ASSUME NEW g \in Generations, health \in [Generations -> [Tags -> HealthRecords]],
         rotation \in [Generations -> [DOMAIN Policies -> Nat]],
         NEW p \in DOMAIN Policies, NEW pool \in Seq(Tags), pool # <<>>,
         NEW first \in pickLoadBalanceFirst(g, p, pool)
  PROVE  /\ first \in ToSet(pool)
         /\ Policies[p].strategy = "roundRobin" => first = pool[(rotation[g][p] % Len(pool)) + 1]
<1>1. DOMAIN pool = 1 .. Len(pool) /\ Len(pool) \in Nat /\ Len(pool) > 0
  BY EmptySeq
<1>2. CASE Policies[p].strategy = "leastLatency"
  <2> DEFINE Best(i) == \A j \in DOMAIN pool :
                Faster(g, pool[i], pool[j]) \/ (~Faster(g, pool[j], pool[i]) /\ i <= j)
      b == CHOOSE i \in DOMAIN pool : Best(i)
  <2>1. \E i \in DOMAIN pool : Best(i)
    BY FastestExists
  <2>2. first = pool[b]
    BY <1>2 DEF pickLoadBalanceFirst
  <2> HIDE DEF Best
  <2>3. b \in DOMAIN pool
    BY <2>1
  <2> QED BY <1>2, <2>2, <2>3 DEF ToSet
<1>3. CASE Policies[p].strategy = "random"
  BY <1>3 DEF pickLoadBalanceFirst
<1>4. CASE Policies[p].strategy = "roundRobin"
  <2>1. first = pool[(rotation[g][p] % Len(pool)) + 1]
    BY <1>4 DEF pickLoadBalanceFirst
  <2>2. rotation[g][p] \in Nat
    OBVIOUS
  <2>3. rotation[g][p] % Len(pool) \in 0 .. (Len(pool) - 1)
    BY <1>1, <2>2
  <2>4. (rotation[g][p] % Len(pool)) + 1 \in DOMAIN pool
    BY <1>1, <2>3
  <2> QED BY <2>1, <2>4 DEF ToSet
<1> QED BY <1>2, <1>3, <1>4, PoliciesAssumption

\* One place each way round a circle of n: the next turn is another's.
LEMMA NextTurn ==
  ASSUME NEW n \in Nat, n > 1, NEW r \in Nat, r >= 1
  PROVE  r % n # (r - 1) % n
<1>1. r - 1 \in Nat
  OBVIOUS
<1> SUFFICES ASSUME r % n = (r - 1) % n PROVE FALSE
  OBVIOUS
<1> DEFINE a == r \div n
    b == (r - 1) \div n
    m == r % n
<1>2. /\ a \in Int /\ b \in Int /\ m \in Int
      /\ r = n * a + m /\ r - 1 = n * b + m
  BY <1>1
<1> HIDE DEF a, b, m
<1>3. n * a - n * b = 1
  BY <1>2
<1>4. n * (a - b) = 1
  BY <1>2, <1>3
<1>5. a - b \in Int
  BY <1>2
<1>6. CASE a - b <= 0
  BY <1>4, <1>5, <1>6
<1>7. CASE a - b >= 1
  <2>1. n * (a - b) >= n
    BY <1>5, <1>7
  <2> QED BY <1>4, <2>1
<1> QED BY <1>5, <1>6, <1>7

\* Whoever selects gets all outbounds of the policy, the healthy ones first.
LEMMA SelectFacts ==
  ASSUME NEW g \in Generations, health \in [Generations -> [Tags -> HealthRecords]],
         rotation \in [Generations -> [DOMAIN Policies -> Nat]],
         NEW p \in DOMAIN Policies, NEW order \in select(g, p)
  PROVE  /\ SoundOrder(p, order, ToSet(Healthy(g, p)))
         /\ Rotates(p) /\ ToSet(Healthy(g, p)) = ToSet(order)
              => Head(order) = Listed(p)[(rotation[g][p] % Len(Listed(p))) + 1]
<1> DEFINE all == Listed(p)
    up == Healthy(g, p)
<1>1. /\ all \in Seq(Tags) /\ all # <<>>
      /\ up \in Seq(Tags) /\ ToSet(up) \subseteq ToSet(all)
      /\ IsInjective(all) => IsInjective(up)
      /\ ToSet(up) = ToSet(all) => up = all
  BY ListedFacts, HealthyFacts
<1>2. CASE Policies[p].type = "failover"
  <2> DEFINE down == Without(all, ToSet(up))
  <2>1. order = up \o down
    BY <1>2 DEF select, selectFailover, Listed
  <2> HIDE DEF all, up
  <2>2. /\ down \in Seq(Tags) /\ ToSet(down) = ToSet(all) \ ToSet(up)
        /\ IsInjective(all) => IsInjective(down)
    BY <1>1, WithoutFacts
  <2> HIDE DEF down
  <2>3. /\ up \o down \in Seq(Tags) /\ ToSet(up \o down) = ToSet(up) \cup ToSet(down)
        /\ IsInjective(all) => IsInjective(up \o down)
        /\ \A i, j \in DOMAIN (up \o down) :
              i < j /\ (up \o down)[j] \in ToSet(up) => (up \o down)[i] \in ToSet(up)
    <3>1. ToSet(up) \cap ToSet(down) = {}
      BY <2>2
    <3>2. up \in Seq(Tags)
      BY <1>1
    <3>3. /\ up \o down \in Seq(Tags) /\ ToSet(up \o down) = ToSet(up) \cup ToSet(down)
          /\ IsInjective(up) /\ IsInjective(down) => IsInjective(up \o down)
          /\ \A i, j \in DOMAIN (up \o down) :
              i < j /\ (up \o down)[j] \in ToSet(up) => (up \o down)[i] \in ToSet(up)
      BY <2>2, <3>1, <3>2, ApartJoined, Zenon
    <3> QED BY <1>1, <2>2, <3>3
  <2>4. ToSet(up \o down) = ToSet(all)
    BY <1>1, <2>2, <2>3
  <2>5. up \o down # <<>>
    <3>1. ToSet(all) # {}
      BY <1>1, FirstMember
    <3>2. ToSet(<<>>) = {}
      BY DEF ToSet
    <3> QED BY <2>4, <3>1, <3>2
  <2>6. SoundOrder(p, order, ToSet(up))
    BY <2>1, <2>3, <2>4, <2>5 DEF SoundOrder, all
  <2> QED BY <1>2, <2>6 DEF up, Rotates
<1>3. CASE Policies[p].type # "failover"
  <2> DEFINE pool == IF up # <<>> THEN up ELSE all
  <2>1. PICK first \in pickLoadBalanceFirst(g, p, pool) :
           order = <<first>> \o Without(pool, {first}) \o Without(all, ToSet(pool))
    BY <1>3 DEF select, selectLoadBalance, Listed
  <2>2. pool \in Seq(Tags) /\ pool # <<>> /\ ToSet(pool) \subseteq ToSet(all)
        /\ (IsInjective(all) => IsInjective(pool)) /\ (up # <<>> => pool = up)
    BY <1>1
  <2>3. /\ first \in ToSet(pool)
        /\ Policies[p].strategy = "roundRobin" => first = pool[(rotation[g][p] % Len(pool)) + 1]
    <3> HIDE DEF pool
    <3> QED BY <2>1, <2>2, FirstFacts
  <2> DEFINE others == Without(pool, {first})
      rest == Without(all, ToSet(pool))
      front == <<first>> \o others
  <2> HIDE DEF all, up, pool
  <2>4. /\ others \in Seq(Tags) /\ ToSet(others) = ToSet(pool) \ {first}
        /\ IsInjective(pool) => IsInjective(others)
    BY <2>2, WithoutFacts
  <2>5. /\ rest \in Seq(Tags) /\ ToSet(rest) = ToSet(all) \ ToSet(pool)
        /\ IsInjective(all) => IsInjective(rest)
    BY <1>1, WithoutFacts
  <2>6. first \in Tags
    BY <2>2, <2>3 DEF ToSet
  <2>7. <<first>> \in Seq(Tags) /\ ToSet(<<first>>) = {first} /\ IsInjective(<<first>>) /\ Len(<<first>>) = 1
    BY <2>6 DEF ToSet, IsInjective
  <2> HIDE DEF others, rest
  <2>8. /\ front \in Seq(Tags) /\ ToSet(front) = {first} \cup ToSet(others)
        /\ IsInjective(others) => IsInjective(front)
        /\ front # <<>> /\ Head(front) = first
    <3>1. ToSet(<<first>>) \cap ToSet(others) = {}
      BY <2>4, <2>7
    <3>2. /\ front \in Seq(Tags) /\ ToSet(front) = ToSet(<<first>>) \cup ToSet(others)
          /\ IsInjective(<<first>>) /\ IsInjective(others) => IsInjective(front)
      BY <2>4, <2>7, <3>1, ApartJoined, Zenon
    <3>3. front # <<>> /\ Head(front) = first
      <4>1. Len(front) = Len(<<first>>) + Len(others) /\ front[1] = <<first>>[1]
        BY <2>4, <2>7, ConcatProperties
      <4>2. Len(others) \in Nat
        BY <2>4
      <4>3. Len(front) > 0 /\ front[1] = first
        BY <2>7, <4>1, <4>2
      <4>4. front # <<>>
        BY <4>3
      <4> HIDE DEF front
      <4> QED BY <3>2, <4>3, <4>4, FirstMember
    <3> QED BY <2>7, <3>2, <3>3
  <2> HIDE DEF front
  <2>9. ToSet(front) = ToSet(pool) /\ (IsInjective(all) => IsInjective(front))
    BY <2>2, <2>3, <2>4, <2>7, <2>8
  <2>10. order = front \o rest
    BY <2>1 DEF front, others, rest
  <2>11. /\ front \o rest \in Seq(Tags) /\ ToSet(front \o rest) = ToSet(front) \cup ToSet(rest)
         /\ IsInjective(all) => IsInjective(front \o rest)
         /\ \A i, j \in DOMAIN (front \o rest) :
               i < j /\ (front \o rest)[j] \in ToSet(front) => (front \o rest)[i] \in ToSet(front)
    <3>1. ToSet(front) \cap ToSet(rest) = {}
      BY <2>5, <2>9
    <3>2. /\ front \o rest \in Seq(Tags) /\ ToSet(front \o rest) = ToSet(front) \cup ToSet(rest)
          /\ IsInjective(front) /\ IsInjective(rest) => IsInjective(front \o rest)
          /\ \A i, j \in DOMAIN (front \o rest) :
               i < j /\ (front \o rest)[j] \in ToSet(front) => (front \o rest)[i] \in ToSet(front)
      <4>1. front \in Seq(Tags) /\ rest \in Seq(Tags)
        BY <2>5, <2>8
      <4> QED BY <3>1, <4>1, ApartJoined
    <3> QED BY <2>5, <2>9, <3>2
  <2>12. ToSet(front \o rest) = ToSet(all)
    BY <2>2, <2>5, <2>9, <2>11
  <2>13. front \o rest # <<>> /\ Head(front \o rest) = first
    BY <2>5, <2>8
  <2>14. \A i, j \in DOMAIN order : i < j /\ order[j] \in ToSet(up) => order[i] \in ToSet(up)
    <3>1. CASE up = <<>>
      <4>1. ToSet(up) = {}
        BY <3>1 DEF ToSet
      <4> QED BY <4>1
    <3>2. CASE up # <<>>
      <4>1. ToSet(front) = ToSet(up)
        BY <2>2, <2>9, <3>2
      <4> QED BY <2>10, <2>11, <4>1
    <3> QED BY <3>1, <3>2
  <2>15. SoundOrder(p, order, ToSet(up))
    BY <2>10, <2>11, <2>12, <2>13, <2>14 DEF SoundOrder, all
  <2>16. ASSUME Rotates(p), ToSet(up) = ToSet(order)
         PROVE  Head(order) = all[(rotation[g][p] % Len(all)) + 1]
    <3>1. up = all
      BY <1>1, <2>10, <2>12, <2>16
    <3>2. pool = all
      BY <3>1 DEF pool
    <3>3. Policies[p].strategy = "roundRobin"
      BY <2>16 DEF Rotates
    <3> QED BY <2>3, <2>10, <2>13, <3>2, <3>3
  <2> QED BY <2>15, <2>16 DEF up, all
<1> QED BY <1>2, <1>3

\* A routed packet's record.
PacketRecords ==
  [state : {"sending", "answered", "failed"}, manager : Generations, policy : DOMAIN Policies,
   order : Seq(Tags), tried : SUBSET Tags, rest : Seq(Tags), healthy : SUBSET Tags]

\* The types of the managers' state.
RoutingTypes ==
  /\ health \in [Generations -> [Tags -> HealthRecords]]
  /\ rotation \in [Generations -> [DOMAIN Policies -> Nat]]
  /\ active \in Generations /\ now \in Nat
  /\ snapshot # <<>> => /\ active + 1 \in Generations
                        /\ \E h \in [Tags -> HealthRecords] : snapshot = <<h>>
  /\ DOMAIN packet = Packets

\* The packet goes through all its candidates: they have failed or are left.
Accounted(q) ==
  /\ q \in PacketRecords
  /\ SoundOrder(q.policy, q.order, q.healthy)
  /\ q.state # "answered" => q.tried \cup ToSet(q.rest) = ToSet(q.order)
  /\ q.state = "sending" => q.rest # <<>>
  /\ q.state = "failed" => q.rest = <<>>

\* Two packets of one policy and manager; a packet that found all outbounds of
\* its policy healthy; one that took its turn under round robin.
Same(j, k) == packet[j].policy = packet[k].policy /\ packet[j].manager = packet[k].manager
Whole(k) == packet[k].healthy = ToSet(packet[k].order) /\ Len(packet[k].order) > 1
Turning(k) == Rotates(packet[k].policy) /\ IsInjective(Listed(packet[k].policy)) /\ Whole(k)

\* Packets are routed in their order.
InOrder == \A j, k \in Packets : j < k /\ packet[k].state # "idle" => packet[j].state # "idle"

\* The last packet of a policy and manager has the turn before the next one.
LastTurn ==
  \A k \in Routed :
    Turning(k) /\ (\A n \in Routed : k < n => ~Same(n, k))
      => LET r == rotation[packet[k].manager][packet[k].policy]
             all == Listed(packet[k].policy)
         IN r >= 1 /\ Head(packet[k].order) = all[((r - 1) % Len(all)) + 1]

\* Of two packets that follow each other, each starts with its own.
Alternates ==
  \A j, k \in Routed :
    j < k /\ Same(j, k) /\ Turning(k) /\ Whole(j) /\ (\A n \in Routed : ~(j < n /\ n < k /\ Same(n, k)))
      => Head(packet[j].order) # Head(packet[k].order)

\* The inductive invariant of the routing policies.
RoutingInv ==
  /\ RoutingTypes
  /\ \A k \in Packets : packet[k].state # "idle" => Accounted(packet[k])
  /\ InOrder /\ LastTurn /\ Alternates

\* A failure leaves a health record.
LEMMA FailureType ==
  ASSUME NEW h \in [Tags -> HealthRecords], NEW failed \in Seq(Tags), now \in Nat
  PROVE  recordFailure(h, failed) \in [Tags -> HealthRecords]
<1> SUFFICES ASSUME NEW t \in Tags
             PROVE  (IF t \in ToSet(failed)
                     THEN [h[t] EXCEPT !.lastFailureAt = now,
                                       !.failures = Least(@ + Cardinality({i \in DOMAIN failed : failed[i] = t}),
                                                          unhealthyAfterFailures)]
                     ELSE h[t]) \in HealthRecords
  BY DEF recordFailure
<1> DEFINE U == {i \in DOMAIN failed : failed[i] = t}
    c == Cardinality(U)
<1>1. c \in Nat
  <2>1. DOMAIN failed = 1 .. Len(failed) /\ Len(failed) \in Nat
    OBVIOUS
  <2>2. IsFiniteSet(1 .. Len(failed))
    BY <2>1, FS_Interval
  <2>3. IsFiniteSet(U)
    BY <2>1, <2>2, FS_Subset
  <2> QED BY <2>3, FS_CardinalityType
<1> HIDE DEF c
<1>2. h[t] \in HealthRecords
  OBVIOUS
<1>3. Least(h[t].failures + c, unhealthyAfterFailures) \in Nat
  BY <1>1, <1>2, PoliciesAssumption DEF Least, HealthRecords
<1> QED BY <1>2, <1>3 DEF HealthRecords, c

\* So does a success.
LEMMA SuccessType ==
  ASSUME NEW h \in [Tags -> HealthRecords], NEW t, NEW ms \in Latencies, NEW h2 \in recordSuccess(h, t, ms)
  PROVE  h2 \in [Tags -> HealthRecords]
<1>1. PICK m \in Latencies : h2 = [h EXCEPT ![t] = [failures |-> 0, lastFailureAt |-> 0, latencyEwmaMs |-> m]]
  BY DEF recordSuccess
<1>2. m \in Nat
  BY PoliciesAssumption
<1> QED BY <1>1, <1>2 DEF HealthRecords

\* No more candidates are skipped than there are.
LEMMA SkippedBound ==
  ASSUME NEW s \in Seq(Tags) PROVE Skipped(s) \in 0 .. Len(s)
<1> DEFINE past(j) == \A n \in 1 .. j : s[n] \notin SupportsUdp
    U == {j \in DOMAIN s : past(j)}
<1>0. Skipped(s) = Cardinality(U)
  BY DEF Skipped
<1> HIDE DEF past
<1>1. Len(s) \in Nat /\ DOMAIN s = 1 .. Len(s)
  OBVIOUS
<1>2. \A m \in Nat : IsFiniteSet(1 .. m) /\ Cardinality(1 .. m) = m
  BY FS_Interval
<1>3. U \subseteq 1 .. Len(s)
  BY <1>1
<1> HIDE DEF U
<1> DEFINE m == Len(s)
<1>4. m \in Nat /\ U \subseteq 1 .. m /\ IsFiniteSet(1 .. m) /\ Cardinality(1 .. m) = m
  BY <1>1, <1>2, <1>3
<1> HIDE DEF m
<1>5. IsFiniteSet(U) /\ Cardinality(U) <= Cardinality(1 .. m)
  BY <1>4, FS_Subset
<1>6. Cardinality(U) \in Nat
  BY <1>5, FS_CardinalityType
<1> QED BY <1>0, <1>4, <1>5, <1>6 DEF m

\* One more try of the loop: whatever fails on the way is accounted for.
LEMMA GoesOnFacts ==
  ASSUME RoutingTypes, NEW k \in Packets, NEW g \in Generations, NEW record \in PacketRecords,
         NEW s \in Seq(Tags), NEW failed \in Seq(Tags),
         GoesOn(k, g, record, s, failed),
         SoundOrder(record.policy, record.order, record.healthy),
         record.tried \cup ToSet(failed) \cup ToSet(s) = ToSet(record.order)
  PROVE  /\ health' \in [Generations -> [Tags -> HealthRecords]]
         /\ DOMAIN packet' = Packets
         /\ \A j \in Packets \ {k} : packet'[j] = packet[j]
         /\ Accounted(packet'[k]) /\ packet'[k].state # "idle"
         /\ packet'[k].policy = record.policy /\ packet'[k].manager = record.manager
         /\ packet'[k].order = record.order /\ packet'[k].healthy = record.healthy
<1> DEFINE past == SubSeq(s, 1, Skipped(s))
    gone == failed \o past
    rest == SubSeq(s, Skipped(s) + 1, Len(s))
    q == [record EXCEPT !.tried = @ \cup ToSet(gone), !.rest = rest,
                        !.state = IF rest = <<>> THEN "failed" ELSE "sending"]
<1>1. /\ past \in Seq(Tags) /\ rest \in Seq(Tags)
      /\ ToSet(past) \cup ToSet(rest) = ToSet(s)
  BY SkippedBound, CutFacts
<1>3. /\ health' = [health EXCEPT ![g] = recordFailure(@, gone)]
      /\ packet' = [packet EXCEPT ![k] = q]
  BY Zenon DEF GoesOn
<1> HIDE DEF past, rest
<1>2. gone \in Seq(Tags) /\ ToSet(gone) = ToSet(failed) \cup ToSet(past)
  BY <1>1, JoinedPlaces
<1> HIDE DEF gone
<1>4. health' \in [Generations -> [Tags -> HealthRecords]]
  <2>1. recordFailure(health[g], gone) \in [Tags -> HealthRecords]
    <3>1. health[g] \in [Tags -> HealthRecords] /\ now \in Nat
      BY DEF RoutingTypes
    <3> QED BY <1>2, <3>1, FailureType
  <2> QED BY <1>3, <2>1 DEF RoutingTypes
<1>5. ToSet(gone) \subseteq Tags
  <2>1. \A i \in DOMAIN gone : gone[i] \in Tags
    BY <1>2
  <2> QED BY <2>1 DEF ToSet
<1>6. /\ q \in PacketRecords
      /\ q.policy = record.policy /\ q.manager = record.manager
      /\ q.order = record.order /\ q.healthy = record.healthy
      /\ q.tried = record.tried \cup ToSet(gone) /\ q.rest = rest
      /\ q.state = IF rest = <<>> THEN "failed" ELSE "sending"
  BY <1>1, <1>5 DEF PacketRecords
<1> HIDE DEF q
<1>7. Accounted(q) /\ q.state # "idle"
  <2>1. q.tried \cup ToSet(q.rest) = ToSet(q.order)
    BY <1>1, <1>2, <1>6
  <2> QED BY <1>6, <2>1 DEF Accounted
<1>8. /\ DOMAIN packet' = Packets /\ packet'[k] = q
      /\ \A j \in Packets \ {k} : packet'[j] = packet[j]
  BY <1>3 DEF RoutingTypes
<1> QED BY <1>4, <1>6, <1>7, <1>8

\* Nothing changes about the turns while no packet is routed.
LEMMA TurnsKept ==
  ASSUME RoutingInv, rotation' = rotation,
         \A k \in Packets :
            /\ packet'[k].state = "idle" <=> packet[k].state = "idle"
            /\ packet[k].state # "idle" =>
                  /\ packet'[k].policy = packet[k].policy /\ packet'[k].manager = packet[k].manager
                  /\ packet'[k].order = packet[k].order /\ packet'[k].healthy = packet[k].healthy
  PROVE  InOrder' /\ LastTurn' /\ Alternates'
<1>1. Routed' = Routed
  BY DEF Routed
<1>2. InOrder'
  BY DEF RoutingInv, InOrder
<1>3. \A k \in Routed : /\ packet'[k].policy = packet[k].policy /\ packet'[k].manager = packet[k].manager
                        /\ packet'[k].order = packet[k].order /\ packet'[k].healthy = packet[k].healthy
  BY DEF Routed
<1>4. \A j, k \in Routed : Same(j, k)' <=> Same(j, k)
  BY <1>3 DEF Same
<1>5. \A k \in Routed : (Whole(k)' <=> Whole(k)) /\ (Turning(k)' <=> Turning(k))
  BY <1>3 DEF Whole, Turning, Rotates
<1>6. LastTurn'
  <2> SUFFICES ASSUME NEW k \in Routed, Turning(k)', \A n \in Routed : k < n => ~Same(n, k)'
               PROVE  (LET r == rotation[packet[k].manager][packet[k].policy]
                           all == Listed(packet[k].policy)
                       IN r >= 1 /\ Head(packet[k].order) = all[((r - 1) % Len(all)) + 1])'
    BY <1>1 DEF LastTurn
  <2>1. Turning(k) /\ \A n \in Routed : k < n => ~Same(n, k)
    BY <1>4, <1>5
  <2>2. LET r == rotation[packet[k].manager][packet[k].policy]
            all == Listed(packet[k].policy)
        IN r >= 1 /\ Head(packet[k].order) = all[((r - 1) % Len(all)) + 1]
    BY <2>1 DEF RoutingInv, LastTurn
  <2> QED BY <1>3, <2>2 DEF Listed
<1>7. Alternates'
  <2> SUFFICES ASSUME NEW j \in Routed, NEW k \in Routed, j < k, Same(j, k)', Turning(k)', Whole(j)',
                      \A n \in Routed : ~(j < n /\ n < k /\ Same(n, k)')
               PROVE  Head(packet'[j].order) # Head(packet'[k].order)
    BY <1>1 DEF Alternates
  <2>1. Same(j, k) /\ Turning(k) /\ Whole(j) /\ \A n \in Routed : ~(j < n /\ n < k /\ Same(n, k))
    BY <1>4, <1>5
  <2>2. Head(packet[j].order) # Head(packet[k].order)
    BY <2>1 DEF RoutingInv, Alternates
  <2> QED BY <1>3, <2>2
<1> QED BY <1>2, <1>6, <1>7

\* A list of more than one place that repeats nothing is not a list of one.
LEMMA MoreThanOne ==
  ASSUME NEW order \in Seq(Tags), IsInjective(order), Len(order) > 1,
         NEW all \in Seq(Tags), ToSet(order) = ToSet(all)
  PROVE  Len(all) > 1
<1>1. /\ DOMAIN order = 1 .. Len(order) /\ DOMAIN all = 1 .. Len(all)
      /\ Len(order) \in Nat /\ Len(all) \in Nat
  OBVIOUS
<1>2. order[1] # order[2] /\ 1 \in DOMAIN order /\ 2 \in DOMAIN order
  BY <1>1 DEF IsInjective
<1>3. order[1] \in ToSet(all) /\ order[2] \in ToSet(all)
  <2>1. order[1] \in ToSet(order) /\ order[2] \in ToSet(order)
    BY <1>2 DEF ToSet
  <2> QED BY <2>1
<1>4. PICK i \in DOMAIN all, j \in DOMAIN all : all[i] = order[1] /\ all[j] = order[2]
  BY <1>3 DEF ToSet
<1>5. i # j
  BY <1>2, <1>4
<1> QED BY <1>1, <1>4, <1>5

\* A packet is routed after all that were routed before it.
LEMMA RoutedStep ==
  ASSUME RoutingInv, NEW k \in Packets, NEW p \in DOMAIN Policies, sendUdp(k, p)
  PROVE  RoutingInv'
<1> DEFINE up == ToSet(Healthy(active, p))
<1>1. PICK order \in select(active, p) :
         GoesOn(k, active, [state |-> "sending", manager |-> active, policy |-> p, order |-> order, tried |-> {},
                            rest |-> order, healthy |-> up], order, <<>>)
  BY DEF sendUdp
<1> DEFINE record == [state |-> "sending", manager |-> active, policy |-> p, order |-> order, tried |-> {},
                      rest |-> order, healthy |-> up]
<1>2. RoutingTypes /\ active \in Generations
  BY DEF RoutingInv, RoutingTypes
<1>3. /\ SoundOrder(p, order, up)
      /\ Rotates(p) /\ up = ToSet(order)
            => Head(order) = Listed(p)[(rotation[active][p] % Len(Listed(p))) + 1]
  BY <1>2, SelectFacts DEF RoutingTypes
<1>4. up \subseteq Tags
  <2>1. ToSet(Healthy(active, p)) \subseteq ToSet(Listed(p))
    BY HealthyFacts
  <2> QED BY <2>1, ListedFacts
<1> HIDE DEF up
<1>5. /\ record \in PacketRecords
      /\ record.policy = p /\ record.manager = active /\ record.order = order /\ record.healthy = up
      /\ record.tried = {}
  BY <1>2, <1>3, <1>4 DEF PacketRecords, SoundOrder
<1> HIDE DEF record
<1>6. <<>> \in Seq(Tags) /\ ToSet(<<>>) = {} /\ order \in Seq(Tags)
  BY <1>3 DEF ToSet, SoundOrder
<1>7. record.tried \cup ToSet(<<>>) \cup ToSet(order) = ToSet(record.order)
  BY <1>5, <1>6
<1>8. /\ health' \in [Generations -> [Tags -> HealthRecords]]
      /\ DOMAIN packet' = Packets
      /\ \A j \in Packets \ {k} : packet'[j] = packet[j]
      /\ Accounted(packet'[k]) /\ packet'[k].state # "idle"
      /\ packet'[k].policy = p /\ packet'[k].manager = active
      /\ packet'[k].order = order /\ packet'[k].healthy = up
  <2>1. GoesOn(k, active, record, order, <<>>)
    BY <1>1 DEF record
  <2>2. SoundOrder(record.policy, record.order, record.healthy)
    BY <1>3, <1>5
  <2> DEFINE none == <<>>
  <2>3. /\ GoesOn(k, active, record, order, none) /\ none \in Seq(Tags)
        /\ record.tried \cup ToSet(none) \cup ToSet(order) = ToSet(record.order)
    BY <1>6, <1>7, <2>1
  <2> HIDE DEF none
  <2>4. /\ health' \in [Generations -> [Tags -> HealthRecords]]
        /\ DOMAIN packet' = Packets
        /\ \A j \in Packets \ {k} : packet'[j] = packet[j]
        /\ Accounted(packet'[k]) /\ packet'[k].state # "idle"
        /\ packet'[k].policy = record.policy /\ packet'[k].manager = record.manager
        /\ packet'[k].order = record.order /\ packet'[k].healthy = record.healthy
    BY <1>2, <1>5, <1>6, <2>2, <2>3, GoesOnFacts
  <2> QED BY <1>5, <2>4
<1>9. /\ packet[k].state = "idle" /\ \A j \in Packets : j < k => packet[j].state # "idle"
      /\ rotation' = IF Rotates(p) THEN [rotation EXCEPT ![active][p] = @ + 1] ELSE rotation
      /\ UNCHANGED <<active, snapshot, now>>
  BY DEF sendUdp, proberVars
<1>10. rotation' \in [Generations -> [DOMAIN Policies -> Nat]]
  BY <1>2, <1>9 DEF RoutingTypes
<1>11. RoutingTypes'
  BY <1>2, <1>8, <1>9, <1>10 DEF RoutingTypes
<1>12. \A j \in Packets : packet'[j].state # "idle" => Accounted(packet'[j])
  BY <1>8 DEF RoutingInv
<1>13. Packets \subseteq Nat
  BY PoliciesAssumption
<1>14. Routed' = Routed \cup {k} /\ k \notin Routed /\ \A n \in Routed : n < k
  <2>1. Routed' = Routed \cup {k} /\ k \notin Routed
    BY <1>8, <1>9 DEF Routed
  <2>2. ASSUME NEW n \in Routed PROVE n < k
    <3>1. ~(k < n)
      BY <1>9 DEF RoutingInv, InOrder, Routed
    <3>2. n # k /\ n \in Nat /\ k \in Nat
      BY <1>13, <2>1 DEF Routed
    <3> QED BY <3>1, <3>2
  <2> QED BY <2>1, <2>2
<1>15. InOrder'
  <2> SUFFICES ASSUME NEW i \in Packets, NEW j \in Packets, i < j, packet'[j].state # "idle"
               PROVE  packet'[i].state # "idle"
    BY DEF InOrder
  <2>1. CASE j = k
    BY <1>8, <1>9, <1>13, <2>1
  <2>2. CASE j # k
    <3>1. packet[i].state # "idle"
      BY <1>8, <2>2 DEF RoutingInv, InOrder
    <3> QED BY <1>8, <3>1
  <2> QED BY <2>1, <2>2
<1>16. \A j \in Routed : packet'[j] = packet[j] /\ j # k /\ j \in Packets
  BY <1>8, <1>14 DEF Routed
<1>17. LastTurn'
  <2> SUFFICES ASSUME NEW j \in Routed', Turning(j)', \A n \in Routed' : j < n => ~Same(n, j)'
               PROVE  (LET r == rotation[packet[j].manager][packet[j].policy]
                           all == Listed(packet[j].policy)
                       IN r >= 1 /\ Head(packet[j].order) = all[((r - 1) % Len(all)) + 1])'
    BY DEF LastTurn
  <2>1. CASE j = k
    <3>1. Rotates(p) /\ up = ToSet(order)
      BY <1>8, <2>1 DEF Turning, Whole, Rotates
    <3>2. rotation[active][p] \in Nat
      BY <1>2 DEF RoutingTypes
    <3>3. rotation'[active][p] = rotation[active][p] + 1
      BY <1>2, <1>9, <3>1 DEF RoutingTypes
    <3>4. rotation'[active][p] >= 1 /\ rotation'[active][p] - 1 = rotation[active][p]
      BY <3>2, <3>3
    <3> QED BY <1>3, <1>8, <2>1, <3>1, <3>4 DEF Listed
  <2>2. CASE j # k
    <3>1. j \in Routed /\ packet'[j] = packet[j]
      BY <1>14, <1>16, <2>2
    <3>2. Turning(j)
      BY <3>1 DEF Turning, Whole, Rotates, Listed
    <3>3. \A n \in Routed : j < n => ~Same(n, j)
      BY <1>14, <1>16, <3>1 DEF Same
    <3>4. LET r == rotation[packet[j].manager][packet[j].policy]
              all == Listed(packet[j].policy)
          IN r >= 1 /\ Head(packet[j].order) = all[((r - 1) % Len(all)) + 1]
      BY <3>1, <3>2, <3>3 DEF RoutingInv, LastTurn
    <3>5. ~(packet[j].policy = p /\ packet[j].manager = active)
      BY <1>8, <1>14, <3>1 DEF Same
    <3>6. packet[j].manager \in Generations /\ packet[j].policy \in DOMAIN Policies
      BY <3>1 DEF RoutingInv, Accounted, PacketRecords, Routed
    <3>7. rotation'[packet[j].manager][packet[j].policy] = rotation[packet[j].manager][packet[j].policy]
      BY <1>2, <1>9, <3>5, <3>6 DEF RoutingTypes
    <3> QED BY <3>1, <3>4, <3>7 DEF Listed
  <2> QED BY <2>1, <2>2
<1>18. Alternates'
  <2> SUFFICES ASSUME NEW i \in Routed', NEW j \in Routed', i < j, Same(i, j)', Turning(j)', Whole(i)',
                      \A n \in Routed' : ~(i < n /\ n < j /\ Same(n, j)')
               PROVE  Head(packet'[i].order) # Head(packet'[j].order)
    BY DEF Alternates
  <2>0. i \in Routed /\ packet'[i] = packet[i] /\ i \in Nat
    <3>1. i # k
      <4>1. j \in Routed => j < k
        BY <1>14
      <4>2. i \in Nat /\ j \in Nat
        BY <1>13 DEF Routed
      <4> QED BY <1>14, <4>1, <4>2
    <3> QED BY <1>13, <1>14, <1>16, <3>1 DEF Routed
  <2>1. CASE j = k
    <3> DEFINE all == Listed(p)
        r == rotation[active][p]
    <3>1. /\ Rotates(p) /\ IsInjective(all) /\ up = ToSet(order)
          /\ packet[i].policy = p /\ packet[i].manager = active /\ Whole(i)
      BY <1>8, <2>0, <2>1 DEF Turning, Whole, Rotates, Same, Listed
    <3>2. Turning(i)
      BY <3>1 DEF Turning
    <3>3. \A n \in Routed : i < n => ~Same(n, i)
      <4> SUFFICES ASSUME NEW n \in Routed, i < n, Same(n, i) PROVE FALSE
        OBVIOUS
      <4>1. n < k /\ Same(n, k)'
        BY <1>8, <1>14, <1>16, <3>1 DEF Same
      <4> QED BY <1>14, <2>1, <4>1
    <3>4. r >= 1 /\ Head(packet[i].order) = all[((r - 1) % Len(all)) + 1]
      BY <2>0, <3>1, <3>2, <3>3 DEF RoutingInv, LastTurn
    <3>5. Head(order) = all[(r % Len(all)) + 1]
      BY <1>3, <3>1
    <3>6. /\ all \in Seq(Tags) /\ r \in Nat /\ Len(all) \in Nat
          /\ DOMAIN all = 1 .. Len(all)
      BY <1>2, ListedFacts DEF RoutingTypes
    <3>7. Len(all) > 1
      <4>1. Accounted(packet[i])
        BY <2>0 DEF RoutingInv, Routed
      <4>2. /\ packet[i].order \in Seq(Tags) /\ IsInjective(packet[i].order)
            /\ ToSet(packet[i].order) = ToSet(all) /\ Len(packet[i].order) > 1
        BY <3>1, <4>1 DEF Accounted, SoundOrder, Whole
      <4> QED BY <3>6, <4>2, MoreThanOne
    <3> HIDE DEF all, r
    <3>8. r % Len(all) # (r - 1) % Len(all)
      BY <3>4, <3>6, <3>7, NextTurn
    <3>9. r % Len(all) \in 0 .. (Len(all) - 1) /\ (r - 1) % Len(all) \in 0 .. (Len(all) - 1)
      <4>1. r - 1 \in Nat
        BY <3>4, <3>6
      <4> QED BY <3>6, <3>7, <4>1
    <3>10. /\ (r % Len(all)) + 1 \in DOMAIN all /\ ((r - 1) % Len(all)) + 1 \in DOMAIN all
           /\ (r % Len(all)) + 1 # ((r - 1) % Len(all)) + 1
      BY <3>6, <3>8, <3>9
    <3>11. all[(r % Len(all)) + 1] # all[((r - 1) % Len(all)) + 1]
      BY <3>1, <3>10 DEF IsInjective
    <3> QED BY <1>8, <2>0, <2>1, <3>4, <3>5, <3>11
  <2>2. CASE j # k
    <3>1. j \in Routed /\ packet'[j] = packet[j]
      BY <1>14, <1>16, <2>2
    <3>2. Same(i, j) /\ Turning(j) /\ Whole(i)
      BY <2>0, <3>1 DEF Turning, Whole, Rotates, Same, Listed
    <3>3. \A n \in Routed : ~(i < n /\ n < j /\ Same(n, j))
      BY <1>14, <1>16, <3>1 DEF Same
    <3>4. Head(packet[i].order) # Head(packet[j].order)
      BY <2>0, <3>1, <3>2, <3>3 DEF RoutingInv, Alternates
    <3> QED BY <2>0, <3>1, <3>4
  <2> QED BY <2>1, <2>2
<1> QED BY <1>11, <1>12, <1>15, <1>17, <1>18 DEF RoutingInv

\* The state of a packet that is being sent.
LEMMA SendingFacts ==
  ASSUME RoutingInv, NEW k \in Packets, packet[k].state = "sending"
  PROVE  /\ packet[k] \in PacketRecords /\ Accounted(packet[k])
         /\ packet[k].manager \in Generations
         /\ packet[k].rest \in Seq(Tags) /\ packet[k].rest # <<>> /\ Head(packet[k].rest) \in Tags
         /\ health[packet[k].manager] \in [Tags -> HealthRecords]
<1>1. Accounted(packet[k])
  BY DEF RoutingInv
<1>2. packet[k] \in PacketRecords /\ packet[k].rest # <<>>
  BY <1>1 DEF Accounted
<1>3. packet[k].manager \in Generations /\ packet[k].rest \in Seq(Tags)
  BY <1>2 DEF PacketRecords
<1>4. Head(packet[k].rest) \in Tags
  BY <1>2, <1>3, HeadTailProperties
<1> QED BY <1>1, <1>2, <1>3, <1>4 DEF RoutingInv, RoutingTypes

\* The outbound answers.
LEMMA AnsweredStep ==
  ASSUME RoutingInv, NEW k \in Packets, UdpAnswered(k) PROVE RoutingInv'
<1> DEFINE m == packet[k].manager
    q == [packet[k] EXCEPT !.state = "answered"]
<1>1. packet[k].state = "sending"
  BY DEF UdpAnswered
<1>2. /\ packet[k] \in PacketRecords /\ Accounted(packet[k]) /\ m \in Generations
      /\ health[m] \in [Tags -> HealthRecords]
  BY <1>1, SendingFacts
<1>3. PICK ms \in Latencies : \E h \in recordSuccess(health[m], Head(packet[k].rest), ms) :
         health' = [health EXCEPT ![m] = h]
  BY DEF UdpAnswered
<1>4. PICK h \in recordSuccess(health[m], Head(packet[k].rest), ms) : health' = [health EXCEPT ![m] = h]
  BY <1>3
<1>5. h \in [Tags -> HealthRecords]
  BY <1>2, SuccessType
<1>6. packet' = [packet EXCEPT ![k] = q] /\ UNCHANGED <<rotation, active, snapshot, now>>
  BY DEF UdpAnswered, proberVars
<1>7. /\ q \in PacketRecords /\ q.state = "answered"
      /\ q.policy = packet[k].policy /\ q.manager = packet[k].manager
      /\ q.order = packet[k].order /\ q.healthy = packet[k].healthy
  BY <1>2 DEF PacketRecords
<1> HIDE DEF q
<1>8. /\ DOMAIN packet' = Packets /\ packet'[k] = q
      /\ \A j \in Packets \ {k} : packet'[j] = packet[j]
  BY <1>6 DEF RoutingInv, RoutingTypes
<1>9. RoutingTypes'
  BY <1>2, <1>4, <1>5, <1>6, <1>8 DEF RoutingInv, RoutingTypes
<1>10. Accounted(q)
  BY <1>2, <1>7 DEF Accounted
<1>11. InOrder' /\ LastTurn' /\ Alternates'
  <2>1. rotation' = rotation
    BY <1>6
  <2>2. ASSUME NEW j \in Packets
        PROVE  /\ packet'[j].state = "idle" <=> packet[j].state = "idle"
               /\ packet[j].state # "idle" =>
                     /\ packet'[j].policy = packet[j].policy /\ packet'[j].manager = packet[j].manager
                     /\ packet'[j].order = packet[j].order /\ packet'[j].healthy = packet[j].healthy
    BY <1>1, <1>7, <1>8
  <2> QED BY <2>1, <2>2, TurnsKept
<1> QED BY <1>8, <1>9, <1>10, <1>11 DEF RoutingInv

\* The outbound fails: the next candidate is tried.
LEMMA FailedStep ==
  ASSUME RoutingInv, NEW k \in Packets, UdpFailed(k) PROVE RoutingInv'
<1> DEFINE q == packet[k]
    tail == Tail(q.rest)
    one == <<Head(q.rest)>>
<1>1. q.state = "sending" /\ GoesOn(k, q.manager, q, tail, one) /\ UNCHANGED <<rotation, active, snapshot, now>>
  BY DEF UdpFailed, proberVars
<1>2. /\ q \in PacketRecords /\ Accounted(q) /\ q.manager \in Generations
      /\ q.rest \in Seq(Tags) /\ q.rest # <<>> /\ Head(q.rest) \in Tags
  BY <1>1, SendingFacts
<1>3. tail \in Seq(Tags) /\ one \in Seq(Tags) /\ ToSet(one) = {Head(q.rest)}
  <2>1. tail \in Seq(Tags)
    BY <1>2, HeadTailProperties
  <2>2. one \in Seq(Tags) /\ DOMAIN one = {1} /\ one[1] = Head(q.rest)
    BY <1>2
  <2> QED BY <2>1, <2>2 DEF ToSet
<1>4. ToSet(one) \cup ToSet(tail) = ToSet(q.rest)
  BY <1>2, <1>3, HeadOrTail
<1>5. SoundOrder(q.policy, q.order, q.healthy) /\ q.tried \cup ToSet(one) \cup ToSet(tail) = ToSet(q.order)
  BY <1>1, <1>2, <1>4 DEF Accounted
<1> HIDE DEF tail, one
<1>6. /\ health' \in [Generations -> [Tags -> HealthRecords]]
      /\ DOMAIN packet' = Packets
      /\ \A j \in Packets \ {k} : packet'[j] = packet[j]
      /\ Accounted(packet'[k]) /\ packet'[k].state # "idle"
      /\ packet'[k].policy = q.policy /\ packet'[k].manager = q.manager
      /\ packet'[k].order = q.order /\ packet'[k].healthy = q.healthy
  <2>1. RoutingTypes
    BY DEF RoutingInv
  <2> HIDE DEF q
  <2> QED BY <1>1, <1>2, <1>3, <1>5, <2>1, GoesOnFacts
<1>7. RoutingTypes'
  BY <1>1, <1>6 DEF RoutingInv, RoutingTypes
<1>8. InOrder' /\ LastTurn' /\ Alternates'
  <2>1. rotation' = rotation
    BY <1>1
  <2>2. ASSUME NEW j \in Packets
        PROVE  /\ packet'[j].state = "idle" <=> packet[j].state = "idle"
               /\ packet[j].state # "idle" =>
                     /\ packet'[j].policy = packet[j].policy /\ packet'[j].manager = packet[j].manager
                     /\ packet'[j].order = packet[j].order /\ packet'[j].healthy = packet[j].healthy
    BY <1>1, <1>6
  <2> QED BY <2>1, <2>2, TurnsKept
<1> QED BY <1>6, <1>7, <1>8 DEF RoutingInv

\* A step that routes and moves no packet keeps the invariant if it keeps the types.
LEMMA PacketsKept ==
  ASSUME RoutingInv, UNCHANGED <<packet, rotation>>, RoutingTypes' PROVE RoutingInv'
<1>1. InOrder' /\ LastTurn' /\ Alternates'
  BY TurnsKept
<1>2. \A k \in Packets : packet'[k].state # "idle" => Accounted(packet'[k])
  BY DEF RoutingInv
<1> QED BY <1>1, <1>2 DEF RoutingInv

\* The prober and the packets go through these steps together.
RoutingNext == PacketStep \/ ProberStep \/ TimePasses

\* A routing step preserves the invariant.
LEMMA RoutingStep == RoutingInv /\ [RoutingNext]_routingVars => RoutingInv'
<1> SUFFICES ASSUME RoutingInv, [RoutingNext]_routingVars PROVE RoutingInv'
  OBVIOUS
<1> USE DEF RoutingInv, RoutingTypes
<1>1. ASSUME NEW k \in Packets, NEW p \in DOMAIN Policies, sendUdp(k, p) PROVE RoutingInv'
  BY <1>1, RoutedStep
<1>2. ASSUME NEW k \in Packets, UdpAnswered(k) PROVE RoutingInv'
  BY <1>2, AnsweredStep
<1>3. ASSUME NEW k \in Packets, UdpFailed(k) PROVE RoutingInv'
  BY <1>3, FailedStep
<1>4. ASSUME PreparePolicy PROVE RoutingInv'
  <2>1. /\ active + 1 \in Generations /\ snapshot' = <<health[active]>>
        /\ UNCHANGED <<health, rotation, active, packet, now>>
    BY <1>4 DEF PreparePolicy, proberVars
  <2>2. health[active] \in [Tags -> HealthRecords]
    OBVIOUS
  <2>3. RoutingTypes'
    BY <2>1, <2>2
  <2> QED BY <2>1, <2>3, PacketsKept
<1>5. ASSUME PublishPolicy PROVE RoutingInv'
  <2>1. /\ snapshot # <<>> /\ active' = active + 1 /\ health' = [health EXCEPT ![active + 1] = snapshot[1]]
        /\ snapshot' = <<>> /\ UNCHANGED <<rotation, packet, now>>
    BY <1>5 DEF PublishPolicy, proberVars
  <2>2. PICK h \in [Tags -> HealthRecords] : snapshot = <<h>>
    BY <2>1
  <2>3. snapshot[1] \in [Tags -> HealthRecords] /\ active + 1 \in Generations
    BY <2>1, <2>2
  <2>4. RoutingTypes'
    BY <2>1, <2>3
  <2> QED BY <2>1, <2>4, PacketsKept
<1>6. ASSUME DropPolicy PROVE RoutingInv'
  <2>1. snapshot' = <<>> /\ UNCHANGED <<health, rotation, active, packet, now>>
    BY <1>6 DEF DropPolicy, proberVars
  <2>2. RoutingTypes'
    BY <2>1
  <2> QED BY <2>1, <2>2, PacketsKept
<1>7. ASSUME startProber \/ stopProber \/ runOnce \/ UNCHANGED routingVars PROVE RoutingInv'
  <2>1. UNCHANGED <<health, rotation, active, snapshot, packet, now>>
    BY <1>7 DEF startProber, stopProber, runOnce, routingVars, policyVars
  <2>2. RoutingTypes'
    BY <2>1
  <2> QED BY <2>1, <2>2, PacketsKept
<1>8. ASSUME NEW t \in Tags, ProbeSucceeds(t) PROVE RoutingInv'
  <2>1. UNCHANGED <<rotation, active, snapshot, packet, now>>
    BY <1>8 DEF ProbeSucceeds
  <2>2. PICK ms \in Latencies : \E h \in recordSuccess(health[1], t, ms) : health' = [health EXCEPT ![1] = h]
    BY <1>8 DEF ProbeSucceeds
  <2>3. PICK h \in recordSuccess(health[1], t, ms) : health' = [health EXCEPT ![1] = h]
    BY <2>2
  <2>4. h \in [Tags -> HealthRecords]
    <3>1. health[1] \in [Tags -> HealthRecords]
      BY PoliciesAssumption
    <3> QED BY <3>1, SuccessType
  <2>5. RoutingTypes'
    BY <2>1, <2>3, <2>4
  <2> QED BY <2>1, <2>5, PacketsKept
<1>9. ASSUME NEW t \in Tags, ProbeFails(t) PROVE RoutingInv'
  <2>1. /\ UNCHANGED <<rotation, active, snapshot, packet, now>>
        /\ health' = [health EXCEPT ![1] = recordFailure(@, <<t>>)]
    BY <1>9 DEF ProbeFails
  <2>2. recordFailure(health[1], <<t>>) \in [Tags -> HealthRecords]
    <3>1. health[1] \in [Tags -> HealthRecords] /\ <<t>> \in Seq(Tags) /\ now \in Nat
      BY PoliciesAssumption
    <3> QED BY <3>1, FailureType
  <2>3. RoutingTypes'
    BY <2>1, <2>2
  <2> QED BY <2>1, <2>3, PacketsKept
<1>10. ASSUME TimePasses PROVE RoutingInv'
  <2>1. now' = now + 1 /\ UNCHANGED <<health, rotation, active, snapshot, packet>>
    BY <1>10 DEF TimePasses, proberVars
  <2>2. RoutingTypes'
    BY <2>1
  <2> QED BY <2>1, <2>2, PacketsKept
<1> QED BY <1>1, <1>2, <1>3, <1>4, <1>5, <1>6, <1>7, <1>8, <1>9, <1>10
        DEF RoutingNext, PacketStep, ProberStep

\* However packets, probes and reloads interleave, each packet goes through
\* all outbounds of its policy in a sound order, and round robin rotates
\* (RoutingPolicyManager.select, Engine.sendUdp).
THEOREM SelectionStaysSound == RoutingInit /\ [][RoutingNext]_routingVars => []SelectionSound
<1>1. RoutingInit => RoutingInv
  <2> SUFFICES ASSUME RoutingInit PROVE RoutingInv
    OBVIOUS
  <2>1. \A k \in Packets : packet[k].state = "idle"
    BY DEF RoutingInit
  <2>2. Routed = {}
    BY <2>1 DEF Routed
  <2>3. RoutingTypes
    <3>1. Fresh \in [Tags -> HealthRecords]
      BY DEF Fresh, HealthRecords
    <3> QED BY <3>1, PoliciesAssumption DEF RoutingInit, RoutingTypes
  <2> QED BY <2>1, <2>2, <2>3 DEF RoutingInv, InOrder, LastTurn, Alternates
<1>2. RoutingInv => SelectionSound
  <2> SUFFICES ASSUME RoutingInv PROVE SelectionSound
    OBVIOUS
  <2>1. ASSUME NEW k \in Routed
        PROVE  LET q == packet[k] IN
          /\ ToSet(q.order) = ToSet(Policies[q.policy].outbounds)
          /\ IsInjective(Policies[q.policy].outbounds) => IsInjective(q.order)
          /\ \A i, j \in DOMAIN q.order : (i < j /\ q.order[j] \in q.healthy) => q.order[i] \in q.healthy
          /\ q.state = "failed" => q.tried = ToSet(Policies[q.policy].outbounds)
    <3>1. Accounted(packet[k])
      BY DEF RoutingInv, Routed
    <3>2. ToSet(<<>>) = {}
      BY DEF ToSet
    <3> QED BY <3>1, <3>2 DEF Accounted, SoundOrder, Listed
  <2>2. Alternates
    BY DEF RoutingInv
  <2> QED BY <2>1, <2>2 DEF SelectionSound, Alternates, Same, Whole, Turning, Listed
<1> QED BY <1>1, <1>2, RoutingStep, PTL

-----------------------------------------------------------------------------
(* The prober.                                                             *)

\* The failures of a tag are those at the end of its samples, as far as these go back.
Trailing(s) == {n \in 0 .. Len(s) : \A i \in (Len(s) - n + 1) .. Len(s) : ~s[i]}
Matches(s, failures) ==
  /\ Least(failures, Len(s)) \in Trailing(s)
  /\ \A n \in Trailing(s) : n <= failures

\* One more sample goes to the end of the window, the first may leave it.
LEMMA WindowMoves ==
  ASSUME NEW s \in Seq(BOOLEAN), Len(s) <= maxSamples, NEW ok \in BOOLEAN
  PROVE  \E d \in {0, 1} :
           LET k == Kept(Append(s, ok)) IN
           /\ k \in Seq(BOOLEAN) /\ Len(k) = Len(s) + 1 - d /\ Len(k) <= maxSamples /\ Len(k) >= 1
           /\ k[Len(k)] = ok
           /\ \A i \in 1 .. (Len(s) - d) : k[i] = s[i + d]
<1> DEFINE a == Append(s, ok)
    L == Len(s)
    k == Kept(a)
<1>0. maxSamples \in Nat /\ maxSamples >= 1
  BY ProbingAssumption
<1>1. /\ a \in Seq(BOOLEAN) /\ Len(a) = L + 1 /\ L \in Nat /\ L <= maxSamples
      /\ a[L + 1] = ok /\ \A i \in 1 .. L : a[i] = s[i]
  OBVIOUS
<1>2. k = SubSeq(a, 1 + (IF Len(a) > maxSamples THEN Len(a) - maxSamples ELSE 0), Len(a))
  BY DEF Kept
<1> HIDE DEF a, L, k
<1>3. CASE L + 1 <= maxSamples
  <2>1. k = SubSeq(a, 1, Len(a))
    BY <1>0, <1>1, <1>2, <1>3
  <2>2. /\ SubSeq(a, 1, Len(a)) \in Seq(BOOLEAN) /\ Len(SubSeq(a, 1, Len(a))) = Len(a)
        /\ \A i \in 1 .. Len(a) : SubSeq(a, 1, Len(a))[i] = a[i]
    BY <1>1, CutFacts
  <2>3. /\ k \in Seq(BOOLEAN) /\ Len(k) = L + 1 - 0 /\ Len(k) <= maxSamples /\ Len(k) >= 1
        /\ k[Len(k)] = ok
        /\ \A i \in 1 .. (L - 0) : k[i] = s[i + 0]
    BY <1>0, <1>1, <1>3, <2>1, <2>2
  <2> QED BY <2>3 DEF k, L, a
<1>4. CASE L = maxSamples
  <2>1. k = SubSeq(a, 1 + 1, Len(a))
    BY <1>0, <1>1, <1>2, <1>4
  <2>2. /\ SubSeq(a, 1 + 1, Len(a)) \in Seq(BOOLEAN) /\ Len(SubSeq(a, 1 + 1, Len(a))) = Len(a) - 1
        /\ \A i \in 1 .. (Len(a) - 1) : SubSeq(a, 1 + 1, Len(a))[i] = a[1 + i]
    <3>1. 1 \in 0 .. Len(a)
      BY <1>1
    <3> QED BY <1>1, <3>1, CutFacts
  <2>3. k \in Seq(BOOLEAN) /\ Len(k) = L /\ \A i \in 1 .. L : k[i] = a[1 + i]
    BY <1>1, <2>1, <2>2
  <2>4. k[L] = ok
    BY <1>0, <1>1, <1>4, <2>3
  <2>5. \A i \in 1 .. (L - 1) : k[i] = s[i + 1]
    BY <1>1, <2>3
  <2>6. /\ k \in Seq(BOOLEAN) /\ Len(k) = L + 1 - 1 /\ Len(k) <= maxSamples /\ Len(k) >= 1
        /\ k[Len(k)] = ok
        /\ \A i \in 1 .. (L - 1) : k[i] = s[i + 1]
    BY <1>0, <1>1, <1>4, <2>3, <2>4, <2>5
  <2> QED BY <2>6 DEF k, L, a
<1> QED BY <1>0, <1>1, <1>3, <1>4

\* A failed probe counts one more failure and adds one to the end of the samples.
LEMMA FailureMatches ==
  ASSUME NEW s \in Seq(BOOLEAN), Len(s) <= maxSamples, NEW f \in Nat, Matches(s, f)
  PROVE  LET k == Kept(Append(s, FALSE)) IN
         k \in Seq(BOOLEAN) /\ Len(k) <= maxSamples /\ Matches(k, f + 1)
<1> DEFINE k == Kept(Append(s, FALSE))
<1>1. PICK d \in {0, 1} :
         /\ k \in Seq(BOOLEAN) /\ Len(k) = Len(s) + 1 - d /\ Len(k) <= maxSamples /\ Len(k) >= 1
         /\ k[Len(k)] = FALSE
         /\ \A i \in 1 .. (Len(s) - d) : k[i] = s[i + d]
  BY WindowMoves
<1> HIDE DEF k
<1> DEFINE L == Len(s)
    K == Len(k)
    m == Least(f, L)
    n == Least(f + 1, K)
<1>2. L \in Nat /\ K \in Nat /\ K = L + 1 - d /\ K >= 1 /\ d \in Nat
  BY <1>1
<1>3. m \in 0 .. L /\ \A i \in (L - m + 1) .. L : ~s[i]
  BY DEF Matches, Trailing
<1>4. \A x \in 0 .. L : (\A i \in (L - x + 1) .. L : ~s[i]) => x <= f
  BY DEF Matches, Trailing
<1>5. m <= f /\ m <= L /\ (m = f \/ m = L) /\ n <= f + 1 /\ n <= K /\ (n = f + 1 \/ n = K) /\ n \in Nat
  BY <1>2 DEF Least
<1>a. k[K] = FALSE /\ \A i \in 1 .. (L - d) : k[i] = s[i + d]
  BY <1>1
<1> HIDE DEF L, K, m, n
<1>6. ASSUME NEW i \in (K - n + 1) .. K PROVE ~k[i]
  <2>1. CASE i = K
    BY <1>a, <2>1
  <2>2. CASE i # K
    <3>1. i \in 1 .. (L - d) /\ i + d \in (L - m + 1) .. L
      BY <1>2, <1>3, <1>5, <2>2
    <3> QED BY <1>3, <1>a, <3>1
  <2> QED BY <2>1, <2>2
<1>7. ASSUME NEW x \in 0 .. K, \A i \in (K - x + 1) .. K : ~k[i] PROVE x <= f + 1
  <2>1. CASE x = 0
    BY <2>1
  <2>2. CASE x # 0
    <3>1. x - 1 \in 0 .. L
      BY <1>2, <2>2
    <3>2. ASSUME NEW i \in (L - (x - 1) + 1) .. L PROVE ~s[i]
      <4>1. i - d \in (K - x + 1) .. K /\ i - d \in 1 .. (L - d) /\ (i - d) + d = i
        BY <1>2, <2>2
      <4> QED BY <1>7, <1>a, <4>1
    <3>3. x - 1 <= f
      BY <1>4, <3>1, <3>2
    <3> QED BY <1>2, <3>3
  <2> QED BY <2>1, <2>2
<1>8. n \in 0 .. K
  BY <1>2, <1>5
<1>9. Matches(k, f + 1)
  BY <1>6, <1>7, <1>8 DEF Matches, Trailing, n, K
<1> QED BY <1>1, <1>9 DEF k

\* After a probe that succeeds nothing failed last.
LEMMA SuccessMatches ==
  ASSUME NEW s \in Seq(BOOLEAN), Len(s) <= maxSamples
  PROVE  LET k == Kept(Append(s, TRUE)) IN
         k \in Seq(BOOLEAN) /\ Len(k) <= maxSamples /\ Matches(k, 0)
<1> DEFINE k == Kept(Append(s, TRUE))
<1>1. /\ k \in Seq(BOOLEAN) /\ Len(k) <= maxSamples /\ Len(k) >= 1 /\ k[Len(k)] = TRUE
  BY WindowMoves
<1> HIDE DEF k
<1> DEFINE K == Len(k)
<1>2. K \in Nat /\ K >= 1 /\ k[K] = TRUE
  BY <1>1
<1> HIDE DEF K
<1>3. Least(0, K) = 0
  BY <1>2 DEF Least
<1>4. \A i \in (K - 0 + 1) .. K : ~k[i]
  BY <1>2
<1>5. ASSUME NEW x \in 0 .. K, \A i \in (K - x + 1) .. K : ~k[i] PROVE x <= 0
  <2>1. x # 0 => K \in (K - x + 1) .. K
    BY <1>2
  <2> QED BY <1>2, <1>5, <2>1
<1>6. Matches(k, 0)
  BY <1>2, <1>3, <1>4, <1>5 DEF Matches, Trailing, K
<1> QED BY <1>1, <1>6 DEF k

\* What is known of a tag that is probed now and then.
TagRecords == [failures : Nat, nextAllowedAt : Int]
TagBounded(t) ==
  /\ backoff[t] \in TagRecords /\ backoff[t].nextAllowedAt <= now + backoffMaxMs
  /\ samples[t] \in Seq(BOOLEAN) /\ Len(samples[t]) <= maxSamples
  /\ Matches(samples[t], backoff[t].failures)

\* A run's targets: those taken, of which some are awaited, and those left.
RunBounded ==
  /\ IsFiniteSet(probing) /\ Cardinality(probing) <= maxConcurrency /\ probing \subseteq ToSet(attempted)
  /\ attempted \in Seq(Tags) /\ runnable \in Seq(Tags)
  /\ IsInjective(attempted) /\ IsInjective(runnable) /\ ToSet(attempted) \cap ToSet(runnable) = {}
  /\ Len(attempted) + Len(runnable) <= budgetPerInterval
  /\ probing = {} => attempted = <<>> /\ runnable = <<>>

\* The inductive invariant of the prober.
ProberInv ==
  /\ now \in Nat
  /\ RunBounded
  /\ \A t \in probing \cup ToSet(runnable) : canProbe(t)
  /\ DOMAIN backoff = Tags /\ DOMAIN samples = Tags
  /\ \A t \in Tags : TagBounded(t)

\* The targets of a run.
LEMMA RunnableFacts ==
  ASSUME DOMAIN backoff = Tags
  PROVE  /\ Runnable \in Seq(Tags) /\ IsInjective(Runnable)
         /\ Len(Runnable) <= budgetPerInterval /\ \A t \in ToSet(Runnable) : canProbe(t)
<1> DEFINE may == {t \in Tags : canProbe(t)}
    allowed == Those(ProbeTargets, may)
    n == Least(budgetPerInterval, Len(allowed))
<1>0. ProbeTargets \in Seq(Tags) /\ IsInjective(ProbeTargets) /\ budgetPerInterval \in Nat
  BY ProbingAssumption
<1>1. \A t \in may : canProbe(t)
  OBVIOUS
<1>2. Runnable = SubSeq(allowed, 1, n)
  BY DEF Runnable
<1> HIDE DEF may
<1>3. /\ allowed \in Seq(Tags) /\ ToSet(allowed) = ToSet(ProbeTargets) \cap may
      /\ IsInjective(allowed)
  BY <1>0, ThoseFacts
<1> HIDE DEF allowed
<1>4. n \in 0 .. Len(allowed) /\ n <= budgetPerInterval
  BY <1>0, <1>3 DEF Least
<1> HIDE DEF n
<1>5. /\ SubSeq(allowed, 1, n) \in Seq(Tags) /\ Len(SubSeq(allowed, 1, n)) = n
      /\ ToSet(SubSeq(allowed, 1, n)) \subseteq ToSet(allowed)
  BY <1>3, <1>4, CutFacts
<1>6. IsInjective(SubSeq(allowed, 1, n))
  BY <1>3, <1>4, CutApart
<1> QED BY <1>1, <1>2, <1>3, <1>4, <1>5, <1>6

\* A run begins.
LEMMA RunStep ==
  ASSUME ProberInv, runOnce PROVE ProberInv'
<1> DEFINE all == Runnable
    taken == Least(maxConcurrency, Len(all))
    first == SubSeq(all, 1, taken)
    rest == SubSeq(all, taken + 1, Len(all))
<1>1. /\ probing = {} /\ all # <<>>
      /\ attempted' = attempted \o first /\ probing' = ToSet(first) /\ runnable' = rest
      /\ UNCHANGED <<now, backoff, samples>>
  BY DEF runOnce, policyVars
<1>2. /\ all \in Seq(Tags) /\ IsInjective(all) /\ Len(all) <= budgetPerInterval
      /\ \A t \in ToSet(all) : canProbe(t)
  BY RunnableFacts DEF ProberInv
<1>3. attempted = <<>>
  BY <1>1 DEF ProberInv, RunBounded
<1> HIDE DEF all
<1>4. maxConcurrency \in Nat \ {0} /\ Len(all) \in Nat \ {0} /\ budgetPerInterval \in Nat
  BY <1>1, <1>2, ProbingAssumption, EmptySeq
<1>5. taken \in 0 .. Len(all) /\ taken \in Nat \ {0} /\ taken <= maxConcurrency
  BY <1>4 DEF Least
<1> HIDE DEF taken
<1>6. /\ first \in Seq(Tags) /\ rest \in Seq(Tags) /\ Len(first) = taken /\ Len(rest) = Len(all) - taken
      /\ ToSet(first) \cup ToSet(rest) = ToSet(all)
  BY <1>2, <1>5, CutFacts
<1>7. IsInjective(first) /\ IsInjective(rest) /\ ToSet(first) \cap ToSet(rest) = {}
  BY <1>2, <1>5, CutApart
<1> HIDE DEF first, rest
<1>8. attempted' = first
  BY <1>1, <1>3, <1>6
<1>9. IsFiniteSet(ToSet(first)) /\ Cardinality(ToSet(first)) <= maxConcurrency
  <2>1. IsFiniteSet(ToSet(first)) /\ Cardinality(ToSet(first)) \in Nat /\ Cardinality(ToSet(first)) <= Len(first)
    BY <1>6, MembersBound
  <2> QED BY <1>4, <1>5, <1>6, <2>1
<1>10. ToSet(first) # {}
  <2>1. first # <<>>
    BY <1>5, <1>6
  <2> QED BY <1>6, <2>1, FirstMember
<1>11. Len(first) + Len(rest) <= budgetPerInterval
  BY <1>2, <1>4, <1>5, <1>6
<1>12. RunBounded'
  BY <1>1, <1>6, <1>7, <1>8, <1>9, <1>10, <1>11 DEF RunBounded
<1>13. \A t \in probing' \cup ToSet(runnable') : canProbe(t)
  BY <1>1, <1>2, <1>6
<1>14. \A t : canProbe(t)' <=> canProbe(t)
  BY <1>1 DEF canProbe
<1>15. \A t \in Tags : TagBounded(t)'
  BY <1>1 DEF ProberInv, TagBounded
<1> QED BY <1>1, <1>12, <1>13, <1>14, <1>15 DEF ProberInv

\* The worker of a tag goes on: the tag is in no later step of this run.
LEMMA TargetFacts ==
  ASSUME ProberInv, NEW t \in Tags, NextTarget(t)
  PROVE  /\ RunBounded'
         /\ probing' \cup ToSet(runnable') \subseteq (probing \cup ToSet(runnable)) \ {t}
<1>0. /\ RunBounded /\ maxConcurrency \in Nat /\ budgetPerInterval \in Nat
      /\ t \in probing /\ Cardinality(probing) \in Nat
  BY FS_CardinalityType, ProbingAssumption DEF ProberInv, NextTarget, RunBounded
<1>a. t \notin ToSet(runnable)
  BY <1>0 DEF RunBounded
<1>b. /\ IsFiniteSet(probing \ {t}) /\ Cardinality(probing \ {t}) = Cardinality(probing) - 1
  BY <1>0, FS_RemoveElement DEF RunBounded
<1>1. CASE runnable = <<>>
  <2> DEFINE left == (probing \ {t}) \cup ToSet(<<>>)
  <2>1. left = probing \ {t} /\ Len(<<>>) = 0 /\ ToSet(<<>>) = {}
    BY DEF ToSet
  <2>2. /\ probing' = left /\ runnable' = SubSeq(runnable, Len(<<>>) + 1, Len(runnable))
        /\ attempted' = IF left = {} THEN <<>> ELSE attempted \o <<>>
    BY <1>1 DEF NextTarget
  <2> HIDE DEF left
  <2>3. runnable' = <<>>
    BY <1>1, <2>1, <2>2
  <2>4. attempted \o <<>> = attempted /\ attempted \in Seq(Tags) /\ Len(attempted) \in Nat
    BY <1>0, ConcatEmptySeq DEF RunBounded
  <2>5. CASE left = {}
    <3>1. attempted' = <<>> /\ probing' = {}
      BY <2>2, <2>5
    <3>2. Cardinality({}) = 0 /\ IsFiniteSet({})
      BY FS_EmptySet
    <3>3. IsInjective(<<>>) /\ <<>> \in Seq(Tags) /\ Len(<<>>) + Len(<<>>) <= budgetPerInterval
      BY <1>0 DEF IsInjective
    <3> QED BY <1>0, <2>1, <2>3, <3>1, <3>2, <3>3 DEF RunBounded
  <2>6. CASE left # {}
    <3>1. attempted' = attempted /\ probing' = probing \ {t} /\ probing' # {}
      BY <2>1, <2>2, <2>4, <2>6
    <3>2. /\ IsFiniteSet(probing') /\ Cardinality(probing') <= maxConcurrency
          /\ probing' \subseteq ToSet(attempted)
      BY <1>0, <1>b, <3>1 DEF RunBounded
    <3> QED BY <1>0, <1>1, <2>1, <2>3, <3>1, <3>2 DEF RunBounded
  <2> QED BY <2>5, <2>6
<1>2. CASE runnable # <<>>
  <2> DEFINE h == Head(runnable)
      next == <<h>>
      left == (probing \ {t}) \cup ToSet(next)
      rest == SubSeq(runnable, Len(next) + 1, Len(runnable))
  <2>1. /\ probing' = left /\ runnable' = rest
        /\ attempted' = IF left = {} THEN <<>> ELSE attempted \o next
    BY <1>2 DEF NextTarget
  <2>2. /\ runnable \in Seq(Tags) /\ attempted \in Seq(Tags)
        /\ IsInjective(runnable) /\ IsInjective(attempted) /\ ToSet(attempted) \cap ToSet(runnable) = {}
        /\ Len(attempted) + Len(runnable) <= budgetPerInterval /\ probing \subseteq ToSet(attempted)
        /\ Cardinality(probing) <= maxConcurrency
    BY <1>0 DEF RunBounded
  <2>3. h = runnable[1] /\ h \in ToSet(runnable) /\ Len(runnable) \in Nat \ {0}
    BY <1>2, <2>2, FirstMember
  <2>4. h \in Tags
    BY <2>2, <2>3
  <2> HIDE DEF h
  <2>5. next \in Seq(Tags) /\ ToSet(next) = {h} /\ Len(next) = 1 /\ IsInjective(next)
    BY <2>4 DEF ToSet, IsInjective
  <2> HIDE DEF next
  <2>6. /\ rest \in Seq(Tags) /\ Len(rest) = Len(runnable) - 1
        /\ ToSet(SubSeq(runnable, 1, 1)) \cup ToSet(rest) = ToSet(runnable)
        /\ Len(SubSeq(runnable, 1, 1)) = 1 /\ SubSeq(runnable, 1, 1)[1] = runnable[1]
        /\ SubSeq(runnable, 1, 1) \in Seq(Tags)
    <3>1. 1 \in 0 .. Len(runnable)
      BY <2>3
    <3> QED BY <2>2, <2>5, <3>1, CutFacts
  <2>7. IsInjective(rest) /\ ToSet(SubSeq(runnable, 1, 1)) \cap ToSet(rest) = {}
    <3>1. 1 \in 0 .. Len(runnable)
      BY <2>3
    <3> QED BY <2>2, <2>5, <3>1, CutApart
  <2>8. h \notin ToSet(rest)
    <3>1. h \in ToSet(SubSeq(runnable, 1, 1))
      BY <2>3, <2>6 DEF ToSet
    <3> QED BY <2>7, <3>1
  <2> HIDE DEF rest
  <2>9. /\ attempted \o next \in Seq(Tags) /\ Len(attempted \o next) = Len(attempted) + 1
        /\ ToSet(attempted \o next) = ToSet(attempted) \cup {h}
        /\ IsInjective(attempted \o next)
    <3>1. ToSet(attempted) \cap ToSet(next) = {}
      BY <2>2, <2>3, <2>5
    <3>2. IsInjective(attempted) /\ IsInjective(next) => IsInjective(attempted \o next)
      BY <2>2, <2>5, <3>1, ApartJoined
    <3>3. /\ attempted \o next \in Seq(Tags) /\ Len(attempted \o next) = Len(attempted) + Len(next)
          /\ ToSet(attempted \o next) = ToSet(attempted) \cup ToSet(next)
      BY <2>2, <2>5, JoinedPlaces
    <3> QED BY <2>2, <2>5, <3>2, <3>3
  <2>10. left = (probing \ {t}) \cup {h} /\ left # {}
    BY <2>5
  <2> HIDE DEF left
  <2>11. attempted' = attempted \o next
    BY <2>1, <2>10
  <2>12. IsFiniteSet(left) /\ Cardinality(left) <= maxConcurrency
    <3>1. h \notin probing \ {t}
      BY <2>2, <2>3
    <3>2. /\ IsFiniteSet((probing \ {t}) \cup {h})
          /\ Cardinality((probing \ {t}) \cup {h}) = Cardinality(probing \ {t}) + 1
      BY <1>b, <3>1, FS_AddElement
    <3> QED BY <1>0, <1>b, <2>2, <2>10, <3>2
  <2>13. Len(attempted \o next) + Len(rest) <= budgetPerInterval
    <3>1. Len(attempted) \in Nat
      BY <2>2
    <3> QED BY <1>0, <2>2, <2>3, <2>6, <2>9, <3>1
  <2>14. ToSet(attempted \o next) \cap ToSet(rest) = {}
    BY <2>2, <2>6, <2>8, <2>9
  <2>15. RunBounded'
    BY <2>1, <2>2, <2>6, <2>7, <2>9, <2>10, <2>11, <2>12, <2>13, <2>14 DEF RunBounded
  <2>16. probing' \cup ToSet(runnable') \subseteq (probing \cup ToSet(runnable)) \ {t}
    BY <1>a, <2>1, <2>3, <2>6, <2>10
  <2> QED BY <2>15, <2>16
<1> QED BY <1>1, <1>2

\* A probe ends, one way or the other.
LEMMA ProbeStep ==
  ASSUME ProberInv, NEW t \in Tags, ProbeSucceeds(t) \/ ProbeFails(t) PROVE ProberInv'
<1>1. NextTarget(t) /\ now' = now
  BY DEF ProbeSucceeds, ProbeFails
<1>2. /\ RunBounded'
      /\ probing' \cup ToSet(runnable') \subseteq (probing \cup ToSet(runnable)) \ {t}
  BY <1>1, TargetFacts
<1>3. TagBounded(t) /\ DOMAIN backoff = Tags /\ DOMAIN samples = Tags /\ now \in Nat
  BY DEF ProberInv
<1>4. \E b \in TagRecords, ok \in BOOLEAN :
         /\ backoff' = [backoff EXCEPT ![t] = b] /\ samples' = [samples EXCEPT ![t] = Kept(Append(@, ok))]
         /\ b.nextAllowedAt <= now + backoffMaxMs
         /\ ok => b.failures = 0
         /\ ~ok => b.failures = backoff[t].failures + 1
  <2>0. backoffMaxMs \in Nat /\ backoffBaseMs \in Nat
    BY ProbingAssumption
  <2>1. CASE ProbeSucceeds(t)
    <3> DEFINE b == [failures |-> 0, nextAllowedAt |-> 0]
    <3>1. backoff' = [backoff EXCEPT ![t] = b] /\ samples' = [samples EXCEPT ![t] = Kept(Append(@, TRUE))]
      BY <2>1 DEF ProbeSucceeds, Sample
    <3>2. b \in TagRecords /\ b.failures = 0 /\ b.nextAllowedAt <= now + backoffMaxMs
      BY <1>3, <2>0 DEF TagRecords
    <3> QED BY <3>1, <3>2
  <2>2. CASE ProbeFails(t)
    <3> DEFINE f == backoff[t].failures + 1
        m == BackoffMs(f)
        b == [failures |-> f, nextAllowedAt |-> now + m]
    <3>1. backoff' = [backoff EXCEPT ![t] = b] /\ samples' = [samples EXCEPT ![t] = Kept(Append(@, FALSE))]
      BY <2>2 DEF ProbeFails, Sample
    <3>2. f \in Nat /\ f - 1 \in Nat
      BY <1>3 DEF TagBounded, TagRecords
    <3> HIDE DEF f
    <3>3. m \in Int /\ m <= backoffMaxMs
      <4>1. Least(f - 1, 16) \in Nat
        BY <3>2 DEF Least
      <4> DEFINE e == Least(f - 1, 16)
          ms == backoffBaseMs * 2^e
      <4> HIDE DEF e
      <4>2. ms \in Int
        BY <2>0, <4>1 DEF e
      <4>3. m = Least(backoffMaxMs, ms)
        BY DEF BackoffMs, e
      <4> HIDE DEF ms
      <4> QED BY <2>0, <4>2, <4>3 DEF Least
    <3> HIDE DEF m
    <3>4. b \in TagRecords /\ b.failures = f /\ b.nextAllowedAt <= now + backoffMaxMs
      BY <1>3, <2>0, <3>2, <3>3 DEF TagRecords
    <3> QED BY <3>1, <3>4 DEF f
  <2> QED BY <2>1, <2>2
<1>5. PICK b \in TagRecords, ok \in BOOLEAN :
         /\ backoff' = [backoff EXCEPT ![t] = b] /\ samples' = [samples EXCEPT ![t] = Kept(Append(@, ok))]
         /\ b.nextAllowedAt <= now + backoffMaxMs
         /\ ok => b.failures = 0
         /\ ~ok => b.failures = backoff[t].failures + 1
  BY <1>4
<1>6. TagBounded(t)'
  <2> DEFINE k == Kept(Append(samples[t], ok))
  <2>1. samples'[t] = k /\ backoff'[t] = b
    BY <1>3, <1>5
  <2>2. k \in Seq(BOOLEAN) /\ Len(k) <= maxSamples /\ Matches(k, b.failures)
    <3>1. /\ samples[t] \in Seq(BOOLEAN) /\ Len(samples[t]) <= maxSamples
          /\ backoff[t].failures \in Nat /\ Matches(samples[t], backoff[t].failures)
      BY <1>3 DEF TagBounded, TagRecords
    <3>2. CASE ok
      <4>1. ok = TRUE /\ b.failures = 0
        BY <1>5, <3>2
      <4> QED BY <3>1, <4>1, SuccessMatches
    <3>3. CASE ~ok
      <4>1. ok = FALSE /\ b.failures = backoff[t].failures + 1
        BY <1>5, <3>3
      <4> QED BY <3>1, <4>1, FailureMatches
    <3> QED BY <3>2, <3>3
  <2> HIDE DEF k
  <2> QED BY <1>1, <1>5, <2>1, <2>2 DEF TagBounded
<1>7. \A u \in Tags \ {t} : backoff'[u] = backoff[u] /\ samples'[u] = samples[u]
  BY <1>3, <1>5
<1>8. \A u \in Tags \ {t} : TagBounded(u)'
  BY <1>1, <1>7 DEF ProberInv, TagBounded
<1>9. ASSUME NEW u \in probing' \cup ToSet(runnable') PROVE canProbe(u)'
  <2>1. u # t /\ canProbe(u)
    BY <1>2, <1>9 DEF ProberInv
  <2>2. backoff'[u] = backoff[u]
    BY <1>5, <2>1, <1>3
  <2> QED BY <1>1, <2>1, <2>2 DEF canProbe
<1> QED BY <1>1, <1>2, <1>3, <1>5, <1>6, <1>8, <1>9 DEF ProberInv

\* However timer, probes and stop() interleave with traffic and reloads, the
\* prober keeps to its limits and its backoff to the samples it recorded
\* (ActiveProber.runOnce and probeTarget).
THEOREM ProbingStaysBounded == RoutingInit /\ [][RoutingNext]_routingVars => []ProberBounded
<1>1. RoutingInit => ProberInv
  <2> SUFFICES ASSUME RoutingInit PROVE ProberInv
    OBVIOUS
  <2>0. /\ maxConcurrency \in Nat /\ budgetPerInterval \in Nat /\ backoffMaxMs \in Nat /\ maxSamples \in Nat
    BY ProbingAssumption
  <2>1. now = 1 /\ probing = {} /\ runnable = <<>> /\ attempted = <<>>
    BY DEF RoutingInit
  <2>2. ToSet(<<>>) = {} /\ IsInjective(<<>>) /\ <<>> \in Seq(Tags) /\ Len(<<>>) = 0
    BY DEF ToSet, IsInjective
  <2>3. IsFiniteSet({}) /\ Cardinality({}) = 0
    BY FS_EmptySet
  <2>4. RunBounded
    BY <2>0, <2>1, <2>2, <2>3 DEF RunBounded
  <2>5. ASSUME NEW t \in Tags PROVE TagBounded(t)
    <3>1. backoff[t] = [failures |-> 0, nextAllowedAt |-> 0] /\ samples[t] = <<>>
      BY DEF RoutingInit
    <3>2. Matches(<<>>, 0)
      BY <2>2 DEF Matches, Trailing, Least
    <3>3. <<>> \in Seq(BOOLEAN) /\ Len(<<>>) = 0
      OBVIOUS
    <3> QED BY <2>0, <2>1, <3>1, <3>2, <3>3 DEF TagBounded, TagRecords
  <2>6. DOMAIN backoff = Tags /\ DOMAIN samples = Tags
    BY DEF RoutingInit
  <2> QED BY <2>1, <2>2, <2>4, <2>5, <2>6 DEF ProberInv
<1>2. ProberInv /\ [RoutingNext]_routingVars => ProberInv'
  <2> SUFFICES ASSUME ProberInv, [RoutingNext]_routingVars PROVE ProberInv'
    OBVIOUS
  <2>1. CASE UNCHANGED <<now, proberVars>>
    <3>1. UNCHANGED <<now, probing, runnable, attempted, backoff, samples>>
      BY <2>1 DEF proberVars
    <3> QED BY <3>1 DEF ProberInv, RunBounded, TagBounded, canProbe
  <2>2. CASE startProber \/ stopProber
    <3>1. UNCHANGED <<now, probing, runnable, attempted, backoff, samples>>
      BY <2>2 DEF startProber, stopProber, policyVars
    <3> QED BY <3>1 DEF ProberInv, RunBounded, TagBounded, canProbe
  <2>3. CASE TimePasses
    <3>1. now' = now + 1 /\ UNCHANGED <<probing, runnable, attempted, backoff, samples>>
      BY <2>3 DEF TimePasses, proberVars
    <3>2. RunBounded'
      BY <3>1 DEF ProberInv, RunBounded
    <3>3. now \in Nat /\ backoffMaxMs \in Nat /\ \A t \in Tags : backoff[t].nextAllowedAt \in Int
      BY ProbingAssumption DEF ProberInv, TagBounded, TagRecords
    <3>4. \A t \in Tags : TagBounded(t)'
      BY <3>1, <3>3 DEF ProberInv, TagBounded
    <3>5. probing \cup ToSet(runnable) \subseteq Tags
      <4>1. attempted \in Seq(Tags) /\ runnable \in Seq(Tags) /\ probing \subseteq ToSet(attempted)
        BY DEF ProberInv, RunBounded
      <4>2. \A i \in DOMAIN attempted : attempted[i] \in Tags
        BY <4>1
      <4>3. \A i \in DOMAIN runnable : runnable[i] \in Tags
        BY <4>1
      <4> QED BY <4>1, <4>2, <4>3 DEF ToSet
    <3>6. \A t \in probing \cup ToSet(runnable) : canProbe(t)'
      BY <3>1, <3>3, <3>5 DEF ProberInv, canProbe
    <3> QED BY <3>1, <3>2, <3>3, <3>4, <3>6 DEF ProberInv
  <2>4. CASE runOnce
    BY <2>4, RunStep
  <2>5. ASSUME NEW t \in Tags, ProbeSucceeds(t) \/ ProbeFails(t) PROVE ProberInv'
    BY <2>5, ProbeStep
  <2>6. CASE PacketStep
    <3>1. UNCHANGED <<now, proberVars>>
      BY <2>6 DEF PacketStep, sendUdp, UdpAnswered, UdpFailed, PreparePolicy, PublishPolicy, DropPolicy
    <3> QED BY <2>1, <3>1
  <2>7. CASE UNCHANGED routingVars
    <3>1. UNCHANGED <<now, proberVars>>
      BY <2>7 DEF routingVars, policyVars
    <3> QED BY <2>1, <3>1
  <2> QED BY <2>2, <2>3, <2>4, <2>5, <2>6, <2>7 DEF RoutingNext, ProberStep
<1>3. ProberInv => ProberBounded
  <2> SUFFICES ASSUME ProberInv PROVE ProberBounded
    OBVIOUS
  <2>1. /\ Cardinality(probing) <= maxConcurrency /\ IsInjective(attempted)
        /\ Len(attempted) + Len(runnable) <= budgetPerInterval /\ \A t \in probing : canProbe(t)
    BY DEF ProberInv, RunBounded
  <2>2. ASSUME NEW t \in Tags
        PROVE  /\ backoff[t].nextAllowedAt <= now + backoffMaxMs
               /\ Least(backoff[t].failures, Len(samples[t])) \in Trailing(samples[t])
               /\ \A n \in Trailing(samples[t]) : n <= backoff[t].failures
    BY DEF ProberInv, TagBounded, Matches
  <2> QED BY <2>1, <2>2 DEF ProberBounded, Trailing
<1> QED BY <1>1, <1>2, <1>3, PTL

-----------------------------------------------------------------------------
(* Fake addresses.                                                         *)

\* A record, and a store whose two maps hold the same records, one for each
\* domain and one for each address.
FakeRecords == [domain : Domains, address : Addresses, expiresAt : Nat]
StoreSound(st) ==
  /\ st \in [list : Seq(FakeRecords), index : SUBSET FakeRecords]
  /\ IsInjective(st.list) /\ st.index = ToSet(st.list)
  /\ \A q, r \in st.index : q.domain = r.domain \/ q.address = r.address => q = r

\* A store of which the same records are taken out of both maps.
LEMMA LeftSound ==
  ASSUME NEW st, StoreSound(st), NEW wanted
  PROVE  /\ StoreSound([list |-> Those(st.list, wanted), index |-> st.index \cap wanted])
         /\ ToSet(Those(st.list, wanted)) = st.index \cap wanted
         /\ Those(st.list, wanted) \in Seq(FakeRecords) /\ IsInjective(Those(st.list, wanted))
<1>1. st.list \in Seq(FakeRecords) /\ IsInjective(st.list) /\ st.index = ToSet(st.list) /\ st.index \subseteq FakeRecords
  BY DEF StoreSound
<1> DEFINE kept == Those(st.list, wanted)
<1>2. kept \in Seq(FakeRecords) /\ ToSet(kept) = ToSet(st.list) \cap wanted /\ IsInjective(kept)
  BY <1>1, ThoseFacts
<1> HIDE DEF kept
<1> DEFINE new == [list |-> kept, index |-> st.index \cap wanted]
<1>3. new \in [list : Seq(FakeRecords), index : SUBSET FakeRecords] /\ new.list = kept /\ new.index = st.index \cap wanted
  BY <1>1, <1>2
<1> HIDE DEF new
<1>4. StoreSound(new)
  BY <1>1, <1>2, <1>3 DEF StoreSound
<1> QED BY <1>1, <1>2, <1>4 DEF new, kept

\* delete of a record that is there takes it, and it only, out of both maps.
LEMMA DeleteSound ==
  ASSUME NEW st, StoreSound(st), NEW r \in st.index
  PROVE  StoreSound(delete(st, r)) /\ delete(st, r).index = st.index \ {r}
<1> DEFINE wanted == {q \in ToSet(st.list) : q.domain # r.domain}
<1>1. st.index = ToSet(st.list) /\ \A q \in st.index : q.domain = r.domain \/ q.address = r.address => q = r
  BY DEF StoreSound
<1>2. wanted = st.index \ {r}
  BY <1>1
<1>3. {q \in st.index : q.address # r.address} = st.index \ {r}
  BY <1>1
<1>4. delete(st, r) = [list |-> Those(st.list, wanted), index |-> st.index \ {r}]
  BY <1>3 DEF delete, Others
<1> HIDE DEF wanted
<1>5. StoreSound([list |-> Those(st.list, wanted), index |-> st.index \cap wanted])
  BY LeftSound
<1>6. st.index \cap wanted = st.index \ {r}
  BY <1>2
<1> QED BY <1>4, <1>5, <1>6

\* touch moves it to the end.
LEMMA TouchSound ==
  ASSUME NEW st, StoreSound(st), NEW r \in st.index
  PROVE  StoreSound(touch(st, r)) /\ touch(st, r).index = st.index
<1> DEFINE wanted == {q \in ToSet(st.list) : q.domain # r.domain}
    kept == Those(st.list, wanted)
<1>1. /\ st.index = ToSet(st.list) /\ \A q, p \in st.index : q.domain = p.domain \/ q.address = p.address => q = p
      /\ st \in [list : Seq(FakeRecords), index : SUBSET FakeRecords] /\ r \in FakeRecords
  BY DEF StoreSound
<1>2. wanted = st.index \ {r}
  BY <1>1
<1>3. touch(st, r) = [st EXCEPT !.list = Append(kept, r)]
  BY DEF touch, Others
<1> HIDE DEF wanted
<1>4. ToSet(kept) = st.index \cap wanted /\ kept \in Seq(FakeRecords) /\ IsInjective(kept)
  BY LeftSound
<1> HIDE DEF kept
<1>5. r \notin ToSet(kept)
  BY <1>2, <1>4
<1>6. /\ Append(kept, r) \in Seq(FakeRecords) /\ ToSet(Append(kept, r)) = ToSet(kept) \cup {r}
      /\ IsInjective(Append(kept, r))
  BY <1>1, <1>4, <1>5, AddedLast
<1> DEFINE new == Append(kept, r)
    to == [st EXCEPT !.list = new]
<1> HIDE DEF new
<1>7. to \in [list : Seq(FakeRecords), index : SUBSET FakeRecords] /\ to.list = new /\ to.index = st.index
  BY <1>1, <1>6 DEF new
<1>8. to = touch(st, r)
  BY <1>3 DEF new
<1> HIDE DEF to
<1>9. ToSet(new) = st.index
  BY <1>2, <1>4, <1>6 DEF new
<1> QED BY <1>1, <1>6, <1>7, <1>8, <1>9 DEF StoreSound, new

\* A lookup leaves the store sound: a record it finds expired is gone.
LEMMA LookedSound ==
  ASSUME NEW st, StoreSound(st), NEW found \in SUBSET st.index
  PROVE  /\ StoreSound(Looked(st, found)) /\ Looked(st, found).index \subseteq st.index
         /\ Live(found) # {} /\ (\A q, r \in found : q = r) => Looked(st, found).index # {}
         /\ Live(found) = {} /\ (\A q, r \in found : q = r) => Looked(st, found).index \cap found = {}
<1>1. CASE found = {}
  <2>1. Looked(st, found) = st
    BY <1>1 DEF Looked
  <2>2. Live(found) = {}
    BY <1>1 DEF Live
  <2> QED BY <1>1, <2>1, <2>2
<1>2. CASE found # {}
  <2> DEFINE r == CHOOSE q \in found : TRUE
  <2>1. r \in found /\ r \in st.index
    BY <1>2
  <2>2. Looked(st, found) = IF Expired(r) THEN delete(st, r) ELSE touch(st, r)
    BY <1>2 DEF Looked
  <2> HIDE DEF r
  <2>3. CASE Expired(r)
    <3>1. StoreSound(delete(st, r)) /\ delete(st, r).index = st.index \ {r}
      BY <2>1, DeleteSound
    <3>2. Looked(st, found) = delete(st, r)
      BY <2>2, <2>3
    <3>3. (\A q, p \in found : q = p) => found = {r} /\ Live(found) = {}
      BY <2>1, <2>3 DEF Live
    <3> QED BY <3>1, <3>2, <3>3
  <2>4. CASE ~Expired(r)
    <3>1. StoreSound(touch(st, r)) /\ touch(st, r).index = st.index
      BY <2>1, TouchSound
    <3>2. Looked(st, found) = touch(st, r)
      BY <2>2, <2>4
    <3>3. Live(found) # {}
      BY <2>1, <2>4 DEF Live
    <3> QED BY <2>1, <3>1, <3>2, <3>3
  <2> QED BY <2>3, <2>4
<1> QED BY <1>1, <1>2

\* What expired is taken out of both maps.
LEMMA PrunedSound ==
  ASSUME NEW st, StoreSound(st)
  PROVE  StoreSound(pruned(st)) /\ pruned(st).index \subseteq st.index
<1> DEFINE wanted == {q \in ToSet(st.list) : ~Expired(q)}
<1>1. st.index = ToSet(st.list)
  BY DEF StoreSound
<1>2. {q \in st.index : ~Expired(q)} = st.index \cap wanted
  BY <1>1
<1>3. pruned(st) = [list |-> Those(st.list, wanted), index |-> st.index \cap wanted]
  BY <1>2 DEF pruned
<1> HIDE DEF wanted
<1> QED BY <1>3, LeftSound

\* A record is written whose address no other domain has.
LEMMA SetSound ==
  ASSUME NEW st, StoreSound(st), NEW r \in FakeRecords,
         \A q \in st.index : q.address = r.address => q.domain = r.domain
  PROVE  StoreSound(set(st, r)) /\ set(st, r).index \subseteq st.index \cup {r}
         /\ \A q \in set(st, r).index : q.address = r.address => q = r
<1> DEFINE wanted == {q \in ToSet(st.list) : q.domain # r.domain}
    kept == Those(st.list, wanted)
    old == {q \in ToSet(st.list) : q.domain = r.domain}
    clean == {q \in st.index : \A o \in old : q.address # o.address}
    index == {q \in clean : q.address # r.address} \cup {r}
    new == [list |-> Append(kept, r), index |-> index]
<1>1. /\ st.index = ToSet(st.list) /\ \A q, p \in st.index : q.domain = p.domain \/ q.address = p.address => q = p
      /\ st.index \subseteq FakeRecords
  BY DEF StoreSound
<1>2. set(st, r) = new
  BY DEF set, Others, OfDomain
<1>3. {q \in clean : q.address # r.address} = {q \in st.index : q.domain # r.domain}
  <2>1. ASSUME NEW q \in st.index, q.domain # r.domain
        PROVE  q.address # r.address /\ \A o \in old : q.address # o.address
    BY <1>1, <2>1
  <2>2. ASSUME NEW q \in clean PROVE q.domain # r.domain
    BY <1>1, <2>2
  <2> QED BY <2>1, <2>2
<1>4. index = {q \in st.index : q.domain # r.domain} \cup {r}
  BY <1>3
<1>5. wanted = {q \in st.index : q.domain # r.domain}
  BY <1>1
<1> HIDE DEF wanted, index
<1>6. ToSet(kept) = st.index \cap wanted /\ kept \in Seq(FakeRecords) /\ IsInjective(kept)
  BY LeftSound
<1> HIDE DEF kept
<1>7. r \notin ToSet(kept)
  BY <1>5, <1>6
<1>8. /\ Append(kept, r) \in Seq(FakeRecords) /\ ToSet(Append(kept, r)) = ToSet(kept) \cup {r}
      /\ IsInjective(Append(kept, r))
  BY <1>6, <1>7, AddedLast
<1>9. ToSet(Append(kept, r)) = index /\ index \subseteq FakeRecords
  BY <1>1, <1>4, <1>5, <1>6, <1>8
<1>10. new \in [list : Seq(FakeRecords), index : SUBSET FakeRecords] /\ new.list = Append(kept, r) /\ new.index = index
  BY <1>8, <1>9
<1> HIDE DEF new
<1>11. \A q, p \in index : q.domain = p.domain \/ q.address = p.address => q = p
  <2> SUFFICES ASSUME NEW q \in index, NEW p \in index, q.domain = p.domain \/ q.address = p.address PROVE q = p
    OBVIOUS
  <2> QED BY <1>1, <1>4
<1>12. StoreSound(new)
  BY <1>8, <1>9, <1>10, <1>11 DEF StoreSound
<1>13. \A q \in index : q.address = r.address => q = r
  BY <1>4
<1> QED BY <1>2, <1>4, <1>10, <1>12, <1>13

\* The first n lookups of FakeIpPool.next.
ScanStep(st, g, n) ==
  IF n = 0 THEN [store |-> st, cursor |-> cursor, free |-> capacity]
  ELSE IF g[n - 1].free # capacity THEN g[n - 1]
  ELSE LET a == g[n - 1].cursor
           found == OfAddress(g[n - 1].store, a)
       IN [store |-> Looked(g[n - 1].store, found), cursor |-> (a + 1) % capacity,
           free |-> IF Live(found) = {} THEN a ELSE capacity]
ScanUpTo(st, m) == CHOOSE g : g = [n \in 0 .. m |-> ScanStep(st, g, n)]

\* The scan's recursion has a solution.
LEMMA ScanExists ==
  ASSUME NEW st, NEW m \in Nat
  PROVE  \E g : g = [n \in 0 .. m |-> ScanStep(st, g, n)]
<1> DEFINE T == {k \in Nat : \E g : g = [n \in 0 .. k |-> ScanStep(st, g, n)]}
<1>1. 0 \in T
  <2> DEFINE g == [n \in 0 .. 0 |-> [store |-> st, cursor |-> cursor, free |-> capacity]]
  <2>1. g = [n \in 0 .. 0 |-> ScanStep(st, g, n)]
    BY DEF ScanStep
  <2> QED BY <2>1
<1>2. ASSUME NEW k \in Nat, k \in T PROVE k + 1 \in T
  <2>1. PICK g : g = [n \in 0 .. k |-> ScanStep(st, g, n)]
    BY <1>2
  <2> DEFINE h == [n \in 0 .. (k + 1) |-> IF n = k + 1 THEN ScanStep(st, g, n) ELSE g[n]]
  <2>2. \A n \in 0 .. (k + 1) : n # 0 => n - 1 \in 0 .. k /\ h[n - 1] = g[n - 1]
    OBVIOUS
  <2>3. \A n \in 0 .. (k + 1) : h[n] = ScanStep(st, g, n)
    BY <2>1
  <2>4. \A n \in 0 .. (k + 1) : ScanStep(st, h, n) = ScanStep(st, g, n)
    BY <2>2 DEF ScanStep
  <2> HIDE DEF h
  <2>5. h = [n \in 0 .. (k + 1) |-> ScanStep(st, h, n)]
    <3>1. h = [n \in 0 .. (k + 1) |-> h[n]]
      BY DEF h
    <3> QED BY <2>3, <2>4, <3>1
  <2> QED BY <2>5
<1>3. Nat \subseteq T
  <2> HIDE DEF T
  <2> QED BY <1>1, <1>2, Upwards
<1> QED BY <1>3

\* ScanFrom is the last step of that recursion.
LEMMA ScanIs ==
  ASSUME NEW st
  PROVE  ScanFrom(st) = ScanUpTo(st, capacity)[capacity]
BY DEF ScanFrom, ScanUpTo, ScanStep

\* What the scan has done after n lookups: no address is free yet and, once it
\* has looked, there are records; or one is, and no record has it.
ScanOk(s, st, n) ==
  /\ StoreSound(s.store) /\ s.store.index \subseteq st.index /\ s.cursor \in Addresses
  /\ s.free = capacity => n = 0 \/ s.store.index # {}
  /\ s.free # capacity => s.free \in Addresses /\ \A r \in s.store.index : r.address # s.free

\* One lookup more.
LEMMA ScanNext ==
  ASSUME NEW st, NEW n \in Nat, NEW s, ScanOk(s, st, n), s.free = capacity
  PROVE  LET found == OfAddress(s.store, s.cursor) IN
         ScanOk([store |-> Looked(s.store, found), cursor |-> (s.cursor + 1) % capacity,
                 free |-> IF Live(found) = {} THEN s.cursor ELSE capacity], st, n + 1)
<1> DEFINE found == OfAddress(s.store, s.cursor)
    left == Looked(s.store, found)
    next == (s.cursor + 1) % capacity
    free == IF Live(found) = {} THEN s.cursor ELSE capacity
    new == [store |-> left, cursor |-> next, free |-> free]
<1>1. StoreSound(s.store) /\ s.store.index \subseteq st.index /\ s.cursor \in Addresses
  BY DEF ScanOk
<1>2. found \in SUBSET s.store.index /\ \A q, r \in found : q = r
  BY <1>1 DEF OfAddress, StoreSound
<1>3. /\ StoreSound(left) /\ left.index \subseteq s.store.index
      /\ Live(found) # {} => left.index # {}
      /\ Live(found) = {} => left.index \cap found = {}
  <2> HIDE DEF found
  <2> QED BY <1>1, <1>2, LookedSound
<1>4. \A r \in s.store.index : r.address = s.cursor => r \in found
  BY DEF OfAddress
<1>5. next \in Addresses /\ capacity \notin Addresses
  <2>1. capacity \in Nat /\ capacity > 0 /\ s.cursor \in Nat
    BY <1>1, FakeIpAssumption DEF Addresses
  <2> QED BY <2>1 DEF Addresses
<1> HIDE DEF found, left, next
<1>6. n + 1 # 0
  OBVIOUS
<1>7. ScanOk(new, st, n + 1)
  <2>1. new.store = left /\ new.cursor = next /\ new.free = free
    OBVIOUS
  <2>2. CASE Live(found) = {}
    <3>1. free = s.cursor /\ free # capacity
      BY <1>1, <1>5, <2>2
    <3>2. \A r \in left.index : r.address # s.cursor
      BY <1>3, <1>4, <2>2
    <3> HIDE DEF free, new
    <3> QED BY <1>1, <1>3, <1>5, <2>1, <3>1, <3>2 DEF ScanOk
  <2>3. CASE Live(found) # {}
    <3>1. free = capacity /\ left.index # {}
      BY <1>3, <2>3
    <3> HIDE DEF free, new
    <3> QED BY <1>1, <1>3, <1>5, <2>1, <3>1 DEF ScanOk
  <2> QED BY <2>2, <2>3
<1> QED BY <1>7 DEF found, left, next

\* What the scan finds.
LEMMA ScanFacts ==
  ASSUME NEW st, StoreSound(st), cursor \in Addresses
  PROVE  LET s == ScanFrom(st) IN
         /\ StoreSound(s.store) /\ s.store.index \subseteq st.index /\ s.cursor \in Addresses
         /\ s.free = capacity => s.store.index # {}
         /\ s.free # capacity => s.free \in Addresses /\ \A r \in s.store.index : r.address # s.free
<1> DEFINE g == ScanUpTo(st, capacity)
    T == {n \in Nat : n \in 0 .. capacity => ScanOk(g[n], st, n)}
<1>0. capacity \in Nat /\ capacity # 0
  BY FakeIpAssumption
<1>1. g = [n \in 0 .. capacity |-> ScanStep(st, g, n)]
  BY <1>0, ScanExists DEF ScanUpTo
<1> HIDE DEF g
<1>2. \A n \in 0 .. capacity : g[n] = ScanStep(st, g, n)
  <2> DEFINE h == [n \in 0 .. capacity |-> ScanStep(st, g, n)]
  <2>1. \A n \in 0 .. capacity : h[n] = ScanStep(st, g, n)
    OBVIOUS
  <2>2. g = h
    BY <1>1
  <2> HIDE DEF h
  <2> QED BY <2>1, <2>2
<1>3. 0 \in T
  <2>a. 0 \in 0 .. capacity /\ g[0] = ScanStep(st, g, 0)
    BY <1>0, <1>2
  <2>1. g[0] = [store |-> st, cursor |-> cursor, free |-> capacity]
    BY <2>a DEF ScanStep
  <2>2. ScanOk(g[0], st, 0)
    BY <2>1 DEF ScanOk
  <2> QED BY <2>2
<1>4. ASSUME NEW n \in Nat, n \in T PROVE n + 1 \in T
  <2> SUFFICES ASSUME n + 1 \in 0 .. capacity PROVE ScanOk(g[n + 1], st, n + 1)
    OBVIOUS
  <2>1. n \in 0 .. capacity /\ n + 1 # 0 /\ (n + 1) - 1 = n
    BY <1>0
  <2>2. ScanOk(g[n], st, n)
    BY <1>4, <2>1
  <2>3. g[n + 1] = ScanStep(st, g, n + 1)
    BY <1>2
  <2>4. CASE g[n].free # capacity
    <3>1. g[n + 1] = g[n]
      BY <2>1, <2>3, <2>4 DEF ScanStep
    <3> QED BY <2>2, <2>4, <3>1 DEF ScanOk
  <2>5. CASE g[n].free = capacity
    <3> DEFINE s == g[n]
        found == OfAddress(s.store, s.cursor)
        new == [store |-> Looked(s.store, found), cursor |-> (s.cursor + 1) % capacity,
                free |-> IF Live(found) = {} THEN s.cursor ELSE capacity]
    <3>1. g[n + 1] = new
      BY <2>1, <2>3, <2>5 DEF ScanStep
    <3>2. ScanOk(s, st, n) /\ s.free = capacity
      BY <2>2, <2>5
    <3> HIDE DEF s
    <3>3. ScanOk(new, st, n + 1)
      BY <3>2, ScanNext
    <3> QED BY <3>1, <3>3
  <2> QED BY <2>4, <2>5
<1>5. Nat \subseteq T
  <2> HIDE DEF T
  <2> QED BY <1>3, <1>4, Upwards
<1>6. ScanOk(g[capacity], st, capacity)
  BY <1>0, <1>5
<1>7. ScanFrom(st) = g[capacity]
  BY ScanIs DEF g
<1> QED BY <1>0, <1>6, <1>7 DEF ScanOk

\* What assign makes of a sound store: the address belongs to the new record
\* alone, and whatever else is left was there before.
LEMMA AssignedFacts ==
  ASSUME StoreSound(Store), cursor \in Addresses, clock \in Nat, NEW d \in Domains
  PROVE  LET new == Assigned(d) IN
         /\ StoreSound(new.store) /\ new.cursor \in Addresses /\ new.address \in Addresses
         /\ \A r \in new.store.index : IF r.address = new.address THEN r.domain = d ELSE r \in byAddress
<1> DEFINE st == Looked(Store, OfDomain(Store, d))
    scan == ScanFrom(st)
    full == scan.free = capacity
    address == IF full THEN Head(scan.store.list).address ELSE scan.free
    room == IF full THEN evictOldest(scan.store) ELSE scan.store
    record == [domain |-> d, address |-> address, expiresAt |-> clock + ttl]
    was == set(room, record)
    new == [store |-> pruned(was), cursor |-> scan.cursor, address |-> address]
<1>1. Assigned(d) = new
  BY DEF Assigned
<1>2. StoreSound(st) /\ st.index \subseteq byAddress
  <2>1. OfDomain(Store, d) \in SUBSET Store.index
    BY DEF OfDomain, StoreSound
  <2>2. Store.index = byAddress
    BY DEF Store
  <2>3. StoreSound(st) /\ st.index \subseteq Store.index
    BY <2>1, LookedSound
  <2> QED BY <2>2, <2>3
<1> HIDE DEF st
<1>3. /\ StoreSound(scan.store) /\ scan.store.index \subseteq st.index /\ scan.cursor \in Addresses
      /\ full => scan.store.index # {}
      /\ ~full => scan.free \in Addresses /\ \A r \in scan.store.index : r.address # scan.free
  BY <1>2, ScanFacts
<1> HIDE DEF scan
<1>4. /\ StoreSound(room) /\ room.index \subseteq scan.store.index /\ address \in Addresses
      /\ \A r \in room.index : r.address # address
  <2>1. CASE full
    <3> DEFINE h == Head(scan.store.list)
    <3>1. /\ scan.store.list \in Seq(FakeRecords) /\ scan.store.index = ToSet(scan.store.list)
          /\ scan.store.index \subseteq FakeRecords
          /\ \A q, r \in scan.store.index : q.address = r.address => q = r
      BY <1>3 DEF StoreSound
    <3>2. scan.store.list # <<>>
      <4>1. ToSet(<<>>) = {}
        BY DEF ToSet
      <4> QED BY <1>3, <2>1, <3>1, <4>1
    <3>3. h \in scan.store.index
      BY <3>1, <3>2, FirstMember
    <3>4. room = delete(scan.store, h) /\ address = h.address
      BY <2>1 DEF evictOldest
    <3> HIDE DEF h, room, address, full
    <3>5. StoreSound(room) /\ room.index = scan.store.index \ {h}
      BY <1>3, <3>3, <3>4, DeleteSound
    <3>6. h.address \in Addresses
      BY <3>1, <3>3 DEF FakeRecords
    <3>7. \A r \in room.index : r.address # address
      BY <3>1, <3>3, <3>4, <3>5
    <3> QED BY <3>4, <3>5, <3>6, <3>7
  <2>2. CASE ~full
    <3>1. room = scan.store /\ address = scan.free
      BY <2>2
    <3> QED BY <1>3, <2>2, <3>1
  <2> QED BY <2>1, <2>2
<1> HIDE DEF room, address, full
<1>5. record \in FakeRecords /\ record.address = address /\ record.domain = d
  BY <1>4, FakeIpAssumption DEF FakeRecords
<1> HIDE DEF record
<1>6. /\ StoreSound(was) /\ was.index \subseteq room.index \cup {record}
      /\ \A q \in was.index : q.address = address => q = record
  BY <1>4, <1>5, SetSound
<1> HIDE DEF was
<1>7. StoreSound(pruned(was)) /\ pruned(was).index \subseteq was.index
  BY <1>6, PrunedSound
<1>8. new.store = pruned(was) /\ new.cursor = scan.cursor /\ new.address = address
  OBVIOUS
<1> HIDE DEF new
<1>9. \A r \in pruned(was).index : IF r.address = address THEN r.domain = d ELSE r \in byAddress
  BY <1>2, <1>3, <1>4, <1>5, <1>6, <1>7
<1> QED BY <1>1, <1>3, <1>4, <1>7, <1>8, <1>9

\* The file as a store: load() builds both maps from it.
Filed == [list |-> file, index |-> ToSet(file)]
\* The record gives the domain its address was handed out for last.
Told(r) == r.address \in doubtful \/ owner[r.address] = r.domain

\* The inductive invariant of the fake addresses.
FakeInv ==
  /\ StoreSound(Store) /\ StoreSound(Filed)
  /\ cursor \in Addresses /\ clock \in Nat /\ DOMAIN owner = Addresses
  /\ \A r \in byAddress : Told(r)
  /\ \A r \in ToSet(file) : Expired(r) \/ Told(r)

\* The records of a sound store are as many as its domains and its addresses.
LEMMA StoreCounts ==
  ASSUME NEW st, StoreSound(st)
  PROVE  /\ Cardinality({r.domain : r \in st.index}) = Len(st.list)
         /\ Cardinality({r.address : r \in st.index}) = Len(st.list)
<1> DEFINE n == Len(st.list)
    byD == [i \in 1 .. n |-> st.list[i].domain]
    byA == [i \in 1 .. n |-> st.list[i].address]
    ds == {r.domain : r \in st.index}
    as == {r.address : r \in st.index}
<1>1. /\ st.list \in Seq(FakeRecords) /\ IsInjective(st.list) /\ st.index = ToSet(st.list)
      /\ \A q, r \in st.index : q.domain = r.domain \/ q.address = r.address => q = r
  BY DEF StoreSound
<1>2. n \in Nat /\ DOMAIN st.list = 1 .. n
  BY <1>1
<1>4. /\ \A i \in 1 .. n : st.list[i] \in st.index
      /\ \A r \in st.index : \E i \in 1 .. n : r = st.list[i]
      /\ \A i, j \in 1 .. n : st.list[i] = st.list[j] => i = j
  BY <1>1, <1>2 DEF ToSet, IsInjective
<1> HIDE DEF n
<1>5. Cardinality(ds) = n
  <2>a. DOMAIN byD = 1 .. n /\ \A i \in 1 .. n : byD[i] = st.list[i].domain
    OBVIOUS
  <2>b. byD \in [1 .. n -> ds]
    BY <1>4
  <2> HIDE DEF byD
  <2>c. ASSUME NEW i \in 1 .. n, NEW j \in 1 .. n, byD[i] = byD[j] PROVE i = j
    <3>1. st.list[i] \in st.index /\ st.list[j] \in st.index /\ st.list[i].domain = st.list[j].domain
      BY <1>4, <2>a, <2>c
    <3>2. st.list[i] = st.list[j]
      BY <1>1, <3>1
    <3> QED BY <1>4, <3>2
  <2>d. \A d \in ds : \E i \in 1 .. n : byD[i] = d
    BY <1>4, <2>a
  <2>1. /\ byD \in [1 .. n -> ds]
        /\ \A i, j \in 1 .. n : byD[i] = byD[j] => i = j
        /\ \A d \in ds : \E i \in 1 .. n : byD[i] = d
    BY <2>b, <2>c, <2>d
  <2> HIDE DEF byD, ds
  <2> QED BY <1>2, <2>1, CountedOnce
<1>6. Cardinality(as) = n
  <2>a. DOMAIN byA = 1 .. n /\ \A i \in 1 .. n : byA[i] = st.list[i].address
    OBVIOUS
  <2>b. byA \in [1 .. n -> as]
    BY <1>4
  <2> HIDE DEF byA
  <2>c. ASSUME NEW i \in 1 .. n, NEW j \in 1 .. n, byA[i] = byA[j] PROVE i = j
    <3>1. st.list[i] \in st.index /\ st.list[j] \in st.index /\ st.list[i].address = st.list[j].address
      BY <1>4, <2>a, <2>c
    <3>2. st.list[i] = st.list[j]
      BY <1>1, <3>1
    <3> QED BY <1>4, <3>2
  <2>d. \A a \in as : \E i \in 1 .. n : byA[i] = a
    BY <1>4, <2>a
  <2>1. /\ byA \in [1 .. n -> as]
        /\ \A i, j \in 1 .. n : byA[i] = byA[j] => i = j
        /\ \A a \in as : \E i \in 1 .. n : byA[i] = a
    BY <2>b, <2>c, <2>d
  <2> HIDE DEF byA, as
  <2> QED BY <1>2, <2>1, CountedOnce
<1> QED BY <1>5, <1>6 DEF n

\* An address is handed out, and the write succeeds.
LEMMA AssignStep ==
  ASSUME FakeInv, NEW d \in Domains, assign(d) PROVE FakeInv'
<1> DEFINE new == Assigned(d)
<1>1. /\ byDomain' = new.store.list /\ byAddress' = new.store.index /\ cursor' = new.cursor
      /\ file' = new.store.list /\ owner' = [owner EXCEPT ![new.address] = d]
      /\ doubtful' = StillDoubtful(doubtful, new.store, owner') /\ clock' = clock
  BY DEF assign, Keep
<1>2. /\ StoreSound(new.store) /\ new.cursor \in Addresses /\ new.address \in Addresses
      /\ \A r \in new.store.index : IF r.address = new.address THEN r.domain = d ELSE r \in byAddress
  BY AssignedFacts DEF FakeInv
<1> HIDE DEF new
<1>3. new.store = [list |-> new.store.list, index |-> new.store.index] /\ new.store.index = ToSet(new.store.list)
  BY <1>2 DEF StoreSound
<1>4. Store' = new.store /\ Filed' = new.store
  BY <1>1, <1>3 DEF Store, Filed
<1>5. StoreSound(Store)' /\ StoreSound(Filed)'
  BY <1>2, <1>4 DEF StoreSound
<1>6. DOMAIN owner' = Addresses
  BY <1>1 DEF FakeInv
<1>7. ASSUME NEW r \in new.store.index PROVE Told(r)'
  <2>1. CASE r.address = new.address
    <3>1. owner'[r.address] = r.domain
      BY <1>1, <1>2, <2>1 DEF FakeInv
    <3> QED BY <3>1 DEF Told
  <2>2. CASE r.address # new.address
    <3>1. r \in byAddress /\ Told(r)
      BY <1>2, <2>2 DEF FakeInv
    <3>2. owner'[r.address] = owner[r.address]
      BY <1>1, <2>2
    <3>3. r.address \in doubtful => r.address \in doubtful' \/ owner'[r.address] = r.domain
      BY <1>1 DEF StillDoubtful
    <3> QED BY <3>1, <3>2, <3>3 DEF Told
  <2> QED BY <2>1, <2>2
<1>8. byAddress' = new.store.index /\ ToSet(file') = new.store.index
  BY <1>1, <1>3
<1> QED BY <1>1, <1>2, <1>5, <1>6, <1>7, <1>8 DEF FakeInv

\* An address is handed out, and the write fails: the mapping is doubtful.
LEMMA UnwrittenStep ==
  ASSUME FakeInv, NEW d \in Domains, assignUnwritten(d) PROVE FakeInv'
<1> DEFINE new == Assigned(d)
<1>1. /\ byDomain' = new.store.list /\ byAddress' = new.store.index /\ cursor' = new.cursor
      /\ file' = file /\ owner' = [owner EXCEPT ![new.address] = d]
      /\ doubtful' = doubtful \cup {new.address} /\ clock' = clock
  BY DEF assignUnwritten, Keep
<1>2. /\ StoreSound(new.store) /\ new.cursor \in Addresses /\ new.address \in Addresses
      /\ \A r \in new.store.index : IF r.address = new.address THEN r.domain = d ELSE r \in byAddress
  BY AssignedFacts DEF FakeInv
<1> HIDE DEF new
<1>3. new.store = [list |-> new.store.list, index |-> new.store.index]
  BY <1>2 DEF StoreSound
<1>4. Store' = new.store /\ Filed' = Filed
  BY <1>1, <1>3 DEF Store, Filed
<1>5. StoreSound(Store)' /\ StoreSound(Filed)'
  BY <1>2, <1>4 DEF StoreSound, FakeInv
<1>6. DOMAIN owner' = Addresses
  BY <1>1 DEF FakeInv
<1>7. ASSUME NEW r, Told(r) PROVE Told(r)'
  BY <1>1, <1>7 DEF Told
<1>8. ASSUME NEW r \in new.store.index PROVE Told(r)'
  <2>1. CASE r.address = new.address
    BY <1>1, <2>1 DEF Told
  <2>2. CASE r.address # new.address
    <3>1. r \in byAddress /\ Told(r)
      BY <1>2, <2>2 DEF FakeInv
    <3> QED BY <1>7, <3>1
  <2> QED BY <2>1, <2>2
<1>9. \A r \in ToSet(file') : Expired(r)' \/ Told(r)'
  BY <1>1, <1>7 DEF FakeInv, Expired
<1> QED BY <1>1, <1>2, <1>5, <1>6, <1>8, <1>9 DEF FakeInv

\* A lookup.
LEMMA LookUpStep ==
  ASSUME FakeInv, NEW found \in SUBSET byAddress, LookUp(found) PROVE FakeInv'
<1> DEFINE st == Looked(Store, found)
<1>1. /\ byDomain' = st.list /\ byAddress' = st.index
      /\ UNCHANGED <<cursor, file, clock, owner, doubtful>>
  BY DEF LookUp, Keep
<1>2. StoreSound(st) /\ st.index \subseteq byAddress
  <2>1. Store.index = byAddress
    BY DEF Store
  <2>2. StoreSound(Store)
    BY DEF FakeInv
  <2>3. StoreSound(st) /\ st.index \subseteq Store.index
    BY <2>1, <2>2, LookedSound
  <2> QED BY <2>1, <2>3
<1> HIDE DEF st
<1>3. st = [list |-> st.list, index |-> st.index]
  BY <1>2 DEF StoreSound
<1>4. Store' = st /\ Filed' = Filed
  BY <1>1, <1>3 DEF Store, Filed
<1>5. StoreSound(Store)' /\ StoreSound(Filed)'
  BY <1>2, <1>4 DEF StoreSound, FakeInv
<1>6. /\ \A r \in byAddress' : Told(r)'
      /\ \A r \in ToSet(file') : Expired(r)' \/ Told(r)'
  BY <1>1, <1>2 DEF FakeInv, Told, Expired
<1> QED BY <1>1, <1>5, <1>6 DEF FakeInv

\* A store without records.
LEMMA EmptySound == StoreSound([list |-> <<>>, index |-> {}])
<1>1. ToSet(<<>>) = {} /\ IsInjective(<<>>) /\ <<>> \in Seq(FakeRecords)
  BY DEF ToSet, IsInjective
<1> QED BY <1>1 DEF StoreSound

\* A step of the fake addresses preserves the invariant.
LEMMA FakeStep == FakeInv /\ [FakeNext]_fakeVars => FakeInv'
<1> SUFFICES ASSUME FakeInv, [FakeNext]_fakeVars PROVE FakeInv'
  OBVIOUS
<1>1. ASSUME NEW d \in Domains, assign(d) PROVE FakeInv'
  BY <1>1, AssignStep
<1>2. ASSUME NEW d \in Domains, assignUnwritten(d) PROVE FakeInv'
  BY <1>2, UnwrittenStep
<1>3. ASSUME NEW d \in Domains, assignAgain(d) PROVE FakeInv'
  <2>1. OfDomain(Store, d) \in SUBSET byAddress
    BY DEF OfDomain, FakeInv, StoreSound, Store
  <2>2. LookUp(OfDomain(Store, d))
    BY <1>3 DEF assignAgain
  <2> QED BY <2>1, <2>2, LookUpStep
<1>4. ASSUME NEW a \in Addresses, reverse(a) PROVE FakeInv'
  <2>1. OfAddress(Store, a) \in SUBSET byAddress
    BY DEF OfAddress, Store
  <2>2. LookUp(OfAddress(Store, a))
    BY <1>4 DEF reverse
  <2> QED BY <2>1, <2>2, LookUpStep
<1>5. CASE Tick
  <2>1. clock' = clock + 1 /\ UNCHANGED <<byDomain, byAddress, cursor, file, owner, doubtful>>
    BY <1>5 DEF Tick
  <2>2. Store' = Store /\ Filed' = Filed
    BY <2>1 DEF Store, Filed
  <2>3. StoreSound(Store)' /\ StoreSound(Filed)'
    BY <2>2 DEF StoreSound, FakeInv
  <2>4. ASSUME NEW r \in ToSet(file), Expired(r) PROVE Expired(r)'
    <3>1. r.expiresAt \in Nat /\ clock \in Nat
      <4>1. Filed.index = ToSet(file) /\ StoreSound(Filed)
        BY DEF Filed, FakeInv
      <4>2. r \in FakeRecords
        BY <4>1 DEF StoreSound
      <4> QED BY <4>2 DEF FakeRecords, FakeInv
    <3> QED BY <2>1, <2>4, <3>1 DEF Expired
  <2>5. /\ \A r \in byAddress' : Told(r)'
        /\ \A r \in ToSet(file') : Expired(r)' \/ Told(r)'
    BY <2>1, <2>4 DEF FakeInv, Told
  <2> QED BY <2>1, <2>3, <2>5 DEF FakeInv
<1>6. CASE Die
  <2>1. /\ byDomain' = <<>> /\ byAddress' = {} /\ cursor' = 0
        /\ UNCHANGED <<file, clock, owner, doubtful>>
    BY <1>6 DEF Die
  <2>2. Store' = [list |-> <<>>, index |-> {}] /\ Filed' = Filed
    BY <2>1 DEF Store, Filed
  <2>3. StoreSound(Store)' /\ StoreSound(Filed)'
    BY <2>2, EmptySound DEF StoreSound, FakeInv
  <2>4. 0 \in Addresses
    BY FakeIpAssumption DEF Addresses
  <2>5. /\ \A r \in byAddress' : Told(r)'
        /\ \A r \in ToSet(file') : Expired(r)' \/ Told(r)'
    BY <2>1 DEF FakeInv, Told, Expired
  <2> QED BY <2>1, <2>3, <2>4, <2>5 DEF FakeInv
<1>7. CASE load
  <2> DEFINE st == pruned(Filed)
  <2>1. /\ byDomain' = st.list /\ byAddress' = st.index
        /\ UNCHANGED <<cursor, file, clock, owner, doubtful>>
    BY <1>7 DEF load, Keep, Filed
  <2>2. StoreSound(st) /\ \A r \in st.index : r \in ToSet(file) /\ ~Expired(r)
    <3>1. StoreSound(st)
      BY PrunedSound DEF FakeInv
    <3>2. \A r \in st.index : r \in ToSet(file) /\ ~Expired(r)
      BY DEF pruned, Filed
    <3> QED BY <3>1, <3>2
  <2> HIDE DEF st
  <2>3. st = [list |-> st.list, index |-> st.index]
    BY <2>2 DEF StoreSound
  <2>4. Store' = st /\ Filed' = Filed
    BY <2>1, <2>3 DEF Store, Filed
  <2>5. StoreSound(Store)' /\ StoreSound(Filed)'
    BY <2>2, <2>4 DEF StoreSound, FakeInv
  <2>6. /\ \A r \in byAddress' : Told(r)'
        /\ \A r \in ToSet(file') : Expired(r)' \/ Told(r)'
    BY <2>1, <2>2 DEF FakeInv, Told, Expired
  <2> QED BY <2>1, <2>5, <2>6 DEF FakeInv
<1>8. CASE UNCHANGED fakeVars
  <2>1. UNCHANGED <<byDomain, byAddress, cursor, file, clock, owner, doubtful>>
    BY <1>8 DEF fakeVars
  <2>2. Store' = Store /\ Filed' = Filed
    BY <2>1 DEF Store, Filed
  <2>3. StoreSound(Store)' /\ StoreSound(Filed)'
    BY <2>2 DEF StoreSound, FakeInv
  <2> QED BY <2>1, <2>3 DEF FakeInv, Told, Expired
<1> QED BY <1>1, <1>2, <1>3, <1>4, <1>5, <1>6, <1>7, <1>8 DEF FakeNext

\* However addresses are handed out, expire, are evicted and survive a crash,
\* the two maps agree and an address gives the domain it was handed out for
\* last (FakeIpService.assign and reverse, FakeIpStore.load and persist).
THEOREM ReverseStaysLatest == FakeInit /\ [][FakeNext]_fakeVars => []ReverseIsLatest
<1>1. FakeInit => FakeInv
  <2> SUFFICES ASSUME FakeInit PROVE FakeInv
    OBVIOUS
  <2>1. byDomain = <<>> /\ byAddress = {} /\ file = <<>> /\ cursor = 0 /\ clock = 0 /\ DOMAIN owner = Addresses
    BY DEF FakeInit
  <2>2. ToSet(<<>>) = {}
    BY DEF ToSet
  <2>3. Store = [list |-> <<>>, index |-> {}] /\ Filed = [list |-> <<>>, index |-> {}]
    BY <2>1, <2>2 DEF Store, Filed
  <2>4. StoreSound(Store) /\ StoreSound(Filed)
    BY <2>3, EmptySound
  <2>5. 0 \in Addresses
    BY FakeIpAssumption DEF Addresses
  <2> QED BY <2>1, <2>2, <2>4, <2>5 DEF FakeInv
<1>2. FakeInv => ReverseIsLatest
  <2> SUFFICES ASSUME FakeInv PROVE ReverseIsLatest
    OBVIOUS
  <2>1. StoreSound(Store) /\ Store.list = byDomain /\ Store.index = byAddress
    BY DEF FakeInv, Store
  <2>2. byAddress = ToSet(byDomain)
    BY <2>1 DEF StoreSound
  <2>3. /\ Cardinality({r.domain : r \in byAddress}) = Len(byDomain)
        /\ Cardinality({r.address : r \in byAddress}) = Len(byDomain)
    <3>1. /\ Cardinality({r.domain : r \in Store.index}) = Len(Store.list)
          /\ Cardinality({r.address : r \in Store.index}) = Len(Store.list)
      BY <2>1, StoreCounts
    <3> QED BY <2>1, <3>1
  <2>4. \A r \in byAddress \cup {q \in ToSet(file) : ~Expired(q)} : r.address \in doubtful \/ owner[r.address] = r.domain
    BY DEF FakeInv, Told
  <2> QED BY <2>2, <2>3, <2>4 DEF ReverseIsLatest
<1> QED BY <1>1, <1>2, FakeStep, PTL
=============================================================================
