---------------------------- MODULE ConnectionPool ----------------------------
(***************************************************************************)
(* core/connectionPool.ts: idle TCP connections kept per endpoint.  Every  *)
(* idle socket has a timer and two listeners of the pool; lease, the timer,*)
(* the peer and closeAll compete for it.  A user releases what it leased   *)
(* once, to the endpoint it leased it for.                                 *)
(***************************************************************************)
EXTENDS Naturals, Sequences, SequencesExt, FiniteSets

CONSTANTS
    Sockets,              \* a bound on the connections ever made
    PoolEndpoints,        \* the keys of the pool
    maxIdlePerEndpoint

ASSUME IdleLimitAssumption == maxIdlePerEndpoint \in Nat

VARIABLES
    socket,    \* per socket: "none", "open", "destroyed", "closed" (close event seen)
    leased,    \* sockets in the hands of a user
    endpoint,  \* per socket: the endpoint it is connected to
    idle,      \* per endpoint: its bucket, the last entry leased first
    armed,     \* sockets with an idle timer
    listened   \* sockets with the pool's close and error listeners

socketVars == <<socket, leased, endpoint, idle, armed, listened>>

SocketsInit ==
    /\ socket = [s \in Sockets |-> "none"]
    /\ leased = {}
    /\ endpoint \in [Sockets -> PoolEndpoints]
    /\ idle = [k \in PoolEndpoints |-> <<>>]
    /\ armed = {} /\ listened = {}

\* The entries lease pops: those after the last socket not destroyed, and it.
LastUsable(k) ==
    LET usable == {i \in DOMAIN idle[k] : socket[idle[k][i]] = "open"}
    IN IF usable = {} THEN 0 ELSE CHOOSE i \in usable : \A j \in usable : j <= i
Popped(k) == {idle[k][i] : i \in {j \in DOMAIN idle[k] : j >= LastUsable(k)}}

\* A new connection, unless it fails.
factory(k) ==
    \/ \E s \in Sockets :
          /\ socket[s] = "none" /\ endpoint[s] = k
          /\ socket' = [socket EXCEPT ![s] = "open"]
          /\ leased' = leased \union {s}
    \/ UNCHANGED <<socket, leased>>

\* Mutant of lease: the timer of a socket that is handed out goes on.
leaseKeepsTimer(k) ==
    /\ idle' = [idle EXCEPT ![k] = SubSeq(@, 1, LastUsable(k) - 1)]
    /\ listened' = listened \ Popped(k)
    /\ IF LastUsable(k) # 0
       THEN leased' = leased \union {idle[k][LastUsable(k)]} /\ UNCHANGED socket
       ELSE factory(k)
    /\ UNCHANGED <<endpoint, armed>>

lease(k) ==
    /\ idle' = [idle EXCEPT ![k] = SubSeq(@, 1, LastUsable(k) - 1)]
    /\ listened' = listened \ Popped(k)
    /\ armed' = armed \ Popped(k)
    /\ IF LastUsable(k) # 0
       THEN leased' = leased \union {idle[k][LastUsable(k)]} /\ UNCHANGED socket
       ELSE factory(k)
    /\ UNCHANGED endpoint

CloseSocket(s) == IF socket[s] = "open" THEN [socket EXCEPT ![s] = "destroyed"] ELSE socket

release(s) ==
    LET k == endpoint[s] IN
    /\ s \in leased
    /\ leased' = leased \ {s}
    /\ IF socket[s] # "open" \/ Len(idle[k]) >= maxIdlePerEndpoint
       THEN socket' = CloseSocket(s) /\ UNCHANGED <<idle, armed, listened>>
       ELSE /\ idle' = [idle EXCEPT ![k] = Append(@, s)]
            /\ armed' = armed \union {s}
            /\ listened' = listened \union {s}
            /\ UNCHANGED socket
    /\ UNCHANGED endpoint

\* The entry leaves its bucket with its timer and listeners, if it is there.
removeEntry(s) ==
    LET k == endpoint[s] IN
    IF s \in ToSet(idle[k])
    THEN /\ \E i \in DOMAIN idle[k] :
              /\ idle[k][i] = s /\ \A j \in 1 .. i - 1 : idle[k][j] # s
              /\ idle' = [idle EXCEPT ![k] = RemoveAt(@, i)]
         /\ armed' = armed \ {s} /\ listened' = listened \ {s}
    ELSE UNCHANGED <<idle, armed, listened>>

IdleTimeout(s) ==
    /\ s \in armed
    /\ removeEntry(s)
    /\ socket' = CloseSocket(s)
    /\ UNCHANGED <<leased, endpoint>>

\* The connection is lost: with an error event, which onError handles, or not.
onError(s) ==
    /\ socket[s] = "open" /\ s \in listened
    /\ removeEntry(s)
    /\ socket' = CloseSocket(s)
    /\ UNCHANGED <<leased, endpoint>>

ConnectionLost(s) ==
    /\ socket[s] = "open"
    /\ socket' = CloseSocket(s)
    /\ UNCHANGED <<leased, endpoint, idle, armed, listened>>

onClose(s) ==
    /\ socket[s] = "destroyed"
    /\ socket' = [socket EXCEPT ![s] = "closed"]
    /\ IF s \in listened THEN removeEntry(s) ELSE UNCHANGED <<idle, armed, listened>>
    /\ UNCHANGED <<leased, endpoint>>

closeAll ==
    LET all == UNION {ToSet(idle[k]) : k \in PoolEndpoints} IN
    /\ all # {}
    /\ socket' = [s \in Sockets |-> IF s \in all /\ socket[s] = "open" THEN "destroyed" ELSE socket[s]]
    /\ armed' = armed \ all
    /\ listened' = listened \ all
    /\ idle' = [k \in PoolEndpoints |-> <<>>]
    /\ UNCHANGED <<leased, endpoint>>

SocketsNext ==
    \/ \E k \in PoolEndpoints : lease(k)
    \/ \E s \in Sockets : release(s) \/ IdleTimeout(s) \/ onError(s) \/ ConnectionLost(s) \/ onClose(s)
    \/ closeAll

\* The sockets in the buckets are exactly those with a pool timer and pool
\* listeners, so that no timer closes a connection that was handed out; none
\* is in two places or with a user, no bucket is over its limit, and no
\* connection is open that neither a user nor the pool holds.
IdleSocketsExact ==
    LET pooled == UNION {ToSet(idle[k]) : k \in PoolEndpoints} IN
    /\ armed = pooled /\ listened = pooled
    /\ pooled \intersect leased = {}
    /\ \A k \in PoolEndpoints : IsInjective(idle[k]) /\ Len(idle[k]) <= maxIdlePerEndpoint
    /\ \A s \in Sockets : socket[s] = "open" => s \in leased \union pooled
=============================================================================
