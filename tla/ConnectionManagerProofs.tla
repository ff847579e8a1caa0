----------------------- MODULE ConnectionManagerProofs ------------------------
(***************************************************************************)
(* Safety of the connection manager for any set of connections, any limit, *)
(* any mix of inbound kinds and any amount of traffic: the connection slots, *)
(* the timers, the counters and what engine stop leaves behind.            *)
(***************************************************************************)
EXTENDS ConnectionManager, FiniteSetTheorems, TLAPS

-----------------------------------------------------------------------------
(* One connection.                                                         *)

\* What one connection's record guarantees on its own: its idle timer is armed
\* exactly while it is registered, a registered connection tracks its client
\* socket, and it has an outcome exactly once it has closed.
GoodRecord(r) ==
  /\ r \in Connection
  /\ r.armed <=> r.state \in Live
  /\ r.state \in Live => "client" \in r.tracked /\ r.client \in {"open", "destroyed"}
  /\ r.outcome # "none" <=> r.state = "closed"

\* How a step may change a record: close() runs at most once, a closed
\* connection keeps its outcome, a client socket never opens again, and a UDP
\* session begins only on an open client socket.
Evolves(r, s) ==
  /\ \/ r.state \in Live /\ s.state \in Live
     \/ r.state \in Live /\ s.state = "closed"
     \/ r.state \notin Live /\ s.state = r.state /\ s.outcome = r.outcome
  /\ s.client = "open" => r.client = "open"
  /\ r.client \in {"none", "closed"} => s.client = r.client
  /\ s.session => r.session \/ r.client = "open"

\* The fields of a connection's record.
LEMMA RecordType ==
  ASSUME NEW r \in Connection
  PROVE  /\ r.state \in States /\ r.outcome \in {"none", "ok", "failed"} /\ r.armed \in BOOLEAN
         /\ r.client \in SocketStates /\ r.remote \in SocketStates /\ r.tracked \in SUBSET Sides
         /\ r.relay \in BOOLEAN /\ r.session \in BOOLEAN /\ r.await \in Awaits
         /\ r.kind \in AllKinds \cup {"none"} /\ r.traffic \in 0 .. MaxTraffic
BY DEF Connection

\* close(), called once or again, and with or without an error.
LEMMA CloseRecordFacts ==
  ASSUME NEW r, GoodRecord(r), NEW failed \in BOOLEAN
  PROVE  GoodRecord(CloseRecord(r, failed)) /\ Evolves(r, CloseRecord(r, failed))
<1>1. CASE r.state \notin Live
  BY <1>1 DEF CloseRecord, Evolves
<1>2. CASE r.state \in Live
  <2> DEFINE s == CloseRecord(r, failed)
  <2>1. s = [r EXCEPT !.state = "closed", !.outcome = IF failed THEN "failed" ELSE "ok",
                 !.armed = FALSE, !.tracked = {},
                 !.client = Destroyed(r.client), !.remote = Destroyed(r.remote)]
    BY <1>2 DEF CloseRecord
  <2>2. r \in Connection
    BY DEF GoodRecord
  <2>3. /\ s.state = "closed" /\ s.outcome = (IF failed THEN "failed" ELSE "ok") /\ s.armed = FALSE
        /\ s.tracked = {} /\ s.client = Destroyed(r.client) /\ s.remote = Destroyed(r.remote)
        /\ s.session = r.session
    BY <2>1, <2>2 DEF Connection
  <2>4. s \in Connection
    BY <2>1, <2>2 DEF Connection, Destroyed, States, SocketStates
  <2> QED BY <1>2, <2>2, <2>3, <2>4, RecordType DEF GoodRecord, Evolves, Destroyed, Live, SocketStates
<1> QED BY <1>1, <1>2

\* Evolves composes over the calls one handler makes.
LEMMA EvolvesTransitive ==
  ASSUME NEW r, NEW s, NEW t, GoodRecord(r), Evolves(r, s), Evolves(s, t)
  PROVE  Evolves(r, t)
BY DEF Evolves, Live, GoodRecord

\* A handler that changes nothing.
LEMMA EvolvesReflexive ==
  ASSUME NEW r, GoodRecord(r)
  PROVE  Evolves(r, r)
BY DEF Evolves, Live, GoodRecord

\* What leaves the state, the timer and the outcome of a connection alone.
LEMMA Benign ==
  ASSUME NEW r, GoodRecord(r), NEW s \in Connection,
         s.state = r.state, s.outcome = r.outcome, s.armed = r.armed,
         r.tracked \subseteq s.tracked,
         s.client = r.client \/ (r.client = "open" /\ s.client = "destroyed"),
         s.session => r.session \/ r.client = "open"
  PROVE  GoodRecord(s) /\ Evolves(r, s)
BY DEF GoodRecord, Evolves, Live

\* The assignments the handlers make to one record.
LEMMA Edits ==
  ASSUME NEW r, GoodRecord(r)
  PROVE  /\ \A a \in Awaits : LET s == [r EXCEPT !.await = a] IN GoodRecord(s) /\ Evolves(r, s)
         /\ \A a \in Awaits, k \in AllKinds :
              LET s == [r EXCEPT !.kind = k, !.await = a] IN GoodRecord(s) /\ Evolves(r, s)
         /\ LET s == [r EXCEPT !.session = FALSE] IN GoodRecord(s) /\ Evolves(r, s)
         /\ LET s == [r EXCEPT !.session = FALSE, !.await = "done"] IN GoodRecord(s) /\ Evolves(r, s)
         /\ LET s == [r EXCEPT !.relay = TRUE, !.await = "done"] IN GoodRecord(s) /\ Evolves(r, s)
         /\ LET s == AttachRemote(r) IN GoodRecord(s) /\ Evolves(r, s)
         /\ LET s == [r EXCEPT !.client = Destroyed(@)] IN GoodRecord(s) /\ Evolves(r, s)
         /\ LET s == [r EXCEPT !.relay = FALSE, !.client = Destroyed(@), !.remote = Destroyed(@)]
            IN GoodRecord(s) /\ Evolves(r, s)
         /\ LET s == [r EXCEPT !.session = FALSE, !.client = Destroyed(@)]
            IN GoodRecord(s) /\ Evolves(r, s)
<1>0. r \in Connection
  BY DEF GoodRecord
<1> USE DEF Connection
<1>1. ASSUME NEW a \in Awaits
      PROVE  LET s == [r EXCEPT !.await = a] IN GoodRecord(s) /\ Evolves(r, s)
  BY <1>0, Benign
<1>2. ASSUME NEW a \in Awaits, NEW k \in AllKinds
      PROVE  LET s == [r EXCEPT !.kind = k, !.await = a] IN GoodRecord(s) /\ Evolves(r, s)
  BY <1>0, Benign
<1>3. LET s == [r EXCEPT !.session = FALSE] IN GoodRecord(s) /\ Evolves(r, s)
  BY <1>0, Benign
<1>4. LET s == [r EXCEPT !.session = FALSE, !.await = "done"] IN GoodRecord(s) /\ Evolves(r, s)
  BY <1>0, Benign DEF Awaits
<1>5. LET s == [r EXCEPT !.relay = TRUE, !.await = "done"] IN GoodRecord(s) /\ Evolves(r, s)
  BY <1>0, Benign DEF Awaits
<1>6. LET s == AttachRemote(r) IN GoodRecord(s) /\ Evolves(r, s)
  BY <1>0, Benign DEF AttachRemote, SocketStates, Sides
<1>7. LET s == [r EXCEPT !.client = Destroyed(@)] IN GoodRecord(s) /\ Evolves(r, s)
  BY <1>0, Benign DEF Destroyed, SocketStates
<1>8. LET s == [r EXCEPT !.relay = FALSE, !.client = Destroyed(@), !.remote = Destroyed(@)]
      IN GoodRecord(s) /\ Evolves(r, s)
  <2> DEFINE s == [r EXCEPT !.relay = FALSE, !.client = Destroyed(r.client),
                            !.remote = Destroyed(r.remote)]
  <2>1. s \in Connection
    BY <1>0, ZenonT(60) DEF Destroyed, SocketStates
  <2>2. /\ s.state = r.state /\ s.outcome = r.outcome /\ s.armed = r.armed
        /\ s.tracked = r.tracked /\ s.session = r.session /\ s.client = Destroyed(r.client)
    BY <1>0
  <2>3. GoodRecord(s) /\ Evolves(r, s)
    BY <2>1, <2>2, Benign, ZenonT(60) DEF Destroyed
  <2> QED BY <2>3
<1>9. LET s == [r EXCEPT !.session = FALSE, !.client = Destroyed(@)]
      IN GoodRecord(s) /\ Evolves(r, s)
  BY <1>0, Benign, ZenonT(60) DEF Destroyed, SocketStates
<1> QED BY <1>1, <1>2, <1>3, <1>4, <1>5, <1>6, <1>7, <1>8, <1>9

\* markEstablished, also of a connection that has closed in the meantime.
LEMMA MarkEstablishedFacts ==
  ASSUME NEW r, GoodRecord(r)
  PROVE  GoodRecord(MarkEstablished(r)) /\ Evolves(r, MarkEstablished(r))
<1>0. r \in Connection
  BY DEF GoodRecord
<1>1. CASE r.state # "handshake"
  BY <1>1, EvolvesReflexive DEF MarkEstablished
<1>2. CASE r.state = "handshake"
  <2> DEFINE s == MarkEstablished(r)
  <2>1. s = [r EXCEPT !.state = "established", !.armed = TRUE]
    BY <1>2 DEF MarkEstablished
  <2>2. s \in Connection
    BY <1>0, <2>1 DEF Connection, States
  <2>3. /\ s.state = "established" /\ s.armed = TRUE /\ s.outcome = r.outcome
        /\ s.tracked = r.tracked /\ s.client = r.client /\ s.session = r.session
    BY <1>0, <2>1 DEF Connection
  <2> QED BY <1>2, <2>2, <2>3 DEF GoodRecord, Evolves, Live
<1> QED BY <1>1, <1>2

\* The relay's cleanup destroys both sockets and closes the connection.
LEMMA RelayCleanupFacts ==
  ASSUME NEW r, GoodRecord(r), NEW failed \in BOOLEAN
  PROVE  GoodRecord(RelayCleanup(r, failed)) /\ Evolves(r, RelayCleanup(r, failed))
<1> DEFINE s == [r EXCEPT !.relay = FALSE, !.client = Destroyed(@), !.remote = Destroyed(@)]
<1>1. GoodRecord(s) /\ Evolves(r, s)
  BY Edits
<1>2. RelayCleanup(r, failed) = CloseRecord(s, failed)
  BY DEF RelayCleanup
<1> HIDE DEF s
<1> QED BY <1>1, <1>2, CloseRecordFacts, EvolvesTransitive

\* The end of a UDP association.
LEMMA UdpEndFacts ==
  ASSUME NEW r, GoodRecord(r), NEW failed \in BOOLEAN
  PROVE  GoodRecord(UdpEnd(r, failed)) /\ Evolves(r, UdpEnd(r, failed))
<1> DEFINE s == [r EXCEPT !.session = FALSE, !.await = "done"]
<1>1. GoodRecord(s) /\ Evolves(r, s)
  BY Edits
<1>2. UdpEnd(r, failed) = CloseRecord(s, failed)
  BY DEF UdpEnd
<1> HIDE DEF s
<1> QED BY <1>1, <1>2, CloseRecordFacts, EvolvesTransitive

-----------------------------------------------------------------------------
(* The inductive invariant and the registry.                               *)

\* The inductive invariant: the records, the slot count, and what each phase of
\* Engine.stop has already taken away.
ConnInv ==
  /\ \A c \in Conns : GoodRecord(conn[c])
  /\ conn \in [Conns -> Connection]
  /\ active \in 0 .. MaxConnections
  /\ stats \in [closed : Nat, failed : Nat]
  /\ stop \in {"running", "closing", "draining", "stopped", "timedOut"}
  /\ SlotsExact
  /\ stop \in {"draining", "stopped", "timedOut"} =>
       \A c \in Conns : conn[c].client # "open" /\ ~conn[c].session
  /\ stop = "stopped" => \A c \in Conns : conn[c].client \in {"none", "closed"}

\* The registry's bookkeeping is exact whichever connections close in a step:
\* each gives back its slot once and is counted once.
LEMMA UpdateKeepsSlots ==
  ASSUME ConnInv, NEW next \in [Conns -> Connection], Update(next),
         \A c \in Conns : GoodRecord(next[c]) /\ Evolves(conn[c], next[c])
  PROVE  /\ conn' = next
         /\ active' \in 0 .. MaxConnections
         /\ stats' \in [closed : Nat, failed : Nat]
         /\ SlotsExact'
<1> DEFINE gone == {c \in registered : next[c].state = "closed"}
           bad == {c \in gone : next[c].outcome = "failed"}
           Closed(f) == {c \in Conns : f[c].state = "closed"}
           Failed(f) == {c \in Conns : f[c].outcome = "failed"}
<1>1. conn' = next /\ Finalize(next, gone)
  BY DEF Update
<1>2. registered = {c \in Conns : conn[c].state \in Live} /\ active = Cardinality(registered)
  BY DEF ConnInv, SlotsExact
<1>3. /\ IsFiniteSet(registered) /\ IsFiniteSet(gone) /\ IsFiniteSet(bad)
      /\ IsFiniteSet(Closed(conn)) /\ IsFiniteSet(Failed(conn))
  BY <1>2, ConnectionAssumption, FS_Subset
<1>4. registered \ gone = {c \in Conns : next[c].state \in Live}
  BY <1>2 DEF Evolves, Live
<1>5. Closed(next) = Closed(conn) \cup gone /\ Closed(conn) \cap gone = {}
  BY <1>2 DEF Evolves, Live
<1>6. Failed(next) = Failed(conn) \cup bad /\ Failed(conn) \cap bad = {}
  <2>1. \A c \in Conns : conn[c].outcome = "failed" => conn[c].state = "closed"
    BY DEF ConnInv, GoodRecord
  <2>2. \A c \in Conns : next[c].outcome = "failed" => next[c].state = "closed"
    BY DEF GoodRecord
  <2> QED BY <1>2, <2>1, <2>2 DEF Evolves, Live
<1>7. Cardinality(registered \ gone) = Cardinality(registered) - Cardinality(gone)
      /\ Cardinality(gone) \in Nat /\ Cardinality(registered \ gone) \in Nat
  <2>1. registered \cap gone = gone
    OBVIOUS
  <2>2. IsFiniteSet(registered \ gone)
    BY <1>3, FS_Difference
  <2> QED BY <1>3, <2>1, <2>2, FS_Difference, FS_CardinalityType
<1>8. Cardinality(Closed(next)) = Cardinality(Closed(conn)) + Cardinality(gone)
  <2>1. Cardinality(Closed(conn) \cup gone)
          = Cardinality(Closed(conn)) + Cardinality(gone) - Cardinality(Closed(conn) \cap gone)
    BY <1>3, FS_Union
  <2>2. Cardinality(Closed(conn) \cap gone) = 0
    BY <1>5, FS_EmptySet
  <2>3. Cardinality(Closed(conn)) \in Nat /\ Cardinality(gone) \in Nat
    BY <1>3, FS_CardinalityType
  <2> HIDE DEF Closed, gone
  <2> QED BY <1>5, <2>1, <2>2, <2>3
<1>9. Cardinality(Failed(next)) = Cardinality(Failed(conn)) + Cardinality(bad)
      /\ Cardinality(bad) \in Nat
  <2>1. Cardinality(Failed(conn) \cup bad)
          = Cardinality(Failed(conn)) + Cardinality(bad) - Cardinality(Failed(conn) \cap bad)
    BY <1>3, FS_Union
  <2>2. Cardinality(Failed(conn) \cap bad) = 0
    BY <1>6, FS_EmptySet
  <2>3. Cardinality(Failed(conn)) \in Nat /\ Cardinality(bad) \in Nat
    BY <1>3, FS_CardinalityType
  <2> HIDE DEF Failed, bad
  <2> QED BY <1>6, <2>1, <2>2, <2>3
<1> HIDE DEF gone, bad
<1>10. registered' = registered \ gone
       /\ active' = (IF active >= Cardinality(gone) THEN active - Cardinality(gone) ELSE 0)
       /\ stats' = [closed |-> stats.closed + Cardinality(gone),
                    failed |-> stats.failed + Cardinality(bad)]
  BY <1>1 DEF Finalize, bad
<1>11. active' = Cardinality(registered') /\ active' \in 0 .. MaxConnections
  BY <1>2, <1>7, <1>10, ConnectionAssumption DEF ConnInv
<1>12. stats' \in [closed : Nat, failed : Nat]
  BY <1>7, <1>9, <1>10 DEF ConnInv
<1>13. stats.closed = Cardinality(Closed(conn)) /\ stats.failed = Cardinality(Failed(conn))
  BY DEF ConnInv, SlotsExact
<1> QED BY <1>1, <1>4, <1>8, <1>9, <1>10, <1>11, <1>12, <1>13 DEF SlotsExact

\* A step of one connection.
LEMMA EvolveStep ==
  ASSUME ConnInv, NEW c \in Conns, NEW r, Step(c, r), GoodRecord(r), Evolves(conn[c], r)
  PROVE  ConnInv'
<1> DEFINE next == [conn EXCEPT ![c] = r]
<1>1. r \in Connection /\ conn \in [Conns -> Connection]
  BY DEF ConnInv, GoodRecord
<1>2. next \in [Conns -> Connection] /\ \A d \in Conns : next[d] = IF d = c THEN r ELSE conn[d]
  BY <1>1
<1>3. \A d \in Conns : GoodRecord(next[d]) /\ Evolves(conn[d], next[d])
  BY <1>2, EvolvesReflexive DEF ConnInv
<1>4. Update(next) /\ stop' = stop
  BY DEF Step
<1> HIDE DEF next
<1>5. /\ conn' = next
      /\ active' \in 0 .. MaxConnections
      /\ stats' \in [closed : Nat, failed : Nat]
      /\ SlotsExact'
  BY <1>2, <1>3, <1>4, UpdateKeepsSlots
<1> QED BY <1>2, <1>3, <1>4, <1>5 DEF ConnInv, Evolves

-----------------------------------------------------------------------------
(* The steps.                                                              *)

\* An accepted connection takes a slot.
LEMMA AcceptStep ==
  ASSUME ConnInv, NEW c \in Conns, Accept(c)
  PROVE  ConnInv'
<1> DEFINE r == NewConnection(conn[c])
           Closed(f) == {d \in Conns : f[d].state = "closed"}
           Failed(f) == {d \in Conns : f[d].outcome = "failed"}
<1>1. conn[c] \in Connection /\ conn \in [Conns -> Connection] /\ conn[c].state = "none"
  BY DEF ConnInv, Accept
<1>2. conn[c].outcome = "none"
  BY <1>1 DEF ConnInv, GoodRecord, Connection
<1>3. /\ r \in Connection /\ r.state = "handshake" /\ r.armed = TRUE /\ r.client = "open"
      /\ r.tracked = {"client"} /\ r.outcome = "none"
  BY <1>1, <1>2 DEF NewConnection, Connection, States, SocketStates, Sides, Awaits
<1>4. GoodRecord(r)
  BY <1>3 DEF GoodRecord, Live
<1>5. /\ conn' = [conn EXCEPT ![c] = r] /\ registered' = registered \cup {c}
      /\ active' = active + 1 /\ UNCHANGED <<stats, stop>>
      /\ stop \in {"running", "closing"} /\ active < MaxConnections
  BY DEF Accept, HasSlot
<1> HIDE DEF r
<1>6. conn' \in [Conns -> Connection] /\ \A d \in Conns : conn'[d] = IF d = c THEN r ELSE conn[d]
  BY <1>1, <1>3, <1>5
<1>7. c \notin registered /\ IsFiniteSet(registered) /\ active = Cardinality(registered)
      /\ registered = {d \in Conns : conn[d].state \in Live}
  <2>1. registered = {d \in Conns : conn[d].state \in Live} /\ active = Cardinality(registered)
    BY DEF ConnInv, SlotsExact
  <2>2. registered \in SUBSET Conns
    BY <2>1
  <2> QED BY <1>1, <2>1, <2>2, ConnectionAssumption, FS_Subset DEF Live
<1>8. active' = Cardinality(registered') /\ active' \in 0 .. MaxConnections
  <2>1. Cardinality(registered \cup {c}) = Cardinality(registered) + 1
    BY <1>7, FS_AddElement
  <2> QED BY <1>5, <1>7, <2>1, ConnectionAssumption DEF ConnInv
<1>9. registered' = {d \in Conns : conn'[d].state \in Live}
  BY <1>3, <1>5, <1>6, <1>7 DEF Live
<1>10. Closed(conn') = Closed(conn) /\ Failed(conn') = Failed(conn)
  BY <1>1, <1>2, <1>3, <1>6
<1>11. stats.closed = Cardinality(Closed(conn)) /\ stats.failed = Cardinality(Failed(conn))
  BY DEF ConnInv, SlotsExact
<1>12. SlotsExact'
  BY <1>5, <1>8, <1>9, <1>10, <1>11 DEF SlotsExact
<1> QED BY <1>4, <1>5, <1>6, <1>8, <1>12 DEF ConnInv

\* At the limit a connection is turned away without one.
LEMMA RejectStep ==
  ASSUME ConnInv, NEW c \in Conns, Reject(c)
  PROVE  ConnInv'
<1> DEFINE r == [conn[c] EXCEPT !.state = "rejected"]
<1>1. conn[c] \in Connection /\ conn \in [Conns -> Connection] /\ conn[c].state = "none"
      /\ GoodRecord(conn[c])
  BY DEF ConnInv, Reject
<1>2. /\ r \in Connection /\ r.state = "rejected" /\ r.armed = conn[c].armed
      /\ r.outcome = conn[c].outcome /\ r.client = conn[c].client /\ r.session = conn[c].session
  BY <1>1 DEF Connection, States
<1>3. GoodRecord(r)
  BY <1>1, <1>2 DEF GoodRecord, Live
<1>4. conn' = [conn EXCEPT ![c] = r] /\ UNCHANGED <<registered, active, stats, stop>>
  BY DEF Reject
<1> HIDE DEF r
<1>5. conn' \in [Conns -> Connection] /\ \A d \in Conns : conn'[d] = IF d = c THEN r ELSE conn[d]
  BY <1>1, <1>2, <1>4
<1>6. /\ {d \in Conns : conn'[d].state \in Live} = {d \in Conns : conn[d].state \in Live}
      /\ {d \in Conns : conn'[d].state = "closed"} = {d \in Conns : conn[d].state = "closed"}
      /\ {d \in Conns : conn'[d].outcome = "failed"} = {d \in Conns : conn[d].outcome = "failed"}
  BY <1>1, <1>2, <1>5 DEF Live
<1>7. SlotsExact'
  BY <1>4, <1>6 DEF ConnInv, SlotsExact
<1> QED BY <1>2, <1>3, <1>4, <1>5, <1>7 DEF ConnInv

\* The close event of a socket closes a connection that still tracks it.
LEMMA CloseEventFacts ==
  ASSUME NEW r, GoodRecord(r), NEW side \in Sides, r[side] = "destroyed"
  PROVE  LET s == [r EXCEPT ![side] = "closed", !.tracked = @ \ {side}]
             heard == IF side \in r.tracked THEN CloseRecord(s, FALSE) ELSE s
         IN  GoodRecord(heard) /\ Evolves(r, heard)
<1> DEFINE s == [r EXCEPT ![side] = "closed", !.tracked = @ \ {side}]
           heard == IF side \in r.tracked THEN CloseRecord(s, FALSE) ELSE s
<1> SUFFICES GoodRecord(heard) /\ Evolves(r, heard)
  OBVIOUS
<1>0. r \in Connection
  BY DEF GoodRecord
<1>1. CASE side = "remote"
  <2>1. s = [r EXCEPT !.remote = "closed", !.tracked = r.tracked \ {"remote"}]
    BY <1>0, <1>1 DEF Connection
  <2>2. s \in Connection
    BY <1>0, <2>1 DEF Connection, SocketStates
  <2>3. /\ s.state = r.state /\ s.outcome = r.outcome /\ s.armed = r.armed /\ s.client = r.client
        /\ s.session = r.session /\ s.tracked = r.tracked \ {"remote"}
    BY <1>0, <2>1 DEF Connection
  <2> HIDE DEF s
  <2>4. GoodRecord(s) /\ Evolves(r, s)
    BY <2>2, <2>3 DEF GoodRecord, Evolves, Live
  <2>5. heard = s \/ heard = CloseRecord(s, FALSE)
    OBVIOUS
  <2> HIDE DEF heard
  <2> QED BY <2>4, <2>5, CloseRecordFacts, EvolvesTransitive
<1>2. CASE side = "client"
  <2>1. s = [r EXCEPT !.client = "closed", !.tracked = r.tracked \ {"client"}]
        /\ r.client = "destroyed"
    BY <1>0, <1>2 DEF Connection
  <2>2. s \in Connection
    BY <1>0, <2>1 DEF Connection, SocketStates
  <2>3. /\ s.state = r.state /\ s.outcome = r.outcome /\ s.armed = r.armed /\ s.client = "closed"
        /\ s.session = r.session /\ s.tracked = r.tracked \ {"client"} /\ s.remote = r.remote
    BY <1>0, <2>1 DEF Connection
  <2> HIDE DEF s
  <2>4. CASE r.state \notin Live
    <3>1. heard = s
      BY <2>3, <2>4 DEF CloseRecord
    <3> HIDE DEF heard
    <3> QED BY <2>1, <2>2, <2>3, <2>4, <3>1 DEF GoodRecord, Evolves, Live
  <2>5. CASE r.state \in Live
    <3>1. heard = [s EXCEPT !.state = "closed", !.outcome = "ok", !.armed = FALSE, !.tracked = {},
                 !.client = Destroyed(s.client), !.remote = Destroyed(s.remote)]
      BY <1>2, <2>3, <2>5 DEF GoodRecord, CloseRecord
    <3> HIDE DEF heard
    <3>2. heard \in Connection
      BY <2>2, <3>1, ZenonT(60) DEF Connection, Destroyed, States, SocketStates
    <3>3. /\ heard.state = "closed" /\ heard.outcome = "ok" /\ heard.armed = FALSE
          /\ heard.client = "closed" /\ heard.session = r.session
      BY <2>2, <2>3, <3>1 DEF Connection, Destroyed
    <3> QED BY <2>1, <2>5, <3>2, <3>3 DEF GoodRecord, Evolves, Live
  <2> QED BY <2>4, <2>5
<1> QED BY <1>1, <1>2 DEF Sides

\* Traffic rearms the timer of an established connection alone.
LEMMA TouchFacts ==
  ASSUME NEW r, GoodRecord(r), r.traffic < MaxTraffic
  PROVE  GoodRecord(Touch(r)) /\ Evolves(r, Touch(r))
<1>0. r \in Connection /\ MaxTraffic \in Nat
  BY ConnectionAssumption DEF GoodRecord
<1> DEFINE s == Touch(r)
<1>1. s = [r EXCEPT !.armed = r.armed \/ r.state = "established", !.traffic = r.traffic + 1]
  BY DEF Touch
<1>2. r.traffic + 1 \in 0 .. MaxTraffic /\ (r.armed \/ r.state = "established") \in BOOLEAN
  BY <1>0 DEF Connection
<1>3. s \in Connection
  BY <1>0, <1>1, <1>2 DEF Connection
<1>4. (r.armed \/ r.state = "established") = r.armed
  BY <1>0 DEF Connection, GoodRecord, Live
<1>5. /\ s.state = r.state /\ s.outcome = r.outcome /\ s.armed = r.armed /\ s.client = r.client
      /\ s.session = r.session /\ s.tracked = r.tracked
  BY <1>0, <1>1, <1>4 DEF Connection
<1> QED BY <1>3, <1>5, Benign

\* Every continuation of a connection handler, also one that resumes after the
\* connection was closed.
LEMMA HandlerStep ==
  ASSUME ConnInv, NEW c \in Conns, Handler(c)
  PROVE  ConnInv'
<1> DEFINE r == conn[c]
<1>0. GoodRecord(r) /\ r \in Connection
  BY DEF ConnInv
<1>a. \A a \in Awaits : LET s == [r EXCEPT !.await = a] IN GoodRecord(s) /\ Evolves(r, s)
  BY <1>0, Edits
<1>b. \A s, a : GoodRecord(s) /\ a \in Awaits =>
        GoodRecord([s EXCEPT !.await = a]) /\ Evolves(s, [s EXCEPT !.await = a])
  BY Edits
<1>c. \A s : GoodRecord(s) =>
        LET t == [s EXCEPT !.relay = TRUE, !.await = "done"] IN GoodRecord(t) /\ Evolves(s, t)
  BY Edits
<1>1. CASE ReadDone(c)
  <2>1. PICK kind \in Kinds :
       Step(c, IF kind # "udp"
               THEN [r EXCEPT !.kind = kind, !.await = "opening"]
               ELSE IF Cardinality(Sessions) >= MaxUdpSessions
               THEN [r EXCEPT !.kind = kind, !.await = "failing"]
               ELSE [r EXCEPT !.kind = kind, !.session = TRUE, !.await = "binding"])
    BY <1>1 DEF ReadDone
  <2>2. kind \in AllKinds /\ r.client = "open"
    BY <1>1, ConnectionAssumption DEF ReadDone
  <2>3. \A a \in Awaits : LET s == [r EXCEPT !.kind = kind, !.await = a]
                          IN GoodRecord(s) /\ Evolves(r, s)
    BY <1>0, <2>2, Edits
  <2>4. LET s == [r EXCEPT !.kind = kind, !.session = TRUE, !.await = "binding"]
        IN GoodRecord(s) /\ Evolves(r, s)
    <3> DEFINE s == [r EXCEPT !.kind = kind, !.session = TRUE, !.await = "binding"]
    <3>1. s \in Connection
      BY <1>0, <2>2 DEF Connection, Awaits
    <3>2. /\ s.state = r.state /\ s.outcome = r.outcome /\ s.armed = r.armed
          /\ s.client = r.client /\ s.tracked = r.tracked
      BY <1>0 DEF Connection
    <3> HIDE DEF s
    <3>3. GoodRecord(s) /\ Evolves(r, s)
      BY <1>0, <2>2, <3>1, <3>2, Benign
    <3> QED BY <3>3 DEF s
  <2>5. "opening" \in Awaits /\ "failing" \in Awaits
    BY DEF Awaits
  <2>6. CASE kind # "udp"
    BY <2>1, <2>3, <2>5, <2>6, EvolveStep
  <2>7. CASE kind = "udp" /\ Cardinality(Sessions) >= MaxUdpSessions
    BY <2>1, <2>3, <2>5, <2>7, EvolveStep
  <2>8. CASE kind = "udp" /\ ~(Cardinality(Sessions) >= MaxUdpSessions)
    BY <2>1, <2>4, <2>8, EvolveStep
  <2> QED BY <2>6, <2>7, <2>8
<1>2. CASE HandlerFails(c)
  BY <1>2, <1>a, EvolveStep DEF HandlerFails, Awaits
<1> DEFINE done == [r EXCEPT !.await = "done"]
<1>d. GoodRecord(CloseRecord(done, TRUE)) /\ Evolves(r, CloseRecord(done, TRUE))
  <2>1. GoodRecord(done) /\ Evolves(r, done)
    BY <1>a DEF Awaits
  <2> HIDE DEF done
  <2> QED BY <1>0, <2>1, CloseRecordFacts, EvolvesTransitive
<1>3. CASE FailedClose(c)
  BY <1>3, <1>d, EvolveStep DEF FailedClose
<1>4. CASE OpenDone(c)
  <2> DEFINE s == AttachRemote(r)
             m == MarkEstablished(s)
             t == [s EXCEPT !.await = "done"]
  <2>1. GoodRecord(s) /\ Evolves(r, s)
    BY <1>0, Edits
  <2>2. Step(c, IF s.kind = "direct"
                THEN [m EXCEPT !.relay = TRUE, !.await = "done"]
                ELSE IF s.client = "open" THEN [s EXCEPT !.await = "replying"]
                ELSE CloseRecord(t, TRUE))
    BY <1>4 DEF OpenDone
  <2> HIDE DEF s
  <2>3. GoodRecord(m) /\ Evolves(r, m)
    BY <1>0, <2>1, MarkEstablishedFacts, EvolvesTransitive
  <2> HIDE DEF m
  <2>4. LET u == [m EXCEPT !.relay = TRUE, !.await = "done"] IN GoodRecord(u) /\ Evolves(r, u)
    BY <1>0, <1>c, <2>3, EvolvesTransitive
  <2>5. LET u == [s EXCEPT !.await = "replying"] IN GoodRecord(u) /\ Evolves(r, u)
    BY <1>0, <1>b, <2>1, EvolvesTransitive DEF Awaits
  <2>6. GoodRecord(t) /\ Evolves(r, t)
    BY <1>0, <1>b, <2>1, EvolvesTransitive DEF Awaits
  <2> HIDE DEF t
  <2>7. GoodRecord(CloseRecord(t, TRUE)) /\ Evolves(r, CloseRecord(t, TRUE))
    BY <1>0, <2>6, CloseRecordFacts, EvolvesTransitive
  <2> HIDE DEF r
  <2>8. CASE s.kind = "direct"
    BY <2>2, <2>4, <2>8, EvolveStep DEF r
  <2>9. CASE s.kind # "direct" /\ s.client = "open"
    BY <2>2, <2>5, <2>9, EvolveStep DEF r
  <2>10. CASE s.kind # "direct" /\ s.client # "open"
    BY <2>2, <2>7, <2>10, EvolveStep DEF r
  <2> QED BY <2>8, <2>9, <2>10
<1> DEFINE m == MarkEstablished(r)
<1>m. GoodRecord(m) /\ Evolves(r, m)
  BY <1>0, MarkEstablishedFacts
<1>5. CASE ReplyDone(c)
  <2>1. Step(c, [m EXCEPT !.relay = TRUE, !.await = "done"])
    BY <1>5 DEF ReplyDone
  <2> HIDE DEF m
  <2>2. LET u == [m EXCEPT !.relay = TRUE, !.await = "done"] IN GoodRecord(u) /\ Evolves(r, u)
    BY <1>0, <1>c, <1>m, EvolvesTransitive
  <2> QED BY <2>1, <2>2, EvolveStep
<1>6. CASE ReplyFails(c)
  BY <1>6, <1>d, EvolveStep DEF ReplyFails
<1>u. \A f \in BOOLEAN : GoodRecord(UdpEnd(r, f)) /\ Evolves(r, UdpEnd(r, f))
  BY <1>0, UdpEndFacts
<1>7. CASE UdpBound(c)
  <2>1. CASE r.client = "open"
    BY <1>7, <1>a, <2>1, EvolveStep DEF UdpBound, Awaits
  <2>2. CASE r.client # "open"
    BY <1>7, <1>u, <2>2, EvolveStep DEF UdpBound
  <2> QED BY <2>1, <2>2
<1>8. CASE UdpReplied(c)
  <2>1. Step(c, [m EXCEPT !.await = "waiting"])
    BY <1>8 DEF UdpReplied
  <2> HIDE DEF m
  <2>2. LET u == [m EXCEPT !.await = "waiting"] IN GoodRecord(u) /\ Evolves(r, u)
    BY <1>0, <1>b, <1>m, EvolvesTransitive DEF Awaits
  <2> QED BY <2>1, <2>2, EvolveStep
<1>9. CASE UdpFails(c)
  BY <1>9, <1>u, EvolveStep DEF UdpFails
<1>10. CASE ControlEnds(c)
  BY <1>10, <1>u, EvolveStep DEF ControlEnds
<1> QED BY <1>1, <1>2, <1>3, <1>4, <1>5, <1>6, <1>7, <1>8, <1>9, <1>10 DEF Handler

\* Accepts, socket events, traffic and timeouts.
LEMMA EnvironmentStep ==
  ASSUME ConnInv, NEW c \in Conns, Environment(c)
  PROVE  ConnInv'
<1> DEFINE r == conn[c]
<1>0. GoodRecord(r) /\ r \in Connection
  BY DEF ConnInv
<1>1. CASE Accept(c)
  BY <1>1, AcceptStep
<1>2. CASE Reject(c)
  BY <1>2, RejectStep
<1>3. CASE Traffic(c)
  BY <1>0, <1>3, TouchFacts, EvolveStep DEF Traffic
<1>4. CASE ForcedClose(c)
  BY <1>0, <1>4, CloseRecordFacts, EvolveStep DEF ForcedClose
<1>5. ASSUME NEW side \in Sides, PeerCloses(c, side)
      PROVE  ConnInv'
  <2> DEFINE s == [r EXCEPT ![side] = "destroyed"]
  <2>1. Step(c, s) /\ r[side] = "open"
    BY <1>5 DEF PeerCloses
  <2>2. s \in Connection
    BY <1>0 DEF Connection, Sides, SocketStates
  <2>3. /\ s.state = r.state /\ s.outcome = r.outcome /\ s.armed = r.armed
        /\ s.tracked = r.tracked /\ s.session = r.session
        /\ s.client = r.client \/ (r.client = "open" /\ s.client = "destroyed")
    BY <1>0, <2>1 DEF Connection, Sides
  <2> HIDE DEF s
  <2> QED BY <1>0, <2>1, <2>2, <2>3, Benign, EvolveStep
<1>6. ASSUME NEW side \in Sides, CloseEvent(c, side)
      PROVE  ConnInv'
  <2> DEFINE s == [r EXCEPT ![side] = "closed", !.tracked = @ \ {side}]
             heard == IF side \in r.tracked THEN CloseRecord(s, FALSE) ELSE s
             relayed == IF heard.relay THEN RelayCleanup(heard, FALSE) ELSE heard
             ended == IF side = "client" /\ relayed.await = "waiting"
                      THEN UdpEnd(relayed, FALSE) ELSE relayed
  <2>1. Step(c, ended) /\ r[side] = "destroyed"
    BY <1>6 DEF CloseEvent
  <2>2. GoodRecord(heard) /\ Evolves(r, heard)
    BY <1>0, <2>1, CloseEventFacts
  <2> HIDE DEF heard
  <2>3. GoodRecord(relayed) /\ Evolves(r, relayed)
    BY <1>0, <2>2, RelayCleanupFacts, EvolvesTransitive
  <2> HIDE DEF relayed
  <2>4. GoodRecord(ended) /\ Evolves(r, ended)
    BY <1>0, <2>3, UdpEndFacts, EvolvesTransitive
  <2> HIDE DEF ended
  <2> QED BY <2>1, <2>4, EvolveStep
<1>7. CASE RelayFails(c)
  BY <1>0, <1>7, RelayCleanupFacts, EvolveStep DEF RelayFails
<1>8. CASE TimerFires(c)
  BY <1>0, <1>8, CloseRecordFacts, EvolveStep DEF TimerFires
<1>9. CASE SessionIdle(c)
  <2>1. LET s == [r EXCEPT !.session = FALSE] IN GoodRecord(s) /\ Evolves(r, s)
    BY <1>0, Edits
  <2> QED BY <1>9, <2>1, EvolveStep DEF SessionIdle
<1> QED BY <1>1, <1>2, <1>3, <1>4, <1>5, <1>6, <1>7, <1>8, <1>9 DEF Environment

\* What the phases of Engine.stop share.
LEMMA StopStep ==
  ASSUME ConnInv, NEW next \in [Conns -> Connection], Update(next),
         stop' \in {"closing", "draining", "stopped"},
         \A c \in Conns : GoodRecord(next[c]) /\ Evolves(conn[c], next[c]),
         stop' # "closing" => \A c \in Conns : next[c].client # "open" /\ ~next[c].session,
         stop' = "stopped" => \A c \in Conns : next[c].client \in {"none", "closed"}
  PROVE  ConnInv'
<1>1. /\ conn' = next
      /\ active' \in 0 .. MaxConnections
      /\ stats' \in [closed : Nat, failed : Nat]
      /\ SlotsExact'
  BY UpdateKeepsSlots
<1> QED BY <1>1 DEF ConnInv

\* closeAll: the UDP sessions end and every registered connection closes; the
\* inbounds go on accepting.
LEMMA StopBeginStep ==
  ASSUME ConnInv, StopBegin
  PROVE  ConnInv'
<1> DEFINE u(c) == [conn[c] EXCEPT !.session = FALSE]
           v(c) == IF c \in registered THEN CloseRecord(u(c), FALSE) ELSE u(c)
           next == [c \in Conns |-> v(c)]
<1>1. stop' = "closing" /\ Update(next)
  BY DEF StopBegin
<1>2. ASSUME NEW c \in Conns
      PROVE  GoodRecord(v(c)) /\ Evolves(conn[c], v(c))
  <2>0. GoodRecord(conn[c])
    BY DEF ConnInv
  <2>1. GoodRecord(u(c)) /\ Evolves(conn[c], u(c))
    BY <2>0, Edits
  <2> HIDE DEF u
  <2> QED BY <2>0, <2>1, CloseRecordFacts, EvolvesTransitive
<1> HIDE DEF v
<1>3. next \in [Conns -> Connection] /\ \A c \in Conns : next[c] = v(c)
  BY <1>2 DEF GoodRecord
<1> HIDE DEF next
<1> QED BY <1>1, <1>2, <1>3, StopStep

\* lifecycle.stopAll: the accepted sockets are destroyed, also those accepted
\* since closeAll, and the UDP sessions end.
LEMMA StopInboundsStep ==
  ASSUME ConnInv, StopInbounds
  PROVE  ConnInv'
<1> DEFINE v(c) == [conn[c] EXCEPT !.session = FALSE, !.client = Destroyed(@)]
           next == [c \in Conns |-> v(c)]
<1>1. stop' = "draining" /\ Update(next)
  BY DEF StopInbounds
<1>2. ASSUME NEW c \in Conns
      PROVE  /\ GoodRecord(v(c)) /\ Evolves(conn[c], v(c))
             /\ v(c).client # "open" /\ ~v(c).session
  <2>0. GoodRecord(conn[c]) /\ conn[c] \in Connection
    BY DEF ConnInv
  <2>1. GoodRecord(v(c)) /\ Evolves(conn[c], v(c))
    BY <2>0, Edits
  <2>2. v(c).client = Destroyed(conn[c].client) /\ v(c).session = FALSE
    BY <2>0 DEF Connection
  <2> HIDE DEF v
  <2> QED BY <2>1, <2>2 DEF Destroyed
<1> HIDE DEF v
<1>3. next \in [Conns -> Connection] /\ \A c \in Conns : next[c] = v(c)
  BY <1>2 DEF GoodRecord
<1> HIDE DEF next
<1> QED BY <1>1, <1>2, <1>3, StopStep

\* server.close has called back for every listener; the timers are cleared.
LEMMA StopEndStep ==
  ASSUME ConnInv, StopEnd
  PROVE  ConnInv'
<1> DEFINE v(c) == [conn[c] EXCEPT !.armed = FALSE]
           next == [c \in Conns |-> v(c)]
<1>1. stop = "draining" /\ stop' = "stopped" /\ Update(next)
      /\ \A c \in Conns : conn[c].client \in {"none", "closed"}
  BY DEF StopEnd
<1>2. ASSUME NEW c \in Conns
      PROVE  /\ GoodRecord(v(c)) /\ Evolves(conn[c], v(c))
             /\ v(c).client \in {"none", "closed"} /\ ~v(c).session
  <2>0. GoodRecord(conn[c]) /\ conn[c] \in Connection /\ ~conn[c].session
    BY <1>1 DEF ConnInv
  <2>1. conn[c].state \notin Live /\ conn[c].armed = FALSE
    BY <1>1, <2>0 DEF GoodRecord, Connection
  <2>2. v(c) = conn[c]
    BY <2>0, <2>1 DEF Connection
  <2> HIDE DEF v
  <2> QED BY <1>1, <2>0, <2>2, EvolvesReflexive
<1> HIDE DEF v
<1>3. next \in [Conns -> Connection] /\ \A c \in Conns : next[c] = v(c)
  BY <1>2 DEF GoodRecord
<1> HIDE DEF next
<1>4. \A c \in Conns : next[c].client # "open" /\ ~next[c].session
  BY <1>2, <1>3
<1>5. \A c \in Conns : next[c].client \in {"none", "closed"}
  BY <1>2, <1>3
<1>6. \A c \in Conns : GoodRecord(next[c]) /\ Evolves(conn[c], next[c])
  BY <1>2, <1>3
<1> QED BY <1>1, <1>3, <1>4, <1>5, <1>6, StopStep

\* Nothing has connected.
LEMMA ConnInit ==
  ASSUME Init
  PROVE  ConnInv
<1>1. Unused \in Connection
  BY ConnectionAssumption DEF Unused, Connection, States, SocketStates, Awaits, Sides
<1>2. GoodRecord(Unused)
  BY <1>1 DEF GoodRecord, Unused, Live
<1>3. \A c \in Conns : conn[c] = Unused
  BY DEF Init
<1>4. /\ {c \in Conns : conn[c].state \in Live} = {}
      /\ {c \in Conns : conn[c].state = "closed"} = {}
      /\ {c \in Conns : conn[c].outcome = "failed"} = {}
  BY <1>3 DEF Unused, Live
<1>5. SlotsExact
  BY <1>4, FS_EmptySet DEF Init, SlotsExact
<1> QED BY <1>1, <1>2, <1>3, <1>5, ConnectionAssumption DEF ConnInv, Init

\* Every step keeps the invariant.
LEMMA ConnStep ==
  ASSUME ConnInv, [Next]_vars
  PROVE  ConnInv'
<1>1. CASE \E c \in Conns : Handler(c) \/ Environment(c)
  BY <1>1, HandlerStep, EnvironmentStep
<1>2. CASE StopTimesOut
  BY <1>2 DEF ConnInv, StopTimesOut, SlotsExact
<1>3. CASE UNCHANGED vars
  BY <1>3 DEF ConnInv, vars, SlotsExact
<1> QED BY <1>1, <1>2, <1>3, StopBeginStep, StopInboundsStep, StopEndStep DEF Next

-----------------------------------------------------------------------------
(* The results.                                                            *)

\* The invariant holds in every reachable state.
LEMMA ConnAlways ==
  Spec => []ConnInv
<1>1. Init => ConnInv
  BY ConnInit
<1>2. ConnInv /\ [Next]_vars => ConnInv'
  BY ConnStep
<1> QED BY <1>1, <1>2, PTL DEF Spec

\* The slots taken are exactly the registered connections, the limit is kept,
\* each connection that ended is counted once, and a timer is armed exactly for
\* the registered ones, whatever closes first: handler, socket, timer, relay or
\* Engine.stop.
THEOREM ResourcesStayExact ==
  Spec => []ResourcesExact
<1>1. ConnInv => ResourcesExact
  BY DEF ConnInv, ResourcesExact, TypeOK, TimersOwned, GoodRecord, SlotsExact
<1> QED BY <1>1, ConnAlways, PTL

\* Once Engine.stop has returned, without its timeout, nothing is registered,
\* no timer is armed and no UDP session is left, whatever was under way when it
\* began.
THEOREM ShutdownIsComplete ==
  Spec => []ShutdownComplete
<1>1. ASSUME ConnInv
      PROVE  ShutdownComplete
  <2> SUFFICES ASSUME stop = "stopped"
               PROVE  registered = {} /\ \A c \in Conns : ~conn[c].armed /\ ~conn[c].session
    BY DEF ShutdownComplete
  <2>1. \A c \in Conns : conn[c].client \in {"none", "closed"} /\ ~conn[c].session
    BY <1>1 DEF ConnInv
  <2>2. \A c \in Conns : conn[c].state \notin Live /\ ~conn[c].armed
    BY <1>1, <2>1 DEF ConnInv, GoodRecord
  <2>3. registered = {}
    BY <1>1, <2>2 DEF ConnInv, SlotsExact
  <2> QED BY <2>1, <2>2, <2>3
<1> QED BY <1>1, ConnAlways, PTL

=============================================================================
