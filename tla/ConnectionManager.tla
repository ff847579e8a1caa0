-------------------------- MODULE ConnectionManager --------------------------
(***************************************************************************)
(* The life of a client connection: core/connectionManager.ts with the     *)
(* limiter, the managed timers, the leak detector's socket table and the   *)
(* UDP session table it shares with the inbounds, driven by the inbound    *)
(* handlers and by the socket, timer, operator and shutdown events that    *)
(* interleave with a handler at each of its awaits.                        *)
(*                                                                         *)
(* Between two awaits a handler runs without interruption, so every action *)
(* is one such run.  An error event on a socket that has an error listener *)
(* is RelayFails or a failed wait; one without a listener is not modelled. *)
(***************************************************************************)
EXTENDS Naturals, FiniteSets

CONSTANTS
  Conns,            \* client connections, each accepted or rejected once
  MaxConnections,   \* limits.maxConnections
  MaxUdpSessions,   \* limits.maxUdpSessions
  MaxTraffic,       \* bound: chunks or datagrams that refresh one connection
  Kinds             \* what a request may turn out to be, see AllKinds

\* "reply":  HTTP CONNECT, SOCKS5 CONNECT (success is written before piping)
\* "direct": HTTP forward, Shadowsocks, Trojan (piped at once)
\* "udp":    SOCKS5 UDP ASSOCIATE
AllKinds == {"reply", "direct", "udp"}

ASSUME ConnectionAssumption ==
  /\ IsFiniteSet(Conns)
  /\ MaxConnections \in Nat \ {0}
  /\ MaxUdpSessions \in Nat
  /\ MaxTraffic \in Nat
  /\ Kinds \subseteq AllKinds

VARIABLES
  conn,         \* the ManagedConnection and its handler, per connection
  registered,   \* ConnectionManager.connections
  active,       \* ResourceLimiter.activeConnections
  stats,        \* StatsTracker: connections closed, and of those failed
  stop          \* progress of Engine.stop

vars == <<conn, registered, active, stats, stop>>

Sides == {"client", "remote"}
States == {"none", "rejected", "handshake", "established", "closed"}
Live == {"handshake", "established"}
\* "destroyed": destroy() was called, the close event is still to come.
SocketStates == {"none", "open", "destroyed", "closed"}
\* Where a handler is suspended.
Awaits == {"none", "reading", "opening", "replying", "failing",
           "binding", "udpReply", "waiting", "done"}

Connection ==
  [state : States, outcome : {"none", "ok", "failed"}, armed : BOOLEAN,
   client : SocketStates, remote : SocketStates, tracked : SUBSET Sides,
   relay : BOOLEAN, session : BOOLEAN, await : Awaits, kind : AllKinds \cup {"none"},
   traffic : 0 .. MaxTraffic]

Unused ==
  [state |-> "none", outcome |-> "none", armed |-> FALSE,
   client |-> "none", remote |-> "none", tracked |-> {},
   relay |-> FALSE, session |-> FALSE, await |-> "none", kind |-> "none",
   traffic |-> 0]

Init ==
  /\ conn = [c \in Conns |-> Unused]
  /\ registered = {}
  /\ active = 0
  /\ stats = [closed |-> 0, failed |-> 0]
  /\ stop = "running"

------------------------------------------------------------------------------
(* Steps of a connection, as functions of its record.                      *)

\* closeSocket
Destroyed(s) == IF s = "open" THEN "destroyed" ELSE s

\* Mutant: the handshake timer is not started.
NewConnectionUntimed(r) ==
  [r EXCEPT !.state = "handshake", !.client = "open",
            !.tracked = {"client"}, !.await = "reading"]

NewConnection(r) ==
  [r EXCEPT !.state = "handshake", !.armed = TRUE, !.client = "open",
            !.tracked = {"client"}, !.await = "reading"]

MarkEstablished(r) ==
  IF r.state = "handshake"
  THEN [r EXCEPT !.state = "established", !.armed = TRUE] ELSE r

AttachRemote(r) == [r EXCEPT !.remote = "open", !.tracked = @ \cup {"remote"}]

Touch(r) ==
  [r EXCEPT !.armed = @ \/ r.state = "established", !.traffic = @ + 1]

\* ManagedConnection.close up to finalize; only the first call has an effect.
CloseRecord(r, failed) ==
  IF r.state \notin Live THEN r
  ELSE [r EXCEPT !.state = "closed", !.outcome = IF failed THEN "failed" ELSE "ok",
                 !.armed = FALSE, !.tracked = {},
                 !.client = Destroyed(@), !.remote = Destroyed(@)]

\* Mutant: the relay's cleanup forgets the remote socket.
RelayCleanupClientOnly(r, failed) ==
  CloseRecord([r EXCEPT !.relay = FALSE, !.client = Destroyed(@)], failed)

\* zeroCopyRelay's cleanup: both streams, then onClose.
RelayCleanup(r, failed) ==
  CloseRecord([r EXCEPT !.relay = FALSE, !.client = Destroyed(@),
                        !.remote = Destroyed(@)], failed)

\* closeUdpServer, release of the session and close, at the end of
\* handleUdpAssociate.
UdpEnd(r, failed) ==
  CloseRecord([r EXCEPT !.session = FALSE, !.await = "done"], failed)

------------------------------------------------------------------------------
(* ConnectionManager.finalize for the connections that leave the table.    *)

\* Mutant: the limiter's slot is not given back.
FinalizeKeepsSlot(next, gone) ==
  /\ registered' = registered \ gone
  /\ active' = active
  /\ stats' = [closed |-> stats.closed + Cardinality(gone),
               failed |-> stats.failed
                          + Cardinality({c \in gone : next[c].outcome = "failed"})]

Finalize(next, gone) ==
  /\ registered' = registered \ gone
  /\ active' = IF active >= Cardinality(gone) THEN active - Cardinality(gone) ELSE 0
  /\ stats' = [closed |-> stats.closed + Cardinality(gone),
               failed |-> stats.failed
                          + Cardinality({c \in gone : next[c].outcome = "failed"})]

\* The connections take the values of next; those close() closed leave.
Update(next) ==
  /\ conn' = next
  /\ Finalize(next, {c \in registered : next[c].state = "closed"})

Step(c, r) ==
  /\ Update([conn EXCEPT ![c] = r])
  /\ UNCHANGED stop

------------------------------------------------------------------------------
(* The inbound handlers.                                                   *)

\* Mutant: the limit is tested one too late.
HasSlotOffByOne == active <= MaxConnections

\* ResourceLimiter.tryAcquireConnection
HasSlot == active < MaxConnections

Accept(c) ==
  /\ stop \in {"running", "closing"}
  /\ conn[c].state = "none"
  /\ HasSlot
  /\ conn' = [conn EXCEPT ![c] = NewConnection(@)]
  /\ registered' = registered \cup {c}
  /\ active' = active + 1
  /\ UNCHANGED <<stats, stop>>

\* The handler closes the client; there is no ManagedConnection.
Reject(c) ==
  /\ stop \in {"running", "closing"}
  /\ conn[c].state = "none"
  /\ ~HasSlot
  /\ conn' = [conn EXCEPT ![c].state = "rejected"]
  /\ UNCHANGED <<registered, active, stats, stop>>

Sessions == {c \in Conns : conn[c].session}

\* The request is read and parsed; UdpSessionManager.open for UDP ASSOCIATE.
ReadDone(c) ==
  /\ conn[c].await = "reading" /\ conn[c].client = "open"
  /\ \E kind \in Kinds :
       Step(c, IF kind # "udp"
               THEN [conn[c] EXCEPT !.kind = kind, !.await = "opening"]
               ELSE IF Cardinality(Sessions) >= MaxUdpSessions
               THEN [conn[c] EXCEPT !.kind = kind, !.await = "failing"]
               ELSE [conn[c] EXCEPT !.kind = kind, !.session = TRUE, !.await = "binding"])

\* A protocol error, a read timeout, a failed authentication; openTcp throws.
HandlerFails(c) ==
  /\ conn[c].await \in {"reading", "opening"}
  /\ Step(c, [conn[c] EXCEPT !.await = "failing"])

\* The error reply is written, or could not be.
FailedClose(c) ==
  /\ conn[c].await = "failing"
  /\ Step(c, CloseRecord([conn[c] EXCEPT !.await = "done"], TRUE))

\* openTcp resolves, whatever became of the connection meanwhile.
OpenDone(c) ==
  /\ conn[c].await = "opening"
  /\ LET r == AttachRemote(conn[c]) IN
     Step(c, IF r.kind = "direct"
             THEN [MarkEstablished(r) EXCEPT !.relay = TRUE, !.await = "done"]
             ELSE IF r.client = "open" THEN [r EXCEPT !.await = "replying"]
             ELSE CloseRecord([r EXCEPT !.await = "done"], TRUE))

\* writeSocket(client) settles; a destroyed socket may still call it back.
ReplyDone(c) ==
  /\ conn[c].await = "replying"
  /\ Step(c, [MarkEstablished(conn[c]) EXCEPT !.relay = TRUE, !.await = "done"])

ReplyFails(c) ==
  /\ conn[c].await = "replying"
  /\ Step(c, CloseRecord([conn[c] EXCEPT !.await = "done"], TRUE))

\* The relay socket of a session that was closed meanwhile is never bound.
UdpBound(c) ==
  /\ conn[c].await = "binding" /\ conn[c].session
  /\ Step(c, IF conn[c].client = "open"
             THEN [conn[c] EXCEPT !.await = "udpReply"]
             ELSE UdpEnd(conn[c], TRUE))

UdpReplied(c) ==
  /\ conn[c].await = "udpReply"
  /\ Step(c, [MarkEstablished(conn[c]) EXCEPT !.await = "waiting"])

\* bind or the reply fails.
UdpFails(c) ==
  /\ conn[c].await = "udpReply" \/ (conn[c].await = "binding" /\ conn[c].session)
  /\ Step(c, UdpEnd(conn[c], TRUE))

\* end or idle timeout of the control socket
ControlEnds(c) ==
  /\ conn[c].await = "waiting" /\ conn[c].client = "open"
  /\ Step(c, UdpEnd(conn[c], FALSE))

------------------------------------------------------------------------------
(* Traffic, sockets, timers.                                               *)

\* A chunk in either direction, or a datagram.
Traffic(c) ==
  /\ conn[c].traffic < MaxTraffic
  /\ \/ conn[c].relay /\ \E side \in Sides : conn[c][side] = "open"
     \/ conn[c].session /\ conn[c].await \in {"udpReply", "waiting"}
  /\ Step(c, Touch(conn[c]))

\* The peer, or the network, closes a socket.
PeerCloses(c, side) ==
  /\ conn[c][side] = "open"
  /\ Step(c, [conn[c] EXCEPT ![side] = "destroyed"])

\* The close event: the connection's listener if it is still attached, then
\* the relay's, then the wait for the end of a UDP association.
CloseEvent(c, side) ==
  /\ conn[c][side] = "destroyed"
  /\ LET r == [conn[c] EXCEPT ![side] = "closed", !.tracked = @ \ {side}]
         heard == IF side \in conn[c].tracked THEN CloseRecord(r, FALSE) ELSE r
         relayed == IF heard.relay THEN RelayCleanup(heard, FALSE) ELSE heard
     IN Step(c, IF side = "client" /\ relayed.await = "waiting"
                THEN UdpEnd(relayed, FALSE) ELSE relayed)

\* error or idle timeout of either socket of a running relay
RelayFails(c) ==
  /\ conn[c].relay
  /\ \E side \in Sides : conn[c][side] = "open"
  /\ Step(c, RelayCleanup(conn[c], TRUE))

\* The handshake timer, which markEstablished turned into the idle timer.
TimerFires(c) ==
  /\ conn[c].armed
  /\ Step(c, CloseRecord(conn[c], TRUE))

\* UdpSessionManager: the session and its relay socket are closed.
SessionIdle(c) ==
  /\ conn[c].session
  /\ Step(c, [conn[c] EXCEPT !.session = FALSE])

------------------------------------------------------------------------------
(* The operator and Engine.stop.                                           *)

\* closeConnection(id), from the dashboard
ForcedClose(c) ==
  /\ c \in registered
  /\ Step(c, CloseRecord(conn[c], TRUE))

\* connectionManager.closeAll, udpSessionManager.closeAll.  The inbounds go
\* on accepting until lifecycle.stopAll.
StopBegin ==
  /\ stop = "running" /\ stop' = "closing"
  /\ Update([c \in Conns |->
        LET r == [conn[c] EXCEPT !.session = FALSE]
        IN IF c \in registered THEN CloseRecord(r, FALSE) ELSE r])

\* Mutant: the UDP session manager is not registered with the lifecycle.
StopInboundsOnly ==
  /\ stop = "closing" /\ stop' = "draining"
  /\ Update([c \in Conns |-> [conn[c] EXCEPT !.client = Destroyed(@)]])

\* lifecycle.stopAll: listeners and their accepted sockets, UDP sessions.
StopInbounds ==
  /\ stop = "closing" /\ stop' = "draining"
  /\ Update([c \in Conns |-> [conn[c] EXCEPT !.session = FALSE, !.client = Destroyed(@)]])

\* server.close has called back for every listener; timeoutManager.clearAll.
StopEnd ==
  /\ stop = "draining" /\ stop' = "stopped"
  /\ \A c \in Conns : conn[c].client \in {"none", "closed"}
  /\ Update([c \in Conns |-> [conn[c] EXCEPT !.armed = FALSE]])

\* The shutdown timer wins the race of lifecycle.stopAll: stop() rejects.
StopTimesOut ==
  /\ stop = "draining" /\ stop' = "timedOut"
  /\ UNCHANGED <<conn, registered, active, stats>>

Handler(c) ==
  \/ ReadDone(c) \/ HandlerFails(c) \/ FailedClose(c) \/ OpenDone(c)
  \/ ReplyDone(c) \/ ReplyFails(c)
  \/ UdpBound(c) \/ UdpReplied(c) \/ UdpFails(c) \/ ControlEnds(c)

Environment(c) ==
  \/ Accept(c) \/ Reject(c) \/ Traffic(c) \/ ForcedClose(c)
  \/ \E side \in Sides : PeerCloses(c, side) \/ CloseEvent(c, side)
  \/ RelayFails(c) \/ TimerFires(c) \/ SessionIdle(c)

Next ==
  \/ \E c \in Conns : Handler(c) \/ Environment(c)
  \/ StopBegin \/ StopInbounds \/ StopEnd \/ StopTimesOut

Spec == Init /\ [][Next]_vars

\* A suspended handler is resumed once its write, connect or bind settles,
\* which each does within its timeout (reading from the client may go on, a
\* reader's timeout restarts with every chunk); armed timers fire, destroyed
\* sockets emit close, the awaits of stop() settle.  Nothing makes a peer
\* close, an operator act or an engine stop.
Resumes(c) ==
  \/ FailedClose(c)
  \/ (OpenDone(c) \/ (conn[c].await = "opening" /\ HandlerFails(c)))
  \/ ReplyDone(c) \/ ReplyFails(c)
  \/ UdpBound(c) \/ UdpReplied(c)

FairSpec ==
  /\ Spec
  /\ \A c \in Conns :
       /\ WF_vars(Resumes(c))
       /\ WF_vars(TimerFires(c))
       /\ WF_vars(SessionIdle(c))
       /\ WF_vars(RelayFails(c))
       /\ WF_vars(\E side \in Sides : CloseEvent(c, side))
  /\ WF_vars(StopInbounds) /\ WF_vars(StopEnd \/ StopTimesOut)

------------------------------------------------------------------------------
(* Properties.                                                             *)

\* Every variable has its type; the limiter never counts past the limit.
TypeOK ==
  /\ conn \in [Conns -> Connection]
  /\ registered \subseteq Conns
  /\ active \in 0 .. MaxConnections
  /\ stats \in [closed : Nat, failed : Nat]
  /\ stop \in {"running", "closing", "draining", "stopped", "timedOut"}

\* The table, the limiter and the statistics agree with the connections: a
\* slot is held exactly by the connections in handshake or established, and
\* each closed one is counted once, as what its first close() said, whatever
\* timer, socket, handler and operator events met (connectionManager.ts
\* accept, close, finalize; resourceLimiter.ts).
SlotsExact ==
  /\ registered = {c \in Conns : conn[c].state \in Live}
  /\ active = Cardinality(registered)
  /\ stats.closed = Cardinality({c \in Conns : conn[c].state = "closed"})
  /\ stats.failed = Cardinality({c \in Conns : conn[c].outcome = "failed"})

\* A managed timer is armed exactly while its connection is live and stop()
\* has not cleared them: a handler that resumes, or data that arrives, after
\* the connection closed must not start it again (markEstablished, touch).
TimersOwned ==
  \A c \in Conns : conn[c].armed <=> conn[c].state \in Live

\* When Engine.stop returns, connections accepted during the shutdown
\* included, no connection is managed, no managed timer runs and no UDP
\* session is open (engine.ts stop, lifecycle.ts stopAll).
ShutdownComplete ==
  stop = "stopped" =>
    /\ registered = {}
    /\ \A c \in Conns : ~conn[c].armed /\ ~conn[c].session

\* The limit is kept, and slots, counters and timers belong to live
\* connections, at every await.
ResourcesExact == TypeOK /\ SlotsExact /\ TimersOwned

\* No connection stays in its handshake: the timer ends what the client, the
\* outbound or the reply keeps waiting.
HandshakeEnds ==
  \A c \in Conns :
    conn[c].state = "handshake" ~> conn[c].state \in {"established", "closed"}

\* A closed connection that is relayed at once, or a UDP association, gives
\* back its sockets and session, also when the outbound connects only after
\* the connection was closed (attachRemoteSocket, zeroCopyRelay,
\* UdpSessionManager); one that is answered first gives back the client's
\* (what becomes of the remote socket is ShutdownFreesSockets).
SocketsFreed ==
  \A c \in Conns :
    conn[c].state = "closed" ~>
      /\ conn[c].await # "opening"
      /\ conn[c].client = "closed"
      /\ conn[c].remote \in {"none", "closed"} \/ conn[c].kind = "reply"
      /\ ~conn[c].session

\* After a shutdown the leak detector's socket table returns to empty.
ShutdownFreesSockets ==
  stop = "stopped" ~> \A c \in Conns : conn[c].tracked = {}
==============================================================================
