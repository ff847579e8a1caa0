------------------------------- MODULE Exchange -------------------------------
(***************************************************************************)
(* One exchange with the network by one of the functions that wrap events, *)
(* a timer and a socket in a promise: dialling (utils/net.ts, trojan.ts),  *)
(* a datagram and its answer (transport/udp.ts, shadowsocks.ts), a DNS     *)
(* query by UDP or HTTPS (dns/resolver.ts, doh.ts) and reading a handshake *)
(* (BufferedSocketReader).  Each function is described by the ways in which*)
(* it differs from the others.                                             *)
(***************************************************************************)
EXTENDS Naturals, Sequences, FiniteSets

CONSTANTS
    Endpoints,     \* DoH endpoints, 1..n
    Wanted,        \* bytes readExact waits for
    maxBytes,      \* the reader's limit
    ChunkSizes     \* sizes in which bytes arrive; 0 is a wake-up with nothing to read

VARIABLES
    op,           \* the function called, "none" before
    phase,        \* "idle", "waiting", "resolved", "rejected"
    timerSet,
    hears,        \* the listener for the awaited event is attached
    wire,         \* the socket: "none", "open", "closed", "handed over", "borrowed"
    sendOpen,     \* the callback of socket.send is outstanding
    aborted,      \* the abort signal
    endpointNo,   \* DoH: the endpoint being asked
    have,         \* reader: bytes in the buffer
    strays,       \* history: a datagram of another sender arrived
    sendFailed,   \* history: the phase in which the send callback reported an error
    uncaught      \* closing a closed datagram socket threw in a callback

exchangeVars == <<op, phase, timerSet, hears, wire, sendOpen, aborted, endpointNo, have, strays, sendFailed, uncaught>>
-----------------------------------------------------------------------------
(* The functions *)
Plain == [via |-> "stream", settledFlag |-> TRUE, closeThrows |-> FALSE, keepsSocket |-> FALSE,
          checksSender |-> FALSE, abortable |-> FALSE]

connectTcp == [Plain EXCEPT !.keepsSocket = TRUE]
connectTls == [Plain EXCEPT !.keepsSocket = TRUE]
sendUdpDatagram == [Plain EXCEPT !.via = "datagram", !.closeThrows = TRUE]
\* The same without a flag for having settled.
sendUdpToServer == [Plain EXCEPT !.via = "datagram", !.closeThrows = TRUE, !.settledFlag = FALSE]
\* The errors of close() are caught; datagrams of others are not the answer.
queryUdpA == [Plain EXCEPT !.via = "datagram", !.checksSender = TRUE, !.abortable = TRUE]
queryDohA == [Plain EXCEPT !.via = "http", !.abortable = TRUE]
readExact == [Plain EXCEPT !.via = "borrowed"]

Exchanges == [connectTcp |-> connectTcp, connectTls |-> connectTls, sendUdpDatagram |-> sendUdpDatagram,
              sendUdpToServer |-> sendUdpToServer, queryUdpA |-> queryUdpA, queryDohA |-> queryDohA,
              readExact |-> readExact]
called == Exchanges[op]
ExchangeOver == phase \in {"resolved", "rejected"}

ExchangeInit ==
    /\ op = "none" /\ phase = "idle" /\ timerSet = FALSE /\ hears = FALSE /\ wire = "none"
    /\ sendOpen = FALSE /\ aborted = FALSE /\ endpointNo = 0 /\ have = 0
    /\ strays = FALSE /\ sendFailed = "never" /\ uncaught = FALSE

\* The socket is made, the timer set, the listeners attached, the request sent.
Begin(f) ==
    /\ phase = "idle"
    /\ op' = f /\ phase' = "waiting" /\ timerSet' = TRUE /\ hears' = TRUE
    /\ wire' = IF Exchanges[f].via = "borrowed" THEN "borrowed" ELSE "open"
    /\ sendOpen' = (Exchanges[f].via = "datagram")
    /\ endpointNo' = IF Exchanges[f].via = "http" THEN 1 ELSE 0
    /\ UNCHANGED <<aborted, have, strays, sendFailed, uncaught>>

\* Aborted before it began, it is rejected without a packet sent.
BeginAborted(f) ==
    /\ phase = "idle" /\ Exchanges[f].abortable
    /\ op' = f /\ phase' = "rejected" /\ aborted' = TRUE
    /\ wire' = IF f = "queryUdpA" THEN "closed" ELSE "none"
    /\ UNCHANGED <<timerSet, hears, sendOpen, endpointNo, have, strays, sendFailed, uncaught>>

\* Mutant of cleanup: the socket is closed only if the exchange succeeded.
cleanupOnSuccess(result) ==
    /\ phase' = IF phase = "waiting" THEN result ELSE phase
    /\ timerSet' = FALSE /\ hears' = FALSE
    /\ wire' = IF wire = "borrowed" \/ result = "rejected" THEN wire
               ELSE IF result = "resolved" /\ called.keepsSocket THEN "handed over" ELSE "closed"
    /\ uncaught' = (uncaught \/ (called.closeThrows /\ wire = "closed"))

\* The timer and the listeners go, the socket is closed unless it is the result.
cleanup(result) ==
    /\ phase' = IF phase = "waiting" THEN result ELSE phase
    /\ timerSet' = FALSE /\ hears' = FALSE
    /\ wire' = IF wire = "borrowed" THEN wire
               ELSE IF result = "resolved" /\ called.keepsSocket THEN "handed over" ELSE "closed"
    /\ uncaught' = (uncaught \/ (called.closeThrows /\ wire = "closed"))

\* A failure: of a DoH endpoint it leads to the next one.
fail ==
    IF phase = "waiting" /\ called.via = "http" /\ endpointNo < Endpoints /\ ~aborted'
    THEN endpointNo' = endpointNo + 1 /\ UNCHANGED <<phase, timerSet, hears, wire, uncaught>>
    ELSE IF phase = "waiting" \/ ~called.settledFlag
    THEN cleanup("rejected") /\ UNCHANGED endpointNo
    ELSE UNCHANGED <<phase, timerSet, hears, wire, uncaught, endpointNo>>

\* The answer, which may be one that cannot be decoded.
onAnswer ==
    /\ phase = "waiting" /\ hears /\ called.via \in {"stream", "datagram", "http"}
    /\ aborted' = aborted
    /\ \/ cleanup("resolved") /\ UNCHANGED endpointNo
       \/ called.abortable /\ fail
    /\ UNCHANGED <<op, sendOpen, have, strays, sendFailed>>

\* once(): a datagram of another sender takes the listener away.
onStray ==
    /\ phase = "waiting" /\ hears /\ called.checksSender
    /\ hears' = FALSE /\ strays' = TRUE
    /\ UNCHANGED <<op, phase, timerSet, wire, sendOpen, aborted, endpointNo, have, sendFailed, uncaught>>

\* An error event of the socket; its listener goes with the others.
onSocketError ==
    /\ phase = "waiting"
    /\ aborted' = aborted
    /\ fail
    /\ UNCHANGED <<op, sendOpen, have, strays, sendFailed>>

onTimer ==
    /\ timerSet
    /\ aborted' = aborted
    /\ fail
    /\ UNCHANGED <<op, sendOpen, have, strays, sendFailed>>

\* The callback of send, which looks up the host first and may come late.
onSent ==
    /\ sendOpen
    /\ sendOpen' = FALSE
    /\ UNCHANGED <<op, phase, timerSet, hears, wire, aborted, endpointNo, have, strays, sendFailed, uncaught>>

onSendError ==
    /\ sendOpen
    /\ sendOpen' = FALSE /\ sendFailed' = phase
    /\ aborted' = aborted
    /\ fail
    /\ UNCHANGED <<op, have, strays>>

onAbort ==
    /\ phase = "waiting" /\ called.abortable /\ ~aborted
    /\ aborted' = TRUE
    /\ fail
    /\ UNCHANGED <<op, sendOpen, have, strays, sendFailed>>

\* pull and append: the wait starts anew until there are enough bytes.
onReadable(n) ==
    /\ phase = "waiting" /\ called.via = "borrowed"
    /\ have' = IF have + n > maxBytes THEN have ELSE have + n
    /\ IF have + n > maxBytes THEN cleanup("rejected")
       ELSE IF have + n >= Wanted THEN cleanup("resolved")
       ELSE UNCHANGED <<phase, timerSet, hears, wire, uncaught>>
    /\ UNCHANGED <<op, sendOpen, aborted, endpointNo, strays, sendFailed>>

ExchangeNext ==
    \/ \E f \in DOMAIN Exchanges : Begin(f) \/ BeginAborted(f)
    \/ onAnswer \/ onStray \/ onSocketError \/ onTimer \/ onSent \/ onSendError \/ onAbort
    \/ \E n \in ChunkSizes : onReadable(n)

ExchangeFairness == WF_exchangeVars(onTimer)

\* Whatever order the answer, errors, the abort, the timer and the send
\* callback come in: while the promise is open its timer runs, and the answer
\* can still be heard unless a stray datagram took the listener; once it is
\* settled no timer or listener is left and the socket is closed or handed
\* over, the latter only with success; and a callback throws only where a
\* datagram socket without a settled flag learns of a failed send after the
\* exchange is over.
ExchangeClean ==
    /\ phase = "waiting" => timerSet /\ wire \in {"open", "borrowed"} /\ (hears \/ strays)
    /\ ExchangeOver => ~timerSet /\ ~hears /\ wire # "open"
    /\ wire = "handed over" => phase = "resolved"
    /\ uncaught => op = "sendUdpToServer" /\ sendFailed \in {"resolved", "rejected"}
=============================================================================
