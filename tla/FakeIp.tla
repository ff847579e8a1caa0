-------------------------------- MODULE FakeIp --------------------------------
(***************************************************************************)
(* dns/fakeIp.ts, fakeIpPool.ts and fakeIpStore.ts: addresses of a private *)
(* range handed out for domains, found again by address, expired, evicted  *)
(* when the range is used up, and kept in a file that is written by rename.*)
(* Addresses are 0..capacity-1, offsets in the range.  Every call is       *)
(* synchronous; the process may die in the middle of one.                  *)
(***************************************************************************)
EXTENDS Naturals, Sequences, SequencesExt, FiniteSets, Lists

CONSTANTS
    Domains,
    capacity,       \* usable addresses; config.size is not smaller
    ttl,            \* config.ttlSeconds, in ticks
    MaxClock,       \* a bound on time
    MaxWriteErrors, \* a bound on writes that fail
    NoDomain

ASSUME FakeIpAssumption == capacity \in Nat \ {0} /\ ttl \in Nat

Addresses == 0..(capacity - 1)

VARIABLES
    byDomain,    \* the records in the order of the map, the oldest first
    byAddress,   \* the records of the other map
    cursor,      \* FakeIpPool.cursor
    file,        \* what the persisted file holds
    clock,
    running,     \* the process is up
    writeErrors,
    owner,       \* history: per address, the domain it was recorded for last
    doubtful     \* history: addresses whose last mapping a failed write kept from the file

fakeVars == <<byDomain, byAddress, cursor, file, clock, running, writeErrors, owner, doubtful>>

FakeInit ==
    /\ byDomain = <<>> /\ byAddress = {} /\ cursor = 0 /\ file = <<>>
    /\ clock = 0 /\ running = TRUE /\ writeErrors = 0
    /\ owner = [a \in Addresses |-> NoDomain] /\ doubtful = {}

\* A store is the pair of maps.
Store == [list |-> byDomain, index |-> byAddress]
Expired(r) == r.expiresAt <= clock
\* The records of other domains.
Others(list, d) == Those(list, {q \in ToSet(list) : q.domain # d})

\* Mutant of delete: the entry of the other map is left behind.
deleteHalf(st, r) == [st EXCEPT !.list = Others(@, r.domain)]

delete(st, r) == [list |-> Others(st.list, r.domain),
                  index |-> {q \in st.index : q.address # r.address}]
touch(st, r) == [st EXCEPT !.list = Append(Others(@, r.domain), r)]
OfDomain(st, d) == {r \in ToSet(st.list) : r.domain = d}
OfAddress(st, a) == {r \in st.index : r.address = a}

\* read, then touch: what a lookup that finds these records does to the store.
Looked(st, found) ==
    IF found = {} THEN st
    ELSE LET r == CHOOSE q \in found : TRUE IN IF Expired(r) THEN delete(st, r) ELSE touch(st, r)
Live(found) == {r \in found : ~Expired(r)}

\* FakeIpPool.next: the addresses from the cursor on are looked up, each
\* lookup expiring or touching its record, until one is free.
ScanFrom(st) ==
    LET scan[n \in 0..capacity] ==
            IF n = 0 THEN [store |-> st, cursor |-> cursor, free |-> capacity]
            ELSE IF scan[n - 1].free # capacity THEN scan[n - 1]
            ELSE LET a == scan[n - 1].cursor
                     found == OfAddress(scan[n - 1].store, a)
                 IN [store |-> Looked(scan[n - 1].store, found), cursor |-> (a + 1) % capacity,
                     free |-> IF Live(found) = {} THEN a ELSE capacity]
    IN scan[capacity]

evictOldest(st) == delete(st, Head(st.list))

set(st, r) ==
    LET old == OfDomain(st, r.domain)
        clean == {q \in st.index : \A o \in old : q.address # o.address}
    IN [list |-> Append(Others(st.list, r.domain), r),
        index |-> {q \in clean : q.address # r.address} \union {r}]

\* records(): what persist() writes; expired records leave the store.
pruned(st) == [list |-> Those(st.list, {q \in ToSet(st.list) : ~Expired(q)}),
               index |-> {q \in st.index : ~Expired(q)}]

\* The address and the store after assign(d) found no record of d.
Assigned(d) ==
    LET st == Looked(Store, OfDomain(Store, d))
        scan == ScanFrom(st)
        full == scan.free = capacity
        address == IF full THEN Head(scan.store.list).address ELSE scan.free
        room == IF full THEN evictOldest(scan.store) ELSE scan.store
        record == [domain |-> d, address |-> address, expiresAt |-> clock + ttl]
    IN [store |-> pruned(set(room, record)), cursor |-> scan.cursor, address |-> address]

Keep(st) == byDomain' = st.list /\ byAddress' = st.index

StillDoubtful(addresses, st, who) ==
    {a \in addresses : \E r \in st.index : r.address = a /\ r.domain # who[a]}

assign(d) ==
    LET new == Assigned(d) IN
    /\ running /\ Live(OfDomain(Store, d)) = {}
    /\ Keep(new.store)
    /\ cursor' = new.cursor
    /\ file' = new.store.list
    /\ owner' = [owner EXCEPT ![new.address] = d]
    /\ doubtful' = StillDoubtful(doubtful, new.store, owner')
    /\ UNCHANGED <<clock, running, writeErrors>>

\* persist() throws: the record stays in memory, the file as it was.
assignUnwritten(d) ==
    LET new == Assigned(d) IN
    /\ running /\ Live(OfDomain(Store, d)) = {}
    /\ writeErrors < MaxWriteErrors
    /\ writeErrors' = writeErrors + 1
    /\ Keep(new.store)
    /\ cursor' = new.cursor
    /\ owner' = [owner EXCEPT ![new.address] = d]
    /\ doubtful' = doubtful \union {new.address}
    /\ UNCHANGED <<file, clock, running>>

\* assign of a domain that has a record, and reverse.
LookUp(found) ==
    /\ running /\ found # {}
    /\ Keep(Looked(Store, found))
    /\ UNCHANGED <<cursor, file, clock, running, writeErrors, owner, doubtful>>

assignAgain(d) == Live(OfDomain(Store, d)) # {} /\ LookUp(OfDomain(Store, d))
reverse(a) == LookUp(OfAddress(Store, a))

Tick ==
    /\ clock < MaxClock
    /\ clock' = clock + 1
    /\ UNCHANGED <<byDomain, byAddress, cursor, file, running, writeErrors, owner, doubtful>>

\* Also between the two writes of persist(): the rename has not happened.
Die ==
    /\ running
    /\ running' = FALSE
    /\ byDomain' = <<>> /\ byAddress' = {} /\ cursor' = 0
    /\ UNCHANGED <<file, clock, writeErrors, owner, doubtful>>

load ==
    /\ ~running
    /\ running' = TRUE
    /\ Keep(pruned([list |-> file, index |-> ToSet(file)]))
    /\ UNCHANGED <<cursor, file, clock, writeErrors, owner, doubtful>>

FakeNext ==
    \/ \E d \in Domains : assign(d) \/ assignUnwritten(d) \/ assignAgain(d)
    \/ \E a \in Addresses : reverse(a)
    \/ Tick \/ Die \/ load

\* The two maps hold the same records, one per domain and one per address;
\* and an address, looked up now or after a crash and restart, gives the
\* domain it was handed out for last, unless the write of that very mapping
\* failed.
ReverseIsLatest ==
    LET onDisk == {r \in ToSet(file) : ~Expired(r)} IN
    /\ byAddress = ToSet(byDomain)
    /\ Cardinality({r.domain : r \in byAddress}) = Len(byDomain)
    /\ Cardinality({r.address : r \in byAddress}) = Len(byDomain)
    /\ \A r \in byAddress \union onDisk : r.address \in doubtful \/ owner[r.address] = r.domain
=============================================================================
