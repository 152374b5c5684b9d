------------------------------- MODULE ConnDB -------------------------------
(***************************************************************************)
(* The per-connection database manager of Duckpop (internal/conndb), its   *)
(* locks, the goroutines net/http runs it from, and the DuckDB instances   *)
(* and private directories it opens and closes (duckserver/duckserver.go). *)
(*                                                                         *)
(* Every TCP connection c has one Client object, also called c.  The       *)
(* actors are the serving goroutine of each connection (program counter    *)
(* pc; before "idle" it is the accept loop working for c) and the          *)
(* goroutine that closeConn starts for a client (program counter cpc).     *)
(* net/http runs HTTP/1: one request at a time on a connection, and        *)
(* StateClosed only after its handler returned.                            *)
(***************************************************************************)
EXTENDS Integers, FiniteSets

CONSTANTS
    Conns,     \* the TCP connections, each net.Conn with its Client
    IDs,       \* the values of conndb.ID that rand.Uint32 can return
    MaxDB,     \* Manager.MaxDB, the -maxdb flag
    None,      \* no connection, no ID, an unlocked mutex
    Closer     \* owner of a client's mutex: the goroutine of closeConn

ASSUME ConnDBAssumption ==
    /\ IsFiniteSet(Conns)
    /\ MaxDB \in Nat
    /\ None \notin Conns \cup IDs
    /\ Closer \notin Conns \cup {None}

VARIABLES
    pc,           \* where the serving goroutine of a connection is
    cpc,          \* where the closing goroutine of a client is
    loc,          \* the local variable "id" of the serving goroutine
    cli,          \* the client a serving goroutine works on
    todo,         \* the keys a Range of the goroutine has still to visit
    connToID,     \* Manager.connToID
    clients,      \* Manager.clients
    id,           \* Client.ID (also the ID in the connection's context)
    mu,           \* Client.mu: its owner
    db,           \* the clients whose db field is not nil
    conn,         \* the clients whose conn field is not nil
    dbCount,      \* Manager.dbCount
    dbMutex,      \* Manager.dbMutex: its owner
    inst,         \* the clients whose DuckDB instance is live
    privateDirs,  \* the directories <private root>/<ID> that exist
    warned,       \* clients whose directory removal failed (logged)
    failed        \* clients whose opening failed after making the directory

srvVars == <<pc, cpc, loc, cli, todo>>
mapVars == <<connToID, clients, id>>
dbVars  == <<db, conn, dbCount, inst, privateDirs, warned, failed>>
vars    == <<pc, cpc, loc, cli, todo, connToID, clients, id, mu,
             db, conn, dbCount, dbMutex, inst, privateDirs, warned, failed>>

-----------------------------------------------------------------------------
(* Program counters, grouped by what the goroutine holds.                  *)

Accepting == {"accept", "acceptW", "store"}
Opening   == {"opening", "openDuckDB"}        \* holds mu[cli] and dbMutex
ConnMu    == {"connMu", "openDB"} \cup Opening        \* holds mu[cli]
Querying  == {"conn", "query"} \cup ConnMu
Ranging   == {"range", "visit", "yield"}      \* holds clients.rw for reading
PCs       == {"new", "idle", "client", "databases", "closeLk", "closeW",
              "closed"} \cup Accepting \cup Querying \cup Ranging
Releasing == {"removeDir", "closeInst"}       \* dbCount already decremented
CloserMu  == {"closeConn", "closeDB"} \cup Releasing  \* holds mu of the client
CPCs      == {"none", "start", "noDB", "closedDB"} \cup CloserMu

\* A goroutine that called clients.rw.Lock and waits for the readers: from
\* here on sync.RWMutex admits no new reader and no other writer.
WriterPending == \E d \in Conns : pc[d] \in {"acceptW", "closeW"}
Readers       == {d \in Conns : pc[d] \in Ranging}

\* The clients counted by dbCount: open, and not yet given back by closeDB.
Held == {x \in db : cpc[x] \notin Releasing}

Goto(c, l) == pc' = [pc EXCEPT ![c] = l]

\* A handler returns: its local variables end, the connection is kept alive.
Return(c) ==
    /\ Goto(c, "idle")
    /\ cli' = [cli EXCEPT ![c] = None]
    /\ todo' = [todo EXCEPT ![c] = {}]

Init ==
    /\ pc = [c \in Conns |-> "new"]
    /\ cpc = [c \in Conns |-> "none"]
    /\ loc = [c \in Conns |-> None]
    /\ cli = [c \in Conns |-> None]
    /\ todo = [c \in Conns |-> {}]
    /\ connToID = [c \in Conns |-> None]
    /\ clients = [i \in IDs |-> None]
    /\ id = [c \in Conns |-> None]
    /\ mu = [c \in Conns |-> None]
    /\ db = {} /\ conn = {} /\ inst = {}
    /\ dbCount = 0
    /\ dbMutex = None
    /\ privateDirs = {}
    /\ warned = {} /\ failed = {}

-----------------------------------------------------------------------------
(* syncmap.Map.clients: the write lock is announced, then taken once the   *)
(* readers have left.  The critical sections of Load, LoadOrStore and      *)
(* LoadAndDelete do not block and are one step; Range is several.          *)

LockClients(c) ==
    /\ pc[c] \in {"accept", "closeLk"}
    /\ ~WriterPending
    /\ Goto(c, IF pc[c] = "accept" THEN "acceptW" ELSE "closeW")
    /\ UNCHANGED <<cpc, loc, cli, todo, mapVars, mu, dbMutex, dbVars>>

-----------------------------------------------------------------------------
(* A connection is accepted.  The accept loop of net/http handles one      *)
(* connection at a time and calls Manager.ConnContext for it.              *)

Accept(c) ==
    /\ pc[c] = "new"
    /\ \A d \in Conns : pc[d] \notin Accepting
    /\ Goto(c, "accept")
    /\ UNCHANGED <<cpc, loc, cli, todo, mapVars, mu, dbMutex, dbVars>>

\* Variant: Store in the place of LoadOrStore.
withNewClientStore(c) ==
    /\ pc[c] = "acceptW"
    /\ Readers = {}
    /\ \E i \in IDs :
        /\ Goto(c, "store")
        /\ clients' = [clients EXCEPT ![i] = c]
        /\ loc' = [loc EXCEPT ![c] = i]
    /\ UNCHANGED <<cpc, cli, todo, connToID, id, mu, dbMutex, dbVars>>

\* withNewClient: a random ID is tried; if it is taken, another one is.
withNewClient(c) ==
    /\ pc[c] = "acceptW"
    /\ Readers = {}
    /\ \E i \in IDs :
        IF clients[i] # None
        THEN /\ Goto(c, "accept")
             /\ UNCHANGED <<clients, loc>>
        ELSE /\ Goto(c, "store")
             /\ clients' = [clients EXCEPT ![i] = c]
             /\ loc' = [loc EXCEPT ![c] = i]
    /\ UNCHANGED <<cpc, cli, todo, connToID, id, mu, dbMutex, dbVars>>

\* connToID.Store, then the fields ID and ctx of the client.
storeConn(c) ==
    /\ pc[c] = "store"
    /\ connToID' = [connToID EXCEPT ![c] = loc[c]]
    /\ id' = [id EXCEPT ![c] = loc[c]]
    /\ loc' = [loc EXCEPT ![c] = None]
    /\ Goto(c, "idle")
    /\ UNCHANGED <<cpc, cli, todo, clients, mu, dbMutex, dbVars>>

-----------------------------------------------------------------------------
(* A query request: Manager.Client, then Client.Conn.                      *)

handleQuery(c) ==
    /\ pc[c] = "idle"
    /\ Goto(c, "client")
    /\ UNCHANGED <<cpc, loc, cli, todo, mapVars, mu, dbMutex, dbVars>>

\* Manager.Client: ErrNoConnection (status 500) when the ID is unknown.
Client(c) ==
    /\ pc[c] = "client"
    /\ ~WriterPending
    /\ cli' = [cli EXCEPT ![c] = clients[id[c]]]
    /\ Goto(c, IF clients[id[c]] = None THEN "idle" ELSE "conn")
    /\ UNCHANGED <<cpc, loc, todo, mapVars, mu, dbMutex, dbVars>>

Conn(c) ==
    /\ pc[c] = "conn"
    /\ mu[cli[c]] = None
    /\ mu' = [mu EXCEPT ![cli[c]] = c]
    /\ Goto(c, "connMu")
    /\ UNCHANGED <<cpc, loc, cli, todo, mapVars, dbMutex, dbVars>>

\* Client.Conn returns its conn field when that, or the db field, is set.
ConnReturn(c) ==
    /\ pc[c] = "connMu"
    /\ cli[c] \in conn \cup db
    /\ mu' = [mu EXCEPT ![cli[c]] = None]
    /\ Goto(c, "query")
    /\ UNCHANGED <<cpc, loc, cli, todo, mapVars, dbMutex, dbVars>>

ConnOpen(c) ==
    /\ pc[c] = "connMu"
    /\ cli[c] \notin conn \cup db
    /\ Goto(c, "openDB")
    /\ UNCHANGED <<cpc, loc, cli, todo, mapVars, mu, dbMutex, dbVars>>

\* Conn returns an error: both mutexes are released, the handler answers.
ConnError(c) ==
    /\ mu' = [mu EXCEPT ![cli[c]] = None]
    /\ dbMutex' = None
    /\ Return(c)

\* Variant: the limit is waited for, not reported.
openDBMaxRetry(c) ==
    /\ pc[c] = "openDB"
    /\ dbMutex = None
    /\ dbCount >= MaxDB
    /\ Goto(c, "connMu")
    /\ UNCHANGED <<cpc, loc, cli, todo, mapVars, mu, dbMutex, dbVars>>

\* openDB refuses: ErrMaxDB, status 429.
openDBMax(c) ==
    /\ pc[c] = "openDB"
    /\ dbMutex = None
    /\ dbCount >= MaxDB
    /\ ConnError(c)
    /\ UNCHANGED <<cpc, loc, mapVars, dbVars>>

\* Variant: the limit is not tested.
openDBUnlimited(c) ==
    /\ pc[c] = "openDB"
    /\ dbMutex = None
    /\ dbMutex' = c
    /\ Goto(c, "opening")
    /\ UNCHANGED <<cpc, loc, cli, todo, mapVars, mu, dbVars>>

\* openDB goes on to call the Opener, dbMutex held.
openDB(c) ==
    /\ pc[c] = "openDB"
    /\ dbMutex = None
    /\ dbCount < MaxDB
    /\ dbMutex' = c
    /\ Goto(c, "opening")
    /\ UNCHANGED <<cpc, loc, cli, todo, mapVars, mu, dbVars>>

\* connectDuckDB: creating the shared or the private directory fails.
mkdirError(c) ==
    /\ pc[c] = "opening"
    /\ ConnError(c)
    /\ UNCHANGED <<cpc, loc, mapVars, dbVars>>

\* Variant: the ID is taken from a context that does not hold it.
getPrivateDirNoID(c) ==
    /\ pc[c] = "opening"
    /\ privateDirs' = privateDirs \cup {loc[cli[c]]}
    /\ Goto(c, "openDuckDB")
    /\ UNCHANGED <<cpc, loc, cli, todo, mapVars, mu, dbMutex,
                   db, conn, dbCount, inst, warned, failed>>

\* connectDuckDB: the private directory exists from here on.
getPrivateDir(c) ==
    /\ pc[c] = "opening"
    /\ privateDirs' = privateDirs \cup {id[cli[c]]}
    /\ Goto(c, "openDuckDB")
    /\ UNCHANGED <<cpc, loc, cli, todo, mapVars, mu, dbMutex,
                   db, conn, dbCount, inst, warned, failed>>

\* duckdbinit.Open fails (and has closed what it opened); status 500.  The
\* directory stays.
connectError(c) ==
    /\ pc[c] = "openDuckDB"
    /\ ConnError(c)
    /\ failed' = failed \cup {cli[c]}
    /\ UNCHANGED <<cpc, loc, mapVars, db, conn, dbCount, inst, privateDirs, warned>>

\* duckdbinit.Open succeeds: dbCount, then the client's db and conn fields.
connectDuckDB(c) ==
    /\ pc[c] = "openDuckDB"
    /\ dbCount' = dbCount + 1
    /\ db' = db \cup {cli[c]}
    /\ conn' = conn \cup {cli[c]}
    /\ inst' = inst \cup {cli[c]}
    /\ dbMutex' = None
    /\ mu' = [mu EXCEPT ![cli[c]] = None]
    /\ failed' = failed \ {cli[c]}
    /\ Goto(c, "query")
    /\ UNCHANGED <<cpc, loc, cli, todo, mapVars, privateDirs, warned>>

\* The query ran on the connection and the handler returned.
queryDone(c) ==
    /\ pc[c] = "query"
    /\ Return(c)
    /\ UNCHANGED <<cpc, loc, mapVars, mu, dbMutex, dbVars>>

-----------------------------------------------------------------------------
(* GET /status/connections/: Manager.Databases ranges over the clients     *)
(* under the read lock of the map, and locks each client while it is       *)
(* reported.  The report is written to the network inside both locks.      *)

handleStatusConnections(c) ==
    /\ pc[c] = "idle"
    /\ Goto(c, "databases")
    /\ UNCHANGED <<cpc, loc, cli, todo, mapVars, mu, dbMutex, dbVars>>

Databases(c) ==
    /\ pc[c] = "databases"
    /\ ~WriterPending
    /\ todo' = [todo EXCEPT ![c] = {i \in IDs : clients[i] # None}]
    /\ Goto(c, "range")
    /\ UNCHANGED <<cpc, loc, cli, mapVars, mu, dbMutex, dbVars>>

\* Variant: the visited key is not left behind.
rangeNextAgain(c) ==
    /\ pc[c] = "range"
    /\ \E i \in todo[c] : cli' = [cli EXCEPT ![c] = clients[i]]
    /\ Goto(c, "visit")
    /\ UNCHANGED <<cpc, loc, todo, mapVars, mu, dbMutex, dbVars>>

\* Range calls its function for the next client, in the order of a Go map.
rangeNext(c) ==
    /\ pc[c] = "range"
    /\ \E i \in todo[c] :
        /\ todo' = [todo EXCEPT ![c] = @ \ {i}]
        /\ cli' = [cli EXCEPT ![c] = clients[i]]
    /\ Goto(c, "visit")
    /\ UNCHANGED <<cpc, loc, mapVars, mu, dbMutex, dbVars>>

\* Variant: the client's mutex is not awaited.
rangeVisitRacy(c) ==
    /\ pc[c] = "visit"
    /\ Goto(c, IF cli[c] \in db THEN "yield" ELSE "range")
    /\ UNCHANGED <<cpc, loc, cli, todo, mapVars, mu, dbMutex, dbVars>>

\* Variant: a client is reported without the test for a nil db.
rangeVisitAll(c) ==
    /\ pc[c] = "visit"
    /\ mu[cli[c]] = None
    /\ mu' = [mu EXCEPT ![cli[c]] = c]
    /\ Goto(c, "yield")
    /\ UNCHANGED <<cpc, loc, cli, todo, mapVars, dbMutex, dbVars>>

\* A client without a database is skipped, the others are reported.
rangeVisit(c) ==
    /\ pc[c] = "visit"
    /\ mu[cli[c]] = None
    /\ IF cli[c] \in db
       THEN /\ mu' = [mu EXCEPT ![cli[c]] = c]
            /\ Goto(c, "yield")
       ELSE /\ Goto(c, "range")
            /\ UNCHANGED mu
    /\ UNCHANGED <<cpc, loc, cli, todo, mapVars, dbMutex, dbVars>>

\* The report was written (next client), or the write failed (break).
yield(c) ==
    /\ pc[c] = "yield"
    /\ mu' = [mu EXCEPT ![cli[c]] = None]
    /\ \/ Goto(c, "range") /\ UNCHANGED <<cli, todo>>
       \/ Return(c)
    /\ UNCHANGED <<cpc, loc, mapVars, dbMutex, dbVars>>

rangeEnd(c) ==
    /\ pc[c] = "range"
    /\ todo[c] = {}
    /\ Return(c)
    /\ UNCHANGED <<cpc, loc, mapVars, mu, dbMutex, dbVars>>

-----------------------------------------------------------------------------
(* The connection ends: ConnState(StateClosed) calls closeConn, which      *)
(* leaves the closing of the database to a goroutine of its own.           *)

ConnState(c) ==
    /\ pc[c] = "idle"
    /\ loc' = [loc EXCEPT ![c] = connToID[c]]
    /\ connToID' = [connToID EXCEPT ![c] = None]
    /\ Goto(c, IF connToID[c] = None THEN "closed" ELSE "closeLk")
    /\ UNCHANGED <<cpc, cli, todo, clients, id, mu, dbMutex, dbVars>>

closeConn(c) ==
    /\ pc[c] = "closeW"
    /\ Readers = {}
    /\ clients' = [clients EXCEPT ![loc[c]] = None]
    /\ cpc' = IF clients[loc[c]] = None THEN cpc
              ELSE [cpc EXCEPT ![clients[loc[c]]] = "start"]
    /\ loc' = [loc EXCEPT ![c] = None]
    /\ Goto(c, "closed")
    /\ UNCHANGED <<cli, todo, connToID, id, mu, dbMutex, dbVars>>

-----------------------------------------------------------------------------
(* The goroutine of closeConn, for client x.                               *)

closerLock(x) ==
    /\ cpc[x] = "start"
    /\ mu[x] = None
    /\ mu' = [mu EXCEPT ![x] = Closer]
    /\ cpc' = [cpc EXCEPT ![x] = "closeConn"]
    /\ UNCHANGED <<pc, loc, cli, todo, mapVars, dbMutex, dbVars>>

\* Variant: close stops after the conn, the database stays open.
closeClientConnOnly(x) ==
    /\ cpc[x] = "closeConn"
    /\ conn' = conn \ {x}
    /\ cpc' = [cpc EXCEPT ![x] = "noDB"]
    /\ mu' = [mu EXCEPT ![x] = None]
    /\ UNCHANGED <<pc, loc, cli, todo, mapVars, dbMutex,
                   db, dbCount, inst, privateDirs, warned, failed>>

\* Client.close: the conn first; without a database that is all.
closeClient(x) ==
    /\ cpc[x] = "closeConn"
    /\ conn' = conn \ {x}
    /\ cpc' = [cpc EXCEPT ![x] = IF x \in db THEN "closeDB" ELSE "noDB"]
    /\ mu' = IF x \in db THEN mu ELSE [mu EXCEPT ![x] = None]
    /\ UNCHANGED <<pc, loc, cli, todo, mapVars, dbMutex,
                   db, dbCount, inst, privateDirs, warned, failed>>

\* Variant: the slot is not given back.
closeDBKeepsSlot(x) ==
    /\ cpc[x] = "closeDB"
    /\ dbMutex = None
    /\ cpc' = [cpc EXCEPT ![x] = "removeDir"]
    /\ UNCHANGED <<pc, loc, cli, todo, mapVars, mu, dbMutex, dbVars>>

\* Manager.closeDB: the slot is given back before the instance is closed.
closeDB(x) ==
    /\ cpc[x] = "closeDB"
    /\ dbMutex = None
    /\ dbCount' = IF dbCount > 0 THEN dbCount - 1 ELSE dbCount
    /\ cpc' = [cpc EXCEPT ![x] = "removeDir"]
    /\ UNCHANGED <<pc, loc, cli, todo, mapVars, mu, dbMutex,
                   db, conn, inst, privateDirs, warned, failed>>

\* Variant: the directory is left in place.
removeDirSkipped(x) ==
    /\ cpc[x] = "removeDir"
    /\ cpc' = [cpc EXCEPT ![x] = "closeInst"]
    /\ UNCHANGED <<pc, loc, cli, todo, mapVars, mu, dbMutex, dbVars>>

\* closeDuckDB: RemoveAll of the private directory; an error is logged.
removeDir(x) ==
    /\ cpc[x] = "removeDir"
    /\ \/ /\ privateDirs' = privateDirs \ {id[x]}
          /\ UNCHANGED warned
       \/ /\ warned' = warned \cup {x}
          /\ UNCHANGED privateDirs
    /\ cpc' = [cpc EXCEPT ![x] = "closeInst"]
    /\ UNCHANGED <<pc, loc, cli, todo, mapVars, mu, dbMutex,
                   db, conn, dbCount, inst, failed>>

\* closeDuckDB: db.Close; back in close and closeConn: db = nil, mu.Unlock.
closeDuckDB(x) ==
    /\ cpc[x] = "closeInst"
    /\ inst' = inst \ {x}
    /\ db' = db \ {x}
    /\ mu' = [mu EXCEPT ![x] = None]
    /\ cpc' = [cpc EXCEPT ![x] = "closedDB"]
    /\ UNCHANGED <<pc, loc, cli, todo, mapVars, dbMutex,
                   conn, dbCount, privateDirs, warned, failed>>

-----------------------------------------------------------------------------

\* All connections of the model have come and gone.
Finished ==
    /\ \A c \in Conns : pc[c] = "closed" /\ cpc[c] \in {"noDB", "closedDB"}
    /\ UNCHANGED vars

\* Steps that depend on the peer, and need not happen.
Peer(c) ==
    \/ Accept(c) \/ handleQuery(c) \/ handleStatusConnections(c) \/ ConnState(c)

\* Steps that wait for a lock.
Acquire(c) ==
    \/ LockClients(c) \/ withNewClient(c) \/ Client(c) \/ Conn(c)
    \/ openDBMax(c) \/ openDB(c) \/ Databases(c) \/ rangeVisit(c)
    \/ closeConn(c) \/ closerLock(c) \/ closeDB(c)

\* Steps a running goroutine takes by itself.
Run(c) ==
    \/ storeConn(c) \/ ConnReturn(c) \/ ConnOpen(c)
    \/ mkdirError(c) \/ getPrivateDir(c) \/ connectError(c)
    \/ connectDuckDB(c) \/ queryDone(c) \/ rangeNext(c) \/ yield(c)
    \/ rangeEnd(c) \/ closeClient(c) \/ removeDir(c) \/ closeDuckDB(c)

Next ==
    \/ \E c \in Conns : Peer(c) \/ Acquire(c) \/ Run(c)
    \/ Finished

Spec == Init /\ [][Next]_vars

-----------------------------------------------------------------------------
TypeOK ==
    /\ pc \in [Conns -> PCs]
    /\ cpc \in [Conns -> CPCs]
    /\ loc \in [Conns -> IDs \cup {None}]
    /\ cli \in [Conns -> Conns \cup {None}]
    /\ todo \in [Conns -> SUBSET IDs]
    /\ connToID \in [Conns -> IDs \cup {None}]
    /\ clients \in [IDs -> Conns \cup {None}]
    /\ id \in [Conns -> IDs \cup {None}]
    /\ mu \in [Conns -> Conns \cup {Closer, None}]
    /\ db \subseteq Conns /\ conn \subseteq Conns /\ inst \subseteq Conns
    /\ dbCount \in Nat
    /\ dbMutex \in Conns \cup {None}
    /\ privateDirs \subseteq IDs
    /\ warned \subseteq Conns /\ failed \subseteq Conns

\* Manager.dbCount is exact whatever the goroutines do: it counts the open
\* databases that closeDB has not given back, never exceeds MaxDB, and the
\* guard "if m.dbCount > 0" of closeDB never has to hide an underflow.
SlotAccounting ==
    /\ dbCount = Cardinality(Held)
    /\ dbCount <= MaxDB
    /\ \A x \in Conns : cpc[x] = "closeDB" => dbCount > 0

\* The flag -maxdb is the "maximum number of DB instances", but a slot is
\* given back before its instance is closed: the live DuckDB instances exceed
\* MaxDB by at most those whose slot closeDB has given back already.
InstanceBound ==
    Cardinality(inst) <= MaxDB + Cardinality({x \in inst : cpc[x] \in Releasing})

\* A query runs on the database of its own connection, which is open and
\* stays open while the query runs, whatever IDs rand.Uint32 returned.
OwnDatabase ==
    \A c \in Conns :
        /\ pc[c] \in Querying => cli[c] = c
        /\ pc[c] = "query" => c \in conn \cap inst

\* No DuckDB instance is forgotten: its client is registered, so that the
\* end of the connection will find it, or its closing goroutine is at work.
NoOrphan ==
    \A x \in inst :
        \/ id[x] # None /\ clients[id[x]] = x
        \/ cpc[x] \in {"start"} \cup CloserMu

\* The fields db and conn of a client are used by one goroutine at a time:
\* Client.Conn, the status report and Client.close exclude each other.
ClientExclusive ==
    \A x \in Conns :
        LET users == {d \in Conns : pc[d] \in ConnMu \cup {"yield"} /\ cli[d] = x}
        IN  /\ Cardinality(users) <= 1
            /\ cpc[x] \in CloserMu => users = {}

\* A status report reads the statistics of a live instance only, and the
\* reported client stays registered for as long as the report takes.
ReportsLiveDB ==
    \A c \in Conns :
        pc[c] = "yield" => /\ cli[c] \in inst
                           /\ clients[id[cli[c]]] = cli[c]

\* rand.Uint32 gave no other connection the ID of x.
SoleID(x) == \A y \in Conns \ {x} : id[y] # id[x]

\* While a connection can use its database, its private directory exists,
\* unless rand.Uint32 gave its ID to another connection too.
DirWhileOpen ==
    \A x \in inst : SoleID(x) /\ cpc[x] # "closeInst" => id[x] \in privateDirs

\* A directory outlives its connection only if the failure to remove it was
\* logged, or if the connection never got a database, its last opening having
\* failed when the directory was made: nobody removes it then.
DirReaped ==
    \A x \in Conns :
        SoleID(x) /\ id[x] \in privateDirs =>
            /\ cpc[x] = "closedDB" => x \in warned
            /\ cpc[x] = "noDB" => x \in failed

\* README: the private directory of a connection is there while its database
\* can be used, and is removed with the connection.  The exceptions are the two
\* of DirReaped, and an ID that was drawn twice.
DirLife == DirWhileOpen /\ DirReaped

\* README: every TCP connection has a private directory of its own.  Two live
\* databases share one only when a random ID came back while the closing
\* goroutine of the connection that had it was still at work; two open
\* connections never do.
DirSharedOnlyClosing ==
    \A x, y \in inst :
        x # y /\ id[x] = id[y] => cpc[x] # "none" \/ cpc[y] # "none"

-----------------------------------------------------------------------------
(* Progress.  sync.Mutex and sync.RWMutex hand a lock over to whoever      *)
(* waits long enough, hence the strong fairness of the acquiring steps; a  *)
(* random ID that is free is drawn eventually.  Opening a database and a   *)
(* query are taken to end.  A write of a status report need not: Serve     *)
(* sets no write timeout, so it ends only if the peer reads.               *)

Fairness ==
    \A c \in Conns :
        /\ WF_vars(Run(c) /\ pc[c] # "yield")
        /\ SF_vars(Acquire(c))
        /\ SF_vars(withNewClient(c) /\ pc'[c] = "store")

FairSpec == Spec /\ Fairness

\* No client of a status report leaves it unread for ever.
PeersRead == \A d \in Conns : []<>(pc[d] # "yield")

\* Every accepted connection is served: nothing but a report that its client
\* does not read keeps the accept loop out of the client map for ever.
AcceptServed ==
    PeersRead => \A c \in Conns : pc[c] = "accept" ~> pc[c] = "idle"

\* Every query and every status request is answered, if reports are read.
RequestAnswered ==
    PeersRead =>
        \A c \in Conns : pc[c] \in {"client", "databases"} ~> pc[c] = "idle"

-----------------------------------------------------------------------------
(* The promise made to a connection (module DBPool).                       *)

link ==
    [c \in Conns |->
        IF pc[c] = "new" \/ pc[c] \in Accepting THEN "new"
        ELSE IF pc[c] \in {"closeLk", "closeW", "closed"} THEN "down"
        ELSE "up"]

session ==
    [c \in Conns |->
        IF c \in db THEN IF cpc[c] \in Releasing THEN "draining" ELSE "held"
        ELSE IF cpc[c] = "closedDB" THEN "gone" ELSE "none"]

Pool == INSTANCE DBPool WITH link <- link, session <- session

\* The manager implements the pool: one slot per connection, taken only
\* while the connection is up, given back only after it went down.
PoolSpec == Pool!Spec

\* Ended connections give back slot and instance, if reports are read.
PoolFairSpec == Pool!Spec /\ (PeersRead => Pool!Fairness)

=============================================================================
