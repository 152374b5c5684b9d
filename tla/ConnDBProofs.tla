---------------------------- MODULE ConnDBProofs ----------------------------
(***************************************************************************)
(* Proofs about ConnDB, for every set of connections and IDs and every     *)
(* MaxDB.  IInv is the inductive invariant; its parts say who is           *)
(* registered where, who holds which lock, and which clients are open.     *)
(***************************************************************************)
EXTENDS ConnDB, FiniteSetTheorems, TLAPS

Live    == {"idle", "client", "databases"} \cup Querying \cup Ranging
Closing == {"closeLk", "closeW"}
Known   == {"store"} \cup Live \cup Closing   \* has an entry in clients

\* The key under which a known client is registered.
Key(c) == IF pc[c] = "store" THEN loc[c] ELSE id[c]

\* The two maps and the IDs in the clients agree.
Registry ==
    /\ \A c \in Conns : pc[c] \in Known => Key(c) \in IDs /\ clients[Key(c)] = c
    /\ \A i \in IDs : clients[i] # None =>
          pc[clients[i]] \in Known /\ Key(clients[i]) = i
    /\ \A c \in Conns : pc[c] \in Live => connToID[c] = id[c]
    /\ \A c \in Conns : pc[c] \in Closing => loc[c] = id[c]
    /\ \A c \in Conns : id[c] = None <=> pc[c] \in {"new"} \cup Accepting

\* A Range works on registered clients: no writer enters while it lasts.
RangeSafe ==
    \A c \in Conns :
        /\ pc[c] \in Ranging => \A i \in todo[c] : clients[i] # None
        /\ pc[c] \in {"visit", "yield"} =>
              cli[c] \in Conns /\ pc[cli[c]] \in Known
        /\ pc[c] = "yield" => cli[c] \in db

\* Who holds the mutexes.
Locks ==
    /\ \A c \in Conns : pc[c] \in Querying => cli[c] = c
    /\ \A c \in Conns : pc[c] \in ConnMu \cup {"yield"} => mu[cli[c]] = c
    /\ \A x \in Conns : cpc[x] \in CloserMu => mu[x] = Closer
    /\ \A c \in Conns : pc[c] \in Opening => dbMutex = c

\* A client is closed once, after its connection ended.
CloseOnce == \A c \in Conns : cpc[c] # "none" <=> pc[c] = "closed"

\* Which clients have a database.
Open ==
    /\ inst = db /\ conn \subseteq db
    /\ \A x \in db : /\ pc[x] \in Live \cup Closing \cup {"closed"}
                     /\ pc[x] = "closed" => cpc[x] \in {"start"} \cup CloserMu
                     /\ x \notin conn => cpc[x] \in {"closeDB"} \cup Releasing
    /\ \A x \in Conns : cpc[x] \in {"closeDB"} \cup Releasing => x \in db \ conn
    /\ \A c \in Conns : pc[c] \in {"openDB"} \cup Opening => c \notin db
    /\ \A c \in Conns : pc[c] = "query" => c \in conn

\* The count is exact, and room for one more is kept while a database opens.
Slots ==
    /\ dbCount = Cardinality(Held)
    /\ dbCount <= MaxDB
    /\ \A c \in Conns : pc[c] \in Opening => dbCount < MaxDB

\* Who owns which private directory, as long as no ID is drawn twice.
Dirs ==
    /\ \A c \in Conns : pc[c] = "openDuckDB" /\ SoleID(c) => id[c] \in privateDirs
    /\ DirWhileOpen
    /\ \A x \in Conns : cpc[x] = "closeInst" /\ SoleID(x) =>
          id[x] \notin privateDirs \/ x \in warned
    /\ \A i \in privateDirs : \E x \in Conns : id[x] = i
    /\ \A x \in warned : cpc[x] \in {"closeInst", "closedDB"}
    /\ \A x \in Conns : SoleID(x) /\ id[x] \in privateDirs =>
          x \in inst \cup failed \cup warned \/ pc[x] = "openDuckDB"
    /\ DirReaped

Core == TypeOK /\ Registry /\ RangeSafe /\ Locks /\ CloseOnce /\ Open
IInv == Core /\ Slots /\ Dirs

-----------------------------------------------------------------------------
(* The initial states.                                                     *)

\* No connection is open at the start: Init satisfies every part of IInv.
LEMMA InitIInv == Init => IInv
<1> SUFFICES ASSUME Init PROVE IInv
  OBVIOUS
<1> USE ConnDBAssumption DEF Init
<1>1. Core
  BY DEF Core, TypeOK, Registry, RangeSafe, Locks, CloseOnce, Open, PCs, CPCs,
         Accepting, Opening, ConnMu, Querying, Ranging, Releasing, CloserMu,
         Live, Closing, Known, Key
<1>2. Slots
  <2>1. Held = {}
    BY DEF Held
  <2>2. Cardinality(Held) = 0
    BY <2>1, FS_EmptySet
  <2>3. QED
    BY <2>2 DEF Slots, Opening
<1>3. Dirs
  BY DEF Dirs, DirWhileOpen, DirReaped
<1>4. QED
  BY <1>1, <1>2, <1>3 DEF IInv

-----------------------------------------------------------------------------
(* Registration, locks and open clients: one step per action.              *)

\* Every step of a goroutine keeps the maps, the locks and the clients'
\* fields consistent with each other.
LEMMA CoreStep ==
  ASSUME IInv, NEW c \in Conns, Peer(c) \/ Acquire(c) \/ Run(c)
  PROVE  Core'
<1> USE ConnDBAssumption
    DEF IInv, Core, TypeOK, Registry, RangeSafe, Locks, CloseOnce, Open, Slots,
        mapVars, dbVars, Goto, Key, PCs, CPCs, Accepting, Opening, ConnMu,
        Querying, Ranging, Releasing, CloserMu, Live, Closing, Known
<1>1. CASE Accept(c)
  BY <1>1 DEF Accept
<1>2. CASE handleQuery(c)
  BY <1>2 DEF handleQuery
<1>3. CASE handleStatusConnections(c)
  BY <1>3 DEF handleStatusConnections
<1>4. CASE ConnState(c)
  BY <1>4 DEF ConnState
<1>5. CASE LockClients(c)
  BY <1>5 DEF LockClients, WriterPending
<1>6. CASE withNewClient(c)
  BY <1>6 DEF withNewClient, Readers
<1>7. CASE Client(c)
  BY <1>7 DEF Client, WriterPending
<1>8. CASE Conn(c)
  BY <1>8 DEF Conn
<1>9. CASE openDBMax(c)
  BY <1>9 DEF openDBMax, ConnError, Return
<1>10. CASE openDB(c)
  BY <1>10 DEF openDB
<1>11. CASE Databases(c)
  BY <1>11 DEF Databases, WriterPending
<1>12. CASE rangeVisit(c)
  BY <1>12 DEF rangeVisit
<1>13. CASE closeConn(c)
  BY <1>13 DEF closeConn, Readers
<1>14. CASE closerLock(c)
  BY <1>14 DEF closerLock
<1>15. CASE closeDB(c)
  BY <1>15 DEF closeDB
<1>16. CASE storeConn(c)
  BY <1>16 DEF storeConn
<1>17. CASE ConnReturn(c)
  BY <1>17 DEF ConnReturn
<1>18. CASE ConnOpen(c)
  BY <1>18 DEF ConnOpen
<1>19. CASE mkdirError(c)
  BY <1>19 DEF mkdirError, ConnError, Return
<1>20. CASE getPrivateDir(c)
  BY <1>20 DEF getPrivateDir
<1>21. CASE connectError(c)
  BY <1>21 DEF connectError, ConnError, Return
<1>22. CASE connectDuckDB(c)
  BY <1>22 DEF connectDuckDB
<1>23. CASE queryDone(c)
  BY <1>23 DEF queryDone, Return
<1>24. CASE rangeNext(c)
  BY <1>24 DEF rangeNext
<1>25. CASE yield(c)
  <2>1. CASE Return(c)
    BY <1>25, <2>1 DEF yield, Return
  <2>2. CASE Goto(c, "range") /\ UNCHANGED <<cli, todo>>
    BY <1>25, <2>2 DEF yield
  <2>3. QED
    BY <1>25, <2>1, <2>2 DEF yield
<1>26. CASE rangeEnd(c)
  BY <1>26 DEF rangeEnd, Return
<1>27. CASE closeClient(c)
  BY <1>27 DEF closeClient
<1>28. CASE removeDir(c)
  BY <1>28 DEF removeDir
<1>29. CASE closeDuckDB(c)
  BY <1>29 DEF closeDuckDB
<1>30. QED
  BY <1>1, <1>2, <1>3, <1>4, <1>5, <1>6, <1>7, <1>8, <1>9, <1>10, <1>11,
     <1>12, <1>13, <1>14, <1>15, <1>16, <1>17, <1>18, <1>19, <1>20,
     <1>21, <1>22, <1>23, <1>24, <1>25, <1>26, <1>27, <1>28, <1>29 DEF
     Peer, Acquire, Run

-----------------------------------------------------------------------------
(* The slots.                                                              *)

\* Only connectDuckDB and closeDB change the set of held slots; for every
\* other step the count and the set it counts are both left alone.
LEMMA SlotsKept ==
  ASSUME IInv, Held' = Held, dbCount' = dbCount,
         \A d \in Conns : pc'[d] \in Opening =>
            pc[d] \in Opening \/ dbCount < MaxDB
  PROVE  Slots'
BY DEF IInv, Slots

\* dbCount stays the number of held slots: connectDuckDB adds one member,
\* for which openDB kept room under dbMutex, and closeDB removes one.
LEMMA SlotsStep ==
  ASSUME IInv, NEW c \in Conns, Peer(c) \/ Acquire(c) \/ Run(c)
  PROVE  Slots'
<1> USE ConnDBAssumption DEF mapVars, dbVars
<1>0. /\ IsFiniteSet(Held)
      /\ Cardinality(Held) \in Nat
  <2>1. Held \subseteq Conns
    BY DEF IInv, Core, TypeOK, Held
  <2>2. QED
    BY <2>1, FS_Subset, FS_CardinalityType
<1>1. CASE connectDuckDB(c)
  <2>1. /\ c \notin Held
        /\ Held' = Held \cup {c}
    BY <1>1 DEF connectDuckDB, IInv, Core, Locks, Open, CloseOnce, Held,
                Querying, ConnMu, Opening, Releasing, TypeOK
  <2>2. Cardinality(Held') = Cardinality(Held) + 1
    BY <2>1, <1>0, FS_AddElement
  <2>3. \A d \in Conns : pc'[d] \notin Opening
    BY <1>1 DEF connectDuckDB, Goto, IInv, Core, Locks, Opening, TypeOK
  <2>4. dbCount < MaxDB
    BY <1>1 DEF connectDuckDB, IInv, Slots, Opening
  <2>5. QED
    BY <1>1, <2>2, <2>3, <2>4 DEF connectDuckDB, IInv, Slots, Core, TypeOK
<1>2. CASE closeDB(c)
  <2>1. /\ c \in Held
        /\ Held' = Held \ {c}
    BY <1>2 DEF closeDB, IInv, Core, Open, Held, Releasing, TypeOK
  <2>2. Cardinality(Held') = Cardinality(Held) - 1
    BY <2>1, <1>0, FS_RemoveElement
  <2>3. Cardinality(Held) # 0
    BY <2>1, <1>0, FS_EmptySet
  <2>4. QED
    BY <1>0, <1>2, <2>2, <2>3 DEF closeDB, IInv, Slots, Core, TypeOK
<1>3. CASE openDB(c)
  BY <1>3, SlotsKept DEF openDB, Held, Goto, IInv, Core, TypeOK
<1>4. CASE closeConn(c) \/ closerLock(c) \/ closeClient(c)
  <2>0. closeConn(c) => clients[loc[c]] = c /\ cpc[c] = "none"
    BY DEF closeConn, IInv, Core, Registry, CloseOnce, Known, Closing, Key
  <2>1. Held' = Held
    BY <1>4, <2>0 DEF closeConn, closerLock, closeClient, Held, Releasing,
                      IInv, Core, TypeOK
  <2>2. QED
    BY <1>4, <2>1, SlotsKept
    DEF closeConn, closerLock, closeClient, Goto, Opening, IInv, Core, TypeOK
<1>5. CASE removeDir(c) \/ closeDuckDB(c)
  <2>1. Held' = Held
    BY <1>5 DEF removeDir, closeDuckDB, Held, Releasing, IInv, Core, TypeOK
  <2>2. QED
    BY <1>5, <2>1, SlotsKept DEF removeDir, closeDuckDB
<1>6. ASSUME UNCHANGED <<cpc, db, dbCount>>, NEW l \in PCs \ Opening, Goto(c, l)
      PROVE  Slots'
  BY <1>6, SlotsKept DEF Held, Goto, IInv, Core, TypeOK
<1>7. CASE Peer(c)
  BY <1>7, <1>6 DEF Peer, Accept, handleQuery, handleStatusConnections,
     ConnState, Goto, PCs, Accepting, Opening
<1>8. CASE LockClients(c) \/ withNewClient(c) \/ storeConn(c)
  BY <1>8, <1>6 DEF LockClients, withNewClient, storeConn, Goto, PCs, Accepting, Opening
<1>9. CASE Client(c) \/ Conn(c) \/ ConnReturn(c) \/ ConnOpen(c)
  BY <1>9, <1>6 DEF Client, Conn, ConnReturn, ConnOpen, Goto, PCs, Querying, ConnMu, Opening
<1>10. CASE openDBMax(c) \/ mkdirError(c) \/ connectError(c) \/ queryDone(c)
  BY <1>10, <1>6 DEF openDBMax, mkdirError, connectError, queryDone, ConnError, Return, Goto, PCs, Opening
<1>11. CASE getPrivateDir(c)
  BY <1>11, SlotsKept DEF getPrivateDir, Held, Goto, IInv, Core, TypeOK, Opening
<1>12. CASE Databases(c) \/ rangeNext(c) \/ rangeVisit(c) \/ yield(c) \/ rangeEnd(c)
  BY <1>12, <1>6 DEF Databases, rangeNext, rangeVisit, yield, rangeEnd, Return, Goto, PCs, Ranging, Opening
<1>13. QED
  BY <1>1, <1>2, <1>3, <1>4, <1>5, <1>7, <1>8, <1>9, <1>10, <1>11, <1>12
  DEF Peer, Acquire, Run

-----------------------------------------------------------------------------
(* The private directories.                                                *)

\* A step that changes no directory, no ID and no closing goroutine, and
\* does not finish opening, leaves the directories as they should be.
LEMMA DirsKept ==
  ASSUME IInv, UNCHANGED <<cpc, id, inst, privateDirs, warned, failed>>,
         \A d \in Conns : pc'[d] = "openDuckDB" <=> pc[d] = "openDuckDB"
  PROVE  Dirs'
BY DEF IInv, Dirs, DirWhileOpen, DirReaped, SoleID

\* Only the owner of an ID makes and removes the directory of that name:
\* getPrivateDir and removeDir leave the directories of other IDs alone.
LEMMA DirsStep ==
  ASSUME IInv, NEW c \in Conns, Peer(c) \/ Acquire(c) \/ Run(c)
  PROVE  Dirs'
<1> USE ConnDBAssumption DEF mapVars, dbVars
<1>1. CASE storeConn(c)
  <2>1. c \notin inst /\ cpc[c] = "none" /\ id[c] = None
    BY <1>1 DEF storeConn, IInv, Core, Open, CloseOnce, Registry, Accepting,
                Live, Closing, Querying, ConnMu, Opening, Ranging
  <2>2. \A x \in Conns : id[x] # None /\ SoleID(x)' => x # c /\ SoleID(x)
    BY <1>1, <2>1 DEF storeConn, SoleID, IInv, Core, TypeOK
  <2>3. \A x \in Conns : pc[x] = "openDuckDB" \/ x \in inst \/ cpc[x] # "none"
                           => id[x] # None
    BY DEF IInv, Core, Registry, Open, CloseOnce, Accepting, Live, Closing,
           Querying, ConnMu, Opening, Ranging, TypeOK
  <2>4. /\ UNCHANGED <<cpc, inst, privateDirs, warned, failed>>
        /\ \A x \in Conns : pc'[x] = "openDuckDB" <=> x # c /\ pc[x] = "openDuckDB"
        /\ \A x \in Conns \ {c} : id'[x] = id[x]
    BY <1>1 DEF storeConn, Goto, IInv, Core, TypeOK
  <2>5. \A x \in Conns : SoleID(x)' /\ id'[x] \in privateDirs' => x # c /\ id'[x] # None
    BY <2>1, <2>4, ConnDBAssumption DEF SoleID, IInv, Dirs, Core, TypeOK
  <2>6. \A i \in privateDirs' : \E x \in Conns : id'[x] = i
    BY <2>1, <2>4, ConnDBAssumption DEF IInv, Dirs, Core, TypeOK
  <2>7. QED
    BY <2>1, <2>2, <2>3, <2>4, <2>5, <2>6
    DEF IInv, Dirs, DirWhileOpen, DirReaped, Core, TypeOK
<1>2. CASE getPrivateDir(c)
  <2>1. cli[c] = c /\ cpc[c] = "none" /\ c \notin inst
    BY <1>2 DEF getPrivateDir, IInv, Core, Locks, Open, CloseOnce, Querying,
                ConnMu, Opening
  <2>2. QED
    BY <1>2, <2>1 DEF getPrivateDir, Goto, IInv, Core, TypeOK, Dirs,
                      DirWhileOpen, DirReaped, SoleID
<1>3. CASE connectDuckDB(c)
  <2>1. cli[c] = c /\ cpc[c] = "none"
    BY <1>3 DEF connectDuckDB, IInv, Core, Locks, CloseOnce, Querying, ConnMu, Opening
  <2>2. QED
    BY <1>3, <2>1 DEF connectDuckDB, Goto, IInv, Core, TypeOK, Dirs,
                      DirWhileOpen, DirReaped, SoleID
<1>4. CASE removeDir(c)
  <2>1. pc[c] = "closed"
    BY <1>4 DEF removeDir, IInv, Core, CloseOnce
  <2>2. QED
    BY <1>4, <2>1 DEF removeDir, IInv, Core, TypeOK, Dirs, DirWhileOpen,
                      DirReaped, SoleID
<1>5. CASE closeDuckDB(c)
  BY <1>5 DEF closeDuckDB, IInv, Core, TypeOK, Dirs, DirWhileOpen, DirReaped, SoleID
<1>6. CASE closeConn(c)
  <2>1. clients[loc[c]] = c /\ cpc[c] = "none"
    BY <1>6 DEF closeConn, IInv, Core, Registry, CloseOnce, Known, Closing, Key
  <2>2. QED
    BY <1>6, <2>1 DEF closeConn, Goto, IInv, Core, TypeOK, Dirs, DirWhileOpen,
                      DirReaped, SoleID
<1>7. CASE closerLock(c) \/ closeClient(c) \/ closeDB(c)
  <2>1. pc[c] = "closed" /\ inst = db
    BY <1>7 DEF closerLock, closeClient, closeDB, IInv, Core, CloseOnce, Open
  <2>2. QED
    BY <1>7, <2>1 DEF closerLock, closeClient, closeDB, IInv, Core, TypeOK, Dirs,
                      DirWhileOpen, DirReaped, SoleID
<1>8. CASE Peer(c) \/ LockClients(c) \/ withNewClient(c)
  BY <1>8, DirsKept DEF Peer, Accept, handleQuery, handleStatusConnections,
     ConnState, LockClients, withNewClient, Goto, IInv, Core, TypeOK
<1>9. CASE Client(c) \/ Conn(c) \/ ConnReturn(c) \/ ConnOpen(c) \/ openDB(c)
  BY <1>9, DirsKept DEF Client, Conn, ConnReturn, ConnOpen, openDB, Goto,
     IInv, Core, TypeOK
<1>10. CASE openDBMax(c) \/ mkdirError(c) \/ queryDone(c)
  BY <1>10, DirsKept DEF openDBMax, mkdirError, queryDone,
     ConnError, Return, Goto, IInv, Core, TypeOK
<1>12. CASE connectError(c)
  <2>1. cli[c] = c
    BY <1>12 DEF connectError, IInv, Core, Locks, Querying, ConnMu, Opening
  <2>2. QED
    BY <1>12, <2>1 DEF connectError, ConnError, Return, Goto, IInv, Core, TypeOK, Dirs,
                       DirWhileOpen, DirReaped, SoleID
<1>11. CASE Databases(c) \/ rangeNext(c) \/ rangeVisit(c) \/ yield(c) \/ rangeEnd(c)
  BY <1>11, DirsKept DEF Databases, rangeNext, rangeVisit, yield, rangeEnd,
     Return, Goto, IInv, Core, TypeOK
<1>13. QED
  BY <1>1, <1>2, <1>3, <1>4, <1>5, <1>6, <1>7, <1>8, <1>9, <1>10, <1>11, <1>12
  DEF Acquire, Run

-----------------------------------------------------------------------------
(* The invariant, and what follows from it.                                *)

\* IInv is inductive.
LEMMA NextIInv == IInv /\ [Next]_vars => IInv'
<1> SUFFICES ASSUME IInv, [Next]_vars PROVE IInv'
  OBVIOUS
<1>1. CASE UNCHANGED vars
  BY <1>1 DEF vars, IInv, Core, TypeOK, Registry, RangeSafe, Locks, CloseOnce,
              Open, Slots, Held, Key, Dirs, DirWhileOpen, DirReaped, SoleID
<1>2. ASSUME NEW c \in Conns, Peer(c) \/ Acquire(c) \/ Run(c)
      PROVE  IInv'
  BY <1>2, CoreStep, SlotsStep, DirsStep DEF IInv
<1>3. QED
  BY <1>1, <1>2 DEF Next, Finished

\* IInv holds in every reachable state of the manager.
THEOREM Invariance == Spec => []IInv
BY InitIInv, NextIInv, PTL DEF Spec

\* Every variable keeps its type: no goroutine ever follows a nil client or
\* an ID that was never drawn, whatever the interleaving.
THEOREM TypeCorrect == Spec => []TypeOK
<1>1. IInv => TypeOK
  BY DEF IInv, Core
<1>2. QED
  BY <1>1, Invariance, PTL

\* dbCount is the number of held slots, at most MaxDB, and above zero
\* whenever closeDB decrements it (SlotAccounting).
THEOREM SlotsExact == Spec => []SlotAccounting
<1>1. IInv => SlotAccounting
  <2> SUFFICES ASSUME IInv PROVE SlotAccounting
    OBVIOUS
  <2>1. ASSUME NEW x \in Conns, cpc[x] = "closeDB" PROVE dbCount > 0
    <3>1. Held \subseteq Conns /\ x \in Held
      BY <2>1 DEF IInv, Core, TypeOK, Open, Held, Releasing
    <3>2. IsFiniteSet(Held) /\ Cardinality(Held) # 0
      BY <3>1, ConnDBAssumption, FS_Subset, FS_EmptySet
    <3>3. QED
      BY <3>2, FS_CardinalityType DEF IInv, Slots
  <2>2. QED
    BY <2>1 DEF IInv, Slots, SlotAccounting
<1>2. QED
  BY <1>1, Invariance, PTL

\* The live instances are the held slots and the instances being closed
\* (InstanceBound).
THEOREM InstancesBounded == Spec => []InstanceBound
<1>1. IInv => InstanceBound
  <2> SUFFICES ASSUME IInv PROVE InstanceBound
    OBVIOUS
  <2> DEFINE D == {x \in inst : cpc[x] \in Releasing}
  <2>1. /\ inst = Held \cup D
        /\ Held \cap D = {}
        /\ Held \subseteq Conns /\ D \subseteq Conns
    BY DEF IInv, Core, TypeOK, Open, Held
  <2>2. IsFiniteSet(Held) /\ IsFiniteSet(D)
    BY <2>1, ConnDBAssumption, FS_Subset
  <2>3. Cardinality(Held) \in Nat /\ Cardinality(D) \in Nat
    BY <2>2, FS_CardinalityType
  <2>4. Cardinality(inst) = Cardinality(Held) + Cardinality(D)
    <3>1. Cardinality(Held \cup D) =
            Cardinality(Held) + Cardinality(D) - Cardinality(Held \cap D)
      BY <2>2, FS_Union
    <3>2. Cardinality(Held \cap D) = 0
      BY <2>1, FS_EmptySet
    <3>3. QED
      BY <2>1, <2>3, <3>1, <3>2
  <2>5. QED
    BY <2>3, <2>4, ConnDBAssumption DEF IInv, Slots, InstanceBound
<1>2. QED
  BY <1>1, Invariance, PTL

\* A query runs on the open database of its own connection (OwnDatabase).
THEOREM OwnDatabaseAlways == Spec => []OwnDatabase
<1>1. IInv => OwnDatabase
  BY DEF IInv, Core, Locks, Open, OwnDatabase
<1>2. QED
  BY <1>1, Invariance, PTL

\* A live instance is registered or being closed, never forgotten (NoOrphan).
THEOREM NoOrphanAlways == Spec => []NoOrphan
<1>1. IInv => NoOrphan
  BY ConnDBAssumption
  DEF IInv, Core, TypeOK, Registry, Open, NoOrphan, Key, Known, Live, Closing,
      Querying, ConnMu, Opening, Ranging
<1>2. QED
  BY <1>1, Invariance, PTL

\* One goroutine at a time works on the fields of a client: all of them hold
\* its mutex, which has one owner (ClientExclusive).
THEOREM ClientExclusiveAlways == Spec => []ClientExclusive
<1>1. IInv => ClientExclusive
  <2> SUFFICES ASSUME IInv, NEW x \in Conns
               PROVE  LET U == {d \in Conns :
                                  pc[d] \in ConnMu \cup {"yield"} /\ cli[d] = x}
                      IN  /\ Cardinality(U) <= 1
                          /\ cpc[x] \in CloserMu => U = {}
    BY DEF ClientExclusive
  <2> DEFINE U == {d \in Conns : pc[d] \in ConnMu \cup {"yield"} /\ cli[d] = x}
  <2>1. \A d \in U : mu[x] = d
    BY DEF IInv, Core, Locks
  <2>2. U = {} \/ \E d \in Conns : U = {d}
    BY <2>1
  <2>3. Cardinality(U) <= 1
    <3>1. CASE U = {}
      BY <3>1, FS_EmptySet
    <3>2. ASSUME NEW d \in Conns, U = {d} PROVE Cardinality(U) <= 1
      BY <3>2, FS_Singleton
    <3>3. QED
      BY <2>2, <3>1, <3>2
  <2>4. cpc[x] \in CloserMu => U = {}
    BY <2>1, ConnDBAssumption DEF IInv, Core, Locks
  <2>5. QED
    BY <2>3, <2>4
<1>2. QED
  BY <1>1, Invariance, PTL

\* A status report reads a live, registered instance (ReportsLiveDB).
THEOREM ReportsLiveDBAlways == Spec => []ReportsLiveDB
<1>1. IInv => ReportsLiveDB
  BY DEF IInv, Core, RangeSafe, Open, Registry, Known, Key, Live, Closing,
         ReportsLiveDB, Querying, ConnMu, Opening, Ranging
<1>2. QED
  BY <1>1, Invariance, PTL

\* A usable database has its private directory, and a closed connection leaves
\* none behind but after a warning or a failed opening, unless its ID was drawn
\* twice (DirLife).
THEOREM DirLifeAlways == Spec => []DirLife
<1>1. IInv => DirLife
  BY DEF IInv, Dirs, DirLife
<1>2. QED
  BY <1>1, Invariance, PTL

\* Two connections that are both open never share a private directory,
\* whatever IDs were drawn (DirSharedOnlyClosing).
THEOREM DirSharedOnlyClosingAlways == Spec => []DirSharedOnlyClosing
<1>1. IInv => DirSharedOnlyClosing
  BY DEF IInv, Core, TypeOK, Registry, Open, CloseOnce, DirSharedOnlyClosing,
         Known, Key, Live, Closing, Querying, ConnMu, Opening, Ranging
<1>2. QED
  BY <1>1, Invariance, PTL

-----------------------------------------------------------------------------
(* No deadlock: nobody waits for a lock whose owner waits for him.         *)

\* A lock that is taken has an owner that will give it back.
Owners ==
    /\ \A x, d \in Conns : mu[x] = d => pc[d] \in ConnMu \cup {"yield"} /\ cli[d] = x
    /\ \A x \in Conns : mu[x] = Closer => cpc[x] \in CloserMu
    /\ \A c \in Conns : dbMutex = c => pc[c] \in Opening

\* The serving goroutine of c is at work, or the closing goroutine of x is.
Serves(c) == pc[c] \notin {"new", "idle", "closed"}
Closes(x) == cpc[x] \notin {"none", "noDB", "closedDB"}

\* It waits for clients.rw, for the mutex of a client, or for dbMutex.
Waits(c) ==
    \/ pc[c] \in {"accept", "closeLk", "client", "databases"} /\ WriterPending
    \/ pc[c] \in {"acceptW", "closeW"} /\ Readers # {}
    \/ pc[c] \in {"conn", "visit"} /\ mu[cli[c]] # None
    \/ pc[c] = "openDB" /\ dbMutex # None

CloserWaits(x) ==
    \/ cpc[x] = "start" /\ mu[x] # None
    \/ cpc[x] = "closeDB" /\ dbMutex # None

SomeoneRuns ==
    \E c \in Conns : (Serves(c) /\ ~Waits(c)) \/ (Closes(c) /\ ~CloserWaits(c))

\* As long as a goroutine is at work, one of them waits for no lock.
NoLockDeadlock == (\E c \in Conns : Serves(c) \/ Closes(c)) => SomeoneRuns

\* Every Lock of conndb.go has its Unlock on every path.
LEMMA OwnersStep ==
  ASSUME IInv, Owners, NEW c \in Conns, Peer(c) \/ Acquire(c) \/ Run(c)
  PROVE  Owners'
<1> USE ConnDBAssumption
    DEF IInv, Core, TypeOK, Locks, Owners, mapVars, dbVars, Goto, PCs, CPCs,
        Accepting, Opening, ConnMu, Querying, Ranging, Releasing, CloserMu
<1>1. CASE Accept(c)
  BY <1>1 DEF Accept
<1>2. CASE handleQuery(c)
  BY <1>2 DEF handleQuery
<1>3. CASE handleStatusConnections(c)
  BY <1>3 DEF handleStatusConnections
<1>4. CASE ConnState(c)
  BY <1>4 DEF ConnState
<1>5. CASE LockClients(c)
  BY <1>5 DEF LockClients
<1>6. CASE withNewClient(c)
  BY <1>6 DEF withNewClient
<1>7. CASE Client(c)
  BY <1>7 DEF Client
<1>8. CASE Conn(c)
  BY <1>8 DEF Conn
<1>9. CASE openDBMax(c)
  BY <1>9 DEF openDBMax, ConnError, Return
<1>10. CASE openDB(c)
  BY <1>10 DEF openDB
<1>11. CASE Databases(c)
  BY <1>11 DEF Databases
<1>12. CASE rangeVisit(c)
  BY <1>12 DEF rangeVisit
<1>13. CASE closeConn(c)
  <2>1. clients[loc[c]] = c /\ cpc[c] = "none"
    BY <1>13 DEF closeConn, Registry, CloseOnce, Key, Known, Closing
  <2>2. QED
    BY <1>13, <2>1 DEF closeConn
<1>14. CASE closerLock(c)
  BY <1>14 DEF closerLock
<1>15. CASE closeDB(c)
  BY <1>15 DEF closeDB
<1>16. CASE storeConn(c)
  BY <1>16 DEF storeConn
<1>17. CASE ConnReturn(c)
  BY <1>17 DEF ConnReturn
<1>18. CASE ConnOpen(c)
  BY <1>18 DEF ConnOpen
<1>19. CASE mkdirError(c)
  BY <1>19 DEF mkdirError, ConnError, Return
<1>20. CASE getPrivateDir(c)
  BY <1>20 DEF getPrivateDir
<1>21. CASE connectError(c)
  BY <1>21 DEF connectError, ConnError, Return
<1>22. CASE connectDuckDB(c)
  BY <1>22 DEF connectDuckDB
<1>23. CASE queryDone(c)
  BY <1>23 DEF queryDone, Return
<1>24. CASE rangeNext(c)
  BY <1>24 DEF rangeNext
<1>25. CASE yield(c)
  <2>1. CASE Return(c)
    BY <1>25, <2>1 DEF yield, Return
  <2>2. CASE Goto(c, "range") /\ UNCHANGED <<cli, todo>>
    BY <1>25, <2>2 DEF yield
  <2>3. QED
    BY <1>25, <2>1, <2>2 DEF yield
<1>26. CASE rangeEnd(c)
  BY <1>26 DEF rangeEnd, Return
<1>27. CASE closeClient(c)
  BY <1>27 DEF closeClient
<1>28. CASE removeDir(c)
  BY <1>28 DEF removeDir
<1>29. CASE closeDuckDB(c)
  BY <1>29 DEF closeDuckDB
<1>30. QED
  BY <1>1, <1>2, <1>3, <1>4, <1>5, <1>6, <1>7, <1>8, <1>9, <1>10, <1>11,
     <1>12, <1>13, <1>14, <1>15, <1>16, <1>17, <1>18, <1>19, <1>20,
     <1>21, <1>22, <1>23, <1>24, <1>25, <1>26, <1>27, <1>28, <1>29 DEF
     Peer, Acquire, Run

\* The locks are ordered: who holds dbMutex waits for nothing, who holds the
\* mutex of a client at most for dbMutex, who reads the client map at most
\* for the mutex of a client, and a writer of the map only for its readers.
LEMMA LockOrder ==
  ASSUME IInv, Owners
  PROVE  NoLockDeadlock
<1> USE DEF IInv, Core, TypeOK
<1>1. ASSUME dbMutex # None PROVE SomeoneRuns
  <2>1. dbMutex \in Conns /\ pc[dbMutex] \in Opening
    BY <1>1 DEF Owners
  <2>2. Serves(dbMutex) /\ ~Waits(dbMutex)
    BY <2>1 DEF Opening, Serves, Waits
  <2>3. QED
    BY <2>1, <2>2 DEF SomeoneRuns
<1>2. ASSUME NEW x \in Conns, mu[x] # None PROVE SomeoneRuns
  <2>1. CASE mu[x] = Closer
    <3>1. cpc[x] \in CloserMu
      BY <2>1 DEF Owners
    <3>2. Closes(x) /\ (CloserWaits(x) => dbMutex # None)
      BY <3>1 DEF CloserMu, Releasing, Closes, CloserWaits
    <3>3. QED
      BY <1>1, <3>2 DEF SomeoneRuns
  <2>2. ASSUME NEW d \in Conns, mu[x] = d PROVE SomeoneRuns
    <3>1. pc[d] \in ConnMu \cup {"yield"}
      BY <2>2 DEF Owners
    <3>2. Serves(d) /\ (Waits(d) => dbMutex # None)
      BY <3>1 DEF ConnMu, Opening, Serves, Waits
    <3>3. QED
      BY <1>1, <3>2 DEF SomeoneRuns
  <2>3. QED
    BY <1>2, <2>1, <2>2
<1>3. ASSUME NEW d \in Readers PROVE SomeoneRuns
  <2>1. d \in Conns /\ pc[d] \in Ranging
    BY DEF Readers
  <2>2. Serves(d) /\ (Waits(d) => pc[d] = "visit" /\ mu[cli[d]] # None)
    BY <2>1 DEF Ranging, Serves, Waits
  <2>3. pc[d] = "visit" => cli[d] \in Conns
    BY <2>1 DEF RangeSafe
  <2>4. QED
    BY <1>2, <2>1, <2>2, <2>3 DEF SomeoneRuns
<1>4. ASSUME WriterPending PROVE SomeoneRuns
  <2>1. PICK d \in Conns : pc[d] \in {"acceptW", "closeW"}
    BY <1>4 DEF WriterPending
  <2>2. Serves(d) /\ (Waits(d) => Readers # {})
    BY <2>1 DEF Serves, Waits
  <2>3. QED
    BY <1>3, <2>2 DEF SomeoneRuns
<1>5. ASSUME NEW c \in Conns, Serves(c) PROVE SomeoneRuns
  <2>1. pc[c] = "conn" => cli[c] \in Conns
    BY DEF Locks, Querying
  <2>2. pc[c] = "visit" => c \in Readers
    BY DEF Readers, Ranging
  <2>3. Waits(c) => SomeoneRuns
    BY <1>1, <1>2, <1>3, <1>4, <2>1, <2>2 DEF Waits
  <2>4. QED
    BY <1>5, <2>3 DEF SomeoneRuns
<1>6. ASSUME NEW x \in Conns, Closes(x) PROVE SomeoneRuns
  <2>1. CloserWaits(x) => SomeoneRuns
    BY <1>1, <1>2 DEF CloserWaits
  <2>2. QED
    BY <1>6, <2>1 DEF SomeoneRuns
<1>7. QED
  BY <1>5, <1>6 DEF NoLockDeadlock

\* The locks of conndb.go and syncmap.go never block everyone: as long as a
\* goroutine of the manager is at work, one of them waits for no lock.
THEOREM NoLockDeadlockAlways == Spec => []NoLockDeadlock
<1>1. Init => Owners
  BY ConnDBAssumption DEF Init, Owners
<1>2. IInv /\ Owners /\ [Next]_vars => Owners'
  <2> SUFFICES ASSUME IInv, Owners, [Next]_vars PROVE Owners'
    OBVIOUS
  <2>1. CASE UNCHANGED vars
    BY <2>1 DEF Owners, vars
  <2>2. QED
    BY <2>1, OwnersStep DEF Next, Finished
<1>3. IInv /\ Owners => NoLockDeadlock
  BY LockOrder
<1>4. QED
  BY <1>1, <1>2, <1>3, Invariance, PTL DEF Spec

-----------------------------------------------------------------------------
(* ConnDB implements DBPool.                                               *)

\* The instance's copy of Cardinality is Cardinality.
LEMMA PoolCardinality == \A S : Pool!Cardinality(S) = Cardinality(S)
BY Zenon DEF Pool!Cardinality, Cardinality

\* The slots of the pool are the slots the manager counts.
LEMMA PoolSlots == ASSUME IInv PROVE Pool!HeldSlots = Held
BY DEF Pool!HeldSlots, session, Held, IInv, Core, TypeOK

\* A step of the manager is a step of the pool, or leaves it unchanged.
LEMMA PoolStep ==
  ASSUME IInv, IInv', NEW c \in Conns, Peer(c) \/ Acquire(c) \/ Run(c)
  PROVE  Pool!Next \/ UNCHANGED <<link, session>>
<1> USE ConnDBAssumption
    DEF mapVars, dbVars, Goto, link, session, Accepting, IInv, Core, TypeOK
<1>1. CASE storeConn(c)
  <2>1. Pool!Connect(c)
    <3>1. link[c] = "new" /\ link'[c] = "up"
      BY <1>1 DEF storeConn
    <3>2. \A d \in Conns \ {c} : link'[d] = link[d]
      BY <1>1 DEF storeConn
    <3>3. UNCHANGED session
      BY <1>1 DEF storeConn
    <3>4. link' = [link EXCEPT ![c] = "up"]
      BY <3>1, <3>2 DEF link
    <3>5. QED
      BY <3>1, <3>3, <3>4 DEF Pool!Connect
  <2>2. QED
    BY <2>1 DEF Pool!Next
<1>2. CASE connectDuckDB(c)
  <2>1. cli[c] = c /\ c \notin db /\ cpc[c] = "none"
    BY <1>2 DEF connectDuckDB, Locks, Open, CloseOnce, Querying, ConnMu, Opening
  <2>2. Cardinality(Pool!HeldSlots) < MaxDB
    BY <1>2, PoolSlots DEF connectDuckDB, Slots, Opening
  <2>3. Pool!Acquire(c)
    <3>1. link[c] = "up" /\ session[c] = "none" /\ session'[c] = "held"
      BY <1>2, <2>1 DEF connectDuckDB, Releasing
    <3>2. \A d \in Conns \ {c} : session'[d] = session[d]
      BY <1>2, <2>1 DEF connectDuckDB
    <3>3. UNCHANGED link
      BY <1>2 DEF connectDuckDB
    <3>4. session' = [session EXCEPT ![c] = "held"]
      BY <3>1, <3>2 DEF session
    <3>5. QED
      BY <2>2, <3>1, <3>3, <3>4, PoolCardinality DEF Pool!Acquire
  <2>4. QED
    BY <2>3 DEF Pool!Next
<1>3. CASE ConnState(c)
  <2>1. Pool!Disconnect(c)
    <3>1. link[c] = "up" /\ link'[c] = "down"
      BY <1>3 DEF ConnState
    <3>2. \A d \in Conns \ {c} : link'[d] = link[d]
      BY <1>3 DEF ConnState
    <3>3. UNCHANGED session
      BY <1>3 DEF ConnState
    <3>4. link' = [link EXCEPT ![c] = "down"]
      BY <3>1, <3>2 DEF link
    <3>5. QED
      BY <3>1, <3>3, <3>4 DEF Pool!Disconnect
  <2>2. QED
    BY <2>1 DEF Pool!Next
<1>4. CASE closeDB(c)
  <2>1. pc[c] = "closed" /\ c \in db
    BY <1>4 DEF closeDB, Open, CloseOnce
  <2>2. Pool!Release(c)
    <3>1. link[c] = "down" /\ session[c] = "held" /\ session'[c] = "draining"
      BY <1>4, <2>1 DEF closeDB, Releasing
    <3>2. \A d \in Conns \ {c} : session'[d] = session[d]
      BY <1>4 DEF closeDB
    <3>3. UNCHANGED link
      BY <1>4 DEF closeDB
    <3>4. session' = [session EXCEPT ![c] = "draining"]
      BY <3>1, <3>2 DEF session
    <3>5. QED
      BY <3>1, <3>3, <3>4 DEF Pool!Release
  <2>3. QED
    BY <2>2 DEF Pool!Next
<1>5. CASE closeDuckDB(c)
  <2>1. c \in db
    BY <1>5 DEF closeDuckDB, Open, Releasing
  <2>2. Pool!Finish(c)
    BY <1>5, <2>1 DEF closeDuckDB, Pool!Finish, Releasing
  <2>3. QED
    BY <2>2 DEF Pool!Next
<1>6. CASE closeConn(c)
  <2>1. clients[loc[c]] = c /\ cpc[c] = "none"
    BY <1>6 DEF closeConn, Registry, CloseOnce, Known, Closing, Key
  <2>2. QED
    BY <1>6, <2>1 DEF closeConn, Releasing
<1>7. CASE closerLock(c) \/ closeClient(c) \/ removeDir(c)
  BY <1>7 DEF closerLock, closeClient, removeDir, Releasing, CloserMu, Open
<1>8. CASE Accept(c) \/ handleQuery(c) \/ handleStatusConnections(c)
  BY <1>8 DEF Accept, handleQuery, handleStatusConnections
<1>9. CASE LockClients(c) \/ withNewClient(c)
  BY <1>9 DEF LockClients, withNewClient
<1>10. CASE Client(c) \/ Conn(c) \/ ConnReturn(c) \/ ConnOpen(c)
  BY <1>10 DEF Client, Conn, ConnReturn, ConnOpen
<1>11. CASE openDBMax(c) \/ mkdirError(c) \/ connectError(c) \/ queryDone(c)
  BY <1>11 DEF openDBMax, mkdirError, connectError, queryDone, ConnError, Return
<1>12. CASE openDB(c) \/ getPrivateDir(c)
  BY <1>12 DEF openDB, getPrivateDir
<1>13. CASE Databases(c) \/ rangeNext(c) \/ rangeVisit(c)
  BY <1>13 DEF Databases, rangeNext, rangeVisit
<1>14. CASE yield(c) \/ rangeEnd(c)
  BY <1>14 DEF yield, rangeEnd, Return
<1>15. QED
  BY <1>1, <1>2, <1>3, <1>4, <1>5, <1>6, <1>7, <1>8, <1>9, <1>10, <1>11,
     <1>12, <1>13, <1>14 DEF Peer, Acquire, Run

\* The manager implements the pool: a connection gets at most one instance,
\* from MaxDB slots, while it is up, and gives it back after it went down.
THEOREM ImplementsPool == Spec => PoolSpec
<1>1. Init => Pool!Init
  BY DEF Init, Pool!Init, link, session
<1>2. IInv /\ IInv' /\ [Next]_vars => [Pool!Next]_(Pool!poolVars)
  <2> SUFFICES ASSUME IInv, IInv', [Next]_vars
               PROVE  Pool!Next \/ UNCHANGED <<link, session>>
    BY DEF Pool!poolVars
  <2>1. CASE UNCHANGED vars
    BY <2>1 DEF vars, link, session
  <2>2. ASSUME NEW c \in Conns, Peer(c) \/ Acquire(c) \/ Run(c)
        PROVE  Pool!Next \/ UNCHANGED <<link, session>>
    BY <2>2, PoolStep
  <2>3. QED
    BY <2>1, <2>2 DEF Next, Finished
<1>3. QED
  BY <1>1, <1>2, Invariance, PTL DEF Spec, PoolSpec, Pool!Spec

=============================================================================
