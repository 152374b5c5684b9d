--------------------------- MODULE LifecycleProofs ---------------------------
(***************************************************************************)
(* What a life of the server, and the next one after it, leaves and finds  *)
(* on the disk, whom WaitServe wakes and what a shutdown waits for: for    *)
(* any number of processes, connections, IDs and callers.                  *)
(***************************************************************************)
EXTENDS Lifecycle, FiniteSetTheorems, TLAPS

Phases == Starting \cup Deferred \cup {"off", "returned"}

ProcTypes ==
    /\ run \in Nat /\ pidFile \in Nat
    /\ phase \in Phases
    /\ fate \in {"none", "ok", "error", "crash"}
    /\ url \in BOOLEAN
    /\ waiter \in [Waiters -> {"call", "asleep", "done"}]

ConnTypes ==
    /\ link \in [Conns -> {"new", "up", "down"}]
    /\ session \in [Conns -> {"none", "held", "draining", "gone"}]
    /\ req \in [Conns -> {"none", "busy", "opening"}]
    /\ cid \in [Conns -> IDs \cup {None}]
    /\ hooked \in SUBSET Conns

DirTypes ==
    /\ dir \in [IDs -> SUBSET (Nat \X Conns)]
    /\ left \in SUBSET (Nat \X Conns)

\* No process has written a number that is still to come, its own only when it
\* is prepared, and none without -pidfile.
PIDBound ==
    /\ pidFile <= run
    /\ phase \in Starting => pidFile < run
    /\ run = 0 => phase = "off"
    /\ ~PIDFile => pidFile = 0

\* A connection was accepted, and has an ID, before anything is done on it;
\* a request has a peer that is up.
Accepted ==
    \A c \in Conns :
        /\ link[c] # "new" => cid[c] \in IDs
        /\ session[c] # "none" => link[c] # "new"
        /\ req[c] # "none" => link[c] = "up"

\* The clients map has one connection per ID.
UniqueIDs ==
    \A c, d \in Conns :
        Registered(c) /\ Registered(d) /\ cid[c] = cid[d] => c = d

\* Serve returns nil when no connection is left, and none comes after.
Drained ==
    phase = "returned" /\ fate = "ok" => \A c \in Conns : link[c] # "up"

\* A session has used one directory only, that of its connection's ID.
OwnDir ==
    /\ \A i \in IDs : \A t \in dir[i] :
          /\ t[1] <= run
          /\ t[1] = run /\ phase # "off" => link[t[2]] # "new" /\ cid[t[2]] = i
    /\ \A i, j \in IDs : \A t \in dir[i] : t \in dir[j] => i = j

ConnInv == ConnTypes /\ Accepted /\ UniqueIDs

-----------------------------------------------------------------------------
(* Which steps touch what.                                                 *)

MainFrame ==
    /\ UNCHANGED <<run, link, session, req, cid, hooked, dir, left>>
    /\ phase # "off" /\ phase' # "off"
    /\ phase \in Running => phase' \in Running

ConnFrame == UNCHANGED <<run, phase, fate, url, waiter, pidFile>>

\* A step of the process that is neither its start nor its end leaves the
\* connections and the private directories alone.
LEMMA MainKeeps ==
  ASSUME Main \/ signal, ~exit PROVE MainFrame
<1>1. CASE signal
  BY <1>1 DEF signal, connVars, diskVars, MainFrame, Running
<1>2. ASSUME NEW from \in Starting \cup Deferred, NEW to \in Starting \cup Deferred,
             Prepare(from, to), from \notin Running
      PROVE  MainFrame
  BY <1>2 DEF Prepare, procVars, connVars, diskVars, MainFrame, Running, Starting, Deferred
<1>3. CASE New \/ checkDB \/ setupAccessLogger
  BY <1>2, <1>3 DEF New, checkDB, setupAccessLogger, Starting, Deferred, Running
<1>4. CASE writePID
  BY <1>4 DEF writePID, procVars, connVars, MainFrame, Running
<1>5. CASE BaseContext
  BY <1>5 DEF BaseContext, procVars, connVars, diskVars, MainFrame, Running
<1>6. ASSUME NEW how, Return(how), phase # "off" PROVE MainFrame
  BY <1>6 DEF Return, connVars, MainFrame, Running
<1>7. CASE startError \/ serveError \/ ShutdownDone \/ ShutdownTimeout
  BY <1>6, <1>7 DEF startError, serveError, ShutdownDone, ShutdownTimeout, Starting
<1>8. CASE Shutdown
  BY <1>8 DEF Shutdown, procVars, connVars, diskVars, MainFrame, Running
<1>9. QED
  BY <1>1, <1>3, <1>4, <1>5, <1>7, <1>8 DEF Main

\* A step of a connection leaves the process, the sleepers and the PID file.
LEMMA ConnKeeps ==
  ASSUME NEW c \in Conns, Serving(c) \/ Closing(c) PROVE ConnFrame
<1>1. CASE Accept(c) \/ handle(c) \/ respond(c)
  BY <1>1 DEF Accept, handle, respond, procVars, waitVars, diskVars, ConnFrame
<1>2. CASE getPrivateDir(c) \/ connectDuckDB(c) \/ connectError(c)
  BY <1>2 DEF getPrivateDir, connectDuckDB, connectError, procVars, waitVars, ConnFrame
<1>3. CASE disconnect(c) \/ ConnState(c) \/ closeDB(c) \/ closeDuckDB(c)
  BY <1>3 DEF disconnect, ConnState, closeDB, closeDuckDB, procVars, waitVars, diskVars,
              ConnFrame
<1>4. QED
  BY <1>1, <1>2, <1>3 DEF Serving, Closing

-----------------------------------------------------------------------------
(* The process, its PID file and the callers of WaitServe.                 *)

ProcInv == ProcTypes /\ PIDBound /\ PIDFileTrue /\ NoLostWakeup

\* Before the first process there is no PID file and no waiter.
LEMMA InitProc == Init => ProcInv
<1> SUFFICES ASSUME Init PROVE ProcInv
  OBVIOUS
<1>1. ProcTypes
  BY DEF Init, ProcTypes, Phases, Sleep
<1>2. PIDBound /\ PIDFileTrue
  BY DEF Init, PIDBound, PIDFileTrue, Starting, Deferred
<1>3. NoLostWakeup
  BY DEF Init, NoLostWakeup, Sleep
<1>4. QED
  BY <1>1, <1>2, <1>3 DEF ProcInv

\* The steps of run, Serve and WaitServe keep what is known of the process.
LEMMA NextProc == ProcInv /\ [Next]_vars => ProcInv'
<1> SUFFICES ASSUME ProcInv, [Next]_vars PROVE ProcInv'
  OBVIOUS
<1> USE LifecycleAssumption
<1>1. ASSUME NEW how \in {"ok", "error"}, Return(how), phase \in Starting \cup Deferred
      PROVE  ProcInv'
  <2>1. ProcTypes' /\ NoLostWakeup'
    BY <1>1 DEF Return, waitVars, ProcInv, ProcTypes, NoLostWakeup, Phases
  <2>2. PIDBound'
    BY <1>1 DEF Return, ProcInv, ProcTypes, PIDBound, Starting, Deferred
  <2>3. PIDFileTrue'
    BY <1>1 DEF Return, ProcInv, ProcTypes, PIDBound, PIDFileTrue, Starting, Deferred
  <2>4. QED
    BY <2>1, <2>2, <2>3 DEF ProcInv
<1>2. CASE start
  BY <1>2 DEF start, waitVars, diskVars, ProcInv, ProcTypes, PIDBound, PIDFileTrue,
              NoLostWakeup, Phases, Starting, Deferred
<1>3. CASE Main
  <2>1. CASE New \/ checkDB \/ setupAccessLogger
    BY <1>3, <2>1 DEF New, checkDB, setupAccessLogger, Prepare, procVars, waitVars,
         diskVars, ProcInv, ProcTypes, PIDBound, PIDFileTrue, NoLostWakeup, Phases,
         Starting, Deferred
  <2>2. CASE writePID
    BY <2>2 DEF writePID, procVars, waitVars, ProcInv, ProcTypes, PIDBound, PIDFileTrue,
                NoLostWakeup, Phases, Starting, Deferred
  <2>3. CASE BaseContext
    BY <2>3 DEF BaseContext, procVars, diskVars, ProcInv, ProcTypes, PIDBound,
                PIDFileTrue, NoLostWakeup, Phases, Starting, Deferred
  <2>4. CASE startError \/ serveError \/ ShutdownDone \/ ShutdownTimeout
    BY <1>1, <2>4 DEF startError, serveError, ShutdownDone, ShutdownTimeout, Starting,
                      Deferred
  <2>5. CASE Shutdown
    BY <2>5 DEF Shutdown, procVars, waitVars, diskVars, ProcInv, ProcTypes, PIDBound,
                PIDFileTrue, NoLostWakeup, Phases, Starting, Deferred
  <2>6. CASE exit
    BY <2>6 DEF exit, Die, Sleep, ProcInv, ProcTypes, PIDBound, PIDFileTrue,
                NoLostWakeup, Phases, Starting, Deferred
  <2>7. QED
    BY <1>3, <2>1, <2>2, <2>3, <2>4, <2>5, <2>6 DEF Main
<1>4. CASE signal
  BY <1>4 DEF signal, waitVars, diskVars, ProcInv, ProcTypes, PIDBound, PIDFileTrue,
              NoLostWakeup
<1>5. CASE kill
  BY <1>5 DEF kill, Die, Sleep, ProcInv, ProcTypes, PIDBound, PIDFileTrue, NoLostWakeup,
              Phases, Starting, Deferred
<1>6. ASSUME NEW w \in Waiters, WaitServe(w) PROVE ProcInv'
  BY <1>6 DEF WaitServe, procVars, diskVars, ProcInv, ProcTypes, PIDBound, PIDFileTrue,
              NoLostWakeup
<1>7. CASE \E c \in Conns : Serving(c) \/ Closing(c)
  BY <1>7, ConnKeeps
     DEF ConnFrame, ProcInv, ProcTypes, PIDBound, PIDFileTrue, NoLostWakeup
<1>8. CASE UNCHANGED vars
  BY <1>8 DEF vars, ProcInv, ProcTypes, PIDBound, PIDFileTrue, NoLostWakeup
<1>9. QED
  BY <1>2, <1>3, <1>4, <1>5, <1>6, <1>7, <1>8 DEF Next, Finished

-----------------------------------------------------------------------------
(* The connections.                                                        *)

\* No connection is up before the first process.
LEMMA InitConn == Init => ConnInv /\ Drained
BY DEF Init, ConnInv, ConnTypes, Accepted, UniqueIDs, Registered, Drained, NoLink,
       Nothing, NoID

\* The connections of a process are gone with it.
LEMMA DieConn == Die => ConnInv' /\ Drained'
BY DEF Die, ConnInv, ConnTypes, Accepted, UniqueIDs, Registered, Drained, NoLink,
       Nothing, NoID

\* The steps of a connection keep what is known of the connections.
LEMMA StepConn ==
  ASSUME ConnInv, NEW c \in Conns, Serving(c) \/ Closing(c)
  PROVE  ConnInv'
<1>1. CASE Accept(c)
  <2>1. PICK i \in IDs : /\ \A d \in Conns : Registered(d) => cid[d] # i
                         /\ cid' = [cid EXCEPT ![c] = i]
    BY <1>1 DEF Accept
  <2>2. /\ link[c] = "new" /\ link' = [link EXCEPT ![c] = "up"]
        /\ UNCHANGED <<session, req, hooked>>
    BY <1>1 DEF Accept, Pool!Connect
  <2>3. ConnTypes' /\ Accepted'
    BY <2>1, <2>2 DEF ConnInv, ConnTypes, Accepted
  <2>4. \A d \in Conns \ {c} : Registered(d)' => Registered(d) /\ cid'[d] = cid[d] /\ cid'[d] # i
    BY <2>1, <2>2 DEF ConnInv, ConnTypes, Registered
  <2>5. cid'[c] = i
    BY <2>1 DEF ConnInv, ConnTypes
  <2>6. UniqueIDs'
    BY <2>4, <2>5 DEF ConnInv, UniqueIDs
  <2>7. QED
    BY <2>3, <2>6 DEF ConnInv
<1>2. CASE handle(c)
  BY <1>2 DEF handle, ConnInv, ConnTypes, Accepted, UniqueIDs, Registered
<1>3. ASSUME Answered(c), req[c] # "none", UNCHANGED <<cid, hooked>>
      PROVE  ConnInv'
  BY <1>3 DEF Answered, Pool!Disconnect, ConnInv, ConnTypes, Accepted, UniqueIDs, Registered
<1>4. CASE respond(c) \/ connectError(c)
  BY <1>3, <1>4 DEF respond, connectError
<1>5. CASE getPrivateDir(c)
  BY <1>5 DEF getPrivateDir, ConnInv, ConnTypes, Accepted, UniqueIDs, Registered
<1>6. CASE connectDuckDB(c)
  BY <1>6 DEF connectDuckDB, Pool!Acquire, ConnInv, ConnTypes, Accepted, UniqueIDs, Registered
<1>7. CASE disconnect(c)
  BY <1>7 DEF disconnect, Pool!Disconnect, ConnInv, ConnTypes, Accepted, UniqueIDs, Registered
<1>8. CASE ConnState(c)
  BY <1>8 DEF ConnState, ConnInv, ConnTypes, Accepted, UniqueIDs, Registered
<1>9. CASE closeDB(c)
  BY <1>9 DEF closeDB, Pool!Release, ConnInv, ConnTypes, Accepted, UniqueIDs, Registered
<1>10. CASE closeDuckDB(c)
  BY <1>10 DEF closeDuckDB, Pool!Finish, ConnInv, ConnTypes, Accepted, UniqueIDs, Registered
<1>11. QED
  BY <1>1, <1>2, <1>4, <1>5, <1>6, <1>7, <1>8, <1>9, <1>10 DEF Serving, Closing

\* No connection comes up once Serve has returned.
LEMMA StepLinks ==
  ASSUME ConnTypes, NEW c \in Conns, Serving(c) \/ Closing(c), phase = "returned",
         NEW d \in Conns, link[d] # "up"
  PROVE  link'[d] # "up"
<1>1. \/ UNCHANGED link
      \/ Pool!Disconnect(c)
  BY DEF Serving, Closing, Accept, handle, respond, getPrivateDir, connectDuckDB,
         connectError, disconnect, ConnState, closeDB, closeDuckDB, Answered,
         Pool!Acquire, Pool!Release, Pool!Finish
<1>2. QED
  BY <1>1 DEF Pool!Disconnect, ConnTypes

\* Every step keeps what is known of the connections and of the shutdown.
LEMMA NextConn == ConnInv /\ Drained /\ [Next]_vars => ConnInv' /\ Drained'
<1> SUFFICES ASSUME ConnInv, Drained, [Next]_vars PROVE ConnInv' /\ Drained'
  OBVIOUS
<1>1. CASE exit \/ kill
  BY <1>1, DieConn DEF exit, kill
<1>2. CASE (Main \/ signal) /\ ~exit
  <2>1. UNCHANGED <<link, session, req, cid, hooked>>
    BY <1>2, MainKeeps DEF MainFrame
  <2>2. ConnInv'
    BY <2>1 DEF ConnInv, ConnTypes, Accepted, UniqueIDs, Registered
  <2>3. phase' = "returned" /\ fate' = "ok" => ShutdownDone
    BY <1>2 DEF Main, New, checkDB, setupAccessLogger, Prepare, writePID, BaseContext,
         startError, serveError, Shutdown, ShutdownTimeout, Return, signal
  <2>4. Drained'
    BY <2>1, <2>3 DEF Drained, ShutdownDone
  <2>5. QED
    BY <2>2, <2>4
<1>3. CASE start
  BY <1>3 DEF start, connVars, Drained, ConnInv, ConnTypes, Accepted, UniqueIDs, Registered
<1>4. ASSUME NEW w \in Waiters, WaitServe(w) PROVE ConnInv' /\ Drained'
  BY <1>4 DEF WaitServe, procVars, connVars, Drained, ConnInv, ConnTypes, Accepted,
              UniqueIDs, Registered
<1>5. ASSUME NEW c \in Conns, Serving(c) \/ Closing(c) PROVE ConnInv' /\ Drained'
  <2>1. UNCHANGED <<phase, fate>>
    BY <1>5, ConnKeeps DEF ConnFrame
  <2>2. Drained'
    BY <1>5, <2>1, StepLinks DEF Drained, ConnInv
  <2>3. QED
    BY <1>5, <2>2, StepConn
<1>6. CASE UNCHANGED vars
  BY <1>6 DEF vars, Drained, ConnInv, ConnTypes, Accepted, UniqueIDs, Registered
<1>7. QED
  BY <1>1, <1>2, <1>3, <1>4, <1>5, <1>6 DEF Next, Finished

-----------------------------------------------------------------------------
(* The private directories.                                                *)

DirInv == DirTypes /\ OwnDir /\ DirAccounted

\* The disk is empty before the first process.
LEMMA InitDir == Init => DirInv
BY DEF Init, DirInv, DirTypes, OwnDir, DirAccounted

\* A session is a pair, so it is named by its process and its connection.
LEMMA Pairs ==
  ASSUME DirTypes, NEW i \in IDs, NEW t \in dir[i]
  PROVE  t[1] \in Nat /\ t[2] \in Conns /\ t = <<t[1], t[2]>>
BY DEF DirTypes

\* Steps that change no directory: what was in use is in use or is left.
LEMMA KeepDir ==
  ASSUME DirInv, ConnInv, UNCHANGED <<run, dir, cid>>, left \subseteq left',
         left' \in SUBSET (Nat \X Conns),
         phase' = "off" <=> phase = "off",
         phase \in Running => phase' \in Running,
         \A d \in Conns : link[d] # "new" => link'[d] # "new",
         \A d \in Conns : link[d] = "down" => link'[d] = "down",
         \A d \in Conns : link'[d] = "up" /\ Open(d)' => link[d] = "up" /\ Open(d),
         \A d \in Conns : Open(d) \/ req[d] = "opening" =>
             Me(d) \in left' \/ Open(d)' \/ req'[d] = "opening"
  PROVE  DirInv'
<1>1. DirTypes'
  BY DEF DirInv, DirTypes
<1>2. OwnDir'
  <2>1. ASSUME NEW i \in IDs, NEW t \in dir[i]
        PROVE  /\ t[1] <= run
               /\ t[1] = run /\ phase' # "off" => link'[t[2]] # "new" /\ cid[t[2]] = i
    BY <2>1, Pairs DEF DirInv, OwnDir
  <2>2. QED
    BY <2>1 DEF DirInv, OwnDir
<1>3. DirAccounted'
  <2>1. SUFFICES ASSUME NEW i \in IDs, NEW t \in dir[i], t \notin left'
                 PROVE  /\ InUse(t, i)'
                        /\ \A c \in Conns \ {t[2]} :
                              link'[c] = "up" /\ Open(c)' /\ cid[c] = i => link'[t[2]] = "down"
    BY DEF DirAccounted
  <2>2. t[1] = run /\ t[2] \in Conns /\ t = Me(t[2])
    BY <2>1, Pairs DEF DirInv, DirAccounted, InUse, Me
  <2>3. InUse(t, i) /\ \A c \in Conns \ {t[2]} :
                         link[c] = "up" /\ Open(c) /\ cid[c] = i => link[t[2]] = "down"
    BY <2>1 DEF DirInv, DirAccounted
  <2>4. InUse(t, i)'
    BY <2>1, <2>2, <2>3 DEF InUse
  <2>5. QED
    BY <2>2, <2>3, <2>4
<1>4. QED
  BY <1>1, <1>2, <1>3 DEF DirInv

\* A new process finds only what was left.
LEMMA StartDir ==
  ASSUME DirInv, ProcInv, start PROVE DirInv'
<1>1. /\ phase = "off" /\ run' = run + 1 /\ run \in Nat
      /\ UNCHANGED <<dir, left>>
  BY DEF start, diskVars, ProcInv, ProcTypes
<1>2. \A i \in IDs : \A t \in dir[i] : t \in left /\ t[1] <= run /\ t[1] \in Nat
  BY <1>1, Pairs DEF DirInv, OwnDir, DirAccounted, InUse, Running
<1>3. QED
  BY <1>1, <1>2 DEF DirInv, DirTypes, OwnDir, DirAccounted

\* What a process used when it ended is left.
LEMMA DieDir ==
  ASSUME DirInv, ProcInv, Die PROVE DirInv'
<1>1. /\ phase' = "off" /\ UNCHANGED <<run, dir>> /\ run \in Nat
      /\ left' = left \cup {Me(c) : c \in {d \in Conns : Open(d) \/ req[d] = "opening"}}
  BY DEF Die, ProcInv, ProcTypes
<1>2. DirTypes'
  BY <1>1 DEF DirInv, DirTypes, Me
<1>3. OwnDir'
  BY <1>1 DEF DirInv, OwnDir
<1>4. ASSUME NEW i \in IDs, NEW t \in dir[i], t \notin left PROVE t \in left'
  <2>1. t = Me(t[2]) /\ t[2] \in Conns /\ (Open(t[2]) \/ req[t[2]] = "opening")
    BY <1>4, Pairs DEF DirInv, DirAccounted, InUse, Me
  <2>2. QED
    BY <1>1, <2>1
<1>5. DirAccounted'
  BY <1>1, <1>4 DEF DirAccounted
<1>6. QED
  BY <1>2, <1>3, <1>5 DEF DirInv

\* A new connection owns nothing yet, and its ID is not that of a connection
\* that is registered.
LEMMA AcceptDir ==
  ASSUME DirInv, ConnInv, ProcInv, NEW c \in Conns, Accept(c) PROVE DirInv'
<1>1. PICK j \in IDs : cid' = [cid EXCEPT ![c] = j]
  BY DEF Accept
<1>2. /\ link[c] = "new" /\ link' = [link EXCEPT ![c] = "up"]
      /\ phase = "serve"
      /\ UNCHANGED <<run, phase, session, req, dir, left>>
  BY DEF Accept, Pool!Connect, procVars, diskVars
<1>3. ~Open(c) /\ req[c] = "none"
  BY <1>2 DEF ConnInv, ConnTypes, Accepted, Open
<1>4. ASSUME NEW i \in IDs, NEW t \in dir[i], t[1] = run
      PROVE  t[2] \in Conns /\ t[2] # c /\ link[t[2]] # "new" /\ cid[t[2]] = i
  BY <1>2, <1>4, Pairs DEF DirInv, OwnDir
<1>5. \A d \in Conns : d # c => link'[d] = link[d] /\ cid'[d] = cid[d]
  BY <1>1, <1>2 DEF ConnInv, ConnTypes
<1>6. \A d \in Conns : Open(d)' <=> Open(d)
  BY <1>2 DEF Open
<1>7. DirTypes'
  BY <1>2 DEF DirInv, DirTypes
<1>8. OwnDir'
  BY <1>2, <1>4, <1>5 DEF DirInv, OwnDir
<1>9. DirAccounted'
  <2>1. SUFFICES ASSUME NEW i \in IDs, NEW t \in dir[i], t \notin left
                 PROVE  /\ InUse(t, i)'
                        /\ \A d \in Conns \ {t[2]} :
                              link'[d] = "up" /\ Open(d)' /\ cid'[d] = i => link'[t[2]] = "down"
    BY <1>2 DEF DirAccounted
  <2>2. InUse(t, i) /\ \A d \in Conns \ {t[2]} :
                         link[d] = "up" /\ Open(d) /\ cid[d] = i => link[t[2]] = "down"
    BY <2>1 DEF DirInv, DirAccounted
  <2>3. t[2] \in Conns /\ t[2] # c
    BY <1>4, <2>2 DEF InUse
  <2>4. InUse(t, i)'
    BY <1>2, <1>5, <1>6, <2>2, <2>3 DEF InUse
  <2>5. QED
    BY <1>3, <1>5, <1>6, <2>2, <2>3, <2>4
<1>10. QED
  BY <1>7, <1>8, <1>9 DEF DirInv

\* The directory of an opening connection is its own from now on.
LEMMA OpeningDir ==
  ASSUME DirInv, ConnInv, ProcInv, NEW c \in Conns, getPrivateDir(c) PROVE DirInv'
<1>1. /\ req[c] = "busy" /\ req' = [req EXCEPT ![c] = "opening"]
      /\ dir' = [dir EXCEPT ![cid[c]] = @ \cup {Me(c)}]
      /\ phase \in Running
      /\ UNCHANGED <<run, phase, link, session, cid, left>>
  BY DEF getPrivateDir, procVars
<1>2. link[c] = "up" /\ cid[c] \in IDs /\ run \in Nat /\ phase # "off"
  BY <1>1 DEF ConnInv, Accepted, ProcInv, ProcTypes, Running
<1>3. /\ \A i \in IDs : \A t \in dir'[i] : t \in dir[i] \/ (t = Me(c) /\ i = cid[c])
      /\ Me(c) \in Nat \X Conns
  BY <1>1, <1>2 DEF DirInv, DirTypes, Me
<1>4. DirTypes'
  BY <1>1, <1>2, <1>3 DEF DirInv, DirTypes
<1>5. \A i \in IDs : Me(c) \in dir[i] => i = cid[c]
  BY <1>2 DEF DirInv, OwnDir, Me
<1>6. Me(c)[1] = run /\ Me(c)[2] = c
  BY DEF Me
<1>7. OwnDir'
  <2>1. ASSUME NEW i \in IDs, NEW t \in dir'[i]
        PROVE  t[1] <= run /\ (t[1] = run => link[t[2]] # "new" /\ cid[t[2]] = i)
    <3>1. CASE t \in dir[i]
      BY <1>2, <3>1 DEF DirInv, OwnDir
    <3>2. CASE t = Me(c) /\ i = cid[c]
      BY <1>2, <1>6, <3>2
    <3>3. QED
      BY <1>3, <2>1, <3>1, <3>2
  <2>2. ASSUME NEW i \in IDs, NEW j \in IDs, NEW t \in dir'[i], t \in dir'[j]
        PROVE  i = j
    BY <1>3, <1>5, <2>2 DEF DirInv, OwnDir
  <2>3. QED
    BY <1>1, <2>1, <2>2 DEF OwnDir
<1>8. DirAccounted'
  <2>1. SUFFICES ASSUME NEW i \in IDs, NEW t \in dir'[i], t \notin left
                 PROVE  /\ InUse(t, i)'
                        /\ \A d \in Conns \ {t[2]} :
                              link[d] = "up" /\ Open(d) /\ cid[d] = i => link[t[2]] = "down"
    BY <1>1 DEF DirAccounted, Open
  <2>2. CASE t \in dir[i]
    <3>1. InUse(t, i) /\ \A d \in Conns \ {t[2]} :
                           link[d] = "up" /\ Open(d) /\ cid[d] = i => link[t[2]] = "down"
      BY <2>1, <2>2 DEF DirInv, DirAccounted
    <3>2. t[2] \in Conns
      BY <2>2, Pairs DEF DirInv
    <3>3. QED
      BY <1>1, <3>1, <3>2 DEF InUse, Open, ConnInv, ConnTypes
  <2>3. CASE t = Me(c) /\ i = cid[c]
    <3>1. InUse(t, i)'
      BY <1>1, <1>6, <2>3 DEF InUse, ConnInv, ConnTypes
    <3>2. \A d \in Conns \ {c} : link[d] = "up" => cid[d] # cid[c]
      BY <1>2 DEF ConnInv, UniqueIDs, Registered
    <3>3. QED
      BY <1>6, <2>3, <3>1, <3>2
  <2>4. QED
    BY <1>3, <2>1, <2>2, <2>3
<1>9. QED
  BY <1>4, <1>7, <1>8 DEF DirInv

\* An instance is opened: what it finds in the directory of its ID is its own,
\* left, or of a connection that is going down.
LEMMA OpenedDir ==
  ASSUME DirInv, ConnInv, ProcInv, NEW c \in Conns, connectDuckDB(c) PROVE DirInv'
<1>1. /\ req[c] = "opening" /\ req' = [req EXCEPT ![c] = "busy"]
      /\ session' = [session EXCEPT ![c] = "held"]
      /\ left' = left \ {Me(c)}
      /\ phase \in Running
      /\ UNCHANGED <<run, phase, link, cid, dir>>
  BY DEF connectDuckDB, Pool!Acquire, procVars
<1>2. link[c] = "up" /\ phase # "off"
  BY <1>1 DEF ConnInv, Accepted, Running
<1>3. \A d \in Conns \ {c} : link[d] = "up" => cid[d] # cid[c]
  BY <1>2 DEF ConnInv, UniqueIDs, Registered
<1>4. Open(c)' /\ \A d \in Conns \ {c} : Open(d)' <=> Open(d)
  BY <1>1 DEF Open, ConnInv, ConnTypes
<1>5. DirTypes' /\ OwnDir'
  BY <1>1 DEF DirInv, DirTypes, OwnDir
<1>6. DirAccounted'
  <2>1. SUFFICES ASSUME NEW i \in IDs, NEW t \in dir[i], t \notin left'
                 PROVE  /\ InUse(t, i)'
                        /\ \A d \in Conns \ {t[2]} :
                              link[d] = "up" /\ Open(d)' /\ cid[d] = i => link[t[2]] = "down"
    BY <1>1 DEF DirAccounted
  <2>2. CASE t = Me(c)
    <3>1. t[1] = run /\ t[2] = c
      BY <2>2 DEF Me
    <3>2. cid[c] = i
      BY <1>2, <2>1, <3>1 DEF DirInv, OwnDir
    <3>3. InUse(t, i)'
      BY <1>1, <1>4, <3>1, <3>2 DEF InUse
    <3>4. QED
      BY <1>3, <3>1, <3>2, <3>3
  <2>3. CASE t # Me(c)
    <3>1. InUse(t, i) /\ \A d \in Conns \ {t[2]} :
                           link[d] = "up" /\ Open(d) /\ cid[d] = i => link[t[2]] = "down"
      BY <1>1, <2>1, <2>3 DEF DirInv, DirAccounted
    <3>2. t[2] \in Conns /\ t[1] = run /\ t[2] # c /\ cid[t[2]] = i
      BY <2>1, <2>3, <3>1, Pairs DEF DirInv, InUse, Me
    <3>3. InUse(t, i)'
      BY <1>1, <1>4, <3>1, <3>2 DEF InUse, ConnInv, ConnTypes
    <3>4. link[t[2]] \in {"up", "down"}
      BY <1>2, <2>1, <3>2 DEF DirInv, OwnDir, ConnInv, ConnTypes
    <3>5. QED
      BY <1>3, <1>4, <3>1, <3>2, <3>3, <3>4
  <2>4. QED
    BY <2>2, <2>3
<1>7. QED
  BY <1>5, <1>6 DEF DirInv

\* The closing goroutine empties the directory, or leaves it to be accounted
\* for.
LEMMA ClosedDir ==
  ASSUME DirInv, ConnInv, ProcInv, NEW c \in Conns, closeDuckDB(c) PROVE DirInv'
<1>1. /\ session[c] = "draining" /\ session' = [session EXCEPT ![c] = "gone"]
      /\ phase \in Running
      /\ UNCHANGED <<run, phase, link, cid, req>>
  BY DEF closeDuckDB, Pool!Finish, procVars
<1>2. cid[c] \in IDs /\ run \in Nat /\ phase # "off"
  BY <1>1 DEF ConnInv, Accepted, ProcInv, ProcTypes, Running
<1>3. ~Open(c)' /\ \A d \in Conns \ {c} : Open(d)' <=> Open(d)
  BY <1>1 DEF Open, ConnInv, ConnTypes
<1>4. CASE left' = left \cup {Me(c)} /\ UNCHANGED dir
  <2>1. left' \in SUBSET (Nat \X Conns)
    BY <1>2, <1>4 DEF DirInv, DirTypes, Me
  <2>2. QED
    BY <1>1, <1>3, <1>4, <2>1, KeepDir
<1>5. CASE dir' = [dir EXCEPT ![cid[c]] = {}] /\ left' = left \ dir[cid[c]]
  <2>1. /\ dir'[cid[c]] = {}
        /\ \A i \in IDs : i # cid[c] => dir'[i] = dir[i]
    BY <1>2, <1>5 DEF DirInv, DirTypes
  <2>2. DirTypes'
    BY <1>5 DEF DirInv, DirTypes
  <2>3. OwnDir'
    BY <1>1, <2>1 DEF DirInv, OwnDir
  <2>4. DirAccounted'
    <3>1. SUFFICES ASSUME NEW i \in IDs, i # cid[c], NEW t \in dir[i], t \notin left'
                   PROVE  /\ InUse(t, i)'
                          /\ \A d \in Conns \ {t[2]} :
                                link[d] = "up" /\ Open(d)' /\ cid[d] = i => link[t[2]] = "down"
      BY <1>1, <2>1 DEF DirAccounted
    <3>2. t \notin left
      BY <1>2, <1>5, <3>1 DEF DirInv, OwnDir
    <3>3. InUse(t, i) /\ \A d \in Conns \ {t[2]} :
                           link[d] = "up" /\ Open(d) /\ cid[d] = i => link[t[2]] = "down"
      BY <3>1, <3>2 DEF DirInv, DirAccounted
    <3>4. t[2] \in Conns /\ t[2] # c
      BY <3>1, <3>3, Pairs DEF DirInv, InUse
    <3>5. InUse(t, i)'
      BY <1>1, <1>3, <3>3, <3>4 DEF InUse
    <3>6. QED
      BY <1>3, <3>3, <3>5
  <2>5. QED
    BY <2>2, <2>3, <2>4 DEF DirInv
<1>6. QED
  BY <1>4, <1>5 DEF closeDuckDB

\* The steps of a connection keep every directory accounted for.
LEMMA StepDir ==
  ASSUME DirInv, ConnInv, ProcInv, NEW c \in Conns, Serving(c) \/ Closing(c)
  PROVE  DirInv'
<1>1. UNCHANGED <<run, phase>>
  BY ConnKeeps DEF ConnFrame
<1>2. CASE handle(c)
  BY <1>1, <1>2, KeepDir DEF handle, diskVars, Open, ConnInv, ConnTypes, DirInv, DirTypes
<1>3. CASE respond(c)
  BY <1>1, <1>3, KeepDir DEF respond, Answered, Pool!Disconnect, diskVars, Open, ConnInv,
                             ConnTypes, DirInv, DirTypes
<1>4. CASE connectError(c)
  <2>1. left' = left \cup {Me(c)} /\ left' \in SUBSET (Nat \X Conns)
    BY <1>4 DEF connectError, DirInv, DirTypes, ProcInv, ProcTypes, Me
  <2>2. QED
    BY <1>1, <1>4, <2>1, KeepDir DEF connectError, Answered, Pool!Disconnect, Open,
                                     ConnInv, ConnTypes
<1>5. CASE disconnect(c)
  BY <1>1, <1>5, KeepDir DEF disconnect, Pool!Disconnect, diskVars, Open, ConnInv,
                             ConnTypes, DirInv, DirTypes
<1>6. CASE ConnState(c)
  BY <1>1, <1>6, KeepDir DEF ConnState, diskVars, Open, DirInv, DirTypes
<1>7. CASE closeDB(c)
  BY <1>1, <1>7, KeepDir DEF closeDB, Pool!Release, diskVars, Open, ConnInv, ConnTypes,
                             DirInv, DirTypes
<1>8. QED
  BY <1>2, <1>3, <1>4, <1>5, <1>6, <1>7, AcceptDir, OpeningDir, OpenedDir, ClosedDir
     DEF Serving, Closing

\* Every step keeps the account of the private directories.
LEMMA NextDir ==
  ProcInv /\ ConnInv /\ DirInv /\ [Next]_vars => DirInv'
<1> SUFFICES ASSUME ProcInv, ConnInv, DirInv, [Next]_vars PROVE DirInv'
  OBVIOUS
<1>1. CASE exit \/ kill
  BY <1>1, DieDir DEF exit, kill
<1>2. CASE start
  BY <1>2, StartDir
<1>3. CASE (Main \/ signal) /\ ~exit
  BY <1>3, MainKeeps, KeepDir DEF MainFrame, Open, DirInv, DirTypes
<1>4. ASSUME NEW w \in Waiters, WaitServe(w) PROVE DirInv'
  BY <1>4, KeepDir DEF WaitServe, procVars, connVars, diskVars, Open, DirInv, DirTypes
<1>5. CASE UNCHANGED vars
  BY <1>5, KeepDir DEF vars, Open, DirInv, DirTypes
<1>6. QED
  BY <1>1, <1>2, <1>3, <1>4, <1>5, StepDir DEF Next, Finished

-----------------------------------------------------------------------------
IInv == ProcInv /\ ConnInv /\ Drained /\ DirInv

\* IInv holds in every reachable state.
THEOREM Invariance == Spec => []IInv
<1>1. Init => IInv
  BY InitProc, InitConn, InitDir DEF IInv
<1>2. IInv /\ [Next]_vars => IInv'
  BY NextProc, NextConn, NextDir DEF IInv
<1>3. QED
  BY <1>1, <1>2, PTL DEF Spec

\* The PID file is that of the process that runs, and no error return of Serve
\* leaves it behind (PIDFileTrue), for any number of processes.
THEOREM PIDFileTrueAlways == Spec => []PIDFileTrue
<1>1. IInv => PIDFileTrue
  BY DEF IInv, ProcInv
<1>2. QED
  BY <1>1, Invariance, PTL

\* No caller of WaitServe sleeps on once the server listens (NoLostWakeup), for
\* any number of callers.
THEOREM NoLostWakeupAlways == Spec => []NoLostWakeup
<1>1. IInv => NoLostWakeup
  BY DEF IInv, ProcInv
<1>2. QED
  BY <1>1, Invariance, PTL

\* Serve returns nil only when every request was answered (RequestsFinish).
THEOREM RequestsFinishAlways == Spec => []RequestsFinish
<1>1. IInv => RequestsFinish
  BY DEF IInv, ConnInv, ConnTypes, Accepted, Drained, RequestsFinish
<1>2. QED
  BY <1>1, Invariance, PTL

\* Whatever is in a private directory is in use or was left by a failure or by
\* the end of a process, over restarts and reused IDs (DirAccounted).
THEOREM DirAccountedAlways == Spec => []DirAccounted
<1>1. IInv => DirAccounted
  BY DEF IInv, DirInv
<1>2. QED
  BY <1>1, Invariance, PTL

-----------------------------------------------------------------------------
(* The slots.                                                              *)

\* Never more than MaxDB slots are held, in any process; and what openDB found
\* free is still free when its database is open, so that connectDuckDB never
\* has to wait for the guard of the pool: while one connection opens a
\* database no other does, and nobody takes the slot.
SlotsFit ==
    /\ Cardinality(Pool!HeldSlots) <= MaxDB
    /\ \A c \in Conns : req[c] = "opening" =>
          /\ link[c] = "up" /\ session[c] = "none"
          /\ Cardinality(Pool!HeldSlots) < MaxDB
          /\ \A d \in Conns \ {c} : req[d] # "opening"

\* The held slots are finite in number.
LEMMA HeldFinite ==
  /\ IsFiniteSet(Pool!HeldSlots) /\ Cardinality(Pool!HeldSlots) \in Nat
<1>1. Pool!HeldSlots \subseteq Conns
  BY DEF Pool!HeldSlots
<1>2. QED
  BY <1>1, LifecycleAssumption, FS_Subset, FS_CardinalityType

\* The steps that leave the sessions alone and open nothing.
LEMMA KeepSlots ==
  ASSUME SlotsFit, UNCHANGED session,
         \A c \in Conns : req'[c] = "opening" => req[c] = "opening" /\ link'[c] = link[c]
  PROVE  SlotsFit'
<1>1. Pool!HeldSlots' = Pool!HeldSlots
  BY DEF Pool!HeldSlots
<1>2. QED
  BY <1>1 DEF SlotsFit

\* The steps of a connection keep the slots (openDB and closeDB take dbMutex).
LEMMA StepSlots ==
  ASSUME ConnInv, SlotsFit, NEW c \in Conns, Serving(c) \/ Closing(c)
  PROVE  SlotsFit'
<1> DEFINE H == Pool!HeldSlots
<1> USE DEF ConnInv, ConnTypes
<1>1. CASE Accept(c)
  <2>1. /\ link[c] = "new" /\ link' = [link EXCEPT ![c] = "up"]
        /\ UNCHANGED <<session, req>>
    BY <1>1 DEF Accept, Pool!Connect
  <2>2. \A d \in Conns : req'[d] = "opening" => req[d] = "opening" /\ link'[d] = link[d]
    BY <2>1 DEF Accepted
  <2>3. QED
    BY <2>1, <2>2, KeepSlots
<1>2. CASE handle(c)
  BY <1>2, KeepSlots DEF handle
<1>3. ASSUME Answered(c) PROVE SlotsFit'
  <2>1. /\ UNCHANGED session /\ req' = [req EXCEPT ![c] = "none"]
        /\ \A d \in Conns \ {c} : link'[d] = link[d]
    BY <1>3 DEF Answered, Pool!Disconnect
  <2>2. QED
    BY <2>1, KeepSlots
<1>4. CASE respond(c) \/ connectError(c)
  BY <1>3, <1>4 DEF respond, connectError
<1>5. CASE getPrivateDir(c)
  <2>1. /\ req[c] = "busy" /\ session[c] = "none" /\ MutexFree
        /\ Cardinality(H) < MaxDB
        /\ req' = [req EXCEPT ![c] = "opening"] /\ UNCHANGED <<link, session>>
    BY <1>5 DEF getPrivateDir
  <2>2. H' = H
    BY <2>1 DEF Pool!HeldSlots
  <2>3. link[c] = "up"
    BY <2>1 DEF Accepted
  <2>4. QED
    BY <2>1, <2>2, <2>3 DEF SlotsFit, MutexFree
<1>6. CASE connectDuckDB(c)
  <2>1. /\ req[c] = "opening" /\ req' = [req EXCEPT ![c] = "busy"]
        /\ session[c] = "none" /\ session' = [session EXCEPT ![c] = "held"]
    BY <1>6 DEF connectDuckDB, Pool!Acquire
  <2>2. \A d \in Conns : req'[d] # "opening"
    BY <2>1 DEF SlotsFit
  <2>3. H' = H \cup {c} /\ c \notin H
    BY <2>1 DEF Pool!HeldSlots
  <2> HIDE DEF H
  <2>4. Cardinality(H \cup {c}) = Cardinality(H) + 1
    BY <2>3, HeldFinite, FS_AddElement DEF H
  <2>5. Cardinality(H) < MaxDB /\ Cardinality(H) \in Nat
    BY <2>1, HeldFinite DEF SlotsFit, H
  <2>6. Cardinality(H)' <= MaxDB
    BY <2>3, <2>4, <2>5, LifecycleAssumption
  <2>7. QED
    BY <2>2, <2>6 DEF SlotsFit, H
<1>7. CASE disconnect(c)
  <2>1. /\ req[c] = "none" /\ UNCHANGED <<session, req>>
        /\ link' = [link EXCEPT ![c] = "down"]
    BY <1>7 DEF disconnect, Pool!Disconnect
  <2>2. QED
    BY <2>1, KeepSlots
<1>8. CASE ConnState(c)
  BY <1>8, KeepSlots DEF ConnState
<1>9. ASSUME session' = [session EXCEPT ![c] = "draining"] \/ session' = [session EXCEPT ![c] = "gone"],
             UNCHANGED <<link, req>>, req[c] # "opening"
      PROVE  SlotsFit'
  <2>1. H' \subseteq H
    BY <1>9 DEF Pool!HeldSlots
  <2> HIDE DEF H
  <2>2. Cardinality(H') <= Cardinality(H) /\ Cardinality(H') \in Nat /\ Cardinality(H) \in Nat
    <3>1. IsFiniteSet(H) /\ Cardinality(H) \in Nat
      BY HeldFinite DEF H
    <3>2. IsFiniteSet(H') /\ Cardinality(H') <= Cardinality(H)
      BY <2>1, <3>1, FS_Subset
    <3>3. QED
      BY <3>1, <3>2, FS_CardinalityType
  <2>3. \A d \in Conns : req'[d] = "opening" => session'[d] = "none"
    BY <1>9 DEF SlotsFit
  <2>4. QED
    BY <1>9, <2>2, <2>3, LifecycleAssumption DEF SlotsFit, H
<1>10. CASE closeDB(c) \/ closeDuckDB(c)
  <2>1. /\ session[c] # "none" /\ UNCHANGED <<link, req>>
        /\ session' = [session EXCEPT ![c] = "draining"] \/ session' = [session EXCEPT ![c] = "gone"]
    BY <1>10 DEF closeDB, closeDuckDB, Pool!Release, Pool!Finish
  <2>2. req[c] # "opening"
    BY <2>1 DEF SlotsFit
  <2>3. QED
    BY <1>9, <2>1, <2>2
<1>11. QED
  BY <1>1, <1>2, <1>4, <1>5, <1>6, <1>7, <1>8, <1>10 DEF Serving, Closing

\* No slot is held by a process that has not started, or has ended.
LEMMA NoSlots ==
  ASSUME NEW S, S = {}, NEW r, r = Nothing
  PROVE  Cardinality(S) <= MaxDB /\ \A c \in Conns : r[c] # "opening"
<1>1. Cardinality(S) = 0
  BY FS_EmptySet
<1>2. QED
  BY <1>1, LifecycleAssumption DEF Nothing

\* In every process of the server at most MaxDB slots are held, and an opening
\* that openDB has let pass finds its slot (SlotsFit).
THEOREM SlotsFitAlways == Spec => []SlotsFit
<1>1. Init => SlotsFit
  <2> SUFFICES ASSUME Init PROVE SlotsFit
    OBVIOUS
  <2>1. Pool!HeldSlots = {} /\ req = Nothing
    BY DEF Init, Pool!HeldSlots, Nothing
  <2>2. QED
    BY <2>1, NoSlots DEF SlotsFit
<1>2. IInv /\ SlotsFit /\ [Next]_vars => SlotsFit'
  <2> SUFFICES ASSUME IInv, SlotsFit, [Next]_vars PROVE SlotsFit'
    OBVIOUS
  <2>1. CASE exit \/ kill
    <3>1. Pool!HeldSlots' = {} /\ req' = Nothing
      BY <2>1 DEF exit, kill, Die, Pool!HeldSlots, Nothing
    <3>2. QED
      BY <3>1, NoSlots DEF SlotsFit
  <2>2. CASE UNCHANGED <<link, session, req>>
    BY <2>2, KeepSlots
  <2>3. CASE (Main \/ signal) /\ ~exit
    BY <2>2, <2>3, MainKeeps DEF MainFrame
  <2>4. CASE start
    BY <2>2, <2>4 DEF start, connVars
  <2>5. ASSUME NEW w \in Waiters, WaitServe(w) PROVE SlotsFit'
    BY <2>2, <2>5 DEF WaitServe, connVars
  <2>6. ASSUME NEW c \in Conns, Serving(c) \/ Closing(c) PROVE SlotsFit'
    BY <2>6, StepSlots DEF IInv
  <2>7. CASE UNCHANGED vars
    BY <2>2, <2>7 DEF vars
  <2>8. QED
    BY <2>1, <2>3, <2>4, <2>5, <2>6, <2>7 DEF Next, Finished
<1>3. QED
  BY <1>1, <1>2, Invariance, PTL DEF Spec

\* No connection and no database outlives a process.
FreshPool == phase = "off" => Pool!Init

\* Until the process ends its databases are those of one pool.
OnePool == [][phase' # "off" => [Pool!Next]_<<link, session>>]_vars

\* A step of a connection is one of the pool or leaves it unchanged.
LEMMA StepPool ==
  ASSUME NEW c \in Conns, Serving(c) \/ Closing(c)
  PROVE  (Pool!Next \/ UNCHANGED <<link, session>>) /\ phase # "off" /\ phase' = phase
<1>1. phase' = phase
  BY ConnKeeps DEF ConnFrame
<1>2. phase # "off"
  BY DEF Serving, Closing, Accept, handle, respond, getPrivateDir, connectDuckDB,
         connectError, disconnect, ConnState, closeDB, closeDuckDB, Running
<1>3. \/ UNCHANGED <<link, session>>
      \/ Pool!Connect(c) \/ Pool!Acquire(c) \/ Pool!Disconnect(c)
      \/ Pool!Release(c) \/ Pool!Finish(c)
  <2>1. CASE Serving(c)
    BY <2>1 DEF Serving, Accept, handle, respond, getPrivateDir, connectDuckDB,
                connectError, disconnect, Answered
  <2>2. CASE Closing(c)
    BY <2>2 DEF Closing, ConnState, closeDB, closeDuckDB
  <2>3. QED
    BY <2>1, <2>2
<1>4. Pool!Next \/ UNCHANGED <<link, session>>
  BY <1>3 DEF Pool!Next
<1>5. QED
  BY <1>1, <1>2, <1>4

\* Every step, of the process or of a connection, is a step of the pool of the
\* process or leaves it unchanged, and only the end of the process replaces
\* it, by a fresh one.
LEMMA NextPool ==
  ASSUME FreshPool, [Next]_vars
  PROVE  FreshPool' /\ (phase' # "off" => [Pool!Next]_<<link, session>>)
<1>1. CASE exit \/ kill
  BY <1>1 DEF exit, kill, Die, FreshPool, Pool!Init, NoLink, Nothing
<1>2. CASE (Main \/ signal) /\ ~exit
  BY <1>2, MainKeeps DEF MainFrame, FreshPool
<1>3. CASE start
  BY <1>3 DEF start, connVars, FreshPool
<1>4. ASSUME NEW w \in Waiters, WaitServe(w)
      PROVE  FreshPool' /\ (phase' # "off" => [Pool!Next]_<<link, session>>)
  BY <1>4 DEF WaitServe, connVars, FreshPool
<1>5. ASSUME NEW c \in Conns, Serving(c) \/ Closing(c)
      PROVE  FreshPool' /\ (phase' # "off" => [Pool!Next]_<<link, session>>)
  BY <1>5, StepPool DEF FreshPool
<1>6. CASE UNCHANGED vars
  BY <1>6 DEF vars, FreshPool, Pool!Init
<1>7. QED
  BY <1>1, <1>2, <1>3, <1>4, <1>5, <1>6 DEF Next, Finished

\* Each process of the server implements DBPool, from a fresh pool on until it
\* ends, whatever the disk holds and however the process before it ended.
THEOREM EachProcessIsPool == Spec => []FreshPool /\ OnePool
<1>1. Init => FreshPool
  BY DEF Init, FreshPool, Pool!Init, NoLink, Nothing
<1>2. FreshPool /\ [Next]_vars => FreshPool'
  BY NextPool
<1>3. FreshPool /\ [Next]_vars => (phase' # "off" => [Pool!Next]_<<link, session>>)
  BY NextPool
<1>4. QED
  BY <1>1, <1>2, <1>3, PTL DEF Spec, OnePool

=============================================================================
