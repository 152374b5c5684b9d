----------------------------- MODULE Lifecycle -----------------------------
(***************************************************************************)
(* The life of the duckpop process: main.go, then New, Serve and WaitServe *)
(* of duckserver/duckserver.go; the connections it serves meanwhile; the   *)
(* shutdown on a signal, with its timeout; and what is left on the disk    *)
(* when the process ends, or dies, and another one is started.             *)
(*                                                                         *)
(* The databases are those of DBPool, which ConnDB implements: its actions *)
(* are taken here together with the steps of the connections and of the    *)
(* private directories.  net/http, ctxsrv and pidfile are external.        *)
(*                                                                         *)
(* A session is a pair <<process, connection>>.                            *)
(***************************************************************************)
EXTENDS Naturals, FiniteSets

CONSTANTS
    Conns,    \* the connections of one process
    IDs,      \* the values of conndb.ID
    MaxDB,    \* -maxdb
    PIDFile,  \* -pidfile was given
    Waiters,  \* the callers of WaitServe
    MaxRuns,  \* bound on the processes, one after the other
    None      \* no ID

ASSUME LifecycleAssumption ==
    /\ IsFiniteSet(Conns)
    /\ MaxDB \in Nat /\ MaxRuns \in Nat
    /\ PIDFile \in BOOLEAN
    /\ None \notin IDs

VARIABLES
    run,      \* the number of the process
    phase,    \* where it is
    fate,     \* how the process ended
    stop,     \* srvctx is done
    url,      \* Server.URL is set
    waiter,   \* where a caller of WaitServe is
    link, session,  \* the pool of databases (module DBPool)
    req,      \* the request of a connection
    cid,      \* the ID of a connection
    hooked,   \* the connections ConnState(StateClosed) was called for
    pidFile,  \* disk: the process whose number the PID file holds, or 0
    dir,      \* disk: the sessions that used a private directory
    left      \* those of them whose opening or clean-up failed, or that were
              \* open when their process ended

procVars == <<run, fate, stop>>
waitVars == <<url, waiter>>
connVars == <<link, session, req, cid, hooked>>
diskVars == <<pidFile, dir, left>>
vars     == <<run, phase, fate, stop, url, waiter, link, session, req, cid,
              hooked, pidFile, dir, left>>

Pool == INSTANCE DBPool WITH link <- link, session <- session

-----------------------------------------------------------------------------
Starting  == {"config", "checkDB", "pidfile"}
Deferred  == {"accesslog", "listen", "serve", "shutdown"}  \* pidfile.Close is
Running   == {"serve", "shutdown", "returned"}   \* goroutines of connections
Open(c)   == session[c] \in {"held", "draining"}
Me(c)     == <<run, c>>

\* The clients map holds a connection until the hook of net/http has run.
Registered(c) == link[c] = "up" \/ (link[c] = "down" /\ c \notin hooked)

\* dbMutex is held while a database is opened.
MutexFree == \A c \in Conns : req[c] # "opening"

Sleep   == [w \in Waiters |-> "call"]
NoLink  == [c \in Conns |-> "new"]
Nothing == [c \in Conns |-> "none"]
NoID    == [c \in Conns |-> None]

Init ==
    /\ run = 0 /\ phase = "off" /\ fate = "none"
    /\ stop = FALSE /\ url = FALSE /\ waiter = Sleep
    /\ link = NoLink /\ session = Nothing /\ req = Nothing
    /\ cid = NoID /\ hooked = {}
    /\ pidFile = 0
    /\ dir = [i \in IDs |-> {}]
    /\ left = {}

-----------------------------------------------------------------------------
(* Starting: flag2config and New, then the preparations of Serve.          *)

start ==
    /\ phase = "off" /\ run < MaxRuns
    /\ run' = run + 1 /\ phase' = "config" /\ fate' = "none"
    /\ UNCHANGED <<stop, waitVars, connVars, diskVars>>

\* Variant: the PID file is only removed after a shutdown.
ReturnKeepsPID(how) ==
    /\ phase' = "returned"
    /\ fate' = how
    /\ pidFile' = IF phase = "shutdown" /\ PIDFile THEN 0 ELSE pidFile
    /\ UNCHANGED <<run, stop, waitVars, connVars, dir, left>>

\* Serve, or a step before it, returns: the deferred calls, pidfile.Close
\* among them, run.
Return(how) ==
    /\ phase' = "returned"
    /\ fate' = how
    /\ pidFile' = IF phase \in Deferred /\ PIDFile THEN 0 ELSE pidFile
    /\ UNCHANGED <<run, stop, waitVars, connVars, dir, left>>

\* The flags, the init query file, the log format, the authentication file;
\* checkDB opens and closes a database that has no private directory.
startError == phase \in Starting /\ Return("error")

Prepare(from, to) ==
    /\ phase = from /\ phase' = to
    /\ UNCHANGED <<procVars, waitVars, connVars, diskVars>>

New     == Prepare("config", "checkDB")
checkDB == Prepare("checkDB", "pidfile")

writePID ==
    /\ phase = "pidfile" /\ phase' = "accesslog"
    /\ pidFile' = IF PIDFile THEN run ELSE pidFile
    /\ UNCHANGED <<procVars, waitVars, connVars, dir, left>>

\* setupAccessLogger, signal.NotifyContext.
setupAccessLogger == Prepare("accesslog", "listen")

\* The access log cannot be opened, or the address is in use.
serveError == phase \in {"accesslog", "listen"} /\ Return("error")

\* Variant: the sleepers are not woken.
BaseContextQuiet ==
    /\ phase = "listen" /\ phase' = "serve"
    /\ url' = TRUE
    /\ UNCHANGED <<procVars, waiter, connVars, diskVars>>

\* The server listens: the URL is set and the sleepers are woken, under L.
BaseContext ==
    /\ phase = "listen" /\ phase' = "serve"
    /\ url' = TRUE
    /\ waiter' = [w \in Waiters |-> IF waiter[w] = "asleep" THEN "call" ELSE waiter[w]]
    /\ UNCHANGED <<procVars, connVars, diskVars>>

\* WaitServe tests the URL under L; Cond.Wait gives L up only when queued.
WaitServe(w) ==
    /\ phase # "off"
    /\ waiter[w] = "call"
    /\ waiter' = [waiter EXCEPT ![w] = IF url THEN "done" ELSE "asleep"]
    /\ UNCHANGED <<procVars, phase, url, connVars, diskVars>>

-----------------------------------------------------------------------------
(* Connections.  A handler may run for ever.                               *)

Accept(c) ==
    /\ phase = "serve"
    /\ Pool!Connect(c)
    /\ \E i \in IDs :
        /\ \A d \in Conns : Registered(d) => cid[d] # i
        /\ cid' = [cid EXCEPT ![c] = i]
    /\ UNCHANGED <<procVars, phase, waitVars, req, hooked, diskVars>>

handle(c) ==
    /\ phase \in {"serve", "shutdown"}
    /\ link[c] = "up" /\ req[c] = "none"
    /\ req' = [req EXCEPT ![c] = "busy"]
    /\ UNCHANGED <<procVars, phase, waitVars, link, session, cid, hooked, diskVars>>

\* The response is written: the connection is kept alive or ends, and it
\* ends when the server is shutting down.
Answered(c) ==
    /\ req' = [req EXCEPT ![c] = "none"]
    /\ \/ phase = "serve" /\ UNCHANGED <<link, session>>
       \/ Pool!Disconnect(c)

respond(c) ==
    /\ phase \in Running
    /\ req[c] = "busy"
    /\ Answered(c)
    /\ UNCHANGED <<procVars, phase, waitVars, cid, hooked, diskVars>>

\* openDB, dbMutex held: the private directory is made, or is there already.
\* (An opening that fails before only answers, see respond.)
getPrivateDir(c) ==
    /\ phase \in Running
    /\ req[c] = "busy" /\ session[c] = "none"
    /\ MutexFree
    /\ Cardinality(Pool!HeldSlots) < MaxDB
    /\ req' = [req EXCEPT ![c] = "opening"]
    /\ dir' = [dir EXCEPT ![cid[c]] = @ \cup {Me(c)}]
    /\ UNCHANGED <<procVars, phase, waitVars, link, session, cid, hooked,
                   pidFile, left>>

connectDuckDB(c) ==
    /\ phase \in Running
    /\ req[c] = "opening"
    /\ Pool!Acquire(c)
    /\ req' = [req EXCEPT ![c] = "busy"]
    /\ left' = left \ {Me(c)}
    /\ UNCHANGED <<procVars, phase, waitVars, cid, hooked, pidFile, dir>>

\* duckdbinit.Open fails, 500: the directory stays.
connectError(c) ==
    /\ phase \in Running
    /\ req[c] = "opening"
    /\ Answered(c)
    /\ left' = left \cup {Me(c)}
    /\ UNCHANGED <<procVars, phase, waitVars, cid, hooked, pidFile, dir>>

\* The peer closes an idle connection, or Shutdown does.
disconnect(c) ==
    /\ phase \in Running
    /\ req[c] = "none"
    /\ Pool!Disconnect(c)
    /\ UNCHANGED <<procVars, phase, waitVars, req, cid, hooked, diskVars>>

\* net/http no longer tracks the connection when it calls the hook.
ConnState(c) ==
    /\ phase \in Running
    /\ link[c] = "down" /\ c \notin hooked
    /\ hooked' = hooked \cup {c}
    /\ UNCHANGED <<procVars, phase, waitVars, link, session, req, cid, diskVars>>

\* The closing goroutine: the slot, then the directory and the instance.
closeDB(c) ==
    /\ phase \in Running
    /\ c \in hooked
    /\ MutexFree
    /\ Pool!Release(c)
    /\ UNCHANGED <<procVars, phase, waitVars, req, cid, hooked, diskVars>>

\* Variant: the instance is closed and the directory is left.
closeDuckDBOnly(c) ==
    /\ phase \in Running
    /\ Pool!Finish(c)
    /\ UNCHANGED <<procVars, phase, waitVars, req, cid, hooked, diskVars>>

closeDuckDB(c) ==
    /\ phase \in Running
    /\ Pool!Finish(c)
    /\ \/ /\ dir' = [dir EXCEPT ![cid[c]] = {}]
          /\ left' = left \ dir[cid[c]]
       \/ left' = left \cup {Me(c)} /\ UNCHANGED dir
    /\ UNCHANGED <<procVars, phase, waitVars, req, cid, hooked, pidFile>>

-----------------------------------------------------------------------------
(* Ending.                                                                 *)

\* SIGINT, SIGTERM or the caller's context; later signals change nothing.
signal ==
    /\ phase \in {"listen", "serve"} /\ ~stop
    /\ stop' = TRUE
    /\ UNCHANGED <<run, phase, fate, waitVars, connVars, diskVars>>

\* ctxsrv calls Shutdown: the listener is closed.
Shutdown ==
    /\ phase \in {"listen", "serve"} /\ stop
    /\ phase' = "shutdown"
    /\ UNCHANGED <<procVars, waitVars, connVars, diskVars>>

\* Variant: Close in the place of Shutdown.
ShutdownDoneAtOnce == phase = "shutdown" /\ Return("ok")

\* Shutdown returns: net/http tracks no connection any more.
ShutdownDone ==
    /\ phase = "shutdown"
    /\ \A c \in Conns : link[c] # "up"
    /\ Return("ok")

\* Variant: the shutdown waits for the requests without a limit.
ShutdownTimeoutIdle ==
    /\ phase = "shutdown"
    /\ \A c \in Conns : req[c] = "none"
    /\ Return("error")

\* A minute has passed; handlers that still run are not cancelled.
ShutdownTimeout ==
    /\ phase = "shutdown"
    /\ \E c \in Conns : link[c] = "up"
    /\ Return("error")

\* The memory is lost, the disk stays.
Die ==
    /\ phase' = "off"
    /\ left' = left \cup {Me(c) : c \in {d \in Conns : Open(d) \/ req[d] = "opening"}}
    /\ stop' = FALSE /\ url' = FALSE /\ waiter' = Sleep
    /\ link' = NoLink /\ session' = Nothing /\ req' = Nothing
    /\ cid' = NoID /\ hooked' = {}
    /\ UNCHANGED <<run, pidFile, dir>>

\* main returns, whatever the goroutines of the connections are doing.
exit == phase = "returned" /\ Die /\ UNCHANGED fate

\* The process dies: killed, or a signal before NotifyContext.
kill ==
    /\ phase \notin {"off", "returned"}
    /\ fate' = "crash"
    /\ Die

Finished == phase = "off" /\ run = MaxRuns /\ UNCHANGED vars

-----------------------------------------------------------------------------
\* Steps of the process that need nobody else.
Main ==
    \/ New \/ checkDB \/ writePID \/ setupAccessLogger \/ BaseContext
    \/ startError \/ serveError \/ Shutdown \/ ShutdownDone \/ ShutdownTimeout
    \/ exit

Closing(c) == ConnState(c) \/ closeDB(c) \/ closeDuckDB(c)

Serving(c) ==
    \/ Accept(c) \/ handle(c) \/ respond(c) \/ getPrivateDir(c)
    \/ connectDuckDB(c) \/ connectError(c) \/ disconnect(c)

Next ==
    \/ start \/ Main \/ signal \/ kill \/ Finished
    \/ \E w \in Waiters : WaitServe(w)
    \/ \E c \in Conns : Serving(c) \/ Closing(c)

Spec == Init /\ [][Next]_vars

-----------------------------------------------------------------------------
\* The PID file names the process that runs, from before it listens until
\* Serve has returned, and only a process that died leaves its number behind:
\* no error return of Serve does.
PIDFileTrue ==
    /\ PIDFile /\ phase \in Deferred => pidFile = run
    /\ pidFile # 0 /\ pidFile = run => phase \in Deferred \/ fate = "crash"

\* WaitServe misses no wake-up: nobody sleeps once the URL is set, and nobody
\* has returned before.
NoLostWakeup ==
    \A w \in Waiters : /\ waiter[w] = "asleep" => ~url
                       /\ waiter[w] = "done" => url

\* An orderly shutdown interrupts no request: when Serve returns nil every
\* request that had begun has been answered.
RequestsFinish ==
    phase = "returned" /\ fate = "ok" => \A c \in Conns : req[c] = "none"

\* Session t of the current process uses its private directory.
InUse(t, i) ==
    /\ t[1] = run /\ phase \in Running
    /\ cid[t[2]] = i
    /\ Open(t[2]) \/ req[t[2]] = "opening"

\* README: private directories are unique, and removed when the connection is
\* lost.  What is in a directory that nobody uses was left by a session whose
\* opening or clean-up failed, or whose process ended before the clean-up; and
\* what a connection finds in its own that is not its own was left that way
\* or belongs to a connection of this process that is going down.
DirAccounted ==
    \A i \in IDs : \A t \in dir[i] : t \notin left =>
        /\ InUse(t, i)
        /\ \A c \in Conns \ {t[2]} :
              link[c] = "up" /\ Open(c) /\ cid[c] = i => link[t[2]] = "down"

-----------------------------------------------------------------------------
(* Progress: the process runs on, and a minute passes.  Peers, handlers    *)
(* and closing goroutines need not do anything.                            *)

FairSpec == Spec /\ WF_vars(Main)

\* A signal ends the process although requests may run for ever.
SignalEnds == stop ~> phase = "off"

=============================================================================
