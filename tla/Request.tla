------------------------------- MODULE Request -------------------------------
(***************************************************************************)
(* The requests of one kept-alive connection on their way through the      *)
(* handlers of duckserver/duckserver.go: authentication, the access log    *)
(* (internal/accesslog), the mux, a handler, and httperror.Write for the   *)
(* error it returned.                                                      *)
(***************************************************************************)
EXTENDS Naturals

CONSTANTS
    Entries,        \* entries of the authentication file, with init queries
    Authenticator,  \* -authnfile was given
    NoAuthz,        \* -noauthz was given
    UI,             \* uiFS is set
    Pprof,          \* -pprof was given
    None            \* no entry

ASSUME RequestAssumption ==
    /\ {Authenticator, NoAuthz, UI, Pprof} \subseteq BOOLEAN
    /\ NoAuthz => Authenticator
    /\ None \notin Entries
    /\ "none" \notin Entries \cup {None}

VARIABLES
    pc,       \* where the request is
    req,      \* the request
    entry,    \* the entry bound to the request's context
    ctxEntry, \* the entry bound to the connection's context (Client.ctx)
    err,      \* the status of the error the handler returned, 0 for nil
    wire,     \* the status sent to the client, 0 before WriteHeader
    status,   \* wrapWriter.status
    logged,   \* the status in the access log
    opener,   \* the entry whose request opened the database, "none" if closed
    initBy,   \* the entry whose init query prepared the database
    effect    \* what the request has done: nothing, or a guarded operation

vars == <<pc, req, entry, ctxEntry, err, wire, status, logged,
          opener, initBy, effect>>
connVars == <<ctxEntry, opener, initBy>>

-----------------------------------------------------------------------------
Fetch    == {"GET", "HEAD"}                     \* what a GET pattern matches
ReadOnly == Fetch \cup {"OPTIONS", "PROPFIND"}  \* of /shared/: no authz
Methods  == ReadOnly \cup {"POST", "PUT", "DELETE", "PROPPATCH", "LOCK"}
Plain    == {"ping", "config", "connections", "queries"}   \* GET, no authz
Routes   == Plain \cup {"query", "interrupt", "shared", "ui", "pprof", "unknown"}

\* The entry whose credentials are in the header (None: no such entry), and
\* what handleQuery reads: the body, the "q" parameter and the format.
Requests ==
    [route : Routes, method : Methods, cred : Entries \cup {None},
     body : {"empty"}, q : {FALSE}, format : {"known"}]
    \cup
    [route : {"query"}, method : Methods, cred : Entries \cup {None},
     body : {"empty", "sql", "large"}, q : BOOLEAN, format : {"known", "bad"}]

Init ==
    /\ pc = "idle"
    /\ req \in {r \in Requests : r.route = "ping" /\ r.method = "GET" /\ r.cred = None}
    /\ entry = None /\ ctxEntry = None
    /\ err = 0 /\ wire = 200 /\ status = 200 /\ logged = 200
    /\ opener = "none" /\ initBy = None
    /\ effect = "none"

\* wrapWriter.WriteHeader: the first status goes out, the last is noted.
WriteHeader(s) ==
    /\ wire' = IF wire = 0 THEN s ELSE wire
    /\ status' = s

\* wrapWriter.Write: the base writer sends 200 before the first byte of a body
\* that no status came before, and wrapWriter does not note it.
Write ==
    /\ wire' = IF wire = 0 THEN 200 ELSE wire
    /\ UNCHANGED status

\* A handler sends status s, fails while it writes the body and calls
\* WriteHeader(500), which only wrapWriter notices.
Late(s) ==
    /\ wire' = IF wire = 0 THEN s ELSE wire
    /\ status' = 500

\* The handler returns an error, or nil (0).
Return(e) == pc' = "return" /\ err' = e

\* AuthenticateHandler and WrapHandler: a new request, whose own context,
\* a child of the connection's, gets the entry; a new wrapWriter.
AuthenticateHandler ==
    /\ pc = "idle"
    /\ req' \in Requests
    /\ entry' = IF Authenticator THEN req'.cred ELSE None
    /\ err' = 0 /\ wire' = 0 /\ status' = 0 /\ logged' = 0
    /\ effect' = "none"
    /\ pc' = "mux"
    /\ UNCHANGED connVars

checkAuthz == ~Authenticator \/ entry # None \/ NoAuthz

\* The mux answers by itself: 404, or 405 for another method.
muxError ==
    /\ pc = "mux"
    /\ \/ req.route = "unknown" /\ WriteHeader(404)
       \/ /\ req.route = "pprof" /\ (Pprof => req.method \notin Fetch)
          /\ WriteHeader(IF Pprof THEN 405 ELSE 404)
       \/ req.route \in Plain /\ req.method \notin Fetch /\ WriteHeader(405)
       \/ req.route = "interrupt" /\ req.method # "DELETE" /\ WriteHeader(405)
    /\ Return(0)
    /\ UNCHANGED <<req, entry, logged, connVars, effect>>

\* handlePing, handleConfig, handleStatusConnections, handleStatusQueries:
\* 200 first; all but handlePing return the error of a failing write.
handlePlain ==
    /\ pc = "mux"
    /\ req.route \in Plain /\ req.method \in Fetch
    /\ WriteHeader(200)
    /\ Return(0) \/ (req.route # "ping" /\ Return(500))
    /\ UNCHANGED <<req, entry, logged, connVars, effect>>

handleInterruptQuery ==
    /\ pc = "mux"
    /\ req.route = "interrupt" /\ req.method = "DELETE"
    /\ \/ ~checkAuthz /\ Return(401) /\ UNCHANGED <<wire, status, effect>>
       \/ /\ checkAuthz
          /\ \/ \E e \in {400, 404} : Return(e) /\ UNCHANGED <<wire, status, effect>>
             \/ Return(0) /\ WriteHeader(204) /\ effect' = "interrupt"
    /\ UNCHANGED <<req, entry, logged, connVars>>

\* listDirHandler: http.NotFound, http.Redirect, http.Error and http.ServeFile
\* call WriteHeader; a listing is a body without it, and when the template
\* cannot be written, http.Error comes too late.
listDirHandler ==
    \/ \E s \in {200, 301, 404, 500} : WriteHeader(s)
    \/ Write
    \/ Late(200)

\* webdav.Handler (external): OPTIONS writes nothing but header fields, a LOCK of
\* a file that is there answers without a status, and a multi-status answer may
\* fail after its header.
webdavHandler ==
    \/ req.method = "OPTIONS" /\ UNCHANGED <<wire, status>>
    \/ req.method = "LOCK" /\ Write
    \/ /\ req.method \in {"PROPFIND", "PROPPATCH"}
       /\ WriteHeader(207) \/ Late(207)
    \/ req.method # "OPTIONS" /\ \E s \in {200, 201, 204, 404, 500} : WriteHeader(s)

\* authzChangeOperationHanlder around Server.ServeHTTP of fileserver.
handleShared ==
    /\ pc = "mux"
    /\ req.route = "shared"
    /\ \/ /\ req.method \notin ReadOnly /\ ~checkAuthz
          /\ WriteHeader(401)
          /\ UNCHANGED effect
       \/ /\ req.method \in ReadOnly \/ checkAuthz
          /\ IF req.method \in Fetch THEN listDirHandler ELSE webdavHandler
          /\ effect' = IF req.method \in ReadOnly THEN effect ELSE "change"
    /\ Return(0)
    /\ UNCHANGED <<req, entry, logged, connVars>>

\* http.FileServerFS (external), which lists a directory that has no index.html
\* as listDirHandler does.
handleUI ==
    /\ pc = "mux"
    /\ req.route = "ui"
    /\ IF UI THEN Write \/ \E s \in {200, 301, 404} : WriteHeader(s)
       ELSE WriteHeader(404)
    /\ Return(0)
    /\ UNCHANGED <<req, entry, logged, connVars, effect>>

\* The handlers of net/http/pprof (external) give a status to errors only.
handlePprof ==
    /\ pc = "mux"
    /\ req.route = "pprof" /\ Pprof /\ req.method \in Fetch
    /\ Write \/ \E s \in {404, 500} : WriteHeader(s)
    /\ Return(0)
    /\ UNCHANGED <<req, entry, logged, connVars, effect>>

-----------------------------------------------------------------------------
(* handleQuery.                                                            *)

shouldRedirectToUI == UI /\ req.method = "GET" /\ ~req.q

\* Variant: the access is checked after the database was opened.
handleQueryUnchecked ==
    /\ pc = "mux"
    /\ req.route = "query"
    /\ pc' = "client"
    /\ UNCHANGED <<req, entry, err, wire, status, logged, connVars, effect>>

\* A body over MaxBodySize: nil is returned and no header is written.
tooLarge == Return(0) /\ UNCHANGED <<wire, status>>

\* The checks up to the database connection, in the order of the code.
handleQuery ==
    /\ pc = "mux"
    /\ req.route = "query"
    /\ IF shouldRedirectToUI THEN Return(0) /\ WriteHeader(307)
       ELSE IF ~checkAuthz THEN Return(401) /\ UNCHANGED <<wire, status>>
       ELSE IF req.method \notin {"GET", "POST"}
            THEN Return(404) /\ UNCHANGED <<wire, status>>
       ELSE IF req.body = "large" THEN tooLarge
       ELSE IF (req.body = "empty" /\ ~req.q) \/ req.format = "bad"
            THEN Return(400) /\ UNCHANGED <<wire, status>>
       ELSE pc' = "client" /\ UNCHANGED <<err, wire, status>>
    /\ UNCHANGED <<req, entry, logged, connVars, effect>>

\* Client and Conn: the database of the connection, opened on first use with
\* the context of the connection: its entry is the one connectDuckDB asks for.
openClient ==
    /\ pc = "client"
    /\ \/ opener # "none" /\ pc' = "exec" /\ UNCHANGED <<err, connVars>>
       \/ /\ opener = "none"
          /\ opener' = entry
          /\ initBy' = ctxEntry
          /\ pc' = "exec"
          /\ UNCHANGED <<err, ctxEntry>>
       \/ /\ opener = "none"
          /\ \E e \in {429, 500} : Return(e)
          /\ UNCHANGED connVars
    /\ UNCHANGED <<req, entry, wire, status, logged, effect>>

\* QueryContext fails, or the header goes out and the rows are written.  (The
\* status 100 of an Expect header is always followed by one of these.)
execQuery ==
    /\ pc = "exec"
    /\ effect' = "query"
    /\ \/ \E e \in {400, 500, 504} : Return(e) /\ UNCHANGED <<wire, status>>
       \/ WriteHeader(200) /\ \E e \in {0, 500} : Return(e)
    /\ UNCHANGED <<req, entry, logged, connVars>>

-----------------------------------------------------------------------------
\* Variant: the status of the error is lost.
writeError200 ==
    /\ pc = "return"
    /\ IF err # 0 THEN wire' = (IF wire = 0 THEN 200 ELSE wire) /\ status' = err
       ELSE UNCHANGED <<wire, status>>
    /\ pc' = "log"
    /\ UNCHANGED <<req, entry, err, logged, connVars, effect>>

\* errorAwareHandler: httperror.Write for an error.
writeError ==
    /\ pc = "return"
    /\ IF err # 0 THEN WriteHeader(err) ELSE UNCHANGED <<wire, status>>
    /\ pc' = "log"
    /\ UNCHANGED <<req, entry, err, logged, connVars, effect>>

\* writeLog, then net/http ends the response: 200 when nothing was written.
writeLog ==
    /\ pc = "log"
    /\ logged' = status
    /\ wire' = IF wire = 0 THEN 200 ELSE wire
    /\ pc' = "idle"
    /\ UNCHANGED <<req, entry, err, status, connVars, effect>>

Next ==
    \/ AuthenticateHandler \/ muxError \/ handlePlain \/ handleInterruptQuery
    \/ handleShared \/ handleUI \/ handlePprof \/ handleQuery \/ openClient \/ execQuery
    \/ writeError \/ writeLog

Spec == Init /\ [][Next]_vars

-----------------------------------------------------------------------------
\* README: with -authnfile and without -noauthz only authenticated requests
\* run queries, interrupt them or change the shared directory; none of the
\* others takes one of the MaxDB databases either.
Guarded ==
    Authenticator /\ ~NoAuthz =>
        /\ effect # "none" => entry # None
        /\ opener # None

\* Requests whose handler may never call WriteHeader: listings of the shared
\* directory and of the UI, OPTIONS and LOCK, pprof, and a body that was too
\* large, for which, other than the comment in handleQuery says, nobody writes
\* a 413.
Silent ==
    \/ req.route = "shared" /\ req.method \in Fetch \cup {"OPTIONS", "LOCK"}
    \/ req.route \in {"ui", "pprof"}
    \/ req.route = "query" /\ req.body = "large"

\* README: the access log holds the status code.  An error status the client
\* gets is always in the log.  The log differs from the response in two ways
\* only: it has the 500 of a failure that came after the header with 200 (or 207
\* of WebDAV), and a 0 for a 200 that net/http sent because nobody called
\* WriteHeader.
LogExplained ==
    pc = "idle" /\ logged # wire =>
        \/ logged = 500 /\ wire = 200 /\ (err = 500 \/ req.route = "shared")
        \/ logged = 500 /\ wire = 207 /\ req.route = "shared"
        \/ logged = 0 /\ wire = 200 /\ Silent

\* README: the init query of an entry prepares the database when that entry
\* is used.
InitQueryUsed == opener \in Entries => initBy = opener

=============================================================================
