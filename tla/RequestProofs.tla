--------------------------- MODULE RequestProofs ---------------------------
(***************************************************************************)
(* Authorization and the access log, for any authentication file and any   *)
(* sequence of requests over a connection.                                 *)
(***************************************************************************)
EXTENDS Request, TLAPS

\* Past handleQuery's checks the request is authorized, and so is whatever it
\* has done and whoever opened the database.
Authorized ==
    Authenticator /\ ~NoAuthz =>
        /\ effect # "none" => entry # None
        /\ opener # None
        /\ pc \in {"client", "exec"} => entry # None

\* How what was sent, what wrapWriter noted and what the handler returned
\* belong together, from stage to stage.
Stages ==
    /\ pc \in {"mux", "client", "exec"} => wire = 0 /\ status = 0 /\ err = 0
    /\ pc = "return" =>
        \/ wire = 0 /\ status = 0 /\ err # 0
        \/ wire \in {0, 200} /\ status = 0 /\ err = 0 /\ Silent
        \/ wire # 0 /\ status = wire /\ err = 0
        \/ wire = 200 /\ status = 200 /\ err = 500
        \/ wire \in {200, 207} /\ status = 500 /\ err = 0 /\ req.route = "shared"
    /\ pc = "log" =>
        \/ wire \in {0, 200} /\ status = 0 /\ Silent
        \/ wire # 0 /\ status = wire
        \/ wire = 200 /\ status = 500 /\ err = 500
        \/ wire \in {200, 207} /\ status = 500 /\ req.route = "shared"

IInv == Authorized /\ Stages /\ LogExplained

\* Before the first request there is no effect and no log.
LEMMA InitIInv == Init => IInv
BY RequestAssumption DEF Init, IInv, Authorized, Stages, LogExplained

\* No step of a request leaves IInv.
LEMMA NextIInv == IInv /\ [Next]_vars => IInv'
<1> SUFFICES ASSUME IInv, [Next]_vars PROVE IInv'
  OBVIOUS
<1> USE DEF IInv, Authorized, Stages, LogExplained, Silent, Fetch, connVars
<1>1. CASE AuthenticateHandler
  BY <1>1 DEF AuthenticateHandler
<1>2. CASE muxError
  BY <1>2 DEF muxError, WriteHeader, Return
<1>3. CASE handlePlain
  BY <1>3 DEF handlePlain, WriteHeader, Return
<1>4. CASE handleInterruptQuery
  BY <1>4 DEF handleInterruptQuery, WriteHeader, Return, checkAuthz
<1>5. CASE handleShared
  BY <1>5 DEF handleShared, listDirHandler, webdavHandler, WriteHeader, Write, Late,
              Return, checkAuthz, ReadOnly
<1>6. CASE handleUI
  BY <1>6 DEF handleUI, WriteHeader, Write, Return
<1>7. CASE handleQuery
  BY <1>7 DEF handleQuery, tooLarge, WriteHeader, Return, checkAuthz
<1>8. CASE openClient
  BY <1>8 DEF openClient, Return
<1>9. CASE execQuery
  BY <1>9 DEF execQuery, WriteHeader, Return
<1>10. CASE writeError
  BY <1>10 DEF writeError, WriteHeader
<1>11. CASE writeLog
  BY <1>11 DEF writeLog
<1>12. CASE UNCHANGED vars
  BY <1>12 DEF vars
<1>13. CASE handlePprof
  BY <1>13 DEF handlePprof, WriteHeader, Write, Return
<1>14. QED
  BY <1>1, <1>2, <1>3, <1>4, <1>5, <1>6, <1>7, <1>8, <1>9, <1>10, <1>11, <1>12, <1>13
  DEF Next

\* IInv holds in every reachable state.
THEOREM Invariance == Spec => []IInv
BY InitIInv, NextIInv, PTL DEF Spec

\* With an authentication file and without -noauthz no unauthenticated request
\* runs or interrupts a query, changes the shared directory or opens a
\* database (Guarded), over connections with any sequence of requests.
THEOREM GuardedAlways == Spec => []Guarded
<1>1. IInv => Guarded
  BY DEF IInv, Authorized, Guarded
<1>2. QED
  BY <1>1, Invariance, PTL

\* The access log differs from the response only after a late failure, which it
\* has as 500, and where no handler called WriteHeader, which it has as 0: a
\* listing, OPTIONS, LOCK, pprof, a body that was too large (LogExplained).
THEOREM LogExplainedAlways == Spec => []LogExplained
<1>1. IInv => LogExplained
  BY DEF IInv
<1>2. QED
  BY <1>1, Invariance, PTL

=============================================================================
