------------------------------- MODULE QueryDB -------------------------------
(***************************************************************************)
(* The registry of running queries (internal/querydb) and the handlers of  *)
(* duckserver/duckserver.go that use it: handleQuery from the point where  *)
(* it has its database connection, handleInterruptQuery and                *)
(* handleStatusQueries.                                                    *)
(*                                                                         *)
(* Actors: a handler goroutine per query request, which is also the name   *)
(* of its Query object; a handler per DELETE /status/queries/{id}; a       *)
(* handler per GET /status/queries/; the goroutine database/sql starts to  *)
(* close the rows of a cancelled query.  The critical sections of          *)
(* Database.mu do not block and are one step each; Query.Close is two      *)
(* steps, remove and cancel.                                               *)
(***************************************************************************)
EXTENDS Integers

CONSTANTS
    Reqs,          \* requests that run a query
    Interrupters,  \* DELETE requests
    Listers,       \* GET /status/queries/ requests
    QIDs,          \* the values of querydb.ID that rand.Uint32 can return
    MaxRows,       \* bound on the rows of a result
    None

ASSUME QueryDBAssumption ==
    /\ MaxRows \in Nat
    /\ None \notin Reqs \cup QIDs

VARIABLES
    queries,   \* Database.queries
    qid,       \* Query.ID of a request's query
    canceled,  \* the queries whose cancel function was called
    gone,      \* the requests whose own context has ended (client left)
    pc,        \* where a query handler is
    code,      \* the error the handler returns, 0 for nil
    status,    \* the status on the wire, 0 before the header is sent
    left,      \* the rows of the result that are still to be written
    closed,    \* the requests whose sql.Rows were closed by awaitDone
    tail,      \* the responses with an error text after a 200 header
    failed,    \* the requests whose rows.Next met an error of DuckDB
    ipc,       \* where a DELETE handler is
    iq,        \* the query it looked up
    reply,     \* its answer
    lpc,       \* where a listing handler is
    snap       \* the queries it was given

regVars  == <<queries, qid, canceled>>
reqVars  == <<pc, code, status, left, closed, tail, failed>>
intVars  == <<ipc, iq, reply>>
listVars == <<lpc, snap>>
vars     == <<queries, qid, canceled, gone, pc, code, status, left, closed, tail,
              failed, ipc, iq, reply, lpc, snap>>

-----------------------------------------------------------------------------
Executing == {"exec", "head", "rows"}     \* between Add and the deferred Close
PCs       == {"new", "remove", "cancel", "answer", "done"} \cup Executing
IPCs      == {"idle", "remove", "cancel", "reply", "done"}
LPCs      == {"idle", "done"}
Codes     == {0, 400, 500, 504}

\* Variant: the query's context is not derived from the request's.
EndedOwn(r) == r \in canceled

\* The context of the query has ended: its own, or the request's above it.
Ended(r) == r \in canceled \cup gone

\* The handler leaves its body with error e: the deferred calls begin.
Leave(r, e) ==
    /\ pc' = [pc EXCEPT ![r] = "remove"]
    /\ code' = [code EXCEPT ![r] = e]

Init ==
    /\ queries = [i \in QIDs |-> None]
    /\ qid = [r \in Reqs |-> None]
    /\ canceled = {} /\ gone = {} /\ closed = {} /\ tail = {} /\ failed = {}
    /\ pc = [r \in Reqs |-> "new"]
    /\ code = [r \in Reqs |-> 0]
    /\ status = [r \in Reqs |-> 0]
    /\ left = [r \in Reqs |-> 0]
    /\ ipc = [k \in Interrupters |-> "idle"]
    /\ iq = [k \in Interrupters |-> None]
    /\ reply = [k \in Interrupters |-> 0]
    /\ lpc = [l \in Listers |-> "idle"]
    /\ snap = [l \in Listers |-> {}]

-----------------------------------------------------------------------------
(* A query request.                                                        *)

\* Variant: the ID is not tested against the registered ones.
AddAnyID(r) ==
    /\ pc[r] = "new"
    /\ \E i \in QIDs :
        /\ queries' = [queries EXCEPT ![i] = r]
        /\ qid' = [qid EXCEPT ![r] = i]
    /\ pc' = [pc EXCEPT ![r] = "exec"]
    /\ UNCHANGED <<canceled, gone, code, status, left, closed, tail, failed,
                   intVars, listVars>>

\* Database.Add: newID draws until the ID is free, under Database.mu.
Add(r) ==
    /\ pc[r] = "new"
    /\ \E i \in QIDs :
        /\ queries[i] = None
        /\ queries' = [queries EXCEPT ![i] = r]
        /\ qid' = [qid EXCEPT ![r] = i]
    /\ pc' = [pc EXCEPT ![r] = "exec"]
    /\ UNCHANGED <<canceled, gone, code, status, left, closed, tail, failed,
                   intVars, listVars>>

\* conn.QueryContext returns rows; the header with status 200 is written.
\* A cancellation may come too late to keep it from doing so.
queryOK(r) ==
    /\ pc[r] = "exec"
    /\ \E n \in 0..MaxRows : left' = [left EXCEPT ![r] = n]
    /\ status' = [status EXCEPT ![r] = 200]
    /\ pc' = [pc EXCEPT ![r] = "head"]
    /\ UNCHANGED <<regVars, gone, code, closed, tail, failed, intVars, listVars>>

\* Variant: a cancellation is reported whether or not there was one.
queryCanceledAlways(r) ==
    /\ pc[r] = "exec"
    /\ Leave(r, 504)
    /\ UNCHANGED <<regVars, gone, status, left, closed, tail, failed, intVars, listVars>>

\* QueryContext returns context.Canceled: status 504.
queryCanceled(r) ==
    /\ pc[r] = "exec"
    /\ Ended(r)
    /\ Leave(r, 504)
    /\ UNCHANGED <<regVars, gone, status, left, closed, tail, failed, intVars, listVars>>

\* QueryContext returns an error of DuckDB (400) or another one (500).
queryError(r) ==
    /\ pc[r] = "exec"
    /\ \E e \in {400, 500} : Leave(r, e)
    /\ UNCHANGED <<regVars, gone, status, left, closed, tail, failed, intVars, listVars>>

\* database/sql closes the rows when the context of the query has ended.
awaitDone(r) ==
    /\ pc[r] \in {"head", "rows"}
    /\ Ended(r)
    /\ r \notin closed
    /\ closed' = closed \cup {r}
    /\ UNCHANGED <<regVars, gone, pc, code, status, left, tail, failed, intVars, listVars>>

\* writeRows: the column types and the header of the format; the context is
\* tested before and after.
writeHeader(r) ==
    /\ pc[r] = "head"
    /\ ~Ended(r)
    /\ pc' = [pc EXCEPT ![r] = "rows"]
    /\ UNCHANGED <<regVars, gone, code, status, left, closed, tail, failed, intVars, listVars>>

\* Variant: a row is written after the last one.
writeRowPast(r) ==
    /\ pc[r] = "rows"
    /\ r \notin closed
    /\ ~Ended(r)
    /\ left' = [left EXCEPT ![r] = @ - 1]
    /\ UNCHANGED <<regVars, gone, pc, code, status, closed, tail, failed, intVars, listVars>>

\* writeRows: rows.Next is true, the context is alive, the row is written.
writeRow(r) ==
    /\ pc[r] = "rows"
    /\ left[r] > 0
    /\ r \notin closed
    /\ ~Ended(r)
    /\ left' = [left EXCEPT ![r] = @ - 1]
    /\ UNCHANGED <<regVars, gone, pc, code, status, closed, tail, failed, intVars, listVars>>

\* writeRows returns an error: ctx.Err, Scan, the formatter or the network.
writeError(r) ==
    /\ pc[r] \in {"head", "rows"}
    /\ Leave(r, 500)
    /\ UNCHANGED <<regVars, gone, status, left, closed, tail, failed, intVars, listVars>>

\* rows.Next is false, at the end of the result or because the rows were
\* closed; the formatter is flushed and writeRows returns nil.
rowsEnd(r) ==
    /\ pc[r] = "rows"
    /\ left[r] = 0 \/ r \in closed
    /\ Leave(r, 0)
    /\ UNCHANGED <<regVars, gone, status, left, closed, tail, failed, intVars, listVars>>

\* rows.Next is false because DuckDB failed to produce the next row.
\* rows.Err is not asked: this ends as the end of the result does.
nextError(r) ==
    /\ pc[r] = "rows"
    /\ left[r] > 0 /\ r \notin closed
    /\ failed' = failed \cup {r}
    /\ Leave(r, 0)
    /\ UNCHANGED <<regVars, gone, status, left, closed, tail, intVars, listVars>>

\* Variant: the entry is not deleted.
CloseRemoveKept(r) ==
    /\ pc[r] = "remove"
    /\ pc' = [pc EXCEPT ![r] = IF queries[qid[r]] = None THEN "answer" ELSE "cancel"]
    /\ UNCHANGED <<regVars, gone, code, status, left, closed, tail, failed,
                   intVars, listVars>>

\* The deferred Query.Close: Database.remove, by ID.
CloseRemove(r) ==
    /\ pc[r] = "remove"
    /\ queries' = [queries EXCEPT ![qid[r]] = None]
    /\ pc' = [pc EXCEPT ![r] = IF queries[qid[r]] = None THEN "answer" ELSE "cancel"]
    /\ UNCHANGED <<qid, canceled, gone, code, status, left, closed, tail, failed,
                   intVars, listVars>>

\* Query.Close goes on to cancel when remove found the ID.
CloseCancel(r) ==
    /\ pc[r] = "cancel"
    /\ canceled' = canceled \cup {r}
    /\ pc' = [pc EXCEPT ![r] = "answer"]
    /\ UNCHANGED <<queries, qid, gone, code, status, left, closed, tail, failed,
                   intVars, listVars>>

\* errorAwareHandler: httperror.Write sends the error as the response, or
\* after a header that is already out, appends its text to the body.
answer(r) ==
    /\ pc[r] = "answer"
    /\ status' = IF status[r] = 0 THEN [status EXCEPT ![r] = code[r]] ELSE status
    /\ tail' = IF code[r] # 0 /\ status[r] # 0 THEN tail \cup {r} ELSE tail
    /\ code' = [code EXCEPT ![r] = 0]
    /\ pc' = [pc EXCEPT ![r] = "done"]
    /\ UNCHANGED <<regVars, gone, left, closed, failed, intVars, listVars>>

\* The client closes its connection: net/http ends the request's context.
\* Once the handler has left its body nothing depends on it.
disconnect(r) ==
    /\ pc[r] \in {"new"} \cup Executing
    /\ r \notin gone
    /\ gone' = gone \cup {r}
    /\ UNCHANGED <<regVars, reqVars, intVars, listVars>>

-----------------------------------------------------------------------------
(* DELETE /status/queries/{id}: handleInterruptQuery.                      *)

\* Database.Query; 404 when the ID is not registered.
interrupt(k) ==
    /\ ipc[k] = "idle"
    /\ \E i \in QIDs :
        /\ iq' = [iq EXCEPT ![k] = queries[i]]
        /\ ipc' = [ipc EXCEPT ![k] = IF queries[i] = None THEN "done" ELSE "remove"]
        /\ reply' = [reply EXCEPT ![k] = IF queries[i] = None THEN 404 ELSE 0]
    /\ UNCHANGED <<regVars, gone, reqVars, listVars>>

\* Query.Close of the query found: remove, by its ID.
interruptRemove(k) ==
    /\ ipc[k] = "remove"
    /\ LET i == qid[iq[k]] IN
        /\ queries' = [queries EXCEPT ![i] = None]
        /\ ipc' = [ipc EXCEPT ![k] = IF queries[i] = None THEN "reply" ELSE "cancel"]
    /\ UNCHANGED <<qid, canceled, gone, reqVars, iq, reply, listVars>>

\* Variant: the entry is removed and the context is left alone.
interruptCancelNot(k) ==
    /\ ipc[k] = "cancel"
    /\ ipc' = [ipc EXCEPT ![k] = "reply"]
    /\ UNCHANGED <<regVars, gone, reqVars, iq, reply, listVars>>

interruptCancel(k) ==
    /\ ipc[k] = "cancel"
    /\ canceled' = canceled \cup {iq[k]}
    /\ ipc' = [ipc EXCEPT ![k] = "reply"]
    /\ UNCHANGED <<queries, qid, gone, reqVars, iq, reply, listVars>>

interruptReply(k) ==
    /\ ipc[k] = "reply"
    /\ reply' = [reply EXCEPT ![k] = 204]
    /\ ipc' = [ipc EXCEPT ![k] = "done"]
    /\ UNCHANGED <<regVars, gone, reqVars, iq, listVars>>

-----------------------------------------------------------------------------
(* GET /status/queries/.                                                   *)

\* Database.Queries: the registered queries, under the read lock.
Queries == {queries[i] : i \in QIDs} \ {None}

\* The list is taken at one moment; the statistics of its queries, which may
\* end meanwhile, are then written one by one.
handleStatusQueries(l) ==
    /\ lpc[l] = "idle"
    /\ snap' = [snap EXCEPT ![l] = Queries]
    /\ lpc' = [lpc EXCEPT ![l] = "done"]
    /\ UNCHANGED <<regVars, gone, reqVars, intVars>>

-----------------------------------------------------------------------------
\* Steps the handler takes by itself once QueryContext has returned.
Tail(r) ==
    \/ writeHeader(r) \/ writeRow(r) \/ writeError(r) \/ rowsEnd(r)
    \/ nextError(r) \/ CloseRemove(r) \/ CloseCancel(r) \/ answer(r)

Query(r) ==
    \/ Add(r) \/ queryOK(r) \/ queryCanceled(r) \/ queryError(r) \/ awaitDone(r)
    \/ Tail(r) \/ disconnect(r)

Close(k) == interruptRemove(k) \/ interruptCancel(k) \/ interruptReply(k)

\* All requests of the model have been answered.
Finished ==
    /\ \A r \in Reqs : pc[r] = "done"
    /\ \A k \in Interrupters : ipc[k] = "done"
    /\ \A l \in Listers : lpc[l] = "done"
    /\ UNCHANGED vars

Next ==
    \/ \E r \in Reqs : Query(r)
    \/ \E k \in Interrupters : interrupt(k) \/ Close(k)
    \/ \E l \in Listers : handleStatusQueries(l)
    \/ Finished

Spec == Init /\ [][Next]_vars

TypeOK ==
    /\ queries \in [QIDs -> Reqs \cup {None}]
    /\ qid \in [Reqs -> QIDs \cup {None}]
    /\ canceled \subseteq Reqs /\ gone \subseteq Reqs
    /\ closed \subseteq Reqs /\ tail \subseteq Reqs /\ failed \subseteq Reqs
    /\ pc \in [Reqs -> PCs]
    /\ code \in [Reqs -> Codes]
    /\ status \in [Reqs -> Codes \cup {200}]
    /\ left \in [Reqs -> 0..MaxRows]
    /\ ipc \in [Interrupters -> IPCs]
    /\ iq \in [Interrupters -> Reqs \cup {None}]
    /\ reply \in [Interrupters -> {0, 204, 404}]
    /\ lpc \in [Listers -> LPCs]
    /\ snap \in [Listers -> SUBSET Reqs]

-----------------------------------------------------------------------------
\* A DELETE has looked r up.
LookedUp(r) == \E k \in Interrupters : iq[k] = r

\* Somebody removed the entry of r and is about to cancel it, or has done so.
Stopped(r) ==
    r \in canceled \/ \E k \in Interrupters : ipc[k] = "cancel" /\ iq[k] = r

\* r was given the ID of another query that a DELETE has looked up.
Reused(r) == \E d \in Reqs \ {r} : qid[d] = qid[r] /\ LookedUp(d)

\* README: running queries are listed, and each can be cancelled.  A query
\* that is being executed is registered under its ID until it is stopped.
\* The exception: rand.Uint32 repeats the ID of a query that a DELETE removed
\* before its handler did; the late removal by ID then hits the new query.
Cancellable ==
    \A r \in Reqs :
        pc[r] \in Executing => queries[qid[r]] = r \/ Stopped(r) \/ Reused(r)

\* The registry forgets a query when its request ends, and never holds two
\* queries for an ID or a query under an ID that is not its own.
NoLeak ==
    \A i \in QIDs : queries[i] # None =>
        /\ qid[queries[i]] = i
        /\ pc[queries[i]] \in Executing \cup {"remove"}

\* Response r ended as a complete 200, without an error text.
Complete(r) == pc[r] = "done" /\ status[r] = 200 /\ r \notin tail

\* A query is stopped only if its client left or a DELETE had looked up that
\* query: so it is with the end of its context, with a 504, and with a 200 that
\* lacks rows although DuckDB did not fail.  When DuckDB fails, the short 200 is
\* nobody's doing.
NoSpuriousCancel ==
    \A r \in Reqs :
        \/ pc[r] \in Executing /\ Ended(r)
        \/ status[r] = 504
        \/ Complete(r) /\ left[r] # 0 /\ r \notin failed
        => r \in gone \/ LookedUp(r)

\* README: the body is the result of the query, and a cancelled query is
\* answered with 504.  A complete 200 response to a client that has not left
\* holds all rows that DuckDB was able to produce.
FullResult == \A r \in Reqs \ (gone \cup failed) : Complete(r) => left[r] = 0

\* No DELETE has looked up r, or another query with its ID.
Undisturbed(r) == pc[r] \in Executing /\ ~LookedUp(r) /\ ~Reused(r)

\* A listing reports all queries that run undisturbed at the moment it is
\* taken, and none whose request has already removed it.
ListsRunning ==
    [][\A l \in Listers : lpc[l] = "idle" /\ lpc'[l] = "done" =>
          /\ {r \in Reqs : Undisturbed(r)} \subseteq snap'[l]
          /\ \A r \in snap'[l] : pc[r] \in Executing \cup {"remove"}]_vars

-----------------------------------------------------------------------------
(* Progress.  A handler runs on; QueryContext returns once the context of  *)
(* its query has ended, but a query nobody cancels may run for ever.       *)

Fairness ==
    /\ \A r \in Reqs : /\ WF_vars(Tail(r))
                       /\ WF_vars(Ended(r) /\ (queryOK(r) \/ queryCanceled(r) \/ queryError(r)))
    /\ \A k \in Interrupters : WF_vars(Close(k))

FairSpec == Spec /\ Fairness

\* A DELETE that found its query stops it: the query ends although it could
\* have run for ever, even when another DELETE of the query got to the registry
\* first.  The exception is that of Cancellable: the query has the ID of another
\* one that a DELETE looked up, whose late removal by ID can take its entry away
\* between lookup and removal; the DELETE then answers 204 and stops nothing.
InterruptStops ==
    \A r \in Reqs : LookedUp(r) /\ ~Reused(r) ~> pc[r] = "done"

\* An abandoned query does not hold its connection's handler for ever.
DisconnectStops ==
    \A r \in Reqs : r \in gone /\ pc[r] # "new" ~> pc[r] = "done"

=============================================================================
