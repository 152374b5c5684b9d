---------------------------- MODULE QueryDBProofs ----------------------------
(***************************************************************************)
(* Proofs about QueryDB, for every number of requests, DELETEs, listings,  *)
(* IDs and rows.                                                           *)
(***************************************************************************)
EXTENDS QueryDB, TLAPS

\* A query has an ID from Add on.
Named == \A r \in Reqs : pc[r] = "new" <=> qid[r] = None

\* A DELETE that is past its lookup holds a query that was added.
Found ==
    \A k \in Interrupters :
        /\ ipc[k] = "idle" => iq[k] = None
        /\ ipc[k] \in {"remove", "cancel", "reply"} => iq[k] # None
        /\ iq[k] # None => pc[iq[k]] # "new"

\* Somebody had a reason to stop the query.
Hit(r) == r \in gone \/ LookedUp(r)

\* Cancellations, 504s and closed rows have a cause.
Caused ==
    \A r \in Reqs :
        /\ r \in canceled /\ pc[r] \in {"new", "remove"} \cup Executing => LookedUp(r)
        /\ code[r] = 504 \/ status[r] = 504 \/ r \in closed => Hit(r)

\* A 200 that was left without an error has all rows, or its rows were closed,
\* or DuckDB failed to produce the next one.
Flushed ==
    \A r \in Reqs :
        /\ pc[r] \notin {"new"} \cup Executing
        /\ status[r] = 200 /\ code[r] = 0 /\ r \notin tail
        => left[r] = 0 \/ r \in closed \cup failed

\* Nothing is on the wire before QueryContext returned, nor after an error.
Unsent ==
    \A r \in Reqs :
        /\ pc[r] \in {"new", "exec"} => status[r] = 0
        /\ pc[r] \notin {"remove", "cancel", "answer"} => code[r] = 0

\* Why a query that is not over has no entry: it was stopped, or the removal
\* of another query e with its ID, which a DELETE had looked up, came late.
\* e is not the query registered now, so a third one is not to blame on it.
Lost ==
    \A r \in Reqs :
        pc[r] \in Executing \cup {"remove"} =>
            \/ queries[qid[r]] = r
            \/ Stopped(r)
            \/ \E e \in Reqs \ {r} :
                  qid[e] = qid[r] /\ LookedUp(e) /\ queries[qid[r]] # e

IInv ==
    TypeOK /\ Named /\ Found /\ NoLeak /\ Caused /\ Flushed /\ Unsent /\ Lost

\* The registry is empty at the start.
LEMMA InitIInv == Init => IInv
BY QueryDBAssumption
DEF Init, IInv, TypeOK, Named, Found, NoLeak, Caused, Flushed, Unsent,
        Lost, Stopped, LookedUp, Hit,
    PCs, IPCs, LPCs, Codes, Executing

\* A step of a query handler keeps the invariant.
LEMMA QueryStep ==
  ASSUME IInv, NEW r \in Reqs, Query(r)
  PROVE  IInv'
<1> USE QueryDBAssumption
    DEF IInv, TypeOK, Named, Found, NoLeak, Caused, Flushed, Unsent,
        Lost, Stopped, LookedUp, Hit, Ended,
        PCs, IPCs, LPCs, Codes, Executing, Leave, regVars, reqVars, intVars, listVars
<1>1. CASE Add(r)
  BY <1>1 DEF Add
<1>2. CASE queryOK(r)
  BY <1>2 DEF queryOK
<1>3. CASE queryCanceled(r)
  BY <1>3 DEF queryCanceled
<1>4. CASE queryError(r)
  BY <1>4 DEF queryError
<1>5. CASE awaitDone(r)
  BY <1>5 DEF awaitDone
<1>6. CASE writeHeader(r)
  BY <1>6 DEF writeHeader
<1>7. CASE writeRow(r)
  BY <1>7 DEF writeRow
<1>8. CASE writeError(r)
  BY <1>8 DEF writeError
<1>9. CASE rowsEnd(r)
  BY <1>9 DEF rowsEnd
<1>10. CASE CloseRemove(r)
  BY <1>10 DEF CloseRemove
<1>11. CASE CloseCancel(r)
  BY <1>11 DEF CloseCancel
<1>12. CASE answer(r)
  BY <1>12 DEF answer
<1>13. CASE disconnect(r)
  BY <1>13 DEF disconnect
<1>14. CASE nextError(r)
  BY <1>14 DEF nextError
<1>15. QED
  BY <1>1, <1>2, <1>3, <1>4, <1>5, <1>6, <1>7, <1>8, <1>9, <1>10, <1>11, <1>12, <1>13,
     <1>14 DEF Query, Tail

\* A step of a DELETE handler keeps the invariant.
LEMMA InterruptStep ==
  ASSUME IInv, NEW k \in Interrupters, interrupt(k) \/ Close(k)
  PROVE  IInv'
<1> USE QueryDBAssumption
    DEF IInv, TypeOK, Named, Found, NoLeak, Caused, Flushed, Unsent,
        Lost, Stopped, LookedUp, Hit, Ended,
        PCs, IPCs, LPCs, Codes, Executing, Leave, regVars, reqVars, intVars, listVars
<1>1. CASE interrupt(k)
  BY <1>1 DEF interrupt
<1>2. CASE interruptRemove(k)
  BY <1>2 DEF interruptRemove
<1>3. CASE interruptCancel(k)
  BY <1>3 DEF interruptCancel
<1>4. CASE interruptReply(k)
  BY <1>4 DEF interruptReply
<1>5. QED
  BY <1>1, <1>2, <1>3, <1>4 DEF Close

\* A listing keeps the invariant.
LEMMA ListStep ==
  ASSUME IInv, NEW l \in Listers, handleStatusQueries(l)
  PROVE  IInv'
BY QueryDBAssumption
DEF handleStatusQueries, Queries, IInv, TypeOK, Named, Found, NoLeak, Caused,
    Flushed, Unsent, Lost, Stopped, LookedUp, Hit, LPCs, regVars, reqVars, intVars

\* IInv is inductive.
LEMMA NextIInv == IInv /\ [Next]_vars => IInv'
<1> SUFFICES ASSUME IInv, [Next]_vars PROVE IInv'
  OBVIOUS
<1>1. CASE UNCHANGED vars
  BY <1>1 DEF vars, IInv, TypeOK, Named, Found, NoLeak, Caused, Flushed, Unsent,
        Lost, Stopped, LookedUp, Hit
<1>2. QED
  BY <1>1, QueryStep, InterruptStep, ListStep DEF Next, Finished

\* IInv holds in every reachable state.
THEOREM Invariance == Spec => []IInv
BY InitIInv, NextIInv, PTL DEF Spec

\* Every variable keeps its type.
THEOREM TypeCorrect == Spec => []TypeOK
<1>1. IInv => TypeOK
  BY DEF IInv
<1>2. QED
  BY <1>1, Invariance, PTL

\* The registry never keeps a query whose request has ended, nor files one
\* under another query's ID, even when random IDs repeat (NoLeak).
THEOREM NoLeakAlways == Spec => []NoLeak
<1>1. IInv => NoLeak
  BY DEF IInv
<1>2. QED
  BY <1>1, Invariance, PTL

\* Every query that is being executed can be interrupted, however the
\* handlers interleave, unless it got the ID of an interrupted query
\* (Cancellable).
THEOREM CancellableAlways == Spec => []Cancellable
<1>1. IInv => Cancellable
  BY DEF IInv, Lost, Reused, Cancellable
<1>2. QED
  BY <1>1, Invariance, PTL

\* Nobody's query is stopped but the one whose client left or that a DELETE
\* looked up, even when random IDs repeat; a short 200 has that cause too, or
\* DuckDB failed to produce a row (NoSpuriousCancel).
THEOREM NoSpuriousCancelAlways == Spec => []NoSpuriousCancel
<1>1. IInv => NoSpuriousCancel
  BY DEF IInv, TypeOK, Caused, Flushed, Unsent, Hit, Ended, Executing, Complete,
         NoSpuriousCancel
<1>2. QED
  BY <1>1, Invariance, PTL

\* A listing holds all running queries but those being interrupted, and none
\* whose request has ended: what the registry holds, by IInv (ListsRunning).
THEOREM ListsRunningAlways == Spec => ListsRunning
<1>1. IInv /\ [Next]_vars =>
        [\A l \in Listers : lpc[l] = "idle" /\ lpc'[l] = "done" =>
          /\ {r \in Reqs : Undisturbed(r)} \subseteq snap'[l]
          /\ \A r \in snap'[l] : pc[r] \in Executing \cup {"remove"}]_vars
  <2> SUFFICES ASSUME IInv, Next, NEW l \in Listers, lpc[l] = "idle", lpc'[l] = "done"
               PROVE  /\ \A r \in Reqs : Undisturbed(r) => r \in snap'[l]
                      /\ \A r \in snap'[l] : pc[r] \in Executing \cup {"remove"}
    OBVIOUS
  <2>1. PICK m \in Listers : handleStatusQueries(m)
    BY DEF Next, Query, Tail, Close, Finished, Add, queryOK, queryCanceled,
       queryError, awaitDone, writeHeader, writeRow, writeError, rowsEnd,
       nextError, CloseRemove, CloseCancel, answer, disconnect, interrupt, interruptRemove,
       interruptCancel, interruptReply, listVars, vars
  <2>2. snap'[l] = Queries
    BY <2>1 DEF handleStatusQueries, IInv, TypeOK
  <2>3. \A r \in Reqs : Undisturbed(r) => queries[qid[r]] = r /\ qid[r] \in QIDs
    BY DEF Undisturbed, Reused, LookedUp, Stopped, IInv, TypeOK, Lost, Caused, Named,
           Executing
  <2>4. QED
    BY <2>2, <2>3, QueryDBAssumption
    DEF Queries, IInv, TypeOK, NoLeak
<1>2. QED
  BY <1>1, Invariance, PTL DEF Spec, ListsRunning

=============================================================================
