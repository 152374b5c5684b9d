--------------------------- MODULE DuckInitProofs ---------------------------
(***************************************************************************)
(* What duckdbinit.Open promises of the instances it hands out, for any    *)
(* settings and any list of init queries.                                  *)
(***************************************************************************)
EXTENDS DuckInit, TLAPS

Types ==
    /\ cfg \in [zero : SUBSET Names, ext : BOOLEAN, lock : BOOLEAN]
    /\ Len(queries) \in Nat
    /\ pc \in {"open", "apply", "init", "lock", "ok", "error"}
    /\ failed \in BOOLEAN /\ external \in BOOLEAN /\ locked \in BOOLEAN
    /\ val \in [Names -> {"default", "settings", "query"}]

\* Both handles are open from the first success on, until fail closes them.
Handles ==
    /\ pc = "open" => db = "none" /\ conn = "none"
    /\ pc \in {"apply", "init", "lock", "ok"} => db = "open" /\ conn = "open"
    /\ pc = "error" => db # "open" /\ conn # "open"

\* The first n settings have been made.
Made(n) == \A k \in 1 .. n : Order[k] \in cfg.zero \/ val[Order[k]] # "default"

Limits ==
    /\ pc = "open" => at = 1
    /\ pc = "apply" => at \in 1 .. Len(Order) /\ Made(at - 1)
    /\ pc \in {"init", "lock", "ok"} => Made(Len(Order))

\* A raised limit among the first n queries is in force.
Raised(n) == \A k \in 1 .. n : queries[k] = "threads" => val["threads"] = "query"

Overrides ==
    /\ pc = "init" => at \in 1 .. Len(queries) + 1 /\ Raised(at - 1)
    /\ pc \in {"lock", "ok"} => Raised(Len(queries))

\* setExternal confines, setLock locks, unless they failed.
Confined ==
    /\ pc \in {"lock", "ok"} /\ ~failed /\ ~cfg.ext => ~external
    /\ pc = "ok" /\ ~failed /\ cfg.lock => locked

IInv == Types /\ Handles /\ Limits /\ Overrides /\ Confined

\* The seven settings.
LEMMA OrderFacts ==
  /\ Len(Order) = 7
  /\ \A k \in 1 .. 7 : Order[k] \in Names
  /\ \A n \in Names : \E k \in 1 .. 7 : Order[k] = n
  /\ "threads" \in Names
<1>1. Len(Order) = 7 /\ Order[1] = "threads"
  BY DEF Order
<1>2. QED
  BY <1>1 DEF Names

\* Before the first statement nothing is set and nothing is wrong.
LEMMA InitIInv == Init => IInv
<1> SUFFICES ASSUME Init PROVE IInv
  OBVIOUS
<1>1. Len(queries) \in Nat
  <2>1. PICK n \in 0 .. MaxQueries : queries \in [1 .. n -> Kinds]
    BY DEF Init
  <2>2. n \in Nat
    BY <2>1, DuckInitAssumption
  <2>3. Len(queries) = n
    BY <2>1, <2>2
  <2>4. QED
    BY <2>2, <2>3
<1>2. QED
  BY <1>1 DEF Init, IInv, Types, Handles, Limits, Overrides, Confined

\* No step of Open leaves IInv.
LEMMA NextIInv == IInv /\ [Next]_vars => IInv'
<1> SUFFICES ASSUME IInv, [Next]_vars PROVE IInv'
  OBVIOUS
<1> USE OrderFacts
<1>1. CASE Open
  BY <1>1 DEF Open, IInv, Types, Handles, Limits, Overrides, Confined, Made
<1>2. CASE apply
  <2>1. at \in 1 .. 7 /\ Order[at] \in Names /\ Made(at - 1)
    BY <1>2 DEF apply, IInv, Limits
  <2>2. CASE fail
    BY <1>2, <2>2 DEF apply, fail, IInv, Types, Handles, Limits, Overrides, Confined
  <2>3. CASE ~fail
    <3>1. Types' /\ Handles' /\ Confined'
      BY <1>2, <2>1, <2>3 DEF apply, IInv, Types, Handles, Confined
    <3>2. \A k \in 1 .. at : Order[k] \in cfg.zero \/ val'[Order[k]] # "default"
      BY <1>2, <2>1, <2>3 DEF apply, Made, IInv, Types
    <3>3. Limits'
      BY <1>2, <2>1, <2>3, <3>2 DEF apply, Limits, Made
    <3>4. Overrides'
      BY <1>2, <2>1, <2>3, <3>1 DEF apply, Overrides, Raised, Types
    <3>5. QED
      BY <3>1, <3>3, <3>4 DEF IInv
  <2>4. QED
    BY <2>2, <2>3
<1>3. CASE initQuery
  <2>1. /\ Len(queries) \in Nat /\ at \in 1 .. Len(queries)
        /\ Raised(at - 1) /\ Made(Len(Order))
    <3>1. Len(queries) \in Nat /\ at <= Len(queries) /\ pc = "init"
      BY <1>3 DEF initQuery, IInv, Types
    <3>2. at \in 1 .. Len(queries) + 1 /\ Raised(at - 1) /\ Made(Len(Order))
      BY <3>1 DEF IInv, Overrides, Limits
    <3>3. QED
      BY <3>1, <3>2
  <2>2. CASE fail
    BY <1>3, <2>2 DEF initQuery, fail, IInv, Types, Handles, Limits, Overrides, Confined
  <2>3. CASE ~fail
    <3>1. /\ at' = at + 1 /\ pc = "init"
          /\ val' = IF queries[at] = "threads"
                    THEN [val EXCEPT !["threads"] = "query"] ELSE val
          /\ locked' \in BOOLEAN
          /\ UNCHANGED <<pc, db, conn, cfg, queries, failed, external>>
      BY <1>3, <2>3 DEF initQuery
    <3>2. Types' /\ Handles' /\ Confined'
      BY <3>1 DEF IInv, Types, Handles, Confined
    <3>3. \A n \in Names : val[n] # "default" => val'[n] # "default"
      BY <3>1 DEF IInv, Types
    <3>4. Limits'
      BY <2>1, <3>1, <3>3 DEF Limits, Made
    <3>5. val["threads"] = "query" => val'["threads"] = "query"
      BY <3>1 DEF IInv, Types
    <3>6. queries[at] = "threads" => val'["threads"] = "query"
      BY <3>1 DEF IInv, Types
    <3>7. \A k \in 1 .. at : queries[k] = "threads" => val'["threads"] = "query"
      BY <2>1, <3>5, <3>6 DEF Raised
    <3>8. Overrides'
      BY <2>1, <3>1, <3>7 DEF Overrides, Raised
    <3>9. QED
      BY <3>2, <3>4, <3>8 DEF IInv
  <2>4. QED
    BY <2>2, <2>3
<1>4. CASE setExternal
  <2>1. Raised(Len(queries))
    BY <1>4 DEF setExternal, IInv, Overrides, Raised, Types
  <2>2. QED
    BY <1>4, <2>1 DEF setExternal, IInv, Types, Handles, Limits, Overrides, Confined,
                      Made, Raised
<1>5. CASE setLock
  BY <1>5 DEF setLock, IInv, Types, Handles, Limits, Overrides, Confined, Made, Raised
<1>6. CASE UNCHANGED vars
  BY <1>6 DEF vars, IInv, Types, Handles, Limits, Overrides, Confined, Made, Raised
<1>7. QED
  BY <1>1, <1>2, <1>3, <1>4, <1>5, <1>6 DEF Next, Finished

\* IInv holds in every reachable state.
THEOREM Invariance == Spec => []IInv
BY InitIInv, NextIInv, PTL DEF Spec

\* Whichever statement fails, Open returns an error with nothing left open, or
\* an instance that is open (ClosedOnError).
THEOREM ClosedOnErrorAlways == Spec => []ClosedOnError
<1>1. IInv => ClosedOnError
  BY DEF IInv, Handles, ClosedOnError
<1>2. QED
  BY <1>1, Invariance, PTL

\* No init query and no client meets an instance without its limits
\* (LimitsFirst).
THEOREM LimitsFirstAlways == Spec => []LimitsFirst
<1>1. IInv => LimitsFirst
  BY OrderFacts DEF IInv, Limits, Made, LimitsFirst
<1>2. QED
  BY <1>1, Invariance, PTL

\* Init queries override the settings, and an instance that is handed out is
\* confined and locked as asked unless a dropped error says otherwise
\* (LastSettings), for any number of init queries.
THEOREM LastSettingsAlways == Spec => []LastSettings
<1>1. IInv => LastSettings
  BY DEF IInv, Overrides, Raised, Confined, LastSettings
<1>2. QED
  BY <1>1, Invariance, PTL

=============================================================================
