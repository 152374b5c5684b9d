------------------------------ MODULE DuckInit ------------------------------
(***************************************************************************)
(* internal/duckdbinit: a DuckDB instance is opened, limited by settings,  *)
(* prepared by init queries (built by connectDuckDB), confined and locked. *)
(* DuckDB is external: any statement may fail, and a SET does so once the  *)
(* configuration is locked.                                                *)
(***************************************************************************)
EXTENDS Naturals, Sequences

CONSTANT MaxQueries  \* bound on the init queries

ASSUME DuckInitAssumption == MaxQueries \in Nat

VARIABLES
    cfg,       \* Settings: the zero ones, EnableExternalAccess, LockConfig
    queries,   \* the init queries
    pc, at,    \* the step of Open, and the setting or query it is at
    failed,    \* execContext.err of the last two settings
    val,       \* who gave a setting its value
    external,  \* enable_external_access of the instance
    locked,    \* lock_configuration of the instance
    db, conn   \* "none", "open" or "closed"

vars == <<cfg, queries, pc, at, failed, val, external, locked, db, conn>>

\* The settings in the order of Settings.apply.
Order == <<"threads", "memory_limit", "extension_directory", "secret_directory",
           "temp_directory", "max_temp_directory_size", "allowed_directories">>
Names == {Order[n] : n \in 1..Len(Order)}

\* An init query: nothing, a macro, a raised limit, or a locked configuration.
Kinds == {"", "macro", "threads", "lock"}

Init ==
    /\ cfg \in [zero : SUBSET Names, ext : BOOLEAN, lock : BOOLEAN]
    /\ queries \in UNION {[1..n -> Kinds] : n \in 0..MaxQueries}
    /\ pc = "open" /\ at = 1
    /\ failed = FALSE
    /\ val = [n \in Names |-> "default"]
    /\ external = TRUE /\ locked = FALSE
    /\ db = "none" /\ conn = "none"

\* sql.Open and db.Conn.
Open ==
    /\ pc = "open"
    /\ \/ pc' = "apply" /\ db' = "open" /\ conn' = "open"
       \/ pc' = "error" /\ UNCHANGED <<db, conn>>            \* sql.Open fails
       \/ pc' = "error" /\ db' = "closed" /\ UNCHANGED conn  \* db.Conn fails
    /\ UNCHANGED <<cfg, queries, at, failed, val, external, locked>>

\* Variant: only the connection is closed.
failConnOnly ==
    /\ pc' = "error"
    /\ conn' = "closed"
    /\ UNCHANGED <<db, at, val, locked>>

\* init fails: what was opened is closed.
fail ==
    /\ pc' = "error"
    /\ conn' = "closed" /\ db' = "closed"
    /\ UNCHANGED <<at, val, locked>>

\* Variant: a setting that fails is passed over.
applyIgnored ==
    /\ pc = "apply"
    /\ pc' = IF at = Len(Order) THEN "init" ELSE pc
    /\ at' = IF at = Len(Order) THEN 1 ELSE at + 1
    /\ \E v \in {"default", "settings"} : val' = [val EXCEPT ![Order[at]] = v]
    /\ UNCHANGED <<cfg, queries, failed, external, locked, db, conn>>

\* Settings.apply: zero settings are left alone, the first error ends it.
apply ==
    /\ pc = "apply"
    /\ \/ /\ pc' = IF at = Len(Order) THEN "init" ELSE pc
          /\ at' = IF at = Len(Order) THEN 1 ELSE at + 1
          /\ val' = IF Order[at] \in cfg.zero THEN val
                    ELSE [val EXCEPT ![Order[at]] = "settings"]
          /\ UNCHANGED <<locked, db, conn>>
       \/ Order[at] \notin cfg.zero /\ fail
    /\ UNCHANGED <<cfg, queries, failed, external>>

\* Settings.init: the init queries in order, the first error ends it.
initQuery ==
    /\ pc = "init" /\ at <= Len(queries)
    /\ \/ /\ queries[at] \in {"threads", "lock"} => ~locked
          /\ at' = at + 1
          /\ val' = IF queries[at] = "threads"
                    THEN [val EXCEPT !["threads"] = "query"] ELSE val
          /\ locked' = (locked \/ queries[at] = "lock")
          /\ UNCHANGED <<pc, db, conn>>
       \/ queries[at] # "" /\ fail
    /\ UNCHANGED <<cfg, queries, failed, external>>

\* enable_external_access, when it is to be disabled; an error is kept.
setExternal ==
    /\ pc = "init" /\ at > Len(queries)
    /\ pc' = "lock"
    /\ \/ cfg.ext /\ UNCHANGED <<failed, external>>
       \/ ~cfg.ext /\ ~locked /\ external' = FALSE /\ UNCHANGED failed
       \/ ~cfg.ext /\ failed' = TRUE /\ UNCHANGED external
    /\ UNCHANGED <<cfg, queries, at, val, locked, db, conn>>

\* Variant: an instance with external access is not locked.
setLockConfined ==
    /\ pc = "lock"
    /\ pc' = "ok"
    /\ locked' = (locked \/ (cfg.lock /\ ~cfg.ext))
    /\ UNCHANGED <<cfg, queries, at, failed, val, external, db, conn>>

\* lock_configuration, unless the setting before failed.  The error of
\* either is not returned.
setLock ==
    /\ pc = "lock"
    /\ pc' = "ok"
    /\ \/ (~cfg.lock \/ failed) /\ UNCHANGED <<failed, locked>>
       \/ cfg.lock /\ ~failed /\ ~locked /\ locked' = TRUE /\ UNCHANGED failed
       \/ cfg.lock /\ ~failed /\ failed' = TRUE /\ UNCHANGED locked
    /\ UNCHANGED <<cfg, queries, at, val, external, db, conn>>

Finished == pc \in {"ok", "error"} /\ UNCHANGED vars

Next == Open \/ apply \/ initQuery \/ setExternal \/ setLock \/ Finished

Spec == Init /\ [][Next]_vars

-----------------------------------------------------------------------------
\* Open leaves nothing behind: it returns an error with everything closed,
\* or an instance that is open, whichever of its steps failed.
ClosedOnError ==
    /\ pc = "error" => db # "open" /\ conn # "open"
    /\ pc = "ok" => db = "open" /\ conn = "open"

\* No init query and no client meets an instance without its limits: every
\* setting that is not zero was made before.
LimitsFirst ==
    pc \in {"init", "lock", "ok"} =>
        \A n \in Names \ cfg.zero : val[n] # "default"

\* README: -db.externalaccess=false confines and -db.lockconfig locks an
\* instance, after its init queries, which override the settings.  One that
\* is handed out is as it was asked to be, unless the SET of external access
\* or of the lock failed: init drops these two errors, the first of which also
\* skips the lock.
LastSettings ==
    pc = "ok" =>
        /\ (\E n \in 1..Len(queries) : queries[n] = "threads") => val["threads"] = "query"
        /\ ~failed /\ ~cfg.ext => ~external
        /\ ~failed /\ cfg.lock => locked

=============================================================================
