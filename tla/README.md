# A verification project for Duckpop

Duckpop is an HTTP server that gives every TCP connection a DuckDB instance of
its own and runs the queries of the connection on it. This directory holds TLA+
models of the server, TLC configurations that check them on small instances, and
TLAPS proofs of the main safety properties for every size.

The source is the repository's Go code; `PROJECT.json` maps every definition to
the lines it stands for. Code outside the repository (`net/http`, `database/sql`,
`sync`, DuckDB, the file system) is modelled from how the code uses it.

## The system

| Component | State | Operations | Talks to |
|---|---|---|---|
| Connection manager (`internal/conndb`, `internal/syncmap`) | `connToID`, `clients`, `dbCount` with `dbMutex`; per client `mu`, `db`, `conn` | `ConnContext`, `ConnState`, `Client`, `Conn`, `Databases` | net/http calls it when connections come and go; handlers call it; it calls the server's opener and closer |
| DuckDB instances and directories (`duckserver`: `connectDuckDB`, `closeDuckDB`) | live instances, `<private root>/<ID>` | open, close | called by the manager, from request and closing goroutines |
| DuckDB initialisation (`internal/duckdbinit`) | settings of one instance | `Open`, `init`, `apply` | DuckDB |
| Query registry (`internal/querydb`) | `queries`; per query a context and a start time | `Add`, `Query`, `Queries`, `Close`, `Stats` | query handler, DELETE and listing handlers |
| Request handlers (`duckserver`, `internal/httperror`) | a response per request | `handleQuery`, `handleInterruptQuery`, `handleStatus...` | all of the above |
| Authentication (`internal/authn`) | entries and their index by header | read the file, bind an entry to a request | handlers ask for the entry |
| Access log (`internal/accesslog`) | the status of a response | `Write`, `WriteHeader`, `writeLog` | wraps every handler |
| Shared directory (`internal/fileserver`) | files | GET of files and listings, WebDAV | behind the authorization of changes; queries read and write the same files |
| Formatters (`internal/formatter/...`) | the registry; per response a writer and its buffer | `FindAndCreate`, header, row, flush | called by `handleQuery` and `writeRows` |
| Server lifecycle (`duckserver.New`, `Serve`, `WaitServe`, `main.go`) | PID file, URL, listener | start, shutdown on a signal, `WaitServe` | net/http; the connection manager's goroutines |
| Web UI (`_ui`) | browser pages | poll, post | the HTTP interface |

What is hard in it:

* **Concurrency.** Serving goroutines, closing goroutines and status reports meet
  in three levels of locks (`clients.rw`, `client.mu`, `dbMutex`); closing is
  asynchronous; `Query.Close` is called by several goroutines and is two steps.
* **Ordering.** An ID is free before the directory named after it is gone; a slot
  is free before its instance is closed; init queries run between the limits and
  the lock; a header is sent before the rows are read.
* **Failure.** Every statement that prepares an instance may fail; a query may be
  cancelled at any moment; a client may leave at any moment; a write may fail after
  half a result is out; files change between two system calls; the process may be
  stopped or killed at any moment, and the next one finds its disk.

The properties that make the parts correct: the manager's count is exact and each
query has its own live database; nothing opened is forgotten; the registry shows
the running queries and stops the one that was named; credentials belong to the
right entry; an instance is limited before anybody uses it; only authorized
requests have effects; a response is the whole result or says that it is not (with two
exceptions, a stopped query and a failure of DuckDB between two rows); a listing is true; a signal ends the process, and what stays on the disk has a reason.

## Modules

**`ConnDB`** is the manager. `pc[c]` is the goroutine that serves connection `c`
(the accept loop before `"idle"`), `cpc[c]` the goroutine started by `closeConn`.
`connToID`, `clients`, `dbCount`, `dbMutex`, `mu`, `db`, `conn` are the fields of
the same names; `inst` and `privateDirs` are the instances and directories that
exist. `warned` and `failed` are histories: the connections whose directory could not
be removed, and those whose last opening failed after their directory was made. One action is one critical section or one call that can block or fail:

| Code | Actions |
|---|---|
| `ConnContext`, `withNewClient` | `Accept`, `LockClients`, `withNewClient`, `storeConn` |
| `handleQuery`, `Manager.Client`, `Client.Conn` | `handleQuery`, `Client`, `Conn`, `ConnReturn`, `ConnOpen`, `queryDone` |
| `openDB`, `connectDuckDB` | `openDBMax`, `openDB`, `mkdirError`, `getPrivateDir`, `connectError`, `connectDuckDB` |
| `handleStatusConnections`, `Databases`, `Map.Range` | `handleStatusConnections`, `Databases`, `rangeNext`, `rangeVisit`, `yield`, `rangeEnd` |
| `ConnState`, `closeConn` | `ConnState`, `LockClients`, `closeConn` |
| the closing goroutine: `close`, `closeDB`, `closeDuckDB` | `closerLock`, `closeClient`, `closeDB`, `removeDir`, `closeDuckDB` |

`clients.rw` is a Go `RWMutex`: a writer announces itself (`LockClients`), from
then on no reader enters, and it goes on when the readers have left. The map
`connToID` has a lock of its own that is never held while waiting, so its
operations are single steps. HTTP/1 is assumed (`Serve` configures no TLS, hence no
HTTP/2): one request at a time, and `StateClosed` only after the handler
returned.

**`DBPool`** is what the manager promises: `MaxDB` slots, at most one instance in
the life of a connection, taken while the connection is up and given back after it
went down. `ConnDB` is shown to implement it under the mapping `link`, `session`,
and `Lifecycle` is built on it.

**`QueryDB`** is the registry with its three handlers. A request `r` is also the
name of its `Query`. `handleQuery` starts here with `Add`; the rows of a result
are counted (`left`). `awaitDone` is the goroutine of `database/sql` that closes
the rows of a query whose context has ended; `nextError` is a `rows.Next` that is false
because DuckDB failed, which `writeRows` cannot tell from the end (`rowsEnd`), and
`failed` remembers it. `Query.Close` is the pair
`CloseRemove`, `CloseCancel` in the handler and `interruptRemove`,
`interruptCancel` in a DELETE handler.

**`Authn`** reads an authentication file entry by entry and then answers requests.
Texts are sequences of characters because `headerValue` joins user and password
with a colon. base64, being injective, is left out.

**`DuckInit`** is `duckdbinit.Open`, statement by statement. DuckDB refuses a SET
once its configuration is locked; any statement may fail.

**`Request`** is a sequence of requests over one connection: authentication, mux,
authorization, handler, `httperror.Write`, access log. `wire` is what the client
gets, `status` what `wrapWriter` noted: `WriteHeader` sets both, while the `Write` of a
body without a status makes net/http send 200 and notes nothing. The WebDAV handler, the
file server of the UI and `net/http/pprof` are external and modelled by how they use the
two. `ctxEntry` is the entry bound to the
context of the connection, the one a database is opened with, `entry` the one
bound to the context of the request.

**`Lifecycle`** is the process around all this, and the composition: it takes the
steps of `DBPool` (`Pool!Connect`, `Pool!Acquire`, ...) together with those of
`Serve`, of the connections and of the disk. `phase` walks through `run`, `New` and
`Serve`; `url` and `waiter` are `Server.URL` and the callers of `WaitServe`;
`hooked` separates the moment net/http forgets a connection, which is what
`Shutdown` waits for, from the moment it calls `ConnState`. `pidFile` and `dir` are
on the disk and survive `Die`; `dir[i]` is the set of sessions (process and
connection) that put something into directory `i`, and `left` is the history that
explains those that stay.

| Code | Actions |
|---|---|
| `main`, `run`, `flag2config`, `New` | `start`, `New`, `startError`, `exit` |
| `Serve`: `checkDB`, PID file, access log, `BaseContext`, errors | `checkDB`, `writePID`, `setupAccessLogger`, `BaseContext`, `serveError`, `Return` |
| `WaitServe` | `WaitServe` |
| `ctxsrv.HTTP(...).ServeWithContext` | `signal`, `Shutdown`, `ShutdownDone`, `ShutdownTimeout` |
| connections and databases | `Accept`, `handle`, `respond`, `getPrivateDir`, `connectDuckDB`, `connectError`, `disconnect`, `ConnState`, `closeDB`, `closeDuckDB` |
| a crash | `kill` |

**`Formatter`** is one response: the options one by one (`option`), `FindAndCreate`,
the loop of `writeRows`, and the five writers. The text is a sequence of pieces; `held` is what
the writer keeps (csv any part of it, avro the rows of a block, the three tables
everything until `Flush`) and `sent` what went out. `open` becomes false when the
request is cancelled, `failed` true when `rows.Next` fails. A scalar value is printed
whole (`AnyToStr`, but for the types with a converter of their own); a nested one, a
sequence of elements that are sequences of words, as `fmt.Sprint` does, with a space
between two words and between two elements (`Words`). The columns of a result are taken to have different names: the
Avro writer puts a row into a map by name.

**`Convert`** has the conversions that compute: `IntervalToStr` as the record of the
counts it prints, and the two's complement bytes of `UBIGINT`, `HUGEINT` and
`UHUGEINT`. `SetBytes` and `Decimal` are the reader of those bytes, `Pow` the powers of
`Byte`, as recursive functions. The units and buffer sizes are parameters.

**`Shared`** is one GET below `/shared/`, system call by system call, with the
redirects the client follows, while other clients create, overwrite and delete files
(`PUT`, `MKCOL`, `DELETE`: WebDAV, external, chosen by `Server.ServeHTTP`).
`http.Redirect` and `http.ServeFile`, with its own two redirects, are external. `ever` and `always` are histories
of the directory during the request; `Goal` is where the redirects lead.

The proofs about a component are in the module `...Proofs` that extends it: there is
one for each but `DBPool` and `Convert`, which are proved about where they are used.
`MC...` modules add symmetry sets and the bounded inputs for TLC. Definitions commented "Variant"
are plausible mistakes in the definition after them; they are not used by the
specifications, and serve to show that the properties notice them.

## Runs

Bounds: connections, IDs, requests and interrupters are two or three, which is
enough for every pair of actors to meet, for a third to take what one of them
frees, and for an ID to be drawn again; `MaxDB` is one less than the connections,
so the limit is hit. Random IDs may repeat in all runs of `ConnDB`, `QueryDB` and
`Lifecycle`: with 32 bits that is rare, not impossible, and `withNewClient` and `newID`
are written for it. In `QueryDB_live` two requests share the only ID, one after the
other, so that a late `Close` meets the next owner; its results have no rows, a finite
loop that only delays the end. The properties
say exactly what a repeated ID can spoil (`SoleID`, `Reused`,
`DirSharedOnlyClosing`).

| Run | Shows |
|---|---|
| `ConnDB_safety` | 3 connections, 2 slots, 3 IDs: `SlotAccounting`, `InstanceBound`, `OwnDatabase`, `NoOrphan`, `ClientExclusive`, `ReportsLiveDB`, the directory properties `DirLife` and `DirSharedOnlyClosing`, and `ConnDB` implements `DBPool` (safety) |
| `ConnDB_live` | 2 connections, 1 slot: everyone accepted is served (`AcceptServed`), every request is answered (`RequestAnswered`), the fair pool is implemented, in which everything that ended is closed (`PoolFairSpec`); no deadlock |
| `QueryDB_safety` | 2 queries of up to 1 row, 2 interrupters, 1 listing, 2 IDs: `Cancellable`, `NoLeak`, `NoSpuriousCancel`, `ListsRunning` |
| `QueryDB_live` | 2 queries that could run for ever, 2 interrupters, 1 ID: a client that leaves (`DisconnectStops`) and a DELETE that found the query (`InterruptStops`, unless its ID was the one of an interrupted query) stop it |
| `Authn_file` | all files of up to two entries, all headers that could match |
| `DuckInit_open` | all settings, up to two init queries, every statement may fail |
| `Request_authz` | all requests in any order over one connection, two identities and none: `Guarded`, `LogExplained` |
| `Lifecycle_life` | 2 processes one after the other, 2 connections and 1 slot each, 2 IDs, 1 caller of `WaitServe`: `PIDFileTrue`, `NoLostWakeup`, `RequestsFinish`, `DirAccounted`, `SignalEnds` |
| `Formatter_rows` | all formats, option lists with repeated, empty and odd options, results of up to 3 rows with the values at the edges and nested values that print alike: `CompleteOrMarked`, `PrefixThenError`, `CsvDistinguishes`, `AvroExact`, `IntervalSums` |
| `Shared_get` | directories two levels deep, hidden names, names that differ in case, sizes at every unit's edge, 2 changes meanwhile: `ErrorTrue`, `ListTrue`, `Reaches` |

`CHECK_DEADLOCK FALSE` is used for `Authn` only, where a refused file ends the
program. The others end in a `Finished` step that is enabled when everything is
over (`Request` never ends), so that any other stop would be reported.

Smaller numbers stand for the code's: in `Formatter_rows` a byte has 4 values and the
buffers 3 of them, an hour has 60 of the smallest units, so that every value of the wide
types is tried; in `Shared_get` the factor between sizes is 2 in the place of 1024.
Two processes are enough for a directory or a PID file to be found by a process that
did not write it; the second process also finds what the first one's failures left.

### Disagreements

Each of these runs checks what the documentation, a comment or a flag says, and TLC
shows a behaviour of the code that does otherwise.

| Run | The code |
|---|---|
| `QueryDB_truncated` | the body is the result, and a cancelled query gets 504; `rows.Err` is not asked, a cancelled result ends as a complete 200 |
| `Request_initquery` | `init_query` applies to its entry's users; the context a database is opened with has no entry |

Others are built into the statement of a property that holds, which says how far the
code departs and that it departs no further:

* `InstanceBound`: `-maxdb` is the "maximum number of DB instances"; `closeDB` gives
  the slot back first, so more can be live, by those that are being closed.
* `CompleteOrMarked`, `NoSpuriousCancel`: the body is the result. When `rows.Next` is
  false because DuckDB failed between two rows, `rows.Err` is not asked here either, and
  a short result that nobody stopped ends as an unmarked 200. Both properties except it
  by name (`failed`), and nothing else.
* `DirAccounted`, and `DirLife` within one process: the README has private directories unique and
  removed with their connection. They stay when the opening fails after the directory
  was made, when the removal fails, and when the process ends first: the shutdown
  awaits no closing goroutine and nobody cleans up at the start. A later connection
  that draws the ID finds the files.
* `LogExplained`: the README has the status code in the access log. A handler that
  writes a body, or nothing, without `WriteHeader` is sent as 200 and logged as 0: a
  listing of the shared directory or of the UI, OPTIONS and some answers to LOCK, pprof.
  A failure after the header is logged as 500, where the client got 200 or 207. And a
  comment says that `http.MaxBytesReader` "already wrote 413 response"; nothing does, the
  client gets 200 with no body, and the log has 0.
* `Reaches`: a comment says the relative redirect makes the browser resolve against
  the original URL. `http.Redirect` puts the directory of the request's path in front,
  and after `StripPrefix` that path has no leading slash, so the redirect of
  `/shared/a/b` leads to `/shared/a/a/b/`. And `http.ServeFile` sends a nested
  `index.html` to its directory, whose listing is shown: the file cannot be read.
* `CsvDistinguishes`: csv drops fractions of a second, and a string equal to the null
  text looks like a null. It is stated of scalar types only: `fmt.Sprint` prints the lists
  `['a b']` and `['a', 'b']` alike, `[a b]`, and structs and maps in the same way.

Smaller ones: two databases
can share a private directory when an ID comes back while its old owner is closing
(`DirSharedOnlyClosing`). A query that gets the ID of an interrupted one can lose
its entry to the late `Close` of the latter (`Cancellable`); a DELETE that had looked it
up before then answers 204 and stops nothing (`InterruptStops`). A failing SET of
`enable_external_access`, for instance after an init query that locked the
configuration, is ignored, and skips the lock (`LastSettings`). An
entry of an unknown type is accepted (`AcceptsExactly`), and a bearer token is
indexed without its outer spaces, so one with a leading space never matches
(`AuthenticatesOwner` compares with the trimmed header).

## Fairness

Safety needs none. `ConnDB!Fairness`: a goroutine that can run does (weak
fairness); a goroutine that waits for a lock gets it if the lock is free again and
again (strong fairness: `sync.Mutex` has its starvation mode, `sync.RWMutex` lets
no reader pass a waiting writer); a free random ID is drawn eventually. Opening a
database and a query are assumed to end. The write of a status report is not: `Serve`
sets no write timeout, and a report is written under the lock of the map and the
mutex of the client. The liveness properties of `ConnDB_live` therefore have the
premise `PeersRead`, that no reader of a report stops reading for ever; without it
`AcceptServed` is false. Peers are never fair: a connection may stay idle for ever.

`QueryDB!Fairness`: handlers run on; `QueryContext` returns once the context of
its query has ended, as the `database/sql` contract says. A query nobody stops may
run for ever.

`Lifecycle!FairSpec`: the process goes on (`Main`), which includes that the minute of
the shutdown passes. Handlers may run for ever, peers and closing goroutines do
nothing: `SignalEnds` holds all the same. Nothing makes `WaitServe` return: when
`Serve` fails before it listens it sleeps for ever, and `NoLostWakeup` is what can be
promised.

## Proofs

`tlapm` checks every step. All results hold for every finite set of connections
and every value of the other constants that meets the named assumptions; TLC evaluates
these on the runs. In each module `IInv` (in `FormatterProofs` the parts named below) is
the inductive invariant; it was checked by TLC on the bounds of the component's run
before it was proved (but for the conjunct of `Written` that types the text: its pieces
are of different kinds, and TLC builds no set of them).

* **`ConnDBProofs`**. The inductive invariant `IInv` says, in named parts: who a
  serving goroutine works for and what it holds (`Locks`), that the maps and the
  context of a connection agree (`Registry`), that the keys of a running Range stay
  registered (`RangeSafe`), that a client is closed once (`CloseOnce`), what is open
  (`Open`), `dbCount = Cardinality(Held)` (`Slots`), and who made and removed which
  directory, or failed to (`Dirs`). The properties themselves
  are not inductive: that a query uses its own client rests on `Registry`, that
  rests on `LoadOrStore` being the only way into the map and on the close being the
  only way out. `CoreStep` shows preservation action by action, `SlotsStep` does the
  counting with the finite-set theorems, `DirsStep` the directories. From `IInv`: `TypeCorrect`, `SlotsExact`,
  `InstancesBounded`, `OwnDatabaseAlways`, `NoOrphanAlways`,
  `ClientExclusiveAlways`, `ReportsLiveDBAlways`, `DirLifeAlways`,
  `DirSharedOnlyClosingAlways`. `ImplementsPool` maps each action
  to a step of `DBPool` or a stutter.
  `NoLockDeadlockAlways`: as long as a goroutine is at work, one of them waits for no
  lock, whatever the number of connections. `Locks` says that who is in a critical
  section owns its lock; this needs the converse, that a lock which is taken has an owner
  in its critical section (`Owners`, inductive on top of `IInv`). `LockOrder` then follows
  the waiting: the owner of `dbMutex` waits for nothing, that of a client's mutex at most
  for `dbMutex`, a reader of the map at most for a client's mutex, a writer only for
  readers. A network write is not a lock: a report that nobody reads is running in this
  sense, and is what `PeersRead` is about. `NoLockDeadlock` was checked with TLC on the
  bounds of `ConnDB_safety`, and with two connections also that a goroutine which waits
  for no lock has an enabled step.
* **`QueryDBProofs`**. The invariant relates the program counters to the registry
  and to the interrupters' targets. The part `Lost` says why a query that is not over
  can be missing in the registry: it was stopped, or another query with its ID, which
  a DELETE had looked up *and which is not the one registered now*, was removed late;
  without the last clause it is not inductive. `Flushed` says that a response without an
  error has all rows, or its rows were closed under it, or DuckDB failed. From it: `TypeCorrect`,
  `NoLeakAlways`, `CancellableAlways`, `NoSpuriousCancelAlways`, and the action
  property `ListsRunningAlways`.
* **`AuthnProofs`**. The loop invariant: the prefix read so far is acceptable
  (`Prefix`) and the index holds the last entry of the prefix for each header value
  (`Indexed`). `AcceptsExactlyAlways` and
  `AuthenticatesOwnerAlways` follow for files of any length.
* **`DuckInitProofs`**. Which handles are open (`Handles`), which settings have been
  made at each statement (`Limits`), that the limits raised by the init queries run so
  far are in force (`Overrides`), and how far the instance is confined and locked
  (`Confined`). The properties speak of the end, or of whole phases, only: the loops
  over settings and init queries need a statement about the part done so far. From it: `ClosedOnErrorAlways`, `LimitsFirstAlways`,
  `LastSettingsAlways`, for any number of init queries.
* **`RequestProofs`**. `Authorized` says that a request which passed `checkAuthz` has an
  entry, `Stages` how what was sent, what `wrapWriter` noted and the handler's error
  belong together at each stage, and that only the handlers named in `Silent` leave a
  response to net/http. From them
  `GuardedAlways` and `LogExplainedAlways`, for any entries and any sequence of requests.
  Assumed of the entries: none of them is the value that stands for no entry.
* **`LifecycleProofs`**. Three layers, each proved preserved on top of the one before.
  `ProcInv`: the PID file and `WaitServe`; `PIDFileTrue` is inductive only with
  `PIDBound`, that no file names a process to come. `ConnInv`: nothing is done on a
  connection before it was accepted, and a request has a peer that is up (`Accepted`);
  registered IDs differ (`UniqueIDs`). With `Drained`, that no connection is up once
  `Serve` has returned nil, it gives `RequestsFinishAlways`. `DirInv`: `OwnDir` says that
  a session has used one directory only, the one of its connection's ID; without it
  `DirAccounted` does not survive the removal of a directory. From them also `PIDFileTrueAlways`, `NoLostWakeupAlways`,
  `DirAccountedAlways`, over any number of processes. Two results are about the
  composition with `DBPool`. `EachProcessIsPool`: until a process ends every step is a
  step of the pool or leaves it unchanged, and the next process starts from a fresh pool,
  so that what is said of the pool is true of each process, not of the server as a whole.
  `SlotsFitAlways`: at most `MaxDB` slots are held, and `connectDuckDB`, which takes
  `Pool!Acquire` with its guard, is never kept waiting by it: what `openDB` tested some
  steps before is still true, because openings exclude each other and closing only frees.
* **`SharedProofs`**. `Histories` ties `ever` and `always` to the directory as it is,
  `Statted` says what the handler knows from its `os.Stat`, `Listing` that the lines made
  so far are true, that the entries still to be asked for were there and that both
  together are complete, `Way` that without a change the URL of the client is one on the
  way to `Goal`. That `os.ReadDir` returns a
  directory completely is a pigeonhole argument on the sorted sequence (`SeqsOfSet`);
  `FormatFacts` is the arithmetic of `formatSize` at its edges. From them
  `ErrorTrueAlways`, `ListTrueAlways`, `ReachesAlways`. Assumed: the paths are finitely
  many, not empty, and no name is `..`.
* **`FormatterProofs`**. `IntervalSumsAlways`: whatever the units and the sign, the
  counts of `IntervalToStr` add up to the interval and none reaches the next unit.
  `QuoLeft` says what a division towards zero leaves, `NextUnit` chains it from unit
  to unit, and `ReadInv` is the invariant that only rows of the result are read.
  `CsvDistinguishesAlways` rests on it: intervals with the same counts are the same
  (`IntervalInjective`), and the other converters of scalar types keep what they print (`ConverterKeeps`).
  `CompleteOrMarkedAlways` and `PrefixThenErrorAlways` have the invariant `TextInv`:
  what was sent and what is held are together a beginning of the whole text (`Written`),
  of a length that the program counter and the rows read determine (`Amount`), and the
  three ways to end (`Ended`). The properties speak of what was sent only; `held` has to
  be followed through every buffer that is cut anywhere (`BeginsMore`, `BeginsPass`).
  `Options` says that the parameters hold the last option named `null` of those parsed;
  `Position` places piece `i` of row `k` in the text.
  `AvroExactAlways`: every wide integer reads back from its bytes, for all sizes of bytes
  and buffers, the code's 256, 17 and 9 among them, where TLC tries 4, 3 and 3. This is an
  induction over the bytes. The library's induction theorems take a predicate as a
  parameter, which the provers cannot instantiate; `LeastNat` and `NatSet` are the
  principle for a *set* of numbers, from `WFMin`, and do. With them: tables of powers of
  every length exist and agree, so `Pow` is the function its definition describes
  (`PowersExist`, `PowersAgree`, `PowFacts`); the quotients of `n` by descending powers
  are the values `SetBytes` computes on the way (`SetBytesFill`, by `DivDiv`); and the
  first byte tells the sign (`DecimalNat`, `DecimalNegative`), which is where the byte
  more than the type has is needed. The assumptions: an INTERVAL column
  holds intervals or nulls, a column of wide integers holds values of its type or nulls,
  results and options are finite sequences, and an option has
  at least one field, as `strings.SplitN` returns.

Only model-checked: the liveness properties `AcceptServed`, `RequestAnswered`,
`InterruptStops`, `DisconnectStops`, `SignalEnds` and the fair half of the refinement,
`PoolFairSpec`: fairness is out of the prover's reach. All other properties of the
passing runs are theorems. What the two runs that
expect a violation show is a behaviour, which needs no proof.

## Not modelled

* How values look: the quoting of csv, the encoding of Avro (the types marked FIXME
  in `type2field` may be refused by the encoder: `writeError`), the drawing of tables.
* WebDAV beyond the change of files and the statuses it writes (locks, properties, partial failures of a
  recursive DELETE), the HTML of a listing, the UI, what pprof reports, flags, log formats. The UI
  is browser code that polls the endpoints and keeps no state on the server.
* Symbolic links in the shared directory.
* SIGHUP reopening the access log (`hupfile`, external).
* In `ConnDB` a query is one step; in `QueryDB` a request starts with its database
  open. The two meet at `handleQuery` and share nothing else: the registry holds no
  reference to the manager, only the connection's ID as text.
* Time: start and duration of a query (`handleStatusQueries` reads the clock before
  it takes the list, so a `Duration` can be negative).
* Unused parts of `internal/authn` (`WrapHandler`, `Default`, `ReadFile`).

## Plan

1. *(done)* `ConnDB`, `DBPool`; then `QueryDB`, `Authn`, `DuckInit`, `Request`; first
   proofs.
2. *(done)* `Lifecycle` over `DBPool`; `Convert` and `Formatter`; `Shared`; the
   premise `PeersRead` in the place of an assumption on the network.
3. *(done)* Proofs of the safety properties of `DuckInit`, `Request`, `Lifecycle`,
   `Shared`, and the text of `Formatter`.
4. *(done)* The proof of `AvroExact`, so that every safety property of the passing runs
   is a theorem; the order of the locks in `ConnDB`; `Lifecycle` over `DBPool`.
5. Still worth having: the liveness properties for every size, with a prover that has
   fairness and `ENABLED`; WebDAV's recursive operations in `Shared`.
