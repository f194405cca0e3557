# A verification project for cqrs-rust-lib

TLA+ modules that model this library from the HTTP request to the rows of the views:
the command engine over its four event stores, the dispatch to views, the audit log, the
read side with its query language, the errors, and the three example applications. TLC
configurations check them on small instances; TLAPS proofs show what matters most for
every number of commands, aggregates and events. Paths below are relative to the repository.

Run from this directory: `tlc -config InMemoryEngine.cfg InMemoryEngine`,
`tlapm InMemoryEngineProofs.tla`. `PROJECT.json` lists every run with its module, the source
lines of every definition, the mutants, the hazards and the theorems.

## 1. The system

A command goes through these parts, all of them in `src/`; a query comes in from the right:

    write route -> CqrsCommandEngine -> EventStore (EventStoreImpl) -> EventStoreStorage
                        |                                              (memory, SurrealDB,
                        |  committed envelopes                          Postgres, MongoDB)
                        v
                  Dispatcher 1, 2, ...  (ViewDispatcher -> read Storage <- codex, read router)

| component | state | operations | hard because |
|---|---|---|---|
| `CqrsCommandEngine` (`engine.rs`) | none but its dispatchers; each call has locals | `execute_create`, `execute_update`, `handle_events` | calls run concurrently, each may be dropped at any await |
| `EventStore`, `EventStoreImpl` (`event_store.rs`, `es/impl.rs`) | none | `initialize_aggregate`, `load_aggregate`, `commit`, `load_events_paged` | loads are two reads, and the version is checked long after them |
| `InMemoryPersist` (`es/inmemory.rs`) | journal and snapshot maps, each behind an async mutex | sessions own both guards | lock order, release on every path |
| `SurrealDBPersist` (`es/surrealdb.rs`) | journal and snapshot tables, a unique index | one query, one transaction; no sessions | everything interleaves, queries fail half-way |
| `PostgresPersist`, `PgPool` (`es/postgres.rs`, `pg.rs`) | tables; connections | transactions, `FOR UPDATE` | open transactions, shared connections |
| `MongoDBPersist` (`es/mongodb.rs`) | collections | sessions its operations do not use | no atomicity, no index, no order |
| `ViewDispatcher` (`dispatchers/view_dispatcher.rs`) | none; views in a read storage | find, update, save per event | read-modify-write without a lock, commits out of order |
| `InMemoryDispatcher` (`dispatchers/memory.rs`) | envelopes per aggregate | `dispatch` | order of dispatches |
| audit log (`rest/audit_log_router.rs`, `read/paged.rs`) | none | `get_audit_log` | two reads per page, arithmetic of pages |
| read storages (`read/`) | view tables | filter, page, find, save | order of pages, count against page, what a row keeps of a view |
| codex (`rest/codex*.rs`, `read_router.rs`) | a latch per type name (`warn_once`) | query parameters to filter, sort, window | numeric edges, precedence of parameters |
| write route (`rest/write_router.rs`) | none | one route per command variant | a discriminator the client may also send |
| errors (`errors.rs`, `problem.rs`) | none | codes, statuses, problem documents | three tables that must agree |
| context (`context.rs`) | request id, clock | `next_uuid`, `now` | nothing of its own |
| examples (`example/`) | accounts, games, todo lists and their views | apply, handle, update | business rules decided on stale states |

What makes them correct, component by component:

* **Store.** The journal of an aggregate carries versions 1, 2, 3, ... and only
  grows; a snapshot is the replay of a prefix; a load gives the replay of exactly
  the version that commit will check; an `ok` finds its events for ever, a
  refusal left none; a commit is one compare-and-append. MongoDB promises less: no
  version is skipped, and aggregates whose commands did not meet are exact.
* **Sessions.** Every call is answered; guards are released on every way out.
* **Dispatch.** Only committed envelopes, none twice, all of them unless the call
  was dropped; a failed dispatcher costs the others nothing.
* **Views.** No event counts twice; without overlap, failure or drop a view is the
  replay of its stream.
* **Audit log.** A walk has no gaps and no repetitions while the journal grows, where pages are
  in the order of the versions (MongoDB's are in none).
* **Listings.** The window is the one asked for, on every database; a walk over all pages
  shows every view once or is explained by the order asked for; a filter never leaves its
  parent; what is found by an id is what was saved last (in MongoDB over what earlier views said of
  the fields it leaves out).
* **Errors.** An error made of a status answers that status, and no two statuses share a code.
* **Applications.** The guards the handlers decide on a loaded, perhaps stale state hold in the
  stream their events end up in; refusals were true when they were decided.

## 2. The modules

| module | what it is | code |
|---|---|---|
| `EventData` | events, envelopes, snapshots, replay | `event.rs`, `snapshot.rs`, `aggregate.rs` |
| `EventLog` | abstract: one compare-and-append per command | the promise of `EventStoreStorage` |
| `CommandCalls` | a call from arrival to answer, as operators over what the storage returned | `engine.rs`, `event_store.rs`, `es/impl.rs` |
| `EventStore` | journal and snapshots; the properties the storages share; the refinement mapping to `EventLog` | `es/storage.rs` |
| `InMemoryEngine` | the engine over the in-memory store and dispatcher | `es/inmemory.rs`, `dispatchers/memory.rs` |
| `SurrealEngine` | the engine over SurrealDB | `es/surrealdb.rs` |
| `PostgresEngine` | the engine over Postgres, with a pool or a shared connection | `es/postgres.rs`, `pg.rs` |
| `MongoEngine` | the engine over MongoDB | `es/mongodb.rs` |
| `ViewDispatch` | dispatch to views, over the commits of `EventLog` | `engine.rs`, `dispatchers/view_dispatcher.rs` |
| `AuditLog` | pages of the audit log | `rest/audit_log_router.rs`, `read/paged.rs`, `fetch_events_paged` |
| `Codex` | a query string to filter, order, window, or rejection | `rest/codex.rs`, `rest/codex_router.rs`, `rest/read_router.rs` |
| `ViewStorage` | rows, filters, orders and windows of the three databases | `read/postgres.rs`, `read/surrealdb.rs`, `read/mongodb.rs`, `read/` |
| `Reads` | a client that lists, walks and finds views, while views are saved | the same, composed |
| `Errors` | codes, statuses, problem documents | `errors.rs`, `problem.rs` |
| `WriteRoute` | routes of the command variants, the status of an answer | `rest/write_router.rs` |
| `BankAccount`, `Bank` | the account and its movements; the bank behind its routes | `example/bank/` |
| `LudothequeGame`, `TodoList`, `Applications` | games and todo lists, behind their routes | `example/ludotheque/`, `example/todolist/` |
| `EventStoreLemmas`, `...Proofs` | lemmas and theorems (section 4) | |
| `MC...` | symmetry, scenarios and the definitions a `.cfg` cannot state | |

`EventStore` EXTENDS `CommandCalls` EXTENDS `EventData`; the four engines EXTEND `EventStore`, so
they share the call and differ in the storage. Memory, SurrealDB and Postgres with a pool are shown to
implement `EventLog`, and `ViewDispatch` is built on `EventLog` (INSTANCE), so what it
shows of views does not depend on the storage. `Bank` composes `MongoEngine`, `WriteRoute`
and `BankAccount`; `Applications` composes `ViewDispatch` with the other two aggregates. `Reads`
EXTENDS `ViewStorage` EXTENDS `Codex`.

**State.** A call is `pc` (the operation it awaits or performs next), its locals
`agg`, `ver`, `batch`, and its answer `reply`. Its `target` is the id it was given
or that its id generator made (two creates may get the same one:
`CustomIdGenerator`, `CommandIdGenerator`). `journal[id]` and `snapshots[id]` are the tables. An
aggregate value is the sequence of events applied to it: any real aggregate is a
function of that sequence, so "the state is the right replay" is the strongest
statement one can make without a domain. An event is the pair of the call that
made it and its position, as a fresh uuid would name it. Handlers are arbitrary:
they return 0 to `MaxEvents` events or refuse. Whether an event applies is folded
into the refusal (`Refuse`), which `apply` errors take part in. In `Bank` and
`Applications` a call is an HTTP request and its handler is the example's own: the event
of a request is a function of its command, so the journals need no payloads.

**The applications and their stores.** The ludotheque is started over SurrealDBPersist, which is shown to implement
`EventLog`, so `Applications` puts its requests over `EventLog` itself. The todolist is one engine over
different stores: its tests run it over `InMemoryPersist` (`example/todolist/tests/integration_tests.rs:206`) and
over Postgres one call at a time, its server over Postgres with one `SharedClient` (`example/todolist/src/api.rs:96`), while axum runs
requests side by side. In `Applications` nothing puts requests in turn: any of them may load, and any commit, between the load and
the commit of another. What is said there of the todolist is said of a store that keeps `EventLog`, as memory and
Postgres with a pool do. Of the server whose sessions meet in one transaction it is *not* said: there a lost event may
be the one that added a todo, and `PostgresEngine` (`contended`) says all that such a store still keeps.

**Amounts.** `Amount` is an `f64`. `BankAccount` writes a float as the integer multiple it is of the least positive one, so
that a set of floats is a set of integers (`Floats`), and adds as IEEE 754 does: the nearest float, of two the one with
the even significand, an infinity once the finite ones are passed (`Plus`). Sums therefore depend on the order of the events, and the state
a call has loaded may differ from what the journal's order gives: MongoDB reads a tail in any order. `Orders`
are the orders the events of an account may have been added up in, which for an account whose loads never had to
order several events (`disturbed`) is that of the journal alone. NaN does not occur: a JSON number is finite, and only
an infinity less an infinity would make one.

**Bodies.** A request's body is an object, another JSON value, no JSON, or not said to be JSON. The `Json` extractor rejects
the last two, 400 and 415, before the handler runs; `from_value` rejects what is no command, 422.

**Steps.** One action per storage operation, since every one of them is an await
(or, in memory, a critical section) where other calls may run. In memory the
actions within a session are separate too, although the two guards already
exclude each other's sessions: this is what the lock properties are about.

**Postgres.** `journal` and `snapshots` are what is committed. What a transaction wrote
(`rows`, `drafts`) is kept with its connection, and a statement sees both. At READ
COMMITTED, `SELECT ... FOR UPDATE` chooses the latest row *before* it waits for its lock, so
the version it answers may be old: the two are separate actions (`FindLatestRow`,
`FetchLatestEvent`) and `UNIQUE(aggregate_id, version)` decides the race. Each envelope is an
INSERT of its own. `Uses` says which of the ways `pg.rs` speaks of a run covers:

* `pool`, with a connection per session. `PgSession` leaves a dropped session's
  transaction open and only warns, so it is the pool that must roll back a
  connection before its next use (`Recycle`, external: an assumption on the `PgPool` given);
* `in_turn`, a `SharedClient` used by one call at a time, for it is "NOT safe for concurrent
  transactions" in its own comment (`MayBegin`). There a dropped call's transaction is the next call's;
* `contended`, a `SharedClient` that several calls use at once all the same, as the todolist
  example does: their BEGINs, writes and COMMITs fall into one transaction.

A `SharedClient` that loses its connection answers nothing any more, which is left out.

**MongoDB.** `start_session` begins a transaction that no operation joins: a read or a write takes
effect at once and by itself, and closing or aborting the session changes nothing. A find
without a sort returns the tail in any order. `insert_many` inserts event by event and may stop
in the middle, and refuses an empty batch. There is no unique index.

**Listings.** A view has an id, a parent, a field offered to filters and sorts and a hidden one: as much
as the properties tell apart. A row is what each database keeps of it (the id stripped from the
`data` column and put back, or not). A listing reads its parameters one by one, as the extractor
does, then counts, then pages; between any two of these a view may be saved. A view may leave its hidden field out
(`Absent`, as `skip_serializing_if` does): Postgres and SurrealDB replace the row, MongoDB's `$set` keeps what the document
had (`Upsert`). `MaxI64` is the largest
signed integer and 7 in the run. A view type carries what its query offers, so one run covers
the examples' types, one without an order and one whose field is called like a reserved parameter.

**Audit pages.** All four stores are in `AuditLog`, which differ in the window they ask for: memory slices a vector under
its lock, Postgres and SurrealDB ask for the order of the versions and refuse negative numbers, MongoDB asks for no order
(`Listings`: any, another for each page) and takes a limit of 0 for none (`Limit`).

**Drops.** A future may be dropped wherever it may be pending: `Cancel`. In memory
it releases its guards. A SurrealDB or MongoDB write or a COMMIT that was sent before the drop may take
effect later or never (`CancelWrite`, `LateWrite`; `CancelClose`, `LateClose`), and so may
the save of a view (`LateSave`). A crash of the process is the drop of all calls.

**Failures.** SurrealDB queries fail before they act (`QueryFails`) or after, their
answer lost (second disjunct of `SaveEvents` and `SaveSnapshot`); MongoDB's likewise. A Postgres statement fails
and aborts its transaction (`SessionFails`), and a COMMIT whose answer is lost may have
committed or not (`CloseFails`). In memory nothing fails. A view storage fails likewise
(`DispatcherFails`), and so do the reads of the audit log (`ReadFails`).

**History variables** (no code state): `entry`, `missed`, `overlapped` of `ViewDispatch`; `begun` and
`got` of `AuditLog`; `disturbed` of `MongoEngine` (aggregates of which a commit was read half
done, failed or was dropped, or whose load had to order several events); `unprojected` and `since` of `Bank`;
`steady`, `quiet`, `seen`, `saved` and `ever` (all that was saved under an id) of `Reads`. `delivered` is the code's own.

## 3. The runs

| run | bounds | shows |
|---|---|---|
| `inmemory` | 3 calls, 2 ids, up to 2 events | the store properties, `DeliveredOnce`, the inductive invariant `IInv`, `ImplementsEventLog`, `StoreOnlyGrows`; `EveryCallAnswered` under `FairSpec` |
| `surreal` | 3 calls, 2 ids, up to 2 events | the store properties without locks (`StoreConsistent`); who may leave an unreadable aggregate; who may be a creator; `ImplementsEventLog`, lost answers included |
| `postgres_pool` | 3 calls, 2 ids, up to 2 events, all three uses | `ConsistentAsUsed`: the store properties with a pool and with turns, single versions when contended; with a pool `CommitIsWhole` and `CommitImplementsEventLog`, the append being the COMMIT |
| `postgres_liveness` | 3 calls, 1 id, 1 event, a pool | `EveryCallAnswered` under `FairSpec`: the waits of transactions have no cycle |
| `mongo` | 3 calls, 1 id, up to 2 events | `NoVersionIsSkipped`, `SnapshotIsBacked`, `AnswersHold` whatever interleaves or fails; `UndisturbedIsExact`: what is lost is lost only where commands met |
| `view_dispatch` | 3 calls, 1 id, up to 3 events, event 2 not shown, a view per aggregate and a view per event | what interleaved, failed and dropped dispatches may do to views |
| `audit_walk` | words of 16 values, journals up to 4, every page size, first pages 0, 1, 2, 9, four stores | a walk from page 1 of a store with an order is the journal's prefix; it ends with as many entries as there were, on MongoDB too; totals cover items under one lock |
| `audit_skip` | journals up to 4 | **violated**: see section 6 |
| `reads` | 3 views, 1 save, integers up to 7, 5 view types, 3 databases, query strings of up to two parameters, walks and some longer ones | windows, filters, orders and rows do what was asked, on every database the same |
| `reads_sort` | the same | **violated**: see section 6 |
| `bank` | 5 requests (2 answered before the run begins and 3 that meet, or 5), 1 account, amounts -1..4, floats of two significant bits up to 12 | `LedgerIsExplained`, `MovementsAddUp`, `RefusalsAreTrue`, over MongoDB with its faults |
| `applications` | 4 requests, 1 game or list | `LoansAreHonest`, `TodosAreThere`, over a store that keeps `EventLog`'s promise, all of them at once |

That a load gives the replay of the version the commit checks (`LoadedIsReplay`) is checked
by itself in memory; for SurrealDB and Postgres it is what `seen` says in the refinement, which
is why those runs do not list it again.

Why the bounds are enough: three calls are a create, an update that wins and
another that loses, or a creator and two racing creates; a fourth call only repeats
the part of one of them. Two events in a batch tell a batch from its first and its
last event; three with an unshown one in the middle tell "goes on" from "returns".
Two ids show that nothing leaks from one aggregate to another; the runs with one id are of
modules where every action touches one aggregate only. A word of 16 values
wraps with products of two numbers up to 15, so the edges of 64 bits have their
counterparts; with integers up to 7 a page times a page size passes the largest integer, and
numbers -1, 0 and 1 are on both sides of every check. Two parameters show every precedence
(`skip` against `page`, a repeated name, a filter with a sort); the longer strings are those
that walk. Three views in two parents and with two keys have ties and strangers. The scenarios of
`bank` and `applications` are the requests that compete: two withdrawals of one balance, a
withdrawal and a negative deposit, a withdrawal and a closing, two borrowers, a todo resolved twice or
after its removal; and those that are refused on the way. Requests 1 and 2 of `bank`'s first scenarios
are answered first, so that the three that meet find an account with money. Floats of two significant bits are enough
to round: 3 and 2 make 4, so that a deposit of 2 and a withdrawal of 1 leave 3 of an account of 3 in one order and 4 in
the other, and whether a withdrawal of 4 is refused depends on it.

Calls and ids are symmetric in the runs that say so in their `.cfg`, none of which has
a liveness property. Deadlock is checked in all runs: a state where every call is answered is the `Idle`
step, so any other state without a step would be reported.

**Fairness.** Only `inmemory` and `postgres_liveness` assume any: `WF_vars(Step(c))`,
a call that can go on does so. Over Postgres that includes a statement whose row is free, and
the rollback of a dropped session's connection by the pool (`Recycle`): without it the locks
of a dropped session would stop every other call on its aggregate. The executor polls every woken future; handlers are assumed to return.
`futures::lock::Mutex` is not fair, but each call takes each guard at most twice, so
three calls cannot starve one another and weak fairness suffices. Nothing forces a `Cancel`.
SurrealDB, MongoDB and the read side have no wait of their own: every operation is a
query that returns or fails, and their liveness would only restate that.

**Mutants.** Every property has a mutated definition, kept beside the original and
marked `Mutant`, that breaks it: a version check with `<=`, a snapshot at the wrong
version, a missing unique index, a guard that is not released, a dispatcher that
retries, a window one short, an append to a stream nobody compared, a save that does not set, a filter without its parentheses, a withdrawal on credit.

## 4. The proofs

Everything here is proved for all values of the constants, under the named assumptions of the
modules only, all of which TLC evaluates in the runs.

**`InMemoryEngineProofs`**, for any `Calls`, `Ids` and `MaxEvents \in Nat`, with the
sentinels `Free` and `NoSnapshot` distinct from calls and snapshots:

* `Invariance`: `Spec => []IInv`, and from it `TypeCorrect`, `JournalContiguous`,
  `SnapshotFaithful`, `SnapshotCurrent`, `LoadConsistent`, `AnswersTruthful`;
* `StoreGrowing`: `Spec => StoreOnlyGrows`, the action property;
* `Refinement`: `Spec => ImplementsEventLog`, every step a compare-and-append, an answer or a stutter;
* `EveryEventOnce`: `Spec => []DeliveredOnce`.

None of the properties is inductive by itself. `IInv` adds what they rest on:
who owns which guard at which `pc` (`LockInv`, hence at most one call is inside a
session); what the call inside knows, that its version is the journal's length
between the check and the write, and that the two agree with the batch after it
(`CallInv`); that an unwritten call has no event anywhere, which keeps events
distinct; and that a snapshot lags its journal only while a session is between its
two writes (`SnapshotInv`). The argument of a commit: the check under both guards
gives `ver = Len(journal)`; no other call can write while the guards are held; so the
envelopes extend a contiguous journal and the new snapshot is the replay of all of it. A
load needs no guard because journals only grow: the replay of a prefix stays the
replay of that prefix (`EventStoreLemmas`). There is one lemma per action, and within it
one step per part of the invariant the action can disturb.

The refinement uses `IInv` and that a batch is new when its handler makes it
(`BatchesAreNew`); the mapping is that of `EventStore`, and what a quiet step or an append is
mapped to is proved once in `EventStoreLemmas` for this engine and SurrealDB's. Delivery rests on
`DeliveryInv`: an entry sits where its call put it, a delivered envelope is an entry of a call that was
answered `ok`, no two calls deliver the same, and what an `ok` wrote has been delivered. When all calls are
answered and none was dropped, versions are then a bijection between the two sequences, and they have one length.

**`SurrealEngineProofs`**, for the same constants: `IndexIsEnough` (`StoreConsistent`), `OneCreateWins`,
`UnreadableHasCause`, `JournalIsAppendOnly` and `Refinement`. No session orders the calls here. While the versions of
a journal are 1, 2, 3, ... a call that expects fewer entries than there are collides with the entry
after the last it knows, so whatever the unique index lets in goes to the end; hence the journal only grows,
what a call loaded stays a replay of it, and a snapshot, be it an old one, is a replay too.

**`PostgresEngineProofs`**, for each use of the connections: `InvariantHolds` (`Spec => []IInv`), and from it
`StoreAsUsed` (`ConsistentAsUsed`), `CommitsAreWhole` (`CommitIsWhole`) and `Refinement`
(`CommitImplementsEventLog`). What a connection sees of an aggregate is what is committed and then its own rows
(`Table`). While calls do not contend for a connection, the versions of that are 1, 2, 3, ..., so a row the unique
constraint lets in goes to the end, and a call's load is a replay of what its connection sees (`TableInv`, `CallInv`).
With a pool, a row that is not committed keeps every other connection from adding one (`OneWriter`), and a connection
holds rows of its own call only (`PoolInv`); so a commit appends a whole batch to the journal its call has
checked. Where calls contend, only `SingleVersions` and `UnsentIsNowhere` are left of it: the constraint, and that what was not
sent is nowhere. Hence a refusal left nothing, even there.

**`MongoEngineProofs`**, of the store and then of the bank on it. Of the store: `NoVersionSkipped`, `AnswersAreHeld` (`AnswersHold`), `SnapshotsAreBacked` (`SnapshotIsBacked`) and
`UndisturbedAreExact` (`UndisturbedIsExact`). A call that passed the check saw an entry of
its version and entries stay, so all versions up to its own are there when it inserts, whoever wrote
them; and the insert is ordered, so that all or part of its batch comes right after. `MInv` adds that no event is
in a journal twice, that a call which wrote has every event once and at its version, that one which did not has none,
and that what a call loaded are journal events, none twice and none its own, and from the version check on as many as
its version says: that is all a snapshot is made of, although forks may stand between. `EInv` speaks of the aggregates whose commands never
met: their journals are contiguous, their calls hold a replay, and one call at most is under way, which has
the end of the journal in hand.

Of the bank (`BankSpec`), for any calls, accounts, amounts and requests, all faults of the store included:
`LedgersAreExplained` (`LedgerIsExplained`), `RefusalsAreTruthful` (`RefusalsAreTrue`) and `MovementsAreComplete`
(`MovementsAddUp`). The argument is of a journal in which no version was written twice (`~ Forked`), whatever its commands did to each
other. A command has one event, so an insert is all of its batch or nothing; the versions are 1, 2, 3, ... (`Contiguous`), for
none is skipped and none is there twice; hence a call whose event lands had loaded exactly the entries before it (`Landing`), and the account it
decided on is made of them, in an order in which a load may have added them up (`Orders`). `BankInv` is `EInv` and

* what each request is and how far the engine is with it (`Served`), that every entry is the one event of a request to its
  account (`Made`), and every movement that of an entry (`MovementsMade`);
* of the accounts that are not forked (`Straight`): the journal is contiguous and explained, and a snapshot holds its first
  `version` events in some order (`Ordered`); what a call holds between its reads and its write is the first events of the journal
  plus its own, none of which its request came too late for (`Grounded`); a call that is refused for its version met another event or
  a disturbance (`Conflicts`); and the movement of an event that was dispatched well is in the view (`Saved`).

Amounts are floats, so nothing may be concluded from one order to another: `Grounded` keeps the very sequence a call holds, as the first
events of the journal in some order (`HasFirst`), which in an account that was never disturbed is that of the journal
(`HeldIsOrder`, from `EInv`). That an entry is taken, `IsTaken`, is therefore claimed of some such order; in the undisturbed account
there is only one. Of the sum itself just this is used (`PlusIs`): it is a float, adding nothing changes nothing, and it is below
zero only if what is rounded is. So only a negative deposit overdraws an undisturbed account (`OnlyDepositsOverdraw`). The movements are
added up in the order of their versions, as the account adds its events, so the two sums round alike and are one (`MovementsSum`).
A fork, once there, stays, so nothing need be kept of an account that has one. The assumptions say that floats have opposites, 0 among them,
and that two of them have a sum to be rounded to (`FloatsAssumption`), that commands name finite ones (`AmountsAssumption`), that the
bound lets a handler return one event (`OneEventAssumption`), and that a scenario's requests are of the bank's routes
and its past is one the account accepted (`ScenariosAssumption`).

**`ViewDispatchProofs`**, for any dispatchers and shown events:

* `NoEventTwice` (`AppliedAtMostOnce`). Dispatches overlap freely, but a call's cursor never goes back: an event that is in
  a view, or in one a call has found, was handed over, and the event a call is about to save was not (`DispatchInv`).
* `AcknowledgedAreProjected` (`AcknowledgedIsProjected`). Two calls that are both under way on one aggregate are overlapped from then on,
  so a call without overlap is alone between its `find` and its `save`: what it found is still what is saved, and
  what it saves lacks nothing that was there. An event of it is thus in the view or among those it missed (`ProjectInv`).
* `QuietViewsReplay` (`QuietViewIsReplay`). The stream of an aggregate is in order of the results, and a call nobody met has the
  end of it while it dispatches; so the event it adds to the view follows all that are in it (`OrderInv`). The property is stated by the
  set of the shown events in the view and their order in the stream, not with `SelectSeq`, of which the provers know nothing.
* `LoansHonest` (`LoansAreHonest`) and `TodosThere` (`TodosAreThere`), of `Applications`, for any calls, ids and requests. Requests load and
  commit in any order, but `EventLog` appends only to a stream that is still what the handler saw, so a guard that held when a command was handled
  holds at its event. `StoryInv` is
  `DispatchInv` and: the requests are commands of the application (`Requests`), every event of a stream is the one event of a call that committed, there
  once (`Origins`), only a call that saw nothing creates (`Creators`), the stream of a game lends it to one borrower at a time
  (`Loans`), and that of a list resolves and removes what it has (`Todolists`). `CalmInv` adds what the views of games need: while no dispatches of a game
  overlap and none is lost (`Calm`), its view is its stream, or its stream less the one event that is being dispatched (`CalmViews`). The
  assumptions: a scenario's requests are commands of its application (`ScenariosAssumption`); games have one dispatcher, which every event
  updates (`GameViewAssumption`).

**`AuditLogProofs`**: `WalkGetsEveryEntry`, `FinishedWalkHasAll`, `TotalIsOfTheJournal`, for any word
and page size and each store. What a walk has got is `(page - 1) * size` entries, which is no more than the
journal's length, so the unchecked product never wraps where it matters; and where pages are in the order of the versions
they are the first ones. Of MongoDB only the numbers are claimed, and the entries of a page that has them all.

**`RestProofs`**, for any view types, views and requests:

* `FoundIsSaved` (a row gives back the view it was made of; what `$set` leaves of an earlier view is, field by field, what
  one of the views saved under the id said, and only of a field the last one left out: `KeptFrom`);
* `WindowsAgree` (the numbers the extractor lets in are never negative, and never zero where a limit or page size is meant; only
  on such numbers would the databases differ);
* `PageIsAsAsked` (`PageIsWhatWasAsked`), `OwnMatchingViews` (`OnlyOwnMatchingViews`) and `HiddenFieldStaysHidden`
  (`HiddenFieldIsNoLookup`), from `PagesInv`: what the extractor has gathered is counted and within the query's fields, a query
  that reads has passed all checks, a table is finite, the count still holds while nobody saves, and the items are the
  selected rows at the positions of the window. A sort lists each selected row once (`Listings`), and neither
  it nor `Matching` looks at a field the query does not have;
* `WalkGapsAreExplained` (`WalkGapIsExplained`), from `WalkInv`. The client asks for each page with the parameters of the
  first, the page number replaced, so by the loop over them every page selects the same rows in the same order and has the next
  window (`Walk`, `SameQuery`, `WalkWindows`); this needs that the request names page 0 and no other (`FromFirstPage`). An order that
  names the id puts any two rows one before the other, so it can be listed in one way only (`OneListing`, by the least place at which two
  listings differ), and the pages laid end to end are that listing (`ShownGrows`), to its end when one comes short. Without the id
  nothing is claimed past the first page but the warning: a later page in no order at all has been warned of (`LaterPageIsWarned`);
* of the errors: `StatusIsPreserved`, that the table from statuses to codes (`GenericFromStatus`) and those from codes to indexes and
  statuses agree, each written from its own lines; `GenericCodesAreDistinct`, `InfrastructureCodesAreApart`, for all statuses
  100..999, and `DeserializedAnswers500`. There is no state here, so nothing for TLC to explore.

The assumptions say that views have a known id (`ViewsAssumption`), that what is stored at first is finite
(`StoredAssumption`), that queries ask for fields the views have (`FieldsAssumption`), that rows of a snapshot table name no
parent (`ChildAssumption`) and that the sentinel `NoRow` is no row.

**Folds.** Aggregates are folds over their events, written as recursive functions (`Account`, `GameOf`, `Todos`). The
library's induction theorems cannot be instantiated by these provers, so induction is written out: a set of numbers that holds 0, and with
every number the next, misses no number, for it would miss a least one (`LeastOf`, `UpTo`). That such a function exists, and how it
goes on from one event to the next, is then proved (`Iterates`, `AccountIs`), and that two which begin and go on alike are alike
(`SameUpTo`), the movements' sum and the balance among them; for games and lists what breaks is the first event that would.

**Only model-checked:** liveness (`EveryCallAnswered`) and ENABLED, which are beyond the prover. Every invariant and every action
property that a passing run checks is stated by a theorem; the runs show them on small instances, where TLC also tries every mutant.

## 5. What the checks say of the code

* In memory all promises hold, however calls interleave or are dropped.
* SurrealDB's unique index is enough for the journal and the answers. A snapshot may
  go *back* to an earlier version (`SaveSnapshot` of a slow call), which is why
  `StoreOnlyGrows` is stated for memory only and `JournalOnlyGrows` here; loads remain
  right. A create that stops between its two writes leaves an aggregate that no update
  finds and no create can make again; `UnreadableOnlyAfterFailure` shows that nothing else does.
* Postgres with a pool commits a command whole or not at all, whatever fails or is
  dropped. Whoever loses a race after the lookup of the latest row is answered `database_error`,
  not `concurrency_error`, since `map_pg_error` (`es/postgres.rs:381`) does not tell a duplicate key from other
  errors. A command without events that waited for a lock may put an older snapshot back.
* With a `SharedClient` the COMMIT of the next call commits what a dropped one had inserted,
  perhaps part of a batch, so `CommitIsWhole` is not claimed there; and a load that fails inside
  such a transaction aborts it, after which every later load on that connection fails. When calls contend
  for it, one's ROLLBACK undoes the other's writes and an `ok` may have lost its events; only single
  versions and "a refusal left nothing" remain.
* On MongoDB two commands may both commit a version and both be told `ok`: the journal
  forks. A command without events fails with a database error. What stays is `NoVersionIsSkipped`,
  snapshots made of journal events, and exactness where commands did not meet. On top of
  that the bank's entries and refusals are those of an account that adds up what was journalled, as long as no version was
  written twice. But an unsorted tail is added up as it comes, and amounts are `f64`: a withdrawal may be decided on a balance that
  differs, by what was rounded, from that of the ledger, and be accepted or refused by it. Once a version was written twice, two events of one version share one movement, and the movements no longer add
  up. A negative deposit is not checked and takes money like a withdrawal without a look at the balance.
* Two creates without events may both succeed (`OneCreator` excludes them): nothing in
  the journal arbitrates.
* A view per aggregate may lose events when dispatches of one aggregate overlap, when a
  storage fails or when a call is dropped; the properties of `ViewDispatch` say
  exactly when it may not. The stream is right all the same: a game is lent to one person at a time
  (`LoansAreHonest`), even when its view is behind.
* A walk over the pages of a listing may skip and repeat views although nothing is
  saved, when the order lacks the id. A sort of commas only is `Some` of nothing and overrides the view's default
  order, without a sort error. `WalkGapIsExplained` shows that these are all the cases, and that a page without any order has
  been warned of; the latch of that warning is per type name (`read/page_order.rs:36`), so one
  warning silences all later ones of that type, and a first page is never warned of.
* Page and count are two statements, so a total may be of another moment than its page.
* The audit log of MongoDB pages through a find without a sort (`es/mongodb.rs:147`): two pages may repeat and miss entries
  though nothing is committed, and a page size of 0 is answered with the whole journal. `WalkHasNoGap` is claimed of the
  other stores; of MongoDB, `FinishedWalkIsWhole` claims the number of entries and the walk of one page.
* A view found in MongoDB may be one nobody saved: `$set` keeps the fields that a later view does not serialise
  (`read/mongodb.rs:191`). `FoundIsLastSaved` says that this is the only difference. No view of the examples leaves a field out, and
  `ViewDispatch` is about such views: a save replaces them whole.
* The server of the todolist shares one connection between requests that run side by side, which `pg.rs:51` advises
  against. `TodosAreThere` is not claimed of it.

Of details that no run states as a property: `errors.rs:47` speaks of prefixes 0 to 9, while the examples use 10,
20 and 30; an internal code passes 16 bits from prefix 65 on (`errors.rs:60`); an error read
back from JSON answers 500, for its status is not serialised (`DeserializedAnswers500`); the OpenAPI of the update
routes names no 410, which the bank answers for a closed account; the route of a child view by id extracts its
path twice (`rest/codex_router.rs:144`).

## 6. Findings

* `get_audit_log` answers `skip = page * page_size` while `fetch_events_paged` skips
  `(max(page, 1) - 1) * page_size`. `read/paged.rs:19` says "Number of items skipped before this
  page." and `read/paged.rs:8` "Always exact."; run `audit_skip` answers the first entry with a skip of one page.
* A sort that cannot be used is answered 422 (`rest/codex.rs:207`), while `rest/codex.rs:100` says "`sort` is the
  exception and answers `400`, because it is validated at the storage layer instead", as do
  `docs/adr/0001-reject-malformed-codex-query-params.md:57` and `docs/migration_guide/codex_query_rejection.md:96`; run `reads_sort`.

## 7. Not modelled

* Text: JSON, SQL, the RSQL grammar, OpenAPI documents, messages and details of errors, logging. What a row
  keeps of a view, what a filter selects and which parameter wins are modelled; how they are written is not.
* Clocks: `CqrsContext` stamps events with its clock and decides nothing by it; its overrides serve tests.
* `load_events` of the event store hands a whole stream to callers outside `src/src`; `clear` and the getters of
  `InMemoryDispatcher` serve tests; `append_dispatcher` and `new` come before the first call.
* The todolist over the `SharedClient` of its server while sessions meet, beyond what `PostgresEngine` says of that store.
* Amounts that are NaN, which no request can name.
* A `SharedClient` whose connection is lost for good; the pool behind `PgPool` beyond `Recycle`.
* Build glue: re-exports, marker traits, wasm shims and test support have no behaviour.
