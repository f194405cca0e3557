--------------------------- MODULE PostgresEngine ---------------------------
(***************************************************************************)
(* The command engine over PostgresPersist (es/postgres.rs).               *)
(*                                                                         *)
(* A session is a transaction, at READ COMMITTED, on a connection it gets  *)
(* from a PgPool (pg.rs).  journal and snapshots are what is committed;    *)
(* what a transaction wrote is kept with its connection.  The two pools    *)
(* the library speaks of are                                               *)
(*   - a real pool: a session has a connection of its own, and the         *)
(*     connection of a dropped session is rolled back before its next use  *)
(*     (the pool's part: PgSession itself only warns);                     *)
(*   - SharedClient: all use one connection, "NOT safe for concurrent      *)
(*     transactions".  Where calls are made one at a time ("in_turn"), a   *)
(*     dropped session leaves its transaction open, and the next call      *)
(*     works inside it.  Where they are not ("contended", as the handlers  *)
(*     of the todolist example), their statements fall into one            *)
(*     transaction, or into none, and any COMMIT or ROLLBACK ends it.      *)
(* An answer is lost, or a commit fails, with the connection: after that a *)
(* SharedClient answers nothing any more, which is left out.               *)
(***************************************************************************)
EXTENDS EventStore

CONSTANTS
  Uses,        \* the uses of a pool: "pool", "in_turn" and "contended"
  Client       \* the connection of a SharedClient

ASSUME UsesAssumption ==
  Uses \subseteq {"pool", "in_turn", "contended"} /\ Client \notin Calls

VARIABLES
  use,         \* how the pool is used, for good
  txn,         \* connection -> "none", "open" or "aborted" (by an error)
  rows,        \* connection -> id -> envelopes inserted, not committed
  drafts,      \* connection -> id -> snapshot written, not committed
  found,       \* the version of the row FOR UPDATE found for a call, or 0
  sent         \* the envelopes of its batch a call has inserted

transactions == <<use, txn, rows, drafts, found, sent>>
vars == <<callVars, store, transactions>>

Shared == use # "pool"

Connections == IF Shared THEN {Client} ELSE Calls
Conn(c) == IF Shared THEN Client ELSE c
Others(c) == Connections \ {Conn(c)}

Init ==
  /\ use \in Uses
  /\ CallInit
  /\ StoreInit
  /\ txn = [k \in Connections |-> "none"]
  /\ rows = [k \in Connections |-> [id \in Ids |-> <<>>]]
  /\ drafts = [k \in Connections |-> [id \in Ids |-> NoSnapshot]]
  /\ found = [c \in Calls |-> 0]
  /\ sent = [c \in Calls |-> 0]

TypeOK ==
  /\ use \in Uses
  /\ CallTypeOK
  /\ StoreTypeOK
  /\ txn \in [Connections -> {"none", "open", "aborted"}]
  /\ rows \in [Connections -> [Ids -> Seq(Envelope)]]
  /\ drafts \in [Connections -> [Ids -> Snapshot \cup {NoSnapshot}]]
  /\ found \in [Calls -> Nat]
  /\ sent \in [Calls -> 0..MaxEvents]

-----------------------------------------------------------------------------
(* What a statement sees: what is committed, and its own transaction's. *)
Visible(c) == ByVersion(journal[target[c]] \o rows[Conn(c)][target[c]])

VisibleSnapshot(c) ==
  LET draft == drafts[Conn(c)][target[c]]
  IN  IF draft = NoSnapshot THEN snapshots[target[c]] ELSE draft

(* An aborted transaction takes no statement but its end. *)
Usable(c) == txn[Conn(c)] # "aborted"

(* Where calls take turns the next one waits for the answer of the last. *)
MayBegin(c) ==
  use = "in_turn" => \A d \in Calls \ {c} : pc[d] \in {"fetch_snapshot", "done"}

FetchSnapshot(c) ==
  /\ MayBegin(c)
  /\ Usable(c)
  /\ \/ InitializeAggregate(c, VisibleSnapshot(c))
     \/ LoadSnapshot(c, VisibleSnapshot(c))
  /\ UNCHANGED <<store, transactions>>

FetchEventsFromVersion(c) ==
  /\ Usable(c)
  /\ LoadTail(c, EventsFromVersion(Visible(c), ver[c]))
  /\ UNCHANGED <<store, transactions>>

RunHandler(c) ==
  /\ Handle(c) \/ Refuse(c)
  /\ UNCHANGED <<store, transactions>>

(* BEGIN; inside a transaction it is only warned about. *)
StartSession(c) ==
  /\ pc[c] = "start_session"
  /\ Usable(c)
  /\ txn' = [txn EXCEPT ![Conn(c)] = "open"]
  /\ Goto(c, "lock")
  /\ UNCHANGED <<kind, target, agg, ver, batch, reply>>
  /\ UNCHANGED <<store, use, rows, drafts, found, sent>>

(* SELECT ... LIMIT 1 FOR UPDATE finds the latest row at once ... *)
FindLatestRow(c) ==
  /\ pc[c] = "lock"
  /\ Usable(c)
  /\ found' = [found EXCEPT ![c] = LatestVersion(Visible(c))]
  /\ Goto(c, "fetch_latest")
  /\ UNCHANGED <<kind, target, agg, ver, batch, reply>>
  /\ UNCHANGED <<store, use, txn, rows, drafts, sent>>

(* Another transaction owns the lock of the row a call found. *)
RowLocked(c) ==
  \E d \in Calls \ {c} :
    /\ found[c] > 0
    /\ Conn(d) # Conn(c) /\ txn[Conn(d)] # "none"
    /\ target[d] = target[c] /\ found[d] = found[c]
    /\ pc[d] # "fetch_latest"

(* ... and returns that row once it is its own to lock, later rows or not. *)
FetchLatestEvent(c) ==
  /\ ~ RowLocked(c)
  /\ CheckVersion(c, found[c])
  /\ UNCHANGED <<store, transactions>>

HasVersion(envelopes, v) == \E i \in DOMAIN envelopes : envelopes[i].version = v

(* Mutant: no row is refused. *)
NoUniqueConstraint(c, v) == FALSE

(* UNIQUE(aggregate_id, version) knows a row with that version. *)
Duplicate(c, v) == HasVersion(Visible(c), v)

(* A statement failed: the transaction it was in takes no other. *)
FailStatement(c) ==
  /\ Goto(c, "abort")
  /\ reply' = [reply EXCEPT ![c] = "database_error"]
  /\ txn' = [txn EXCEPT ![Conn(c)] = IF @ = "none" THEN @ ELSE "aborted"]

(* Outside of a transaction, which only another call can have ended, a     *)
(* statement is committed at once.                                         *)
WriteRow(c, envelope) ==
  IF txn[Conn(c)] = "none"
    THEN /\ journal' = [journal EXCEPT ![target[c]] = Append(@, envelope)]
         /\ UNCHANGED rows
    ELSE /\ rows' = [rows EXCEPT ![Conn(c)][target[c]] = Append(@, envelope)]
         /\ UNCHANGED journal

WriteSnapshot(c) ==
  IF txn[Conn(c)] = "none"
    THEN /\ snapshots' = [snapshots EXCEPT ![target[c]] = NewSnapshot(c)]
         /\ UNCHANGED drafts
    ELSE /\ drafts' = [drafts EXCEPT ![Conn(c)][target[c]] = NewSnapshot(c)]
         /\ UNCHANGED snapshots

(* One INSERT per envelope.  A row of that version in another transaction  *)
(* makes it wait for that transaction's end; a committed one is an error,  *)
(* of the database like any other (map_pg_error).                          *)
InsertNext(c) ==
  LET envelope == Envelopes(c)[sent[c] + 1] IN
  /\ Usable(c)
  /\ \A k \in Others(c) : ~ HasVersion(rows[k][target[c]], envelope.version)
  /\ IF Duplicate(c, envelope.version)
       THEN FailStatement(c) /\ UNCHANGED <<journal, rows, sent>>
       ELSE /\ WriteRow(c, envelope)
            /\ sent' = [sent EXCEPT ![c] = @ + 1]
            /\ IF sent[c] + 1 = Len(batch[c])
                 THEN Goto(c, "save_snapshot")
                 ELSE UNCHANGED pc
            /\ UNCHANGED <<reply, txn>>

SaveEvent(c) ==
  /\ pc[c] = "save_events"
  /\ \/ /\ batch[c] = <<>>
        /\ Goto(c, "save_snapshot")
        /\ UNCHANGED <<reply, journal, txn, rows, sent>>
     \/ batch[c] # <<>> /\ InsertNext(c)
  /\ UNCHANGED <<use, kind, target, agg, ver, batch, snapshots, drafts, found>>

(* The upsert waits for another transaction that wrote the row. *)
UpsertSnapshot(c) ==
  /\ Usable(c)
  /\ \A k \in Others(c) : drafts[k][target[c]] = NoSnapshot
  /\ WriteSnapshot(c)

SaveSnapshot(c) ==
  /\ pc[c] = "save_snapshot"
  /\ UpsertSnapshot(c)
  /\ Goto(c, "close")
  /\ UNCHANGED <<use, kind, target, agg, ver, batch, reply>>
  /\ UNCHANGED <<journal, txn, rows, found, sent>>

-----------------------------------------------------------------------------
(* The ends of a transaction. *)

Clear(c) ==
  /\ txn' = [txn EXCEPT ![Conn(c)] = "none"]
  /\ rows' = [rows EXCEPT ![Conn(c)] = [id \in Ids |-> <<>>]]
  /\ drafts' = [drafts EXCEPT ![Conn(c)] = [id \in Ids |-> NoSnapshot]]
  /\ found' = [found EXCEPT ![c] = 0]
  /\ UNCHANGED <<use, sent>>

Rollback(c) == Clear(c) /\ UNCHANGED store

(* Mutant: the rows are committed, the snapshot is not. *)
CommitRowsOnly(c) ==
  /\ journal' = [id \in Ids |-> journal[id] \o rows[Conn(c)][id]]
  /\ UNCHANGED snapshots
  /\ Clear(c)

CommitTransaction(c) ==
  /\ journal' = [id \in Ids |-> journal[id] \o rows[Conn(c)][id]]
  /\ snapshots' = [id \in Ids |->
                     IF drafts[Conn(c)][id] = NoSnapshot
                       THEN snapshots[id]
                       ELSE drafts[Conn(c)][id]]
  /\ Clear(c)

(* COMMIT, which is no error when there is no transaction, nor when it was *)
(* aborted, which makes it a ROLLBACK.                                     *)
EndTransaction(c) ==
  IF txn[Conn(c)] = "open" THEN CommitTransaction(c) ELSE Rollback(c)

CloseSession(c) ==
  /\ reply[c] = "none"
  /\ Committed(c)
  /\ EndTransaction(c)

(* The connection is lost: COMMIT took effect or did not, and the session  *)
(* is dropped, not aborted.                                                *)
CloseFails(c) ==
  /\ ~ Shared
  /\ pc[c] = "close" /\ reply[c] = "none"
  /\ Answer(c, "database_error")
  /\ CommitTransaction(c) \/ Rollback(c)
  /\ UNCHANGED <<kind, target, agg, ver, batch>>

AbortSession(c) == Aborted(c) /\ Rollback(c)

Dispatch(c) == Dispatched(c) /\ UNCHANGED <<store, transactions>>

-----------------------------------------------------------------------------
(* A statement of load_aggregate or initialize_aggregate fails; if there   *)
(* is a transaction a dropped call left, it is aborted with it.            *)
LoadFails(c) ==
  /\ pc[c] \in {"fetch_snapshot", "fetch_tail"} /\ MayBegin(c)
  /\ Answer(c, "database_error")
  /\ txn' = [txn EXCEPT ![Conn(c)] = IF @ = "none" THEN @ ELSE "aborted"]
  /\ UNCHANGED <<use, kind, target, agg, ver, batch>>
  /\ UNCHANGED <<store, rows, drafts, found, sent>>

StartSessionFails(c) ==
  /\ pc[c] = "start_session"
  /\ Answer(c, "database_error")
  /\ UNCHANGED <<kind, target, agg, ver, batch, store, transactions>>

SessionFails(c) ==
  /\ \/ pc[c] \in {"lock", "fetch_latest", "save_snapshot"}
     \/ pc[c] = "save_events" /\ batch[c] # <<>>
  /\ FailStatement(c)
  /\ found' = [found EXCEPT ![c] = IF pc[c] = "fetch_latest" THEN 0 ELSE @]
  /\ UNCHANGED <<use, kind, target, agg, ver, batch>>
  /\ UNCHANGED <<store, rows, drafts, sent>>

(* The call is dropped.  Its connection is in the transaction it began,    *)
(* with what its session wrote; a statement under way takes effect or not. *)
(* A ROLLBACK is on its way with the poll that saw the error, so no drop   *)
(* can hold it back.                                                       *)
Cancel(c) ==
  /\ \/ pc[c] \in {"fetch_snapshot", "fetch_tail", "handle", "start_session",
                    "lock", "fetch_latest", "save_snapshot", "dispatch"}
     \/ pc[c] = "save_events" /\ batch[c] # <<>>
  /\ Drop(c)
  /\ txn' = [txn EXCEPT ![Conn(c)] =
               IF pc[c] = "start_session" /\ @ = "none" THEN "open" ELSE @]
  /\ found' = [found EXCEPT ![c] = IF pc[c] = "fetch_latest" THEN 0 ELSE @]
  /\ \/ UNCHANGED <<snapshots, drafts>>
     \/ pc[c] = "save_snapshot" /\ UpsertSnapshot(c)
  /\ UNCHANGED <<use, journal, rows, sent>>

(* A COMMIT is on its way too: it takes effect, unless the connection of   *)
(* the session is lost.                                                    *)
CancelClose(c) ==
  /\ pc[c] = "close" /\ reply[c] = "none"
  /\ reply' = [reply EXCEPT ![c] = "cancelled"]
  /\ UNCHANGED <<pc, kind, target, agg, ver, batch, store, transactions>>

LateClose(c) ==
  /\ pc[c] = "close" /\ reply[c] = "cancelled"
  /\ Goto(c, "done")
  /\ \/ EndTransaction(c)
     \/ ~ Shared /\ Rollback(c)
  /\ UNCHANGED <<kind, target, agg, ver, batch, reply>>

(* Mutant: the transaction stays open. *)
RecycleAsItIs(c) ==
  /\ ~ Shared
  /\ pc[c] = "done" /\ txn[c] # "none"
  /\ UNCHANGED vars

(* The pool rolls back the connection a dropped session gave back. *)
Recycle(c) ==
  /\ ~ Shared
  /\ pc[c] = "done" /\ txn[c] # "none"
  /\ Rollback(c)
  /\ UNCHANGED callVars

Step(c) ==
  \/ FetchSnapshot(c)
  \/ FetchEventsFromVersion(c)
  \/ RunHandler(c)
  \/ StartSession(c)
  \/ FindLatestRow(c)
  \/ FetchLatestEvent(c)
  \/ SaveEvent(c)
  \/ SaveSnapshot(c)
  \/ CloseSession(c)
  \/ AbortSession(c)
  \/ Dispatch(c)
  \/ LateClose(c)
  \/ Recycle(c)

Fault(c) ==
  \/ LoadFails(c)
  \/ StartSessionFails(c)
  \/ SessionFails(c)
  \/ CloseFails(c)
  \/ Cancel(c)
  \/ CancelClose(c)

Idle ==
  /\ \A c \in Calls : pc[c] = "done"
  /\ Shared \/ \A k \in Connections : txn[k] = "none"
  /\ UNCHANGED vars

Next == (\E c \in Calls : Step(c) \/ Fault(c)) \/ Idle

Spec == Init /\ [][Next]_vars

(* Statements that need not wait return, the executor polls, and the pool  *)
(* rolls back what dropped sessions left.                                  *)
FairSpec == Spec /\ \A c \in Calls : WF_vars(Step(c))

-----------------------------------------------------------------------------
(* A commit is whole, whatever failed or was dropped on the way: all the   *)
(* events of a command are in the journal or none is, and no aggregate has *)
(* events but no snapshot, which nobody could load.                        *)
CommitIsWhole ==
  use = "pool" =>
    /\ \A c \in Calls : NoEventsOf(c) \/ BatchInJournal(c)
    /\ \A id \in Ids : snapshots[id] = NoSnapshot => journal[id] = <<>>

(* With a connection per session, or calls that take turns, the store and  *)
(* the answers are consistent.  Calls that contend for one connection end  *)
(* each other's transactions, and an "ok" may have lost its events; still  *)
(* the constraint keeps every version single, and a call that was refused  *)
(* has left nothing.                                                       *)
ConsistentAsUsed ==
  /\ TypeOK
  /\ use # "contended" => StoreConsistent
  /\ \A id \in Ids : \A i, k \in DOMAIN journal[id] :
       /\ journal[id][i].version = journal[id][k].version => i = k
       /\ ~ Refused(journal[id][i].event[1])

(* Row locks, unique keys and the rows of the snapshots are waited for in  *)
(* an order without cycles, and every way out of a session ends its        *)
(* transaction: every call is answered.                                    *)
EveryCallAnswered == \A c \in Calls : <>(pc[c] = "done")

(* What the store and the calls are to EventLog: a call's events are in    *)
(* the stream from its COMMIT on.  Of a SharedClient nothing is said here. *)
CommittedStream ==
  [id \in Ids |-> IF Shared THEN <<>> ELSE EventsOf(journal[id])]

CommitStatus ==
  [c \in Calls |->
    CASE Shared -> "pending"
      [] pc[c] \in {"fetch_snapshot", "fetch_tail"} -> "pending"
      [] pc[c] = "dispatch" -> "appended"
      [] pc[c] \in {"save_snapshot", "close", "abort"} /\ batch[c] = <<>>
           -> "appended"
      [] Answered(c, "ok") -> "acked"
      [] pc[c] = "done" /\ reply[c] # "ok" -> "failed"
      [] OTHER -> "observed"]

CommitSeen ==
  [c \in Calls |->
    IF /\ ~ Shared /\ pc[c] # "fetch_tail"
       /\ Loaded(c) \/ pc[c] = "abort" \/ Answered(c, "ok")
      THEN SubSeq(agg[c], 1, ver[c])
      ELSE <<>>]

(* With a connection per session the engine keeps the promise of EventLog; *)
(* the append is the COMMIT.                                               *)
CommitLog == INSTANCE EventLog WITH
  stream <- CommittedStream, status <- CommitStatus, seen <- CommitSeen

CommitImplementsEventLog == CommitLog!Spec
=============================================================================
