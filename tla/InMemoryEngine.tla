--------------------------- MODULE InMemoryEngine ---------------------------
(***************************************************************************)
(* The command engine over InMemoryPersist (es/inmemory.rs), with an       *)
(* InMemoryDispatcher (dispatchers/memory.rs).                             *)
(*                                                                         *)
(* The journal and the snapshots are two maps, each behind a mutex of its  *)
(* own.  A session owns both guards, the journal's taken first; a read     *)
(* outside a session takes one of them for a moment.  There is no rollback *)
(* (abort_session is the trait's default): what a call wrote stays.        *)
(***************************************************************************)
EXTENDS EventStore

CONSTANT Free   \* no call owns the guard

ASSUME FreeAssumption == Free \notin Calls

VARIABLES
  journalLock,   \* the call that owns the journal's guard
  snapshotLock,  \* the call that owns the snapshots' guard
  delivered      \* aggregate id -> the envelopes the dispatcher was given

locks == <<journalLock, snapshotLock>>
vars == <<callVars, store, locks, delivered>>

Init ==
  /\ CallInit
  /\ StoreInit
  /\ journalLock = Free
  /\ snapshotLock = Free
  /\ delivered = [id \in Ids |-> <<>>]

TypeOK ==
  /\ CallTypeOK
  /\ StoreTypeOK
  /\ journalLock \in Calls \cup {Free}
  /\ snapshotLock \in Calls \cup {Free}
  /\ delivered \in [Ids -> Seq(Envelope)]

-----------------------------------------------------------------------------
FetchSnapshot(c) ==
  /\ snapshotLock = Free
  /\ \/ InitializeAggregate(c, snapshots[target[c]])
     \/ LoadSnapshot(c, snapshots[target[c]])
  /\ UNCHANGED <<store, locks, delivered>>

FetchEventsFromVersion(c) ==
  /\ journalLock = Free
  /\ LoadTail(c, EventsFromVersion(journal[target[c]], ver[c]))
  /\ UNCHANGED <<store, locks, delivered>>

RunHandler(c) ==
  /\ Handle(c) \/ Refuse(c)
  /\ UNCHANGED <<store, locks, delivered>>

(* start_session waits for the journal, then for the snapshots. *)
StartSession(c) ==
  /\ pc[c] = "start_session"
  /\ journalLock = Free
  /\ journalLock' = c
  /\ Goto(c, "lock")
  /\ UNCHANGED <<kind, target, agg, ver, batch, reply>>
  /\ UNCHANGED <<store, snapshotLock, delivered>>

LockSnapshot(c) ==
  /\ pc[c] = "lock"
  /\ snapshotLock = Free
  /\ snapshotLock' = c
  /\ Goto(c, "fetch_latest")
  /\ UNCHANGED <<kind, target, agg, ver, batch, reply>>
  /\ UNCHANGED <<store, journalLock, delivered>>

FetchLatestEvent(c) ==
  /\ CheckVersion(c, LatestVersion(journal[target[c]]))
  /\ UNCHANGED <<store, locks, delivered>>

(* Mutant: the envelopes replace the journal. *)
SaveEventsReplacing(c) ==
  /\ pc[c] = "save_events"
  /\ journal' = [journal EXCEPT ![target[c]] = Envelopes(c)]
  /\ Goto(c, "save_snapshot")
  /\ UNCHANGED <<kind, target, agg, ver, batch, reply>>
  /\ UNCHANGED <<snapshots, locks, delivered>>

SaveEvents(c) ==
  /\ pc[c] = "save_events"
  /\ journal' = [journal EXCEPT ![target[c]] = @ \o Envelopes(c)]
  /\ Goto(c, "save_snapshot")
  /\ UNCHANGED <<kind, target, agg, ver, batch, reply>>
  /\ UNCHANGED <<snapshots, locks, delivered>>

SaveSnapshot(c) ==
  /\ pc[c] = "save_snapshot"
  /\ snapshots' = [snapshots EXCEPT ![target[c]] = NewSnapshot(c)]
  /\ Goto(c, "close")
  /\ UNCHANGED <<kind, target, agg, ver, batch, reply>>
  /\ UNCHANGED <<journal, locks, delivered>>

(* Mutant: the guard of the snapshots is kept. *)
ReleaseJournalOnly(c) ==
  /\ journalLock' = IF journalLock = c THEN Free ELSE journalLock
  /\ UNCHANGED snapshotLock

(* The end of a session drops the guards it owns. *)
ReleaseLocks(c) ==
  /\ journalLock' = IF journalLock = c THEN Free ELSE journalLock
  /\ snapshotLock' = IF snapshotLock = c THEN Free ELSE snapshotLock

CloseSession(c) ==
  /\ Committed(c)
  /\ ReleaseLocks(c)
  /\ UNCHANGED <<store, delivered>>

AbortSession(c) ==
  /\ Aborted(c)
  /\ ReleaseLocks(c)
  /\ UNCHANGED <<store, delivered>>

(* The dispatcher pushes the envelopes of the commit, all of them at once. *)
Dispatch(c) ==
  /\ Dispatched(c)
  /\ delivered' = [delivered EXCEPT ![target[c]] = @ \o Envelopes(c)]
  /\ UNCHANGED <<store, locks>>

(* A call can be dropped wherever its future may be waiting. *)
Cancel(c) ==
  /\ pc[c] \in {"fetch_snapshot", "fetch_tail", "handle", "start_session",
                "lock", "dispatch"}
  /\ Drop(c)
  /\ ReleaseLocks(c)
  /\ UNCHANGED <<store, delivered>>

Step(c) ==
  \/ FetchSnapshot(c)
  \/ FetchEventsFromVersion(c)
  \/ RunHandler(c)
  \/ StartSession(c)
  \/ LockSnapshot(c)
  \/ FetchLatestEvent(c)
  \/ SaveEvents(c)
  \/ SaveSnapshot(c)
  \/ CloseSession(c)
  \/ AbortSession(c)
  \/ Dispatch(c)

(* All calls are answered: the program waits for the next one. *)
Idle == (\A c \in Calls : pc[c] = "done") /\ UNCHANGED vars

Next == (\E c \in Calls : Step(c) \/ Cancel(c)) \/ Idle

Spec == Init /\ [][Next]_vars

(* The executor polls every future that can go on, handlers return, and    *)
(* the mutexes wake their waiters; nothing makes a caller go away.         *)
FairSpec == Spec /\ \A c \in Calls : WF_vars(Step(c))

-----------------------------------------------------------------------------
(* Whoever can take the snapshots' guard finds them abreast of the journal *)
(* and an aggregate without a snapshot is one without events, so a create  *)
(* that saw none really starts the stream.                                 *)
SnapshotsAreCurrent ==
  snapshotLock = Free =>
    \A id \in Ids :
      IF snapshots[id] = NoSnapshot
        THEN journal[id] = <<>>
        ELSE snapshots[id].version = Len(journal[id])

(* The dispatcher is given committed envelopes only, none of them twice,   *)
(* and all of them once every call is answered and none was dropped.       *)
DeliveredOnce ==
  \A id \in Ids :
    /\ \A k \in DOMAIN delivered[id] :
         delivered[id][k] \in {journal[id][i] : i \in DOMAIN journal[id]}
    /\ \A k, m \in DOMAIN delivered[id] :
         delivered[id][k] = delivered[id][m] => k = m
    /\ (\A c \in Calls : pc[c] = "done" /\ reply[c] # "cancelled") =>
         Len(delivered[id]) = Len(journal[id])

(* Every call is answered: the two mutexes are taken in one order and      *)
(* dropped on every way out of a session.                                  *)
EveryCallAnswered == \A c \in Calls : <>(pc[c] = "done")

-----------------------------------------------------------------------------
(* The inductive invariant behind the safety properties.                   *)

InSession(c) ==
  pc[c] \in {"fetch_latest", "save_events", "save_snapshot", "close", "abort"}

(* A guard is owned exactly from where it is taken to the session's end. *)
LockInv(c) ==
  /\ journalLock = c <=> InSession(c) \/ pc[c] = "lock"
  /\ snapshotLock = c <=> InSession(c)

Written(c) ==
  pc[c] \in {"save_snapshot", "close", "dispatch"} \/ Answered(c, "ok")

Unwritten(c) ==
  \/ pc[c] \in {"fetch_snapshot", "fetch_tail", "handle", "start_session",
                "lock", "fetch_latest", "save_events", "abort"}
  \/ Refused(c)

CallInv(c) ==
  /\ pc[c] \in {"fetch_snapshot", "fetch_tail", "handle"} => batch[c] = <<>>
  /\ \A i \in DOMAIN batch[c] : batch[c][i][1] = c
  /\ pc[c] = "abort" => reply[c] = "concurrency_error"
  /\ Loaded(c) =>
       /\ ver[c] <= Len(journal[target[c]])
       /\ agg[c] = Replay(journal[target[c]], ver[c]) \o batch[c]
  /\ pc[c] = "save_events" => ver[c] = Len(journal[target[c]])
  /\ pc[c] = "save_snapshot" =>
       ver[c] + Len(batch[c]) = Len(journal[target[c]])
  /\ Written(c) => BatchInJournal(c)
  /\ Unwritten(c) => NoEventsOf(c)

(* A snapshot lags only while a session is between its two writes. *)
SnapshotInv(id) ==
  \/ \E c \in Calls : pc[c] = "save_snapshot" /\ target[c] = id
  \/ IF snapshots[id] = NoSnapshot
       THEN journal[id] = <<>>
       ELSE snapshots[id].version = Len(journal[id])

IInv ==
  /\ TypeOK
  /\ \A c \in Calls : LockInv(c) /\ CallInv(c)
  /\ VersionsContiguous
  /\ SnapshotIsReplay
  /\ \A id \in Ids : SnapshotInv(id)
=============================================================================
