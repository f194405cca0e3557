----------------------------- MODULE EventStore -----------------------------
(***************************************************************************)
(* The two tables every persistence of the event store keeps               *)
(* (es/storage.rs): the journal of each aggregate and its latest snapshot, *)
(* and what must hold of them and of the calls, whatever the persistence.  *)
(***************************************************************************)
EXTENDS CommandCalls

VARIABLES
  journal,     \* aggregate id -> its envelopes, in the order they were saved
  snapshots    \* aggregate id -> its latest snapshot

store == <<journal, snapshots>>

StoreInit ==
  /\ journal = [id \in Ids |-> <<>>]
  /\ snapshots = [id \in Ids |-> NoSnapshot]

StoreTypeOK ==
  /\ journal \in [Ids -> Seq(Envelope)]
  /\ snapshots \in [Ids -> Snapshot \cup {NoSnapshot}]

-----------------------------------------------------------------------------
(* The journal of an aggregate carries the versions 1, 2, 3, ... in order: *)
(* two calls that loaded the same version cannot both append (the version  *)
(* check of execute_within_session, and what the storage adds to it).      *)
VersionsContiguous ==
  \A id \in Ids : Contiguous(journal[id])

(* A snapshot is the replay of the first version entries of the journal:   *)
(* what save_snapshot stores is what load_aggregate would rebuild.         *)
SnapshotIsReplay ==
  \A id \in Ids : snapshots[id] # NoSnapshot =>
    /\ snapshots[id].version <= Len(journal[id])
    /\ snapshots[id].state = Replay(journal[id], snapshots[id].version)

(* The two reads of load_aggregate are not one: commits may fall between   *)
(* them.  Still the state a call holds is always the replay of exactly the *)
(* version it holds, which commit will check, and of its own new events.   *)
LoadedIsReplay ==
  \A c \in Calls : Loaded(c) =>
    /\ ver[c] <= Len(journal[target[c]])
    /\ agg[c] = Replay(journal[target[c]], ver[c]) \o batch[c]

(* The events of the call are in the journal, at the versions it gave them. *)
BatchInJournal(c) ==
  \A i \in DOMAIN batch[c] :
    /\ ver[c] + i <= Len(journal[target[c]])
    /\ journal[target[c]][ver[c] + i].event = batch[c][i]

NoEventsOf(c) ==
  \A id \in Ids : \A i \in DOMAIN journal[id] : journal[id][i].event[1] # c

(* The answers that say nothing was written; an error of the storage does  *)
(* not, and whoever dropped the call knows nothing.                        *)
Refused(c) ==
  pc[c] = "done" /\ reply[c] \notin {"ok", "cancelled", "database_error"}

(* A call told "ok" finds its events in the journal, at the versions it    *)
(* was given, for ever (no later commit replaces them); a call that was    *)
(* refused has none there.                                                 *)
AnswersAreTrue ==
  \A c \in Calls :
    /\ Answered(c, "ok") => BatchInJournal(c)
    /\ Refused(c) => NoEventsOf(c)

(* The store and the answers agree with each other, all of it at once. *)
StoreConsistent ==
  /\ CallTypeOK
  /\ StoreTypeOK
  /\ VersionsContiguous
  /\ SnapshotIsReplay
  /\ AnswersAreTrue

JournalGrows ==
  \A id \in Ids : \A i \in DOMAIN journal[id] :
    i \in DOMAIN journal'[id] /\ journal'[id][i] = journal[id][i]

SnapshotsAdvance ==
  \A id \in Ids : snapshots[id] # NoSnapshot =>
    /\ snapshots'[id] # NoSnapshot
    /\ snapshots'[id].version >= snapshots[id].version

StoreGrows == JournalGrows /\ SnapshotsAdvance

(* A journal only grows at its end, and a snapshot, once there, never goes *)
(* back to an earlier version.                                             *)
StoreOnlyGrows == [][StoreGrows]_store

(* What the store and the calls are to EventLog: the streams are the       *)
(* journals, a call has observed what it loaded once it handles it.        *)
Stream == [id \in Ids |-> EventsOf(journal[id])]

Status ==
  [c \in Calls |->
    CASE pc[c] \in {"fetch_snapshot", "fetch_tail"} -> "pending"
      [] pc[c] \in {"save_snapshot", "close", "dispatch"} -> "appended"
      [] Answered(c, "ok") -> "acked"
      [] pc[c] = "done" /\ reply[c] # "ok" -> "failed"
      [] OTHER -> "observed"]

Seen ==
  [c \in Calls |->
    IF pc[c] # "fetch_tail" /\ (Loaded(c) \/ pc[c] = "abort" \/ Answered(c, "ok"))
      THEN SubSeq(agg[c], 1, ver[c])
      ELSE <<>>]

(* The engine keeps the promise of EventLog: whatever its reads, locks,    *)
(* sessions and snapshots, a commit is one compare-and-append.             *)
Log == INSTANCE EventLog WITH stream <- Stream, status <- Status, seen <- Seen

ImplementsEventLog == Log!Spec
=============================================================================
