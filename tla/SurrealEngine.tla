--------------------------- MODULE SurrealEngine ----------------------------
(***************************************************************************)
(* The command engine over SurrealDBPersist (es/surrealdb.rs).             *)
(*                                                                         *)
(* A session is nothing: every query is a transaction of its own, and what *)
(* two calls do meanwhile interleaves.  A unique index over the aggregate  *)
(* id and the version is the only guard.  Any query can fail, a write can  *)
(* fail after it took effect (its answer is lost), and a call can be       *)
(* dropped at any query, which the database may run all the same, later.   *)
(* A crash of the process is the drop of every call: what it had written   *)
(* is in the database.                                                     *)
(***************************************************************************)
EXTENDS EventStore

vars == <<callVars, store>>

Init == CallInit /\ StoreInit

-----------------------------------------------------------------------------
FetchSnapshot(c) ==
  /\ \/ InitializeAggregate(c, snapshots[target[c]])
     \/ LoadSnapshot(c, snapshots[target[c]])
  /\ UNCHANGED store

FetchEventsFromVersion(c) ==
  /\ LoadTail(c, EventsFromVersion(ByVersion(journal[target[c]]), ver[c]))
  /\ UNCHANGED store

RunHandler(c) ==
  /\ Handle(c) \/ Refuse(c)
  /\ UNCHANGED store

StartSession(c) ==
  /\ pc[c] = "start_session"
  /\ Goto(c, "fetch_latest")
  /\ UNCHANGED <<kind, target, agg, ver, batch, reply>>
  /\ UNCHANGED store

FetchLatestEvent(c) ==
  /\ CheckVersion(c, LatestVersion(ByVersion(journal[target[c]])))
  /\ UNCHANGED store

(* Mutant: there is no unique index. *)
NoIndex(entries, new) == FALSE

(* The unique index holds an entry with the version of a new one. *)
Collides(entries, new) ==
  \E i \in DOMAIN entries, k \in DOMAIN new :
    entries[i].version = new[k].version

(* The call was dropped while its write was under way. *)
InFlight(c) ==
  pc[c] \in {"save_events", "save_snapshot"} /\ reply[c] = "cancelled"

(* Mutant: an upsert, which overwrites the entries it collides with. *)
SaveEventsUpserting(c) ==
  /\ pc[c] = "save_events"
  /\ ~ InFlight(c)
  /\ journal' = [journal EXCEPT ![target[c]] =
                   SubSeq(@, 1, ver[c]) \o Envelopes(c)]
  /\ Goto(c, "save_snapshot")
  /\ UNCHANGED <<kind, target, agg, ver, batch, reply, snapshots>>

(* All the envelopes are inserted, or none is and the index says why.  An  *)
(* empty batch makes no query at all.                                      *)
SaveEvents(c) ==
  /\ pc[c] = "save_events"
  /\ ~ InFlight(c)
  /\ IF Collides(journal[target[c]], Envelopes(c))
       THEN /\ Answer(c, "concurrency_error")
            /\ UNCHANGED journal
       ELSE /\ journal' = [journal EXCEPT ![target[c]] = @ \o Envelopes(c)]
            /\ \/ Goto(c, "save_snapshot") /\ UNCHANGED reply
               \/ batch[c] # <<>> /\ Answer(c, "database_error")
  /\ UNCHANGED <<kind, target, agg, ver, batch, snapshots>>

(* Mutant: an update of the row, which a create has none of. *)
SaveSnapshotUpdating(c) ==
  /\ pc[c] = "save_snapshot"
  /\ ~ InFlight(c)
  /\ snapshots' = [snapshots EXCEPT ![target[c]] =
                     IF @ = NoSnapshot THEN @ ELSE NewSnapshot(c)]
  /\ Goto(c, "close")
  /\ UNCHANGED <<kind, target, agg, ver, batch, journal, reply>>

(* The upsert asks for no version: the last writer's snapshot stays. *)
SaveSnapshot(c) ==
  /\ pc[c] = "save_snapshot"
  /\ ~ InFlight(c)
  /\ snapshots' = [snapshots EXCEPT ![target[c]] = NewSnapshot(c)]
  /\ \/ Goto(c, "close") /\ UNCHANGED reply
     \/ Answer(c, "database_error")
  /\ UNCHANGED <<kind, target, agg, ver, batch, journal>>

CloseSession(c) == Committed(c) /\ UNCHANGED store

AbortSession(c) == Aborted(c) /\ UNCHANGED store

Dispatch(c) == Dispatched(c) /\ UNCHANGED store

(* A query fails before it did anything: the call is answered the error    *)
(* (abort_session, the trait's default, does nothing).                     *)
QueryFails(c) ==
  /\ ~ InFlight(c)
  /\ \/ pc[c] \in {"fetch_snapshot", "fetch_tail", "fetch_latest",
                    "save_snapshot"}
     \/ pc[c] = "save_events" /\ batch[c] # <<>>
  /\ Answer(c, "database_error")
  /\ UNCHANGED <<kind, target, agg, ver, batch, store>>

Cancel(c) ==
  /\ pc[c] \in {"fetch_snapshot", "fetch_tail", "handle", "fetch_latest",
                "dispatch"}
  /\ Drop(c)
  /\ UNCHANGED store

(* A drop while a write is under way does not take the write back. *)
CancelWrite(c) ==
  /\ \/ pc[c] = "save_events" /\ batch[c] # <<>>
     \/ pc[c] = "save_snapshot"
  /\ ~ InFlight(c)
  /\ reply' = [reply EXCEPT ![c] = "cancelled"]
  /\ UNCHANGED <<pc, kind, target, agg, ver, batch, store>>

(* It takes effect after all, whatever happened since, or it never does. *)
LateWrite(c) ==
  /\ InFlight(c)
  /\ Goto(c, "done")
  /\ \/ UNCHANGED store
     \/ /\ pc[c] = "save_events"
        /\ ~ Collides(journal[target[c]], Envelopes(c))
        /\ journal' = [journal EXCEPT ![target[c]] = @ \o Envelopes(c)]
        /\ UNCHANGED snapshots
     \/ /\ pc[c] = "save_snapshot"
        /\ snapshots' = [snapshots EXCEPT ![target[c]] = NewSnapshot(c)]
        /\ UNCHANGED journal
  /\ UNCHANGED <<kind, target, agg, ver, batch, reply>>

Step(c) ==
  \/ FetchSnapshot(c)
  \/ FetchEventsFromVersion(c)
  \/ RunHandler(c)
  \/ StartSession(c)
  \/ FetchLatestEvent(c)
  \/ SaveEvents(c)
  \/ SaveSnapshot(c)
  \/ CloseSession(c)
  \/ AbortSession(c)
  \/ Dispatch(c)

(* All calls are answered: the program waits for the next one. *)
Idle == (\A c \in Calls : pc[c] = "done") /\ UNCHANGED vars

Next ==
  \/ \E c \in Calls :
       \/ Step(c)
       \/ QueryFails(c)
       \/ Cancel(c)
       \/ CancelWrite(c)
       \/ LateWrite(c)
  \/ Idle

Spec == Init /\ [][Next]_vars

-----------------------------------------------------------------------------
(* A call that wrote its events and failed before its snapshot was saved. *)
StoppedBeforeSnapshot(c) ==
  /\ pc[c] = "done"
  /\ reply[c] \in {"database_error", "cancelled"}
  /\ ~ NoEventsOf(c)

(* An aggregate with events but no snapshot is found by no update and can  *)
(* be created by no create (its versions collide).  Only a create that was *)
(* stopped between the two writes leaves one behind, never a race between  *)
(* calls that all succeed or are all refused.                              *)
UnreadableOnlyAfterFailure ==
  \A id \in Ids :
    journal[id] # <<>> /\ snapshots[id] = NoSnapshot =>
      \E c \in Calls :
        /\ target[c] = id /\ kind[c] = "create"
        /\ pc[c] = "save_snapshot" \/ StoppedBeforeSnapshot(c)

(* Once the first events of an aggregate are there, no create of it is     *)
(* told "ok" unless they are its own: the index arbitrates creates that    *)
(* all saw no snapshot.                                                    *)
OneCreator ==
  \A c, d \in Calls :
    /\ c # d /\ kind[c] = "create" /\ kind[d] = "create"
    /\ target[c] = target[d]
    /\ Answered(c, "ok") /\ Answered(d, "ok")
    => batch[c] = <<>> \/ batch[d] = <<>>

(* The rows of the journal are never changed nor deleted, though nothing   *)
(* holds back a slow call; the snapshots, which a slow call can set back,  *)
(* are no part of this promise.                                            *)
JournalOnlyGrows == [][JournalGrows]_journal
=============================================================================
