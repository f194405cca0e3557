---------------------------- MODULE MongoEngine -----------------------------
(***************************************************************************)
(* The command engine over MongoDBPersist (es/mongodb.rs).                 *)
(*                                                                         *)
(* start_session begins a transaction that no operation joins: reads and   *)
(* writes take effect by themselves, at once, and closing or aborting the  *)
(* session changes nothing.  No index makes a version unique, so the       *)
(* version check is the only guard, and it is not part of the write.  A    *)
(* batch is inserted event by event and may stop in its middle; what a     *)
(* dropped or failed call had begun may still happen later.                *)
(***************************************************************************)
EXTENDS EventStore, Functions, TLC

VARIABLE
  disturbed    \* the aggregates whose commands got in each other's way

vars == <<callVars, store, disturbed>>

Init ==
  /\ CallInit
  /\ StoreInit
  /\ disturbed = {}

-----------------------------------------------------------------------------
(* The call was dropped while its write was under way. *)
InFlight(c) ==
  pc[c] \in {"save_events", "save_snapshot"} /\ reply[c] = "cancelled"

(* Between the version check of the call and the end of its last write. *)
Writing(c) == pc[c] \in {"save_events", "save_snapshot"}

Disturb(c) == disturbed' = disturbed \cup {target[c]}

(* A read of an aggregate, in the middle of another call's commit or not. *)
ReadNotes(c) ==
  IF \E d \in Calls \ {c} : Writing(d) /\ target[d] = target[c]
    THEN Disturb(c)
    ELSE UNCHANGED disturbed

(* The permutations of a set: TLC can list them, and this is what they are. *)
Arrangements(S) == {p \in Permutations(S) : p \in [S -> S] /\ Range(p) = S}

(* What a find without a sort may return: the entries in any order. *)
AnyOrder(entries) ==
  {[i \in DOMAIN entries |-> entries[p[i]]] :
     p \in Arrangements(DOMAIN entries)}

(* The first k envelopes of the call reach the journal. *)
Insert(c, k) ==
  journal' = [journal EXCEPT ![target[c]] = @ \o SubSeq(Envelopes(c), 1, k)]

-----------------------------------------------------------------------------
FetchSnapshot(c) ==
  /\ \/ InitializeAggregate(c, snapshots[target[c]])
     \/ LoadSnapshot(c, snapshots[target[c]])
  /\ ReadNotes(c)
  /\ UNCHANGED store

(* A tail of several events has no order of its own. *)
FetchEventsFromVersion(c) ==
  LET later == EventsFromVersion(journal[target[c]], ver[c])
  IN  /\ \E tail \in AnyOrder(later) : LoadTail(c, tail)
      /\ IF Len(later) > 1 THEN Disturb(c) ELSE ReadNotes(c)
      /\ UNCHANGED store

RunHandler(c) ==
  /\ Handle(c) \/ Refuse(c)
  /\ UNCHANGED <<store, disturbed>>

StartSession(c) ==
  /\ pc[c] = "start_session"
  /\ Goto(c, "fetch_latest")
  /\ UNCHANGED <<kind, target, agg, ver, batch, reply, store, disturbed>>

FetchLatestEvent(c) ==
  /\ CheckVersion(c, LatestVersion(ByVersion(journal[target[c]])))
  /\ ReadNotes(c)
  /\ UNCHANGED store

(* Mutant: an unordered insert, which goes on after an event that failed. *)
SaveEventsUnordered(c) ==
  /\ pc[c] = "save_events"
  /\ ~ InFlight(c)
  /\ \E kept \in SUBSET DOMAIN batch[c] :
       /\ journal' = [journal EXCEPT ![target[c]] =
            @ \o SelectSeq(Envelopes(c), LAMBDA e : e.version - ver[c] \in kept)]
       /\ \/ kept = DOMAIN batch[c] /\ Goto(c, "save_snapshot") /\ UNCHANGED <<reply, disturbed>>
          \/ Answer(c, "database_error") /\ Disturb(c)
  /\ UNCHANGED <<kind, target, agg, ver, batch, snapshots>>

(* Mutant: the result of the insert is dropped. *)
SaveEventsIgnoringErrors(c) ==
  /\ pc[c] = "save_events"
  /\ ~ InFlight(c)
  /\ \E k \in 0..Len(batch[c]) : Insert(c, k)
  /\ Goto(c, "save_snapshot")
  /\ UNCHANGED <<kind, target, agg, ver, batch, reply, snapshots, disturbed>>

(* An ordered insert: all of the batch, or an error after any part of it.  *)
(* The driver refuses an empty batch, so a command without events fails.   *)
SaveEvents(c) ==
  /\ pc[c] = "save_events"
  /\ ~ InFlight(c)
  /\ \/ /\ batch[c] # <<>>
        /\ Insert(c, Len(batch[c]))
        /\ Goto(c, "save_snapshot")
        /\ UNCHANGED <<reply, disturbed>>
     \/ /\ \E k \in 0..Len(batch[c]) : Insert(c, k)
        /\ Goto(c, "abort")
        /\ reply' = [reply EXCEPT ![c] = "database_error"]
        /\ IF batch[c] = <<>> THEN UNCHANGED disturbed ELSE Disturb(c)
  /\ UNCHANGED <<kind, target, agg, ver, batch, snapshots>>

(* The replacement asks for no version: the last writer's snapshot stays. *)
SaveSnapshot(c) ==
  /\ pc[c] = "save_snapshot"
  /\ ~ InFlight(c)
  /\ \/ /\ snapshots' = [snapshots EXCEPT ![target[c]] = NewSnapshot(c)]
        /\ Goto(c, "close")
        /\ UNCHANGED <<reply, disturbed>>
     \/ /\ \/ snapshots' = [snapshots EXCEPT ![target[c]] = NewSnapshot(c)]
           \/ UNCHANGED snapshots
        /\ Goto(c, "abort")
        /\ reply' = [reply EXCEPT ![c] = "database_error"]
        /\ Disturb(c)
  /\ UNCHANGED <<kind, target, agg, ver, batch, journal>>

CloseSession(c) == Committed(c) /\ UNCHANGED <<store, disturbed>>

(* Nothing is rolled back: what was inserted stays. *)
AbortSession(c) == Aborted(c) /\ UNCHANGED <<store, disturbed>>

Dispatch(c) == Dispatched(c) /\ UNCHANGED <<store, disturbed>>

(* A read, or the start of the session, fails. *)
QueryFails(c) ==
  /\ pc[c] \in {"fetch_snapshot", "fetch_tail", "start_session", "fetch_latest"}
  /\ IF pc[c] = "fetch_latest" THEN Goto(c, "abort") ELSE Goto(c, "done")
  /\ reply' = [reply EXCEPT ![c] = "database_error"]
  /\ UNCHANGED <<kind, target, agg, ver, batch, store, disturbed>>

Cancel(c) ==
  /\ pc[c] \in {"fetch_snapshot", "fetch_tail", "handle", "fetch_latest",
                "dispatch"}
  /\ Drop(c)
  /\ UNCHANGED <<store, disturbed>>

(* A drop while a write is under way does not take the write back. *)
CancelWrite(c) ==
  /\ Writing(c) /\ ~ InFlight(c)
  /\ reply' = [reply EXCEPT ![c] = "cancelled"]
  /\ Disturb(c)
  /\ UNCHANGED <<pc, kind, target, agg, ver, batch, store>>

(* Any part of it takes effect after all, whatever happened since. *)
LateWrite(c) ==
  /\ InFlight(c)
  /\ Goto(c, "done")
  /\ \/ /\ pc[c] = "save_events"
        /\ \E k \in 0..Len(batch[c]) : Insert(c, k)
        /\ UNCHANGED snapshots
     \/ /\ pc[c] = "save_snapshot"
        /\ \/ snapshots' = [snapshots EXCEPT ![target[c]] = NewSnapshot(c)]
           \/ UNCHANGED snapshots
        /\ UNCHANGED journal
  /\ UNCHANGED <<kind, target, agg, ver, batch, reply, disturbed>>

Step(c) ==
  \/ FetchSnapshot(c)
  \/ FetchEventsFromVersion(c)
  \/ RunHandler(c)
  \/ StartSession(c)
  \/ FetchLatestEvent(c)
  \/ SaveEvents(c)
  \/ SaveSnapshot(c)
  \/ CloseSession(c)
  \/ AbortSession(c)
  \/ Dispatch(c)

(* All calls are answered: the program waits for the next one. *)
Idle == (\A c \in Calls : pc[c] = "done") /\ UNCHANGED vars

Next ==
  \/ \E c \in Calls :
       \/ Step(c)
       \/ QueryFails(c)
       \/ Cancel(c)
       \/ CancelWrite(c)
       \/ LateWrite(c)
  \/ Idle

Spec == Init /\ [][Next]_vars

-----------------------------------------------------------------------------
TypeOK ==
  /\ CallTypeOK
  /\ StoreTypeOK
  /\ disturbed \subseteq Ids

Versions(id) == {journal[id][i].version : i \in DOMAIN journal[id]}

(* Calls that both pass the check write the same versions twice, and a     *)
(* batch may stop in its middle; but no version is ever skipped, so the    *)
(* latest event still tells how far the aggregate has come.                *)
NoVersionIsSkipped ==
  \A id \in Ids : \A v \in Versions(id) : 1..v \subseteq Versions(id)

(* A snapshot, whoever wrote it last and whatever it read unsorted, holds  *)
(* events of the journal only, none of them twice, and none that a load    *)
(* from its version would read again.                                      *)
SnapshotIsBacked ==
  \A id \in Ids : snapshots[id] # NoSnapshot =>
    LET held == snapshots[id].state IN
    /\ \A i \in DOMAIN held : \E k \in DOMAIN journal[id] :
         /\ journal[id][k].event = held[i]
         /\ journal[id][k].version <= snapshots[id].version
    /\ \A i, k \in DOMAIN held : held[i] = held[k] => i = k

(* What the transaction would have given is there as long as nothing reads *)
(* an aggregate while a commit of it is half done, no write of it fails,   *)
(* and no load has to order more than one event: the versions are 1, 2, 3, *)
(* and the snapshot is the replay of all of them.                          *)
UndisturbedIsExact ==
  \A id \in Ids \ disturbed :
    /\ Contiguous(journal[id])
    /\ (\A c \in Calls : ~ (Writing(c) /\ target[c] = id)) =>
         \/ snapshots[id] = NoSnapshot /\ journal[id] = <<>>
         \/ snapshots[id] = [state |-> EventsOf(journal[id]),
                             version |-> Len(journal[id])]

(* A call that was refused left nothing behind; one that was told "ok" has *)
(* each of its events in the journal, once, at the version it gave it.     *)
AnswersHold ==
  \A c \in Calls :
    /\ Refused(c) => NoEventsOf(c)
    /\ Answered(c, "ok") => \A i \in DOMAIN batch[c] :
         \E k \in DOMAIN journal[target[c]] :
           /\ journal[target[c]][k] =
                [version |-> ver[c] + i, event |-> batch[c][i]]
           /\ \A m \in DOMAIN journal[target[c]] \ {k} :
                journal[target[c]][m].event # batch[c][i]
=============================================================================
