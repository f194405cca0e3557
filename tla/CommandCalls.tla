---------------------------- MODULE CommandCalls ----------------------------
(***************************************************************************)
(* The part of a command that does not depend on the storage: the engine   *)
(* (engine.rs), load_aggregate and initialize_aggregate (event_store.rs)   *)
(* and commit (es/impl.rs).  Each operator takes what a storage operation  *)
(* returned and says how the call goes on; the module of a storage         *)
(* conjoins them with the effect of that operation.                        *)
(*                                                                         *)
(* A call is one execute_create or execute_update, from its arrival to its *)
(* answer.                                                                 *)
(***************************************************************************)
EXTENDS EventData

CONSTANTS
  Ids,         \* the aggregate ids
  NoSnapshot   \* what fetch_snapshot returns for an unknown aggregate

ASSUME NoSnapshotAssumption == NoSnapshot \notin Snapshot

VARIABLES
  pc,          \* the operation a call is at
  kind,        \* "create" or "update"
  target,      \* the aggregate id: given, or made by the id generator
  agg,         \* the aggregate value the call holds
  ver,         \* the version it expects at commit
  batch,       \* the events its handler returned
  reply        \* its answer

callVars == <<pc, kind, target, agg, ver, batch, reply>>

Label ==
  {"fetch_snapshot", "fetch_tail", "handle", "start_session",
   "lock", "fetch_latest", "save_events", "save_snapshot", "close",
   "abort", "dispatch", "done"}

Reply ==
  {"none", "ok", "already_exists", "not_found", "user_error",
   "concurrency_error", "database_error", "cancelled"}

CallInit ==
  /\ pc = [c \in Calls |-> "fetch_snapshot"]
  /\ kind \in [Calls -> {"create", "update"}]
  /\ target \in [Calls -> Ids]
  /\ agg = [c \in Calls |-> <<>>]
  /\ ver = [c \in Calls |-> 0]
  /\ batch = [c \in Calls |-> <<>>]
  /\ reply = [c \in Calls |-> "none"]

CallTypeOK ==
  /\ pc \in [Calls -> Label]
  /\ kind \in [Calls -> {"create", "update"}]
  /\ target \in [Calls -> Ids]
  /\ agg \in [Calls -> State]
  /\ ver \in [Calls -> Nat]
  /\ batch \in [Calls -> State]
  /\ reply \in [Calls -> Reply]

-----------------------------------------------------------------------------
(* The envelopes of a commit are numbered from the version it expects. *)
Envelopes(c) == Enveloped(batch[c], ver[c])

(* Mutant: a call that is behind passes. *)
NoVersionCheck(expected, latest) == expected <= latest

VersionMatches(expected, latest) == expected = latest

-----------------------------------------------------------------------------
(* The steps of a call. *)

Goto(c, label) == pc' = [pc EXCEPT ![c] = label]

Answer(c, r) ==
  /\ pc' = [pc EXCEPT ![c] = "done"]
  /\ reply' = [reply EXCEPT ![c] = r]

(* The future of the call is dropped: its caller went away. *)
Drop(c) ==
  /\ Answer(c, "cancelled")
  /\ UNCHANGED <<kind, target, agg, ver, batch>>

(* initialize_aggregate: a create needs an aggregate without a snapshot. *)
InitializeAggregate(c, snapshot) ==
  /\ pc[c] = "fetch_snapshot"
  /\ kind[c] = "create"
  /\ IF snapshot = NoSnapshot
       THEN /\ agg' = [agg EXCEPT ![c] = <<>>]
            /\ ver' = [ver EXCEPT ![c] = 0]
            /\ Goto(c, "handle")
            /\ UNCHANGED reply
       ELSE /\ Answer(c, "already_exists")
            /\ UNCHANGED <<agg, ver>>
  /\ UNCHANGED <<kind, target, batch>>

(* load_aggregate, first half: an update starts from the snapshot. *)
LoadSnapshot(c, snapshot) ==
  /\ pc[c] = "fetch_snapshot"
  /\ kind[c] = "update"
  /\ IF snapshot = NoSnapshot
       THEN /\ Answer(c, "not_found")
            /\ UNCHANGED <<agg, ver>>
       ELSE /\ agg' = [agg EXCEPT ![c] = snapshot.state]
            /\ ver' = [ver EXCEPT ![c] = snapshot.version]
            /\ Goto(c, "fetch_tail")
            /\ UNCHANGED reply
  /\ UNCHANGED <<kind, target, batch>>

(* Mutants: the events read are counted, not applied; the version stays    *)
(* that of the snapshot.                                                   *)
LoadTailUnapplied(c, tail) ==
  /\ pc[c] = "fetch_tail"
  /\ ver' = [ver EXCEPT ![c] =
                IF tail = <<>> THEN @ ELSE tail[Len(tail)].version]
  /\ Goto(c, "handle")
  /\ UNCHANGED <<kind, target, agg, batch, reply>>

LoadTailOldVersion(c, tail) ==
  /\ pc[c] = "fetch_tail"
  /\ agg' = [agg EXCEPT ![c] = @ \o EventsOf(tail)]
  /\ Goto(c, "handle")
  /\ UNCHANGED <<kind, target, ver, batch, reply>>

(* load_aggregate, second half: the later events are applied in the order  *)
(* they are read; the version is that of the last one read.                *)
LoadTail(c, tail) ==
  /\ pc[c] = "fetch_tail"
  /\ agg' = [agg EXCEPT ![c] = @ \o EventsOf(tail)]
  /\ ver' = [ver EXCEPT ![c] =
                IF tail = <<>> THEN @ ELSE tail[Len(tail)].version]
  /\ Goto(c, "handle")
  /\ UNCHANGED <<kind, target, batch, reply>>

(* handle_create or handle_update returns events; all of them are applied. *)
Handle(c) ==
  /\ pc[c] = "handle"
  /\ \E n \in 0..MaxEvents :
       /\ batch' = [batch EXCEPT ![c] = NewEvents(c, n)]
       /\ agg' = [agg EXCEPT ![c] = @ \o NewEvents(c, n)]
  /\ Goto(c, "start_session")
  /\ UNCHANGED <<kind, target, ver, reply>>

(* The handler refuses the command, or an event does not apply. *)
Refuse(c) ==
  /\ pc[c] = "handle"
  /\ Answer(c, "user_error")
  /\ UNCHANGED <<kind, target, agg, ver, batch>>

(* commit: the version check, against the latest event of the journal. *)
CheckVersion(c, latest) ==
  /\ pc[c] = "fetch_latest"
  /\ IF VersionMatches(ver[c], latest)
       THEN /\ Goto(c, "save_events")
            /\ UNCHANGED reply
       ELSE /\ Goto(c, "abort")
            /\ reply' = [reply EXCEPT ![c] = "concurrency_error"]
  /\ UNCHANGED <<kind, target, agg, ver, batch>>

(* Mutant: the new events are not counted. *)
SnapshotAtOldVersion(c) == [state |-> agg[c], version |-> ver[c]]

(* The snapshot commit saves: the version counts the events just saved. *)
NewSnapshot(c) == [state |-> agg[c], version |-> ver[c] + Len(batch[c])]

(* Mutant: nothing is ever dispatched. *)
CommittedUndispatched(c) ==
  /\ pc[c] = "close"
  /\ Answer(c, "ok")
  /\ UNCHANGED <<kind, target, agg, ver, batch>>

(* commit returned the envelopes: without any there is nothing to dispatch. *)
Committed(c) ==
  /\ pc[c] = "close"
  /\ IF batch[c] = <<>>
       THEN Answer(c, "ok")
       ELSE Goto(c, "dispatch") /\ UNCHANGED reply
  /\ UNCHANGED <<kind, target, agg, ver, batch>>

(* The session of a failed commit is aborted, and the error returned. *)
Aborted(c) ==
  /\ pc[c] = "abort"
  /\ Goto(c, "done")
  /\ UNCHANGED <<kind, target, agg, ver, batch, reply>>

(* handle_events: whatever the dispatchers return, the call succeeds. *)
Dispatched(c) ==
  /\ pc[c] = "dispatch"
  /\ Answer(c, "ok")
  /\ UNCHANGED <<kind, target, agg, ver, batch>>

(* The call has loaded its aggregate and not been answered. *)
Loaded(c) ==
  pc[c] \in {"fetch_tail", "handle", "start_session", "lock",
             "fetch_latest", "save_events", "save_snapshot", "close",
             "dispatch"}

Answered(c, r) == pc[c] = "done" /\ reply[c] = r
=============================================================================
