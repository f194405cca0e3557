------------------------------ MODULE EventLog ------------------------------
(***************************************************************************)
(* What an event store promises to the calls that write through it: every  *)
(* aggregate is one append-only stream, a call decides on a prefix of that *)
(* stream, and its events go to the end of the stream in one step, and     *)
(* only if the prefix it decided on is still the whole stream.             *)
(*                                                                         *)
(* A call is one execute_create or execute_update of the engine.  Nothing  *)
(* is said here of locks, sessions, snapshots or tables: the engines of    *)
(* this project are shown to implement this module.                        *)
(***************************************************************************)
EXTENDS EventData

CONSTANT Ids   \* the aggregate ids

VARIABLES
  target,      \* the aggregate a call is about
  stream,      \* the events of each aggregate, in order
  status,      \* how far a call is
  seen         \* the prefix a call decides on

vars == <<target, stream, status, seen>>

Init ==
  /\ target \in [Calls -> Ids]
  /\ stream = [id \in Ids |-> <<>>]
  /\ status = [c \in Calls |-> "pending"]
  /\ seen = [c \in Calls |-> <<>>]

(* A call reads the stream, perhaps not to its end. *)
Observe(c) ==
  /\ status[c] = "pending"
  /\ \E n \in 0..Len(stream[target[c]]) :
       seen' = [seen EXCEPT ![c] = SubSeq(stream[target[c]], 1, n)]
  /\ status' = [status EXCEPT ![c] = "observed"]
  /\ UNCHANGED <<target, stream>>

(* Mutant: the events go to the end of the stream, whatever it has become. *)
AppendEventsAnyway(c) ==
  /\ status[c] = "observed"
  /\ \E n \in 1..MaxEvents :
       stream' = [stream EXCEPT ![target[c]] = @ \o NewEvents(c, n)]
  /\ status' = [status EXCEPT ![c] = "appended"]
  /\ UNCHANGED <<target, seen>>

(* The compare-and-append: nothing was appended since the call observed.   *)
(* The answer may be lost: the events are in the stream, the call fails.   *)
AppendEvents(c) ==
  /\ status[c] = "observed"
  /\ seen[c] = stream[target[c]]
  /\ \E n \in 1..MaxEvents :
       stream' = [stream EXCEPT ![target[c]] = @ \o NewEvents(c, n)]
  /\ \/ /\ status' = [status EXCEPT ![c] = "appended"]
        /\ UNCHANGED seen
     \/ /\ status' = [status EXCEPT ![c] = "failed"]
        /\ seen' = [seen EXCEPT ![c] = <<>>]
  /\ UNCHANGED target

(* A command without events has nothing to append, to whatever prefix. *)
AppendNothing(c) ==
  /\ status[c] = "observed"
  /\ status' = [status EXCEPT ![c] = "appended"]
  /\ UNCHANGED <<target, stream, seen>>

(* Only a call whose events are in the stream is told that it succeeded. *)
Acknowledge(c) ==
  /\ status[c] = "appended"
  /\ status' = [status EXCEPT ![c] = "acked"]
  /\ UNCHANGED <<target, stream, seen>>

(* A call may fail at any moment before it is acknowledged. *)
Fail(c) ==
  /\ status[c] \in {"pending", "observed", "appended"}
  /\ status' = [status EXCEPT ![c] = "failed"]
  /\ seen' = [seen EXCEPT ![c] = <<>>]
  /\ UNCHANGED <<target, stream>>

Next ==
  \E c \in Calls :
    \/ Observe(c)
    \/ AppendEvents(c)
    \/ AppendNothing(c)
    \/ Acknowledge(c)
    \/ Fail(c)

Spec == Init /\ [][Next]_vars
=============================================================================
