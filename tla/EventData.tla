----------------------------- MODULE EventData ------------------------------
(***************************************************************************)
(* Events, envelopes, snapshots and the folds over them.                   *)
(*                                                                         *)
(* The state of an aggregate is the sequence of the events that were       *)
(* applied to it: every real aggregate is a function of that sequence, so  *)
(* what holds of it holds of any of them.  An event is known by the call   *)
(* that made it and its position in the command's result, as the code      *)
(* knows it by a fresh uuid.                                               *)
(***************************************************************************)
EXTENDS Naturals, Sequences, FiniteSets

CONSTANTS
  Calls,       \* the calls made to the engine
  MaxEvents    \* the most events one command returns

ASSUME MaxEventsAssumption == MaxEvents \in Nat

Event == Calls \X (1..MaxEvents)
State == Seq(Event)
Envelope == [version : Nat, event : Event]
Snapshot == [state : State, version : Nat]

(* What a command handler of call c returns: n events. *)
NewEvents(c, n) == [i \in 1..n |-> <<c, i>>]

EventsOf(envelopes) == [i \in DOMAIN envelopes |-> envelopes[i].event]

(* The state after the first n entries of a journal were applied. *)
Replay(journal, n) == [i \in 1..n |-> journal[i].event]

(* Envelopes for events, numbered from the version after v. *)
Enveloped(events, v) ==
  [i \in DOMAIN events |-> [version |-> v + i, event |-> events[i]]]

(* The entries of a journal above version v, in the order of the journal. *)
EventsFromVersion(journal, v) ==
  LET later == {i \in DOMAIN journal : journal[i].version > v}
      rank(i) == Cardinality({m \in later : m <= i})
  IN  [k \in 1..Cardinality(later) |->
         journal[CHOOSE i \in later : rank(i) = k]]

(* A journal read in the order of its versions (ORDER BY version). *)
ByVersion(journal) ==
  LET before(m, i) == \/ journal[m].version < journal[i].version
                      \/ journal[m].version = journal[i].version /\ m <= i
      rank(i) == Cardinality({m \in DOMAIN journal : before(m, i)})
  IN  [k \in DOMAIN journal |->
         journal[CHOOSE i \in DOMAIN journal : rank(i) = k]]

(* The version of the last entry; 0 for an aggregate without events. *)
LatestVersion(journal) ==
  IF journal = <<>> THEN 0 ELSE journal[Len(journal)].version

(* Every version is there once, in order, from 1. *)
Contiguous(journal) == \A i \in DOMAIN journal : journal[i].version = i
=============================================================================
