---------------------------- MODULE ViewDispatch ----------------------------
(***************************************************************************)
(* What follows a commit: handle_events (engine.rs) hands the committed    *)
(* envelopes to the dispatchers, one after the other, and each             *)
(* ViewDispatcher (dispatchers/view_dispatcher.rs) brings its views up to  *)
(* date, event by event: it finds the view, applies the event, and saves   *)
(* the view.  No lock and no transaction spans the two, so the dispatches  *)
(* of concurrent commands interleave between them.                         *)
(*                                                                         *)
(* The commits themselves are those of EventLog, which the engines         *)
(* implement.  A view is the sequence of the events that were applied to   *)
(* it: a view that leaves an event out (update returns None) is not saved, *)
(* and CONSTANT Shown says which events a view takes.                      *)
(* A save leaves what was saved: a view serialises all of its fields, as   *)
(* those of the examples do, so the $set of MongoDB keeps nothing.         *)
(***************************************************************************)
EXTENDS EventData

CONSTANTS
  Ids,          \* the aggregate ids
  Dispatchers,  \* the view_id of each dispatcher: "aggregate" or "event"
  Shown,        \* the events that update a view
  MaxLength,    \* bound: the most events a stream gets
  NotHeld       \* a call holds no view

ASSUME DispatchersAssumption == Dispatchers \in Seq({"aggregate", "event"})
ASSUME ShownAssumption == Shown \subseteq Event
ASSUME MaxLengthAssumption == MaxLength \in Nat
ASSUME NotHeldAssumption == NotHeld \notin State

VARIABLES
  target, stream, status, seen,  \* the calls and the streams, see EventLog
  entry,      \* the events of a call's commit
  turn,       \* the dispatcher a call is at
  next,       \* the event of its commit that dispatcher is at
  held,       \* the view it found, or NotHeld
  views,      \* dispatcher -> view id -> the events applied
  missed,     \* the dispatchers that failed a call
  overlapped  \* the calls whose dispatch met that of another (history)

logVars == <<target, stream, status, seen>>
cursor == <<turn, next, held>>
vars == <<logVars, entry, cursor, views, missed, overlapped>>

Log == INSTANCE EventLog

ViewIds == Ids \cup Event

(* Mutant: every view is keyed by the aggregate. *)
ViewIdOfAggregate(k, id, event) == id

(* View::view_id: one view per aggregate (GameView), or one per event (the *)
(* movements of an account).                                               *)
ViewId(k, id, event) == IF Dispatchers[k] = "aggregate" THEN id ELSE event

Init ==
  /\ Log!Init
  /\ entry = [c \in Calls |-> <<>>]
  /\ turn = [c \in Calls |-> 1]
  /\ next = [c \in Calls |-> 1]
  /\ held = [c \in Calls |-> NotHeld]
  /\ views = [k \in DOMAIN Dispatchers |-> [v \in ViewIds |-> <<>>]]
  /\ missed = [c \in Calls |-> {}]
  /\ overlapped = {}

TypeOK ==
  /\ target \in [Calls -> Ids]
  /\ stream \in [Ids -> State]
  /\ status \in [Calls -> {"pending", "observed", "appended", "acked", "failed"}]
  /\ seen \in [Calls -> State]
  /\ entry \in [Calls -> State]
  /\ turn \in [Calls -> 1..Len(Dispatchers) + 1]
  /\ next \in [Calls -> 1..MaxEvents + 1]
  /\ held \in [Calls -> State \cup {NotHeld}]
  /\ views \in [DOMAIN Dispatchers -> [ViewIds -> State]]
  /\ missed \in [Calls -> SUBSET DOMAIN Dispatchers]
  /\ overlapped \subseteq Calls

-----------------------------------------------------------------------------
Dispatching(c) == status[c] = "appended" /\ turn[c] <= Len(Dispatchers)

(* The call was dropped while the storage was saving a view for it. *)
InFlight(c) == status[c] = "failed" /\ held[c] # NotHeld

Before(c) ==
  /\ Log!Observe(c)
  /\ UNCHANGED <<entry, cursor, views, missed, overlapped>>

(* The commit returns its envelopes, which are dispatched at once.  A call *)
(* that committed nothing skips the dispatchers.                           *)
Commit(c) ==
  /\ Log!AppendEvents(c) \/ Log!AppendNothing(c)
  /\ Len(stream'[target[c]]) <= MaxLength
  /\ LET old == Len(stream[target[c]])
         new == stream'[target[c]]
         others == {d \in Calls :
                      /\ d # c /\ target[d] = target[c]
                      /\ Dispatching(d) \/ InFlight(d)}
     IN  /\ entry' = [entry EXCEPT ![c] = SubSeq(new, old + 1, Len(new))]
         /\ turn' = [turn EXCEPT ![c] =
                       IF Len(new) = old THEN Len(Dispatchers) + 1 ELSE 1]
         /\ overlapped' = IF others = {} \/ Len(new) = old
                            THEN overlapped
                            ELSE overlapped \cup others \cup {c}
  /\ UNCHANGED <<next, held, views, missed>>

(* The view the event is for. *)
View(c) == ViewId(turn[c], target[c], entry[c][next[c]])

(* The dispatch goes on with the next event, or the next dispatcher. *)
Advance(c) ==
  /\ IF next[c] < Len(entry[c])
       THEN next' = [next EXCEPT ![c] = @ + 1] /\ UNCHANGED turn
       ELSE /\ next' = [next EXCEPT ![c] = 1]
            /\ turn' = [turn EXCEPT ![c] = @ + 1]
  /\ held' = [held EXCEPT ![c] = NotHeld]

(* Mutant: the dispatch returns at an event the view does not take. *)
FindViewReturning(c) ==
  /\ Dispatching(c)
  /\ held[c] = NotHeld
  /\ IF entry[c][next[c]] \in Shown
       THEN /\ held' = [held EXCEPT ![c] = views[turn[c]][View(c)]]
            /\ UNCHANGED <<turn, next>>
       ELSE /\ next' = [next EXCEPT ![c] = 1]
            /\ turn' = [turn EXCEPT ![c] = @ + 1]
            /\ UNCHANGED held
  /\ UNCHANGED <<logVars, entry, views, missed, overlapped>>

(* find_by_id, or the default view if there is none; update. *)
FindView(c) ==
  /\ Dispatching(c)
  /\ held[c] = NotHeld
  /\ IF entry[c][next[c]] \in Shown
       THEN /\ held' = [held EXCEPT ![c] = views[turn[c]][View(c)]]
            /\ UNCHANGED <<turn, next>>
       ELSE Advance(c)
  /\ UNCHANGED <<logVars, entry, views, missed, overlapped>>

Saved(c) ==
  [views EXCEPT ![turn[c]][View(c)] = Append(held[c], entry[c][next[c]])]

SaveView(c) ==
  /\ Dispatching(c)
  /\ held[c] # NotHeld
  /\ views' = Saved(c)
  /\ Advance(c)
  /\ UNCHANGED <<logVars, entry, missed, overlapped>>

(* Mutant: the dispatcher starts again. *)
DispatcherRetries(c) ==
  /\ Dispatching(c)
  /\ \/ UNCHANGED views
     \/ held[c] # NotHeld /\ views' = Saved(c)
  /\ next' = [next EXCEPT ![c] = 1]
  /\ held' = [held EXCEPT ![c] = NotHeld]
  /\ UNCHANGED <<logVars, entry, turn, missed, overlapped>>

(* The storage fails a find or a save, which may have taken effect: the    *)
(* dispatcher leaves the rest of the events, its error goes to the error   *)
(* handler, and the next dispatcher has its turn.                          *)
DispatcherFails(c) ==
  /\ Dispatching(c)
  /\ \/ UNCHANGED views
     \/ held[c] # NotHeld /\ views' = Saved(c)
  /\ missed' = [missed EXCEPT ![c] = @ \cup {turn[c]}]
  /\ next' = [next EXCEPT ![c] = 1]
  /\ turn' = [turn EXCEPT ![c] = @ + 1]
  /\ held' = [held EXCEPT ![c] = NotHeld]
  /\ UNCHANGED <<logVars, entry, overlapped>>

(* All the dispatchers had their turn: the call is answered. *)
Answer(c) ==
  /\ turn[c] > Len(Dispatchers)
  /\ Log!Acknowledge(c)
  /\ UNCHANGED <<entry, cursor, views, missed, overlapped>>

(* The call fails before its commit, or is dropped, perhaps in the middle  *)
(* of its dispatches: nobody takes up the rest of them.                    *)
Drop(c) ==
  /\ Log!Fail(c)
  /\ UNCHANGED <<entry, cursor, views, missed, overlapped>>

(* The save a dropped call had begun takes effect after all, or never. *)
LateSave(c) ==
  /\ InFlight(c)
  /\ UNCHANGED views \/ views' = Saved(c)
  /\ held' = [held EXCEPT ![c] = NotHeld]
  /\ UNCHANGED <<logVars, entry, turn, next, missed, overlapped>>

Step(c) ==
  \/ Before(c)
  \/ Commit(c)
  \/ FindView(c)
  \/ SaveView(c)
  \/ Answer(c)

Idle ==
  /\ \A c \in Calls : status[c] \in {"acked", "failed"}
  /\ UNCHANGED vars

Next ==
  \/ (\E c \in Calls : Step(c) \/ DispatcherFails(c) \/ Drop(c) \/ LateSave(c))
  \/ Idle

Spec == Init /\ [][Next]_vars

-----------------------------------------------------------------------------
Committed(id) == {stream[id][i] : i \in DOMAIN stream[id]}

(* A view never counts an event twice and never shows one that is not in   *)
(* the stream, however dispatches interleave: the read-modify-write of a   *)
(* late dispatcher can bring back an old view but no event it replaced.    *)
AppliedAtMostOnce ==
  \A k \in DOMAIN Dispatchers, v \in ViewIds :
    /\ \A i, j \in DOMAIN views[k][v] : views[k][v][i] = views[k][v][j] => i = j
    /\ \A i \in DOMAIN views[k][v] :
         \E id \in Ids : views[k][v][i] \in Committed(id)

ShownIn(k, c) ==
  \A i \in DOMAIN entry[c] :
    LET event == entry[c][i]
        view == views[k][ViewId(k, target[c], event)]
    IN  event \in Shown => \E n \in DOMAIN view : view[n] = event

(* The events of an acknowledged call stay in the views of every           *)
(* dispatcher that did not fail it, if no other dispatch of that aggregate *)
(* overlapped its own, or if every event has a view of its own: later      *)
(* dispatches build on what it saved, and the failure of another           *)
(* dispatcher costs it nothing.                                            *)
AcknowledgedIsProjected ==
  \A c \in Calls, k \in DOMAIN Dispatchers :
    /\ status[c] = "acked" /\ k \notin missed[c]
    /\ c \notin overlapped \/ Dispatchers[k] = "event"
    => ShownIn(k, c)

(* In the stream, d comes before e. *)
Follows(id, d, e) ==
  \A m, n \in DOMAIN stream[id] :
    stream[id][m] = d /\ stream[id][n] = e => m < n

(* An aggregate whose calls never overlapped and were all projected has    *)
(* the views that replaying its stream would give: the events they take,   *)
(* each once, in order.                                                    *)
QuietViewIsReplay ==
  \A id \in Ids, k \in DOMAIN Dispatchers :
    LET callers == {c \in Calls : target[c] = id}
        view == views[k][id]
    IN  /\ Dispatchers[k] = "aggregate"
        /\ \A c \in callers :
             /\ c \notin overlapped
             /\ k \notin missed[c]
             /\ status[c] = "acked" \/ entry[c] = <<>>
        => /\ {view[i] : i \in DOMAIN view} = Committed(id) \cap Shown
           /\ \A i, j \in DOMAIN view : i < j => Follows(id, view[i], view[j])
=============================================================================
