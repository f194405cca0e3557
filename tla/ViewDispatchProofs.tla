------------------------- MODULE ViewDispatchProofs -------------------------
(***************************************************************************)
(* What views hold, for any number of calls, aggregates, events and        *)
(* dispatchers, and whichever events update a view.                        *)
(*                                                                         *)
(* Dispatches of an aggregate overlap freely, so what a view holds says    *)
(* little about what it will hold.  What they cannot do is go back: a call *)
(* hands an event to a dispatcher once, and then moves on or ends.  An     *)
(* event that is in a view, or in one a call has found, was handed over;   *)
(* the event a call is about to save was not (NoEventTwice).               *)
(*                                                                         *)
(* A call that no other dispatch met over a view shares it with nobody who *)
(* may still save, so whoever finds the view later finds what it did       *)
(* (AcknowledgedAreProjected); and it has the end of the stream while it   *)
(* dispatches, so its events come after those in the view                  *)
(* (QuietViewsReplay).                                                     *)
(*                                                                         *)
(* Of the two applications, whatever requests they get: the stream of an   *)
(* aggregate is what its handlers accepted, each on the very stream its    *)
(* event was appended to, so the guards of the handlers hold at every      *)
(* event of the stream (TodosThere, LoansHonest).  The folds of the        *)
(* aggregates are recursive functions over events, so what they compute is *)
(* said by a function that goes on from event to event, and shown by       *)
(* choosing the first event that breaks it.                                *)
(***************************************************************************)
EXTENDS Applications, Integers, SequenceTheorems, NaturalsInduction,
        WellFoundedInduction, TLAPS

(* A handler's events are a sequence of events.                            *)
LEMMA NewEventsType ==
  ASSUME NEW c \in Calls, NEW n \in 0..MaxEvents
  PROVE  NewEvents(c, n) \in State /\ Len(NewEvents(c, n)) = n
  <1>1. n \in Nat /\ NewEvents(c, n) \in [1..n -> Event]
    BY MaxEventsAssumption DEF NewEvents, Event
  <1>. QED BY <1>1 DEF State

(* The events a dispatcher had its turn for, for good or ill: their calls  *)
(* are past them, or ended at them and save them no more.                  *)
Handed ==
  [k \in Nat |->
     {e \in Event :
        LET c == e[1]
            i == e[2]
        IN  /\ i <= Len(entry[c])
            /\ \/ k < turn[c]
               \/ k = turn[c] /\ i < next[c]
               \/ /\ k = turn[c] /\ i = next[c]
                  /\ status[c] = "failed" /\ held[c] = NotHeld}]

(* A view, or one that was found, of such events, each there once.         *)
Clean(events, view) ==
  /\ view \in State
  /\ \A i, j \in 1..Len(view) : view[i] = view[j] => i = j
  /\ \A i \in 1..Len(view) : view[i] \in events

Types ==
  /\ status \in [Calls -> {"pending", "observed", "appended", "acked", "failed"}]
  /\ target \in [Calls -> Ids]
  /\ stream \in [Ids -> State]
  /\ entry \in [Calls -> State]
  /\ turn \in [Calls -> Nat]
  /\ next \in [Calls -> Nat]
  /\ held \in [Calls -> State \cup {NotHeld}]
  /\ views \in [DOMAIN Dispatchers -> [ViewIds -> State]]

(* What a call committed is the result of its command, in some stream.     *)
Entries ==
  \A c \in Calls : \A i \in 1..Len(entry[c]) :
    /\ entry[c][i] = <<c, i>>
    /\ \E id \in Ids : \E n \in DOMAIN stream[id] : stream[id][n] = <<c, i>>

Cursors ==
  \A c \in Calls :
    /\ status[c] \in {"pending", "observed"} =>
         entry[c] = <<>> /\ turn[c] = 1 /\ next[c] = 1 /\ held[c] = NotHeld
    /\ held[c] # NotHeld => Dispatching(c) \/ status[c] = "failed"
    /\ Dispatching(c) \/ held[c] # NotHeld =>
         turn[c] \in 1..Len(Dispatchers) /\ next[c] \in 1..Len(entry[c])

ViewsClean ==
  \A k \in DOMAIN Dispatchers, v \in ViewIds : Clean(Handed[k], views[k][v])

HeldClean ==
  \A c \in Calls : held[c] # NotHeld => Clean(Handed[turn[c]], held[c])

DispatchInv == Types /\ Entries /\ Cursors /\ ViewsClean /\ HeldClean

-----------------------------------------------------------------------------
LEMMA CleanGrows ==
  ASSUME NEW H, NEW G, H \subseteq G, NEW s, Clean(H, s)
  PROVE  Clean(G, s)
  BY DEF Clean

(* An event that was not handed over is in no clean view, so it may follow.*)
LEMMA AppendIsClean ==
  ASSUME NEW H, NEW G, H \subseteq G, NEW s, Clean(H, s),
         NEW e \in Event, e \notin H, e \in G
  PROVE  Clean(G, Append(s, e))
  <1> DEFINE t == Append(s, e)
             n == Len(s)
  <1>1. s \in Seq(Event) /\ n \in Nat
    BY LenProperties DEF Clean, State
  <1>2. /\ t \in State /\ Len(t) = n + 1
        /\ \A i \in 1..n : t[i] = s[i]
        /\ t[n + 1] = e
    BY <1>1, AppendProperties DEF State
  <1>3. /\ \A i \in 1..n : s[i] # e /\ s[i] \in G
        /\ \A i, j \in 1..n : s[i] = s[j] => i = j
    BY DEF Clean
  <1> HIDE DEF t, n
  <1>4. \A i \in 1..(n + 1) : i \in 1..n \/ i = n + 1
    BY <1>1
  <1>5. \A i, j \in 1..(n + 1) : t[i] = t[j] => i = j
    BY <1>2, <1>3, <1>4
  <1>6. \A i \in 1..(n + 1) : t[i] \in G
    BY <1>2, <1>3, <1>4
  <1>7. Clean(G, t)
    BY <1>2, <1>5, <1>6 DEF Clean
  <1>. QED BY <1>7 DEF t

(* The event a call is at, and the view it is for.                         *)
LEMMA CurrentEvent ==
  ASSUME DispatchInv, NEW c \in Calls, Dispatching(c) \/ held[c] # NotHeld
  PROVE  /\ turn[c] \in DOMAIN Dispatchers /\ turn[c] \in Nat
         /\ turn[c] <= Len(Dispatchers) /\ Len(Dispatchers) \in Nat
         /\ next[c] \in Nat /\ next[c] >= 1 /\ next[c] <= Len(entry[c])
         /\ Len(entry[c]) \in Nat
         /\ entry[c][next[c]] = <<c, next[c]>> /\ <<c, next[c]>> \in Event
         /\ View(c) \in ViewIds
  <1>1. /\ turn[c] \in 1..Len(Dispatchers) /\ next[c] \in 1..Len(entry[c])
        /\ entry[c] \in Seq(Event) /\ target[c] \in Ids
    BY DEF DispatchInv, Types, Cursors, State
  <1>2. entry[c][next[c]] \in Event /\ Len(entry[c]) \in Nat
    BY <1>1, ElementOfSeq, LenProperties
  <1>3. /\ turn[c] \in DOMAIN Dispatchers /\ turn[c] \in Nat
        /\ turn[c] <= Len(Dispatchers) /\ Len(Dispatchers) \in Nat
    BY <1>1, DispatchersAssumption, LenProperties
  <1>4. entry[c][next[c]] = <<c, next[c]>>
    BY <1>1 DEF DispatchInv, Entries
  <1>. QED BY <1>1, <1>2, <1>3, <1>4 DEF View, ViewId, ViewIds

(* Views nobody saves stay clean when no cursor moves back.                *)
LEMMA ViewsStayClean ==
  ASSUME DispatchInv, \A k \in Nat : Handed[k] \subseteq Handed'[k],
         views' = views
  PROVE  ViewsClean'
  <1> SUFFICES ASSUME NEW k \in DOMAIN Dispatchers, NEW v \in ViewIds
               PROVE  Clean(Handed'[k], views[k][v])
    BY DEF ViewsClean
  <1>1. k \in Nat
    BY DispatchersAssumption, LenProperties
  <1>. QED BY <1>1, CleanGrows DEF DispatchInv, ViewsClean

(* A save by a call that holds a view, whether it is awaited or late, as   *)
(* long as the call is past the event then.                                *)
LEMMA SavedIsClean ==
  ASSUME DispatchInv, NEW c \in Calls, held[c] # NotHeld,
         \A k \in Nat : Handed[k] \subseteq Handed'[k],
         <<c, next[c]>> \notin Handed[turn[c]],
         <<c, next[c]>> \in Handed'[turn[c]],
         views' = Saved(c)
  PROVE  /\ views' \in [DOMAIN Dispatchers -> [ViewIds -> State]]
         /\ ViewsClean'
  <1> DEFINE t == turn[c]
             e == <<c, next[c]>>
             new == Append(held[c], e)
  <1>1. /\ t \in DOMAIN Dispatchers /\ t \in Nat /\ e \in Event
        /\ entry[c][next[c]] = e /\ View(c) \in ViewIds
    BY CurrentEvent
  <1>2. views \in [DOMAIN Dispatchers -> [ViewIds -> State]]
    BY DEF DispatchInv, Types
  <1>3. Clean(Handed[t], held[c])
    BY DEF DispatchInv, HeldClean
  <1>4. Clean(Handed'[t], new)
    <2>1. Handed[t] \subseteq Handed'[t]
      BY <1>1
    <2> HIDE DEF e, t
    <2>. QED BY <1>1, <1>3, <2>1, AppendIsClean DEF e, t
  <1>5. new \in State
    BY <1>4 DEF Clean
  <1>6. views' = [views EXCEPT ![t][View(c)] = new]
    BY <1>1 DEF Saved
  <1> HIDE DEF t, e, new
  <1>7. views' \in [DOMAIN Dispatchers -> [ViewIds -> State]]
    BY <1>1, <1>2, <1>5, <1>6
  <1>8. ASSUME NEW k \in DOMAIN Dispatchers, NEW v \in ViewIds
        PROVE  Clean(Handed'[k], views'[k][v])
    <2>1. k \in Nat
      BY DispatchersAssumption, LenProperties
    <2>2. CASE k = t /\ v = View(c)
      <3>1. views'[k][v] = new
        BY <1>1, <1>2, <1>6, <2>2
      <3>. QED BY <1>4, <2>2, <3>1
    <2>3. CASE ~ (k = t /\ v = View(c))
      <3>1. views'[k][v] = views[k][v]
        BY <1>1, <1>2, <1>6, <2>3
      <3>. QED BY <2>1, <3>1, CleanGrows DEF DispatchInv, ViewsClean
    <2>. QED BY <2>2, <2>3
  <1>. QED BY <1>7, <1>8 DEF ViewsClean

(* What the other calls hold stays clean.                                  *)
LEMMA OthersStayClean ==
  ASSUME DispatchInv, \A k \in Nat : Handed[k] \subseteq Handed'[k],
         NEW d \in Calls, held'[d] = held[d], turn'[d] = turn[d],
         held[d] # NotHeld
  PROVE  Clean(Handed'[turn'[d]], held'[d])
  BY CleanGrows DEF DispatchInv, HeldClean, Types

-----------------------------------------------------------------------------
(* The dispatch of a call moves on, and what it held is saved or not.      *)
Moves(c) ==
  /\ UNCHANGED <<target, stream, status, entry>>
  /\ turn' \in [Calls -> Nat] /\ next' \in [Calls -> Nat]
  /\ \/ turn'[c] = turn[c] /\ next'[c] = next[c] + 1 /\ next[c] < Len(entry[c])
     \/ turn'[c] = turn[c] + 1 /\ next'[c] = 1
  /\ \A d \in Calls : d # c => turn'[d] = turn[d] /\ next'[d] = next[d]
  /\ held' = [held EXCEPT ![c] = NotHeld]

LEMMA MoveKeeps ==
  ASSUME DispatchInv, NEW c \in Calls, Dispatching(c), Moves(c),
         views' = views \/ (held[c] # NotHeld /\ views' = Saved(c))
  PROVE  DispatchInv'
  <1>1. /\ turn[c] \in Nat /\ turn[c] <= Len(Dispatchers) /\ Len(Dispatchers) \in Nat
        /\ next[c] \in Nat /\ next[c] >= 1 /\ next[c] <= Len(entry[c])
        /\ Len(entry[c]) \in Nat /\ <<c, next[c]>> \in Event
    BY CurrentEvent
  <1>2. /\ turn \in [Calls -> Nat] /\ next \in [Calls -> Nat]
        /\ held \in [Calls -> State \cup {NotHeld}]
    BY DEF DispatchInv, Types
  <1>3. /\ held' \in [Calls -> State \cup {NotHeld}] /\ held'[c] = NotHeld
        /\ \A d \in Calls : d # c => held'[d] = held[d]
    BY <1>2 DEF Moves
  <1>4. ASSUME NEW k \in Nat PROVE Handed[k] \subseteq Handed'[k]
    <2> SUFFICES ASSUME NEW d \in Calls, NEW i \in 1..MaxEvents,
                        <<d, i>> \in Handed[k]
                 PROVE  <<d, i>> \in Handed'[k]
      BY DEF Handed, Event
    <2>1. CASE d = c
      BY <1>1, <1>2, <2>1, MaxEventsAssumption DEF Handed, Moves, Dispatching, Event
    <2>2. CASE d # c
      BY <1>3, <2>2 DEF Handed, Moves, Event
    <2>. QED BY <2>1, <2>2
  <1>5. <<c, next[c]>> \notin Handed[turn[c]] /\ <<c, next[c]>> \in Handed'[turn[c]]
    BY <1>1, <1>2 DEF Handed, Moves, Dispatching, Event
  <1>6. views' \in [DOMAIN Dispatchers -> [ViewIds -> State]] /\ ViewsClean'
    <2>1. CASE views' = views
      BY <1>4, <2>1, ViewsStayClean DEF DispatchInv, Types
    <2>2. CASE held[c] # NotHeld /\ views' = Saved(c)
      BY <1>4, <1>5, <2>2, SavedIsClean
    <2>. QED BY <2>1, <2>2
  <1>7. Types'
    BY <1>3, <1>6 DEF DispatchInv, Types, Moves
  <1>8. Entries'
    BY DEF DispatchInv, Entries, Moves
  <1>9. Cursors'
    <2> SUFFICES ASSUME NEW d \in Calls
                 PROVE  /\ status[d] \in {"pending", "observed"} =>
                             /\ entry[d] = <<>> /\ turn'[d] = 1 /\ next'[d] = 1
                             /\ held'[d] = NotHeld
                        /\ held'[d] # NotHeld =>
                             Dispatching(d)' \/ status[d] = "failed"
                        /\ Dispatching(d)' \/ held'[d] # NotHeld =>
                             /\ turn'[d] \in 1..Len(Dispatchers)
                             /\ next'[d] \in 1..Len(entry[d])
      BY DEF Cursors, Moves
    <2>1. CASE d = c
      <3>1. status' = status /\ status[c] = "appended" /\ held'[c] = NotHeld
        BY <1>3 DEF Moves, Dispatching
      <3>2. Dispatching(c)' => turn'[c] <= Len(Dispatchers)
        BY DEF Dispatching
      <3>3. CASE turn'[c] = turn[c] /\ next'[c] = next[c] + 1 /\ next[c] < Len(entry[c])
        <4>1. turn[c] \in 1..Len(Dispatchers) /\ next[c] + 1 \in 1..Len(entry[c])
          BY <1>1, <3>3 DEF DispatchInv, Cursors
        <4>. QED BY <2>1, <3>1, <3>3, <4>1
      <3>4. CASE turn'[c] = turn[c] + 1 /\ next'[c] = 1
        <4>1. Dispatching(c)' => turn[c] + 1 \in 1..Len(Dispatchers)
          BY <1>1, <3>2, <3>4
        <4>2. 1 \in 1..Len(entry[c])
          BY <1>1
        <4>. QED BY <2>1, <3>1, <3>4, <4>1, <4>2
      <3>. QED BY <3>3, <3>4 DEF Moves
    <2>2. CASE d # c
      <3>1. /\ turn'[d] = turn[d] /\ next'[d] = next[d] /\ held'[d] = held[d]
            /\ status' = status
        BY <1>3, <2>2 DEF Moves
      <3>. QED BY <3>1 DEF DispatchInv, Cursors, Dispatching
    <2>. QED BY <2>1, <2>2
  <1>10. HeldClean'
    <2> SUFFICES ASSUME NEW d \in Calls, held'[d] # NotHeld
                 PROVE  Clean(Handed'[turn'[d]], held'[d])
      BY DEF HeldClean
    <2>. QED BY <1>3, <1>4, OthersStayClean DEF Moves
  <1>. QED BY <1>6, <1>7, <1>8, <1>9, <1>10 DEF DispatchInv

(* The save of a call that was dropped takes effect late, or never.        *)
LEMMA LateSaveKeeps ==
  ASSUME DispatchInv, NEW c \in Calls, LateSave(c)
  PROVE  DispatchInv'
  <1> USE DEF LateSave, InFlight, logVars
  <1>1. /\ turn[c] \in Nat /\ next[c] \in Nat /\ next[c] <= Len(entry[c])
        /\ Len(entry[c]) \in Nat /\ <<c, next[c]>> \in Event
    BY CurrentEvent
  <1>2. /\ turn \in [Calls -> Nat] /\ next \in [Calls -> Nat]
        /\ held \in [Calls -> State \cup {NotHeld}]
    BY DEF DispatchInv, Types
  <1>3. /\ held' \in [Calls -> State \cup {NotHeld}] /\ held'[c] = NotHeld
        /\ \A d \in Calls : d # c => held'[d] = held[d]
    BY <1>2
  <1>4. ASSUME NEW k \in Nat PROVE Handed[k] \subseteq Handed'[k]
    <2> SUFFICES ASSUME NEW d \in Calls, NEW i \in 1..MaxEvents,
                        <<d, i>> \in Handed[k]
                 PROVE  <<d, i>> \in Handed'[k]
      BY DEF Handed, Event
    <2>. QED BY <1>3 DEF Handed, Event
  <1>5. <<c, next[c]>> \notin Handed[turn[c]] /\ <<c, next[c]>> \in Handed'[turn[c]]
    BY <1>1, <1>3 DEF Handed, Event
  <1>6. views' \in [DOMAIN Dispatchers -> [ViewIds -> State]] /\ ViewsClean'
    <2>1. CASE views' = views
      BY <1>4, <2>1, ViewsStayClean DEF DispatchInv, Types
    <2>2. CASE views' = Saved(c)
      BY <1>4, <1>5, <2>2, SavedIsClean
    <2>. QED BY <2>1, <2>2
  <1>7. Types'
    BY <1>3, <1>6 DEF DispatchInv, Types
  <1>8. Entries'
    BY DEF DispatchInv, Entries
  <1>9. Cursors'
    BY <1>3 DEF DispatchInv, Cursors, Dispatching
  <1>10. HeldClean'
    <2> SUFFICES ASSUME NEW d \in Calls, held'[d] # NotHeld
                 PROVE  Clean(Handed'[turn'[d]], held'[d])
      BY DEF HeldClean
    <2>. QED BY <1>3, <1>4, OthersStayClean
  <1>. QED BY <1>6, <1>7, <1>8, <1>9, <1>10 DEF DispatchInv

(* A view is found: it is clean, so what the call holds is.                *)
LEMMA FindKeeps ==
  ASSUME DispatchInv, NEW c \in Calls, Dispatching(c), held[c] = NotHeld,
         held' = [held EXCEPT ![c] = views[turn[c]][View(c)]],
         UNCHANGED <<logVars, entry, turn, next, views>>
  PROVE  DispatchInv'
  <1> USE DEF logVars
  <1>1. turn[c] \in DOMAIN Dispatchers /\ turn[c] \in Nat /\ View(c) \in ViewIds
    BY CurrentEvent
  <1>2. /\ held \in [Calls -> State \cup {NotHeld}]
        /\ views \in [DOMAIN Dispatchers -> [ViewIds -> State]]
    BY DEF DispatchInv, Types
  <1>3. /\ held'[c] = views[turn[c]][View(c)]
        /\ held' \in [Calls -> State \cup {NotHeld}]
        /\ \A d \in Calls : d # c => held'[d] = held[d]
    BY <1>1, <1>2
  <1>4. ASSUME NEW k \in Nat PROVE Handed[k] \subseteq Handed'[k]
    <2> SUFFICES ASSUME NEW d \in Calls, NEW i \in 1..MaxEvents,
                        <<d, i>> \in Handed[k]
                 PROVE  <<d, i>> \in Handed'[k]
      BY DEF Handed, Event
    <2>. QED BY <1>3 DEF Handed, Dispatching, Event
  <1>5. Types' /\ Entries'
    <2>1. Types'
      BY <1>2, <1>3 DEF DispatchInv, Types
    <2>2. Entries'
      BY DEF DispatchInv, Entries
    <2>. QED BY <2>1, <2>2
  <1>6. Cursors'
    BY <1>3 DEF DispatchInv, Cursors, Dispatching
  <1>7. ViewsClean'
    BY <1>4, ViewsStayClean
  <1>8. HeldClean'
    <2> SUFFICES ASSUME NEW d \in Calls, held'[d] # NotHeld
                 PROVE  Clean(Handed'[turn[d]], held'[d])
      BY DEF HeldClean
    <2>1. CASE d = c
      <3>1. Clean(Handed[turn[c]], views[turn[c]][View(c)])
        BY <1>1 DEF DispatchInv, ViewsClean
      <3>. QED BY <1>1, <1>3, <1>4, <2>1, <3>1, CleanGrows
    <2>2. CASE d # c
      BY <1>3, <1>4, <2>2, OthersStayClean
    <2>. QED BY <2>1, <2>2
  <1>. QED BY <1>5, <1>6, <1>7, <1>8 DEF DispatchInv

-----------------------------------------------------------------------------
(* A call takes another step of the log: it reads, is answered, or fails.  *)
LEMMA StatusKeeps ==
  ASSUME DispatchInv, NEW c \in Calls,
         \/ Before(c) \/ Answer(c) \/ Drop(c)
         \/ AnswerAtOnce(c) /\ held[c] = NotHeld
  PROVE  DispatchInv'
  <1>1. /\ UNCHANGED <<target, stream, entry, turn, next, held, views>>
        /\ \E s \in {"observed", "acked", "failed"} :
             /\ status' = [status EXCEPT ![c] = s]
             /\ s = "observed" => status[c] = "pending"
             /\ s = "acked" => /\ status[c] = "appended"
                               /\ turn[c] > Len(Dispatchers) \/ held[c] = NotHeld
             /\ s = "failed" => status[c] \in {"pending", "observed", "appended"}
    BY DEF Before, Answer, AnswerAtOnce, Drop, cursor, Log!Observe, Log!Acknowledge, Log!Fail
  <1>2. PICK s \in {"observed", "acked", "failed"} :
          /\ status' = [status EXCEPT ![c] = s]
          /\ s = "observed" => status[c] = "pending"
          /\ s = "acked" => /\ status[c] = "appended"
                            /\ turn[c] > Len(Dispatchers) \/ held[c] = NotHeld
          /\ s = "failed" => status[c] \in {"pending", "observed", "appended"}
    BY <1>1
  <1>3. /\ status \in [Calls -> {"pending", "observed", "appended", "acked", "failed"}]
        /\ turn \in [Calls -> Nat] /\ Len(Dispatchers) \in Nat
    BY DispatchersAssumption, LenProperties DEF DispatchInv, Types
  <1>4. /\ status'[c] = s /\ \A d \in Calls : d # c => status'[d] = status[d]
        /\ status' \in [Calls -> {"pending", "observed", "appended", "acked", "failed"}]
    BY <1>2, <1>3
  <1>5. ASSUME NEW k \in Nat PROVE Handed[k] \subseteq Handed'[k]
    <2> SUFFICES ASSUME NEW d \in Calls, NEW i \in 1..MaxEvents,
                        <<d, i>> \in Handed[k]
                 PROVE  <<d, i>> \in Handed'[k]
      BY DEF Handed, Event
    <2>1. status[d] = "failed" => status'[d] = "failed"
      BY <1>2, <1>4
    <2>. QED BY <1>1, <2>1 DEF Handed, Event
  <1>6. Types' /\ Entries'
    <2>1. Types'
      BY <1>1, <1>4 DEF DispatchInv, Types
    <2>2. Entries'
      <3>1. entry' = entry /\ stream' = stream
        BY <1>1
      <3>. QED BY <3>1 DEF DispatchInv, Entries
    <2>. QED BY <2>1, <2>2
  <1>7. Cursors'
    <2> SUFFICES ASSUME NEW d \in Calls
                 PROVE  /\ status'[d] \in {"pending", "observed"} =>
                             /\ entry[d] = <<>> /\ turn[d] = 1 /\ next[d] = 1
                             /\ held[d] = NotHeld
                        /\ held[d] # NotHeld =>
                             \/ status'[d] = "appended" /\ turn[d] <= Len(Dispatchers)
                             \/ status'[d] = "failed"
                        /\ \/ status'[d] = "appended" /\ turn[d] <= Len(Dispatchers)
                           \/ held[d] # NotHeld
                           => /\ turn[d] \in 1..Len(Dispatchers)
                              /\ next[d] \in 1..Len(entry[d])
      BY <1>1 DEF Cursors, Dispatching
    <2>1. /\ status[d] \in {"pending", "observed"} =>
               entry[d] = <<>> /\ turn[d] = 1 /\ next[d] = 1 /\ held[d] = NotHeld
          /\ held[d] # NotHeld =>
               \/ status[d] = "appended" /\ turn[d] <= Len(Dispatchers)
               \/ status[d] = "failed"
          /\ \/ status[d] = "appended" /\ turn[d] <= Len(Dispatchers)
             \/ held[d] # NotHeld
             => turn[d] \in 1..Len(Dispatchers) /\ next[d] \in 1..Len(entry[d])
      BY DEF DispatchInv, Cursors, Dispatching
    <2>. QED BY <1>2, <1>3, <1>4, <2>1
  <1>8. ViewsClean'
    BY <1>1, <1>5, ViewsStayClean
  <1>9. HeldClean'
    <2> SUFFICES ASSUME NEW d \in Calls, held'[d] # NotHeld
                 PROVE  Clean(Handed'[turn'[d]], held'[d])
      BY DEF HeldClean
    <2>. QED BY <1>1, <1>5, OthersStayClean
  <1>. QED BY <1>6, <1>7, <1>8, <1>9 DEF DispatchInv

(* What a commit of n events does: they follow those of the stream.        *)
Appends(c, n) ==
  LET id0 == target[c]
      old == Len(stream[id0])
  IN  /\ stream' \in [Ids -> State]
      /\ Len(stream'[id0]) = old + n /\ DOMAIN stream'[id0] = 1..(old + n)
      /\ \A i \in 1..old : i \in 1..(old + n) /\ stream'[id0][i] = stream[id0][i]
      /\ \A i \in 1..n :
           old + i \in 1..(old + n) /\ stream'[id0][old + i] = <<c, i>>
      /\ \A id \in Ids : id # id0 => stream'[id] = stream[id]
      /\ entry' \in [Calls -> State] /\ Len(entry'[c]) = n
      /\ \A i \in 1..n : entry'[c][i] = <<c, i>>
      /\ \A d \in Calls : d # c => entry'[d] = entry[d]
      /\ turn' \in [Calls -> Nat]
      /\ turn'[c] = IF n = 0 THEN Len(Dispatchers) + 1 ELSE 1
      /\ \A d \in Calls : d # c => turn'[d] = turn[d]
      /\ status'[c] \in {"appended", "failed"}
      /\ \A d \in Calls : d # c => status'[d] = status[d]
      /\ status' \in [Calls -> {"pending", "observed", "appended", "acked", "failed"}]
      /\ UNCHANGED <<target, next, held, views>>

LEMMA CommitAppends ==
  ASSUME DispatchInv, NEW c \in Calls, Commit(c)
  PROVE  \E n \in 0..MaxEvents : Appends(c, n)
  <1> DEFINE id0 == target[c]
             old == stream[id0]
             new == stream'[id0]
  <1>1. /\ status[c] = "observed" /\ id0 \in Ids /\ old \in State
        /\ stream \in [Ids -> State] /\ entry \in [Calls -> State]
        /\ turn \in [Calls -> Nat] /\ next \in [Calls -> Nat]
        /\ status \in [Calls -> {"pending", "observed", "appended", "acked", "failed"}]
        /\ UNCHANGED <<target, next, held, views>>
    BY DEF DispatchInv, Types, Commit, Log!AppendEvents, Log!AppendNothing
  <1>2. Len(Dispatchers) \in Nat /\ Len(old) \in Nat /\ old \in Seq(Event)
    BY <1>1, DispatchersAssumption, LenProperties DEF State
  <1>3. \E n \in 0..MaxEvents :
          /\ stream' = [stream EXCEPT ![id0] = @ \o NewEvents(c, n)]
          /\ \/ status' = [status EXCEPT ![c] = "appended"]
             \/ status' = [status EXCEPT ![c] = "failed"]
    <2>1. CASE Log!AppendEvents(c)
      <3>1. PICK n \in 1..MaxEvents :
              stream' = [stream EXCEPT ![target[c]] = @ \o Log!NewEvents(c, n)]
        BY <2>1 DEF Log!AppendEvents
      <3>2. Log!NewEvents(c, n) = NewEvents(c, n) /\ n \in 0..MaxEvents
        BY MaxEventsAssumption DEF Log!NewEvents, NewEvents
      <3>3. \/ status' = [status EXCEPT ![c] = "appended"]
            \/ status' = [status EXCEPT ![c] = "failed"]
        BY <2>1 DEF Log!AppendEvents
      <3>. QED BY <3>1, <3>2, <3>3
    <2>2. CASE Log!AppendNothing(c)
      <3>1. NewEvents(c, 0) = <<>>
        BY EmptySeq DEF NewEvents
      <3>2. stream = [stream EXCEPT ![id0] = @ \o NewEvents(c, 0)]
        BY <1>1, <1>2, <3>1, ConcatEmptySeq
      <3>. QED BY <2>2, <3>2, MaxEventsAssumption DEF Log!AppendNothing
    <2>. QED BY <2>1, <2>2 DEF Commit
  <1>4. PICK n \in 0..MaxEvents :
          /\ stream' = [stream EXCEPT ![id0] = @ \o NewEvents(c, n)]
          /\ \/ status' = [status EXCEPT ![c] = "appended"]
             \/ status' = [status EXCEPT ![c] = "failed"]
    BY <1>3
  <1>5. n \in Nat /\ n <= MaxEvents
    BY MaxEventsAssumption
  <1>6. /\ NewEvents(c, n) \in Seq(Event) /\ Len(NewEvents(c, n)) = n
        /\ \A i \in 1..n : NewEvents(c, n)[i] = <<c, i>>
    BY NewEventsType DEF State, NewEvents
  <1>7. /\ old \o NewEvents(c, n) \in Seq(Event)
        /\ Len(old \o NewEvents(c, n)) = Len(old) + n
        /\ \A i \in 1..(Len(old) + n) : (old \o NewEvents(c, n))[i] =
             IF i <= Len(old) THEN old[i] ELSE NewEvents(c, n)[i - Len(old)]
    <2>1. PICK s, t : s = old /\ t = NewEvents(c, n)
      OBVIOUS
    <2>2. s \in Seq(Event) /\ t \in Seq(Event)
      BY <1>2, <1>6, <2>1
    <2>3. /\ s \o t \in Seq(Event) /\ Len(s \o t) = Len(s) + Len(t)
          /\ \A i \in 1..(Len(s) + Len(t)) :
               (s \o t)[i] = IF i <= Len(s) THEN s[i] ELSE t[i - Len(s)]
      BY <2>2, ConcatProperties
    <2>. QED BY <1>6, <2>1, <2>3
  <1>8. /\ new = old \o NewEvents(c, n)
        /\ \A id \in Ids : id # id0 => stream'[id] = stream[id]
        /\ stream' \in [Ids -> State]
    <2>1. new = old \o NewEvents(c, n)
      BY <1>1, <1>4
    <2>2. \A id \in Ids : id # id0 => stream'[id] = stream[id]
      BY <1>1, <1>4
    <2>3. stream' = [stream EXCEPT ![id0] = old \o NewEvents(c, n)]
      BY <1>4
    <2>4. old \o NewEvents(c, n) \in State
      BY <1>7 DEF State
    <2>5. stream' \in [Ids -> State]
      BY <1>1, <2>3, <2>4
    <2>. QED BY <2>1, <2>2, <2>5
  <1>9. /\ new \in Seq(Event) /\ Len(new) = Len(old) + n
         /\ DOMAIN new = 1..(Len(old) + n)
    BY <1>7, <1>8, LenProperties
  <1>10. ASSUME NEW i \in 1..Len(old)
         PROVE  i \in 1..(Len(old) + n) /\ new[i] = old[i]
    BY <1>2, <1>5, <1>7, <1>8
  <1>11. ASSUME NEW i \in 1..n
         PROVE  Len(old) + i \in 1..(Len(old) + n) /\ new[Len(old) + i] = <<c, i>>
    <2>1. /\ Len(old) + i \in 1..(Len(old) + n)
          /\ ~ (Len(old) + i <= Len(old)) /\ Len(old) + i - Len(old) = i
      BY <1>2, <1>5
    <2>. QED BY <1>6, <1>7, <1>8, <2>1
  <1> HIDE DEF new, old
  <1>12. /\ SubSeq(new, Len(old) + 1, Len(new)) \in State
         /\ Len(SubSeq(new, Len(old) + 1, Len(new))) = n
         /\ \A i \in 1..n : SubSeq(new, Len(old) + 1, Len(new))[i] = <<c, i>>
    <2> DEFINE m == Len(old)
               e == m + n
    <2>1. m \in Nat /\ m + 1 \in Nat /\ m + 1 \in Int /\ e \in Nat /\ e \in Int
          /\ m + 1 >= 1 /\ (m + 1 <= e => e - (m + 1) + 1 = n) /\ (m + 1 > e => n = 0)
          /\ \A i \in 1..n : m + 1 + i - 1 = m + i
      BY <1>2, <1>5
    <2>2. Len(new) = e /\ \A i \in (m + 1)..e : new[i] \in Event
      BY <1>9, <2>1, ElementOfSeq
    <2>3. \A i \in 1..n : new[m + i] = <<c, i>>
      BY <1>11
    <2> HIDE DEF m, e
    <2>4. /\ SubSeq(new, m + 1, e) \in Seq(Event)
          /\ Len(SubSeq(new, m + 1, e)) = IF m + 1 <= e THEN e - (m + 1) + 1 ELSE 0
          /\ \A i \in 1..(e - (m + 1) + 1) : SubSeq(new, m + 1, e)[i] = new[m + 1 + i - 1]
      BY <2>1, <2>2, SubSeqProperties
    <2>5. m + 1 <= e \/ m + 1 > e
      BY <2>1
    <2>6. Len(SubSeq(new, m + 1, e)) = n
      BY <2>1, <2>4, <2>5
    <2>7. ASSUME NEW i \in 1..n PROVE SubSeq(new, m + 1, e)[i] = <<c, i>>
      <3>1. n # 0 /\ m + 1 <= e
        BY <1>5, <2>1, <2>5
      <3>2. i \in 1..(e - (m + 1) + 1)
        BY <2>1, <3>1
      <3>. QED BY <2>1, <2>3, <2>4, <3>2
    <2>. QED BY <2>2, <2>4, <2>6, <2>7 DEF m, State
  <1>13. /\ entry'[c] \in State /\ Len(entry'[c]) = n
         /\ \A i \in 1..n : entry'[c][i] = <<c, i>>
         /\ \A d \in Calls : d # c => entry'[d] = entry[d]
         /\ entry' \in [Calls -> State]
    BY <1>1, <1>12 DEF Commit, new, old
  <1>14. /\ turn'[c] = IF n = 0 THEN Len(Dispatchers) + 1 ELSE 1
         /\ turn' \in [Calls -> Nat]
         /\ \A d \in Calls : d # c => turn'[d] = turn[d]
    <2>1. turn' = [turn EXCEPT ![c] =
                     IF Len(new) = Len(old) THEN Len(Dispatchers) + 1 ELSE 1]
      BY DEF Commit, new, old
    <2>2. Len(new) = Len(old) <=> n = 0
      BY <1>2, <1>5, <1>9
    <2>. QED BY <1>1, <1>2, <2>1, <2>2
  <1>15. /\ status'[c] \in {"appended", "failed"}
         /\ \A d \in Calls : d # c => status'[d] = status[d]
         /\ status' \in [Calls -> {"pending", "observed", "appended", "acked", "failed"}]
    BY <1>1, <1>4
  <1>16. Appends(c, n)
    BY <1>1, <1>8, <1>9, <1>10, <1>11, <1>13, <1>14, <1>15 DEF Appends, new, old
  <1>. QED BY <1>16

(* A commit: the call's events, all of them, are new to the streams, and   *)
(* no dispatcher had its turn for any.                                     *)
LEMMA CommitKeeps ==
  ASSUME DispatchInv, NEW c \in Calls, Commit(c)
  PROVE  DispatchInv'
  <1> DEFINE id0 == target[c]
             old == stream[id0]
             new == stream'[id0]
  <1>1. /\ status[c] = "observed" /\ id0 \in Ids /\ old \in State
        /\ stream \in [Ids -> State] /\ next \in [Calls -> Nat]
        /\ UNCHANGED <<target, next, held, views>>
    BY DEF DispatchInv, Types, Commit, Log!AppendEvents, Log!AppendNothing
  <1>2. /\ entry[c] = <<>> /\ turn[c] = 1 /\ next[c] = 1 /\ held[c] = NotHeld
    BY <1>1 DEF DispatchInv, Cursors
  <1>3. Len(Dispatchers) \in Nat /\ Len(old) \in Nat /\ old \in Seq(Event)
    BY <1>1, DispatchersAssumption, LenProperties DEF State
  <1>4. PICK n \in 0..MaxEvents : Appends(c, n)
    BY CommitAppends
  <1>5. n \in Nat /\ n <= MaxEvents
    BY MaxEventsAssumption
  <1>6. stream' \in [Ids -> State] /\ \A id \in Ids : id # id0 => stream'[id] = stream[id]
    BY <1>4 DEF Appends
  <1>7. DOMAIN new = 1..(Len(old) + n)
    BY <1>4 DEF Appends
  <1>8. ASSUME NEW i \in 1..Len(old)
         PROVE  i \in 1..(Len(old) + n) /\ new[i] = old[i]
    BY <1>4 DEF Appends
  <1>9. ASSUME NEW i \in 1..n
         PROVE  Len(old) + i \in 1..(Len(old) + n) /\ new[Len(old) + i] = <<c, i>>
    BY <1>4 DEF Appends
  <1>10. /\ Len(entry'[c]) = n /\ \A i \in 1..n : entry'[c][i] = <<c, i>>
         /\ \A d \in Calls : d # c => entry'[d] = entry[d]
         /\ entry' \in [Calls -> State]
    BY <1>4 DEF Appends
  <1>11. /\ turn'[c] = IF n = 0 THEN Len(Dispatchers) + 1 ELSE 1
         /\ turn' \in [Calls -> Nat]
         /\ \A d \in Calls : d # c => turn'[d] = turn[d]
    BY <1>4 DEF Appends
  <1>12. /\ status'[c] \in {"appended", "failed"}
         /\ \A d \in Calls : d # c => status'[d] = status[d]
         /\ status' \in [Calls -> {"pending", "observed", "appended", "acked", "failed"}]
    BY <1>4 DEF Appends
  <1> HIDE DEF new, old
  <1>13. Types'
    BY <1>1, <1>6, <1>10, <1>11, <1>12 DEF DispatchInv, Types
  <1>14. Entries'
    <2>1. ASSUME NEW id \in Ids, NEW m \in DOMAIN stream[id]
          PROVE  m \in DOMAIN stream'[id] /\ stream'[id][m] = stream[id][m]
      BY <1>3, <1>6, <1>7, <1>8, LenProperties DEF new, old
    <2>2. ASSUME NEW i \in 1..n
          PROVE  \E m \in DOMAIN stream'[id0] : stream'[id0][m] = <<c, i>>
      BY <1>7, <1>9 DEF new
    <2> SUFFICES ASSUME NEW d \in Calls, NEW i \in 1..Len(entry'[d])
                 PROVE  /\ entry'[d][i] = <<d, i>>
                        /\ \E id \in Ids : \E m \in DOMAIN stream'[id] :
                             stream'[id][m] = <<d, i>>
      BY DEF Entries
    <2>3. CASE d = c
      BY <1>1, <1>10, <2>2, <2>3
    <2>4. CASE d # c
      <3>1. /\ entry[d][i] = <<d, i>>
            /\ \E id \in Ids : \E m \in DOMAIN stream[id] : stream[id][m] = <<d, i>>
        BY <1>10, <2>4 DEF DispatchInv, Entries
      <3>. QED BY <1>10, <2>1, <2>4, <3>1
    <2>. QED BY <2>3, <2>4
  <1>15. Cursors'
    <2> SUFFICES ASSUME NEW d \in Calls
                 PROVE  /\ status'[d] \in {"pending", "observed"} =>
                             /\ entry'[d] = <<>> /\ turn'[d] = 1 /\ next[d] = 1
                             /\ held[d] = NotHeld
                        /\ held[d] # NotHeld =>
                             Dispatching(d)' \/ status'[d] = "failed"
                        /\ Dispatching(d)' \/ held[d] # NotHeld =>
                             /\ turn'[d] \in 1..Len(Dispatchers)
                             /\ next[d] \in 1..Len(entry'[d])
      BY <1>1 DEF Cursors
    <2>1. CASE d = c
      BY <1>2, <1>3, <1>5, <1>10, <1>11, <1>12, <2>1 DEF Dispatching
    <2>2. CASE d # c
      <3>1. entry'[d] = entry[d] /\ turn'[d] = turn[d] /\ status'[d] = status[d]
        BY <1>10, <1>11, <1>12, <2>2
      <3>. QED BY <3>1 DEF DispatchInv, Cursors, Dispatching
    <2>. QED BY <2>1, <2>2
  <1>16. ASSUME NEW k \in Nat PROVE Handed[k] \subseteq Handed'[k]
    <2> SUFFICES ASSUME NEW d \in Calls, NEW i \in 1..MaxEvents,
                        <<d, i>> \in Handed[k]
                 PROVE  <<d, i>> \in Handed'[k]
      BY DEF Handed, Event
    <2>1. d # c
      <3>1. i >= 1 /\ i \in Nat /\ i <= Len(entry[d])
        BY MaxEventsAssumption DEF Handed, Event
      <3>2. Len(<<>>) = 0
        BY EmptySeq
      <3>. QED BY <1>2, <3>1, <3>2
    <2>2. entry'[d] = entry[d] /\ turn'[d] = turn[d] /\ status'[d] = status[d]
      BY <1>10, <1>11, <1>12, <2>1
    <2>. QED BY <1>1, <2>2 DEF Handed, Event
  <1>17. ViewsClean'
    BY <1>1, <1>16, ViewsStayClean
  <1>18. HeldClean'
    <2> SUFFICES ASSUME NEW d \in Calls, held'[d] # NotHeld
                 PROVE  Clean(Handed'[turn'[d]], held'[d])
      BY DEF HeldClean
    <2>1. d # c
      BY <1>1, <1>2
    <2>. QED BY <1>1, <1>11, <1>16, <2>1, OthersStayClean
  <1>. QED BY <1>13, <1>14, <1>15, <1>17, <1>18 DEF DispatchInv

-----------------------------------------------------------------------------
LEMMA DispatchBegins == Init => DispatchInv
  <1> SUFFICES ASSUME Init PROVE DispatchInv
    OBVIOUS
  <1>1. <<>> \in State /\ Len(<<>>) = 0 /\ \A id \in Ids : stream[id] = <<>>
    BY EmptySeq DEF State, Init, Log!Init
  <1>2. Types
    BY <1>1 DEF Init, Log!Init, Types
  <1>3. Entries
    BY <1>1 DEF Init, Entries
  <1>4. Cursors
    BY <1>1, DispatchersAssumption, LenProperties
       DEF Init, Log!Init, Cursors, Dispatching
  <1>5. ViewsClean /\ HeldClean
    BY <1>1 DEF Init, ViewsClean, HeldClean, Clean
  <1>. QED BY <1>2, <1>3, <1>4, <1>5 DEF DispatchInv

LEMMA AdvanceMoves ==
  ASSUME DispatchInv, NEW c \in Calls, Advance(c),
         UNCHANGED <<target, stream, status, entry>>
  PROVE  Moves(c)
  <1>1. turn \in [Calls -> Nat] /\ next \in [Calls -> Nat]
    BY DEF DispatchInv, Types
  <1>2. CASE next[c] < Len(entry[c])
    BY <1>1, <1>2 DEF Advance, Moves
  <1>3. CASE ~ (next[c] < Len(entry[c]))
    <2>1. next' = [next EXCEPT ![c] = 1] /\ turn' = [turn EXCEPT ![c] = @ + 1]
      BY <1>3 DEF Advance
    <2>. QED BY <1>1, <2>1 DEF Advance, Moves
  <1>. QED BY <1>2, <1>3

(* The steps of the dispatchers, as moves.                                 *)
LEMMA DispatchKeeps ==
  ASSUME DispatchInv, NEW c \in Calls,
         FindView(c) \/ SaveView(c) \/ DispatcherFails(c)
  PROVE  DispatchInv'
  <1>1. turn \in [Calls -> Nat] /\ next \in [Calls -> Nat]
    BY DEF DispatchInv, Types
  <1>2. CASE FindView(c) /\ entry[c][next[c]] \in Shown
    BY <1>2, FindKeeps DEF FindView
  <1>3. CASE FindView(c) /\ entry[c][next[c]] \notin Shown
    <2>1. Dispatching(c) /\ Moves(c) /\ views' = views
      BY <1>3, AdvanceMoves DEF FindView, logVars
    <2>. QED BY <2>1, MoveKeeps
  <1>4. CASE SaveView(c)
    <2>1. Dispatching(c) /\ Moves(c) /\ held[c] # NotHeld /\ views' = Saved(c)
      BY <1>4, AdvanceMoves DEF SaveView, logVars
    <2>. QED BY <2>1, MoveKeeps
  <1>5. CASE DispatcherFails(c)
    <2>1. /\ Dispatching(c) /\ Moves(c)
          /\ views' = views \/ (held[c] # NotHeld /\ views' = Saved(c))
      BY <1>1, <1>5 DEF DispatcherFails, Moves, logVars
    <2>. QED BY <2>1, MoveKeeps
  <1>. QED BY <1>2, <1>3, <1>4, <1>5

LEMMA DispatchStays == DispatchInv /\ [Next]_vars => DispatchInv'
  <1> SUFFICES ASSUME DispatchInv, [Next]_vars PROVE DispatchInv'
    OBVIOUS
  <1>1. ASSUME NEW c \in Calls,
               Step(c) \/ DispatcherFails(c) \/ Drop(c) \/ LateSave(c)
        PROVE  DispatchInv'
    BY <1>1, StatusKeeps, CommitKeeps, DispatchKeeps, LateSaveKeeps DEF Step
  <1>2. CASE UNCHANGED vars
    <2>1. UNCHANGED <<target, stream, status, entry, turn, next, held, views>>
      BY <1>2 DEF vars, logVars, cursor
    <2>2. Types' /\ Entries'
      BY <2>1 DEF DispatchInv, Types, Entries
    <2>3. Cursors'
      BY <2>1 DEF DispatchInv, Cursors, Dispatching
    <2>4. Handed' = Handed
      BY <2>1 DEF Handed
    <2>5. ViewsClean' /\ HeldClean'
      BY <2>1, <2>4 DEF DispatchInv, ViewsClean, HeldClean, Clean
    <2>. QED BY <2>2, <2>3, <2>5 DEF DispatchInv
  <1>. QED BY <1>1, <1>2 DEF Next, Idle

(* A view never counts an event twice, nor one that is in no stream.       *)
THEOREM NoEventTwice == Spec => []AppliedAtMostOnce
  <1>1. DispatchInv => AppliedAtMostOnce
    <2> SUFFICES ASSUME DispatchInv,
                        NEW k \in DOMAIN Dispatchers, NEW v \in ViewIds
                 PROVE  /\ \A i, j \in DOMAIN views[k][v] :
                             views[k][v][i] = views[k][v][j] => i = j
                        /\ \A i \in DOMAIN views[k][v] :
                             \E id \in Ids : views[k][v][i] \in Committed(id)
      BY DEF AppliedAtMostOnce
    <2> DEFINE w == views[k][v]
    <2>1. Clean(Handed[k], w) /\ k \in Nat
      BY DispatchersAssumption, LenProperties DEF DispatchInv, ViewsClean
    <2> HIDE DEF w
    <2>2. DOMAIN w = 1..Len(w)
      BY <2>1, LenProperties DEF Clean, State
    <2>3. ASSUME NEW i \in DOMAIN w
          PROVE  \E id \in Ids : w[i] \in Committed(id)
      <3>1. w[i] \in Handed[k]
        BY <2>1, <2>2 DEF Clean
      <3>2. PICK c \in Calls, n \in 1..MaxEvents :
              w[i] = <<c, n>> /\ n <= Len(entry[c])
        BY <2>1, <3>1 DEF Handed, Event
      <3>3. n \in 1..Len(entry[c])
        BY <3>2, MaxEventsAssumption, LenProperties DEF DispatchInv, Types, State
      <3>4. \E id \in Ids : \E m \in DOMAIN stream[id] : stream[id][m] = <<c, n>>
        BY <3>3 DEF DispatchInv, Entries
      <3>. QED BY <3>2, <3>4 DEF Committed
    <2>. QED BY <2>1, <2>2, <2>3 DEF Clean, w
  <1>. QED BY <1>1, DispatchBegins, DispatchStays, PTL DEF Spec

-----------------------------------------------------------------------------
(* The dispatcher k took event i of call c, did not fail the call, and no  *)
(* other call had a hold of the view.                                      *)
Done(c, k, i) ==
  /\ k \in DOMAIN Dispatchers
  /\ i \in 1..Len(entry[c]) /\ <<c, i>> \in Shown
  /\ k < turn[c] \/ (k = turn[c] /\ i < next[c])
  /\ k \notin missed[c]
  /\ c \notin overlapped \/ Dispatchers[k] = "event"

Contains(view, event) == \E n \in 1..Len(view) : view[n] = event

(* A dispatch that may still save.                                         *)
Active(c) == Dispatching(c) \/ held[c] # NotHeld

Projected ==
  \A c \in Calls, k \in DOMAIN Dispatchers, i \in Nat :
    Done(c, k, i) =>
      Contains(views[k][ViewId(k, target[c], <<c, i>>)], <<c, i>>)

(* What a call is about to write back has not lost any of it.              *)
HeldProjected ==
  \A d \in Calls : held[d] # NotHeld =>
    \A c \in Calls, i \in Nat :
      Done(c, turn[d], i) /\ ViewId(turn[d], target[c], <<c, i>>) = View(d) =>
        Contains(held[d], <<c, i>>)

Marks ==
  /\ missed \in [Calls -> SUBSET DOMAIN Dispatchers]
  /\ \A c \in Calls : status[c] = "acked" => turn[c] > Len(Dispatchers)
  /\ \A c, d \in Calls :
       c # d /\ target[c] = target[d] /\ Active(c) /\ Active(d) => c \in overlapped

ProjectInv == DispatchInv /\ Marks /\ Projected /\ HeldProjected

LEMMA AppendContains ==
  ASSUME NEW s \in State, NEW e \in Event
  PROVE  /\ Contains(Append(s, e), e)
         /\ \A x : Contains(s, x) => Contains(Append(s, e), x)
  <1>1. s \in Seq(Event) /\ Len(s) \in Nat
    BY LenProperties DEF State
  <1>2. /\ Len(Append(s, e)) = Len(s) + 1
        /\ \A i \in 1..Len(s) : Append(s, e)[i] = s[i]
        /\ Append(s, e)[Len(s) + 1] = e
    BY <1>1, AppendProperties
  <1>. QED BY <1>1, <1>2 DEF Contains

(* Calls that meet over a view are of one aggregate, unless every event    *)
(* has its own view and they are the same call.                            *)
LEMMA MeetOverlapped ==
  ASSUME ProjectInv, NEW c \in Calls, NEW d \in Calls, c # d,
         Active(c), held[d] # NotHeld, turn[c] = turn[d],
         ViewId(turn[c], target[c], <<c, next[c]>>) = View(d)
  PROVE  c \in overlapped /\ Dispatchers[turn[c]] # "event"
  <1>1. entry[d][next[d]] = <<d, next[d]>> /\ turn[c] \in DOMAIN Dispatchers
    BY CurrentEvent DEF ProjectInv, Active
  <1>2. Dispatchers[turn[c]] \in {"aggregate", "event"}
    BY <1>1, DispatchersAssumption, LenProperties
  <1>3. Dispatchers[turn[c]] = "aggregate" /\ target[c] = target[d]
    BY <1>1, <1>2 DEF ViewId, View
  <1>. QED BY <1>3 DEF ProjectInv, Marks, Active

(* A save keeps the events of its view and adds the one that is done now.  *)
LEMMA SavedIsProjected ==
  ASSUME ProjectInv, NEW c \in Calls, held[c] # NotHeld, views' = Saved(c),
         target' = target,
         \A d \in Calls, k \in DOMAIN Dispatchers, i \in Nat :
           Done(d, k, i)' =>
             Done(d, k, i) \/ (d = c /\ k = turn[c] /\ i = next[c])
  PROVE  Projected'
  <1> DEFINE e == <<c, next[c]>>
             new == Append(held[c], e)
  <1>1. /\ turn[c] \in DOMAIN Dispatchers /\ e \in Event /\ View(c) \in ViewIds
        /\ entry[c][next[c]] = e
    BY CurrentEvent DEF ProjectInv
  <1>2. /\ views \in [DOMAIN Dispatchers -> [ViewIds -> State]]
        /\ held[c] \in State /\ target \in [Calls -> Ids]
    BY DEF ProjectInv, DispatchInv, Types
  <1>3. Contains(new, e) /\ \A x : Contains(held[c], x) => Contains(new, x)
    BY <1>1, <1>2, AppendContains
  <1>4. views' = [views EXCEPT ![turn[c]][View(c)] = new]
    BY <1>1 DEF Saved
  <1>5. View(c) = ViewId(turn[c], target[c], e)
    BY <1>1 DEF View
  <1> HIDE DEF new, e
  <1> SUFFICES ASSUME NEW d \in Calls, NEW k \in DOMAIN Dispatchers, NEW i \in Nat,
                      Done(d, k, i)'
               PROVE  Contains(views'[k][ViewId(k, target[d], <<d, i>>)], <<d, i>>)
    BY DEF Projected, Contains, ViewId
  <1> DEFINE v == ViewId(k, target[d], <<d, i>>)
  <1>6. CASE k = turn[c] /\ v = View(c)
    <2>1. views'[k][v] = new
      BY <1>1, <1>2, <1>4, <1>6
    <2>2. CASE Done(d, k, i)
      <3>1. Contains(held[c], <<d, i>>)
        BY <1>6, <2>2 DEF ProjectInv, HeldProjected
      <3>. QED BY <1>3, <2>1, <3>1
    <2>3. CASE d = c /\ i = next[c]
      BY <1>3, <2>1, <2>3 DEF e
    <2>. QED BY <2>2, <2>3
  <1>7. CASE ~ (k = turn[c] /\ v = View(c))
    <2>1. views'[k][v] = views[k][v]
      BY <1>1, <1>2, <1>4, <1>7
    <2>2. Done(d, k, i)
      BY <1>5, <1>7 DEF e
    <2>3. Contains(views[k][v], <<d, i>>)
      BY <2>2 DEF ProjectInv, Projected
    <2>. QED BY <2>1, <2>3
  <1>. QED BY <1>6, <1>7

(* A step that saves nothing does nothing more either.                     *)
LEMMA StillProjected ==
  ASSUME ProjectInv, UNCHANGED <<target, views>>,
         \A d \in Calls, k \in DOMAIN Dispatchers, i \in Nat :
           Done(d, k, i)' => Done(d, k, i)
  PROVE  Projected'
  BY DEF ProjectInv, Projected, ViewId, Contains

(* What a call that does not move holds, while others move.                *)
LEMMA OthersStayProjected ==
  ASSUME ProjectInv, NEW d \in Calls, held[d] # NotHeld,
         target' = target, held'[d] = held[d], turn'[d] = turn[d],
         next'[d] = next[d], entry'[d] = entry[d],
         \A c \in Calls, k \in DOMAIN Dispatchers, i \in Nat :
           Done(c, k, i)' =>
             \/ Done(c, k, i)
             \/ /\ c # d /\ Active(c) /\ k = turn[c] /\ i = next[c]
                /\ c \notin overlapped \/ Dispatchers[k] = "event"
  PROVE  \A c \in Calls, i \in Nat :
           /\ Done(c, turn[d], i)'
           /\ ViewId(turn'[d], target'[c], <<c, i>>) = View(d)'
           => Contains(held'[d], <<c, i>>)
  <1> SUFFICES ASSUME NEW c \in Calls, NEW i \in Nat, Done(c, turn[d], i)',
                      ViewId(turn'[d], target'[c], <<c, i>>) = View(d)'
               PROVE  Contains(held'[d], <<c, i>>)
    OBVIOUS
  <1>1. turn[d] \in DOMAIN Dispatchers
    BY CurrentEvent DEF ProjectInv
  <1>2. View(d)' = View(d) /\ ViewId(turn[d], target[c], <<c, i>>) = View(d)
    BY DEF View, ViewId
  <1>3. Done(c, turn[d], i)
    <2> SUFFICES ASSUME ~ Done(c, turn[d], i) PROVE FALSE
      OBVIOUS
    <2>1. /\ c # d /\ Active(c) /\ turn[d] = turn[c] /\ i = next[c]
          /\ c \notin overlapped \/ Dispatchers[turn[d]] = "event"
      BY <1>1
    <2>. QED BY <1>2, <2>1, MeetOverlapped
  <1>. QED BY <1>2, <1>3 DEF ProjectInv, HeldProjected

(* A dispatch moves on: past an event it saved, or one the view does not   *)
(* take, or to the next dispatcher, having failed this one.                *)
LEMMA MoveProjects ==
  ASSUME ProjectInv, NEW c \in Calls, Dispatching(c), Moves(c), DispatchInv',
         overlapped' = overlapped,
         missed' \in [Calls -> SUBSET DOMAIN Dispatchers],
         \A d \in Calls : missed[d] \subseteq missed'[d],
         \/ views' = views
         \/ held[c] # NotHeld /\ views' = Saved(c),
         \/ turn[c] \in missed'[c]
         \/ /\ turn'[c] # turn[c] => next[c] = Len(entry[c])
            /\ views' = views => <<c, next[c]>> \notin Shown
  PROVE  ProjectInv'
  <1>1. /\ turn[c] \in Nat /\ next[c] \in Nat /\ Len(entry[c]) \in Nat
        /\ next[c] >= 1 /\ next[c] <= Len(entry[c])
    BY CurrentEvent DEF ProjectInv
  <1>2. /\ UNCHANGED <<target, status, entry, overlapped>>
        /\ held' \in [Calls -> State \cup {NotHeld}] /\ held'[c] = NotHeld
        /\ \A d \in Calls : d # c =>
             turn'[d] = turn[d] /\ next'[d] = next[d] /\ held'[d] = held[d]
    BY DEF Moves, ProjectInv, DispatchInv, Types
  <1>3. /\ turn'[c] \in Nat /\ next'[c] \in Nat
        /\ \/ turn'[c] = turn[c] /\ next'[c] = next[c] + 1
           \/ turn'[c] = turn[c] + 1 /\ next'[c] = 1
    BY DEF Moves
  <1>4. ASSUME NEW d \in Calls, NEW k \in DOMAIN Dispatchers, NEW i \in Nat,
               Done(d, k, i)', ~ Done(d, k, i)
        PROVE  /\ d = c /\ k = turn[c] /\ i = next[c] /\ views' # views
               /\ c \notin overlapped \/ Dispatchers[k] = "event"
    <2>1. k \in Nat
      BY DispatchersAssumption, LenProperties
    <2>2. /\ i \in 1..Len(entry[d]) /\ <<d, i>> \in Shown
          /\ k < turn'[d] \/ (k = turn'[d] /\ i < next'[d])
          /\ k \notin missed'[d] /\ k \notin missed[d]
          /\ d \notin overlapped \/ Dispatchers[k] = "event"
      BY <1>2, <1>4 DEF Done
    <2>3. ~ (k < turn[d] \/ (k = turn[d] /\ i < next[d]))
      BY <1>4, <2>2 DEF Done
    <2>4. d = c
      BY <1>2, <2>2, <2>3
    <2>5. k = turn[c] /\ i >= next[c]
      BY <1>1, <1>3, <2>1, <2>2, <2>3, <2>4
    <2>6. i <= next[c]
      BY <1>1, <1>3, <2>2, <2>4, <2>5
    <2>7. i = next[c]
      BY <1>1, <2>5, <2>6
    <2>. QED BY <2>2, <2>4, <2>5, <2>7
  <1>5. Projected'
    <2>1. CASE views' = views
      BY <1>2, <1>4, <2>1, StillProjected
    <2>2. CASE views' # views
      BY <1>2, <1>4, <2>2, SavedIsProjected
    <2>. QED BY <2>1, <2>2
  <1>6. HeldProjected'
    <2> SUFFICES ASSUME NEW d \in Calls, held'[d] # NotHeld
                 PROVE  \A b \in Calls, i \in Nat :
                          /\ Done(b, turn[d], i)'
                          /\ ViewId(turn'[d], target'[b], <<b, i>>) = View(d)'
                          => Contains(held'[d], <<b, i>>)
      BY DEF HeldProjected, Contains, ViewId
    <2>1. d # c /\ Active(c)
      BY <1>2 DEF Active
    <2>. QED BY <1>2, <1>4, <2>1, OthersStayProjected
  <1>7. Marks'
    <2>1. \A d \in Calls : Active(d)' => Active(d)
      <3>1. ASSUME NEW d \in Calls, Active(d)' PROVE Active(d)
        <4>1. CASE d = c
          BY <4>1 DEF Active
        <4>2. CASE d # c
          BY <1>2, <3>1, <4>2 DEF Active, Dispatching
        <4>. QED BY <4>1, <4>2
      <3>. QED BY <3>1
    <2>2. ASSUME NEW d \in Calls, status'[d] = "acked" PROVE turn'[d] > Len(Dispatchers)
      <3>1. d # c /\ status[d] = "acked"
        BY <1>2, <2>2 DEF Dispatching
      <3>. QED BY <1>2, <3>1 DEF ProjectInv, Marks
    <2>. QED BY <1>2, <2>1, <2>2 DEF ProjectInv, Marks
  <1>. QED BY <1>5, <1>6, <1>7 DEF ProjectInv

(* A step that does nothing more, and after which no other call holds a    *)
(* view, or may save.                                                      *)
LEMMA QuietProjects ==
  ASSUME ProjectInv, DispatchInv', Projected',
         UNCHANGED <<target, entry, turn, next, missed>>,
         overlapped \subseteq overlapped',
         \A d \in Calls : status'[d] = "acked" => turn[d] > Len(Dispatchers),
         \A d \in Calls : held'[d] = held[d] \/ held'[d] = NotHeld,
         \A d \in Calls : Active(d)' => Active(d)
  PROVE  ProjectInv'
  <1>1. \A d \in Calls, k \in DOMAIN Dispatchers, i \in Nat :
          Done(d, k, i)' => Done(d, k, i)
    BY DEF Done
  <1>2. HeldProjected'
    <2> SUFFICES ASSUME NEW d \in Calls, held'[d] # NotHeld
                 PROVE  \A b \in Calls, i \in Nat :
                          /\ Done(b, turn[d], i)'
                          /\ ViewId(turn'[d], target'[b], <<b, i>>) = View(d)'
                          => Contains(held'[d], <<b, i>>)
      BY DEF HeldProjected, Contains, ViewId
    <2>. QED BY <1>1, OthersStayProjected
  <1>3. Marks'
    BY DEF ProjectInv, Marks
  <1>. QED BY <1>2, <1>3 DEF ProjectInv

LEMMA StatusProjects ==
  ASSUME ProjectInv, NEW c \in Calls, Before(c) \/ Answer(c) \/ Drop(c)
  PROVE  ProjectInv'
  <1>1. DispatchInv'
    BY StatusKeeps DEF ProjectInv
  <1>2. /\ UNCHANGED <<target, entry, turn, next, held, views, missed, overlapped>>
        /\ \E s \in {"observed", "acked", "failed"} :
             /\ status' = [status EXCEPT ![c] = s]
             /\ s = "acked" => turn[c] > Len(Dispatchers)
    BY DEF Before, Answer, Drop, cursor, Log!Observe, Log!Acknowledge, Log!Fail
  <1>3. PICK s \in {"observed", "acked", "failed"} :
          /\ status' = [status EXCEPT ![c] = s]
          /\ s = "acked" => turn[c] > Len(Dispatchers)
    BY <1>2
  <1>4. status'[c] = s /\ \A d \in Calls : d # c => status'[d] = status[d]
    BY <1>3 DEF ProjectInv, DispatchInv, Types
  <1>5. ASSUME NEW d \in Calls
        PROVE  status'[d] = "acked" => turn[d] > Len(Dispatchers)
    BY <1>3, <1>4 DEF ProjectInv, Marks
  <1>6. ASSUME NEW d \in Calls, Active(d)' PROVE Active(d)
    BY <1>2, <1>4, <1>6 DEF Active, Dispatching
  <1>7. Projected'
    BY <1>2, StillProjected DEF Done
  <1>. QED BY <1>1, <1>2, <1>5, <1>6, <1>7, QuietProjects

LEMMA LateSaveProjects ==
  ASSUME ProjectInv, NEW c \in Calls, LateSave(c)
  PROVE  ProjectInv'
  <1>1. DispatchInv'
    BY LateSaveKeeps DEF ProjectInv
  <1>2. /\ UNCHANGED <<target, status, entry, turn, next, missed, overlapped>>
        /\ held[c] # NotHeld /\ (views' = views \/ views' = Saved(c))
        /\ held' = [held EXCEPT ![c] = NotHeld]
    BY DEF LateSave, InFlight, logVars
  <1>3. \A d \in Calls : held'[d] = held[d] \/ held'[d] = NotHeld
    BY <1>2 DEF ProjectInv, DispatchInv, Types
  <1>4. ASSUME NEW d \in Calls, Active(d)' PROVE Active(d)
    BY <1>2, <1>3, <1>4 DEF Active, Dispatching
  <1>5. ASSUME NEW d \in Calls, NEW k \in DOMAIN Dispatchers, NEW i \in Nat,
               Done(d, k, i)'
        PROVE  Done(d, k, i)
    BY <1>2, <1>5 DEF Done
  <1>6. Projected'
    <2>1. CASE views' = views
      BY <1>2, <1>5, <2>1, StillProjected
    <2>2. CASE views' = Saved(c)
      BY <1>2, <1>5, <2>2, SavedIsProjected
    <2>. QED BY <1>2, <2>1, <2>2
  <1>7. \A d \in Calls : status'[d] = "acked" => turn[d] > Len(Dispatchers)
    BY <1>2 DEF ProjectInv, Marks
  <1>. QED BY <1>1, <1>2, <1>3, <1>4, <1>6, <1>7, QuietProjects

(* A view is found: it has what was done for it.                           *)
LEMMA FindProjects ==
  ASSUME ProjectInv, NEW c \in Calls, Dispatching(c), held[c] = NotHeld,
         held' = [held EXCEPT ![c] = views[turn[c]][View(c)]],
         UNCHANGED <<logVars, entry, turn, next, views, missed, overlapped>>
  PROVE  ProjectInv'
  <1>1. DispatchInv'
    BY FindKeeps DEF ProjectInv
  <1>2. UNCHANGED <<target, status, entry, turn, next, views, missed, overlapped>>
    BY DEF logVars
  <1>3. /\ held'[c] = views[turn[c]][View(c)]
        /\ \A d \in Calls : d # c => held'[d] = held[d]
    BY DEF ProjectInv, DispatchInv, Types
  <1>4. \A d \in Calls, k \in DOMAIN Dispatchers, i \in Nat :
          Done(d, k, i)' => Done(d, k, i)
    BY <1>2 DEF Done
  <1>5. Projected'
    BY <1>2, <1>4, StillProjected
  <1>6. HeldProjected'
    <2> SUFFICES ASSUME NEW d \in Calls, held'[d] # NotHeld
                 PROVE  \A b \in Calls, i \in Nat :
                          /\ Done(b, turn[d], i)'
                          /\ ViewId(turn'[d], target'[b], <<b, i>>) = View(d)'
                          => Contains(held'[d], <<b, i>>)
      BY DEF HeldProjected, Contains, ViewId
    <2>1. CASE d = c
      <3> SUFFICES ASSUME NEW b \in Calls, NEW i \in Nat, Done(b, turn[d], i)',
                          ViewId(turn'[d], target'[b], <<b, i>>) = View(d)'
                   PROVE  Contains(held'[d], <<b, i>>)
        OBVIOUS
      <3>1. turn[c] \in DOMAIN Dispatchers
        BY CurrentEvent DEF ProjectInv
      <3>2. View(d)' = View(c) /\ turn'[d] = turn[c] /\ target' = target
        BY <1>2, <2>1 DEF View, ViewId
      <3>3. Done(b, turn[c], i)
        BY <1>4, <2>1, <3>1, <3>2 DEF Done
      <3>4. ViewId(turn[c], target[b], <<b, i>>) = View(c)
        BY <3>2
      <3>5. Contains(views[turn[c]][View(c)], <<b, i>>)
        BY <3>1, <3>3, <3>4 DEF ProjectInv, Projected
      <3>. QED BY <1>3, <2>1, <3>5
    <2>2. CASE d # c
      BY <1>2, <1>3, <1>4, <2>2, OthersStayProjected
    <2>. QED BY <2>1, <2>2
  <1>7. Marks'
    <2>1. ASSUME NEW d \in Calls, Active(d)' PROVE Active(d)
      BY <1>2, <1>3, <2>1 DEF Active, Dispatching
    <2>. QED BY <1>2, <2>1 DEF ProjectInv, Marks
  <1>. QED BY <1>1, <1>5, <1>6, <1>7 DEF ProjectInv

(* A commit of events meets whoever may still save for the aggregate.      *)
LEMMA CommitOverlaps ==
  ASSUME DispatchInv, NEW c \in Calls, Commit(c),
         NEW n \in 0..MaxEvents, Appends(c, n)
  PROVE  /\ overlapped \subseteq overlapped'
         /\ n # 0 => \A d \in Calls :
              /\ d # c /\ target[d] = target[c] /\ (Dispatching(d) \/ InFlight(d))
              => d \in overlapped' /\ c \in overlapped'
  <1> DEFINE old == Len(stream[target[c]])
             others == {d \in Calls :
                          /\ d # c /\ target[d] = target[c]
                          /\ Dispatching(d) \/ InFlight(d)}
  <1>1. overlapped' = IF others = {} \/ Len(stream'[target[c]]) = old
                        THEN overlapped
                        ELSE overlapped \cup others \cup {c}
    BY DEF Commit
  <1>2. Len(stream'[target[c]]) = old + n /\ old \in Nat /\ n \in Nat
    <2>1. stream[target[c]] \in Seq(Event)
      BY DEF DispatchInv, Types, State
    <2>. QED BY <2>1, LenProperties, MaxEventsAssumption DEF Appends
  <1> HIDE DEF old
  <1>3. n # 0 => Len(stream'[target[c]]) # old
    BY <1>2
  <1>. QED BY <1>1, <1>3

(* A commit meets whoever dispatches for the aggregate already.            *)
LEMMA CommitProjects ==
  ASSUME ProjectInv, NEW c \in Calls, Commit(c)
  PROVE  ProjectInv'
  <1>1. DispatchInv'
    BY CommitKeeps DEF ProjectInv
  <1>2. PICK n \in 0..MaxEvents : Appends(c, n)
    BY CommitAppends DEF ProjectInv
  <1>3. status[c] = "observed"
    BY DEF Commit, Log!AppendEvents, Log!AppendNothing
  <1>4. entry[c] = <<>> /\ turn[c] = 1 /\ next[c] = 1 /\ held[c] = NotHeld
    BY <1>3 DEF ProjectInv, DispatchInv, Cursors
  <1>5. /\ UNCHANGED <<target, next, held, views, missed>>
        /\ Len(entry'[c]) = n /\ turn'[c] = IF n = 0 THEN Len(Dispatchers) + 1 ELSE 1
        /\ status'[c] \in {"appended", "failed"}
        /\ \A d \in Calls : d # c =>
             entry'[d] = entry[d] /\ turn'[d] = turn[d] /\ status'[d] = status[d]
    BY <1>2 DEF Appends, Commit
  <1>6. Len(Dispatchers) \in Nat
    BY DispatchersAssumption, LenProperties
  <1>7. /\ overlapped \subseteq overlapped'
        /\ n # 0 => \A d \in Calls :
             /\ d # c /\ target[d] = target[c] /\ (Dispatching(d) \/ InFlight(d))
             => d \in overlapped' /\ c \in overlapped'
    BY <1>2, CommitOverlaps DEF ProjectInv
  <1>8. ASSUME NEW d \in Calls, NEW k \in DOMAIN Dispatchers, NEW i \in Nat,
               Done(d, k, i)'
        PROVE  Done(d, k, i)
    <2>1. d # c
      <3> SUFFICES ASSUME Done(c, k, i)' PROVE FALSE
        BY <1>8
      <3>1. i \in 1..n /\ (k < turn'[c] \/ (k = turn'[c] /\ i < 1))
        BY <1>4, <1>5 DEF Done
      <3>2. n # 0 /\ k >= 1 /\ k \in Nat /\ i >= 1
        BY <3>1, MaxEventsAssumption, DispatchersAssumption, LenProperties
      <3>. QED BY <1>5, <3>1, <3>2
    <2>2. entry'[d] = entry[d] /\ turn'[d] = turn[d] /\ UNCHANGED <<next, missed>>
      BY <1>5, <2>1
    <2>. QED BY <1>7, <1>8, <2>2 DEF Done
  <1>9. Projected'
    BY <1>5, <1>8, StillProjected
  <1>10. HeldProjected'
    <2> SUFFICES ASSUME NEW d \in Calls, held'[d] # NotHeld
                 PROVE  \A b \in Calls, i \in Nat :
                          /\ Done(b, turn[d], i)'
                          /\ ViewId(turn'[d], target'[b], <<b, i>>) = View(d)'
                          => Contains(held'[d], <<b, i>>)
      BY DEF HeldProjected, Contains, ViewId
    <2>1. d # c
      BY <1>4, <1>5
    <2>. QED BY <1>5, <1>8, <2>1, OthersStayProjected
  <1>11. Marks'
    <2>1. Active(c)' => n # 0
      BY <1>4, <1>5, <1>6 DEF Active, Dispatching
    <2>2. ASSUME NEW d \in Calls, d # c, Active(d)' PROVE Active(d)
      BY <1>5, <2>2 DEF Active, Dispatching
    <2>3. ASSUME NEW d \in Calls, Active(d) PROVE Dispatching(d) \/ InFlight(d)
      BY <2>3 DEF Active, InFlight, ProjectInv, DispatchInv, Cursors
    <2>4. ASSUME NEW b \in Calls, NEW d \in Calls, b # d, target[b] = target[d],
                 Active(b)', Active(d)'
          PROVE  b \in overlapped'
      <3>1. CASE b # c /\ d # c
        BY <1>7, <2>2, <2>4, <3>1 DEF ProjectInv, Marks
      <3>2. CASE b = c
        BY <1>7, <2>1, <2>2, <2>3, <2>4, <3>2
      <3>3. CASE d = c
        BY <1>7, <2>1, <2>2, <2>3, <2>4, <3>3
      <3>. QED BY <3>1, <3>2, <3>3
    <2>5. ASSUME NEW d \in Calls, status'[d] = "acked" PROVE turn'[d] > Len(Dispatchers)
      <3>1. d # c /\ status[d] = "acked"
        BY <1>5, <2>5
      <3>. QED BY <1>5, <3>1 DEF ProjectInv, Marks
    <2>. QED BY <1>5, <2>4, <2>5 DEF ProjectInv, Marks
  <1>. QED BY <1>1, <1>9, <1>10, <1>11 DEF ProjectInv

LEMMA DispatchProjects ==
  ASSUME ProjectInv, NEW c \in Calls,
         FindView(c) \/ SaveView(c) \/ DispatcherFails(c)
  PROVE  ProjectInv'
  <1>1. DispatchInv /\ DispatchInv'
    BY DispatchKeeps DEF ProjectInv
  <1>2. /\ Dispatching(c) /\ UNCHANGED overlapped
        /\ missed \in [Calls -> SUBSET DOMAIN Dispatchers]
    BY DEF FindView, SaveView, DispatcherFails, ProjectInv, Marks
  <1>3. /\ turn[c] \in DOMAIN Dispatchers /\ entry[c][next[c]] = <<c, next[c]>>
        /\ next[c] \in Nat /\ Len(entry[c]) \in Nat /\ next[c] <= Len(entry[c])
    BY <1>1, <1>2, CurrentEvent
  <1>4. turn \in [Calls -> Nat] /\ next \in [Calls -> Nat]
    BY <1>1 DEF DispatchInv, Types
  <1>5. ASSUME Advance(c), turn'[c] # turn[c] PROVE next[c] = Len(entry[c])
    BY <1>3, <1>5 DEF Advance
  <1>6. CASE FindView(c) /\ entry[c][next[c]] \in Shown
    BY <1>6, FindProjects DEF FindView
  <1>7. CASE FindView(c) /\ entry[c][next[c]] \notin Shown
    <2>1. /\ Moves(c) /\ Advance(c) /\ views' = views /\ missed' = missed
          /\ <<c, next[c]>> \notin Shown
      BY <1>1, <1>3, <1>7, AdvanceMoves DEF FindView, logVars
    <2>. QED BY <1>1, <1>2, <1>5, <2>1, MoveProjects
  <1>8. CASE SaveView(c)
    <2>1. /\ Moves(c) /\ Advance(c) /\ held[c] # NotHeld /\ views' = Saved(c)
          /\ missed' = missed
      BY <1>1, <1>8, AdvanceMoves DEF SaveView, logVars
    <2>2. views' # views
      <3>1. ViewsClean /\ ViewsClean' /\ turn[c] \in Nat /\ View(c) \in ViewIds
        BY <1>1, <1>2, CurrentEvent DEF DispatchInv
      <3>2. held[c] \in State /\ views \in [DOMAIN Dispatchers -> [ViewIds -> State]]
        BY <1>1, <2>1 DEF DispatchInv, Types
      <3>3. <<c, next[c]>> \in Event
        BY <1>1, <1>2, CurrentEvent
      <3>4. views'[turn[c]][View(c)] = Append(held[c], <<c, next[c]>>)
        BY <1>3, <2>1, <3>1, <3>2 DEF Saved
      <3>5. Contains(views'[turn[c]][View(c)], <<c, next[c]>>)
        BY <3>2, <3>3, <3>4, AppendContains
      <3>6. <<c, next[c]>> \notin Handed[turn[c]]
        BY <1>2, <1>3, <1>4, <3>1, <3>3 DEF Handed, Dispatching, Event
      <3>7. Clean(Handed[turn[c]], views[turn[c]][View(c)])
        BY <1>3, <3>1 DEF ViewsClean
      <3>8. ~ Contains(views[turn[c]][View(c)], <<c, next[c]>>)
        BY <3>6, <3>7 DEF Clean, Contains
      <3>. QED BY <3>5, <3>8
    <2>. QED BY <1>1, <1>2, <1>5, <2>1, <2>2, MoveProjects
  <1>9. CASE DispatcherFails(c)
    <2>1. /\ Moves(c)
          /\ views' = views \/ (held[c] # NotHeld /\ views' = Saved(c))
      BY <1>4, <1>9 DEF DispatcherFails, Moves, logVars
    <2>2. missed' = [missed EXCEPT ![c] = @ \cup {turn[c]}]
      BY <1>9 DEF DispatcherFails
    <2>3. /\ missed' \in [Calls -> SUBSET DOMAIN Dispatchers]
          /\ turn[c] \in missed'[c] /\ \A d \in Calls : missed[d] \subseteq missed'[d]
      BY <1>2, <1>3, <2>2
    <2>. QED BY <1>1, <1>2, <2>1, <2>3, MoveProjects
  <1>. QED BY <1>6, <1>7, <1>8, <1>9

LEMMA ProjectStays == ProjectInv /\ [Next]_vars => ProjectInv'
  <1> SUFFICES ASSUME ProjectInv, [Next]_vars PROVE ProjectInv'
    OBVIOUS
  <1>1. ASSUME NEW c \in Calls,
               Step(c) \/ DispatcherFails(c) \/ Drop(c) \/ LateSave(c)
        PROVE  ProjectInv'
    BY <1>1, StatusProjects, CommitProjects, DispatchProjects, LateSaveProjects
       DEF Step
  <1>2. CASE UNCHANGED vars
    <2>1. DispatchInv'
      BY <1>2, DispatchStays DEF ProjectInv
    <2>2. /\ UNCHANGED <<target, status, entry, turn, next, held, views, missed>>
          /\ UNCHANGED overlapped
      BY <1>2 DEF vars, logVars, cursor
    <2>3. Projected'
      BY <2>2, StillProjected DEF Done
    <2>. QED BY <2>1, <2>2, <2>3, QuietProjects
             DEF ProjectInv, Marks, Active, Dispatching
  <1>. QED BY <1>1, <1>2 DEF Next, Idle

LEMMA ProjectBegins == Init => ProjectInv
  <1> SUFFICES ASSUME Init PROVE ProjectInv
    OBVIOUS
  <1>1. DispatchInv
    BY DispatchBegins
  <1>2. /\ entry = [c \in Calls |-> <<>>] /\ held = [c \in Calls |-> NotHeld]
        /\ missed = [c \in Calls |-> {}]
        /\ status = [c \in Calls |-> "pending"]
    BY DEF Init, Log!Init
  <1>3. \A c \in Calls : entry[c] = <<>> /\ Len(<<>>) = 0
    BY <1>2, EmptySeq
  <1>4. Marks
    BY <1>2 DEF Marks, Active, Dispatching
  <1>5. Projected /\ HeldProjected
    BY <1>2, <1>3 DEF Projected, HeldProjected, Done
  <1>. QED BY <1>1, <1>4, <1>5 DEF ProjectInv

LEMMA DoneWhenAcked == ProjectInv => AcknowledgedIsProjected
  <1> SUFFICES ASSUME ProjectInv, NEW c \in Calls, NEW k \in DOMAIN Dispatchers,
                      status[c] = "acked", k \notin missed[c],
                      c \notin overlapped \/ Dispatchers[k] = "event",
                      NEW i \in DOMAIN entry[c], entry[c][i] \in Shown
               PROVE  LET view == views[k][ViewId(k, target[c], entry[c][i])]
                      IN  \E n \in DOMAIN view : view[n] = entry[c][i]
    BY DEF AcknowledgedIsProjected, ShownIn
  <1> DEFINE v == ViewId(k, target[c], entry[c][i])
  <1>1. entry[c] \in State /\ target[c] \in Ids
        /\ views \in [DOMAIN Dispatchers -> [ViewIds -> State]]
    BY DEF ProjectInv, DispatchInv, Types
  <1>2. i \in 1..Len(entry[c]) /\ Len(entry[c]) \in Nat /\ entry[c][i] \in Event
    BY <1>1, LenProperties, ElementOfSeq DEF State
  <1>3. entry[c][i] = <<c, i>> /\ i \in Nat
    BY <1>2 DEF ProjectInv, DispatchInv, Entries
  <1>4. k < turn[c]
    <2>1. k \in 1..Len(Dispatchers) /\ Len(Dispatchers) \in Nat
      BY DispatchersAssumption, LenProperties
    <2>2. turn[c] > Len(Dispatchers) /\ turn[c] \in Nat
      BY DEF ProjectInv, Marks, DispatchInv, Types
    <2>. QED BY <2>1, <2>2
  <1>5. Done(c, k, i)
    BY <1>2, <1>3, <1>4 DEF Done
  <1>6. Contains(views[k][v], <<c, i>>)
    BY <1>3, <1>5 DEF ProjectInv, Projected
  <1>7. v \in ViewIds
    BY <1>1, <1>2 DEF ViewId, ViewIds
  <1>8. DOMAIN views[k][v] = 1..Len(views[k][v])
    BY <1>1, <1>7, LenProperties DEF State
  <1>. QED BY <1>3, <1>6, <1>8 DEF Contains

(* The events of an acknowledged call are in the views of every dispatcher *)
(* that did not fail it, unless another dispatch of the aggregate met its  *)
(* own over a view they share.                                             *)
THEOREM AcknowledgedAreProjected == Spec => []AcknowledgedIsProjected
  BY ProjectBegins, ProjectStays, DoneWhenAcked, PTL DEF Spec

-----------------------------------------------------------------------------
(* No two dispatches of the aggregate ever met.                            *)
Quiet(id) == \A c \in Calls : target[c] = id => c \notin overlapped

(* The view of an aggregate: events of its calls, in order if it is quiet. *)
Orderly(id, view) ==
  /\ \A i \in 1..Len(view) : target[view[i][1]] = id /\ view[i] \in Shown
  /\ Quiet(id) =>
       \A i, j \in 1..Len(view) : i < j => Follows(id, view[i], view[j])

(* Streams are made of what their calls committed, in the order of the     *)
(* results; and a call that nobody met has the end of its stream.          *)
Streams ==
  /\ \A id \in Ids : \A m \in DOMAIN stream[id] :
       \E c \in Calls : \E i \in 1..Len(entry[c]) :
         stream[id][m] = <<c, i>> /\ target[c] = id
  /\ \A c \in Calls : \A i, j \in 1..Len(entry[c]) :
       i < j => Follows(target[c], <<c, i>>, <<c, j>>)
  /\ \A c \in Calls : Active(c) /\ c \notin overlapped =>
       \A m, n \in DOMAIN stream[target[c]] :
         m < n /\ stream[target[c]][m][1] = c => stream[target[c]][n][1] = c

ViewsOrderly ==
  \A k \in DOMAIN Dispatchers, id \in Ids :
    Dispatchers[k] = "aggregate" => Orderly(id, views[k][id])

HeldOrderly ==
  \A c \in Calls : held[c] # NotHeld =>
    /\ <<c, next[c]>> \in Shown
    /\ Dispatchers[turn[c]] = "aggregate" => Orderly(target[c], held[c])

OrderInv == ProjectInv /\ Streams /\ ViewsOrderly /\ HeldOrderly

(* The next event comes after what is in the view: its call has the end of *)
(* the stream, and the view has what the call did before.                  *)
LEMMA AppendIsOrderly ==
  ASSUME OrderInv, NEW c \in Calls, held[c] # NotHeld,
         Dispatchers[turn[c]] = "aggregate"
  PROVE  Orderly(target[c], Append(held[c], <<c, next[c]>>))
  <1> DEFINE s == held[c]
             e == <<c, next[c]>>
             t == Append(s, e)
             id == target[c]
  <1>1. /\ turn[c] \in Nat /\ next[c] \in Nat /\ e \in Event
        /\ next[c] >= 1 /\ next[c] <= Len(entry[c]) /\ Len(entry[c]) \in Nat
    BY CurrentEvent DEF OrderInv, ProjectInv
  <1>2. Clean(Handed[turn[c]], s) /\ id \in Ids
    BY DEF OrderInv, ProjectInv, DispatchInv, HeldClean, Types
  <1>3. s \in Seq(Event) /\ Len(s) \in Nat
    BY <1>2, LenProperties DEF Clean, State
  <1>4. /\ Len(t) = Len(s) + 1 /\ t[Len(s) + 1] = e
        /\ \A i \in 1..Len(s) : t[i] = s[i]
    BY <1>1, <1>3, AppendProperties
  <1>5. Orderly(id, s) /\ e \in Shown
    BY DEF OrderInv, HeldOrderly
  <1>6. ASSUME Quiet(id), NEW i \in 1..Len(s)
        PROVE  Follows(id, s[i], e)
    <2>1. s[i] \in Handed[turn[c]]
      BY <1>2 DEF Clean
    <2>2. PICK d \in Calls, j \in 1..MaxEvents : s[i] = <<d, j>>
      BY <1>1, <2>1 DEF Handed, Event
    <2>3. CASE d = c
      <3>1. j \in Nat /\ j >= 1 /\ j < next[c]
        BY <1>1, <2>1, <2>2, <2>3, MaxEventsAssumption DEF Handed, Event
      <3>2. j \in 1..Len(entry[c]) /\ next[c] \in 1..Len(entry[c])
        BY <1>1, <3>1
      <3>. QED BY <2>2, <2>3, <3>1, <3>2 DEF OrderInv, Streams
    <2>4. CASE d # c
      <3> SUFFICES ASSUME NEW m \in DOMAIN stream[id], NEW n \in DOMAIN stream[id],
                          stream[id][m] = <<d, j>>, stream[id][n] = e
                   PROVE  m < n
        BY <2>2 DEF Follows
      <3>1. m \in Nat /\ n \in Nat
        <4>1. stream[id] \in Seq(Event)
          BY <1>2 DEF OrderInv, ProjectInv, DispatchInv, Types, State
        <4>. QED BY <4>1, LenProperties
      <3>2. stream[id][m][1] = d /\ stream[id][n][1] = c
        OBVIOUS
      <3>3. m # n
        BY <2>4, <3>2
      <3>4. ~ (n < m)
        <4>1. Active(c) /\ c \notin overlapped
          BY <1>6 DEF Active, Quiet
        <4>2. n < m => stream[id][m][1] = c
          BY <3>2, <4>1 DEF OrderInv, Streams
        <4>. QED BY <2>4, <3>2, <4>2
      <3>. QED BY <3>1, <3>3, <3>4
    <2>. QED BY <2>3, <2>4
  <1> HIDE DEF s, e, t, id
  <1>7. \A i \in 1..Len(t) : i \in 1..Len(s) \/ i = Len(s) + 1
    BY <1>3, <1>4
  <1>8. ASSUME NEW i \in 1..Len(t)
        PROVE  target[t[i][1]] = id /\ t[i] \in Shown
    BY <1>4, <1>5, <1>7 DEF Orderly, e, id
  <1>9. ASSUME Quiet(id), NEW i \in 1..Len(t), NEW j \in 1..Len(t), i < j
        PROVE  Follows(id, t[i], t[j])
    <2>1. i \in 1..Len(s)
      BY <1>3, <1>4, <1>9
    <2>2. CASE j \in 1..Len(s)
      <3>1. Follows(id, s[i], s[j])
        BY <1>5, <1>9, <2>1, <2>2 DEF Orderly
      <3>. QED BY <1>4, <2>1, <2>2, <3>1
    <2>3. CASE j = Len(s) + 1
      BY <1>4, <1>6, <1>9, <2>1, <2>3
    <2>. QED BY <1>7, <2>2, <2>3
  <1>. QED BY <1>8, <1>9 DEF Orderly, s, e, t, id

(* A step that commits nothing keeps the streams in order.                 *)
LEMMA OrderStays ==
  ASSUME OrderInv, ProjectInv', UNCHANGED <<target, stream, entry, overlapped>>,
         \A d \in Calls : Active(d)' => Active(d),
         \A k \in DOMAIN Dispatchers, id \in Ids :
           Dispatchers[k] = "aggregate" => Orderly(id, views'[k][id]),
         \A d \in Calls : held'[d] # NotHeld =>
           /\ <<d, next'[d]>> \in Shown
           /\ Dispatchers[turn'[d]] = "aggregate" => Orderly(target[d], held'[d])
  PROVE  OrderInv'
  <1>1. Streams'
    BY DEF OrderInv, Streams, Follows
  <1>2. ViewsOrderly'
    <2> SUFFICES ASSUME NEW k \in DOMAIN Dispatchers, NEW id \in Ids,
                        Dispatchers[k] = "aggregate"
                 PROVE  Orderly(id, views[k][id])'
      BY DEF ViewsOrderly
    <2>1. Orderly(id, views'[k][id])
      OBVIOUS
    <2>. QED BY <2>1 DEF Orderly, Quiet, Follows
  <1>3. HeldOrderly'
    <2> SUFFICES ASSUME NEW d \in Calls, held'[d] # NotHeld
                 PROVE  /\ <<d, next'[d]>> \in Shown
                        /\ Dispatchers[turn'[d]] = "aggregate" =>
                             Orderly(target[d], held[d])'
      BY DEF HeldOrderly
    <2>1. <<d, next'[d]>> \in Shown
      OBVIOUS
    <2>2. ASSUME Dispatchers[turn'[d]] = "aggregate"
          PROVE  Orderly(target[d], held[d])'
      <3>1. Orderly(target[d], held'[d])
        BY <2>2
      <3>. QED BY <3>1 DEF Orderly, Quiet, Follows
    <2>. QED BY <2>1, <2>2
  <1>. QED BY <1>1, <1>2, <1>3 DEF OrderInv

(* A step that ends what a call held, with or without a save.              *)
LEMMA SaveOrders ==
  ASSUME OrderInv, ProjectInv', NEW c \in Calls, Active(c),
         UNCHANGED <<target, stream, status, entry, overlapped>>,
         views' = views \/ (held[c] # NotHeld /\ views' = Saved(c)),
         held' = [held EXCEPT ![c] = NotHeld],
         \A d \in Calls : d # c => turn'[d] = turn[d] /\ next'[d] = next[d]
  PROVE  OrderInv'
  <1>1. held'[c] = NotHeld /\ \A d \in Calls : d # c => held'[d] = held[d]
    BY DEF OrderInv, ProjectInv, DispatchInv, Types
  <1>2. ASSUME NEW d \in Calls, Active(d)' PROVE Active(d)
    BY <1>1, <1>2 DEF Active, Dispatching
  <1>3. ASSUME NEW k \in DOMAIN Dispatchers, NEW id \in Ids,
               Dispatchers[k] = "aggregate"
        PROVE  Orderly(id, views'[k][id])
    <2>1. Orderly(id, views[k][id])
      BY <1>3 DEF OrderInv, ViewsOrderly
    <2>2. CASE views' = views
      BY <2>1, <2>2
    <2>3. CASE held[c] # NotHeld /\ views' = Saved(c)
      <3>1. /\ turn[c] \in DOMAIN Dispatchers /\ View(c) \in ViewIds
            /\ entry[c][next[c]] = <<c, next[c]>>
            /\ views \in [DOMAIN Dispatchers -> [ViewIds -> State]]
        BY <2>3, CurrentEvent DEF OrderInv, ProjectInv, DispatchInv, Types
      <3>2. id \in ViewIds
        BY DEF ViewIds
      <3>3. CASE k = turn[c] /\ id = View(c)
        <4>1. id = target[c]
          BY <1>3, <3>3 DEF View, ViewId
        <4>2. views'[k][id] = Append(held[c], <<c, next[c]>>)
          BY <2>3, <3>1, <3>2, <3>3 DEF Saved
        <4>. QED BY <1>3, <2>3, <3>3, <4>1, <4>2, AppendIsOrderly
      <3>4. CASE ~ (k = turn[c] /\ id = View(c))
        <4>1. views'[k][id] = views[k][id]
          BY <2>3, <3>1, <3>2, <3>4 DEF Saved
        <4>. QED BY <2>1, <4>1
      <3>. QED BY <3>3, <3>4
    <2>. QED BY <2>2, <2>3
  <1>4. ASSUME NEW d \in Calls, held'[d] # NotHeld
        PROVE  /\ <<d, next'[d]>> \in Shown
               /\ Dispatchers[turn'[d]] = "aggregate" => Orderly(target[d], held'[d])
    BY <1>1, <1>4 DEF OrderInv, HeldOrderly
  <1>. QED BY <1>2, <1>3, <1>4, OrderStays

LEMMA FindOrders ==
  ASSUME OrderInv, NEW c \in Calls, FindView(c), entry[c][next[c]] \in Shown
  PROVE  OrderInv'
  <1>1. ProjectInv /\ ProjectInv' /\ Dispatching(c)
    BY DispatchProjects DEF OrderInv, FindView
  <1>2. /\ UNCHANGED <<target, stream, status, entry, turn, next, views, overlapped>>
        /\ held' = [held EXCEPT ![c] = views[turn[c]][View(c)]]
    BY DEF FindView, logVars
  <1>3. /\ held'[c] = views[turn[c]][View(c)]
        /\ \A d \in Calls : d # c => held'[d] = held[d]
    BY <1>1, <1>2 DEF ProjectInv, DispatchInv, Types
  <1>4. ASSUME NEW d \in Calls, Active(d)' PROVE Active(d)
    BY <1>1, <1>2, <1>3, <1>4 DEF Active, Dispatching
  <1>5. ASSUME NEW d \in Calls, held'[d] # NotHeld
        PROVE  /\ <<d, next'[d]>> \in Shown
               /\ Dispatchers[turn'[d]] = "aggregate" => Orderly(target[d], held'[d])
    <2>1. CASE d = c
      <3>1. turn[c] \in DOMAIN Dispatchers /\ entry[c][next[c]] = <<c, next[c]>>
        BY <1>1, CurrentEvent DEF ProjectInv
      <3>2. target[c] \in Ids
        BY <1>1 DEF ProjectInv, DispatchInv, Types
      <3>3. ASSUME Dispatchers[turn[c]] = "aggregate"
            PROVE  Orderly(target[c], views[turn[c]][View(c)])
        BY <3>1, <3>2, <3>3 DEF OrderInv, ViewsOrderly, View, ViewId
      <3>. QED BY <1>2, <1>3, <2>1, <3>1, <3>3
    <2>2. CASE d # c
      BY <1>2, <1>3, <1>5, <2>2 DEF OrderInv, HeldOrderly
    <2>. QED BY <2>1, <2>2
  <1>6. \A k \in DOMAIN Dispatchers, id \in Ids :
          Dispatchers[k] = "aggregate" => Orderly(id, views'[k][id])
    BY <1>2 DEF OrderInv, ViewsOrderly
  <1>. QED BY <1>1, <1>2, <1>4, <1>5, <1>6, OrderStays

LEMMA DispatchOrders ==
  ASSUME OrderInv, NEW c \in Calls,
         FindView(c) \/ SaveView(c) \/ DispatcherFails(c)
  PROVE  OrderInv'
  <1>1. ProjectInv /\ ProjectInv' /\ DispatchInv
    BY DispatchProjects DEF OrderInv, ProjectInv
  <1>2. CASE FindView(c) /\ entry[c][next[c]] \in Shown
    BY <1>2, FindOrders
  <1>3. CASE ~ (FindView(c) /\ entry[c][next[c]] \in Shown)
    <2>1. /\ Active(c) /\ Moves(c) /\ UNCHANGED overlapped
          /\ views' = views \/ (held[c] # NotHeld /\ views' = Saved(c))
      <3>1. turn \in [Calls -> Nat] /\ next \in [Calls -> Nat]
        BY <1>1 DEF DispatchInv, Types
      <3>2. CASE FindView(c)
        BY <1>1, <1>3, <3>2, AdvanceMoves DEF FindView, logVars, Active
      <3>3. CASE SaveView(c)
        BY <1>1, <3>3, AdvanceMoves DEF SaveView, logVars, Active
      <3>4. CASE DispatcherFails(c)
        BY <3>1, <3>4 DEF DispatcherFails, Moves, logVars, Active
      <3>. QED BY <3>2, <3>3, <3>4
    <2>. QED BY <1>1, <2>1, SaveOrders DEF Moves
  <1>. QED BY <1>2, <1>3

LEMMA LateSaveOrders ==
  ASSUME OrderInv, NEW c \in Calls, LateSave(c)
  PROVE  OrderInv'
  <1>1. ProjectInv'
    BY LateSaveProjects DEF OrderInv
  <1>2. /\ UNCHANGED <<target, stream, status, entry, turn, next, overlapped>>
        /\ Active(c) /\ held[c] # NotHeld /\ (views' = views \/ views' = Saved(c))
        /\ held' = [held EXCEPT ![c] = NotHeld]
    BY DEF LateSave, InFlight, logVars, Active
  <1>. QED BY <1>1, <1>2, SaveOrders

LEMMA StatusOrders ==
  ASSUME OrderInv, NEW c \in Calls, Before(c) \/ Answer(c) \/ Drop(c)
  PROVE  OrderInv'
  <1>1. ProjectInv'
    BY StatusProjects DEF OrderInv
  <1>2. /\ UNCHANGED <<target, stream, entry, turn, next, held, views, overlapped>>
        /\ \E s \in {"observed", "acked", "failed"} :
             status' = [status EXCEPT ![c] = s]
    BY DEF Before, Answer, Drop, cursor, Log!Observe, Log!Acknowledge, Log!Fail
  <1>3. \A d \in Calls : status'[d] = "appended" => status[d] = "appended"
    BY <1>2 DEF OrderInv, ProjectInv, DispatchInv, Types
  <1>4. ASSUME NEW d \in Calls, Active(d)' PROVE Active(d)
    BY <1>2, <1>3, <1>4 DEF Active, Dispatching
  <1>5. /\ \A k \in DOMAIN Dispatchers, id \in Ids :
             Dispatchers[k] = "aggregate" => Orderly(id, views'[k][id])
        /\ \A d \in Calls : held'[d] # NotHeld =>
             /\ <<d, next'[d]>> \in Shown
             /\ Dispatchers[turn'[d]] = "aggregate" => Orderly(target[d], held'[d])
    BY <1>2 DEF OrderInv, ViewsOrderly, HeldOrderly
  <1>. QED BY <1>1, <1>2, <1>4, <1>5, OrderStays

-----------------------------------------------------------------------------
(* Events of other calls keep their places when a call commits.            *)
LEMMA PlacesStay ==
  ASSUME NEW c \in Calls, NEW n \in 0..MaxEvents, Appends(c, n),
         stream \in [Ids -> State], NEW id \in Ids,
         NEW m \in DOMAIN stream'[id], stream'[id][m][1] # c
  PROVE  m \in DOMAIN stream[id] /\ stream[id][m] = stream'[id][m]
  <1>1. CASE id # target[c]
    BY <1>1 DEF Appends
  <1>2. CASE id = target[c]
    <2> DEFINE old == Len(stream[id])
    <2>1. /\ old \in Nat /\ DOMAIN stream[id] = 1..old /\ n \in Nat
      BY LenProperties, MaxEventsAssumption DEF State
    <2>2. /\ DOMAIN stream'[id] = 1..(old + n)
          /\ \A i \in 1..old : stream'[id][i] = stream[id][i]
          /\ \A i \in 1..n : stream'[id][old + i] = <<c, i>>
      BY <1>2 DEF Appends
    <2> HIDE DEF old
    <2>3. CASE m <= old
      <3>1. m \in 1..old
        BY <2>1, <2>2, <2>3
      <3>. QED BY <2>1, <2>2, <3>1
    <2>4. CASE ~ (m <= old)
      <3>1. m - old \in 1..n /\ old + (m - old) = m
        BY <2>1, <2>2, <2>4
      <3>2. stream'[id][m] = <<c, m - old>>
        BY <2>2, <3>1
      <3>. QED BY <3>2
    <2>. QED BY <2>3, <2>4
  <1>. QED BY <1>1, <1>2

LEMMA FollowsStays ==
  ASSUME NEW c \in Calls, NEW n \in 0..MaxEvents, Appends(c, n),
         stream \in [Ids -> State], NEW id \in Ids,
         NEW d, NEW e, d[1] # c, e[1] # c, Follows(id, d, e)
  PROVE  Follows(id, d, e)'
  BY PlacesStay DEF Follows

(* A view that was clean and in order is so after a commit.                *)
LEMMA OrderlyStays ==
  ASSUME NEW c \in Calls, NEW n \in 0..MaxEvents, Appends(c, n),
         stream \in [Ids -> State], entry[c] = <<>>, overlapped \subseteq overlapped',
         NEW id \in Ids, NEW k \in Nat, NEW view, Clean(Handed[k], view),
         Orderly(id, view)
  PROVE  Orderly(id, view)'
  <1>1. target' = target
    BY DEF Appends
  <1>2. ASSUME NEW i \in 1..Len(view) PROVE view[i][1] # c
    <2>1. view[i] \in Handed[k]
      BY DEF Clean
    <2>2. PICK d \in Calls, j \in 1..MaxEvents :
            view[i] = <<d, j>> /\ j <= Len(entry[d])
      BY <2>1 DEF Handed, Event
    <2>3. j \in Nat /\ j >= 1 /\ Len(<<>>) = 0
      BY MaxEventsAssumption, EmptySeq
    <2>. QED BY <2>2, <2>3
  <1>3. Quiet(id)' => Quiet(id)
    BY <1>1 DEF Quiet
  <1>4. ASSUME Quiet(id)', NEW i \in 1..Len(view), NEW j \in 1..Len(view), i < j
        PROVE  Follows(id, view[i], view[j])'
    <2>1. Follows(id, view[i], view[j])
      BY <1>3, <1>4 DEF Orderly
    <2>. QED BY <1>2, <2>1, FollowsStays
  <1>. QED BY <1>1, <1>4 DEF Orderly

LEMMA PlaceOfNew ==
  ASSUME OrderInv, NEW c \in Calls, NEW n \in 0..MaxEvents, Appends(c, n),
         entry[c] = <<>>, NEW m \in DOMAIN stream'[target[c]],
         stream'[target[c]][m][1] = c
  PROVE  /\ m - Len(stream[target[c]]) \in 1..n
         /\ stream'[target[c]][m] = <<c, m - Len(stream[target[c]])>>
         /\ m \in Nat /\ Len(stream[target[c]]) \in Nat
  <1> DEFINE id == target[c]
             old == Len(stream[id])
  <1>1. /\ id \in Ids /\ stream[id] \in Seq(Event)
        /\ old \in Nat /\ DOMAIN stream[id] = 1..old /\ n \in Nat
    BY LenProperties, MaxEventsAssumption
       DEF OrderInv, ProjectInv, DispatchInv, Types, State
  <1>2. /\ DOMAIN stream'[id] = 1..(old + n)
        /\ \A i \in 1..old : stream'[id][i] = stream[id][i]
        /\ \A i \in 1..n : stream'[id][old + i] = <<c, i>>
    BY DEF Appends
  <1> HIDE DEF old, id
  <1>3. m \in 1..(old + n)
    BY <1>2 DEF id
  <1>4. ~ (m <= old)
    <2> SUFFICES ASSUME m <= old PROVE FALSE
      OBVIOUS
    <2>1. m \in 1..old /\ stream[id][m] = stream'[id][m]
      BY <1>1, <1>2, <1>3
    <2>2. PICK d \in Calls : \E i \in 1..Len(entry[d]) : stream[id][m] = <<d, i>>
      BY <1>1, <2>1 DEF OrderInv, Streams
    <2>3. d = c
      BY <2>1, <2>2 DEF id
    <2>. QED BY <2>2, <2>3, EmptySeq
  <1>5. m - old \in 1..n /\ old + (m - old) = m /\ m \in Nat
    BY <1>1, <1>3, <1>4
  <1>. QED BY <1>1, <1>2, <1>5 DEF old, id

(* The streams after a commit.                                             *)
LEMMA StreamsStay ==
  ASSUME OrderInv, NEW c \in Calls, Commit(c), NEW n \in 0..MaxEvents, Appends(c, n),
         entry[c] = <<>>, held[c] = NotHeld
  PROVE  Streams'
  <1> DEFINE id0 == target[c]
             old == Len(stream[id0])
  <1>1. /\ DispatchInv /\ id0 \in Ids /\ stream \in [Ids -> State]
        /\ target \in [Calls -> Ids]
    BY DEF OrderInv, ProjectInv, DispatchInv, Types
  <1>2. /\ target' = target /\ held' = held /\ Len(entry'[c]) = n
        /\ \A d \in Calls : d # c =>
             entry'[d] = entry[d] /\ turn'[d] = turn[d] /\ status'[d] = status[d]
    BY DEF Appends
  <1>3. n \in Nat /\ Len(<<>>) = 0
    BY MaxEventsAssumption, EmptySeq
  <1>4. ASSUME NEW id \in Ids, NEW m \in DOMAIN stream'[id]
        PROVE  \E d \in Calls : \E i \in 1..Len(entry'[d]) :
                 stream'[id][m] = <<d, i>> /\ target[d] = id
    <2>1. CASE id = id0 /\ stream'[id][m][1] = c
      <3>1. m - old \in 1..n /\ stream'[id0][m] = <<c, m - old>>
        BY <1>4, <2>1, PlaceOfNew
      <3>. QED BY <1>2, <2>1, <3>1
    <2>2. CASE stream'[id][m][1] # c
      <3>1. m \in DOMAIN stream[id] /\ stream[id][m] = stream'[id][m]
        BY <1>1, <1>4, <2>2, PlacesStay
      <3>2. PICK d \in Calls : \E i \in 1..Len(entry[d]) :
              stream[id][m] = <<d, i>> /\ target[d] = id
        BY <3>1 DEF OrderInv, Streams
      <3>3. d # c
        BY <2>2, <3>1, <3>2
      <3>. QED BY <1>2, <3>1, <3>2, <3>3
    <2>3. CASE id # id0
      <3>1. stream'[id] = stream[id]
        BY <2>3 DEF Appends
      <3>2. PICK d \in Calls : \E i \in 1..Len(entry[d]) :
              stream[id][m] = <<d, i>> /\ target[d] = id
        BY <1>4, <3>1 DEF OrderInv, Streams
      <3>3. d # c
        BY <2>3, <3>2
      <3>. QED BY <1>2, <3>1, <3>2, <3>3
    <2>. QED BY <2>1, <2>2, <2>3
  <1>5. ASSUME NEW d \in Calls, NEW i \in 1..Len(entry'[d]), NEW j \in 1..Len(entry'[d]),
               i < j
        PROVE  Follows(target[d], <<d, i>>, <<d, j>>)'
    <2>1. CASE d = c
      <3> SUFFICES ASSUME NEW m \in DOMAIN stream'[id0], NEW p \in DOMAIN stream'[id0],
                          stream'[id0][m] = <<c, i>>, stream'[id0][p] = <<c, j>>
                   PROVE  m < p
        BY <1>2, <2>1 DEF Follows
      <3>1. stream'[id0][m][1] = c /\ stream'[id0][p][1] = c
        OBVIOUS
      <3>2. <<c, i>> = <<c, m - old>> /\ m \in Nat /\ old \in Nat
        BY <3>1, PlaceOfNew
      <3>3. <<c, j>> = <<c, p - old>> /\ p \in Nat
        BY <3>1, PlaceOfNew
      <3> HIDE DEF old, id0
      <3>4. i = m - old /\ j = p - old
        BY <3>2, <3>3
      <3>. QED BY <1>5, <3>2, <3>3, <3>4
    <2>2. CASE d # c
      <3>1. target[d] \in Ids /\ Follows(target[d], <<d, i>>, <<d, j>>)
        BY <1>1, <1>2, <1>5, <2>2 DEF OrderInv, Streams
      <3>2. <<d, i>>[1] # c /\ <<d, j>>[1] # c
        BY <2>2
      <3>3. \A id \in Ids : id = target[d] => Follows(id, <<d, i>>, <<d, j>>)'
        BY <1>1, <3>1, <3>2, FollowsStays
      <3>. QED BY <1>2, <3>1, <3>3 DEF Follows
    <2>. QED BY <2>1, <2>2
  <1>6. ASSUME NEW d \in Calls, Active(d)', d \notin overlapped',
               NEW m \in DOMAIN stream'[target[d]], NEW p \in DOMAIN stream'[target[d]],
               m < p, stream'[target[d]][m][1] = d
        PROVE  stream'[target[d]][p][1] = d
    <2>1. CASE d = c
      <3>1. m - old \in 1..n /\ m \in Nat /\ old \in Nat
        BY <1>6, <2>1, PlaceOfNew
      <3>2. DOMAIN stream'[id0] = 1..(old + n)
            /\ \A i \in 1..n : stream'[id0][old + i] = <<c, i>>
        BY DEF Appends
      <3> HIDE DEF old, id0
      <3>3. p \in 1..(old + n)
        BY <1>6, <2>1, <3>2 DEF id0
      <3>4. p - old \in 1..n /\ old + (p - old) = p
        BY <1>3, <1>6, <3>1, <3>3
      <3>5. stream'[id0][p] = <<c, p - old>>
        BY <3>2, <3>4
      <3>. QED BY <2>1, <3>5 DEF id0
    <2>2. CASE d # c
      <3>1. Active(d) /\ d \notin overlapped
        BY <1>1, <1>2, <1>6, <2>2, CommitOverlaps DEF Active, Dispatching
      <3>2. Dispatching(d) \/ InFlight(d)
        BY <1>1, <3>1 DEF Active, InFlight, DispatchInv, Cursors
      <3>3. stream'[target[d]] = stream[target[d]] \/ n = 0
        <4>1. CASE target[d] = id0
          BY <1>1, <1>6, <2>2, <3>2, <4>1, CommitOverlaps
        <4>2. CASE target[d] # id0
          BY <1>1, <4>2 DEF Appends
        <4>. QED BY <4>1, <4>2
      <3>4. ASSUME NEW q \in DOMAIN stream'[target[d]]
            PROVE  q \in DOMAIN stream[target[d]] /\ stream[target[d]][q] = stream'[target[d]][q]
        <4>1. CASE stream'[target[d]] = stream[target[d]]
          BY <3>4, <4>1
        <4>2. CASE n = 0
          <5>1. target[d] \in Ids
            BY <1>1
          <5>2. CASE target[d] # id0
            BY <3>4, <5>1, <5>2 DEF Appends
          <5>3. CASE target[d] = id0
            <6>1. stream'[id0][q][1] # c
              BY <3>4, <4>2, <5>3, PlaceOfNew
            <6>. QED BY <1>1, <3>4, <5>3, <6>1, PlacesStay
          <5>. QED BY <5>2, <5>3
        <4>. QED BY <3>3, <4>1, <4>2
      <3>5. stream[target[d]][m][1] = d
        BY <1>6, <3>4
      <3>6. m \in DOMAIN stream[target[d]] /\ p \in DOMAIN stream[target[d]]
        BY <3>4
      <3>7. stream[target[d]][p][1] = d
        BY <1>6, <3>1, <3>5, <3>6 DEF OrderInv, Streams
      <3>. QED BY <3>4, <3>7
    <2>. QED BY <2>1, <2>2
  <1>. QED BY <1>2, <1>4, <1>5, <1>6 DEF Streams

LEMMA CommitOrders ==
  ASSUME OrderInv, NEW c \in Calls, Commit(c)
  PROVE  OrderInv'
  <1>1. ProjectInv /\ ProjectInv' /\ DispatchInv
    BY CommitProjects DEF OrderInv, ProjectInv
  <1>2. PICK n \in 0..MaxEvents : Appends(c, n)
    BY <1>1, CommitAppends
  <1>3. status[c] = "observed"
    BY DEF Commit, Log!AppendEvents, Log!AppendNothing
  <1>4. entry[c] = <<>> /\ held[c] = NotHeld
    BY <1>1, <1>3 DEF DispatchInv, Cursors
  <1>5. /\ UNCHANGED <<target, next, held, views>>
        /\ \A d \in Calls : d # c => turn'[d] = turn[d]
        /\ overlapped \subseteq overlapped'
    BY <1>1, <1>2, CommitOverlaps DEF Appends
  <1>6. stream \in [Ids -> State] /\ target \in [Calls -> Ids]
    BY <1>1 DEF DispatchInv, Types
  <1>7. Streams'
    BY <1>2, <1>4, StreamsStay
  <1>8. ViewsOrderly'
    <2> SUFFICES ASSUME NEW k \in DOMAIN Dispatchers, NEW id \in Ids,
                        Dispatchers[k] = "aggregate"
                 PROVE  Orderly(id, views[k][id])'
      BY DEF ViewsOrderly
    <2>1. k \in Nat /\ id \in ViewIds
      BY DispatchersAssumption, LenProperties DEF ViewIds
    <2>2. Clean(Handed[k], views[k][id]) /\ Orderly(id, views[k][id])
      BY <1>1, <2>1 DEF DispatchInv, ViewsClean, OrderInv, ViewsOrderly
    <2>3. ASSUME NEW w, Clean(Handed[k], w), Orderly(id, w)
          PROVE  Orderly(id, w)'
      BY <1>2, <1>4, <1>5, <1>6, <2>1, <2>3, OrderlyStays
    <2>. QED BY <1>5, <2>2, <2>3 DEF Orderly
  <1>9. HeldOrderly'
    <2> SUFFICES ASSUME NEW d \in Calls, held[d] # NotHeld
                 PROVE  /\ <<d, next[d]>> \in Shown
                        /\ Dispatchers[turn'[d]] = "aggregate" =>
                             Orderly(target[d], held[d])'
      BY <1>5 DEF HeldOrderly
    <2>1. d # c /\ turn'[d] = turn[d]
      BY <1>4, <1>5
    <2>2. <<d, next[d]>> \in Shown
      BY DEF OrderInv, HeldOrderly
    <2>3. ASSUME Dispatchers[turn[d]] = "aggregate"
          PROVE  Orderly(target[d], held[d])'
      <3>1. Orderly(target[d], held[d]) /\ target[d] \in Ids
        BY <1>6, <2>3 DEF OrderInv, HeldOrderly
      <3>2. Clean(Handed[turn[d]], held[d]) /\ turn[d] \in Nat
        BY <1>1 DEF DispatchInv, HeldClean, Types
      <3>3. PICK id \in Ids : id = target[d]
        BY <3>1
      <3>4. PICK w : w = held[d]
        OBVIOUS
      <3>5. Orderly(id, w)'
        BY <1>2, <1>4, <1>5, <1>6, <3>1, <3>2, <3>3, <3>4, OrderlyStays
      <3>6. target'[d] = id /\ held'[d] = w
        BY <1>5, <3>3, <3>4
      <3>. QED BY <3>5, <3>6 DEF Orderly
    <2>. QED BY <2>1, <2>2, <2>3
  <1>. QED BY <1>1, <1>7, <1>8, <1>9 DEF OrderInv

LEMMA OrderPreserved == OrderInv /\ [Next]_vars => OrderInv'
  <1> SUFFICES ASSUME OrderInv, [Next]_vars PROVE OrderInv'
    OBVIOUS
  <1>1. ASSUME NEW c \in Calls,
               Step(c) \/ DispatcherFails(c) \/ Drop(c) \/ LateSave(c)
        PROVE  OrderInv'
    BY <1>1, StatusOrders, CommitOrders, DispatchOrders, LateSaveOrders DEF Step
  <1>2. CASE UNCHANGED vars
    <2>1. ProjectInv'
      BY <1>2, ProjectStays DEF OrderInv
    <2>2. UNCHANGED <<target, stream, status, entry, turn, next, held, views, overlapped>>
      BY <1>2 DEF vars, logVars, cursor
    <2>. QED BY <2>1, <2>2, OrderStays
             DEF OrderInv, Active, Dispatching, ViewsOrderly, HeldOrderly
  <1>. QED BY <1>1, <1>2 DEF Next, Idle

LEMMA OrderBegins == Init => OrderInv
  <1> SUFFICES ASSUME Init PROVE OrderInv
    OBVIOUS
  <1>1. ProjectInv
    BY ProjectBegins
  <1>2. /\ stream = [id \in Ids |-> <<>>] /\ entry = [c \in Calls |-> <<>>]
        /\ held = [c \in Calls |-> NotHeld] /\ status = [c \in Calls |-> "pending"]
        /\ target \in [Calls -> Ids]
        /\ views = [k \in DOMAIN Dispatchers |-> [v \in ViewIds |-> <<>>]]
    BY DEF Init, Log!Init
  <1>3. Len(<<>>) = 0 /\ DOMAIN <<>> = {}
    BY EmptySeq
  <1>4. Streams
    BY <1>2, <1>3 DEF Streams, Active, Dispatching, Follows
  <1>5. ViewsOrderly /\ HeldOrderly
    BY <1>2, <1>3 DEF ViewsOrderly, HeldOrderly, Orderly, ViewIds
  <1>. QED BY <1>1, <1>4, <1>5 DEF OrderInv

(* While the dispatches of an aggregate take turns and none fails, its     *)
(* views are what replaying the stream would give.                         *)
THEOREM QuietViewsReplay == Spec => []QuietViewIsReplay
  <1>1. OrderInv => QuietViewIsReplay
    <2> SUFFICES ASSUME OrderInv, NEW id \in Ids, NEW k \in DOMAIN Dispatchers,
                        Dispatchers[k] = "aggregate",
                        \A c \in {c \in Calls : target[c] = id} :
                          /\ c \notin overlapped
                          /\ k \notin missed[c]
                          /\ status[c] = "acked" \/ entry[c] = <<>>
                 PROVE  /\ {views[k][id][i] : i \in DOMAIN views[k][id]}
                             = Committed(id) \cap Shown
                        /\ \A i, j \in DOMAIN views[k][id] :
                             i < j => Follows(id, views[k][id][i], views[k][id][j])
      BY DEF QuietViewIsReplay
    <2> DEFINE view == views[k][id]
    <2>1. /\ k \in Nat /\ id \in ViewIds
          /\ DispatchInv /\ AcknowledgedIsProjected /\ Quiet(id)
      BY DispatchersAssumption, LenProperties, DoneWhenAcked
         DEF ViewIds, OrderInv, ProjectInv, Quiet
    <2>2. Clean(Handed[k], view) /\ Orderly(id, view)
      BY <2>1 DEF DispatchInv, ViewsClean, OrderInv, ViewsOrderly
    <2>3. DOMAIN view = 1..Len(view)
      BY <2>2, LenProperties DEF Clean, State
    <2> HIDE DEF view
    <2>4. ASSUME NEW i \in DOMAIN view
          PROVE  view[i] \in Committed(id) \cap Shown
      <3>1. view[i] \in Handed[k] /\ target[view[i][1]] = id /\ view[i] \in Shown
        BY <2>2, <2>3 DEF Clean, Orderly
      <3>2. PICK c \in Calls, j \in 1..MaxEvents :
              view[i] = <<c, j>> /\ j <= Len(entry[c])
        BY <2>1, <3>1 DEF Handed, Event
      <3>3. j \in 1..Len(entry[c])
        BY <2>1, <3>2, MaxEventsAssumption, LenProperties DEF DispatchInv, Types, State
      <3>4. PICK other \in Ids : \E n \in DOMAIN stream[other] : stream[other][n] = <<c, j>>
        BY <2>1, <3>3 DEF DispatchInv, Entries
      <3>5. target[c] = other
        BY <3>4 DEF OrderInv, Streams
      <3>. QED BY <3>1, <3>2, <3>4, <3>5 DEF Committed
    <2>5. ASSUME NEW e \in Committed(id) \cap Shown
          PROVE  \E i \in DOMAIN view : view[i] = e
      <3>1. PICK m \in DOMAIN stream[id] : e = stream[id][m]
        BY DEF Committed
      <3>2. PICK c \in Calls : \E i \in 1..Len(entry[c]) : e = <<c, i>> /\ target[c] = id
        BY <3>1 DEF OrderInv, Streams
      <3>3. PICK i \in 1..Len(entry[c]) : e = <<c, i>>
        BY <3>2
      <3>4. entry[c] # <<>>
        BY <3>3, EmptySeq
      <3>5. i \in DOMAIN entry[c]
        BY <2>1, <3>3, LenProperties DEF DispatchInv, Types, State
      <3>6. entry[c][i] = e
        BY <2>1, <3>3 DEF DispatchInv, Entries
      <3>7. status[c] = "acked" /\ k \notin missed[c] /\ c \notin overlapped
        BY <3>2, <3>4
      <3>8. ShownIn(k, c)
        BY <2>1, <3>7 DEF AcknowledgedIsProjected
      <3>9. ViewId(k, target[c], entry[c][i]) = id
        BY <3>2 DEF ViewId
      <3>. QED BY <3>5, <3>6, <3>8, <3>9 DEF ShownIn, view
    <2>6. ASSUME NEW i \in DOMAIN view, NEW j \in DOMAIN view, i < j
          PROVE  Follows(id, view[i], view[j])
      BY <2>1, <2>2, <2>3, <2>6 DEF Orderly
    <2>. QED BY <2>4, <2>5, <2>6 DEF view
  <1>. QED BY <1>1, OrderBegins, OrderPreserved, PTL DEF Spec

-----------------------------------------------------------------------------
(* The first number on which a property holds.                             *)
LEMMA LeastOf ==
  ASSUME NEW T \in SUBSET Nat, T # {}
  PROVE  \E m \in T : \A k \in T : m <= k
  <1> DEFINE R == OpToRel(<, Nat)
  <1>1. IsWellFoundedOn(R, Nat)
    BY NatLessThanWellFounded
  <1>2. \A a, b \in Nat : a < b => <<a, b>> \in R
    BY DEF OpToRel
  <1> HIDE DEF R
  <1>3. PICK m \in T : \A k \in T : ~ (<<k, m>> \in R)
    BY <1>1, WFMin
  <1>4. ASSUME NEW k \in T PROVE m <= k
    <2>1. m \in Nat /\ k \in Nat /\ ~ (k < m)
      BY <1>2, <1>3
    <2>. QED BY ONLY <2>1
  <1>. QED BY <1>4

(* Induction up to n, for the set of the numbers that have the property.   *)
LEMMA UpTo ==
  ASSUME NEW n \in Nat, NEW S, 0 \in S, \A k \in 1..n : k - 1 \in S => k \in S
  PROVE  \A k \in 0..n : k \in S
  <1> DEFINE T == (0..n) \ S
  <1> SUFFICES ASSUME T # {} PROVE FALSE
    OBVIOUS
  <1>1. T \in SUBSET Nat
    OBVIOUS
  <1> HIDE DEF T
  <1>2. PICK m \in T : \A k \in T : m <= k
    BY <1>1, LeastOf
  <1> USE DEF T
  <1>3. m \in 1..n /\ m - 1 \in 0..n /\ m - 1 \notin T
    BY <1>2
  <1>. QED BY <1>2, <1>3

(* Steps on the values of a set, and the values they lead to.              *)
IsSteps(step, n, A) == step \in [1..n -> [A -> A]]

Iterated(h, step, n, A, base) ==
  /\ h \in [0..n -> A]
  /\ h[0] = base
  /\ \A k \in 1..n : h[k] = step[k][h[k - 1]]

LEMMA Iterates ==
  ASSUME NEW n \in Nat, NEW A, NEW base \in A, NEW step, IsSteps(step, n, A)
  PROVE  \E h : Iterated(h, step, n, A, base)
  <1> DEFINE Upto(m) == \E h \in [0..m -> A] :
               h[0] = base /\ \A k \in 1..m : h[k] = step[k][h[k - 1]]
             S == {m \in 0..n : Upto(m)}
  <1>1. 0 \in S
    <2> DEFINE g == [k \in 0..0 |-> base]
    <2>1. /\ g \in [0..0 -> A] /\ g[0] = base
          /\ \A k \in 1..0 : g[k] = step[k][g[k - 1]]
      OBVIOUS
    <2> HIDE DEF g
    <2>2. Upto(0)
      BY <2>1
    <2>. QED BY <2>2
  <1>2. ASSUME NEW m \in 1..n, m - 1 \in S
        PROVE  m \in S
    <2>1. PICK h \in [0..(m - 1) -> A] :
            h[0] = base /\ \A k \in 1..(m - 1) : h[k] = step[k][h[k - 1]]
      BY <1>2
    <2> DEFINE g == [k \in 0..m |-> IF k = m THEN step[m][h[m - 1]] ELSE h[k]]
    <2>2. h[m - 1] \in A /\ step[m] \in [A -> A]
      BY DEF IsSteps
    <2>3. g \in [0..m -> A]
      BY <2>2
    <2>4. g[0] = base
      BY <2>1
    <2>5. ASSUME NEW k \in 1..m PROVE g[k] = step[k][g[k - 1]]
      <3>1. CASE k = m
        BY <3>1
      <3>2. CASE k # m
        BY <2>1, <3>2
      <3>. QED BY <3>1, <3>2
    <2> HIDE DEF g
    <2>6. Upto(m) /\ m \in 0..n
      BY <2>3, <2>4, <2>5
    <2> HIDE DEF Upto
    <2>. QED BY <2>6
  <1> HIDE DEF S
  <1>3. \A k \in 0..n : k \in S
    BY <1>1, <1>2, UpTo
  <1>4. n \in S
    BY <1>3
  <1>. QED BY <1>4 DEF S, Iterated

(* Two functions that start with the same value and go on alike.           *)
GoAlike(f, g, n) ==
  f[0] = g[0] /\ \A k \in 1..n : f[k - 1] = g[k - 1] => f[k] = g[k]

LEMMA SameUpTo ==
  ASSUME NEW n \in Nat, NEW f, NEW g, GoAlike(f, g, n)
  PROVE  \A k \in 0..n : f[k] = g[k]
  <1> DEFINE S == {k \in 0..n : f[k] = g[k]}
  <1>1. 0 \in S /\ \A k \in 1..n : k - 1 \in S => k \in S
    BY DEF GoAlike
  <1> HIDE DEF S
  <1>2. \A k \in 0..n : k \in S
    BY <1>1, UpTo
  <1>. QED BY <1>2 DEF S

-----------------------------------------------------------------------------
(* The todos with one of the given ids, and the events of a list of them.  *)
Todo(ids) == [id : ids, resolved : BOOLEAN]

IsTodoEvent(event, ids) ==
  /\ event.type \in {"TodoListCreated", "TodoAdded", "TodoRemoved",
                     "TodoAssignedTo", "TodoResolved"}
  /\ event.type = "TodoAdded" => event.id \in ids

IdsIn(todos) == {todos[i].id : i \in 1..Len(todos)}

DistinctIds(todos) ==
  \A i, k \in 1..Len(todos) : todos[i].id = todos[k].id => i = k

(* One todo more, of a fresh id.                                           *)
LEMMA TodoAppended ==
  ASSUME NEW ids, NEW todos \in Seq(Todo(ids)), NEW todo \in Todo(ids),
         DistinctIds(todos), todo.id \notin IdsIn(todos)
  PROVE  /\ Append(todos, todo) \in Seq(Todo(ids))
         /\ DistinctIds(Append(todos, todo))
         /\ IdsIn(Append(todos, todo)) = IdsIn(todos) \cup {todo.id}
  <1> DEFINE new == Append(todos, todo)
             n == Len(todos)
  <1>1. /\ n \in Nat /\ new \in Seq(Todo(ids)) /\ Len(new) = n + 1
        /\ new[n + 1] = todo
        /\ \A i \in 1..n : new[i] = todos[i]
    BY AppendProperties, LenProperties
  <1>2. 1..(n + 1) = (1..n) \cup {n + 1} /\ n + 1 \notin 1..n
    BY <1>1
  <1> HIDE DEF new, n
  <1>3. IdsIn(new) = IdsIn(todos) \cup {todo.id}
    BY <1>1, <1>2 DEF IdsIn, n
  <1>4. DistinctIds(new)
    <2> SUFFICES ASSUME NEW i \in 1..(n + 1), NEW k \in 1..(n + 1), new[i].id = new[k].id
                 PROVE  i = k
      BY <1>1 DEF DistinctIds
    <2>1. \A m \in 1..n : todos[m].id # todo.id
      BY DEF IdsIn, n
    <2>. QED BY <1>1, <1>2, <2>1 DEF DistinctIds, n
  <1>. QED BY <1>1, <1>3, <1>4 DEF new

(* What retain leaves is a list of todos that were there.                  *)
LEMMA WithoutKeeps ==
  ASSUME NEW ids, NEW todos \in Seq(Todo(ids)), DistinctIds(todos), NEW id
  PROVE  /\ Without(todos, id) \in Seq(Todo(ids))
         /\ DistinctIds(Without(todos, id))
         /\ IdsIn(Without(todos, id)) \subseteq IdsIn(todos)
  <1> DEFINE n == Len(todos)
             A == Seq(Todo(ids))
             step == [k \in 1..n |-> [list \in A |->
                        IF todos[k].id = id THEN list ELSE Append(list, todos[k])]]
  <1>1. n \in Nat /\ <<>> \in A /\ \A k \in 1..n : todos[k] \in Todo(ids)
    BY LenProperties, EmptySeq, ElementOfSeq
  <1>2. IsSteps(step, n, A)
    BY <1>1, AppendProperties DEF IsSteps
  <1> HIDE DEF A
  <1>3. PICK h : Iterated(h, step, n, A, <<>>)
    <2> HIDE DEF step, n
    <2>. QED BY <1>1, <1>2, Iterates
  <1>10. /\ h \in [0..n -> A] /\ h[0] = <<>>
         /\ \A k \in 1..n : h[k] = step[k][h[k - 1]]
    BY <1>3 DEF Iterated
  <1>4. ASSUME NEW k \in 1..n
        PROVE  /\ h[k - 1] \in A
               /\ h[k] = IF todos[k].id = id THEN h[k - 1] ELSE Append(h[k - 1], todos[k])
    <2>1. k - 1 \in 0..n
      BY <1>1
    <2>. QED BY <1>10, <2>1
  <1> HIDE DEF step
  <1>5. h = [k \in 0..n |->
               IF k = 0 THEN <<>>
               ELSE IF todos[k].id = id THEN h[k - 1]
               ELSE Append(h[k - 1], todos[k])]
    <2>1. DOMAIN h = 0..n /\ \A k \in 0..n : k # 0 => k \in 1..n
      BY <1>1, <1>10
    <2> HIDE DEF n
    <2>. QED BY <1>10, <1>4, <2>1
  <1>6. Without(todos, id) = h[n]
    <2> DEFINE f == CHOOSE g : g = [k \in 0..n |->
                      IF k = 0 THEN <<>>
                      ELSE IF todos[k].id = id THEN g[k - 1]
                      ELSE Append(g[k - 1], todos[k])]
    <2>1. f = [k \in 0..n |->
                 IF k = 0 THEN <<>>
                 ELSE IF todos[k].id = id THEN f[k - 1]
                 ELSE Append(f[k - 1], todos[k])]
      <3> HIDE DEF n
      <3>. QED BY <1>5, Zenon
    <2>2. Without(todos, id) = f[n]
      BY DEF Without
    <2> HIDE DEF f
    <2>3. GoAlike(f, h, n)
      <3>1. 0 \in 0..n /\ \A k \in 1..n : k \in 0..n /\ k # 0
        BY <1>1
      <3> HIDE DEF n
      <3>. QED BY <1>10, <1>4, <2>1, <3>1 DEF GoAlike
    <2>4. \A k \in 0..n : f[k] = h[k]
      <3> HIDE DEF n
      <3>. QED BY <1>1, <2>3, SameUpTo
    <2>. QED BY <1>1, <2>2, <2>4
  <1> DEFINE Good(k) ==
        /\ DistinctIds(h[k])
        /\ IdsIn(h[k]) \subseteq {todos[i].id : i \in 1..k}
      S == {k \in 0..n : Good(k)}
  <1>7. 0 \in S
    BY <1>1, <1>10, EmptySeq DEF DistinctIds, IdsIn
  <1>8. ASSUME NEW k \in 1..n, k - 1 \in S
        PROVE  k \in S
    <2>1. /\ h[k - 1] \in Seq(Todo(ids)) /\ DistinctIds(h[k - 1]) /\ todos[k] \in Todo(ids)
          /\ IdsIn(h[k - 1]) \subseteq {todos[i].id : i \in 1..(k - 1)}
      BY <1>1, <1>4, <1>8 DEF A
    <2>2. \A i \in 1..(k - 1) : i \in 1..n /\ i \in 1..k /\ i # k
      BY <1>1
    <2>3. todos[k].id \notin IdsIn(h[k - 1])
      BY <2>1, <2>2 DEF DistinctIds
    <2>4. k \in 1..k /\ k \in 0..n
      BY <1>1
    <2>5. CASE todos[k].id = id
      BY <1>4, <2>1, <2>2, <2>4, <2>5
    <2>6. CASE todos[k].id # id
      <3>1. h[k] = Append(h[k - 1], todos[k])
        BY <1>4, <2>6
      <3> HIDE DEF n
      <3>2. /\ DistinctIds(h[k])
            /\ IdsIn(h[k]) = IdsIn(h[k - 1]) \cup {todos[k].id}
        BY <2>1, <2>3, <3>1, TodoAppended
      <3>. QED BY <2>1, <2>2, <2>4, <3>2
    <2>. QED BY <2>5, <2>6
  <1> HIDE DEF S
  <1>9. n \in S
    <2>1. \A k \in 0..n : k \in S
      <3> HIDE DEF n
      <3>. QED BY <1>1, <1>7, <1>8, UpTo
    <2>. QED BY <1>1, <2>1
  <1>. QED BY <1>1, <1>10, <1>6, <1>9 DEF S, A, IdsIn

(* A function that goes on from <<>> by the events is what they fold to.   *)
TodosRun(h, events) ==
  /\ h[0] = NoTodos
  /\ \A k \in 1..Len(events) : h[k] = ApplyToTodos(h[k - 1], events[k])

LEMMA TodosAre ==
  ASSUME NEW events, Len(events) \in Nat, NEW h, TodosRun(h, events)
  PROVE  Todos(events) = h[Len(events)]
  <1> DEFINE n == Len(events)
             g == [k \in 0..n |-> h[k]]
             f == CHOOSE f : f = [k \in 0..n |->
                    IF k = 0 THEN NoTodos ELSE ApplyToTodos(f[k - 1], events[k])]
  <1>1. /\ n \in Nat /\ 0 \in 0..n /\ n \in 0..n
        /\ \A k \in 1..n : k \in 0..n /\ k - 1 \in 0..n /\ k # 0
        /\ \A k \in 0..n : k # 0 => k \in 1..n
    OBVIOUS
  <1>2. Todos(events) = f[n]
    BY DEF Todos
  <1>3. h[0] = NoTodos /\ \A k \in 1..n : h[k] = ApplyToTodos(h[k - 1], events[k])
    BY DEF TodosRun
  <1> HIDE DEF n
  <1>4. /\ \A k \in 0..n : g[k] = h[k]
        /\ g = [k \in 0..n |-> IF k = 0 THEN NoTodos
                                        ELSE ApplyToTodos(g[k - 1], events[k])]
    BY <1>1, <1>3
  <1> HIDE DEF g
  <1>5. f = [k \in 0..n |-> IF k = 0 THEN NoTodos
                                     ELSE ApplyToTodos(f[k - 1], events[k])]
    BY <1>4, Zenon
  <1> HIDE DEF f
  <1>6. GoAlike(f, g, n)
    BY <1>1, <1>4, <1>5 DEF GoAlike
  <1>7. f[n] = g[n] /\ g[n] = h[n]
    BY <1>1, <1>4, <1>6, SameUpTo
  <1>. QED BY <1>2, <1>7 DEF n

(* What an event does to a list of todos, and to their ids.                *)
LEMMA ResolveKeeps ==
  ASSUME NEW ids, NEW todos \in Seq(Todo(ids)), NEW id
  PROVE  /\ Resolve(todos, id) \in Seq(Todo(ids))
         /\ Len(Resolve(todos, id)) = Len(todos)
         /\ \A i \in 1..Len(todos) : Resolve(todos, id)[i].id = todos[i].id
  <1> DEFINE named == TodosNamed(todos, id)
             first == FirstNamed(todos, id)
  <1>1. /\ Len(todos) \in Nat /\ DOMAIN todos = 1..Len(todos)
        /\ \A i \in 1..Len(todos) : todos[i] \in Todo(ids)
    BY LenProperties, ElementOfSeq
  <1>2. CASE named = {}
    BY <1>2 DEF Resolve
  <1>3. CASE named # {}
    <2>1. named \in SUBSET Nat /\ named \subseteq 1..Len(todos)
      BY <1>1 DEF TodosNamed
    <2> HIDE DEF named
    <2>2. PICK m \in named : \A k \in named : m <= k
      BY <1>3, <2>1, LeastOf
    <2>3. first \in named
      BY <2>2, Zenon DEF FirstNamed, named
    <2> HIDE DEF first
    <2>4. Resolve(todos, id) = [todos EXCEPT ![first].resolved = TRUE]
      BY <1>3 DEF Resolve, named, first
    <2>5. first \in 1..Len(todos)
      BY <2>1, <2>3
    <2> DEFINE new == [todos EXCEPT ![first] = [todos[first] EXCEPT !.resolved = TRUE]]
    <2>6. /\ [todos[first] EXCEPT !.resolved = TRUE] \in Todo(ids)
          /\ [todos[first] EXCEPT !.resolved = TRUE].id = todos[first].id
      BY <1>1, <2>5 DEF Todo
    <2>7. new \in Seq(Todo(ids)) /\ Len(new) = Len(todos)
      BY <2>5, <2>6, ExceptSeq
    <2>8. \A i \in 1..Len(todos) : new[i].id = todos[i].id
      BY <1>1, <2>5, <2>6
    <2>. QED BY <2>4, <2>7, <2>8
  <1>. QED BY <1>2, <1>3

LEMMA TodosChange ==
  ASSUME NEW ids, NEW todos \in Seq(Todo(ids)), DistinctIds(todos),
         NEW event, IsTodoEvent(event, ids),
         event.type = "TodoAdded" => event.id \notin IdsIn(todos)
  PROVE  /\ ApplyToTodos(todos, event) \in Seq(Todo(ids))
         /\ DistinctIds(ApplyToTodos(todos, event))
         /\ \A id \in IdsIn(ApplyToTodos(todos, event)) :
              id \in IdsIn(todos) \/ (event.type = "TodoAdded" /\ id = event.id)
  <1>1. CASE event.type = "TodoListCreated" \/ event.type = "TodoAssignedTo"
    <2>1. ApplyToTodos(todos, event) = todos
      BY <1>1 DEF ApplyToTodos
    <2>. QED BY <2>1
  <1>2. CASE event.type = "TodoAdded"
    <2> DEFINE todo == [id |-> event.id, resolved |-> FALSE]
    <2>1. ApplyToTodos(todos, event) = Append(todos, todo)
      BY <1>2 DEF ApplyToTodos
    <2>2. todo \in Todo(ids) /\ todo.id = event.id
      BY <1>2 DEF Todo, IsTodoEvent
    <2> HIDE DEF todo
    <2>. QED BY <1>2, <2>1, <2>2, TodoAppended
  <1>3. CASE event.type = "TodoRemoved"
    <2>1. ApplyToTodos(todos, event) = Without(todos, event.id)
      BY <1>3 DEF ApplyToTodos
    <2>. QED BY <2>1, WithoutKeeps
  <1>4. CASE event.type = "TodoResolved"
    <2>1. ApplyToTodos(todos, event) = Resolve(todos, event.id)
      BY <1>4 DEF ApplyToTodos
    <2>. QED BY <2>1, ResolveKeeps DEF DistinctIds, IdsIn
  <1>. QED BY <1>1, <1>2, <1>3, <1>4 DEF IsTodoEvent

(* The todos of a list that adds no id twice have distinct ids, all along. *)
AddsDistinct(events) ==
  \A i, k \in 1..Len(events) :
    /\ events[i].type = "TodoAdded" /\ events[k].type = "TodoAdded"
    /\ events[i].id = events[k].id
    => i = k

LEMMA TodosStayDistinct ==
  ASSUME NEW ids, NEW E, NEW events \in Seq(E), AddsDistinct(events),
         \A i \in 1..Len(events) : IsTodoEvent(events[i], ids),
         NEW last \in 0..Len(events)
  PROVE  LET todos == Todos(SubSeq(events, 1, last))
         IN  todos \in Seq(Todo(ids)) /\ DistinctIds(todos)
  <1> DEFINE n == Len(events)
             A == Seq(Todo(ids))
             new(list, k) == ApplyToTodos(list, events[k])
             step == [k \in 1..n |-> [list \in A |->
                        IF new(list, k) \in A THEN new(list, k) ELSE list]]
             added(k) == {i \in 1..k : events[i].type = "TodoAdded"}
  <1>1. /\ n \in Nat /\ NoTodos \in A /\ Len(NoTodos) = 0
        /\ \A k \in 1..n : /\ k \in 0..n /\ k - 1 \in 0..n
                           /\ k \in 1..k /\ \A i \in 1..(k - 1) : i \in 1..n /\ i \in 1..k /\ i # k
    BY LenProperties, EmptySeq DEF NoTodos
  <1> HIDE DEF A, new
  <1>2. IsSteps(step, n, A)
    BY DEF IsSteps
  <1>3. PICK h : Iterated(h, step, n, A, NoTodos)
    <2> HIDE DEF step, n
    <2>. QED BY <1>1, <1>2, Iterates
  <1>4. h \in [0..n -> A] /\ h[0] = NoTodos
    BY <1>3 DEF Iterated
  <1>5. \A k \in 1..n : new(h[k - 1], k) \in A => h[k] = new(h[k - 1], k)
    <2>1. \A k \in 1..n : h[k] = step[k][h[k - 1]] /\ h[k - 1] \in A
      BY <1>1, <1>3, <1>4 DEF Iterated
    <2>. QED BY <2>1
  <1> HIDE DEF step
  <1> DEFINE Good(k) ==
        /\ DistinctIds(h[k])
        /\ IdsIn(h[k]) \subseteq {events[i].id : i \in added(k)}
        /\ k # 0 => h[k] = new(h[k - 1], k)
      S == {k \in 0..n : Good(k)}
  <1>6. 0 \in S
    BY <1>1, <1>4 DEF DistinctIds, IdsIn
  <1>7. ASSUME NEW k \in 1..n, k - 1 \in S
        PROVE  k \in S
    <2> DEFINE event == events[k]
    <2>1. /\ h[k - 1] \in Seq(Todo(ids)) /\ DistinctIds(h[k - 1])
          /\ IdsIn(h[k - 1]) \subseteq {events[i].id : i \in added(k - 1)}
      BY <1>1, <1>4, <1>7 DEF A
    <2>2. IsTodoEvent(event, ids)
      OBVIOUS
    <2>3. event.type = "TodoAdded" => event.id \notin IdsIn(h[k - 1])
      BY <1>1, <2>1 DEF AddsDistinct
    <2>4. /\ new(h[k - 1], k) \in A
          /\ DistinctIds(new(h[k - 1], k))
          /\ \A id \in IdsIn(new(h[k - 1], k)) :
               id \in IdsIn(h[k - 1]) \/ (event.type = "TodoAdded" /\ id = event.id)
      <3> HIDE DEF n, event
      <3>1. /\ ApplyToTodos(h[k - 1], event) \in Seq(Todo(ids))
            /\ DistinctIds(ApplyToTodos(h[k - 1], event))
            /\ \A id \in IdsIn(ApplyToTodos(h[k - 1], event)) :
                 id \in IdsIn(h[k - 1]) \/ (event.type = "TodoAdded" /\ id = event.id)
        BY <2>1, <2>2, <2>3, TodosChange
      <3>. QED BY <3>1 DEF new, A, event
    <2>5. h[k] = new(h[k - 1], k)
      BY <1>5, <2>4
    <2>6. {events[i].id : i \in added(k - 1)} \subseteq {events[i].id : i \in added(k)}
      BY <1>1
    <2>7. event.type = "TodoAdded" => event.id \in {events[i].id : i \in added(k)}
      BY <1>1
    <2> HIDE DEF n, added
    <2>. QED BY <1>1, <2>1, <2>4, <2>5, <2>6, <2>7
  <1> HIDE DEF S
  <1>8. \A k \in 0..n : k \in S
    <2> HIDE DEF n
    <2>. QED BY <1>1, <1>6, <1>7, UpTo
  <1> DEFINE s == SubSeq(events, 1, last)
  <1>9. /\ last \in Nat /\ Len(s) = last /\ \A k \in 1..last : s[k] = events[k] /\ k \in 1..n
    OBVIOUS
  <1>10. \A k \in 1..last : h[k] = ApplyToTodos(h[k - 1], s[k])
    <2>1. ASSUME NEW k \in 1..last PROVE h[k] = ApplyToTodos(h[k - 1], s[k])
      <3>1. k \in S /\ k # 0 /\ s[k] = events[k]
        BY <1>1, <1>8, <1>9
      <3>. QED BY <3>1 DEF S, new
    <2>. QED BY <2>1
  <1> HIDE DEF s
  <1>11. Todos(s) = h[last]
    <2>1. TodosRun(h, s)
      BY <1>4, <1>9, <1>10 DEF TodosRun
    <2>. QED BY <1>9, <2>1, TodosAre
  <1>. QED BY <1>4, <1>8, <1>11 DEF S, A, s

-----------------------------------------------------------------------------
(* The events of a game.                                                   *)
IsGameEvent(event) ==
  /\ event.type \in {"Registered", "Borrowed", "Returned", "Updated"}
  /\ event.type = "Borrowed" => event.borrower # NoBorrower

(* A function that goes on from the default game by the events is what     *)
(* they fold to.                                                           *)
GameRun(h, events) ==
  /\ h[0] = DefaultGame
  /\ \A k \in 1..Len(events) : h[k] = ApplyToGame(h[k - 1], events[k])

LEMMA GameIs ==
  ASSUME NEW events, Len(events) \in Nat, NEW h, GameRun(h, events)
  PROVE  GameOf(events) = h[Len(events)]
  <1> DEFINE n == Len(events)
             g == [k \in 0..n |-> h[k]]
             f == CHOOSE f : f = [k \in 0..n |->
                    IF k = 0 THEN DefaultGame ELSE ApplyToGame(f[k - 1], events[k])]
  <1>1. /\ n \in Nat /\ 0 \in 0..n /\ n \in 0..n
        /\ \A k \in 1..n : k \in 0..n /\ k - 1 \in 0..n /\ k # 0
        /\ \A k \in 0..n : k # 0 => k \in 1..n
    OBVIOUS
  <1>2. GameOf(events) = f[n]
    BY DEF GameOf
  <1>3. h[0] = DefaultGame /\ \A k \in 1..n : h[k] = ApplyToGame(h[k - 1], events[k])
    BY DEF GameRun
  <1> HIDE DEF n
  <1>4. /\ \A k \in 0..n : g[k] = h[k]
        /\ g = [k \in 0..n |-> IF k = 0 THEN DefaultGame
                                        ELSE ApplyToGame(g[k - 1], events[k])]
    BY <1>1, <1>3
  <1> HIDE DEF g
  <1>5. f = [k \in 0..n |-> IF k = 0 THEN DefaultGame
                                     ELSE ApplyToGame(f[k - 1], events[k])]
    BY <1>4, Zenon
  <1> HIDE DEF f
  <1>6. GoAlike(f, g, n)
    BY <1>1, <1>4, <1>5 DEF GoAlike
  <1>7. f[n] = g[n] /\ g[n] = h[n]
    BY <1>1, <1>4, <1>6, SameUpTo
  <1>. QED BY <1>2, <1>7 DEF n

(* The same of the view.                                                   *)
GameViewRun(h, envelopes) ==
  /\ h[0] = DefaultGameView
  /\ \A k \in 1..Len(envelopes) : h[k] = UpdateView(h[k - 1], envelopes[k])

LEMMA GameViewIs ==
  ASSUME NEW events, Len(events) \in Nat, NEW h, GameViewRun(h, events)
  PROVE  GameView(events) = h[Len(events)]
  <1> DEFINE n == Len(events)
             g == [k \in 0..n |-> h[k]]
             f == CHOOSE f : f = [k \in 0..n |->
                    IF k = 0 THEN DefaultGameView ELSE UpdateView(f[k - 1], events[k])]
  <1>1. /\ n \in Nat /\ 0 \in 0..n /\ n \in 0..n
        /\ \A k \in 1..n : k \in 0..n /\ k - 1 \in 0..n /\ k # 0
        /\ \A k \in 0..n : k # 0 => k \in 1..n
    OBVIOUS
  <1>2. GameView(events) = f[n]
    BY DEF GameView
  <1>3. h[0] = DefaultGameView /\ \A k \in 1..n : h[k] = UpdateView(h[k - 1], events[k])
    BY DEF GameViewRun
  <1> HIDE DEF n
  <1>4. /\ \A k \in 0..n : g[k] = h[k]
        /\ g = [k \in 0..n |-> IF k = 0 THEN DefaultGameView
                                        ELSE UpdateView(g[k - 1], events[k])]
    BY <1>1, <1>3
  <1> HIDE DEF g
  <1>5. f = [k \in 0..n |-> IF k = 0 THEN DefaultGameView
                                     ELSE UpdateView(f[k - 1], events[k])]
    BY <1>4, Zenon
  <1> HIDE DEF f
  <1>6. GoAlike(f, g, n)
    BY <1>1, <1>4, <1>5 DEF GoAlike
  <1>7. f[n] = g[n] /\ g[n] = h[n]
    BY <1>1, <1>4, <1>6, SameUpTo
  <1>. QED BY <1>2, <1>7 DEF n

(* The game after each of some events.                                     *)
GameParts(game, title, available) ==
  game = [title |-> title, available |-> available]

IsGame(game) == \E title : \E available \in BOOLEAN : GameParts(game, title, available)

Games(h, events) ==
  /\ GameRun(h, events)
  /\ \A k \in 0..Len(events) : IsGame(h[k])

LEMMA GamesOf ==
  ASSUME NEW events, Len(events) \in Nat,
         \A i \in 1..Len(events) : IsGameEvent(events[i])
  PROVE  \E h : Games(h, events)
  <1> DEFINE n == Len(events)
             titles == {EmptyTitle} \cup {events[i].title : i \in 1..n}
             A == [title : titles, available : BOOLEAN]
             new(game, k) == ApplyToGame(game, events[k])
             step == [k \in 1..n |-> [game \in A |-> new(game, k)]]
  <1>1. n \in Nat /\ DefaultGame \in A /\ \A k \in 1..n : k - 1 \in 0..n
    BY DEF DefaultGame
  <1>2. ASSUME NEW k \in 1..n, NEW game \in A PROVE new(game, k) \in A
    <2>1. events[k].title \in titles /\ IsGameEvent(events[k])
      OBVIOUS
    <2> HIDE DEF titles
    <2>. QED BY <2>1 DEF ApplyToGame, IsGameEvent
  <1> HIDE DEF A, new
  <1>3. IsSteps(step, n, A)
    BY <1>2 DEF IsSteps
  <1>4. PICK h : Iterated(h, step, n, A, DefaultGame)
    <2> HIDE DEF step, n
    <2>. QED BY <1>1, <1>3, Iterates
  <1>5. h \in [0..n -> A] /\ h[0] = DefaultGame
    BY <1>4 DEF Iterated
  <1>6. \A k \in 1..n : h[k] = new(h[k - 1], k)
    <2>1. \A k \in 1..n : h[k] = step[k][h[k - 1]] /\ h[k - 1] \in A
      BY <1>1, <1>4, <1>5 DEF Iterated
    <2>. QED BY <2>1
  <1>7. \A game \in A : IsGame(game)
    BY DEF A, IsGame, GameParts
  <1>. QED BY <1>5, <1>6, <1>7 DEF Games, GameRun, new

(* A game is available if it was registered or returned, and was not       *)
(* borrowed since.                                                         *)
IsIn(events, n) ==
  \E i \in 1..n :
    /\ events[i].type \in {"Registered", "Returned"}
    /\ \A k \in (i + 1)..n : events[k].type # "Borrowed"

LEMMA AvailableIsIn ==
  ASSUME NEW events, Len(events) \in Nat,
         \A i \in 1..Len(events) : IsGameEvent(events[i]),
         NEW h, Games(h, events)
  PROVE  \A k \in 0..Len(events) : h[k].available <=> IsIn(events, k)
  <1> DEFINE n == Len(events)
             S == {k \in 0..n : h[k].available <=> IsIn(events, k)}
  <1>1. 0 \in S
    BY DEF Games, GameRun, DefaultGame, IsIn
  <1>2. ASSUME NEW k \in 1..n, k - 1 \in S
        PROVE  k \in S
    <2>1. /\ k \in Nat /\ k - 1 \in 0..n /\ k \in 0..n
          /\ h[k] = ApplyToGame(h[k - 1], events[k]) /\ IsGameEvent(events[k])
      BY DEF Games, GameRun
    <2>2. PICK title : \E available \in BOOLEAN : GameParts(h[k - 1], title, available)
      BY <2>1 DEF Games, IsGame
    <2>3. PICK available \in BOOLEAN : GameParts(h[k - 1], title, available)
      BY <2>2
    <2>4. available <=> IsIn(events, k - 1)
      BY <1>2, <2>3 DEF GameParts
    <2>5. CASE events[k].type \in {"Registered", "Returned"}
      <3>1. h[k].available = TRUE
        BY <2>1, <2>3, <2>5 DEF ApplyToGame, GameParts
      <3>2. IsIn(events, k)
        BY <2>1, <2>5 DEF IsIn
      <3>. QED BY <2>1, <3>1, <3>2
    <2>6. CASE events[k].type = "Borrowed"
      <3>1. h[k].available = FALSE
        BY <2>1, <2>3, <2>6 DEF ApplyToGame, GameParts
      <3>2. ~ IsIn(events, k)
        <4> SUFFICES ASSUME NEW i \in 1..k,
                            events[i].type \in {"Registered", "Returned"},
                            \A m \in (i + 1)..k : events[m].type # "Borrowed"
                     PROVE  FALSE
          BY DEF IsIn
        <4>1. i # k
          BY <2>6
        <4>2. k \in (i + 1)..k
          BY <2>1, <4>1
        <4>. QED BY <2>6, <4>2
      <3>. QED BY <2>1, <3>1, <3>2
    <2>7. CASE events[k].type = "Updated"
      <3>1. h[k].available = available
        BY <2>1, <2>3, <2>7 DEF ApplyToGame, GameParts
      <3>2. IsIn(events, k) <=> IsIn(events, k - 1)
        <4>1. ASSUME IsIn(events, k) PROVE IsIn(events, k - 1)
          <5>1. PICK i \in 1..k :
                  /\ events[i].type \in {"Registered", "Returned"}
                  /\ \A m \in (i + 1)..k : events[m].type # "Borrowed"
            BY <4>1 DEF IsIn
          <5>2. i # k
            BY <2>7, <5>1
          <5>3. i \in 1..(k - 1) /\ \A m \in (i + 1)..(k - 1) : m \in (i + 1)..k
            BY <2>1, <5>2
          <5>. QED BY <5>1, <5>3 DEF IsIn
        <4>2. ASSUME IsIn(events, k - 1) PROVE IsIn(events, k)
          <5>1. PICK i \in 1..(k - 1) :
                  /\ events[i].type \in {"Registered", "Returned"}
                  /\ \A m \in (i + 1)..(k - 1) : events[m].type # "Borrowed"
            BY <4>2 DEF IsIn
          <5>2. i \in 1..k /\ \A m \in (i + 1)..k : m = k \/ m \in (i + 1)..(k - 1)
            BY <2>1
          <5>. QED BY <2>7, <5>1, <5>2 DEF IsIn
        <4>. QED BY <4>1, <4>2
      <3>. QED BY <2>1, <2>4, <3>1, <3>2
    <2>. QED BY <2>1, <2>5, <2>6, <2>7 DEF IsGameEvent
  <1> HIDE DEF S
  <1>3. \A k \in 0..n : k \in S
    <2> HIDE DEF n
    <2>1. n \in Nat
      BY DEF n
    <2>. QED BY <1>1, <1>2, <2>1, UpTo
  <1>. QED BY <1>3 DEF S

LEMMA GameIsIn ==
  ASSUME NEW E, NEW events \in Seq(E),
         \A i \in 1..Len(events) : IsGameEvent(events[i]),
         NEW last \in 0..Len(events)
  PROVE  GameOf(SubSeq(events, 1, last)).available <=> IsIn(events, last)
  <1> DEFINE s == SubSeq(events, 1, last)
  <1>1. /\ last \in Nat /\ Len(events) \in Nat /\ Len(s) = last
        /\ \A k \in 1..last : s[k] = events[k] /\ k \in 1..Len(events)
    OBVIOUS
  <1>2. PICK h : Games(h, events)
    BY <1>1, GamesOf
  <1> HIDE DEF s
  <1>3. GameRun(h, s)
    BY <1>1, <1>2 DEF Games, GameRun
  <1>4. GameOf(s) = h[last]
    BY <1>1, <1>3, GameIs
  <1>. QED BY <1>1, <1>2, <1>4, AvailableIsIn DEF s

(* The view after each of some envelopes.                                  *)
ViewParts(view, title, available, borrower, version) ==
  view = [title |-> title, available |-> available, borrower |-> borrower,
          version |-> version]

IsView(view) ==
  \E title, borrower, version : \E available \in BOOLEAN :
    ViewParts(view, title, available, borrower, version)

GameViews(h, envelopes) ==
  /\ GameViewRun(h, envelopes)
  /\ \A k \in 0..Len(envelopes) : IsView(h[k])

LEMMA GameViewsOf ==
  ASSUME NEW envelopes, Len(envelopes) \in Nat,
         \A i \in 1..Len(envelopes) : IsGameEvent(envelopes[i].event)
  PROVE  \E h : GameViews(h, envelopes)
  <1> DEFINE n == Len(envelopes)
             titles == {EmptyTitle} \cup {envelopes[i].event.title : i \in 1..n}
             borrowers == {NoBorrower} \cup {envelopes[i].event.borrower : i \in 1..n}
             versions == {0} \cup {envelopes[i].version : i \in 1..n}
             A == [title : titles, available : BOOLEAN, borrower : borrowers,
                   version : versions]
             new(view, k) == UpdateView(view, envelopes[k])
             step == [k \in 1..n |-> [view \in A |-> new(view, k)]]
  <1>1. n \in Nat /\ DefaultGameView \in A /\ \A k \in 1..n : k - 1 \in 0..n
    BY DEF DefaultGameView
  <1>2. ASSUME NEW k \in 1..n, NEW view \in A PROVE new(view, k) \in A
    <2>1. /\ envelopes[k].event.title \in titles
          /\ envelopes[k].event.borrower \in borrowers /\ NoBorrower \in borrowers
          /\ envelopes[k].version \in versions /\ IsGameEvent(envelopes[k].event)
      OBVIOUS
    <2> HIDE DEF titles, borrowers, versions
    <2>. QED BY <2>1 DEF UpdateView, IsGameEvent
  <1>3. \A view \in A : IsView(view)
    BY DEF IsView, ViewParts
  <1> HIDE DEF A, new
  <1>4. IsSteps(step, n, A)
    BY <1>2 DEF IsSteps
  <1>5. PICK h : Iterated(h, step, n, A, DefaultGameView)
    <2> HIDE DEF step, n
    <2>. QED BY <1>1, <1>4, Iterates
  <1>6. h \in [0..n -> A] /\ h[0] = DefaultGameView
    BY <1>5 DEF Iterated
  <1>7. \A k \in 1..n : h[k] = new(h[k - 1], k)
    <2>1. \A k \in 1..n : h[k] = step[k][h[k - 1]] /\ h[k - 1] \in A
      BY <1>1, <1>5, <1>6 DEF Iterated
    <2>. QED BY <2>1
  <1>. QED BY <1>3, <1>6, <1>7 DEF GameViews, GameViewRun, new

(* A view that names a borrower says the game is out, whatever events were *)
(* applied to it.                                                          *)
LEMMA BorrowerIsOut ==
  ASSUME NEW envelopes, Len(envelopes) \in Nat,
         \A i \in 1..Len(envelopes) : IsGameEvent(envelopes[i].event)
  PROVE  GameView(envelopes).borrower # NoBorrower => ~ GameView(envelopes).available
  <1> DEFINE n == Len(envelopes)
  <1>1. PICK h : GameViews(h, envelopes)
    BY GameViewsOf
  <1>2. GameView(envelopes) = h[n]
    BY <1>1, GameViewIs DEF GameViews
  <1> DEFINE S == {k \in 0..n : h[k].borrower # NoBorrower => h[k].available = FALSE}
  <1>3. 0 \in S
    BY <1>1 DEF GameViews, GameViewRun, DefaultGameView
  <1>4. ASSUME NEW k \in 1..n, k - 1 \in S
        PROVE  k \in S
    <2>1. /\ h[k] = UpdateView(h[k - 1], envelopes[k]) /\ IsView(h[k - 1])
          /\ IsGameEvent(envelopes[k].event) /\ k \in 0..n
      BY <1>1 DEF GameViews, GameViewRun
    <2>2. PICK title, borrower, version : \E available \in BOOLEAN :
            ViewParts(h[k - 1], title, available, borrower, version)
      BY <2>1 DEF IsView
    <2>3. PICK available \in BOOLEAN :
            ViewParts(h[k - 1], title, available, borrower, version)
      BY <2>2
    <2>4. h[k].borrower # NoBorrower => h[k].available = FALSE
      BY <1>4, <2>1, <2>3 DEF UpdateView, ViewParts, IsGameEvent
    <2>. QED BY <2>1, <2>4
  <1> HIDE DEF S
  <1>5. \A k \in 0..n : k \in S
    <2>1. n \in Nat
      OBVIOUS
    <2> HIDE DEF n
    <2>. QED BY <1>3, <1>4, <2>1, UpTo
  <1>6. n \in S
    BY <1>5
  <1>. QED BY <1>2, <1>6 DEF S

(* What an event does to the parts of a game and of its view.              *)
Renamed(event, title) == IF event.title = KeepTitle THEN title ELSE event.title

LEMMA GameSteps ==
  ASSUME NEW game, NEW title, NEW available \in BOOLEAN,
         GameParts(game, title, available), NEW event
  PROVE  LET new == ApplyToGame(game, event)
         IN  /\ event.type = "Registered" => GameParts(new, event.title, TRUE)
             /\ event.type = "Borrowed" => GameParts(new, title, FALSE)
             /\ event.type = "Returned" => GameParts(new, title, TRUE)
             /\ event.type = "Updated" =>
                  GameParts(new, Renamed(event, title), available)
  BY DEF ApplyToGame, Renamed, GameParts

LEMMA ViewSteps ==
  ASSUME NEW view, NEW title, NEW available \in BOOLEAN, NEW borrower, NEW version,
         ViewParts(view, title, available, borrower, version), NEW envelope
  PROVE  LET new == UpdateView(view, envelope)
             event == envelope.event
             at == envelope.version
         IN  /\ event.type = "Registered" =>
                  ViewParts(new, event.title, TRUE, NoBorrower, at)
             /\ event.type = "Borrowed" =>
                  ViewParts(new, title, FALSE, event.borrower, at)
             /\ event.type = "Returned" => ViewParts(new, title, TRUE, NoBorrower, at)
             /\ event.type = "Updated" =>
                  ViewParts(new, Renamed(event, title), available, borrower, at)
  <1> DEFINE event == envelope.event
             read == [view EXCEPT !.version = envelope.version]
  <1>1. read = [title |-> title, available |-> available, borrower |-> borrower,
                version |-> envelope.version]
    BY DEF ViewParts
  <1> HIDE DEF read
  <1>2. CASE event.type = "Registered"
    <2>1. UpdateView(view, envelope) =
            [read EXCEPT !.title = event.title, !.available = TRUE, !.borrower = NoBorrower]
      BY <1>2 DEF UpdateView, read
    <2>. QED BY <1>1, <1>2, <2>1 DEF ViewParts
  <1>3. CASE event.type = "Borrowed"
    <2>1. UpdateView(view, envelope) =
            [read EXCEPT !.available = FALSE, !.borrower = event.borrower]
      BY <1>3 DEF UpdateView, read
    <2>. QED BY <1>1, <1>3, <2>1 DEF ViewParts
  <1>4. CASE event.type = "Returned"
    <2>1. UpdateView(view, envelope) =
            [read EXCEPT !.available = TRUE, !.borrower = NoBorrower]
      BY <1>4 DEF UpdateView, read
    <2>. QED BY <1>1, <1>4, <2>1 DEF ViewParts
  <1>5. CASE event.type = "Updated"
    <2>1. UpdateView(view, envelope) =
            [read EXCEPT !.title = IF event.title = KeepTitle THEN @ ELSE event.title]
      BY <1>5 DEF UpdateView, read
    <2>. QED BY <1>1, <1>5, <2>1 DEF ViewParts, Renamed
  <1>. QED BY <1>2, <1>3, <1>4, <1>5

(* The view and the game go on alike.                                      *)
Shows(view, game, version) ==
  /\ view.version = version
  /\ view.available = game.available
  /\ view.title = game.title
  /\ ~ game.available /\ version # 0 => view.borrower # NoBorrower

LEMMA ViewFollows ==
  ASSUME NEW view, IsView(view), NEW game, IsGame(game), NEW n, Shows(view, game, n),
         NEW envelope, IsGameEvent(envelope.event),
         n # 0 \/ envelope.event.type = "Registered"
  PROVE  Shows(UpdateView(view, envelope), ApplyToGame(game, envelope.event),
               envelope.version)
  <1> DEFINE event == envelope.event
             at == envelope.version
             new == UpdateView(view, envelope)
             now == ApplyToGame(game, event)
  <1>1. PICK title, borrower, version : \E available \in BOOLEAN :
          ViewParts(view, title, available, borrower, version)
    BY DEF IsView
  <1>2. PICK available \in BOOLEAN : ViewParts(view, title, available, borrower, version)
    BY <1>1
  <1>3. PICK name : \E out \in BOOLEAN : GameParts(game, name, out)
    BY DEF IsGame
  <1>4. PICK out \in BOOLEAN : GameParts(game, name, out)
    BY <1>3
  <1>5. /\ out = available /\ name = title
        /\ ~ out /\ n # 0 => borrower # NoBorrower
    BY <1>2, <1>4 DEF ViewParts, GameParts, Shows
  <1> HIDE DEF new, now
  <1>6. CASE event.type = "Registered"
    <2>1. ViewParts(new, event.title, TRUE, NoBorrower, at)
      BY <1>2, <1>6, ViewSteps DEF new
    <2>2. GameParts(now, event.title, TRUE)
      BY <1>4, <1>6, GameSteps DEF now
    <2>. QED BY <2>1, <2>2 DEF ViewParts, GameParts, Shows, new, now
  <1>7. CASE event.type = "Borrowed"
    <2>1. ViewParts(new, title, FALSE, event.borrower, at)
      BY <1>2, <1>7, ViewSteps DEF new
    <2>2. GameParts(now, name, FALSE)
      BY <1>4, <1>7, GameSteps DEF now
    <2>. QED BY <1>5, <1>7, <2>1, <2>2 DEF ViewParts, GameParts, Shows, IsGameEvent, new, now
  <1>8. CASE event.type = "Returned"
    <2>1. ViewParts(new, title, TRUE, NoBorrower, at)
      BY <1>2, <1>8, ViewSteps DEF new
    <2>2. GameParts(now, name, TRUE)
      BY <1>4, <1>8, GameSteps DEF now
    <2>. QED BY <1>5, <2>1, <2>2 DEF ViewParts, GameParts, Shows, new, now
  <1>9. CASE event.type = "Updated"
    <2>1. ViewParts(new, Renamed(event, title), available, borrower, at)
      BY <1>2, <1>9, ViewSteps DEF new
    <2>2. GameParts(now, Renamed(event, name), out)
      BY <1>4, <1>9, GameSteps DEF now
    <2>. QED BY <1>5, <1>9, <2>1, <2>2 DEF ViewParts, GameParts, Shows, new, now
  <1>. QED BY <1>6, <1>7, <1>8, <1>9 DEF IsGameEvent

(* The view that the first events of a story were applied to, each once    *)
(* and in order, is the game after them.                                   *)
LEMMA ViewIsGame ==
  ASSUME NEW E, NEW story \in Seq(E), NEW last \in 0..Len(story), NEW envelopes,
         \A i \in 1..Len(story) : /\ IsGameEvent(story[i])
                                  /\ i = 1 => story[i].type = "Registered",
         Len(envelopes) = last,
         \A i \in 1..last : envelopes[i].event = story[i] /\ envelopes[i].version = i
  PROVE  LET game == GameOf(SubSeq(story, 1, last))
             view == GameView(envelopes)
         IN  /\ view.version = last
             /\ view.available = game.available
             /\ view.title = game.title
             /\ ~ game.available /\ last > 0 => view.borrower # NoBorrower
  <1> DEFINE s == SubSeq(story, 1, last)
  <1>1. /\ last \in Nat /\ Len(story) \in Nat /\ Len(s) = last
        /\ \A k \in 1..last : s[k] = story[k] /\ k \in 1..Len(story)
    OBVIOUS
  <1>2. PICK g : Games(g, story)
    BY <1>1, GamesOf
  <1>3. PICK h : GameViews(h, envelopes)
    BY <1>1, GameViewsOf
  <1> HIDE DEF s
  <1>4. GameOf(s) = g[last]
    <2>1. GameRun(g, s)
      BY <1>1, <1>2 DEF Games, GameRun
    <2>. QED BY <1>1, <2>1, GameIs
  <1>5. GameView(envelopes) = h[last]
    <2>1. GameViewRun(h, envelopes)
      BY <1>3 DEF GameViews
    <2>. QED BY <1>1, <2>1, GameViewIs
  <1> DEFINE S == {k \in 0..last : Shows(h[k], g[k], k)}
  <1>6. 0 \in S
    <2>1. h[0] = DefaultGameView /\ g[0] = DefaultGame /\ 0 \in 0..last
      BY <1>1, <1>2, <1>3 DEF Games, GameViews, GameRun, GameViewRun
    <2>2. Shows(DefaultGameView, DefaultGame, 0)
      BY DEF Shows, DefaultGameView, DefaultGame
    <2>. QED BY <2>1, <2>2
  <1>7. ASSUME NEW k \in 1..last, k - 1 \in S
        PROVE  k \in S
    <2>0. k - 1 \in 0..Len(story) /\ k - 1 \in 0..last /\ k \in 0..last /\ k \in 1..Len(story)
      BY <1>1
    <2>1. /\ h[k] = UpdateView(h[k - 1], envelopes[k]) /\ IsView(h[k - 1])
          /\ g[k] = ApplyToGame(g[k - 1], story[k]) /\ IsGame(g[k - 1])
      BY <1>2, <1>3, <2>0 DEF Games, GameViews, GameRun, GameViewRun
    <2>2. /\ envelopes[k].event = story[k] /\ envelopes[k].version = k
          /\ IsGameEvent(story[k])
          /\ k - 1 # 0 \/ story[k].type = "Registered"
      BY <1>1
    <2>3. Shows(h[k - 1], g[k - 1], k - 1)
      BY <1>7
    <2>4. Shows(h[k], g[k], k)
      BY ONLY <2>1, <2>2, <2>3, ViewFollows
    <2>. QED BY <2>0, <2>4
  <1> HIDE DEF S
  <1>8. \A k \in 0..last : k \in S
    BY <1>1, <1>6, <1>7, UpTo
  <1>9. last \in S
    BY <1>1, <1>8
  <1>. QED BY <1>1, <1>4, <1>5, <1>9 DEF S, s, Shows
-----------------------------------------------------------------------------
(* One event more.                                                         *)
Grown(old, new, E, event) ==
  /\ old \in Seq(E) /\ new \in Seq(E) /\ Len(new) = Len(old) + 1
  /\ \A i \in 1..Len(old) : new[i] = old[i]
  /\ new[Len(old) + 1] = event

LEMMA GrownParts ==
  ASSUME NEW E, NEW old, NEW new, NEW event, Grown(old, new, E, event)
  PROVE  /\ Len(old) \in Nat /\ DOMAIN old = 1..Len(old)
         /\ DOMAIN new = 1..(Len(old) + 1) /\ Len(old) + 1 \in DOMAIN new
         /\ \A i \in DOMAIN new : i \in DOMAIN old \/ i = Len(old) + 1
         /\ \A i \in DOMAIN old : i \in DOMAIN new /\ new[i] = old[i]
         /\ \A m \in 0..Len(old) : SubSeq(new, 1, m) = SubSeq(old, 1, m)
         /\ SubSeq(new, 1, Len(old)) = old
  <1>1. /\ old \in Seq(E) /\ new \in Seq(E) /\ Len(new) = Len(old) + 1
        /\ \A i \in 1..Len(old) : new[i] = old[i]
    BY DEF Grown
  <1>2. Len(old) \in Nat /\ DOMAIN old = 1..Len(old) /\ DOMAIN new = 1..(Len(old) + 1)
    BY <1>1, LenProperties
  <1>3. ASSUME NEW m \in 0..Len(old) PROVE SubSeq(new, 1, m) = SubSeq(old, 1, m)
    <2>1. SubSeq(new, 1, m) = [i \in 1..m |-> new[i]]
      BY <1>1, <1>2
    <2>2. SubSeq(old, 1, m) = [i \in 1..m |-> old[i]]
      BY <1>1, <1>2
    <2>3. \A i \in 1..m : new[i] = old[i]
      BY <1>1, <1>2
    <2>. QED BY <2>1, <2>2, <2>3
  <1>4. SubSeq(old, 1, Len(old)) = old
    BY <1>1
  <1>. QED BY <1>1, <1>2, <1>3, <1>4

(* The guards of the game, met by one event more, keep the story of loans. *)
LEMMA LendingGoesOn ==
  ASSUME NEW E, NEW old, NEW new, NEW event, Grown(old, new, E, event),
         Lending(old),
         event.type = "Registered" <=> Len(old) = 0,
         event.type = "Borrowed" => IsIn(old, Len(old)),
         event.type = "Returned" => ~ IsIn(old, Len(old))
  PROVE  Lending(new)
  <1> DEFINE n == Len(old)
  <1>1. /\ n \in Nat /\ DOMAIN old = 1..n /\ DOMAIN new = 1..(n + 1)
        /\ new[n + 1] = event
        /\ \A i \in 1..n : new[i] = old[i]
    BY GrownParts DEF Grown
  <1>2. /\ \A i \in 1..n : old[i].type = "Registered" <=> i = 1
        /\ Apart(old, "Borrowed", "Returned")
        /\ Apart(old, "Returned", "Borrowed")
        /\ \A k \in 1..n : old[k].type = "Returned" =>
             \E i \in 1..k : old[i].type = "Borrowed"
    BY <1>1 DEF Lending
  <1> HIDE DEF n
  <1>3. \A i \in 1..(n + 1) : new[i].type = "Registered" <=> i = 1
    BY <1>1, <1>2 DEF n
  <1>4. ASSUME event.type = "Borrowed", NEW i \in 1..n, old[i].type = "Borrowed"
        PROVE  \E m \in i..(n + 1) : new[m].type = "Returned"
    <2>1. PICK k \in 1..n :
            /\ old[k].type \in {"Registered", "Returned"}
            /\ \A m \in (k + 1)..n : old[m].type # "Borrowed"
      BY <1>4 DEF IsIn, n
    <2>2. i <= k /\ i # k
      BY <1>1, <1>4, <2>1
    <2>3. k # 1 /\ k \in i..(n + 1)
      BY <1>1, <2>2
    <2>. QED BY <1>1, <1>2, <2>1, <2>3
  <1>5. ASSUME event.type = "Returned", NEW i \in 1..n,
               old[i].type \in {"Registered", "Returned"}
        PROVE  \E m \in i..n : old[m].type = "Borrowed"
    <2>1. PICK m \in (i + 1)..n : old[m].type = "Borrowed"
      BY <1>5 DEF IsIn, n
    <2>. QED BY <1>1, <2>1
  <1>6. ASSUME NEW first, NEW second, Apart(old, first, second),
               event.type = first => \A i \in 1..n : old[i].type = first =>
                 \E m \in i..(n + 1) : new[m].type = second
        PROVE  Apart(new, first, second)
    <2> SUFFICES ASSUME NEW i \in 1..(n + 1), NEW k \in 1..(n + 1), i < k,
                        new[i].type = first, new[k].type = first
                 PROVE  \E m \in i..k : new[m].type = second
      BY <1>1 DEF Apart
    <2>1. i \in 1..n /\ old[i].type = first
      BY <1>1
    <2>2. CASE k = n + 1
      BY <1>1, <1>6, <2>1, <2>2
    <2>3. CASE k # n + 1
      <3>1. k \in 1..n /\ old[k].type = first
        BY <1>1, <2>3
      <3>2. PICK m \in i..k : old[m].type = second
        BY <1>1, <1>6, <2>1, <3>1 DEF Apart
      <3>3. m \in 1..n
        BY <1>1, <2>1, <3>1
      <3>. QED BY <1>1, <3>2, <3>3
    <2>. QED BY <2>2, <2>3
  <1>7. Apart(new, "Borrowed", "Returned")
    BY <1>2, <1>4, <1>6
  <1>8. Apart(new, "Returned", "Borrowed")
    <2>1. ASSUME event.type = "Returned", NEW i \in 1..n, old[i].type = "Returned"
          PROVE  \E m \in i..(n + 1) : new[m].type = "Borrowed"
      <3>1. PICK m \in i..n : old[m].type = "Borrowed"
        BY <1>5, <2>1
      <3>2. m \in 1..n /\ m \in i..(n + 1)
        BY <1>1
      <3>. QED BY <1>1, <3>1, <3>2
    <2>. QED BY <1>2, <1>6, <2>1
  <1>9. ASSUME NEW k \in 1..(n + 1), new[k].type = "Returned"
        PROVE  \E i \in 1..k : new[i].type = "Borrowed"
    <2>1. CASE k \in 1..n
      <3>1. PICK i \in 1..k : old[i].type = "Borrowed"
        BY <1>1, <1>2, <1>9, <2>1
      <3>. QED BY <1>1, <2>1, <3>1
    <2>2. CASE k = n + 1
      <3>1. event.type = "Returned" /\ 1 \in 1..n /\ old[1].type = "Registered"
        BY <1>1, <1>2, <1>9, <2>2 DEF n
      <3>2. PICK m \in 1..n : old[m].type = "Borrowed"
        BY <1>5, <3>1
      <3>. QED BY <1>1, <2>2, <3>2
    <2>. QED BY <1>1, <2>1, <2>2
  <1>. QED BY <1>1, <1>3, <1>7, <1>8, <1>9 DEF Lending

(* The guards of the list, met by one event more, keep its story.          *)
TodoStory(story) ==
  \A n \in DOMAIN story : Consistent(Todos(SubSeq(story, 1, n - 1)), story[n])

LEMMA TodosGoOn ==
  ASSUME NEW ids, NEW E, NEW old, NEW new, NEW event, Grown(old, new, E, event),
         AddsDistinct(new), \A i \in 1..Len(new) : IsTodoEvent(new[i], ids),
         TodoStory(old),
         event.type \in {"TodoRemoved", "TodoAssignedTo", "TodoResolved"} =>
           TodosNamed(Todos(old), event.id) # {},
         event.type = "TodoResolved" =>
           ~ Todos(old)[FirstNamed(Todos(old), event.id)].resolved
  PROVE  TodoStory(new)
  <1> DEFINE n == Len(old)
  <1>1. /\ n \in Nat /\ new[n + 1] = event /\ n + 1 - 1 = n /\ Len(new) = n + 1
        /\ \A i \in DOMAIN new : i \in DOMAIN old \/ i = n + 1
        /\ \A i \in DOMAIN old : new[i] = old[i] /\ i - 1 \in 0..n
        /\ \A m \in 0..n : SubSeq(new, 1, m) = SubSeq(old, 1, m)
        /\ SubSeq(new, 1, n) = old /\ n \in 0..(n + 1) /\ new \in Seq(E)
    BY GrownParts DEF Grown
  <1> HIDE DEF n
  <1>2. ASSUME NEW i \in DOMAIN old
        PROVE  Consistent(Todos(SubSeq(new, 1, i - 1)), new[i])
    BY <1>1, <1>2 DEF TodoStory
  <1>3. Consistent(Todos(old), event)
    <2> DEFINE todos == Todos(old)
    <2>1. todos \in Seq(Todo(ids)) /\ DistinctIds(todos)
      BY <1>1, TodosStayDistinct
    <2> HIDE DEF todos
    <2>2. \A i, k \in DOMAIN todos : todos[i].id = todos[k].id => i = k
      BY <2>1, LenProperties DEF DistinctIds
    <2>3. ASSUME event.type = "TodoResolved", NEW i \in TodosNamed(todos, event.id)
          PROVE  ~ todos[i].resolved
      <3>1. \A k \in TodosNamed(todos, event.id) : k = i
        BY <2>2 DEF TodosNamed
      <3>2. i \in Nat
        BY <2>1, LenProperties DEF TodosNamed
      <3> DEFINE named == TodosNamed(todos, event.id)
      <3>3. i \in named /\ \A k \in named : i <= k
        BY <3>1, <3>2
      <3>4. FirstNamed(todos, event.id) \in named
        BY <3>3, Zenon DEF FirstNamed
      <3>5. FirstNamed(todos, event.id) = i
        BY <3>1, <3>4
      <3>. QED BY <2>3, <3>5 DEF todos
    <2>. QED BY <2>2, <2>3 DEF Consistent, todos
  <1>4. Consistent(Todos(SubSeq(new, 1, n + 1 - 1)), new[n + 1])
    BY <1>1, <1>3
  <1>. QED BY <1>1, <1>2, <1>4 DEF TodoStory

-----------------------------------------------------------------------------
(* The requests are those of the application.                              *)
Requests ==
  \A c \in Calls :
    /\ app = "ludotheque" => IsGameCommand(request[c])
    /\ app = "todolist" => IsTodoCommand(request[c])

(* Every event of a stream is the one event of a call that committed.      *)
Origins ==
  \A id \in Ids :
    /\ \A n \in 1..Len(stream[id]) : \E c \in Calls :
         stream[id][n] = <<c, 1>> /\ status[c] \notin {"pending", "observed"}
    /\ \A i, k \in 1..Len(stream[id]) : stream[id][i] = stream[id][k] => i = k

(* A call that creates found nothing, any other found something.           *)
Creators ==
  /\ seen \in [Calls -> State]
  /\ \A c \in Calls : status[c] = "observed" => (Creates(c) <=> seen[c] = <<>>)

(* The todolist finds no views.                                            *)
NoViews == app = "todolist" => \A c \in Calls : held[c] = NotHeld

Loans == app = "ludotheque" => \A id \in Ids : Lending(Story(id))

Todolists == app = "todolist" => \A id \in Ids : TodoStory(Story(id))

StoryInv ==
  DispatchInv /\ Requests /\ Origins /\ Creators /\ NoViews /\ Loans /\ Todolists

Told == {Payload(event) : event \in Event}

LEMMA StoryType ==
  ASSUME NEW s \in State
  PROVE  /\ Payloads(s) \in Seq(Told) /\ Len(Payloads(s)) = Len(s)
         /\ \A i \in 1..Len(s) : Payloads(s)[i] = Payload(s[i])
  <1>1. Len(s) \in Nat /\ DOMAIN s = 1..Len(s) /\ \A i \in 1..Len(s) : s[i] \in Event
    BY LenProperties, ElementOfSeq DEF State
  <1> DEFINE n == Len(s)
  <1>2. Payloads(s) = [i \in 1..n |-> Payload(s[i])]
    BY <1>1 DEF Payloads
  <1>3. \A i \in 1..n : Payload(s[i]) \in Told
    BY <1>1 DEF Told
  <1> HIDE DEF n
  <1>4. Payloads(s) \in [1..n -> Told]
    BY <1>2, <1>3
  <1>5. n \in Nat
    BY <1>1 DEF n
  <1>6. Payloads(s) \in Seq(Told) /\ Len(Payloads(s)) = n
    BY <1>4, <1>5
  <1>. QED BY <1>2, <1>6 DEF n

(* The events of the applications.                                         *)
LEMMA GameTold ==
  ASSUME Requests, app = "ludotheque", NEW c \in Calls
  PROVE  /\ Payload(<<c, 1>>) = GameEvent(request[c])
         /\ IsGameEvent(GameEvent(request[c]))
         /\ GameEvent(request[c]).type = "Registered" <=> Creates(c)
         /\ GameEvent(request[c]).type = "Borrowed" <=> request[c].type = "Borrow"
         /\ GameEvent(request[c]).type = "Returned" <=> request[c].type = "Return"
  <1>1. IsGameCommand(request[c])
    BY DEF Requests
  <1>. QED BY <1>1 DEF Payload, GameEvent, IsGameEvent, IsGameCommand, Creates

LEMMA TodoTold ==
  ASSUME Requests, app = "todolist", NEW c \in Calls
  PROVE  LET event == TodoEvent(request[c], c)
         IN  /\ Payload(<<c, 1>>) = event
             /\ IsTodoEvent(event, Calls)
             /\ event.type = "TodoAdded" => event.id = c
             /\ event.type \in {"TodoRemoved", "TodoAssignedTo", "TodoResolved"} =>
                  /\ event.id = request[c].id
                  /\ request[c].type \in {"RemoveTodo", "AssignTodo", "ResolveTodo"}
             /\ event.type = "TodoResolved" => request[c].type = "ResolveTodo"
  <1>1. IsTodoCommand(request[c])
    BY DEF Requests
  <1>. QED BY <1>1 DEF Payload, TodoEvent, IsTodoEvent, IsTodoCommand

(* The commit of a handler's event: the handler accepted the command on    *)
(* the very stream the event is appended to.                               *)
LEMMA HandledAccepts ==
  ASSUME StoryInv, NEW c \in Calls, Handled(c), UNCHANGED <<app, request>>
  PROVE  /\ Appends(c, 1)
         /\ status[c] = "observed"
         /\ seen[c] = stream[target[c]]
         /\ Decide(c, Payloads(stream[target[c]])).ok
         /\ Creates(c) <=> Len(stream[target[c]]) = 0
         /\ seen' \in [Calls -> State]
         /\ \A d \in Calls : d # c => seen'[d] = seen[d]
  <1>1. DispatchInv /\ Commit(c) /\ Len(entry'[c]) = 1
    BY DEF StoryInv, Handled
  <1>2. PICK n \in 0..MaxEvents : Appends(c, n)
    BY <1>1, CommitAppends
  <1>3. Appends(c, 1)
    BY <1>1, <1>2 DEF Appends
  <1>4. stream \in [Ids -> State] /\ target \in [Calls -> Ids] /\ stream[target[c]] \in State
    BY <1>1 DEF DispatchInv, Types
  <1>5. ~ Log!AppendNothing(c)
    <2>1. Len(stream'[target[c]]) # Len(stream[target[c]])
      BY <1>3, <1>4, LenProperties DEF Appends, State
    <2>. QED BY <2>1 DEF Log!AppendNothing
  <1>6. Log!AppendEvents(c)
    BY <1>1, <1>5 DEF Commit
  <1>7. status[c] = "observed" /\ seen[c] = stream[target[c]]
    BY <1>6 DEF Log!AppendEvents
  <1>8. Creates(c) <=> Len(stream[target[c]]) = 0
    <2>1. Creates(c) <=> stream[target[c]] = <<>>
      BY <1>7 DEF StoryInv, Creators
    <2>. QED BY <1>4, <2>1, EmptySeq DEF State
  <1>9. \/ seen' = seen
        \/ seen' = [seen EXCEPT ![c] = <<>>]
    BY <1>6 DEF Log!AppendEvents
  <1>10. seen \in [Calls -> State] /\ <<>> \in State
    BY EmptySeq DEF StoryInv, Creators, State
  <1>11. seen' \in [Calls -> State] /\ \A d \in Calls : d # c => seen'[d] = seen[d]
    BY <1>9, <1>10
  <1>12. Decide(c, Payloads(stream[target[c]])).ok
    BY <1>7 DEF Handled
  <1>. QED BY <1>3, <1>7, <1>8, <1>11, <1>12

(* How the story of an aggregate goes on when a call commits.              *)
LEMMA StoryGrows ==
  ASSUME StoryInv, NEW c \in Calls, Appends(c, 1), UNCHANGED <<app, request>>
  PROVE  /\ Grown(Story(target[c]), Story(target[c])', Told, Payload(<<c, 1>>))
         /\ Len(Story(target[c])) = Len(stream[target[c]])
         /\ Story(target[c])' = Payloads(stream'[target[c]])
         /\ \A id \in Ids : id # target[c] => Story(id)' = Story(id)
  <1> DEFINE id0 == target[c]
  <1>1. /\ id0 \in Ids /\ stream[id0] \in State /\ stream'[id0] \in State
        /\ Len(stream'[id0]) = Len(stream[id0]) + 1
        /\ \A i \in 1..Len(stream[id0]) : stream'[id0][i] = stream[id0][i]
        /\ 1 \in 1..1 => stream'[id0][Len(stream[id0]) + 1] = <<c, 1>>
        /\ \A id \in Ids : id # id0 => stream'[id] = stream[id]
    BY DEF StoryInv, DispatchInv, Types, Appends
  <1>2. target' = target
    BY DEF Appends
  <1>3. PICK old, new : old = stream[id0] /\ new = stream'[id0]
    OBVIOUS
  <1>5. /\ Payloads(old) \in Seq(Told) /\ Len(Payloads(old)) = Len(old)
        /\ \A i \in 1..Len(old) : Payloads(old)[i] = Payload(old[i])
        /\ Payloads(new) \in Seq(Told) /\ Len(Payloads(new)) = Len(new)
        /\ \A i \in 1..Len(new) : Payloads(new)[i] = Payload(new[i])
    BY <1>1, <1>3, StoryType
  <1>6. Story(id0) = Payloads(old)
    BY <1>3 DEF Story
  <1>7. Story(id0)' = Payloads(new)
    BY <1>2, <1>3 DEF Story, Payloads, Payload
  <1>8. /\ Len(old) \in Nat /\ Len(new) = Len(old) + 1
        /\ \A i \in 1..Len(old) : new[i] = old[i] /\ i \in 1..Len(new)
        /\ new[Len(old) + 1] = <<c, 1>> /\ Len(old) + 1 \in 1..Len(new)
    <2>1. /\ Len(new) = Len(old) + 1 /\ old \in State
          /\ \A i \in 1..Len(old) : new[i] = old[i]
          /\ new[Len(old) + 1] = <<c, 1>>
      BY <1>1, <1>3
    <2>2. Len(old) \in Nat
      BY <2>1, LenProperties DEF State
    <2>3. /\ \A i \in 1..Len(old) : i \in 1..(Len(old) + 1)
          /\ Len(old) + 1 \in 1..(Len(old) + 1)
      BY <2>2
    <2>. QED BY <2>1, <2>2, <2>3
  <1>9. Grown(Payloads(old), Payloads(new), Told, Payload(<<c, 1>>))
    <2>1. \A i \in 1..Len(old) : Payloads(new)[i] = Payloads(old)[i]
      BY <1>5, <1>8
    <2>2. Payloads(new)[Len(old) + 1] = Payload(<<c, 1>>)
      BY <1>5, <1>8
    <2>. QED BY <1>5, <1>8, <2>1, <2>2 DEF Grown
  <1>10. \A id \in Ids : id # id0 => Story(id)' = Story(id)
    BY <1>1 DEF Story, Payloads, Payload
  <1>. QED BY <1>3, <1>5, <1>6, <1>7, <1>9, <1>10

(* Steps that append nothing leave the stories alone.                      *)
LEMMA StoriesStay ==
  ASSUME StoryInv, UNCHANGED <<stream, app, request>>,
         \A c \in Calls : status'[c] \in {"pending", "observed"} =>
                            status[c] \in {"pending", "observed"}
  PROVE  Requests' /\ Origins' /\ Loans' /\ Todolists'
  <1>1. Requests'
    BY DEF StoryInv, Requests
  <1>2. Origins'
    BY DEF StoryInv, Origins
  <1>3. \A id \in Ids : Story(id)' = Story(id)
    BY DEF Story, Payloads, Payload
  <1>4. Loans'
    BY <1>3 DEF StoryInv, Loans
  <1>5. Todolists'
    BY <1>3 DEF StoryInv, Todolists
  <1>. QED BY <1>1, <1>2, <1>4, <1>5

LEMMA LoadTells ==
  ASSUME StoryInv, NEW c \in Calls, Load(c), UNCHANGED <<app, request>>
  PROVE  StoryInv'
  <1>1. DispatchInv /\ DispatchInv' /\ Before(c)
    BY StatusKeeps DEF StoryInv, Load
  <1>2. /\ status[c] = "pending" /\ status' = [status EXCEPT ![c] = "observed"]
        /\ UNCHANGED <<target, stream, held>>
        /\ \E n \in 0..Len(stream[target[c]]) :
             seen' = [seen EXCEPT ![c] = SubSeq(stream[target[c]], 1, n)]
    BY <1>1 DEF Before, Log!Observe, cursor
  <1>3. /\ status \in [Calls -> {"pending", "observed", "appended", "acked", "failed"}]
        /\ stream[target[c]] \in State /\ seen \in [Calls -> State]
    BY <1>1 DEF DispatchInv, Types, StoryInv, Creators
  <1>4. Requests' /\ Origins' /\ Loans' /\ Todolists'
    BY <1>2, <1>3, StoriesStay
  <1>5. Creators'
    <2>1. PICK n \in 0..Len(stream[target[c]]) :
            seen' = [seen EXCEPT ![c] = SubSeq(stream[target[c]], 1, n)]
      BY <1>2
    <2>2. SubSeq(stream[target[c]], 1, n) \in State
      BY <1>3 DEF State
    <2>3. seen' \in [Calls -> State] /\ \A d \in Calls : d # c => seen'[d] = seen[d]
      BY <1>3, <2>1, <2>2
    <2>4. \A d \in Calls : d # c => status'[d] = status[d]
      BY <1>2, <1>3
    <2>5. Creates(c) <=> seen'[c] = <<>>
      BY DEF Load
    <2>6. \A d \in Calls : Creates(d)' = Creates(d)
      BY DEF Creates
    <2>. QED BY <2>3, <2>4, <2>5, <2>6 DEF StoryInv, Creators
  <1>6. NoViews'
    BY <1>2 DEF StoryInv, NoViews
  <1>. QED BY <1>1, <1>4, <1>5, <1>6 DEF StoryInv

(* Answers, failures, and what the dispatchers do.                         *)
LEMMA OthersTell ==
  ASSUME StoryInv, NEW c \in Calls, UNCHANGED <<app, request>>,
         \/ Drop(c)
         \/ /\ app = "ludotheque"
            /\ \/ FindView(c) \/ SaveView(c) \/ DispatcherFails(c)
               \/ LateSave(c) \/ Answer(c)
         \/ app = "todolist" /\ AnswerAtOnce(c)
  PROVE  StoryInv'
  <1>1. DispatchInv'
    <2>1. app = "todolist" => held[c] = NotHeld
      BY DEF StoryInv, NoViews
    <2>. QED BY <2>1, StatusKeeps, DispatchKeeps, LateSaveKeeps DEF StoryInv
  <1>2. /\ UNCHANGED <<target, stream>>
        /\ app = "todolist" => held' = held
        /\ seen' = seen \/ seen' = [seen EXCEPT ![c] = <<>>]
        /\ \/ status' = status /\ seen' = seen
           \/ status' = [status EXCEPT ![c] = "acked"] /\ seen' = seen
           \/ status' = [status EXCEPT ![c] = "failed"]
    BY DEF Drop, FindView, SaveView, DispatcherFails, LateSave, Answer, AnswerAtOnce,
           cursor, logVars, Log!Acknowledge, Log!Fail
  <1>3. /\ status \in [Calls -> {"pending", "observed", "appended", "acked", "failed"}]
        /\ seen \in [Calls -> State] /\ <<>> \in State
    BY EmptySeq DEF DispatchInv, Types, StoryInv, Creators, State
  <1>4. \A d \in Calls : status'[d] \in {"pending", "observed"} =>
          status'[d] = status[d] /\ seen'[d] = seen[d]
    BY <1>2, <1>3
  <1>5. Requests' /\ Origins' /\ Loans' /\ Todolists'
    <2>1. \A d \in Calls : status'[d] \in {"pending", "observed"} =>
                             status[d] \in {"pending", "observed"}
      BY <1>4
    <2>. QED BY <1>2, <2>1, StoriesStay
  <1>6. Creators'
    <2>1. seen' \in [Calls -> State]
      BY <1>2, <1>3
    <2>2. \A d \in Calls : Creates(d)' = Creates(d)
      BY DEF Creates
    <2>. QED BY <1>4, <2>1, <2>2 DEF StoryInv, Creators
  <1>7. NoViews'
    BY <1>2 DEF StoryInv, NoViews
  <1>. QED BY <1>1, <1>5, <1>6, <1>7 DEF StoryInv

(* The events of a stream are those of as many calls.                      *)
Single(s) ==
  /\ \A n \in 1..Len(s) : \E c \in Calls : s[n] = <<c, 1>>
  /\ \A i, k \in 1..Len(s) : s[i] = s[k] => i = k

(* Every event of a story is one of the application.                       *)
LEMMA StoryEvents ==
  ASSUME Requests, NEW s \in State, Single(s)
  PROVE  /\ app = "ludotheque" =>
              \A i \in 1..Len(Payloads(s)) : IsGameEvent(Payloads(s)[i])
         /\ app = "todolist" =>
              \A i \in 1..Len(Payloads(s)) : IsTodoEvent(Payloads(s)[i], Calls)
  <1>1. /\ Len(Payloads(s)) = Len(s)
        /\ \A i \in 1..Len(s) : Payloads(s)[i] = Payload(s[i])
    BY StoryType
  <1>2. ASSUME NEW i \in 1..Len(s)
        PROVE  \E c \in Calls : Payloads(s)[i] = Payload(<<c, 1>>)
    BY <1>1 DEF Single
  <1>3. ASSUME app = "ludotheque", NEW i \in 1..Len(s)
        PROVE  IsGameEvent(Payloads(s)[i])
    <2>1. PICK c \in Calls : Payloads(s)[i] = Payload(<<c, 1>>)
      BY <1>2
    <2>. QED BY <1>3, <2>1, GameTold
  <1>4. ASSUME app = "todolist", NEW i \in 1..Len(s)
        PROVE  IsTodoEvent(Payloads(s)[i], Calls)
    <2>1. PICK c \in Calls : Payloads(s)[i] = Payload(<<c, 1>>)
      BY <1>2
    <2>. QED BY <1>4, <2>1, TodoTold
  <1>. QED BY <1>1, <1>3, <1>4

(* Two todos of a story were added by two calls.                           *)
LEMMA StoryAddsDistinct ==
  ASSUME Requests, app = "todolist", NEW s \in State, Single(s)
  PROVE  AddsDistinct(Payloads(s))
  <1>1. /\ Len(Payloads(s)) = Len(s)
        /\ \A i \in 1..Len(s) : Payloads(s)[i] = Payload(s[i])
    BY StoryType
  <1>2. ASSUME NEW n \in 1..Len(s), NEW e \in Calls,
               s[n] = <<e, 1>>, Payloads(s)[n].type = "TodoAdded"
        PROVE  Payloads(s)[n].id = e
    <2>1. Payloads(s)[n] = Payload(<<e, 1>>)
      BY <1>1, <1>2
    <2>. QED BY <1>2, <2>1, TodoTold
  <1>3. ASSUME NEW i \in 1..Len(s), NEW k \in 1..Len(s),
               Payloads(s)[i].type = "TodoAdded", Payloads(s)[k].type = "TodoAdded",
               Payloads(s)[i].id = Payloads(s)[k].id
        PROVE  i = k
    <2>1. PICK c \in Calls : s[i] = <<c, 1>>
      BY DEF Single
    <2>2. PICK d \in Calls : s[k] = <<d, 1>>
      BY DEF Single
    <2>3. c = d
      BY <1>2, <1>3, <2>1, <2>2
    <2>4. s[i] = s[k]
      BY <2>1, <2>2, <2>3
    <2>. QED BY <2>4 DEF Single
  <1>. QED BY <1>1, <1>3 DEF AddsDistinct

(* A commit tells the story on: what its handler accepted, on the stream   *)
(* as it was.                                                              *)
LEMMA LoansGoOn ==
  ASSUME StoryInv, NEW c \in Calls, Handled(c), UNCHANGED <<app, request>>,
         app = "ludotheque"
  PROVE  Lending(Story(target[c])')
  <1> DEFINE id0 == target[c]
             story == Story(id0)
             event == Payload(<<c, 1>>)
  <1>1. /\ id0 \in Ids /\ stream[id0] \in State /\ stream \in [Ids -> State]
        /\ Requests /\ Origins /\ Lending(story)
    BY DEF StoryInv, DispatchInv, Types, Loans
  <1>2. /\ Appends(c, 1) /\ Decide(c, Payloads(stream[id0])).ok
        /\ Creates(c) <=> Len(stream[id0]) = 0
    BY HandledAccepts
  <1>3. Grown(story, Story(id0)', Told, event) /\ Len(story) = Len(stream[id0])
    BY <1>2, StoryGrows
  <1>4. /\ event = GameEvent(request[c])
        /\ event.type = "Registered" <=> Creates(c)
        /\ event.type = "Borrowed" <=> request[c].type = "Borrow"
        /\ event.type = "Returned" <=> request[c].type = "Return"
    BY <1>1, GameTold
  <1>5. \A i \in 1..Len(story) : IsGameEvent(story[i])
    <2>1. Single(stream[id0])
      BY <1>1 DEF Origins, Single
    <2>. QED BY <1>1, <2>1, StoryEvents DEF Story
  <1>6. story = Payloads(stream[id0])
    BY DEF Story
  <1>7. ~ Creates(c) => UpdateGame(GameOf(story), request[c]).ok
    BY <1>2, <1>6, Zenon DEF Decide
  <1>8. GameOf(story).available <=> IsIn(story, Len(story))
    <2>1. story \in Seq(Told) /\ Len(story) \in Nat
      BY <1>3, LenProperties DEF Grown
    <2> HIDE DEF story
    <2>2. Len(story) \in 0..Len(story) /\ SubSeq(story, 1, Len(story)) = story
      BY <2>1
    <2>. QED BY <1>5, <2>1, <2>2, GameIsIn
  <1>9. event.type = "Registered" <=> Len(story) = 0
    BY <1>2, <1>3, <1>4
  <1> HIDE DEF story, event
  <1>10. event.type = "Borrowed" => IsIn(story, Len(story))
    <2> SUFFICES ASSUME event.type = "Borrowed" PROVE GameOf(story).available
      BY <1>8
    <2>1. request[c].type = "Borrow" /\ ~ Creates(c)
      BY <1>4
    <2>. QED BY <1>7, <2>1 DEF UpdateGame, GameError, Raises
  <1>11. event.type = "Returned" => ~ IsIn(story, Len(story))
    <2> SUFFICES ASSUME event.type = "Returned" PROVE ~ GameOf(story).available
      BY <1>8
    <2>1. request[c].type = "Return" /\ ~ Creates(c)
      BY <1>4
    <2>. QED BY <1>7, <2>1 DEF UpdateGame, GameError, Raises
  <1>12. Lending(story)
    BY <1>1 DEF story
  <1>. QED BY <1>3, <1>9, <1>10, <1>11, <1>12, LendingGoesOn DEF story

LEMMA ListGoesOn ==
  ASSUME StoryInv, NEW c \in Calls, Handled(c), UNCHANGED <<app, request>>,
         app = "todolist", AddsDistinct(Story(target[c])'),
         \A i \in 1..Len(Story(target[c])') : IsTodoEvent(Story(target[c])'[i], Calls)
  PROVE  TodoStory(Story(target[c])')
  <1> DEFINE id0 == target[c]
             story == Story(id0)
             event == Payload(<<c, 1>>)
  <1>1. /\ id0 \in Ids /\ stream[id0] \in State /\ stream \in [Ids -> State]
        /\ Requests /\ Origins /\ TodoStory(story)
    BY DEF StoryInv, DispatchInv, Types, Todolists
  <1>2. /\ Appends(c, 1) /\ Decide(c, Payloads(stream[id0])).ok
    BY HandledAccepts
  <1>3. Grown(story, Story(id0)', Told, event)
    BY <1>2, StoryGrows
  <1>4. /\ event = TodoEvent(request[c], c)
        /\ event.type \in {"TodoRemoved", "TodoAssignedTo", "TodoResolved"} =>
             /\ event.id = request[c].id
             /\ request[c].type \in {"RemoveTodo", "AssignTodo", "ResolveTodo"}
        /\ event.type = "TodoResolved" => request[c].type = "ResolveTodo"
    BY <1>1, TodoTold
  <1>6. story = Payloads(stream[id0])
    BY DEF Story
  <1>7. ~ Creates(c) => UpdateTodos(Todos(story), request[c], c).ok
    BY <1>2, <1>6, Zenon DEF Decide
  <1> HIDE DEF story, event
  <1>8. event.type \in {"TodoRemoved", "TodoAssignedTo", "TodoResolved"} =>
          TodosNamed(Todos(story), event.id) # {}
    <2> SUFFICES ASSUME event.type \in {"TodoRemoved", "TodoAssignedTo", "TodoResolved"}
                 PROVE  TodosNamed(Todos(story), event.id) # {}
      OBVIOUS
    <2>1. /\ request[c].type \in {"RemoveTodo", "AssignTodo", "ResolveTodo"}
          /\ event.id = request[c].id /\ ~ Creates(c)
      BY <1>4 DEF Creates
    <2>. QED BY <1>7, <2>1 DEF UpdateTodos, TodoListError, Raises
  <1>9. event.type = "TodoResolved" =>
          ~ Todos(story)[FirstNamed(Todos(story), event.id)].resolved
    <2> SUFFICES ASSUME event.type = "TodoResolved"
                 PROVE  ~ Todos(story)[FirstNamed(Todos(story), event.id)].resolved
      OBVIOUS
    <2>1. /\ request[c].type = "ResolveTodo" /\ event.id = request[c].id /\ ~ Creates(c)
      BY <1>4 DEF Creates
    <2>. QED BY <1>7, <2>1 DEF UpdateTodos, TodoListError, Raises
  <1>10. TodoStory(story)
    BY <1>1 DEF story
  <1>. QED BY <1>3, <1>8, <1>9, <1>10, TodosGoOn DEF story

LEMMA CommitTells ==
  ASSUME StoryInv, NEW c \in Calls, Handled(c), UNCHANGED <<app, request>>
  PROVE  StoryInv'
  <1> DEFINE id0 == target[c]
  <1>1. DispatchInv /\ DispatchInv'
    BY CommitKeeps DEF StoryInv, Handled
  <1>2. /\ Appends(c, 1) /\ status[c] = "observed"
        /\ seen' \in [Calls -> State]
        /\ \A d \in Calls : d # c => seen'[d] = seen[d]
    BY HandledAccepts
  <1>3. /\ status'[c] \in {"appended", "failed"}
        /\ \A d \in Calls : d # c => status'[d] = status[d]
        /\ UNCHANGED <<target, held>>
        /\ stream' \in [Ids -> State]
        /\ \A id \in Ids : id # id0 => stream'[id] = stream[id]
    BY <1>2 DEF Appends
  <1>4. Requests'
    BY DEF StoryInv, Requests
  <1>5. Creators'
    <2>1. \A d \in Calls : Creates(d)' = Creates(d)
      BY DEF Creates
    <2>. QED BY <1>2, <1>3, <2>1 DEF StoryInv, Creators
  <1>6. NoViews'
    BY <1>3 DEF StoryInv, NoViews
  <1>7. id0 \in Ids /\ stream[id0] \in State /\ Len(stream[id0]) \in Nat
    BY <1>1, LenProperties DEF DispatchInv, Types, State
  <1>8. Origins'
    <2> SUFFICES ASSUME NEW id \in Ids
                 PROVE  /\ \A n \in 1..Len(stream'[id]) : \E d \in Calls :
                             /\ stream'[id][n] = <<d, 1>>
                             /\ status'[d] \notin {"pending", "observed"}
                        /\ \A i, k \in 1..Len(stream'[id]) :
                             stream'[id][i] = stream'[id][k] => i = k
      BY DEF Origins
    <2>1. /\ \A n \in 1..Len(stream[id]) : \E d \in Calls :
               stream[id][n] = <<d, 1>> /\ status[d] \notin {"pending", "observed"}
          /\ \A i, k \in 1..Len(stream[id]) : stream[id][i] = stream[id][k] => i = k
      BY DEF StoryInv, Origins
    <2>2. \A d \in Calls : status[d] \notin {"pending", "observed"} =>
                             status'[d] \notin {"pending", "observed"}
      BY <1>3
    <2>3. CASE id # id0
      BY <1>3, <2>1, <2>2, <2>3
    <2>4. CASE id = id0
      <3>1. /\ Len(stream'[id]) = Len(stream[id]) + 1 /\ Len(stream[id]) \in Nat
            /\ \A i \in 1..Len(stream[id]) : stream'[id][i] = stream[id][i]
            /\ stream'[id][Len(stream[id]) + 1] = <<c, 1>>
        BY <1>2, <1>7, <2>4 DEF Appends
      <3>2. \A n \in 1..Len(stream[id]) : stream[id][n] # <<c, 1>>
        BY <1>2, <2>1
      <3>3. \A n \in 1..Len(stream'[id]) : n \in 1..Len(stream[id]) \/ n = Len(stream[id]) + 1
        BY <3>1
      <3>4. status'[c] \notin {"pending", "observed"}
        BY <1>3
      <3>5. ASSUME NEW n \in 1..Len(stream'[id])
            PROVE  \E d \in Calls : /\ stream'[id][n] = <<d, 1>>
                                    /\ status'[d] \notin {"pending", "observed"}
        BY <2>1, <2>2, <3>1, <3>3, <3>4
      <3>6. ASSUME NEW i \in 1..Len(stream'[id]), NEW k \in 1..Len(stream'[id]),
                   stream'[id][i] = stream'[id][k]
            PROVE  i = k
        BY <2>1, <3>1, <3>2, <3>3, <3>6
      <3>. QED BY <3>5, <3>6
    <2>. QED BY <2>3, <2>4
  <1>9. \A id \in Ids : id # id0 => Story(id)' = Story(id)
    BY <1>2, StoryGrows
  <1>10. Loans'
    BY <1>3, <1>9, LoansGoOn DEF StoryInv, Loans
  <1>11. Todolists'
    <2> SUFFICES ASSUME app' = "todolist", NEW id \in Ids PROVE TodoStory(Story(id))'
      BY DEF Todolists
    <2>0. app = "todolist"
      OBVIOUS
    <2>1. CASE id # id0
      BY <1>9, <2>0, <2>1 DEF StoryInv, Todolists
    <2>2. CASE id = id0
      <3>1. PICK s : s = stream'[id0]
        OBVIOUS
      <3>2. Requests /\ s \in State /\ Single(s)
        BY <1>3, <1>7, <1>8, <3>1 DEF StoryInv, Origins, Single
      <3>3. Story(id0)' = Payloads(s)
        BY <1>2, <3>1, StoryGrows
      <3>4. AddsDistinct(Payloads(s))
        BY <2>0, <3>2, StoryAddsDistinct
      <3>5. \A i \in 1..Len(Payloads(s)) : IsTodoEvent(Payloads(s)[i], Calls)
        BY <2>0, <3>2, StoryEvents
      <3>6. TodoStory(Story(id0)')
        BY <2>0, <3>3, <3>4, <3>5, ListGoesOn
      <3>. QED BY <1>3, <2>2, <3>6 DEF Story
    <2>. QED BY <2>1, <2>2
  <1>. QED BY <1>1, <1>4, <1>5, <1>6, <1>8, <1>10, <1>11 DEF StoryInv

LEMMA StoryBegins == AppInit => StoryInv
  <1> SUFFICES ASSUME AppInit PROVE StoryInv
    OBVIOUS
  <1>1. DispatchInv
    BY DispatchBegins DEF AppInit
  <1>2. Requests
    BY ScenariosAssumption DEF AppInit, Requests
  <1>3. /\ \A id \in Ids : stream[id] = <<>>
        /\ held = [c \in Calls |-> NotHeld]
        /\ status = [c \in Calls |-> "pending"]
        /\ seen = [c \in Calls |-> <<>>] /\ <<>> \in State
        /\ Len(<<>>) = 0 /\ DOMAIN <<>> = {}
    BY EmptySeq DEF AppInit, Init, Log!Init, State
  <1>4. Origins /\ Creators /\ NoViews
    BY <1>3 DEF Origins, Creators, NoViews
  <1>5. \A id \in Ids : DOMAIN Story(id) = {}
    BY <1>3 DEF Story, Payloads
  <1>6. Loans /\ Todolists
    BY <1>5 DEF Loans, Todolists, Lending, Apart, TodoStory
  <1>. QED BY <1>1, <1>2, <1>4, <1>6 DEF StoryInv

LEMMA StoryGoesOn == StoryInv /\ [AppNext]_appVars => StoryInv'
  <1> SUFFICES ASSUME StoryInv, [AppNext]_appVars PROVE StoryInv'
    OBVIOUS
  <1>1. ASSUME NEW c \in Calls, AppStep(c), UNCHANGED <<app, request>>
        PROVE  StoryInv'
    BY <1>1, LoadTells, CommitTells, OthersTell DEF AppStep
  <1>2. CASE UNCHANGED appVars
    <2>1. UNCHANGED vars /\ UNCHANGED <<app, request>>
      BY <1>2 DEF appVars
    <2>2. DispatchInv'
      BY <2>1, DispatchStays DEF StoryInv
    <2>3. UNCHANGED <<stream, status, seen, held>>
      BY <2>1 DEF vars, logVars, cursor
    <2>4. Requests' /\ Origins' /\ Loans' /\ Todolists'
      BY <2>1, <2>3, StoriesStay
    <2>5. Creators' /\ NoViews'
      BY <2>1, <2>3 DEF StoryInv, Creators, NoViews, Creates
    <2>. QED BY <2>2, <2>4, <2>5 DEF StoryInv
  <1>. QED BY <1>1, <1>2 DEF AppNext, Idle, appVars

(* A list only tells of todos that are there, whoever decides when.        *)
THEOREM TodosThere == AppSpec => []TodosAreThere
  <1>1. StoryInv => TodosAreThere
    BY DEF StoryInv, Todolists, TodoStory, TodosAreThere
  <1>. QED BY <1>1, StoryBegins, StoryGoesOn, PTL DEF AppSpec

-----------------------------------------------------------------------------
(* While nothing overlaps and nothing is lost, a call that dispatches has  *)
(* the one event its view is short of, and when none does the view has     *)
(* them all.                                                               *)
CalmDispatches(id) ==
  \A c \in Calls : target[c] = id /\ Dispatching(c) =>
    /\ stream[id] = Append(views[1][id], <<c, 1>>)
    /\ held[c] # NotHeld => held[c] = views[1][id]

CalmView(id) ==
  /\ CalmDispatches(id)
  /\ (\A c \in Calls : target[c] = id => ~ Dispatching(c)) =>
       views[1][id] = stream[id]

CalmViews == \A id \in Ids : Calm(id) => CalmView(id)

Singles == \A c \in Calls : Len(entry[c]) <= 1

Misses == missed \in [Calls -> SUBSET DOMAIN Dispatchers]

CalmInv == StoryInv /\ Misses /\ Singles /\ (app = "ludotheque" => CalmViews)

(* What the one dispatcher is at.                                          *)
LEMMA OneDispatcher ==
  ASSUME DispatchInv, Singles, NEW c \in Calls, Dispatching(c) \/ held[c] # NotHeld
  PROVE  /\ turn[c] = 1 /\ next[c] = 1 /\ View(c) = target[c]
         /\ entry[c][1] = <<c, 1>> /\ entry[c] # <<>> /\ <<c, 1>> \in Event
         /\ target[c] \in Ids /\ target[c] \in ViewIds /\ 1 \in DOMAIN Dispatchers
         /\ views \in [DOMAIN Dispatchers -> [ViewIds -> State]]
         /\ 1 + 1 > Len(Dispatchers)
  <1>1. /\ turn[c] \in 1..Len(Dispatchers) /\ next[c] \in 1..Len(entry[c])
        /\ Len(entry[c]) \in Nat /\ target[c] \in Ids
        /\ views \in [DOMAIN Dispatchers -> [ViewIds -> State]]
        /\ \A i \in 1..Len(entry[c]) : entry[c][i] = <<c, i>>
    BY LenProperties DEF DispatchInv, Types, Cursors, Entries, State
  <1>2. /\ Len(Dispatchers) = 1 /\ Dispatchers[1] = "aggregate"
        /\ DOMAIN Dispatchers = 1..1
    BY GameViewAssumption
  <1>3. turn[c] = 1 /\ next[c] = 1 /\ entry[c][1] = <<c, 1>>
    BY <1>1, <1>2 DEF Singles
  <1>4. entry[c] # <<>> /\ <<c, 1>> \in Event
    <2>1. entry[c] \in Seq(Event) /\ 1 \in 1..Len(entry[c])
      BY <1>1, <1>3 DEF DispatchInv, Types, State
    <2>2. entry[c][1] \in Event
      BY <2>1, ElementOfSeq
    <2>. QED BY <1>1, <1>3, <2>2, EmptySeq
  <1>5. View(c) = target[c]
    BY <1>2, <1>3 DEF View, ViewId
  <1>. QED BY <1>1, <1>2, <1>3, <1>4, <1>5 DEF ViewIds

(* Nobody dispatches a calm aggregate beside a call that does.             *)
LEMMA CalmAlone ==
  ASSUME NEW id \in Ids, CalmDispatches(id), stream \in [Ids -> State],
         views[1][id] \in State,
         NEW c \in Calls, target[c] = id, Dispatching(c),
         NEW d \in Calls, target[d] = id, Dispatching(d)
  PROVE  c = d
  <1>1. /\ stream[id] = Append(views[1][id], <<c, 1>>)
        /\ stream[id] = Append(views[1][id], <<d, 1>>)
    BY DEF CalmDispatches
  <1>2. PICK w : w = views[1][id]
    OBVIOUS
  <1>3. w \in State /\ Append(w, <<c, 1>>) = Append(w, <<d, 1>>)
    BY <1>1, <1>2
  <1>4. w \in Seq(State \cup Event \cup (Calls \X {1})) /\ Len(w) \in Nat
    BY <1>3, LenProperties DEF State
  <1>5. /\ Append(w, <<c, 1>>)[Len(w) + 1] = <<c, 1>>
        /\ Append(w, <<d, 1>>)[Len(w) + 1] = <<d, 1>>
    <2>1. <<c, 1>> \in State \cup Event \cup (Calls \X {1})
      OBVIOUS
    <2>2. <<d, 1>> \in State \cup Event \cup (Calls \X {1})
      OBVIOUS
    <2>. QED BY <1>4, <2>1, <2>2, AppendProperties
  <1>6. <<c, 1>> = <<d, 1>>
    BY <1>3, <1>5
  <1>. QED BY <1>6

(* A calm aggregate was calm before.                                       *)
LEMMA CalmBefore ==
  ASSUME NEW id \in Ids, Calm(id)', target' = target,
         \A c \in Calls : target[c] = id =>
           /\ overlapped \subseteq overlapped'
           /\ missed[c] \subseteq missed'[c]
           /\ status[c] = "failed" => status'[c] = "failed" /\ entry'[c] = entry[c]
  PROVE  Calm(id)
  BY DEF Calm

(* What does not touch an aggregate leaves it calm.                        *)
LEMMA CalmStays ==
  ASSUME NEW id \in Ids, CalmView(id), target' = target, stream'[id] = stream[id],
         views'[1][id] = views[1][id],
         \A c \in Calls : target[c] = id =>
           held'[c] = held[c] /\ (Dispatching(c)' <=> Dispatching(c))
  PROVE  CalmView(id)'
  BY DEF CalmView, CalmDispatches

LEMMA SavedView ==
  ASSUME DispatchInv, Singles, NEW c \in Calls, held[c] # NotHeld,
         views' = views \/ views' = Saved(c)
  PROVE  /\ \A id \in Ids : id # target[c] => views'[1][id] = views[1][id]
         /\ views' = Saved(c) => views'[1][target[c]] = Append(held[c], <<c, 1>>)
  <1>1. /\ turn[c] = 1 /\ next[c] = 1 /\ View(c) = target[c] /\ entry[c][1] = <<c, 1>>
        /\ target[c] \in ViewIds /\ 1 \in DOMAIN Dispatchers
        /\ views \in [DOMAIN Dispatchers -> [ViewIds -> State]]
    BY OneDispatcher
  <1>2. Saved(c) = [views EXCEPT ![1][target[c]] = Append(held[c], <<c, 1>>)]
    BY <1>1 DEF Saved
  <1>3. ASSUME NEW id \in Ids, id # target[c] PROVE Saved(c)[1][id] = views[1][id]
    <2>1. id \in ViewIds
      BY DEF ViewIds
    <2>. QED BY <1>1, <1>2, <1>3, <2>1
  <1>4. Saved(c)[1][target[c]] = Append(held[c], <<c, 1>>)
    BY <1>1, <1>2
  <1>. QED BY <1>3, <1>4

(* A call loads, fails or is answered.                                     *)
LEMMA StatusIsCalm ==
  ASSUME CalmInv, StoryInv', NEW c \in Calls, Before(c) \/ Answer(c) \/ Drop(c),
         UNCHANGED <<app, request>>
  PROVE  CalmInv'
  <1>1. DispatchInv /\ Misses /\ Singles
    BY DEF CalmInv, StoryInv
  <1>2. /\ UNCHANGED <<target, stream, entry, turn, held, views, missed, overlapped>>
        /\ \E s \in {"observed", "acked", "failed"} :
             /\ status' = [status EXCEPT ![c] = s]
             /\ s = "observed" => status[c] = "pending"
             /\ s = "acked" => status[c] = "appended" /\ turn[c] > Len(Dispatchers)
    BY DEF Before, Answer, Drop, cursor, Log!Observe, Log!Acknowledge, Log!Fail
  <1>3. PICK s \in {"observed", "acked", "failed"} :
          /\ status' = [status EXCEPT ![c] = s]
          /\ s = "observed" => status[c] = "pending"
          /\ s = "acked" => status[c] = "appended" /\ turn[c] > Len(Dispatchers)
    BY <1>2
  <1>4. /\ status'[c] = s /\ \A d \in Calls : d # c => status'[d] = status[d]
        /\ turn \in [Calls -> Nat] /\ Len(Dispatchers) = 1
    BY <1>1, <1>3, GameViewAssumption DEF DispatchInv, Types
  <1>5. ASSUME NEW id \in Ids, Calm(id)', app = "ludotheque"
        PROVE  CalmView(id)'
    <2>1. ASSUME NEW d \in Calls, status[d] = "failed"
          PROVE  status'[d] = "failed" /\ entry'[d] = entry[d]
      <3>1. CASE d = c
        BY <1>2, <1>4, <2>1, <3>1 DEF Answer, Before, Drop, Log!Observe,
                                      Log!Acknowledge, Log!Fail
      <3>. QED BY <1>2, <1>4, <2>1, <3>1
    <2>2. Calm(id)
      BY <1>2, <1>5, <2>1, CalmBefore
    <2>3. CalmView(id)
      BY <1>5, <2>2 DEF CalmInv, CalmViews
    <2>4. ASSUME NEW d \in Calls, target[d] = id
          PROVE  Dispatching(d)' <=> Dispatching(d)
      <3>1. CASE d # c
        BY <1>2, <1>4, <3>1 DEF Dispatching
      <3>2. CASE d = c /\ s = "failed"
        <4>1. ~ Dispatching(d)'
          BY <1>4, <3>2 DEF Dispatching
        <4>2. entry[c] = <<>>
          BY <1>2, <1>4, <1>5, <2>4, <3>2 DEF Calm
        <4>3. ~ Dispatching(c)
          BY <1>1, <4>2, OneDispatcher
        <4>. QED BY <3>2, <4>1, <4>3
      <3>3. CASE d = c /\ s # "failed"
        <4>1. s = "observed" \/ (s = "acked" /\ turn[c] > 1)
          BY <1>3, <1>4, <3>3
        <4>2. ~ Dispatching(d)'
          BY <1>4, <3>3 DEF Dispatching
        <4>3. ~ (turn[c] > 1 /\ turn[c] <= 1)
          BY <1>4
        <4>4. ~ Dispatching(d)
          BY <1>3, <1>4, <3>3, <4>1, <4>3 DEF Dispatching
        <4>. QED BY <4>2, <4>4
      <3>. QED BY <3>1, <3>2, <3>3
    <2>. QED BY <1>2, <2>3, <2>4, CalmStays
  <1>6. Misses' /\ Singles'
    BY <1>1, <1>2 DEF Misses, Singles
  <1>. QED BY <1>5, <1>6 DEF CalmInv, CalmViews

LEMMA CommitIsCalm ==
  ASSUME CalmInv, StoryInv', NEW c \in Calls, Handled(c), UNCHANGED <<app, request>>
  PROVE  CalmInv'
  <1> DEFINE id0 == target[c]
             others == {d \in Calls : /\ d # c /\ target[d] = target[c]
                                      /\ Dispatching(d) \/ InFlight(d)}
  <1>1. DispatchInv /\ Misses /\ Singles /\ StoryInv
    BY DEF CalmInv, StoryInv
  <1>2. Appends(c, 1) /\ status[c] = "observed"
    BY <1>1, HandledAccepts
  <1>3. /\ UNCHANGED <<target, held, views, missed>>
        /\ \A d \in Calls : d # c => /\ turn'[d] = turn[d] /\ status'[d] = status[d]
                                     /\ entry'[d] = entry[d]
        /\ turn'[c] = 1 /\ Len(entry'[c]) = 1
        /\ status'[c] \in {"appended", "failed"}
        /\ \A id \in Ids : id # id0 => stream'[id] = stream[id]
    BY <1>2 DEF Appends, Handled, Commit
  <1>4. held[c] = NotHeld
    BY <1>1, <1>2 DEF DispatchInv, Cursors
  <1>5. /\ id0 \in Ids /\ stream[id0] \in State /\ stream'[id0] \in State
        /\ stream \in [Ids -> State] /\ Len(stream[id0]) \in Nat
    BY <1>1, <1>2, LenProperties DEF DispatchInv, Types, Appends, State
  <1>6. stream'[id0] = Append(stream[id0], <<c, 1>>)
    <2>1. PICK old, new : old = stream[id0] /\ new = stream'[id0]
      OBVIOUS
    <2>2. /\ old \in Seq(Event) /\ new \in Seq(Event) /\ Len(new) = Len(old) + 1
          /\ \A i \in 1..Len(old) : new[i] = old[i]
          /\ new[Len(old) + 1] = <<c, 1>>
      BY <1>2, <1>5, <2>1 DEF Appends, State
    <2>3. Len(old) \in Nat /\ Len(new) \in Nat /\ <<c, 1>> \in Event
      BY <2>2, LenProperties, ElementOfSeq
    <2>4. Append(old, <<c, 1>>) \in Seq(Event)
      BY <2>2, <2>3, AppendProperties
    <2>5. /\ Len(Append(old, <<c, 1>>)) = Len(old) + 1
          /\ \A i \in 1..Len(old) : Append(old, <<c, 1>>)[i] = old[i]
          /\ Append(old, <<c, 1>>)[Len(old) + 1] = <<c, 1>>
      BY <2>2, <2>3, AppendProperties
    <2>6. \A i \in 1..Len(new) : i \in 1..Len(old) \/ i = Len(old) + 1
      BY <2>2, <2>3
    <2>7. \A i \in 1..Len(new) : new[i] = Append(old, <<c, 1>>)[i]
      BY <2>2, <2>5, <2>6
    <2>8. new = Append(old, <<c, 1>>)
      BY <2>2, <2>4, <2>5, <2>7, SeqEqual
    <2>. QED BY <2>1, <2>8
  <1>7. /\ overlapped \subseteq overlapped'
        /\ c \notin overlapped' => others = {}
    <2>1. Len(stream'[target[c]]) # Len(stream[target[c]])
      BY <1>2, <1>5 DEF Appends
    <2>2. overlapped' = IF others = {} \/ Len(stream'[target[c]]) = Len(stream[target[c]])
                          THEN overlapped
                          ELSE overlapped \cup others \cup {c}
      BY DEF Handled, Commit
    <2> HIDE DEF others
    <2>. QED BY <2>1, <2>2
  <1>8. ASSUME NEW id \in Ids, Calm(id)', app = "ludotheque"
        PROVE  CalmView(id)'
    <2>1. ASSUME NEW d \in Calls, status[d] = "failed"
          PROVE  status'[d] = "failed" /\ entry'[d] = entry[d]
      BY <1>2, <1>3, <2>1
    <2>2. Calm(id)
      BY <1>3, <1>7, <1>8, <2>1, CalmBefore
    <2>3. CalmView(id)
      BY <1>8, <2>2 DEF CalmInv, CalmViews
    <2>4. \A d \in Calls : d # c => (Dispatching(d)' <=> Dispatching(d))
      BY <1>3 DEF Dispatching
    <2>5. CASE id # id0
      BY <1>3, <2>3, <2>4, <2>5, CalmStays
    <2>6. CASE id = id0
      <3>1. c \notin overlapped' /\ status'[c] # "failed"
        <4>1. target'[c] = id
          BY <1>3, <2>6
        <4>2. c \notin overlapped' /\ (status'[c] = "failed" => entry'[c] = <<>>)
          BY <1>8, <4>1 DEF Calm
        <4>3. entry'[c] # <<>>
          <5>1. Len(<<>>) = 0
            BY EmptySeq
          <5>. QED BY <1>3, <5>1
        <4>. QED BY <4>2, <4>3
      <3>2. \A d \in Calls : d # c /\ target[d] = id => ~ Dispatching(d)
        BY <1>7, <2>6, <3>1
      <3>3. ~ Dispatching(c)
        BY <1>2 DEF Dispatching
      <3>4. views[1][id] = stream[id]
        BY <2>3, <3>2, <3>3 DEF CalmView
      <3>5. Dispatching(c)'
        <4>1. status'[c] = "appended" /\ Len(Dispatchers) = 1
          BY <1>3, <3>1, GameViewAssumption
        <4>. QED BY <1>3, <4>1 DEF Dispatching
      <3>6. CalmDispatches(id)'
        BY <1>3, <1>4, <1>6, <2>4, <2>6, <3>2, <3>4 DEF CalmDispatches
      <3>7. target'[c] = id
        BY <1>3, <2>6
      <3>. QED BY <3>5, <3>6, <3>7 DEF CalmView
    <2>. QED BY <2>5, <2>6
  <1>9. Misses' /\ Singles'
    <2>1. 1 <= 1
      OBVIOUS
    <2>2. \A d \in Calls : Len(entry'[d]) <= 1
      BY <1>1, <1>3, <2>1, Zenon DEF Singles
    <2>. QED BY <1>1, <1>3, <2>2 DEF Misses, Singles
  <1>. QED BY <1>8, <1>9 DEF CalmInv, CalmViews

(* The dispatch finds the view, and saves it.                              *)
LEMMA DispatchIsCalm ==
  ASSUME CalmInv, StoryInv', NEW c \in Calls, FindView(c) \/ SaveView(c),
         UNCHANGED <<app, request>>
  PROVE  CalmInv'
  <1>1. DispatchInv /\ Misses /\ Singles /\ StoryInv
    BY DEF CalmInv, StoryInv
  <1>2. /\ Dispatching(c) /\ UNCHANGED <<target, stream, status, entry, missed, overlapped>>
    BY DEF FindView, SaveView, logVars
  <1>3. /\ turn[c] = 1 /\ next[c] = 1 /\ View(c) = target[c] /\ entry[c][1] = <<c, 1>>
        /\ target[c] \in Ids /\ 1 + 1 > Len(Dispatchers) /\ <<c, 1>> \in Event
        /\ views \in [DOMAIN Dispatchers -> [ViewIds -> State]]
        /\ 1 \in DOMAIN Dispatchers
    BY <1>1, <1>2, OneDispatcher
  <1>4. /\ turn \in [Calls -> Nat] /\ held \in [Calls -> State \cup {NotHeld}]
        /\ stream \in [Ids -> State]
    BY <1>1 DEF DispatchInv, Types
  <1>5. CASE FindView(c)
    <2>1. /\ held' = [held EXCEPT ![c] = views[1][target[c]]]
          /\ UNCHANGED <<turn, views>>
      BY <1>3, <1>5, GameViewAssumption DEF FindView
    <2>2. held'[c] = views[1][target[c]] /\ \A d \in Calls : d # c => held'[d] = held[d]
      BY <1>4, <2>1
    <2>3. \A d \in Calls : Dispatching(d)' <=> Dispatching(d)
      BY <1>2, <2>1 DEF Dispatching
    <2>4. ASSUME NEW id \in Ids, Calm(id)', app = "ludotheque"
          PROVE  CalmView(id)'
      <3>1. CalmView(id)
        BY <1>2, <2>4 DEF Calm, CalmInv, CalmViews
      <3>2. CalmDispatches(id)'
        BY <1>2, <2>1, <2>2, <2>3, <3>1 DEF CalmView, CalmDispatches
      <3>. QED BY <1>2, <2>1, <2>3, <3>1, <3>2 DEF CalmView
    <2>5. Misses' /\ Singles'
      BY <1>1, <1>2 DEF Misses, Singles
    <2>. QED BY <2>4, <2>5 DEF CalmInv, CalmViews
  <1>6. CASE SaveView(c)
    <2>1. held[c] # NotHeld /\ views' = Saved(c) /\ Moves(c)
      BY <1>1, <1>6, AdvanceMoves DEF SaveView, logVars, DispatchInv, Types
    <2>2. /\ \A d \in Calls : d # c => held'[d] = held[d] /\ turn'[d] = turn[d]
          /\ held'[c] = NotHeld /\ turn'[c] = 1 + 1
      <3>1. turn'[c] = turn[c] + 1
        BY <1>1, <1>3, <2>1 DEF Moves, Singles
      <3>. QED BY <1>3, <1>4, <2>1, <3>1 DEF Moves
    <2>3. /\ \A d \in Calls : d # c => (Dispatching(d)' <=> Dispatching(d))
          /\ ~ Dispatching(c)'
      BY <1>2, <1>3, <2>2 DEF Dispatching
    <2>4. /\ \A id \in Ids : id # target[c] => views'[1][id] = views[1][id]
          /\ views'[1][target[c]] = Append(held[c], <<c, 1>>)
      BY <1>1, <2>1, SavedView
    <2>5. ASSUME NEW id \in Ids, Calm(id)', app = "ludotheque"
          PROVE  CalmView(id)'
      <3>1. CalmView(id)
        BY <1>2, <2>5 DEF Calm, CalmInv, CalmViews
      <3>2. CASE id # target[c]
        BY <1>2, <2>2, <2>3, <2>4, <3>1, <3>2, CalmStays
      <3>3. CASE id = target[c]
        <4>1. /\ stream[id] = Append(views[1][id], <<c, 1>>)
              /\ held[c] = views[1][id] /\ CalmDispatches(id)
          BY <1>2, <2>1, <3>1, <3>3 DEF CalmView, CalmDispatches
        <4>2. views'[1][id] = stream'[id]
          BY <1>2, <2>4, <3>3, <4>1
        <4>3. views[1][id] \in State
          BY <1>3 DEF ViewIds
        <4>4. ASSUME NEW d \in Calls, target[d] = id PROVE ~ Dispatching(d)'
          BY <1>2, <1>4, <2>3, <3>3, <4>1, <4>3, <4>4, CalmAlone
        <4>. QED BY <1>2, <4>2, <4>4 DEF CalmView, CalmDispatches
      <3>. QED BY <3>2, <3>3
    <2>6. Misses' /\ Singles'
      BY <1>1, <1>2 DEF Misses, Singles
    <2>. QED BY <2>5, <2>6 DEF CalmInv, CalmViews
  <1>. QED BY <1>5, <1>6

(* A dispatcher that fails, or a save that comes too late, ends the calm   *)
(* of its own aggregate only.                                              *)
LEMMA FailureIsCalm ==
  ASSUME CalmInv, StoryInv', NEW c \in Calls, DispatcherFails(c) \/ LateSave(c),
         UNCHANGED <<app, request>>
  PROVE  CalmInv'
  <1>1. DispatchInv /\ Misses /\ Singles /\ StoryInv
    BY DEF CalmInv, StoryInv
  <1>2. /\ UNCHANGED <<target, stream, status, entry, overlapped>>
        /\ views' = views \/ (held[c] # NotHeld /\ views' = Saved(c))
        /\ held' = [held EXCEPT ![c] = NotHeld]
        /\ turn' = turn \/ turn' = [turn EXCEPT ![c] = @ + 1]
        /\ missed' = missed \/ missed' = [missed EXCEPT ![c] = @ \cup {turn[c]}]
        /\ Dispatching(c) \/ InFlight(c)
    BY DEF DispatcherFails, LateSave, InFlight, logVars
  <1>3. /\ turn[c] = 1 /\ target[c] \in Ids /\ 1 \in DOMAIN Dispatchers
        /\ entry[c] # <<>>
    BY <1>1, <1>2, OneDispatcher DEF InFlight
  <1>4. /\ turn \in [Calls -> Nat] /\ held \in [Calls -> State \cup {NotHeld}]
        /\ missed \in [Calls -> SUBSET DOMAIN Dispatchers]
    BY <1>1 DEF DispatchInv, Types, Misses
  <1>5. /\ \A d \in Calls : d # c => held'[d] = held[d] /\ turn'[d] = turn[d]
        /\ \A d \in Calls : missed[d] \subseteq missed'[d]
    BY <1>2, <1>4
  <1>6. Misses'
    BY <1>2, <1>3, <1>4 DEF Misses
  <1>7. Singles'
    BY <1>1, <1>2 DEF Singles
  <1>8. ASSUME NEW id \in Ids, Calm(id)', app = "ludotheque"
        PROVE  CalmView(id)'
    <2>1. Calm(id)
      BY <1>2, <1>5, <1>8, CalmBefore
    <2>2. CalmView(id)
      BY <1>8, <2>1 DEF CalmInv, CalmViews
    <2>3. id # target[c]
      <3>1. CASE InFlight(c)
        BY <1>3, <2>1, <3>1 DEF Calm, InFlight
      <3>2. CASE DispatcherFails(c)
        <4>1. missed'[c] # {}
          BY <1>3, <1>4, <3>2 DEF DispatcherFails
        <4>. QED BY <1>2, <1>8, <4>1 DEF Calm
      <3>. QED BY <3>1, <3>2 DEF LateSave
    <2>4. views'[1][id] = views[1][id]
      BY <1>1, <1>2, <2>3, SavedView
    <2>5. \A d \in Calls : target[d] = id =>
            held'[d] = held[d] /\ (Dispatching(d)' <=> Dispatching(d))
      BY <1>2, <1>5, <2>3 DEF Dispatching
    <2>. QED BY <1>2, <2>2, <2>4, <2>5, CalmStays
  <1>. QED BY <1>6, <1>7, <1>8 DEF CalmInv, CalmViews

LEMMA CalmBegins == AppInit => CalmInv
  <1> SUFFICES ASSUME AppInit PROVE CalmInv
    OBVIOUS
  <1>1. StoryInv
    BY StoryBegins
  <1>2. /\ \A id \in Ids : stream[id] = <<>>
        /\ entry = [c \in Calls |-> <<>>] /\ missed = [c \in Calls |-> {}]
        /\ status = [c \in Calls |-> "pending"]
        /\ views = [k \in DOMAIN Dispatchers |-> [v \in ViewIds |-> <<>>]]
        /\ Len(<<>>) = 0
    BY EmptySeq DEF AppInit, Init, Log!Init
  <1>3. Misses /\ Singles
    BY <1>2 DEF Misses, Singles
  <1>4. \A id \in Ids : views[1][id] = <<>>
    BY <1>2, GameViewAssumption DEF ViewIds
  <1>5. \A c \in Calls : ~ Dispatching(c)
    BY <1>2 DEF Dispatching
  <1>. QED BY <1>1, <1>2, <1>3, <1>4, <1>5
           DEF CalmInv, CalmViews, CalmView, CalmDispatches

LEMMA CalmGoesOn == CalmInv /\ [AppNext]_appVars => CalmInv'
  <1> SUFFICES ASSUME CalmInv, [AppNext]_appVars PROVE CalmInv'
    OBVIOUS
  <1>1. StoryInv'
    BY StoryGoesOn DEF CalmInv
  <1>2. ASSUME NEW c \in Calls, AppStep(c), UNCHANGED <<app, request>>
        PROVE  CalmInv'
    <2>1. CASE app = "todolist" /\ AnswerAtOnce(c)
      <3>1. Misses' /\ Singles'
        BY <2>1 DEF AnswerAtOnce, CalmInv, Misses, Singles
      <3>. QED BY <1>1, <1>2, <2>1, <3>1 DEF CalmInv
    <2>2. CASE ~ (app = "todolist" /\ AnswerAtOnce(c))
      BY <1>1, <1>2, <2>2, StatusIsCalm, CommitIsCalm, DispatchIsCalm, FailureIsCalm
         DEF AppStep, Load
    <2>. QED BY <2>1, <2>2
  <1>3. CASE UNCHANGED appVars
    <2>1. /\ UNCHANGED <<target, stream, status, entry, turn, held, views, missed>>
          /\ UNCHANGED <<overlapped, app>>
      BY <1>3 DEF appVars, vars, logVars, cursor
    <2>2. Misses' /\ Singles'
      BY <2>1 DEF CalmInv, Misses, Singles
    <2>3. CalmViews => CalmViews'
      BY <2>1 DEF CalmViews, CalmView, CalmDispatches, Calm, Dispatching
    <2>. QED BY <1>1, <2>1, <2>2, <2>3 DEF CalmInv
  <1>. QED BY <1>2, <1>3 DEF AppNext, Idle, appVars

(* The envelopes that a view was brought up to date with.                  *)
Dispatched(w, s) ==
  [i \in DOMAIN w |->
    [event |-> Payload(w[i]), version |-> CHOOSE n \in DOMAIN s : s[n] = w[i]]]

LEMMA DispatchedAre ==
  ASSUME Requests, app = "ludotheque", NEW s, NEW w \in State
  PROVE  /\ Len(w) \in Nat /\ Len(Dispatched(w, s)) = Len(w)
         /\ \A i \in 1..Len(w) :
              /\ Dispatched(w, s)[i].event = Payload(w[i])
              /\ Dispatched(w, s)[i].version = CHOOSE n \in DOMAIN s : s[n] = w[i]
              /\ IsGameEvent(Dispatched(w, s)[i].event)
  <1>1. Len(w) \in Nat /\ DOMAIN w = 1..Len(w) /\ \A i \in 1..Len(w) : w[i] \in Event
    BY LenProperties, ElementOfSeq DEF State
  <1>2. Dispatched(w, s) = [i \in 1..Len(w) |->
          [event |-> Payload(w[i]), version |-> CHOOSE n \in DOMAIN s : s[n] = w[i]]]
    BY <1>1 DEF Dispatched
  <1>3. ASSUME NEW i \in 1..Len(w) PROVE IsGameEvent(Payload(w[i]))
    <2>1. PICK c \in Calls, k \in 1..MaxEvents : w[i] = <<c, k>>
      BY <1>1 DEF Event
    <2>2. Payload(<<c, k>>) = Payload(<<c, 1>>)
      BY DEF Payload
    <2>. QED BY <2>1, <2>2, GameTold
  <1>4. Len(Dispatched(w, s)) = Len(w)
    BY <1>1, <1>2
  <1>. QED BY <1>1, <1>2, <1>3, <1>4

(* A view that has the first events of a stream is the game after them.    *)
LEMMA ViewOfPrefix ==
  ASSUME Requests, app = "ludotheque", NEW s \in State, Single(s), Lending(Payloads(s)),
         NEW last \in 0..Len(s), NEW w \in State, Len(w) = last,
         \A i \in 1..last : w[i] = s[i]
  PROVE  LET game == GameOf(SubSeq(Payloads(s), 1, last))
             view == GameView(Dispatched(w, s))
         IN  /\ view.version = last
             /\ view.available = game.available
             /\ view.title = game.title
             /\ ~ game.available /\ last > 0 => view.borrower # NoBorrower
  <1>1. /\ Payloads(s) \in Seq(Told) /\ Len(Payloads(s)) = Len(s)
        /\ \A i \in 1..Len(s) : Payloads(s)[i] = Payload(s[i])
    BY StoryType
  <1>2. /\ Len(Dispatched(w, s)) = last
        /\ \A i \in 1..last :
             /\ Dispatched(w, s)[i].event = Payload(w[i])
             /\ Dispatched(w, s)[i].version = CHOOSE n \in DOMAIN s : s[n] = w[i]
    BY DispatchedAre
  <1>3. Len(s) \in Nat /\ DOMAIN s = 1..Len(s)
    BY LenProperties DEF State
  <1>4. ASSUME NEW i \in 1..last
        PROVE  /\ Dispatched(w, s)[i].event = Payloads(s)[i]
               /\ Dispatched(w, s)[i].version = i
    <2>1. i \in DOMAIN s /\ w[i] = s[i]
      BY <1>3
    <2>2. \A n \in DOMAIN s : s[n] = w[i] <=> n = i
      BY <1>3, <2>1 DEF Single
    <2>3. (CHOOSE n \in DOMAIN s : s[n] = w[i]) = i
      BY <2>1, <2>2, Zenon
    <2>. QED BY <1>1, <1>2, <1>3, <2>1, <2>3
  <1>5. ASSUME NEW i \in 1..Len(s)
        PROVE  /\ IsGameEvent(Payloads(s)[i])
               /\ i = 1 => Payloads(s)[i].type = "Registered"
    <2>1. IsGameEvent(Payloads(s)[i])
      BY <1>1, StoryEvents
    <2>2. i \in DOMAIN Payloads(s)
      BY <1>1, LenProperties
    <2>. QED BY <2>1, <2>2 DEF Lending
  <1>6. last \in 0..Len(Payloads(s))
    BY <1>1
  <1>7. PICK story, envelopes : story = Payloads(s) /\ envelopes = Dispatched(w, s)
    OBVIOUS
  <1>8. /\ story \in Seq(Told) /\ last \in 0..Len(story) /\ Len(envelopes) = last
        /\ \A i \in 1..Len(story) : /\ IsGameEvent(story[i])
                                    /\ i = 1 => story[i].type = "Registered"
        /\ \A i \in 1..last : envelopes[i].event = story[i] /\ envelopes[i].version = i
    BY <1>1, <1>2, <1>4, <1>5, <1>6, <1>7
  <1>9. LET game == GameOf(SubSeq(story, 1, last))
            view == GameView(envelopes)
        IN  /\ view.version = last
            /\ view.available = game.available
            /\ view.title = game.title
            /\ ~ game.available /\ last > 0 => view.borrower # NoBorrower
    BY ONLY <1>8, ViewIsGame
  <1>. QED BY <1>7, <1>9

(* A calm view has the first events of its stream.                         *)
LEMMA CalmHasFirst ==
  ASSUME NEW s \in State, NEW w \in State,
         w = s \/ \E c \in Calls : s = Append(w, <<c, 1>>)
  PROVE  Len(w) \in 0..Len(s) /\ \A i \in 1..Len(w) : w[i] = s[i]
  <1>1. w \in Seq(Event \cup (Calls \X {1})) /\ Len(w) \in Nat /\ Len(s) \in Nat
    BY LenProperties DEF State
  <1>2. ASSUME NEW c \in Calls, s = Append(w, <<c, 1>>)
        PROVE  Len(w) \in 0..Len(s) /\ \A i \in 1..Len(w) : w[i] = s[i]
    <2>1. <<c, 1>> \in Event \cup (Calls \X {1})
      OBVIOUS
    <2>2. /\ Len(s) = Len(w) + 1
          /\ \A i \in 1..Len(w) : s[i] = w[i]
      BY <1>1, <1>2, <2>1, AppendProperties
    <2>. QED BY <1>1, <2>2
  <1>. QED BY <1>1, <1>2

(* A game is lent to one at a time, its view never calls a game that is    *)
(* lent available, and the view of a calm game is the game it was.         *)
THEOREM LoansHonest == AppSpec => []LoansAreHonest
  <1>1. CalmInv => LoansAreHonest
    <2> SUFFICES ASSUME CalmInv, app = "ludotheque", NEW id \in Ids
                 PROVE  /\ Lending(Story(id))
                        /\ ViewOf(id).borrower # NoBorrower => ~ ViewOf(id).available
                        /\ Calm(id) =>
                             LET game == GameOf(SubSeq(Story(id), 1, ViewOf(id).version))
                             IN  /\ ViewOf(id).available = game.available
                                 /\ ViewOf(id).title = game.title
                                 /\ ~ game.available /\ ViewOf(id).version > 0 =>
                                      ViewOf(id).borrower # NoBorrower
      BY DEF LoansAreHonest
    <2>1. /\ StoryInv /\ DispatchInv /\ Requests /\ Origins
          /\ stream[id] \in State /\ Lending(Story(id))
          /\ views \in [DOMAIN Dispatchers -> [ViewIds -> State]]
      BY DEF CalmInv, StoryInv, DispatchInv, Types, Loans
    <2>2. views[1][id] \in State
      BY <2>1, GameViewAssumption DEF ViewIds
    <2>3. PICK s \in State, w \in State : s = stream[id] /\ w = views[1][id]
      BY <2>1, <2>2
    <2>4. ViewOf(id) = GameView(Dispatched(w, s)) /\ Story(id) = Payloads(s)
      BY <2>3 DEF ViewOf, Dispatched, Story
    <2>5. /\ Len(Dispatched(w, s)) \in Nat
          /\ \A i \in 1..Len(Dispatched(w, s)) : IsGameEvent(Dispatched(w, s)[i].event)
      BY <2>1, DispatchedAre
    <2>6. ViewOf(id).borrower # NoBorrower => ~ ViewOf(id).available
      <3>1. PICK envelopes : envelopes = Dispatched(w, s)
        OBVIOUS
      <3>. QED BY <2>4, <2>5, <3>1, BorrowerIsOut
    <2>7. ASSUME Calm(id)
          PROVE  LET game == GameOf(SubSeq(Story(id), 1, ViewOf(id).version))
                 IN  /\ ViewOf(id).available = game.available
                     /\ ViewOf(id).title = game.title
                     /\ ~ game.available /\ ViewOf(id).version > 0 =>
                          ViewOf(id).borrower # NoBorrower
      <3>1. CalmView(id)
        BY <2>7 DEF CalmInv, CalmViews
      <3>2. w = s \/ \E c \in Calls : s = Append(w, <<c, 1>>)
        BY <2>3, <3>1 DEF CalmView, CalmDispatches
      <3>3. Len(w) \in 0..Len(s) /\ \A i \in 1..Len(w) : w[i] = s[i]
        BY <3>2, CalmHasFirst
      <3>4. Single(s) /\ Lending(Payloads(s))
        BY <2>1, <2>3, <2>4 DEF Origins, Single
      <3>5. PICK last : last = Len(w)
        OBVIOUS
      <3>6. LET game == GameOf(SubSeq(Payloads(s), 1, last))
                view == GameView(Dispatched(w, s))
            IN  /\ view.version = last
                /\ view.available = game.available
                /\ view.title = game.title
                /\ ~ game.available /\ last > 0 => view.borrower # NoBorrower
        BY <2>1, <3>3, <3>4, <3>5, ViewOfPrefix
      <3>. QED BY <2>4, <3>6
    <2>. QED BY <2>1, <2>6, <2>7
  <1>. QED BY <1>1, CalmBegins, CalmGoesOn, PTL DEF AppSpec
=============================================================================
