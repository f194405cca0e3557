---------------------------- MODULE Applications ----------------------------
(***************************************************************************)
(* The ludotheque and todolist examples (example/*/src/api.rs): their      *)
(* aggregates behind the write routes, over an event store that keeps the  *)
(* promise of EventLog.  Nothing puts the requests in turn: what one has   *)
(* loaded may be stale when it decides and commits.                        *)
(*                                                                         *)
(* SurrealDBPersist, the store the ludotheque is started with, is shown to *)
(* keep that promise, and so are InMemoryPersist, the store the tests of   *)
(* the todolist run it over, and PostgresPersist over a pool.  The server  *)
(* of the todolist hands PostgresPersist one connection, as a SharedClient *)
(* whose sessions may meet in one transaction: that store keeps less, what *)
(* PostgresEngine says of the use "contended", and what is said of the     *)
(* todolist here is not said of a server whose sessions meet.              *)
(*                                                                         *)
(* The ludotheque has a dispatcher, the GameView of ViewDispatch; the      *)
(* todolist has none.                                                      *)
(***************************************************************************)
EXTENDS ViewDispatch, LudothequeGame, TodoList

CONSTANT Scenarios   \* the applications and the requests they get

ASSUME ScenariosAssumption ==
  \A scenario \in Scenarios, c \in Calls :
    \/ scenario.app = "ludotheque" /\ IsGameCommand(scenario.requests[c])
    \/ scenario.app = "todolist" /\ IsTodoCommand(scenario.requests[c])

(* The one dispatcher is that of GameView, which takes every event. *)
ASSUME GameViewAssumption == Dispatchers = <<"aggregate">> /\ Shown = Event

VARIABLES
  app,         \* "ludotheque" or "todolist"
  request      \* the command of each request

appVars == <<vars, app, request>>

Creates(c) == request[c].type \in {"Register", "Create"}

(* The event of a request is a function of its command, and the id of a    *)
(* todo is the request that added it: both are fresh.                      *)
Decide(c, events) ==
  CASE app = "ludotheque" /\ Creates(c) -> RegisterGame(request[c])
    [] app = "ludotheque" /\ ~ Creates(c) ->
         UpdateGame(GameOf(events), request[c])
    [] app = "todolist" /\ Creates(c) -> CreateTodoList(request[c], c)
    [] app = "todolist" /\ ~ Creates(c) ->
         UpdateTodos(Todos(events), request[c], c)

Payload(event) ==
  LET c == event[1] IN
  IF app = "ludotheque" THEN GameEvent(request[c]) ELSE TodoEvent(request[c], c)

Payloads(events) == [i \in DOMAIN events |-> Payload(events[i])]

AppInit ==
  /\ Init
  /\ \E scenario \in Scenarios :
       app = scenario.app /\ request = scenario.requests

-----------------------------------------------------------------------------
(* initialize_aggregate and load_aggregate: a create finds no aggregate,   *)
(* an update finds one; otherwise the request fails.                       *)
Load(c) ==
  /\ Before(c)
  /\ Creates(c) <=> seen'[c] = <<>>

(* The handler returns one event for what the call has loaded. *)
Handled(c) ==
  /\ Decide(c, Payloads(seen[c])).ok
  /\ Commit(c)
  /\ Len(entry'[c]) = 1

(* The todolist has no dispatcher to wait for. *)
AnswerAtOnce(c) ==
  /\ Log!Acknowledge(c)
  /\ UNCHANGED <<entry, cursor, views, missed, overlapped>>

AppStep(c) ==
  \/ Load(c)
  \/ Handled(c)
  \/ Drop(c)
  \/ /\ app = "ludotheque"
     /\ \/ FindView(c)
        \/ SaveView(c)
        \/ DispatcherFails(c)
        \/ LateSave(c)
        \/ Answer(c)
  \/ app = "todolist" /\ AnswerAtOnce(c)

AppNext ==
  \/ \E c \in Calls : AppStep(c) /\ UNCHANGED <<app, request>>
  \/ Idle /\ UNCHANGED <<app, request>>

AppSpec == AppInit /\ [][AppNext]_appVars

-----------------------------------------------------------------------------
Story(id) == Payloads(stream[id])

(* The view of a game: the events that were applied to it, with the        *)
(* version each has in the stream.                                         *)
ViewOf(id) ==
  GameView([i \in DOMAIN views[1][id] |->
    [event |-> Payload(views[1][id][i]),
     version |-> CHOOSE n \in DOMAIN stream[id] :
                   stream[id][n] = views[1][id][i]]])

(* Between two events of the first type in a story is one of the second. *)
Apart(story, first, second) ==
  \A i, k \in DOMAIN story :
    i < k /\ story[i].type = first /\ story[k].type = first =>
      \E m \in i..k : story[m].type = second

(* A game is registered once, before all else, and then it is lent, given  *)
(* back, and lent again.                                                   *)
Lending(story) ==
  /\ \A i \in DOMAIN story : story[i].type = "Registered" <=> i = 1
  /\ Apart(story, "Borrowed", "Returned")
  /\ Apart(story, "Returned", "Borrowed")
  /\ \A k \in DOMAIN story : story[k].type = "Returned" =>
       \E i \in 1..k : story[i].type = "Borrowed"

(* No dispatches of the game overlap, and none is lost. *)
Calm(id) ==
  \A c \in Calls : target[c] = id =>
    /\ c \notin overlapped
    /\ missed[c] = {}
    /\ status[c] = "failed" => entry[c] = <<>>

(* A game is lent to one person at a time: however many ask at once, each  *)
(* Borrowed is followed by a Returned before the next.  A view never names *)
(* a borrower of a game it calls available; and while no dispatches        *)
(* overlap and none is lost, the view at version v is the game after its   *)
(* first v events.                                                         *)
LoansAreHonest ==
  app = "ludotheque" => \A id \in Ids :
    /\ Lending(Story(id))
    /\ ViewOf(id).borrower # NoBorrower => ~ ViewOf(id).available
    /\ Calm(id) =>
         LET game == GameOf(SubSeq(Story(id), 1, ViewOf(id).version))
         IN  /\ ViewOf(id).available = game.available
             /\ ViewOf(id).title = game.title
             /\ ~ game.available /\ ViewOf(id).version > 0 =>
                  ViewOf(id).borrower # NoBorrower

(* The todos an event finds. *)
Consistent(todos, event) ==
  /\ \A i, k \in DOMAIN todos : todos[i].id = todos[k].id => i = k
  /\ event.type \in {"TodoRemoved", "TodoAssignedTo", "TodoResolved"} =>
       TodosNamed(todos, event.id) # {}
  /\ event.type = "TodoResolved" =>
       \A i \in TodosNamed(todos, event.id) : ~ todos[i].resolved

(* Every event of a list is about a todo that was added before and not yet *)
(* removed, a todo is resolved at most once, and no two have the same id.  *)
(* The handler looks the todo up in the list the request has loaded, which *)
(* other requests may have changed since; the compare of the append is all *)
(* that keeps two of them from one todo.                                   *)
TodosAreThere ==
  app = "todolist" => \A id \in Ids : \A n \in DOMAIN Story(id) :
    Consistent(Todos(SubSeq(Story(id), 1, n - 1)), Story(id)[n])
=============================================================================
