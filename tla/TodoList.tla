------------------------------ MODULE TodoList ------------------------------
(***************************************************************************)
(* The todo list aggregate of the todolist example                         *)
(* (example/todolist/src/todolist).  A todo is known by its id; of the     *)
(* titles and names only whether they are empty decides anything, and who  *)
(* a todo is assigned to decides nothing.                                  *)
(***************************************************************************)
EXTENDS Sequences, Errors

NoTodos == <<>>

IsTodoCommand(command) ==
  command.type \in {"Create", "AddTodo", "RemoveTodo", "AssignTodo", "ResolveTodo"}

TodoListErrors ==
  [TodoNotFound |-> <<1, 404>>, TodoAlreadyResolved |-> <<2, 409>>,
   EmptyTitle |-> <<3, 400>>, ListNameRequired |-> <<4, 400>>]

TodoListError(name) ==
  Raises(DomainError("todolist", 20, TodoListErrors, name))

-----------------------------------------------------------------------------
TodosNamed(todos, id) == {i \in DOMAIN todos : todos[i].id = id}

(* What iter().find returns. *)
FirstNamed(todos, id) ==
  CHOOSE i \in TodosNamed(todos, id) : \A k \in TodosNamed(todos, id) : i <= k

Resolve(todos, id) ==
  IF TodosNamed(todos, id) = {}
    THEN todos
    ELSE [todos EXCEPT ![FirstNamed(todos, id)].resolved = TRUE]

(* What retain leaves. *)
Without(todos, id) ==
  LET kept[n \in 0..Len(todos)] ==
        IF n = 0 THEN <<>>
        ELSE IF todos[n].id = id THEN kept[n - 1]
        ELSE Append(kept[n - 1], todos[n])
  IN  kept[Len(todos)]

ApplyToTodos(todos, event) ==
  CASE event.type = "TodoListCreated" -> todos
    [] event.type = "TodoAdded" ->
         Append(todos, [id |-> event.id, resolved |-> FALSE])
    [] event.type = "TodoRemoved" ->
         Without(todos, event.id)
    [] event.type = "TodoAssignedTo" -> todos
    [] event.type = "TodoResolved" -> Resolve(todos, event.id)

Todos(events) ==
  LET after[n \in 0..Len(events)] ==
        IF n = 0 THEN NoTodos ELSE ApplyToTodos(after[n - 1], events[n])
  IN  after[Len(events)]

(* The one event a command that is not refused returns; an added todo gets *)
(* the next uuid.                                                          *)
TodoEvent(command, uuid) ==
  CASE command.type = "Create" -> [type |-> "TodoListCreated"]
    [] command.type = "AddTodo" -> [type |-> "TodoAdded", id |-> uuid]
    [] command.type = "RemoveTodo" -> [type |-> "TodoRemoved", id |-> command.id]
    [] command.type = "AssignTodo" -> [type |-> "TodoAssignedTo", id |-> command.id]
    [] command.type = "ResolveTodo" -> [type |-> "TodoResolved", id |-> command.id]

CreateTodoList(command, uuid) ==
  IF command.blank THEN TodoListError("ListNameRequired")
                   ELSE Returns(TodoEvent(command, uuid))

(* Mutant: a todo may be resolved again. *)
UpdateTodosAgain(todos, command, uuid) ==
  IF command.type = "AddTodo" /\ command.blank THEN TodoListError("EmptyTitle")
  ELSE IF command.type # "AddTodo" /\ TodosNamed(todos, command.id) = {}
    THEN TodoListError("TodoNotFound")
  ELSE Returns(TodoEvent(command, uuid))

UpdateTodos(todos, command, uuid) ==
  IF command.type = "AddTodo" /\ command.blank THEN TodoListError("EmptyTitle")
  ELSE IF command.type # "AddTodo" /\ TodosNamed(todos, command.id) = {}
    THEN TodoListError("TodoNotFound")
  ELSE IF /\ command.type = "ResolveTodo"
          /\ todos[FirstNamed(todos, command.id)].resolved
    THEN TodoListError("TodoAlreadyResolved")
  ELSE Returns(TodoEvent(command, uuid))
=============================================================================
