--------------------------- MODULE MCApplications ----------------------------
(* Applications for TLC: requests that compete for one game, or go through *)
(* the life of a todo.                                                     *)
EXTENDS Applications

Register(title, min, max) == [type |-> "Register", title |-> title, min |-> min, max |-> max]
Borrow(who) == [type |-> "Borrow", borrower |-> who]
Return == [type |-> "Return"]
Update(title) == [type |-> "Update", title |-> title]
Create(blank) == [type |-> "Create", blank |-> blank]
AddTodo(blank) == [type |-> "AddTodo", blank |-> blank]
About(type, id) == [type |-> type, id |-> id]

Game == Register("chess", 2, 4)

Ludotheque == {
  <<Game, Borrow("ann"), Borrow("bob"), Return>>,
  <<Game, Borrow("ann"), Update(EmptyTitle), Update("go")>>,
  <<Game, Update(KeepTitle), Borrow("bob"), Register(EmptyTitle, 1, 1)>>,
  <<Register("chess", 4, 2), Register("go", 0, 2), Game, Return>>}

(* The second request adds the todo the others are about.  No scenario has *)
(* two creates that succeed: each would make an aggregate of its own.      *)
Todolist == {
  <<Create(FALSE), AddTodo(FALSE), About("ResolveTodo", 2), About("ResolveTodo", 2)>>,
  <<Create(FALSE), AddTodo(FALSE), About("RemoveTodo", 2), About("ResolveTodo", 2)>>,
  <<Create(FALSE), AddTodo(FALSE), About("AssignTodo", 2), About("RemoveTodo", 2)>>,
  <<Create(TRUE), AddTodo(TRUE), Create(FALSE), About("AssignTodo", 1)>>}

MCScenarios ==
  {[app |-> "ludotheque", requests |-> r] : r \in Ludotheque}
  \cup {[app |-> "todolist", requests |-> r] : r \in Todolist}

MCDispatchers == <<"aggregate">>
MCShown == Event
=============================================================================
