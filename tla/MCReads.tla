------------------------------ MODULE MCReads -------------------------------
(* Reads for TLC: view types of the examples and tests, and query strings  *)
(* of up to two parameters, with the walks and a few longer ones.          *)
EXTENDS Reads

View(i, p, k, h) == [f \in Fields |->
  CASE f = "id" -> i [] f = "parent" -> p [] f = "key" -> k [] f = "hidden" -> h]

(* GameQuery and MovementQuery: a default sort that ends in the id. *)
Game ==
  [name |-> "game", fields |-> {"key"}, sortable |-> {"id", "key"},
   defaultSort |-> <<Asc("key"), Asc("id")>>,
   route |-> "codex", table |-> "views", child |-> FALSE]
Movement ==
  [name |-> "movement", fields |-> {"key"}, sortable |-> {"id", "parent", "key"},
   defaultSort |-> <<Desc("key"), Asc("id")>>,
   route |-> "codex", table |-> "views", child |-> TRUE]

(* TodoListQuery: a snapshot table behind the plain route. *)
TodoList ==
  [name |-> "todolist", fields |-> {"key"}, sortable |-> {}, defaultSort |-> <<>>,
   route |-> "plain", table |-> "snapshots", child |-> FALSE]

(* A view that declares no order, and a query of reserved names only. *)
Unsorted == [TodoList EXCEPT !.name = "unsorted", !.route = "codex"]
Shadowed ==
  [Game EXCEPT !.name = "shadowed", !.fields = {"skip"}, !.defaultSort = <<Asc("key")>>]

MCViewTypes == {Game, Movement, TodoList, Unsorted, Shadowed}

(* The third view gets another content that leaves out its last field. *)
MCContents == {View(2, 1, 2, 1), View(3, 2, 1, Absent)}
MCStored ==
  {{View(1, 1, 1, 2), View(2, 1, 1, 1), View(3, 1, 2, 1)},
   {View(1, 1, 1, 1), View(2, 2, 2, 1), View(3, 2, 1, 2)}}

Pairs ==
  {[key |-> k, value |-> v] :
     k \in {"skip", "page"}, v \in {Number(-1), Number(0), Number(1)}}
  \cup {[key |-> k, value |-> v] :
     k \in {"limit", "page_size"},
     v \in {Empty, Number(0), Number(1), Number(MaxI64 + 1)}}
  \cup {[key |-> k, value |-> v] :
     k \in {"page", "pageSize"}, v \in {Number(2), Number(MaxI64 \div 2)}}
  \cup {[key |-> "sort", value |-> v] :
     v \in {Empty, Sorters(<<>>), Sorters(<<Asc("key")>>), Sorters(<<Desc("id")>>),
            Sorters(<<Asc("hidden")>>)}}
  \cup {[key |-> "_q", value |-> v] :
     v \in {Empty, Text, Rsql({{<<"key", 1>>}}), Rsql({{<<"hidden", 1>>}}),
            Rsql({{<<"key", 1>>}, {<<"key", 2>>}}), Rsql({{<<"skip", 1>>}})}}
  \cup {[key |-> "key", value |-> v] : v \in {Text, Number(1)}}

Walk(size, sort) ==
  <<[key |-> "page_size", value |-> Number(size)],
    [key |-> "page", value |-> Number(0)], [key |-> "sort", value |-> sort]>>

MCRequests ==
  {<<>>} \cup {<<p>> : p \in Pairs} \cup (Pairs \X Pairs)
  \cup {Walk(size, sort) :
          size \in {1, 2},
          sort \in {Empty, Sorters(<<>>), Sorters(<<Asc("key")>>)}}
=============================================================================
