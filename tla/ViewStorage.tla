----------------------------- MODULE ViewStorage ----------------------------
(***************************************************************************)
(* The read storages (read/postgres.rs, read/surrealdb.rs,                 *)
(* read/mongodb.rs): how a view becomes a row and comes back, which rows a *)
(* filter selects, and which of them a window over an order shows.         *)
(*                                                                         *)
(* A view is a function from its fields to numbers; a field it does not    *)
(* serialise (skip_serializing_if) is absent.  The key of a table is the   *)
(* id of the view; a mapper makes every field of a row addressable.        *)
(***************************************************************************)
EXTENDS Codex

CONSTANTS
  ViewIds,       \* the ids of the views, numbers
  DefaultLimit,  \* the items of a page nobody asked a size for (20)
  NoRow,         \* no row under an id
  Absent         \* the value of a field that is not serialised

ASSUME DefaultLimitAssumption == DefaultLimit \in Nat \ {0}
ASSUME AbsentAssumption == Absent \notin Int

Fields == {"id", "parent", "key", "hidden"}

(* The fields every view serialises. *)
Required == {"id", "parent", "key"}

(* Views, as saved or as read back. *)
ViewOf ==
  {v \in [Fields -> Int \cup {Absent}] : \A f \in Required : v[f] \in Int}

Backends == {"postgres", "surrealdb", "mongodb"}

(* A view table, or the snapshot table of the event store. *)
Tables == {"views", "snapshots"}

-----------------------------------------------------------------------------
(* The data column of Postgres lacks the id, which has its own column. *)
RowToView(row) ==
  [f \in Fields |-> IF f = "id" THEN row.id ELSE row.data[f]]

(* What save, or the save_snapshot of the event store, inserts. *)
ToRow(backend, table, view) ==
  CASE backend = "postgres" /\ table = "views" ->
         [id |-> view["id"], parent_id |-> view["parent"],
          data |-> [f \in Fields \ {"id"} |-> view[f]]]
    [] backend = "surrealdb" /\ table = "views" ->
         [id |-> view["id"], parent_id |-> view["parent"], data |-> view]
    [] backend = "mongodb" /\ table = "views" -> [document |-> view]
    [] backend # "mongodb" /\ table = "snapshots" ->
         [aggregate_id |-> view["id"], data |-> view]
    [] OTHER -> [_id |-> view["id"], state |-> view]

(* Mutant: all fields are in $setOnInsert. *)
UpsertOnInsert(backend, table, row, view) ==
  IF backend = "mongodb" /\ table = "views" /\ row # NoRow
    THEN row ELSE ToRow(backend, table, view)

(* What it leaves under an id that has a row: another row, but the $set of *)
(* MongoDB keeps the fields of the document that the view leaves out.      *)
Upsert(backend, table, row, view) ==
  IF backend = "mongodb" /\ table = "views" /\ row # NoRow
    THEN [document |-> [f \in Fields |->
            IF view[f] = Absent THEN row.document[f] ELSE view[f]]]
    ELSE ToRow(backend, table, view)

FromRow(backend, table, row) ==
  CASE backend = "postgres" /\ table = "views" -> RowToView(row)
    [] backend = "mongodb" /\ table = "views" -> row.document
    [] backend = "mongodb" /\ table = "snapshots" -> row.state
    [] OTHER -> row.data

(* What there may be under an id. *)
Row ==
  [id : Int, parent_id : Int,
   data : ViewOf \cup [Fields \ {"id"} -> Int \cup {Absent}]]
    \cup [document : ViewOf]
    \cup [aggregate_id : Int, data : ViewOf]
    \cup [_id : Int, state : ViewOf]

ASSUME NoRowAssumption == NoRow \notin Row \cup ViewOf

(* The column or path a filter or sorter reads: the mapper's doing. *)
Field(backend, table, row, f) ==
  CASE backend = "postgres" /\ table = "views" ->
         IF f = "id" THEN row.id ELSE row.data[f]
    [] backend = "surrealdb" /\ table = "views" -> row.data[f]
    [] backend = "mongodb" /\ table = "views" -> row.document[f]
    [] backend = "mongodb" /\ table = "snapshots" -> row.state[f]
    [] OTHER -> row.data[f]

(* The parent of a row: a column of its own, or a field of the document. *)
ParentField(backend, row) ==
  IF backend = "mongodb" THEN row.document["parent"] ELSE row.parent_id

-----------------------------------------------------------------------------
(* Mutant: without parentheses the parent binds to the last alternative. *)
WhereUnparenthesised(holds, alternatives, ofParent) ==
  LET last == CHOOSE a \in alternatives : TRUE
  IN  \/ \E a \in alternatives \ {last} : holds[a]
      \/ holds[last] /\ ofParent

(* The filter in parentheses AND the parent, where there is one. *)
Where(holds, alternatives, ofParent) ==
  (\E a \in alternatives : holds[a]) /\ ofParent

(* The ids of the rows a filter selects, below a parent or not. *)
Matching(backend, table, rows, alternatives, child, parent) ==
  {id \in ViewIds :
     /\ rows[id] # NoRow
     /\ Where([a \in alternatives |->
                 \A c \in a : Field(backend, table, rows[id], c[1]) = c[2]],
              alternatives,
              child => ParentField(backend, rows[id]) = parent)}

(* The first sorter on which two rows differ decides. *)
Precedes(backend, table, rows, order, a, b) ==
  LET at(id, k) == Field(backend, table, rows[id], order[k].field)
  IN  \E k \in DOMAIN order :
        /\ \A m \in 1..(k - 1) : at(a, m) = at(b, m)
        /\ IF order[k].desc THEN at(a, k) > at(b, k) ELSE at(a, k) < at(b, k)

(* The orders a database may list rows in: ties come as they come. *)
Listings(backend, table, rows, order, ids) ==
  {s \in [1..Cardinality(ids) -> ids] :
     \A i, j \in DOMAIN s : i < j =>
       /\ s[i] # s[j]
       /\ ~ Precedes(backend, table, rows, order, s[j], s[i])}

-----------------------------------------------------------------------------
(* The window a backend asks its database for.  Postgres takes the numbers *)
(* as they are; SurrealDB clamps both, MongoDB the skip.                   *)
Window(backend, pagination) ==
  LET skip == pagination.skip
      limit == Or(pagination.limit, DefaultLimit)
      atLeastZero(n) == IF n < 0 THEN 0 ELSE n
  IN  CASE backend = "postgres" -> [skip |-> skip, limit |-> limit]
        [] backend = "surrealdb" ->
             [skip |-> atLeastZero(skip), limit |-> atLeastZero(limit)]
        [] backend = "mongodb" -> [skip |-> atLeastZero(skip), limit |-> limit]

(* Not a page but an error. *)
NoPage == {0}

(* The positions a database shows of n rows.  A negative window is an      *)
(* error to Postgres; to MongoDB a limit of 0 is none, and a negative one  *)
(* the size of its one batch.                                              *)
Positions(backend, window, n) ==
  LET from == window.skip + 1
      size == CASE backend = "mongodb" /\ window.limit = 0 -> n
                [] backend = "mongodb" /\ window.limit < 0 -> - window.limit
                [] OTHER -> window.limit
  IN  IF window.skip < 0 \/ size < 0
        THEN NoPage
        ELSE {i \in 1..n : from <= i /\ i < from + size}

(* Mutant: the placeholders of OFFSET and LIMIT are swapped. *)
PageSqlSwapped(backend, window, listing) ==
  LET at == Positions(backend, [skip |-> window.limit, limit |-> window.skip],
                      Len(listing))
      first == Cardinality({i \in DOMAIN listing : i <= window.limit})
  IN  [k \in 1..Cardinality(at) |-> listing[first + k]]

(* The items of a page. *)
PageSql(backend, window, listing) ==
  LET at == Positions(backend, window, Len(listing))
      first == Cardinality({i \in DOMAIN listing : i <= window.skip})
  IN  [k \in 1..Cardinality(at) |-> listing[first + k]]

(* Paged::new: the page number is derived from the window. *)
Paged(items, total, window) ==
  [items |-> items, total |-> total,
   skip |-> window.skip, limit |-> window.limit,
   page |-> IF window.limit > 0 THEN window.skip \div window.limit ELSE 0,
   page_size |-> window.limit]
=============================================================================
