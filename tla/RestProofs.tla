----------------------------- MODULE RestProofs -----------------------------
(***************************************************************************)
(* What a client of the routes can rely on, for any views, any table, any  *)
(* query string and any number of saves, and for any error.                *)
(*                                                                         *)
(* Listings: what is found under an id is what was last saved, but for the *)
(* fields a view in MongoDB keeps because the last one left them out.  No  *)
(* backend shows another window than the others.  The backends differ in   *)
(* what they make of a window only where its skip is negative or its limit *)
(* not positive.  The extractor never lets such a number in, and the two   *)
(* ways it has of making a window from numbers, skip with limit and page   *)
(* times page_size, make none.                                             *)
(*                                                                         *)
(* Walks: every page of a walk asks the same of the table as the first,    *)
(* and an order that names the id can be listed in one way only, so that   *)
(* the pages, one after the other, are the listing.                        *)
(*                                                                         *)
(* Errors: what the tables of codes promise, whatever the status, the      *)
(* domain or the base of the problem types.                                *)
(***************************************************************************)
EXTENDS Reads, Errors, TLAPS, SequenceTheorems, FiniteSetTheorems,
        WellFoundedInduction

(* The view a row holds.                                                   *)
Held(id) == FromRow(backend, view.table, rows[id])

(* What a row holds of the views saved under its id: each field as some of *)
(* them had it, and as the last one had it, unless that left it out and    *)
(* the backend merges.                                                     *)
KeptFrom(merges, held, last, all) ==
  \A f \in Fields :
    /\ \E v \in all : held[f] = v[f]
    /\ held[f] = last[f] \/ (merges /\ last[f] = Absent)

Merges == backend = "mongodb" /\ view.table = "views"

(* The row of a view that is there.                                        *)
RowOf(id) ==
  \E held \in ViewOf :
    /\ rows[id] = ToRow(backend, view.table, held)
    /\ KeptFrom(Merges, held, saved[id], ever[id])

(* The rows of a table are the views that were saved, each as its row.     *)
RowsAreSaved ==
  /\ backend \in Backends /\ view \in ViewTypes
  /\ saved \in [ViewIds -> Views \cup {NoRow}]
  /\ DOMAIN rows = ViewIds /\ DOMAIN ever = ViewIds
  /\ \A id \in ViewIds : IF saved[id] = NoRow THEN rows[id] = NoRow ELSE RowOf(id)

(* The counts the extractor has gathered.                                  *)
Counts(r) ==
  /\ DOMAIN r = {"rejected", "q", "skip", "limit", "page", "page_size", "sort", "rest"}
  /\ r.skip \in Nat \cup {None} /\ r.page \in Nat \cup {None}
  /\ r.limit \in (Nat \ {0}) \cup {None}
  /\ r.page_size \in (Nat \ {0}) \cup {None}

ParamsAreCounts ==
  /\ request \in Seq(Pair) /\ pairs \in Seq(Pair)
  /\ Counts(x)

ReadsInv == RowsAreSaved /\ ParamsAreCounts

-----------------------------------------------------------------------------
(* A view comes back from its row as it went in, its parent with it.       *)
LEMMA RowRoundTrip ==
  ASSUME NEW b \in Backends, NEW t \in Tables, NEW v \in ViewOf
  PROVE  /\ FromRow(b, t, ToRow(b, t, v)) = v
         /\ t = "views" => ParentField(b, ToRow(b, t, v)) = v["parent"]
  <1> DEFINE row == ToRow(b, t, v)
  <1>0. v \in [Fields -> Int \cup {Absent}]
    BY DEF ViewOf
  <1>1. CASE b = "postgres" /\ t = "views"
    <2>1. row = [id |-> v["id"], parent_id |-> v["parent"],
                 data |-> [f \in Fields \ {"id"} |-> v[f]]]
      BY <1>1 DEF ToRow
    <2>2. FromRow(b, t, row) = [f \in Fields |-> IF f = "id" THEN row.id ELSE row.data[f]]
      BY <1>1 DEF FromRow, RowToView
    <2> HIDE DEF row
    <2>3. row.id = v["id"] /\ row.parent_id = v["parent"]
      BY <2>1
    <2>4. \A f \in Fields : (IF f = "id" THEN row.id ELSE row.data[f]) = v[f]
      BY <2>1
    <2>5. FromRow(b, t, row) = [f \in Fields |-> v[f]]
      BY <2>2, <2>4
    <2>6. v = [f \in Fields |-> v[f]]
      BY <1>0
    <2>. QED BY <1>1, <2>3, <2>5, <2>6 DEF ParentField, row
  <1>2. CASE b = "surrealdb" /\ t = "views"
    <2>1. row = [id |-> v["id"], parent_id |-> v["parent"], data |-> v]
      BY <1>2 DEF ToRow
    <2>2. FromRow(b, t, row) = row.data
      BY <1>2 DEF FromRow
    <2>. QED BY <1>2, <2>1, <2>2 DEF ParentField
  <1>3. CASE b = "mongodb" /\ t = "views"
    <2>1. row = [document |-> v]
      BY <1>3 DEF ToRow
    <2>2. FromRow(b, t, row) = row.document
      BY <1>3 DEF FromRow
    <2>. QED BY <1>3, <2>1, <2>2 DEF ParentField
  <1>4. CASE b # "mongodb" /\ t = "snapshots"
    <2>1. row = [aggregate_id |-> v["id"], data |-> v]
      BY <1>4 DEF ToRow
    <2>2. FromRow(b, t, row) = row.data
      BY <1>4 DEF FromRow
    <2>. QED BY <1>4, <2>1, <2>2
  <1>5. CASE b = "mongodb" /\ t = "snapshots"
    <2>1. row = [_id |-> v["id"], state |-> v]
      BY <1>5 DEF ToRow
    <2>2. FromRow(b, t, row) = row.state
      BY <1>5 DEF FromRow
    <2>. QED BY <1>5, <2>1, <2>2
  <1>. QED BY <1>1, <1>2, <1>3, <1>4, <1>5 DEF Backends, Tables

(* Every row is one, and a filter or sorter finds in it what the view has. *)
LEMMA RowOfView ==
  ASSUME NEW b \in Backends, NEW t \in Tables, NEW v \in ViewOf
  PROVE  /\ ToRow(b, t, v) \in Row /\ ToRow(b, t, v) # NoRow
         /\ \A f \in Fields : Field(b, t, ToRow(b, t, v), f) = v[f]
  <1> DEFINE row == ToRow(b, t, v)
             data == [f \in Fields \ {"id"} |-> v[f]]
  <1>0. /\ v["id"] \in Int /\ v["parent"] \in Int
        /\ v \in [Fields -> Int \cup {Absent}]
    BY DEF ViewOf, Required
  <1>1. CASE b = "postgres" /\ t = "views"
    <2>1. row = [id |-> v["id"], parent_id |-> v["parent"], data |-> data]
      BY <1>1 DEF ToRow
    <2>2. data \in [Fields \ {"id"} -> Int \cup {Absent}]
      BY <1>0
    <2>3. \A f \in Fields : Field(b, t, row, f) = IF f = "id" THEN row.id ELSE row.data[f]
      BY <1>1 DEF Field
    <2> HIDE DEF row
    <2>4. \A f \in Fields : Field(b, t, row, f) = v[f]
      BY <2>1, <2>3
    <2> HIDE DEF data
    <2>5. row \in Row
      BY <1>0, <2>1, <2>2 DEF Row
    <2>. QED BY <2>4, <2>5, NoRowAssumption DEF row
  <1>2. CASE b = "surrealdb" /\ t = "views"
    <2>1. row = [id |-> v["id"], parent_id |-> v["parent"], data |-> v]
      BY <1>2 DEF ToRow
    <2>2. \A f \in Fields : Field(b, t, row, f) = row.data[f]
      BY <1>2 DEF Field
    <2> HIDE DEF row
    <2>3. row \in Row
      BY <1>0, <2>1 DEF Row
    <2>. QED BY <2>1, <2>2, <2>3, NoRowAssumption DEF row
  <1>3. CASE b = "mongodb" /\ t = "views"
    <2>1. row = [document |-> v]
      BY <1>3 DEF ToRow
    <2>2. \A f \in Fields : Field(b, t, row, f) = row.document[f]
      BY <1>3 DEF Field
    <2> HIDE DEF row
    <2>3. row \in Row
      BY <2>1 DEF Row
    <2>. QED BY <2>1, <2>2, <2>3, NoRowAssumption DEF row
  <1>4. CASE b # "mongodb" /\ t = "snapshots"
    <2>1. row = [aggregate_id |-> v["id"], data |-> v]
      BY <1>4 DEF ToRow
    <2>2. \A f \in Fields : Field(b, t, row, f) = row.data[f]
      BY <1>4 DEF Field
    <2> HIDE DEF row
    <2>3. row \in Row
      BY <1>0, <2>1 DEF Row
    <2>. QED BY <2>1, <2>2, <2>3, NoRowAssumption DEF row
  <1>5. CASE b = "mongodb" /\ t = "snapshots"
    <2>1. row = [_id |-> v["id"], state |-> v]
      BY <1>5 DEF ToRow
    <2>2. \A f \in Fields : Field(b, t, row, f) = row.state[f]
      BY <1>5 DEF Field
    <2> HIDE DEF row
    <2>3. row \in Row
      BY <1>0, <2>1 DEF Row
    <2>. QED BY <2>1, <2>2, <2>3, NoRowAssumption DEF row
  <1>. QED BY <1>1, <1>2, <1>3, <1>4, <1>5 DEF Backends, Tables

(* Reading a parameter leaves counts that are counts.                      *)
LEMMA ReadPairKeeps ==
  ASSUME NEW r, Counts(r), NEW fields, NEW pair \in Pair
  PROVE  Counts(ReadPair(r, fields, pair))
  <1>1. Counts(Reject(r))
    BY DEF Counts, Reject
  <1>2. CASE pair.key = "sort"
    <2>1. ReadPair(r, fields, pair) = [r EXCEPT !.sort = pair.value]
      BY <1>2 DEF ReadPair, ReservedParams, CountParams
    <2>. QED BY <2>1 DEF Counts
  <1>3. CASE pair.key # "sort" /\ pair.key \in ReservedParams /\ pair.value = Empty
    <2>1. ReadPair(r, fields, pair) = r
      BY <1>3 DEF ReadPair
    <2>. QED BY <2>1
  <1>4. CASE pair.key = "_q" /\ pair.value # Empty
    <2>1. ReadPair(r, fields, pair) = ParseQ(r, fields, pair.value)
      BY <1>4 DEF ReadPair, ReservedParams, CountParams
    <2>2. \/ ParseQ(r, fields, pair.value) = [r EXCEPT !.q = pair.value.any]
          \/ ParseQ(r, fields, pair.value) = Reject(r)
      BY DEF ParseQ
    <2>. QED BY <1>1, <2>1, <2>2 DEF Counts
  <1>5. CASE pair.key \in CountParams /\ pair.value # Empty
    <2> DEFINE slot == IF pair.key = "pageSize" THEN "page_size" ELSE pair.key
               n == pair.value.n
    <2>1. ReadPair(r, fields, pair) = ParseCount(r, pair.key, pair.value)
      BY <1>5 DEF ReadPair, CountParams
    <2>2. CASE pair.value.kind = "number" /\ n >= Minimum(pair.key) /\ n <= MaxI64
      <3>1. n \in Int
        BY <2>2 DEF Pair, Value
      <3>2. ParseCount(r, pair.key, pair.value) = [r EXCEPT ![slot] = n]
        BY <2>2 DEF ParseCount
      <3>3. /\ slot \in {"skip", "limit", "page", "page_size"}
            /\ slot \in {"skip", "page"} => n \in Nat
            /\ slot \in {"limit", "page_size"} => n \in Nat \ {0}
        BY <1>5, <2>2, <3>1 DEF CountParams, Minimum
      <3> HIDE DEF slot, n
      <3>. QED BY <2>1, <3>2, <3>3 DEF Counts
    <2>3. CASE ~ (pair.value.kind = "number" /\ n >= Minimum(pair.key) /\ n <= MaxI64)
      <3>1. ParseCount(r, pair.key, pair.value) = Reject(r)
        BY <2>3 DEF ParseCount
      <3>. QED BY <1>1, <2>1, <3>1
    <2>. QED BY <2>2, <2>3
  <1>6. CASE pair.key \notin ReservedParams
    <2>1. ReadPair(r, fields, pair) = [r EXCEPT !.rest = Append(@, pair)]
      BY <1>6 DEF ReadPair, ReservedParams, CountParams
    <2>. QED BY <2>1 DEF Counts
  <1>. QED BY <1>2, <1>3, <1>4, <1>5, <1>6 DEF ReservedParams

(* A window of counts is what every backend takes it for.                  *)
LEMMA WindowIs ==
  ASSUME NEW r, Counts(r), NEW b \in Backends
  PROVE  LET w == Pagination(r)
             limit == Or(w.limit, DefaultLimit)
         IN  /\ w.skip \in Nat /\ limit \in Nat \ {0}
             /\ Window(b, w) = [skip |-> w.skip, limit |-> limit]
  <1> DEFINE w == Pagination(r)
             limit == Or(w.limit, DefaultLimit)
  <1>1. w.skip \in Nat /\ w.limit \in (Nat \ {0}) \cup {None}
    <2>1. CASE r.limit # None \/ r.skip # None \/ r.page_size = None
      <3>1. w = [skip |-> Or(r.skip, 0), limit |-> r.limit]
        BY <2>1 DEF Pagination
      <3>. QED BY <3>1 DEF Or, Counts
    <2>2. CASE ~ (r.limit # None \/ r.skip # None \/ r.page_size = None)
      <3> DEFINE first == Or(r.page, 0) * r.page_size
      <3>1. w = [skip |-> IF first > MaxI64 THEN MaxI64 ELSE first,
                 limit |-> r.page_size]
        BY <2>2 DEF Pagination
      <3>2. Or(r.page, 0) \in Nat /\ r.page_size \in Nat
        BY <2>2 DEF Or, Counts
      <3>3. first \in Nat
        BY <3>2
      <3> HIDE DEF first
      <3>. QED BY <3>1, <3>3, CodexAssumption DEF Counts
    <2>. QED BY <2>1, <2>2
  <1>2. limit \in Nat \ {0}
    BY <1>1, DefaultLimitAssumption DEF Or
  <1> HIDE DEF w
  <1>3. Window(b, w) = [skip |-> w.skip, limit |-> limit]
    BY <1>1, <1>2 DEF Window, Backends
  <1>. QED BY <1>1, <1>2, <1>3 DEF w

LEMMA PositionsAre ==
  ASSUME NEW b \in Backends, NEW skip \in Nat, NEW limit \in Nat \ {0}, NEW n \in Nat
  PROVE  Positions(b, [skip |-> skip, limit |-> limit], n)
           = {i \in 1..n : skip + 1 <= i /\ i < skip + 1 + limit}
  BY DEF Positions

LEMMA WindowIsPlain ==
  ASSUME NEW r, Counts(r), NEW b \in Backends, NEW n \in Nat
  PROVE  LET w == Pagination(r)
             limit == Or(w.limit, DefaultLimit)
         IN  Positions(b, Window(b, w), n)
               = {i \in 1..n : w.skip + 1 <= i /\ i < w.skip + 1 + limit}
  <1> DEFINE skip == Pagination(r).skip
             limit == Or(Pagination(r).limit, DefaultLimit)
  <1>1. /\ skip \in Nat /\ limit \in Nat \ {0}
        /\ Window(b, Pagination(r)) = [skip |-> skip, limit |-> limit]
    BY WindowIs
  <1> HIDE DEF skip, limit
  <1>2. Positions(b, Window(b, Pagination(r)), n)
          = {i \in 1..n : skip + 1 <= i /\ i < skip + 1 + limit}
    BY <1>1, PositionsAre
  <1>. QED BY <1>2 DEF skip, limit

-----------------------------------------------------------------------------
LEMMA ReadsBegin == Init => ReadsInv
  <1> SUFFICES ASSUME Init PROVE ReadsInv
    OBVIOUS
  <1>1. saved \in [ViewIds -> Views \cup {NoRow}]
    <2>1. PICK there \in Stored :
            saved = [id \in ViewIds |->
              IF \E v \in there : v["id"] = id
                THEN CHOOSE v \in there : v["id"] = id
                ELSE NoRow]
      BY DEF Init
    <2>2. ASSUME NEW id \in ViewIds
          PROVE  saved[id] \in Views \cup {NoRow}
      <3>1. CASE \E v \in there : v["id"] = id
        <4>1. (CHOOSE v \in there : v["id"] = id) \in there
          BY <3>1
        <4>. QED BY <2>1, <3>1, <4>1 DEF Views
      <3>2. CASE ~ \E v \in there : v["id"] = id
        BY <2>1, <3>2
      <3>. QED BY <3>1, <3>2
    <2>. QED BY <2>1, <2>2
  <1>2. RowsAreSaved
    <2>1. /\ backend \in Backends /\ view \in ViewTypes
          /\ rows = [id \in ViewIds |-> IF saved[id] = NoRow THEN NoRow
                                       ELSE ToRow(backend, view.table, saved[id])]
          /\ ever = [id \in ViewIds |-> {saved[id]} \ {NoRow}]
      BY DEF Init
    <2>2. ASSUME NEW id \in ViewIds, saved[id] # NoRow
          PROVE  RowOf(id)
      <3>1. saved[id] \in ViewOf
        BY <1>1, <2>2, ViewsAssumption
      <3>2. rows[id] = ToRow(backend, view.table, saved[id])
        BY <2>1, <2>2
      <3>3. saved[id] \in ever[id]
        BY <2>1, <2>2
      <3>. QED BY <3>1, <3>2, <3>3 DEF RowOf, KeptFrom
    <2>3. \A id \in ViewIds : saved[id] = NoRow => rows[id] = NoRow
      BY <2>1
    <2>. QED BY <1>1, <2>1, <2>2, <2>3 DEF RowsAreSaved
  <1>3. request \in Seq(Pair) /\ pairs \in Seq(Pair)
    BY ReadsAssumption DEF Init
  <1>4. Counts(x)
    BY DEF Init, Blank, Counts
  <1>. QED BY <1>2, <1>3, <1>4 DEF ReadsInv, ParamsAreCounts

(* A record with its value replaced is of the same records.               *)
LEMMA RecordIsOf ==
  ASSUME NEW S, NEW T, NEW pair \in [key : S, value : T], NEW v \in T
  PROVE  [key |-> pair.key, value |-> v] \in [key : S, value : T]
  OBVIOUS

(* The steps of a request.                                                 *)
LEMMA RequestKeeps ==
  ASSUME ReadsInv,
         \/ ReadParam \/ ReadPlainParams \/ CheckParams \/ CountRows
         \/ SelectRows \/ StatementFails \/ NextPage \/ FindOne
  PROVE  ReadsInv'
  <1>1. UNCHANGED tableVars
    BY DEF ReadParam, ReadPlainParams, CheckParams, CountRows, SelectRows,
           StatementFails, NextPage, FindOne
  <1>2. RowsAreSaved'
    BY <1>1 DEF ReadsInv, RowsAreSaved, RowOf, Merges, tableVars
  <1>3. request \in Seq(Pair) /\ pairs \in Seq(Pair) /\ Counts(x)
    BY DEF ReadsInv, ParamsAreCounts
  <1>4. CASE ReadParam
    <2>1. /\ request' = request /\ pairs # <<>> /\ pairs' = Tail(pairs)
          /\ x' = ReadPair(x, view.fields, Head(pairs))
      BY <1>4 DEF ReadParam
    <2>2. Head(pairs) \in Pair /\ pairs' \in Seq(Pair)
      BY <1>3, <2>1, HeadTailProperties
    <2>3. Counts(ReadPair(x, view.fields, Head(pairs)))
      BY <1>3, <2>2, ReadPairKeeps
    <2>. QED BY <1>2, <1>3, <2>1, <2>2, <2>3 DEF ReadsInv, ParamsAreCounts, Counts
  <1>5. CASE ReadPlainParams
    <2>1. request' = request /\ pairs' = <<>> /\ x' = [x EXCEPT !.rest = pairs]
      BY <1>5 DEF ReadPlainParams
    <2>2. Counts([x EXCEPT !.rest = pairs])
      BY <1>3 DEF Counts
    <2>. QED BY <1>2, <1>3, <2>1, <2>2, EmptySeq DEF ReadsInv, ParamsAreCounts, Counts
  <1>6. CASE NextPage
    <2>1. /\ request' = request /\ x' = Blank /\ x.page # None
          /\ pairs' = [i \in DOMAIN request |->
               IF request[i].key = "page"
                 THEN [key |-> "page", value |-> Number(x.page + 1)]
                 ELSE request[i]]
      BY <1>6 DEF NextPage
    <2>2. ASSUME NEW pair \in Pair, pair.key = "page"
          PROVE  [key |-> "page", value |-> Number(x.page + 1)] \in Pair
      <3> DEFINE value == Number(x.page + 1)
      <3>1. x.page + 1 \in Int
        BY <1>3, <2>1 DEF Counts
      <3>2. value \in [kind : {"number"}, n : Int]
        BY <3>1 DEF Number
      <3>3. value \in Value
        BY <3>2 DEF Value
      <3> HIDE DEF value
      <3>4. [key |-> pair.key, value |-> value] \in Pair
        BY <2>2, <3>3, RecordIsOf DEF Pair
      <3>. QED BY <2>2, <3>4 DEF value
    <2>3. DOMAIN request = 1..Len(request) /\ Len(request) \in Nat
      BY <1>3, LenProperties
    <2>4. \A i \in 1..Len(request) : request[i] \in Pair
      BY <1>3, ElementOfSeq
    <2>5. pairs' \in [1..Len(request) -> Pair]
      BY <2>1, <2>2, <2>3, <2>4
    <2>6. pairs' \in Seq(Pair)
      BY <2>3, <2>5
    <2>7. Counts(Blank)
      BY DEF Counts, Blank
    <2>. QED BY <1>2, <1>3, <2>1, <2>6, <2>7 DEF ReadsInv, ParamsAreCounts, Counts
  <1>7. CASE \/ CheckParams \/ CountRows \/ SelectRows \/ StatementFails \/ FindOne
    <2>1. UNCHANGED <<request, pairs, x>>
      BY <1>7 DEF CheckParams, CountRows, SelectRows, StatementFails, FindOne
    <2>. QED BY <1>2, <1>3, <2>1 DEF ReadsInv, ParamsAreCounts, Counts
  <1>. QED BY <1>4, <1>5, <1>6, <1>7

(* A save leaves a row that is one of the views saved.                     *)
LEMMA UpsertIs ==
  ASSUME NEW b \in Backends, NEW t \in Tables, NEW row, NEW v \in ViewOf,
         NEW last, NEW all, NEW merges, merges <=> (b = "mongodb" /\ t = "views"),
         row # NoRow =>
           \E held \in ViewOf :
             row = ToRow(b, t, held)
               /\ KeptFrom(merges, held, last, all)
  PROVE  \E held \in ViewOf :
           Upsert(b, t, row, v) = ToRow(b, t, held)
             /\ KeptFrom(merges, held, v, all \cup {v})
  <1>1. CASE b = "mongodb" /\ t = "views" /\ row # NoRow
    <2>1. PICK old \in ViewOf :
            row = ToRow(b, t, old)
              /\ KeptFrom(merges, old, last, all)
      BY <1>1
    <2> DEFINE held == [f \in Fields |-> IF v[f] = Absent THEN old[f] ELSE v[f]]
    <2>2. row.document = old
      BY <1>1, <2>1 DEF ToRow
    <2>3. Upsert(b, t, row, v) = [document |-> held]
      BY <1>1, <2>2 DEF Upsert
    <2>4. held \in ViewOf
      <3>1. old \in [Fields -> Int \cup {Absent}] /\ v \in [Fields -> Int \cup {Absent}]
        BY DEF ViewOf
      <3>2. \A f \in Required : f \in Fields /\ v[f] \in Int /\ v[f] # Absent
        BY AbsentAssumption DEF ViewOf, Required, Fields
      <3>. QED BY <3>1, <3>2 DEF ViewOf
    <2>5. KeptFrom(merges, held, v, all \cup {v})
      BY <1>1, <2>1 DEF KeptFrom
    <2> HIDE DEF held
    <2>6. ToRow(b, t, held) = [document |-> held]
      BY <1>1 DEF ToRow
    <2>. QED BY <2>3, <2>4, <2>5, <2>6
  <1>2. CASE ~ (b = "mongodb" /\ t = "views" /\ row # NoRow)
    <2>1. Upsert(b, t, row, v) = ToRow(b, t, v)
      BY <1>2 DEF Upsert
    <2>2. KeptFrom(merges, v, v, all \cup {v})
      BY DEF KeptFrom
    <2>. QED BY <2>1, <2>2
  <1>. QED BY <1>1, <1>2

LEMMA SaveKeeps ==
  ASSUME ReadsInv, Save
  PROVE  ReadsInv'
  <1>1. PICK v \in Contents :
          /\ rows' = [rows EXCEPT ![v["id"]] = Upsert(backend, view.table, @, v)]
          /\ saved' = [saved EXCEPT ![v["id"]] = v]
          /\ ever' = [ever EXCEPT ![v["id"]] = @ \cup {v}]
    BY DEF Save
  <1>2. v \in Views /\ v \in ViewOf /\ v["id"] \in ViewIds /\ v # NoRow
    BY ViewsAssumption, NoRowAssumption DEF Views
  <1>3. UNCHANGED <<backend, view, request, pairs, x>>
    BY DEF Save, requestVars
  <1> DEFINE k == v["id"]
  <1>4. /\ backend \in Backends /\ view \in ViewTypes /\ view.table \in Tables
        /\ saved \in [ViewIds -> Views \cup {NoRow}]
        /\ DOMAIN rows = ViewIds /\ DOMAIN ever = ViewIds
        /\ \A id \in ViewIds :
             IF saved[id] = NoRow THEN rows[id] = NoRow ELSE RowOf(id)
    BY ReadsAssumption DEF ReadsInv, RowsAreSaved, ViewType
  <1>5. saved' \in [ViewIds -> Views \cup {NoRow}]
    BY <1>1, <1>2, <1>4
  <1>6. /\ k \in ViewIds
        /\ rows'[k] = Upsert(backend, view.table, rows[k], v)
        /\ saved'[k] = v /\ ever'[k] = ever[k] \cup {v}
        /\ DOMAIN rows' = ViewIds /\ DOMAIN ever' = ViewIds
        /\ \A id \in ViewIds \ {k} :
             rows'[id] = rows[id] /\ saved'[id] = saved[id] /\ ever'[id] = ever[id]
    BY <1>1, <1>2, <1>4
  <1> HIDE DEF k
  <1>7. RowOf(k)'
    <2>1. rows[k] # NoRow =>
            \E held \in ViewOf :
              /\ rows[k] = ToRow(backend, view.table, held)
              /\ KeptFrom(Merges, held, saved[k], ever[k])
      BY <1>4, <1>6 DEF RowOf
    <2>2. \E held \in ViewOf :
            /\ Upsert(backend, view.table, rows[k], v) = ToRow(backend, view.table, held)
            /\ KeptFrom(Merges, held, v, ever[k] \cup {v})
      <3> DEFINE row == rows[k]
                 last == saved[k]
                 all == ever[k]
                 merges == Merges
                 t == view.table
      <3>1. /\ merges <=> (backend = "mongodb" /\ t = "views")
            /\ backend \in Backends /\ t \in Tables /\ v \in ViewOf
            /\ row # NoRow =>
                 \E held \in ViewOf :
                   row = ToRow(backend, t, held) /\ KeptFrom(merges, held, last, all)
        BY <1>2, <1>4, <2>1 DEF Merges
      <3> HIDE DEF row, last, all, merges, t
      <3>2. \E held \in ViewOf :
              /\ Upsert(backend, t, row, v) = ToRow(backend, t, held)
              /\ KeptFrom(merges, held, v, all \cup {v})
        BY ONLY <3>1, UpsertIs
      <3>. QED BY <3>2 DEF row, last, all, merges, t
    <2>. QED BY <1>3, <1>6, <2>2 DEF RowOf, Merges
  <1>8. ASSUME NEW id \in ViewIds, id # k
        PROVE  IF saved'[id] = NoRow THEN rows'[id] = NoRow ELSE RowOf(id)'
    BY <1>3, <1>4, <1>6, <1>8 DEF RowOf, Merges
  <1>9. RowsAreSaved'
    BY <1>2, <1>3, <1>4, <1>5, <1>6, <1>7, <1>8 DEF RowsAreSaved
  <1>. QED BY <1>3, <1>9 DEF ReadsInv, ParamsAreCounts, Counts

LEMMA ReadsIsInductive == Spec => []ReadsInv
  <1>1. ReadsInv /\ [Next]_vars => ReadsInv'
    <2>1. ReadsInv /\ UNCHANGED vars => ReadsInv'
      BY DEF vars, requestVars, tableVars, ReadsInv, RowsAreSaved, RowOf, Merges,
             ParamsAreCounts, Counts
    <2>. QED BY <2>1, RequestKeeps, SaveKeeps DEF Next, Idle
  <1>. QED BY <1>1, ReadsBegin, PTL DEF Spec

(* What is known of a row and of its view type.                            *)
LEMMA RowIs ==
  ASSUME ReadsInv
  PROVE  /\ backend \in Backends /\ view \in ViewTypes /\ view \in ViewType
         /\ view.table \in Tables /\ (view.child => view.table = "views")
         /\ \A id \in ViewIds :
              /\ rows[id] = NoRow <=> saved[id] = NoRow
              /\ saved[id] # NoRow =>
                   /\ Held(id) \in ViewOf
                   /\ rows[id] = ToRow(backend, view.table, Held(id))
                   /\ KeptFrom(Merges, Held(id), saved[id], ever[id])
                   /\ \A f \in Required : Held(id)[f] = saved[id][f]
  <1>1. /\ backend \in Backends /\ view \in ViewTypes
        /\ saved \in [ViewIds -> Views \cup {NoRow}]
        /\ \A id \in ViewIds :
             IF saved[id] = NoRow THEN rows[id] = NoRow ELSE RowOf(id)
    BY DEF ReadsInv, RowsAreSaved
  <1>2. /\ view \in ViewType /\ view.table \in Tables
        /\ (view.child => view.table = "views")
    BY <1>1, ReadsAssumption, ChildAssumption DEF ViewType
  <1>3. ASSUME NEW id \in ViewIds, saved[id] # NoRow
        PROVE  /\ rows[id] # NoRow
               /\ Held(id) \in ViewOf
               /\ rows[id] = ToRow(backend, view.table, Held(id))
               /\ KeptFrom(Merges, Held(id), saved[id], ever[id])
               /\ \A f \in Required : Held(id)[f] = saved[id][f]
    <2>1. PICK held \in ViewOf :
            /\ rows[id] = ToRow(backend, view.table, held)
            /\ KeptFrom(Merges, held, saved[id], ever[id])
      BY <1>1, <1>3 DEF RowOf
    <2>2. rows[id] # NoRow /\ Held(id) = held
      BY <1>1, <1>2, <2>1, RowRoundTrip, RowOfView DEF Held
    <2>3. saved[id] \in ViewOf
      BY <1>1, <1>3, ViewsAssumption
    <2>4. \A f \in Required : f \in Fields /\ saved[id][f] # Absent
      BY <2>3, AbsentAssumption DEF ViewOf, Required, Fields
    <2>5. \A f \in Required : held[f] = saved[id][f]
      BY <2>1, <2>4 DEF KeptFrom
    <2>. QED BY <2>1, <2>2, <2>5
  <1>. QED BY <1>1, <1>2, <1>3

(* What is found is the view last saved, below its own parent only; a view *)
(* in MongoDB may hold what an earlier one said of a field it left out.    *)
THEOREM FoundIsSaved == Spec => []FoundIsLastSaved
  <1>1. ReadsInv => FoundIsLastSaved
    <2> SUFFICES ASSUME ReadsInv, NEW id \in ViewIds, NEW p \in Parents
                 PROVE  IF saved[id] = NoRow \/ (view.child /\ saved[id]["parent"] # p)
                          THEN Find(id, p) = NoRow
                          ELSE Find(id, p) # NoRow /\ \A f \in Fields :
                                 \/ Find(id, p)[f] = saved[id][f]
                                 \/ /\ backend = "mongodb" /\ view.table = "views"
                                    /\ saved[id][f] = Absent
                                    /\ \E v \in ever[id] : Find(id, p)[f] = v[f]
      BY DEF FoundIsLastSaved
    <2>1. /\ backend \in Backends /\ view.table \in Tables
          /\ view.child => view.table = "views"
          /\ rows[id] = NoRow <=> saved[id] = NoRow
      BY RowIs
    <2>2. CASE saved[id] = NoRow
      BY <2>1, <2>2 DEF Find
    <2>3. CASE saved[id] # NoRow
      <3>1. /\ Held(id) \in ViewOf
            /\ rows[id] = ToRow(backend, view.table, Held(id))
            /\ KeptFrom(Merges, Held(id), saved[id], ever[id])
            /\ Held(id)["parent"] = saved[id]["parent"]
        BY <2>3, RowIs DEF Required
      <3>2. view.child => ParentField(backend, rows[id]) = saved[id]["parent"]
        BY <2>1, <3>1, RowRoundTrip
      <3>3. CASE view.child /\ saved[id]["parent"] # p
        BY <3>2, <3>3 DEF Find
      <3>4. CASE ~ (view.child /\ saved[id]["parent"] # p)
        <4>1. Find(id, p) = Held(id)
          BY <2>1, <2>3, <3>2, <3>4 DEF Find, Held
        <4>2. Held(id) # NoRow
          BY <3>1, NoRowAssumption
        <4>. QED BY <2>3, <3>1, <3>4, <4>1, <4>2 DEF KeptFrom, Merges
      <3>. QED BY <3>3, <3>4
    <2>. QED BY <2>2, <2>3
  <1>. QED BY <1>1, ReadsIsInductive, PTL

(* Every backend shows the same positions of any listing.                  *)
THEOREM WindowsAgree == Spec => []BackendsAgree
  <1>1. ReadsInv => BackendsAgree
    <2> SUFFICES ASSUME ReadsInv, NEW b \in Backends,
                        NEW n \in 0..Cardinality(ViewIds)
                 PROVE  Positions(b, Window(b, Pagination(x)), n)
                          = Positions(backend, Window(backend, Pagination(x)), n)
      BY DEF BackendsAgree, PageWindow
    <2>1. n \in Nat /\ backend \in Backends /\ Counts(x)
      BY DEF ReadsInv, RowsAreSaved, ParamsAreCounts
    <2>. QED BY <2>1, WindowIsPlain
  <1>. QED BY <1>1, ReadsIsInductive, PTL

-----------------------------------------------------------------------------
(* Pages. *)

(* What a request has gathered, as its route lets it: on the codex route   *)
(* the filter names fields of the query and the rest no parameter of the   *)
(* convention; on the plain route there are typed parameters only.         *)
Gathered(r, v) ==
  /\ r.rest \in Seq(Pair)
  /\ r.sort \in Value \cup {None}
  /\ r.q # None =>
       /\ v.route = "codex"
       /\ r.q \in SUBSET SUBSET (STRING \X Int)
       /\ FieldsOf(r.q) \subseteq Filterable(v.fields)
  /\ v.route = "codex" =>
       \A i \in DOMAIN r.rest : r.rest[i].key \notin ReservedParams
  /\ v.route = "plain" => r.page = None /\ r.sort = None

(* What a query is known to be once its checks are passed.                 *)
Checked(r, v) ==
  /\ PageFits(r)
  /\ Deserializes(v.fields, r.rest)
  /\ CheckSortFields(r, v.sortable)

(* A table is never more than was there at first and what was saved.       *)
FewRows == IsFiniteSet({id \in ViewIds : saved[id] # NoRow})

PagesInv ==
  /\ ReadsInv
  /\ Gathered(x, view)
  /\ pc \in {"count", "select"} => Checked(x, view)
  /\ FewRows
  /\ pc = "select" /\ steady => total = Cardinality(Selected)
  /\ PageIsWhatWasAsked
  /\ OnlyOwnMatchingViews

-----------------------------------------------------------------------------
(* Reading a parameter keeps what was gathered within the query.           *)
LEMMA ReadPairGathers ==
  ASSUME NEW v, v.route = "codex", NEW r, Counts(r), Gathered(r, v), NEW pair \in Pair
  PROVE  Gathered(ReadPair(r, v.fields, pair), v)
  <1>0. DOMAIN r = {"rejected", "q", "skip", "limit", "page", "page_size", "sort", "rest"}
    BY DEF Counts
  <1>1. ASSUME NEW e, e.rest = r.rest, e.sort = r.sort, e.q = r.q
        PROVE  Gathered(e, v)
    BY <1>1 DEF Gathered
  <1>2. Gathered(Reject(r), v)
    <2>1. Reject(r).rest = r.rest /\ Reject(r).sort = r.sort /\ Reject(r).q = r.q
      BY <1>0 DEF Reject
    <2>. QED BY <1>1, <2>1
  <1>3. CASE pair.key = "sort"
    <2> DEFINE e == [r EXCEPT !.sort = pair.value]
    <2>1. ReadPair(r, v.fields, pair) = e
      BY <1>3 DEF ReadPair, ReservedParams, CountParams
    <2>2. e.rest = r.rest /\ e.sort = pair.value /\ e.q = r.q
      BY <1>0
    <2>3. pair.value \in Value
      BY DEF Pair
    <2> HIDE DEF e
    <2>4. Gathered(e, v)
      BY <2>2, <2>3 DEF Gathered
    <2>. QED BY <2>1, <2>4
  <1>4. CASE pair.key # "sort" /\ pair.key \in ReservedParams /\ pair.value = Empty
    <2>1. ReadPair(r, v.fields, pair) = r
      BY <1>4 DEF ReadPair
    <2>. QED BY <2>1
  <1>5. CASE pair.key = "_q" /\ pair.value # Empty
    <2> DEFINE value == pair.value
               e == [r EXCEPT !.q = value.any]
    <2>1. ReadPair(r, v.fields, pair) = ParseQ(r, v.fields, value)
      BY <1>5 DEF ReadPair, ReservedParams, CountParams
    <2>2. CASE /\ value.kind = "rsql"
               /\ Filterable(v.fields) # {}
               /\ FieldsOf(value.any) \subseteq Filterable(v.fields)
      <3>1. ParseQ(r, v.fields, value) = e
        BY <2>2 DEF ParseQ
      <3>2. e.rest = r.rest /\ e.sort = r.sort /\ e.q = value.any
        BY <1>0
      <3>3. value \in Value
        BY DEF Pair
      <3>4. value.any \in SUBSET SUBSET (STRING \X Int)
        BY <2>2, <3>3 DEF Value
      <3> HIDE DEF e, value
      <3>5. Gathered(e, v)
        BY <2>2, <3>2, <3>4 DEF Gathered
      <3>. QED BY <2>1, <3>1, <3>5
    <2>3. CASE ~ /\ value.kind = "rsql"
                 /\ Filterable(v.fields) # {}
                 /\ FieldsOf(value.any) \subseteq Filterable(v.fields)
      <3>1. ParseQ(r, v.fields, value) = Reject(r)
        BY <2>3 DEF ParseQ
      <3>. QED BY <1>2, <2>1, <3>1
    <2>. QED BY <2>2, <2>3
  <1>6. CASE pair.key \in CountParams /\ pair.value # Empty
    <2> DEFINE slot == IF pair.key = "pageSize" THEN "page_size" ELSE pair.key
               e == [r EXCEPT ![slot] = pair.value.n]
    <2>1. ReadPair(r, v.fields, pair) = ParseCount(r, pair.key, pair.value)
      BY <1>6 DEF ReadPair, CountParams
    <2>2. \/ ParseCount(r, pair.key, pair.value) = e
          \/ ParseCount(r, pair.key, pair.value) = Reject(r)
      BY DEF ParseCount
    <2>3. slot \in {"skip", "limit", "page", "page_size"}
      BY <1>6 DEF CountParams
    <2> HIDE DEF slot
    <2>4. e.rest = r.rest /\ e.sort = r.sort /\ e.q = r.q
      BY <1>0, <2>3
    <2> HIDE DEF e
    <2>. QED BY <1>1, <1>2, <2>1, <2>2, <2>4
  <1>7. CASE pair.key \notin ReservedParams
    <2> DEFINE rest == Append(r.rest, pair)
               e == [r EXCEPT !.rest = Append(@, pair)]
    <2>1. ReadPair(r, v.fields, pair) = e
      BY <1>7 DEF ReadPair, ReservedParams, CountParams
    <2>2. e.rest = rest /\ e.sort = r.sort /\ e.q = r.q
      BY <1>0
    <2> DEFINE old == r.rest
    <2>3. old \in Seq(Pair) /\ \A i \in DOMAIN old : old[i].key \notin ReservedParams
      BY DEF Gathered
    <2> HIDE DEF old
    <2>4. /\ Append(old, pair) \in Seq(Pair)
          /\ \A i \in DOMAIN Append(old, pair) :
               Append(old, pair)[i].key \notin ReservedParams
      BY <1>7, <2>3, AppendProperties
    <2>5. /\ rest \in Seq(Pair)
          /\ \A i \in DOMAIN rest : rest[i].key \notin ReservedParams
      BY <2>4 DEF old
    <2> HIDE DEF e, rest
    <2>6. Gathered(e, v)
      BY <2>2, <2>5 DEF Gathered
    <2>. QED BY <2>1, <2>6
  <1>. QED BY <1>3, <1>4, <1>5, <1>6, <1>7 DEF ReservedParams

(* A filter constrains fields of the query type, and those a view has.     *)
LEMMA ConstraintFields ==
  ASSUME NEW v \in ViewTypes, NEW r, Gathered(r, v),
         NEW a \in FilterOf(r, v.fields), NEW c \in a
  PROVE  c[1] \in v.fields /\ c[1] \in Required
  <1> DEFINE typed == Typed(v.fields, r.rest)
  <1>0. v.route \in {"codex", "plain"}
    BY ReadsAssumption DEF ViewType
  <1>1. PICK alternative \in Or(r.q, {{}}) : a = alternative \cup typed
    BY DEF FilterOf
  <1>2. CASE c \in typed
    <2>1. PICK i \in DOMAIN r.rest :
            r.rest[i].key \in v.fields /\ c = <<r.rest[i].key, r.rest[i].value.n>>
      BY <1>2 DEF Typed
    <2>2. c[1] = r.rest[i].key
      BY <2>1
    <2>3. v.route = "codex" => r.rest[i].key \notin ReservedParams
      BY DEF Gathered
    <2>4. IF v.route = "codex" THEN Filterable(v.fields) \subseteq Required
                               ELSE v.fields \subseteq Required
      BY FieldsAssumption DEF Filterable
    <2>. QED BY <2>1, <2>2, <2>3, <2>4 DEF Filterable
  <1>3. CASE c \notin typed
    <2>1. c \in alternative
      BY <1>1, <1>3
    <2>2. r.q # None /\ alternative \in r.q
      BY <1>1, <2>1 DEF Or
    <2>3. c[1] \in FieldsOf(r.q)
      BY <2>1, <2>2 DEF FieldsOf
    <2>4. v.route = "codex" /\ FieldsOf(r.q) \subseteq Filterable(v.fields)
      BY <2>2 DEF Gathered
    <2>5. Filterable(v.fields) \subseteq Required
      BY <2>4, FieldsAssumption DEF Filterable
    <2>. QED BY <2>3, <2>4, <2>5 DEF Filterable
  <1>. QED BY <1>2, <1>3

(* An order is by fields the view type sorts by, and those a view has.     *)
LEMMA SortFields ==
  ASSUME NEW v \in ViewTypes, NEW r, Gathered(r, v), CheckSortFields(r, v.sortable),
         NEW k \in DOMAIN SortOf(r, v.defaultSort)
  PROVE  LET order == SortOf(r, v.defaultSort)
         IN  /\ DOMAIN order = 1..Len(order) /\ Len(order) \in Nat
             /\ order[k].field \in Required
             /\ \/ order[k].field \in v.sortable
                \/ order[k].field \in {v.defaultSort[m].field : m \in DOMAIN v.defaultSort}
  <1> DEFINE order == SortOf(r, v.defaultSort)
  <1>0. /\ v.defaultSort \in Seq([field : Required, desc : BOOLEAN])
        /\ v.sortable \subseteq Required
    BY ReadsAssumption DEF ViewType
  <1>1. CASE r.sort \in {None, Empty}
    <2>1. order = v.defaultSort
      BY <1>1 DEF SortOf
    <2> DEFINE d == v.defaultSort
    <2>2. d \in Seq([field : Required, desc : BOOLEAN])
      BY <1>0
    <2> HIDE DEF d
    <2>3. DOMAIN d = 1..Len(d) /\ Len(d) \in Nat
      BY <2>2, LenProperties
    <2>4. k \in 1..Len(d)
      BY <2>1, <2>3 DEF d
    <2>5. d[k] \in [field : Required, desc : BOOLEAN]
      BY <2>2, <2>4, ElementOfSeq
    <2>. QED BY <2>1, <2>3, <2>4, <2>5 DEF d
  <1>2. CASE r.sort \notin {None, Empty}
    <2>1. order = r.sort.by
      BY <1>2 DEF SortOf
    <2>2. /\ r.sort.kind = "sort"
          /\ \A i \in DOMAIN r.sort.by : r.sort.by[i].field \in v.sortable
      BY <1>2 DEF CheckSortFields
    <2>3. r.sort \in Value
      BY <1>2 DEF Gathered
    <2>4. r.sort.by \in Seq([field : STRING, desc : BOOLEAN])
      BY <2>2, <2>3 DEF Value
    <2> HIDE DEF order
    <2>5. DOMAIN order = 1..Len(order) /\ Len(order) \in Nat
      BY <2>1, <2>4, LenProperties
    <2>. QED BY <1>0, <2>1, <2>2, <2>5 DEF order
  <1>. QED BY <1>1, <1>2

-----------------------------------------------------------------------------
(* Tables whose rows have the same parents, and the same in every field a  *)
(* filter constrains, give the same rows.                                  *)
LEMMA SameMatching ==
  ASSUME NEW b, NEW t, NEW here, NEW there, NEW alternatives, NEW child, NEW p,
         \A id \in ViewIds : here[id] = NoRow <=> there[id] = NoRow,
         \A id \in ViewIds : here[id] # NoRow =>
           /\ child => ParentField(b, here[id]) = ParentField(b, there[id])
           /\ \A a \in alternatives : \A c \in a :
                Field(b, t, here[id], c[1]) = Field(b, t, there[id], c[1])
  PROVE  Matching(b, t, here, alternatives, child, p)
           = Matching(b, t, there, alternatives, child, p)
  <1> DEFINE holds(table, id, a) == \A c \in a : Field(b, t, table[id], c[1]) = c[2]
             own(table, id) == child => ParentField(b, table[id]) = p
             selected(table) ==
               {id \in ViewIds :
                  /\ table[id] # NoRow
                  /\ \E a \in alternatives : holds(table, id, a)
                  /\ own(table, id)}
  <1>1. ASSUME NEW table
        PROVE  Matching(b, t, table, alternatives, child, p) = selected(table)
    <2>1. ASSUME NEW id \in ViewIds
          PROVE  Where([a \in alternatives |-> holds(table, id, a)], alternatives, own(table, id))
                   <=> (\E a \in alternatives : holds(table, id, a)) /\ own(table, id)
      <3> HIDE DEF holds, own
      <3>. QED BY DEF Where
    <2>2. Matching(b, t, table, alternatives, child, p)
            = {id \in ViewIds :
                 /\ table[id] # NoRow
                 /\ Where([a \in alternatives |-> holds(table, id, a)],
                          alternatives, own(table, id))}
      BY DEF Matching
    <2> HIDE DEF holds, own
    <2>. QED BY <2>1, <2>2
  <1>2. ASSUME NEW id \in ViewIds, here[id] # NoRow
        PROVE  /\ own(here, id) <=> own(there, id)
               /\ \A a \in alternatives : holds(here, id, a) <=> holds(there, id, a)
    BY <1>2
  <1> HIDE DEF holds, own
  <1>3. selected(here) = selected(there)
    BY <1>2
  <1>. QED BY <1>1, <1>3

(* Tables with the same in every field of an order list their rows alike.  *)
LEMMA SameListings ==
  ASSUME NEW b, NEW t, NEW here, NEW there, NEW order, NEW ids,
         DOMAIN order = 1..Len(order), Len(order) \in Nat,
         \A id \in ids, k \in DOMAIN order :
           Field(b, t, here[id], order[k].field) = Field(b, t, there[id], order[k].field)
  PROVE  Listings(b, t, here, order, ids) = Listings(b, t, there, order, ids)
  <1> DEFINE at(table, id, k) == Field(b, t, table[id], order[k].field)
             before(table, i, j) ==
               \E k \in DOMAIN order :
                 /\ \A m \in 1..(k - 1) : at(table, i, m) = at(table, j, m)
                 /\ IF order[k].desc THEN at(table, i, k) > at(table, j, k)
                                     ELSE at(table, i, k) < at(table, j, k)
  <1>1. ASSUME NEW table, NEW i, NEW j
        PROVE  Precedes(b, t, table, order, i, j) <=> before(table, i, j)
    BY DEF Precedes
  <1>2. \A id \in ids, k \in DOMAIN order : at(here, id, k) = at(there, id, k)
    OBVIOUS
  <1> HIDE DEF at
  <1>3. ASSUME NEW i \in ids, NEW j \in ids
        PROVE  before(here, i, j) <=> before(there, i, j)
    <2>1. \A k \in DOMAIN order : \A m \in 1..(k - 1) : m \in DOMAIN order
      OBVIOUS
    <2>. QED BY <1>2, <2>1
  <1> HIDE DEF before
  <1>4. ASSUME NEW i \in ids, NEW j \in ids
        PROVE  Precedes(b, t, here, order, i, j) <=> Precedes(b, t, there, order, i, j)
    BY <1>1, <1>3
  <1>5. ASSUME NEW s \in [1..Cardinality(ids) -> ids]
        PROVE  (\A i, j \in DOMAIN s : i < j =>
                  s[i] # s[j] /\ ~ Precedes(b, t, here, order, s[j], s[i]))
               <=> (\A i, j \in DOMAIN s : i < j =>
                      s[i] # s[j] /\ ~ Precedes(b, t, there, order, s[j], s[i]))
    BY <1>4
  <1>. QED BY <1>5 DEF Listings

(* What a page of a listing holds: rows of it, as many as the window and   *)
(* the rest of the listing allow.                                          *)
LEMMA PageSqlIs ==
  ASSUME NEW b \in Backends, NEW skip \in Nat, NEW limit \in Nat \ {0}, NEW n \in Nat,
         NEW S, NEW listing \in [1..n -> S]
  PROVE  LET ids == PageSql(b, [skip |-> skip, limit |-> limit], listing)
             left == n - skip
             size == CASE left <= 0 -> 0
                       [] left > 0 /\ left <= limit -> left
                       [] OTHER -> limit
         IN  ids \in [1..size -> S] /\ size \in Nat
  <1> DEFINE w == [skip |-> skip, limit |-> limit]
             ids == PageSql(b, w, listing)
             left == n - skip
             size == CASE left <= 0 -> 0
                       [] left > 0 /\ left <= limit -> left
                       [] OTHER -> limit
             at == Positions(b, w, Len(listing))
             before == {i \in DOMAIN listing : i <= w.skip}
             first == Cardinality(before)
  <1>1. Len(listing) = n
    BY LenProperties
  <1>2. at = {i \in 1..n : skip + 1 <= i /\ i < skip + 1 + limit}
    BY <1>1, PositionsAre
  <1>3. ids = [k \in 1..Cardinality(at) |-> listing[first + k]]
    BY DEF PageSql
  <1>4. before = {i \in 1..n : i <= skip}
    OBVIOUS
  <1> HIDE DEF at, before, ids, w
  <1>5. CASE left <= 0
    <2>1. at = (skip + 1)..skip
      BY <1>2, <1>5
    <2>2. Cardinality(at) = 0
      BY <2>1, FS_Interval
    <2>. QED BY <1>3, <1>5, <2>2 DEF ids, w
  <1>6. CASE left > 0
    <2>1. before = 1..skip
      BY <1>4, <1>6
    <2>2. first = skip
      BY <2>1, FS_Interval
    <2>3. at = (skip + 1)..(skip + size) /\ size \in Nat /\ skip + size <= n
      BY <1>2, <1>6
    <2> HIDE DEF size
    <2>4. Cardinality(at) = size
      <3>1. Cardinality((skip + 1)..(skip + size))
              = IF skip + 1 > skip + size THEN 0 ELSE (skip + size) - (skip + 1) + 1
        BY <2>3, FS_Interval
      <3>. QED BY <2>3, <3>1
    <2>5. \A k \in 1..size : skip + k \in 1..n
      BY <2>3
    <2> HIDE DEF first
    <2>6. ids \in [1..size -> S]
      BY <1>3, <2>2, <2>4, <2>5
    <2>. QED BY <2>3, <2>6 DEF ids, w, size
  <1>. QED BY <1>5, <1>6

(* A page number times a size, divided by the size, is the page number.    *)
LEMMA PageOfWindow ==
  ASSUME NEW p \in Nat, NEW s \in Nat \ {0}
  PROVE  (p * s) \div s = p
  <1>1. p * s \in Nat
    OBVIOUS
  <1>. QED BY <1>1

-----------------------------------------------------------------------------
(* What is selected are saved views, each below the parent of the path and *)
(* with what one of the alternatives asks for.                             *)
LEMMA SelectedIs ==
  ASSUME ReadsInv, Gathered(x, view), NEW id \in Selected
  PROVE  /\ id \in ViewIds /\ saved[id] # NoRow
         /\ view.child => Held(id)["parent"] = parent
         /\ \E a \in FilterOf(x, view.fields) : \A c \in a : Held(id)[c[1]] = c[2]
  <1> DEFINE filter == FilterOf(x, view.fields)
             t == view.table
  <1>1. /\ id \in ViewIds /\ rows[id] # NoRow
        /\ Where([a \in filter |->
                    \A c \in a : Field(backend, t, rows[id], c[1]) = c[2]],
                 filter, view.child => ParentField(backend, rows[id]) = parent)
    BY DEF Selected, Matching
  <1>2. /\ \E a \in filter : \A c \in a : Field(backend, t, rows[id], c[1]) = c[2]
        /\ view.child => ParentField(backend, rows[id]) = parent
    BY <1>1 DEF Where
  <1>3. /\ backend \in Backends /\ t \in Tables /\ view \in ViewTypes
        /\ view.child => t = "views"
        /\ saved[id] # NoRow /\ Held(id) \in ViewOf
        /\ rows[id] = ToRow(backend, t, Held(id))
    BY <1>1, RowIs
  <1>4. /\ t = "views" => ParentField(backend, rows[id]) = Held(id)["parent"]
        /\ \A f \in Fields : Field(backend, t, rows[id], f) = Held(id)[f]
    BY <1>3, RowRoundTrip, RowOfView
  <1>5. \A a \in filter : \A c \in a : c[1] \in Fields
    BY <1>3, ConstraintFields DEF Required, Fields
  <1> HIDE DEF filter
  <1>6. \E a \in filter : \A c \in a : Held(id)[c[1]] = c[2]
    BY <1>2, <1>4, <1>5
  <1>. QED BY <1>1, <1>2, <1>3, <1>4, <1>6 DEF filter

(* A view that matches the filter matches an alternative of the caller and *)
(* every typed parameter.                                                  *)
LEMMA FilterMeans ==
  ASSUME NEW fields, NEW r, Deserializes(fields, r.rest), NEW w,
         NEW a \in FilterOf(r, fields), \A c \in a : w[c[1]] = c[2]
  PROVE  /\ \E alternative \in Or(r.q, {{}}) : \A c \in alternative : w[c[1]] = c[2]
         /\ \A k \in DOMAIN r.rest : r.rest[k].key \in fields =>
              w[r.rest[k].key] = r.rest[k].value.n
  <1> DEFINE typed == Typed(fields, r.rest)
  <1>1. PICK alternative \in Or(r.q, {{}}) : a = alternative \cup typed
    BY DEF FilterOf
  <1>2. ASSUME NEW k \in DOMAIN r.rest, r.rest[k].key \in fields
        PROVE  w[r.rest[k].key] = r.rest[k].value.n
    <2>1. r.rest[k].value.kind = "number"
      BY <1>2 DEF Deserializes
    <2>2. <<r.rest[k].key, r.rest[k].value.n>> \in typed
      BY <1>2, <2>1 DEF Typed
    <2>. QED BY <1>1, <2>2
  <1>. QED BY <1>1, <1>2

(* What is selected is finite, and so is its count.                        *)
LEMMA SelectedIsFinite ==
  ASSUME ReadsInv, FewRows
  PROVE  IsFiniteSet(Selected) /\ Cardinality(Selected) \in Nat
  <1> DEFINE there == {id \in ViewIds : saved[id] # NoRow}
  <1>1. Selected \subseteq {id \in ViewIds : rows[id] # NoRow}
    BY DEF Selected, Matching
  <1>2. \A id \in ViewIds : rows[id] = NoRow <=> saved[id] = NoRow
    BY RowIs
  <1>3. Selected \in SUBSET there
    BY <1>1, <1>2
  <1>4. IsFiniteSet(there)
    BY DEF FewRows
  <1>. QED BY <1>3, <1>4, FS_Subset, FS_CardinalityType

-----------------------------------------------------------------------------
LEMMA FewRowsAtFirst ==
  ASSUME Init
  PROVE  FewRows
  <1> DEFINE there == {id \in ViewIds : saved[id] # NoRow}
  <1>1. PICK views \in Stored :
          saved = [id \in ViewIds |->
            IF \E v \in views : v["id"] = id
              THEN CHOOSE v \in views : v["id"] = id
              ELSE NoRow]
    BY DEF Init
  <1>2. ASSUME NEW id \in there
        PROVE  saved[id] \in views /\ saved[id]["id"] = id
    <2>1. \E v \in views : v["id"] = id
      BY <1>1
    <2>2. saved[id] = CHOOSE v \in views : v["id"] = id
      BY <1>1, <2>1
    <2>. QED BY <2>1, <2>2
  <1> DEFINE f == [id \in there |-> saved[id]]
  <1> HIDE DEF there
  <1>3. f \in Injection(there, views)
    BY <1>2 DEF Injection, IsInjective
  <1>4. IsFiniteSet(views)
    BY StoredAssumption
  <1>5. IsFiniteSet(there)
    BY <1>3, <1>4, FS_Injection
  <1>. QED BY <1>5 DEF FewRows, there

LEMMA FewRowsAfterSave ==
  ASSUME ReadsInv, FewRows, Save
  PROVE  FewRows'
  <1>1. PICK v \in Contents : saved' = [saved EXCEPT ![v["id"]] = v]
    BY DEF Save
  <1>2. saved \in [ViewIds -> Views \cup {NoRow}]
    BY DEF ReadsInv, RowsAreSaved
  <1> DEFINE k == v["id"]
             there == {id \in ViewIds : saved[id] # NoRow}
             after == {id \in ViewIds : saved'[id] # NoRow}
  <1>3. after \in SUBSET (there \cup {k})
    BY <1>1, <1>2
  <1>4. IsFiniteSet(there)
    BY DEF FewRows
  <1> HIDE DEF there, k, after
  <1>5. IsFiniteSet(after)
    BY <1>3, <1>4, FS_AddElement, FS_Subset
  <1>. QED BY <1>5 DEF FewRows, after

-----------------------------------------------------------------------------
LEMMA PagesBegin == Init => PagesInv
  <1> SUFFICES ASSUME Init PROVE PagesInv
    OBVIOUS
  <1>1. ReadsInv /\ FewRows
    BY ReadsBegin, FewRowsAtFirst
  <1>2. Gathered(x, view)
    <2>1. /\ x.rest = <<>> /\ x.sort = None /\ x.q = None /\ x.page = None
      BY DEF Init, Blank
    <2>. QED BY <2>1, EmptySeq DEF Gathered
  <1>3. pc = "params"
    BY DEF Init
  <1>. QED BY <1>1, <1>2, <1>3 DEF PagesInv, PageIsWhatWasAsked, OnlyOwnMatchingViews, Listed

(* The steps that read or take back what was gathered.                     *)
LEMMA GatheredStays ==
  ASSUME PagesInv, [Next]_vars
  PROVE  Gathered(x, view)'
  <1>0. Gathered(x, view) /\ Counts(x) /\ pairs \in Seq(Pair) /\ view \in ViewType
    BY RowIs DEF PagesInv, ReadsInv, ParamsAreCounts
  <1>1. CASE ReadParam
    <2>1. /\ view.route = "codex" /\ pairs # <<>> /\ view' = view
          /\ x' = ReadPair(x, view.fields, Head(pairs))
      BY <1>1 DEF ReadParam, tableVars
    <2>2. Head(pairs) \in Pair
      BY <1>0, <2>1, HeadTailProperties
    <2>3. Gathered(ReadPair(x, view.fields, Head(pairs)), view)
      BY <1>0, <2>1, <2>2, ReadPairGathers
    <2>. QED BY <2>1, <2>3
  <1>2. CASE ReadPlainParams
    <2>1. view.route = "plain" /\ view' = view /\ x' = [x EXCEPT !.rest = pairs]
      BY <1>2 DEF ReadPlainParams, tableVars
    <2> DEFINE e == [x EXCEPT !.rest = pairs]
    <2>2. e.rest = pairs /\ e.sort = x.sort /\ e.q = x.q /\ e.page = x.page
      BY <1>0 DEF Counts
    <2> HIDE DEF e
    <2>3. Gathered(e, view)
      BY <1>0, <2>1, <2>2 DEF Gathered
    <2>. QED BY <2>1, <2>3 DEF e
  <1>3. CASE NextPage
    <2>1. x' = Blank /\ view' = view
      BY <1>3 DEF NextPage, tableVars
    <2>2. Blank.rest = <<>> /\ Blank.sort = None /\ Blank.q = None /\ Blank.page = None
      BY DEF Blank
    <2>3. Gathered(Blank, view)
      BY <2>2, EmptySeq DEF Gathered
    <2>. QED BY <2>1, <2>3
  <1>4. CASE \/ CheckParams \/ CountRows \/ SelectRows \/ StatementFails \/ FindOne
             \/ Save \/ UNCHANGED vars
    <2>1. x' = x /\ view' = view
      BY <1>4 DEF CheckParams, CountRows, SelectRows, StatementFails, FindOne,
                  Save, vars, requestVars, tableVars
    <2>. QED BY <1>0, <2>1
  <1>. QED BY <1>1, <1>2, <1>3, <1>4 DEF Next, Idle

(* Who gets to the statements has passed the checks.                       *)
LEMMA CheckedStays ==
  ASSUME PagesInv, [Next]_vars, pc' \in {"count", "select"}
  PROVE  Checked(x, view)'
  <1>0. /\ Gathered(x, view) /\ Counts(x) /\ view \in ViewType
        /\ pc \in {"count", "select"} => Checked(x, view)
    BY RowIs DEF PagesInv, ReadsInv, ParamsAreCounts
  <1>1. CASE CheckParams
    <2>1. x' = x /\ view' = view /\ view.route \in {"codex", "plain"}
      BY <1>0, <1>1 DEF CheckParams, tableVars, ViewType
    <2>2. CASE view.route = "codex"
      <3>1. Accepted(x, view.fields, view.sortable)
        BY <1>1, <2>2 DEF CheckParams, Respond
      <3>. QED BY <2>1, <3>1 DEF Accepted, Checked
    <2>3. CASE view.route = "plain"
      <3>1. Deserializes(view.fields, x.rest)
        BY <1>1, <2>3 DEF CheckParams, Respond
      <3>2. x.page = None /\ x.sort = None
        BY <1>0, <2>3 DEF Gathered
      <3>3. PageFits(x) /\ CheckSortFields(x, view.sortable)
        BY <3>2 DEF PageFits, CheckSortFields
      <3>. QED BY <2>1, <3>1, <3>3 DEF Checked
    <2>. QED BY <2>1, <2>2, <2>3
  <1>2. CASE CountRows \/ Save \/ UNCHANGED vars
    <2>1. x' = x /\ view' = view /\ pc \in {"count", "select"}
      BY <1>2 DEF CountRows, Save, vars, requestVars, tableVars
    <2>. QED BY <1>0, <2>1
  <1>3. CASE \/ ReadParam \/ ReadPlainParams \/ SelectRows \/ StatementFails
             \/ NextPage \/ FindOne
    <2>1. pc' \in {"params", "answered"}
      BY <1>3 DEF ReadParam, ReadPlainParams, SelectRows, StatementFails,
                  NextPage, FindOne, Respond
    <2>. QED BY <2>1
  <1>. QED BY <1>1, <1>2, <1>3 DEF Next, Idle

(* Until a view is saved the count is that of what is selected.            *)
LEMMA CountStays ==
  ASSUME PagesInv, [Next]_vars, pc' = "select", steady'
  PROVE  total' = Cardinality(Selected')
  <1>1. CASE CountRows
    <2>1. /\ total' = Cardinality(Selected)
          /\ UNCHANGED <<backend, view, rows, x, parent>>
      BY <1>1 DEF CountRows, tableVars
    <2>2. Selected' = Selected
      BY <2>1 DEF Selected
    <2>. QED BY <2>1, <2>2
  <1>2. CASE UNCHANGED vars
    <2>1. UNCHANGED <<backend, view, rows, x, parent, pc, steady, total>>
      BY <1>2 DEF vars, requestVars, tableVars
    <2>2. Selected' = Selected
      BY <2>1 DEF Selected
    <2>. QED BY <2>1, <2>2 DEF PagesInv
  <1>3. CASE Save
    BY <1>3 DEF Save
  <1>4. CASE \/ ReadParam \/ ReadPlainParams \/ CheckParams \/ SelectRows
             \/ StatementFails \/ NextPage \/ FindOne
    <2>1. pc' \in {"params", "answered", "count"}
      BY <1>4 DEF ReadParam, ReadPlainParams, CheckParams, SelectRows, StatementFails,
                  NextPage, FindOne, Respond
    <2>. QED BY <2>1
  <1>. QED BY <1>1, <1>2, <1>3, <1>4 DEF Next, Idle

(* The page statement gives the page that was asked for, of views that     *)
(* match.                                                                  *)
LEMMA SelectGivesPage ==
  ASSUME PagesInv, SelectRows
  PROVE  PageIsWhatWasAsked' /\ OnlyOwnMatchingViews'
  <1> DEFINE n == Cardinality(Selected)
             skip == Pagination(x).skip
             limit == Or(Pagination(x).limit, DefaultLimit)
             left == n - skip
             size == CASE left <= 0 -> 0
                       [] left > 0 /\ left <= limit -> left
                       [] OTHER -> limit
  <1>0. /\ ReadsInv /\ FewRows /\ Gathered(x, view) /\ Counts(x) /\ Checked(x, view)
        /\ pc = "select" /\ (steady => total = n)
        /\ backend \in Backends /\ view \in ViewTypes
    BY DEF PagesInv, ReadsInv, ParamsAreCounts, RowsAreSaved, SelectRows
  <1>1. UNCHANGED <<view, backend, rows, x, parent, total, steady>>
    BY DEF SelectRows, tableVars
  <1>2. n \in Nat
    BY <1>0, SelectedIsFinite
  <1>3. /\ skip \in Nat /\ limit \in Nat \ {0}
        /\ PageWindow = [skip |-> skip, limit |-> limit]
    BY <1>0, WindowIs DEF PageWindow
  <1>4. CASE Positions(backend, PageWindow, n) = NoPage
    <2>1. answer'.status = 500
      BY <1>4 DEF SelectRows, Respond, Refusal
    <2>. QED BY <2>1 DEF PageIsWhatWasAsked, OnlyOwnMatchingViews, Listed
  <1>5. CASE Positions(backend, PageWindow, n) # NoPage
    <2>1. PICK listing \in Listings(backend, view.table, rows, Order, Selected) :
            LET ids == PageSql(backend, PageWindow, listing)
                items == [i \in DOMAIN ids |->
                            FromRow(backend, view.table, rows[ids[i]])]
            IN  answer' = Ok(Paged(items, total, PageWindow))
      BY <1>5 DEF SelectRows, Respond
    <2> DEFINE ids == PageSql(backend, PageWindow, listing)
               items == [i \in DOMAIN ids |-> FromRow(backend, view.table, rows[ids[i]])]
    <2>2. listing \in [1..n -> Selected]
      BY DEF Listings
    <2> HIDE DEF n, skip, limit
    <2>3. ids \in [1..size -> Selected] /\ size \in Nat
      BY <1>0, <1>2, <1>3, <2>2, PageSqlIs
    <2>4. /\ answer'.page.items = items /\ answer'.page.total = total
          /\ answer'.page.skip = skip /\ answer'.page.limit = limit
          /\ answer'.page.page = IF limit > 0 THEN skip \div limit ELSE 0
          /\ answer'.page.page_size = limit
      <3> HIDE DEF items
      <3>. QED BY <1>3, <2>1 DEF Ok, Paged, items
    <2> HIDE DEF ids
    <2>5. items = [i \in 1..size |-> FromRow(backend, view.table, rows[ids[i]])]
      BY <2>3
    <2> HIDE DEF size
    <2>6. Len(items) = size
      BY <2>3, <2>5
    <2>7. OnlyOwnMatchingViews'
      <3>1. ASSUME NEW i \in DOMAIN items
            PROVE  /\ view.child => items[i]["parent"] = parent
                   /\ \E alternative \in Or(x.q, {{}}) :
                        \A c \in alternative : items[i][c[1]] = c[2]
                   /\ \A k \in DOMAIN x.rest : x.rest[k].key \in view.fields =>
                        items[i][x.rest[k].key] = x.rest[k].value.n
        <4> DEFINE id == ids[i]
        <4>1. i \in 1..size /\ id \in Selected
          BY <2>3, <2>5
        <4>2. items[i] = FromRow(backend, view.table, rows[id])
          BY <2>5, <4>1
        <4> HIDE DEF id, items
        <4>3. /\ FromRow(backend, view.table, rows[id]) = Held(id)
              /\ view.child => Held(id)["parent"] = parent
              /\ \E a \in FilterOf(x, view.fields) : \A c \in a : Held(id)[c[1]] = c[2]
          BY <1>0, <4>1, SelectedIs DEF Held
        <4>4. Deserializes(view.fields, x.rest)
          BY <1>0 DEF Checked
        <4> DEFINE w == Held(id)
        <4>5. PICK a \in FilterOf(x, view.fields) : \A c \in a : w[c[1]] = c[2]
          BY <4>3
        <4> DEFINE fields == view.fields
        <4> HIDE DEF w, fields
        <4>6. /\ \E alternative \in Or(x.q, {{}}) :
                   \A c \in alternative : w[c[1]] = c[2]
              /\ \A k \in DOMAIN x.rest : x.rest[k].key \in fields =>
                   w[x.rest[k].key] = x.rest[k].value.n
          <5>1. Deserializes(fields, x.rest) /\ a \in FilterOf(x, fields)
            BY <4>4 DEF fields
          <5>. QED BY ONLY <4>5, <5>1, FilterMeans
        <4>. QED BY <4>2, <4>3, <4>6 DEF w, fields
      <3> HIDE DEF items
      <3>. QED BY <1>1, <2>4, <3>1 DEF OnlyOwnMatchingViews
    <2> HIDE DEF items
    <2>8. PageIsWhatWasAsked'
      <3>1. ASSUME x.page # None, x.page_size # None, x.skip = None, x.limit = None
            PROVE  answer'.page.page = x.page /\ answer'.page.page_size = x.page_size
        <4>1. x.page \in Nat /\ x.page_size \in Nat \ {0} /\ MaxI64 \in Nat
          BY <1>0, <3>1, CodexAssumption DEF Counts
        <4>2. x.page * x.page_size <= MaxI64
          BY <1>0, <3>1 DEF Checked, PageFits
        <4>3. Pagination(x) = [skip |-> x.page * x.page_size, limit |-> x.page_size]
          <5> DEFINE first == Or(x.page, 0) * x.page_size
          <5>1. Pagination(x) = [skip |-> IF first > MaxI64 THEN MaxI64 ELSE first,
                                 limit |-> x.page_size]
            BY <3>1 DEF Pagination
          <5>2. first = x.page * x.page_size
            BY <3>1 DEF Or
          <5>3. first \in Nat /\ ~ (first > MaxI64)
            BY <4>1, <4>2, <5>2
          <5> HIDE DEF first
          <5>. QED BY <5>1, <5>2, <5>3
        <4>4. skip = x.page * x.page_size /\ limit = x.page_size
          BY <3>1, <4>3 DEF skip, limit, Or
        <4>5. answer'.page.page = skip \div limit
          BY <1>3, <2>4
        <4>. QED BY <2>4, <4>1, <4>4, <4>5, PageOfWindow
      <3>2. ASSUME steady
            PROVE  LET rest == answer'.page.total - answer'.page.skip
                   IN  Len(answer'.page.items) =
                         CASE rest <= 0 -> 0
                           [] rest > 0 /\ rest <= answer'.page.limit -> rest
                           [] OTHER -> answer'.page.limit
        BY <1>0, <2>4, <2>6, <3>2 DEF size
      <3>. QED BY <1>1, <3>1, <3>2 DEF PageIsWhatWasAsked
    <2>. QED BY <2>7, <2>8
  <1>. QED BY <1>4, <1>5

(* Only the page statement makes a listing.                                *)
LEMMA NoOtherListing ==
  ASSUME \/ ReadParam \/ ReadPlainParams \/ CheckParams \/ CountRows
         \/ StatementFails \/ NextPage \/ FindOne
  PROVE  /\ ~ Listed'
         /\ pc' = "select" => CountRows
         /\ pc' = "answered" /\ answer'.status = 200 => FindOne
  <1>1. CASE ReadParam
    <2>1. \/ pc' = "params"
          \/ pc' = "answered" /\ answer'.status = 422
      BY <1>1 DEF ReadParam, Respond, Refusal
    <2>. QED BY <2>1 DEF Listed
  <1>2. CASE CheckParams
    <2>1. \/ pc' = "count"
          \/ pc' = "answered" /\ (answer'.status = 422 \/ answer'.status = 400)
      BY <1>2 DEF CheckParams, Respond, Refusal
    <2>. QED BY <2>1 DEF Listed
  <1>3. CASE StatementFails
    <2>1. pc' = "answered" /\ answer'.status = 500
      BY <1>3 DEF StatementFails, Respond, Refusal
    <2>. QED BY <2>1 DEF Listed
  <1>4. CASE FindOne
    <2>1. PICK id \in ViewIds :
            answer' = CASE view.child -> Refusal(500)
                        [] ~ view.child /\ Find(id, None) = NoRow -> Refusal(404)
                        [] ~ view.child /\ Find(id, None) # NoRow ->
                             [status |-> 200, view |-> Find(id, None)]
      BY <1>4 DEF FindOne, Respond
    <2>2. \/ answer' = Refusal(500) \/ answer' = Refusal(404)
          \/ answer' = [status |-> 200, view |-> Find(id, None)]
      BY <2>1
    <2>3. \/ answer'.status = 500 \/ answer'.status = 404
          \/ DOMAIN answer' = {"status", "view"}
      BY <2>2 DEF Refusal
    <2>4. pc' = "answered"
      BY <1>4 DEF FindOne, Respond
    <2>. QED BY <1>4, <2>3, <2>4 DEF Listed
  <1>5. CASE ReadPlainParams \/ CountRows \/ NextPage
    <2>1. /\ pc' \in {"params", "select"}
          /\ pc' = "select" => CountRows
      BY <1>5 DEF ReadPlainParams, CountRows, NextPage
    <2>. QED BY <2>1 DEF Listed
  <1>. QED BY <1>1, <1>2, <1>3, <1>4, <1>5

(* The invariant of the pages is kept by every step.                       *)
(* A listing that was answered stays what it is; no other step makes one.  *)
LEMMA PageStays ==
  ASSUME PagesInv, [Next]_vars
  PROVE  PageIsWhatWasAsked' /\ OnlyOwnMatchingViews'
  <1>0. PageIsWhatWasAsked /\ OnlyOwnMatchingViews
    BY DEF PagesInv
  <1>1. CASE SelectRows
    BY <1>1, SelectGivesPage
  <1>2. CASE Save \/ UNCHANGED vars
    <2>1. UNCHANGED <<view, x, parent, pc, answer>> /\ (steady' => steady)
      BY <1>2 DEF Save, vars, requestVars, tableVars
    <2>2. Listed' <=> Listed
      BY <2>1 DEF Listed
    <2>. QED BY <1>0, <2>1, <2>2 DEF PageIsWhatWasAsked, OnlyOwnMatchingViews
  <1>3. CASE \/ ReadParam \/ ReadPlainParams \/ CheckParams \/ CountRows
             \/ StatementFails \/ NextPage \/ FindOne
    <2>1. ~ Listed'
      BY <1>3, NoOtherListing
    <2>. QED BY <2>1 DEF PageIsWhatWasAsked, OnlyOwnMatchingViews
  <1>. QED BY <1>1, <1>2, <1>3 DEF Next, Idle

LEMMA PagesStep ==
  ASSUME PagesInv, [Next]_vars
  PROVE  PagesInv'
  <1>1. ReadsInv'
    <2>1. ReadsInv
      BY DEF PagesInv
    <2>2. CASE UNCHANGED vars
      BY <2>1, <2>2 DEF vars, requestVars, tableVars, ReadsInv, RowsAreSaved, RowOf,
                        Merges, ParamsAreCounts, Counts
    <2>. QED BY <2>1, <2>2, RequestKeeps, SaveKeeps DEF Next, Idle
  <1>2. FewRows'
    <2>1. ReadsInv /\ FewRows
      BY DEF PagesInv
    <2>2. CASE Save
      BY <2>1, <2>2, FewRowsAfterSave
    <2>3. CASE ~ Save
      <3>1. saved' = saved
        BY <2>3 DEF Next, Idle, vars, tableVars, ReadParam, ReadPlainParams,
               CheckParams, CountRows, SelectRows, StatementFails, NextPage, FindOne
      <3>. QED BY <2>1, <3>1 DEF FewRows
    <2>. QED BY <2>2, <2>3
  <1>. QED BY <1>1, <1>2, GatheredStays, CheckedStays, CountStays, PageStays DEF PagesInv

(* A save keeps views under their ids.                                     *)
LEMMA PagesIsInductive == Spec => []PagesInv
  BY PagesStep, PagesBegin, PTL DEF Spec

(* A page asked for by number and size comes back with that number and     *)
(* size, and holds what the count leaves for it.                           *)
THEOREM PageIsAsAsked == Spec => []PageIsWhatWasAsked
  BY PagesIsInductive, PTL DEF PagesInv

(* A listing shows views of the path's parent that match, and no others.   *)
THEOREM OwnMatchingViews == Spec => []OnlyOwnMatchingViews
  BY PagesIsInductive, PTL DEF PagesInv

(* Whatever a field holds that the view type neither filters nor sorts by, *)
(* the same rows match and may come in the same orders.                    *)
THEOREM HiddenFieldStaysHidden == Spec => []HiddenFieldIsNoLookup
  <1>1. PagesInv => HiddenFieldIsNoLookup
    <2> DEFINE other(id, f, v) == [rows EXCEPT ![id] =
                 ToRow(backend, view.table, [Held(id) EXCEPT ![f] = v[f]])]
               matching(id, f, v) == Matching(backend, view.table, other(id, f, v),
                 FilterOf(x, view.fields), view.child, parent)
    <2> SUFFICES ASSUME PagesInv, pc \in {"count", "select"},
                        NEW f \in Fields \ LookedAt, NEW id \in ViewIds,
                        NEW v \in Contents, rows[id] # NoRow
                 PROVE  /\ matching(id, f, v) = Selected
                        /\ Listings(backend, view.table, other(id, f, v), Order,
                                    matching(id, f, v))
                             = Listings(backend, view.table, rows, Order, Selected)
      BY DEF HiddenFieldIsNoLookup, Held
    <2> DEFINE t == view.table
               w == [Held(id) EXCEPT ![f] = v[f]]
               there == [rows EXCEPT ![id] = ToRow(backend, t, w)]
               filter == FilterOf(x, view.fields)
    <2>1. /\ ReadsInv /\ Gathered(x, view) /\ CheckSortFields(x, view.sortable)
          /\ backend \in Backends /\ view \in ViewTypes /\ t \in Tables
          /\ view.child => t = "views"
          /\ Held(id) \in ViewOf
          /\ rows[id] = ToRow(backend, t, Held(id))
      BY RowIs DEF PagesInv, Checked
    <2>2. f # "parent" /\ f \in Fields /\ f \notin LookedAt
      BY DEF LookedAt
    <2>3. v \in ViewOf
      BY ViewsAssumption DEF Views
    <2>4. /\ w \in ViewOf
          /\ \A g \in Fields \ {f} : w[g] = Held(id)[g]
      <3> DEFINE old == Held(id)
      <3>1. /\ old \in [Fields -> Int \cup {Absent}] /\ v[f] \in Int \cup {Absent}
            /\ \A g \in Required : old[g] \in Int /\ v[g] \in Int /\ g \in Fields
        BY <2>1, <2>2, <2>3 DEF ViewOf, Required, Fields
      <3> HIDE DEF old
      <3>2. /\ [old EXCEPT ![f] = v[f]] \in [Fields -> Int \cup {Absent}]
            /\ \A g \in Fields \ {f} : [old EXCEPT ![f] = v[f]][g] = old[g]
        BY <3>1
      <3>3. \A g \in Required : [old EXCEPT ![f] = v[f]][g] \in Int
        BY <3>1
      <3>4. [old EXCEPT ![f] = v[f]] \in ViewOf
        BY <3>2, <3>3 DEF ViewOf
      <3>. QED BY <3>2, <3>4 DEF old
    <2>5. id \in DOMAIN rows
      BY DEF PagesInv, ReadsInv, RowsAreSaved
    <2>6. there[id] = ToRow(backend, t, w) /\ \A i \in ViewIds \ {id} : there[i] = rows[i]
      BY <2>5 DEF PagesInv, ReadsInv, RowsAreSaved
    <2> HIDE DEF w, there, t
    <2>7. /\ there[id] # NoRow
          /\ \A g \in Fields \ {f} :
               Field(backend, t, there[id], g) = Field(backend, t, rows[id], g)
          /\ view.child =>
               ParentField(backend, there[id]) = ParentField(backend, rows[id])
      <3>1. /\ there[id] # NoRow
            /\ \A g \in Fields : Field(backend, t, there[id], g) = w[g]
            /\ t = "views" => ParentField(backend, there[id]) = w["parent"]
        BY <2>1, <2>4, <2>6, RowOfView, RowRoundTrip
      <3>2. /\ \A g \in Fields : Field(backend, t, rows[id], g) = Held(id)[g]
            /\ t = "views" => ParentField(backend, rows[id]) = Held(id)["parent"]
        BY <2>1, RowOfView, RowRoundTrip
      <3>3. "parent" \in Fields
        BY DEF Fields
      <3>. QED BY <2>1, <2>2, <2>4, <3>1, <3>2, <3>3
    <2>8. \A i \in ViewIds : \A g \in Fields \ {f} :
            Field(backend, t, there[i], g) = Field(backend, t, rows[i], g)
      BY <2>6, <2>7
    <2>9. Matching(backend, t, there, filter, view.child, parent)
            = Matching(backend, t, rows, filter, view.child, parent)
      <3>1. \A a \in filter : \A c \in a : c[1] \in Fields \ {f}
        <4>1. ASSUME NEW a \in filter, NEW c \in a
              PROVE  c[1] \in view.fields /\ c[1] \in Fields
          BY <2>1, ConstraintFields DEF Required, Fields
        <4>2. f \notin view.fields
          BY <2>2 DEF LookedAt
        <4>. QED BY <4>1, <4>2
      <3> HIDE DEF filter
      <3>2. \A i \in ViewIds : rows[i] = NoRow <=> there[i] = NoRow
        BY <2>6, <2>7
      <3>3. \A i \in ViewIds : rows[i] # NoRow =>
              /\ view.child => ParentField(backend, rows[i]) = ParentField(backend, there[i])
              /\ \A a \in filter : \A c \in a :
                   Field(backend, t, rows[i], c[1]) = Field(backend, t, there[i], c[1])
        BY <2>6, <2>7, <2>8, <3>1
      <3> DEFINE child == view.child
      <3>4. \A i \in ViewIds : rows[i] # NoRow =>
              /\ child => ParentField(backend, rows[i]) = ParentField(backend, there[i])
              /\ \A a \in filter : \A c \in a :
                   Field(backend, t, rows[i], c[1]) = Field(backend, t, there[i], c[1])
        BY <3>3
      <3> HIDE DEF child
      <3>5. Matching(backend, t, rows, filter, child, parent)
              = Matching(backend, t, there, filter, child, parent)
        BY ONLY <3>2, <3>4, SameMatching
      <3>. QED BY <3>5 DEF child
    <2>10. Selected = Matching(backend, t, rows, filter, view.child, parent)
      BY DEF Selected, t
    <2>11. Listings(backend, t, there, Order, Selected)
             = Listings(backend, t, rows, Order, Selected)
      <3> DEFINE order == Order
                 ids == Selected
      <3>1. ASSUME NEW k \in DOMAIN order
            PROVE  /\ DOMAIN order = 1..Len(order) /\ Len(order) \in Nat
                   /\ order[k].field \in Fields \ {f}
        <4>1. /\ DOMAIN order = 1..Len(order) /\ Len(order) \in Nat
              /\ order[k].field \in Fields
              /\ \/ order[k].field \in view.sortable
                 \/ order[k].field
                      \in {view.defaultSort[m].field : m \in DOMAIN view.defaultSort}
          BY <2>1, SortFields DEF Order, Required, Fields
        <4>. QED BY <2>2, <4>1 DEF LookedAt
      <3>2. ids \subseteq ViewIds
        BY <2>10 DEF Matching
      <3> HIDE DEF order, ids
      <3>3. \A i \in ids, k \in DOMAIN order :
              Field(backend, t, rows[i], order[k].field)
                = Field(backend, t, there[i], order[k].field)
        BY <2>8, <3>1, <3>2
      <3>4. Listings(backend, t, rows, order, ids) = Listings(backend, t, there, order, ids)
        <4>1. CASE DOMAIN order = {}
          <5>1. \A i, j : ~ Precedes(backend, t, rows, order, i, j)
                          /\ ~ Precedes(backend, t, there, order, i, j)
            BY <4>1 DEF Precedes
          <5>. QED BY <5>1 DEF Listings
        <4>2. CASE DOMAIN order # {}
          BY <3>1, <3>3, <4>2, SameListings
        <4>. QED BY <4>1, <4>2
      <3>. QED BY <3>4 DEF order, ids
    <2>12. other(id, f, v) = there
      BY DEF there, w, t
    <2>. QED BY <2>9, <2>10, <2>11, <2>12 DEF t
  <1>. QED BY <1>1, PagesIsInductive, PTL

-----------------------------------------------------------------------------
(* The walk over the pages. *)

(* The first number on which a property holds.                             *)
LEMMA LeastOf ==
  ASSUME NEW T \in SUBSET Nat, T # {}
  PROVE  \E m \in T : \A k \in T : m <= k
  <1> DEFINE R == OpToRel(<, Nat)
  <1>1. IsWellFoundedOn(R, Nat)
    BY NatLessThanWellFounded
  <1>2. \A a, b \in Nat : a < b => <<a, b>> \in R
    BY DEF OpToRel
  <1> HIDE DEF R
  <1>3. PICK m \in T : \A k \in T : ~ (<<k, m>> \in R)
    BY <1>1, WFMin
  <1>4. ASSUME NEW k \in T PROVE m <= k
    <2>1. m \in Nat /\ k \in Nat /\ ~ (k < m)
      BY <1>2, <1>3
    <2>. QED BY ONLY <2>1
  <1>. QED BY <1>4

(* Two rows that differ on a sorter are in one order, and in one only.     *)
LEMMA RowsAreOrdered ==
  ASSUME NEW b, NEW t, NEW table, NEW order, NEW i, NEW j,
         Len(order) \in Nat, DOMAIN order = 1..Len(order),
         \A k \in DOMAIN order : /\ Field(b, t, table[i], order[k].field) \in Int
                                 /\ Field(b, t, table[j], order[k].field) \in Int,
         \E k \in DOMAIN order : Field(b, t, table[i], order[k].field)
                                   # Field(b, t, table[j], order[k].field)
  PROVE  /\ Precedes(b, t, table, order, i, j) \/ Precedes(b, t, table, order, j, i)
         /\ ~ (Precedes(b, t, table, order, i, j) /\ Precedes(b, t, table, order, j, i))
  <1> DEFINE at(id, k) == Field(b, t, table[id], order[k].field)
             apart == {k \in DOMAIN order : at(i, k) # at(j, k)}
             before(v, w) ==
               \E k \in DOMAIN order :
                 /\ \A m \in 1..(k - 1) : at(v, m) = at(w, m)
                 /\ IF order[k].desc THEN at(v, k) > at(w, k) ELSE at(v, k) < at(w, k)
  <1>1. ASSUME NEW v, NEW w
        PROVE  Precedes(b, t, table, order, v, w) <=> before(v, w)
    BY DEF Precedes
  <1>2. \A k \in DOMAIN order : at(i, k) \in Int /\ at(j, k) \in Int
    OBVIOUS
  <1>3. apart # {} /\ apart \in SUBSET Nat
    OBVIOUS
  <1>4. PICK k \in apart : \A m \in apart : k <= m
    BY <1>3, LeastOf
  <1>5. k \in DOMAIN order /\ at(i, k) # at(j, k)
    OBVIOUS
  <1>6. \A m \in 1..(k - 1) : m \in DOMAIN order /\ ~ (k <= m)
    BY <1>5
  <1> HIDE DEF at
  <1>7. \A m \in 1..(k - 1) : at(i, m) = at(j, m)
    BY <1>4, <1>6
  <1>8. before(i, j) \/ before(j, i)
    <2>1. at(i, k) \in Int /\ at(j, k) \in Int
      BY <1>2, <1>5
    <2>2. at(i, k) < at(j, k) \/ at(j, k) < at(i, k)
      BY <1>5, <2>1
    <2>. QED BY <1>5, <1>7, <2>1, <2>2
  <1>9. ASSUME NEW l \in DOMAIN order, \A m \in 1..(l - 1) : at(i, m) = at(j, m),
               at(i, l) # at(j, l)
        PROVE  l = k
    <2>1. l \in apart /\ k <= l
      BY <1>4, <1>9
    <2>2. ~ (k \in 1..(l - 1))
      BY <1>5, <1>9
    <2>. QED BY <1>5, <2>1, <2>2
  <1>10. ASSUME before(i, j), before(j, i)
         PROVE  FALSE
    <2>1. PICK l \in DOMAIN order :
            /\ \A m \in 1..(l - 1) : at(i, m) = at(j, m)
            /\ IF order[l].desc THEN at(i, l) > at(j, l) ELSE at(i, l) < at(j, l)
      BY <1>10
    <2>2. PICK h \in DOMAIN order :
            /\ \A m \in 1..(h - 1) : at(j, m) = at(i, m)
            /\ IF order[h].desc THEN at(j, h) > at(i, h) ELSE at(j, h) < at(i, h)
      BY <1>10
    <2>3. at(i, l) # at(j, l)
      BY <1>2, <2>1
    <2>4. at(i, h) # at(j, h)
      BY <1>2, <2>2
    <2>5. l = k /\ h = k
      BY <1>9, <2>1, <2>2, <2>3, <2>4
    <2>. QED BY <1>2, <2>1, <2>2, <2>5
  <1> HIDE DEF before
  <1>. QED BY <1>1, <1>8, <1>10

(* A listing of a finite set has all of it.                                *)
LEMMA ListingHasAll ==
  ASSUME NEW S, IsFiniteSet(S), NEW s \in [1..Cardinality(S) -> S],
         \A i, j \in DOMAIN s : i < j => s[i] # s[j]
  PROVE  \A a \in S : \E i \in 1..Cardinality(S) : s[i] = a
  <1> DEFINE n == Cardinality(S)
             T == {s[i] : i \in 1..n}
  <1>1. n \in Nat
    BY FS_CardinalityType
  <1>2. IsFiniteSet(1..n) /\ Cardinality(1..n) = n
    BY <1>1, FS_Interval
  <1> HIDE DEF n
  <1>3. \A i, j \in 1..n : s[i] = s[j] => i = j
    BY <1>1 DEF n
  <1>4. s \in Surjection(1..n, T) /\ s \in Injection(1..n, T)
    BY <1>3 DEF Surjection, Injection, IsInjective, n
  <1>5. Cardinality(T) = n
    <2>1. ExistsBijection(1..n, T)
      BY <1>4 DEF Bijection, ExistsBijection
    <2> HIDE DEF T
    <2>. QED BY <1>2, <2>1, FS_Bijection
  <1>6. T \subseteq S
    BY DEF n
  <1>7. T = S
    BY <1>5, <1>6, FS_Subset DEF n
  <1>. QED BY <1>7 DEF n

(* What is in one order only is listed in one way only.                    *)
LEMMA OneListing ==
  ASSUME NEW b, NEW t, NEW table, NEW order, NEW S, IsFiniteSet(S),
         \A v, w \in S : v # w =>
           /\ Precedes(b, t, table, order, v, w) \/ Precedes(b, t, table, order, w, v)
           /\ ~ (Precedes(b, t, table, order, v, w) /\ Precedes(b, t, table, order, w, v)),
         NEW s \in Listings(b, t, table, order, S),
         NEW u \in Listings(b, t, table, order, S)
  PROVE  s = u
  <1> DEFINE n == Cardinality(S)
             before(v, w) == Precedes(b, t, table, order, v, w)
             apart == {i \in 1..n : s[i] # u[i]}
  <1>1. n \in Nat
    BY FS_CardinalityType
  <1>2. /\ s \in [1..n -> S] /\ u \in [1..n -> S]
        /\ \A i, j \in 1..n : i < j => s[i] # s[j] /\ ~ before(s[j], s[i])
        /\ \A i, j \in 1..n : i < j => u[i] # u[j] /\ ~ before(u[j], u[i])
    BY DEF Listings
  <1>3. \A v, w \in S : v # w => (before(v, w) \/ before(w, v)) /\ ~ (before(v, w) /\ before(w, v))
    OBVIOUS
  <1>4. \A a \in S : (\E i \in 1..n : s[i] = a) /\ (\E i \in 1..n : u[i] = a)
    <2>1. /\ s \in [1..Cardinality(S) -> S] /\ \A i, j \in DOMAIN s : i < j => s[i] # s[j]
          /\ u \in [1..Cardinality(S) -> S] /\ \A i, j \in DOMAIN u : i < j => u[i] # u[j]
      BY <1>2
    <2>2. \A a \in S : \E i \in 1..Cardinality(S) : s[i] = a
      BY ONLY <2>1, ListingHasAll, IsFiniteSet(S), Zenon
    <2>3. \A a \in S : \E i \in 1..Cardinality(S) : u[i] = a
      BY ONLY <2>1, ListingHasAll, IsFiniteSet(S), Zenon
    <2>. QED BY <2>2, <2>3
  <1> HIDE DEF n, before
  <1>5. ASSUME apart # {}
        PROVE  FALSE
    <2>0. apart \in SUBSET Nat
      BY <1>1
    <2>1. PICK k \in apart : \A m \in apart : k <= m
      <3> HIDE DEF apart
      <3>. QED BY <1>5, <2>0, LeastOf
    <2>2. k \in 1..n /\ s[k] # u[k] /\ s[k] \in S /\ u[k] \in S
      BY <1>2
    <2>3. \A m \in 1..n : m < k => s[m] = u[m]
      BY <1>1, <2>1, <2>2
    <2>4. PICK i \in 1..n : s[i] = u[k]
      BY <1>4, <2>2
    <2>5. PICK j \in 1..n : u[j] = s[k]
      BY <1>4, <2>2
    <2>6. k < i
      <3>1. i # k
        BY <2>2, <2>4
      <3>2. ~ (i < k)
        BY <1>2, <2>2, <2>3, <2>4
      <3>. QED BY <1>1, <2>2, <3>1, <3>2
    <2>7. k < j
      <3>1. j # k
        BY <2>2, <2>5
      <3>2. ~ (j < k)
        BY <1>2, <2>2, <2>3, <2>5
      <3>. QED BY <1>1, <2>2, <3>1, <3>2
    <2>8. ~ before(u[k], s[k]) /\ ~ before(s[k], u[k])
      BY <1>2, <2>2, <2>4, <2>5, <2>6, <2>7
    <2>. QED BY <1>3, <2>2, <2>8
  <1>6. \A i \in 1..n : s[i] = u[i]
    BY <1>5
  <1>7. s = [i \in 1..n |-> s[i]] /\ u = [i \in 1..n |-> u[i]]
    BY <1>2
  <1>. QED BY <1>6, <1>7

(* The parameters of a page of a walk, and what reading them gives.        *)
AskedPair(pair, q) ==
  IF pair.key = "page" THEN [key |-> "page", value |-> Number(q)] ELSE pair
Asked(r, q) == [i \in DOMAIN r |-> AskedPair(r[i], q)]

(* A slot of what was gathered, set.                                       *)
With(r, slot, v) == [r EXCEPT ![slot] = v]
OnPage(r, q) == With(r, "page", IF r.page = None THEN None ELSE q)

(* What With does to a slot, and leaves.                                   *)
LEMMA WithIs ==
  ASSUME NEW r, NEW slot \in DOMAIN r, NEW v
  PROVE  /\ DOMAIN With(r, slot, v) = DOMAIN r
         /\ With(r, slot, v)[slot] = v
         /\ \A f \in DOMAIN r : f # slot => With(r, slot, v)[f] = r[f]
  BY DEF With

(* Two slots may be set in any order.                                      *)
LEMMA WithBoth ==
  ASSUME NEW r, NEW a, NEW b, a # b, NEW v, NEW w
  PROVE  With(With(r, a, v), b, w) = With(With(r, b, w), a, v)
  BY DEF With

(* The last value of a slot counts.                                        *)
LEMMA WithAgain ==
  ASSUME NEW r, NEW a, NEW v, NEW w
  PROVE  With(With(r, a, v), a, w) = With(r, a, w)
  BY DEF With

(* Other slots do not know of the page.                                    *)
LEMMA OnPageOther ==
  ASSUME NEW r, Counts(r), NEW q, NEW slot \in DOMAIN r, slot # "page", NEW v
  PROVE  /\ With(OnPage(r, q), slot, v) = OnPage(With(r, slot, v), q)
         /\ With(r, slot, v).page = r.page
  <1>1. "page" \in DOMAIN r
    BY DEF Counts
  <1>2. With(r, slot, v).page = r.page
    BY <1>1, WithIs
  <1>. QED BY <1>2, WithBoth DEF OnPage

(* Another page is the same request but for its number.                    *)
LEMMA OnPageIs ==
  ASSUME NEW r, Counts(r), NEW q
  PROVE  /\ DOMAIN OnPage(r, q) = DOMAIN r
         /\ \A f \in DOMAIN r : f # "page" => OnPage(r, q)[f] = r[f]
         /\ OnPage(r, q).page = IF r.page = None THEN None ELSE q
  <1>1. "page" \in DOMAIN r
    BY DEF Counts
  <1>. QED BY <1>1, WithIs DEF OnPage

(* What one turn of the loop does to what was gathered.                    *)
LEMMA ReadPairSets ==
  ASSUME NEW r, Counts(r), NEW fields, NEW pair, pair.key # "page"
  PROVE  \/ \A o : ReadPair(o, fields, pair) = o
         \/ \E v : \E slot \in {"sort", "q", "skip", "limit", "page_size", "rejected"} :
              \A o : ReadPair(o, fields, pair) = With(o, slot, v)
         \/ \A o : ReadPair(o, fields, pair) = With(o, "rest", Append(o.rest, pair))
  <1>1. CASE pair.key = "sort"
    <2>1. \A o : ReadPair(o, fields, pair) = With(o, "sort", pair.value)
      BY <1>1 DEF ReadPair, ReservedParams, CountParams, With
    <2>. QED BY <2>1
  <1>2. CASE pair.key # "sort" /\ pair.key \in ReservedParams /\ pair.value = Empty
    <2>1. \A o : ReadPair(o, fields, pair) = o
      BY <1>2 DEF ReadPair
    <2>. QED BY <2>1
  <1>3. CASE pair.key = "_q" /\ pair.value # Empty
    <2>1. \A o : ReadPair(o, fields, pair) = ParseQ(o, fields, pair.value)
      BY <1>3 DEF ReadPair, ReservedParams, CountParams
    <2>2. \/ \A o : ParseQ(o, fields, pair.value) = With(o, "q", pair.value.any)
          \/ \A o : ParseQ(o, fields, pair.value) = With(o, "rejected", TRUE)
      BY DEF ParseQ, Reject, With
    <2>. QED BY <2>1, <2>2
  <1>4. CASE pair.key \in CountParams /\ pair.value # Empty
    <2> DEFINE slot == IF pair.key = "pageSize" THEN "page_size" ELSE pair.key
               n == pair.value.n
    <2>1. \A o : ReadPair(o, fields, pair) = ParseCount(o, pair.key, pair.value)
      BY <1>4 DEF ReadPair, CountParams
    <2>2. \/ \A o : ParseCount(o, pair.key, pair.value) = With(o, slot, n)
          \/ \A o : ParseCount(o, pair.key, pair.value) = With(o, "rejected", TRUE)
      BY DEF ParseCount, Reject, With
    <2>3. slot \in {"skip", "limit", "page_size"}
      BY <1>4 DEF CountParams
    <2> HIDE DEF slot, n
    <2>. QED BY <2>1, <2>2, <2>3
  <1>5. CASE pair.key \notin ReservedParams
    <2>1. \A o : ReadPair(o, fields, pair) = With(o, "rest", Append(o.rest, pair))
      BY <1>5 DEF ReadPair, ReservedParams, CountParams, With
    <2>. QED BY <2>1
  <1>. QED BY <1>1, <1>2, <1>3, <1>4, <1>5 DEF ReservedParams

(* A page number is taken, or rejects the request where it is too large.   *)
LEMMA ParseCountOfPage ==
  ASSUME NEW r, NEW n \in Nat
  PROVE  ParseCount(r, "page", Number(n))
           = IF n <= MaxI64 THEN With(r, "page", n) ELSE With(r, "rejected", TRUE)
  <1> DEFINE value == Number(n)
  <1>1. value.kind = "number" /\ value.n = n
    BY DEF Number
  <1>2. Minimum("page") = 0
    BY DEF Minimum
  <1> HIDE DEF value
  <1>3. ParseCount(r, "page", value)
          = IF n <= MaxI64 THEN [r EXCEPT !["page"] = n] ELSE Reject(r)
    BY <1>1, <1>2 DEF ParseCount
  <1>. QED BY <1>3 DEF With, Reject, value

(* One parameter read on another page of the walk.                         *)
LEMMA ReadPairOnPage ==
  ASSUME NEW r, Counts(r), r.page \in {None, 0}, NEW fields, NEW pair \in Pair,
         pair.key = "page" => pair.value = Number(0), NEW q \in Nat
  PROVE  LET z == ReadPair(OnPage(r, q), fields, AskedPair(pair, q))
         IN  /\ z.rejected \/ z = OnPage(ReadPair(r, fields, pair), q)
             /\ ReadPair(r, fields, pair).page = IF pair.key = "page" THEN 0 ELSE r.page
  <1> DEFINE o == OnPage(r, q)
             after == ReadPair(r, fields, pair)
             z == ReadPair(o, fields, AskedPair(pair, q))
  <1>1. CASE pair.key = "page"
    <2>1. pair.value = Number(0) /\ pair.value # Empty /\ Number(q) # Empty
      BY <1>1 DEF Number, Empty
    <2>2. after = ParseCount(r, "page", Number(0))
      BY <1>1, <2>1 DEF ReadPair, ReservedParams, CountParams
    <2>3. AskedPair(pair, q) = [key |-> "page", value |-> Number(q)]
      BY <1>1 DEF AskedPair
    <2>4. z = ParseCount(o, "page", Number(q))
      BY <2>1, <2>3 DEF ReadPair, ReservedParams, CountParams
    <2>5. 0 <= MaxI64 /\ "page" \in DOMAIN r /\ "rejected" \in DOMAIN r
      BY CodexAssumption DEF Counts
    <2> HIDE DEF after, z, o
    <2>6. after = With(r, "page", 0) /\ after.page = 0
      <3>1. after = With(r, "page", 0)
        BY <2>2, <2>5, ParseCountOfPage
      <3>. QED BY <2>5, <3>1, WithIs
    <2>7. CASE q <= MaxI64
      <3>1. z = With(o, "page", q)
        BY <2>4, <2>7, ParseCountOfPage
      <3>2. z = With(r, "page", q)
        BY <3>1, WithAgain DEF OnPage, o
      <3>3. OnPage(after, q) = With(after, "page", q)
        BY <2>6, CodexAssumption DEF OnPage
      <3>4. OnPage(after, q) = With(r, "page", q)
        BY <2>6, <3>3, WithAgain
      <3>. QED BY <1>1, <2>6, <3>2, <3>4 DEF after, z, o
    <2>8. CASE ~ (q <= MaxI64)
      <3>1. z = With(o, "rejected", TRUE) /\ "rejected" \in DOMAIN o
        BY <2>4, <2>5, <2>8, OnPageIs, ParseCountOfPage DEF o
      <3>2. z.rejected
        BY <3>1 DEF With
      <3>. QED BY <1>1, <2>6, <3>2 DEF after, z, o
    <2>. QED BY <2>7, <2>8
  <1>2. CASE pair.key # "page"
    <2>1. AskedPair(pair, q) = pair
      BY <1>2 DEF AskedPair
    <2>2. z = ReadPair(o, fields, pair)
      BY <2>1
    <2>3. {"sort", "q", "skip", "limit", "page_size", "rejected", "rest"} \subseteq DOMAIN r
      BY DEF Counts
    <2> HIDE DEF z, after, o
    <2>4. CASE \A p : ReadPair(p, fields, pair) = p
      BY <1>2, <2>2, <2>4 DEF o, after, z
    <2>5. CASE \E v : \E slot \in {"sort", "q", "skip", "limit", "page_size", "rejected"} :
                 \A p : ReadPair(p, fields, pair) = With(p, slot, v)
      <3>0. PICK v : \E slot \in {"sort", "q", "skip", "limit", "page_size", "rejected"} :
              \A p : ReadPair(p, fields, pair) = With(p, slot, v)
        BY <2>5
      <3>1. PICK slot \in {"sort", "q", "skip", "limit", "page_size", "rejected"} :
              \A p : ReadPair(p, fields, pair) = With(p, slot, v)
        BY <3>0
      <3>2. z = With(o, slot, v) /\ after = With(r, slot, v)
        BY <2>2, <3>1 DEF after
      <3>3. With(o, slot, v) = OnPage(With(r, slot, v), q) /\ With(r, slot, v).page = r.page
        BY <2>3, OnPageOther DEF o
      <3>. QED BY <1>2, <3>2, <3>3 DEF o, after, z
    <2>6. CASE \A p : ReadPair(p, fields, pair) = With(p, "rest", Append(p.rest, pair))
      <3> DEFINE v == Append(r.rest, pair)
      <3>1. o.rest = r.rest
        BY <2>3, OnPageIs DEF o
      <3>2. z = With(o, "rest", v) /\ after = With(r, "rest", v)
        BY <2>2, <2>6, <3>1 DEF after
      <3> HIDE DEF v
      <3>3. With(o, "rest", v) = OnPage(With(r, "rest", v), q) /\ With(r, "rest", v).page = r.page
        BY <2>3, OnPageOther DEF o
      <3>. QED BY <1>2, <3>2, <3>3 DEF o, after, z
    <2>. QED BY <1>2, <2>4, <2>5, <2>6, ReadPairSets
  <1>. QED BY <1>1, <1>2

(* What a request y selects of the table, and how that may be listed.      *)
OrderOf(y) == SortOf(y, view.defaultSort)
SelectedOf(y) ==
  Matching(backend, view.table, rows, FilterOf(y, view.fields), view.child, parent)
ListingsOf(y) == Listings(backend, view.table, rows, OrderOf(y), SelectedOf(y))

(* What the loop has gathered after each of the first d parameters of the  *)
(* first page.                                                             *)
Trace(t, d) ==
  /\ t[0] = Blank
  /\ \A i \in 1..d : t[i] = ReadPair(t[i - 1], view.fields, request[i])
  /\ \A i \in 0..d :
       /\ Counts(t[i])
       /\ t[i].page = IF \E j \in 1..i : request[j].key = "page" THEN 0 ELSE None

(* The walk was shown the first q pages of the request y.                  *)
Shown(y, q) ==
  IF q = 0 THEN seen = <<>>
  ELSE /\ Pagination(y).skip = 0
       /\ y.page_size # None
       /\ y.skip = None /\ y.limit = None =>
            /\ q * y.page_size <= Cardinality(SelectedOf(y))
            /\ Ends(OrderOf(y)) => \A listing \in ListingsOf(y) :
                 /\ Len(seen) = q * y.page_size
                 /\ \A i \in 1..Len(seen) : seen[i] = listing[i]

(* The walk was shown all that the request y selects, once each.           *)
Complete(y) ==
  /\ Len(seen) = Cardinality(SelectedOf(y))
  /\ {seen[i] : i \in DOMAIN seen} = SelectedOf(y)

(* Page q has been answered: a short page ends a complete walk, unless the *)
(* order of a later page left the ties to the database; a full one is the  *)
(* next of the pages shown.                                                *)
Answered(y, q) ==
  answer.page.skip = q * Or(y.page_size, 1) =>
    /\ Len(answer.page.items) < answer.page.limit =>
         Complete(y) \/ (q > 0 /\ ~ Ends(OrderOf(y)))
    /\ Len(answer.page.items) = answer.page.limit /\ y.page_size # None =>
         Shown(y, q + 1)

(* The parameters of the first page.                                       *)
Last == Len(request)

(* The walk is at page q, d of whose parameters are read: x is what the    *)
(* same parameters gave for the first page, but for the page number.       *)
Walk(t, q, d) ==
  /\ q \in Nat /\ d \in 0..Last
  /\ Trace(t, d) /\ (q > 0 => Trace(t, Last))
  /\ x = OnPage(t[d], q)
  /\ pc = "params" => pairs = SubSeq(Asked(request, q), d + 1, Last)
  /\ pc # "params" => d = Last
  /\ pc # "answered" => Shown(t[Last], q)
  /\ pc = "answered" => Answered(t[Last], q)

(* A walk from the first page while nothing is saved.                      *)
Walking ==
  /\ quiet /\ FromFirstPage /\ view.route = "codex"
  /\ pc \in {"params", "count", "select"} \/ Listed

(* Views are kept under their ids.                                         *)
IdsAreKeys == \A id \in ViewIds : saved[id] # NoRow => saved[id]["id"] = id

(* A listing gives the window that was asked for.                          *)
AnswerIsWindow ==
  Listed => /\ answer.page.skip = Pagination(x).skip
            /\ answer.page.limit = Or(Pagination(x).limit, DefaultLimit)

(* A later page in no order was warned of.                                 *)
LaterPageIsWarned ==
  (pc = "select" \/ Listed) /\ Pagination(x).skip > 0 /\ Order = <<>> =>
    "page_order" \in warned

(* What a request with parameters is answered, if it is, is a page.        *)
AnswerHasPage ==
  pc = "answered" /\ answer.status = 200 /\ request # <<>> => "page" \in DOMAIN answer

(* The invariant of the walks.                                            *)
WalkInv ==
  /\ PagesInv
  /\ IdsAreKeys
  /\ seen \in Seq(ViewIds)
  /\ AnswerIsWindow
  /\ LaterPageIsWarned
  /\ AnswerHasPage
  /\ Walking => \E t, q, d : Walk(t, q, d)

-----------------------------------------------------------------------------
(* The parameters of page q are those of the first, but for its number.    *)
LEMMA AskedIs ==
  ASSUME NEW r \in Seq(Pair), NEW q
  PROVE  /\ DOMAIN Asked(r, q) = 1..Len(r) /\ Len(Asked(r, q)) = Len(r)
         /\ \A i \in 1..Len(r) : Asked(r, q)[i] = AskedPair(r[i], q)
         /\ q \in Nat => Asked(r, q) \in Seq(Pair)
  <1>1. Len(r) \in Nat /\ DOMAIN r = 1..Len(r)
    BY LenProperties
  <1>2. ASSUME NEW i \in 1..Len(r), q \in Nat
        PROVE  AskedPair(r[i], q) \in Pair
    <2> DEFINE pair == r[i]
    <2>1. pair \in Pair
      BY <1>1, ElementOfSeq
    <2> DEFINE value == Number(q)
    <2>2. value \in Value
      BY <1>2 DEF Value, Number
    <2> HIDE DEF value, pair
    <2>3. [key |-> pair.key, value |-> value] \in Pair
      BY <2>1, <2>2, RecordIsOf DEF Pair
    <2>. QED BY <2>1, <2>3 DEF AskedPair, value, pair
  <1>3. Asked(r, q) = [i \in 1..Len(r) |-> AskedPair(r[i], q)]
    BY <1>1 DEF Asked
  <1>4. Len(Asked(r, q)) = Len(r)
    BY <1>1, <1>3
  <1>. QED BY <1>1, <1>2, <1>3, <1>4

(* The first page is asked for with the request as it is.                  *)
LEMMA AskedAtFirst ==
  ASSUME request \in Seq(Pair), FromFirstPage
  PROVE  /\ Asked(request, 0) = request
         /\ \A i \in 1..Last : request[i].key = "page" => request[i].value = Number(0)
         /\ \E i \in 1..Last : request[i].key = "page"
  <1>1. Last \in Nat /\ DOMAIN request = 1..Last
    BY LenProperties DEF Last
  <1>2. \A i \in 1..Last : request[i] \in Pair
    BY <1>1, ElementOfSeq DEF Last
  <1> DEFINE first == {j \in DOMAIN request : request[j].key = "page"}
  <1>3. {request[i].value : i \in first} = {Number(0)}
    BY DEF FromFirstPage
  <1>4. \A i \in first : request[i].value = Number(0)
    BY <1>3
  <1>5. first # {}
    BY <1>3
  <1>6. ASSUME NEW i \in 1..Last
        PROVE  AskedPair(request[i], 0) = request[i]
    <2>1. request[i] \in Pair /\ (request[i].key = "page" => request[i].value = Number(0))
      BY <1>1, <1>2, <1>4
    <2>2. request[i] = [key |-> request[i].key, value |-> request[i].value]
      BY <2>1 DEF Pair
    <2>. QED BY <2>1, <2>2 DEF AskedPair
  <1>7. Asked(request, 0) = [i \in 1..Last |-> request[i]]
    BY <1>1, <1>6 DEF Asked
  <1>8. request = [i \in 1..Last |-> request[i]]
    BY <1>1
  <1>. QED BY <1>1, <1>4, <1>5, <1>7, <1>8

(* What is left of a sequence, and what is left after its head.            *)
LEMMA SubSeqStep ==
  ASSUME NEW T, NEW s \in Seq(T), NEW d \in Nat, d <= Len(s)
  PROVE  LET r == SubSeq(s, d + 1, Len(s))
         IN  /\ r = <<>> <=> d = Len(s)
             /\ r # <<>> => /\ Head(r) = s[d + 1]
                            /\ Tail(r) = SubSeq(s, d + 2, Len(s))
  <1> DEFINE n == Len(s)
             r == SubSeq(s, d + 1, n)
  <1>1. n \in Nat /\ DOMAIN s = 1..n /\ d <= n /\ n - d \in Nat
    BY LenProperties
  <1>2. r \in Seq(T) /\ Len(r) = n - d /\ \A i \in 1..(n - d) : r[i] = s[d + i]
    <2>1. d + 1 \in 1..(n + 1) /\ n \in d..n
      BY <1>1
    <2>2. r = [i \in 1..(n - d) |-> s[d + i]]
      BY <1>1, <2>1
    <2>3. \A i \in 1..(n - d) : d + i \in 1..n
      BY <1>1
    <2>4. \A i \in 1..n : s[i] \in T
      BY <1>1, ElementOfSeq
    <2> HIDE DEF r, n
    <2>. QED BY <1>1, <2>2, <2>3, <2>4
  <1>3. SubSeq(s, d + 2, n) = [i \in 1..(n - d - 1) |-> s[d + 1 + i]]
    BY <1>1
  <1> HIDE DEF r, n
  <1>4. r = <<>> <=> d = n
    BY <1>1, <1>2, EmptySeq
  <1>5. ASSUME r # <<>>
        PROVE  Head(r) = s[d + 1] /\ Tail(r) = SubSeq(s, d + 2, n)
    <2>1. d < n
      BY <1>1, <1>4, <1>5
    <2>2. Head(r) = r[1] /\ r[1] = s[d + 1]
      BY <1>1, <1>2, <1>5, <2>1
    <2>3. /\ Tail(r) \in Seq(T) /\ Len(Tail(r)) = Len(r) - 1
          /\ \A i \in 1..Len(Tail(r)) : Tail(r)[i] = r[i + 1]
      BY <1>2, <1>5, HeadTailProperties
    <2>4. \A i \in 1..(n - d - 1) : r[i + 1] = s[d + 1 + i]
      BY <1>1, <1>2, <2>1
    <2> DEFINE tail == Tail(r)
    <2>5. DOMAIN tail = 1..(n - d - 1) /\ tail = [i \in DOMAIN tail |-> tail[i]]
      BY <1>1, <1>2, <2>3, LenProperties
    <2> HIDE DEF tail
    <2>6. tail = [i \in 1..(n - d - 1) |-> s[d + 1 + i]]
      BY <1>1, <1>2, <2>3, <2>4, <2>5 DEF tail
    <2>. QED BY <1>3, <2>2, <2>6 DEF tail
  <1>. QED BY <1>4, <1>5 DEF r, n

(* The trace goes on with the next parameter.                              *)
LEMMA TraceGrows ==
  ASSUME request \in Seq(Pair), FromFirstPage, NEW t, NEW d \in 0..Last, d < Last,
         Trace(t, d)
  PROVE  LET z == ReadPair(t[d], view.fields, request[d + 1])
             more == [i \in 0..(d + 1) |-> IF i <= d THEN t[i] ELSE z]
         IN  Trace(more, d + 1)
  <1> DEFINE z == ReadPair(t[d], view.fields, request[d + 1])
             more == [i \in 0..(d + 1) |-> IF i <= d THEN t[i] ELSE z]
  <1>1. d \in Nat /\ Last \in Nat /\ d + 1 \in 1..Last
    BY LenProperties DEF Last
  <1>2. /\ \A i \in 0..d : more[i] = t[i]
        /\ more[d + 1] = z
    BY <1>1
  <1>3. Counts(t[d]) /\ t[d].page \in {None, 0}
    BY <1>1 DEF Trace
  <1>4. request[d + 1] \in Pair /\ (request[d + 1].key = "page" => request[d + 1].value = Number(0))
    BY <1>1, AskedAtFirst, ElementOfSeq DEF Last
  <1>5. /\ Counts(z)
        /\ z.page = IF request[d + 1].key = "page" THEN 0 ELSE t[d].page
    BY <1>3, <1>4, ReadPairKeeps, ReadPairOnPage
  <1> HIDE DEF more, z
  <1>6. z.page = IF \E j \in 1..(d + 1) : request[j].key = "page" THEN 0 ELSE None
    <2>1. t[d].page = IF \E j \in 1..d : request[j].key = "page" THEN 0 ELSE None
      BY <1>1 DEF Trace
    <2>2. 1..(d + 1) = 1..d \cup {d + 1}
      BY <1>1
    <2>. QED BY <1>5, <2>1, <2>2
  <1>7. more[0] = Blank
    BY <1>1, <1>2 DEF Trace
  <1>8. ASSUME NEW i \in 1..(d + 1)
        PROVE  more[i] = ReadPair(more[i - 1], view.fields, request[i])
    <2>1. CASE i <= d
      <3>1. i \in 1..d /\ i \in 0..d /\ i - 1 \in 0..d
        BY <1>1, <2>1
      <3>. QED BY <1>2, <3>1 DEF Trace
    <2>2. CASE i = d + 1
      <3>1. i - 1 = d /\ d \in 0..d
        BY <1>1, <2>2
      <3>. QED BY <1>2, <2>2, <3>1 DEF z
    <2>. QED BY <1>1, <2>1, <2>2
  <1>9. ASSUME NEW i \in 0..(d + 1)
        PROVE  /\ Counts(more[i])
               /\ more[i].page = IF \E j \in 1..i : request[j].key = "page" THEN 0 ELSE None
    <2>1. CASE i <= d
      <3>1. i \in 0..d
        BY <1>1, <2>1
      <3>. QED BY <1>2, <3>1 DEF Trace
    <2>2. CASE i = d + 1
      BY <1>2, <1>5, <1>6, <2>2
    <2>. QED BY <1>1, <2>1, <2>2
  <1>10. Trace(more, d + 1)
    BY <1>7, <1>8, <1>9 DEF Trace
  <1>. QED BY <1>10 DEF more, z

(* A page of the walk asks the same of the table as the first.             *)
LEMMA SameQuery ==
  ASSUME NEW y, Counts(y), NEW q, x = OnPage(y, q)
  PROVE  /\ Selected = SelectedOf(y) /\ Order = OrderOf(y)
         /\ x.skip = y.skip /\ x.limit = y.limit /\ x.page_size = y.page_size
         /\ x.page = IF y.page = None THEN None ELSE q
         /\ x.sort = y.sort
  <1>1. /\ \A f \in DOMAIN y : f # "page" => x[f] = y[f]
        /\ x.page = IF y.page = None THEN None ELSE q
    BY OnPageIs
  <1>2. DOMAIN y = {"rejected", "q", "skip", "limit", "page", "page_size", "sort", "rest"}
    BY DEF Counts
  <1>3. /\ x.q = y.q /\ x.rest = y.rest /\ x.sort = y.sort
        /\ x.skip = y.skip /\ x.limit = y.limit /\ x.page_size = y.page_size
    BY <1>1, <1>2
  <1>4. FilterOf(x, view.fields) = FilterOf(y, view.fields)
    BY <1>3 DEF FilterOf
  <1>5. Order = OrderOf(y)
    BY <1>3 DEF Order, OrderOf, SortOf
  <1>. QED BY <1>1, <1>3, <1>4, <1>5 DEF Selected, SelectedOf

(* What a walk rests on stays while table and request do.                  *)
LEMMA WalkFrame ==
  ASSUME UNCHANGED <<view, backend, rows, parent, request>>, NEW y, NEW t, NEW d
  PROVE  /\ SelectedOf(y)' = SelectedOf(y) /\ OrderOf(y)' = OrderOf(y)
         /\ ListingsOf(y)' = ListingsOf(y)
         /\ Trace(t, d)' <=> Trace(t, d)
         /\ Last' = Last
  <1>1. SelectedOf(y)' = SelectedOf(y) /\ OrderOf(y)' = OrderOf(y)
    BY DEF SelectedOf, OrderOf
  <1>2. ListingsOf(y)' = ListingsOf(y)
    BY <1>1 DEF ListingsOf
  <1>3. Trace(t, d)' <=> Trace(t, d)
    BY DEF Trace, Counts
  <1>. QED BY <1>1, <1>2, <1>3 DEF Last

(* What was shown stays shown while nothing more is.                       *)
LEMMA ShownFrame ==
  ASSUME UNCHANGED <<view, backend, rows, parent, request, seen>>, NEW y, NEW q
  PROVE  /\ Shown(y, q)' <=> Shown(y, q)
         /\ Complete(y)' <=> Complete(y)
  <1>1. /\ SelectedOf(y)' = SelectedOf(y) /\ OrderOf(y)' = OrderOf(y)
        /\ ListingsOf(y)' = ListingsOf(y)
    BY WalkFrame
  <1>2. Shown(y, q)' <=> Shown(y, q)
    BY <1>1 DEF Shown
  <1>3. Complete(y)' <=> Complete(y)
    BY <1>1 DEF Complete
  <1>. QED BY <1>2, <1>3

(* A trace is one up to each of its places.                                *)
LEMMA TracePrefix ==
  ASSUME NEW t, NEW n \in Nat, Trace(t, n), NEW d \in 0..n
  PROVE  Trace(t, d)
  <1>1. 0..d \subseteq 0..n /\ 1..d \subseteq 1..n
    OBVIOUS
  <1>. QED BY <1>1 DEF Trace

(* Nothing gathered is the same for every page.                            *)
LEMMA OnPageOfBlank ==
  ASSUME NEW q
  PROVE  OnPage(Blank, q) = Blank
  <1>1. "page" \in DOMAIN Blank /\ Blank.page = None
    BY DEF Blank
  <1>2. Blank = [f \in DOMAIN Blank |-> Blank[f]]
    BY DEF Blank
  <1>3. OnPage(Blank, q) = [f \in DOMAIN Blank |-> IF f = "page" THEN None ELSE Blank[f]]
    BY <1>1 DEF OnPage, With
  <1>. QED BY <1>1, <1>2, <1>3

(* The walk begins at page 0 with nothing read and nothing shown.          *)
LEMMA WalkBegins ==
  ASSUME Init, FromFirstPage
  PROVE  \E t, q, d : Walk(t, q, d)
  <1> DEFINE t == [i \in {0} |-> Blank]
  <1>1. /\ pc = "params" /\ pairs = request /\ x = Blank /\ seen = <<>>
        /\ request \in Seq(Pair)
    BY ReadsAssumption DEF Init
  <1>2. Last \in Nat
    BY <1>1, LenProperties DEF Last
  <1>3. Counts(Blank) /\ Blank.page = None
    BY DEF Counts, Blank
  <1>4. t[0] = Blank
    OBVIOUS
  <1> HIDE DEF t
  <1>5. Trace(t, 0)
    <2>1. 0..0 = {0} /\ 1..0 = {}
      OBVIOUS
    <2>. QED BY <1>3, <1>4, <2>1 DEF Trace
  <1>6. x = OnPage(t[0], 0)
    BY <1>1, <1>4, OnPageOfBlank
  <1>7. pairs = SubSeq(Asked(request, 0), 1, Last)
    <2>1. Asked(request, 0) = request
      BY <1>1, AskedAtFirst
    <2>2. SubSeq(request, 1, Len(request)) = request
      BY <1>1
    <2>. QED BY <1>1, <2>1, <2>2 DEF Last
  <1>8. Shown(t[Last], 0)
    BY <1>1 DEF Shown
  <1>9. Walk(t, 0, 0)
    BY <1>1, <1>2, <1>5, <1>6, <1>7, <1>8 DEF Walk
  <1>. QED BY <1>9

(* What holds of a walk whatever it is doing.                              *)
LEMMA WalkIs ==
  ASSUME WalkInv, Walking
  PROVE  /\ request \in Seq(Pair) /\ FromFirstPage /\ Last \in Nat
         /\ \E t, q, d : Walk(t, q, d)
  <1>1. request \in Seq(Pair)
    BY DEF WalkInv, PagesInv, ReadsInv, ParamsAreCounts
  <1>. QED BY <1>1, LenProperties DEF WalkInv, Walking, Last

(* The extractor takes the next parameter of a page.                       *)
LEMMA WalkReads ==
  ASSUME WalkInv, ReadParam, Walking'
  PROVE  (\E t, q, d : Walk(t, q, d))'
  <1>1. /\ pc = "params" /\ view.route = "codex" /\ pairs # <<>>
        /\ pairs' = Tail(pairs)
        /\ x' = ReadPair(x, view.fields, Head(pairs))
        /\ UNCHANGED <<view, backend, rows, parent, request, seen, quiet>>
    BY DEF ReadParam, tableVars
  <1>2. pc' = "params" /\ ~ x'.rejected
    <2>1. ~ x'.rejected \/ (pc' = "answered" /\ answer'.status = 422)
      BY DEF ReadParam, Respond, Refusal
    <2>2. ~ Listed' \/ ~ x'.rejected
      BY <2>1 DEF Listed
    <2>3. pc' = "params" \/ x'.rejected
      BY <1>1 DEF ReadParam
    <2>4. pc' = "answered" \/ ~ x'.rejected
      BY <2>1
    <2>. QED BY <2>2, <2>3, <2>4 DEF Walking
  <1>3. Walking
    BY <1>1 DEF Walking, FromFirstPage
  <1>4. request \in Seq(Pair) /\ FromFirstPage /\ Last \in Nat
    BY <1>3, WalkIs
  <1>5. PICK t, q, d : Walk(t, q, d)
    BY <1>3, WalkIs
  <1>6. /\ q \in Nat /\ d \in 0..Last /\ Trace(t, d) /\ (q > 0 => Trace(t, Last))
        /\ x = OnPage(t[d], q) /\ Shown(t[Last], q)
        /\ pairs = SubSeq(Asked(request, q), d + 1, Last)
    BY <1>1, <1>5 DEF Walk
  <1> DEFINE asked == Asked(request, q)
             pair == request[d + 1]
             z == ReadPair(t[d], view.fields, pair)
  <1>7. asked \in Seq(Pair) /\ Len(asked) = Last
    BY <1>4, <1>6, AskedIs DEF Last
  <1>8. /\ d < Last /\ Head(pairs) = asked[d + 1]
        /\ Tail(pairs) = SubSeq(asked, d + 2, Last)
    <2> HIDE DEF asked
    <2>1. d \in Nat /\ d <= Len(asked)
      BY <1>4, <1>6, <1>7
    <2>. QED BY <1>1, <1>4, <1>6, <1>7, <2>1, SubSeqStep DEF asked
  <1>9. Head(pairs) = AskedPair(pair, q) /\ pair \in Pair
        /\ (pair.key = "page" => pair.value = Number(0))
    <2>1. d + 1 \in 1..Last
      BY <1>4, <1>6, <1>8
    <2>. QED BY <1>4, <1>8, <2>1, AskedIs, AskedAtFirst, ElementOfSeq DEF Last
  <1>10. x' = OnPage(z, q)
    <2>1. Counts(t[d]) /\ t[d].page \in {None, 0}
      <3>1. d \in 0..d
        BY <1>4, <1>6
      <3>. QED BY <1>6, <3>1 DEF Trace
    <2>2. x' = ReadPair(OnPage(t[d], q), view.fields, AskedPair(pair, q))
      BY <1>1, <1>6, <1>9
    <2> DEFINE r == t[d]
               fields == view.fields
    <2> HIDE DEF r, fields, pair
    <2>3. \/ ReadPair(OnPage(r, q), fields, AskedPair(pair, q)).rejected
          \/ ReadPair(OnPage(r, q), fields, AskedPair(pair, q))
               = OnPage(ReadPair(r, fields, pair), q)
      BY <1>6, <1>9, <2>1, ReadPairOnPage DEF r
    <2>. QED BY <1>2, <2>2, <2>3 DEF r, fields
  <1>11. pairs' = SubSeq(asked, (d + 1) + 1, Last) /\ d + 1 \in 0..Last
    <2>1. d \in Nat /\ (d + 1) + 1 = d + 2
      BY <1>4, <1>6
    <2>. QED BY <1>1, <1>4, <1>6, <1>8, <2>1
  <1>12. Last' = Last /\ Asked(request, q)' = asked
    BY <1>1 DEF Last
  <1> HIDE DEF z, asked
  <1>13. CASE q > 0
    <2>1. Trace(t, Last) /\ Trace(t, d + 1) /\ t[d + 1] = z
      <3>1. Trace(t, Last) /\ d + 1 \in 1..Last
        BY <1>4, <1>6, <1>11, <1>13
      <3>2. t[d + 1] = ReadPair(t[(d + 1) - 1], view.fields, request[d + 1])
        BY <3>1 DEF Trace
      <3>3. (d + 1) - 1 = d
        BY <1>4, <1>6
      <3>. QED BY <1>4, <1>11, <3>1, <3>2, <3>3, TracePrefix DEF z
    <2>2. Trace(t, d + 1)' /\ Trace(t, Last)' /\ Shown(t[Last], q)'
      BY <1>1, <1>6, <1>12, <2>1, WalkFrame, ShownFrame
    <2>3. Walk(t, q, d + 1)'
      BY <1>2, <1>6, <1>10, <1>11, <1>12, <2>1, <2>2 DEF Walk, asked
    <2>. QED BY <2>3
  <1>14. CASE ~ (q > 0)
    <2> DEFINE longer == [i \in 0..(d + 1) |-> IF i <= d THEN t[i] ELSE z]
    <2>0. q = 0
      BY <1>6, <1>14
    <2>10. Trace(longer, d + 1) /\ longer[d + 1] = z
      <3>1. Trace(longer, d + 1)
        BY <1>4, <1>6, <1>8, TraceGrows DEF z
      <3>2. longer[d + 1] = z
        BY <1>4, <1>6
      <3>. QED BY <3>1, <3>2
    <2> HIDE DEF longer
    <2>11. PICK more : more = longer
      OBVIOUS
    <2>1. Trace(more, d + 1)
      BY <2>10, <2>11
    <2>2. more[d + 1] = z
      BY <2>10, <2>11
    <2>3. seen' = <<>>
      BY <1>1, <1>6, <2>0 DEF Shown
    <2>4. Trace(more, d + 1)' /\ (q > 0 => Trace(more, Last)')
      BY <1>1, <1>14, <2>1, WalkFrame
    <2>5. Shown(more[Last], q)'
      BY <2>0, <2>3 DEF Shown
    <2>6. x' = OnPage(more[d + 1], q)
      BY <1>10, <2>2
    <2>7. q \in Nat
      BY <1>6
    <2>8. Walk(more, q, d + 1)'
      BY <1>2, <1>11, <1>12, <2>4, <2>5, <2>6, <2>7 DEF Walk, asked
    <2>. QED BY <2>8
  <1>. QED BY <1>13, <1>14

(* All parameters of a page are read when they are checked.                *)
LEMMA WalkChecks ==
  ASSUME WalkInv, CheckParams, Walking'
  PROVE  (\E t, q, d : Walk(t, q, d))'
  <1>1. /\ pc = "params" /\ pairs = <<>>
        /\ UNCHANGED <<view, backend, rows, parent, request, seen, quiet, x>>
    BY DEF CheckParams, tableVars
  <1>2. pc' = "count"
    <2>1. \/ pc' = "count"
          \/ pc' = "answered" /\ (answer'.status = 422 \/ answer'.status = 400)
      BY DEF CheckParams, Respond, Refusal
    <2>. QED BY <2>1 DEF Walking, Listed
  <1>3. Walking
    BY <1>1 DEF Walking, FromFirstPage
  <1>4. request \in Seq(Pair) /\ FromFirstPage /\ Last \in Nat
    BY <1>3, WalkIs
  <1>5. PICK t, q, d : Walk(t, q, d)
    BY <1>3, WalkIs
  <1>6. /\ q \in Nat /\ d \in 0..Last /\ Trace(t, d) /\ (q > 0 => Trace(t, Last))
        /\ x = OnPage(t[d], q) /\ Shown(t[Last], q)
        /\ pairs = SubSeq(Asked(request, q), d + 1, Last)
    BY <1>1, <1>5 DEF Walk
  <1> DEFINE asked == Asked(request, q)
  <1>7. asked \in Seq(Pair) /\ Len(asked) = Last
    BY <1>4, <1>6, AskedIs DEF Last
  <1>8. d = Last
    <2> HIDE DEF asked
    <2>1. d \in Nat /\ d <= Len(asked)
      BY <1>4, <1>6, <1>7
    <2>. QED BY <1>1, <1>6, <1>7, <2>1, SubSeqStep DEF asked
  <1>9. Last' = Last
    BY <1>1 DEF Last
  <1>10. Trace(t, d)' /\ Shown(t[Last], q)'
    BY <1>1, <1>6, WalkFrame, ShownFrame
  <1>11. Walk(t, q, d)'
    BY <1>1, <1>2, <1>6, <1>8, <1>9, <1>10 DEF Walk
  <1>. QED BY <1>11

(* The count moves no walk.                                                *)
LEMMA WalkCounts ==
  ASSUME WalkInv, CountRows, Walking'
  PROVE  (\E t, q, d : Walk(t, q, d))'
  <1>1. /\ pc = "count" /\ pc' = "select"
        /\ UNCHANGED <<view, backend, rows, parent, request, seen, quiet, x>>
    BY DEF CountRows, tableVars
  <1>2. Walking
    BY <1>1 DEF Walking, FromFirstPage
  <1>3. PICK t, q, d : Walk(t, q, d)
    BY <1>2, WalkIs
  <1>4. /\ q \in Nat /\ d = Last /\ d \in 0..Last /\ Trace(t, d)
        /\ x = OnPage(t[d], q) /\ Shown(t[Last], q)
    BY <1>1, <1>3 DEF Walk
  <1>5. Last' = Last
    BY <1>1 DEF Last
  <1>6. Trace(t, d)' /\ Shown(t[Last], q)'
    BY <1>1, <1>4, WalkFrame, ShownFrame
  <1>7. Walk(t, q, d)'
    BY <1>1, <1>4, <1>5, <1>6 DEF Walk
  <1>. QED BY <1>7

(* After a full page the walk goes on to the next.                         *)
LEMMA WalkGoesOn ==
  ASSUME WalkInv, NextPage, Walking'
  PROVE  (\E t, q, d : Walk(t, q, d))'
  <1>1. /\ pc = "answered" /\ pc' = "params" /\ answer.status = 200
        /\ x.page # None /\ x.page_size # None
        /\ answer.page.skip = x.page * x.page_size
        /\ Len(answer.page.items) = answer.page.limit
        /\ x' = Blank
    BY DEF NextPage, tableVars
  <1>20. UNCHANGED <<view, backend, rows, parent, request, seen, quiet>>
    BY DEF NextPage, tableVars
  <1>0. quiet /\ FromFirstPage /\ view.route = "codex"
    BY <1>20 DEF Walking, FromFirstPage
  <1>2. request \in Seq(Pair) /\ FromFirstPage
    BY <1>0 DEF WalkInv, PagesInv, ReadsInv, ParamsAreCounts
  <1>3. Last \in Nat /\ (\E i \in 1..Last : request[i].key = "page")
    BY <1>2, AskedAtFirst, LenProperties DEF Last
  <1>4. Walking
    <2>1. request # <<>>
      BY <1>3 DEF Last
    <2>2. Listed
      BY <1>1, <2>1 DEF WalkInv, AnswerHasPage, Listed
    <2>. QED BY <1>0, <2>2 DEF Walking
  <1>5. PICK t, q, d : Walk(t, q, d)
    BY <1>4, WalkIs
  <1>6. /\ q \in Nat /\ d = Last /\ Trace(t, Last)
        /\ x = OnPage(t[Last], q) /\ Answered(t[Last], q)
    BY <1>1, <1>5 DEF Walk
  <1> DEFINE y == t[Last]
  <1>7. Counts(y) /\ t[0] = Blank
    <2>1. Last \in 0..Last
      BY <1>3
    <2>. QED BY <1>6, <2>1 DEF Trace
  <1> HIDE DEF y
  <1>8. x.page = q /\ x.page_size = y.page_size /\ y.page_size # None
    BY <1>1, <1>6, <1>7, SameQuery DEF y
  <1>9. Shown(y, q + 1)
    <2>1. answer.page.skip = q * Or(y.page_size, 1)
      BY <1>1, <1>8 DEF Or
    <2>. QED BY <1>1, <1>6, <1>8, <2>1 DEF Answered, y
  <1> DEFINE asked == Asked(request, q + 1)
  <1>10. pairs' = asked
    BY <1>8 DEF NextPage, Asked, AskedPair
  <1>11. pairs' = SubSeq(asked, 0 + 1, Last)
    <2>1. asked \in Seq(Pair) /\ Len(asked) = Last
      BY <1>2, <1>6, AskedIs DEF Last
    <2> HIDE DEF asked
    <2>2. SubSeq(asked, 1, Len(asked)) = asked
      BY <2>1
    <2>. QED BY <1>10, <2>1, <2>2
  <1>12. x' = OnPage(t[0], q + 1)
    BY <1>1, <1>7, OnPageOfBlank
  <1>13. Last' = Last /\ asked' = asked
    BY <1>20 DEF Last
  <1>14. Trace(t, 0)
    <2>1. 0 \in 0..Last
      BY <1>3
    <2>. QED BY <1>3, <1>6, <2>1, TracePrefix
  <1>15. Trace(t, 0)' /\ Trace(t, Last)' /\ Shown(t[Last], q + 1)'
    BY <1>20, <1>6, <1>9, <1>13, <1>14, WalkFrame, ShownFrame DEF y
  <1> HIDE DEF asked
  <1>16. q + 1 \in Nat /\ 0 \in 0..Last
    BY <1>3, <1>6
  <1>17. Walk(t, q + 1, 0)'
    BY <1>1, <1>11, <1>12, <1>13, <1>15, <1>16 DEF Walk, asked
  <1>. QED BY <1>17

(* A page has the rows at the positions of its window.                     *)
LEMMA PagePlaces ==
  ASSUME NEW b \in Backends, NEW skip \in Nat, NEW limit \in Nat \ {0}, NEW n \in Nat,
         skip <= n, NEW S, NEW listing \in [1..n -> S]
  PROVE  LET ids == PageSql(b, [skip |-> skip, limit |-> limit], listing)
         IN  /\ ids \in Seq(S) /\ Len(ids) \in Nat
             /\ Len(ids) <= limit /\ skip + Len(ids) <= n
             /\ Len(ids) < limit => skip + Len(ids) = n
             /\ \A k \in 1..Len(ids) : ids[k] = listing[skip + k]
  <1> DEFINE w == [skip |-> skip, limit |-> limit]
             ids == PageSql(b, w, listing)
             size == IF n - skip <= limit THEN n - skip ELSE limit
             at == Positions(b, w, Len(listing))
             before == {i \in DOMAIN listing : i <= w.skip}
             first == Cardinality(before)
  <1>1. Len(listing) = n
    BY LenProperties
  <1>2. at = {i \in 1..n : skip + 1 <= i /\ i < skip + 1 + limit}
    BY <1>1, PositionsAre
  <1>3. ids = [k \in 1..Cardinality(at) |-> listing[first + k]]
    BY DEF PageSql
  <1>4. before = 1..skip
    OBVIOUS
  <1> HIDE DEF at, before, ids, w
  <1>5. first = skip
    BY <1>4, FS_Interval
  <1>6. at = (skip + 1)..(skip + size) /\ size \in Nat /\ skip + size <= n
    BY <1>2
  <1> HIDE DEF size
  <1>7. Cardinality(at) = size
    <2>1. Cardinality((skip + 1)..(skip + size))
            = IF skip + 1 > skip + size THEN 0 ELSE (skip + size) - (skip + 1) + 1
      BY <1>6, FS_Interval
    <2>. QED BY <1>6, <2>1
  <1>8. \A k \in 1..size : skip + k \in 1..n
    BY <1>6
  <1> HIDE DEF first
  <1>9. ids = [k \in 1..size |-> listing[skip + k]]
    BY <1>3, <1>5, <1>7
  <1>10. ids \in Seq(S) /\ Len(ids) = size
    BY <1>6, <1>8, <1>9
  <1>11. \A k \in 1..Len(ids) : ids[k] = listing[skip + k]
    BY <1>9, <1>10
  <1>12. size <= limit /\ skip + size <= n /\ (size < limit => skip + size = n)
    BY DEF size
  <1>. QED BY <1>6, <1>10, <1>11, <1>12 DEF ids, w

(* What was shown begins the listing.                                      *)
Begins(s, listing) == \A i \in 1..Len(s) : s[i] = listing[i]

(* It still does when the next page comes.                                 *)
LEMMA ShownGrows ==
  ASSUME NEW b \in Backends, NEW skip \in Nat, NEW limit \in Nat \ {0}, NEW n \in Nat,
         skip <= n, NEW S, NEW listing \in [1..n -> S],
         NEW s \in Seq(S), Len(s) = skip, Begins(s, listing)
  PROVE  LET ids == PageSql(b, [skip |-> skip, limit |-> limit], listing)
         IN  /\ Len(s \o ids) = skip + Len(ids)
             /\ Begins(s \o ids, listing)
  <1> DEFINE ids == PageSql(b, [skip |-> skip, limit |-> limit], listing)
             r == s \o ids
  <1>1. /\ ids \in Seq(S) /\ Len(ids) \in Nat
        /\ \A k \in 1..Len(ids) : ids[k] = listing[skip + k]
    BY PagePlaces
  <1> HIDE DEF ids
  <1>2. /\ Len(r) = Len(s) + Len(ids)
        /\ \A i \in 1..(Len(s) + Len(ids)) :
             r[i] = IF i <= Len(s) THEN s[i] ELSE ids[i - Len(s)]
    BY <1>1, ConcatProperties
  <1> HIDE DEF r
  <1>3. ASSUME NEW i \in 1..Len(r)
        PROVE  r[i] = listing[i]
    <2>1. CASE i <= Len(s)
      BY <1>1, <1>2, <1>3, <2>1 DEF Begins
    <2>2. CASE ~ (i <= Len(s))
      <3>1. i - Len(s) \in 1..Len(ids) /\ skip + (i - Len(s)) = i
        BY <1>1, <1>2, <2>2
      <3>. QED BY <1>1, <1>2, <2>2, <3>1
    <2>. QED BY <2>1, <2>2
  <1>. QED BY <1>2, <1>3 DEF r, ids, Begins

(* A listing shown to its end was shown all that is selected.              *)
LEMMA AllIsShown ==
  ASSUME NEW S, IsFiniteSet(S), NEW T, NEW s \in Seq(T), NEW b, NEW t, NEW table, NEW order,
         NEW listing \in Listings(b, t, table, order, S), Len(s) = Cardinality(S),
         \A i \in 1..Len(s) : s[i] = listing[i]
  PROVE  {s[i] : i \in DOMAIN s} = S
  <1> DEFINE n == Cardinality(S)
  <1>1. n \in Nat /\ DOMAIN s = 1..n
    BY FS_CardinalityType, LenProperties
  <1>2. listing \in [1..n -> S] /\ \A i, j \in DOMAIN listing : i < j => listing[i] # listing[j]
    BY DEF Listings
  <1>3. \A a \in S : \E i \in 1..n : listing[i] = a
    BY <1>2, ListingHasAll
  <1> HIDE DEF n
  <1>4. \A i \in 1..n : s[i] = listing[i] /\ listing[i] \in S
    BY <1>2 DEF n
  <1>. QED BY <1>1, <1>3, <1>4

(* An order that names the id can be listed in one way only.               *)
LEMMA OneListingById ==
  ASSUME PagesInv, IdsAreKeys, pc \in {"count", "select"}, Ends(Order),
         NEW s \in Listings(backend, view.table, rows, Order, Selected),
         NEW u \in Listings(backend, view.table, rows, Order, Selected)
  PROVE  s = u
  <1> DEFINE at(id, k) == Field(backend, view.table, rows[id], Order[k].field)
  <1>1. /\ ReadsInv /\ FewRows /\ Gathered(x, view) /\ CheckSortFields(x, view.sortable)
        /\ view \in ViewTypes
    BY RowIs DEF PagesInv, Checked
  <1>2. PICK last \in DOMAIN Order : Order[last].field = "id"
    BY DEF Ends
  <1>3. /\ DOMAIN Order = 1..Len(Order) /\ Len(Order) \in Nat
        /\ \A k \in DOMAIN Order : Order[k].field \in Required
    BY <1>1, <1>2, SortFields DEF Order
  <1>4. ASSUME NEW id \in Selected
        PROVE  /\ \A k \in DOMAIN Order : at(id, k) \in Int
               /\ at(id, last) = id
    <2>1. id \in ViewIds /\ saved[id] # NoRow
      BY <1>1, SelectedIs
    <2>2. /\ Held(id) \in ViewOf /\ rows[id] = ToRow(backend, view.table, Held(id))
          /\ Held(id)["id"] = saved[id]["id"]
          /\ backend \in Backends /\ view.table \in Tables
      BY <1>1, <2>1, RowIs DEF Required
    <2>3. \A f \in Fields : Field(backend, view.table, rows[id], f) = Held(id)[f]
      BY <2>2, RowOfView
    <2>4. saved[id]["id"] = id
      BY <2>1 DEF IdsAreKeys
    <2>5. \A f \in Required : f \in Fields /\ Held(id)[f] \in Int
      BY <2>2 DEF ViewOf, Required, Fields
    <2>6. \A k \in DOMAIN Order : at(id, k) \in Int
      BY <1>3, <2>3, <2>5
    <2>7. at(id, last) = id
      BY <1>2, <1>3, <2>2, <2>3, <2>4, <2>5
    <2>. QED BY <2>6, <2>7
  <1>5. ASSUME NEW v \in Selected, NEW w \in Selected, v # w
        PROVE  /\ \/ Precedes(backend, view.table, rows, Order, v, w)
                  \/ Precedes(backend, view.table, rows, Order, w, v)
               /\ ~ (/\ Precedes(backend, view.table, rows, Order, v, w)
                     /\ Precedes(backend, view.table, rows, Order, w, v))
    <2>1. /\ \A k \in DOMAIN Order : at(v, k) \in Int /\ at(w, k) \in Int
          /\ \E k \in DOMAIN Order : at(v, k) # at(w, k)
      BY <1>2, <1>4, <1>5
    <2>. QED BY <1>3, <2>1, RowsAreOrdered
  <1>6. IsFiniteSet(Selected)
    BY <1>1, SelectedIsFinite
  <1>. QED BY <1>5, <1>6, OneListing

(* The answer to a page statement, and what it adds to what was shown.     *)
LEMMA SelectedPage ==
  ASSUME WalkInv, SelectRows, Listed'
  PROVE  \E listing \in Listings(backend, view.table, rows, Order, Selected) :
           LET skip == Pagination(x).skip
               limit == Or(Pagination(x).limit, DefaultLimit)
               ids == PageSql(backend, [skip |-> skip, limit |-> limit], listing)
           IN  /\ seen' = seen \o ids
               /\ answer'.page.skip = skip /\ answer'.page.limit = limit
               /\ Len(answer'.page.items) = Len(ids)
  <1> DEFINE n == Cardinality(Selected)
             skip == Pagination(x).skip
             limit == Or(Pagination(x).limit, DefaultLimit)
  <1>0. /\ ReadsInv /\ FewRows /\ Counts(x) /\ backend \in Backends
    BY DEF WalkInv, PagesInv, ReadsInv, ParamsAreCounts, RowsAreSaved
  <1>1. n \in Nat
    BY <1>0, SelectedIsFinite
  <1>2. /\ skip \in Nat /\ limit \in Nat \ {0}
        /\ PageWindow = [skip |-> skip, limit |-> limit]
    BY <1>0, WindowIs DEF PageWindow
  <1>3. Positions(backend, PageWindow, n) # NoPage
    <2>1. ASSUME Positions(backend, PageWindow, n) = NoPage
          PROVE  answer'.status = 500
      BY <2>1 DEF SelectRows, Respond, Refusal
    <2>. QED BY <2>1 DEF Listed
  <1>4. PICK listing \in Listings(backend, view.table, rows, Order, Selected) :
          LET ids == PageSql(backend, PageWindow, listing)
              items == [i \in DOMAIN ids |-> FromRow(backend, view.table, rows[ids[i]])]
          IN  /\ answer' = Ok(Paged(items, total, PageWindow))
              /\ seen' = seen \o ids
    BY <1>3 DEF SelectRows, Respond
  <1> DEFINE ids == PageSql(backend, PageWindow, listing)
             items == [i \in DOMAIN ids |-> FromRow(backend, view.table, rows[ids[i]])]
  <1>5. listing \in [1..n -> Selected]
    BY DEF Listings
  <1> HIDE DEF n, skip, limit
  <1>6. \E size \in Nat : ids \in [1..size -> Selected]
    BY <1>0, <1>1, <1>2, <1>5, PageSqlIs
  <1>7. /\ answer'.page.items = items
        /\ answer'.page.skip = skip /\ answer'.page.limit = limit
    <2> HIDE DEF items
    <2>. QED BY <1>2, <1>4 DEF Ok, Paged, items
  <1>8. seen' = seen \o ids
    BY <1>4
  <1> HIDE DEF ids
  <1>9. Len(items) = Len(ids)
    BY <1>6
  <1> HIDE DEF items
  <1>. QED BY <1>2, <1>7, <1>8, <1>9 DEF ids, skip, limit

(* The windows of the pages of a walk.                                     *)
LEMMA WalkWindows ==
  ASSUME NEW y, Counts(y), y.page = 0, NEW q \in Nat, x = OnPage(y, q), PageFits(x)
  PROVE  /\ Pagination(y).skip = Or(y.skip, 0)
         /\ y.skip = None /\ y.limit = None /\ y.page_size # None =>
              Pagination(x) = [skip |-> q * y.page_size, limit |-> y.page_size]
         /\ ~ (y.skip = None /\ y.limit = None /\ y.page_size # None) =>
              Pagination(x) = [skip |-> Or(y.skip, 0), limit |-> y.limit]
  <1>0. None # 0 /\ MaxI64 \in Nat /\ ~ (0 > MaxI64)
    BY CodexAssumption
  <1>1. /\ x.skip = y.skip /\ x.limit = y.limit /\ x.page_size = y.page_size
        /\ x.page = q
    BY <1>0, SameQuery
  <1>2. q # None
    BY CodexAssumption
  <1>3. Or(y.page, 0) = 0 /\ Or(x.page, 0) = q
    BY <1>0, <1>1, <1>2 DEF Or
  <1>4. CASE y.skip = None /\ y.limit = None /\ y.page_size # None
    <2> DEFINE p == y.page_size
               first == q * p
    <2>1. p \in Nat
      BY <1>4 DEF Counts
    <2>2. first \in Nat /\ first <= MaxI64 /\ 0 * p = 0
      BY <1>1, <1>2, <1>4, <2>1 DEF PageFits
    <2>3. Pagination(x) = [skip |-> IF first > MaxI64 THEN MaxI64 ELSE first, limit |-> p]
      BY <1>1, <1>3, <1>4 DEF Pagination
    <2>4. Pagination(y) = [skip |-> IF 0 * p > MaxI64 THEN MaxI64 ELSE 0 * p, limit |-> p]
      BY <1>3, <1>4 DEF Pagination
    <2>5. ~ (first > MaxI64)
      BY <1>0, <2>2
    <2> HIDE DEF first, p
    <2>6. Pagination(x) = [skip |-> first, limit |-> p]
      BY <2>3, <2>5
    <2>7. Pagination(y).skip = 0
      BY <1>0, <2>2, <2>4
    <2>. QED BY <1>4, <2>6, <2>7 DEF first, p, Or
  <1>5. CASE ~ (y.skip = None /\ y.limit = None /\ y.page_size # None)
    <2>1. Pagination(x) = [skip |-> Or(y.skip, 0), limit |-> y.limit]
      BY <1>1, <1>5 DEF Pagination
    <2>2. Pagination(y) = [skip |-> Or(y.skip, 0), limit |-> y.limit]
      BY <1>5 DEF Pagination
    <2>. QED BY <1>5, <2>1, <2>2
  <1>. QED BY <1>4, <1>5

(* A page is a sequence of what is listed.                                 *)
LEMMA PageIsSeq ==
  ASSUME NEW b \in Backends, NEW skip \in Nat, NEW limit \in Nat \ {0}, NEW n \in Nat,
         NEW S, NEW listing \in [1..n -> S]
  PROVE  PageSql(b, [skip |-> skip, limit |-> limit], listing) \in Seq(S)
  <1> DEFINE ids == PageSql(b, [skip |-> skip, limit |-> limit], listing)
             left == n - skip
             size == CASE left <= 0 -> 0
                       [] left > 0 /\ left <= limit -> left
                       [] OTHER -> limit
  <1>1. ids \in [1..size -> S] /\ size \in Nat
    BY PageSqlIs
  <1> HIDE DEF ids, size
  <1>2. ids \in Seq(S)
    BY <1>1
  <1>. QED BY <1>2 DEF ids

(* A page after q pages of size p.                                         *)
LEMMA Product ==
  ASSUME NEW q \in Nat, NEW p \in Nat \ {0}
  PROVE  q * p \in Nat /\ (q + 1) * p = q * p + p /\ (q > 0 => q * p > 0)
  OBVIOUS

(* A page of the walk: a short one is the last.                            *)
LEMMA WalkSelects ==
  ASSUME WalkInv, SelectRows, Walking'
  PROVE  (\E t, q, d : Walk(t, q, d))'
  <1>1. /\ pc = "select" /\ pc' = "answered"
        /\ UNCHANGED <<view, backend, rows, parent, request, quiet, x>>
    BY DEF SelectRows, Respond, tableVars
  <1>2. Listed'
    BY <1>1 DEF Walking
  <1>3. Walking
    BY <1>1 DEF Walking, FromFirstPage
  <1>4. request \in Seq(Pair) /\ FromFirstPage /\ Last \in Nat
    BY <1>3, WalkIs
  <1>5. PICK t, q, d : Walk(t, q, d)
    BY <1>3, WalkIs
  <1>6. PICK y : y = t[Last]
    OBVIOUS
  <1>7. /\ q \in Nat /\ d = Last /\ d \in 0..Last /\ Trace(t, d)
        /\ x = OnPage(y, q) /\ Shown(y, q) /\ t[d] = y
    BY <1>1, <1>5, <1>6 DEF Walk
  <1>8. Counts(y) /\ y.page = 0
    <2>1. Last \in 0..Last /\ \E j \in 1..Last : request[j].key = "page"
      BY <1>4, AskedAtFirst
    <2>. QED BY <1>6, <1>7, <2>1 DEF Trace
  <1> DEFINE S == Selected
             n == Cardinality(S)
             L == Listings(backend, view.table, rows, Order, S)
             skip == Pagination(x).skip
             limit == Or(Pagination(x).limit, DefaultLimit)
             p == y.page_size
  <1>9. /\ SelectedOf(y) = S /\ OrderOf(y) = Order /\ ListingsOf(y) = L
        /\ SelectedOf(y)' = S /\ OrderOf(y)' = Order /\ ListingsOf(y)' = L
    BY <1>1, <1>7, <1>8, SameQuery, WalkFrame DEF ListingsOf
  <1>10. /\ ReadsInv /\ FewRows /\ Counts(x) /\ PageFits(x) /\ backend \in Backends
         /\ seen \in Seq(ViewIds) /\ PagesInv /\ IdsAreKeys
    BY <1>1 DEF WalkInv, PagesInv, ReadsInv, ParamsAreCounts, RowsAreSaved, Checked
  <1>11. IsFiniteSet(S) /\ n \in Nat /\ S \subseteq ViewIds
    BY <1>10, SelectedIsFinite DEF Selected, Matching
  <1>12. skip \in Nat /\ limit \in Nat \ {0}
    BY <1>10, WindowIs
  <1>13. PICK listing \in L :
           LET ids == PageSql(backend, [skip |-> skip, limit |-> limit], listing)
           IN  /\ seen' = seen \o ids
               /\ answer'.page.skip = skip /\ answer'.page.limit = limit
               /\ Len(answer'.page.items) = Len(ids)
    BY <1>2, SelectedPage
  <1>14. listing \in [1..n -> S]
    BY DEF Listings
  <1>15. ASSUME Ends(Order), NEW other \in L
         PROVE  other = listing
    BY <1>1, <1>10, <1>15, OneListingById
  <1>16. /\ Pagination(y).skip = Or(y.skip, 0)
         /\ y.skip = None /\ y.limit = None /\ p # None => skip = q * p /\ limit = p
         /\ ~ (y.skip = None /\ y.limit = None /\ p # None) => skip = Or(y.skip, 0)
    <2>1. /\ Pagination(y).skip = Or(y.skip, 0)
          /\ y.skip = None /\ y.limit = None /\ p # None =>
               Pagination(x) = [skip |-> q * p, limit |-> p]
          /\ ~ (y.skip = None /\ y.limit = None /\ p # None) =>
               Pagination(x) = [skip |-> Or(y.skip, 0), limit |-> y.limit]
      BY <1>7, <1>8, <1>10, WalkWindows
    <2>. QED BY <2>1 DEF Or
  <1>17. p \in (Nat \ {0}) \cup {None}
    BY <1>8 DEF Counts
  <1> DEFINE ids == PageSql(backend, [skip |-> skip, limit |-> limit], listing)
  <1>18. ASSUME skip <= n, Len(seen) = skip, \A i \in 1..Len(seen) : seen[i] = listing[i]
         PROVE  /\ Len(seen') = skip + Len(ids)
                /\ \A i \in 1..Len(seen') : seen'[i] = listing[i]
    <2>1. PICK before : before = seen
      OBVIOUS
    <2>2. listing \in [1..n -> ViewIds]
      BY <1>11, <1>14
    <2>3. Len(before \o ids) = skip + Len(ids) /\ Begins(before \o ids, listing)
      <3> HIDE DEF S, n, L, skip, limit
      <3>1. before \in Seq(ViewIds) /\ Len(before) = skip /\ Begins(before, listing)
        BY <1>10, <1>18, <2>1 DEF Begins
      <3>. QED BY <1>10, <1>11, <1>12, <1>18, <2>2, <3>1, ShownGrows
    <2>. QED BY <1>13, <2>1, <2>3 DEF Begins
  <1>19. ASSUME skip <= n
         PROVE  /\ Len(answer'.page.items) < limit => skip + Len(ids) = n
                /\ Len(answer'.page.items) = limit => skip + limit <= n /\ Len(ids) = limit
                /\ Len(ids) \in Nat
    <2> HIDE DEF S, n, L, skip, limit
    <2>1. /\ Len(ids) \in Nat /\ Len(ids) <= limit /\ skip + Len(ids) <= n
          /\ Len(ids) < limit => skip + Len(ids) = n
      BY <1>10, <1>11, <1>12, <1>14, <1>19, PagePlaces
    <2>2. Len(answer'.page.items) = Len(ids)
      BY <1>13
    <2> HIDE DEF ids
    <2>. QED BY <1>11, <1>12, <1>19, <2>1, <2>2
  <1>20. seen' \in Seq(ViewIds)
    <2> HIDE DEF S, n, L, skip, limit
    <2>1. ids \in Seq(S)
      BY <1>10, <1>11, <1>12, <1>14, PageIsSeq
    <2> HIDE DEF ids
    <2>2. ids \in Seq(ViewIds)
      BY <1>11, <2>1
    <2>. QED BY <1>10, <1>13, <2>2, ConcatProperties DEF ids
  <1>21. ASSUME Len(seen') = n, \A i \in 1..Len(seen') : seen'[i] = listing[i]
         PROVE  Complete(y)'
    <2>1. listing \in Listings(backend, view.table, rows, Order, S) /\ IsFiniteSet(S)
      BY <1>11, <1>13
    <2>2. PICK after : after = seen'
      OBVIOUS
    <2>3. after \in Seq(ViewIds) /\ Len(after) = Cardinality(S)
          /\ \A i \in 1..Len(after) : after[i] = listing[i]
      BY <1>20, <1>21, <2>2
    <2> HIDE DEF S, n, L
    <2>4. {after[i] : i \in DOMAIN after} = S
      BY <2>1, <2>3, AllIsShown
    <2>. QED BY <1>9, <2>2, <2>3, <2>4 DEF Complete, n
  <1> HIDE DEF ids, S, n, L, skip, limit, p
  <1>22. /\ answer'.page.skip = skip /\ answer'.page.limit = limit
    BY <1>13 DEF skip, limit
  <1>23. Answered(y, q)'
    <2> SUFFICES ASSUME skip = q * Or(p, 1)
                 PROVE  /\ Len(answer'.page.items) < limit =>
                             Complete(y)' \/ (q > 0 /\ ~ Ends(Order))
                        /\ Len(answer'.page.items) = limit /\ p # None =>
                             Shown(y, q + 1)'
      <3> USE DEF Answered
      <3>. QED BY <1>9, <1>22 DEF p, Ends
    <2>1. CASE q = 0
      <3>1. seen = <<>> /\ Len(seen) = 0 /\ skip = 0 /\ skip <= n
        BY <1>7, <1>11, <1>17, <2>1 DEF Shown, Or
      <3>2. /\ Len(seen') = Len(ids) /\ \A i \in 1..Len(seen') : seen'[i] = listing[i]
        BY <1>18, <1>19, <3>1
      <3>3. ASSUME Len(answer'.page.items) < limit
            PROVE  Complete(y)'
        BY <1>19, <1>21, <3>1, <3>2, <3>3
      <3>4. ASSUME Len(answer'.page.items) = limit, p # None
            PROVE  Shown(y, q + 1)'
        <4>1. /\ Pagination(y).skip = 0
          BY <1>16, <3>1, <3>4 DEF Or
        <4>2. ASSUME y.skip = None, y.limit = None
              PROVE  /\ (q + 1) * p <= n
                     /\ Ends(Order) => \A other \in L :
                          /\ Len(seen') = (q + 1) * p
                          /\ \A i \in 1..Len(seen') : seen'[i] = other[i]
          <5>1. limit = p /\ p \in Nat /\ (q + 1) * p = p
            BY <1>16, <1>17, <2>1, <3>4, <4>2
          <5>2. limit <= n /\ Len(ids) = limit
            BY <1>12, <1>19, <3>1, <3>4
          <5>. QED BY <1>15, <3>2, <5>1, <5>2
        <4>. QED BY <1>7, <1>9, <3>4, <4>1, <4>2 DEF Shown, n, p, Ends
      <3>. QED BY <3>3, <3>4
    <2>2. CASE q > 0
      <3>1. /\ Or(y.skip, 0) = 0 /\ p # None
            /\ y.skip = None /\ y.limit = None =>
                 /\ q * p <= n
                 /\ Ends(Order) => /\ Len(seen) = q * p
                                   /\ \A i \in 1..Len(seen) : seen[i] = listing[i]
        BY <1>7, <1>9, <1>13, <1>16, <2>2 DEF Shown, n, p, Ends
      <3>2. p \in Nat \ {0} /\ Or(p, 1) = p
        BY <1>17, <3>1 DEF Or
      <3>3. skip = q * p /\ skip > 0 /\ (q + 1) * p = skip + p
        BY <1>7, <2>2, <3>2, Product
      <3>4. y.skip = None /\ y.limit = None /\ limit = p
        BY <1>12, <1>16, <3>1, <3>3
      <3>5. skip <= n /\ (Ends(Order) => /\ Len(seen) = skip
                                         /\ \A i \in 1..Len(seen) : seen[i] = listing[i])
        BY <3>1, <3>3, <3>4
      <3>6. ASSUME Len(answer'.page.items) < limit, Ends(Order)
            PROVE  Complete(y)'
        BY <1>18, <1>19, <1>21, <3>5, <3>6
      <3>7. ASSUME Len(answer'.page.items) = limit
            PROVE  Shown(y, q + 1)'
        <4>1. skip + limit <= n /\ Len(ids) = limit
          BY <1>19, <3>5, <3>7
        <4>2. ASSUME Ends(Order), NEW other \in L
              PROVE  /\ Len(seen') = (q + 1) * p
                     /\ \A i \in 1..Len(seen') : seen'[i] = other[i]
          <5>1. other = listing
            BY <1>15, <4>2
          <5>. QED BY <1>18, <3>3, <3>4, <3>5, <4>1, <4>2, <5>1
        <4>3. (q + 1) * p <= n /\ Pagination(y).skip = 0 /\ q + 1 # 0
          BY <1>7, <1>16, <3>1, <3>3, <3>4, <4>1
        <4>. QED BY <1>9, <3>1, <4>2, <4>3 DEF Shown, n, p, Ends
      <3>. QED BY <2>2, <3>6, <3>7
    <2>. QED BY <1>7, <2>1, <2>2
  <1>24. Last' = Last /\ Trace(t, d)'
    BY <1>1, <1>7, WalkFrame
  <1>25. Walk(t, q, d)'
    BY <1>1, <1>6, <1>7, <1>23, <1>24 DEF Walk
  <1>. QED BY <1>25

LEMMA KeysStay ==
  ASSUME ReadsInv, IdsAreKeys, [Next]_vars
  PROVE  IdsAreKeys'
  <1>1. CASE Save
    <2>1. PICK v \in Contents : saved' = [saved EXCEPT ![v["id"]] = v]
      BY <1>1 DEF Save
    <2>2. v["id"] \in ViewIds /\ v # NoRow
      BY ViewsAssumption, NoRowAssumption DEF Views
    <2>3. DOMAIN saved = ViewIds
      BY DEF ReadsInv, RowsAreSaved
    <2> DEFINE k == v["id"]
    <2>4. saved'[k] = v /\ \A id \in ViewIds : id # k => saved'[id] = saved[id]
      BY <2>1, <2>2, <2>3
    <2>. QED BY <2>2, <2>4 DEF IdsAreKeys
  <1>2. CASE ~ Save
    <2>1. saved' = saved
      BY <1>2 DEF Next, Idle, vars, tableVars, ReadParam, ReadPlainParams,
             CheckParams, CountRows, SelectRows, StatementFails, NextPage, FindOne
    <2>. QED BY <2>1 DEF IdsAreKeys
  <1>. QED BY <1>1, <1>2

(* Only ids are shown.                                                     *)
LEMMA SeenAreIds ==
  ASSUME WalkInv, [Next]_vars
  PROVE  seen' \in Seq(ViewIds)
  <1>0. seen \in Seq(ViewIds)
    BY DEF WalkInv
  <1>1. CASE SelectRows
    <2> DEFINE n == Cardinality(Selected)
               skip == Pagination(x).skip
               limit == Or(Pagination(x).limit, DefaultLimit)
    <2>1. /\ ReadsInv /\ FewRows /\ Counts(x) /\ backend \in Backends
      BY DEF WalkInv, PagesInv, ReadsInv, ParamsAreCounts, RowsAreSaved
    <2>2. n \in Nat
      BY <2>1, SelectedIsFinite
    <2>3. /\ skip \in Nat /\ limit \in Nat \ {0}
          /\ PageWindow = [skip |-> skip, limit |-> limit]
      BY <2>1, WindowIs DEF PageWindow
    <2>4. CASE seen' = seen
      BY <1>0, <2>4
    <2>5. CASE seen' # seen
      <3>1. PICK listing \in Listings(backend, view.table, rows, Order, Selected) :
              seen' = seen \o PageSql(backend, PageWindow, listing)
        BY <1>1, <2>5 DEF SelectRows
      <3> DEFINE ids == PageSql(backend, [skip |-> skip, limit |-> limit], listing)
      <3>2. listing \in [1..n -> Selected]
        BY DEF Listings
      <3> HIDE DEF n, skip, limit
      <3>3. ids \in Seq(Selected)
        BY <2>1, <2>2, <2>3, <3>2, PageIsSeq
      <3>4. seen' = seen \o ids
        BY <2>3, <3>1
      <3> HIDE DEF ids
      <3>5. Selected \subseteq ViewIds
        BY DEF Selected, Matching
      <3>6. ids \in Seq(ViewIds)
        BY <3>3, <3>5
      <3>. QED BY <1>0, <3>4, <3>6, ConcatProperties
    <2>. QED BY <2>4, <2>5
  <1>2. CASE ~ SelectRows
    <2>1. seen' = seen
      BY <1>2 DEF Next, Idle, vars, requestVars, ReadParam, ReadPlainParams,
             CheckParams, CountRows, StatementFails, NextPage, FindOne, Save
    <2>. QED BY <1>0, <2>1
  <1>. QED BY <1>1, <1>2

(* What is known of an answer and of the warning of its page.              *)
LEMMA AnswersStay ==
  ASSUME WalkInv, [Next]_vars
  PROVE  AnswerIsWindow' /\ LaterPageIsWarned' /\ AnswerHasPage'
  <1>0. AnswerIsWindow /\ LaterPageIsWarned /\ AnswerHasPage
    BY DEF WalkInv
  <1>1. CASE SelectRows
    <2>1. /\ pc = "select" /\ pc' = "answered"
          /\ UNCHANGED <<view, x, request, warned>>
      BY <1>1 DEF SelectRows, Respond, tableVars
    <2>2. AnswerIsWindow'
      <3>1. CASE ~ Listed'
        BY <3>1 DEF AnswerIsWindow
      <3>2. CASE Listed'
        <4>1. /\ answer'.page.skip = Pagination(x).skip
              /\ answer'.page.limit = Or(Pagination(x).limit, DefaultLimit)
          BY <1>1, <3>2, SelectedPage
        <4>. QED BY <2>1, <4>1 DEF AnswerIsWindow
      <3>. QED BY <3>1, <3>2
    <2>3. LaterPageIsWarned'
      BY <1>0, <2>1 DEF LaterPageIsWarned, Order
    <2>4. answer'.status = 500 \/ "page" \in DOMAIN answer'
      <3>1. \/ answer' = Refusal(500)
            \/ \E page : answer' = Ok(page)
        BY <1>1 DEF SelectRows, Respond
      <3>. QED BY <3>1 DEF Refusal, Ok
    <2>. QED BY <2>2, <2>3, <2>4 DEF AnswerHasPage
  <1>2. CASE Save \/ UNCHANGED vars
    <2>1. UNCHANGED <<view, x, request, warned, pc, answer>>
      BY <1>2 DEF Save, vars, requestVars, tableVars
    <2>. QED BY <1>0, <2>1 DEF AnswerIsWindow, LaterPageIsWarned, AnswerHasPage, Listed, Order
  <1>3. CASE \/ ReadParam \/ ReadPlainParams \/ CheckParams \/ CountRows
             \/ StatementFails \/ NextPage \/ FindOne
    <2>1. /\ ~ Listed' /\ (pc' = "select" => CountRows)
          /\ pc' = "answered" /\ answer'.status = 200 => FindOne
      BY <1>3, NoOtherListing
    <2>2. AnswerIsWindow'
      BY <2>1 DEF AnswerIsWindow
    <2>3. AnswerHasPage'
      <3>1. FindOne => request' = <<>>
        BY DEF FindOne
      <3>. QED BY <2>1, <3>1 DEF AnswerHasPage
    <2>4. LaterPageIsWarned'
      <3>1. CASE CountRows
        <4>1. /\ warned' = warned \cup PageOrderWarning(PageWindow)
              /\ UNCHANGED <<view, x>>
          BY <3>1 DEF CountRows, tableVars
        <4>2. Counts(x) /\ backend \in Backends
          BY DEF WalkInv, PagesInv, ReadsInv, ParamsAreCounts, RowsAreSaved
        <4>3. PageWindow.skip = Pagination(x).skip
          <5>1. PageWindow = [skip |-> Pagination(x).skip,
                              limit |-> Or(Pagination(x).limit, DefaultLimit)]
            BY <4>2, WindowIs DEF PageWindow
          <5>. QED BY <5>1
        <4>4. Order' = Order /\ Pagination(x)' = Pagination(x)
          BY <4>1 DEF Order
        <4>5. Pagination(x).skip > 0 /\ Order = <<>> =>
                "page_order" \in PageOrderWarning(PageWindow)
          BY <4>3 DEF PageOrderWarning
        <4>. QED BY <4>1, <4>4, <4>5 DEF LaterPageIsWarned
      <3>. QED BY <2>1, <3>1 DEF LaterPageIsWarned
    <2>. QED BY <2>2, <2>3, <2>4
  <1>. QED BY <1>1, <1>2, <1>3 DEF Next, Idle

(* No step leaves the walk.                                                *)
LEMMA WalkStays ==
  ASSUME WalkInv, [Next]_vars, Walking'
  PROVE  (\E t, q, d : Walk(t, q, d))'
  <1>1. CASE UNCHANGED vars
    <2>1. UNCHANGED <<view, backend, rows, parent, request, seen, quiet, x, pc, pairs, answer>>
      BY <1>1 DEF vars, requestVars, tableVars
    <2>2. Walking
      BY <2>1 DEF Walking, FromFirstPage, Listed
    <2>3. PICK t, q, d : Walk(t, q, d)
      BY <2>2, WalkIs
    <2> DEFINE y == t[Last]
    <2>4. Last' = Last
      BY <2>1 DEF Last
    <2>5. /\ Trace(t, d) <=> Trace(t, d)'
          /\ Trace(t, Last) <=> Trace(t, Last)'
      BY <2>1, <2>4, WalkFrame
    <2>6. /\ Shown(y, q)' <=> Shown(y, q)
          /\ Shown(y, q + 1)' <=> Shown(y, q + 1)
          /\ Complete(y)' <=> Complete(y)
          /\ OrderOf(y)' = OrderOf(y)
      <3>1. PICK z : z = y
        OBVIOUS
      <3>2. /\ Shown(z, q)' <=> Shown(z, q)
            /\ Shown(z, q + 1)' <=> Shown(z, q + 1)
            /\ Complete(z)' <=> Complete(z)
            /\ OrderOf(z)' = OrderOf(z)
        BY <2>1, WalkFrame, ShownFrame
      <3>3. y' = z
        BY <2>4, <3>1
      <3>. QED BY <3>1, <3>2, <3>3
    <2>7. Answered(y, q)' <=> Answered(y, q)
      BY <2>1, <2>4, <2>6 DEF Answered, Ends
    <2>. QED BY <2>1, <2>3, <2>4, <2>5, <2>6, <2>7 DEF Walk
  <1>2. CASE ReadPlainParams
    <2>1. view.route = "plain" /\ view' = view
      BY <1>2 DEF ReadPlainParams, tableVars
    <2>. QED BY <2>1 DEF Walking
  <1>3. CASE StatementFails \/ FindOne
    <2>1. ~ Listed' /\ pc' = "answered"
      BY <1>3, NoOtherListing DEF StatementFails, FindOne, Respond
    <2>. QED BY <2>1 DEF Walking
  <1>4. CASE Save
    BY <1>4 DEF Save, Walking
  <1>. QED BY <1>1, <1>2, <1>3, <1>4, WalkReads, WalkChecks, WalkCounts, WalkSelects,
              WalkGoesOn DEF Next, Idle

(* At first there is no walk but the one that begins.                      *)
LEMMA WalkInvBegins == Init => WalkInv
  <1> SUFFICES ASSUME Init PROVE WalkInv
    OBVIOUS
  <1>1. IdsAreKeys
    <2>1. PICK there \in Stored :
            saved = [id \in ViewIds |->
              IF \E v \in there : v["id"] = id
                THEN CHOOSE v \in there : v["id"] = id
                ELSE NoRow]
      BY DEF Init
    <2>2. ASSUME NEW id \in ViewIds, saved[id] # NoRow
          PROVE  saved[id]["id"] = id
      <3>1. \E v \in there : v["id"] = id
        BY <2>1, <2>2
      <3> DEFINE w == CHOOSE v \in there : v["id"] = id
      <3>2. saved[id] = w
        BY <2>1, <3>1
      <3>3. w["id"] = id
        BY <3>1
      <3>. QED BY <3>2, <3>3
    <2>. QED BY <2>2 DEF IdsAreKeys
  <1>2. pc = "params" /\ seen = <<>> /\ ~ Listed
    BY DEF Init, Listed
  <1>3. seen \in Seq(ViewIds)
    BY <1>2, EmptySeq
  <1>4. Walking => \E t, q, d : Walk(t, q, d)
    BY WalkBegins DEF Walking
  <1>. QED BY <1>1, <1>2, <1>3, <1>4, PagesBegin
       DEF WalkInv, AnswerIsWindow, LaterPageIsWarned, AnswerHasPage

(* The invariant of the walks.                                             *)
LEMMA WalkIsInductive == Spec => []WalkInv
  <1>1. WalkInv /\ [Next]_vars => WalkInv'
    <2> SUFFICES ASSUME WalkInv, [Next]_vars PROVE WalkInv'
      OBVIOUS
    <2>1. PagesInv' /\ IdsAreKeys'
      BY PagesStep, KeysStay DEF WalkInv, PagesInv
    <2>2. (Walking => \E t, q, d : Walk(t, q, d))'
      BY WalkStays
    <2>. QED BY <2>1, <2>2, SeenAreIds, AnswersStay DEF WalkInv
  <1>. QED BY <1>1, WalkInvBegins, PTL DEF Spec

(* A walk over all pages, while nothing is saved, shows every view of the  *)
(* listing once, unless the order lacks the id; and where there was no     *)
(* order at all, it was warned of.                                         *)
THEOREM WalkGapsAreExplained == Spec => []WalkGapIsExplained
  <1>1. WalkInv => WalkGapIsExplained
    <2> SUFFICES ASSUME WalkInv, Listed, quiet, FromFirstPage,
                        answer.page.skip = Or(x.page, -1) * Or(x.page_size, 1),
                        Len(answer.page.items) < answer.page.limit
                 PROVE  \/ /\ Len(seen) = Cardinality(Selected)
                           /\ {seen[i] : i \in DOMAIN seen} = Selected
                        \/ /\ ~ Ends(Order)
                           /\ Order = <<>> => "page_order" \in warned
      BY DEF WalkGapIsExplained, Order, SortOf
    <2>1. /\ Counts(x) /\ Gathered(x, view) /\ backend \in Backends /\ view \in ViewType
      BY RowIs DEF WalkInv, PagesInv, ReadsInv, ParamsAreCounts, RowsAreSaved
    <2>2. answer.page.skip = Pagination(x).skip /\ Pagination(x).skip \in Nat
      BY <2>1, WindowIs DEF WalkInv, AnswerIsWindow
    <2>3. x.page_size \in (Nat \ {0}) \cup {None}
      BY <2>1 DEF Counts
    <2>4. Or(x.page_size, 1) \in Nat \ {0}
      BY <2>3 DEF Or
    <2>5. view.route = "codex"
      <3>1. ASSUME view.route = "plain"
            PROVE  FALSE
        <4>1. Or(x.page, -1) = -1
          BY <2>1, <3>1 DEF Gathered, Or
        <4> DEFINE size == Or(x.page_size, 1)
        <4>2. answer.page.skip = (-1) * size /\ size \in Nat \ {0}
          BY <2>4, <4>1
        <4> HIDE DEF size
        <4>. QED BY <2>2, <4>2
      <3>. QED BY <2>1, <3>1 DEF ViewType
    <2>6. Walking
      BY <2>5 DEF Walking
    <2>7. request \in Seq(Pair) /\ Last \in Nat /\ pc = "answered"
      BY <2>6, WalkIs DEF Listed
    <2>8. PICK t, q, d : Walk(t, q, d)
      BY <2>6, WalkIs
    <2>9. PICK y : y = t[Last]
      OBVIOUS
    <2>10. q \in Nat /\ Trace(t, Last) /\ x = OnPage(y, q) /\ Answered(y, q)
      BY <2>7, <2>8, <2>9 DEF Walk
    <2>11. Counts(y) /\ y.page = 0
      <3>1. Last \in 0..Last /\ \E j \in 1..Last : request[j].key = "page"
        BY <2>7, AskedAtFirst
      <3>. QED BY <2>9, <2>10, <3>1 DEF Trace
    <2>12. /\ Selected = SelectedOf(y) /\ Order = OrderOf(y)
           /\ x.page = q /\ x.page_size = y.page_size
      <3>1. None # 0
        BY CodexAssumption
      <3>. QED BY <2>10, <2>11, <3>1, SameQuery
    <2>13. Or(x.page, -1) = q
      <3>1. q # None
        BY <2>10, CodexAssumption
      <3>. QED BY <2>12, <3>1 DEF Or
    <2>14. Complete(y) \/ (q > 0 /\ ~ Ends(OrderOf(y)))
      BY <2>10, <2>12, <2>13 DEF Answered
    <2>15. CASE Complete(y)
      BY <2>12, <2>15 DEF Complete
    <2>16. CASE q > 0 /\ ~ Ends(OrderOf(y))
      <3> DEFINE size == Or(x.page_size, 1)
      <3>1. answer.page.skip = q * size /\ size \in Nat \ {0}
        BY <2>4, <2>13
      <3> HIDE DEF size
      <3>2. answer.page.skip > 0
        BY <2>10, <2>16, <3>1, Product
      <3>. QED BY <2>2, <2>12, <2>16, <3>2 DEF WalkInv, LaterPageIsWarned
    <2>. QED BY <2>14, <2>15, <2>16
  <1>. QED BY <1>1, WalkIsInductive, PTL

-----------------------------------------------------------------------------
(* Errors. *)

(* The arms of From<StatusCode>: a status with one gets the code of that   *)
(* name, every other one the code that keeps it.                           *)
HistoricalStatuses == {500, 400, 404, 409, 401, 403, 410}
LaterStatuses ==
  {402, 405, 406, 408, 412, 413, 415, 422, 423, 428, 429, 501, 503, 504}

LEMMA ArmsOfHistorical ==
  ASSUME NEW s \in HistoricalStatuses
  PROVE  \E name \in DOMAIN HistoricalStatus :
           /\ GenericFromStatus(s) = Historical(name)
           /\ HistoricalStatus[name] = s
  <1>1. CASE s = 500
    <2>1. GenericFromStatus(s) = Historical("InternalError")
      BY <1>1 DEF GenericFromStatus
    <2>. QED BY <1>1, <2>1 DEF HistoricalStatus
  <1>2. CASE s = 400
    <2>1. GenericFromStatus(s) = Historical("ValidationFailed")
      BY <1>2 DEF GenericFromStatus
    <2>. QED BY <1>2, <2>1 DEF HistoricalStatus
  <1>3. CASE s = 404
    <2>1. GenericFromStatus(s) = Historical("NotFound")
      BY <1>3 DEF GenericFromStatus
    <2>. QED BY <1>3, <2>1 DEF HistoricalStatus
  <1>4. CASE s = 409
    <2>1. GenericFromStatus(s) = Historical("Conflict")
      BY <1>4 DEF GenericFromStatus
    <2>. QED BY <1>4, <2>1 DEF HistoricalStatus
  <1>5. CASE s = 401
    <2>1. GenericFromStatus(s) = Historical("Unauthorized")
      BY <1>5 DEF GenericFromStatus
    <2>. QED BY <1>5, <2>1 DEF HistoricalStatus
  <1>6. CASE s = 403
    <2>1. GenericFromStatus(s) = Historical("Forbidden")
      BY <1>6 DEF GenericFromStatus
    <2>. QED BY <1>6, <2>1 DEF HistoricalStatus
  <1>7. CASE s = 410
    <2>1. GenericFromStatus(s) = Historical("Gone")
      BY <1>7 DEF GenericFromStatus
    <2>. QED BY <1>7, <2>1 DEF HistoricalStatus
  <1>. QED BY <1>1, <1>2, <1>3, <1>4, <1>5, <1>6, <1>7 DEF HistoricalStatuses

LEMMA ArmsOfLater ==
  ASSUME NEW s \in LaterStatuses
  PROVE  \E name \in DOMAIN LaterStatus :
           /\ GenericFromStatus(s) = Later(name)
           /\ LaterStatus[name] = s
           /\ LaterIndex[name] = s
  <1>1. CASE s = 402
    <2>1. GenericFromStatus(s) = Later("PaymentRequired")
      BY <1>1 DEF GenericFromStatus
    <2>. QED BY <1>1, <2>1 DEF LaterStatus, LaterIndex
  <1>2. CASE s = 405
    <2>1. GenericFromStatus(s) = Later("MethodNotAllowed")
      BY <1>2 DEF GenericFromStatus
    <2>. QED BY <1>2, <2>1 DEF LaterStatus, LaterIndex
  <1>3. CASE s = 406
    <2>1. GenericFromStatus(s) = Later("NotAcceptable")
      BY <1>3 DEF GenericFromStatus
    <2>. QED BY <1>3, <2>1 DEF LaterStatus, LaterIndex
  <1>4. CASE s = 408
    <2>1. GenericFromStatus(s) = Later("RequestTimeout")
      BY <1>4 DEF GenericFromStatus
    <2>. QED BY <1>4, <2>1 DEF LaterStatus, LaterIndex
  <1>5. CASE s = 412
    <2>1. GenericFromStatus(s) = Later("PreconditionFailed")
      BY <1>5 DEF GenericFromStatus
    <2>. QED BY <1>5, <2>1 DEF LaterStatus, LaterIndex
  <1>6. CASE s = 413
    <2>1. GenericFromStatus(s) = Later("PayloadTooLarge")
      BY <1>6 DEF GenericFromStatus
    <2>. QED BY <1>6, <2>1 DEF LaterStatus, LaterIndex
  <1>7. CASE s = 415
    <2>1. GenericFromStatus(s) = Later("UnsupportedMediaType")
      BY <1>7 DEF GenericFromStatus
    <2>. QED BY <1>7, <2>1 DEF LaterStatus, LaterIndex
  <1>8. CASE s = 422
    <2>1. GenericFromStatus(s) = Later("UnprocessableEntity")
      BY <1>8 DEF GenericFromStatus
    <2>. QED BY <1>8, <2>1 DEF LaterStatus, LaterIndex
  <1>9. CASE s = 423
    <2>1. GenericFromStatus(s) = Later("Locked")
      BY <1>9 DEF GenericFromStatus
    <2>. QED BY <1>9, <2>1 DEF LaterStatus, LaterIndex
  <1>10. CASE s = 428
    <2>1. GenericFromStatus(s) = Later("PreconditionRequired")
      BY <1>10 DEF GenericFromStatus
    <2>. QED BY <1>10, <2>1 DEF LaterStatus, LaterIndex
  <1>11. CASE s = 429
    <2>1. GenericFromStatus(s) = Later("TooManyRequests")
      BY <1>11 DEF GenericFromStatus
    <2>. QED BY <1>11, <2>1 DEF LaterStatus, LaterIndex
  <1>12. CASE s = 501
    <2>1. GenericFromStatus(s) = Later("NotImplemented")
      BY <1>12 DEF GenericFromStatus
    <2>. QED BY <1>12, <2>1 DEF LaterStatus, LaterIndex
  <1>13. CASE s = 503
    <2>1. GenericFromStatus(s) = Later("ServiceUnavailable")
      BY <1>13 DEF GenericFromStatus
    <2>. QED BY <1>13, <2>1 DEF LaterStatus, LaterIndex
  <1>14. CASE s = 504
    <2>1. GenericFromStatus(s) = Later("GatewayTimeout")
      BY <1>14 DEF GenericFromStatus
    <2>. QED BY <1>14, <2>1 DEF LaterStatus, LaterIndex
  <1>. QED BY <1>1, <1>2, <1>3, <1>4, <1>5, <1>6, <1>7,
              <1>8, <1>9, <1>10, <1>11, <1>12, <1>13, <1>14 DEF LaterStatuses

LEMMA ArmOfTheOthers ==
  ASSUME NEW s \in StatusCode, s \notin HistoricalStatuses, s \notin LaterStatuses
  PROVE  GenericFromStatus(s) = Other(s)
  BY DEF GenericFromStatus, HistoricalStatuses, LaterStatuses

(* The three tables agree: the generic code of a status has that status,   *)
(* so that an error made of an HTTP status is answered with it.            *)
LEMMA GenericFromStatusHasStatus ==
  ASSUME NEW s \in StatusCode
  PROVE  /\ GenericFromStatus(s).status = s
         /\ GenericFromStatus(s).prefix = 1
         /\ GenericFromStatus(s).domain = "generic"
  <1>1. CASE s \in HistoricalStatuses
    BY <1>1, ArmsOfHistorical DEF Historical, Code
  <1>2. CASE s \in LaterStatuses
    BY <1>2, ArmsOfLater DEF Later, Code
  <1>3. CASE s \notin HistoricalStatuses /\ s \notin LaterStatuses
    BY <1>3, ArmOfTheOthers DEF Other, Code
  <1>. QED BY <1>1, <1>2, <1>3

(* CqrsError::from_status and its answer: a status that was put in comes   *)
(* out, in the response and in the problem document.                       *)
THEOREM StatusIsPreserved ==
  ASSUME NEW s \in StatusCode, NEW base
  PROVE  /\ HttpStatus(FromStatus(s)) = s
         /\ Problem(base, FromStatus(s)).status = s
  <1>1. FromStatus(s).status = s
    BY GenericFromStatusHasStatus DEF FromStatus, FromCode
  <1> QED BY <1>1 DEF HttpStatus, Problem

OwnIndex(status, index) ==
  \/ status = 500 /\ index = 0
  \/ status = 400 /\ index = 1
  \/ status = 404 /\ index = 2
  \/ status = 409 /\ index = 3
  \/ status = 401 /\ index = 4
  \/ status = 403 /\ index = 5
  \/ status = 410 /\ index = 6

(* Which index a generic code has: a small one of its own, or its status.  *)
LEMMA GenericFromStatusIndex ==
  ASSUME NEW s \in StatusCode
  PROVE  \/ OwnIndex(s, GenericFromStatus(s).index)
         \/ GenericFromStatus(s).index = s
  <1>1. CASE s \in HistoricalStatuses
    <2>1. PICK n \in DOMAIN HistoricalStatus :
            GenericFromStatus(s) = Historical(n) /\ HistoricalStatus[n] = s
      BY <1>1, ArmsOfHistorical
    <2>2. GenericFromStatus(s).index = HistoricalIndex[n]
      BY <2>1 DEF Historical, Code
    <2>3. n \in {"InternalError", "ValidationFailed", "NotFound", "Conflict",
                 "Unauthorized", "Forbidden", "Gone"}
      BY <2>1 DEF HistoricalStatus
    <2>. QED BY <2>1, <2>2, <2>3 DEF HistoricalStatus, HistoricalIndex, OwnIndex
  <1>2. CASE s \in LaterStatuses
    BY <1>2, ArmsOfLater DEF Later, Code
  <1>3. CASE s \notin HistoricalStatuses /\ s \notin LaterStatuses
    BY <1>3, ArmOfTheOthers DEF Other, Code
  <1>. QED BY <1>1, <1>2, <1>3

(* The indexes tell the statuses apart.                                    *)
LEMMA IndexTellsStatus ==
  ASSUME NEW s \in Nat, NEW t \in Nat, NEW i \in Nat, NEW j \in Nat,
         s >= 100, t >= 100,
         OwnIndex(s, i) \/ i = s, OwnIndex(t, j) \/ j = t,
         1000 + i = 1000 + j
  PROVE  s = t
  BY DEF OwnIndex

(* The internal code of a generic error: its index after the prefix, in u16. *)
LEMMA GenericInternalCode ==
  ASSUME NEW s \in StatusCode
  PROVE  LET i == GenericFromStatus(s).index IN
         /\ i \in Nat /\ i <= 999
         /\ OwnIndex(s, i) \/ i = s
         /\ FromStatus(s).internalCode = 1000 + i
  <1> DEFINE i == GenericFromStatus(s).index
  <1>1. OwnIndex(s, i) \/ i = s
    BY GenericFromStatusIndex
  <1>2. FromStatus(s).internalCode = (1 * 1000 + i) % 65536
    BY GenericFromStatusHasStatus DEF FromStatus, FromCode, InternalCode, MaxU16
  <1> HIDE DEF i
  <1>3. s \in Nat /\ s <= 999
    BY DEF StatusCode
  <1>4. i \in Nat /\ i <= 999
    BY <1>1, <1>3 DEF OwnIndex
  <1>5. (1 * 1000 + i) % 65536 = 1000 + i
    BY <1>4
  <1> QED BY <1>1, <1>2, <1>4, <1>5 DEF i

(* Two statuses never share an internal code, and none of theirs is an     *)
(* infrastructure code: the number alone tells what was meant.             *)
THEOREM GenericCodesAreDistinct ==
  ASSUME NEW s \in StatusCode, NEW t \in StatusCode
  PROVE  /\ FromStatus(s).internalCode = FromStatus(t).internalCode => s = t
         /\ FromStatus(s).internalCode \in 1000..1999
  <1> DEFINE i == GenericFromStatus(s).index
             j == GenericFromStatus(t).index
  <1>1. /\ i \in Nat /\ i <= 999
        /\ OwnIndex(s, i) \/ i = s
        /\ FromStatus(s).internalCode = 1000 + i
    BY GenericInternalCode
  <1>2. /\ j \in Nat
        /\ OwnIndex(t, j) \/ j = t
        /\ FromStatus(t).internalCode = 1000 + j
    BY GenericInternalCode
  <1> HIDE DEF i, j
  <1>3. s \in Nat /\ t \in Nat /\ s >= 100 /\ t >= 100
    BY DEF StatusCode
  <1>4. ASSUME FromStatus(s).internalCode = FromStatus(t).internalCode
        PROVE  s = t
    <2>1. 1000 + i = 1000 + j
      BY <1>1, <1>2, <1>4
    <2> QED BY <1>1, <1>2, <1>3, <2>1, IndexTellsStatus
  <1>5. 1000 + i \in 1000..1999
    BY <1>1
  <1> QED BY <1>1, <1>4, <1>5

(* No infrastructure error has a number of the generic range.              *)
THEOREM InfrastructureCodesAreApart ==
  ASSUME NEW name \in DOMAIN InfrastructureIndex
  PROVE  /\ Infrastructure(name).internalCode = InfrastructureIndex[name]
         /\ Infrastructure(name).internalCode \in 0..99
  <1>1. name \in {"InternalError", "ValidationFailed", "NotFound", "Conflict",
                  "Unauthorized", "Forbidden", "Gone", "DatabaseError",
                  "SerializationError", "AggregateNotFound",
                  "ConcurrencyError", "DomainError", "CqrsInternalError",
                  "ConfigurationError", "Unknown"}
    BY DEF InfrastructureIndex
  <1>2. InfrastructureIndex[name] \in 0..99
    BY <1>1 DEF InfrastructureIndex
  <1>3. Infrastructure(name).internalCode
          = (0 * 1000 + InfrastructureIndex[name]) % 65536
    BY DEF Infrastructure, FromCode, InternalCode, Code, MaxU16
  <1>4. (0 * 1000 + InfrastructureIndex[name]) % 65536
          = InfrastructureIndex[name]
    BY <1>2
  <1> QED BY <1>2, <1>3, <1>4

(* An error that was read back from JSON has lost its status, and whoever  *)
(* passes it on answers 500, whatever it was before.                       *)
THEOREM DeserializedAnswers500 ==
  ASSUME NEW s \in StatusCode, NEW base
  PROVE  Problem(base, Deserialized(FromStatus(s))).status = 500
  <1>1. Deserialized(FromStatus(s)).status = 0
    BY DEF Deserialized, FromStatus, FromCode
  <1>2. 0 \notin StatusCode
    BY DEF StatusCode
  <1> QED BY <1>1, <1>2 DEF Problem, HttpStatus
=============================================================================
