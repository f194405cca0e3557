-------------------------------- MODULE Reads -------------------------------
(***************************************************************************)
(* The read side: a client lists the views of a type, page after page, or  *)
(* asks for one by its id, while dispatchers save views.                   *)
(*                                                                         *)
(* A listing reads its parameters one by one (rest/codex.rs; the plain     *)
(* route of rest/read_router.rs takes the typed ones only), and is then    *)
(* two statements, a count and a page, between which views may be saved.   *)
(* A view type says what its query offers and where its rows are.          *)
(***************************************************************************)
EXTENDS ViewStorage

CONSTANTS
  ViewTypes,   \* the view types, records as below
  Requests,    \* the query strings a client may begin with
  Stored,      \* the sets of views that may be there at first
  Contents,    \* the views that may be saved meanwhile
  MaxSaves     \* bound: how many of them are

(* A view type: the names it warns by, the fields and sorters of its query,*)
(* the routes in front of it, its table and whether it is a child view.    *)
(* It sorts by fields that are always there.                               *)
ViewType ==
  [name : STRING, fields : SUBSET STRING, sortable : SUBSET Required,
   defaultSort : Seq([field : Required, desc : BOOLEAN]),
   route : {"codex", "plain"}, table : Tables, child : BOOLEAN]

(* The views there ever are. *)
Views == Contents \cup UNION Stored

ASSUME ReadsAssumption ==
  ViewTypes \subseteq ViewType /\ Requests \subseteq Seq(Pair) /\ MaxSaves \in Nat
ASSUME ViewsAssumption ==
  /\ Views \subseteq ViewOf
  /\ \A v \in Views : v["id"] \in ViewIds
ASSUME StoredAssumption == \A views \in Stored : IsFiniteSet(views)
(* What a query can ask for, the views always have. *)
ASSUME FieldsAssumption ==
  \A v \in ViewTypes :
    (IF v.route = "codex" THEN v.fields \ ReservedParams ELSE v.fields) \subseteq Required
(* The rows of a snapshot table name no parent. *)
ASSUME ChildAssumption == \A v \in ViewTypes : v.child => v.table = "views"

VARIABLES
  view,        \* the view type
  backend,     \* the storage behind it
  rows,        \* the rows of its table
  saved,       \* what was last saved under each id
  ever,        \* history: all that was saved under each id
  saves,       \* how many views were saved
  request,     \* the query string of the client
  parent,      \* the parent id in its path
  pc,          \* where its request is
  pairs,       \* the parameters not read yet
  x,           \* what the others gave
  total,       \* the answer of the count
  steady,      \* history: no view was saved since the count
  answer,      \* the last answer
  seen,        \* history: the ids the walk was shown
  quiet,       \* history: no view was saved since the walk began
  warned       \* the warnings that were logged

requestVars == <<request, parent, pc, pairs, x, total, answer, seen>>
tableVars == <<view, backend, rows, saved, ever, saves, quiet>>
vars == <<requestVars, tableVars, steady, warned>>

Parents == {v["parent"] : v \in Contents}

Refusal(status) == [status |-> status, page |-> None]
Ok(page) == [status |-> 200, page |-> page]

Init ==
  /\ view \in ViewTypes
  /\ backend \in Backends
  /\ \E views \in Stored :
       saved = [id \in ViewIds |->
         IF \E v \in views : v["id"] = id
           THEN CHOOSE v \in views : v["id"] = id
           ELSE NoRow]
  /\ rows = [id \in ViewIds |->
       IF saved[id] = NoRow THEN NoRow ELSE ToRow(backend, view.table, saved[id])]
  /\ ever = [id \in ViewIds |-> {saved[id]} \ {NoRow}]
  /\ saves = 0
  /\ request \in Requests
  /\ parent \in IF view.child THEN Parents ELSE {None}
  /\ pc = "params"
  /\ pairs = request
  /\ x = Blank
  /\ total = 0
  /\ steady = FALSE
  /\ answer = Refusal(0)
  /\ seen = <<>>
  /\ quiet = TRUE
  /\ warned = {}

-----------------------------------------------------------------------------
Respond(a) ==
  /\ pc' = "answered"
  /\ answer' = a

(* The extractor takes the next parameter, or rejects the request for it.  *)
ReadParam ==
  /\ pc = "params"
  /\ view.route = "codex"
  /\ pairs # <<>>
  /\ pairs' = Tail(pairs)
  /\ x' = ReadPair(x, view.fields, Head(pairs))
  /\ warned' = IF /\ Head(pairs).key = "_q"
                  /\ NoDerivableField(view.fields, Head(pairs).value)
                 THEN warned \cup {"no_field"} ELSE warned
  /\ IF x'.rejected
       THEN Respond(Refusal(422))
       ELSE UNCHANGED <<pc, answer>>
  /\ UNCHANGED <<tableVars, request, parent, total, steady, seen>>

(* The plain route: every parameter is left to the query type. *)
ReadPlainParams ==
  /\ pc = "params"
  /\ view.route = "plain"
  /\ pairs # <<>>
  /\ pairs' = <<>>
  /\ x' = [x EXCEPT !.rest = pairs]
  /\ UNCHANGED <<tableVars, request, parent, pc, total, steady, answer, seen, warned>>

(* The checks after the loop, and the refusals of Storage::filter: a child *)
(* needs its parent, a snapshot table has none.                            *)
CheckParams ==
  /\ pc = "params"
  /\ pairs = <<>>
  /\ CASE view.route = "codex" /\ ~ Accepted(x, view.fields, view.sortable) ->
            Respond(Refusal(422))
       [] view.route = "plain" /\ ~ Deserializes(view.fields, x.rest) ->
            Respond(Refusal(400))
       [] OTHER ->
            IF \/ view.table = "views" /\ view.child /\ parent = None
               \/ view.table = "snapshots" /\ parent # None
              THEN Respond(Refusal(400))
              ELSE pc' = "count" /\ UNCHANGED answer
  /\ UNCHANGED <<tableVars, request, parent, pairs, x, total, steady, seen, warned>>

-----------------------------------------------------------------------------
(* The query the storage was given, and what it makes of it. *)
Order == SortOf(x, view.defaultSort)
PageWindow == Window(backend, Pagination(x))
Selected ==
  Matching(backend, view.table, rows, FilterOf(x, view.fields), view.child, parent)

(* warn_if_page_order_undefined: a later page of an order nobody gave. *)
PageOrderWarning(window) ==
  IF window.skip > 0 /\ Order = <<>> THEN {"page_order"} ELSE {}

CountRows ==
  /\ pc = "count"
  /\ warned' = warned \cup PageOrderWarning(PageWindow)
  /\ total' = Cardinality(Selected)
  /\ steady' = TRUE
  /\ pc' = "select"
  /\ UNCHANGED <<tableVars, request, parent, pairs, x, answer, seen>>

(* The page statement; what it shows of the ties is the database's choice. *)
SelectRows ==
  /\ pc = "select"
  /\ IF Positions(backend, PageWindow, Cardinality(Selected)) = NoPage
       THEN Respond(Refusal(500)) /\ UNCHANGED seen
       ELSE \E listing \in Listings(backend, view.table, rows, Order, Selected) :
              LET ids == PageSql(backend, PageWindow, listing)
                  items == [i \in DOMAIN ids |->
                              FromRow(backend, view.table, rows[ids[i]])]
              IN  /\ Respond(Ok(Paged(items, total, PageWindow)))
                  /\ seen' = seen \o ids
  /\ UNCHANGED <<tableVars, request, parent, pairs, x, total, steady, warned>>

(* A statement fails, or no connection is to be had. *)
StatementFails ==
  /\ pc \in {"count", "select"}
  /\ Respond(Refusal(500))
  /\ UNCHANGED <<tableVars, request, parent, pairs, x, total, steady, seen, warned>>

(* The client asks for the page after a full one. *)
NextPage ==
  /\ pc = "answered"
  /\ answer.status = 200
  /\ x.page # None /\ x.page_size # None
  /\ answer.page.skip = x.page * x.page_size
  /\ Len(answer.page.items) = answer.page.limit
  /\ pc' = "params"
  /\ pairs' = [i \in DOMAIN request |->
       IF request[i].key = "page"
         THEN [key |-> "page", value |-> Number(x.page + 1)]
         ELSE request[i]]
  /\ x' = Blank
  /\ UNCHANGED <<tableVars, request, parent, total, steady, answer, seen, warned>>

-----------------------------------------------------------------------------
(* find_by_id: below another parent a child is not found. *)
Find(id, ofParent) ==
  IF rows[id] # NoRow /\ (view.child => ParentField(backend, rows[id]) = ofParent)
    THEN FromRow(backend, view.table, rows[id])
    ELSE NoRow

(* The route of one view.  That of a child has two path parameters, which  *)
(* its handler takes as one each: axum answers that with a 500.            *)
FindOne ==
  /\ pc = "params"
  /\ request = <<>>
  /\ \E id \in ViewIds :
       Respond(CASE view.child -> Refusal(500)
                 [] ~ view.child /\ Find(id, None) = NoRow -> Refusal(404)
                 [] ~ view.child /\ Find(id, None) # NoRow ->
                      [status |-> 200, view |-> Find(id, None)])
  /\ UNCHANGED <<tableVars, request, parent, pairs, x, total, steady, seen, warned>>

(* A dispatcher, or the event store, saves a view: an upsert by its id. *)
Save ==
  /\ saves < MaxSaves
  /\ \E v \in Contents :
       /\ rows' = [rows EXCEPT ![v["id"]] = Upsert(backend, view.table, @, v)]
       /\ saved' = [saved EXCEPT ![v["id"]] = v]
       /\ ever' = [ever EXCEPT ![v["id"]] = @ \cup {v}]
  /\ saves' = saves + 1
  /\ steady' = FALSE
  /\ quiet' = FALSE
  /\ UNCHANGED <<requestVars, view, backend, warned>>

(* The client has its answer and wants no more. *)
Idle == pc = "answered" /\ UNCHANGED vars

Next ==
  \/ ReadParam
  \/ ReadPlainParams
  \/ CheckParams
  \/ CountRows
  \/ SelectRows
  \/ StatementFails
  \/ NextPage
  \/ FindOne
  \/ Save
  \/ Idle

Spec == Init /\ [][Next]_vars

-----------------------------------------------------------------------------
Listed ==
  pc = "answered" /\ answer.status = 200 /\ "page" \in DOMAIN answer

(* Whatever window the extractor lets through, the three backends, which   *)
(* clamp and read 0 and negative numbers in ways of their own, show the    *)
(* same rows of any listing.                                               *)
BackendsAgree ==
  pc \in {"count", "select"} =>
    \A b \in Backends, n \in 0..Cardinality(ViewIds) :
      Positions(b, Window(b, Pagination(x)), n)
        = Positions(backend, PageWindow, n)

(* A page asked for by number and size comes back with that number and     *)
(* that size, and holds what the total leaves for it, unless a view was    *)
(* saved between the count and the page.                                   *)
PageIsWhatWasAsked ==
  Listed =>
    /\ x.page # None /\ x.page_size # None /\ x.skip = None /\ x.limit = None =>
         answer.page.page = x.page /\ answer.page.page_size = x.page_size
    /\ steady =>
         LET left == answer.page.total - answer.page.skip
         IN  Len(answer.page.items) =
               CASE left <= 0 -> 0
                 [] left > 0 /\ left <= answer.page.limit -> left
                 [] OTHER -> answer.page.limit

Ends(order) == \E k \in DOMAIN order : order[k].field = "id"

(* The request asks for the first page, and for no other. *)
FromFirstPage ==
  {request[i].value : i \in {j \in DOMAIN request : request[j].key = "page"}}
    = {Number(0)}

(* A walk over all pages, while nothing is saved, shows every view of the  *)
(* listing once.  If not, the order asked for, or else that of the view    *)
(* type, lacks the id; and if there was none at all, it was warned of.     *)
WalkGapIsExplained ==
  /\ Listed /\ quiet /\ FromFirstPage
  /\ answer.page.skip = Or(x.page, -1) * Or(x.page_size, 1)
  /\ Len(answer.page.items) < answer.page.limit
  => \/ /\ Len(seen) = Cardinality(Selected)
        /\ {seen[i] : i \in DOMAIN seen} = Selected
     \/ /\ ~ Ends(IF x.sort \in {None, Empty} THEN view.defaultSort ELSE x.sort.by)
        /\ Order = <<>> => "page_order" \in warned

(* The fields of the view type that a client may find out about. *)
LookedAt ==
  view.fields \cup view.sortable \cup {"id", "parent"}
    \cup {view.defaultSort[k].field : k \in DOMAIN view.defaultSort}

(* A field that a view type offers neither to filters nor to sorters, and  *)
(* does not sort by itself, cannot be told from a listing: whatever it     *)
(* holds, the same rows match and may come in the same orders.             *)
HiddenFieldIsNoLookup ==
  pc \in {"count", "select"} =>
    \A f \in Fields \ LookedAt :
      \A id \in ViewIds, v \in Contents :
        rows[id] # NoRow =>
          LET held == FromRow(backend, view.table, rows[id])
              other == [rows EXCEPT ![id] =
                ToRow(backend, view.table, [held EXCEPT ![f] = v[f]])]
              matching == Matching(backend, view.table, other,
                FilterOf(x, view.fields), view.child, parent)
          IN  /\ matching = Selected
              /\ Listings(backend, view.table, other, Order, matching)
                   = Listings(backend, view.table, rows, Order, Selected)

(* A listing shows views of the path's parent only, and only such as match *)
(* what was asked for, however the alternatives of the filter, the typed   *)
(* parameters and the parent are put together.                             *)
OnlyOwnMatchingViews ==
  Listed =>
    \A i \in DOMAIN answer.page.items :
      LET v == answer.page.items[i] IN
      /\ view.child => v["parent"] = parent
      /\ \E alternative \in Or(x.q, {{}}) : \A c \in alternative : v[c[1]] = c[2]
      /\ \A k \in DOMAIN x.rest : x.rest[k].key \in view.fields =>
           v[x.rest[k].key] = x.rest[k].value.n

(* What find_by_id returns, to a dispatcher or a route, is the view last   *)
(* saved under the id, and to no other parent than its own: the columns a  *)
(* backend moves out of the payload come back, and no field is another     *)
(* than it was saved, but one that the last view left out: of that a view  *)
(* in MongoDB still has what an earlier one wrote.                         *)
FoundIsLastSaved ==
  \A id \in ViewIds, p \in Parents :
    LET found == Find(id, p) IN
    IF saved[id] = NoRow \/ (view.child /\ saved[id]["parent"] # p)
      THEN found = NoRow
      ELSE found # NoRow /\ \A f \in Fields :
             \/ found[f] = saved[id][f]
             \/ /\ backend = "mongodb" /\ view.table = "views"
                /\ saved[id][f] = Absent
                /\ \E v \in ever[id] : found[f] = v[f]

(* What codex.rs says of its sort parameter: a sort that cannot be used is *)
(* the one parameter answered 400.                                         *)
SortErrorsAre400 ==
  /\ pc = "answered" /\ pairs = <<>> /\ view.route = "codex"
  /\ ~ CheckSortFields(x, view.sortable)
  /\ Accepted([x EXCEPT !.sort = None], view.fields, view.sortable)
  => answer.status = 400
=============================================================================
