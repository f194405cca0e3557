------------------------------- MODULE Codex --------------------------------
(***************************************************************************)
(* The query string of a listing (rest/codex.rs): how its parameters       *)
(* become a filter, a window and an order, and which of them are rejected. *)
(*                                                                         *)
(* A parameter is a key and a value; a value is what its text parses to:   *)
(* nothing, a number, a filter, a list of sorters, or none of those.  A    *)
(* filter is a set of alternatives, each a set of constraints <<field,     *)
(* value>> that must all hold.  Field values are numbers.                  *)
(***************************************************************************)
EXTENDS Integers, Sequences, FiniteSets

CONSTANTS
  MaxI64,      \* the largest i64
  None         \* an option that is absent

ASSUME CodexAssumption == MaxI64 \in Nat \ {0} /\ None \notin Int

Empty == [kind |-> "empty"]
Text == [kind |-> "text"]
Number(n) == [kind |-> "number", n |-> n]
Rsql(alternatives) == [kind |-> "rsql", any |-> alternatives]
Sorters(by) == [kind |-> "sort", by |-> by]

(* What a client may send: a value of one of these kinds under any key. *)
Value ==
  [kind : {"empty", "text"}] \cup [kind : {"number"}, n : Int]
    \cup [kind : {"rsql"}, any : SUBSET SUBSET (STRING \X Int)]
    \cup [kind : {"sort"}, by : Seq([field : STRING, desc : BOOLEAN])]

Pair == [key : STRING, value : Value]

Asc(field) == [field |-> field, desc |-> FALSE]
Desc(field) == [field |-> field, desc |-> TRUE]

(* The parameters the convention owns. *)
CountParams == {"skip", "limit", "page", "page_size", "pageSize"}
ReservedParams == CountParams \cup {"_q", "sort"}

FieldsOf(alternatives) == {c[1] : c \in UNION alternatives}

-----------------------------------------------------------------------------
(* What the loop of from_request_parts has gathered so far. *)
Blank ==
  [rejected |-> FALSE, q |-> None, skip |-> None, limit |-> None,
   page |-> None, page_size |-> None, sort |-> None, rest |-> <<>>]

Reject(x) == [x EXCEPT !.rejected = TRUE]

(* Mutant: zero is a count like another. *)
MinimumZero(key) == 0

(* A first page is page 0, a smallest page holds one item. *)
Minimum(key) == IF key \in {"skip", "page"} THEN 0 ELSE 1

ParseCount(x, key, value) ==
  LET slot == IF key = "pageSize" THEN "page_size" ELSE key
  IN  IF /\ value.kind = "number"
         /\ value.n >= Minimum(key) /\ value.n <= MaxI64
        THEN [x EXCEPT ![slot] = value.n]
        ELSE Reject(x)

(* Mutant: every field of a row may be asked about. *)
FilterableAny(fields) == fields \cup {"id", "parent", "key", "hidden"}

(* The fields of the query type that a typed parameter can reach. *)
Filterable(fields) == fields \ ReservedParams

(* No derivable field at all refuses every filter: the operator is warned. *)
ParseQ(x, fields, value) ==
  IF /\ value.kind = "rsql"
     /\ Filterable(fields) # {}
     /\ FieldsOf(value.any) \subseteq Filterable(fields)
    THEN [x EXCEPT !.q = value.any]
    ELSE Reject(x)

NoDerivableField(fields, value) ==
  value.kind = "rsql" /\ Filterable(fields) = {}

(* One turn of the loop: an empty value is an absent parameter, save for   *)
(* the sort, which is kept as it is; the last value of a key counts.       *)
ReadPair(x, fields, pair) ==
  CASE pair.key = "sort" -> [x EXCEPT !.sort = pair.value]
    [] pair.key \in ReservedParams \ {"sort"} /\ pair.value = Empty -> x
    [] pair.key = "_q" /\ pair.value # Empty -> ParseQ(x, fields, pair.value)
    [] pair.key \in CountParams /\ pair.value # Empty ->
         ParseCount(x, pair.key, pair.value)
    [] OTHER -> [x EXCEPT !.rest = Append(@, pair)]

-----------------------------------------------------------------------------
(* serde_urlencoded into the query type: unknown keys are skipped, a field *)
(* given twice or with a value of another type is an error.                *)
Typed(fields, rest) ==
  {<<rest[i].key, rest[i].value.n>> :
     i \in {j \in DOMAIN rest :
              rest[j].key \in fields /\ rest[j].value.kind = "number"}}

Deserializes(fields, rest) ==
  /\ \A i \in DOMAIN rest :
       rest[i].key \in fields => rest[i].value.kind = "number"
  /\ \A i, j \in DOMAIN rest :
       rest[i].key \in fields /\ rest[i].key = rest[j].key => i = j

PageFits(x) ==
  x.page # None /\ x.page_size # None => x.page * x.page_size <= MaxI64

(* A page number alone decides nothing. *)
PageIsDecided(x) ==
  x.page # None =>
    x.page_size # None \/ x.skip # None \/ x.limit # None

CheckSortFields(x, sortable) ==
  x.sort \notin {None, Empty} =>
    /\ sortable # {}
    /\ x.sort.kind = "sort"
    /\ \A i \in DOMAIN x.sort.by : x.sort.by[i].field \in sortable

Accepted(x, fields, sortable) ==
  /\ ~ x.rejected
  /\ PageIsDecided(x)
  /\ PageFits(x)
  /\ Deserializes(fields, x.rest)
  /\ CheckSortFields(x, sortable)

-----------------------------------------------------------------------------
(* The Query the storage is given. *)

Or(option, default) == IF option = None THEN default ELSE option

(* _q AND the typed parameters. *)
FilterOf(x, fields) ==
  LET typed == Typed(fields, x.rest)
  IN  {alternative \cup typed : alternative \in Or(x.q, {{}})}

(* skip and limit win over page and page_size; the product saturates. *)
Pagination(x) ==
  IF x.limit # None \/ x.skip # None \/ x.page_size = None
    THEN [skip |-> Or(x.skip, 0), limit |-> x.limit]
    ELSE LET first == Or(x.page, 0) * x.page_size
         IN  [skip |-> IF first > MaxI64 THEN MaxI64 ELSE first,
              limit |-> x.page_size]

(* Mutant: the order of the view is never asked for. *)
SortOfRequest(x, defaultSort) ==
  IF x.sort \in {None, Empty} THEN <<>> ELSE x.sort.by

(* A sort of commas only is no sort, but still the caller's. *)
SortOf(x, defaultSort) ==
  IF x.sort \in {None, Empty} THEN defaultSort ELSE x.sort.by
=============================================================================
