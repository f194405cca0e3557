------------------------------ MODULE AuditLog ------------------------------
(***************************************************************************)
(* Reading the history of an aggregate page by page: get_audit_log         *)
(* (rest/audit_log_router.rs), fetch_events_paged of the persistence, and  *)
(* the counters of Paged (read/paged.rs), under commits that go on         *)
(* meanwhile.                                                              *)
(*                                                                         *)
(* The journal is contiguous (VersionsContiguous of EventStore), so its    *)
(* length says all of it: entry number v is the event of version v.  (In   *)
(* the store of MongoEngine, where versions may fork, it is the v-th that  *)
(* was inserted.)  A client walks: it asks for page after page of one size *)
(* until a page is not full.  usize and i64 are words of one width; a      *)
(* release build wraps.                                                    *)
(*                                                                         *)
(* The stores differ in how they read a page: what is under one lock, what *)
(* numbers they take, and whether they ask for the order of the versions,  *)
(* which MongoDBPersist does not.                                          *)
(***************************************************************************)
EXTENDS Integers, Sequences

CONSTANTS
  Word,       \* the number of values of a word
  MaxLength,  \* bound: the most entries a journal gets
  FirstPages, \* the pages walks begin with
  Stores      \* the persistences there may be

ASSUME WordAssumption ==
  /\ Word \in Nat /\ Word % 2 = 0
  /\ MaxLength \in Nat /\ MaxLength < Word \div 2
ASSUME FirstPagesAssumption == FirstPages \subseteq 0..Word - 1
ASSUME StoresAssumption ==
  Stores \subseteq {"memory", "postgres", "surrealdb", "mongodb"}

VARIABLES
  store,      \* the persistence
  first,      \* the page the walk began with
  length,     \* the entries in the journal
  phase,      \* where the walk is: "idle", "count", "select", "done", or
              \* "failed" when a page was answered by an error
  page, size, \* what the client asks for
  begun,      \* the entries there were when it asked for this page
  total,      \* what the count returned
  response,   \* the Paged last answered, with the page that was asked for
  got         \* the entries received by the walk, in order

chosen == <<store, first>>
vars == <<chosen, length, phase, page, size, begun, total, response, got>>

AsI64(n) == IF n < Word \div 2 THEN n ELSE n - Word

(* Division of i64 rounds to zero. *)
Quotient(n, d) == IF n < 0 THEN -((-n) \div d) ELSE n \div d

Abs(n) == IF n < 0 THEN -n ELSE n

(* Paged::new *)
Paged(items, count, skip, limit) ==
  [items |-> items, total |-> count, skip |-> skip, limit |-> limit,
   page |-> IF limit > 0 THEN Abs(Quotient(skip, limit)) ELSE 0]

(* Mutant: pages are numbered from 0. *)
OffsetFromZero(p, s) == (p * s) % Word

(* fetch_events_paged takes page 0 for page 1. *)
Offset(p, s) == (((IF p = 0 THEN 1 ELSE p) - 1) * s) % Word

(* What cannot be asked for: SQL takes no negative OFFSET or LIMIT, and the *)
(* driver of MongoDB no skip beyond i64.                                   *)
Refused(offset, limit) ==
  \/ store \in {"postgres", "surrealdb"} /\ (AsI64(offset) < 0 \/ AsI64(limit) < 0)
  \/ store = "mongodb" /\ AsI64(offset) < 0

(* The orders the n entries may be listed in: by version, but MongoDB is   *)
(* asked for no order, and owes none from one query to the next.           *)
Listings(n) ==
  IF store = "mongodb"
    THEN {l \in [1..n -> 1..n] : \A v \in 1..n : \E i \in 1..n : l[i] = v}
    ELSE {[i \in 1..n |-> i]}

(* To MongoDB a limit of 0 is none, a negative one that of its one batch.  *)
Limit(limit, n) ==
  IF store # "mongodb" THEN limit
  ELSE IF limit = 0 THEN n
  ELSE Abs(AsI64(limit))

(* Mutant: the last entry is left out. *)
WindowShort(listing, offset, limit) ==
  LET n == Len(listing)
      rest == IF offset < n THEN n - offset - 1 ELSE 0
  IN  [i \in 1..(IF limit < rest THEN limit ELSE rest) |-> listing[offset + i]]

(* skip(offset).take(limit) of a listing. *)
Window(listing, offset, limit) ==
  LET n == Len(listing)
      rest == IF offset < n THEN n - offset ELSE 0
  IN  [i \in 1..(IF limit < rest THEN limit ELSE rest) |-> listing[offset + i]]

Init ==
  /\ store \in Stores
  /\ first \in FirstPages
  /\ length \in 0..MaxLength
  /\ phase = "idle"
  /\ page = first
  /\ size \in 0..Word - 1
  /\ begun = 0
  /\ total = 0
  /\ response = <<>>
  /\ got = <<>>

-----------------------------------------------------------------------------
(* Mutant: the count and the page are two reads in memory as well. *)
CommitBetweenReads ==
  /\ length < MaxLength
  /\ length' = length + 1
  /\ UNCHANGED <<chosen, phase, page, size, begun, total, response, got>>

(* A command commits an event; in memory not between the two reads of a    *)
(* page, which are under one lock.                                         *)
Commit ==
  /\ length < MaxLength
  /\ ~ (store = "memory" /\ phase = "select")
  /\ length' = length + 1
  /\ UNCHANGED <<chosen, phase, page, size, begun, total, response, got>>

Ask ==
  /\ phase = "idle"
  /\ phase' = "count"
  /\ begun' = length
  /\ UNCHANGED <<chosen, length, page, size, total, response, got>>

CountEvents ==
  /\ phase = "count"
  /\ phase' = "select"
  /\ total' = length
  /\ UNCHANGED <<chosen, length, page, size, begun, response, got>>

(* A query fails, or the window is refused. *)
ReadFails ==
  /\ store # "memory"
  /\ phase \in {"count", "select"}
  /\ phase' = "failed"
  /\ UNCHANGED <<chosen, length, page, size, begun, total, response, got>>

(* The page is read and answered; the client goes on after a full one.     *)
SelectEvents ==
  /\ phase = "select"
  /\ ~ Refused(Offset(page, size), size)
  /\ \E listing \in Listings(length) :
       LET items == Window(listing, Offset(page, size), Limit(size, length))
       IN  /\ response' =
                Paged(items, total, AsI64((page * size) % Word), AsI64(size))
           /\ got' = got \o items
           /\ phase' = IF Len(items) < size \/ size = 0 THEN "done" ELSE "idle"
  /\ page' = (page + 1) % Word
  /\ UNCHANGED <<chosen, length, size, begun, total>>

Next ==
  \/ Commit
  \/ Ask
  \/ CountEvents
  \/ ReadFails
  \/ SelectEvents
  \/ phase \in {"done", "failed"} /\ UNCHANGED vars

Spec == Init /\ [][Next]_vars

-----------------------------------------------------------------------------
(* Where pages are in the order of the versions, a walk from page 1        *)
(* receives the entries from the first on, each once, though the journal   *)
(* grows between its pages and between the two reads of one page.  Nothing *)
(* of the kind holds of MongoDBPersist: there the pages of one walk may    *)
(* repeat entries and miss others without any commit.                      *)
WalkHasNoGap ==
  first = 1 /\ store # "mongodb" => \A i \in DOMAIN got : got[i] = i

(* When a walk ends it has as many entries as there were when it asked for *)
(* its last page, and, in the order of the versions, it has those entries. *)
(* From MongoDBPersist it surely has them only if the first page held them *)
(* all (of any size an i64 counts, 0 included, which is no limit there);   *)
(* of more pages the number is right though the entries may not be.        *)
FinishedWalkIsWhole ==
  first = 1 /\ phase = "done" =>
    /\ size > 0 /\ size < Word \div 2 => Len(got) >= begun
    /\ (IF store = "mongodb" THEN page = 2 /\ size < Word \div 2 ELSE size > 0) =>
         1..begun \subseteq {got[i] : i \in DOMAIN got}

(* A total is never ahead of the journal, and, where both reads are under  *)
(* one lock, never behind the entries of the page it comes with.           *)
TotalCoversItems ==
  response # <<>> =>
    /\ response.total <= length
    /\ store = "memory" => \A i \in DOMAIN response.items :
                             response.items[i] <= response.total

(* "Number of items skipped before this page": the first item of a page    *)
(* comes right after those.                                                *)
SkipIsExact ==
  response # <<>> /\ response.items # <<>> /\ store # "mongodb" =>
    response.items[1] = response.skip + 1
=============================================================================
