-------------------------- MODULE MongoEngineProofs --------------------------
(***************************************************************************)
(* The store without transactions: what is left of the journal's order     *)
(* when nothing keeps two commits of one version apart, what its answers   *)
(* are worth, and what holds of an aggregate no command of which got in    *)
(* another's way; and, on that store, the bank: what its requests make of  *)
(* an account.                                                             *)
(*                                                                         *)
(* A call that passed the version check saw an entry of its version, and   *)
(* entries stay; so the versions up to its own are there when it inserts,  *)
(* whoever wrote them, and the insert is ordered, so what it adds, all or  *)
(* part of its batch, comes right after.  A command of the bank has one    *)
(* event, so an insert is all of it or nothing, and an account no version  *)
(* of which was written twice is a sequence of decisions, each made on all *)
(* before it.  Its amounts are floats, whose sums depend on their order:   *)
(* what is kept of a call is the very sequence it holds, and nothing is    *)
(* concluded from one order of the events to another.                      *)
(***************************************************************************)
EXTENDS Bank, EventStoreLemmas, NaturalsInduction, WellFoundedInduction

(* The versions of a journal.                                              *)
VersionsOf(j) == {j[i].version : i \in DOMAIN j}

NoneSkipped(j) == \A v \in VersionsOf(j) : 1..v \subseteq VersionsOf(j)

(* The version of a call about to write is one the journal has reached.    *)
Reached(c) ==
  pc[c] = "save_events" => ver[c] \in Nat /\ 1..ver[c] \subseteq VersionsOf(journal[target[c]])

VersionsInv ==
  /\ pc \in [Calls -> Label]
  /\ target \in [Calls -> Ids]
  /\ batch \in [Calls -> State]
  /\ DOMAIN ver = Calls
  /\ journal \in [Ids -> Seq(Envelope)]
  /\ \A id \in Ids : NoneSkipped(journal[id])
  /\ \A c \in Calls : Reached(c)

(* A step that leaves the journal alone, and lets no call begin to write.  *)
LEMMA QuietStep ==
  ASSUME VersionsInv, journal' = journal, target' = target,
         pc' \in [Calls -> Label], batch' \in [Calls -> State],
         DOMAIN ver' = Calls,
         \A c \in Calls : pc'[c] = "save_events" =>
           pc[c] = "save_events" /\ ver'[c] = ver[c]
  PROVE  VersionsInv'
  BY DEF VersionsInv, Reached

(* Entries whose versions follow one the journal has reached skip none.    *)
LEMMA FollowingVersions ==
  ASSUME NEW j \in Seq(Envelope), NEW new \in Seq(Envelope), NEW v \in Nat,
         NoneSkipped(j), 1..v \subseteq VersionsOf(j),
         \A i \in 1..Len(new) : new[i].version = v + i
  PROVE  /\ j \o new \in Seq(Envelope)
         /\ VersionsOf(j) \subseteq VersionsOf(j \o new)
         /\ NoneSkipped(j \o new)
  <1> DEFINE n == Len(j)
             k == Len(new)
             both == j \o new
  <1>1. n \in Nat /\ k \in Nat /\ DOMAIN j = 1..n
    BY LenProperties
  <1>2. /\ both \in Seq(Envelope) /\ Len(both) = n + k
        /\ \A i \in 1..(n + k) : both[i] = IF i <= n THEN j[i] ELSE new[i - n]
    BY ConcatProperties
  <1>3. DOMAIN both = 1..(n + k)
    BY <1>2, LenProperties
  <1> HIDE DEF n, k, both
  <1>4. \A i \in 1..n : i \in 1..(n + k) /\ both[i] = j[i]
    BY <1>1, <1>2
  <1>5. ASSUME NEW i \in 1..k
        PROVE  n + i \in 1..(n + k) /\ both[n + i] = new[i]
    BY <1>1, <1>2
  <1>6. \A i \in 1..k : both[n + i].version = v + i
    BY <1>5 DEF k
  <1>7. VersionsOf(j) \subseteq VersionsOf(both)
    BY <1>1, <1>3, <1>4 DEF VersionsOf
  <1>8. \A i \in 1..k : v + i \in VersionsOf(both)
    BY <1>3, <1>5, <1>6 DEF VersionsOf
  <1>9. ASSUME NEW w \in VersionsOf(both)
        PROVE  1..w \subseteq VersionsOf(both)
    <2>1. PICK p \in 1..(n + k) : both[p].version = w
      BY <1>3 DEF VersionsOf
    <2>2. CASE p \in 1..n
      <3>1. w \in VersionsOf(j)
        BY <1>1, <1>4, <2>1, <2>2 DEF VersionsOf
      <3>. QED BY <1>7, <3>1 DEF NoneSkipped
    <2>3. CASE p \notin 1..n
      <3>1. p - n \in 1..k /\ p = n + (p - n)
        BY <1>1, <2>3
      <3>2. PICK i \in 1..k : w = v + i
        BY <1>6, <2>1, <3>1
      <3>3. ASSUME NEW u \in 1..w, u \notin 1..v
            PROVE  u - v \in 1..k /\ u = v + (u - v)
        BY <1>1, <3>2, <3>3
      <3>. QED BY <1>7, <1>8, <3>3
    <2>. QED BY <2>2, <2>3
  <1>. QED BY <1>2, <1>7, <1>9 DEF NoneSkipped, both

(* The first k envelopes of a call that passed the check join the journal. *)
LEMMA InsertKeeps ==
  ASSUME VersionsInv, NEW c \in Calls, pc[c] = "save_events",
         NEW k \in 0..Len(batch[c]), Insert(c, k)
  PROVE  /\ journal' \in [Ids -> Seq(Envelope)]
         /\ \A id \in Ids : VersionsOf(journal[id]) \subseteq VersionsOf(journal'[id])
         /\ \A id \in Ids : NoneSkipped(journal'[id])
  <1> DEFINE id0 == target[c]
             j == journal[id0]
             v == ver[c]
             new == SubSeq(Envelopes(c), 1, k)
  <1>1. /\ id0 \in Ids /\ j \in Seq(Envelope) /\ batch[c] \in State
        /\ v \in Nat /\ 1..v \subseteq VersionsOf(j) /\ NoneSkipped(j)
    BY DEF VersionsInv, Reached
  <1>2. Len(batch[c]) \in Nat
    BY <1>1, LenProperties DEF State
  <1>3. /\ Envelopes(c) \in Seq(Envelope)
        /\ Len(Envelopes(c)) = Len(batch[c])
        /\ \A i \in 1..Len(batch[c]) : Envelopes(c)[i].version = v + i
    BY <1>1, EnvelopedType DEF Envelopes
  <1>4. /\ new \in Seq(Envelope)
        /\ \A i \in 1..Len(new) : new[i].version = v + i
    <2>1. k \in Nat /\ \A i \in 1..k : Envelopes(c)[i] \in Envelope
      BY <1>2, <1>3, ElementOfSeq
    <2>2. /\ new \in Seq(Envelope)
          /\ Len(new) = IF 1 <= k THEN k - 1 + 1 ELSE 0
          /\ \A i \in 1..(k - 1 + 1) : new[i] = Envelopes(c)[1 + i - 1]
      BY <2>1, SubSeqProperties
    <2>3. Len(new) = k /\ \A i \in 1..k : new[i] = Envelopes(c)[i]
      BY <2>1, <2>2
    <2>. QED BY <1>2, <1>3, <2>1, <2>2, <2>3
  <1> HIDE DEF new
  <1>5. /\ j \o new \in Seq(Envelope)
        /\ VersionsOf(j) \subseteq VersionsOf(j \o new)
        /\ NoneSkipped(j \o new)
    BY <1>1, <1>4, FollowingVersions
  <1>6. /\ journal'[id0] = j \o new
        /\ \A id \in Ids : id # id0 => journal'[id] = journal[id]
        /\ journal' \in [Ids -> Seq(Envelope)]
    BY <1>1, <1>5 DEF Insert, VersionsInv, new
  <1>. QED BY <1>1, <1>5, <1>6 DEF VersionsInv

(* The version check: the version of the call is that of an entry.         *)
LEMMA FetchLatestEventKeeps ==
  ASSUME VersionsInv, NEW c \in Calls, FetchLatestEvent(c)
  PROVE  VersionsInv'
  <1> DEFINE j == journal[target[c]]
  <1> USE DEF FetchLatestEvent, CheckVersion, Goto, store
  <1>1. /\ journal' = journal /\ target' = target /\ ver' = ver /\ batch' = batch
        /\ pc' \in [Calls -> Label]
        /\ \A d \in Calls : d # c => pc'[d] = pc[d]
    BY DEF VersionsInv, Label
  <1>2. j \in Seq(Envelope) /\ target[c] \in Ids
    BY DEF VersionsInv
  <1>3. pc'[c] = "save_events" => Reached(c)'
    <2> SUFFICES ASSUME pc'[c] = "save_events"
                 PROVE  ver[c] \in Nat /\ 1..ver[c] \subseteq VersionsOf(j)
      BY <1>1 DEF Reached, VersionsInv
    <2>1. ver[c] = LatestVersion(ByVersion(j))
      BY DEF VersionMatches, VersionsInv
    <2>2. ver[c] \in Nat /\ (ver[c] # 0 => \E i \in 1..Len(j) : j[i].version = ver[c])
      BY <1>2, <2>1, LatestVersionOccurs
    <2>3. ver[c] # 0 => ver[c] \in VersionsOf(j)
      BY <1>2, <2>2, LenProperties DEF VersionsOf
    <2>4. ver[c] # 0 => 1..ver[c] \subseteq VersionsOf(j)
      BY <1>2, <2>3 DEF VersionsInv, NoneSkipped
    <2>. QED BY <2>2, <2>4
  <1>. QED BY <1>1, <1>3 DEF VersionsInv, Reached

(* The insert, whole or stopped in its middle, of a call that is awaited   *)
(* or was dropped.                                                         *)
LEMMA WriteKeeps ==
  ASSUME VersionsInv, NEW c \in Calls, pc[c] = "save_events",
         NEW k \in 0..Len(batch[c]), Insert(c, k),
         target' = target, ver' = ver, batch' = batch,
         pc' \in [Calls -> Label],
         pc'[c] # "save_events", \A d \in Calls : d # c => pc'[d] = pc[d]
  PROVE  VersionsInv'
  <1>1. /\ journal' \in [Ids -> Seq(Envelope)]
        /\ \A id \in Ids : VersionsOf(journal[id]) \subseteq VersionsOf(journal'[id])
        /\ \A id \in Ids : NoneSkipped(journal'[id])
    BY InsertKeeps
  <1>2. ASSUME NEW d \in Calls PROVE Reached(d)'
    BY <1>1 DEF VersionsInv, Reached
  <1>. QED BY <1>1, <1>2 DEF VersionsInv

(* The actions that write no event.                                        *)
LEMMA QuietActions ==
  ASSUME VersionsInv, NEW c \in Calls,
         \/ FetchSnapshot(c) \/ FetchEventsFromVersion(c) \/ RunHandler(c)
         \/ StartSession(c) \/ SaveSnapshot(c) \/ CloseSession(c)
         \/ AbortSession(c) \/ Dispatch(c) \/ QueryFails(c) \/ Cancel(c)
         \/ CancelWrite(c)
  PROVE  VersionsInv'
  <1> USE DEF Goto, Answer, store, Label
  <1>t. /\ pc \in [Calls -> Label] /\ target \in [Calls -> Ids]
        /\ batch \in [Calls -> State] /\ DOMAIN ver = Calls
    BY DEF VersionsInv
  <1>1. CASE FetchSnapshot(c)
    BY <1>t, <1>1, QuietStep DEF FetchSnapshot, InitializeAggregate, LoadSnapshot
  <1>2. CASE FetchEventsFromVersion(c)
    BY <1>t, <1>2, QuietStep DEF FetchEventsFromVersion, LoadTail
  <1>3. CASE RunHandler(c)
    <2>1. batch' \in [Calls -> State]
      BY <1>t, <1>3, NewEventsType DEF RunHandler, Handle, Refuse
    <2>. QED BY <1>t, <1>3, <2>1, QuietStep DEF RunHandler, Handle, Refuse
  <1>4. CASE StartSession(c)
    BY <1>t, <1>4, QuietStep DEF StartSession
  <1>5. CASE SaveSnapshot(c)
    BY <1>t, <1>5, QuietStep DEF SaveSnapshot
  <1>6. CASE CloseSession(c)
    BY <1>t, <1>6, QuietStep DEF CloseSession, Committed
  <1>7. CASE AbortSession(c)
    BY <1>t, <1>7, QuietStep DEF AbortSession, Aborted
  <1>8. CASE Dispatch(c)
    BY <1>t, <1>8, QuietStep DEF Dispatch, Dispatched
  <1>9. CASE QueryFails(c)
    BY <1>t, <1>9, QuietStep DEF QueryFails
  <1>10. CASE Cancel(c)
    BY <1>t, <1>10, QuietStep DEF Cancel, Drop
  <1>11. CASE CancelWrite(c)
    BY <1>t, <1>11, QuietStep DEF CancelWrite
  <1>. QED BY <1>1, <1>2, <1>3, <1>4, <1>5, <1>6, <1>7, <1>8, <1>9, <1>10, <1>11

(* The actions that may write events.                                      *)
LEMMA WritingActions ==
  ASSUME VersionsInv, NEW c \in Calls, SaveEvents(c) \/ LateWrite(c)
  PROVE  VersionsInv'
  <1> USE DEF Goto, store, Label
  <1>t. /\ pc \in [Calls -> Label] /\ target \in [Calls -> Ids]
        /\ batch \in [Calls -> State] /\ DOMAIN ver = Calls
        /\ Len(batch[c]) \in Nat
    BY LenProperties DEF VersionsInv, State
  <1>1. CASE SaveEvents(c)
    <2>1. \E k \in 0..Len(batch[c]) : Insert(c, k)
      BY <1>t, <1>1 DEF SaveEvents
    <2>2. /\ pc[c] = "save_events" /\ pc' \in [Calls -> Label]
          /\ pc'[c] # "save_events" /\ \A d \in Calls : d # c => pc'[d] = pc[d]
          /\ target' = target /\ ver' = ver /\ batch' = batch
      BY <1>t, <1>1 DEF SaveEvents
    <2>. QED BY <2>1, <2>2, WriteKeeps
  <1>2. CASE LateWrite(c) /\ pc[c] = "save_events"
    <2>1. \E k \in 0..Len(batch[c]) : Insert(c, k)
      BY <1>2 DEF LateWrite
    <2>2. /\ pc' \in [Calls -> Label]
          /\ pc'[c] # "save_events" /\ \A d \in Calls : d # c => pc'[d] = pc[d]
          /\ target' = target /\ ver' = ver /\ batch' = batch
      BY <1>t, <1>2 DEF LateWrite
    <2>. QED BY <1>2, <2>1, <2>2, WriteKeeps
  <1>3. CASE LateWrite(c) /\ pc[c] # "save_events"
    BY <1>t, <1>3, QuietStep DEF LateWrite
  <1>. QED BY <1>1, <1>2, <1>3

(* No version is skipped, whoever forks, fails or is dropped: the version  *)
(* of the latest event says how far an aggregate has come.                 *)
THEOREM NoVersionSkipped == Spec => []NoVersionIsSkipped
  <1>1. Init => VersionsInv
    <2> SUFFICES ASSUME Init PROVE VersionsInv
      OBVIOUS
    <2>. QED BY EmptySeq
         DEF Init, CallInit, StoreInit, VersionsInv, Label, State,
             NoneSkipped, VersionsOf, Reached
  <1>2. VersionsInv /\ [Next]_vars => VersionsInv'
    <2> SUFFICES ASSUME VersionsInv, [Next]_vars PROVE VersionsInv'
      OBVIOUS
    <2>1. ASSUME NEW c \in Calls, FetchLatestEvent(c)
          PROVE  VersionsInv'
      BY <2>1, FetchLatestEventKeeps
    <2>2. ASSUME NEW c \in Calls,
                 \/ Step(c) /\ ~ FetchLatestEvent(c)
                 \/ QueryFails(c) \/ Cancel(c) \/ CancelWrite(c) \/ LateWrite(c)
          PROVE  VersionsInv'
      BY <2>2, QuietActions, WritingActions DEF Step
    <2>3. CASE UNCHANGED vars
      BY <2>3 DEF vars, callVars, store, VersionsInv, Reached
    <2>. QED BY <2>1, <2>2, <2>3 DEF Next, Idle
  <1>3. VersionsInv => NoVersionIsSkipped
    BY DEF VersionsInv, NoVersionIsSkipped, NoneSkipped, Versions, VersionsOf
  <1>. QED BY <1>1, <1>2, <1>3, PTL DEF Spec

-----------------------------------------------------------------------------
(* Answers and snapshots.                                                  *)

(* Every event of the call is in the journal, once, at its version.        *)
Holds(c) ==
  \A i \in DOMAIN batch[c] :
    \E k \in DOMAIN journal[target[c]] :
      /\ journal[target[c]][k] = [version |-> ver[c] + i, event |-> batch[c][i]]
      /\ \A m \in DOMAIN journal[target[c]] \ {k} :
           journal[target[c]][m].event # batch[c][i]

Written(c) ==
  pc[c] \in {"save_snapshot", "close", "dispatch"} \/ Answered(c, "ok")

Unwritten(c) ==
  \/ pc[c] \in {"fetch_snapshot", "fetch_tail", "handle", "start_session",
                "fetch_latest", "save_events"}
  \/ /\ pc[c] \in {"abort", "done"}
     /\ reply[c] \notin {"ok", "cancelled", "database_error"}

(* No event is in a state twice.                                           *)
Once(s) == \A i, k \in DOMAIN s : s[i] = s[k] => i = k

(* The events of a state are in a journal, at versions up to v.            *)
BackedBy(s, j) == \A i \in DOMAIN s : \E k \in DOMAIN j : j[k].event = s[i]

BackedUpTo(s, j, v) ==
  \A i \in DOMAIN s : \E k \in DOMAIN j : j[k].event = s[i] /\ j[k].version <= v

Working(c) ==
  pc[c] \in {"fetch_tail", "handle", "start_session", "fetch_latest",
             "save_events", "save_snapshot"}

(* What a call loaded: events of the journal, each once, and none of its   *)
(* own; up to the version it expects, but for a tail that came out of      *)
(* order, which the version check refuses.                                 *)
Known(c, s) ==
  /\ s \in State
  /\ agg[c] = s \o batch[c]
  /\ Once(s)
  /\ \A i \in DOMAIN s : s[i][1] # c
  /\ BackedBy(s, journal[target[c]])
  /\ pc[c] \in {"fetch_tail", "save_events", "save_snapshot"} =>
       BackedUpTo(s, journal[target[c]], ver[c])

CallInv(c) ==
  /\ \E n \in 0..MaxEvents : batch[c] = NewEvents(c, n)
  /\ pc[c] \in {"fetch_snapshot", "fetch_tail", "handle"} => batch[c] = <<>>
  /\ pc[c] = "abort" => reply[c] \in {"concurrency_error", "database_error"}
  /\ reply[c] = "cancelled" => pc[c] \in {"save_events", "save_snapshot", "done"}
  /\ Written(c) => Holds(c)
  /\ Unwritten(c) => NoEventsOf(c)
  /\ Working(c) => \E s \in State : Known(c, s)

(* No event is in a journal twice.                                         *)
EventsOnce(j) == \A i, k \in DOMAIN j : j[i].event = j[k].event => i = k

(* A snapshot is backed by its journal.                                    *)
Backed(snapshot, j) ==
  snapshot # NoSnapshot =>
    BackedUpTo(snapshot.state, j, snapshot.version) /\ Once(snapshot.state)

MInv ==
  /\ CallTypeOK
  /\ StoreTypeOK
  /\ \A id \in Ids : EventsOnce(journal[id])
  /\ \A id \in Ids : Backed(snapshots[id], journal[id])
  /\ \A c \in Calls : CallInv(c)

-----------------------------------------------------------------------------
(* A list of entries of the journal above version v, none of them twice.   *)
EntriesAbove(tail, j, v) ==
  \E at \in [1..Len(tail) -> 1..Len(j)] :
    /\ \A k \in DOMAIN at : tail[k] = j[at[k]] /\ j[at[k]].version > v
    /\ \A k, l \in DOMAIN at : at[k] = at[l] => k = l

(* What an unsorted tail is, and that of one event is in order.            *)
LEMMA TailIs ==
  ASSUME NEW j \in Seq(Envelope), NEW v \in Nat,
         NEW tail \in AnyOrder(EventsFromVersion(j, v))
  PROVE  /\ tail \in Seq(Envelope)
         /\ Len(EventsFromVersion(j, v)) <= 1 => tail = EventsFromVersion(j, v)
         /\ EntriesAbove(tail, j, v)
  <1> DEFINE later == EventsFromVersion(j, v)
             n == Len(later)
  <1>1. /\ later \in Seq(Envelope) /\ n \in Nat /\ DOMAIN later = 1..n
    BY EventsFromVersionType, LenProperties
  <1>2. PICK place \in [1..n -> 1..Len(j)] :
          /\ \A k \in DOMAIN place : later[k] = j[place[k]] /\ j[place[k]].version > v
          /\ \A k, l \in DOMAIN place : place[k] = place[l] => k = l
    BY EventsFromVersionType
  <1>3. PICK p \in Arrangements(DOMAIN later) :
          tail = [i \in DOMAIN later |-> later[p[i]]]
    BY DEF AnyOrder
  <1> HIDE DEF later, n
  <1>4. p \in Injection(1..n, 1..n)
    <2>1. /\ p \in [DOMAIN later -> DOMAIN later]
          /\ Range(p) = DOMAIN later
      BY Zenon DEF Arrangements
    <2>2. p \in [1..n -> 1..n] /\ \A w \in 1..n : \E u \in 1..n : p[u] = w
      BY <1>1, <2>1 DEF Range
    <2>3. 1 \in Int /\ n \in Int
      BY <1>1
    <2>4. IsFiniteSet(1..n) /\ p \in Surjection(1..n, 1..n)
      BY <2>2, <2>3, FS_Interval DEF Surjection
    <2>. QED BY <2>4, FS_Surjection
  <1>5. p \in [1..n -> 1..n]
    BY <1>4 DEF Injection
  <1>7. \A k, l \in 1..n : p[k] = p[l] => k = l
    BY <1>4 DEF Injection, IsInjective
  <1>8. \A i \in 1..n : later[p[i]] \in Envelope
    BY <1>1, <1>5, ElementOfSeq DEF n
  <1>9. tail \in [1..n -> Envelope] /\ \A i \in 1..n : tail[i] = later[p[i]]
    BY <1>1, <1>3, <1>8
  <1>10. tail \in Seq(Envelope) /\ Len(tail) = n
    BY <1>1, <1>9, FunctionIsSeq
  <1>11. n <= 1 => tail = later
    <2>1. ASSUME n <= 1, NEW i \in 1..n
          PROVE  p[i] = i
      <3>1. p[i] \in 1..n
        BY <1>5
      <3>. QED BY <1>1, <2>1, <3>1
    <2>2. ASSUME n <= 1
          PROVE  tail = later
      <3>1. \A i \in 1..n : tail[i] = later[i]
        BY <1>9, <2>1, <2>2
      <3>2. DOMAIN tail = 1..n
        BY <1>9
      <3>3. tail \in Seq(Envelope) /\ Len(tail) = n
        BY <1>9, <1>1, FunctionIsSeq
      <3>. QED BY <1>1, <3>1, <3>3, SeqEqual DEF n
    <2>. QED BY <2>2
  <1> DEFINE at == [k \in 1..n |-> place[p[k]]]
  <1>12. /\ at \in [1..n -> 1..Len(j)]
         /\ \A k \in 1..n : tail[k] = j[at[k]] /\ j[at[k]].version > v
         /\ \A k, l \in 1..n : at[k] = at[l] => k = l
    <2>1. at \in [1..n -> 1..Len(j)]
      BY <1>2, <1>5
    <2>2. \A k \in 1..n : at[k] = place[p[k]] /\ p[k] \in 1..n
      BY <1>5
    <2>3. DOMAIN place = 1..n
      BY <1>2
    <2> HIDE DEF at
    <2>. QED BY <1>2, <1>7, <1>9, <2>1, <2>2, <2>3
  <1>13. DOMAIN at = 1..n
    OBVIOUS
  <1> HIDE DEF at
  <1>. QED BY <1>10, <1>11, <1>12, <1>13 DEF later, n, EntriesAbove

-----------------------------------------------------------------------------
(* The step of one call, as the others see it.                             *)
StepOf(c) ==
  /\ target' = target
  /\ \A d \in Calls : d # c => SameCall(d)
  /\ \A id \in Ids : GrowsBy(c, journal[id], journal'[id])

(* Entries stay, so what is backed stays backed.                           *)
LEMMA BackedStays ==
  ASSUME NEW j \in Seq(Envelope), NEW k \in Seq(Envelope), NEW c, GrowsBy(c, j, k)
  PROVE  /\ DOMAIN j \subseteq DOMAIN k /\ \A i \in DOMAIN j : k[i] = j[i]
         /\ \A i \in DOMAIN k \ DOMAIN j : k[i].event[1] = c
         /\ \A s : BackedBy(s, j) => BackedBy(s, k)
         /\ \A s, v : BackedUpTo(s, j, v) => BackedUpTo(s, k, v)
         /\ \A snapshot : Backed(snapshot, j) => Backed(snapshot, k)
  <1>1. /\ DOMAIN j = 1..Len(j) /\ Len(j) \in Nat
        /\ DOMAIN k = 1..Len(k) /\ Len(k) \in Nat
    BY LenProperties
  <1>2. /\ DOMAIN j \subseteq DOMAIN k /\ \A i \in DOMAIN j : k[i] = j[i]
        /\ \A i \in DOMAIN k \ DOMAIN j : k[i].event[1] = c
    BY <1>1 DEF GrowsBy
  <1>3. \A s : BackedBy(s, j) => BackedBy(s, k)
    BY <1>2 DEF BackedBy
  <1>4. \A s, v : BackedUpTo(s, j, v) => BackedUpTo(s, k, v)
    BY <1>2 DEF BackedUpTo
  <1>. QED BY <1>2, <1>3, <1>4 DEF Backed

(* A step of one call keeps what is said of another.                       *)
LEMMA OtherCallKeeps ==
  ASSUME MInv, StoreTypeOK', NEW c \in Calls, NEW d \in Calls, d # c, StepOf(c)
  PROVE  CallInv(d)'
  <1> DEFINE id == target[d]
             j == journal[id]
             k == journal'[id]
  <1>1. /\ CallInv(d) /\ SameCall(d) /\ target' = target /\ id \in Ids
        /\ j \in Seq(Envelope) /\ k \in Seq(Envelope) /\ GrowsBy(c, j, k)
        /\ ver[d] \in Nat /\ batch[d] \in State
    BY DEF MInv, StepOf, CallTypeOK, StoreTypeOK
  <1> HIDE DEF j, k
  <1>2. /\ DOMAIN j \subseteq DOMAIN k /\ \A i \in DOMAIN j : k[i] = j[i]
        /\ \A i \in DOMAIN k \ DOMAIN j : k[i].event[1] = c
        /\ \A s : BackedBy(s, j) => BackedBy(s, k)
        /\ \A s, v : BackedUpTo(s, j, v) => BackedUpTo(s, k, v)
    BY <1>1, BackedStays
  <1>3. \A i \in DOMAIN batch[d] : batch[d][i][1] = d
    <2>1. PICK n \in 0..MaxEvents : batch[d] = NewEvents(d, n)
      BY <1>1 DEF CallInv
    <2>. QED BY <2>1 DEF NewEvents
  <1>4. Holds(d) => Holds(d)'
    <2>1. ASSUME Holds(d), NEW i \in DOMAIN batch[d]
          PROVE  \E p \in DOMAIN k :
                   /\ k[p] = [version |-> ver[d] + i, event |-> batch[d][i]]
                   /\ \A m \in DOMAIN k \ {p} : k[m].event # batch[d][i]
      <3>1. PICK p \in DOMAIN j :
              /\ j[p] = [version |-> ver[d] + i, event |-> batch[d][i]]
              /\ \A m \in DOMAIN j \ {p} : j[m].event # batch[d][i]
        BY <2>1 DEF Holds, j
      <3>2. ASSUME NEW m \in DOMAIN k \ {p}
            PROVE  k[m].event # batch[d][i]
        <4>1. CASE m \in DOMAIN j
          BY <1>2, <3>1, <4>1
        <4>2. CASE m \notin DOMAIN j
          <5>1. k[m].event[1] = c
            BY <1>2, <4>2
          <5>. QED BY <1>3, <5>1
        <4>. QED BY <4>1, <4>2
      <3>. QED BY <1>2, <3>1, <3>2
    <2>. QED BY <1>1, <2>1 DEF Holds, SameCall, k
  <1>5. NoEventsOf(d) => NoEventsOf(d)'
    <2>1. ASSUME NoEventsOf(d), NEW e \in Ids, NEW i \in DOMAIN journal'[e]
          PROVE  journal'[e][i].event[1] # d
      <3>1. /\ journal[e] \in Seq(Envelope) /\ journal'[e] \in Seq(Envelope)
            /\ GrowsBy(c, journal[e], journal'[e])
        BY DEF MInv, StepOf, StoreTypeOK
      <3>2. /\ \A m \in DOMAIN journal[e] : journal'[e][m] = journal[e][m]
            /\ i \notin DOMAIN journal[e] => journal'[e][i].event[1] = c
        BY <2>1, <3>1, BackedStays
      <3>. QED BY <2>1, <3>2 DEF NoEventsOf
    <2>. QED BY <2>1 DEF NoEventsOf
  <1>6. ASSUME NEW s \in State, Known(d, s)
        PROVE  Known(d, s)'
    BY <1>1, <1>2, <1>6 DEF Known, SameCall, j, k
  <1>7. Working(d)' => \E s \in State : Known(d, s)'
    BY <1>1, <1>6 DEF CallInv, Working, SameCall
  <1>. QED BY <1>1, <1>4, <1>5, <1>7
       DEF CallInv, SameCall, Written, Unwritten, Answered

(* What an insert adds: the first k envelopes of the call, at the end.     *)
LEMMA InsertIs ==
  ASSUME CallTypeOK, StoreTypeOK, NEW c \in Calls, NEW k \in 0..Len(batch[c]),
         Insert(c, k)
  PROVE  LET id == target[c]
             n == Len(journal[id])
         IN  /\ journal' \in [Ids -> Seq(Envelope)]
             /\ \A d \in Ids \ {id} : journal'[d] = journal[d]
             /\ n \in Nat /\ k \in Nat /\ Len(journal'[id]) = n + k
             /\ \A i \in 1..n : journal'[id][i] = journal[id][i]
             /\ \A i \in 1..k : journal'[id][n + i] =
                  [version |-> ver[c] + i, event |-> batch[c][i]]
  <1> DEFINE id == target[c]
             j == journal[id]
             n == Len(j)
             new == SubSeq(Envelopes(c), 1, k)
  <1>1. /\ id \in Ids /\ j \in Seq(Envelope) /\ batch[c] \in State /\ ver[c] \in Nat
    BY DEF CallTypeOK, StoreTypeOK
  <1>2. n \in Nat /\ Len(batch[c]) \in Nat /\ k \in Nat /\ k <= Len(batch[c])
        /\ DOMAIN batch[c] = 1..Len(batch[c])
    BY <1>1, LenProperties DEF State
  <1>3. /\ Envelopes(c) \in Seq(Envelope)
        /\ Len(Envelopes(c)) = Len(batch[c])
        /\ \A i \in 1..Len(batch[c]) :
             Envelopes(c)[i] = [version |-> ver[c] + i, event |-> batch[c][i]]
    BY <1>1, <1>2, EnvelopedType DEF Envelopes, Enveloped
  <1>4. /\ new \in Seq(Envelope) /\ Len(new) = k
        /\ \A i \in 1..k : new[i] = [version |-> ver[c] + i, event |-> batch[c][i]]
    <2>1. k \in Nat /\ \A i \in 1..k : Envelopes(c)[i] \in Envelope
      BY <1>2, <1>3, ElementOfSeq
    <2>2. /\ new \in Seq(Envelope)
          /\ Len(new) = IF 1 <= k THEN k - 1 + 1 ELSE 0
          /\ \A i \in 1..(k - 1 + 1) : new[i] = Envelopes(c)[1 + i - 1]
      BY <2>1, SubSeqProperties
    <2>3. Len(new) = k /\ \A i \in 1..k : new[i] = Envelopes(c)[i]
      BY <2>1, <2>2
    <2>. QED BY <1>2, <1>3, <2>2, <2>3
  <1> HIDE DEF new, n
  <1>5. /\ j \o new \in Seq(Envelope)
        /\ Len(j \o new) = n + k
        /\ \A i \in 1..n : (j \o new)[i] = j[i]
        /\ \A i \in 1..k : (j \o new)[n + i] = new[i]
    <2> HIDE DEF j, id
    <2>1. j \in Seq(Envelope) /\ n = Len(j)
      BY <1>1 DEF n
    <2>2. new \in Seq(Envelope) /\ Len(new) = k
      BY <1>4
    <2>3. /\ j \o new \in Seq(Envelope)
          /\ Len(j \o new) = Len(j) + Len(new)
          /\ \A i \in 1..Len(j) : (j \o new)[i] = j[i]
          /\ \A i \in 1..Len(new) : (j \o new)[Len(j) + i] = new[i]
      BY ONLY <2>1, <2>2, EnvelopesAppend
    <2>. QED BY ONLY <2>1, <2>2, <2>3
  <1>6. /\ journal'[id] = j \o new
        /\ \A d \in Ids : d # id => journal'[d] = journal[d]
        /\ journal' \in [Ids -> Seq(Envelope)]
    BY <1>1, <1>5 DEF Insert, StoreTypeOK, new
  <1>. QED BY <1>2, <1>4, <1>5, <1>6 DEF n

(* The insert of a call that had none of its events there: every event is  *)
(* still there once, and all of them if nothing stopped it.                *)
LEMMA InsertHolds ==
  ASSUME MInv, NEW c \in Calls, pc[c] = "save_events", NEW k \in 0..Len(batch[c]),
         Insert(c, k)
  PROVE  /\ journal' \in [Ids -> Seq(Envelope)]
         /\ \A id \in Ids : GrowsBy(c, journal[id], journal'[id])
         /\ \A id \in Ids : EventsOnce(journal'[id])
         /\ k = Len(batch[c]) =>
              \A i \in DOMAIN batch[c] : \E p \in DOMAIN journal'[target[c]] :
                /\ journal'[target[c]][p] =
                     [version |-> ver[c] + i, event |-> batch[c][i]]
                /\ \A m \in DOMAIN journal'[target[c]] \ {p} :
                     journal'[target[c]][m].event # batch[c][i]
  <1> DEFINE id == target[c]
             j == journal[id]
             after == journal'[id]
             n == Len(j)
  <1>1. /\ journal' \in [Ids -> Seq(Envelope)]
        /\ \A d \in Ids \ {id} : journal'[d] = journal[d]
        /\ n \in Nat /\ k \in Nat /\ Len(after) = n + k
        /\ \A i \in 1..n : after[i] = j[i]
        /\ \A i \in 1..k : after[n + i] = [version |-> ver[c] + i, event |-> batch[c][i]]
    BY InsertIs DEF MInv
  <1>2. PICK size \in 0..MaxEvents : batch[c] = NewEvents(c, size)
    BY DEF MInv, CallInv
  <1>3. /\ Len(batch[c]) \in Nat /\ DOMAIN batch[c] = 1..Len(batch[c])
        /\ \A i \in 1..Len(batch[c]) : batch[c][i] = <<c, i>>
    BY <1>2, NewEventsType, MaxEventsAssumption DEF NewEvents
  <1>4. \A i \in 1..k : after[n + i].event = <<c, i>>
    <2>1. \A i \in 1..k : i \in 1..Len(batch[c])
      BY <1>1, <1>3
    <2> HIDE DEF after, n
    <2>2. ASSUME NEW i \in 1..k
          PROVE  after[n + i].event = <<c, i>>
      <3>1. after[n + i] = [version |-> ver[c] + i, event |-> batch[c][i]]
        BY <1>1
      <3>2. after[n + i].event = batch[c][i]
        BY ONLY <3>1
      <3>3. batch[c][i] = <<c, i>>
        BY <1>3, <2>1
      <3>. QED BY ONLY <3>2, <3>3
    <2>. QED BY <2>2
  <1>5. /\ id \in Ids /\ j \in Seq(Envelope) /\ DOMAIN j = 1..n
        /\ after \in Seq(Envelope) /\ DOMAIN after = 1..(n + k)
    BY <1>1, LenProperties DEF MInv, CallTypeOK, StoreTypeOK
  <1>6. \A i \in 1..n : j[i].event[1] # c
    BY <1>5 DEF MInv, CallInv, Unwritten, NoEventsOf
  <1>7. EventsOnce(j)
    BY <1>5 DEF MInv
  <1> HIDE DEF j, after, n
  <1>8. ASSUME NEW i \in 1..(n + k), i \notin 1..n
        PROVE  i - n \in 1..k /\ after[i].event = <<c, i - n>>
    <2>1. i - n \in 1..k /\ n + (i - n) = i
      BY <1>1, <1>8
    <2>. QED BY <1>4, <2>1
  <1>9. GrowsBy(c, j, after)
    <2>1. n <= n + k /\ Len(j) = n
      BY <1>1 DEF n
    <2>2. ASSUME NEW i \in 1..(n + k)
          PROVE  i <= n \/ after[i].event[1] = c
      BY <1>1, <1>8
    <2>. QED BY <1>1, <2>1, <2>2 DEF GrowsBy
  <1>10. EventsOnce(after)
    <2>1. ASSUME NEW i \in 1..(n + k), NEW m \in 1..(n + k), after[i].event = after[m].event
          PROVE  i = m
      <3>1. CASE i \in 1..n /\ m \in 1..n
        BY <1>1, <1>5, <1>7, <2>1, <3>1 DEF EventsOnce
      <3>2. CASE i \in 1..n /\ m \notin 1..n
        <4>1. after[i].event[1] # c /\ after[m].event[1] = c
          BY <1>1, <1>6, <1>8, <3>2
        <4>. QED BY <2>1, <4>1
      <3>3. CASE i \notin 1..n /\ m \in 1..n
        <4>1. after[m].event[1] # c /\ after[i].event[1] = c
          BY <1>1, <1>6, <1>8, <3>3
        <4>. QED BY <2>1, <4>1
      <3>4. CASE i \notin 1..n /\ m \notin 1..n
        <4>1. <<c, i - n>> = <<c, m - n>>
          BY <1>8, <2>1, <3>4
        <4>2. i - n = m - n
          BY <4>1
        <4>. QED BY <1>1, <4>2
      <3>. QED BY <3>1, <3>2, <3>3, <3>4
    <2>. QED BY <1>5, <2>1 DEF EventsOnce
  <1>11. \A d \in Ids : GrowsBy(c, journal[d], journal'[d]) /\ EventsOnce(journal'[d])
    <2>1. ASSUME NEW d \in Ids, d # id
          PROVE  GrowsBy(c, journal[d], journal'[d]) /\ EventsOnce(journal'[d])
      <3>1. journal'[d] = journal[d] /\ EventsOnce(journal[d])
        BY <1>1, <2>1 DEF MInv
      <3>2. journal[d] \in Seq(Envelope) /\ Len(journal[d]) \in Nat
        BY LenProperties DEF MInv, StoreTypeOK
      <3>. QED BY <3>1, <3>2 DEF GrowsBy
    <2>. QED BY <1>9, <1>10, <2>1 DEF j, after
  <1>12. ASSUME k = Len(batch[c]), NEW i \in DOMAIN batch[c]
         PROVE  \E p \in DOMAIN after :
                  /\ after[p] = [version |-> ver[c] + i, event |-> batch[c][i]]
                  /\ \A m \in DOMAIN after \ {p} : after[m].event # batch[c][i]
    <2>1. i \in 1..k /\ n + i \in 1..(n + k)
      BY <1>1, <1>3, <1>12
    <2>2. after[n + i] = [version |-> ver[c] + i, event |-> batch[c][i]]
      BY <1>1, <2>1
    <2>3. \A m \in DOMAIN after \ {n + i} : after[m].event # batch[c][i]
      BY <1>5, <1>10, <2>1, <2>2 DEF EventsOnce
    <2>. QED BY <1>5, <2>1, <2>2, <2>3
  <1>. QED BY <1>1, <1>11, <1>12 DEF after

(* What is left to show of a step of call c.                               *)
LEMMA StepKeeps ==
  ASSUME MInv, CallTypeOK', StoreTypeOK', NEW c \in Calls, StepOf(c),
         \A id \in Ids : EventsOnce(journal'[id]),
         \A id \in Ids : Backed(snapshots'[id], journal'[id]),
         CallInv(c)'
  PROVE  MInv'
  <1>1. ASSUME NEW d \in Calls PROVE CallInv(d)'
    BY OtherCallKeeps
  <1>. QED BY <1>1 DEF MInv

(* A step that leaves the store alone.                                     *)
LEMMA StoreStays ==
  ASSUME MInv, CallTypeOK', UNCHANGED store, target' = target, NEW c \in Calls,
         \A d \in Calls : d # c => SameCall(d)
  PROVE  /\ StoreTypeOK' /\ StepOf(c)
         /\ \A id \in Ids : EventsOnce(journal'[id])
         /\ \A id \in Ids : Backed(snapshots'[id], journal'[id])
  <1>1. journal' = journal /\ snapshots' = snapshots
    BY DEF store
  <1>2. ASSUME NEW id \in Ids PROVE GrowsBy(c, journal[id], journal'[id])
    <2>1. journal[id] \in Seq(Envelope)
      BY DEF MInv, StoreTypeOK
    <2>2. Len(journal[id]) \in Nat
      BY <2>1, LenProperties
    <2>. QED BY <1>1, <2>2 DEF GrowsBy
  <1>. QED BY <1>1, <1>2 DEF MInv, StoreTypeOK, StepOf

(* A step that only moves the call or answers it.                          *)
LEMMA CallMoves ==
  ASSUME MInv, CallTypeOK', UNCHANGED <<store, target, agg, ver, batch>>,
         NEW c \in Calls, \A d \in Calls : d # c => SameCall(d),
         pc'[c] \in {"fetch_snapshot", "fetch_tail", "handle"} => batch[c] = <<>>,
         pc'[c] = "abort" => reply'[c] \in {"concurrency_error", "database_error"},
         reply'[c] = "cancelled" => pc'[c] \in {"save_events", "save_snapshot", "done"},
         Written(c)' => Written(c),
         Unwritten(c)' => Unwritten(c),
         Working(c)' =>
           /\ Working(c)
           /\ pc'[c] \in {"fetch_tail", "save_events", "save_snapshot"} => pc'[c] = pc[c]
  PROVE  MInv'
  <1>1. /\ target' = target /\ agg' = agg /\ ver' = ver /\ batch' = batch
        /\ journal' = journal /\ snapshots' = snapshots
    BY DEF store
  <1>2. Holds(c) => Holds(c)'
    BY <1>1 DEF Holds
  <1>3. NoEventsOf(c) => NoEventsOf(c)'
    BY <1>1 DEF NoEventsOf
  <1>4. ASSUME NEW s \in State, Known(c, s), Working(c)'
        PROVE  Known(c, s)'
    BY <1>1, <1>4 DEF Known
  <1>5. CallInv(c)'
    BY <1>1, <1>2, <1>3, <1>4 DEF MInv, CallInv
  <1>. QED BY <1>5, StoreStays, StepKeeps

(* The actions that only move a call.                                      *)
LEMMA MovesKeep ==
  ASSUME MInv, NEW c \in Calls,
         \/ Refuse(c) /\ UNCHANGED store
         \/ StartSession(c) \/ CloseSession(c)
         \/ AbortSession(c) \/ Dispatch(c) \/ QueryFails(c) \/ Cancel(c)
         \/ CancelWrite(c)
         \/ FetchLatestEvent(c) /\ pc'[c] = "abort"
         \/ FetchSnapshot(c) /\ pc'[c] = "done"
  PROVE  MInv'
  <1> USE DEF Goto, Answer
  <1>t. /\ pc \in [Calls -> Label] /\ kind \in [Calls -> {"create", "update"}]
        /\ target \in [Calls -> Ids] /\ agg \in [Calls -> State]
        /\ ver \in [Calls -> Nat] /\ batch \in [Calls -> State]
        /\ reply \in [Calls -> Reply]
    BY DEF MInv, CallTypeOK
  <1>i. /\ pc[c] \in {"fetch_snapshot", "fetch_tail", "handle"} => batch[c] = <<>>
        /\ pc[c] = "abort" => reply[c] \in {"concurrency_error", "database_error"}
        /\ reply[c] = "cancelled" => pc[c] \in {"save_events", "save_snapshot", "done"}
    BY DEF MInv, CallInv
  <1> DEFINE Moves ==
        /\ CallTypeOK' /\ UNCHANGED <<store, target, agg, ver, batch>>
        /\ \A d \in Calls : d # c => SameCall(d)
        /\ pc'[c] \in {"fetch_snapshot", "fetch_tail", "handle"} => batch[c] = <<>>
        /\ pc'[c] = "abort" => reply'[c] \in {"concurrency_error", "database_error"}
        /\ reply'[c] = "cancelled" => pc'[c] \in {"save_events", "save_snapshot", "done"}
        /\ Written(c)' => Written(c)
        /\ Unwritten(c)' => Unwritten(c)
        /\ Working(c)' =>
             /\ Working(c)
             /\ pc'[c] \in {"fetch_tail", "save_events", "save_snapshot"} => pc'[c] = pc[c]
  <1> SUFFICES Moves
    BY CallMoves
  <1> USE DEF CallTypeOK, SameCall, Label, Reply, Written, Unwritten, Working, Answered, store
  <1>1. CASE Refuse(c) /\ UNCHANGED store
    BY <1>t, <1>i, <1>1 DEF Refuse
  <1>2. CASE StartSession(c)
    BY <1>t, <1>i, <1>2 DEF StartSession
  <1>3. CASE CloseSession(c)
    <2>1. /\ pc[c] = "close" /\ UNCHANGED <<journal, snapshots, kind, target, agg, ver, batch>>
          /\ \/ pc' = [pc EXCEPT ![c] = "done"] /\ reply' = [reply EXCEPT ![c] = "ok"]
             \/ pc' = [pc EXCEPT ![c] = "dispatch"] /\ reply' = reply
      BY <1>3 DEF CloseSession, Committed
    <2>2. Written(c) /\ reply[c] # "cancelled"
      BY <1>i, <2>1
    <2>3. /\ pc'[c] = "dispatch" \/ (pc'[c] = "done" /\ reply'[c] = "ok")
          /\ CallTypeOK' /\ \A d \in Calls : d # c => SameCall(d)
      BY <1>t, <2>1
    <2>4. ~ Unwritten(c)' /\ ~ Working(c)'
      BY <2>3
    <2>. QED BY <2>1, <2>2, <2>3, <2>4
  <1>4. CASE AbortSession(c)
    BY <1>t, <1>i, <1>4 DEF AbortSession, Aborted
  <1>5. CASE Dispatch(c)
    BY <1>t, <1>i, <1>5 DEF Dispatch, Dispatched
  <1>6. CASE QueryFails(c)
    BY <1>t, <1>i, <1>6 DEF QueryFails
  <1>7. CASE Cancel(c)
    BY <1>t, <1>i, <1>7 DEF Cancel, Drop
  <1>8. CASE CancelWrite(c)
    BY <1>t, <1>i, <1>8 DEF CancelWrite, Writing, InFlight
  <1>9. CASE FetchLatestEvent(c) /\ pc'[c] = "abort"
    BY <1>t, <1>i, <1>9 DEF FetchLatestEvent, CheckVersion
  <1>10. CASE FetchSnapshot(c) /\ pc'[c] = "done"
    <2>1. /\ pc[c] = "fetch_snapshot" /\ pc' = [pc EXCEPT ![c] = "done"]
          /\ UNCHANGED <<kind, target, agg, ver, batch, journal, snapshots>>
          /\ \E r \in {"already_exists", "not_found"} : reply' = [reply EXCEPT ![c] = r]
      BY <1>t, <1>10 DEF FetchSnapshot, InitializeAggregate, LoadSnapshot
    <2>. QED BY <1>t, <1>i, <2>1
  <1>. QED BY <1>1, <1>2, <1>3, <1>4, <1>5, <1>6, <1>7, <1>8, <1>9, <1>10

-----------------------------------------------------------------------------
(* A call that goes on with other data, its store untouched.               *)
LEMMA CallWorks ==
  ASSUME MInv, CallTypeOK', UNCHANGED store, target' = target, NEW c \in Calls,
         \A d \in Calls : d # c => SameCall(d),
         Unwritten(c), Working(c)', ~ Written(c)', reply'[c] # "cancelled",
         \E n \in 0..MaxEvents : batch'[c] = NewEvents(c, n),
         pc'[c] \in {"fetch_snapshot", "fetch_tail", "handle"} => batch'[c] = <<>>,
         \E s \in State : Known(c, s)'
  PROVE  MInv'
  <1>1. NoEventsOf(c)'
    BY DEF MInv, CallInv, NoEventsOf, store
  <1>2. pc'[c] # "abort"
    BY DEF Working
  <1>3. CallInv(c)'
    BY <1>1, <1>2 DEF CallInv
  <1>. QED BY <1>3, StoreStays, StepKeeps

(* The aggregate is made anew, or starts from its snapshot.                *)
LEMMA FetchSnapshotKeepsM ==
  ASSUME MInv, NEW c \in Calls, FetchSnapshot(c), pc'[c] # "done"
  PROVE  MInv'
  <1> DEFINE id == target[c]
             j == journal[id]
  <1>t. /\ pc \in [Calls -> Label] /\ kind \in [Calls -> {"create", "update"}]
        /\ target \in [Calls -> Ids] /\ agg \in [Calls -> State]
        /\ ver \in [Calls -> Nat] /\ batch \in [Calls -> State]
        /\ reply \in [Calls -> Reply]
        /\ snapshots \in [Ids -> Snapshot \cup {NoSnapshot}]
    BY DEF MInv, CallTypeOK, StoreTypeOK
  <1>1. /\ pc[c] = "fetch_snapshot" /\ batch[c] = <<>> /\ NoEventsOf(c) /\ CallInv(c)
        /\ \E n \in 0..MaxEvents : batch[c] = NewEvents(c, n)
    <2>1. pc[c] = "fetch_snapshot"
      BY DEF FetchSnapshot, InitializeAggregate, LoadSnapshot
    <2>. QED BY <2>1 DEF MInv, CallInv, Unwritten
  <1>2. \/ /\ agg' = [agg EXCEPT ![c] = <<>>] /\ ver' = [ver EXCEPT ![c] = 0]
           /\ pc' = [pc EXCEPT ![c] = "handle"]
        \/ /\ snapshots[id] # NoSnapshot
           /\ agg' = [agg EXCEPT ![c] = snapshots[id].state]
           /\ ver' = [ver EXCEPT ![c] = snapshots[id].version]
           /\ pc' = [pc EXCEPT ![c] = "fetch_tail"]
    BY <1>t DEF FetchSnapshot, InitializeAggregate, LoadSnapshot, Goto, Answer
  <1>3. UNCHANGED <<kind, target, batch, reply, store>>
    BY <1>t DEF FetchSnapshot, InitializeAggregate, LoadSnapshot, Goto, Answer
  <1>4. /\ snapshots[id] # NoSnapshot =>
             /\ snapshots[id].state \in State /\ snapshots[id].version \in Nat
             /\ BackedUpTo(snapshots[id].state, j, snapshots[id].version)
             /\ Once(snapshots[id].state)
        /\ id \in Ids
    BY <1>t DEF MInv, Snapshot, Backed
  <1>5. /\ CallTypeOK' /\ \A d \in Calls : d # c => SameCall(d)
    <2>1. agg'[c] \in State /\ ver'[c] \in Nat
      BY <1>t, <1>2, <1>4, EmptyState
    <2>2. /\ agg' = [agg EXCEPT ![c] = agg'[c]] /\ ver' = [ver EXCEPT ![c] = ver'[c]]
          /\ pc' = [pc EXCEPT ![c] = pc'[c]] /\ pc'[c] \in Label
      BY <1>t, <1>2 DEF Label
    <2>3. CallTypeOK'
      BY <1>t, <1>3, <2>1, <2>2 DEF CallTypeOK
    <2>4. \A d \in Calls : d # c => SameCall(d)
      BY <1>t, <1>3, <2>2 DEF SameCall
    <2>. QED BY <2>3, <2>4
  <1>6. \E s \in State : Known(c, s)'
    <2>1. CASE agg'[c] = <<>> /\ pc'[c] = "handle"
      <3>1. /\ <<>> \in State /\ <<>> \o <<>> = <<>>
            /\ DOMAIN <<>> = {}
        BY EmptyState
      <3>. QED BY <1>1, <1>3, <2>1, <3>1 DEF Known, Once, BackedBy
    <2>2. CASE /\ snapshots[id] # NoSnapshot
               /\ agg'[c] = snapshots[id].state /\ ver'[c] = snapshots[id].version
      <3> DEFINE s == snapshots[id].state
      <3>1. s \in State /\ s \o batch'[c] = s
        BY <1>1, <1>3, <1>4, <2>2, EmptyState
      <3>2. BackedUpTo(s, j, ver'[c]) /\ Once(s)
        BY <1>4, <2>2
      <3> HIDE DEF s
      <3>3. BackedBy(s, j) /\ \A i \in DOMAIN s : s[i][1] # c
        BY <1>1, <1>4, <3>2 DEF BackedBy, BackedUpTo, NoEventsOf
      <3>4. agg'[c] = s /\ journal'[target'[c]] = j
        BY <1>3, <2>2 DEF s, store
      <3>. QED BY <3>1, <3>2, <3>3, <3>4 DEF Known
    <2>. QED BY <1>t, <1>2, <2>1, <2>2
  <1>7. Unwritten(c) /\ Working(c)' /\ ~ Written(c)'
    BY <1>t, <1>1, <1>2 DEF Unwritten, Working, Written, Answered
  <1>8. reply'[c] # "cancelled"
    BY <1>1, <1>3 DEF CallInv
  <1>. QED BY <1>1, <1>3, <1>5, <1>6, <1>7, <1>8, CallWorks

(* The tail is applied, in whatever order it came.                         *)
LEMMA FetchEventsKeepsM ==
  ASSUME MInv, NEW c \in Calls, FetchEventsFromVersion(c)
  PROVE  MInv'
  <1> DEFINE id == target[c]
             j == journal[id]
             v == ver[c]
             later == EventsFromVersion(j, v)
  <1>t. /\ pc \in [Calls -> Label] /\ kind \in [Calls -> {"create", "update"}]
        /\ target \in [Calls -> Ids] /\ agg \in [Calls -> State]
        /\ ver \in [Calls -> Nat] /\ batch \in [Calls -> State]
        /\ reply \in [Calls -> Reply]
        /\ id \in Ids /\ j \in Seq(Envelope) /\ v \in Nat
        /\ CallInv(c) /\ EventsOnce(j)
    BY DEF MInv, CallTypeOK, StoreTypeOK
  <1>1. PICK tail \in AnyOrder(later) : LoadTail(c, tail)
    BY DEF FetchEventsFromVersion
  <1>2. /\ pc[c] = "fetch_tail"
        /\ agg' = [agg EXCEPT ![c] = @ \o EventsOf(tail)]
        /\ ver' = [ver EXCEPT ![c] =
                     IF tail = <<>> THEN @ ELSE tail[Len(tail)].version]
        /\ pc' = [pc EXCEPT ![c] = "handle"]
        /\ UNCHANGED <<kind, target, batch, reply, store>>
    BY <1>1 DEF LoadTail, Goto, FetchEventsFromVersion
  <1>3. /\ batch[c] = <<>> /\ NoEventsOf(c) /\ Unwritten(c)
        /\ \E n \in 0..MaxEvents : batch[c] = NewEvents(c, n)
        /\ \E s \in State : Known(c, s)
    BY <1>t, <1>2 DEF CallInv, Unwritten, Working
  <1>4. PICK s \in State : Known(c, s)
    BY <1>3
  <1>5. /\ agg[c] = s /\ Once(s) /\ \A i \in DOMAIN s : s[i][1] # c
        /\ BackedBy(s, j) /\ BackedUpTo(s, j, v)
    BY <1>2, <1>3, <1>4, EmptyState DEF Known
  <1> HIDE DEF j, v
  <1>6. tail \in Seq(Envelope) /\ EntriesAbove(tail, j, v)
    BY <1>1, <1>t, TailIs
  <1>7. PICK at \in [1..Len(tail) -> 1..Len(j)] :
          /\ \A k \in DOMAIN at : tail[k] = j[at[k]] /\ j[at[k]].version > v
          /\ \A k, l \in DOMAIN at : at[k] = at[l] => k = l
    BY <1>6 DEF EntriesAbove
  <1> HIDE DEF later
  <1>8. /\ DOMAIN j = 1..Len(j) /\ Len(j) \in Nat /\ Len(tail) \in Nat
        /\ DOMAIN tail = 1..Len(tail) /\ DOMAIN at = 1..Len(tail)
        /\ \A i \in 1..Len(j) : j[i].version \in Nat
    <2>1. \A i \in 1..Len(j) : j[i] \in Envelope
      BY <1>t, ElementOfSeq
    <2>. QED BY <1>t, <1>6, <1>7, <2>1, LenProperties DEF Envelope
  <1> DEFINE t == EventsOf(tail)
  <1>9. /\ t \in State /\ Len(t) = Len(tail)
        /\ \A k \in 1..Len(tail) : t[k] = j[at[k]].event
    <2>1. /\ t \in State /\ Len(t) = Len(tail)
          /\ \A k \in 1..Len(tail) : t[k] = tail[k].event
      BY <1>6, EventsOfType
    <2>. QED BY <1>7, <1>8, <2>1
  <1> HIDE DEF t
  <1>10. Once(t)
    <2>1. ASSUME NEW k \in 1..Len(tail), NEW l \in 1..Len(tail), t[k] = t[l]
          PROVE  k = l
      <3>1. at[k] \in DOMAIN j /\ at[l] \in DOMAIN j /\ j[at[k]].event = j[at[l]].event
        BY <1>7, <1>8, <1>9, <2>1
      <3>2. at[k] = at[l]
        BY <1>t, <3>1 DEF EventsOnce
      <3>. QED BY <1>7, <1>8, <3>2
    <2>2. DOMAIN t = 1..Len(tail)
      BY <1>9, LenProperties DEF State
    <2>. QED BY <2>1, <2>2 DEF Once
  <1>11. ASSUME NEW i \in DOMAIN s, NEW k \in 1..Len(tail)
         PROVE  s[i] # t[k]
    <2>1. PICK m \in DOMAIN j : j[m].event = s[i] /\ j[m].version <= v
      BY <1>5 DEF BackedUpTo
    <2>2. /\ at[k] \in DOMAIN j /\ j[at[k]].version > v /\ t[k] = j[at[k]].event
      BY <1>7, <1>8, <1>9
    <2>3. m # at[k]
      BY <1>t, <1>8, <2>1, <2>2
    <2>. QED BY <1>t, <2>1, <2>2, <2>3 DEF EventsOnce
  <1> DEFINE all == s \o t
  <1>12. /\ all \in State /\ Len(all) = Len(s) + Len(tail) /\ Len(s) \in Nat
         /\ DOMAIN s = 1..Len(s) /\ DOMAIN all = 1..(Len(s) + Len(tail))
         /\ \A i \in 1..Len(s) : all[i] = s[i]
         /\ \A i \in 1..Len(tail) : all[Len(s) + i] = t[i]
    <2>1. s \in Seq(Event) /\ t \in Seq(Event)
      BY <1>9 DEF State
    <2>2. /\ s \o t \in Seq(Event) /\ Len(s \o t) = Len(s) + Len(t)
          /\ \A i \in 1..Len(s) : (s \o t)[i] = s[i]
          /\ \A i \in 1..Len(t) : (s \o t)[Len(s) + i] = t[i]
      BY ONLY <2>1, AppendPlaces
    <2> HIDE DEF all
    <2>3. all \in Seq(Event) /\ Len(all) = Len(s) + Len(tail)
      BY <1>9, <2>2 DEF all
    <2>4. /\ \A i \in 1..Len(s) : all[i] = s[i]
          /\ \A i \in 1..Len(tail) : all[Len(s) + i] = t[i]
      BY <1>9, <2>2 DEF all
    <2>. QED BY <2>1, <2>3, <2>4, LenProperties DEF State
  <1> HIDE DEF all
  <1>13. ASSUME NEW i \in DOMAIN all
         PROVE  \/ i \in 1..Len(s) /\ all[i] = s[i]
                \/ /\ i \notin 1..Len(s) /\ i - Len(s) \in 1..Len(tail)
                   /\ all[i] = t[i - Len(s)]
    <2>1. CASE i \in 1..Len(s)
      BY <1>12, <2>1
    <2>2. CASE i \notin 1..Len(s)
      <3>1. i - Len(s) \in 1..Len(tail) /\ Len(s) + (i - Len(s)) = i
        BY <1>8, <1>12, <2>2
      <3>. QED BY <1>12, <2>2, <3>1
    <2>. QED BY <2>1, <2>2
  <1>14. Once(all)
    <2>1. ASSUME NEW i \in DOMAIN all, NEW k \in DOMAIN all, all[i] = all[k]
          PROVE  i = k
      <3>1. CASE i \in 1..Len(s) /\ k \in 1..Len(s)
        BY <1>5, <1>12, <2>1, <3>1 DEF Once
      <3>2. CASE i \in 1..Len(s) /\ k \notin 1..Len(s)
        <4>1. k - Len(s) \in 1..Len(tail) /\ all[k] = t[k - Len(s)]
          BY <1>13, <3>2
        <4>2. all[i] = s[i] /\ i \in DOMAIN s
          BY <1>12, <3>2
        <4>. QED BY <1>11, <2>1, <4>1, <4>2
      <3>3. CASE i \notin 1..Len(s) /\ k \in 1..Len(s)
        <4>1. i - Len(s) \in 1..Len(tail) /\ all[i] = t[i - Len(s)]
          BY <1>13, <3>3
        <4>2. all[k] = s[k] /\ k \in DOMAIN s
          BY <1>12, <3>3
        <4>. QED BY <1>11, <2>1, <4>1, <4>2
      <3>4. CASE i \notin 1..Len(s) /\ k \notin 1..Len(s)
        <4>1. /\ i - Len(s) \in 1..Len(tail) /\ all[i] = t[i - Len(s)]
              /\ k - Len(s) \in 1..Len(tail) /\ all[k] = t[k - Len(s)]
          BY <1>13, <3>4
        <4>2. DOMAIN t = 1..Len(tail)
          BY <1>9, LenProperties DEF State
        <4>3. i - Len(s) = k - Len(s)
          BY <1>10, <2>1, <4>1, <4>2 DEF Once
        <4>. QED BY <1>12, <4>3
      <3>. QED BY <3>1, <3>2, <3>3, <3>4
    <2>. QED BY <2>1 DEF Once
  <1>15. BackedBy(all, j)
    <2>1. ASSUME NEW i \in DOMAIN all
          PROVE  \E k \in DOMAIN j : j[k].event = all[i]
      <3>1. CASE i \in 1..Len(s)
        BY <1>5, <1>12, <3>1 DEF BackedBy
      <3>2. CASE i \notin 1..Len(s)
        <4>1. i - Len(s) \in 1..Len(tail) /\ all[i] = t[i - Len(s)]
          BY <1>13, <3>2
        <4>2. at[i - Len(s)] \in DOMAIN j /\ j[at[i - Len(s)]].event = all[i]
          BY <1>7, <1>8, <1>9, <4>1
        <4>. QED BY <4>2
      <3>. QED BY <3>1, <3>2
    <2>. QED BY <2>1 DEF BackedBy
  <1>16. \A i \in DOMAIN all : all[i][1] # c
    BY <1>t, <1>3, <1>15 DEF BackedBy, NoEventsOf, j
  <1>17. /\ agg'[c] = all \o batch'[c] /\ pc'[c] = "handle"
         /\ journal'[target'[c]] = j
    <2>1. agg'[c] = all
      BY <1>t, <1>2, <1>5 DEF all, t
    <2>2. all \o batch'[c] = all
      BY <1>2, <1>3, <1>12, EmptyState
    <2>. QED BY <1>t, <1>2, <2>1, <2>2 DEF store, j
  <1>18. \E u \in State : Known(c, u)'
    BY <1>12, <1>14, <1>15, <1>16, <1>17 DEF Known
  <1>19. CallTypeOK' /\ \A d \in Calls : d # c => SameCall(d)
    <2>1. agg[c] \o EventsOf(tail) \in State
      BY <1>5, <1>12 DEF all, t
    <2>2. (IF tail = <<>> THEN ver[c] ELSE tail[Len(tail)].version) \in Nat
      <3>1. tail # <<>> => Len(tail) \in 1..Len(tail)
        BY <1>6, EmptySeq, LenProperties
      <3>2. tail # <<>> => tail[Len(tail)] \in Envelope
        BY <1>6, <3>1, ElementOfSeq
      <3>. QED BY <1>t, <3>2 DEF Envelope, v
    <2>. QED BY <1>t, <1>2, <2>1, <2>2 DEF CallTypeOK, Label, SameCall
  <1>20. Working(c)' /\ ~ Written(c)'
    BY <1>17 DEF Working, Written, Answered
  <1>21. reply'[c] # "cancelled"
    BY <1>t, <1>2 DEF CallInv
  <1>. QED BY <1>2, <1>3, <1>18, <1>19, <1>20, <1>21, CallWorks

(* The handler's events are applied.                                       *)
LEMMA HandleKeepsM ==
  ASSUME MInv, NEW c \in Calls, Handle(c), UNCHANGED store
  PROVE  MInv'
  <1>t. /\ pc \in [Calls -> Label] /\ kind \in [Calls -> {"create", "update"}]
        /\ target \in [Calls -> Ids] /\ agg \in [Calls -> State]
        /\ ver \in [Calls -> Nat] /\ batch \in [Calls -> State]
        /\ reply \in [Calls -> Reply] /\ CallInv(c)
    BY DEF MInv, CallTypeOK
  <1>1. PICK n \in 0..MaxEvents :
          /\ batch' = [batch EXCEPT ![c] = NewEvents(c, n)]
          /\ agg' = [agg EXCEPT ![c] = @ \o NewEvents(c, n)]
    BY DEF Handle
  <1>2. /\ pc[c] = "handle" /\ pc' = [pc EXCEPT ![c] = "start_session"]
        /\ UNCHANGED <<kind, target, ver, reply, store>>
    BY DEF Handle, Goto
  <1>3. /\ Unwritten(c) /\ batch[c] = <<>>
        /\ \E s \in State : Known(c, s)
    BY <1>t, <1>2 DEF CallInv, Unwritten, Working
  <1>4. PICK s \in State : Known(c, s)
    BY <1>3
  <1>5. agg[c] = s
    BY <1>3, <1>4, EmptyState DEF Known
  <1> DEFINE new == NewEvents(c, n)
  <1>6. /\ new \in State /\ agg[c] \o new \in State
    <2>1. new \in State
      BY NewEventsType
    <2>2. agg[c] \in Seq(Event) /\ new \in Seq(Event)
      BY <1>t, <2>1 DEF State
    <2> HIDE DEF new
    <2>. QED BY <2>1, <2>2, ConcatProperties DEF State
  <1>7. CallTypeOK' /\ \A d \in Calls : d # c => SameCall(d)
    BY <1>t, <1>1, <1>2, <1>6 DEF CallTypeOK, Label, SameCall
  <1>8. /\ agg'[c] = s \o batch'[c] /\ batch'[c] = new
        /\ pc'[c] = "start_session"
    BY <1>t, <1>1, <1>2, <1>5
  <1> HIDE DEF new
  <1>9. Known(c, s)'
    BY <1>2, <1>4, <1>8 DEF Known, store
  <1>10. Working(c)' /\ ~ Written(c)'
    BY <1>8 DEF Working, Written, Answered
  <1>11. \E k \in 0..MaxEvents : batch'[c] = NewEvents(c, k)
    BY <1>8 DEF new
  <1>12. reply'[c] # "cancelled"
    BY <1>t, <1>2 DEF CallInv
  <1>. QED BY <1>2, <1>3, <1>7, <1>8, <1>9, <1>10, <1>11, <1>12, CallWorks

(* A call that passes the version check had read every version there is.   *)
LEMMA CheckKeepsM ==
  ASSUME MInv, NEW c \in Calls, FetchLatestEvent(c), pc'[c] # "abort"
  PROVE  MInv'
  <1> DEFINE j == journal[target[c]]
  <1>t. /\ pc \in [Calls -> Label] /\ kind \in [Calls -> {"create", "update"}]
        /\ target \in [Calls -> Ids] /\ agg \in [Calls -> State]
        /\ ver \in [Calls -> Nat] /\ batch \in [Calls -> State]
        /\ reply \in [Calls -> Reply] /\ CallInv(c)
        /\ j \in Seq(Envelope)
    BY DEF MInv, CallTypeOK, StoreTypeOK
  <1>1. /\ pc[c] = "fetch_latest" /\ ver[c] = LatestVersion(ByVersion(j))
        /\ pc' = [pc EXCEPT ![c] = "save_events"]
        /\ UNCHANGED <<kind, target, agg, ver, batch, reply, store>>
    BY <1>t DEF FetchLatestEvent, CheckVersion, VersionMatches, Goto
  <1>2. /\ Unwritten(c) /\ \E s \in State : Known(c, s)
        /\ \E n \in 0..MaxEvents : batch[c] = NewEvents(c, n)
    BY <1>t, <1>1 DEF CallInv, Unwritten, Working
  <1>3. PICK s \in State : Known(c, s)
    BY <1>2
  <1>4. \A i \in 1..Len(j) : j[i].version <= ver[c]
    BY <1>t, <1>1, LatestVersionOccurs
  <1>5. BackedUpTo(s, j, ver[c])
    BY <1>t, <1>3, <1>4, LenProperties DEF BackedUpTo, BackedBy, Known
  <1>6. /\ pc'[c] = "save_events" /\ agg' = agg /\ ver' = ver /\ batch' = batch
        /\ target' = target /\ journal' = journal
    BY <1>t, <1>1 DEF store
  <1>7. Known(c, s)'
    BY <1>3, <1>5, <1>6 DEF Known
  <1>8. CallTypeOK' /\ \A d \in Calls : d # c => SameCall(d)
    BY <1>t, <1>1 DEF CallTypeOK, Label, SameCall
  <1>9. Working(c)' /\ ~ Written(c)'
    BY <1>6 DEF Working, Written, Answered
  <1>10. reply'[c] # "cancelled"
    BY <1>t, <1>1 DEF CallInv
  <1>. QED BY <1>1, <1>2, <1>6, <1>7, <1>8, <1>9, <1>10, CallWorks

(* The insert of a call: the whole batch, and then the snapshot; or any    *)
(* part of it, and then an error or nobody to answer.                      *)
LEMMA InsertKeepsM ==
  ASSUME MInv, NEW c \in Calls, pc[c] = "save_events", NEW k \in 0..Len(batch[c]),
         Insert(c, k), UNCHANGED <<kind, target, agg, ver, batch, snapshots>>,
         CallTypeOK', \A d \in Calls : d # c => SameCall(d),
         \/ pc'[c] = "save_snapshot" /\ k = Len(batch[c])
         \/ pc'[c] = "abort" /\ reply'[c] = "database_error"
         \/ pc'[c] = "done" /\ reply'[c] = "cancelled"
  PROVE  MInv'
  <1> DEFINE id == target[c]
             j == journal[id]
             after == journal'[id]
  <1>1. /\ journal' \in [Ids -> Seq(Envelope)]
        /\ \A d \in Ids : GrowsBy(c, journal[d], journal'[d])
        /\ \A d \in Ids : EventsOnce(journal'[d])
        /\ k = Len(batch[c]) =>
             \A i \in DOMAIN batch[c] : \E p \in DOMAIN journal'[id] :
               /\ journal'[id][p] =
                    [version |-> ver[c] + i, event |-> batch[c][i]]
               /\ \A m \in DOMAIN journal'[id] \ {p} :
                    journal'[id][m].event # batch[c][i]
    BY InsertHolds
  <1>2. StoreTypeOK' /\ StepOf(c)
    BY <1>1 DEF MInv, StoreTypeOK, StepOf
  <1>3. ASSUME NEW d \in Ids PROVE Backed(snapshots'[d], journal'[d])
    <2>1. /\ journal[d] \in Seq(Envelope) /\ journal'[d] \in Seq(Envelope)
          /\ GrowsBy(c, journal[d], journal'[d])
          /\ Backed(snapshots[d], journal[d]) /\ snapshots'[d] = snapshots[d]
      BY <1>1 DEF MInv, StoreTypeOK
    <2>. QED BY <2>1, BackedStays
  <1>4. /\ CallInv(c) /\ batch' = batch /\ target' = target /\ ver' = ver /\ agg' = agg
        /\ id \in Ids /\ j \in Seq(Envelope) /\ after \in Seq(Envelope)
        /\ GrowsBy(c, j, after)
    BY <1>1 DEF MInv, CallTypeOK, StoreTypeOK
  <1>5. pc'[c] = "save_snapshot" => Holds(c)' /\ \E s \in State : Known(c, s)'
    <2> SUFFICES ASSUME pc'[c] = "save_snapshot"
                 PROVE  Holds(c)' /\ \E s \in State : Known(c, s)'
      OBVIOUS
    <2>0. \A i \in DOMAIN batch[c] : \E p \in DOMAIN journal'[id] :
            /\ journal'[id][p] = [version |-> ver[c] + i, event |-> batch[c][i]]
            /\ \A m \in DOMAIN journal'[id] \ {p} : journal'[id][m].event # batch[c][i]
      BY <1>1
    <2>9. batch'[c] = batch[c] /\ target'[c] = id /\ ver'[c] = ver[c]
      BY <1>4
    <2>10. ASSUME NEW i \in DOMAIN batch'[c]
           PROVE  \E p \in DOMAIN journal'[target'[c]] :
                    /\ journal'[target'[c]][p]
                         = [version |-> ver'[c] + i, event |-> batch'[c][i]]
                    /\ \A m \in DOMAIN journal'[target'[c]] \ {p} :
                         journal'[target'[c]][m].event # batch'[c][i]
      <3>1. i \in DOMAIN batch[c]
        BY <2>9, <2>10
      <3>2. PICK p \in DOMAIN journal'[id] :
              /\ journal'[id][p] = [version |-> ver[c] + i, event |-> batch[c][i]]
              /\ \A m \in DOMAIN journal'[id] \ {p} : journal'[id][m].event # batch[c][i]
        BY <2>0, <3>1
      <3> HIDE DEF id
      <3>3. /\ journal'[target'[c]][p] = [version |-> ver'[c] + i, event |-> batch'[c][i]]
            /\ p \in DOMAIN journal'[target'[c]]
        BY ONLY <2>9, <3>2
      <3>4. \A m \in DOMAIN journal'[target'[c]] \ {p} :
              journal'[target'[c]][m].event # batch'[c][i]
        BY ONLY <2>9, <3>2
      <3>. QED BY <3>3, <3>4
    <2>1. Holds(c)'
      BY <2>10 DEF Holds
    <2>2. PICK s \in State : Known(c, s)
      BY <1>4 DEF CallInv, Working
    <2> HIDE DEF j, after
    <2>3. BackedBy(s, after) /\ BackedUpTo(s, after, ver[c])
      BY <1>4, <2>2, BackedStays DEF Known, j
    <2>4. Known(c, s)'
      BY <1>4, <2>2, <2>3 DEF Known, after
    <2>. QED BY <2>1, <2>4
  <1>6. CallInv(c)'
    <2>1. \E n \in 0..MaxEvents : batch'[c] = NewEvents(c, n)
      BY <1>4 DEF CallInv
    <2>2. ~ Unwritten(c)' /\ (Written(c)' \/ Working(c)' => pc'[c] = "save_snapshot")
      BY DEF Unwritten, Written, Working, Answered
    <2>3. /\ pc'[c] \notin {"fetch_snapshot", "fetch_tail", "handle"}
          /\ pc'[c] = "abort" => reply'[c] = "database_error"
          /\ reply'[c] = "cancelled" => pc'[c] \in {"save_events", "save_snapshot", "done"}
      OBVIOUS
    <2>. QED BY <1>5, <2>1, <2>2, <2>3 DEF CallInv
  <1>. QED BY <1>1, <1>2, <1>3, <1>6, StepKeeps

(* The snapshot of a call that is committing: what it loaded was there     *)
(* already, its own events are there since.                                *)
LEMMA NewSnapshotBacked ==
  ASSUME MInv, NEW c \in Calls, pc[c] = "save_snapshot"
  PROVE  /\ NewSnapshot(c) \in Snapshot
         /\ Backed(NewSnapshot(c), journal[target[c]])
  <1> DEFINE j == journal[target[c]]
             b == batch[c]
             v == ver[c]
             size == Len(b)
  <1>t. /\ agg[c] \in State /\ v \in Nat /\ b \in State /\ CallInv(c) /\ Holds(c)
        /\ j \in Seq(Envelope)
    BY DEF MInv, CallTypeOK, StoreTypeOK, CallInv, Written
  <1>1. PICK n \in 0..MaxEvents : b = NewEvents(c, n)
    BY <1>t DEF CallInv
  <1>2. /\ size \in Nat /\ DOMAIN b = 1..size /\ \A i \in 1..size : b[i] = <<c, i>>
    BY <1>1, NewEventsType, MaxEventsAssumption DEF NewEvents
  <1>3. PICK s \in State : Known(c, s)
    BY <1>t DEF CallInv, Working
  <1>4. /\ agg[c] = s \o b /\ Once(s) /\ \A i \in DOMAIN s : s[i][1] # c
        /\ BackedUpTo(s, j, v)
    BY <1>3 DEF Known
  <1>5. \A i \in 1..size : \E k \in DOMAIN j :
          j[k].version = v + i /\ j[k].event = b[i]
    <2>1. ASSUME NEW i \in DOMAIN b
          PROVE  \E k \in DOMAIN j : j[k] = [version |-> v + i, event |-> b[i]]
      BY <1>t DEF Holds
    <2> HIDE DEF j, b, v
    <2>2. ASSUME NEW i \in DOMAIN b
          PROVE  \E k \in DOMAIN j : j[k].version = v + i /\ j[k].event = b[i]
      <3>1. PICK k \in DOMAIN j : j[k] = [version |-> v + i, event |-> b[i]]
        BY <2>1
      <3>. QED BY <3>1
    <2>. QED BY <1>2, <2>2
  <1> DEFINE all == agg[c]
  <1> HIDE DEF j, b, v
  <1>6. /\ Len(s) \in Nat /\ DOMAIN s = 1..Len(s) /\ DOMAIN all = 1..(Len(s) + size)
        /\ \A i \in 1..Len(s) : all[i] = s[i]
        /\ \A i \in 1..size : all[Len(s) + i] = b[i]
    <2>1. s \in Seq(Event) /\ b \in Seq(Event) /\ all \in Seq(Event)
      BY <1>t DEF State
    <2>2. /\ Len(s \o b) = Len(s) + Len(b)
          /\ \A i \in 1..Len(s) : (s \o b)[i] = s[i]
          /\ \A i \in 1..Len(b) : (s \o b)[Len(s) + i] = b[i]
      BY ONLY <2>1, AppendPlaces
    <2>3. all = s \o b
      BY <1>4
    <2> HIDE DEF all
    <2>. QED BY <2>1, <2>2, <2>3, LenProperties
  <1> HIDE DEF all, size
  <1>7. ASSUME NEW i \in DOMAIN all
        PROVE  \/ i \in DOMAIN s /\ all[i] = s[i]
               \/ /\ i \notin DOMAIN s /\ i - Len(s) \in 1..size
                  /\ all[i] = b[i - Len(s)]
    <2>1. CASE i \in 1..Len(s)
      BY <1>6, <2>1
    <2>2. CASE i \notin 1..Len(s)
      <3>1. i - Len(s) \in 1..size /\ Len(s) + (i - Len(s)) = i
        BY <1>2, <1>6, <2>2
      <3>. QED BY <1>6, <2>2, <3>1
    <2>. QED BY <2>1, <2>2
  <1>8. Once(all)
    <2>1. ASSUME NEW i \in DOMAIN all, NEW k \in DOMAIN all, all[i] = all[k]
          PROVE  i = k
      <3>1. CASE i \in DOMAIN s /\ k \in DOMAIN s
        BY <1>4, <1>7, <2>1, <3>1 DEF Once
      <3>2. CASE i \in DOMAIN s /\ k \notin DOMAIN s
        <4>1. all[i][1] # c
          BY <1>4, <1>7, <3>2
        <4>2. all[k] = <<c, k - Len(s)>>
          BY <1>2, <1>7, <3>2
        <4>3. all[k][1] = c
          BY <4>2
        <4>. QED BY <2>1, <4>1, <4>3
      <3>3. CASE i \notin DOMAIN s /\ k \in DOMAIN s
        <4>1. all[k][1] # c
          BY <1>4, <1>7, <3>3
        <4>2. all[i] = <<c, i - Len(s)>>
          BY <1>2, <1>7, <3>3
        <4>3. all[i][1] = c
          BY <4>2
        <4>. QED BY <2>1, <4>1, <4>3
      <3>4. CASE i \notin DOMAIN s /\ k \notin DOMAIN s
        <4>1. all[i] = <<c, i - Len(s)>> /\ all[k] = <<c, k - Len(s)>>
          BY <1>2, <1>7, <3>4
        <4> DEFINE p == i - Len(s)
                   q == k - Len(s)
        <4>2. <<c, p>> = <<c, q>>
          BY <2>1, <4>1
        <4>3. p = q
          <5> HIDE DEF p, q
          <5>. QED BY <4>2
        <4>. QED BY <1>6, <4>3
      <3>. QED BY <3>1, <3>2, <3>3, <3>4
    <2>. QED BY <2>1 DEF Once
  <1>9. BackedUpTo(all, j, v + size)
    <2>0. \A k \in DOMAIN j : j[k].version \in Nat
      <3>1. \A k \in 1..Len(j) : j[k] \in Envelope
        BY <1>t, ElementOfSeq
      <3>. QED BY <1>t, <3>1, LenProperties DEF Envelope
    <2>1. ASSUME NEW i \in DOMAIN all
          PROVE  \E k \in DOMAIN j : j[k].event = all[i] /\ j[k].version <= v + size
      <3>1. CASE i \in DOMAIN s
        <4>1. PICK k \in DOMAIN j : j[k].event = s[i] /\ j[k].version <= v
          BY <1>4, <3>1 DEF BackedUpTo
        <4>2. j[k].version <= v + size
          BY <1>t, <1>2, <2>0, <4>1
        <4>. QED BY <1>7, <3>1, <4>1, <4>2
      <3>2. CASE i \notin DOMAIN s
        <4>1. i - Len(s) \in 1..size /\ all[i] = b[i - Len(s)]
          BY <1>7, <3>2
        <4>2. PICK k \in DOMAIN j : /\ j[k].version = v + (i - Len(s))
                                    /\ j[k].event = all[i]
          BY <1>5, <4>1
        <4>3. j[k].version <= v + size
          BY <1>t, <1>2, <2>0, <4>1, <4>2
        <4>. QED BY <4>2, <4>3
      <3>. QED BY <3>1, <3>2
    <2>. QED BY <2>1 DEF BackedUpTo
  <1>10. NewSnapshot(c) = [state |-> all, version |-> v + size]
    BY DEF NewSnapshot, all, v, size, b
  <1>11. /\ NewSnapshot(c) \in Snapshot
         /\ NewSnapshot(c).state = all /\ NewSnapshot(c).version = v + size
    BY <1>t, <1>2, <1>10 DEF Snapshot, all
  <1>. QED BY <1>8, <1>9, <1>11 DEF Backed, j

(* The replacement of the snapshot, done or not, of a call that is awaited *)
(* or was dropped.                                                         *)
LEMMA ReplaceKeepsM ==
  ASSUME MInv, NEW c \in Calls, pc[c] = "save_snapshot",
         \/ snapshots' = [snapshots EXCEPT ![target[c]] = NewSnapshot(c)]
         \/ UNCHANGED snapshots,
         UNCHANGED <<kind, target, agg, ver, batch, journal>>,
         CallTypeOK', \A d \in Calls : d # c => SameCall(d),
         \/ pc'[c] = "close" /\ reply'[c] # "cancelled"
         \/ pc'[c] = "abort" /\ reply'[c] = "database_error"
         \/ pc'[c] = "done" /\ reply'[c] = "cancelled"
  PROVE  MInv'
  <1>1. /\ NewSnapshot(c) \in Snapshot
        /\ Backed(NewSnapshot(c), journal[target[c]])
    BY NewSnapshotBacked
  <1>2. /\ journal' = journal /\ batch' = batch /\ target' = target
        /\ ver' = ver /\ target[c] \in Ids /\ CallInv(c)
        /\ snapshots \in [Ids -> Snapshot \cup {NoSnapshot}]
    BY DEF MInv, CallTypeOK, StoreTypeOK
  <1>3. /\ snapshots' \in [Ids -> Snapshot \cup {NoSnapshot}]
        /\ \A id \in Ids : snapshots'[id] = snapshots[id]
                           \/ (id = target[c] /\ snapshots'[id] = NewSnapshot(c))
    BY <1>1, <1>2
  <1>4. \A id \in Ids : Backed(snapshots'[id], journal'[id])
    BY <1>1, <1>2, <1>3 DEF MInv
  <1>5. StoreTypeOK' /\ \A id \in Ids : EventsOnce(journal'[id])
    BY <1>2, <1>3 DEF MInv, StoreTypeOK
  <1>6. StepOf(c)
    <2>1. ASSUME NEW id \in Ids PROVE GrowsBy(c, journal[id], journal'[id])
      <3>1. journal[id] \in Seq(Envelope) /\ journal'[id] = journal[id]
        BY <1>2 DEF MInv, StoreTypeOK
      <3>2. Len(journal[id]) \in Nat
        BY <3>1, LenProperties
      <3>. QED BY <3>1, <3>2 DEF GrowsBy
    <2>. QED BY <1>2, <2>1 DEF StepOf
  <1>7. Holds(c)'
    <2>1. Holds(c)
      BY <1>2 DEF CallInv, Written
    <2>. QED BY <1>2, <2>1 DEF Holds
  <1>8. CallInv(c)'
    <2>1. ~ Unwritten(c)' /\ ~ Working(c)'
      BY DEF Unwritten, Working
    <2>2. /\ pc'[c] \notin {"fetch_snapshot", "fetch_tail", "handle"}
          /\ pc'[c] = "abort" => reply'[c] = "database_error"
          /\ reply'[c] = "cancelled" => pc'[c] \in {"save_events", "save_snapshot", "done"}
      OBVIOUS
    <2>. QED BY <1>2, <1>7, <2>1, <2>2 DEF CallInv
  <1>. QED BY <1>4, <1>5, <1>6, <1>8, StepKeeps

(* The actions that write.                                                 *)
LEMMA WritesKeepM ==
  ASSUME MInv, NEW c \in Calls, SaveEvents(c) \/ SaveSnapshot(c) \/ LateWrite(c)
  PROVE  MInv'
  <1> USE DEF Goto
  <1>t. /\ pc \in [Calls -> Label] /\ kind \in [Calls -> {"create", "update"}]
        /\ target \in [Calls -> Ids] /\ agg \in [Calls -> State]
        /\ ver \in [Calls -> Nat] /\ batch \in [Calls -> State]
        /\ reply \in [Calls -> Reply]
        /\ Len(batch[c]) \in Nat
    BY LenProperties DEF MInv, CallTypeOK, State
  <1>1. CASE SaveEvents(c)
    <2>1. /\ pc[c] = "save_events"
          /\ UNCHANGED <<kind, target, agg, ver, batch, snapshots>>
          /\ \E k \in 0..Len(batch[c]) :
               /\ Insert(c, k)
               /\ \/ /\ k = Len(batch[c]) /\ reply' = reply
                     /\ pc' = [pc EXCEPT ![c] = "save_snapshot"]
                  \/ /\ reply' = [reply EXCEPT ![c] = "database_error"]
                     /\ pc' = [pc EXCEPT ![c] = "abort"]
      <3>1. Len(batch[c]) \in 0..Len(batch[c])
        BY <1>t
      <3>. QED BY <1>1, <3>1 DEF SaveEvents
    <2>2. PICK k \in 0..Len(batch[c]) :
            /\ Insert(c, k)
            /\ \/ /\ k = Len(batch[c]) /\ reply' = reply
                  /\ pc' = [pc EXCEPT ![c] = "save_snapshot"]
               \/ /\ reply' = [reply EXCEPT ![c] = "database_error"]
                  /\ pc' = [pc EXCEPT ![c] = "abort"]
      BY <2>1
    <2>3. CallTypeOK' /\ \A d \in Calls : d # c => SameCall(d)
      BY <1>t, <2>1, <2>2 DEF CallTypeOK, SameCall, Label, Reply
    <2>4. \/ pc'[c] = "save_snapshot" /\ k = Len(batch[c])
          \/ pc'[c] = "abort" /\ reply'[c] = "database_error"
      BY <1>t, <2>2
    <2>. QED BY <2>1, <2>2, <2>3, <2>4, InsertKeepsM
  <1>2. CASE SaveSnapshot(c)
    <2>1. /\ pc[c] = "save_snapshot"
          /\ UNCHANGED <<kind, target, agg, ver, batch, journal>>
          /\ \/ snapshots' = [snapshots EXCEPT ![target[c]] = NewSnapshot(c)]
             \/ UNCHANGED snapshots
          /\ \/ /\ pc' = [pc EXCEPT ![c] = "close"] /\ reply' = reply
                /\ reply[c] # "cancelled"
             \/ /\ pc' = [pc EXCEPT ![c] = "abort"]
                /\ reply' = [reply EXCEPT ![c] = "database_error"]
      BY <1>2 DEF SaveSnapshot, InFlight
    <2>2. CallTypeOK' /\ \A d \in Calls : d # c => SameCall(d)
      BY <1>t, <2>1 DEF CallTypeOK, SameCall, Label, Reply
    <2>3. \/ pc'[c] = "close" /\ reply'[c] # "cancelled"
          \/ pc'[c] = "abort" /\ reply'[c] = "database_error"
      BY <1>t, <2>1
    <2>. QED BY <2>1, <2>2, <2>3, ReplaceKeepsM
  <1>3. CASE LateWrite(c)
    <2>1. /\ reply[c] = "cancelled" /\ pc' = [pc EXCEPT ![c] = "done"]
          /\ UNCHANGED <<kind, target, agg, ver, batch, reply>>
      BY <1>3 DEF LateWrite, InFlight
    <2>2. CallTypeOK' /\ \A d \in Calls : d # c => SameCall(d)
      BY <1>t, <2>1 DEF CallTypeOK, SameCall, Label
    <2>3. pc'[c] = "done" /\ reply'[c] = "cancelled"
      BY <1>t, <2>1
    <2>4. CASE /\ pc[c] = "save_events" /\ UNCHANGED snapshots
               /\ \E k \in 0..Len(batch[c]) : Insert(c, k)
      BY <2>1, <2>2, <2>3, <2>4, InsertKeepsM
    <2>5. CASE /\ pc[c] = "save_snapshot" /\ UNCHANGED journal
               /\ \/ snapshots' = [snapshots EXCEPT ![target[c]] = NewSnapshot(c)]
                  \/ UNCHANGED snapshots
      BY <2>1, <2>2, <2>3, <2>5, ReplaceKeepsM
    <2>. QED BY <1>3, <2>4, <2>5 DEF LateWrite
  <1>. QED BY <1>1, <1>2, <1>3

(* The store begins in MInv.                                               *)
LEMMA MInvInitially == Init => MInv
  <1> SUFFICES ASSUME Init PROVE MInv
    OBVIOUS
  <1>1. CallTypeOK /\ StoreTypeOK
    <2>1. <<>> \in State /\ <<>> \in Seq(Envelope)
      BY EmptyState, EmptySeq
    <2>. QED BY <2>1 DEF Init, CallInit, StoreInit, CallTypeOK, StoreTypeOK, Label, Reply
  <1>2. /\ \A id \in Ids : journal[id] = <<>> /\ snapshots[id] = NoSnapshot
        /\ DOMAIN <<>> = {}
    BY DEF Init, StoreInit
  <1>3. \A id \in Ids : EventsOnce(journal[id]) /\ Backed(snapshots[id], journal[id])
    BY <1>2 DEF EventsOnce, Backed
  <1>4. ASSUME NEW c \in Calls PROVE CallInv(c)
    <2>1. pc[c] = "fetch_snapshot" /\ batch[c] = <<>> /\ reply[c] = "none"
      BY DEF Init, CallInit
    <2>2. 0 \in 0..MaxEvents /\ <<>> = NewEvents(c, 0)
      BY MaxEventsAssumption DEF NewEvents
    <2>3. NoEventsOf(c)
      BY <1>2 DEF NoEventsOf
    <2>. QED BY <2>1, <2>2, <2>3 DEF CallInv, Written, Working, Answered
  <1>. QED BY <1>1, <1>3, <1>4 DEF MInv

(* Every step of MongoDB's store keeps MInv.                               *)
LEMMA MInvKept == MInv /\ [Next]_vars => MInv'
  <1> SUFFICES ASSUME MInv, [Next]_vars PROVE MInv'
    OBVIOUS
  <1>1. ASSUME NEW c \in Calls, FetchSnapshot(c) PROVE MInv'
    BY <1>1, MovesKeep, FetchSnapshotKeepsM
  <1>2. ASSUME NEW c \in Calls, FetchEventsFromVersion(c) PROVE MInv'
    BY <1>2, FetchEventsKeepsM
  <1>3. ASSUME NEW c \in Calls, RunHandler(c) PROVE MInv'
    BY <1>3, MovesKeep, HandleKeepsM DEF RunHandler, store
  <1>4. ASSUME NEW c \in Calls, FetchLatestEvent(c) PROVE MInv'
    BY <1>4, MovesKeep, CheckKeepsM
  <1>5. ASSUME NEW c \in Calls, SaveEvents(c) \/ SaveSnapshot(c) \/ LateWrite(c)
        PROVE  MInv'
    BY <1>5, WritesKeepM
  <1>6. ASSUME NEW c \in Calls,
               \/ StartSession(c) \/ CloseSession(c) \/ AbortSession(c)
               \/ Dispatch(c) \/ QueryFails(c) \/ Cancel(c) \/ CancelWrite(c)
        PROVE  MInv'
    BY <1>6, MovesKeep
  <1>7. CASE UNCHANGED vars
    <2>1. /\ pc' = pc /\ kind' = kind /\ target' = target /\ agg' = agg /\ ver' = ver
          /\ batch' = batch /\ reply' = reply /\ journal' = journal
          /\ snapshots' = snapshots
      BY <1>7 DEF vars, callVars, store
    <2>2. ASSUME NEW c \in Calls PROVE CallInv(c)'
      <3>1. CallInv(c)
        BY DEF MInv
      <3>. QED BY <2>1, <3>1
           DEF CallInv, Written, Unwritten, Working, Answered, Holds, NoEventsOf, Known
    <2>. QED BY <2>1, <2>2 DEF MInv, CallTypeOK, StoreTypeOK
  <1>. QED BY <1>1, <1>2, <1>3, <1>4, <1>5, <1>6, <1>7 DEF Next, Step, Idle

(* An answer can be believed, under every interleaving, failure and drop:  *)
(* "ok" means that each event of the command is in the journal, once, at   *)
(* the version it was given; a refusal, that none of them ever got there.  *)
THEOREM AnswersAreHeld == Spec => []AnswersHold
  <1>1. MInv => AnswersHold
    <2> SUFFICES ASSUME MInv, NEW c \in Calls
                 PROVE  /\ Refused(c) => NoEventsOf(c)
                        /\ Answered(c, "ok") => Holds(c)
      BY DEF AnswersHold, Holds
    <2>. QED BY DEF MInv, CallInv, Refused, Unwritten, Written, Answered
  <1>. QED BY <1>1, MInvInitially, MInvKept, PTL DEF Spec

(* Whoever replaced a snapshot last, and in whatever order its load read   *)
(* the tail, what the snapshot holds is in the journal, nothing twice, and *)
(* a load that starts from its version does not read any of it again.      *)
THEOREM SnapshotsAreBacked == Spec => []SnapshotIsBacked
  <1>1. MInv => SnapshotIsBacked
    BY DEF MInv, SnapshotIsBacked, Backed, BackedUpTo, Once
  <1>. QED BY <1>1, MInvInitially, MInvKept, PTL DEF Spec

-----------------------------------------------------------------------------
(* Aggregates whose commands did not get in each other's way.              *)

Exact(j, snapshot) ==
  \/ snapshot = NoSnapshot /\ j = <<>>
  \/ snapshot = [state |-> EventsOf(j), version |-> Len(j)]

(* What a call holds of an undisturbed journal: a replay of it, and of all *)
(* of it from the version check on.                                        *)
Current(c) ==
  LET j == journal[target[c]] IN
  /\ pc[c] \in {"fetch_tail", "handle", "start_session", "fetch_latest", "save_events"} =>
       ver[c] <= Len(j) /\ agg[c] = Replay(j, ver[c]) \o batch[c]
  /\ pc[c] = "save_events" => ver[c] = Len(j)
  /\ pc[c] = "save_snapshot" =>
       agg[c] = EventsOf(j) /\ ver[c] + Len(batch[c]) = Len(j)

ExactFor(id) ==
  id \notin disturbed =>
    /\ Contiguous(journal[id])
    /\ (\A c \in Calls : ~ (pc[c] = "save_snapshot" /\ target[c] = id)) =>
         Exact(journal[id], snapshots[id])
    /\ \A c \in Calls : target[c] = id => Current(c) /\ ~ InFlight(c)
    /\ \A c, d \in Calls :
         Writing(c) /\ target[c] = id /\ Writing(d) /\ target[d] = id => c = d

EInv == MInv /\ \A id \in Ids : ExactFor(id)

(* A call that another's step leaves alone holds what it held, if the      *)
(* journal only grew.                                                      *)
LEMMA CurrentStays ==
  ASSUME NEW d \in Calls, Current(d), SameCall(d), target' = target, ver[d] \in Nat,
         journal[target[d]] \in Seq(Envelope),
         \/ journal'[target[d]] = journal[target[d]]
         \/ /\ journal'[target[d]] \in Seq(Envelope)
            /\ Len(journal[target[d]]) <= Len(journal'[target[d]])
            /\ \A i \in 1..Len(journal[target[d]]) :
                 journal'[target[d]][i] = journal[target[d]][i]
            /\ ~ Writing(d)
  PROVE  Current(d)'
  <1> DEFINE j == journal[target[d]]
             k == journal'[target[d]]
  <1>1. target'[d] = target[d]
    OBVIOUS
  <1>2. CASE k = j
    BY <1>1, <1>2 DEF Current, SameCall
  <1>3. CASE /\ k \in Seq(Envelope) /\ Len(j) <= Len(k) /\ ~ Writing(d)
             /\ \A i \in 1..Len(j) : k[i] = j[i]
    <2> HIDE DEF j, k
    <2>1. Len(j) \in Nat /\ Len(k) \in Nat
      BY <1>3, LenProperties DEF j
    <2>2. ver[d] <= Len(j) => Replay(k, ver[d]) = Replay(j, ver[d]) /\ ver[d] <= Len(k)
      BY <1>3, <2>1, ReplayOfGrown
    <2>3. pc'[d] \notin {"save_events", "save_snapshot"}
      BY <1>3 DEF SameCall, Writing
    <2>. QED BY <1>1, <2>2, <2>3 DEF Current, SameCall, j, k
  <1>. QED BY <1>2, <1>3

(* A step of call c says nothing of the aggregates of others.              *)
LEMMA ElsewhereExact ==
  ASSUME EInv, NEW c \in Calls, target' = target,
         \A d \in Calls : d # c => SameCall(d),
         disturbed \subseteq disturbed',
         \A id \in Ids : id # target[c] =>
           journal'[id] = journal[id] /\ snapshots'[id] = snapshots[id],
         ExactFor(target[c])'
  PROVE  \A id \in Ids : ExactFor(id)'
  <1> SUFFICES ASSUME NEW id \in Ids, id # target[c], id \notin disturbed'
               PROVE  ExactFor(id)'
    BY DEF ExactFor
  <1>1. /\ Contiguous(journal[id])
        /\ (\A d \in Calls : ~ (pc[d] = "save_snapshot" /\ target[d] = id)) =>
             Exact(journal[id], snapshots[id])
        /\ \A d \in Calls : target[d] = id => Current(d) /\ ~ InFlight(d)
        /\ \A d, e \in Calls :
             Writing(d) /\ target[d] = id /\ Writing(e) /\ target[e] = id => d = e
    BY DEF EInv, ExactFor
  <1>2. journal'[id] = journal[id] /\ snapshots'[id] = snapshots[id]
    OBVIOUS
  <1>3. \A d \in Calls : target[d] = id => SameCall(d)
    OBVIOUS
  <1>4. \A d \in Calls : target[d] = id =>
          /\ pc'[d] = pc[d] /\ Writing(d)' = Writing(d) /\ InFlight(d)' = InFlight(d)
    BY <1>3 DEF SameCall, Writing, InFlight
  <1>5. ASSUME NEW d \in Calls, target[d] = id
        PROVE  Current(d)'
    <2>1. Current(d) /\ SameCall(d) /\ ver[d] \in Nat /\ journal[id] \in Seq(Envelope)
      BY <1>1, <1>3, <1>5 DEF EInv, MInv, CallTypeOK, StoreTypeOK
    <2>. QED BY <1>2, <1>5, <2>1, CurrentStays
  <1>. QED BY <1>1, <1>2, <1>4, <1>5 DEF ExactFor

(* A step that leaves the store alone, of a call that does not write.      *)
LEMMA QuietlyExact ==
  ASSUME EInv, NEW c \in Calls, target' = target, UNCHANGED store,
         \A d \in Calls : d # c => SameCall(d),
         disturbed \subseteq disturbed',
         target[c] \notin disturbed' =>
           /\ ~ Writing(c)' /\ pc[c] # "save_snapshot"
           /\ Current(c)'
  PROVE  \A id \in Ids : ExactFor(id)'
  <1> DEFINE id == target[c]
             j == journal[id]
  <1>1. journal' = journal /\ snapshots' = snapshots /\ id \in Ids
    BY DEF store, EInv, MInv, CallTypeOK
  <1>2. ASSUME id \notin disturbed'
        PROVE  ExactFor(id)'
    <2>1. /\ Contiguous(j)
          /\ (\A d \in Calls : ~ (pc[d] = "save_snapshot" /\ target[d] = id)) =>
               Exact(j, snapshots[id])
          /\ \A d \in Calls : target[d] = id => Current(d) /\ ~ InFlight(d)
          /\ \A d, e \in Calls :
               Writing(d) /\ target[d] = id /\ Writing(e) /\ target[e] = id => d = e
      BY <1>1, <1>2 DEF EInv, ExactFor
    <2>2. \A d \in Calls : d # c =>
            /\ pc'[d] = pc[d] /\ Writing(d)' = Writing(d) /\ InFlight(d)' = InFlight(d)
      BY DEF SameCall, Writing, InFlight
    <2>3. ~ Writing(c)' /\ ~ InFlight(c)' /\ pc[c] # "save_snapshot" /\ pc'[c] # "save_snapshot"
      BY <1>2 DEF Writing, InFlight
    <2>4. ASSUME NEW d \in Calls, target[d] = id
          PROVE  Current(d)'
      <3>1. CASE d = c
        BY <1>2, <3>1
      <3>2. CASE d # c
        <4>1. Current(d) /\ SameCall(d) /\ ver[d] \in Nat /\ j \in Seq(Envelope)
          BY <1>1, <2>1, <2>4, <3>2 DEF EInv, MInv, CallTypeOK, StoreTypeOK
        <4>. QED BY <1>1, <2>4, <4>1, CurrentStays
      <3>. QED BY <3>1, <3>2
    <2>. QED BY <1>1, <2>1, <2>2, <2>3, <2>4 DEF ExactFor
  <1>3. ExactFor(id)'
    BY <1>1, <1>2 DEF ExactFor
  <1>. QED BY <1>1, <1>3, ElsewhereExact

(* No other call has its write under way when a read leaves no note.       *)
LEMMA ReadUndisturbed ==
  ASSUME EInv, NEW c \in Calls, ReadNotes(c) \/ Disturb(c), ~ Writing(c)
  PROVE  /\ disturbed \subseteq disturbed'
         /\ target[c] \notin disturbed' =>
              /\ ReadNotes(c)
              /\ \A d \in Calls : target[d] = target[c] => ~ Writing(d)
              /\ Contiguous(journal[target[c]])
              /\ Exact(journal[target[c]], snapshots[target[c]])
              /\ Current(c)
  <1>1. target[c] \in Ids /\ disturbed \subseteq disturbed'
    BY DEF ReadNotes, Disturb, EInv, MInv, CallTypeOK
  <1>2. ASSUME target[c] \notin disturbed'
        PROVE  /\ ReadNotes(c) /\ target[c] \notin disturbed
               /\ \A d \in Calls : target[d] = target[c] => ~ Writing(d)
    BY <1>2 DEF ReadNotes, Disturb
  <1>3. ASSUME target[c] \notin disturbed'
        PROVE  \A d \in Calls : ~ (pc[d] = "save_snapshot" /\ target[d] = target[c])
    BY <1>2, <1>3 DEF Writing
  <1>. QED BY <1>1, <1>2, <1>3 DEF EInv, ExactFor

(* Loading the snapshot leaves the calls as exact as their journals are.   *)
LEMMA FetchSnapshotExact ==
  ASSUME EInv, NEW c \in Calls, FetchSnapshot(c)
  PROVE  \A id \in Ids : ExactFor(id)'
  <1> DEFINE id == target[c]
             j == journal[id]
  <1>t. /\ pc \in [Calls -> Label] /\ target \in [Calls -> Ids] /\ agg \in [Calls -> State]
        /\ ver \in [Calls -> Nat] /\ reply \in [Calls -> Reply]
        /\ j \in Seq(Envelope) /\ CallInv(c)
    BY DEF EInv, MInv, CallTypeOK, StoreTypeOK
  <1>1. /\ pc[c] = "fetch_snapshot" /\ batch[c] = <<>> /\ ReadNotes(c)
    <2>1. pc[c] = "fetch_snapshot" /\ ReadNotes(c)
      BY DEF FetchSnapshot, InitializeAggregate, LoadSnapshot
    <2>. QED BY <1>t, <2>1 DEF CallInv
  <1>2. /\ UNCHANGED <<target, batch, store>>
        /\ \/ /\ pc'[c] = "done"
           \/ /\ snapshots[id] = NoSnapshot /\ agg'[c] = <<>> /\ ver'[c] = 0
              /\ pc'[c] = "handle"
           \/ /\ snapshots[id] # NoSnapshot
              /\ agg'[c] = snapshots[id].state /\ ver'[c] = snapshots[id].version
              /\ pc'[c] = "fetch_tail"
    BY <1>t DEF FetchSnapshot, InitializeAggregate, LoadSnapshot, Goto, Answer
  <1>3. \A d \in Calls : d # c => SameCall(d)
    BY <1>t DEF FetchSnapshot, InitializeAggregate, LoadSnapshot, Goto, Answer, SameCall
  <1>4. disturbed \subseteq disturbed'
    BY <1>1, ReadUndisturbed DEF Writing
  <1>5. ASSUME id \notin disturbed'
        PROVE  Current(c)'
    <2>1. Exact(j, snapshots[id])
      BY <1>1, <1>5, ReadUndisturbed DEF Writing
    <2>2. batch'[c] = <<>> /\ journal'[target'[c]] = j /\ Len(j) \in Nat
      BY <1>t, <1>1, <1>2, LenProperties DEF store
    <2>3. CASE pc'[c] = "done"
      BY <2>3 DEF Current
    <2>4. CASE agg'[c] = <<>> /\ ver'[c] = 0 /\ pc'[c] = "handle"
      <3>1. Replay(j, 0) \o <<>> = <<>>
        BY ReplayOfNothing, EmptyState
      <3>. QED BY <2>2, <2>4, <3>1 DEF Current
    <2>5. CASE /\ snapshots[id] # NoSnapshot /\ pc'[c] = "fetch_tail"
               /\ agg'[c] = snapshots[id].state /\ ver'[c] = snapshots[id].version
      <3> HIDE DEF j
      <3>1. agg'[c] = EventsOf(j) /\ ver'[c] = Len(j)
        BY <2>1, <2>5 DEF Exact
      <3>2. EventsOf(j) = Replay(j, Len(j))
        BY <1>t, LenProperties DEF EventsOf, Replay
      <3>3. Replay(j, Len(j)) \o <<>> = Replay(j, Len(j))
        BY <1>t, <3>2, EventsOfType, EmptyState
      <3>. QED BY <2>2, <2>5, <3>1, <3>2, <3>3 DEF Current, j
    <2>. QED BY <1>2, <2>3, <2>4, <2>5
  <1>6. ~ Writing(c)' /\ pc[c] # "save_snapshot"
    BY <1>1, <1>2 DEF Writing
  <1>. QED BY <1>2, <1>3, <1>4, <1>5, <1>6, QuietlyExact

(* Loading the tail does, the call's own version being what it loaded.     *)
LEMMA FetchEventsExact ==
  ASSUME EInv, NEW c \in Calls, FetchEventsFromVersion(c)
  PROVE  \A id \in Ids : ExactFor(id)'
  <1> DEFINE id == target[c]
             j == journal[id]
             v == ver[c]
             later == EventsFromVersion(j, v)
  <1>t. /\ pc \in [Calls -> Label] /\ target \in [Calls -> Ids] /\ agg \in [Calls -> State]
        /\ ver \in [Calls -> Nat] /\ reply \in [Calls -> Reply]
        /\ j \in Seq(Envelope) /\ v \in Nat /\ CallInv(c)
    BY DEF EInv, MInv, CallTypeOK, StoreTypeOK
  <1>1. PICK tail \in AnyOrder(later) : LoadTail(c, tail)
    BY DEF FetchEventsFromVersion
  <1>2. /\ pc[c] = "fetch_tail"
        /\ agg' = [agg EXCEPT ![c] = @ \o EventsOf(tail)]
        /\ ver' = [ver EXCEPT ![c] =
                     IF tail = <<>> THEN @ ELSE tail[Len(tail)].version]
        /\ pc' = [pc EXCEPT ![c] = "handle"]
        /\ UNCHANGED <<kind, target, batch, reply, store>>
        /\ IF Len(later) > 1 THEN Disturb(c) ELSE ReadNotes(c)
    BY <1>1 DEF LoadTail, Goto, FetchEventsFromVersion
  <1>3. batch[c] = <<>> /\ ~ Writing(c) /\ pc[c] # "save_snapshot"
    BY <1>t, <1>2 DEF CallInv, Writing
  <1>4. disturbed \subseteq disturbed'
    BY <1>2, <1>3, ReadUndisturbed
  <1>5. \A d \in Calls : d # c => SameCall(d)
    BY <1>t, <1>2 DEF SameCall
  <1>6. ASSUME id \notin disturbed'
        PROVE  Current(c)'
    <2>1. Contiguous(j) /\ Current(c)
      BY <1>2, <1>3, <1>6, ReadUndisturbed
    <2>2. ~ (Len(later) > 1)
      <3>1. id \in Ids
        BY <1>t
      <3>. QED BY <1>2, <1>6, <3>1 DEF Disturb
    <2>3. v <= Len(j) /\ agg[c] = Replay(j, v) \o <<>>
      BY <1>2, <1>3, <2>1 DEF Current
    <2> HIDE DEF j, v
    <2>4. tail = EventsFromVersion(j, v)
      <3>1. /\ Len(EventsFromVersion(j, v)) \in Nat
            /\ ~ (Len(EventsFromVersion(j, v)) > 1)
        BY <1>t, <2>2, EventsFromVersionType, LenProperties
      <3>2. Len(EventsFromVersion(j, v)) <= 1
        BY <3>1
      <3>. QED BY <1>1, <1>t, <3>2, TailIs
    <2>5. v \in 0..Len(j) /\ Len(j) \in Nat
      BY <1>t, <2>3, LenProperties
    <2>6. agg[c] = Replay(j, v)
      BY <1>t, <2>3, <2>5, ReplayType, EmptyState
    <2>7. /\ Replay(j, v) \o EventsOf(tail) = Replay(j, Len(j))
          /\ (IF tail = <<>> THEN v ELSE tail[Len(tail)].version) = Len(j)
      BY <1>t, <2>1, <2>4, <2>5, LoadRebuildsReplay
    <2>8. /\ agg'[c] = Replay(j, Len(j)) /\ ver'[c] = Len(j) /\ pc'[c] = "handle"
          /\ batch'[c] = <<>> /\ journal'[target'[c]] = j
      BY <1>t, <1>2, <1>3, <2>6, <2>7 DEF store, j, v
    <2>9. Replay(j, Len(j)) \o <<>> = Replay(j, Len(j))
      BY <1>t, <2>5, ReplayType, EmptyState
    <2>. QED BY <2>5, <2>8, <2>9 DEF Current
  <1>7. ~ Writing(c)'
    BY <1>t, <1>2 DEF Writing
  <1>. QED BY <1>2, <1>3, <1>4, <1>5, <1>6, <1>7, QuietlyExact

(* The handler's events are as many as the call is to insert.              *)
LEMMA HandleExact ==
  ASSUME EInv, NEW c \in Calls, Handle(c), UNCHANGED <<store, disturbed>>
  PROVE  \A id \in Ids : ExactFor(id)'
  <1> DEFINE j == journal[target[c]]
  <1>t. /\ pc \in [Calls -> Label] /\ target \in [Calls -> Ids] /\ agg \in [Calls -> State]
        /\ ver \in [Calls -> Nat] /\ batch \in [Calls -> State]
        /\ reply \in [Calls -> Reply] /\ CallInv(c) /\ j \in Seq(Envelope)
    BY DEF EInv, MInv, CallTypeOK, StoreTypeOK
  <1>1. PICK n \in 0..MaxEvents :
          /\ batch' = [batch EXCEPT ![c] = NewEvents(c, n)]
          /\ agg' = [agg EXCEPT ![c] = @ \o NewEvents(c, n)]
    BY DEF Handle
  <1>2. /\ pc[c] = "handle" /\ pc' = [pc EXCEPT ![c] = "start_session"]
        /\ UNCHANGED <<kind, target, ver, reply, store>>
    BY DEF Handle, Goto
  <1>3. batch[c] = <<>>
    BY <1>t, <1>2 DEF CallInv
  <1>4. \A d \in Calls : d # c => SameCall(d)
    BY <1>t, <1>1, <1>2 DEF SameCall
  <1>5. ASSUME target[c] \notin disturbed'
        PROVE  Current(c)'
    <2>1. Current(c)
      BY <1>t, <1>5 DEF EInv, ExactFor
    <2>2. ver[c] <= Len(j) /\ agg[c] = Replay(j, ver[c]) \o <<>>
      BY <1>2, <1>3, <2>1 DEF Current
    <2>3. agg[c] = Replay(j, ver[c])
      <3>1. ver[c] \in 0..Len(j)
        BY <1>t, <2>2, LenProperties
      <3>. QED BY <1>t, <2>2, <3>1, ReplayType, EmptyState
    <2>4. /\ agg'[c] = agg[c] \o batch'[c] /\ ver'[c] = ver[c]
          /\ journal'[target'[c]] = j /\ pc'[c] = "start_session"
      BY <1>t, <1>1, <1>2 DEF store
    <2>. QED BY <2>2, <2>3, <2>4 DEF Current
  <1>6. ~ Writing(c)' /\ pc[c] # "save_snapshot"
    BY <1>t, <1>2 DEF Writing
  <1>. QED BY <1>2, <1>4, <1>5, <1>6, QuietlyExact

(* The actions that only move a call, the insert of nothing among them.    *)
LEMMA MovesExact ==
  ASSUME EInv, NEW c \in Calls, target' = target, UNCHANGED <<store, agg, ver, batch>>,
         \A d \in Calls : d # c => SameCall(d),
         disturbed \subseteq disturbed',
         pc[c] # "save_snapshot",
         \/ pc'[c] \in {"abort", "dispatch", "done"}
         \/ pc[c] = "start_session" /\ pc'[c] = "fetch_latest"
  PROVE  \A id \in Ids : ExactFor(id)'
  <1>1. ~ Writing(c)'
    BY DEF Writing
  <1>2. ASSUME target[c] \notin disturbed'
        PROVE  Current(c)'
    <2>1. CASE pc'[c] \in {"abort", "dispatch", "done"}
      BY <2>1 DEF Current
    <2>2. CASE pc[c] = "start_session" /\ pc'[c] = "fetch_latest"
      <3>1. Current(c)
        <4>1. target[c] \in Ids
          BY DEF EInv, MInv, CallTypeOK
        <4>. QED BY <1>2, <4>1 DEF EInv, ExactFor
      <3>2. journal' = journal
        BY DEF store
      <3>. QED BY <2>2, <3>1, <3>2 DEF Current
    <2>. QED BY <2>1, <2>2
  <1>. QED BY <1>1, <1>2, QuietlyExact

(* The steps that write nothing leave every aggregate exact.               *)
LEMMA RestingExact ==
  ASSUME EInv, NEW c \in Calls,
         \/ Refuse(c) /\ UNCHANGED <<store, disturbed>>
         \/ StartSession(c) \/ CloseSession(c) \/ AbortSession(c) \/ Dispatch(c)
         \/ QueryFails(c) \/ Cancel(c)
         \/ FetchLatestEvent(c) /\ pc'[c] = "abort"
  PROVE  \A id \in Ids : ExactFor(id)'
  <1> USE DEF Goto, Answer, SameCall
  <1>t. /\ pc \in [Calls -> Label] /\ target \in [Calls -> Ids] /\ agg \in [Calls -> State]
        /\ ver \in [Calls -> Nat] /\ reply \in [Calls -> Reply]
    BY DEF EInv, MInv, CallTypeOK
  <1>1. CASE Refuse(c) /\ UNCHANGED <<store, disturbed>>
    BY <1>t, <1>1, MovesExact DEF Refuse
  <1>2. CASE StartSession(c)
    BY <1>t, <1>2, MovesExact DEF StartSession
  <1>3. CASE CloseSession(c)
    BY <1>t, <1>3, MovesExact DEF CloseSession, Committed
  <1>4. CASE AbortSession(c)
    BY <1>t, <1>4, MovesExact DEF AbortSession, Aborted
  <1>5. CASE Dispatch(c)
    BY <1>t, <1>5, MovesExact DEF Dispatch, Dispatched
  <1>6. CASE QueryFails(c)
    BY <1>t, <1>6, MovesExact DEF QueryFails
  <1>7. CASE Cancel(c)
    BY <1>t, <1>7, MovesExact DEF Cancel, Drop
  <1>8. CASE FetchLatestEvent(c) /\ pc'[c] = "abort"
    <2>1. disturbed \subseteq disturbed'
      BY <1>8 DEF FetchLatestEvent, ReadNotes, Disturb
    <2>. QED BY <1>t, <1>8, <2>1, MovesExact DEF FetchLatestEvent, CheckVersion
  <1>. QED BY <1>1, <1>2, <1>3, <1>4, <1>5, <1>6, <1>7, <1>8

(* A version check that passes: the call has read the whole journal, and   *)
(* no other is about to write.                                             *)
LEMMA CheckExact ==
  ASSUME EInv, NEW c \in Calls, FetchLatestEvent(c), pc'[c] # "abort"
  PROVE  \A id \in Ids : ExactFor(id)'
  <1> DEFINE id == target[c]
             j == journal[id]
  <1>t. /\ pc \in [Calls -> Label] /\ target \in [Calls -> Ids] /\ agg \in [Calls -> State]
        /\ ver \in [Calls -> Nat] /\ reply \in [Calls -> Reply]
        /\ j \in Seq(Envelope) /\ id \in Ids
    BY DEF EInv, MInv, CallTypeOK, StoreTypeOK
  <1>1. /\ pc[c] = "fetch_latest" /\ ver[c] = LatestVersion(ByVersion(j))
        /\ pc' = [pc EXCEPT ![c] = "save_events"]
        /\ UNCHANGED <<kind, target, agg, ver, batch, reply, store>>
        /\ ReadNotes(c)
    BY <1>t DEF FetchLatestEvent, CheckVersion, VersionMatches, Goto
  <1>2. /\ \A d \in Calls : d # c => SameCall(d)
        /\ journal' = journal /\ snapshots' = snapshots
    BY <1>t, <1>1 DEF SameCall, store
  <1>3. /\ disturbed \subseteq disturbed'
        /\ id \notin disturbed' =>
             /\ \A d \in Calls : target[d] = id => ~ Writing(d)
             /\ Contiguous(j) /\ Exact(j, snapshots[id]) /\ Current(c)
    BY <1>1, ReadUndisturbed DEF Writing
  <1>4. ASSUME id \notin disturbed'
        PROVE  ExactFor(id)'
    <2>1. /\ \A d \in Calls : target[d] = id => ~ Writing(d)
          /\ Contiguous(j) /\ Exact(j, snapshots[id]) /\ Current(c)
      BY <1>3, <1>4
    <2>2. ver[c] = Len(j)
      <3> HIDE DEF j
      <3>1. ByVersion(j) = j /\ Len(j) \in Nat /\ DOMAIN j = 1..Len(j)
        BY <1>t, <2>1, ByVersionContiguous, LenProperties
      <3>2. CASE j = <<>>
        BY <1>1, <3>1, <3>2 DEF LatestVersion
      <3>3. CASE j # <<>>
        <4>1. Len(j) \in DOMAIN j
          BY <1>t, <3>1, <3>3, EmptySeq
        <4>. QED BY <1>1, <2>1, <3>1, <3>3, <4>1 DEF LatestVersion, Contiguous
      <3>. QED BY <3>2, <3>3
    <2>3. /\ pc'[c] = "save_events" /\ ver'[c] = ver[c] /\ agg'[c] = agg[c]
          /\ batch'[c] = batch[c] /\ target' = target /\ reply'[c] = reply[c]
      BY <1>t, <1>1
    <2>4. Current(c)'
      BY <1>1, <1>2, <2>1, <2>2, <2>3 DEF Current
    <2>5. ~ InFlight(c)'
      <3>1. reply[c] # "cancelled"
        BY <1>1 DEF EInv, MInv, CallInv
      <3>. QED BY <2>3, <3>1 DEF InFlight
    <2>6. ASSUME NEW d \in Calls, d # c, target[d] = id
          PROVE  Current(d)' /\ ~ InFlight(d)' /\ ~ Writing(d)'
      <3>1. SameCall(d) /\ ~ Writing(d) /\ ver[d] \in Nat
        BY <1>2, <2>1, <2>6 DEF EInv, MInv, CallTypeOK
      <3>2. Current(d)
        <4>1. id \notin disturbed
          BY <1>3, <1>4
        <4>. QED BY <1>t, <2>6, <4>1 DEF EInv, ExactFor
      <3>3. Current(d)'
        BY <1>t, <1>2, <2>3, <2>6, <3>1, <3>2, CurrentStays
      <3>. QED BY <3>1, <3>3 DEF SameCall, Writing, InFlight
    <2>7. Contiguous(journal'[id]) /\ Exact(journal'[id], snapshots'[id])
      BY <1>2, <2>1
    <2>. QED BY <2>3, <2>4, <2>5, <2>6, <2>7 DEF ExactFor
  <1>5. ExactFor(id)'
    BY <1>1, <1>4 DEF ExactFor
  <1>. QED BY <1>1, <1>2, <1>3, <1>5, ElsewhereExact

(* The whole batch goes to the end of a journal that the call had read all *)
(* of.                                                                     *)
LEMMA SaveExact ==
  ASSUME EInv, MInv', NEW c \in Calls, pc[c] = "save_events", Insert(c, Len(batch[c])),
         UNCHANGED <<target, agg, ver, batch, reply, snapshots, disturbed>>,
         \A d \in Calls : d # c => SameCall(d),
         pc'[c] = "save_snapshot"
  PROVE  \A id \in Ids : ExactFor(id)'
  <1> DEFINE id == target[c]
             j == journal[id]
             k == journal'[id]
             b == batch[c]
             n == Len(b)
  <1>t. /\ id \in Ids /\ j \in Seq(Envelope) /\ k \in Seq(Envelope) /\ b \in State
        /\ ver[c] \in Nat /\ agg[c] \in State /\ Len(j) \in Nat /\ n \in Nat
        /\ DOMAIN j = 1..Len(j) /\ DOMAIN k = 1..Len(k)
    <2>1. /\ id \in Ids /\ j \in Seq(Envelope) /\ k \in Seq(Envelope) /\ b \in State
          /\ ver[c] \in Nat /\ agg[c] \in State
      BY DEF EInv, MInv, CallTypeOK, StoreTypeOK
    <2> HIDE DEF j, k, b
    <2>. QED BY <2>1, LenProperties DEF State
  <1>1. /\ \A d \in Ids \ {id} : journal'[d] = journal[d]
        /\ Len(k) = Len(j) + n
        /\ \A i \in 1..Len(j) : k[i] = j[i]
        /\ \A i \in 1..n : k[Len(j) + i] = [version |-> ver[c] + i, event |-> b[i]]
    <2>1. Len(batch[c]) \in 0..Len(batch[c])
      BY <1>t
    <2>. QED BY <2>1, InsertIs DEF EInv, MInv
  <1>2. ASSUME id \notin disturbed'
        PROVE  ExactFor(id)'
    <2>1. /\ Contiguous(j) /\ Current(c) /\ ~ InFlight(c)
          /\ \A d \in Calls : target[d] = id => Current(d) /\ ~ InFlight(d)
          /\ \A d \in Calls : target[d] = id /\ Writing(d) => d = c
      BY <1>t, <1>2 DEF EInv, ExactFor, Writing
    <2>2. ver[c] = Len(j) /\ agg[c] = Replay(j, Len(j)) \o b
      BY <2>1 DEF Current
    <2>3. \A i \in 1..n : /\ k[Len(j) + i].version = Len(j) + i
                          /\ k[Len(j) + i].event = b[i]
      <3> HIDE DEF j, k, b, n
      <3>1. ASSUME NEW i \in 1..n
            PROVE  k[Len(j) + i] = [version |-> Len(j) + i, event |-> b[i]]
        BY <1>1, <2>2
      <3>2. ASSUME NEW i \in 1..n
            PROVE  /\ k[Len(j) + i].version = Len(j) + i
                   /\ k[Len(j) + i].event = b[i]
        <4>1. k[Len(j) + i] = [version |-> Len(j) + i, event |-> b[i]]
          BY <3>1
        <4>. QED BY ONLY <4>1
      <3>. QED BY <3>2
    <2> HIDE DEF j, k, b, n
    <2>4. Contiguous(k)
      <3>1. ASSUME NEW i \in 1..Len(k)
            PROVE  k[i].version = i
        <4>1. CASE i <= Len(j)
          <5>1. i \in 1..Len(j)
            BY <1>t, <4>1
          <5>. QED BY <1>t, <1>1, <2>1, <5>1 DEF Contiguous
        <4>2. CASE i > Len(j)
          <5>1. i - Len(j) \in 1..n /\ Len(j) + (i - Len(j)) = i
            BY <1>t, <1>1, <4>2
          <5>. QED BY <2>3, <5>1
        <4>. QED BY <1>t, <1>1, <4>1, <4>2
      <3>. QED BY <1>t, <3>1 DEF Contiguous
    <2>5. agg[c] = EventsOf(k)
      <3>1. /\ Len(j) + Len(b) <= Len(k)
            /\ \A i \in 1..Len(b) : k[Len(j) + i].event = b[i]
        BY <1>t, <1>1, <2>3 DEF n
      <3>2. Replay(k, Len(j) + Len(b)) = Replay(k, Len(j)) \o b
        BY <1>t, <3>1, ReplayExtends
      <3>3. Replay(k, Len(j)) = Replay(j, Len(j))
        BY <1>t, <1>1, ReplayOfGrown
      <3>4. Replay(k, Len(k)) = EventsOf(k)
        BY <1>t DEF Replay, EventsOf
      <3>. QED BY <1>1, <2>2, <3>2, <3>3, <3>4 DEF n
    <2>6. Current(c)' /\ ~ InFlight(c)'
      <3>1. /\ agg'[c] = agg[c] /\ ver'[c] = ver[c] /\ Len(batch'[c]) = n
            /\ journal'[target'[c]] = k /\ reply'[c] = reply[c]
        BY DEF n, k, b
      <3>2. Current(c)'
        BY <1>1, <2>2, <2>5, <3>1 DEF Current
      <3>. QED BY <2>1, <3>1, <3>2 DEF InFlight
    <2>7. ASSUME NEW d \in Calls, d # c, target[d] = id
          PROVE  Current(d)' /\ ~ InFlight(d)' /\ ~ Writing(d)'
      <3>1. SameCall(d) /\ ~ Writing(d) /\ ver[d] \in Nat /\ Current(d)
        BY <2>1, <2>7 DEF EInv, MInv, CallTypeOK
      <3>2. Len(j) <= Len(k)
        BY <1>t, <1>1
      <3>3. Current(d)'
        BY <1>t, <1>1, <2>7, <3>1, <3>2, CurrentStays DEF j, k
      <3>. QED BY <3>1, <3>3 DEF SameCall, Writing, InFlight
    <2>8. ~ (\A d \in Calls : ~ (pc'[d] = "save_snapshot" /\ target'[d] = id))
      OBVIOUS
    <2>. QED BY <2>4, <2>6, <2>7, <2>8 DEF ExactFor, k
  <1>3. ExactFor(id)'
    BY <1>2 DEF ExactFor
  <1>. QED BY <1>1, <1>3, ElsewhereExact

(* The snapshot of a call that wrote the whole journal is that of all.     *)
LEMMA ReplaceExact ==
  ASSUME EInv, NEW c \in Calls, pc[c] = "save_snapshot",
         snapshots' = [snapshots EXCEPT ![target[c]] = NewSnapshot(c)],
         UNCHANGED <<journal, target, agg, ver, batch, reply, disturbed>>,
         \A d \in Calls : d # c => SameCall(d),
         pc'[c] = "close"
  PROVE  \A id \in Ids : ExactFor(id)'
  <1> DEFINE id == target[c]
             j == journal[id]
  <1>t. /\ id \in Ids /\ j \in Seq(Envelope)
        /\ snapshots \in [Ids -> Snapshot \cup {NoSnapshot}]
    BY DEF EInv, MInv, CallTypeOK, StoreTypeOK
  <1>1. ASSUME id \notin disturbed'
        PROVE  ExactFor(id)'
    <2>1. /\ Contiguous(j) /\ Current(c)
          /\ \A d \in Calls : target[d] = id => Current(d) /\ ~ InFlight(d)
          /\ \A d \in Calls : target[d] = id /\ Writing(d) => d = c
      BY <1>t, <1>1 DEF EInv, ExactFor, Writing
    <2>2. snapshots'[id] = [state |-> EventsOf(j), version |-> Len(j)]
      <3>1. agg[c] = EventsOf(j) /\ ver[c] + Len(batch[c]) = Len(j)
        BY <2>1 DEF Current
      <3>. QED BY <1>t, <3>1 DEF NewSnapshot
    <2>3. Current(c)' /\ ~ InFlight(c)' /\ ~ Writing(c)'
      BY DEF Current, InFlight, Writing
    <2>4. ASSUME NEW d \in Calls, d # c, target[d] = id
          PROVE  Current(d)' /\ ~ InFlight(d)' /\ ~ Writing(d)'
      <3>1. SameCall(d) /\ ~ Writing(d) /\ ver[d] \in Nat /\ Current(d)
        BY <2>1, <2>4 DEF EInv, MInv, CallTypeOK
      <3>2. Current(d)'
        BY <1>t, <2>4, <3>1, CurrentStays
      <3>. QED BY <3>1, <3>2 DEF SameCall, Writing, InFlight
    <2>5. journal' = journal
      OBVIOUS
    <2>. QED BY <2>1, <2>2, <2>3, <2>4, <2>5 DEF ExactFor, Exact
  <1>2. ExactFor(id)'
    BY <1>1 DEF ExactFor
  <1>3. \A d \in Ids : d # id => journal'[d] = journal[d] /\ snapshots'[d] = snapshots[d]
    BY <1>t
  <1>. QED BY <1>2, <1>3, ElsewhereExact

(* A write that fails half way, or goes on after a drop, is of a disturbed *)
(* aggregate.                                                              *)
LEMMA DisturbedElsewhere ==
  ASSUME EInv, NEW c \in Calls, target' = target, target[c] \in disturbed',
         \A d \in Calls : d # c => SameCall(d),
         disturbed \subseteq disturbed',
         \A id \in Ids : id # target[c] =>
           journal'[id] = journal[id] /\ snapshots'[id] = snapshots[id]
  PROVE  \A id \in Ids : ExactFor(id)'
  <1>1. ExactFor(target[c])'
    BY DEF ExactFor
  <1>. QED BY <1>1, ElsewhereExact

(* The steps that write do, wherever no command got in another's way.      *)
LEMMA WritesExact ==
  ASSUME EInv, MInv', NEW c \in Calls,
         SaveEvents(c) \/ SaveSnapshot(c) \/ LateWrite(c) \/ CancelWrite(c)
  PROVE  \A id \in Ids : ExactFor(id)'
  <1> DEFINE id == target[c]
  <1>t. /\ pc \in [Calls -> Label] /\ target \in [Calls -> Ids]
        /\ reply \in [Calls -> Reply] /\ journal \in [Ids -> Seq(Envelope)]
        /\ snapshots \in [Ids -> Snapshot \cup {NoSnapshot}]
        /\ id \in Ids
    BY DEF EInv, MInv, CallTypeOK, StoreTypeOK
  <1> USE DEF Goto
  <1>i. \A k : Insert(c, k) => \A d \in Ids : d # id => journal'[d] = journal[d]
    BY <1>t DEF Insert
  <1>1. CASE SaveEvents(c)
    <2>1. /\ pc[c] = "save_events"
          /\ UNCHANGED <<kind, target, agg, ver, batch, snapshots>>
          /\ \/ /\ Insert(c, Len(batch[c])) /\ UNCHANGED <<reply, disturbed>>
                /\ pc' = [pc EXCEPT ![c] = "save_snapshot"]
             \/ /\ \E k \in 0..Len(batch[c]) : Insert(c, k)
                /\ pc' = [pc EXCEPT ![c] = "abort"]
                /\ reply' = [reply EXCEPT ![c] = "database_error"]
                /\ IF batch[c] = <<>> THEN UNCHANGED disturbed ELSE Disturb(c)
      BY <1>1 DEF SaveEvents
    <2>2. \A d \in Calls : d # c => SameCall(d)
      BY <1>t, <2>1 DEF SameCall
    <2>3. CASE /\ Insert(c, Len(batch[c])) /\ UNCHANGED <<reply, disturbed>>
               /\ pc' = [pc EXCEPT ![c] = "save_snapshot"]
      <3>1. pc'[c] = "save_snapshot"
        BY <1>t, <2>3
      <3>. QED BY <2>1, <2>2, <2>3, <3>1, SaveExact
    <2>4. CASE /\ \E k \in 0..Len(batch[c]) : Insert(c, k)
               /\ pc' = [pc EXCEPT ![c] = "abort"]
               /\ IF batch[c] = <<>> THEN UNCHANGED disturbed ELSE Disturb(c)
      <3>1. CASE batch[c] # <<>>
        <4>1. disturbed \subseteq disturbed' /\ id \in disturbed'
          BY <2>4, <3>1 DEF Disturb
        <4>2. \A d \in Ids : d # id =>
                journal'[d] = journal[d] /\ snapshots'[d] = snapshots[d]
          BY <1>i, <2>1, <2>4
        <4>. QED BY <2>1, <2>2, <4>1, <4>2, DisturbedElsewhere
      <3>2. CASE batch[c] = <<>>
        <4>1. PICK k \in 0..Len(batch[c]) : Insert(c, k)
          BY <2>4
        <4>2. k = 0
          BY <3>2, <4>1
        <4>3. journal' = journal
          <5>1. /\ journal' \in [Ids -> Seq(Envelope)]
                /\ \A d \in Ids \ {id} : journal'[d] = journal[d]
                /\ Len(journal[id]) \in Nat /\ Len(journal'[id]) = Len(journal[id]) + k
                /\ \A i \in 1..Len(journal[id]) : journal'[id][i] = journal[id][i]
            BY <4>1, InsertIs DEF EInv, MInv
          <5>2. journal[id] \in Seq(Envelope) /\ journal'[id] \in Seq(Envelope)
            BY <1>t, <5>1
          <5>3. Len(journal'[id]) = Len(journal[id])
            BY <4>2, <5>1
          <5>4. journal'[id] = journal[id]
            BY <5>1, <5>2, <5>3, SeqEqual
          <5>. QED BY <1>t, <5>1, <5>4
        <4>4. pc'[c] = "abort" /\ UNCHANGED <<store, disturbed>>
          BY <1>t, <2>1, <2>4, <3>2, <4>3 DEF store
        <4>. QED BY <2>1, <2>2, <4>4, MovesExact
      <3>. QED BY <3>1, <3>2
    <2>. QED BY <2>1, <2>3, <2>4
  <1>2. CASE SaveSnapshot(c)
    <2>1. /\ pc[c] = "save_snapshot"
          /\ UNCHANGED <<kind, target, agg, ver, batch, journal>>
          /\ \/ /\ snapshots' = [snapshots EXCEPT ![target[c]] = NewSnapshot(c)]
                /\ pc' = [pc EXCEPT ![c] = "close"] /\ UNCHANGED <<reply, disturbed>>
             \/ /\ \/ snapshots' = [snapshots EXCEPT ![target[c]] = NewSnapshot(c)]
                   \/ UNCHANGED snapshots
                /\ pc' = [pc EXCEPT ![c] = "abort"]
                /\ reply' = [reply EXCEPT ![c] = "database_error"]
                /\ Disturb(c)
      BY <1>2 DEF SaveSnapshot
    <2>2. \A d \in Calls : d # c => SameCall(d)
      BY <1>t, <2>1 DEF SameCall
    <2>3. CASE /\ snapshots' = [snapshots EXCEPT ![target[c]] = NewSnapshot(c)]
               /\ pc' = [pc EXCEPT ![c] = "close"] /\ UNCHANGED <<reply, disturbed>>
      <3>1. pc'[c] = "close"
        BY <1>t, <2>3
      <3>. QED BY <2>1, <2>2, <2>3, <3>1, ReplaceExact
    <2>4. CASE /\ \/ snapshots' = [snapshots EXCEPT ![target[c]] = NewSnapshot(c)]
                  \/ UNCHANGED snapshots
               /\ Disturb(c)
      <3>1. disturbed \subseteq disturbed' /\ id \in disturbed'
        BY <2>4 DEF Disturb
      <3>2. \A d \in Ids : d # id =>
              journal'[d] = journal[d] /\ snapshots'[d] = snapshots[d]
        BY <1>t, <2>1, <2>4
      <3>. QED BY <2>1, <2>2, <3>1, <3>2, DisturbedElsewhere
    <2>. QED BY <2>1, <2>3, <2>4
  <1>3. CASE LateWrite(c)
    <2>1. /\ InFlight(c) /\ pc' = [pc EXCEPT ![c] = "done"]
          /\ UNCHANGED <<kind, target, agg, ver, batch, reply, disturbed>>
      BY <1>3 DEF LateWrite
    <2>2. \A d \in Calls : d # c => SameCall(d)
      BY <1>t, <2>1 DEF SameCall
    <2>3. id \in disturbed
      BY <1>t, <2>1 DEF EInv, ExactFor
    <2>4. \A d \in Ids : d # id =>
            journal'[d] = journal[d] /\ snapshots'[d] = snapshots[d]
      BY <1>t, <1>i, <1>3 DEF LateWrite
    <2>. QED BY <2>1, <2>2, <2>3, <2>4, DisturbedElsewhere
  <1>4. CASE CancelWrite(c)
    <2>1. /\ reply' = [reply EXCEPT ![c] = "cancelled"] /\ Disturb(c)
          /\ UNCHANGED <<pc, kind, target, agg, ver, batch, store>>
      BY <1>4 DEF CancelWrite
    <2>2. \A d \in Calls : d # c => SameCall(d)
      BY <1>t, <2>1 DEF SameCall
    <2>3. disturbed \subseteq disturbed' /\ id \in disturbed'
      BY <2>1 DEF Disturb
    <2>4. journal' = journal /\ snapshots' = snapshots
      BY <2>1 DEF store
    <2>. QED BY <2>1, <2>2, <2>3, <2>4, DisturbedElsewhere
  <1>. QED BY <1>1, <1>2, <1>3, <1>4

(* The aggregates that are not disturbed stay exact under every step.      *)
LEMMA EInvKept == EInv /\ [Next]_vars => EInv'
  <1> SUFFICES ASSUME EInv, [Next]_vars PROVE EInv'
    OBVIOUS
  <1>0. MInv'
    BY MInvKept DEF EInv
  <1> SUFFICES \A id \in Ids : ExactFor(id)'
    BY <1>0 DEF EInv
  <1>1. ASSUME NEW c \in Calls, FetchSnapshot(c) PROVE \A id \in Ids : ExactFor(id)'
    BY <1>1, FetchSnapshotExact
  <1>2. ASSUME NEW c \in Calls, FetchEventsFromVersion(c)
        PROVE  \A id \in Ids : ExactFor(id)'
    BY <1>2, FetchEventsExact
  <1>3. ASSUME NEW c \in Calls, RunHandler(c) PROVE \A id \in Ids : ExactFor(id)'
    BY <1>3, HandleExact, RestingExact DEF RunHandler
  <1>4. ASSUME NEW c \in Calls, FetchLatestEvent(c)
        PROVE  \A id \in Ids : ExactFor(id)'
    BY <1>4, RestingExact, CheckExact
  <1>5. ASSUME NEW c \in Calls,
               SaveEvents(c) \/ SaveSnapshot(c) \/ LateWrite(c) \/ CancelWrite(c)
        PROVE  \A id \in Ids : ExactFor(id)'
    BY <1>0, <1>5, WritesExact
  <1>6. ASSUME NEW c \in Calls,
               \/ StartSession(c) \/ CloseSession(c) \/ AbortSession(c)
               \/ Dispatch(c) \/ QueryFails(c) \/ Cancel(c)
        PROVE  \A id \in Ids : ExactFor(id)'
    BY <1>6, RestingExact
  <1>7. CASE UNCHANGED vars
    <2>1. /\ pc' = pc /\ target' = target /\ agg' = agg /\ ver' = ver
          /\ batch' = batch /\ reply' = reply /\ journal' = journal
          /\ snapshots' = snapshots /\ disturbed' = disturbed
      BY <1>7 DEF vars, callVars, store
    <2>2. ASSUME NEW id \in Ids PROVE ExactFor(id)'
      <3>1. ExactFor(id)
        BY DEF EInv
      <3>. QED BY <2>1, <3>1 DEF ExactFor, Current, Writing, InFlight
    <2>. QED BY <2>2
  <1>. QED BY <1>1, <1>2, <1>3, <1>4, <1>5, <1>6, <1>7 DEF Next, Step, Idle

(* Where no read fell into another's commit, no write failed or was        *)
(* dropped, and no load had to order several events, the store is what the *)
(* transaction would have made of it.                                      *)
THEOREM UndisturbedAreExact == Spec => []UndisturbedIsExact
  <1>1. Init => EInv
    <2> SUFFICES ASSUME Init PROVE EInv
      OBVIOUS
    <2>1. /\ \A id \in Ids : journal[id] = <<>> /\ snapshots[id] = NoSnapshot
          /\ \A c \in Calls : pc[c] = "fetch_snapshot"
          /\ DOMAIN <<>> = {}
      BY DEF Init, CallInit, StoreInit
    <2>. QED BY <2>1, MInvInitially
         DEF EInv, ExactFor, Exact, Contiguous, Current, Writing, InFlight
  <1>2. EInv => UndisturbedIsExact
    <2> SUFFICES ASSUME EInv, NEW id \in Ids, id \notin disturbed
                 PROVE  /\ Contiguous(journal[id])
                        /\ (\A c \in Calls : ~ (Writing(c) /\ target[c] = id)) =>
                             Exact(journal[id], snapshots[id])
      BY DEF UndisturbedIsExact, Exact
    <2>. QED BY DEF EInv, ExactFor, Writing
  <1>. QED BY <1>1, <1>2, EInvKept, PTL DEF Spec

(* The first number on which a property holds.                             *)
LEMMA LeastOf ==
  ASSUME NEW T \in SUBSET Nat, T # {}
  PROVE  \E m \in T : \A k \in T : m <= k
  <1> DEFINE R == OpToRel(<, Nat)
  <1>1. IsWellFoundedOn(R, Nat)
    BY NatLessThanWellFounded
  <1>2. \A a, b \in Nat : a < b => <<a, b>> \in R
    BY DEF OpToRel
  <1> HIDE DEF R
  <1>3. PICK m \in T : \A k \in T : ~ (<<k, m>> \in R)
    BY <1>1, WFMin
  <1>4. ASSUME NEW k \in T PROVE m <= k
    <2>1. m \in Nat /\ k \in Nat /\ ~ (k < m)
      BY <1>2, <1>3
    <2>. QED BY ONLY <2>1
  <1>. QED BY <1>4

(* Induction up to n, for the set of the numbers that have the property.   *)
LEMMA UpTo ==
  ASSUME NEW n \in Nat, NEW S, 0 \in S, \A k \in 1..n : k - 1 \in S => k \in S
  PROVE  \A k \in 0..n : k \in S
  <1> DEFINE T == (0..n) \ S
  <1> SUFFICES ASSUME T # {} PROVE FALSE
    OBVIOUS
  <1>1. T \in SUBSET Nat
    OBVIOUS
  <1> HIDE DEF T
  <1>2. PICK m \in T : \A k \in T : m <= k
    BY <1>1, LeastOf
  <1> USE DEF T
  <1>3. m \in 1..n /\ m - 1 \in 0..n /\ m - 1 \notin T
    BY <1>2
  <1>. QED BY <1>2, <1>3

(* Steps on the values of a set, and the values they lead to.              *)
IsSteps(step, n, A) == step \in [1..n -> [A -> A]]

Iterated(h, step, n, A, base) ==
  /\ h \in [0..n -> A]
  /\ h[0] = base
  /\ \A k \in 1..n : h[k] = step[k][h[k - 1]]

(* A step taken n times over defines a function on 0..n.                   *)
LEMMA Iterates ==
  ASSUME NEW n \in Nat, NEW A, NEW base \in A, NEW step, IsSteps(step, n, A)
  PROVE  \E h : Iterated(h, step, n, A, base)
  <1> DEFINE Upto(m) == \E h \in [0..m -> A] :
               h[0] = base /\ \A k \in 1..m : h[k] = step[k][h[k - 1]]
             S == {m \in 0..n : Upto(m)}
  <1>1. 0 \in S
    <2> DEFINE g == [k \in 0..0 |-> base]
    <2>1. /\ g \in [0..0 -> A] /\ g[0] = base
          /\ \A k \in 1..0 : g[k] = step[k][g[k - 1]]
      OBVIOUS
    <2> HIDE DEF g
    <2>2. Upto(0)
      BY <2>1
    <2>. QED BY <2>2
  <1>2. ASSUME NEW m \in 1..n, m - 1 \in S
        PROVE  m \in S
    <2>1. PICK h \in [0..(m - 1) -> A] :
            h[0] = base /\ \A k \in 1..(m - 1) : h[k] = step[k][h[k - 1]]
      BY <1>2
    <2> DEFINE g == [k \in 0..m |-> IF k = m THEN step[m][h[m - 1]] ELSE h[k]]
    <2>2. h[m - 1] \in A /\ step[m] \in [A -> A]
      BY DEF IsSteps
    <2>3. g \in [0..m -> A]
      BY <2>2
    <2>4. g[0] = base
      BY <2>1
    <2>5. ASSUME NEW k \in 1..m PROVE g[k] = step[k][g[k - 1]]
      <3>1. CASE k = m
        BY <3>1
      <3>2. CASE k # m
        BY <2>1, <3>2
      <3>. QED BY <3>1, <3>2
    <2> HIDE DEF g
    <2>6. Upto(m) /\ m \in 0..n
      BY <2>3, <2>4, <2>5
    <2> HIDE DEF Upto
    <2>. QED BY <2>6
  <1> HIDE DEF S
  <1>3. \A k \in 0..n : k \in S
    BY <1>1, <1>2, UpTo
  <1>4. n \in S
    BY <1>3
  <1>. QED BY <1>4 DEF S, Iterated

(* Two functions that start with the same value and go on alike.           *)
GoAlike(f, g, n) ==
  f[0] = g[0] /\ \A k \in 1..n : f[k - 1] = g[k - 1] => f[k] = g[k]

(* Two functions that begin alike and go on alike are alike.               *)
LEMMA SameUpTo ==
  ASSUME NEW n \in Nat, NEW f, NEW g, GoAlike(f, g, n)
  PROVE  \A k \in 0..n : f[k] = g[k]
  <1> DEFINE S == {k \in 0..n : f[k] = g[k]}
  <1>1. 0 \in S /\ \A k \in 1..n : k - 1 \in S => k \in S
    BY DEF GoAlike
  <1> HIDE DEF S
  <1>2. \A k \in 0..n : k \in S
    BY <1>1, UpTo
  <1>. QED BY <1>2 DEF S

-----------------------------------------------------------------------------
(* Sums of floats.                                                         *)

(* A sum is a float, less than nothing only if it is so before it is       *)
(* rounded or what is added to is; and nothing added changes nothing.      *)
LEMMA PlusIs ==
  ASSUME NEW f \in Floats, NEW g \in Floats
  PROVE  /\ Plus(f, g) \in Floats
         /\ Plus(f, g) < 0 => f < 0 \/ f + g < 0
         /\ Plus(f, 0) = f
  <1> USE FloatsAssumption
  <1>1. ASSUME NEW h \in Floats
        PROVE  Rounded[f + h] \in Nearest(f + h)
    <2>1. Rounded[f + h] = CHOOSE x \in Nearest(f + h) : RoundsTo(f + h, x)
      BY DEF Rounded
    <2>2. \E x \in Nearest(f + h) : RoundsTo(f + h, x)
      OBVIOUS
    <2>. QED BY ONLY <2>1, <2>2
  <1>2. ASSUME NEW n \in Int, n >= 0, NEW x \in Nearest(n)
        PROVE  x >= 0
    <2>1. x \in Int /\ Abs(x - n) <= Abs(0 - n)
      BY DEF Nearest
    <2>. QED BY <1>2, <2>1 DEF Abs
  <1>3. ASSUME NEW x \in Nearest(f)
        PROVE  x = f
    <2>1. x \in Int /\ f \in Int /\ Abs(x - f) <= Abs(f - f)
      BY DEF Nearest
    <2>. QED BY <2>1 DEF Abs
  <1>4. f \in Int /\ g \in Int /\ f + g \in Int /\ f + 0 = f
    OBVIOUS
  <1>5. Rounded[f + g] \in Floats /\ Rounded[f + g] \in Nearest(f + g)
    BY <1>1 DEF Nearest
  <1>6. Rounded[f + g] < 0 => f + g < 0
    <2>1. Rounded[f + g] \in Int
      BY <1>5
    <2>2. ASSUME f + g >= 0 PROVE Rounded[f + g] >= 0
      BY <1>2, <1>4, <1>5, <2>2
    <2>3. \A a, b \in Int : (b >= 0 => a >= 0) => (a < 0 => b < 0)
      OBVIOUS
    <2>. QED BY ONLY <1>4, <2>1, <2>2, <2>3
  <1>7. Rounded[f + 0] = f
    <2>1. Rounded[f + 0] \in Nearest(f + 0)
      BY <1>1
    <2>. QED BY <1>3, <1>4, <2>1
  <1>. QED BY <1>5, <1>6, <1>7 DEF Plus

-----------------------------------------------------------------------------
(* The account as the fold of its events.                                  *)
AccountState == [amount : Floats, closed : BOOLEAN]

AccountEvents ==
  [type : {"AccountCreated", "Closed"}] \cup
  [type : {"Deposited", "Withdrawn"}, amount : Floats]

(* What an event adds to the balance.                                      *)
Gain(event) ==
  IF event.type = "Deposited" THEN event.amount
  ELSE IF event.type = "Withdrawn" THEN -event.amount ELSE 0

(* Account::apply: the amount grows by the event's gain, and Closed        *)
(* closes.                                                                 *)
LEMMA ApplyIs ==
  ASSUME NEW account \in AccountState, NEW event \in AccountEvents
  PROVE  /\ Apply(account, event) \in AccountState
         /\ Apply(account, event).amount = Plus(account.amount, Gain(event))
         /\ Apply(account, event).closed <=> account.closed \/ event.type = "Closed"
         /\ Gain(event) \in Floats
  <1> DEFINE amount == account.amount
  <1>1. amount \in Floats /\ 0 \in Floats /\ \A f \in Floats : -f \in Floats
    BY FloatsAssumption DEF AccountState
  <1>2. ASSUME NEW g \in Floats
        PROVE  /\ [account EXCEPT !.amount = Plus(amount, g)] \in AccountState
               /\ [account EXCEPT !.amount = Plus(amount, g)].amount = Plus(amount, g)
               /\ [account EXCEPT !.amount = Plus(amount, g)].closed = account.closed
    <2>1. Plus(amount, g) \in Floats
      BY <1>1, PlusIs
    <2>. QED BY <2>1 DEF AccountState
  <1>3. CASE event.type = "AccountCreated"
    <2>1. Apply(account, event) = account /\ Gain(event) = 0
      BY <1>3 DEF Apply, Gain
    <2>. QED BY <1>1, <1>3, <2>1, PlusIs
  <1>4. CASE event.type = "Closed"
    <2>1. Apply(account, event) = [account EXCEPT !.closed = TRUE] /\ Gain(event) = 0
      BY <1>4 DEF Apply, Gain
    <2>2. /\ [account EXCEPT !.closed = TRUE] \in AccountState
          /\ [account EXCEPT !.closed = TRUE].amount = amount
          /\ [account EXCEPT !.closed = TRUE].closed = TRUE
      BY DEF AccountState
    <2>. QED BY <1>1, <1>4, <2>1, <2>2, PlusIs
  <1>5. CASE event.type = "Deposited"
    <2>1. event.amount \in Floats
      BY <1>5 DEF AccountEvents
    <2>2. Apply(account, event) = [account EXCEPT !.amount = Plus(amount, event.amount)]
          /\ Gain(event) = event.amount
      BY <1>5 DEF Apply, Gain
    <2>. QED BY <1>2, <1>5, <2>1, <2>2
  <1>6. CASE event.type = "Withdrawn"
    <2>1. -event.amount \in Floats
      BY <1>1, <1>6 DEF AccountEvents
    <2>2. Apply(account, event) = [account EXCEPT !.amount = Plus(amount, -event.amount)]
          /\ Gain(event) = -event.amount
      BY <1>6 DEF Apply, Gain
    <2>. QED BY <1>2, <1>6, <2>1, <2>2
  <1>. QED BY <1>3, <1>4, <1>5, <1>6 DEF AccountEvents

(* The states of the account after each of its events.                     *)
Replayed(h, p) ==
  /\ h \in [0..Len(p) -> AccountState]
  /\ h[0] = DefaultAccount
  /\ \A k \in 1..Len(p) : h[k] = Apply(h[k - 1], p[k])

(* The account is the last of the states its events lead through.          *)
LEMMA AccountIs ==
  ASSUME NEW p \in Seq(AccountEvents)
  PROVE  \E h : Replayed(h, p) /\ Account(p) = h[Len(p)]
  <1> DEFINE n == Len(p)
             step == [k \in 1..n |-> [a \in AccountState |-> Apply(a, p[k])]]
             next(f, k) == IF k = 0 THEN DefaultAccount ELSE Apply(f[k - 1], p[k])
             after == CHOOSE f : f = [k \in 0..n |-> next(f, k)]
  <1>1. n \in Nat /\ \A k \in 1..n : p[k] \in AccountEvents
    BY LenProperties, ElementOfSeq
  <1>2. DefaultAccount \in AccountState
    BY FloatsAssumption DEF DefaultAccount, AccountState
  <1>3. Account(p) = after[n]
    BY Zenon DEF Account
  <1>4. IsSteps(step, n, AccountState)
    BY <1>1, ApplyIs DEF IsSteps
  <1>5. PICK h : Iterated(h, step, n, AccountState, DefaultAccount)
    <2> HIDE DEF step, n
    <2>. QED BY <1>1, <1>2, <1>4, Iterates
  <1>6. /\ h \in [0..n -> AccountState] /\ h[0] = DefaultAccount
        /\ \A k \in 1..n : h[k] = step[k][h[k - 1]]
    BY <1>5 DEF Iterated
  <1>7. ASSUME NEW k \in 1..n PROVE h[k] = Apply(h[k - 1], p[k])
    <2>1. k - 1 \in 0..n
      BY <1>1
    <2>. QED BY <1>6, <2>1
  <1> HIDE DEF step, n
  <1>8. h = [k \in 0..n |-> next(h, k)]
    <2>1. \A k \in 0..n : h[k] = next(h, k)
      BY <1>1, <1>6, <1>7
    <2>. QED BY <1>6, <2>1
  <1> HIDE DEF next
  <1>9. after = [k \in 0..n |-> next(after, k)]
    BY <1>8, Zenon
  <1> HIDE DEF after
  <1>10. \A k \in 0..n : after[k] = next(after, k)
    BY <1>9
  <1>11. GoAlike(after, h, n)
    <2>1. after[0] = h[0]
      BY <1>1, <1>6, <1>10 DEF next
    <2>2. \A k \in 1..n : k \in 0..n /\ k # 0
      BY <1>1
    <2>3. \A k \in 1..n : after[k] = Apply(after[k - 1], p[k])
      BY <1>10, <2>2 DEF next
    <2>. QED BY <1>7, <2>1, <2>3 DEF GoAlike
  <1>12. after[n] = h[n]
    BY <1>1, <1>11, SameUpTo
  <1>13. Replayed(h, p)
    BY <1>6, <1>7 DEF Replayed, n
  <1>. QED BY <1>3, <1>12, <1>13 DEF n

(* The account after the first events, and when it is closed.              *)
LEMMA AccountOfFirst ==
  ASSUME NEW p \in Seq(AccountEvents), NEW h, Replayed(h, p), NEW n \in 0..Len(p)
  PROVE  /\ Account(SubSeq(p, 1, n)) = h[n]
         /\ h[n].closed <=> \E k \in 1..n : p[k].type = "Closed"
  <1>1. Len(p) \in Nat /\ n \in Nat /\ \A k \in 1..Len(p) : p[k] \in AccountEvents
    BY LenProperties, ElementOfSeq
  <1>2. Account(SubSeq(p, 1, n)) = h[n]
    <2> DEFINE q == SubSeq(p, 1, n)
    <2>1. q \in Seq(AccountEvents) /\ Len(q) = n /\ \A k \in 1..n : q[k] = p[k]
      <3>1. q = [k \in 1..n |-> p[k]]
        BY <1>1, SubSeqFromOne
      <3>2. [k \in 1..n |-> p[k]] \in [1..n -> AccountEvents]
        BY <1>1
      <3>3. q \in Seq(AccountEvents) /\ Len(q) = n
        BY <1>1, <3>1, <3>2, FunctionIsSeq
      <3>. QED BY <3>1, <3>3
    <2> HIDE DEF q
    <2>2. PICK g : Replayed(g, q) /\ Account(q) = g[Len(q)]
      BY <2>1, AccountIs
    <2>3. GoAlike(g, h, n)
      BY <1>1, <2>1, <2>2 DEF GoAlike, Replayed
    <2>4. g[n] = h[n]
      BY <1>1, <2>3, SameUpTo
    <2>. QED BY <2>1, <2>2, <2>4 DEF q
  <1>3. h[n].closed <=> \E k \in 1..n : p[k].type = "Closed"
    <2> DEFINE T == {m \in 0..n : h[m].closed <=> \E k \in 1..m : p[k].type = "Closed"}
    <2>1. 0 \in T
      BY <1>1 DEF Replayed, DefaultAccount
    <2>2. ASSUME NEW m \in 1..n, m - 1 \in T
          PROVE  m \in T
      <3>1. m \in 1..Len(p) /\ m - 1 \in 0..Len(p) /\ 1..m = (1..(m - 1)) \cup {m}
        BY <1>1
      <3>2. h[m] = Apply(h[m - 1], p[m]) /\ h[m - 1] \in AccountState
            /\ p[m] \in AccountEvents
        BY <1>1, <3>1 DEF Replayed
      <3>3. h[m].closed <=> h[m - 1].closed \/ p[m].type = "Closed"
        BY <3>2, ApplyIs
      <3>. QED BY <2>2, <3>1, <3>3
    <2> HIDE DEF T
    <2>3. \A k \in 0..n : k \in T
      BY <1>1, <2>1, <2>2, UpTo
    <2>4. n \in T
      BY <1>1, <2>3
    <2>. QED BY <2>4 DEF T
  <1>. QED BY <1>2, <1>3

-----------------------------------------------------------------------------
(* What the account makes of a request.                                    *)

(* A readable request is a command of the account, and its event one the   *)
(* account can apply.                                                      *)
LEMMA CommandIs ==
  ASSUME NEW sent, IsRequest(sent), IsReadable(sent)
  PROVE  /\ CommandOf(sent).type = sent.route
         /\ sent.route \in {"Create", "Deposit", "Withdraw", "Close"}
         /\ sent.route \in {"Deposit", "Withdraw"} => Amount(CommandOf(sent)) \in Floats
         /\ RouteOf(sent) \in AccountRoutes
         /\ EventOf(CommandOf(sent)) \in AccountEvents
  <1> DEFINE route == RouteOf(sent)
             command == CommandOf(sent)
  <1>1. \E r \in AccountRoutes : r.discriminator = sent.route
    BY DEF IsRequest
  <1>2. route \in AccountRoutes /\ route.discriminator = sent.route
    BY <1>1 DEF RouteOf
  <1>3. sent.route \in {"Create", "Deposit", "Withdraw", "Close"}
    BY <1>2 DEF AccountRoutes, Routes
  <1>4. /\ command.form = "object" /\ command.type \in DOMAIN Commands
        /\ command.fields \in Commands[command.type]
    BY DEF IsReadable, Deserializes
  <1>d. route.discriminator # NoDiscriminator
    BY <1>2, <1>3 DEF NoDiscriminator
  <1>5. sent.body.form = "object"
    <2>1. sent.body.form # "object" => command = sent.body
      BY DEF CommandOf, AddDiscriminator
    <2>. QED BY <1>4, <2>1
  <1>6. command.type = sent.route
    <2>1. command = [sent.body EXCEPT !.type = route.discriminator]
      BY <1>5, <1>d DEF CommandOf, AddDiscriminator
    <2>2. "type" \in DOMAIN sent.body
      BY <1>5 DEF IsRequest
    <2> HIDE DEF command, route
    <2>. QED BY <1>2, <2>1, <2>2
  <1> HIDE DEF command, route
  <1>7. ASSUME command.type \in {"Deposit", "Withdraw"}
        PROVE  Amount(command) \in Floats
    <2>1. Commands[command.type] = {<<n>> : n \in Amounts}
      BY <1>7 DEF Commands, AccountCommands
    <2>2. PICK n \in Amounts : command.fields = <<n>>
      BY <1>4, <2>1
    <2>. QED BY <2>2, AmountsAssumption DEF Amount
  <1>8. EventOf(command) \in AccountEvents
    <2>1. CASE command.type \in {"Create", "Close"}
      BY <2>1 DEF EventOf, AccountEvents
    <2>2. CASE command.type \in {"Deposit", "Withdraw"}
      <3>1. PICK n \in Floats : n = Amount(command)
        BY <1>7, <2>2
      <3>2. Abs(n) \in Floats
        BY FloatsAssumption DEF Abs
      <3>3. EventOf(command) = Moved(command)
        BY <2>2 DEF EventOf
      <3>. QED BY <3>1, <3>2, <3>3 DEF Moved, AccountEvents
    <2>. QED BY <1>3, <1>6, <2>1, <2>2
  <1>. QED BY <1>2, <1>3, <1>6, <1>7, <1>8 DEF command, route

(* An update that is accepted is of an open account, and overdraws it only *)
(* as a negative deposit does.                                             *)
LEMMA AcceptedIs ==
  ASSUME NEW account \in AccountState, NEW command,
         command.type \in {"Deposit", "Withdraw", "Close"},
         command.type # "Close" => Amount(command) \in Floats,
         EventOf(command) \in AccountEvents,
         HandleUpdate(account, command).ok
  PROVE  /\ ~ account.closed
         /\ Plus(account.amount, Gain(EventOf(command))) < 0 =>
              \/ account.amount < 0
              \/ command.type = "Deposit" /\ Amount(command) < 0
  <1>0. account.amount \in Int /\ account.amount \in Floats
    BY FloatsAssumption DEF AccountState
  <1>g. Gain(EventOf(command)) \in Floats
    BY ApplyIs
  <1>1. \A name : ~ AccountError(name).ok
    BY DEF AccountError, Raises
  <1>2. ~ account.closed
    BY <1>1 DEF HandleUpdate
  <1>3. CASE command.type = "Close"
    <2>1. Gain(EventOf(command)) = 0
      BY <1>3 DEF EventOf, Gain
    <2>. QED BY <1>0, <1>2, <2>1, PlusIs
  <1>4. CASE command.type \in {"Deposit", "Withdraw"}
    <2>1. PICK n \in Int : n = Amount(command)
      BY <1>4, FloatsAssumption
    <2>2. n # 0 /\ ~ (command.type = "Withdraw" /\ n > 0 /\ account.amount < n)
      BY <1>1, <1>2, <1>4, <2>1 DEF HandleUpdate
    <2>3. EventOf(command) =
            [type |-> IF (command.type = "Deposit") = (n > 0) THEN "Deposited" ELSE "Withdrawn",
             amount |-> Abs(n)]
      BY <1>4, <2>1 DEF EventOf, Moved
    <2>4. Gain(EventOf(command)) = IF command.type = "Deposit" THEN n ELSE -n
      <3>1. CASE command.type = "Deposit"
        BY <2>2, <2>3, <3>1 DEF Gain, Abs
      <3>2. CASE command.type = "Withdraw"
        BY <2>2, <2>3, <3>2 DEF Gain, Abs
      <3>. QED BY <1>4, <3>1, <3>2
    <2>5. Plus(account.amount, Gain(EventOf(command))) < 0 =>
            account.amount < 0 \/ account.amount + Gain(EventOf(command)) < 0
      BY <1>0, <1>g, PlusIs
    <2>6. account.amount + Gain(EventOf(command)) < 0 =>
            account.amount < 0 \/ (command.type = "Deposit" /\ n < 0)
      BY <1>0, <1>4, <2>1, <2>2, <2>4
    <2>. QED BY <1>2, <2>1, <2>5, <2>6
  <1>. QED BY <1>3, <1>4

(* The request behind an event can be read.                                *)
Legible(s) ==
  \A i \in DOMAIN s : s[i][1] \in Calls /\ IsRequest(request[s[i][1]]) /\ Readable(s[i][1])

(* The payloads of a legible stream are the account's events.              *)
LEMMA PayloadsOf ==
  ASSUME NEW s \in State, Legible(s)
  PROVE  /\ Payloads(s) \in Seq(AccountEvents)
         /\ Len(Payloads(s)) = Len(s)
         /\ \A i \in DOMAIN s : Payloads(s)[i] = Payload(s[i][1])
  <1>1. Len(s) \in Nat /\ DOMAIN s = 1..Len(s)
    BY LenProperties DEF State
  <1>2. \A i \in DOMAIN s : Payload(s[i][1]) \in AccountEvents
    BY CommandIs DEF Legible, Payload, Command, Readable
  <1>3. Payloads(s) = [i \in 1..Len(s) |-> Payload(s[i][1])]
    BY <1>1 DEF Payloads
  <1>4. [i \in 1..Len(s) |-> Payload(s[i][1])] \in [1..Len(s) -> AccountEvents]
    BY <1>1, <1>2
  <1>5. Payloads(s) \in Seq(AccountEvents) /\ Len(Payloads(s)) = Len(s)
    BY <1>1, <1>3, <1>4, FunctionIsSeq
  <1>. QED BY <1>1, <1>3, <1>5

-----------------------------------------------------------------------------
(* The events of the first n entries of a journal, in any order.           *)
HasFirst(s, j, n) ==
  /\ s \in State /\ Once(s)
  /\ n \in 0..Len(j)
  /\ Range(s) = {j[i].event : i \in 1..n}

(* The events of the first n entries of a journal, once each, are n.       *)
LEMMA ArrangedIs ==
  ASSUME NEW j \in Seq(Envelope), EventsOnce(j), NEW s, NEW n, HasFirst(s, j, n),
         NEW first, first = {j[i].event : i \in 1..n}
  PROVE  Len(s) = n /\ s \in [1..n -> first] /\ Range(s) = first
  <1>1. /\ s \in State /\ Once(s) /\ n \in 0..Len(j) /\ Range(s) = first
        /\ Len(j) \in Nat /\ DOMAIN j = 1..Len(j)
    BY LenProperties DEF HasFirst
  <1>m. PICK m : m = Len(s)
    OBVIOUS
  <1>2. m \in Nat /\ n \in Nat /\ DOMAIN s = 1..m /\ s = [i \in 1..m |-> s[i]]
    BY <1>1, <1>m, LenProperties DEF State
  <1>3. s \in [1..m -> first]
    <2>1. \A i \in 1..m : s[i] \in first
      BY <1>1, <1>2 DEF Range
    <2>. QED BY <1>2, <2>1
  <1>4. ExistsBijection(1..m, first)
    <2>1. \A e \in first : \E i \in 1..m : s[i] = e
      BY <1>1, <1>2 DEF Range
    <2>2. s \in Bijection(1..m, first)
      BY <1>1, <1>2, <1>3, <2>1 DEF Bijection, Injection, IsInjective, Surjection, Once
    <2>. QED BY <2>2 DEF ExistsBijection
  <1>5. ExistsBijection(1..n, first)
    <2> DEFINE t == [i \in 1..n |-> j[i].event]
    <2>1. \A i \in 1..n : i \in DOMAIN j
      BY <1>1
    <2>2. \A i, k \in 1..n : t[i] = t[k] => i = k
      BY <2>1 DEF EventsOnce
    <2>3. t \in [1..n -> first] /\ \A e \in first : \E i \in 1..n : t[i] = e
      OBVIOUS
    <2> HIDE DEF t
    <2>4. t \in Bijection(1..n, first)
      BY <2>2, <2>3 DEF Bijection, Injection, IsInjective, Surjection
    <2>. QED BY <2>4 DEF ExistsBijection
  <1>6. Cardinality(first) = m /\ Cardinality(first) = n
    BY <1>2, <1>4, <1>5, FS_CountingElements
  <1>7. m = n
    BY <1>6
  <1>. QED BY <1>1, <1>3, <1>7, <1>m

-----------------------------------------------------------------------------
(* The orders in which an account's events may have been applied.          *)

(* A journal in its own order is one of them.                              *)
LEMMA ReplayIsOrder ==
  ASSUME NEW id, NEW n \in Nat
  PROVE  /\ Replay(journal[id], n) \in Orders(id, n)
         /\ Replay(journal[id], n) \in [1..n -> {journal[id][i].event : i \in 1..n}]
         /\ Range(Replay(journal[id], n)) = {journal[id][i].event : i \in 1..n}
  <1>1. /\ Replay(journal[id], n) \in [1..n -> {journal[id][i].event : i \in 1..n}]
        /\ Range(Replay(journal[id], n)) = {journal[id][i].event : i \in 1..n}
    BY DEF Replay, Range
  <1>. QED BY <1>1 DEF Orders

(* What a call of a disturbed aggregate holds is one of them, and so is    *)
(* the replay that another holds.                                          *)
LEMMA HeldIsOrder ==
  ASSUME NEW id, journal[id] \in Seq(Envelope), EventsOnce(journal[id]),
         NEW s, NEW n, HasFirst(s, journal[id], n),
         id \notin disturbed => s = Replay(journal[id], n)
  PROVE  s \in Orders(id, n)
  <1> DEFINE first == {journal[id][i].event : i \in 1..n}
  <1>1. s \in [1..n -> first] /\ Range(s) = first
    BY ArrangedIs
  <1>. QED BY <1>1 DEF Orders

-----------------------------------------------------------------------------
(* What holds of the requests and of the accounts at every moment.         *)

(* A call whose handler accepted its command.                              *)
Decided(c) ==
  \/ pc[c] \in {"start_session", "fetch_latest", "save_events", "save_snapshot", "close",
                "dispatch"}
  \/ Answered(c, "ok")

(* A request, and how far the engine is with it.                           *)
Served(c) ==
  /\ IsRequest(request[c]) /\ kind[c] = KindOf(request[c].route)
  /\ since[c] \in 0..Len(journal[target[c]])
  /\ pc[c] \in {"fetch_snapshot", "fetch_tail", "handle"} => reply[c] = "none"
  /\ pc[c] = "done" => reply[c] # "none"
  /\ pc[c] # "fetch_snapshot" => Readable(c) \/ Answered(c, "user_error")
  /\ Decided(c) => batch[c] = NewEvents(c, 1)

(* An entry is the one event of a request to its account.                  *)
MadeBy(d, id, event) ==
  d \in Calls /\ event = <<d, 1>> /\ target[d] = id /\ IsRequest(request[d]) /\ Readable(d)

Made(id) ==
  \A i \in DOMAIN journal[id] :
    MadeBy(journal[id][i].event[1], id, journal[id][i].event)

(* A movement is of an entry.                                              *)
MovesBy(m, entry) ==
  /\ HasMovement(Payload(entry.event[1]))
  /\ m = Movement(entry.version, Payload(entry.event[1]))

MovementsMade(id) ==
  \A m \in movements[id] : \E i \in DOMAIN journal[id] : MovesBy(m, journal[id][i])

(* What a call decides on: the account of the first n events, none of      *)
(* which the request came too late for.                                    *)
Ready(c, s, n) ==
  /\ HasFirst(s, journal[target[c]], n)
  /\ ver[c] <= n
  /\ kind[c] = "create" => s = <<>> /\ n = 0
  /\ kind[c] = "update" => since[c] <= n

Accepts(c, s) ==
  kind[c] = "update" => HandleUpdate(Account(Payloads(s)), Command(c)).ok

Denies(c, s, n) ==
  /\ kind[c] = "update" /\ since[c] <= n
  /\ HasFirst(s, journal[target[c]], n)
  /\ target[c] \notin disturbed => s = Replay(journal[target[c]], n)
  /\ ~ HandleUpdate(Account(Payloads(s)), Command(c)).ok

Chosen(c, s, n) ==
  /\ agg[c] = s \o NewEvents(c, 1)
  /\ Ready(c, s, n)
  /\ Accepts(c, s)
  /\ pc[c] = "save_events" => n = ver[c]

(* What is true of a call as long as no version was written twice.         *)
Grounded(c) ==
  /\ pc[c] = "fetch_tail" =>
       kind[c] = "update" /\ HasFirst(agg[c], journal[target[c]], ver[c])
  /\ pc[c] = "handle" => \E n \in Nat : Ready(c, agg[c], n)
  /\ pc[c] \in {"start_session", "fetch_latest", "save_events"} =>
       \E s \in State : \E n \in Nat : Chosen(c, s, n)
  /\ pc[c] = "save_snapshot" => HasFirst(agg[c], journal[target[c]], ver[c] + 1)
  /\ Answered(c, "user_error") /\ Readable(c) => \E n \in Nat : Denies(c, agg[c], n)

(* A call that is refused for its version met another's event.             *)
Conflicts(c) ==
  /\ pc[c] \in {"fetch_tail", "handle", "start_session", "fetch_latest"} =>
       target[c] \in disturbed \/ since[c] <= ver[c]
  /\ pc[c] \in {"abort", "done"} /\ reply[c] = "concurrency_error" =>
       since[c] < Len(journal[target[c]]) \/ target[c] \in disturbed

Saved(id) ==
  \A i \in DOMAIN journal[id] :
    LET d == journal[id][i].event[1] IN
    Projected(d) /\ HasMovement(Payload(d)) =>
      Movement(journal[id][i].version, Payload(d)) \in movements[id]

(* An account no version of which was written twice.                       *)
Ordered(id) ==
  /\ Contiguous(journal[id])
  /\ \A n \in DOMAIN journal[id] : IsTaken(id, n)
  /\ snapshots[id] # NoSnapshot =>
       HasFirst(snapshots[id].state, journal[id], snapshots[id].version)

Straight(id) ==
  ~ Forked(id) =>
    /\ Ordered(id)
    /\ \A c \in Calls : target[c] = id => Grounded(c) /\ Conflicts(c)
    /\ Saved(id)

BankInv ==
  /\ EInv
  /\ DOMAIN movements = Ids
  /\ DOMAIN since = Calls
  /\ \A c \in Calls : Served(c)
  /\ \A id \in Ids : Made(id) /\ MovementsMade(id) /\ Straight(id)

-----------------------------------------------------------------------------
(* The journal of an account under a step.                                 *)

(* One entry joins it.                                                     *)
Extends(k, j) == Len(k) = Len(j) + 1 /\ \A i \in 1..Len(j) : k[i] = j[i]

(* It stays, or one entry joins it.                                        *)
Onward(j, k) == k = j \/ Extends(k, j)

(* A journal that only goes on keeps its first entries.                    *)
LEMMA FirstStays ==
  ASSUME NEW j \in Seq(Envelope), NEW k \in Seq(Envelope), Onward(j, k)
  PROVE  /\ DOMAIN j = 1..Len(j) /\ DOMAIN k = 1..Len(k) /\ Len(j) \in Nat /\ Len(k) \in Nat
         /\ Len(j) <= Len(k) /\ \A i \in 1..Len(j) : i \in 1..Len(k) /\ k[i] = j[i]
         /\ \A s, n : HasFirst(s, j, n) => HasFirst(s, k, n)
  <1>1. /\ DOMAIN j = 1..Len(j) /\ DOMAIN k = 1..Len(k) /\ Len(j) \in Nat /\ Len(k) \in Nat
    BY LenProperties
  <1>2. Len(j) <= Len(k) /\ \A i \in 1..Len(j) : i \in 1..Len(k) /\ k[i] = j[i]
    <2>1. CASE k = j
      BY <1>1, <2>1
    <2>2. CASE Extends(k, j)
      <3>1. Len(k) = Len(j) + 1 /\ \A i \in 1..Len(j) : k[i] = j[i]
        BY <2>2 DEF Extends
      <3>2. \A i \in 1..Len(j) : i \in 1..Len(k)
        BY <1>1, <3>1
      <3>. QED BY <1>1, <3>1, <3>2
    <2>. QED BY <2>1, <2>2 DEF Onward
  <1>3. ASSUME NEW s, NEW n, HasFirst(s, j, n)
        PROVE  HasFirst(s, k, n)
    <2>1. n \in 0..Len(j) /\ n \in 0..Len(k)
      BY <1>1, <1>2, <1>3 DEF HasFirst
    <2>2. \A i \in 1..n : i \in 1..Len(j)
      BY <1>1, <2>1
    <2>3. {k[i].event : i \in 1..n} = {j[i].event : i \in 1..n}
      BY <1>2, <2>2
    <2>. QED BY <1>3, <2>1, <2>3 DEF HasFirst
  <1>. QED BY <1>1, <1>2, <1>3

(* Versions written twice stay so.                                         *)
LEMMA UnforkedBefore ==
  ASSUME NEW id \in Ids, journal[id] \in Seq(Envelope), journal'[id] \in Seq(Envelope),
         Onward(journal[id], journal'[id]), ~ Forked(id)'
  PROVE  ~ Forked(id)
  <1>1. /\ DOMAIN journal[id] \subseteq DOMAIN journal'[id]
        /\ \A i \in DOMAIN journal[id] : journal'[id][i] = journal[id][i]
    BY FirstStays
  <1>. QED BY <1>1 DEF Forked

(* The event of a request joins the journal.                               *)
Added(c, j, k) ==
  /\ Extends(k, j)
  /\ k[Len(k)] = [version |-> ver[c] + 1, event |-> <<c, 1>>]

(* What the other modules of the engine see of a step of one call.         *)
Works(c) == Step(c) \/ QueryFails(c) \/ Cancel(c) \/ CancelWrite(c) \/ LateWrite(c)

(* A step of the engine keeps its invariant.                               *)
LEMMA WorkKeeps ==
  ASSUME EInv, NEW c \in Calls, Works(c)
  PROVE  EInv'
  <1>1. Next
    BY DEF Works, Next
  <1>. QED BY <1>1, EInvKept

(* A step of a call leaves the others alone, their aggregates too.         *)
LEMMA OnlyOne ==
  ASSUME EInv, NEW c \in Calls, Works(c)
  PROVE  /\ pc[c] # "done" /\ target' = target /\ kind' = kind
         /\ \A d \in Calls : d # c => SameCall(d)
         /\ disturbed \subseteq disturbed'
  <1> USE DEF Goto, Answer, SameCall
  <1>t. /\ pc \in [Calls -> Label] /\ kind \in [Calls -> {"create", "update"}]
        /\ target \in [Calls -> Ids] /\ agg \in [Calls -> State]
        /\ ver \in [Calls -> Nat] /\ batch \in [Calls -> State]
        /\ reply \in [Calls -> Reply]
    BY DEF EInv, MInv, CallTypeOK
  <1>d. /\ ReadNotes(c) => disturbed \subseteq disturbed'
        /\ Disturb(c) => disturbed \subseteq disturbed'
    BY DEF ReadNotes, Disturb
  <1>1. CASE FetchSnapshot(c)
    BY <1>t, <1>d, <1>1 DEF FetchSnapshot, InitializeAggregate, LoadSnapshot
  <1>2. CASE FetchEventsFromVersion(c)
    <2>1. /\ pc[c] = "fetch_tail" /\ pc' = [pc EXCEPT ![c] = "handle"]
          /\ target' = target /\ kind' = kind /\ batch' = batch /\ reply' = reply
          /\ \E a : agg' = [agg EXCEPT ![c] = a]
          /\ \E v : ver' = [ver EXCEPT ![c] = v]
          /\ disturbed \subseteq disturbed'
      BY <1>d, <1>2 DEF FetchEventsFromVersion, LoadTail
    <2>. QED BY <1>t, <2>1
  <1>3. CASE RunHandler(c)
    BY <1>t, <1>3 DEF RunHandler, Handle, Refuse
  <1>4. CASE StartSession(c)
    BY <1>t, <1>4 DEF StartSession
  <1>5. CASE FetchLatestEvent(c)
    BY <1>t, <1>d, <1>5 DEF FetchLatestEvent, CheckVersion
  <1>6. CASE SaveEvents(c)
    BY <1>t, <1>d, <1>6 DEF SaveEvents
  <1>7. CASE SaveSnapshot(c)
    BY <1>t, <1>d, <1>7 DEF SaveSnapshot
  <1>8. CASE CloseSession(c)
    BY <1>t, <1>8 DEF CloseSession, Committed
  <1>9. CASE AbortSession(c)
    BY <1>t, <1>9 DEF AbortSession, Aborted
  <1>10. CASE Dispatch(c)
    BY <1>t, <1>10 DEF Dispatch, Dispatched
  <1>11. CASE QueryFails(c)
    BY <1>t, <1>11 DEF QueryFails
  <1>12. CASE Cancel(c)
    BY <1>t, <1>12 DEF Cancel, Drop
  <1>13. CASE CancelWrite(c)
    BY <1>t, <1>d, <1>13 DEF CancelWrite, Writing
  <1>14. CASE LateWrite(c)
    BY <1>t, <1>14 DEF LateWrite, InFlight
  <1>. QED BY <1>1, <1>2, <1>3, <1>4, <1>5, <1>6, <1>7, <1>8, <1>9, <1>10, <1>11,
              <1>12, <1>13, <1>14 DEF Works, Step

(* What a step does to the store: nothing, an insert of all or part of the *)
(* batch, or the replacement of the snapshot.                              *)
Inserts(c) ==
  /\ pc[c] = "save_events" /\ pc'[c] \in {"save_snapshot", "abort", "done"}
  /\ agg' = agg /\ ver' = ver /\ batch' = batch /\ snapshots' = snapshots
  /\ \E k \in 0..Len(batch[c]) :
       Insert(c, k) /\ (pc'[c] = "save_snapshot" => k = Len(batch[c]))

Replaces(c) ==
  /\ pc[c] = "save_snapshot" /\ journal' = journal
  /\ snapshots' = [snapshots EXCEPT ![target[c]] = NewSnapshot(c)]

(* What a working call can do to the store: nothing, insert, or replace    *)
(* the snapshot.                                                           *)
LEMMA StoreSteps ==
  ASSUME EInv, NEW c \in Calls, Works(c)
  PROVE  \/ UNCHANGED store /\ ~ (pc[c] = "save_events" /\ pc'[c] = "save_snapshot")
         \/ Inserts(c)
         \/ Replaces(c)
  <1> USE DEF Goto, Answer, store
  <1>t. pc \in [Calls -> Label] /\ Len(batch[c]) \in Nat
    BY LenProperties DEF EInv, MInv, CallTypeOK, State
  <1>1. CASE FetchSnapshot(c)
    BY <1>1 DEF FetchSnapshot, InitializeAggregate, LoadSnapshot
  <1>2. CASE FetchEventsFromVersion(c)
    BY <1>2 DEF FetchEventsFromVersion, LoadTail
  <1>3. CASE RunHandler(c)
    BY <1>3 DEF RunHandler, Handle, Refuse
  <1>4. CASE StartSession(c)
    BY <1>4 DEF StartSession
  <1>5. CASE FetchLatestEvent(c)
    BY <1>5 DEF FetchLatestEvent, CheckVersion
  <1>6. CASE SaveEvents(c)
    <2>1. /\ pc[c] = "save_events" /\ agg' = agg /\ ver' = ver /\ batch' = batch
          /\ snapshots' = snapshots
      BY <1>6 DEF SaveEvents
    <2>2. \/ Insert(c, Len(batch[c])) /\ pc'[c] = "save_snapshot"
          \/ pc'[c] = "abort" /\ \E k \in 0..Len(batch[c]) : Insert(c, k)
      BY <1>t, <1>6 DEF SaveEvents
    <2>3. Len(batch[c]) \in 0..Len(batch[c])
      BY <1>t
    <2>. QED BY <2>1, <2>2, <2>3 DEF Inserts
  <1>7. CASE SaveSnapshot(c)
    <2>1. pc[c] = "save_snapshot" /\ journal' = journal
      BY <1>7 DEF SaveSnapshot
    <2>2. \/ snapshots' = [snapshots EXCEPT ![target[c]] = NewSnapshot(c)]
          \/ snapshots' = snapshots
      BY <1>7 DEF SaveSnapshot
    <2>. QED BY <2>1, <2>2 DEF Replaces
  <1>8. CASE CloseSession(c)
    BY <1>8 DEF CloseSession, Committed
  <1>9. CASE AbortSession(c)
    BY <1>9 DEF AbortSession, Aborted
  <1>10. CASE Dispatch(c)
    BY <1>10 DEF Dispatch, Dispatched
  <1>11. CASE QueryFails(c)
    BY <1>11 DEF QueryFails
  <1>12. CASE Cancel(c)
    BY <1>12 DEF Cancel, Drop
  <1>13. CASE CancelWrite(c)
    BY <1>13 DEF CancelWrite, Writing
  <1>14. CASE LateWrite(c)
    <2>1. /\ pc'[c] = "done" /\ agg' = agg /\ ver' = ver /\ batch' = batch
          /\ pc[c] \in {"save_events", "save_snapshot"}
      BY <1>t, <1>14 DEF LateWrite, InFlight
    <2>2. CASE pc[c] = "save_events"
      <3>1. snapshots' = snapshots /\ \E k \in 0..Len(batch[c]) : Insert(c, k)
        BY <1>14, <2>2 DEF LateWrite
      <3>. QED BY <2>1, <2>2, <3>1 DEF Inserts
    <2>3. CASE pc[c] = "save_snapshot"
      <3>1. /\ journal' = journal
            /\ \/ snapshots' = [snapshots EXCEPT ![target[c]] = NewSnapshot(c)]
               \/ snapshots' = snapshots
        BY <1>14, <2>3 DEF LateWrite
      <3>. QED BY <2>3, <3>1 DEF Replaces
    <2>. QED BY <2>1, <2>2, <2>3
  <1>. QED BY <1>1, <1>2, <1>3, <1>4, <1>5, <1>6, <1>7, <1>8, <1>9, <1>10, <1>11,
              <1>12, <1>13, <1>14 DEF Works, Step

(* A request has one event: the journal stays, or that event joins it.     *)
JoinsJournal(c) ==
  /\ pc[c] = "save_events" /\ pc'[c] \in {"save_snapshot", "abort", "done"}
  /\ agg' = agg /\ ver' = ver /\ batch' = batch /\ snapshots' = snapshots
  /\ Added(c, journal[target[c]], journal'[target[c]])

(* With one event per command, an insert adds one entry to one journal.    *)
LEMMA JournalStep ==
  ASSUME EInv, NEW c \in Calls, Works(c), Served(c)
  PROVE  /\ \A id \in Ids : id # target[c] => journal'[id] = journal[id]
         /\ \/ journal' = journal /\ ~ (pc[c] = "save_events" /\ pc'[c] = "save_snapshot")
            \/ JoinsJournal(c)
         /\ \A id \in Ids : Onward(journal[id], journal'[id])
  <1>1. CASE Inserts(c)
    <2>1. PICK k \in 0..Len(batch[c]) :
            Insert(c, k) /\ (pc'[c] = "save_snapshot" => k = Len(batch[c]))
      BY <1>1 DEF Inserts
    <2>2. batch[c] = NewEvents(c, 1)
      BY <1>1 DEF Served, Decided, Inserts
    <2>3. Len(batch[c]) = 1 /\ batch[c][1] = <<c, 1>>
      <3>1. 1 \in 0..MaxEvents
        BY OneEventAssumption, MaxEventsAssumption
      <3>. QED BY <2>2, <3>1, NewEventsType DEF NewEvents
    <2> DEFINE id == target[c]
               n == Len(journal[id])
    <2>4. /\ journal' \in [Ids -> Seq(Envelope)]
          /\ \A d \in Ids \ {id} : journal'[d] = journal[d]
          /\ n \in Nat /\ k \in Nat /\ Len(journal'[id]) = n + k
          /\ \A i \in 1..n : journal'[id][i] = journal[id][i]
          /\ \A i \in 1..k : journal'[id][n + i] =
               [version |-> ver[c] + i, event |-> batch[c][i]]
      BY <2>1, InsertIs DEF EInv, MInv
    <2>5. id \in Ids /\ journal[id] \in Seq(Envelope) /\ journal'[id] \in Seq(Envelope)
          /\ journal \in [Ids -> Seq(Envelope)]
      BY <2>4 DEF EInv, MInv, CallTypeOK, StoreTypeOK
    <2>6. CASE k = 0
      <3>1. Len(journal'[id]) = Len(journal[id])
        BY <2>4, <2>6
      <3>2. journal'[id] = journal[id]
        BY <2>4, <2>5, <3>1, SeqEqual
      <3>3. journal' = journal
        BY <2>4, <2>5, <3>2
      <3>4. pc'[c] # "save_snapshot"
        BY <2>1, <2>3, <2>6
      <3>. QED BY <3>3, <3>4 DEF Onward
    <2>7. CASE k = 1
      <3>1. Len(journal'[id]) = n + 1
        BY <2>4, <2>7
      <3>2. 1 \in 1..k
        BY <2>7
      <3>3. journal'[id][n + 1] = [version |-> ver[c] + 1, event |-> <<c, 1>>]
        BY <2>3, <2>4, <3>2
      <3>4. Added(c, journal[id], journal'[id])
        BY <2>4, <3>1, <3>3 DEF Added, Extends
      <3>. QED BY <1>1, <2>4, <3>4 DEF Inserts, JoinsJournal, Onward, Added
    <2>. QED BY <2>1, <2>3, <2>6, <2>7
  <1>2. CASE ~ Inserts(c)
    <2>1. journal' = journal /\ ~ (pc[c] = "save_events" /\ pc'[c] = "save_snapshot")
      BY <1>2, StoreSteps DEF store, Replaces
    <2>. QED BY <2>1 DEF Onward
  <1>. QED BY <1>1, <1>2

-----------------------------------------------------------------------------
(* What is asked does not change.                                          *)
LEMMA SameRequests ==
  ASSUME request' = request
  PROVE  /\ \A d : /\ Command(d)' = Command(d) /\ Payload(d)' = Payload(d)
                   /\ Readable(d)' <=> Readable(d)
                   /\ DepositedNegative(d)' <=> DepositedNegative(d)
         /\ \A s : Payloads(s)' = Payloads(s)
  <1>1. \A d : Command(d)' = Command(d) /\ Payload(d)' = Payload(d)
               /\ (Readable(d)' <=> Readable(d))
    BY DEF Command, Payload, Readable
  <1>2. \A d : DepositedNegative(d)' <=> DepositedNegative(d)
    BY <1>1 DEF DepositedNegative
  <1>3. \A s : Payloads(s)' = Payloads(s)
    BY DEF Payloads, Payload, Command
  <1>. QED BY <1>1, <1>2, <1>3

(* An entry whose command was taken stays so when the journal goes on: an  *)
(* account that is disturbed meanwhile may have been loaded in more        *)
(* orders, its own among them.                                             *)
LEMMA TakenStays ==
  ASSUME NEW id, request' = request, disturbed \subseteq disturbed',
         journal[id] \in Seq(Envelope), journal'[id] \in Seq(Envelope),
         Onward(journal[id], journal'[id]), NEW n \in 1..Len(journal[id]), IsTaken(id, n)
  PROVE  IsTaken(id, n)'
  <1> DEFINE j == journal[id]
             k == journal'[id]
             m == n - 1
             first == {j[i].event : i \in 1..m}
  <1>1. /\ Len(j) \in Nat /\ Len(k) \in Nat /\ \A i \in 1..Len(j) : k[i] = j[i]
    BY FirstStays
  <1>2. m \in Nat /\ m <= Len(j) /\ \A i \in 1..m : k[i] = j[i]
    BY <1>1
  <1>3. Replay(k, m) = Replay(j, m)
    <2> HIDE DEF m
    <2>. QED BY <1>1, <1>2, ReplayOfGrown
  <1>4. {k[i].event : i \in 1..m} = first
    BY <1>2
  <1>5. Replay(j, m) \in [1..m -> first] /\ Range(Replay(j, m)) = first
    <2> HIDE DEF m
    <2>. QED BY <1>2, ReplayIsOrder
  <1> HIDE DEF m
  <1>6. \A order \in Orders(id, m) :
          IF id \in disturbed' THEN order \in [1..m -> first] /\ Range(order) = first
                               ELSE order = Replay(j, m)
    BY <1>5 DEF Orders
  <1>7. \A order \in Orders(id, m) :
          order \in IF id \in disturbed'
                      THEN {o \in [1..m -> {k[i].event : i \in 1..m}] :
                              Range(o) = {k[i].event : i \in 1..m}}
                      ELSE {Replay(k, m)}
    BY <1>3, <1>4, <1>6
  <1>d. PICK d : d = j[n].event[1]
    OBVIOUS
  <1>8. k[n].event[1] = d
    BY <1>1, <1>d
  <1> DEFINE command == CommandOf(request[d])
  <1>9. /\ command.type = "Create" => n = 1
        /\ command.type # "Create" => \E order \in Orders(id, m) :
             HandleUpdate(Account(Payloads(order)), command).ok
    BY <1>d DEF IsTaken, Command, m
  <1>10. \A s : Payloads(s)' = Payloads(s)
    BY SameRequests
  <1>11. CASE command.type = "Create"
    BY <1>8, <1>9, <1>11 DEF IsTaken, Command
  <1>12. CASE command.type # "Create"
    <2>1. PICK order \in Orders(id, m) : HandleUpdate(Account(Payloads(order)), command).ok
      BY <1>9, <1>12
    <2>2. order \in Orders(id, n - 1)'
      BY <1>7 DEF Orders, m
    <2>3. HandleUpdate(Account(Payloads(order)'), command).ok
      BY <1>10, <2>1
    <2>. QED BY <1>8, <1>12, <2>2, <2>3 DEF IsTaken, Command
  <1>. QED BY <1>11, <1>12

(* The entries of requests that could be read make a legible stream.       *)
LEMMA LegibleOf ==
  ASSUME NEW j \in Seq(Envelope),
         \A i \in 1..Len(j) : /\ j[i].event[1] \in Calls /\ IsRequest(request[j[i].event[1]])
                              /\ Readable(j[i].event[1])
  PROVE  Legible(EventsOf(j))
  <1>1. /\ EventsOf(j) \in State /\ Len(EventsOf(j)) = Len(j)
        /\ \A i \in 1..Len(j) : EventsOf(j)[i] = j[i].event
    BY EventsOfType
  <1>2. DOMAIN EventsOf(j) = 1..Len(j)
    BY <1>1, LenProperties DEF State
  <1>. QED BY <1>1, <1>2 DEF Legible

(* So a journal made by its requests is legible.                           *)
LEMMA MadeIsLegible ==
  ASSUME NEW id \in Ids, Made(id), journal[id] \in Seq(Envelope)
  PROVE  Legible(EventsOf(journal[id]))
  <1>1. DOMAIN journal[id] = 1..Len(journal[id])
    BY LenProperties
  <1>. QED BY <1>1, LegibleOf DEF Made, MadeBy

(* What two states hold together.                                          *)
LEMMA JoinedStates ==
  ASSUME NEW s \in State, NEW t \in State
  PROVE  s \o t \in State /\ Range(s \o t) = Range(s) \cup Range(t)
  <1> DEFINE u == s \o t
  <1>1. s \in Seq(Event) /\ t \in Seq(Event)
    BY DEF State
  <1>2. /\ u \in Seq(Event) /\ Len(u) = Len(s) + Len(t)
        /\ \A i \in 1..Len(s) : u[i] = s[i]
        /\ \A i \in 1..Len(t) : u[Len(s) + i] = t[i]
    BY <1>1, AppendPlaces
  <1> HIDE DEF u
  <1>3. /\ Len(s) \in Nat /\ Len(t) \in Nat /\ DOMAIN s = 1..Len(s) /\ DOMAIN t = 1..Len(t)
        /\ DOMAIN u = 1..(Len(s) + Len(t))
    BY <1>1, <1>2, LenProperties
  <1>4. ASSUME NEW e \in Range(u) PROVE e \in Range(s) \cup Range(t)
    <2>1. PICK i \in DOMAIN u : u[i] = e
      BY DEF Range
    <2>2. CASE i \in 1..Len(s)
      BY <1>2, <1>3, <2>1, <2>2 DEF Range
    <2>3. CASE i \notin 1..Len(s)
      <3>1. i - Len(s) \in 1..Len(t) /\ Len(s) + (i - Len(s)) = i
        BY <1>3, <2>3
      <3>2. t[i - Len(s)] = e
        BY <1>2, <2>1, <3>1
      <3>. QED BY <1>3, <3>1, <3>2 DEF Range
    <2>. QED BY <2>2, <2>3
  <1>5. ASSUME NEW e \in Range(s) PROVE e \in Range(u)
    <2>1. PICK i \in 1..Len(s) : s[i] = e
      BY <1>3 DEF Range
    <2>2. i \in DOMAIN u /\ u[i] = e
      BY <1>2, <1>3, <2>1
    <2>. QED BY <2>2 DEF Range
  <1>6. ASSUME NEW e \in Range(t) PROVE e \in Range(u)
    <2>1. PICK i \in 1..Len(t) : t[i] = e
      BY <1>3 DEF Range
    <2>2. Len(s) + i \in DOMAIN u /\ u[Len(s) + i] = e
      BY <1>2, <1>3, <2>1
    <2>. QED BY <2>2 DEF Range
  <1>. QED BY <1>1, <1>2, <1>4, <1>5, <1>6 DEF u, State

(* One event, after others that are not it.                                *)
LEMMA OnceMore ==
  ASSUME NEW s \in State, Once(s), NEW t \in State, Len(t) = 1, t[1] \notin Range(s)
  PROVE  Once(s \o t)
  <1> DEFINE u == s \o t
  <1>1. s \in Seq(Event) /\ t \in Seq(Event)
    BY DEF State
  <1>2. /\ u \in Seq(Event) /\ Len(u) = Len(s) + Len(t)
        /\ \A i \in 1..Len(s) : u[i] = s[i]
        /\ \A i \in 1..Len(t) : u[Len(s) + i] = t[i]
    BY ONLY <1>1, AppendPlaces
  <1> HIDE DEF u
  <1>3. /\ Len(s) \in Nat /\ DOMAIN s = 1..Len(s) /\ DOMAIN u = 1..(Len(s) + 1)
    BY <1>1, <1>2, LenProperties
  <1>4. u[Len(s) + 1] = t[1] /\ \A i \in 1..Len(s) : u[i] \in Range(s) /\ i \in DOMAIN s
    BY <1>2, <1>3 DEF Range
  <1>5. ASSUME NEW i \in DOMAIN u, NEW k \in DOMAIN u, u[i] = u[k]
        PROVE  i = k
    <2>1. (i \in 1..Len(s) \/ i = Len(s) + 1) /\ (k \in 1..Len(s) \/ k = Len(s) + 1)
      BY <1>3
    <2>2. CASE i \in 1..Len(s) /\ k \in 1..Len(s)
      BY <1>2, <1>4, <1>5, <2>2 DEF Once
    <2>. QED BY <1>4, <1>5, <2>1, <2>2
  <1>. QED BY <1>5 DEF Once, u

(* What two states have in common after which they agree.                  *)
LEMMA SameBefore ==
  ASSUME NEW s \in State, NEW r \in State, NEW t \in State, s \o t = r \o t,
         Len(s) = Len(r)
  PROVE  s = r
  <1> DEFINE u == s \o t
  <1>1. s \in Seq(Event) /\ r \in Seq(Event) /\ t \in Seq(Event) /\ u = r \o t
    BY DEF State
  <1>2. \A i \in 1..Len(s) : u[i] = s[i]
    BY <1>1, AppendPlaces
  <1>3. \A i \in 1..Len(r) : (r \o t)[i] = r[i]
    BY <1>1, AppendPlaces
  <1> HIDE DEF u
  <1>4. \A i \in 1..Len(s) : s[i] = r[i]
    BY <1>1, <1>2, <1>3
  <1>. QED BY ONLY <1>1, <1>4, SeqEqual, Len(s) = Len(r)

(* A call whose event lands read every event before it, and the account    *)
(* accepts its command after them.                                         *)
LEMMA Landing ==
  ASSUME EInv, request' = request, disturbed \subseteq disturbed', NEW c \in Calls, NEW id \in Ids, target[c] = id, Served(c),
         JoinsJournal(c), Made(id), Ordered(id), Grounded(c),
         journal'[id] \in Seq(Envelope), ~ Forked(id)'
  PROVE  /\ ver[c] = Len(journal[id])
         /\ Contiguous(journal'[id])
         /\ \A n : n = Len(journal[id]) + 1 => IsTaken(id, n)'
         /\ HasFirst(agg[c], journal'[id], ver[c] + 1)
  <1> DEFINE v == ver[c]
  <1>1. /\ id \in Ids /\ journal[id] \in Seq(Envelope) /\ v \in Nat /\ agg[c] \in State
        /\ EventsOnce(journal[id]) /\ CallInv(c)
    BY DEF EInv, MInv, CallTypeOK, StoreTypeOK
  <1>2. /\ pc[c] = "save_events" /\ batch[c] = NewEvents(c, 1) /\ Readable(c)
        /\ NoEventsOf(c)
    BY <1>1 DEF JoinsJournal, Served, Decided, Answered, CallInv, Unwritten
  <1>3. PICK s \in State : \E m \in Nat : Chosen(c, s, m)
    BY <1>2 DEF Grounded
  <1>4. PICK m \in Nat : Chosen(c, s, m)
    BY <1>3
  <1>5. Chosen(c, s, v) /\ HasFirst(s, journal[id], v)
    BY <1>2, <1>4 DEF Chosen, Ready
  <1>j. PICK j : j = journal[id]
    OBVIOUS
  <1>k. PICK k : k = journal'[id]
    OBVIOUS
  <1>6. /\ j \in Seq(Envelope) /\ k \in Seq(Envelope) /\ Contiguous(j)
        /\ Extends(k, j) /\ k[Len(k)] = [version |-> v + 1, event |-> <<c, 1>>]
        /\ HasFirst(s, j, v)
    BY <1>1, <1>5, <1>j, <1>k DEF JoinsJournal, Added, Ordered
  <1>7. /\ Len(j) \in Nat /\ DOMAIN j = 1..Len(j) /\ DOMAIN k = 1..(Len(j) + 1)
        /\ Len(k) = Len(j) + 1 /\ \A i \in 1..Len(j) : k[i] = j[i]
    BY <1>6, LenProperties DEF Extends
  <1>8. /\ k[Len(j) + 1].version = v + 1 /\ k[Len(j) + 1].event = <<c, 1>>
        /\ \A i \in 1..Len(j) : k[i].version = i
    <2>1. \A i \in 1..Len(j) : j[i].version = i
      BY <1>6, <1>7 DEF Contiguous
    <2>2. k[Len(j) + 1] = [version |-> v + 1, event |-> <<c, 1>>]
      BY <1>6, <1>7
    <2> HIDE DEF v
    <2>3. k[Len(j) + 1].version = v + 1 /\ k[Len(j) + 1].event = <<c, 1>>
      BY <2>2
    <2>. QED BY <1>7, <2>1, <2>3
  <1>9. v \in 0..Len(j)
    BY <1>6 DEF HasFirst
  <1>10. v = Len(j)
    <2> SUFFICES ASSUME v # Len(j) PROVE FALSE
      OBVIOUS
    <2>1. v + 1 \in 1..Len(j) /\ v + 1 \in DOMAIN k /\ Len(j) + 1 \in DOMAIN k
      BY <1>7, <1>9
    <2>2. k[v + 1].version = k[Len(j) + 1].version /\ v + 1 # Len(j) + 1
      BY <1>7, <1>8, <1>9, <2>1
    <2>. QED BY <1>k, <2>1, <2>2 DEF Forked
  <1>11. Contiguous(k)
    <2>1. ASSUME NEW i \in DOMAIN k PROVE k[i].version = i
      <3>1. i \in 1..Len(j) \/ i = Len(j) + 1
        BY <1>7
      <3>. QED BY <1>8, <1>10, <3>1
    <2>. QED BY <2>1 DEF Contiguous
  <1>12. /\ IsRequest(request[c]) /\ IsReadable(request[c])
         /\ kind[c] = KindOf(request[c].route) /\ Command(c).type = request[c].route
         /\ request[c].route \in {"Create", "Deposit", "Withdraw", "Close"}
    BY <1>2, CommandIs DEF Served, Readable, Command
  <1>13. /\ s \in [1..v -> {k[i].event : i \in 1..v}]
         /\ Range(s) = {k[i].event : i \in 1..v} /\ Len(s) = v
    <2>1. /\ s \in [1..v -> {j[i].event : i \in 1..v}] /\ Len(s) = v
          /\ Range(s) = {j[i].event : i \in 1..v}
      <3> DEFINE first == {j[i].event : i \in 1..v}
      <3>1. EventsOnce(j) /\ HasFirst(s, j, v) /\ j \in Seq(Envelope)
        BY <1>1, <1>6, <1>j
      <3> HIDE DEF v
      <3>. QED BY ONLY <3>1, ArrangedIs
    <2>2. {k[i].event : i \in 1..v} = {j[i].event : i \in 1..v}
      BY <1>7, <1>10
    <2>. QED BY <2>1, <2>2
  <1>14. ASSUME id \notin disturbed PROVE s = Replay(k, v)
    <2>1. agg[c] = Replay(j, v) \o batch[c]
      BY <1>2, <1>14, <1>j DEF EInv, ExactFor, Current
    <2>2. agg[c] = s \o batch[c]
      BY <1>2, <1>5 DEF Chosen
    <2>3. Replay(j, v) \in State /\ Len(Replay(j, v)) = v
      BY <1>6, <1>9, ReplayType
    <2>4. batch[c] \in State /\ s \in State
      BY <1>6 DEF EInv, MInv, CallTypeOK
    <2>5. s = Replay(j, v)
      BY <1>13, <2>1, <2>2, <2>3, <2>4, SameBefore
    <2>6. Replay(k, v) = Replay(j, v)
      BY <1>1, <1>7, <1>10, ReplayOfGrown
    <2>. QED BY <2>5, <2>6
  <1>15. ASSUME NEW n, n = Len(j) + 1 PROVE IsTaken(id, n)'
    <2>1. k[n].event[1] = c /\ n - 1 = v
      BY <1>7, <1>8, <1>10, <1>15
    <2>2. s \in Orders(id, n - 1)'
      BY <1>13, <1>14, <1>k, <2>1 DEF Orders
    <2>3. CASE Command(c).type = "Create"
      <3>1. kind[c] = "create"
        BY <1>12, <2>3 DEF KindOf
      <3>2. v = 0
        BY <1>5, <3>1 DEF Chosen, Ready
      <3>3. n = 1
        BY <1>10, <1>15, <3>2
      <3>. QED BY <1>k, <2>1, <2>3, <3>3 DEF IsTaken, Command
    <2>4. CASE Command(c).type # "Create"
      <3>1. kind[c] = "update"
        BY <1>12, <2>4 DEF KindOf
      <3>2. HandleUpdate(Account(Payloads(s)), Command(c)).ok
        BY <1>5, <3>1 DEF Chosen, Accepts
      <3>3. Payloads(s)' = Payloads(s)
        BY SameRequests
      <3>4. HandleUpdate(Account(Payloads(s)'), Command(c)).ok
        BY <3>2, <3>3
      <3>. QED BY <1>k, <2>1, <2>2, <2>4, <3>4 DEF IsTaken, Command
    <2>. QED BY <2>3, <2>4
  <1>16. HasFirst(agg[c], k, v + 1)
    <2>t. PICK t : t = NewEvents(c, 1)
      OBVIOUS
    <2>1. t \in State /\ Len(t) = 1 /\ t[1] = <<c, 1>> /\ DOMAIN t = 1..1
      <3>1. 1 \in 0..MaxEvents
        BY OneEventAssumption, MaxEventsAssumption
      <3>2. t \in State /\ Len(t) = 1
        BY <2>t, <3>1, NewEventsType
      <3>3. t[1] = <<c, 1>>
        BY <2>t DEF NewEvents
      <3>. QED BY <3>2, <3>3, LenProperties DEF State
    <2>2. s \in State /\ Once(s) /\ Range(s) = {j[i].event : i \in 1..v}
      BY <1>6 DEF HasFirst
    <2>3. <<c, 1>> \notin Range(s)
      <3>1. \A i \in 1..Len(j) : j[i].event[1] # c
        BY <1>1, <1>2, <1>7, <1>j DEF NoEventsOf
      <3>. QED BY <1>10, <2>2, <3>1
    <2>4. s \o t \in State /\ Range(s \o t) = Range(s) \cup Range(t) /\ Once(s \o t)
      BY <2>1, <2>2, <2>3, JoinedStates, OnceMore
    <2>5. Range(t) = {<<c, 1>>}
      <3>1. \A i \in DOMAIN t : i = 1
        BY <2>1
      <3>2. 1 \in DOMAIN t
        BY <2>1
      <3>. QED BY <2>1, <3>1, <3>2 DEF Range
    <2>6. {k[i].event : i \in 1..(v + 1)} = {j[i].event : i \in 1..v} \cup {<<c, 1>>}
      <3>1. \A i \in 1..(v + 1) : i \in 1..v \/ i = v + 1
        BY <1>1
      <3>2. \A i \in 1..v : i \in 1..(v + 1) /\ k[i].event = j[i].event
        BY <1>1, <1>7, <1>10
      <3>3. v + 1 \in 1..(v + 1) /\ k[v + 1].event = <<c, 1>>
        BY <1>1, <1>8, <1>10
      <3>. QED BY <3>1, <3>2, <3>3
    <2>7. v + 1 \in 0..Len(k)
      BY <1>7, <1>10
    <2>8. agg[c] = s \o t
      BY <1>5, <2>t DEF Chosen
    <2>. QED BY <2>2, <2>4, <2>5, <2>6, <2>7, <2>8 DEF HasFirst
  <1> HIDE DEF v
  <1>17. Contiguous(journal'[id]) /\ HasFirst(agg[c], journal'[id], v + 1) /\ v = Len(journal[id])
    BY <1>10, <1>11, <1>16, <1>j, <1>k
  <1>18. \A n : n = Len(journal[id]) + 1 => IsTaken(id, n)'
    BY <1>15, <1>j
  <1>. QED BY <1>17, <1>18 DEF v

-----------------------------------------------------------------------------
(* An account no version of which was written twice, after a step.         *)
LEMMA OrderedIs ==
  ASSUME NEW id, Contiguous(journal'[id]),
         \A n \in DOMAIN journal'[id] : IsTaken(id, n)',
         snapshots'[id] # NoSnapshot =>
           HasFirst(snapshots'[id].state, journal'[id], snapshots'[id].version)
  PROVE  Ordered(id)'
  <1>1. (snapshots[id] # NoSnapshot =>
           HasFirst(snapshots[id].state, journal[id], snapshots[id].version))'
    BY DEF HasFirst
  <1>2. Contiguous(journal[id])'
    BY DEF Contiguous
  <1>. QED BY <1>1, <1>2 DEF Ordered

(* An account no version of which is written twice keeps its order.        *)
LEMMA OrderedKept ==
  ASSUME EInv, EInv', NEW c \in Calls, Works(c), request' = request, Served(c),
         NEW id \in Ids, Made(id), Straight(id), ~ Forked(id)'
  PROVE  ~ Forked(id) /\ Ordered(id)'
  <1>1. /\ journal[id] \in Seq(Envelope) /\ journal'[id] \in Seq(Envelope)
        /\ snapshots \in [Ids -> Snapshot \cup {NoSnapshot}]
    BY DEF EInv, MInv, StoreTypeOK
  <1>2. /\ id # target[c] => journal'[id] = journal[id]
        /\ \/ journal' = journal \/ JoinsJournal(c)
        /\ Onward(journal[id], journal'[id])
    BY JournalStep
  <1>3. ~ Forked(id)
    BY <1>1, <1>2, UnforkedBefore
  <1>d. disturbed \subseteq disturbed'
    BY OnlyOne
  <1>4. /\ Contiguous(journal[id]) /\ Ordered(id)
        /\ \A n \in DOMAIN journal[id] : IsTaken(id, n)
        /\ snapshots[id] # NoSnapshot =>
             HasFirst(snapshots[id].state, journal[id], snapshots[id].version)
        /\ target[c] = id => Grounded(c)
    BY <1>3 DEF Straight, Ordered
  <1>5. Contiguous(journal'[id]) /\ \A n \in DOMAIN journal'[id] : IsTaken(id, n)'
    <2>0. /\ DOMAIN journal[id] = 1..Len(journal[id]) /\ Len(journal[id]) \in Nat
          /\ DOMAIN journal'[id] = 1..Len(journal'[id])
      BY <1>1, LenProperties
    <2>1. ASSUME NEW n \in DOMAIN journal[id] PROVE IsTaken(id, n)'
      BY <1>1, <1>2, <1>4, <1>d, <2>0, TakenStays
    <2>2. CASE journal'[id] = journal[id]
      BY <1>4, <2>1, <2>2
    <2>3. CASE id = target[c] /\ JoinsJournal(c)
      <3>1. /\ Contiguous(journal'[id])
            /\ \A n : n = Len(journal[id]) + 1 => IsTaken(id, n)'
        BY <1>1, <1>4, <1>d, <2>3, Landing
      <3>2. Len(journal'[id]) = Len(journal[id]) + 1
        BY <2>3 DEF JoinsJournal, Added, Extends
      <3>3. \A n \in DOMAIN journal'[id] :
              n \in DOMAIN journal[id] \/ n = Len(journal[id]) + 1
        BY <2>0, <3>2
      <3>. QED BY <2>1, <3>1, <3>3
    <2>. QED BY <1>2, <2>2, <2>3
  <1>6. ASSUME snapshots'[id] # NoSnapshot
        PROVE  HasFirst(snapshots'[id].state, journal'[id], snapshots'[id].version)
    <2>1. CASE snapshots'[id] = snapshots[id]
      BY <1>1, <1>2, <1>4, <1>6, <2>1, FirstStays
    <2>2. CASE Replaces(c) /\ id = target[c]
      <3>1. /\ pc[c] = "save_snapshot" /\ snapshots'[id] = NewSnapshot(c)
            /\ journal'[id] = journal[id]
        BY <1>1, <2>2 DEF Replaces
      <3>2. HasFirst(agg[c], journal[id], ver[c] + 1)
        BY <1>4, <2>2, <3>1 DEF Grounded
      <3>3. Len(batch[c]) = 1
        <4>1. batch[c] = NewEvents(c, 1) /\ 1 \in 0..MaxEvents
          BY <3>1, OneEventAssumption, MaxEventsAssumption DEF Served, Decided
        <4>. QED BY <4>1, NewEventsType
      <3>4. snapshots'[id].state = agg[c] /\ snapshots'[id].version = ver[c] + 1
        BY <3>1, <3>3 DEF NewSnapshot
      <3>. QED BY <3>1, <3>2, <3>4
    <2>3. snapshots'[id] = snapshots[id] \/ (Replaces(c) /\ id = target[c])
      BY <1>1, StoreSteps DEF store, Inserts, Replaces
    <2>. QED BY <2>1, <2>2, <2>3
  <1>. QED BY <1>3, <1>5, <1>6, OrderedIs

(* The entries are still of requests.                                      *)
LEMMA MadeKept ==
  ASSUME EInv, EInv', NEW c \in Calls, Works(c), request' = request, Served(c),
         NEW id \in Ids, Made(id)
  PROVE  Made(id)'
  <1>1. /\ journal[id] \in Seq(Envelope) /\ journal'[id] \in Seq(Envelope)
        /\ target' = target
    BY OnlyOne DEF EInv, MInv, StoreTypeOK
  <1>2. /\ id # target[c] => journal'[id] = journal[id]
        /\ journal'[id] = journal[id] \/ JoinsJournal(c)
    BY JournalStep
  <1>3. ASSUME NEW i \in DOMAIN journal[id], journal'[id][i] = journal[id][i]
        PROVE  MadeBy(journal'[id][i].event[1], id, journal'[id][i].event)
    BY <1>3 DEF Made
  <1>4. ASSUME NEW i \in DOMAIN journal'[id]
        PROVE  MadeBy(journal'[id][i].event[1], id, journal'[id][i].event)
    <2>1. CASE journal'[id] = journal[id]
      BY <1>3, <2>1
    <2>2. CASE id = target[c] /\ JoinsJournal(c)
      <3>1. /\ DOMAIN journal[id] = 1..Len(journal[id]) /\ Len(journal[id]) \in Nat
            /\ DOMAIN journal'[id] = 1..Len(journal'[id])
            /\ Len(journal'[id]) = Len(journal[id]) + 1
            /\ \A p \in 1..Len(journal[id]) : journal'[id][p] = journal[id][p]
            /\ journal'[id][Len(journal'[id])] =
                 [version |-> ver[c] + 1, event |-> <<c, 1>>]
        BY <1>1, <2>2, LenProperties DEF JoinsJournal, Added, Extends
      <3>2. CASE i \in 1..Len(journal[id])
        BY <1>3, <3>1, <3>2
      <3>3. CASE i = Len(journal'[id])
        <4>1. journal'[id][i].event = <<c, 1>>
          BY <3>1, <3>3
        <4>2. journal'[id][i].event[1] = c
          BY <4>1
        <4>3. Readable(c) /\ IsRequest(request[c])
          BY <2>2 DEF JoinsJournal, Served, Answered
        <4>. QED BY <2>2, <4>1, <4>2, <4>3 DEF MadeBy
      <3>. QED BY <1>4, <3>1, <3>2, <3>3
    <2>. QED BY <1>2, <2>1, <2>2
  <1>5. \A d, event : MadeBy(d, id, event) => MadeBy(d, id, event)'
    BY <1>1 DEF MadeBy, Readable
  <1>. QED BY <1>4, <1>5 DEF Made, MadeBy, Readable

-----------------------------------------------------------------------------
(* What is said of the other calls.                                        *)

(* Another request, as a step of call c leaves it.                         *)
LeftAlone(d) ==
  /\ SameCall(d) /\ target' = target /\ kind' = kind /\ request' = request
  /\ since'[d] = since[d] /\ disturbed \subseteq disturbed'
  /\ journal[target[d]] \in Seq(Envelope) /\ journal'[target[d]] \in Seq(Envelope)
  /\ Onward(journal[target[d]], journal'[target[d]])

(* A call left alone still does what was asked of it.                      *)
LEMMA ServedElsewhere ==
  ASSUME NEW d \in Calls, LeftAlone(d), Served(d)
  PROVE  Served(d)'
  <1>1. Len(journal[target[d]]) <= Len(journal'[target[d]])
        /\ Len(journal[target[d]]) \in Nat /\ Len(journal'[target[d]]) \in Nat
    BY FirstStays DEF LeftAlone
  <1>2. since'[d] \in 0..Len(journal'[target'[d]])
    BY <1>1 DEF LeftAlone, Served
  <1>3. IsRequest(request'[d]) /\ kind'[d] = KindOf(request'[d].route)
    BY DEF LeftAlone, Served
  <1>4. /\ pc'[d] = pc[d] /\ reply'[d] = reply[d] /\ batch'[d] = batch[d]
        /\ Readable(d)' = Readable(d)
    BY DEF LeftAlone, SameCall, Readable
  <1>. QED BY <1>2, <1>3, <1>4 DEF Served, Decided, Answered

(* A request whose aggregate and version stay, on a journal that grows.    *)
Steady(d) ==
  /\ agg'[d] = agg[d] /\ ver'[d] = ver[d]
  /\ target' = target /\ kind' = kind /\ request' = request
  /\ since'[d] = since[d] /\ disturbed \subseteq disturbed'
  /\ journal[target[d]] \in Seq(Envelope) /\ journal'[target[d]] \in Seq(Envelope)
  /\ Onward(journal[target[d]], journal'[target[d]])

(* It reaches no place at which more would be asked of it.                 *)
GoesOn(d) ==
  /\ pc'[d] \in {"fetch_tail", "handle", "save_events", "save_snapshot"} => pc'[d] = pc[d]
  /\ pc'[d] \in {"start_session", "fetch_latest"} =>
       pc[d] \in {"start_session", "fetch_latest"}
  /\ Answered(d, "user_error")' => Answered(d, "user_error")
  /\ pc'[d] \in {"abort", "done"} /\ reply'[d] = "concurrency_error" =>
       pc[d] \in {"abort", "done"} /\ reply[d] = "concurrency_error"

(* Its journal having only gone on, it still decides on what was there.    *)
LEMMA GroundedAlong ==
  ASSUME NEW d \in Calls, Steady(d), GoesOn(d), Served(d), Grounded(d), Conflicts(d)
  PROVE  Grounded(d)' /\ Conflicts(d)'
  <1> DEFINE j == journal[target[d]]
             k == journal'[target[d]]
  <1>1. /\ agg'[d] = agg[d] /\ ver'[d] = ver[d]
        /\ target'[d] = target[d] /\ kind'[d] = kind[d] /\ since'[d] = since[d]
        /\ journal'[target'[d]] = k
    BY DEF Steady
  <1>2. /\ Len(j) \in Nat /\ Len(k) \in Nat /\ Len(j) <= Len(k)
        /\ \A s, n : HasFirst(s, j, n) => HasFirst(s, k, n)
    BY FirstStays DEF Steady
  <1>3. /\ Command(d)' = Command(d) /\ (Readable(d)' <=> Readable(d))
        /\ \A s : Payloads(s)' = Payloads(s)
    <2>1. request' = request
      BY DEF Steady
    <2>. QED BY <2>1, SameRequests
  <1>4. \A s, n : Ready(d, s, n) => Ready(d, s, n)'
    BY <1>1, <1>2 DEF Ready
  <1>5. \A s : Accepts(d, s) => Accepts(d, s)'
    BY <1>1, <1>3 DEF Accepts
  <1>6. ASSUME NEW s, NEW n, Denies(d, s, n)
        PROVE  Denies(d, s, n)'
    <2>1. n \in 0..Len(j)
      BY <1>6 DEF Denies, HasFirst
    <2>2. Replay(k, n) = Replay(j, n)
      BY <1>2, <2>1, FirstStays, ReplayOfGrown DEF Steady
    <2>3. disturbed \subseteq disturbed'
      BY DEF Steady
    <2>. QED BY <1>1, <1>2, <1>3, <1>6, <2>2, <2>3 DEF Denies
  <1>7. \A s, n : Chosen(d, s, n) /\ (pc'[d] = "save_events" => pc[d] = "save_events") =>
          Chosen(d, s, n)'
    BY <1>1, <1>4, <1>5 DEF Chosen
  <1>8. pc'[d] = "handle" => \E n \in Nat : Ready(d, agg[d], n)'
    BY <1>1, <1>4 DEF Grounded, GoesOn
  <1>9. Answered(d, "user_error")' /\ Readable(d)' => \E n \in Nat : Denies(d, agg[d], n)'
    BY <1>1, <1>3, <1>6 DEF Grounded, GoesOn
  <1>10. pc'[d] \in {"start_session", "fetch_latest", "save_events"} =>
           \E s \in State : \E n \in Nat : Chosen(d, s, n)'
    BY <1>1, <1>7 DEF Grounded, GoesOn
  <1>11. /\ pc'[d] = "fetch_tail" => kind'[d] = "update" /\ HasFirst(agg'[d], k, ver'[d])
         /\ pc'[d] = "save_snapshot" => HasFirst(agg'[d], k, ver'[d] + 1)
    BY <1>1, <1>2 DEF Grounded, GoesOn
  <1>12. Grounded(d)'
    BY <1>1, <1>8, <1>9, <1>10, <1>11 DEF Grounded
  <1>13. Conflicts(d)'
    <2>1. disturbed \subseteq disturbed'
      BY DEF Steady
    <2>2. since[d] < Len(j) => since[d] < Len(k)
      BY <1>2 DEF Served
    <2> HIDE DEF j, k
    <2>3. journal'[target'[d]] = k /\ journal[target[d]] = j
      BY <1>1 DEF j
    <2>4. pc'[d] \in {"fetch_tail", "handle", "start_session", "fetch_latest"} =>
            target'[d] \in disturbed' \/ since'[d] <= ver'[d]
      BY <1>1, <2>1 DEF Conflicts, GoesOn
    <2>5. pc'[d] \in {"abort", "done"} /\ reply'[d] = "concurrency_error" =>
            since'[d] < Len(k) \/ target'[d] \in disturbed'
      BY <1>1, <2>1, <2>2, <2>3 DEF Conflicts, GoesOn
    <2>. QED BY <2>3, <2>4, <2>5 DEF Conflicts
  <1>. QED BY <1>12, <1>13

(* So it does when another call moves.                                     *)
LEMMA GroundedElsewhere ==
  ASSUME NEW d \in Calls, LeftAlone(d), Served(d), Grounded(d), Conflicts(d)
  PROVE  Grounded(d)' /\ Conflicts(d)'
  <1>1. Steady(d) /\ GoesOn(d)
    BY DEF LeftAlone, Steady, GoesOn, SameCall, Answered
  <1>. QED BY <1>1, GroundedAlong

-----------------------------------------------------------------------------
(* What is said of the call that moves.                                    *)

(* The handler decides on the account the call has loaded.                 *)
LEMMA HandlerStep ==
  ASSUME EInv, NEW c \in Calls, RunHandler(c), HandlerDecides(c), Served(c)
  PROVE  /\ pc[c] = "handle" /\ ver' = ver /\ journal' = journal
         /\ \/ /\ pc'[c] = "start_session" /\ reply'[c] = "none"
               /\ batch'[c] = NewEvents(c, 1) /\ agg'[c] = agg[c] \o NewEvents(c, 1)
               /\ Accepts(c, agg[c])
            \/ /\ pc'[c] = "done" /\ reply'[c] = "user_error" /\ agg'[c] = agg[c]
               /\ kind[c] = "update"
               /\ ~ HandleUpdate(Account(Payloads(agg[c])), Command(c)).ok
  <1>t. /\ pc \in [Calls -> Label] /\ agg \in [Calls -> State]
        /\ kind[c] \in {"create", "update"}
        /\ batch \in [Calls -> State] /\ reply \in [Calls -> Reply]
    BY DEF EInv, MInv, CallTypeOK
  <1>1. pc[c] = "handle" /\ ver' = ver /\ journal' = journal /\ reply[c] = "none"
    BY DEF RunHandler, Handle, Refuse, store, Served
  <1>2. batch[c] = <<>>
    BY <1>1 DEF EInv, MInv, CallInv
  <1>3. Outcome(c).ok <=> Accepts(c, agg[c])
    BY <1>t DEF Outcome, HandleCreate, Returns, Accepts
  <1>4. CASE Handle(c)
    <2>1. PICK n \in 0..MaxEvents :
            /\ batch' = [batch EXCEPT ![c] = NewEvents(c, n)]
            /\ agg' = [agg EXCEPT ![c] = @ \o NewEvents(c, n)]
      BY <1>4 DEF Handle
    <2>2. /\ pc'[c] = "start_session" /\ reply'[c] = "none"
          /\ batch'[c] = NewEvents(c, n) /\ agg'[c] = agg[c] \o NewEvents(c, n)
      BY <1>t, <1>1, <1>4, <2>1 DEF Handle, Goto
    <2>3. Outcome(c).ok /\ Len(batch'[c]) = 1
      BY <1>1, <2>2 DEF HandlerDecides
    <2>4. n = 1
      BY <2>2, <2>3, NewEventsType
    <2>. QED BY <1>1, <1>3, <2>2, <2>3, <2>4
  <1>5. CASE Refuse(c)
    <2>1. /\ pc'[c] = "done" /\ reply'[c] = "user_error" /\ agg'[c] = agg[c]
          /\ batch'[c] = <<>>
      BY <1>t, <1>2, <1>5 DEF Refuse, Answer
    <2>2. ~ Outcome(c).ok
      BY <1>1, <2>1, EmptyState DEF HandlerDecides
    <2>3. ~ Accepts(c, agg[c])
      BY <1>3, <2>2
    <2>. QED BY <1>1, <2>1, <2>3 DEF Accepts
  <1>. QED BY <1>4, <1>5 DEF RunHandler

(* How far the engine is with the request.                                 *)
LEMMA ServedOn ==
  ASSUME EInv, EInv', NEW c \in Calls, Works(c), Readable(c), HandlerDecides(c), Arrives(c),
         request' = request, DOMAIN since = Calls, Served(c)
  PROVE  Served(c)'
  <1> USE DEF Goto, Answer
  <1>t. /\ pc \in [Calls -> Label] /\ reply \in [Calls -> Reply]
        /\ batch \in [Calls -> State] /\ target \in [Calls -> Ids]
    BY DEF EInv, MInv, CallTypeOK
  <1>0. /\ target' = target /\ kind' = kind
        /\ journal[target[c]] \in Seq(Envelope) /\ journal'[target[c]] \in Seq(Envelope)
        /\ Onward(journal[target[c]], journal'[target[c]])
    BY <1>t, OnlyOne, JournalStep DEF EInv, MInv, StoreTypeOK
  <1>s. since'[c] \in 0..Len(journal'[target'[c]])
    <2>1. Len(journal[target[c]]) <= Len(journal'[target[c]])
          /\ Len(journal[target[c]]) \in Nat /\ Len(journal'[target[c]]) \in Nat
      BY <1>0, FirstStays
    <2>. QED BY <1>0, <2>1 DEF Served, Arrives
  <1>r. IsRequest(request'[c]) /\ kind'[c] = KindOf(request'[c].route) /\ Readable(c)'
    BY <1>0 DEF Served, Readable
  <1>i. /\ pc[c] \in {"fetch_snapshot", "fetch_tail", "handle"} => reply[c] = "none"
        /\ pc[c] = "abort" => reply[c] \in {"concurrency_error", "database_error"}
        /\ Decided(c) => batch[c] = NewEvents(c, 1)
    BY DEF Served, EInv, MInv, CallInv
  <1> DEFINE Goes ==
        /\ pc'[c] \in {"fetch_snapshot", "fetch_tail", "handle"} => reply'[c] = "none"
        /\ pc'[c] = "done" => reply'[c] # "none"
        /\ Decided(c)' => batch'[c] = NewEvents(c, 1)
  <1> USE DEF Decided, Answered
  <1>1. ASSUME FetchSnapshot(c) PROVE Goes
    BY <1>t, <1>i, <1>1 DEF FetchSnapshot, InitializeAggregate, LoadSnapshot
  <1>2. ASSUME FetchEventsFromVersion(c) PROVE Goes
    BY <1>t, <1>i, <1>2 DEF FetchEventsFromVersion, LoadTail
  <1>3. ASSUME RunHandler(c) PROVE Goes
    BY <1>3, HandlerStep
  <1>4. ASSUME StartSession(c) PROVE Goes
    BY <1>t, <1>i, <1>4 DEF StartSession
  <1>5. ASSUME FetchLatestEvent(c) PROVE Goes
    BY <1>t, <1>i, <1>5 DEF FetchLatestEvent, CheckVersion
  <1>6. ASSUME SaveEvents(c) PROVE Goes
    BY <1>t, <1>i, <1>6 DEF SaveEvents
  <1>7. ASSUME SaveSnapshot(c) PROVE Goes
    BY <1>t, <1>i, <1>7 DEF SaveSnapshot
  <1>8. ASSUME CloseSession(c) PROVE Goes
    BY <1>t, <1>i, <1>8 DEF CloseSession, Committed
  <1>9. ASSUME AbortSession(c) PROVE Goes
    BY <1>t, <1>i, <1>9 DEF AbortSession, Aborted
  <1>10. ASSUME Dispatch(c) PROVE Goes
    BY <1>t, <1>i, <1>10 DEF Dispatch, Dispatched
  <1>11. ASSUME QueryFails(c) PROVE Goes
    BY <1>t, <1>i, <1>11 DEF QueryFails
  <1>12. ASSUME Cancel(c) PROVE Goes
    BY <1>t, <1>i, <1>12 DEF Cancel, Drop
  <1>13. ASSUME CancelWrite(c) PROVE Goes
    BY <1>t, <1>i, <1>13 DEF CancelWrite, Writing
  <1>14. ASSUME LateWrite(c) PROVE Goes
    BY <1>t, <1>i, <1>14 DEF LateWrite, InFlight
  <1>15. Goes
    BY <1>1, <1>2, <1>3, <1>4, <1>5, <1>6, <1>7, <1>8, <1>9, <1>10, <1>11,
       <1>12, <1>13, <1>14 DEF Works, Step
  <1> HIDE DEF Decided, Answered, Goto, Answer
  <1>. QED BY <1>s, <1>r, <1>15 DEF Served

(* A tail that came in any order is the whole tail.                        *)
LEMMA WholeTail ==
  ASSUME NEW j \in Seq(Envelope), Contiguous(j), NEW v \in 0..Len(j),
         NEW tail \in AnyOrder(EventsFromVersion(j, v))
  PROVE  /\ Range(EventsOf(tail)) = {j[i].event : i \in (v + 1)..Len(j)}
         /\ tail # <<>> => tail[Len(tail)].version \in (v + 1)..Len(j)
         /\ tail = <<>> => v = Len(j)
  <1> DEFINE m == Len(j) - v
  <1>1. /\ v \in Nat /\ Len(j) \in Nat /\ m \in Nat /\ DOMAIN j = 1..Len(j)
        /\ \A i \in 1..Len(j) : j[i].version = i
    BY LenProperties DEF Contiguous
  <1>0. m = 0 => v = Len(j)
    <2>1. \A a, b \in Nat : a - b = 0 => b = a
      OBVIOUS
    <2>. QED BY ONLY <1>1, <2>1
  <1>l. PICK later : later = EventsFromVersion(j, v)
    OBVIOUS
  <1>2. later = [k \in 1..m |-> j[v + k]] /\ DOMAIN later = 1..m
    BY <1>l, EventsFromVersionContiguous
  <1>3. PICK p \in Arrangements(DOMAIN later) :
          tail = [i \in DOMAIN later |-> later[p[i]]]
    BY <1>l DEF AnyOrder
  <1> HIDE DEF m
  <1>4. /\ p \in [DOMAIN later -> DOMAIN later]
        /\ Range(p) = DOMAIN later
    BY Zenon DEF Arrangements
  <1>5. p \in [1..m -> 1..m] /\ \A w \in 1..m : \E u \in 1..m : p[u] = w
    BY <1>2, <1>4 DEF Range
  <1>6. /\ tail \in Seq(Envelope) /\ DOMAIN tail = 1..m
        /\ \A i \in 1..m : tail[i] = j[v + p[i]]
    BY <1>2, <1>3, <1>5, <1>1, TailIs
  <1>7. Len(tail) = m
    BY <1>1, <1>6, LenProperties
  <1>8. /\ EventsOf(tail) \in State /\ Len(EventsOf(tail)) = m
        /\ \A i \in 1..m : EventsOf(tail)[i] = tail[i].event
    BY <1>6, <1>7, EventsOfType
  <1>9. DOMAIN EventsOf(tail) = 1..m
    BY <1>8, LenProperties DEF State
  <1>10. ASSUME NEW i \in 1..m PROVE v + p[i] \in (v + 1)..Len(j) /\ p[i] \in 1..m
    <2>1. p[i] \in 1..m
      BY <1>5
    <2>. QED BY <1>1, <2>1 DEF m
  <1>11. ASSUME NEW e \in Range(EventsOf(tail))
         PROVE  e \in {j[i].event : i \in (v + 1)..Len(j)}
    <2>1. PICK i \in 1..m : EventsOf(tail)[i] = e
      BY <1>9 DEF Range
    <2>. QED BY <1>6, <1>8, <1>10, <2>1
  <1>12. ASSUME NEW i \in (v + 1)..Len(j)
         PROVE  j[i].event \in Range(EventsOf(tail))
    <2>1. i - v \in 1..m /\ v + (i - v) = i
      BY <1>1 DEF m
    <2>2. PICK u \in 1..m : p[u] = i - v
      BY <1>5, <2>1
    <2>3. EventsOf(tail)[u] = j[i].event
      BY <1>6, <1>8, <2>1, <2>2
    <2>. QED BY <1>9, <2>3 DEF Range
  <1>13. ASSUME tail # <<>> PROVE tail[Len(tail)].version \in (v + 1)..Len(j)
    <2>1. m \in 1..m
      BY <1>1, <1>6, <1>7, <1>13, EmptySeq
    <2>2. v + p[m] \in (v + 1)..Len(j) /\ v + p[m] \in 1..Len(j)
      BY <1>1, <1>10, <2>1
    <2>. QED BY <1>1, <1>6, <1>7, <2>1, <2>2
  <1>14. ASSUME tail = <<>> PROVE v = Len(j)
    <2>1. m = 0
      BY <1>7, <1>14, EmptyState
    <2>. QED BY <1>0, <2>1
  <1>. QED BY <1>11, <1>12, <1>13, <1>14

-----------------------------------------------------------------------------
(* What the moving call decides on.                                        *)

(* A load begins: what it reads is of now.                                 *)
LEMMA SnapshotGrounds ==
  ASSUME EInv, NEW c \in Calls, FetchSnapshot(c), Arrives(c), DOMAIN since = Calls,
         request' = request, NEW id \in Ids, target[c] = id, Ordered(id), Served(c)
  PROVE  Grounded(c)' /\ Conflicts(c)'
  <1> USE DEF Goto, Answer
  <1>t. /\ pc \in [Calls -> Label] /\ agg \in [Calls -> State] /\ ver \in [Calls -> Nat]
        /\ reply \in [Calls -> Reply] /\ journal[id] \in Seq(Envelope)
    BY DEF EInv, MInv, CallTypeOK, StoreTypeOK
  <1>j. PICK j : j = journal[id]
    OBVIOUS
  <1>1. /\ pc[c] = "fetch_snapshot" /\ reply[c] = "none" /\ kind' = kind /\ target' = target
        /\ journal' = journal /\ ReadNotes(c)
    BY DEF FetchSnapshot, InitializeAggregate, LoadSnapshot, store, Served
  <1>2. /\ since'[c] = Len(j) /\ journal'[target'[c]] = j /\ target'[c] = id
        /\ Len(j) \in Nat /\ j \in Seq(Envelope)
    BY <1>t, <1>1, <1>j, LenProperties DEF Arrives
  <1>3. id \notin disturbed' => Exact(j, snapshots[id])
    BY <1>1, <1>j, ReadUndisturbed DEF Writing
  <1>4. EventsOf(j) \in State
    BY <1>2, EventsOfType
  <1>5. CASE InitializeAggregate(c, snapshots[id]) /\ snapshots[id] = NoSnapshot
    <2>1. /\ agg'[c] = <<>> /\ ver'[c] = 0 /\ pc'[c] = "handle" /\ reply'[c] = "none"
          /\ kind'[c] = "create"
      BY <1>t, <1>1, <1>5 DEF InitializeAggregate
    <2>2. HasFirst(<<>>, j, 0)
      <3>1. /\ <<>> \in State /\ Once(<<>>) /\ Range(<<>>) = {}
            /\ {j[i].event : i \in 1..0} = {} /\ 0 \in 0..Len(j)
        BY <1>2, EmptyState DEF Once, Range
      <3>. QED BY <3>1 DEF HasFirst
    <2>3. Ready(c, agg[c], 0)'
      BY <1>2, <2>1, <2>2 DEF Ready
    <2>4. id \notin disturbed' => j = <<>>
      <3>1. NoSnapshot # [state |-> EventsOf(j), version |-> Len(j)]
        BY <1>2, <1>4, NoSnapshotAssumption DEF Snapshot
      <3>. QED BY <1>3, <1>5, <3>1 DEF Exact
    <2>5. id \notin disturbed' => since'[c] <= ver'[c]
      BY <1>2, <2>1, <2>4, EmptyState
    <2>. QED BY <1>2, <2>1, <2>3, <2>5 DEF Grounded, Conflicts, Answered
  <1>6. CASE LoadSnapshot(c, snapshots[id]) /\ snapshots[id] # NoSnapshot
    <2>1. /\ agg'[c] = snapshots[id].state /\ ver'[c] = snapshots[id].version
          /\ pc'[c] = "fetch_tail" /\ reply'[c] = "none" /\ kind'[c] = "update"
      BY <1>t, <1>1, <1>6 DEF LoadSnapshot
    <2>2. HasFirst(agg'[c], j, ver'[c])
      BY <1>6, <1>j, <2>1 DEF Ordered
    <2>3. id \notin disturbed' => since'[c] <= ver'[c]
      BY <1>2, <1>3, <1>6, <2>1 DEF Exact
    <2>. QED BY <1>2, <2>1, <2>2, <2>3 DEF Grounded, Conflicts, Answered
  <1>7. CASE pc'[c] = "done" /\ reply'[c] \in {"already_exists", "not_found"}
    BY <1>7 DEF Grounded, Conflicts, Answered
  <1>8. \/ (pc'[c] = "done" /\ reply'[c] \in {"already_exists", "not_found"})
        \/ (InitializeAggregate(c, snapshots[id]) /\ snapshots[id] = NoSnapshot)
        \/ (LoadSnapshot(c, snapshots[id]) /\ snapshots[id] # NoSnapshot)
    BY <1>t DEF FetchSnapshot, InitializeAggregate, LoadSnapshot
  <1>. QED BY <1>5, <1>6, <1>7, <1>8

(* The tail brings the rest of the journal, in some order.                 *)
LEMMA TailGrounds ==
  ASSUME EInv, EInv', NEW c \in Calls, FetchEventsFromVersion(c), Arrives(c),
         NEW id \in Ids, target[c] = id, Ordered(id), Served(c), Grounded(c), Conflicts(c)
  PROVE  Grounded(c)' /\ Conflicts(c)'
  <1>t. /\ pc \in [Calls -> Label] /\ agg \in [Calls -> State] /\ ver \in [Calls -> Nat]
        /\ reply \in [Calls -> Reply] /\ journal[id] \in Seq(Envelope)
    BY DEF EInv, MInv, CallTypeOK, StoreTypeOK
  <1>j. PICK j : j = journal[id]
    OBVIOUS
  <1>v. PICK v : v = ver[c]
    OBVIOUS
  <1>1. PICK tail \in AnyOrder(EventsFromVersion(j, v)) : LoadTail(c, tail)
    BY <1>j, <1>v DEF FetchEventsFromVersion
  <1>2. /\ pc[c] = "fetch_tail" /\ kind' = kind /\ target' = target /\ batch' = batch
        /\ reply'[c] = reply[c] /\ journal' = journal /\ pc'[c] = "handle"
        /\ agg'[c] = agg[c] \o EventsOf(tail)
        /\ ver'[c] = IF tail = <<>> THEN v ELSE tail[Len(tail)].version
        /\ ReadNotes(c) \/ Disturb(c)
    BY <1>t, <1>1, <1>v DEF FetchEventsFromVersion, LoadTail, store, Goto
  <1>3. /\ since'[c] = since[c] /\ journal'[target'[c]] = j /\ target'[c] = id
        /\ reply'[c] = "none"
        /\ since[c] \in 0..Len(j) /\ Len(j) \in Nat /\ j \in Seq(Envelope) /\ Contiguous(j)
    BY <1>t, <1>2, <1>j, LenProperties DEF Arrives, Served, Ordered
  <1>4. kind[c] = "update" /\ HasFirst(agg[c], j, v)
    BY <1>2, <1>j, <1>v DEF Grounded
  <1>5. /\ agg[c] \in State /\ v \in 0..Len(j) /\ Range(agg[c]) = {j[i].event : i \in 1..v}
    BY <1>4 DEF HasFirst
  <1>6. /\ Range(EventsOf(tail)) = {j[i].event : i \in (v + 1)..Len(j)}
        /\ tail # <<>> => tail[Len(tail)].version \in (v + 1)..Len(j)
        /\ tail = <<>> => v = Len(j)
    BY <1>3, <1>5, WholeTail
  <1>7. EventsOf(tail) \in State
    <2>1. v \in Nat
      BY <1>5
    <2>2. tail \in Seq(Envelope)
      BY <1>3, <2>1, TailIs
    <2>. QED BY <2>2, EventsOfType
  <1>8. agg'[c] \in State /\ Range(agg'[c]) = Range(agg[c]) \cup Range(EventsOf(tail))
    BY <1>2, <1>5, <1>7, JoinedStates
  <1>9. Once(agg'[c])
    <2>1. batch'[c] = <<>> /\ CallInv(c)'
      BY <1>2 DEF EInv, MInv, CallInv
    <2>2. (\E s \in State : Known(c, s))'
      BY <1>2, <2>1 DEF CallInv, Working
    <2>3. PICK s \in State : Known(c, s)'
      BY <2>2
    <2>4. agg'[c] = s \o <<>> /\ Once(s)
      BY <2>1, <2>3 DEF Known
    <2>5. s \o <<>> = s
      BY EmptyState
    <2>. QED BY <2>4, <2>5
  <1>10. Range(agg'[c]) = {j[i].event : i \in 1..Len(j)}
    <2>1. \A i : i \in 1..Len(j) <=> i \in 1..v \/ i \in (v + 1)..Len(j)
      BY <1>3, <1>5
    <2>. QED BY <1>5, <1>6, <1>8, <2>1
  <1>11. HasFirst(agg'[c], j, Len(j))
    <2>1. Len(j) \in 0..Len(j)
      BY <1>3
    <2>. QED BY <1>8, <1>9, <1>10, <2>1 DEF HasFirst
  <1>12. ver'[c] \in v..Len(j)
    <2>1. CASE tail = <<>>
      BY <1>2, <1>5, <2>1
    <2>2. CASE tail # <<>>
      BY <1>2, <1>5, <1>6, <2>2
    <2>. QED BY <2>1, <2>2
  <1>13. Ready(c, agg[c], Len(journal[target[c]]))'
    <2>1. ver'[c] <= Len(j) /\ since[c] <= Len(j)
      BY <1>3, <1>5, <1>12
    <2>. QED BY <1>2, <1>3, <1>4, <1>11, <2>1 DEF Ready
  <1>14. Len(journal'[target'[c]]) \in Nat
    BY <1>3
  <1>15. disturbed \subseteq disturbed'
    BY <1>2 DEF ReadNotes, Disturb
  <1>16. target'[c] \in disturbed' \/ since'[c] <= ver'[c]
    <2>1. target[c] \in disturbed \/ since[c] <= v
      BY <1>2, <1>v DEF Conflicts
    <2>2. since[c] <= v => since[c] <= ver'[c]
      BY <1>3, <1>5, <1>12
    <2>. QED BY <1>2, <1>3, <1>15, <2>1, <2>2
  <1>. QED BY <1>2, <1>3, <1>13, <1>14, <1>16 DEF Grounded, Conflicts, Answered

(* The handler's choice.                                                   *)
LEMMA HandlerGrounds ==
  ASSUME EInv, NEW c \in Calls, RunHandler(c), HandlerDecides(c), Arrives(c),
         request' = request, Served(c), Grounded(c), Conflicts(c)
  PROVE  Grounded(c)' /\ Conflicts(c)'
  <1>t. agg[c] \in State
    BY DEF EInv, MInv, CallTypeOK
  <1>1. /\ pc[c] = "handle" /\ ver' = ver /\ journal' = journal /\ since' = since
        /\ target' = target /\ kind' = kind /\ disturbed' = disturbed
    BY HandlerStep DEF Arrives, RunHandler, Handle, Refuse
  <1>2. /\ Command(c)' = Command(c) /\ \A s : Payloads(s)' = Payloads(s)
    BY SameRequests
  <1>3. PICK n \in Nat : Ready(c, agg[c], n)
    BY <1>1 DEF Grounded
  <1>4. CASE /\ pc'[c] = "start_session" /\ reply'[c] = "none"
             /\ batch'[c] = NewEvents(c, 1) /\ agg'[c] = agg[c] \o NewEvents(c, 1)
             /\ Accepts(c, agg[c])
    <2>s. PICK s \in State : s = agg[c]
      BY <1>t
    <2>1. Ready(c, s, n)'
      BY <1>1, <1>3, <2>s DEF Ready
    <2>2. Accepts(c, s)'
      BY <1>1, <1>2, <1>4, <2>s DEF Accepts
    <2>3. Chosen(c, s, n)'
      BY <1>4, <2>s, <2>1, <2>2 DEF Chosen
    <2>. QED BY <1>1, <1>4, <2>3 DEF Grounded, Conflicts, Answered
  <1>5. CASE /\ pc'[c] = "done" /\ reply'[c] = "user_error" /\ agg'[c] = agg[c]
             /\ kind[c] = "update"
             /\ ~ HandleUpdate(Account(Payloads(agg[c])), Command(c)).ok
    <2>1. ASSUME target[c] \notin disturbed
          PROVE  agg[c] = Replay(journal[target[c]], n)
      <3> DEFINE j == journal[target[c]]
      <3>1. j \in Seq(Envelope) /\ target[c] \in Ids /\ EventsOnce(j)
        BY DEF EInv, MInv, CallTypeOK, StoreTypeOK
      <3>2. /\ batch[c] = <<>> /\ ver[c] \in Nat /\ ver[c] <= Len(j)
            /\ agg[c] = Replay(j, ver[c]) \o batch[c]
        BY <1>1, <2>1, <3>1 DEF EInv, MInv, CallTypeOK, CallInv, ExactFor, Current
      <3>3. Len(j) \in Nat
        BY <3>1, LenProperties
      <3> HIDE DEF j
      <3>4. Replay(j, ver[c]) \in State /\ Len(Replay(j, ver[c])) = ver[c]
        BY <3>1, <3>2, <3>3, ReplayType
      <3>5. agg[c] = Replay(j, ver[c]) /\ Len(agg[c]) = ver[c]
        BY <3>2, <3>4, EmptyState
      <3>6. HasFirst(agg[c], j, n)
        BY <1>3 DEF Ready, j
      <3>7. Len(agg[c]) = n
        BY <3>1, <3>6, ArrangedIs
      <3>. QED BY <3>5, <3>7 DEF j
    <2>2. Denies(c, agg[c], n)'
      BY <1>1, <1>2, <1>3, <1>5, <2>1 DEF Denies, Ready
    <2>. QED BY <1>1, <1>5, <2>2 DEF Grounded, Conflicts, Answered
  <1>. QED BY <1>4, <1>5, HandlerStep

(* The check lets a call pass whose load was all of the journal.           *)
LEMMA CheckGrounds ==
  ASSUME EInv, NEW c \in Calls, FetchLatestEvent(c), Arrives(c), request' = request,
         NEW id \in Ids, target[c] = id, Ordered(id), Served(c), Grounded(c), Conflicts(c)
  PROVE  Grounded(c)' /\ Conflicts(c)'
  <1>t. /\ pc \in [Calls -> Label] /\ ver \in [Calls -> Nat] /\ reply \in [Calls -> Reply]
        /\ journal[id] \in Seq(Envelope)
    BY DEF EInv, MInv, CallTypeOK, StoreTypeOK
  <1>j. PICK j : j = journal[id]
    OBVIOUS
  <1>1. /\ pc[c] = "fetch_latest" /\ kind' = kind /\ target' = target /\ agg' = agg
        /\ ver' = ver /\ journal' = journal /\ since' = since /\ ReadNotes(c)
        /\ IF ver[c] = LatestVersion(ByVersion(j))
             THEN pc'[c] = "save_events" /\ reply'[c] = reply[c]
             ELSE pc'[c] = "abort" /\ reply'[c] = "concurrency_error"
    BY <1>t, <1>j
       DEF FetchLatestEvent, CheckVersion, VersionMatches, Goto, store, Arrives
  <1>2. /\ j \in Seq(Envelope) /\ Contiguous(j) /\ Len(j) \in Nat
        /\ since[c] \in 0..Len(j) /\ journal'[target'[c]] = j /\ ver[c] \in Nat
    BY <1>t, <1>1, <1>j, LenProperties DEF Ordered, Served
  <1>3. LatestVersion(ByVersion(j)) = Len(j)
    <2>1. ByVersion(j) = j /\ DOMAIN j = 1..Len(j)
      BY <1>2, ByVersionContiguous, LenProperties
    <2>2. CASE j = <<>>
      BY <2>1, <2>2, EmptyState DEF LatestVersion
    <2>3. CASE j # <<>>
      <3>1. Len(j) \in DOMAIN j
        BY <1>2, <2>1, <2>3, EmptySeq
      <3>. QED BY <1>2, <2>1, <2>3, <3>1 DEF LatestVersion, Contiguous
    <2>. QED BY <2>2, <2>3
  <1>4. PICK s \in State : \E n \in Nat : Chosen(c, s, n)
    BY <1>1 DEF Grounded
  <1>5. PICK n \in Nat : Chosen(c, s, n)
    BY <1>4
  <1>6. n <= Len(j) /\ ver[c] <= n
    BY <1>2, <1>5, <1>j DEF Chosen, Ready, HasFirst
  <1>7. /\ disturbed \subseteq disturbed'
    BY <1>1 DEF ReadNotes, Disturb
  <1>8. CASE ver[c] = Len(j)
    <2>1. pc'[c] = "save_events"
      BY <1>1, <1>3, <1>8
    <2>2. n = ver[c]
      BY <1>2, <1>6, <1>8
    <2>3. Ready(c, s, n)'
      BY <1>1, <1>5 DEF Chosen, Ready
    <2>4. Accepts(c, s)'
      BY <1>1, <1>5, SameRequests DEF Chosen, Accepts
    <2>5. Chosen(c, s, n)'
      BY <1>1, <1>5, <2>2, <2>3, <2>4 DEF Chosen
    <2>. QED BY <2>1, <2>5 DEF Grounded, Conflicts, Answered
  <1>9. CASE ver[c] # Len(j)
    <2>1. pc'[c] = "abort"
      BY <1>1, <1>3, <1>9
    <2>2. target[c] \in disturbed \/ since[c] <= ver[c]
      BY <1>1 DEF Conflicts
    <2>3. since[c] <= ver[c] => since[c] < Len(j)
      BY <1>2, <1>6, <1>9
    <2>4. target'[c] \in disturbed' \/ since'[c] < Len(journal'[target'[c]])
      BY <1>1, <1>2, <1>7, <2>2, <2>3
    <2>. QED BY <2>1, <2>4 DEF Grounded, Conflicts, Answered
  <1>. QED BY <1>8, <1>9

(* What the call holds after its event landed is the whole journal.        *)
LEMMA SavedGrounds ==
  ASSUME NEW c \in Calls, pc'[c] = "save_snapshot", agg'[c] = agg[c], ver'[c] = ver[c],
         NEW id, target'[c] = id, HasFirst(agg[c], journal'[id], ver[c] + 1)
  PROVE  Grounded(c)' /\ Conflicts(c)'
  BY DEF Grounded, Conflicts, Answered

(* A step at which nothing is read or decided.                             *)
LEMMA RestGrounds ==
  ASSUME EInv, NEW c \in Calls, Arrives(c), request' = request, Served(c),
         Grounded(c), Conflicts(c), journal'[target[c]] \in Seq(Envelope),
         \/ StartSession(c) \/ SaveSnapshot(c) \/ CloseSession(c) \/ AbortSession(c)
         \/ Dispatch(c) \/ CancelWrite(c) \/ LateWrite(c)
         \/ SaveEvents(c) /\ pc'[c] = "abort"
         \/ (QueryFails(c) \/ Cancel(c)) /\ pc[c] # "fetch_snapshot"
  PROVE  Grounded(c)' /\ Conflicts(c)'
  <1> USE DEF Goto, Answer
  <1>t. /\ pc \in [Calls -> Label] /\ reply \in [Calls -> Reply] /\ target \in [Calls -> Ids]
    BY DEF EInv, MInv, CallTypeOK
  <1>0. Works(c)
    BY DEF Works, Step
  <1>1. /\ journal[target[c]] \in Seq(Envelope)
        /\ Onward(journal[target[c]], journal'[target[c]])
        /\ target' = target /\ kind' = kind /\ disturbed \subseteq disturbed'
    BY <1>0, <1>t, OnlyOne, JournalStep DEF EInv, MInv, StoreTypeOK
  <1>2. pc[c] # "fetch_snapshot" /\ agg' = agg /\ ver' = ver
    BY DEF StartSession, SaveSnapshot, CloseSession, Committed, AbortSession, Aborted,
           Dispatch, Dispatched, CancelWrite, Writing, LateWrite, InFlight, SaveEvents,
           QueryFails, Cancel, Drop
  <1>3. Steady(c)
    BY <1>1, <1>2 DEF Steady, Arrives
  <1>a. pc[c] = "abort" => reply[c] \in {"concurrency_error", "database_error"}
    BY DEF EInv, MInv, CallInv
  <1> USE DEF GoesOn, Answered
  <1>4. ASSUME StartSession(c) \/ CloseSession(c) \/ Dispatch(c) PROVE GoesOn(c)
    BY <1>t, <1>4 DEF StartSession, CloseSession, Committed, Dispatch, Dispatched
  <1>5. ASSUME AbortSession(c) PROVE GoesOn(c)
    BY <1>t, <1>a, <1>5 DEF AbortSession, Aborted
  <1>6. ASSUME SaveSnapshot(c) PROVE GoesOn(c)
    BY <1>t, <1>6 DEF SaveSnapshot
  <1>7. ASSUME CancelWrite(c) PROVE GoesOn(c)
    BY <1>t, <1>7 DEF CancelWrite, Writing
  <1>8. ASSUME LateWrite(c) PROVE GoesOn(c)
    BY <1>t, <1>8 DEF LateWrite, InFlight
  <1>9. ASSUME SaveEvents(c), pc'[c] = "abort" PROVE GoesOn(c)
    BY <1>t, <1>9 DEF SaveEvents
  <1>10. ASSUME QueryFails(c) \/ Cancel(c) PROVE GoesOn(c)
    BY <1>t, <1>10 DEF QueryFails, Cancel, Drop
  <1>11. GoesOn(c)
    BY <1>4, <1>5, <1>6, <1>7, <1>8, <1>9, <1>10
  <1> HIDE DEF GoesOn, Answered, Goto, Answer
  <1>. QED BY <1>3, <1>11, GroundedAlong

(* Each step of a call keeps what is said of it.                           *)
LEMMA GroundedOn ==
  ASSUME EInv, EInv', NEW c \in Calls, Works(c), HandlerDecides(c), Arrives(c),
         request' = request, DOMAIN since = Calls, Served(c), NEW id \in Ids,
         target[c] = id, Made(id), Straight(id), ~ Forked(id)'
  PROVE  Grounded(c)' /\ Conflicts(c)'
  <1>1. ~ Forked(id)
    BY OrderedKept
  <1>2. Ordered(id) /\ Grounded(c) /\ Conflicts(c)
    BY <1>1 DEF Straight
  <1>3. /\ journal'[id] \in Seq(Envelope) /\ target' = target
        /\ disturbed \subseteq disturbed'
    BY OnlyOne DEF EInv, MInv, StoreTypeOK
  <1>4. CASE FetchSnapshot(c)
    BY <1>2, <1>4, SnapshotGrounds
  <1>5. CASE FetchEventsFromVersion(c)
    BY <1>2, <1>5, TailGrounds
  <1>6. CASE RunHandler(c)
    BY <1>2, <1>6, HandlerGrounds
  <1>7. CASE FetchLatestEvent(c)
    BY <1>2, <1>7, CheckGrounds
  <1>8. CASE SaveEvents(c) /\ pc'[c] # "abort"
    <2>1. pc'[c] = "save_snapshot" /\ agg' = agg /\ ver' = ver /\ pc[c] = "save_events"
      BY <1>8 DEF SaveEvents, Goto, EInv, MInv, CallTypeOK
    <2>2. JoinsJournal(c)
      BY <2>1, JournalStep
    <2>3. HasFirst(agg[c], journal'[id], ver[c] + 1)
      BY <1>2, <1>3, <2>2, Landing
    <2>. QED BY <1>3, <2>1, <2>3, SavedGrounds
  <1>9. CASE QueryFails(c) \/ Cancel(c)
    <2>1. CASE pc[c] = "fetch_snapshot"
      <3>1. pc'[c] = "done" /\ reply'[c] \in {"database_error", "cancelled"}
        BY <1>9, <2>1 DEF QueryFails, Cancel, Drop, Goto, Answer, EInv, MInv, CallTypeOK
      <3>. QED BY <3>1 DEF Grounded, Conflicts, Answered
    <2>2. CASE pc[c] # "fetch_snapshot"
      BY <1>2, <1>3, <1>9, <2>2, RestGrounds
    <2>. QED BY <2>1, <2>2
  <1>10. CASE \/ StartSession(c) \/ SaveSnapshot(c) \/ CloseSession(c) \/ AbortSession(c)
              \/ Dispatch(c) \/ CancelWrite(c) \/ LateWrite(c)
              \/ SaveEvents(c) /\ pc'[c] = "abort"
    BY <1>2, <1>3, <1>10, RestGrounds
  <1>. QED BY <1>4, <1>5, <1>6, <1>7, <1>8, <1>9, <1>10 DEF Works, Step

-----------------------------------------------------------------------------
(* The movements.                                                          *)

(* They stay, but for a dispatch, which saves that of its request or marks *)
(* that it may not have.                                                   *)
LEMMA ProjectsIs ==
  ASSUME NEW c \in Calls, Projects(c)
  PROVE  /\ \/ movements' = movements
            \/ pc[c] = "dispatch" /\ HasMovement(Payload(c)) /\ movements' = Upserted(c)
         /\ unprojected \subseteq unprojected'
         /\ pc[c] = "dispatch" /\ HasMovement(Payload(c)) /\ c \notin unprojected' =>
              movements' = Upserted(c)
  BY DEF Projects

(* The one event of a request that is dispatched is in the journal.        *)
LEMMA HeldEntry ==
  ASSUME EInv, NEW c \in Calls, pc[c] = "dispatch", Served(c), NEW id, target[c] = id
  PROVE  \E k \in DOMAIN journal[id] :
           /\ journal[id][k].version = ver[c] + 1 /\ journal[id][k].event = <<c, 1>>
           /\ \A m \in DOMAIN journal[id] : journal[id][m].event = <<c, 1>> => m = k
  <1>1. Holds(c)
    BY DEF EInv, MInv, CallInv, Written
  <1>2. 1 \in DOMAIN batch[c] /\ batch[c][1] = <<c, 1>>
    BY DEF Served, Decided, NewEvents
  <1>3. PICK k \in DOMAIN journal[id] :
          /\ journal[id][k] = [version |-> ver[c] + 1, event |-> <<c, 1>>]
          /\ \A m \in DOMAIN journal[id] \ {k} : journal[id][m].event # <<c, 1>>
    BY <1>1, <1>2 DEF Holds
  <1>. QED BY <1>3

(* A movement in the view is one of an entry of the journal, after a       *)
(* step.                                                                   *)
LEMMA MovementsKept ==
  ASSUME EInv, EInv', NEW c \in Calls, Works(c), request' = request, Served(c), Projects(c),
         DOMAIN movements = Ids, NEW id \in Ids, MovementsMade(id)
  PROVE  MovementsMade(id)'
  <1>t. journal[id] \in Seq(Envelope) /\ journal'[id] \in Seq(Envelope)
    BY DEF EInv, MInv, StoreTypeOK
  <1>1. \A i \in DOMAIN journal[id] :
          i \in DOMAIN journal'[id] /\ journal'[id][i] = journal[id][i]
    BY <1>t, JournalStep, FirstStays
  <1>3. ASSUME NEW m \in movements[id]
        PROVE  \E i \in DOMAIN journal'[id] : MovesBy(m, journal'[id][i])
    BY <1>1 DEF MovementsMade
  <1>4. ASSUME NEW m \in movements'[id]
        PROVE  \E i \in DOMAIN journal'[id] : MovesBy(m, journal'[id][i])
    <2>1. CASE movements' = movements
      BY <1>3, <2>1
    <2>2. CASE pc[c] = "dispatch" /\ HasMovement(Payload(c)) /\ movements' = Upserted(c)
      <3>1. m \in movements[id] \/ (target[c] = id /\ m = Movement(ver[c] + 1, Payload(c)))
        BY <2>2 DEF Upserted
      <3>2. ASSUME target[c] = id, m = Movement(ver[c] + 1, Payload(c))
            PROVE  \E i \in DOMAIN journal[id] : MovesBy(m, journal[id][i])
        <4>1. PICK k \in DOMAIN journal[id] :
                journal[id][k].version = ver[c] + 1 /\ journal[id][k].event = <<c, 1>>
          BY <2>2, <3>2, HeldEntry
        <4>2. journal[id][k].event[1] = c
          BY <4>1
        <4>. QED BY <2>2, <3>2, <4>1, <4>2 DEF MovesBy
      <3>. QED BY <1>1, <1>3, <3>1, <3>2
    <2>. QED BY <2>1, <2>2, ProjectsIs
  <1>. QED BY <1>4 DEF MovementsMade, MovesBy, Payload, Command

(* A request is done well once it has been dispatched.                     *)
LEMMA DoneByDispatch ==
  ASSUME EInv, NEW c \in Calls, Works(c), Served(c), pc'[c] = "done", reply'[c] = "ok"
  PROVE  pc[c] = "dispatch"
  <1> USE DEF Goto, Answer
  <1>t. pc \in [Calls -> Label] /\ reply \in [Calls -> Reply]
    BY DEF EInv, MInv, CallTypeOK
  <1>1. pc[c] = "close" => batch[c] # <<>>
    <2>1. 1 \in 0..MaxEvents
      BY OneEventAssumption, MaxEventsAssumption
    <2>2. Len(NewEvents(c, 1)) = 1
      BY <2>1, NewEventsType
    <2>3. NewEvents(c, 1) # <<>>
      <3>1. Len(<<>>) = 0 /\ 1 # 0
        BY EmptyState
      <3>. QED BY <2>2, <3>1, Zenon
    <2>. QED BY <2>3 DEF Served, Decided
  <1>2. pc[c] \in {"fetch_snapshot", "fetch_tail", "handle"} => reply[c] = "none"
    BY DEF Served
  <1>3. pc[c] = "abort" => reply[c] \in {"concurrency_error", "database_error"}
    BY DEF EInv, MInv, CallInv
  <1>4. CASE FetchSnapshot(c) \/ FetchEventsFromVersion(c)
    BY <1>t, <1>4 DEF FetchSnapshot, InitializeAggregate, LoadSnapshot,
                      FetchEventsFromVersion, LoadTail
  <1>5. CASE RunHandler(c) \/ StartSession(c) \/ FetchLatestEvent(c)
    BY <1>t, <1>5 DEF RunHandler, Handle, Refuse, StartSession, FetchLatestEvent,
                      CheckVersion
  <1>6. CASE SaveEvents(c) \/ SaveSnapshot(c)
    BY <1>t, <1>6 DEF SaveEvents, SaveSnapshot
  <1>7. CASE CloseSession(c) \/ AbortSession(c) \/ Dispatch(c)
    BY <1>t, <1>1, <1>3, <1>7 DEF CloseSession, Committed, AbortSession, Aborted, Dispatch,
                                  Dispatched
  <1>8. CASE QueryFails(c) \/ Cancel(c)
    BY <1>t, <1>8 DEF QueryFails, Cancel, Drop
  <1>9. CASE CancelWrite(c) \/ LateWrite(c)
    BY <1>t, <1>9 DEF CancelWrite, Writing, LateWrite, InFlight
  <1>. QED BY <1>4, <1>5, <1>6, <1>7, <1>8, <1>9 DEF Works, Step

(* The movement of an entry that was projected is in the view, after a     *)
(* step.                                                                   *)
LEMMA SavedKept ==
  ASSUME EInv, EInv', NEW c \in Calls, Works(c), request' = request, Served(c), Projects(c),
         DOMAIN movements = Ids, NEW id \in Ids, Made(id), Saved(id), ~ Forked(id)
  PROVE  Saved(id)'
  <1>t. /\ journal[id] \in Seq(Envelope) /\ journal'[id] \in Seq(Envelope)
        /\ EventsOnce(journal[id])
    BY DEF EInv, MInv, StoreTypeOK
  <1>1. /\ DOMAIN journal[id] = 1..Len(journal[id]) /\ Len(journal[id]) \in Nat
        /\ DOMAIN journal'[id] = 1..Len(journal'[id])
        /\ \A i \in DOMAIN journal[id] : journal'[id][i] = journal[id][i]
    BY <1>t, JournalStep, FirstStays
  <1>2. /\ \A d \in Calls : d # c => SameCall(d)
        /\ target' = target
    BY OnlyOne
  <1>4. unprojected \subseteq unprojected'
    BY ProjectsIs
  <1>5. ASSUME NEW i \in DOMAIN journal'[id], i \notin DOMAIN journal[id]
        PROVE  journal'[id][i].event[1] = c /\ pc'[c] # "dispatch" /\ pc[c] = "save_events"
    <2>1. id = target[c] /\ JoinsJournal(c)
      BY <1>5, JournalStep
    <2>2. /\ Len(journal'[id]) = Len(journal[id]) + 1
          /\ journal'[id][Len(journal'[id])] = [version |-> ver[c] + 1, event |-> <<c, 1>>]
      BY <2>1 DEF JoinsJournal, Added, Extends
    <2>3. i = Len(journal'[id])
      BY <1>1, <1>5, <2>2
    <2>. QED BY <2>1, <2>2, <2>3 DEF JoinsJournal
  <1>6. ASSUME NEW i \in DOMAIN journal'[id], NEW d, d = journal'[id][i].event[1],
               pc'[d] = "done", reply'[d] = "ok", d \notin unprojected',
               HasMovement(Payload(d))
        PROVE  Movement(journal'[id][i].version, Payload(d)) \in movements'[id]
    <2>1. CASE d # c
      <3>1. i \in DOMAIN journal[id] /\ journal'[id][i] = journal[id][i]
        BY <1>1, <1>5, <1>6, <2>1
      <3>2. d \in Calls
        BY <1>6, <3>1 DEF Made, MadeBy
      <3>3. Projected(d)
        BY <1>2, <1>4, <1>6, <2>1, <3>2 DEF SameCall, Projected, Answered
      <3>4. Movement(journal[id][i].version, Payload(d)) \in movements[id]
        BY <1>6, <3>1, <3>3 DEF Saved
      <3>5. CASE movements' = movements
        BY <3>1, <3>4, <3>5
      <3>6. CASE pc[c] = "dispatch" /\ movements' = Upserted(c)
        <4>1. CASE target[c] # id
          BY <3>1, <3>4, <3>6, <4>1 DEF Upserted
        <4>2. CASE target[c] = id
          <5>1. PICK k \in DOMAIN journal[id] :
                  journal[id][k].version = ver[c] + 1 /\ journal[id][k].event = <<c, 1>>
            BY <3>6, <4>2, HeldEntry
          <5>2. i # k
            <6>1. journal[id][k].event[1] = c /\ journal[id][i].event[1] = d
              BY <1>6, <3>1, <5>1
            <6>. QED BY <2>1, <6>1
          <5>3. journal[id][i].version # ver[c] + 1
            BY <3>1, <5>1, <5>2 DEF Forked
          <5>4. Movement(journal[id][i].version, Payload(d)).version # ver[c] + 1
            BY <5>3 DEF Movement
          <5>5. Movement(ver[c] + 1, Payload(c)).version = ver[c] + 1
            BY DEF Movement
          <5>6. movements'[id] = {m \in movements[id] : m.version # ver[c] + 1}
                                   \cup {Movement(ver[c] + 1, Payload(c))}
            BY <3>6, <4>2, <5>5 DEF Upserted
          <5>. QED BY <3>1, <3>4, <5>4, <5>6
        <4>. QED BY <4>1, <4>2
      <3>. QED BY <3>5, <3>6, ProjectsIs
    <2>2. CASE d = c
      <3>1. pc[c] = "dispatch"
        BY <1>6, <2>2, DoneByDispatch
      <3>2. movements' = Upserted(c)
        BY <1>6, <2>2, <3>1, ProjectsIs
      <3>3. i \in DOMAIN journal[id] /\ journal'[id][i] = journal[id][i]
        BY <1>1, <1>5, <3>1
      <3>4. target[c] = id /\ journal[id][i].event = <<c, 1>>
        BY <1>6, <2>2, <3>3 DEF Made, MadeBy
      <3>5. PICK k \in DOMAIN journal[id] :
              journal[id][k].version = ver[c] + 1 /\ journal[id][k].event = <<c, 1>>
        BY <3>1, <3>4, HeldEntry
      <3>6. i = k
        BY <1>t, <3>3, <3>4, <3>5 DEF EventsOnce
      <3>. QED BY <2>2, <3>2, <3>3, <3>4, <3>5, <3>6 DEF Upserted
    <2>. QED BY <2>1, <2>2
  <1>. QED BY <1>6 DEF Saved, Projected, Answered, Payload, Command

-----------------------------------------------------------------------------
(* The invariant of the bank.                                              *)

(* What there is to show of a step that only some requests move in.        *)
BankStep(moving) ==
  /\ DOMAIN movements' = Ids /\ DOMAIN since' = Calls /\ target' = target
  /\ \A d \in Calls \ moving : LeftAlone(d)
  /\ \A d \in moving : Served(d)'
  /\ \A id \in Ids : Made(id)' /\ MovementsMade(id)'
  /\ \A id \in Ids : ~ Forked(id)' =>
       /\ ~ Forked(id) /\ Ordered(id)' /\ Saved(id)'
       /\ \A d \in moving : target[d] = id => Grounded(d)' /\ Conflicts(d)'

(* Such a step keeps the invariant.                                        *)
LEMMA BankKeeps ==
  ASSUME BankInv, EInv', NEW moving, BankStep(moving)
  PROVE  BankInv'
  <1> USE DEF BankStep
  <1>1. ASSUME NEW d \in Calls PROVE Served(d)'
    <2>1. Served(d)
      BY DEF BankInv
    <2>. QED BY <2>1, ServedElsewhere
  <1>2. ASSUME NEW id \in Ids, ~ Forked(id)', NEW d \in Calls, target[d] = id
        PROVE  Grounded(d)' /\ Conflicts(d)'
    <2>1. CASE d \in moving
      BY <1>2, <2>1
    <2>2. CASE d \notin moving
      <3>1. Grounded(d) /\ Conflicts(d) /\ Served(d)
        BY <1>2 DEF BankInv, Straight
      <3>. QED BY <2>2, <3>1, GroundedElsewhere
    <2>. QED BY <2>1, <2>2
  <1>3. ASSUME NEW id \in Ids PROVE Straight(id)'
    BY <1>2 DEF Straight
  <1>. QED BY <1>1, <1>3 DEF BankInv

(* A step that neither writes nor answers well.                            *)
LEMMA QuietAccounts ==
  ASSUME BankInv, UNCHANGED store, request' = request, movements' = movements,
         target' = target, disturbed' = disturbed, \A d \in Calls : Projected(d)' => Projected(d)
  PROVE  \A id \in Ids :
           /\ Made(id)' /\ MovementsMade(id)'
           /\ ~ Forked(id)' => ~ Forked(id) /\ Ordered(id)' /\ Saved(id)'
  <1>1. journal' = journal /\ snapshots' = snapshots
    BY DEF store
  <1> TAKE id \in Ids
  <1>2. Made(id) /\ MovementsMade(id) /\ Straight(id)
    BY DEF BankInv
  <1>3. Made(id)' /\ MovementsMade(id)'
    BY <1>1, <1>2 DEF Made, MadeBy, Readable, MovementsMade, MovesBy, Payload, Command
  <1>4. ASSUME ~ Forked(id)'
        PROVE  ~ Forked(id) /\ Ordered(id)' /\ Saved(id)'
    <2>1. ~ Forked(id)
      BY <1>1, <1>4 DEF Forked
    <2>2. Ordered(id) /\ Saved(id)
      BY <1>2, <2>1 DEF Straight
    <2>t. \A n \in DOMAIN journal'[id] : IsTaken(id, n)'
      <3>1. journal[id] \in Seq(Envelope)
        BY DEF BankInv, EInv, MInv, StoreTypeOK
      <3>2. /\ journal'[id] \in Seq(Envelope) /\ Onward(journal[id], journal'[id])
            /\ DOMAIN journal'[id] = 1..Len(journal[id])
        BY <1>1, <3>1, LenProperties DEF Onward
      <3>. QED BY <1>1, <2>2, <3>1, <3>2, TakenStays DEF Ordered
    <2>3. Ordered(id)'
      BY <1>1, <2>2, <2>t, OrderedIs DEF Ordered
    <2>4. \A i \in DOMAIN journal[id] : journal[id][i].event[1] \in Calls
      BY <1>2 DEF Made, MadeBy
    <2>5. ASSUME NEW i \in DOMAIN journal[id], NEW d, d = journal[id][i].event[1],
                 Projected(d)', HasMovement(Payload(d))
          PROVE  Movement(journal[id][i].version, Payload(d)) \in movements[id]
      <3>1. Projected(d)
        BY <2>4, <2>5
      <3>. QED BY <2>2, <2>5, <3>1 DEF Saved
    <2>6. Saved(id)'
      BY <1>1, <2>5 DEF Saved, Projected, Answered, Payload, Command
    <2>. QED BY <2>1, <2>3, <2>6
  <1>. QED BY <1>3, <1>4

(* So does a step of the engine with a request that can be read,           *)
LEMMA RequestKeeps ==
  ASSUME BankInv, NEW c \in Calls, Request(c)
  PROVE  BankInv'
  <1>0. /\ EInv /\ DOMAIN movements = Ids /\ DOMAIN since = Calls
        /\ \A d \in Calls : Served(d)
        /\ \A id \in Ids : Made(id) /\ MovementsMade(id) /\ Straight(id)
    BY DEF BankInv
  <1>1. /\ Works(c) /\ Readable(c) /\ HandlerDecides(c) /\ Arrives(c) /\ Projects(c)
        /\ request' = request
    BY DEF Request, Works
  <1>2. EInv'
    BY <1>0, <1>1, WorkKeeps
  <1>3. /\ target' = target /\ kind' = kind /\ disturbed \subseteq disturbed'
        /\ \A d \in Calls : d # c => SameCall(d)
    BY <1>0, <1>1, OnlyOne
  <1>4. DOMAIN movements' = Ids /\ DOMAIN since' = Calls
    BY <1>0, <1>1, ProjectsIs DEF Upserted, Arrives
  <1>5. ASSUME NEW d \in Calls \ {c} PROVE LeftAlone(d)
    <2>1. target[d] \in Ids
      BY <1>0 DEF EInv, MInv, CallTypeOK
    <2>2. /\ journal[target[d]] \in Seq(Envelope) /\ journal'[target[d]] \in Seq(Envelope)
          /\ Onward(journal[target[d]], journal'[target[d]])
      BY <1>0, <1>1, <1>2, <2>1, JournalStep DEF EInv, MInv, StoreTypeOK
    <2>3. since'[d] = since[d]
      BY <1>0, <1>1, <1>5 DEF Arrives
    <2>. QED BY <1>1, <1>3, <1>5, <2>2, <2>3 DEF LeftAlone
  <1>6. Served(c)'
    BY <1>0, <1>1, <1>2, ServedOn
  <1>7. ASSUME NEW id \in Ids PROVE Made(id)' /\ MovementsMade(id)'
    BY <1>0, <1>1, <1>2, MadeKept, MovementsKept
  <1>8. ASSUME NEW id \in Ids, ~ Forked(id)'
        PROVE  /\ ~ Forked(id) /\ Ordered(id)' /\ Saved(id)'
               /\ target[c] = id => Grounded(c)' /\ Conflicts(c)'
    <2>1. ~ Forked(id) /\ Ordered(id)'
      BY <1>0, <1>1, <1>2, <1>8, OrderedKept
    <2>2. Saved(id)
      BY <1>0, <2>1 DEF Straight
    <2>3. Saved(id)'
      BY <1>0, <1>1, <1>2, <2>1, <2>2, SavedKept
    <2>4. target[c] = id => Grounded(c)' /\ Conflicts(c)'
      BY <1>0, <1>1, <1>2, <1>8, GroundedOn
    <2>. QED BY <2>1, <2>3, <2>4
  <1>9. BankStep({c})
    BY <1>3, <1>4, <1>5, <1>6, <1>7, <1>8 DEF BankStep
  <1>. QED BY <1>2, <1>9, BankKeeps

(* and the answer to one that cannot, which never reaches the engine.      *)
LEMMA UnprocessedKeeps ==
  ASSUME BankInv, NEW c \in Calls, Unprocessed(c)
  PROVE  BankInv'
  <1>t. /\ EInv /\ pc \in [Calls -> Label] /\ kind \in [Calls -> {"create", "update"}]
        /\ target \in [Calls -> Ids] /\ agg \in [Calls -> State]
        /\ ver \in [Calls -> Nat] /\ batch \in [Calls -> State]
        /\ reply \in [Calls -> Reply] /\ journal \in [Ids -> Seq(Envelope)]
    BY DEF BankInv, EInv, MInv, CallTypeOK, StoreTypeOK
  <1>1. /\ pc[c] = "fetch_snapshot" /\ ~ Readable(c)
        /\ pc' = [pc EXCEPT ![c] = "done"] /\ reply' = [reply EXCEPT ![c] = "user_error"]
        /\ kind' = kind /\ target' = target /\ agg' = agg /\ ver' = ver /\ batch' = batch
        /\ journal' = journal /\ snapshots' = snapshots /\ disturbed' = disturbed
        /\ request' = request /\ movements' = movements /\ unprojected' = unprojected
        /\ since' = since
    BY DEF Unprocessed, Answer, store
  <1>2. \A d \in Calls : d # c => SameCall(d)
    BY <1>t, <1>1 DEF SameCall
  <1>3. EInv'
    <2>1. UNCHANGED <<store, target, agg, ver, batch>>
      BY <1>1 DEF store
    <2>2. CallTypeOK'
      BY <1>t, <1>1 DEF CallTypeOK, Label, Reply
    <2>3. pc'[c] = "done" /\ reply'[c] = "user_error"
      BY <1>t, <1>1
    <2>4. MInv /\ Unwritten(c)
      BY <1>t, <1>1 DEF EInv, Unwritten
    <2>5. ~ Written(c)' /\ ~ Working(c)'
      BY <2>3 DEF Written, Working, Answered
    <2>6. MInv'
      BY <1>2, <2>1, <2>2, <2>3, <2>4, <2>5, CallMoves
    <2>7. \A id \in Ids : ExactFor(id)'
      BY <1>t, <1>1, <1>2, <2>1, <2>3, MovesExact
    <2>. QED BY <2>6, <2>7 DEF EInv
  <1>4. ASSUME NEW d \in Calls \ {c} PROVE LeftAlone(d)
    BY <1>t, <1>1, <1>2, <1>4 DEF LeftAlone, Onward
  <1>5. pc'[c] = "done" /\ reply'[c] = "user_error" /\ ~ Readable(c)'
    BY <1>t, <1>1 DEF Readable
  <1>6. Served(c)'
    <2>1. Served(c)
      BY DEF BankInv
    <2>. QED BY <1>1, <1>5, <2>1 DEF Served, Decided, Answered
  <1>7. Grounded(c)' /\ Conflicts(c)'
    BY <1>5 DEF Grounded, Conflicts, Answered
  <1>8. \A d \in Calls : Projected(d)' => Projected(d)
    BY <1>1, <1>2, <1>5 DEF Projected, Answered, SameCall
  <1>9. UNCHANGED store
    BY <1>1 DEF store
  <1>10. \A id \in Ids :
           /\ Made(id)' /\ MovementsMade(id)'
           /\ ~ Forked(id)' => ~ Forked(id) /\ Ordered(id)' /\ Saved(id)'
    BY <1>1, <1>8, <1>9, QuietAccounts
  <1>11. DOMAIN movements' = Ids /\ DOMAIN since' = Calls
    BY <1>1 DEF BankInv
  <1>12. BankStep({c})
    BY <1>1, <1>4, <1>6, <1>7, <1>10, <1>11 DEF BankStep
  <1>. QED BY <1>3, <1>12, BankKeeps

(* Every step of the bank keeps the invariant.                             *)
LEMMA BankInvKept == BankInv /\ [BankNext]_bankVars => BankInv'
  <1> SUFFICES ASSUME BankInv, [BankNext]_bankVars PROVE BankInv'
    OBVIOUS
  <1>1. ASSUME NEW c \in Calls, Unprocessed(c) PROVE BankInv'
    BY <1>1, UnprocessedKeeps
  <1>2. ASSUME NEW c \in Calls, Request(c) PROVE BankInv'
    BY <1>2, RequestKeeps
  <1>3. CASE UNCHANGED <<vars, request, movements, unprojected, since>>
    <2>1. /\ EInv /\ target \in [Calls -> Ids] /\ journal \in [Ids -> Seq(Envelope)]
      BY DEF BankInv, EInv, MInv, CallTypeOK, StoreTypeOK
    <2>2. /\ pc' = pc /\ kind' = kind /\ target' = target /\ agg' = agg /\ ver' = ver
          /\ batch' = batch /\ reply' = reply /\ journal' = journal
          /\ snapshots' = snapshots /\ disturbed' = disturbed /\ UNCHANGED store
          /\ request' = request /\ movements' = movements /\ unprojected' = unprojected
          /\ since' = since
      BY <1>3 DEF vars, callVars, store
    <2>3. EInv'
      BY <1>3, <2>1, EInvKept
    <2>4. \A d \in Calls : LeftAlone(d)
      BY <2>1, <2>2 DEF LeftAlone, SameCall, Onward
    <2>5. \A d \in Calls : Projected(d)' => Projected(d)
      BY <2>2 DEF Projected, Answered
    <2>6. \A id \in Ids :
            /\ Made(id)' /\ MovementsMade(id)'
            /\ ~ Forked(id)' => ~ Forked(id) /\ Ordered(id)' /\ Saved(id)'
      BY <2>2, <2>5, QuietAccounts
    <2>7. DOMAIN movements' = Ids /\ DOMAIN since' = Calls
      BY <2>2 DEF BankInv
    <2>8. BankStep({})
      BY <2>2, <2>4, <2>6, <2>7 DEF BankStep
    <2>. QED BY <2>3, <2>8, BankKeeps
  <1>. QED BY <1>1, <1>2, <1>3 DEF BankNext, bankVars, Idle

-----------------------------------------------------------------------------
(* The past of an account.                                                 *)

Past(n) == [i \in 1..n |-> [version |-> i, event |-> <<i, 1>>]]

(* The account's past is a journal without gaps, one entry per past call.  *)
LEMMA PastIs ==
  ASSUME NEW n \in Nat, 1..n \subseteq Calls
  PROVE  /\ Past(n) \in Seq(Envelope) /\ Len(Past(n)) = n /\ DOMAIN Past(n) = 1..n
         /\ \A i \in 1..n : Past(n)[i].version = i /\ Past(n)[i].event = <<i, 1>>
         /\ Contiguous(Past(n)) /\ EventsOnce(Past(n))
         /\ HasFirst(EventsOf(Past(n)), Past(n), n)
  <1> DEFINE j == Past(n)
             s == EventsOf(j)
  <1>0. 1 \in 1..MaxEvents
    BY OneEventAssumption, MaxEventsAssumption
  <1>1. j \in [1..n -> Envelope]
    BY <1>0 DEF Past, Envelope, Event
  <1>2. j \in Seq(Envelope) /\ Len(j) = n /\ DOMAIN j = 1..n
    BY <1>1, FunctionIsSeq
  <1>3. \A i \in 1..n : j[i].version = i /\ j[i].event = <<i, 1>>
    BY DEF Past
  <1> HIDE DEF j
  <1>4. Contiguous(j)
    BY <1>2, <1>3 DEF Contiguous
  <1>5. \A i, k \in 1..n : j[i].event = j[k].event => i = k
    <2> SUFFICES ASSUME NEW i \in 1..n, NEW k \in 1..n, j[i].event = j[k].event
                 PROVE  i = k
      OBVIOUS
    <2>1. <<i, 1>> = <<k, 1>>
      BY <1>3
    <2>. QED BY <2>1
  <1>6. s \in State /\ Len(s) = n /\ \A i \in 1..n : s[i] = j[i].event
    BY <1>2, EventsOfType
  <1> HIDE DEF s
  <1>7. DOMAIN s = 1..n
    BY <1>6, LenProperties DEF State
  <1>8. Once(s) /\ Range(s) = {j[i].event : i \in 1..n} /\ n \in 0..Len(j)
    BY <1>2, <1>5, <1>6, <1>7 DEF Once, Range
  <1>9. HasFirst(s, j, n)
    BY <1>6, <1>8 DEF HasFirst
  <1>10. EventsOnce(j)
    BY <1>2, <1>5 DEF EventsOnce
  <1>. QED BY <1>2, <1>3, <1>4, <1>9, <1>10 DEF j, s

(* The calls of the past are of requests that the account accepted.        *)
LEMMA PastTaken ==
  ASSUME NEW past \in Nat, 1..past \subseteq Calls,
         \A i \in 1..past : IsRequest(request[i]) /\ WasAccepted(request, i),
         NEW id, id \notin disturbed, journal[id] = Past(past), NEW n \in 1..past
  PROVE  IsTaken(id, n)
  <1>1. /\ n \in Nat /\ n \in Calls
        /\ IsRequest(request[n]) /\ IsReadable(request[n]) /\ WasAccepted(request, n)
    BY DEF WasAccepted
  <1>2. \A i \in 1..past : journal[id][i].event[1] = i
    BY DEF Past
  <1>3. Command(n).type = request[n].route
    BY <1>1, CommandIs DEF Command
  <1>4. CASE n = 1
    <2>1. Command(n).type = "Create"
      BY <1>1, <1>3, <1>4 DEF WasAccepted
    <2>. QED BY <1>2, <1>4, <2>1 DEF IsTaken
  <1>5. CASE n # 1
    <2> DEFINE before == [i \in 1..(n - 1) |-> EventOf(CommandOf(request[i]))]
               order == Replay(journal[id], n - 1)
    <2>1. n > 1 /\ Command(n).type # "Create"
      BY <1>1, <1>3, <1>5 DEF WasAccepted
    <2>2. HandleUpdate(Account(before), Command(n)).ok
      BY <1>1, <2>1 DEF WasAccepted, Command
    <2>3. order \in Orders(id, n - 1)
      BY DEF Orders
    <2>4. Payloads(order) = before
      <3>1. order = [i \in 1..(n - 1) |-> journal[id][i].event]
        BY DEF Replay
      <3>2. \A i \in 1..(n - 1) : i \in 1..past
        BY <1>1
      <3>3. \A i \in 1..(n - 1) : order[i][1] = i
        BY <1>2, <3>1, <3>2
      <3>4. DOMAIN order = 1..(n - 1)
        BY <3>1
      <3> HIDE DEF order
      <3>. QED BY <3>3, <3>4 DEF Payloads, Payload, Command
    <2> HIDE DEF before, order
    <2>. QED BY <1>2, <2>1, <2>2, <2>3, <2>4 DEF IsTaken
  <1>. QED BY <1>4, <1>5

(* The state a past leaves behind, read off BankInit.                      *)
Began(past, account) ==
  /\ past \in Nat /\ 1..past \subseteq Calls /\ account \in Ids
  /\ \A c \in Calls : IsRequest(request[c])
  /\ \A i \in 1..past : WasAccepted(request, i)
  /\ pc \in [Calls -> Label] /\ agg \in [Calls -> State] /\ ver \in [Calls -> Nat]
  /\ kind = [c \in Calls |-> KindOf(request[c].route)]
  /\ target \in [Calls -> Ids] /\ batch \in [Calls -> State] /\ reply \in [Calls -> Reply]
  /\ \A c \in 1..past :
       /\ pc[c] = "done" /\ reply[c] = "ok" /\ target[c] = account
       /\ ver[c] = c - 1 /\ batch[c] = NewEvents(c, 1)
  /\ \A c \in Calls \ (1..past) :
       pc[c] = "fetch_snapshot" /\ reply[c] = "none" /\ batch[c] = <<>>
  /\ journal = [id \in Ids |-> journal[id]] /\ snapshots = [id \in Ids |-> snapshots[id]]
  /\ journal[account] = Past(past)
  /\ snapshots[account] =
       IF past > 0 THEN [state |-> EventsOf(Past(past)), version |-> past] ELSE NoSnapshot
  /\ movements[account] =
       {Movement(i, Payload(i)) : i \in {k \in 1..past : HasMovement(Payload(k))}}
  /\ \A id \in Ids \ {account} :
       journal[id] = <<>> /\ snapshots[id] = NoSnapshot /\ movements[id] = {}
  /\ disturbed = {} /\ DOMAIN movements = Ids /\ since = [c \in Calls |-> 0]

(* An initial state is one of a past and of the account it is of.          *)
LEMMA BankBegins ==
  ASSUME BankInit
  PROVE  \E past, account : Began(past, account)
  <1>1. PICK scenario \in Scenarios, account \in Ids :
    LET past == scenario.past
        done == [i \in 1..past |-> [version |-> i, event |-> <<i, 1>>]]
        isPast(c) == c \in 1..past
        on(id, there, elsewhere) == IF id = account /\ past > 0 THEN there ELSE elsewhere
    IN  /\ request = [c \in Calls |-> scenario.requests[c]]
        /\ pc = [c \in Calls |-> IF isPast(c) THEN "done" ELSE "fetch_snapshot"]
        /\ kind = [c \in Calls |-> KindOf(request[c].route)]
        /\ target \in {t \in [Calls -> Ids] : \A c \in 1..past : t[c] = account}
        /\ agg = [c \in Calls |->
                    IF isPast(c) THEN EventsOf(SubSeq(done, 1, c)) ELSE <<>>]
        /\ ver = [c \in Calls |-> IF isPast(c) THEN c - 1 ELSE 0]
        /\ batch = [c \in Calls |-> IF isPast(c) THEN NewEvents(c, 1) ELSE <<>>]
        /\ reply = [c \in Calls |-> IF isPast(c) THEN "ok" ELSE "none"]
        /\ journal = [id \in Ids |-> on(id, done, <<>>)]
        /\ snapshots = [id \in Ids |->
             on(id, [state |-> EventsOf(done), version |-> past], NoSnapshot)]
        /\ disturbed = {}
        /\ movements = [id \in Ids |->
             on(id, {Movement(i, Payload(i)) : i \in {k \in 1..past : HasMovement(Payload(k))}},
                {})]
        /\ unprojected = {}
        /\ since = [c \in Calls |-> 0]
    BY DEF BankInit
  <1>p. PICK past : past = scenario.past
    OBVIOUS
  <1>2. /\ past \in Nat /\ 1..past \subseteq Calls
        /\ \A c \in Calls : IsRequest(scenario.requests[c])
        /\ \A n \in 1..past : WasAccepted(scenario.requests, n)
    BY <1>p, ScenariosAssumption
  <1>3. [i \in 1..past |-> [version |-> i, event |-> <<i, 1>>]] = Past(past)
    BY DEF Past
  <1>4. /\ request = [c \in Calls |-> scenario.requests[c]]
        /\ pc = [c \in Calls |-> IF c \in 1..past THEN "done" ELSE "fetch_snapshot"]
        /\ kind = [c \in Calls |-> KindOf(request[c].route)]
        /\ target \in [Calls -> Ids] /\ \A c \in 1..past : target[c] = account
        /\ agg = [c \in Calls |->
                    IF c \in 1..past THEN EventsOf(SubSeq(Past(past), 1, c)) ELSE <<>>]
        /\ ver = [c \in Calls |-> IF c \in 1..past THEN c - 1 ELSE 0]
        /\ batch = [c \in Calls |-> IF c \in 1..past THEN NewEvents(c, 1) ELSE <<>>]
        /\ reply = [c \in Calls |-> IF c \in 1..past THEN "ok" ELSE "none"]
        /\ disturbed = {} /\ since = [c \in Calls |-> 0]
    BY <1>1, <1>p, <1>3
  <1>5. /\ journal = [id \in Ids |-> IF id = account /\ past > 0 THEN Past(past) ELSE <<>>]
        /\ snapshots = [id \in Ids |->
             IF id = account /\ past > 0
               THEN [state |-> EventsOf(Past(past)), version |-> past] ELSE NoSnapshot]
        /\ movements = [id \in Ids |->
             IF id = account /\ past > 0
               THEN {Movement(i, Payload(i)) : i \in {k \in 1..past : HasMovement(Payload(k))}}
               ELSE {}]
    BY <1>1, <1>p, <1>3
  <1>6. \A c \in Calls : request[c] = scenario.requests[c]
    BY <1>4
  <1>7. ASSUME NEW n \in 1..past PROVE WasAccepted(request, n)
    <2>1. /\ n \in Calls /\ n \in Nat /\ \A i \in 1..(n - 1) : i \in 1..past /\ i \in Calls
      BY <1>2
    <2>2. request[n] = scenario.requests[n]
          /\ \A i \in 1..(n - 1) : request[i] = scenario.requests[i]
      BY <1>6, <2>1
    <2>3. [i \in 1..(n - 1) |-> EventOf(CommandOf(request[i]))]
            = [i \in 1..(n - 1) |-> EventOf(CommandOf(scenario.requests[i]))]
      BY <2>2
    <2>4. WasAccepted(scenario.requests, n)
      BY <1>2
    <2>. QED BY <2>2, <2>3, <2>4 DEF WasAccepted
  <1>8. agg \in [Calls -> State] /\ batch \in [Calls -> State]
    <2>1. \A c \in 1..past : EventsOf(SubSeq(Past(past), 1, c)) \in State
      <3> SUFFICES ASSUME NEW c \in 1..past
                   PROVE  EventsOf(SubSeq(Past(past), 1, c)) \in State
        OBVIOUS
      <3>1. /\ Past(past) \in Seq(Envelope) /\ Len(Past(past)) = past
            /\ c \in Nat /\ c <= past /\ 1..c \subseteq Calls
        BY <1>2, PastIs
      <3>2. SubSeq(Past(past), 1, c) = [i \in 1..c |-> Past(past)[i]]
        BY <3>1, SubSeqFromOne
      <3>3. [i \in 1..c |-> Past(past)[i]] = Past(c)
        <4>1. \A i \in 1..c : i \in 1..past
          BY <1>2, <3>1
        <4>. QED BY <4>1 DEF Past
      <3>4. Past(c) \in Seq(Envelope)
        BY <3>1, PastIs
      <3>. QED BY <3>2, <3>3, <3>4, EventsOfType
    <2>2. \A c \in 1..past : NewEvents(c, 1) \in State
      <3>1. 1 \in 0..MaxEvents
        BY OneEventAssumption, MaxEventsAssumption
      <3>. QED BY <1>2, <3>1, NewEventsType
    <2>3. <<>> \in State
      BY EmptyState
    <2>. QED BY <1>4, <2>1, <2>2, <2>3
  <1>9. /\ pc \in [Calls -> Label] /\ ver \in [Calls -> Nat] /\ reply \in [Calls -> Reply]
    BY <1>2, <1>4 DEF Label, Reply
  <1>10. /\ journal[account] = Past(past)
         /\ snapshots[account] =
              IF past > 0 THEN [state |-> EventsOf(Past(past)), version |-> past]
                          ELSE NoSnapshot
         /\ movements[account] =
              {Movement(i, Payload(i)) : i \in {k \in 1..past : HasMovement(Payload(k))}}
    <2>1. CASE past > 0
      BY <1>5, <2>1
    <2>2. CASE past = 0
      <3>1. Past(past) = <<>>
        <4>1. Past(past) \in Seq(Envelope) /\ Len(Past(past)) = 0
          BY <1>2, <2>2, PastIs
        <4>. QED BY <4>1, EmptySeq
      <3>2. {k \in 1..past : HasMovement(Payload(k))} = {}
        BY <2>2
      <3>3. {Movement(i, Payload(i)) : i \in {k \in 1..past : HasMovement(Payload(k))}} = {}
        BY <3>2
      <3>4. ~ (past > 0)
        BY <2>2
      <3>. QED BY <1>5, <3>1, <3>3, <3>4
    <2>. QED BY <1>2, <2>1, <2>2
  <1>11. /\ \A id \in Ids \ {account} :
              journal[id] = <<>> /\ snapshots[id] = NoSnapshot /\ movements[id] = {}
         /\ journal = [id \in Ids |-> journal[id]]
         /\ snapshots = [id \in Ids |-> snapshots[id]] /\ DOMAIN movements = Ids
    BY <1>5
  <1>12. /\ \A c \in 1..past :
              /\ pc[c] = "done" /\ reply[c] = "ok" /\ target[c] = account
              /\ ver[c] = c - 1 /\ batch[c] = NewEvents(c, 1)
         /\ \A c \in Calls \ (1..past) :
              pc[c] = "fetch_snapshot" /\ reply[c] = "none" /\ batch[c] = <<>>
    BY <1>2, <1>4
  <1>13. \A c \in Calls : IsRequest(request[c])
    BY <1>2, <1>6
  <1>14. Began(past, account)
    BY <1>2, <1>4, <1>7, <1>8, <1>9, <1>10, <1>11, <1>12, <1>13 DEF Began
  <1>. QED BY <1>14

(* Such a state satisfies the invariant.                                   *)
LEMMA BeganIs ==
  ASSUME NEW past, NEW account, Began(past, account)
  PROVE  BankInv
  <1>p. PICK done : done = Past(past)
    OBVIOUS
  <1>1. /\ done \in Seq(Envelope) /\ Len(done) = past /\ DOMAIN done = 1..past
        /\ \A i \in 1..past : done[i].version = i /\ done[i].event = <<i, 1>>
        /\ Contiguous(done) /\ EventsOnce(done) /\ HasFirst(EventsOf(done), done, past)
    BY <1>p, PastIs DEF Began
  <1>2. /\ past \in Nat /\ 1..past \subseteq Calls /\ account \in Ids
        /\ \A i \in 1..past : IsRequest(request[i]) /\ Readable(i) /\ WasAccepted(request, i)
    BY DEF Began, WasAccepted, Readable
  <1>3. \A n \in 1..past : journal[account] = done => IsTaken(account, n)
    BY <1>p, <1>2, PastTaken DEF Began
  <1>4. EventsOf(done) \in State /\ Once(EventsOf(done))
        /\ Range(EventsOf(done)) = {done[i].event : i \in 1..past}
    BY <1>1 DEF HasFirst
  <1>5. \A c \in Calls :
          \/ /\ c \in 1..past /\ pc[c] = "done" /\ reply[c] = "ok" /\ target[c] = account
             /\ ver[c] = c - 1 /\ batch[c] = NewEvents(c, 1)
          \/ /\ c \notin 1..past /\ pc[c] = "fetch_snapshot"
             /\ reply[c] = "none" /\ batch[c] = <<>>
    BY DEF Began
  <1>6. \A id \in Ids :
          \/ /\ id = account /\ journal[id] = done
             /\ \/ past > 0 /\ snapshots[id] = [state |-> EventsOf(done), version |-> past]
                \/ past = 0 /\ snapshots[id] = NoSnapshot
             /\ movements[id] =
                  {Movement(i, Payload(i)) : i \in {k \in 1..past : HasMovement(Payload(k))}}
          \/ id # account /\ journal[id] = <<>> /\ snapshots[id] = NoSnapshot
             /\ movements[id] = {}
    BY <1>p, <1>2 DEF Began
  <1>7. <<>> \in Seq(Envelope) /\ Len(<<>>) = 0 /\ DOMAIN <<>> = {}
    BY EmptySeq
  <1>8. CallTypeOK
    <2>1. kind \in [Calls -> {"create", "update"}]
      BY DEF Began, KindOf
    <2>. QED BY <2>1 DEF Began, CallTypeOK
  <1>9. StoreTypeOK
    <2>1. ASSUME NEW id \in Ids
          PROVE  journal[id] \in Seq(Envelope) /\ snapshots[id] \in Snapshot \cup {NoSnapshot}
      <3>1. journal[id] \in Seq(Envelope)
        BY <1>1, <1>6, <1>7
      <3>2. [state |-> EventsOf(done), version |-> past] \in Snapshot
        BY <1>2, <1>4 DEF Snapshot
      <3>. QED BY <1>6, <3>1, <3>2
    <2>2. /\ journal = [id \in Ids |-> journal[id]]
          /\ snapshots = [id \in Ids |-> snapshots[id]]
      BY DEF Began
    <2>. QED BY <2>1, <2>2 DEF StoreTypeOK
  <1>10. ASSUME NEW id \in Ids
         PROVE  EventsOnce(journal[id]) /\ Backed(snapshots[id], journal[id])
    <2>1. CASE journal[id] = done
      <3>1. ASSUME snapshots[id] = [state |-> EventsOf(done), version |-> past]
            PROVE  BackedUpTo(snapshots[id].state, journal[id], snapshots[id].version)
        <4>1. ASSUME NEW i \in DOMAIN EventsOf(done)
              PROVE  \E k \in DOMAIN done :
                       done[k].event = EventsOf(done)[i] /\ done[k].version <= past
          <5>1. EventsOf(done)[i] \in Range(EventsOf(done))
            BY DEF Range
          <5>2. PICK k \in 1..past : done[k].event = EventsOf(done)[i]
            BY <1>4, <5>1
          <5>3. k <= past /\ done[k].version = k
            BY <1>1, <1>2
          <5>. QED BY <1>1, <5>2, <5>3
        <4>. QED BY <2>1, <3>1, <4>1 DEF BackedUpTo
      <3>2. snapshots[id] = [state |-> EventsOf(done), version |-> past]
            \/ snapshots[id] = NoSnapshot
        BY <1>6
      <3>3. snapshots[id] = [state |-> EventsOf(done), version |-> past] =>
              Once(snapshots[id].state)
        BY <1>4
      <3>. QED BY <1>1, <2>1, <3>1, <3>2, <3>3 DEF Backed
    <2>2. CASE journal[id] = <<>> /\ snapshots[id] = NoSnapshot
      BY <1>7, <2>2 DEF EventsOnce, Backed
    <2>. QED BY <1>6, <2>1, <2>2
  <1>11. ASSUME NEW c \in Calls PROVE CallInv(c)
    <2>1. CASE c \in 1..past
      <3>1. /\ pc[c] = "done" /\ reply[c] = "ok" /\ target[c] = account
            /\ ver[c] = c - 1 /\ batch[c] = NewEvents(c, 1)
        BY <1>5, <2>1
      <3>2. 1 \in 0..MaxEvents
        BY OneEventAssumption, MaxEventsAssumption
      <3>3. journal[account] = done
        BY <1>2, <1>6
      <3>4. done[c] = [version |-> ver[c] + 1, event |-> <<c, 1>>]
        <4>1. ver[c] + 1 = c
          BY <1>2, <2>1, <3>1
        <4>. QED BY <1>p, <2>1, <4>1 DEF Past
      <3>5. \A m \in DOMAIN done \ {c} : done[m].event # <<c, 1>>
        BY <1>1, <2>1 DEF EventsOnce
      <3>6. DOMAIN batch[c] = {1} /\ batch[c][1] = <<c, 1>>
        BY <3>1 DEF NewEvents
      <3>7. Holds(c)
        BY <1>1, <2>1, <3>1, <3>3, <3>4, <3>5, <3>6 DEF Holds
      <3>. QED BY <3>1, <3>2, <3>7 DEF CallInv, Unwritten, Working
    <2>2. CASE c \notin 1..past
      <3>1. pc[c] = "fetch_snapshot" /\ reply[c] = "none" /\ batch[c] = <<>>
        BY <1>5, <2>2
      <3>2. 0 \in 0..MaxEvents /\ <<>> = NewEvents(c, 0)
        BY MaxEventsAssumption DEF NewEvents
      <3>3. NoEventsOf(c)
        <4>1. \A i \in 1..past : done[i].event[1] = i
          BY <1>1
        <4>. QED BY <1>1, <1>6, <1>7, <2>2, <4>1 DEF NoEventsOf
      <3>. QED BY <3>1, <3>2, <3>3 DEF CallInv, Written, Working, Answered
    <2>. QED BY <2>1, <2>2
  <1>12. MInv
    BY <1>8, <1>9, <1>10, <1>11 DEF MInv
  <1>13. ASSUME NEW id \in Ids PROVE ExactFor(id)
    <2>1. \A c \in Calls : Current(c) /\ ~ InFlight(c) /\ ~ Writing(c)
      BY <1>5 DEF Current, InFlight, Writing
    <2>2. Contiguous(journal[id])
      BY <1>1, <1>6, <1>7 DEF Contiguous
    <2>3. Exact(journal[id], snapshots[id])
      <3>1. CASE past = 0 /\ journal[id] = done /\ snapshots[id] = NoSnapshot
        BY <1>1, <3>1, EmptySeq DEF Exact
      <3>. QED BY <1>1, <1>6, <3>1 DEF Exact
    <2>. QED BY <2>1, <2>2, <2>3 DEF ExactFor
  <1>14. EInv
    BY <1>12, <1>13 DEF EInv
  <1>15. ASSUME NEW c \in Calls PROVE Served(c)
    <2>1. IsRequest(request[c]) /\ kind[c] = KindOf(request[c].route) /\ since[c] = 0
      BY DEF Began
    <2>2. target[c] \in Ids /\ journal[target[c]] \in Seq(Envelope)
      BY <1>8, <1>9 DEF CallTypeOK, StoreTypeOK
    <2>3. since[c] \in 0..Len(journal[target[c]])
      BY <2>1, <2>2, LenProperties
    <2>. QED BY <1>2, <1>5, <2>1, <2>3 DEF Served, Decided, Answered
  <1>16. ASSUME NEW id \in Ids PROVE Made(id)
    <2>1. CASE id = account /\ journal[id] = done
      <3>1. ASSUME NEW i \in 1..past
            PROVE  MadeBy(done[i].event[1], id, done[i].event)
        <4>1. done[i].event = <<i, 1>> /\ done[i].event[1] = i
          BY <1>1
        <4>. QED BY <1>2, <1>5, <2>1, <4>1 DEF MadeBy
      <3>. QED BY <1>1, <2>1, <3>1 DEF Made
    <2>2. CASE journal[id] = <<>>
      BY <1>7, <2>2 DEF Made
    <2>. QED BY <1>6, <2>1, <2>2
  <1>17. ASSUME NEW id \in Ids PROVE MovementsMade(id) /\ Saved(id)
    <2>1. CASE /\ id = account /\ journal[id] = done
               /\ movements[id] = {Movement(i, Payload(i)) :
                                     i \in {k \in 1..past : HasMovement(Payload(k))}}
      <3>1. \A i \in 1..past : done[i].version = i /\ done[i].event[1] = i
        BY <1>1
      <3>. QED BY <1>1, <2>1, <3>1 DEF MovementsMade, MovesBy, Saved
    <2>2. CASE journal[id] = <<>> /\ movements[id] = {}
      BY <1>7, <2>2 DEF MovementsMade, Saved
    <2>. QED BY <1>6, <2>1, <2>2
  <1>18. ASSUME NEW id \in Ids PROVE Ordered(id)
    <2>1. Contiguous(journal[id])
      BY <1>1, <1>6, <1>7 DEF Contiguous
    <2>2. \A n \in DOMAIN journal[id] : IsTaken(id, n)
      BY <1>1, <1>3, <1>6, <1>7
    <2>3. snapshots[id] # NoSnapshot =>
            HasFirst(snapshots[id].state, journal[id], snapshots[id].version)
      BY <1>1, <1>6
    <2>. QED BY <2>1, <2>2, <2>3 DEF Ordered
  <1>19. \A c \in Calls : Grounded(c) /\ Conflicts(c)
    BY <1>5 DEF Grounded, Conflicts, Answered
  <1>20. DOMAIN movements = Ids /\ DOMAIN since = Calls
    BY DEF Began
  <1>. QED BY <1>14, <1>15, <1>16, <1>17, <1>18, <1>19, <1>20 DEF BankInv, Straight

(* The bank begins in the invariant.                                       *)
LEMMA BankInvInitially == BankInit => BankInv
  BY BankBegins, BeganIs

-----------------------------------------------------------------------------
(* The ledger of an account, and the events behind a load of it.           *)
LEMMA LedgerReads ==
  ASSUME NEW id \in Ids, journal[id] \in Seq(Envelope), Made(id)
  PROVE  /\ Ledger(id) \in Seq(AccountEvents) /\ Len(Ledger(id)) = Len(journal[id])
         /\ DOMAIN Ledger(id) = 1..Len(journal[id]) /\ Len(journal[id]) \in Nat
         /\ \A i \in 1..Len(journal[id]) : Ledger(id)[i] = Payload(journal[id][i].event[1])
         /\ \A m \in 0..Len(journal[id]) :
              SubSeq(Ledger(id), 1, m) = Payloads(Replay(journal[id], m))
  <1> DEFINE j == journal[id]
             p == Ledger(id)
  <1>1. /\ EventsOf(j) \in State /\ Len(EventsOf(j)) = Len(j) /\ Legible(EventsOf(j))
        /\ \A i \in 1..Len(j) : EventsOf(j)[i] = j[i].event
    BY EventsOfType, MadeIsLegible
  <1>2. DOMAIN EventsOf(j) = 1..Len(j) /\ Len(j) \in Nat
    BY <1>1, LenProperties DEF State
  <1>3. /\ p \in Seq(AccountEvents) /\ Len(p) = Len(j)
        /\ \A i \in 1..Len(j) : p[i] = Payload(j[i].event[1])
    BY <1>1, <1>2, PayloadsOf DEF Ledger
  <1> HIDE DEF p
  <1>4. DOMAIN p = 1..Len(j)
    BY <1>3, LenProperties
  <1>5. ASSUME NEW m \in 0..Len(j) PROVE SubSeq(p, 1, m) = Payloads(Replay(j, m))
    <2>1. SubSeq(p, 1, m) = [i \in 1..m |-> p[i]]
      BY <1>2, <1>3, SubSeqFromOne
    <2>2. Payloads(Replay(j, m)) = [i \in 1..m |-> Payload(j[i].event[1])]
      BY DEF Payloads, Replay
    <2>3. \A i \in 1..m : i \in 1..Len(j)
      BY <1>2
    <2>. QED BY <1>3, <2>1, <2>2, <2>3
  <1>. QED BY <1>2, <1>3, <1>4, <1>5 DEF p

(* The orders in which an account's events may have been applied are       *)
(* streams of them that can be read.                                       *)
LEMMA OrderIs ==
  ASSUME NEW id \in Ids, journal[id] \in Seq(Envelope), Made(id),
         NEW n \in 0..Len(journal[id]), NEW order \in Orders(id, n)
  PROVE  /\ order \in State /\ Len(order) = n /\ DOMAIN order = 1..n /\ Legible(order)
         /\ Range(order) = {journal[id][i].event : i \in 1..n}
  <1> DEFINE j == journal[id]
             first == {j[i].event : i \in 1..n}
  <1>1. n \in Nat /\ Len(j) \in Nat /\ DOMAIN j = 1..Len(j) /\ \A i \in 1..n : i \in DOMAIN j
    BY LenProperties
  <1>2. order \in [1..n -> first] /\ Range(order) = first
    BY <1>1, ReplayIsOrder DEF Orders
  <1>3. \A i \in 1..n : j[i].event \in Event
    <2>1. \A i \in 1..n : j[i] \in Envelope
      BY <1>1, ElementOfSeq
    <2>. QED BY <2>1 DEF Envelope
  <1>4. order \in [1..n -> Event]
    BY <1>2, <1>3
  <1>5. order \in State /\ Len(order) = n /\ DOMAIN order = 1..n
    BY <1>1, <1>4, FunctionIsSeq DEF State
  <1>6. ASSUME NEW i \in 1..n
        PROVE  /\ order[i][1] \in Calls /\ IsRequest(request[order[i][1]])
               /\ Readable(order[i][1])
    <2>1. PICK k \in 1..n : order[i] = j[k].event
      BY <1>2
    <2>. QED BY <1>1, <2>1 DEF Made, MadeBy
  <1>. QED BY <1>2, <1>5, <1>6 DEF Legible

(* Nothing follows a closing: whoever came after it had it applied.        *)
LEMMA ClosedIsLast ==
  ASSUME NEW id \in Ids, journal[id] \in Seq(Envelope), Made(id),
         \A n \in DOMAIN journal[id] : IsTaken(id, n),
         NEW n \in 1..Len(journal[id]), Ledger(id)[n].type = "Closed"
  PROVE  n = Len(journal[id])
  <1> SUFFICES ASSUME n # Len(journal[id]) PROVE FALSE
    OBVIOUS
  <1> DEFINE j == journal[id]
  <1>1. Len(j) \in Nat /\ DOMAIN j = 1..Len(j)
    BY LenProperties
  <1>2. n \in Nat /\ n + 1 \in 1..Len(j) /\ n \in 0..Len(j) /\ n + 1 # 1 /\ (n + 1) - 1 = n
    BY <1>1
  <1>c. PICK command : command = Command(j[n + 1].event[1])
    OBVIOUS
  <1>3. \E order \in Orders(id, n) : HandleUpdate(Account(Payloads(order)), command).ok
    BY <1>1, <1>2, <1>c DEF IsTaken
  <1>4. PICK order \in Orders(id, n) : HandleUpdate(Account(Payloads(order)), command).ok
    BY <1>3
  <1>5. /\ order \in State /\ Len(order) = n /\ DOMAIN order = 1..n /\ Legible(order)
        /\ Range(order) = {j[i].event : i \in 1..n}
    BY <1>2, OrderIs
  <1>p. PICK p : p = Payloads(order)
    OBVIOUS
  <1>6. /\ p \in Seq(AccountEvents) /\ Len(p) = n
        /\ \A i \in 1..n : p[i] = Payload(order[i][1])
    BY <1>5, <1>p, PayloadsOf
  <1>7. \E k \in 1..n : p[k].type = "Closed"
    <2>1. n \in 1..n
      BY <1>2
    <2>2. j[n].event \in Range(order)
      BY <1>5, <2>1
    <2>3. PICK k \in 1..n : order[k] = j[n].event
      BY <1>5, <2>2 DEF Range
    <2>4. Payload(order[k][1]) = Ledger(id)[n]
      BY <2>3, LedgerReads
    <2>. QED BY <1>6, <2>4
  <1>8. PICK h : Replayed(h, p) /\ Account(p) = h[Len(p)]
    BY <1>6, AccountIs
  <1>9. h[n].closed <=> \E k \in 1..n : p[k].type = "Closed"
    <2>1. n \in 0..Len(p)
      BY <1>2, <1>6
    <2>. QED BY <1>6, <1>8, <2>1, AccountOfFirst
  <1>10. Account(p).closed
    BY <1>6, <1>7, <1>8, <1>9
  <1>11. ~ AccountError("AccountClosed").ok
    BY DEF AccountError, Raises
  <1>. QED BY <1>4, <1>p, <1>10, <1>11 DEF HandleUpdate

(* Where no load had to order several events, only a negative deposit      *)
(* overdraws.                                                              *)
LEMMA OnlyDepositsOverdraw ==
  ASSUME NEW id \in Ids, journal[id] \in Seq(Envelope), Made(id), id \notin disturbed,
         \A n \in DOMAIN journal[id] : IsTaken(id, n),
         NEW n \in 1..Len(journal[id]), Balance(id, n) < 0
  PROVE  \E k \in 1..n : DepositedNegative(journal[id][k].event[1])
  <1> DEFINE j == journal[id]
             p == Ledger(id)
             Overdrawn(m) == \E k \in 1..m : DepositedNegative(j[k].event[1])
  <1>1. /\ p \in Seq(AccountEvents) /\ Len(p) = Len(j) /\ Len(j) \in Nat
        /\ \A i \in 1..Len(j) : p[i] = Payload(j[i].event[1])
        /\ \A m \in 0..Len(j) : SubSeq(p, 1, m) = Payloads(Replay(j, m))
    BY LedgerReads
  <1>2. DOMAIN j = 1..Len(j)
    BY LenProperties
  <1> HIDE DEF p
  <1>3. PICK h : Replayed(h, p)
    BY <1>1, AccountIs
  <1>4. \A m \in 0..Len(j) : Account(SubSeq(p, 1, m)) = h[m]
    BY <1>1, <1>3, AccountOfFirst
  <1>5. h[0].amount = 0 /\ \A m \in 1..Len(j) : m - 1 \in 0..Len(j) /\ m \in 0..Len(j)
    BY <1>1, <1>3 DEF Replayed, DefaultAccount
  <1> DEFINE T == {m \in 0..Len(j) : h[m].amount < 0 => Overdrawn(m)}
  <1>6. 0 \in T
    BY <1>1, <1>5
  <1>7. ASSUME NEW m \in 1..Len(j), m - 1 \in T
        PROVE  m \in T
    <2>d. PICK d : d = j[m].event[1]
      OBVIOUS
    <2>1. /\ d \in Calls /\ IsRequest(request[d]) /\ Readable(d) /\ p[m] = Payload(d)
      BY <1>1, <1>2, <2>d DEF Made, MadeBy
    <2>2. /\ Command(d).type = request[d].route
          /\ request[d].route \in {"Create", "Deposit", "Withdraw", "Close"}
          /\ request[d].route \in {"Deposit", "Withdraw"} => Amount(Command(d)) \in Floats
          /\ EventOf(Command(d)) \in AccountEvents /\ p[m] = EventOf(Command(d))
      BY <2>1, CommandIs DEF Readable, Command, Payload
    <2>3. h[m - 1] \in AccountState /\ h[m] = Apply(h[m - 1], p[m])
      BY <1>1, <1>3, <1>5 DEF Replayed
    <2>4. h[m].amount = Plus(h[m - 1].amount, Gain(p[m]))
      BY <2>2, <2>3, ApplyIs
    <2>5. h[m - 1].amount < 0 => Overdrawn(m)
      <3>1. h[m - 1].amount < 0 => Overdrawn(m - 1)
        BY <1>7
      <3>2. \A k \in 1..(m - 1) : k \in 1..m
        BY <1>1
      <3>. QED BY <3>1, <3>2
    <2>6. CASE Command(d).type = "Create"
      <3>1. Gain(p[m]) = 0
        BY <2>2, <2>6 DEF EventOf, Gain
      <3>2. h[m - 1].amount \in Floats
        BY <2>3 DEF AccountState
      <3>3. h[m].amount = h[m - 1].amount
        BY <2>4, <3>1, <3>2, FloatsAssumption, PlusIs
      <3>. QED BY <1>5, <2>5, <3>3
    <2>7. CASE Command(d).type # "Create"
      <3>1. HandleUpdate(Account(Payloads(Replay(j, m - 1))), Command(d)).ok
        BY <1>2, <2>7, <2>d DEF IsTaken, Orders
      <3>2. Account(Payloads(Replay(j, m - 1))) = h[m - 1]
        BY <1>1, <1>4, <1>5
      <3>3. HandleUpdate(h[m - 1], Command(d)).ok
        BY <3>1, <3>2
      <3>4. h[m].amount < 0 => h[m - 1].amount < 0 \/ DepositedNegative(d)
        BY <2>2, <2>3, <2>4, <2>7, <3>3, AcceptedIs DEF DepositedNegative
      <3>5. DepositedNegative(d) => Overdrawn(m)
        <4>1. m \in 1..m
          BY <1>1
        <4>. QED BY <2>d, <4>1
      <3>. QED BY <1>5, <2>5, <3>4, <3>5
    <2>. QED BY <2>6, <2>7
  <1> HIDE DEF T
  <1>8. \A m \in 0..Len(j) : m \in T
    BY <1>1, <1>6, <1>7, UpTo
  <1>9. n \in T /\ h[n].amount < 0
    BY <1>4, <1>5, <1>8 DEF Balance, p
  <1>. QED BY <1>9 DEF T

(* As long as no version was written twice, every entry of an account is   *)
(* of a command that its HandleUpdate accepts after exactly the entries    *)
(* before it, in an order in which a load may have read them, although it  *)
(* decides on a state read long before its event is inserted.  So nothing  *)
(* follows a closing, and where no load had to order several events only a *)
(* negative deposit overdraws.                                             *)
THEOREM LedgersAreExplained == BankSpec => []LedgerIsExplained
  <1>1. BankInv => LedgerIsExplained
    <2> SUFFICES ASSUME BankInv, NEW id \in Ids, ~ Forked(id)
                 PROVE  /\ \A n \in DOMAIN Ledger(id) : IsTaken(id, n)
                        /\ \A n \in DOMAIN Ledger(id) :
                             Ledger(id)[n].type = "Closed" => n = Len(Ledger(id))
                        /\ id \notin disturbed => \A n \in DOMAIN Ledger(id) :
                             Balance(id, n) < 0 =>
                               \E k \in 1..n : DepositedNegative(journal[id][k].event[1])
      BY DEF LedgerIsExplained
    <2>1. /\ journal[id] \in Seq(Envelope) /\ Made(id)
          /\ \A n \in DOMAIN journal[id] : IsTaken(id, n)
      BY DEF BankInv, Straight, Ordered, EInv, MInv, StoreTypeOK
    <2>2. /\ DOMAIN journal[id] = 1..Len(journal[id]) /\ Len(Ledger(id)) = Len(journal[id])
          /\ DOMAIN Ledger(id) = 1..Len(journal[id])
      BY <2>1, LedgerReads, LenProperties
    <2>3. \A n \in DOMAIN Ledger(id) :
            Ledger(id)[n].type = "Closed" => n = Len(Ledger(id))
      BY <2>1, <2>2, ClosedIsLast
    <2>4. id \notin disturbed => \A n \in DOMAIN Ledger(id) :
            Balance(id, n) < 0 =>
              \E k \in 1..n : DepositedNegative(journal[id][k].event[1])
      BY <2>1, <2>2, OnlyDepositsOverdraw
    <2>. QED BY <2>1, <2>2, <2>3, <2>4
  <1>. QED BY <1>1, BankInvInitially, BankInvKept, PTL DEF BankSpec

-----------------------------------------------------------------------------
(* What a client is told.                                                  *)

(* A refusal of the account is an error made of a code.                    *)
LEMMA RefusalIs ==
  ASSUME NEW account, NEW command, ~ HandleUpdate(account, command).ok
  PROVE  \E code : HandleUpdate(account, command).error = FromCode(code)
  <1>1. \A name : \E code : AccountError(name).error = FromCode(code)
    BY DEF AccountError, Raises, DomainError
  <1>2. Returns(EventOf(command)).ok
    BY DEF Returns
  <1>3. \E name : HandleUpdate(account, command) = AccountError(name)
    BY <1>2 DEF HandleUpdate
  <1>. QED BY <1>1, <1>3

(* An error is answered with its status, whatever the request was.         *)
LEMMA StatusOf ==
  ASSUME NEW code, NEW id
  PROVE  /\ HttpStatus(WithRequestIdIfAbsent(FromCode(code), id)) = HttpStatus(FromCode(code))
         /\ code.status \in StatusCode => HttpStatus(FromCode(code)) = code.status
  <1>1. WithRequestIdIfAbsent(FromCode(code), id).status = FromCode(code).status
    BY DEF WithRequestIdIfAbsent, FromCode
  <1>. QED BY <1>1 DEF HttpStatus, FromCode

(* A 400 or 410 is the account's own refusal.                              *)
LEMMA ToldBy ==
  ASSUME NEW c \in Calls, Served(c), reply[c] \in Reply \ {"none", "cancelled"},
         Extracted(request[c].body), Response(c).status \in {400, 410}
  PROVE  /\ reply[c] = "user_error" /\ Readable(c)
         /\ \A code : Outcome(c).error = FromCode(code) =>
              Response(c).status = HttpStatus(Outcome(c).error)
  <1> DEFINE refused == IF Readable(c) /\ reply[c] = "user_error" THEN Outcome(c).error
                                                                  ELSE Unprocessable
             error == WithRequestIdIfAbsent(ErrorOf(reply[c], refused), c)
  <1>1. reply[c] # "ok" => Response(c).status = HttpStatus(error)
    BY DEF Response, Respond
  <1>2. reply[c] # "ok"
    <2> SUFFICES ASSUME reply[c] = "ok" PROVE FALSE
      OBVIOUS
    <2>1. Response(c).status = RouteOf(request[c]).success
      BY DEF Response, Respond
    <2>2. RouteOf(request[c]) \in AccountRoutes
      <3>1. \E route \in AccountRoutes : request[c].route = route.discriminator
        BY DEF Served, IsRequest
      <3>. QED BY <3>1 DEF RouteOf
    <2>3. RouteOf(request[c]).success \in {200, 201}
      BY <2>2 DEF AccountRoutes, Routes
    <2>. QED BY <2>1, <2>3
  <1>3. ASSUME NEW code, code.status \in StatusCode \ {400, 410}
        PROVE  ErrorOf(reply[c], refused) # FromCode(code)
    <2> SUFFICES ASSUME ErrorOf(reply[c], refused) = FromCode(code) PROVE FALSE
      OBVIOUS
    <2>1. HttpStatus(error) = code.status
      BY <1>3, StatusOf
    <2>. QED BY <1>1, <1>2, <1>3, <2>1
  <1>4. \A name \in {"Conflict", "AggregateNotFound", "ConcurrencyError", "DatabaseError"} :
          \E code : Infrastructure(name) = FromCode(code)
                    /\ code.status \in StatusCode \ {400, 410}
    BY DEF Infrastructure, Code, InfrastructureStatus, StatusCode
  <1>5. \E code : Unprocessable = FromCode(code) /\ code.status \in StatusCode \ {400, 410}
    BY DEF Unprocessable, Later, Code, LaterStatus, StatusCode
  <1>6. \A name \in {"Conflict", "AggregateNotFound", "ConcurrencyError", "DatabaseError"} :
          ErrorOf(reply[c], refused) # Infrastructure(name)
    BY <1>3, <1>4
  <1>7. ErrorOf(reply[c], refused) # Unprocessable
    BY <1>3, <1>5
  <1> HIDE DEF refused
  <1>8. reply[c] = "user_error"
    BY <1>2, <1>6 DEF ErrorOf, Reply
  <1>9. ErrorOf(reply[c], refused) = refused
    BY <1>8 DEF ErrorOf
  <1>10. Readable(c) /\ refused = Outcome(c).error
    BY <1>7, <1>8, <1>9 DEF refused
  <1>11. ASSUME NEW code, Outcome(c).error = FromCode(code)
         PROVE  Response(c).status = HttpStatus(Outcome(c).error)
    BY <1>1, <1>2, <1>9, <1>10, <1>11, StatusOf
  <1>. QED BY <1>8, <1>10, <1>11

(* A refusal is the truth at some moment since the request arrived: its    *)
(* 400 or 410 is what HandleUpdate would have answered then, and a         *)
(* conflict means that another event came first, or that the aggregate was *)
(* disturbed.                                                              *)
THEOREM RefusalsAreTruthful == BankSpec => []RefusalsAreTrue
  <1>1. BankInv => RefusalsAreTrue
    <2> SUFFICES ASSUME BankInv, NEW c \in Calls, pc[c] = "done", ~ Forked(target[c]),
                        NEW id, id = target[c], NEW count, count = Len(journal[id])
                 PROVE  /\ /\ reply[c] # "cancelled" /\ Extracted(request[c].body)
                           /\ Response(c).status \in {400, 410}
                           => \E n \in since[c]..count : RefusedAfter(c, n)
                        /\ reply[c] = "concurrency_error" =>
                             since[c] < count \/ id \in disturbed
      BY DEF RefusalsAreTrue
    <2>1. /\ id \in Ids /\ journal[id] \in Seq(Envelope) /\ EventsOnce(journal[id])
          /\ reply[c] \in Reply /\ Made(id) /\ Served(c)
      BY DEF BankInv, EInv, MInv, CallTypeOK, StoreTypeOK
    <2>2. Grounded(c) /\ Conflicts(c)
      BY <2>1 DEF BankInv, Straight
    <2>3. reply[c] = "concurrency_error" => since[c] < count \/ id \in disturbed
      BY <2>2 DEF Conflicts
    <2>4. ASSUME reply[c] # "cancelled", Extracted(request[c].body), Response(c).status \in {400, 410}
          PROVE  \E n \in since[c]..count : RefusedAfter(c, n)
      <3>1. reply[c] \in Reply \ {"none", "cancelled"}
        BY <2>1, <2>4 DEF Served
      <3>2. /\ reply[c] = "user_error" /\ Readable(c)
            /\ \A code : Outcome(c).error = FromCode(code) =>
                 Response(c).status = HttpStatus(Outcome(c).error)
        BY <2>1, <2>4, <3>1, ToldBy
      <3>3. PICK n \in Nat : Denies(c, agg[c], n)
        BY <2>2, <3>2 DEF Grounded, Answered
      <3>4. /\ kind[c] = "update" /\ since[c] <= n /\ HasFirst(agg[c], journal[id], n)
            /\ ~ HandleUpdate(Account(Payloads(agg[c])), Command(c)).ok
        BY <3>3 DEF Denies
      <3>5. n \in since[c]..count
        BY <2>1, <3>4, LenProperties DEF HasFirst, Served
      <3>6. agg[c] \in Orders(id, n)
        <4>1. id \notin disturbed => agg[c] = Replay(journal[id], n)
          BY <3>3 DEF Denies
        <4>. QED BY <2>1, <3>4, <4>1, HeldIsOrder
      <3>7. Outcome(c) = HandleUpdate(Account(Payloads(agg[c])), Command(c))
        BY <3>4 DEF Outcome
      <3>8. \E code : Outcome(c).error = FromCode(code)
        BY <3>4, <3>7, RefusalIs
      <3>9. Response(c).status = HttpStatus(Outcome(c).error)
        BY <3>2, <3>8
      <3>10. RefusedAfter(c, n)
        BY <3>4, <3>6, <3>7, <3>9 DEF RefusedAfter
      <3>. QED BY <3>5, <3>10
    <2>. QED BY <2>3, <2>4
  <1>. QED BY <1>1, BankInvInitially, BankInvKept, PTL DEF BankSpec

-----------------------------------------------------------------------------
(* What the movements add up to.                                           *)

(* The total is what the movements of the versions make of it, one by one. *)
NextTotal(a, moved, v) ==
  IF v = 0 THEN DefaultAccount.amount
  ELSE IF {m \in moved : m.version = v} = {} THEN a[v - 1]
  ELSE Plus(a[v - 1], (CHOOSE m \in {m \in moved : m.version = v} : TRUE).amount)

LEMMA TotalIs ==
  ASSUME NEW moved, NEW n \in Nat, NEW a, a = [v \in 0..n |-> NextTotal(a, moved, v)]
  PROVE  Total(moved, n) = a[n]
  <1> DEFINE of(v) == {m \in moved : m.version = v}
             next(f, v) == IF v = 0 THEN DefaultAccount.amount
                           ELSE IF of(v) = {} THEN f[v - 1]
                           ELSE Plus(f[v - 1], (CHOOSE m \in of(v) : TRUE).amount)
             total == CHOOSE f : f = [v \in 0..n |-> next(f, v)]
  <1>1. Total(moved, n) = total[n]
    BY Zenon DEF Total
  <1>2. \A f : \A v \in 0..n : next(f, v) = NextTotal(f, moved, v)
    BY DEF NextTotal
  <1> HIDE DEF next
  <1>3. a = [v \in 0..n |-> next(a, v)]
    BY <1>2
  <1>4. total = [v \in 0..n |-> next(total, v)]
    BY <1>3, Zenon
  <1> HIDE DEF total
  <1>5. \A v \in 0..n : total[v] = NextTotal(total, moved, v) /\ a[v] = NextTotal(a, moved, v)
    BY <1>2, <1>3, <1>4
  <1>6. GoAlike(total, a, n)
    <2>1. total[0] = a[0]
      BY <1>5 DEF NextTotal
    <2>2. ASSUME NEW v \in 1..n, total[v - 1] = a[v - 1] PROVE total[v] = a[v]
      <3>1. v # 0 /\ v \in 0..n
        OBVIOUS
      <3>2. NextTotal(total, moved, v) = NextTotal(a, moved, v)
        BY <2>2, <3>1, Zenon DEF NextTotal
      <3>. QED BY <1>5, <3>1, <3>2
    <2>. QED BY <2>1, <2>2 DEF GoAlike
  <1>. QED BY <1>1, <1>6, SameUpTo

(* What a movement records of its event is what the event added.           *)
LEMMA MovementIs ==
  ASSUME NEW event \in AccountEvents, NEW version
  PROVE  /\ Movement(version, event).version = version
         /\ HasMovement(event) => Movement(version, event).amount = Gain(event)
         /\ ~ HasMovement(event) => Gain(event) = 0
  <1>1. event.type \in {"AccountCreated", "Closed", "Deposited", "Withdrawn"}
    BY DEF AccountEvents
  <1>. QED BY <1>1 DEF Movement, HasMovement, Gain

(* The movements of an account are those of its journal, and add up.       *)
LEMMA MovementsSum ==
  ASSUME BankInv, NEW id \in Ids, ~ Forked(id),
         \A i \in DOMAIN journal[id] : Projected(journal[id][i].event[1])
  PROVE  Total(movements[id], Len(Ledger(id))) = Balance(id, Len(Ledger(id)))
  <1>j. PICK j : j = journal[id]
    OBVIOUS
  <1>p. PICK p : p = Ledger(id)
    OBVIOUS
  <1>n. PICK n : n = Len(j)
    OBVIOUS
  <1>s. PICK S : S = movements[id]
    OBVIOUS
  <1>1. /\ j \in Seq(Envelope) /\ Made(id) /\ Contiguous(j) /\ Saved(id) /\ MovementsMade(id)
    BY <1>j DEF BankInv, Straight, Ordered, EInv, MInv, StoreTypeOK
  <1>2. /\ EventsOf(j) \in State /\ Len(EventsOf(j)) = n /\ Legible(EventsOf(j))
        /\ \A i \in 1..n : EventsOf(j)[i] = j[i].event
    BY <1>1, <1>j, <1>n, EventsOfType, MadeIsLegible
  <1>3. n \in Nat /\ DOMAIN j = 1..n /\ DOMAIN EventsOf(j) = 1..n
    BY <1>1, <1>2, <1>n, LenProperties DEF State
  <1>4. /\ p \in Seq(AccountEvents) /\ Len(p) = n
        /\ \A i \in 1..n : p[i] = Payload(j[i].event[1])
    BY <1>2, <1>3, <1>j, <1>p, PayloadsOf DEF Ledger
  <1>5. \A i \in 1..n : p[i] \in AccountEvents
    BY <1>4, ElementOfSeq
  <1>6. \A i \in 1..n : j[i].version = i
    BY <1>1, <1>3 DEF Contiguous
  <1>7. PICK h : Replayed(h, p)
    BY <1>4, AccountIs
  <1>a. PICK a : a = [v \in 0..n |-> h[v].amount]
    OBVIOUS
  <1>8. ASSUME NEW v \in 1..n
        PROVE  a[v] = NextTotal(a, S, v)
    <2> DEFINE of == {m \in S : m.version = v}
    <2>1. v - 1 \in 0..n /\ v \in 0..n /\ v # 0
      BY <1>3
    <2>2. h[v] = Apply(h[v - 1], p[v]) /\ h[v - 1] \in AccountState /\ p[v] \in AccountEvents
      BY <1>4, <1>5, <1>7, <2>1 DEF Replayed
    <2>3. a[v] = Plus(a[v - 1], Gain(p[v])) /\ a[v - 1] \in Floats
      <3>1. h[v].amount = Plus(h[v - 1].amount, Gain(p[v]))
        BY <2>2, ApplyIs
      <3>2. h[v - 1].amount \in Floats
        BY <2>2 DEF AccountState
      <3>. QED BY <1>a, <2>1, <3>1, <3>2
    <2>4. ASSUME NEW m \in of
          PROVE  HasMovement(p[v]) /\ m = Movement(v, p[v])
      <3>1. PICK i \in 1..n : MovesBy(m, j[i])
        BY <1>1, <1>3, <1>j, <1>s DEF MovementsMade
      <3>2. HasMovement(p[i]) /\ m = Movement(i, p[i])
        BY <1>4, <1>6, <3>1 DEF MovesBy
      <3>3. m.version = i
        BY <1>5, <3>2, MovementIs
      <3>4. i = v
        BY <2>4, <3>3
      <3>. QED BY <3>2, <3>4
    <2>5. ASSUME HasMovement(p[v]) PROVE of # {}
      <3>1. Projected(j[v].event[1]) /\ HasMovement(Payload(j[v].event[1]))
        BY <1>3, <1>4, <1>j, <2>5
      <3>2. Movement(j[v].version, Payload(j[v].event[1])) \in S
        BY <1>1, <1>3, <1>j, <1>s, <3>1 DEF Saved
      <3>3. Movement(v, p[v]) \in S
        BY <1>4, <1>6, <3>2
      <3>. QED BY <2>2, <3>3, MovementIs
    <2> HIDE DEF of
    <2>6. CASE of = {}
      <3>1. Gain(p[v]) = 0
        BY <2>2, <2>5, <2>6, MovementIs
      <3>2. a[v] = a[v - 1]
        BY <2>3, <3>1, FloatsAssumption, PlusIs
      <3>. QED BY <2>1, <2>6, <3>2 DEF NextTotal, of
    <2>7. CASE of # {}
      <3>1. PICK x : x = (CHOOSE m \in of : TRUE)
        OBVIOUS
      <3>2. x \in of
        BY <2>7, <3>1
      <3>3. x.amount = Gain(p[v])
        BY <2>2, <2>4, <3>2, MovementIs
      <3>4. NextTotal(a, S, v) = Plus(a[v - 1], (CHOOSE m \in of : TRUE).amount)
        BY <2>1, <2>7 DEF NextTotal, of
      <3>. QED BY <2>3, <3>1, <3>3, <3>4
    <2>. QED BY <2>6, <2>7
  <1>9. a[0] = NextTotal(a, S, 0)
    BY <1>3, <1>7, <1>a DEF Replayed, NextTotal
  <1>10. a = [v \in 0..n |-> NextTotal(a, S, v)]
    <2>1. \A v \in 0..n : v = 0 \/ v \in 1..n
      BY <1>3
    <2>. QED BY <1>8, <1>9, <1>a, <2>1
  <1>11. Total(S, n) = a[n]
    BY <1>3, <1>10, TotalIs
  <1>12. Balance(id, Len(Ledger(id))) = a[n]
    <2>1. n \in 0..n /\ n \in 0..Len(p)
      BY <1>3, <1>4
    <2>2. Account(SubSeq(p, 1, n)) = h[n]
      BY <1>4, <1>7, <2>1, AccountOfFirst
    <2>. QED BY <1>4, <1>a, <1>p, <2>1, <2>2 DEF Balance
  <1>. QED BY <1>4, <1>p, <1>s, <1>11, <1>12

(* Every movement is of an event of the journal, and once all the requests *)
(* that wrote to an account have been answered and their movements saved,  *)
(* they add up to its balance, version after version.                      *)
THEOREM MovementsAreComplete == BankSpec => []MovementsAddUp
  <1>1. BankInv => MovementsAddUp
    <2> SUFFICES ASSUME BankInv, NEW id \in Ids
                 PROVE  /\ \A m \in movements[id] : \E i \in DOMAIN journal[id] :
                             LET event == Payload(journal[id][i].event[1])
                             IN  /\ HasMovement(event)
                                 /\ m = Movement(journal[id][i].version, event)
                        /\ ~ Forked(id)
                           /\ (\A i \in DOMAIN journal[id] :
                                 Projected(journal[id][i].event[1])) =>
                             Total(movements[id], Len(Ledger(id)))
                               = Balance(id, Len(Ledger(id)))
      BY Zenon DEF MovementsAddUp
    <2>1. MovementsMade(id)
      BY DEF BankInv
    <2>2. \A m \in movements[id] : \E i \in DOMAIN journal[id] :
            LET event == Payload(journal[id][i].event[1])
            IN  HasMovement(event) /\ m = Movement(journal[id][i].version, event)
      BY <2>1 DEF MovementsMade, MovesBy
    <2>3. ASSUME ~ Forked(id),
                 \A i \in DOMAIN journal[id] : Projected(journal[id][i].event[1])
          PROVE  Total(movements[id], Len(Ledger(id))) = Balance(id, Len(Ledger(id)))
      BY <2>3, MovementsSum
    <2>. QED BY <2>2, <2>3
  <1>. QED BY <1>1, BankInvInitially, BankInvKept, PTL DEF BankSpec
=============================================================================
