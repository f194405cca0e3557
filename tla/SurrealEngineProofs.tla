------------------------ MODULE SurrealEngineProofs -------------------------
(***************************************************************************)
(* The safety of the engine over SurrealDBPersist, for any number of       *)
(* calls, aggregates and events per command: no session orders the calls,  *)
(* and what the unique index refuses is enough.                            *)
(*                                                                         *)
(* The argument: while the versions of a journal are 1, 2, 3, ... a call   *)
(* that expects fewer entries than there are collides with the entry after *)
(* the last it knows, so what is inserted goes to the end.  Hence a        *)
(* journal only grows, what a call loaded stays a replay of it, a call     *)
(* whose events are in finds them at its versions for ever, and a          *)
(* snapshot, be it an old one, is a replay too.                            *)
(***************************************************************************)
EXTENDS SurrealEngine, EventStoreLemmas

Written(c) ==
  pc[c] \in {"save_snapshot", "close", "dispatch"} \/ Answered(c, "ok")

Unwritten(c) ==
  \/ pc[c] \in {"fetch_snapshot", "fetch_tail", "handle", "start_session",
                "fetch_latest", "save_events", "abort"}
  \/ Refused(c)

(* What a call holds, and what is true of the store for its sake. *)
CallInv(c) ==
  /\ pc[c] # "lock"
  /\ pc[c] \in {"fetch_snapshot", "fetch_tail", "handle"} => batch[c] = <<>>
  /\ \E n \in 0..MaxEvents : batch[c] = NewEvents(c, n)
  /\ \A i \in DOMAIN batch[c] : batch[c][i][1] = c
  /\ pc[c] = "abort" => reply[c] = "concurrency_error"
  /\ Loaded(c) =>
       /\ ver[c] <= Len(journal[target[c]])
       /\ agg[c] = Replay(journal[target[c]], ver[c]) \o batch[c]
       /\ kind[c] = "update" => snapshots[target[c]] # NoSnapshot
  /\ kind[c] = "create" => ver[c] = 0 /\ pc[c] # "fetch_tail"
  /\ Written(c) => BatchInJournal(c)
  /\ Unwritten(c) => NoEventsOf(c)

(* The create that left the events of an aggregate without a snapshot, or  *)
(* is about to save it.                                                    *)
Creator(c, id) ==
  /\ target[c] = id /\ kind[c] = "create"
  /\ \/ pc[c] = "save_snapshot" /\ batch[c] # <<>>
     \/ StoppedBeforeSnapshot(c)

HasCreator(id) ==
  journal[id] # <<>> /\ snapshots[id] = NoSnapshot =>
    \E c \in Calls : Creator(c, id)

IInv ==
  /\ CallTypeOK
  /\ StoreTypeOK
  /\ VersionsContiguous
  /\ SnapshotIsReplay
  /\ \A c \in Calls : CallInv(c)
  /\ \A id \in Ids : HasCreator(id)

-----------------------------------------------------------------------------
(* What a step of call c may do: nothing to the other calls, to its own    *)
(* command, to what is in the journals and to a snapshot's being there.    *)

StepOf(c) ==
  /\ target' = target /\ kind' = kind
  /\ \A d \in Calls : d # c => SameCall(d)
  /\ \A id \in Ids :
       /\ GrowsBy(c, journal[id], journal'[id])
       /\ snapshots[id] # NoSnapshot => snapshots'[id] # NoSnapshot

(* A step of one call keeps what is said of another.                       *)
LEMMA FrameCall ==
  ASSUME CallTypeOK, StoreTypeOK, StoreTypeOK',
         NEW c \in Calls, NEW d \in Calls, d # c, StepOf(c), CallInv(d)
  PROVE  CallInv(d)'
  <1> DEFINE id == target[d]
  <1>1. /\ SameCall(d) /\ target' = target /\ kind' = kind
        /\ id \in Ids /\ ver[d] \in Nat /\ batch[d] \in State
        /\ GrowsBy(c, journal[id], journal'[id])
        /\ snapshots[id] # NoSnapshot => snapshots'[id] # NoSnapshot
    BY DEF StepOf, CallTypeOK
  <1>2. /\ journal[id] \in Seq(Envelope) /\ Len(journal[id]) \in Nat
        /\ journal'[id] \in Seq(Envelope) /\ Len(journal'[id]) \in Nat
    BY <1>1, LenProperties DEF StoreTypeOK
  <1>3. Loaded(d) => /\ ver[d] <= Len(journal'[id])
                     /\ agg[d] = Replay(journal'[id], ver[d]) \o batch[d]
                     /\ kind[d] = "update" => snapshots'[id] # NoSnapshot
    <2>1. SUFFICES ASSUME Loaded(d)
                   PROVE  /\ ver[d] <= Len(journal'[id])
                          /\ agg[d] = Replay(journal'[id], ver[d]) \o batch[d]
                          /\ kind[d] = "update" => snapshots'[id] # NoSnapshot
      OBVIOUS
    <2>2. /\ ver[d] <= Len(journal[id])
          /\ agg[d] = Replay(journal[id], ver[d]) \o batch[d]
          /\ kind[d] = "update" => snapshots[id] # NoSnapshot
      BY <2>1 DEF CallInv
    <2>3. Replay(journal'[id], ver[d]) = Replay(journal[id], ver[d])
      BY <1>1, <1>2, <2>2, ReplayOfGrown DEF GrowsBy
    <2>. QED BY <1>1, <1>2, <2>2, <2>3 DEF GrowsBy
  <1>4. BatchInJournal(d) => BatchInJournal(d)'
    <2>1. ASSUME BatchInJournal(d), NEW i \in DOMAIN batch[d]
          PROVE  /\ ver[d] + i <= Len(journal'[id])
                 /\ journal'[id][ver[d] + i].event = batch[d][i]
      <3>1. /\ ver[d] + i <= Len(journal[id])
            /\ journal[id][ver[d] + i].event = batch[d][i]
        BY <2>1 DEF BatchInJournal
      <3>2. i \in Nat \ {0}
        <4>1. DOMAIN batch[d] = 1..Len(batch[d]) /\ Len(batch[d]) \in Nat
          BY <1>1, LenProperties DEF State
        <4>. QED BY <2>1, <4>1
      <3>3. ver[d] + i \in 1..Len(journal[id])
        BY <1>1, <1>2, <3>1, <3>2
      <3>. QED BY <1>1, <1>2, <3>1, <3>3 DEF GrowsBy
    <2>. QED BY <1>1, <2>1 DEF BatchInJournal, SameCall
  <1>5. NoEventsOf(d) => NoEventsOf(d)'
    <2>1. ASSUME NoEventsOf(d), NEW k \in Ids, NEW i \in DOMAIN journal'[k]
          PROVE  journal'[k][i].event[1] # d
      <3>1. /\ GrowsBy(c, journal[k], journal'[k])
            /\ DOMAIN journal'[k] = 1..Len(journal'[k]) /\ Len(journal'[k]) \in Nat
            /\ DOMAIN journal[k] = 1..Len(journal[k]) /\ Len(journal[k]) \in Nat
        BY LenProperties DEF StepOf, StoreTypeOK
      <3>2. i \in 1..Len(journal[k]) \/ journal'[k][i].event[1] = c
        BY <2>1, <3>1 DEF GrowsBy
      <3>3. CASE i \in 1..Len(journal[k])
        BY <2>1, <3>1, <3>3 DEF GrowsBy, NoEventsOf
      <3>. QED BY <3>2, <3>3
    <2>. QED BY <2>1 DEF NoEventsOf
  <1>. QED BY <1>1, <1>3, <1>4, <1>5
       DEF CallInv, SameCall, Loaded, Written, Unwritten, Refused, Answered

(* A snapshot that is a replay stays one, whatever is appended.            *)
LEMMA FrameSnapshots ==
  ASSUME StoreTypeOK, StoreTypeOK', SnapshotIsReplay,
         NEW c \in Calls, StepOf(c), NEW id \in Ids,
         snapshots'[id] = snapshots[id], snapshots[id] # NoSnapshot
  PROVE  /\ snapshots'[id].version <= Len(journal'[id])
         /\ snapshots'[id].state = Replay(journal'[id], snapshots'[id].version)
  <1> DEFINE s == snapshots[id]
  <1>1. /\ s.version \in Nat /\ s.version <= Len(journal[id])
        /\ s.state = Replay(journal[id], s.version)
    BY DEF StoreTypeOK, Snapshot, SnapshotIsReplay
  <1>2. /\ Len(journal[id]) \in Nat /\ Len(journal'[id]) \in Nat
        /\ GrowsBy(c, journal[id], journal'[id])
    BY LenProperties DEF StoreTypeOK, StepOf
  <1> HIDE DEF s
  <1>3. Replay(journal'[id], s.version) = Replay(journal[id], s.version)
    BY <1>1, <1>2, ReplayOfGrown DEF GrowsBy
  <1>4. s.version <= Len(journal'[id])
    BY <1>1, <1>2 DEF GrowsBy
  <1>. QED BY <1>1, <1>3, <1>4 DEF s

(* The creator of an aggregate remains its creator through the steps of    *)
(* the other calls.                                                        *)
LEMMA FrameCreator ==
  ASSUME StoreTypeOK, StoreTypeOK',
         NEW c \in Calls, StepOf(c), NEW d \in Calls, d # c, NEW id \in Ids,
         Creator(d, id)
  PROVE  Creator(d, id)'
  <1>1. SameCall(d) /\ target' = target /\ kind' = kind
    BY DEF StepOf
  <1>2. ~ NoEventsOf(d) => ~ NoEventsOf(d)'
    <2>1. ASSUME NEW k \in Ids, NEW i \in DOMAIN journal[k],
                 journal[k][i].event[1] = d
          PROVE  i \in DOMAIN journal'[k] /\ journal'[k][i].event[1] = d
      <3>1. /\ GrowsBy(c, journal[k], journal'[k])
            /\ DOMAIN journal'[k] = 1..Len(journal'[k]) /\ Len(journal'[k]) \in Nat
            /\ DOMAIN journal[k] = 1..Len(journal[k]) /\ Len(journal[k]) \in Nat
        BY LenProperties DEF StepOf, StoreTypeOK
      <3>. QED BY <2>1, <3>1 DEF GrowsBy
    <2>. QED BY <2>1 DEF NoEventsOf
  <1>. QED BY <1>1, <1>2 DEF Creator, StoppedBeforeSnapshot, SameCall

-----------------------------------------------------------------------------
(* A step that writes nothing keeps IInv if it keeps what IInv says of the *)
(* call that takes it.                                                     *)
LEMMA QuietStepKeeps ==
  ASSUME IInv, NEW c \in Calls, CallTypeOK', UNCHANGED <<kind, target, store>>,
         \A d \in Calls : d # c => SameCall(d),
         CallInv(c)',
         \A id \in Ids : Creator(c, id) => Creator(c, id)'
  PROVE  IInv'
  <1>1. CallTypeOK /\ StoreTypeOK /\ StoreTypeOK'
    BY DEF IInv, StoreTypeOK, store
  <1>2. StepOf(c)
    <2>1. ASSUME NEW id \in Ids PROVE GrowsBy(c, journal[id], journal'[id])
      <3>1. Len(journal[id]) \in Nat /\ journal' = journal
        BY <1>1, LenProperties DEF StoreTypeOK, store
      <3>. QED BY <3>1 DEF GrowsBy
    <2>. QED BY <2>1 DEF StepOf, store
  <1>3. \A d \in Calls : CallInv(d)'
    BY <1>1, <1>2, FrameCall DEF IInv
  <1>4. VersionsContiguous' /\ SnapshotIsReplay'
    BY DEF IInv, VersionsContiguous, SnapshotIsReplay, store
  <1>5. ASSUME NEW id \in Ids PROVE HasCreator(id)'
    <2>1. ASSUME NEW d \in Calls, Creator(d, id) PROVE Creator(d, id)'
      BY <1>1, <1>2, <2>1, FrameCreator
    <2>. QED BY <2>1 DEF IInv, HasCreator, store
  <1>. QED BY <1>1, <1>3, <1>4, <1>5 DEF IInv

LEMMA InitIInv == Init => IInv
  <1> SUFFICES ASSUME Init PROVE IInv
    OBVIOUS
  <1> USE DEF Init, CallInit, StoreInit
  <1>1. CallTypeOK
    BY EmptyState DEF CallTypeOK, Label, Reply
  <1>2. StoreTypeOK
    BY EmptySeq DEF StoreTypeOK
  <1>3. ASSUME NEW c \in Calls PROVE CallInv(c)
    <2>1. batch[c] = NewEvents(c, 0) /\ 0 \in 0..MaxEvents
      BY MaxEventsAssumption DEF NewEvents
    <2>. QED BY <2>1 DEF CallInv, Loaded, Written, Refused, Answered, NoEventsOf
  <1>4. VersionsContiguous /\ SnapshotIsReplay
    BY DEF VersionsContiguous, Contiguous, SnapshotIsReplay
  <1>5. \A id \in Ids : HasCreator(id)
    BY DEF HasCreator
  <1>. QED BY <1>1, <1>2, <1>3, <1>4, <1>5 DEF IInv

(* fetch_snapshot: what a call is given is a replay of the journal.        *)
LEMMA FetchSnapshotKeeps ==
  ASSUME IInv, NEW c \in Calls, FetchSnapshot(c)
  PROVE  IInv'
  <1> DEFINE s == snapshots[target[c]]
             j == journal[target[c]]
  <1>1. /\ CallTypeOK /\ CallInv(c) /\ target[c] \in Ids /\ pc[c] = "fetch_snapshot"
        /\ batch[c] = <<>> /\ NoEventsOf(c) /\ ver[c] \in Nat
        /\ UNCHANGED <<kind, target, store, batch>>
        /\ j \in Seq(Envelope) /\ Len(j) \in Nat
        /\ s \in Snapshot \cup {NoSnapshot}
    <2>1. CallTypeOK /\ CallInv(c) /\ pc[c] = "fetch_snapshot" /\ StoreTypeOK
      BY DEF IInv, FetchSnapshot, InitializeAggregate, LoadSnapshot
    <2>2. target[c] \in Ids /\ ver[c] \in Nat
      BY <2>1 DEF CallTypeOK
    <2>3. j \in Seq(Envelope) /\ s \in Snapshot \cup {NoSnapshot}
      BY <2>1, <2>2 DEF StoreTypeOK
    <2>4. batch[c] = <<>> /\ NoEventsOf(c)
      BY <2>1 DEF CallInv, Unwritten
    <2>5. UNCHANGED <<kind, target, store, batch>>
      BY DEF FetchSnapshot, InitializeAggregate, LoadSnapshot
    <2>. QED BY <2>1, <2>2, <2>3, <2>4, <2>5, LenProperties
  <1>2. \/ /\ kind[c] = "create" /\ s = NoSnapshot
           /\ pc' = [pc EXCEPT ![c] = "handle"] /\ reply' = reply
           /\ agg' = [agg EXCEPT ![c] = <<>>] /\ ver' = [ver EXCEPT ![c] = 0]
        \/ /\ kind[c] = "update" /\ s # NoSnapshot /\ s \in Snapshot
           /\ pc' = [pc EXCEPT ![c] = "fetch_tail"] /\ reply' = reply
           /\ agg' = [agg EXCEPT ![c] = s.state]
           /\ ver' = [ver EXCEPT ![c] = s.version]
        \/ /\ pc' = [pc EXCEPT ![c] = "done"]
           /\ \E r \in {"already_exists", "not_found"} :
                reply' = [reply EXCEPT ![c] = r]
           /\ agg' = agg /\ ver' = ver
    BY <1>1 DEF FetchSnapshot, InitializeAggregate, LoadSnapshot, Goto, Answer
  <1>3. s # NoSnapshot => /\ s.version \in Nat /\ s.version <= Len(j)
                          /\ s.state = Replay(j, s.version) /\ s.state \in State
    BY <1>1 DEF IInv, SnapshotIsReplay, Snapshot
  <1>4. /\ UNCHANGED <<journal, snapshots>>
        /\ j = journal'[target[c]]
    BY <1>1 DEF store
  <1> HIDE DEF s, j
  <1>5. CallTypeOK'
    <2>1. pc' \in [Calls -> Label] /\ reply' \in [Calls -> Reply]
      BY <1>1, <1>2 DEF CallTypeOK, Label, Reply
    <2>2. agg' \in [Calls -> State] /\ ver' \in [Calls -> Nat]
      <3>1. agg \in [Calls -> State] /\ ver \in [Calls -> Nat]
        BY <1>1 DEF CallTypeOK
      <3>. QED BY <1>2, <1>3, <3>1, EmptyState
    <2>. QED BY <1>1, <2>1, <2>2 DEF CallTypeOK
  <1>6. \A d \in Calls : d # c => SameCall(d)
    BY <1>1, <1>2 DEF SameCall, CallTypeOK
  <1>7. CallInv(c)'
    <2>0. NoEventsOf(c)' /\ batch'[c] = <<>> /\ target'[c] = target[c]
      BY <1>1, <1>4 DEF NoEventsOf
    <2> DEFINE own == \E n \in 0..MaxEvents : batch'[c] = NewEvents(c, n)
    <2>4. own
      BY <1>1 DEF CallInv
    <2> HIDE DEF own
    <2>1. CASE pc'[c] = "done"
      <3>1. /\ reply'[c] \in {"already_exists", "not_found"}
            /\ ver'[c] = ver[c]
        BY <1>1, <1>2, <2>1 DEF CallTypeOK
      <3>2. CallInv(c)' <=> own
        BY <1>1, <2>0, <2>1, <3>1 DEF CallInv, Loaded, Written, Answered, own
      <3>. QED BY <2>4, <3>2
    <2>2. CASE pc'[c] = "handle"
      <3>1. ver'[c] = 0 /\ agg'[c] = <<>> /\ kind'[c] = "create"
        BY <1>1, <1>2, <2>2 DEF CallTypeOK
      <3>2. agg'[c] = Replay(j, 0) \o batch'[c] /\ 0 <= Len(j)
        BY <1>1, <2>0, <3>1, EmptyState, ReplayOfNothing
      <3>3. CallInv(c)' <=> own
        BY <1>4, <2>0, <2>2, <3>1, <3>2 DEF CallInv, Loaded, Written, Answered, own
      <3>. QED BY <2>4, <3>3
    <2>3. CASE pc'[c] = "fetch_tail"
      <3>1. /\ ver'[c] = s.version /\ agg'[c] = s.state /\ kind'[c] = "update"
            /\ s # NoSnapshot
        BY <1>1, <1>2, <2>3 DEF CallTypeOK
      <3>2. agg'[c] = Replay(j, ver'[c]) \o batch'[c] /\ ver'[c] <= Len(j)
        BY <1>3, <2>0, <3>1, EmptyState
      <3>3. snapshots'[target'[c]] # NoSnapshot
        BY <1>4, <2>0, <3>1 DEF s
      <3>4. CallInv(c)' <=> own
        BY <1>4, <2>0, <2>3, <3>1, <3>2, <3>3 DEF CallInv, Loaded, Written, Answered, own
      <3>. QED BY <2>4, <3>4
    <2>. QED BY <1>1, <1>2, <2>1, <2>2, <2>3 DEF CallTypeOK
  <1>. QED BY <1>1, <1>5, <1>6, <1>7, QuietStepKeeps DEF Creator, StoppedBeforeSnapshot

(* fetch_events_from_version: the entries above the snapshot's version,    *)
(* read in the order of their versions, bring the aggregate to the journal *)
(* as it is now.                                                           *)
LEMMA FetchEventsFromVersionKeeps ==
  ASSUME IInv, NEW c \in Calls, FetchEventsFromVersion(c)
  PROVE  IInv'
  <1> DEFINE j == journal[target[c]]
             tail == EventsFromVersion(ByVersion(j), ver[c])
  <1>1. /\ CallTypeOK /\ CallInv(c) /\ target[c] \in Ids /\ pc[c] = "fetch_tail"
        /\ UNCHANGED <<kind, target, store, batch, reply>>
        /\ pc' = [pc EXCEPT ![c] = "handle"]
        /\ agg' = [agg EXCEPT ![c] = @ \o EventsOf(tail)]
        /\ ver' = [ver EXCEPT ![c] =
                     IF tail = <<>> THEN @ ELSE tail[Len(tail)].version]
    BY DEF IInv, CallTypeOK, FetchEventsFromVersion, LoadTail, Goto
  <1>2. j \in Seq(Envelope) /\ Contiguous(j) /\ Len(j) \in Nat
    BY <1>1, LenProperties DEF IInv, StoreTypeOK, VersionsContiguous
  <1>3. /\ ver[c] \in 0..Len(j) /\ ver[c] \in Nat
        /\ batch[c] = <<>> /\ agg[c] = Replay(j, ver[c])
        /\ kind[c] = "update" /\ snapshots[target[c]] # NoSnapshot
        /\ NoEventsOf(c)
    <2>1. /\ ver[c] \in Nat /\ ver[c] <= Len(j) /\ batch[c] = <<>>
          /\ agg[c] = Replay(j, ver[c]) \o batch[c]
          /\ kind[c] \in {"create", "update"} /\ kind[c] # "create"
          /\ kind[c] = "update" => snapshots[target[c]] # NoSnapshot
          /\ NoEventsOf(c)
      BY <1>1 DEF CallInv, Loaded, CallTypeOK, Unwritten
    <2>2. ver[c] \in 0..Len(j)
      BY <1>2, <2>1
    <2> HIDE DEF j
    <2>3. Replay(j, ver[c]) \in State
      BY <1>2, <2>2, ReplayType
    <2>. QED BY <2>1, <2>2, <2>3, EmptyState
  <1>4. agg'[c] = Replay(j, Len(j)) /\ ver'[c] = Len(j)
    <2>1. agg'[c] = agg[c] \o EventsOf(tail)
      BY <1>1 DEF CallTypeOK
    <2>2. ver'[c] = IF tail = <<>> THEN ver[c] ELSE tail[Len(tail)].version
      BY <1>1 DEF CallTypeOK
    <2>. HIDE DEF j
    <2>3. tail = EventsFromVersion(j, ver[c])
      BY <1>2, ByVersionContiguous
    <2>4. LET t == EventsFromVersion(j, ver[c]) IN
          /\ Replay(j, ver[c]) \o EventsOf(t) = Replay(j, Len(j))
          /\ (IF t = <<>> THEN ver[c] ELSE t[Len(t)].version) = Len(j)
      BY <1>2, <1>3, LoadRebuildsReplay
    <2>. HIDE DEF tail
    <2>. QED BY <1>3, <2>1, <2>2, <2>3, <2>4
  <1>5. UNCHANGED <<journal, snapshots>> /\ j = journal'[target[c]]
    BY <1>1 DEF store
  <1>6. agg' = [agg EXCEPT ![c] = Replay(j, Len(j))]
        /\ ver' = [ver EXCEPT ![c] = Len(j)]
    BY <1>1, <1>4 DEF CallTypeOK
  <1> HIDE DEF tail, j
  <1>7. Replay(j, Len(j)) \in State
    <2>1. Len(j) \in 0..Len(j)
      BY <1>2
    <2>. QED BY <1>2, <2>1, ReplayType
  <1>8. CallTypeOK'
    <2>0. agg \in [Calls -> State] /\ ver \in [Calls -> Nat]
      BY <1>1 DEF CallTypeOK
    <2>1. agg' \in [Calls -> State] /\ ver' \in [Calls -> Nat]
      BY ONLY <2>0, <1>2, <1>6, <1>7
    <2>2. pc' \in [Calls -> Label]
      BY <1>1 DEF CallTypeOK, Label
    <2>. QED BY <1>1, <2>1, <2>2 DEF CallTypeOK
  <1>9. \A d \in Calls : d # c => SameCall(d)
    BY <1>1, <1>6 DEF SameCall, CallTypeOK
  <1>10. CallInv(c)'
    <2>1. /\ pc'[c] = "handle" /\ batch'[c] = <<>> /\ target'[c] = target[c]
          /\ kind'[c] = "update"
      BY <1>1, <1>3 DEF CallTypeOK
    <2>2. agg'[c] = Replay(j, ver'[c]) \o batch'[c] /\ ver'[c] <= Len(j)
      BY <1>2, <1>4, <1>7, <2>1, EmptyState
    <2>3. /\ NoEventsOf(c)' /\ snapshots'[target'[c]] # NoSnapshot
          /\ \E n \in 0..MaxEvents : batch'[c] = NewEvents(c, n)
      BY <1>1, <1>3, <1>5, <2>1 DEF NoEventsOf, CallInv
    <2>. QED BY <1>5, <2>1, <2>2, <2>3 DEF CallInv, Loaded, Written, Answered
  <1>. QED BY <1>1, <1>8, <1>9, <1>10, QuietStepKeeps DEF Creator, StoppedBeforeSnapshot

(* The handler adds its events to what the call holds.                     *)
LEMMA RunHandlerKeeps ==
  ASSUME IInv, NEW c \in Calls, RunHandler(c)
  PROVE  IInv'
  <1> DEFINE j == journal[target[c]]
  <1>1. /\ CallTypeOK /\ CallInv(c) /\ target[c] \in Ids /\ pc[c] = "handle"
        /\ UNCHANGED <<kind, target, store, ver>>
        /\ j \in Seq(Envelope) /\ Len(j) \in Nat
    BY LenProperties
    DEF IInv, CallTypeOK, StoreTypeOK, RunHandler, Handle, Refuse
  <1>2. UNCHANGED <<journal, snapshots>> /\ j = journal'[target[c]]
    BY <1>1 DEF store
  <1>3. /\ ver[c] \in Nat /\ ver[c] <= Len(j)
        /\ batch[c] = <<>> /\ NoEventsOf(c)
        /\ kind[c] = "create" => ver[c] = 0
        /\ kind[c] = "update" => snapshots[target[c]] # NoSnapshot
        /\ agg[c] = Replay(j, ver[c]) \o batch[c]
    BY <1>1 DEF CallInv, Loaded, Unwritten, CallTypeOK
  <1> HIDE DEF j
  <1>4. Replay(j, ver[c]) \in State /\ agg[c] = Replay(j, ver[c])
    <2>1. ver[c] \in 0..Len(j)
      BY <1>1, <1>3
    <2>2. Replay(j, ver[c]) \in State
      BY <1>1, <2>1, ReplayType
    <2>. QED BY <1>3, <2>2, EmptyState
  <1>5. NoEventsOf(c)'
    BY <1>2, <1>3 DEF NoEventsOf
  <1>6. CASE Handle(c)
    <2>1. PICK n \in 0..MaxEvents :
            /\ batch' = [batch EXCEPT ![c] = NewEvents(c, n)]
            /\ agg' = [agg EXCEPT ![c] = @ \o NewEvents(c, n)]
      BY <1>6 DEF Handle
    <2>2. NewEvents(c, n) \in State
          /\ \A i \in DOMAIN NewEvents(c, n) : NewEvents(c, n)[i][1] = c
      BY NewEventsType DEF NewEvents
    <2> DEFINE new == NewEvents(c, n)
    <2> HIDE DEF new
    <2>3. agg[c] \o new \in State
      BY <1>4, <2>2, ConcatProperties DEF State, new
    <2>4. /\ batch' = [batch EXCEPT ![c] = new] /\ reply' = reply
          /\ agg' = [agg EXCEPT ![c] = agg[c] \o new]
          /\ pc' = [pc EXCEPT ![c] = "start_session"]
      BY <1>6, <2>1 DEF Handle, Goto, new
    <2>5. CallTypeOK'
      BY <1>1, <2>2, <2>3, <2>4 DEF CallTypeOK, Label, new
    <2>6. \A d \in Calls : d # c => SameCall(d)
      BY <1>1, <2>4 DEF SameCall, CallTypeOK
    <2>7. CallInv(c)'
      <3>1. /\ pc'[c] = "start_session" /\ batch'[c] = new
            /\ agg'[c] = Replay(j, ver[c]) \o new
            /\ target'[c] = target[c] /\ kind'[c] = kind[c] /\ ver'[c] = ver[c]
            /\ \E m \in 0..MaxEvents : batch'[c] = NewEvents(c, m)
        BY <1>1, <1>4, <2>4 DEF CallTypeOK, new
      <3>. QED BY <1>2, <1>3, <1>5, <2>2, <3>1
           DEF CallInv, Loaded, Written, Answered, new
    <2>. QED BY <1>1, <2>5, <2>6, <2>7, QuietStepKeeps
         DEF Creator, StoppedBeforeSnapshot
  <1>7. CASE Refuse(c)
    <2>1. /\ pc' = [pc EXCEPT ![c] = "done"]
          /\ reply' = [reply EXCEPT ![c] = "user_error"]
          /\ UNCHANGED <<agg, batch>>
      BY <1>7 DEF Refuse, Answer
    <2>2. CallTypeOK'
      BY <1>1, <2>1 DEF CallTypeOK, Label, Reply
    <2>3. \A d \in Calls : d # c => SameCall(d)
      BY <1>1, <2>1 DEF SameCall, CallTypeOK
    <2>4. CallInv(c)'
      <3>1. pc'[c] = "done" /\ reply'[c] = "user_error" /\ batch'[c] = <<>>
            /\ ver'[c] = ver[c] /\ kind'[c] = kind[c]
        BY <1>1, <1>3, <2>1 DEF CallTypeOK
      <3>2. \E n \in 0..MaxEvents : batch'[c] = NewEvents(c, n)
        BY <1>1, <2>1 DEF CallInv
      <3>. QED BY <1>3, <1>5, <3>1, <3>2 DEF CallInv, Loaded, Written, Answered
    <2>. QED BY <1>1, <2>2, <2>3, <2>4, QuietStepKeeps
         DEF Creator, StoppedBeforeSnapshot
  <1>. QED BY <1>6, <1>7 DEF RunHandler

(* A call whose events are in is not one without events in the journals.   *)
LEMMA WrittenHasEvents ==
  ASSUME CallTypeOK, StoreTypeOK, NEW c \in Calls, CallInv(c),
         pc[c] = "save_snapshot", batch[c] # <<>>
  PROVE  ~ NoEventsOf(c)
  <1> DEFINE j == journal[target[c]]
  <1>1. /\ target[c] \in Ids /\ ver[c] \in Nat /\ batch[c] \in State
        /\ BatchInJournal(c)
    BY DEF CallTypeOK, CallInv, Written
  <1>2. 1 \in DOMAIN batch[c] /\ batch[c][1][1] = c
    <2>1. batch[c] \in Seq(Event)
      BY <1>1 DEF State
    <2>2. Len(batch[c]) \in Nat /\ Len(batch[c]) # 0 /\ DOMAIN batch[c] = 1..Len(batch[c])
      BY <2>1, LenProperties, EmptySeq
    <2>. QED BY <2>2 DEF CallInv
  <1>3. /\ ver[c] + 1 <= Len(j) /\ j[ver[c] + 1].event = batch[c][1]
    BY <1>1, <1>2 DEF BatchInJournal
  <1>4. Len(j) \in Nat /\ DOMAIN j = 1..Len(j)
    BY <1>1, LenProperties DEF StoreTypeOK
  <1>5. ver[c] + 1 \in DOMAIN j
    BY <1>1, <1>3, <1>4
  <1>. QED BY <1>1, <1>2, <1>3, <1>5 DEF NoEventsOf

(* The steps that only move a call: on, or to its answer.                  *)
LEMMA MoveKeeps ==
  ASSUME IInv, NEW c \in Calls, NEW label \in Label \ {"lock"}, NEW r \in Reply,
         UNCHANGED <<kind, target, agg, ver, batch, store>>,
         pc' = [pc EXCEPT ![c] = label], reply' = [reply EXCEPT ![c] = r],
         pc[c] # "done",
         label \notin {"fetch_snapshot", "fetch_tail", "handle"},
         label = "abort" => r = "concurrency_error",
         Loaded(c)' => Loaded(c),
         Written(c)' => Written(c),
         Unwritten(c)' => Unwritten(c),
         pc[c] = "save_snapshot" =>
           \/ label = "save_snapshot"
           \/ label = "done" /\ r \in {"database_error", "cancelled"}
  PROVE  IInv'
  <1>1. CallTypeOK /\ StoreTypeOK /\ CallInv(c)
    BY DEF IInv
  <1>2. CallTypeOK' /\ pc'[c] = label /\ reply'[c] = r
    BY <1>1 DEF CallTypeOK
  <1>3. \A d \in Calls : d # c => SameCall(d)
    BY <1>1 DEF SameCall, CallTypeOK
  <1>4. NoEventsOf(c)' <=> NoEventsOf(c)
    BY DEF NoEventsOf, store
  <1>5. BatchInJournal(c)' <=> BatchInJournal(c)
    BY DEF BatchInJournal, store
  <1>6. CallInv(c)'
    BY <1>1, <1>2, <1>4, <1>5 DEF CallInv, store
  <1>7. ASSUME NEW id \in Ids, Creator(c, id) PROVE Creator(c, id)'
    <2>1. pc[c] = "save_snapshot" /\ batch[c] # <<>>
      BY <1>7 DEF Creator, StoppedBeforeSnapshot
    <2>2. ~ NoEventsOf(c)
      BY <1>1, <2>1, WrittenHasEvents
    <2>. QED BY <1>2, <1>4, <1>7, <2>1, <2>2 DEF Creator, StoppedBeforeSnapshot
  <1>. QED BY <1>2, <1>3, <1>6, <1>7, QuietStepKeeps

(* start_session, fetch_latest_event, the ends of a call and its failures  *)
(* write nothing: they move the call.                                      *)
PlainStep(c) ==
  \/ StartSession(c) \/ FetchLatestEvent(c) \/ CloseSession(c)
  \/ AbortSession(c) \/ Dispatch(c) \/ QueryFails(c) \/ Cancel(c)
  \/ CancelWrite(c)

PlainMove(c, label, r) ==
  \/ pc[c] = "start_session" /\ label = "fetch_latest"
  \/ pc[c] = "fetch_latest" /\ label = "save_events"
  \/ pc[c] = "fetch_latest" /\ label = "abort" /\ r = "concurrency_error"
  \/ pc[c] = "close" /\ label = "dispatch"
  \/ pc[c] \in {"close", "dispatch"} /\ label = "done" /\ r = "ok"
  \/ pc[c] = "abort" /\ label = "done" /\ r = "concurrency_error"
  \/ pc[c] # "done" /\ label = "done" /\ r \in {"database_error", "cancelled"}
  \/ pc[c] \in {"save_events", "save_snapshot"} /\ label = pc[c]

LEMMA PlainStepMoves ==
  ASSUME IInv, NEW c \in Calls, PlainStep(c)
  PROVE  \E label \in Label \ {"lock"}, r \in Reply :
           /\ UNCHANGED <<kind, target, agg, ver, batch, store>>
           /\ pc' = [pc EXCEPT ![c] = label]
           /\ reply' = [reply EXCEPT ![c] = r]
           /\ PlainMove(c, label, r)
  <1> USE DEF Goto, Answer, Label, Reply, PlainMove
  <1>0. CallTypeOK /\ CallInv(c) /\ reply[c] \in Reply
    BY DEF IInv, CallTypeOK
  <1>1. reply = [reply EXCEPT ![c] = reply[c]] /\ pc = [pc EXCEPT ![c] = pc[c]]
    BY <1>0 DEF CallTypeOK
  <1>2. CASE StartSession(c)
    BY <1>0, <1>1, <1>2 DEF StartSession
  <1>3. CASE FetchLatestEvent(c)
    <2> DEFINE matches ==
          VersionMatches(ver[c], LatestVersion(ByVersion(journal[target[c]])))
    <2>1. CASE matches
      BY <1>0, <1>1, <1>3, <2>1 DEF FetchLatestEvent, CheckVersion
    <2>2. CASE ~ matches
      BY <1>0, <1>3, <2>2 DEF FetchLatestEvent, CheckVersion
    <2>. QED BY <2>1, <2>2
  <1>4. CASE CloseSession(c)
    <2>1. CASE batch[c] = <<>>
      BY <1>4, <2>1 DEF CloseSession, Committed
    <2>2. CASE batch[c] # <<>>
      BY <1>0, <1>1, <1>4, <2>2 DEF CloseSession, Committed
    <2>. QED BY <2>1, <2>2
  <1>5. CASE AbortSession(c)
    BY <1>0, <1>1, <1>5 DEF AbortSession, Aborted, CallInv
  <1>6. CASE Dispatch(c)
    BY <1>6 DEF Dispatch, Dispatched
  <1>7. CASE QueryFails(c)
    BY <1>7 DEF QueryFails
  <1>8. CASE Cancel(c)
    BY <1>8 DEF Cancel, Drop
  <1>9. CASE CancelWrite(c)
    BY <1>0, <1>1, <1>9 DEF CancelWrite
  <1>. QED BY <1>2, <1>3, <1>4, <1>5, <1>6, <1>7, <1>8, <1>9 DEF PlainStep

LEMMA PlainStepKeeps ==
  ASSUME IInv, NEW c \in Calls, PlainStep(c)
  PROVE  IInv'
  <1>1. CallTypeOK
    BY DEF IInv
  <1>2. PICK label \in Label \ {"lock"}, r \in Reply :
          /\ UNCHANGED <<kind, target, agg, ver, batch, store>>
          /\ pc' = [pc EXCEPT ![c] = label]
          /\ reply' = [reply EXCEPT ![c] = r]
          /\ PlainMove(c, label, r)
    BY PlainStepMoves
  <1>3. pc'[c] = label /\ reply'[c] = r
    BY <1>1, <1>2 DEF CallTypeOK
  <1>4. pc[c] # "done" /\ label \notin {"fetch_snapshot", "fetch_tail", "handle"}
    BY <1>2 DEF PlainMove
  <1>5. Loaded(c)' => Loaded(c)
    BY <1>2, <1>3 DEF Loaded, PlainMove
  <1>6. Written(c)' => Written(c)
    BY <1>2, <1>3 DEF Written, Answered, PlainMove
  <1>7. Unwritten(c)' => Unwritten(c)
    BY <1>2, <1>3 DEF Unwritten, Refused, PlainMove
  <1>8. /\ label = "abort" => r = "concurrency_error"
        /\ pc[c] = "save_snapshot" =>
             \/ label = "save_snapshot"
             \/ label = "done" /\ r \in {"database_error", "cancelled"}
    BY <1>2 DEF PlainMove
  <1>. QED BY <1>2, <1>4, <1>5, <1>6, <1>7, <1>8, MoveKeeps

-----------------------------------------------------------------------------
(* The unique index sends what it lets in to the end: a call that expects  *)
(* fewer entries than there are would collide with the next one.           *)
LEMMA InsertGoesToTheEnd ==
  ASSUME IInv, NEW c \in Calls, pc[c] = "save_events",
         ~ Collides(journal[target[c]], Envelopes(c)), batch[c] # <<>>
  PROVE  ver[c] = Len(journal[target[c]])
  <1> DEFINE j == journal[target[c]]
             e == Envelopes(c)
  <1>1. /\ target[c] \in Ids /\ ver[c] \in Nat /\ batch[c] \in State
        /\ ver[c] <= Len(j) /\ j \in Seq(Envelope) /\ Contiguous(j)
    BY DEF IInv, CallTypeOK, StoreTypeOK, VersionsContiguous, CallInv, Loaded
  <1>2. Len(j) \in Nat /\ DOMAIN j = 1..Len(j)
    BY <1>1, LenProperties
  <1>3. Len(e) = Len(batch[c]) /\ e \in Seq(Envelope)
        /\ \A i \in 1..Len(batch[c]) : e[i].version = ver[c] + i
    BY <1>1, EnvelopedType DEF Envelopes
  <1>4. 1 \in 1..Len(batch[c]) /\ DOMAIN e = 1..Len(batch[c])
    <2>1. Len(batch[c]) \in Nat /\ Len(batch[c]) # 0
      BY <1>1, LenProperties, EmptySeq DEF State
    <2>. QED BY <1>3, <2>1, LenProperties
  <1>5. ~ \E i \in DOMAIN j, k \in DOMAIN e : j[i].version = e[k].version
    BY DEF Collides
  <1> HIDE DEF j, e
  <1>6. e[1].version = ver[c] + 1
    BY <1>3, <1>4
  <1>7. ASSUME ver[c] # Len(j) PROVE FALSE
    <2>1. ver[c] + 1 \in DOMAIN j
      BY <1>1, <1>2, <1>7
    <2>2. j[ver[c] + 1].version = ver[c] + 1
      BY <1>1, <2>1 DEF Contiguous
    <2>. QED BY <1>4, <1>5, <1>6, <2>1, <2>2
  <1>. QED BY <1>7 DEF j

(* save_events, in time or late: the events of the call are in, where it   *)
(* said, and nothing else has changed.                                     *)
LEMMA InsertKeeps ==
  ASSUME IInv, NEW c \in Calls, pc[c] = "save_events",
         ~ Collides(journal[target[c]], Envelopes(c)),
         journal' = [journal EXCEPT ![target[c]] = @ \o Envelopes(c)],
         UNCHANGED <<kind, target, agg, ver, batch, snapshots>>,
         NEW label \in {"save_snapshot", "done"}, NEW r \in Reply,
         pc' = [pc EXCEPT ![c] = label], reply' = [reply EXCEPT ![c] = r],
         label = "done" => r \in {"database_error", "cancelled"}
  PROVE  IInv'
  <1> DEFINE id == target[c]
             j == journal[id]
             e == Envelopes(c)
  <1>1. /\ CallTypeOK /\ StoreTypeOK /\ VersionsContiguous /\ SnapshotIsReplay
        /\ CallInv(c) /\ id \in Ids /\ ver[c] \in Nat /\ batch[c] \in State
    BY DEF IInv, CallTypeOK
  <1>2. j \in Seq(Envelope) /\ Len(j) \in Nat /\ Contiguous(j)
    BY <1>1, LenProperties DEF StoreTypeOK, VersionsContiguous
  <1>3. /\ e \in Seq(Envelope) /\ Len(e) = Len(batch[c]) /\ Len(e) \in Nat
        /\ DOMAIN batch[c] = 1..Len(e)
        /\ \A i \in 1..Len(e) : /\ e[i].version = ver[c] + i
                                /\ e[i].event = batch[c][i]
    BY <1>1, EnvelopedType, LenProperties DEF Envelopes, State
  <1>4. Len(e) # 0 => ver[c] = Len(j)
    BY <1>1, <1>3, InsertGoesToTheEnd, EmptySeq DEF State
  <1>5. journal' = [journal EXCEPT ![id] = j \o e]
    OBVIOUS
  <1>6. /\ batch[c] = <<>> => Len(e) = 0
        /\ \A i \in 1..Len(e) : batch[c][i][1] = c
        /\ Loaded(c) /\ ver[c] <= Len(j)
        /\ agg[c] = Replay(j, ver[c]) \o batch[c]
        /\ kind[c] = "update" => snapshots[id] # NoSnapshot
    BY <1>1, <1>3, EmptySeq DEF CallInv, Loaded
  <1> HIDE DEF id, j, e
  <1>7. /\ j \o e \in Seq(Envelope)
        /\ Len(j \o e) = Len(j) + Len(e)
        /\ \A i \in 1..Len(j) : (j \o e)[i] = j[i]
        /\ \A i \in 1..Len(e) : (j \o e)[Len(j) + i] = e[i]
    <2>1. j \in Seq(Envelope) /\ e \in Seq(Envelope)
      BY <1>2, <1>3
    <2>. QED BY ONLY <2>1, AppendPlaces
  <1>8. journal'[id] = j \o e /\ \A k \in Ids : k # id => journal'[k] = journal[k]
    BY <1>1, <1>5 DEF StoreTypeOK
  <1>9. StoreTypeOK'
    BY <1>1, <1>5, <1>7 DEF StoreTypeOK
  <1>10. CallTypeOK' /\ pc'[c] = label /\ reply'[c] = r
    BY <1>1 DEF CallTypeOK, Label
  <1>11. \A d \in Calls : d # c => SameCall(d)
    BY <1>1 DEF SameCall, CallTypeOK
  <1>12. GrowsBy(c, j, j \o e)
    <2>1. ASSUME NEW i \in 1..Len(j \o e), ~ (i <= Len(j))
          PROVE  (j \o e)[i].event[1] = c
      <3>1. i - Len(j) \in 1..Len(e) /\ Len(j) + (i - Len(j)) = i
        BY <1>2, <1>3, <1>7, <2>1
      <3>2. (j \o e)[i] = e[i - Len(j)]
        BY <1>7, <3>1
      <3>. QED BY <1>3, <1>6, <3>1, <3>2
    <2>2. Len(j) <= Len(j \o e)
      BY <1>2, <1>3, <1>7
    <2>. QED BY <1>7, <2>1, <2>2 DEF GrowsBy
  <1>13. StepOf(c)
    <2>1. ASSUME NEW k \in Ids PROVE GrowsBy(c, journal[k], journal'[k])
      <3>1. CASE k = id
        BY <1>8, <1>12, <3>1 DEF j
      <3>2. CASE k # id
        <4>1. Len(journal[k]) \in Nat
          BY <1>1, LenProperties DEF StoreTypeOK
        <4>2. journal'[k] = journal[k]
          BY <1>8, <3>2
        <4>3. GrowsBy(c, journal[k], journal[k])
          BY <4>1 DEF GrowsBy
        <4>. QED BY <4>2, <4>3
      <3>. QED BY <3>1, <3>2
    <2>. QED BY <1>11, <2>1 DEF StepOf
  <1>14. BatchInJournal(c)'
    <2>1. ASSUME NEW i \in 1..Len(e)
          PROVE  /\ ver[c] + i <= Len(j \o e)
                 /\ (j \o e)[ver[c] + i].event = batch[c][i]
      <3>1. ver[c] = Len(j)
        BY <1>3, <1>4, <2>1
      <3>2. e[i].event = batch[c][i] /\ (j \o e)[Len(j) + i] = e[i]
        BY <1>3, <1>7, <2>1
      <3>3. Len(j) + i <= Len(j \o e)
        BY ONLY <1>2, <1>3, <1>7, <2>1
      <3>. QED BY ONLY <3>1, <3>2, <3>3
    <2>. QED BY <1>3, <1>8, <2>1 DEF BatchInJournal, id
  <1>15. CallInv(c)'
    <2>1. ver[c] <= Len(j \o e) /\ Replay(j \o e, ver[c]) = Replay(j, ver[c])
      <3>1. ver[c] \in 0..Len(j)
        BY <1>1, <1>2, <1>6
      <3>2. ver[c] <= Len(j \o e)
        BY <1>1, <1>2, <1>3, <1>6, <1>7
      <3>. QED BY <1>2, <1>3, <3>1, <3>2, ReplayOfPrefix
    <2>2. /\ ver'[c] <= Len(journal'[target'[c]])
          /\ agg'[c] = Replay(journal'[target'[c]], ver'[c]) \o batch'[c]
          /\ kind'[c] = "update" => snapshots'[target'[c]] # NoSnapshot
      BY <1>6, <1>8, <2>1 DEF id
    <2>. QED BY <1>1, <1>10, <1>14, <2>2
         DEF CallInv, Written, Unwritten, Refused, Answered
  <1>16. VersionsContiguous'
    <2>1. ASSUME NEW i \in 1..Len(e) PROVE e[i].version = Len(j) + i
      <3>1. e[i].version = ver[c] + i
        BY <1>3
      <3>2. Len(e) # 0
        BY <1>3, <2>1
      <3>. QED BY <1>4, <3>1, <3>2
    <2>2. Contiguous(j \o e)
      <3>1. j \in Seq(Envelope) /\ Contiguous(j) /\ e \in Seq(Envelope)
        BY <1>2, <1>3
      <3>. QED BY ONLY <2>1, <3>1, ContiguousAppend
    <2>. QED BY <1>1, <1>8, <2>2 DEF VersionsContiguous
  <1>17. SnapshotIsReplay'
    BY <1>1, <1>9, <1>13, FrameSnapshots DEF SnapshotIsReplay
  <1>18. ASSUME NEW k \in Ids PROVE HasCreator(k)'
    <2>1. CASE journal[k] # <<>>
      <3>1. SUFFICES ASSUME snapshots[k] = NoSnapshot
                     PROVE  \E d \in Calls : Creator(d, k)'
        BY DEF HasCreator
      <3>2. PICK d \in Calls : Creator(d, k)
        BY <2>1, <3>1 DEF IInv, HasCreator
      <3>3. d # c
        BY <3>2 DEF Creator, StoppedBeforeSnapshot
      <3>. QED BY <1>1, <1>9, <1>13, <3>2, <3>3, FrameCreator
    <2>2. CASE journal[k] = <<>>
      <3>1. SUFFICES ASSUME journal'[k] # <<>>, snapshots[k] = NoSnapshot
                     PROVE  Creator(c, k)'
        BY DEF HasCreator
      <3>2. k = id /\ j = <<>>
        BY <1>8, <2>2, <3>1 DEF j
      <3>3. Len(e) # 0
        <4>1. ASSUME Len(e) = 0 PROVE FALSE
          <5>1. e = <<>>
            BY <1>3, <4>1, EmptySeq
          <5>. QED BY <1>2, <1>8, <3>1, <3>2, <5>1, ConcatEmptySeq
        <4>. QED BY <4>1
      <3>4. kind[c] = "create" /\ batch[c] # <<>>
        BY <1>1, <1>6, <3>1, <3>2, <3>3 DEF CallTypeOK
      <3>5. ~ NoEventsOf(c)'
        <4>1. 1 \in 1..Len(e) /\ Len(j) = 0 /\ Len(j) + 1 = 1
          BY <1>3, <3>2, <3>3, EmptySeq
        <4>2. (j \o e)[Len(j) + 1] = e[1]
          BY <1>7, <4>1
        <4>4. (j \o e)[1].event[1] = c
          BY <1>3, <1>6, <4>1, <4>2
        <4>3. 1 \in DOMAIN journal'[id]
          BY <1>3, <1>7, <1>8, <4>1, LenProperties
        <4>. QED BY <1>1, <1>8, <4>3, <4>4 DEF NoEventsOf
      <3>. QED BY <1>10, <3>2, <3>4, <3>5
           DEF Creator, StoppedBeforeSnapshot, id
    <2>. QED BY <2>1, <2>2
  <1>19. \A d \in Calls : CallInv(d)'
    BY <1>1, <1>9, <1>13, <1>15, FrameCall DEF IInv
  <1>. QED BY <1>9, <1>10, <1>16, <1>17, <1>18, <1>19 DEF IInv

(* save_snapshot, in time or late: it may be an old snapshot, it is still  *)
(* the replay of as many entries as its version says.                      *)
LEMMA UpsertKeeps ==
  ASSUME IInv, NEW c \in Calls, pc[c] = "save_snapshot",
         snapshots' = [snapshots EXCEPT ![target[c]] = NewSnapshot(c)],
         UNCHANGED <<kind, target, agg, ver, batch, journal>>,
         NEW label \in {"close", "done"}, NEW r \in Reply,
         pc' = [pc EXCEPT ![c] = label], reply' = [reply EXCEPT ![c] = r],
         label = "done" => r \in {"database_error", "cancelled"}
  PROVE  IInv'
  <1> DEFINE id == target[c]
             j == journal[id]
             n == ver[c] + Len(batch[c])
  <1>1. /\ CallTypeOK /\ StoreTypeOK /\ VersionsContiguous /\ SnapshotIsReplay
        /\ CallInv(c) /\ id \in Ids /\ ver[c] \in Nat
        /\ batch[c] \in State /\ agg[c] \in State
        /\ j \in Seq(Envelope) /\ Len(j) \in Nat
    <2>1. CallTypeOK /\ StoreTypeOK /\ id \in Ids
      BY DEF IInv, CallTypeOK
    <2>2. j \in Seq(Envelope)
      BY <2>1 DEF StoreTypeOK
    <2>. QED BY <2>1, <2>2, LenProperties DEF IInv, CallTypeOK
  <1>2. Len(batch[c]) \in Nat /\ DOMAIN batch[c] = 1..Len(batch[c])
    BY <1>1, LenProperties DEF State
  <1>3. /\ ver[c] <= Len(j) /\ agg[c] = Replay(j, ver[c]) \o batch[c]
        /\ \A i \in 1..Len(batch[c]) : /\ ver[c] + i <= Len(j)
                                        /\ j[ver[c] + i].event = batch[c][i]
    BY <1>1, <1>2 DEF CallInv, Loaded, Written, BatchInJournal
  <1>4. n <= Len(j) /\ n \in Nat
    <2>1. CASE Len(batch[c]) = 0
      BY <1>1, <1>3, <2>1
    <2>2. CASE Len(batch[c]) # 0
      <3>1. Len(batch[c]) \in 1..Len(batch[c])
        BY <1>2, <2>2
      <3>. QED BY <1>1, <1>2, <1>3, <3>1
    <2>. QED BY <2>1, <2>2
  <1>5. agg[c] = Replay(j, n)
    <2> HIDE DEF j
    <2>1. \A i \in 1..Len(batch[c]) : j[ver[c] + i].event = batch[c][i]
      BY <1>3
    <2>2. Replay(j, ver[c] + Len(batch[c])) = Replay(j, ver[c]) \o batch[c]
      BY <1>1, <1>4, <2>1, ReplayExtends
    <2>. QED BY <1>3, <2>2
  <1> DEFINE s == [state |-> agg[c], version |-> n]
  <1>6. snapshots' = [snapshots EXCEPT ![id] = s]
    BY DEF NewSnapshot
  <1> HIDE DEF n
  <1>7. s \in Snapshot /\ s # NoSnapshot /\ s.version = n /\ s.state = Replay(j, n)
    <2>1. s \in Snapshot
      BY <1>1, <1>4 DEF Snapshot
    <2>. QED BY <1>5, <2>1, NoSnapshotAssumption
  <1> HIDE DEF s, id
  <1>8. snapshots'[id] = s /\ \A k \in Ids : k # id => snapshots'[k] = snapshots[k]
    BY <1>1, <1>6 DEF StoreTypeOK
  <1>9. StoreTypeOK'
    BY <1>1, <1>6, <1>7 DEF StoreTypeOK
  <1>10. CallTypeOK' /\ pc'[c] = label /\ reply'[c] = r
    BY <1>1 DEF CallTypeOK, Label
  <1>11. \A d \in Calls : d # c => SameCall(d)
    BY <1>1 DEF SameCall, CallTypeOK
  <1>12. StepOf(c)
    <2>1. ASSUME NEW k \in Ids PROVE GrowsBy(c, journal[k], journal'[k])
      <3>1. Len(journal[k]) \in Nat
        BY <1>1, LenProperties DEF StoreTypeOK
      <3>. QED BY <3>1 DEF GrowsBy
    <2>2. \A k \in Ids : snapshots[k] # NoSnapshot => snapshots'[k] # NoSnapshot
      BY <1>7, <1>8
    <2>. QED BY <1>11, <2>1, <2>2 DEF StepOf
  <1>13. CallInv(c)'
    <2>1. BatchInJournal(c) /\ BatchInJournal(c)'
      BY <1>1 DEF CallInv, Written, BatchInJournal
    <2>2. snapshots'[target'[c]] # NoSnapshot
      BY <1>7, <1>8 DEF id
    <2>. QED BY <1>1, <1>10, <2>1, <2>2
         DEF CallInv, Loaded, Written, Unwritten, Refused, Answered
  <1>14. VersionsContiguous'
    BY <1>1 DEF VersionsContiguous
  <1>15. SnapshotIsReplay'
    <2>1. ASSUME NEW k \in Ids, snapshots'[k] # NoSnapshot
          PROVE  /\ snapshots'[k].version <= Len(journal'[k])
                 /\ snapshots'[k].state = Replay(journal'[k], snapshots'[k].version)
      <3>1. CASE k = id
        BY <1>4, <1>7, <1>8, <3>1
      <3>2. CASE k # id
        BY <1>1, <1>8, <2>1, <3>2 DEF SnapshotIsReplay
      <3>. QED BY <3>1, <3>2
    <2>. QED BY <2>1 DEF SnapshotIsReplay
  <1>16. ASSUME NEW k \in Ids PROVE HasCreator(k)'
    <2>1. CASE k = id
      BY <1>7, <1>8, <2>1 DEF HasCreator
    <2>2. CASE k # id
      <3>1. ASSUME NEW d \in Calls, Creator(d, k) PROVE Creator(d, k)'
        <4>1. d # c
          BY <2>2, <3>1 DEF Creator, StoppedBeforeSnapshot, id
        <4>. QED BY <1>1, <1>9, <1>12, <3>1, <4>1, FrameCreator
      <3>2. HasCreator(k)
        BY DEF IInv
      <3>. QED BY <1>8, <2>2, <3>1, <3>2 DEF HasCreator
    <2>. QED BY <2>1, <2>2
  <1>17. \A d \in Calls : CallInv(d)'
    BY <1>1, <1>9, <1>12, <1>13, FrameCall DEF IInv
  <1>. QED BY <1>9, <1>10, <1>14, <1>15, <1>16, <1>17 DEF IInv

-----------------------------------------------------------------------------
(* save_events and save_snapshot, by the call itself.                      *)
LEMMA SaveKeeps ==
  ASSUME IInv, NEW c \in Calls, SaveEvents(c) \/ SaveSnapshot(c)
  PROVE  IInv'
  <1>1. /\ CallTypeOK /\ StoreTypeOK /\ reply[c] \in Reply
        /\ reply = [reply EXCEPT ![c] = reply[c]]
    BY DEF IInv, CallTypeOK
  <1> USE DEF Goto, Answer
  <1>2. CASE SaveEvents(c) /\ Collides(journal[target[c]], Envelopes(c))
    <2>1. /\ pc[c] = "save_events"
          /\ UNCHANGED <<kind, target, agg, ver, batch, store>>
          /\ pc' = [pc EXCEPT ![c] = "done"]
          /\ reply' = [reply EXCEPT ![c] = "concurrency_error"]
      BY <1>2 DEF SaveEvents, store
    <2>2. pc'[c] = "done" /\ reply'[c] = "concurrency_error"
      BY <1>1, <2>1 DEF CallTypeOK
    <2>3. ~ Loaded(c)' /\ ~ Written(c)' /\ Unwritten(c)
      BY <2>1, <2>2 DEF Loaded, Written, Answered, Unwritten
    <2>4. "done" \in Label \ {"lock"} /\ "concurrency_error" \in Reply
      BY DEF Label, Reply
    <2>. QED BY <2>1, <2>3, <2>4, MoveKeeps
  <1>3. CASE SaveEvents(c) /\ ~ Collides(journal[target[c]], Envelopes(c))
    <2>1. /\ pc[c] = "save_events"
          /\ journal' = [journal EXCEPT ![target[c]] = @ \o Envelopes(c)]
          /\ UNCHANGED <<kind, target, agg, ver, batch, snapshots>>
      BY <1>3 DEF SaveEvents
    <2>2. PICK label \in {"save_snapshot", "done"}, r \in Reply :
            /\ pc' = [pc EXCEPT ![c] = label]
            /\ reply' = [reply EXCEPT ![c] = r]
            /\ label = "done" => r \in {"database_error", "cancelled"}
      BY <1>1, <1>3 DEF SaveEvents, Reply
    <2>. QED BY <1>3, <2>1, <2>2, InsertKeeps
  <1>4. CASE SaveSnapshot(c)
    <2>1. /\ pc[c] = "save_snapshot"
          /\ snapshots' = [snapshots EXCEPT ![target[c]] = NewSnapshot(c)]
          /\ UNCHANGED <<kind, target, agg, ver, batch, journal>>
      BY <1>4 DEF SaveSnapshot
    <2>2. PICK label \in {"close", "done"}, r \in Reply :
            /\ pc' = [pc EXCEPT ![c] = label]
            /\ reply' = [reply EXCEPT ![c] = r]
            /\ label = "done" => r \in {"database_error", "cancelled"}
      BY <1>1, <1>4 DEF SaveSnapshot, Reply
    <2>. QED BY <2>1, <2>2, UpsertKeeps
  <1>. QED BY <1>2, <1>3, <1>4

(* A write whose call was dropped takes effect like any other, or never.   *)
LEMMA LateWriteKeeps ==
  ASSUME IInv, NEW c \in Calls, LateWrite(c)
  PROVE  IInv'
  <1>1. /\ CallTypeOK /\ StoreTypeOK /\ "cancelled" \in Reply
        /\ reply[c] = "cancelled" /\ pc[c] \in {"save_events", "save_snapshot"}
        /\ reply' = [reply EXCEPT ![c] = "cancelled"]
        /\ pc' = [pc EXCEPT ![c] = "done"]
        /\ UNCHANGED <<kind, target, agg, ver, batch>>
    BY DEF IInv, CallTypeOK, LateWrite, InFlight, Goto, Reply
  <1>2. CASE UNCHANGED store
    <2>1. pc'[c] = "done" /\ reply'[c] = "cancelled"
      BY <1>1 DEF CallTypeOK
    <2>2. ~ Loaded(c)' /\ ~ Written(c)' /\ ~ Unwritten(c)'
      BY <2>1 DEF Loaded, Written, Answered, Unwritten, Refused
    <2>3. "done" \in Label \ {"lock"}
      BY DEF Label
    <2>. QED BY <1>1, <1>2, <2>2, <2>3, MoveKeeps
  <1>3. CASE /\ pc[c] = "save_events"
             /\ ~ Collides(journal[target[c]], Envelopes(c))
             /\ journal' = [journal EXCEPT ![target[c]] = @ \o Envelopes(c)]
             /\ UNCHANGED snapshots
    BY <1>1, <1>3, InsertKeeps
  <1>4. CASE /\ pc[c] = "save_snapshot"
             /\ snapshots' = [snapshots EXCEPT ![target[c]] = NewSnapshot(c)]
             /\ UNCHANGED journal
    BY <1>1, <1>4, UpsertKeeps
  <1>. QED BY <1>2, <1>3, <1>4 DEF LateWrite

LEMMA NextKeeps ==
  ASSUME IInv, [Next]_vars
  PROVE  IInv'
  <1>1. CASE UNCHANGED vars
    BY <1>1
    DEF vars, callVars, store, IInv, CallTypeOK, StoreTypeOK, CallInv, Loaded,
        Written, Unwritten, Refused, Answered, BatchInJournal, NoEventsOf,
        VersionsContiguous, SnapshotIsReplay, HasCreator, Creator,
        StoppedBeforeSnapshot
  <1>2. ASSUME NEW c \in Calls,
               \/ Step(c) \/ QueryFails(c) \/ Cancel(c)
               \/ CancelWrite(c) \/ LateWrite(c)
        PROVE  IInv'
    BY <1>2, FetchSnapshotKeeps, FetchEventsFromVersionKeeps, RunHandlerKeeps,
       PlainStepKeeps, SaveKeeps, LateWriteKeeps DEF Step, PlainStep
  <1>. QED BY <1>1, <1>2 DEF Next, Idle

LEMMA Invariance == Spec => []IInv
  <1>1. IInv /\ [Next]_vars => IInv'
    BY NextKeeps
  <1>. QED BY <1>1, InitIInv, PTL DEF Spec

(* The journals are numbered 1, 2, 3, ..., every snapshot is a replay, a   *)
(* call told "ok" has its events in and a refused one has none, though     *)
(* only the unique index stands between the calls and writes may be late.  *)
THEOREM IndexIsEnough == Spec => []StoreConsistent
  <1>1. IInv => StoreConsistent
    BY DEF IInv, StoreConsistent, AnswersAreTrue, CallInv, Written, Unwritten
  <1>. QED BY <1>1, Invariance, PTL

(* Of the creates of one aggregate that wrote events one is told "ok".     *)
THEOREM OneCreateWins == Spec => []OneCreator
  <1>1. IInv => OneCreator
    <2> SUFFICES ASSUME IInv, NEW c \in Calls, NEW d \in Calls, c # d,
                        kind[c] = "create", kind[d] = "create",
                        target[c] = target[d],
                        Answered(c, "ok"), Answered(d, "ok"),
                        batch[c] # <<>>, batch[d] # <<>>
                 PROVE  FALSE
      BY DEF OneCreator
    <2>1. ASSUME NEW b \in Calls, kind[b] = "create", Answered(b, "ok"),
                 batch[b] # <<>>
          PROVE  journal[target[b]][1].event[1] = b
      <3>1. ver[b] = 0 /\ BatchInJournal(b)
            /\ \A i \in DOMAIN batch[b] : batch[b][i][1] = b
        BY <2>1 DEF IInv, CallInv, Written
      <3>2. 1 \in DOMAIN batch[b]
        <4>1. batch[b] \in Seq(Event)
          BY DEF IInv, CallTypeOK, State
        <4>. QED BY <2>1, <4>1, LenProperties, EmptySeq
      <3>3. journal[target[b]][ver[b] + 1].event = batch[b][1]
        BY <3>1, <3>2 DEF BatchInJournal
      <3>. QED BY <3>1, <3>2, <3>3
    <2>. QED BY <2>1
  <1>. QED BY <1>1, Invariance, PTL

(* Only a create that was stopped between its two writes leaves events     *)
(* without a snapshot.                                                     *)
THEOREM UnreadableHasCause == Spec => []UnreadableOnlyAfterFailure
  <1>1. IInv => UnreadableOnlyAfterFailure
    BY DEF IInv, HasCreator, Creator, UnreadableOnlyAfterFailure
  <1>. QED BY <1>1, Invariance, PTL

(* No entry of a journal is ever changed or lost.                          *)
THEOREM JournalIsAppendOnly == Spec => JournalOnlyGrows
  <1>1. IInv /\ [Next]_vars => [JournalGrows]_journal
    <2> SUFFICES ASSUME IInv, Next PROVE JournalGrows \/ journal' = journal
      BY DEF vars, store
    <2>1. ASSUME NEW c \in Calls, journal' # journal,
                 \/ Step(c) \/ QueryFails(c) \/ Cancel(c)
                 \/ CancelWrite(c) \/ LateWrite(c)
          PROVE  journal' = [journal EXCEPT ![target[c]] = @ \o Envelopes(c)]
      BY <2>1
      DEF Step, FetchSnapshot, FetchEventsFromVersion, RunHandler, StartSession,
          FetchLatestEvent, SaveEvents, SaveSnapshot, CloseSession,
          AbortSession, Dispatch, QueryFails, Cancel, CancelWrite, LateWrite,
          store
    <2>2. ASSUME NEW c \in Calls,
                 journal' = [journal EXCEPT ![target[c]] = @ \o Envelopes(c)]
          PROVE  JournalGrows
      <3>1. Envelopes(c) \in Seq(Envelope) /\ journal \in [Ids -> Seq(Envelope)]
        BY EnvelopedType DEF IInv, CallTypeOK, StoreTypeOK, Envelopes
      <3> DEFINE e == Envelopes(c)
      <3> HIDE DEF e
      <3>2. ASSUME NEW id \in Ids, NEW i \in DOMAIN journal[id]
            PROVE  i \in DOMAIN journal'[id] /\ journal'[id][i] = journal[id][i]
        <4>1. CASE id = target[c]
          <5>1. journal'[id] = journal[id] \o e /\ e \in Seq(Envelope)
                /\ journal[id] \in Seq(Envelope)
            BY <2>2, <3>1, <4>1 DEF e
          <5>2. /\ DOMAIN journal[id] = 1..Len(journal[id])
                /\ DOMAIN (journal[id] \o e) = 1..Len(journal[id] \o e)
                /\ Len(journal[id] \o e) = Len(journal[id]) + Len(e)
                /\ Len(journal[id]) \in Nat /\ Len(e) \in Nat
                /\ \A m \in 1..Len(journal[id]) :
                     (journal[id] \o e)[m] = journal[id][m]
            BY <5>1, AppendPlaces, LenProperties
          <5>. QED BY <3>2, <5>1, <5>2
        <4>2. CASE id # target[c]
          BY <2>2, <3>1, <4>2
        <4>. QED BY <4>1, <4>2
      <3>. QED BY <3>2 DEF JournalGrows
    <2>. QED BY <2>1, <2>2 DEF Next, Idle, vars, store
  <1>. QED BY <1>1, Invariance, PTL DEF Spec, JournalOnlyGrows

-----------------------------------------------------------------------------
(* The refinement: what IInv says of loads is what the mapping needs.      *)
LEMMA LoadsAreReplays ==
  IInv => LoadsHold
  BY DEF IInv, LoadsHold, LoadedIsReplay, CallInv

LEMMA LoadsAreReplaysAfter ==
  IInv' => LoadsHold'
  BY DEF IInv, LoadsHold, LoadedIsReplay, CallInv

(* The writes of a call, in time or late.                                  *)
LEMMA WriteSimulated ==
  ASSUME IInv, IInv', NEW c \in Calls,
         SaveEvents(c) \/ SaveSnapshot(c) \/ LateWrite(c)
  PROVE  Simulated
  <1>0. LoadsHold /\ LoadsHold'
    BY LoadsAreReplays, LoadsAreReplaysAfter
  <1>1. CallTypeOK
    BY DEF IInv
  <1>2. /\ \A d \in Calls : d # c => SameCall(d)
        /\ UNCHANGED <<target, agg, ver, batch>>
    BY <1>1 DEF SaveEvents, SaveSnapshot, LateWrite, Goto, Answer, SameCall,
                CallTypeOK
  <1>3. \/ pc'[c] = "done" /\ reply'[c] # "ok" /\ pc[c] # "done"
        \/ pc[c] = "save_events" /\ pc'[c] = "save_snapshot"
        \/ pc[c] = "save_snapshot" /\ pc'[c] = "close"
    BY <1>1 DEF SaveEvents, SaveSnapshot, LateWrite, InFlight, Goto, Answer,
                CallTypeOK
  <1>4. \/ /\ journal' = journal
           /\ pc'[c] # "save_snapshot"
        \/ /\ journal' = [journal EXCEPT ![target[c]] = @ \o Envelopes(c)]
           /\ ~ Collides(journal[target[c]], Envelopes(c))
           /\ pc[c] = "save_events"
    BY <1>1, <1>3 DEF SaveEvents, SaveSnapshot, LateWrite, Goto, Answer, store,
                      CallTypeOK
  <1>5. CASE journal' = journal /\ pc'[c] # "save_snapshot"
    <2>1. QuietMove(c)
      BY <1>2, <1>3, <1>5 DEF QuietMove
    <2>. QED BY <1>0, <1>2, <1>5, <2>1, QuietMoveSimulated
  <1>6. CASE /\ journal' = [journal EXCEPT ![target[c]] = @ \o Envelopes(c)]
             /\ ~ Collides(journal[target[c]], Envelopes(c))
             /\ pc[c] = "save_events"
    <2>1. PICK n \in 0..MaxEvents : batch[c] = NewEvents(c, n)
      BY DEF IInv, CallInv
    <2>2. n # 0 => ver[c] = Len(journal[target[c]])
      <3>1. n # 0 => batch[c] # <<>>
        BY <2>1, NewEventsType, EmptySeq
      <3>. QED BY <1>6, <3>1, InsertGoesToTheEnd
    <2>. QED BY <1>0, <1>2, <1>3, <1>6, <2>1, <2>2, AppendSimulated
  <1>. QED BY <1>4, <1>5, <1>6

(* All other steps.                                                        *)
LEMMA ReadSimulated ==
  ASSUME IInv, IInv', NEW c \in Calls,
         \/ FetchSnapshot(c) \/ FetchEventsFromVersion(c) \/ RunHandler(c)
         \/ PlainStep(c)
  PROVE  Simulated
  <1>0. LoadsHold /\ LoadsHold'
    BY LoadsAreReplays, LoadsAreReplaysAfter
  <1>1. CallTypeOK
    BY DEF IInv
  <1>2. CASE FetchSnapshot(c) \/ FetchEventsFromVersion(c) \/ RunHandler(c)
    <2>1. /\ \A d \in Calls : d # c => SameCall(d)
          /\ UNCHANGED <<target, journal>>
      BY <1>1, <1>2
      DEF FetchSnapshot, InitializeAggregate, LoadSnapshot,
          FetchEventsFromVersion, LoadTail, RunHandler, Handle, Refuse, Goto,
          Answer, SameCall, CallTypeOK, store
    <2>2. QuietMove(c)
      BY <1>1, <1>2
      DEF FetchSnapshot, InitializeAggregate, LoadSnapshot,
          FetchEventsFromVersion, LoadTail, RunHandler, Handle, Refuse, Goto,
          Answer, CallTypeOK, QuietMove
    <2>. QED BY <1>0, <2>1, <2>2, QuietMoveSimulated
  <1>3. CASE PlainStep(c)
    <2>1. PICK label \in Label \ {"lock"}, r \in Reply :
            /\ UNCHANGED <<kind, target, agg, ver, batch, store>>
            /\ pc' = [pc EXCEPT ![c] = label]
            /\ reply' = [reply EXCEPT ![c] = r]
            /\ PlainMove(c, label, r)
      BY <1>3, PlainStepMoves
    <2>2. pc'[c] = label /\ reply'[c] = r
      BY <1>1, <2>1 DEF CallTypeOK
    <2>3. \A d \in Calls : d # c => SameCall(d)
      BY <1>1, <2>1 DEF SameCall, CallTypeOK
    <2>4. QuietMove(c)
      BY <2>1, <2>2 DEF PlainMove, QuietMove
    <2>. QED BY <1>0, <2>1, <2>3, <2>4, QuietMoveSimulated DEF store
  <1>. QED BY <1>2, <1>3

(* The engine keeps the promise of EventLog: whatever its reads, its       *)
(* snapshots, failures and late writes, a commit is one compare-and-append *)
(* to the stream the call has seen, and only what is appended is           *)
(* acknowledged.                                                           *)
THEOREM Refinement == Spec => ImplementsEventLog
  <1>1. Init => Log!Init
    <2> SUFFICES ASSUME Init PROVE Log!Init
      OBVIOUS
    <2>1. target \in [Calls -> Ids]
      BY DEF Init, CallInit
    <2>2. Stream = [id \in Ids |-> <<>>]
      BY DEF Init, StoreInit, Stream, EventsOf
    <2>3. /\ Status = [c \in Calls |-> "pending"]
          /\ Seen = [c \in Calls |-> <<>>]
      BY DEF Init, CallInit, Status, Seen, Loaded, Answered
    <2>. QED BY <2>1, <2>2, <2>3 DEF Log!Init
  <1>2. IInv /\ IInv' /\ [Next]_vars => [Log!Next]_(Log!vars)
    <2> SUFFICES ASSUME IInv, IInv', [Next]_vars PROVE Simulated
      BY DEF Simulated
    <2>1. CASE UNCHANGED vars
      BY <2>1 DEF vars, callVars, store, Simulated, Log!vars, Stream, Status,
                  Seen, Loaded, Answered
    <2>2. ASSUME NEW c \in Calls,
                 \/ Step(c) \/ QueryFails(c) \/ Cancel(c)
                 \/ CancelWrite(c) \/ LateWrite(c)
          PROVE  Simulated
      BY <2>2, WriteSimulated, ReadSimulated DEF Step, PlainStep
    <2>. QED BY <2>1, <2>2 DEF Next, Idle
  <1>. QED BY <1>1, <1>2, Invariance, PTL DEF Spec, ImplementsEventLog, Log!Spec
=============================================================================
