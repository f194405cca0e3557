------------------------ MODULE InMemoryEngineProofs ------------------------
(***************************************************************************)
(* The safety of the engine over InMemoryPersist, for any number of calls, *)
(* aggregates and events per command.  One lemma per action says that it   *)
(* keeps IInv; the theorems on the store follow.  Then: every step is one  *)
(* of EventLog, and the dispatcher is given every event once.              *)
(***************************************************************************)
EXTENDS InMemoryEngine, EventStoreLemmas

USE DEF StoreInit, StoreTypeOK, StoreGrows, JournalGrows, SnapshotsAdvance

(* A step of another call that leaves the journal alone keeps CallInv.     *)
LEMMA FrameCall ==
  ASSUME NEW d \in Calls, CallInv(d), SameCall(d),
         target' = target, journal' = journal
  PROVE  CallInv(d)'
  BY DEF CallInv, SameCall, Loaded, Written, Unwritten, Refused, Answered,
         BatchInJournal, NoEventsOf

(* A step of call c that writes neither map keeps IInv if it keeps what    *)
(* IInv says of c and of the guards.                                       *)
LEMMA QuietStepKeeps ==
  ASSUME IInv, NEW c \in Calls, TypeOK',
         \A d \in Calls : d # c => SameCall(d),
         pc[c] # "save_snapshot",
         target' = target, journal' = journal, snapshots' = snapshots,
         \A d \in Calls : LockInv(d)',
         CallInv(c)'
  PROVE  IInv'
  <1>1. ASSUME NEW d \in Calls PROVE CallInv(d)'
    BY FrameCall DEF IInv
  <1>2. VersionsContiguous' /\ SnapshotIsReplay'
    BY DEF IInv, VersionsContiguous, SnapshotIsReplay
  <1>3. ASSUME NEW id \in Ids PROVE SnapshotInv(id)'
    BY DEF IInv, SnapshotInv, SameCall
  <1>. QED BY <1>1, <1>2, <1>3 DEF IInv

(* With empty maps and no call begun the invariant holds.                 *)
LEMMA InitIInv == Init => IInv
  <1> SUFFICES ASSUME Init PROVE IInv
    OBVIOUS
  <1> USE DEF Init, CallInit
  <1>1. TypeOK
    BY DEF TypeOK, CallTypeOK, Label, Reply, State
  <1>2. ASSUME NEW c \in Calls PROVE LockInv(c) /\ CallInv(c)
    BY FreeAssumption
    DEF LockInv, CallInv, InSession, Loaded, Written, Unwritten, Refused,
        Answered, NoEventsOf
  <1>3. VersionsContiguous
    BY DEF VersionsContiguous, Contiguous
  <1>4. SnapshotIsReplay
    BY DEF SnapshotIsReplay
  <1>5. ASSUME NEW id \in Ids PROVE SnapshotInv(id)
    BY DEF SnapshotInv
  <1>. QED BY <1>1, <1>2, <1>3, <1>4, <1>5 DEF IInv

(* fetch_snapshot: what a call is given is a replay of the journal.        *)
LEMMA FetchSnapshotKeeps ==
  ASSUME IInv, NEW c \in Calls, FetchSnapshot(c)
  PROVE  IInv'
  <1> DEFINE s == snapshots[target[c]]
             j == journal[target[c]]
  <1> USE DEF FetchSnapshot, InitializeAggregate, LoadSnapshot, Goto, Answer,
              store, locks
  <1>1. /\ TypeOK /\ VersionsContiguous /\ SnapshotIsReplay
        /\ LockInv(c) /\ CallInv(c)
        /\ target[c] \in Ids
    BY DEF IInv, TypeOK, CallTypeOK
  <1>2. s = NoSnapshot \/ s \in Snapshot
    BY <1>1 DEF TypeOK
  <1>3. TypeOK'
    <2>1. pc' \in [Calls -> Label] /\ reply' \in [Calls -> Reply]
      BY <1>1 DEF TypeOK, CallTypeOK, Label, Reply
    <2>2. agg' \in [Calls -> State] /\ ver' \in [Calls -> Nat]
      <3>1. CASE agg' = agg /\ ver' = ver
        BY <1>1, <3>1 DEF TypeOK, CallTypeOK
      <3>2. CASE /\ agg' = [agg EXCEPT ![c] = <<>>]
                 /\ ver' = [ver EXCEPT ![c] = 0]
        BY <1>1, <3>2, EmptyState DEF TypeOK, CallTypeOK
      <3>3. CASE /\ s \in Snapshot
                 /\ agg' = [agg EXCEPT ![c] = s.state]
                 /\ ver' = [ver EXCEPT ![c] = s.version]
        BY <1>1, <3>3 DEF TypeOK, CallTypeOK, Snapshot
      <3>. QED BY <1>2, <3>1, <3>2, <3>3
    <2>. QED BY <1>1, <2>1, <2>2 DEF TypeOK, CallTypeOK
  <1>4. ASSUME NEW d \in Calls, d # c
        PROVE  SameCall(d)
    BY <1>1, <1>4 DEF SameCall, TypeOK, CallTypeOK
  <1>5. ASSUME NEW d \in Calls PROVE LockInv(d)'
    BY <1>1, <1>4 DEF IInv, LockInv, InSession, SameCall, TypeOK, CallTypeOK
  <1>6. CallInv(c)'
    <2>1. j \in Seq(Envelope) /\ Len(j) \in Nat
      BY <1>1 DEF TypeOK
    <2>2. CASE pc'[c] = "handle"
      <3>1. ver'[c] = 0 /\ agg'[c] = <<>> /\ batch'[c] = <<>>
        BY <1>1, <2>2 DEF CallInv, TypeOK, CallTypeOK
      <3>2. agg'[c] = Replay(j, 0) \o batch'[c]
        BY <3>1, EmptyState, ReplayOfNothing
      <3>. QED BY <1>1, <2>1, <2>2, <3>1, <3>2
           DEF CallInv, TypeOK, CallTypeOK, Loaded, Written, Unwritten,
               Refused, Answered, NoEventsOf
    <2>3. CASE pc'[c] = "fetch_tail"
      <3>1. /\ ver'[c] = s.version /\ agg'[c] = s.state /\ batch'[c] = <<>>
            /\ s \in Snapshot /\ s # NoSnapshot
        BY <1>1, <1>2, <2>3 DEF CallInv, TypeOK, CallTypeOK
      <3>2. s.version <= Len(j) /\ s.state = Replay(j, s.version)
        BY <1>1, <3>1 DEF SnapshotIsReplay
      <3>3. agg'[c] = Replay(j, s.version) \o batch'[c]
        BY <3>1, <3>2, EmptyState DEF Snapshot
      <3>. QED BY <1>1, <2>1, <2>3, <3>1, <3>2, <3>3
           DEF CallInv, TypeOK, CallTypeOK, Loaded, Written, Unwritten,
               Refused, Answered, NoEventsOf
    <2>4. CASE pc'[c] = "done"
      BY <1>1, <2>4
      DEF CallInv, TypeOK, CallTypeOK, Loaded, Written, Unwritten, Refused,
          Answered, NoEventsOf
    <2>. QED BY <2>2, <2>3, <2>4, <1>1 DEF TypeOK, CallTypeOK
  <1>. QED BY <1>1, <1>3, <1>4, <1>5, <1>6, QuietStepKeeps

(* fetch_events_from_version: the later events bring the aggregate to the  *)
(* journal as it is now, whatever was committed since the snapshot.        *)
LEMMA FetchEventsFromVersionKeeps ==
  ASSUME IInv, NEW c \in Calls, FetchEventsFromVersion(c)
  PROVE  IInv'
  <1> DEFINE j == journal[target[c]]
             tail == EventsFromVersion(j, ver[c])
  <1> USE DEF FetchEventsFromVersion, LoadTail, Goto, store, locks
  <1>1. /\ TypeOK /\ LockInv(c) /\ CallInv(c)
        /\ target[c] \in Ids
        /\ j \in Seq(Envelope) /\ Len(j) \in Nat
        /\ Contiguous(j)
    BY DEF IInv, TypeOK, CallTypeOK, VersionsContiguous
  <1>2. /\ ver[c] \in 0..Len(j)
        /\ batch[c] = <<>>
        /\ agg[c] = Replay(j, ver[c])
    <2>1. /\ ver[c] \in Nat /\ ver[c] <= Len(j) /\ batch[c] = <<>>
          /\ agg[c] = Replay(j, ver[c]) \o batch[c]
      BY <1>1 DEF CallInv, Loaded, TypeOK, CallTypeOK
    <2>2. Replay(j, ver[c]) \in State
      BY <1>1, <2>1, ReplayType
    <2>. QED BY <1>1, <2>1, <2>2, EmptyState
  <1>3. agg'[c] = Replay(j, Len(j)) /\ ver'[c] = Len(j)
    <2>1. /\ agg'[c] = agg[c] \o EventsOf(tail)
          /\ ver'[c] = IF tail = <<>> THEN ver[c] ELSE tail[Len(tail)].version
      BY <1>1 DEF TypeOK, CallTypeOK
    <2>. HIDE DEF j, tail
    <2>2. LET t == EventsFromVersion(j, ver[c]) IN
          /\ Replay(j, ver[c]) \o EventsOf(t) = Replay(j, Len(j))
          /\ (IF t = <<>> THEN ver[c] ELSE t[Len(t)].version) = Len(j)
      BY <1>1, <1>2, LoadRebuildsReplay
    <2>. QED BY <1>2, <2>1, <2>2 DEF tail
  <1>4. Replay(j, Len(j)) \in State
    <2>1. Len(j) \in 0..Len(j)
      BY <1>1
    <2>. HIDE DEF j
    <2>. QED BY <1>1, <2>1, ReplayType
  <1>5. TypeOK'
    <2>1. agg' = [agg EXCEPT ![c] = Replay(j, Len(j))]
      BY <1>1, <1>3 DEF TypeOK, CallTypeOK
    <2>2. ver' = [ver EXCEPT ![c] = Len(j)]
      BY <1>1, <1>3 DEF TypeOK, CallTypeOK
    <2>3. pc' \in [Calls -> Label]
      BY <1>1 DEF TypeOK, CallTypeOK, Label
    <2>. HIDE DEF j
    <2>4. agg' \in [Calls -> State]
      BY <1>1, <1>4, <2>1 DEF TypeOK, CallTypeOK
    <2>5. ver' \in [Calls -> Nat]
      BY <1>1, <2>2 DEF TypeOK, CallTypeOK
    <2>. QED BY <1>1, <2>3, <2>4, <2>5 DEF TypeOK, CallTypeOK
  <1>6. ASSUME NEW d \in Calls, d # c
        PROVE  SameCall(d)
    BY <1>1, <1>6 DEF SameCall, TypeOK, CallTypeOK
  <1>7. ASSUME NEW d \in Calls PROVE LockInv(d)'
    BY <1>1, <1>6 DEF IInv, LockInv, InSession, SameCall, TypeOK, CallTypeOK
  <1>8. CallInv(c)'
    <2>1. /\ pc'[c] = "handle" /\ batch'[c] = <<>>
          /\ agg'[c] = Replay(j, Len(j)) \o batch'[c]
      BY <1>1, <1>2, <1>3, <1>4, EmptyState DEF TypeOK, CallTypeOK
    <2>. QED BY <1>1, <1>3, <2>1
         DEF CallInv, Loaded, Written, Unwritten, Refused, Answered, NoEventsOf
  <1>. QED BY <1>1, <1>5, <1>6, <1>7, <1>8, QuietStepKeeps

(* The handler only adds its events to what the call holds.                *)
LEMMA RunHandlerKeeps ==
  ASSUME IInv, NEW c \in Calls, RunHandler(c)
  PROVE  IInv'
  <1> DEFINE j == journal[target[c]]
  <1> USE DEF RunHandler, store, locks
  <1>1. /\ TypeOK /\ LockInv(c) /\ CallInv(c)
        /\ target[c] \in Ids /\ pc[c] = "handle"
        /\ j \in Seq(Envelope) /\ Len(j) \in Nat
    BY DEF IInv, TypeOK, CallTypeOK, Handle, Refuse
  <1>2. /\ ver[c] \in 0..Len(j)
        /\ Replay(j, ver[c]) \in State
        /\ agg[c] = Replay(j, ver[c])
    <2>1. /\ ver[c] \in Nat /\ ver[c] <= Len(j) /\ batch[c] = <<>>
          /\ agg[c] = Replay(j, ver[c]) \o batch[c]
      BY <1>1 DEF CallInv, Loaded, TypeOK, CallTypeOK
    <2>2. Replay(j, ver[c]) \in State
      BY <1>1, <2>1, ReplayType
    <2>. QED BY <1>1, <2>1, <2>2, EmptyState
  <1>3. CASE Handle(c)
    <2> USE DEF Handle, Goto
    <2>1. PICK n \in 0..MaxEvents :
            /\ batch' = [batch EXCEPT ![c] = NewEvents(c, n)]
            /\ agg' = [agg EXCEPT ![c] = @ \o NewEvents(c, n)]
      BY <1>3
    <2>2. NewEvents(c, n) \in State /\ \A i \in DOMAIN NewEvents(c, n) :
                                        NewEvents(c, n)[i][1] = c
      BY NewEventsType DEF NewEvents
    <2>3. agg[c] \o NewEvents(c, n) \in State
      BY <1>2, <2>2 DEF State
    <2>4. TypeOK'
      <3>1. pc' \in [Calls -> Label]
        BY <1>1, <1>3 DEF TypeOK, CallTypeOK, Label
      <3>2. batch' \in [Calls -> State] /\ agg' \in [Calls -> State]
        BY <1>1, <2>1, <2>2, <2>3 DEF TypeOK, CallTypeOK
      <3>. QED BY <1>1, <1>3, <3>1, <3>2 DEF TypeOK, CallTypeOK
    <2>5. ASSUME NEW d \in Calls, d # c
          PROVE  SameCall(d)
      BY <1>1, <1>3, <2>1, <2>5 DEF SameCall, TypeOK, CallTypeOK
    <2>6. ASSUME NEW d \in Calls PROVE LockInv(d)'
      BY <1>1, <1>3, <2>5
      DEF IInv, LockInv, InSession, SameCall, TypeOK, CallTypeOK
    <2>7. CallInv(c)'
      <3>1. /\ pc'[c] = "start_session"
            /\ batch'[c] = NewEvents(c, n)
            /\ agg'[c] = Replay(j, ver[c]) \o NewEvents(c, n)
        BY <1>1, <1>2, <1>3, <2>1 DEF TypeOK, CallTypeOK
      <3>. QED BY <1>1, <1>2, <1>3, <2>2, <3>1
           DEF CallInv, Loaded, Written, Unwritten, Refused, Answered,
               NoEventsOf
    <2>. QED BY <1>1, <1>3, <2>4, <2>5, <2>6, <2>7, QuietStepKeeps
  <1>4. CASE Refuse(c)
    <2> USE DEF Refuse, Answer
    <2>1. TypeOK'
      BY <1>1, <1>4 DEF TypeOK, CallTypeOK, Label, Reply
    <2>2. ASSUME NEW d \in Calls, d # c
          PROVE  SameCall(d)
      BY <1>1, <1>4, <2>2 DEF SameCall, TypeOK, CallTypeOK
    <2>3. ASSUME NEW d \in Calls PROVE LockInv(d)'
      BY <1>1, <1>4, <2>2
      DEF IInv, LockInv, InSession, SameCall, TypeOK, CallTypeOK
    <2>4. CallInv(c)'
      BY <1>1, <1>4
      DEF CallInv, Loaded, Written, Unwritten, Refused, Answered, NoEventsOf,
          TypeOK, CallTypeOK
    <2>. QED BY <1>1, <1>4, <2>1, <2>2, <2>3, <2>4, QuietStepKeeps
  <1>. QED BY <1>3, <1>4

(* start_session takes the journal's guard, then the snapshots'.           *)
LEMMA StartSessionKeeps ==
  ASSUME IInv, NEW c \in Calls, StartSession(c) \/ LockSnapshot(c)
  PROVE  IInv'
  <1> USE DEF StartSession, LockSnapshot, Goto, store, locks
  <1>1. TypeOK /\ LockInv(c) /\ CallInv(c)
    BY DEF IInv
  <1>2. TypeOK'
    BY <1>1 DEF TypeOK, CallTypeOK, Label
  <1>3. ASSUME NEW d \in Calls, d # c
        PROVE  SameCall(d)
    BY <1>1, <1>3 DEF SameCall, TypeOK, CallTypeOK
  <1>4. ASSUME NEW d \in Calls PROVE LockInv(d)'
    BY <1>1, <1>3, FreeAssumption
    DEF IInv, LockInv, InSession, SameCall, TypeOK, CallTypeOK
  <1>5. CallInv(c)'
    <2>1. /\ pc[c] \in {"start_session", "lock"}
          /\ pc'[c] \in {"lock", "fetch_latest"}
          /\ UNCHANGED <<target, agg, ver, batch, reply, journal>>
      BY <1>1 DEF TypeOK, CallTypeOK
    <2>. QED BY <1>1, <2>1
         DEF CallInv, Loaded, Written, Unwritten, Refused, Answered,
             NoEventsOf
  <1>. QED BY <1>2, <1>3, <1>4, <1>5, QuietStepKeeps

(* fetch_latest_event: the call that goes on expects the whole journal.    *)
LEMMA FetchLatestEventKeeps ==
  ASSUME IInv, NEW c \in Calls, FetchLatestEvent(c)
  PROVE  IInv'
  <1> DEFINE j == journal[target[c]]
  <1> USE DEF FetchLatestEvent, CheckVersion, VersionMatches, Goto, store, locks
  <1>1. /\ TypeOK /\ LockInv(c) /\ CallInv(c)
        /\ target[c] \in Ids
        /\ j \in Seq(Envelope) /\ Len(j) \in Nat
        /\ Contiguous(j)
    BY DEF IInv, TypeOK, CallTypeOK, VersionsContiguous
  <1>2. TypeOK'
    BY <1>1 DEF TypeOK, CallTypeOK, Label, Reply
  <1>3. ASSUME NEW d \in Calls, d # c
        PROVE  SameCall(d)
    BY <1>1, <1>3 DEF SameCall, TypeOK, CallTypeOK
  <1>4. ASSUME NEW d \in Calls PROVE LockInv(d)'
    BY <1>1, <1>3 DEF IInv, LockInv, InSession, SameCall, TypeOK, CallTypeOK
  <1>5. LatestVersion(j) = Len(j)
    BY <1>1 DEF LatestVersion, Contiguous
  <1>6. CallInv(c)'
    <2> HIDE DEF j
    <2>1. CASE ver[c] = Len(j)
      BY <1>1, <1>5, <2>1
      DEF j, CallInv, Loaded, Written, Unwritten, Refused, Answered,
          NoEventsOf, TypeOK, CallTypeOK
    <2>2. CASE ver[c] # Len(j)
      BY <1>1, <1>5, <2>2
      DEF j, CallInv, Loaded, Written, Unwritten, Refused, Answered,
          NoEventsOf, TypeOK, CallTypeOK
    <2>. QED BY <2>1, <2>2
  <1>. QED BY <1>2, <1>3, <1>4, <1>6, QuietStepKeeps

(* The end of a session gives back both guards.                            *)
LEMMA CloseSessionKeeps ==
  ASSUME IInv, NEW c \in Calls, CloseSession(c) \/ AbortSession(c)
  PROVE  IInv'
  <1> USE DEF CloseSession, AbortSession, Committed, Aborted, ReleaseLocks,
              Goto, Answer, store
  <1>1. TypeOK /\ LockInv(c) /\ CallInv(c)
    BY DEF IInv
  <1>2. TypeOK'
    BY <1>1 DEF TypeOK, CallTypeOK, Label, Reply
  <1>3. ASSUME NEW d \in Calls, d # c
        PROVE  SameCall(d)
    BY <1>1, <1>3 DEF SameCall, TypeOK, CallTypeOK
  <1>4. ASSUME NEW d \in Calls PROVE LockInv(d)'
    BY <1>1, <1>3, FreeAssumption
    DEF IInv, LockInv, InSession, SameCall, TypeOK, CallTypeOK
  <1>5. CallInv(c)'
    <2>0. UNCHANGED <<target, agg, ver, batch, journal>>
      OBVIOUS
    <2>1. CASE Committed(c)
      <3>1. /\ pc[c] = "close"
            /\ \/ pc'[c] = "done" /\ reply'[c] = "ok"
               \/ pc'[c] = "dispatch"
        BY <1>1, <2>1 DEF TypeOK, CallTypeOK
      <3>. QED BY <1>1, <2>0, <3>1
           DEF CallInv, Loaded, Written, Unwritten, Refused, Answered,
               BatchInJournal
    <2>2. CASE Aborted(c)
      <3>1. /\ pc[c] = "abort" /\ pc'[c] = "done"
            /\ reply'[c] = reply[c]
        BY <1>1, <2>2 DEF TypeOK, CallTypeOK
      <3>. QED BY <1>1, <2>0, <3>1
           DEF CallInv, Loaded, Written, Unwritten, Refused, Answered,
               NoEventsOf
    <2>. QED BY <2>1, <2>2
  <1>. QED BY <1>2, <1>3, <1>4, <1>5, QuietStepKeeps

(* Dispatching changes no map.                                             *)
LEMMA DispatchKeeps ==
  ASSUME IInv, NEW c \in Calls, Dispatch(c)
  PROVE  IInv'
  <1> USE DEF Dispatch, Dispatched, Answer, store, locks
  <1>1. TypeOK /\ LockInv(c) /\ CallInv(c) /\ target[c] \in Ids
    BY DEF IInv, TypeOK, CallTypeOK
  <1>2. TypeOK'
    <2>1. Envelopes(c) \in Seq(Envelope)
      BY <1>1, EnvelopedType DEF Envelopes, TypeOK, CallTypeOK
    <2>2. delivered' \in [Ids -> Seq(Envelope)]
      BY <1>1, <2>1 DEF TypeOK
    <2>. QED BY <1>1, <2>2 DEF TypeOK, CallTypeOK, Label, Reply
  <1>3. ASSUME NEW d \in Calls, d # c
        PROVE  SameCall(d)
    BY <1>1, <1>3 DEF SameCall, TypeOK, CallTypeOK
  <1>4. ASSUME NEW d \in Calls PROVE LockInv(d)'
    BY <1>1, <1>3 DEF IInv, LockInv, InSession, SameCall, TypeOK, CallTypeOK
  <1>5. CallInv(c)'
    BY <1>1
    DEF CallInv, Loaded, Written, Unwritten, Refused, Answered, NoEventsOf,
        BatchInJournal, TypeOK, CallTypeOK
  <1>. QED BY <1>1, <1>2, <1>3, <1>4, <1>5, QuietStepKeeps

(* A dropped call leaves the maps alone and gives back what it owned.      *)
LEMMA CancelKeeps ==
  ASSUME IInv, NEW c \in Calls, Cancel(c)
  PROVE  IInv'
  <1> USE DEF Cancel, Drop, Answer, ReleaseLocks, store
  <1>1. TypeOK /\ LockInv(c) /\ CallInv(c)
    BY DEF IInv
  <1>2. TypeOK'
    BY <1>1 DEF TypeOK, CallTypeOK, Label, Reply
  <1>3. ASSUME NEW d \in Calls, d # c
        PROVE  SameCall(d)
    BY <1>1, <1>3 DEF SameCall, TypeOK, CallTypeOK
  <1>4. ASSUME NEW d \in Calls PROVE LockInv(d)'
    BY <1>1, <1>3, FreeAssumption
    DEF IInv, LockInv, InSession, SameCall, TypeOK, CallTypeOK
  <1>5. CallInv(c)'
    BY <1>1
    DEF CallInv, Loaded, Written, Unwritten, Refused, Answered, TypeOK,
        CallTypeOK
  <1>. QED BY <1>1, <1>2, <1>3, <1>4, <1>5, QuietStepKeeps

(* save_events: only the owner of both guards pushes, and what it pushes   *)
(* goes after the version it checked.                                      *)
LEMMA SaveEventsKeeps ==
  ASSUME IInv, NEW c \in Calls, SaveEvents(c)
  PROVE  IInv'
  <1> DEFINE id == target[c]
             j == journal[id]
             e == Envelopes(c)
  <1> USE DEF SaveEvents, Goto, locks
  <1>1. /\ TypeOK /\ LockInv(c) /\ CallInv(c)
        /\ id \in Ids
        /\ j \in Seq(Envelope) /\ Len(j) \in Nat
        /\ Contiguous(j)
        /\ ver[c] = Len(j) /\ batch[c] \in State
    <2>1. TypeOK /\ LockInv(c) /\ CallInv(c) /\ VersionsContiguous
      BY DEF IInv
    <2>2. id \in Ids /\ batch[c] \in State
      BY <2>1 DEF TypeOK, CallTypeOK
    <2>3. j \in Seq(Envelope) /\ Len(j) \in Nat
      BY <2>1, <2>2 DEF TypeOK
    <2>4. Contiguous(j)
      BY <2>1, <2>2 DEF VersionsContiguous
    <2>5. ver[c] = Len(j)
      BY <2>1 DEF CallInv
    <2>. QED BY <2>1, <2>2, <2>3, <2>4, <2>5
  <1>2. /\ e \in Seq(Envelope)
        /\ Len(e) = Len(batch[c]) /\ Len(e) \in Nat
        /\ DOMAIN batch[c] = 1..Len(e)
        /\ \A i \in 1..Len(e) : /\ e[i].version = Len(j) + i
                                 /\ e[i].event = batch[c][i]
    <2>1. e = Enveloped(batch[c], Len(j))
      BY <1>1 DEF Envelopes
    <2>2. batch[c] \in State /\ Len(j) \in Nat
      BY <1>1
    <2> HIDE DEF e, j, SaveEvents
    <2>3. /\ e \in Seq(Envelope)
          /\ Len(e) = Len(batch[c])
          /\ \A i \in 1..Len(batch[c]) : /\ e[i].version = Len(j) + i
                                          /\ e[i].event = batch[c][i]
      BY <2>1, <2>2, EnvelopedType
    <2>4. Len(batch[c]) \in Nat /\ DOMAIN batch[c] = 1..Len(batch[c])
      BY <2>2, LenProperties DEF State
    <2>. QED BY <2>3, <2>4
  <1>3. journal' = [journal EXCEPT ![id] = j \o e]
    OBVIOUS
  <1> HIDE DEF e, id, j
  <1>4. /\ j \o e \in Seq(Envelope)
        /\ Len(j \o e) = Len(j) + Len(e)
        /\ DOMAIN (j \o e) = 1..(Len(j) + Len(e))
        /\ \A i \in 1..Len(j) : (j \o e)[i] = j[i]
        /\ \A i \in 1..Len(e) : (j \o e)[Len(j) + i] = e[i]
    <2>1. /\ j \o e \in Seq(Envelope)
          /\ Len(j \o e) = Len(j) + Len(e)
          /\ \A i \in 1..Len(j) : (j \o e)[i] = j[i]
          /\ \A i \in 1..Len(e) : (j \o e)[Len(j) + i] = e[i]
      BY <1>1, <1>2
    <2>2. DOMAIN (j \o e) = 1..Len(j \o e)
      BY <2>1, LenProperties
    <2>. QED BY <2>1, <2>2
  <1>5. journal'[id] = j \o e /\ \A k \in Ids : k # id => journal'[k] = journal[k]
    BY <1>1, <1>3 DEF TypeOK
  <1>6. TypeOK'
    <2>1. journal' \in [Ids -> Seq(Envelope)]
      BY <1>1, <1>3, <1>4 DEF TypeOK
    <2>2. pc' \in [Calls -> Label]
      BY <1>1 DEF TypeOK, CallTypeOK, Label
    <2>. QED BY <1>1, <2>1, <2>2 DEF TypeOK, CallTypeOK
  <1>7. ASSUME NEW d \in Calls, d # c
        PROVE  SameCall(d)
    BY <1>1, <1>7 DEF SameCall, TypeOK, CallTypeOK
  <1>8. ASSUME NEW d \in Calls PROVE LockInv(d)'
    BY <1>1, <1>7 DEF IInv, LockInv, InSession, SameCall, TypeOK, CallTypeOK
  <1>9. ASSUME NEW d \in Calls, d # c
        PROVE  CallInv(d)'
    <2>1. CallInv(d) /\ LockInv(d) /\ SameCall(d) /\ target' = target
      BY <1>7, <1>9 DEF IInv
    <2>2. pc[d] \notin {"save_events", "save_snapshot"}
      BY <1>1, <1>9, <2>1 DEF LockInv, InSession
    <2>3. ~ Unwritten(d) \/ NoEventsOf(d)'
      <3>1. ASSUME NEW k \in Ids, NEW i \in DOMAIN journal'[k], NoEventsOf(d)
            PROVE  journal'[k][i].event[1] # d
        <4>0. k = id => i \in 1..(Len(j) + Len(e))
          BY <3>1, <1>4, <1>5
        <4>1. CASE k # id
          BY <3>1, <4>1, <1>5 DEF NoEventsOf
        <4>2. CASE k = id /\ i <= Len(j)
          BY <3>1, <4>0, <4>2, <1>1, <1>2, <1>4, <1>5 DEF NoEventsOf, j
        <4>3. CASE k = id /\ i > Len(j)
          <5>1. i - Len(j) \in 1..Len(e) /\ i = Len(j) + (i - Len(j))
            BY <4>0, <4>3, <1>1, <1>2
          <5>2. journal'[k][i] = e[i - Len(j)]
            BY <4>3, <5>1, <1>4, <1>5
          <5>3. journal'[k][i].event = batch[c][i - Len(j)]
            BY <5>1, <5>2, <1>2
          <5>4. batch[c][i - Len(j)][1] = c
            BY <5>1, <1>1, <1>2 DEF CallInv
          <5>. QED BY <5>3, <5>4, <1>9
        <4>4. k = id => i <= Len(j) \/ i > Len(j)
          BY <4>0, <1>1, <1>2
        <4>. QED BY <4>1, <4>2, <4>3, <4>4
      <3>. QED BY <2>1, <3>1 DEF CallInv, NoEventsOf
    <2>4. CASE target[d] # id
      <3>1. target[d] \in Ids /\ journal'[target[d]] = journal[target[d]]
        BY <1>1, <1>5, <2>4 DEF TypeOK, CallTypeOK
      <3>. QED BY <2>1, <2>2, <2>3, <3>1
           DEF CallInv, SameCall, Loaded, Written, Unwritten, Refused,
               Answered, BatchInJournal
    <2>5. CASE target[d] = id
      <3>1. Loaded(d) => /\ ver[d] <= Len(j)
                         /\ agg[d] = Replay(j, ver[d]) \o batch[d]
        BY <2>1, <2>5 DEF CallInv, j
      <3>2. Loaded(d) => /\ ver[d] <= Len(j \o e)
                         /\ agg[d] = Replay(j \o e, ver[d]) \o batch[d]
        <4>1. ver[d] \in Nat
          BY <1>1 DEF TypeOK, CallTypeOK
        <4>2. Loaded(d) => ver[d] \in 0..Len(j)
          BY <1>1, <3>1, <4>1
        <4>3. Loaded(d) => Replay(j \o e, ver[d]) = Replay(j, ver[d])
          BY <1>1, <1>2, <4>2, ReplayOfPrefix
        <4>4. Loaded(d) => ver[d] <= Len(j \o e)
          BY <1>1, <1>2, <1>4, <4>1, <3>1
        <4>. QED BY <3>1, <4>3, <4>4
      <3>3. BatchInJournal(d) => BatchInJournal(d)'
        <4>1. ASSUME NEW i \in DOMAIN batch[d], BatchInJournal(d)
              PROVE  /\ ver[d] + i <= Len(j \o e)
                     /\ (j \o e)[ver[d] + i].event = batch[d][i]
          <5>1. /\ ver[d] + i <= Len(j)
                /\ j[ver[d] + i].event = batch[d][i]
            BY <2>5, <4>1 DEF BatchInJournal, j
          <5>2. i \in Nat \ {0} /\ ver[d] \in Nat
            <6>1. ver[d] \in Nat /\ batch[d] \in State
              BY <1>1 DEF TypeOK, CallTypeOK
            <6>2. DOMAIN batch[d] = 1..Len(batch[d]) /\ Len(batch[d]) \in Nat
              BY <6>1 DEF State
            <6>. QED BY <4>1, <6>1, <6>2
          <5>3. ver[d] + i \in 1..Len(j)
            BY <1>1, <5>1, <5>2
          <5>. QED BY <1>1, <1>2, <1>4, <5>1, <5>2, <5>3
        <4>. QED BY <2>1, <2>5, <1>5, <4>1 DEF BatchInJournal, SameCall
      <3>. QED BY <2>1, <2>2, <2>3, <2>5, <3>2, <3>3, <1>5
           DEF CallInv, SameCall, Loaded, Written, Unwritten, Refused,
               Answered
    <2>. QED BY <2>4, <2>5
  <1>10. CallInv(c)'
    <2>1. /\ pc'[c] = "save_snapshot"
          /\ UNCHANGED <<target, agg, ver, batch, reply>>
          /\ target[c] = id
      BY <1>1 DEF TypeOK, CallTypeOK, id
    <2>2. agg[c] = Replay(j, ver[c]) \o batch[c]
      BY <1>1 DEF CallInv, Loaded, j, id, SaveEvents
    <2>3. Replay(j \o e, ver[c]) = Replay(j, ver[c])
      <3>1. ver[c] \in 0..Len(j)
        BY <1>1
      <3>. QED BY <3>1, <1>1, <1>2, ReplayOfPrefix
    <2>4. ver[c] <= Len(j \o e) /\ ver[c] + Len(batch[c]) = Len(j \o e)
      BY <1>1, <1>2, <1>4
    <2>5. BatchInJournal(c)'
      <3>1. ASSUME NEW i \in DOMAIN batch[c]
            PROVE  /\ ver[c] + i <= Len(j \o e)
                   /\ (j \o e)[ver[c] + i].event = batch[c][i]
        BY <1>1, <1>2, <1>4
      <3>. QED BY <2>1, <3>1, <1>5 DEF BatchInJournal
    <2>. QED BY <1>1, <1>5, <2>1, <2>2, <2>3, <2>4, <2>5
         DEF CallInv, Loaded, Written, Unwritten, Refused, Answered
  <1>11. VersionsContiguous'
    <2>1. Contiguous(j \o e)
      BY <1>1, <1>2, ContiguousAppend
    <2>. QED BY <1>1, <1>5, <2>1 DEF IInv, VersionsContiguous
  <1>12. SnapshotIsReplay'
    <2>1. SnapshotIsReplay /\ snapshots' = snapshots
      BY DEF IInv
    <2>2. ASSUME snapshots[id] # NoSnapshot
          PROVE  /\ snapshots[id].version <= Len(j \o e)
                 /\ snapshots[id].state = Replay(j \o e, snapshots[id].version)
      <3>1. snapshots[id].version \in Nat
        BY <1>1, <2>2 DEF TypeOK, Snapshot
      <3>2. /\ snapshots[id].version <= Len(j)
            /\ snapshots[id].state = Replay(j, snapshots[id].version)
        BY <1>1, <2>1, <2>2 DEF SnapshotIsReplay, j
      <3>3. snapshots[id].version \in 0..Len(j)
        BY <1>1, <3>1, <3>2
      <3>4. snapshots[id].version <= Len(j \o e)
        BY <1>1, <1>2, <1>4, <3>1, <3>2
      <3>. QED BY <1>1, <1>2, <3>2, <3>3, <3>4, ReplayOfPrefix
    <2>. QED BY <1>5, <2>1, <2>2 DEF SnapshotIsReplay
  <1>13. ASSUME NEW k \in Ids PROVE SnapshotInv(k)'
    <2>1. target' = target /\ snapshots' = snapshots
      OBVIOUS
    <2>2. CASE k = id
      <3>1. pc'[c] = "save_snapshot" /\ target'[c] = k
        BY <1>1, <2>1, <2>2 DEF TypeOK, CallTypeOK, id
      <3>. QED BY <3>1 DEF SnapshotInv
    <2>3. CASE k # id
      <3>1. \A d \in Calls : pc[d] = "save_snapshot" => pc'[d] = "save_snapshot"
        BY <1>7 DEF SameCall, SaveEvents
      <3>. QED BY <1>5, <2>1, <2>3, <3>1 DEF IInv, SnapshotInv
    <2>. QED BY <2>2, <2>3
  <1>. QED BY <1>6, <1>8, <1>9, <1>10, <1>11, <1>12, <1>13 DEF IInv

(* save_snapshot: what is stored is the replay of the whole journal, which *)
(* nobody else can have extended meanwhile.                                *)
LEMMA SaveSnapshotKeeps ==
  ASSUME IInv, NEW c \in Calls, SaveSnapshot(c)
  PROVE  IInv'
  <1> DEFINE id == target[c]
             j == journal[id]
             s == NewSnapshot(c)
  <1> USE DEF SaveSnapshot, Goto, locks
  <1>1. /\ TypeOK /\ LockInv(c) /\ CallInv(c)
        /\ id \in Ids
        /\ j \in Seq(Envelope) /\ Len(j) \in Nat
        /\ ver[c] \in Nat /\ ver[c] + Len(batch[c]) = Len(j)
        /\ agg[c] = Replay(j, ver[c]) \o batch[c]
        /\ batch[c] \in State /\ Len(batch[c]) \in Nat
        /\ agg[c] \in State
        /\ BatchInJournal(c)
    <2>1. TypeOK /\ LockInv(c) /\ CallInv(c) /\ pc[c] = "save_snapshot"
      BY DEF IInv
    <2>2. /\ id \in Ids /\ ver[c] \in Nat /\ agg[c] \in State
          /\ batch[c] \in State
      BY <2>1 DEF TypeOK, CallTypeOK
    <2>3. Len(batch[c]) \in Nat
      BY <2>2 DEF State
    <2>4. j \in Seq(Envelope) /\ Len(j) \in Nat
      BY <2>1, <2>2 DEF TypeOK
    <2>5. /\ ver[c] + Len(batch[c]) = Len(j)
          /\ agg[c] = Replay(j, ver[c]) \o batch[c]
          /\ BatchInJournal(c)
      BY <2>1 DEF CallInv, Loaded, Written
    <2>. QED BY <2>1, <2>2, <2>3, <2>4, <2>5
  <1>2. s \in Snapshot /\ s.version = Len(j) /\ s.state = agg[c]
        /\ s # NoSnapshot
    <2>1. s = [state |-> agg[c], version |-> Len(j)]
      BY <1>1 DEF NewSnapshot
    <2>2. s \in Snapshot
      BY <1>1, <2>1 DEF Snapshot
    <2>. QED BY <2>1, <2>2, NoSnapshotAssumption
  <1>3. snapshots' = [snapshots EXCEPT ![id] = s]
    OBVIOUS
  <1>4. agg[c] = Replay(j, Len(j))
    <2>1. \A i \in 1..Len(batch[c]) : j[ver[c] + i].event = batch[c][i]
      <3>1. DOMAIN batch[c] = 1..Len(batch[c])
        BY <1>1 DEF State
      <3>. QED BY <1>1, <3>1 DEF BatchInJournal
    <2>2. Replay(j, ver[c] + Len(batch[c])) = Replay(j, ver[c]) \o batch[c]
      <3>. HIDE DEF j, s
      <3>1. ver[c] + Len(batch[c]) <= Len(j)
        BY <1>1
      <3>. QED BY <1>1, <2>1, <3>1, ReplayExtends
    <2>. QED BY <1>1, <2>2
  <1> HIDE DEF id, j, s
  <1>5. snapshots'[id] = s /\ \A k \in Ids : k # id => snapshots'[k] = snapshots[k]
    BY <1>1, <1>3 DEF TypeOK
  <1>6. TypeOK'
    <2>1. snapshots' \in [Ids -> Snapshot \cup {NoSnapshot}]
      BY <1>1, <1>2, <1>3 DEF TypeOK
    <2>2. pc' \in [Calls -> Label]
      BY <1>1 DEF TypeOK, CallTypeOK, Label
    <2>. QED BY <1>1, <2>1, <2>2 DEF TypeOK, CallTypeOK
  <1>7. ASSUME NEW d \in Calls, d # c
        PROVE  SameCall(d)
    BY <1>1, <1>7 DEF SameCall, TypeOK, CallTypeOK
  <1>8. ASSUME NEW d \in Calls PROVE LockInv(d)'
    BY <1>1, <1>7 DEF IInv, LockInv, InSession, SameCall, TypeOK, CallTypeOK
  <1>9. ASSUME NEW d \in Calls PROVE CallInv(d)'
    <2>1. CASE d # c
      BY <1>7, <2>1, FrameCall DEF IInv
    <2>2. CASE d = c
      <3>1. /\ pc[c] = "save_snapshot" /\ pc'[c] = "close"
            /\ UNCHANGED <<target, agg, ver, batch, reply, journal>>
        BY <1>1 DEF TypeOK, CallTypeOK
      <3>. QED BY <1>1, <2>2, <3>1
           DEF CallInv, Loaded, Written, Unwritten, Refused, Answered,
               BatchInJournal
    <2>. QED BY <2>1, <2>2
  <1>10. VersionsContiguous'
    BY DEF IInv, VersionsContiguous
  <1>11. SnapshotIsReplay'
    <2>1. SnapshotIsReplay /\ journal' = journal
      BY DEF IInv
    <2>2. s.version <= Len(j) /\ s.state = Replay(j, s.version)
      BY <1>1, <1>2, <1>4
    <2>. QED BY <1>5, <2>1, <2>2 DEF SnapshotIsReplay, j
  <1>12. ASSUME NEW k \in Ids PROVE SnapshotInv(k)'
    <2>1. target' = target /\ journal' = journal
      OBVIOUS
    <2>2. CASE k = id
      BY <1>2, <1>5, <2>1, <2>2 DEF SnapshotInv, j
    <2>3. CASE k # id
      <3>1. \A d \in Calls : pc[d] = "save_snapshot" /\ target[d] = k
                               => pc'[d] = "save_snapshot"
        BY <1>7, <2>3 DEF SameCall, id
      <3>. QED BY <1>5, <2>1, <2>3, <3>1 DEF IInv, SnapshotInv
    <2>. QED BY <2>2, <2>3
  <1>. QED BY <1>6, <1>8, <1>9, <1>10, <1>11, <1>12 DEF IInv

(* Every step of the engine keeps the inductive invariant.                 *)
LEMMA NextKeeps ==
  ASSUME IInv, [Next]_vars
  PROVE  IInv'
  <1>1. CASE UNCHANGED vars
    BY <1>1
    DEF vars, callVars, store, locks, IInv, TypeOK, CallTypeOK, LockInv,
        CallInv, InSession, Loaded, Written, Unwritten, Refused, Answered,
        BatchInJournal, NoEventsOf, VersionsContiguous, SnapshotIsReplay,
        SnapshotInv
  <1>2. ASSUME NEW c \in Calls, Step(c) \/ Cancel(c)
        PROVE  IInv'
    BY <1>2, FetchSnapshotKeeps, FetchEventsFromVersionKeeps, RunHandlerKeeps,
       StartSessionKeeps, FetchLatestEventKeeps, SaveEventsKeeps,
       SaveSnapshotKeeps, CloseSessionKeeps, DispatchKeeps, CancelKeeps
    DEF Step
  <1>. QED BY <1>1, <1>2 DEF Next, Idle

(* The inductive invariant holds in every reachable state.                 *)
THEOREM Invariance == Spec => []IInv
  <1>1. IInv /\ [Next]_vars => IInv'
    BY NextKeeps
  <1>. QED BY <1>1, InitIInv, PTL DEF Spec

(* Whatever the calls do, every variable keeps its type.                   *)
THEOREM TypeCorrect == Spec => []TypeOK
  <1>1. IInv => TypeOK
    BY DEF IInv
  <1>. QED BY <1>1, Invariance, PTL

(* Two calls that loaded the same version never both append: the journal   *)
(* of every aggregate is numbered 1, 2, 3, ... (execute_within_session).   *)
THEOREM JournalContiguous == Spec => []VersionsContiguous
  <1>1. IInv => VersionsContiguous
    BY DEF IInv
  <1>. QED BY <1>1, Invariance, PTL

(* A stored snapshot is always what its part of the journal replays to.    *)
THEOREM SnapshotFaithful == Spec => []SnapshotIsReplay
  <1>1. IInv => SnapshotIsReplay
    BY DEF IInv
  <1>. QED BY <1>1, Invariance, PTL

(* Outside a session the snapshots are abreast of the journals.            *)
THEOREM SnapshotCurrent == Spec => []SnapshotsAreCurrent
  <1>1. IInv => SnapshotsAreCurrent
    <2> SUFFICES ASSUME IInv, snapshotLock = Free, NEW id \in Ids
                 PROVE  IF snapshots[id] = NoSnapshot
                          THEN journal[id] = <<>>
                          ELSE snapshots[id].version = Len(journal[id])
      BY DEF SnapshotsAreCurrent
    <2>1. \A c \in Calls : pc[c] # "save_snapshot"
      BY FreeAssumption DEF IInv, LockInv, InSession
    <2>. QED BY <2>1 DEF IInv, SnapshotInv
  <1>. QED BY <1>1, Invariance, PTL

(* The state a call holds is the replay of the version it will check,      *)
(* though load_aggregate read it in two steps.                             *)
THEOREM LoadConsistent == Spec => []LoadedIsReplay
  <1>1. IInv => LoadedIsReplay
    BY DEF IInv, LoadedIsReplay, CallInv
  <1>. QED BY <1>1, Invariance, PTL

(* The answer of a call tells whether its events are in the journal.       *)
THEOREM AnswersTruthful == Spec => []AnswersAreTrue
  <1>1. IInv => AnswersAreTrue
    BY DEF IInv, AnswersAreTrue, CallInv, Written, Unwritten
  <1>. QED BY <1>1, Invariance, PTL

(* No commit rewrites an entry of a journal, and no commit puts back an    *)
(* older snapshot: save_snapshot runs with the version just checked.       *)
THEOREM StoreGrowing == Spec => StoreOnlyGrows
  <1>1. ASSUME IInv, NEW c \in Calls, SaveEvents(c)
        PROVE  StoreGrows
    <2> DEFINE j == journal[target[c]]
               e == Envelopes(c)
    <2>1. /\ TypeOK /\ target[c] \in Ids /\ j \in Seq(Envelope)
          /\ snapshots' = snapshots
      BY <1>1 DEF IInv, TypeOK, CallTypeOK, SaveEvents
    <2>2. e \in Seq(Envelope)
      BY <2>1, EnvelopedType DEF Envelopes, TypeOK, CallTypeOK
    <2>3. \A k \in Ids :
            journal'[k] = IF k = target[c] THEN j \o e ELSE journal[k]
      BY <1>1, <2>1 DEF SaveEvents, TypeOK
    <2> HIDE DEF j, e
    <2>4. j \o e \in Seq(Envelope) /\ Len(j \o e) = Len(j) + Len(e)
      BY <2>1, <2>2
    <2>5. /\ DOMAIN j = 1..Len(j) /\ Len(j) \in Nat /\ Len(e) \in Nat
          /\ DOMAIN (j \o e) = 1..(Len(j) + Len(e))
      BY <2>1, <2>2, <2>4, LenProperties
    <2>6. \A i \in DOMAIN j : i \in DOMAIN (j \o e) /\ (j \o e)[i] = j[i]
      BY <2>1, <2>2, <2>5
    <2>7. \A k \in Ids : snapshots[k] # NoSnapshot =>
            snapshots[k].version \in Nat
      BY <2>1 DEF TypeOK, Snapshot
    <2>8. ASSUME NEW k \in Ids, NEW i \in DOMAIN journal[k]
          PROVE  i \in DOMAIN journal'[k] /\ journal'[k][i] = journal[k][i]
      <3>1. CASE k = target[c]
        <4>1. journal[k] = j /\ journal'[k] = j \o e
          BY <2>3, <3>1 DEF j
        <4>. QED BY <2>6, <2>8, <4>1
      <3>2. CASE k # target[c]
        BY <2>3, <2>8, <3>2
      <3>. QED BY <3>1, <3>2
    <2>9. ASSUME NEW k \in Ids, snapshots[k] # NoSnapshot
          PROVE  /\ snapshots'[k] # NoSnapshot
                 /\ snapshots'[k].version >= snapshots[k].version
      BY <2>1, <2>7, <2>9
    <2>. QED BY <2>8, <2>9 DEF StoreGrows
  <1>2. ASSUME IInv, NEW c \in Calls, SaveSnapshot(c)
        PROVE  StoreGrows
    <2> DEFINE s == NewSnapshot(c)
    <2>1. /\ TypeOK /\ CallInv(c) /\ SnapshotIsReplay /\ target[c] \in Ids
          /\ journal' = journal /\ pc[c] = "save_snapshot"
      BY <1>2 DEF IInv, TypeOK, CallTypeOK, SaveSnapshot
    <2>2. /\ s.version = Len(journal[target[c]])
          /\ s.version \in Nat
      <3>1. ver[c] \in Nat /\ batch[c] \in State
        BY <2>1 DEF TypeOK, CallTypeOK
      <3>2. Len(batch[c]) \in Nat
        BY <3>1 DEF State
      <3>. QED BY <2>1, <3>1, <3>2 DEF NewSnapshot, CallInv
    <2>3. s # NoSnapshot
      <3>1. agg[c] \in State
        BY <2>1 DEF TypeOK, CallTypeOK
      <3>2. s \in Snapshot
        BY <2>2, <3>1 DEF NewSnapshot, Snapshot
      <3>. QED BY <3>2, NoSnapshotAssumption
    <2>4. \A k \in Ids :
            snapshots'[k] = IF k = target[c] THEN s ELSE snapshots[k]
      BY <1>2, <2>1 DEF SaveSnapshot, TypeOK
    <2> HIDE DEF s
    <2>5. \A k \in Ids : snapshots[k] # NoSnapshot =>
            /\ snapshots[k].version \in Nat
            /\ snapshots[k].version <= Len(journal[k])
      BY <2>1 DEF TypeOK, Snapshot, SnapshotIsReplay
    <2>6. ASSUME NEW k \in Ids, snapshots[k] # NoSnapshot
          PROVE  /\ snapshots'[k] # NoSnapshot
                 /\ snapshots'[k].version >= snapshots[k].version
      <3>1. CASE k = target[c]
        BY <2>2, <2>3, <2>4, <2>5, <2>6, <3>1
      <3>2. CASE k # target[c]
        BY <2>4, <2>5, <2>6, <3>2
      <3>. QED BY <3>1, <3>2
    <2>. QED BY <2>1, <2>6 DEF StoreGrows
  <1>3. ASSUME NEW c \in Calls, Step(c) \/ Cancel(c),
               ~ SaveEvents(c), ~ SaveSnapshot(c)
        PROVE  UNCHANGED store
    BY <1>3
    DEF Step, FetchSnapshot, FetchEventsFromVersion, RunHandler, StartSession,
        LockSnapshot, FetchLatestEvent, CloseSession, AbortSession, Dispatch,
        Cancel
  <1>4. IInv /\ [Next]_vars => [StoreGrows]_store
    BY <1>1, <1>2, <1>3 DEF Next, Idle, vars
  <1>. QED BY <1>4, Invariance, PTL DEF Spec, StoreOnlyGrows

-----------------------------------------------------------------------------
(* The batch of a call is what its handler returned, from the first event. *)
BatchesAreNew ==
  \A c \in Calls : \E n \in 0..MaxEvents : batch[c] = NewEvents(c, n)

LEMMA BatchesStayNew == Spec => []BatchesAreNew
  <1>1. Init => BatchesAreNew
    <2>1. 0 \in 0..MaxEvents
      BY MaxEventsAssumption
    <2>2. \A c : NewEvents(c, 0) = <<>>
      BY DEF NewEvents
    <2>. QED BY <2>1, <2>2 DEF Init, CallInit, BatchesAreNew
  <1>2. IInv /\ BatchesAreNew /\ [Next]_vars => BatchesAreNew'
    <2> SUFFICES ASSUME IInv, BatchesAreNew, [Next]_vars
                 PROVE  BatchesAreNew'
      OBVIOUS
    <2>1. CASE batch' = batch
      BY <2>1 DEF BatchesAreNew
    <2>2. ASSUME NEW c \in Calls, Handle(c) PROVE BatchesAreNew'
      <3>1. PICK n \in 0..MaxEvents :
              batch' = [batch EXCEPT ![c] = NewEvents(c, n)]
        BY <2>2 DEF Handle
      <3>2. batch \in [Calls -> State]
        BY DEF IInv, TypeOK, CallTypeOK
      <3>. QED BY <3>1, <3>2 DEF BatchesAreNew
    <2>3. batch' = batch \/ \E c \in Calls : Handle(c)
      BY DEF Next, Idle, vars, callVars, Step, Cancel, Drop, FetchSnapshot,
             InitializeAggregate, LoadSnapshot, FetchEventsFromVersion,
             LoadTail, RunHandler, Refuse, StartSession, LockSnapshot,
             FetchLatestEvent, CheckVersion, SaveEvents, SaveSnapshot,
             CloseSession, Committed, AbortSession, Aborted, Dispatch,
             Dispatched
    <2>. QED BY <2>1, <2>2, <2>3
  <1>. QED BY <1>1, <1>2, Invariance, PTL DEF Spec

LEMMA LoadsAreReplays ==
  IInv => LoadsHold
  BY DEF IInv, TypeOK, LoadsHold, LoadedIsReplay, CallInv

LEMMA LoadsAreReplaysAfter ==
  IInv' => LoadsHold'
  BY DEF IInv, TypeOK, LoadsHold, LoadedIsReplay, CallInv

(* A step of a call moves that call only.                                  *)
LEMMA StepIsOfOneCall ==
  ASSUME TypeOK, NEW c \in Calls, Step(c) \/ Cancel(c)
  PROVE  /\ \A d \in Calls : d # c => SameCall(d)
         /\ target' = target
         /\ ~ SaveEvents(c) => journal' = journal
  <1> USE DEF Goto, Answer, store, locks, SameCall, TypeOK, CallTypeOK
  <1>1. CASE FetchSnapshot(c)
    BY <1>1 DEF FetchSnapshot, InitializeAggregate, LoadSnapshot
  <1>2. CASE FetchEventsFromVersion(c)
    BY <1>2 DEF FetchEventsFromVersion, LoadTail
  <1>3. CASE RunHandler(c)
    BY <1>3 DEF RunHandler, Handle, Refuse
  <1>4. CASE StartSession(c) \/ LockSnapshot(c) \/ FetchLatestEvent(c)
    BY <1>4 DEF StartSession, LockSnapshot, FetchLatestEvent, CheckVersion
  <1>5. CASE SaveEvents(c) \/ SaveSnapshot(c)
    BY <1>5 DEF SaveEvents, SaveSnapshot
  <1>6. CASE CloseSession(c) \/ AbortSession(c) \/ Dispatch(c) \/ Cancel(c)
    BY <1>6 DEF CloseSession, Committed, AbortSession, Aborted, Dispatch,
                Dispatched, Cancel, Drop
  <1>. QED BY <1>1, <1>2, <1>3, <1>4, <1>5, <1>6 DEF Step

(* What the steps that save no events are to EventLog.                     *)
LEMMA MovesAreQuiet ==
  ASSUME IInv, NEW c \in Calls, Step(c) \/ Cancel(c), ~ SaveEvents(c)
  PROVE  QuietMove(c)
  <1> USE DEF Goto, Answer, QuietMove
  <1>0. CallTypeOK /\ CallInv(c)
    BY DEF IInv, TypeOK
  <1>1. CASE FetchSnapshot(c)
    BY <1>0, <1>1 DEF FetchSnapshot, InitializeAggregate, LoadSnapshot, CallTypeOK
  <1>2. CASE FetchEventsFromVersion(c)
    BY <1>0, <1>2 DEF FetchEventsFromVersion, LoadTail, CallTypeOK
  <1>3. CASE RunHandler(c)
    BY <1>0, <1>3 DEF RunHandler, Handle, Refuse, CallTypeOK
  <1>4. CASE StartSession(c) \/ LockSnapshot(c) \/ FetchLatestEvent(c)
    BY <1>0, <1>4
    DEF StartSession, LockSnapshot, FetchLatestEvent, CheckVersion, CallTypeOK
  <1>5. CASE SaveSnapshot(c)
    BY <1>0, <1>5 DEF SaveSnapshot, CallTypeOK
  <1>6. CASE CloseSession(c)
    BY <1>0, <1>6 DEF CloseSession, Committed, CallTypeOK
  <1>7. CASE AbortSession(c)
    BY <1>0, <1>7 DEF AbortSession, Aborted, CallTypeOK, CallInv
  <1>8. CASE Dispatch(c)
    BY <1>0, <1>8 DEF Dispatch, Dispatched, CallTypeOK
  <1>9. CASE Cancel(c)
    BY <1>0, <1>9 DEF Cancel, Drop, CallTypeOK
  <1>. QED BY <1>1, <1>2, <1>3, <1>4, <1>5, <1>6, <1>7, <1>8, <1>9 DEF Step

(* The version check under both guards: what is pushed goes to the end of  *)
(* the stream the call has seen.                                           *)
LEMMA SaveEventsSimulated ==
  ASSUME IInv, IInv', BatchesAreNew, NEW c \in Calls, SaveEvents(c)
  PROVE  Simulated
  <1>1. LoadsHold /\ LoadsHold' /\ TypeOK /\ CallTypeOK
    BY LoadsAreReplays, LoadsAreReplaysAfter DEF IInv, TypeOK
  <1>2. \A d \in Calls : d # c => SameCall(d)
    BY <1>1, StepIsOfOneCall DEF Step
  <1>3. PICK n \in 0..MaxEvents : batch[c] = NewEvents(c, n)
    BY DEF BatchesAreNew
  <1>4. pc[c] = "save_events" /\ ver[c] = Len(journal[target[c]])
    BY DEF IInv, CallInv, SaveEvents
  <1>5. /\ pc'[c] = "save_snapshot" /\ UNCHANGED <<agg, ver, target>>
        /\ journal' = [journal EXCEPT ![target[c]] = @ \o Envelopes(c)]
    BY <1>1 DEF SaveEvents, Goto, CallTypeOK
  <1>. QED BY <1>1, <1>2, <1>3, <1>4, <1>5, AppendSimulated

(* The engine keeps the promise of EventLog: whatever its reads, guards,   *)
(* sessions and snapshots, a commit is one compare-and-append.             *)
THEOREM Refinement == Spec => ImplementsEventLog
  <1>1. Init => Log!Init
    <2> SUFFICES ASSUME Init PROVE Log!Init
      OBVIOUS
    <2>1. target \in [Calls -> Ids]
      BY DEF Init, CallInit
    <2>2. Stream = [id \in Ids |-> <<>>]
      BY DEF Init, StoreInit, Stream, EventsOf
    <2>3. /\ Status = [c \in Calls |-> "pending"]
          /\ Seen = [c \in Calls |-> <<>>]
      BY DEF Init, CallInit, Status, Seen, Loaded, Answered
    <2>. QED BY <2>1, <2>2, <2>3 DEF Log!Init
  <1>2. IInv /\ IInv' /\ BatchesAreNew /\ [Next]_vars => [Log!Next]_(Log!vars)
    <2> SUFFICES ASSUME IInv, IInv', BatchesAreNew, [Next]_vars
                 PROVE  Simulated
      BY DEF Simulated
    <2>1. CASE UNCHANGED vars
      BY <2>1 DEF vars, callVars, store, Simulated, Log!vars, Stream, Status,
                  Seen, Loaded, Answered
    <2>2. ASSUME NEW c \in Calls, Step(c) \/ Cancel(c) PROVE Simulated
      <3>1. TypeOK /\ LoadsHold /\ LoadsHold'
        BY LoadsAreReplays, LoadsAreReplaysAfter DEF IInv
      <3>2. CASE ~ SaveEvents(c)
        BY <2>2, <3>1, <3>2, StepIsOfOneCall, MovesAreQuiet, QuietMoveSimulated
      <3>. QED BY <3>2, SaveEventsSimulated
    <2>. QED BY <2>1, <2>2 DEF Next, Idle
  <1>. QED BY <1>1, <1>2, Invariance, BatchesStayNew, PTL
       DEF Spec, ImplementsEventLog, Log!Spec

-----------------------------------------------------------------------------
(* What was dispatched and what was not: an entry of a journal is of a     *)
(* call that placed it there, and was delivered once its call is answered  *)
(* "ok"; what was delivered is an entry of the journal.                    *)
EntriesArePlaced ==
  \A id \in Ids : \A i \in DOMAIN journal[id] :
    LET d == journal[id][i].event[1] IN
    /\ d \in Calls
    /\ target[d] = id
    /\ \E m \in DOMAIN batch[d] : i = ver[d] + m

DeliveredAreEntries ==
  \A id \in Ids : \A k \in DOMAIN delivered[id] :
    LET e == delivered[id][k] IN
    /\ e.version \in DOMAIN journal[id]
    /\ e = journal[id][e.version]
    /\ Answered(e.event[1], "ok")

DeliveredApart ==
  \A id \in Ids : \A k, m \in DOMAIN delivered[id] :
    delivered[id][k].version = delivered[id][m].version => k = m

(* The events of such a call need not be delivered yet, or ever. *)
Undelivered(d) ==
  \/ pc[d] \in {"save_snapshot", "close", "dispatch"}
  \/ Answered(d, "cancelled")

EntriesAreDelivered ==
  \A id \in Ids : \A i \in DOMAIN journal[id] :
    \/ Undelivered(journal[id][i].event[1])
    \/ \E k \in DOMAIN delivered[id] : delivered[id][k].version = i

DeliveryInv ==
  /\ EntriesArePlaced
  /\ DeliveredAreEntries
  /\ DeliveredApart
  /\ EntriesAreDelivered

(* Where the entries of a journal come from.                               *)
LEMMA EntryTypes ==
  ASSUME TypeOK, NEW id \in Ids, NEW i \in DOMAIN journal[id]
  PROVE  /\ journal[id][i] \in Envelope
         /\ journal[id][i].event[1] \in Calls
         /\ i \in 1..Len(journal[id]) /\ Len(journal[id]) \in Nat
  <1>1. journal[id] \in Seq(Envelope)
    BY DEF TypeOK
  <1>2. i \in 1..Len(journal[id]) /\ Len(journal[id]) \in Nat
    BY <1>1, LenProperties
  <1>3. journal[id][i] \in Envelope
    BY <1>1, <1>2, ElementOfSeq
  <1>. QED BY <1>2, <1>3 DEF Envelope, Event

(* A call without events in the journals, or one that goes on to deliver   *)
(* its own, may move: what was and was not delivered is the same.          *)
LEMMA QuietStepDelivers ==
  ASSUME TypeOK, DeliveryInv, NEW c \in Calls, pc[c] # "done",
         \A d \in Calls : d # c => SameCall(d),
         target' = target, journal' = journal, delivered' = delivered,
         \/ NoEventsOf(c)
         \/ ver'[c] = ver[c] /\ batch'[c] = batch[c] /\ Undelivered(c)'
  PROVE  DeliveryInv'
  <1>0. /\ \A d \in Calls : d # c => SameCall(d)
        /\ journal' = journal /\ delivered' = delivered
    OBVIOUS
  <1>1. ASSUME NEW id \in Ids, NEW i \in DOMAIN journal[id],
               NEW d \in Calls, d = journal[id][i].event[1]
        PROVE  /\ target'[d] = id
               /\ \E m \in DOMAIN batch'[d] : i = ver'[d] + m
               /\ Undelivered(d) => Undelivered(d)'
    <2>1. /\ target[d] = id
          /\ \E m \in DOMAIN batch[d] : i = ver[d] + m
      BY <1>1 DEF DeliveryInv, EntriesArePlaced
    <2>2. d = c => ~ NoEventsOf(c)
      BY <1>1 DEF NoEventsOf
    <2>3. CASE d = c
      BY <2>1, <2>2, <2>3
    <2>4. CASE d # c
      <3>1. SameCall(d)
        BY <1>0, <2>4
      <3>. QED BY <2>1, <3>1 DEF SameCall, Undelivered, Answered
    <2>. QED BY <2>3, <2>4
  <1>2. EntriesArePlaced'
    <2>1. ASSUME NEW id \in Ids, NEW i \in DOMAIN journal[id]
          PROVE  LET d == journal[id][i].event[1] IN
                 /\ d \in Calls /\ target'[d] = id
                 /\ \E m \in DOMAIN batch'[d] : i = ver'[d] + m
      BY <1>1, EntryTypes
    <2>. QED BY <1>0, <2>1 DEF EntriesArePlaced
  <1>3. DeliveredAreEntries'
    <2>1. ASSUME NEW id \in Ids, NEW k \in DOMAIN delivered[id]
          PROVE  LET e == delivered[id][k] IN
                 /\ e.version \in DOMAIN journal[id]
                 /\ e = journal[id][e.version]
                 /\ pc'[e.event[1]] = "done" /\ reply'[e.event[1]] = "ok"
      <3> DEFINE e == delivered[id][k]
                 d == e.event[1]
      <3>1. /\ e.version \in DOMAIN journal[id]
            /\ e = journal[id][e.version]
            /\ pc[d] = "done" /\ reply[d] = "ok"
        BY <2>1 DEF DeliveryInv, DeliveredAreEntries, Answered
      <3>2. d \in Calls
        BY <3>1, EntryTypes
      <3> HIDE DEF e, d
      <3>3. SameCall(d)
        BY <1>0, <3>1, <3>2
      <3>. QED BY <3>1, <3>3 DEF e, d, SameCall
    <2>. QED BY <1>0, <2>1 DEF DeliveredAreEntries, Answered
  <1>4. DeliveredApart'
    BY <1>0 DEF DeliveryInv, DeliveredApart
  <1>5. EntriesAreDelivered'
    <2>1. ASSUME NEW id \in Ids, NEW i \in DOMAIN journal[id],
                 NEW d \in Calls, d = journal[id][i].event[1]
          PROVE  \/ Undelivered(d)'
                 \/ \E k \in DOMAIN delivered[id] : delivered[id][k].version = i
      BY <1>1, <2>1 DEF DeliveryInv, EntriesAreDelivered
    <2>2. ASSUME NEW id \in Ids, NEW i \in DOMAIN journal[id]
          PROVE  LET d == journal[id][i].event[1] IN
                 \/ pc'[d] \in {"save_snapshot", "close", "dispatch"}
                 \/ pc'[d] = "done" /\ reply'[d] = "cancelled"
                 \/ \E k \in DOMAIN delivered[id] : delivered[id][k].version = i
      <3>1. journal[id][i].event[1] \in Calls
        BY <2>2, EntryTypes
      <3>. QED BY <2>1, <3>1 DEF Undelivered, Answered
    <2>. QED BY <1>0, <2>2 DEF EntriesAreDelivered, Undelivered, Answered
  <1>. QED BY <1>2, <1>3, <1>4, <1>5 DEF DeliveryInv

(* The steps that neither save events nor deliver them.                    *)
LEMMA MovesDeliver ==
  ASSUME IInv, DeliveryInv, NEW c \in Calls, Step(c) \/ Cancel(c),
         ~ SaveEvents(c), ~ Dispatch(c)
  PROVE  DeliveryInv'
  <1>1. /\ TypeOK /\ CallInv(c) /\ CallTypeOK
        /\ \A d \in Calls : d # c => SameCall(d)
        /\ target' = target /\ journal' = journal
    BY StepIsOfOneCall DEF IInv, TypeOK
  <1>2. pc[c] # "done" /\ delivered' = delivered
    BY DEF Step, Cancel, FetchSnapshot, InitializeAggregate, LoadSnapshot,
           FetchEventsFromVersion, LoadTail, RunHandler, Handle, Refuse,
           StartSession, LockSnapshot, FetchLatestEvent, CheckVersion,
           SaveSnapshot, CloseSession, Committed, AbortSession, Aborted
  <1>3. batch[c] = <<>> => NoEventsOf(c)
    <2>1. ASSUME batch[c] = <<>>, NEW id \in Ids, NEW i \in DOMAIN journal[id],
                 journal[id][i].event[1] = c
          PROVE  FALSE
      <3>1. \E m \in DOMAIN batch[c] : i = ver[c] + m
        BY <2>1 DEF DeliveryInv, EntriesArePlaced
      <3>. QED BY <2>1, <3>1
    <2>. QED BY <2>1 DEF NoEventsOf
  <1>4. CASE \/ SaveSnapshot(c)
             \/ CloseSession(c) /\ batch[c] # <<>>
    <2>1. ver'[c] = ver[c] /\ batch'[c] = batch[c] /\ Undelivered(c)'
      BY <1>1, <1>4 DEF SaveSnapshot, CloseSession, Committed, Goto,
                        Undelivered, CallTypeOK
    <2>. QED BY <1>1, <1>2, <2>1, QuietStepDelivers
  <1>5. CASE Cancel(c)
    <2>1. ver'[c] = ver[c] /\ batch'[c] = batch[c] /\ Undelivered(c)'
      BY <1>1, <1>5 DEF Cancel, Drop, Answer, Undelivered, Answered, CallTypeOK
    <2>. QED BY <1>1, <1>2, <2>1, QuietStepDelivers
  <1>6. CASE /\ ~ SaveSnapshot(c) /\ ~ Cancel(c)
             /\ ~ (CloseSession(c) /\ batch[c] # <<>>)
    <2>1. Unwritten(c) \/ batch[c] = <<>>
      BY <1>6 DEF Step, FetchSnapshot, InitializeAggregate, LoadSnapshot,
             FetchEventsFromVersion, LoadTail, RunHandler, Handle, Refuse,
             StartSession, LockSnapshot, FetchLatestEvent, CheckVersion,
             CloseSession, AbortSession, Aborted, Unwritten
    <2>2. NoEventsOf(c)
      BY <1>1, <1>3, <2>1 DEF CallInv
    <2>. QED BY <1>1, <1>2, <2>2, QuietStepDelivers
  <1>. QED BY <1>4, <1>5, <1>6

(* The envelopes of a call, and where a call appends them.                 *)
LEMMA EnvelopesType ==
  ASSUME TypeOK, NEW c \in Calls
  PROVE  LET e == Envelopes(c) IN
         /\ e \in Seq(Envelope) /\ Len(e) \in Nat
         /\ DOMAIN e = 1..Len(e) /\ DOMAIN batch[c] = 1..Len(e)
         /\ ver[c] \in Nat
         /\ \A m \in 1..Len(e) : /\ e[m] \in Envelope
                                 /\ e[m].version = ver[c] + m
                                 /\ e[m].event = batch[c][m]
  <1> DEFINE e == Envelopes(c)
  <1>1. ver[c] \in Nat /\ batch[c] \in State
    BY DEF TypeOK, CallTypeOK
  <1>2. Len(batch[c]) \in Nat /\ DOMAIN batch[c] = 1..Len(batch[c])
    BY <1>1, LenProperties DEF State
  <1>3. /\ e \in Seq(Envelope) /\ Len(e) = Len(batch[c])
        /\ \A m \in 1..Len(batch[c]) : /\ e[m].version = ver[c] + m
                                       /\ e[m].event = batch[c][m]
    BY <1>1, EnvelopedType DEF Envelopes
  <1> HIDE DEF e
  <1>4. DOMAIN e = 1..Len(e) /\ \A m \in 1..Len(e) : e[m] \in Envelope
    BY <1>3, LenProperties, ElementOfSeq
  <1>. QED BY <1>1, <1>2, <1>3, <1>4 DEF e

(* save_events: the new entries are of the call, which delivers them later. *)
LEMMA SaveEventsDelivers ==
  ASSUME IInv, DeliveryInv, NEW c \in Calls, SaveEvents(c)
  PROVE  DeliveryInv'
  <1> DEFINE t == target[c]
             j == journal[t]
             e == Envelopes(c)
  <1>1. /\ TypeOK /\ CallInv(c) /\ t \in Ids /\ pc[c] = "save_events"
        /\ j \in Seq(Envelope) /\ Len(j) \in Nat /\ DOMAIN j = 1..Len(j)
        /\ ver[c] = Len(j) /\ NoEventsOf(c)
    BY LenProperties
    DEF IInv, TypeOK, CallTypeOK, CallInv, SaveEvents, Unwritten
  <1>2. /\ e \in Seq(Envelope) /\ Len(e) \in Nat
        /\ DOMAIN batch[c] = 1..Len(e)
        /\ \A m \in 1..Len(e) : e[m].event = batch[c][m]
    BY <1>1, EnvelopesType
  <1>3. \A m \in 1..Len(e) : e[m].event[1] = c
    BY <1>1, <1>2 DEF CallInv
  <1>4. /\ UNCHANGED <<target, ver, batch, reply, delivered>>
        /\ pc' = [pc EXCEPT ![c] = "save_snapshot"]
        /\ journal' = [journal EXCEPT ![t] = j \o e]
    BY DEF SaveEvents, Goto, locks
  <1>5. /\ pc'[c] = "save_snapshot"
        /\ \A d \in Calls : d # c => pc'[d] = pc[d]
        /\ journal'[t] = j \o e
        /\ \A id \in Ids : id # t => journal'[id] = journal[id]
    BY <1>1, <1>4 DEF TypeOK, CallTypeOK
  <1> HIDE DEF t, j, e
  <1>6. /\ DOMAIN (j \o e) = 1..(Len(j) + Len(e))
        /\ \A i \in 1..Len(j) : (j \o e)[i] = j[i]
        /\ \A m \in 1..Len(e) : (j \o e)[Len(j) + m] = e[m]
    <2>1. j \in Seq(Envelope) /\ e \in Seq(Envelope)
      BY <1>1, <1>2
    <2>2. /\ j \o e \in Seq(Envelope) /\ Len(j \o e) = Len(j) + Len(e)
          /\ \A i \in 1..Len(j) : (j \o e)[i] = j[i]
          /\ \A m \in 1..Len(e) : (j \o e)[Len(j) + m] = e[m]
      BY ONLY <2>1, AppendPlaces
    <2>. QED BY <2>2, LenProperties
  <1>7. ASSUME NEW id \in Ids, NEW i \in DOMAIN journal'[id]
        PROVE  \/ i \in DOMAIN journal[id] /\ journal'[id][i] = journal[id][i]
               \/ /\ id = t /\ journal'[id][i].event[1] = c
                  /\ \E m \in DOMAIN batch[c] : i = ver[c] + m
    <2>1. CASE id = t /\ ~ (i \in 1..Len(j))
      <3>1. i \in 1..(Len(j) + Len(e))
        BY <1>5, <1>6, <1>7, <2>1
      <3>2. i - Len(j) \in 1..Len(e) /\ i = Len(j) + (i - Len(j))
        BY ONLY <1>1, <1>2, <2>1, <3>1
      <3>3. journal'[id][i] = e[i - Len(j)]
        BY <1>5, <1>6, <2>1, <3>2
      <3>. QED BY <1>1, <1>2, <1>3, <2>1, <3>2, <3>3
    <2>2. CASE id = t /\ i \in 1..Len(j)
      BY <1>1, <1>5, <1>6, <2>2 DEF j
    <2>3. CASE id # t
      BY <1>5, <1>7, <2>3
    <2>. QED BY <2>1, <2>2, <2>3
  <1>8. ASSUME NEW id \in Ids, NEW i \in DOMAIN journal[id]
        PROVE  /\ i \in DOMAIN journal'[id] /\ journal'[id][i] = journal[id][i]
               /\ journal[id][i].event[1] \in Calls
               /\ journal[id][i].event[1] # c
    <2>1. /\ journal[id][i].event[1] \in Calls
          /\ journal[id][i].event[1] # c
      BY <1>1, <1>8, EntryTypes DEF NoEventsOf
    <2>2. CASE id = t
      <3>1. i \in 1..Len(j) /\ i \in 1..(Len(j) + Len(e))
        BY <1>1, <1>2, <1>8, <2>2 DEF j
      <3>. QED BY <1>5, <1>6, <2>1, <2>2, <3>1 DEF j
    <2>3. CASE id # t
      BY <1>5, <1>8, <2>1, <2>3
    <2>. QED BY <2>2, <2>3
  <1>9. EntriesArePlaced'
    <2>1. ASSUME NEW id \in Ids, NEW i \in DOMAIN journal'[id]
          PROVE  LET d == journal'[id][i].event[1] IN
                 /\ d \in Calls /\ target[d] = id
                 /\ \E m \in DOMAIN batch[d] : i = ver[d] + m
      <3>1. CASE i \in DOMAIN journal[id] /\ journal'[id][i] = journal[id][i]
        BY <3>1 DEF DeliveryInv, EntriesArePlaced
      <3>2. CASE /\ id = t /\ journal'[id][i].event[1] = c
                 /\ \E m \in DOMAIN batch[c] : i = ver[c] + m
        BY <3>2 DEF t
      <3>. QED BY <1>7, <2>1, <3>1, <3>2
    <2>. QED BY <1>4, <2>1 DEF EntriesArePlaced
  <1>10. DeliveredAreEntries'
    <2>1. ASSUME NEW id \in Ids, NEW k \in DOMAIN delivered[id]
          PROVE  LET x == delivered[id][k] IN
                 /\ x.version \in DOMAIN journal'[id]
                 /\ x = journal'[id][x.version]
                 /\ pc'[x.event[1]] = "done" /\ reply[x.event[1]] = "ok"
      <3> DEFINE x == delivered[id][k]
      <3>1. /\ x.version \in DOMAIN journal[id]
            /\ x = journal[id][x.version]
            /\ pc[x.event[1]] = "done" /\ reply[x.event[1]] = "ok"
        BY <2>1 DEF DeliveryInv, DeliveredAreEntries, Answered
      <3> HIDE DEF x
      <3>2. /\ x.version \in DOMAIN journal'[id]
            /\ x = journal'[id][x.version]
            /\ x.event[1] \in Calls /\ x.event[1] # c
        BY <1>8, <3>1
      <3>3. pc'[x.event[1]] = "done"
        BY <1>5, <3>1, <3>2
      <3>. QED BY <3>1, <3>2, <3>3 DEF x
    <2>. QED BY <1>4, <2>1 DEF DeliveredAreEntries, Answered
  <1>11. DeliveredApart'
    BY <1>4 DEF DeliveryInv, DeliveredApart
  <1>12. EntriesAreDelivered'
    <2>1. ASSUME NEW id \in Ids, NEW i \in DOMAIN journal'[id]
          PROVE  LET d == journal'[id][i].event[1] IN
                 \/ pc'[d] \in {"save_snapshot", "close", "dispatch"}
                 \/ pc'[d] = "done" /\ reply[d] = "cancelled"
                 \/ \E k \in DOMAIN delivered[id] : delivered[id][k].version = i
      <3>1. CASE i \in DOMAIN journal[id] /\ journal'[id][i] = journal[id][i]
        <4> DEFINE d == journal[id][i].event[1]
        <4>1. d \in Calls /\ d # c
          BY <1>8, <3>1
        <4>2. \/ pc[d] \in {"save_snapshot", "close", "dispatch"}
              \/ pc[d] = "done" /\ reply[d] = "cancelled"
              \/ \E k \in DOMAIN delivered[id] : delivered[id][k].version = i
          BY <3>1 DEF DeliveryInv, EntriesAreDelivered, Undelivered, Answered
        <4>3. pc'[d] = pc[d]
          BY <1>5, <4>1
        <4>. QED BY <3>1, <4>2, <4>3
      <3>2. CASE journal'[id][i].event[1] = c
        BY <1>5, <3>2
      <3>. QED BY <1>7, <2>1, <3>1, <3>2
    <2>. QED BY <1>4, <2>1 DEF EntriesAreDelivered, Undelivered, Answered
  <1>. QED BY <1>9, <1>10, <1>11, <1>12 DEF DeliveryInv

(* The dispatcher gets what is in the journal, from a call that has not    *)
(* dispatched before.                                                      *)
LEMMA DispatchDelivers ==
  ASSUME IInv, DeliveryInv, NEW c \in Calls, Dispatch(c)
  PROVE  DeliveryInv'
  <1> DEFINE t == target[c]
             j == journal[t]
             e == Envelopes(c)
             old == delivered[t]
  <1>1. /\ TypeOK /\ CallInv(c) /\ t \in Ids /\ pc[c] = "dispatch"
        /\ j \in Seq(Envelope) /\ Len(j) \in Nat /\ DOMAIN j = 1..Len(j)
        /\ Contiguous(j) /\ BatchInJournal(c)
        /\ old \in Seq(Envelope) /\ Len(old) \in Nat /\ DOMAIN old = 1..Len(old)
    BY LenProperties
    DEF IInv, TypeOK, CallTypeOK, CallInv, Dispatch, Dispatched, Written,
        VersionsContiguous
  <1>2. /\ e \in Seq(Envelope) /\ Len(e) \in Nat /\ ver[c] \in Nat
        /\ DOMAIN batch[c] = 1..Len(e)
        /\ \A m \in 1..Len(e) : /\ e[m] \in Envelope
                                /\ e[m].version = ver[c] + m
                                /\ e[m].event = batch[c][m]
                                /\ batch[c][m][1] = c
    BY <1>1, EnvelopesType DEF CallInv
  <1>3. /\ UNCHANGED <<target, ver, batch, journal>>
        /\ pc' = [pc EXCEPT ![c] = "done"] /\ reply' = [reply EXCEPT ![c] = "ok"]
        /\ delivered' = [delivered EXCEPT ![t] = old \o e]
    BY DEF Dispatch, Dispatched, Answer, store
  <1>4. /\ pc'[c] = "done" /\ reply'[c] = "ok"
        /\ \A d \in Calls : d # c => pc'[d] = pc[d] /\ reply'[d] = reply[d]
        /\ delivered'[t] = old \o e
        /\ \A id \in Ids : id # t => delivered'[id] = delivered[id]
    BY <1>1, <1>3 DEF TypeOK, CallTypeOK
  <1>5. ASSUME NEW m \in 1..Len(e)
        PROVE  ver[c] + m \in DOMAIN j /\ j[ver[c] + m] = e[m]
    <2>1. /\ ver[c] + m <= Len(j) /\ j[ver[c] + m].event = e[m].event
      BY <1>1, <1>2 DEF BatchInJournal
    <2>2. ver[c] + m \in 1..Len(j)
      BY ONLY <1>1, <1>2, <1>5, <2>1
    <2>3. j[ver[c] + m].version = ver[c] + m /\ j[ver[c] + m] \in Envelope
      BY <1>1, <2>2, ElementOfSeq DEF Contiguous
    <2> DEFINE x == j[ver[c] + m]
    <2>4. x \in Envelope /\ e[m] \in Envelope
          /\ x.event = e[m].event /\ x.version = e[m].version
      BY <1>2, <2>1, <2>3
    <2>5. \A y, z \in Envelope :
            y.event = z.event /\ y.version = z.version => y = z
      BY ONLY DEF Envelope
    <2> HIDE DEF x
    <2>6. x = e[m]
      BY ONLY <2>4, <2>5
    <2>. QED BY <1>1, <2>2, <2>6 DEF x
  <1> HIDE DEF t, j, e, old
  <1>6. /\ DOMAIN (old \o e) = 1..(Len(old) + Len(e))
        /\ \A k \in 1..Len(old) : (old \o e)[k] = old[k]
        /\ \A m \in 1..Len(e) : (old \o e)[Len(old) + m] = e[m]
    <2>1. old \in Seq(Envelope) /\ e \in Seq(Envelope)
      BY <1>1, <1>2
    <2>2. /\ old \o e \in Seq(Envelope) /\ Len(old \o e) = Len(old) + Len(e)
          /\ \A k \in 1..Len(old) : (old \o e)[k] = old[k]
          /\ \A m \in 1..Len(e) : (old \o e)[Len(old) + m] = e[m]
      BY ONLY <2>1, AppendPlaces
    <2>. QED BY <2>2, LenProperties
  <1>7. ASSUME NEW id \in Ids, NEW k \in DOMAIN delivered'[id]
        PROVE  \/ /\ k \in DOMAIN delivered[id]
                  /\ delivered'[id][k] = delivered[id][k]
               \/ /\ id = t /\ k - Len(old) \in 1..Len(e)
                  /\ delivered'[id][k] = e[k - Len(old)]
                  /\ k \in Nat
    <2>1. CASE id = t /\ ~ (k \in 1..Len(old))
      <3>1. k \in 1..(Len(old) + Len(e))
        BY <1>4, <1>6, <1>7, <2>1
      <3>2. k - Len(old) \in 1..Len(e) /\ k = Len(old) + (k - Len(old)) /\ k \in Nat
        BY ONLY <1>1, <1>2, <2>1, <3>1
      <3>. QED BY <1>4, <1>6, <2>1, <3>2
    <2>2. CASE id = t /\ k \in 1..Len(old)
      BY <1>1, <1>4, <1>6, <2>2 DEF old
    <2>3. CASE id # t
      BY <1>4, <1>7, <2>3
    <2>. QED BY <2>1, <2>2, <2>3
  <1>8. ASSUME NEW id \in Ids, NEW k \in DOMAIN delivered[id]
        PROVE  LET x == delivered[id][k] IN
               /\ x.version \in DOMAIN journal[id]
               /\ x = journal[id][x.version]
               /\ x.event[1] \in Calls /\ x.event[1] # c
               /\ pc[x.event[1]] = "done" /\ reply[x.event[1]] = "ok"
               /\ k \in DOMAIN delivered'[id] /\ delivered'[id][k] = x
    <2> DEFINE x == delivered[id][k]
    <2>1. /\ x.version \in DOMAIN journal[id]
          /\ x = journal[id][x.version]
          /\ pc[x.event[1]] = "done" /\ reply[x.event[1]] = "ok"
      BY <1>8 DEF DeliveryInv, DeliveredAreEntries, Answered
    <2>2. k \in DOMAIN delivered'[id] /\ delivered'[id][k] = x
      <3>1. CASE id = t
        <4>1. k \in 1..Len(old) /\ k \in 1..(Len(old) + Len(e))
          BY <1>1, <1>2, <1>8, <3>1 DEF old
        <4>. QED BY <1>4, <1>6, <3>1, <4>1 DEF old
      <3>2. CASE id # t
        BY <1>4, <1>8, <3>2
      <3>. QED BY <3>1, <3>2
    <2> HIDE DEF x
    <2>3. x.event[1] \in Calls /\ x.event[1] # c
      BY <1>1, <2>1, EntryTypes
    <2>. QED BY <2>1, <2>2, <2>3 DEF x
  <1>9. EntriesArePlaced'
    BY <1>3 DEF DeliveryInv, EntriesArePlaced
  <1>10. DeliveredAreEntries'
    <2>1. ASSUME NEW id \in Ids, NEW k \in DOMAIN delivered'[id]
          PROVE  LET x == delivered'[id][k] IN
                 /\ x.version \in DOMAIN journal[id]
                 /\ x = journal[id][x.version]
                 /\ pc'[x.event[1]] = "done" /\ reply'[x.event[1]] = "ok"
      <3>1. CASE /\ k \in DOMAIN delivered[id]
                 /\ delivered'[id][k] = delivered[id][k]
        <4> DEFINE x == delivered[id][k]
        <4>1. /\ x.version \in DOMAIN journal[id]
              /\ x = journal[id][x.version]
              /\ x.event[1] \in Calls /\ x.event[1] # c
              /\ pc[x.event[1]] = "done" /\ reply[x.event[1]] = "ok"
          BY <1>8, <3>1
        <4> HIDE DEF x
        <4>2. pc'[x.event[1]] = "done" /\ reply'[x.event[1]] = "ok"
          BY <1>4, <4>1
        <4>3. x = delivered'[id][k]
          BY <3>1 DEF x
        <4>. QED BY <4>1, <4>2, <4>3
      <3>2. CASE /\ id = t /\ k - Len(old) \in 1..Len(e)
                 /\ delivered'[id][k] = e[k - Len(old)]
        <4> DEFINE m == k - Len(old)
        <4>1. m \in 1..Len(e) /\ delivered'[id][k] = e[m]
          BY <3>2
        <4> HIDE DEF m
        <4>2. /\ e[m].version = ver[c] + m /\ e[m].event[1] = c
              /\ ver[c] + m \in DOMAIN journal[id] /\ journal[id][ver[c] + m] = e[m]
          BY <1>2, <1>5, <3>2, <4>1 DEF j
        <4>. QED BY <1>4, <4>1, <4>2
      <3>. QED BY <1>7, <2>1, <3>1, <3>2
    <2>. QED BY <1>3, <2>1 DEF DeliveredAreEntries, Answered
  <1>11. DeliveredApart'
    <2>1. ASSUME NEW id \in Ids, NEW k \in DOMAIN delivered'[id],
                 NEW n \in DOMAIN delivered'[id],
                 delivered'[id][k].version = delivered'[id][n].version
          PROVE  k = n
      <3>1. ASSUME NEW p \in DOMAIN delivered[id],
                   id = t, NEW m \in 1..Len(e)
            PROVE  delivered[id][p].version # e[m].version
        <4>1. ASSUME delivered[id][p].version = e[m].version PROVE FALSE
          <5>1. delivered[id][p] = e[m]
            BY <1>2, <1>5, <1>8, <3>1, <4>1 DEF j
          <5>. QED BY <1>2, <1>8, <3>1, <5>1
        <4>. QED BY <4>1
      <3>2. CASE /\ k \in DOMAIN delivered[id] /\ n \in DOMAIN delivered[id]
                 /\ delivered'[id][k] = delivered[id][k]
                 /\ delivered'[id][n] = delivered[id][n]
        BY <2>1, <3>2 DEF DeliveryInv, DeliveredApart
      <3>3. CASE /\ id = t /\ k - Len(old) \in 1..Len(e) /\ k \in Nat
                 /\ n - Len(old) \in 1..Len(e) /\ n \in Nat
                 /\ delivered'[id][k] = e[k - Len(old)]
                 /\ delivered'[id][n] = e[n - Len(old)]
        <4>1. ver[c] + (k - Len(old)) = ver[c] + (n - Len(old))
          BY <1>2, <2>1, <3>3
        <4>. QED BY ONLY <1>1, <1>2, <3>3, <4>1
      <3>. QED BY <1>7, <2>1, <3>1, <3>2, <3>3
    <2>. QED BY <2>1 DEF DeliveredApart
  <1>12. EntriesAreDelivered'
    <2>1. ASSUME NEW id \in Ids, NEW i \in DOMAIN journal[id]
          PROVE  LET d == journal[id][i].event[1] IN
                 \/ pc'[d] \in {"save_snapshot", "close", "dispatch"}
                 \/ pc'[d] = "done" /\ reply'[d] = "cancelled"
                 \/ \E k \in DOMAIN delivered'[id] : delivered'[id][k].version = i
      <3> DEFINE d == journal[id][i].event[1]
      <3>1. /\ d \in Calls /\ target[d] = id
            /\ \E m \in DOMAIN batch[d] : i = ver[d] + m
        BY <2>1 DEF DeliveryInv, EntriesArePlaced
      <3>2. \/ pc[d] \in {"save_snapshot", "close", "dispatch"}
            \/ pc[d] = "done" /\ reply[d] = "cancelled"
            \/ \E k \in DOMAIN delivered[id] : delivered[id][k].version = i
        BY <2>1 DEF DeliveryInv, EntriesAreDelivered, Undelivered, Answered
      <3> HIDE DEF d
      <3>3. CASE d = c
        <4>1. PICK m \in 1..Len(e) : i = ver[c] + m
          BY <1>2, <3>1, <3>3
        <4>2. Len(old) + m \in 1..(Len(old) + Len(e))
          BY ONLY <1>1, <1>2, <4>1
        <4>3. id = t
          BY <3>1, <3>3 DEF t
        <4>4. /\ Len(old) + m \in DOMAIN delivered'[id]
              /\ delivered'[id][Len(old) + m].version = i
          BY <1>2, <1>4, <1>6, <4>1, <4>2, <4>3
        <4>. QED BY <4>4
      <3>4. CASE d # c
        <4>1. pc'[d] = pc[d] /\ reply'[d] = reply[d]
          BY <1>4, <3>1, <3>4
        <4>. QED BY <1>8, <3>2, <4>1 DEF d
      <3>. QED BY <3>3, <3>4
    <2>. QED BY <1>3, <2>1 DEF EntriesAreDelivered, Undelivered, Answered
  <1>. QED BY <1>9, <1>10, <1>11, <1>12 DEF DeliveryInv

LEMMA DeliveryHolds == Spec => []DeliveryInv
  <1>1. Init => DeliveryInv
    BY DEF Init, DeliveryInv, EntriesArePlaced, DeliveredAreEntries,
           DeliveredApart, EntriesAreDelivered
  <1>2. IInv /\ DeliveryInv /\ [Next]_vars => DeliveryInv'
    <2> SUFFICES ASSUME IInv, DeliveryInv, [Next]_vars PROVE DeliveryInv'
      OBVIOUS
    <2>1. CASE UNCHANGED vars
      BY <2>1 DEF vars, callVars, store, DeliveryInv, EntriesArePlaced,
                  DeliveredAreEntries, DeliveredApart, EntriesAreDelivered,
                  Undelivered, Answered
    <2>2. ASSUME NEW c \in Calls, Step(c) \/ Cancel(c) PROVE DeliveryInv'
      BY <2>2, MovesDeliver, SaveEventsDelivers, DispatchDelivers
    <2>. QED BY <2>1, <2>2 DEF Next, Idle
  <1>. QED BY <1>1, <1>2, Invariance, PTL DEF Spec

(* Two sequences are as long as each other if the versions of one are the  *)
(* places of the other, each once.                                         *)
LEMMA SameLength ==
  ASSUME NEW x \in Seq(Envelope), NEW j \in Seq(Envelope),
         \A k \in DOMAIN x : x[k].version \in DOMAIN j,
         \A k, m \in DOMAIN x : x[k].version = x[m].version => k = m,
         \A i \in DOMAIN j : \E k \in DOMAIN x : x[k].version = i
  PROVE  Len(x) = Len(j)
  <1> DEFINE f == [k \in DOMAIN x |-> x[k].version]
             S == DOMAIN x
             T == DOMAIN j
  <1>1. /\ S = 1..Len(x) /\ T = 1..Len(j) /\ Len(x) \in Nat /\ Len(j) \in Nat
    BY LenProperties
  <1>2. /\ IsFiniteSet(S) /\ Cardinality(S) = Len(x)
        /\ IsFiniteSet(T) /\ Cardinality(T) = Len(j)
    <2>1. ASSUME NEW n \in Nat
          PROVE  IsFiniteSet(1..n) /\ Cardinality(1..n) = n
      <3>1. /\ IsFiniteSet(1..n)
            /\ Cardinality(1..n) = IF 1 > n THEN 0 ELSE n - 1 + 1
        BY FS_Interval
      <3>2. (IF 1 > n THEN 0 ELSE n - 1 + 1) = n
        OBVIOUS
      <3>. QED BY <3>1, <3>2
    <2> HIDE DEF S, T
    <2>. QED BY <1>1, <2>1
  <1>3. f \in Bijection(S, T)
    <2>1. f \in [S -> T] /\ \A a, b \in S : f[a] = f[b] => a = b
      OBVIOUS
    <2>2. \A i \in T : \E k \in S : f[k] = i
      OBVIOUS
    <2>. QED BY <2>1, <2>2 DEF Bijection, Injection, Surjection, IsInjective
  <1> HIDE DEF f, S, T
  <1>4. ExistsBijection(S, T)
    BY <1>3 DEF ExistsBijection
  <1>. QED BY <1>2, <1>4, FS_Bijection

(* The dispatcher gets every committed envelope, and each once, unless its *)
(* call was dropped before it dispatched (handle_events after commit).     *)
THEOREM EveryEventOnce == Spec => []DeliveredOnce
  <1>1. IInv /\ DeliveryInv => DeliveredOnce
    <2> SUFFICES ASSUME IInv, DeliveryInv, NEW id \in Ids
                 PROVE
          /\ \A k \in DOMAIN delivered[id] :
               delivered[id][k] \in {journal[id][i] : i \in DOMAIN journal[id]}
          /\ \A k, m \in DOMAIN delivered[id] :
               delivered[id][k] = delivered[id][m] => k = m
          /\ (\A c \in Calls : pc[c] = "done" /\ reply[c] # "cancelled") =>
               Len(delivered[id]) = Len(journal[id])
      BY DEF DeliveredOnce
    <2>1. TypeOK /\ journal[id] \in Seq(Envelope) /\ delivered[id] \in Seq(Envelope)
      BY DEF IInv, TypeOK
    <2>2. \A k \in DOMAIN delivered[id] :
            /\ delivered[id][k].version \in DOMAIN journal[id]
            /\ delivered[id][k] = journal[id][delivered[id][k].version]
      BY DEF DeliveryInv, DeliveredAreEntries
    <2>3. \A k, m \in DOMAIN delivered[id] :
            delivered[id][k].version = delivered[id][m].version => k = m
      BY DEF DeliveryInv, DeliveredApart
    <2>4. ASSUME \A c \in Calls : pc[c] = "done" /\ reply[c] # "cancelled"
          PROVE  Len(delivered[id]) = Len(journal[id])
      <3>1. ASSUME NEW i \in DOMAIN journal[id]
            PROVE  \E k \in DOMAIN delivered[id] : delivered[id][k].version = i
        <4>1. journal[id][i].event[1] \in Calls
          BY <2>1, <3>1, EntryTypes
        <4>2. ~ Undelivered(journal[id][i].event[1])
          BY <2>4, <4>1 DEF Undelivered, Answered
        <4>. QED BY <3>1, <4>2 DEF DeliveryInv, EntriesAreDelivered
      <3>. QED BY <2>1, <2>2, <2>3, <3>1, SameLength
    <2>. QED BY <2>2, <2>3, <2>4
  <1>. QED BY <1>1, Invariance, DeliveryHolds, PTL
=============================================================================
