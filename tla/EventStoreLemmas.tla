-------------------------- MODULE EventStoreLemmas --------------------------
(* What the operators of EventData return, and what the refinement mapping *)
(* of EventStore makes of a step, for the proofs about engines.            *)
EXTENDS EventStore, FiniteSetTheorems, FunctionTheorems, SequenceTheorems,
        TLAPS

(* A function on 1..n is a sequence of length n. *)
LEMMA FunctionIsSeq ==
  ASSUME NEW S, NEW n \in Nat, NEW f \in [1..n -> S]
  PROVE  f \in Seq(S) /\ Len(f) = n
  OBVIOUS

(* A handler's events are a sequence of events: handle_create and          *)
(* handle_update return Vec<Event>.                                        *)
LEMMA NewEventsType ==
  ASSUME NEW c \in Calls, NEW n \in 0..MaxEvents
  PROVE  NewEvents(c, n) \in State /\ Len(NewEvents(c, n)) = n
  <1>1. NewEvents(c, n) \in [1..n -> Event]
    BY MaxEventsAssumption DEF NewEvents, Event
  <1>. QED BY <1>1, MaxEventsAssumption, FunctionIsSeq DEF State

(* Numbering events (the envelopes of execute_within_session) keeps their  *)
(* number.                                                                 *)
LEMMA EnvelopedType ==
  ASSUME NEW events \in State, NEW v \in Nat
  PROVE  /\ Enveloped(events, v) \in Seq(Envelope)
         /\ Len(Enveloped(events, v)) = Len(events)
         /\ \A i \in 1..Len(events) :
              /\ Enveloped(events, v)[i].version = v + i
              /\ Enveloped(events, v)[i].event = events[i]
  <1>1. Enveloped(events, v) \in [1..Len(events) -> Envelope]
    BY DEF Enveloped, Envelope, State
  <1>2. Len(events) \in Nat /\ DOMAIN events = 1..Len(events)
    BY DEF State
  <1>3. Enveloped(events, v) \in Seq(Envelope)
        /\ Len(Enveloped(events, v)) = Len(events)
    BY <1>1, <1>2, FunctionIsSeq
  <1>. QED BY <1>2, <1>3 DEF Enveloped

(* The default aggregate has seen no event.                                *)
LEMMA EmptyState ==
  <<>> \in State /\ Len(<<>>) = 0 /\ \A s \in State : s \o <<>> = s
  BY ConcatEmptySeq DEF State

LEMMA ReplayOfNothing ==
  ASSUME NEW j
  PROVE  Replay(j, 0) = <<>>
  BY DEF Replay

(* A replay of n entries is a state of n events.                           *)
LEMMA ReplayType ==
  ASSUME NEW j \in Seq(Envelope), NEW n \in 0..Len(j)
  PROVE  /\ Replay(j, n) \in State
         /\ Len(Replay(j, n)) = n
         /\ \A i \in 1..n : Replay(j, n)[i] = j[i].event
  <1>0. n \in Nat /\ \A i \in 1..n : j[i] \in Envelope
    BY ElementOfSeq, LenProperties
  <1>1. Replay(j, n) \in [1..n -> Event]
    BY <1>0 DEF Replay, Envelope
  <1>2. Replay(j, n) \in State /\ Len(Replay(j, n)) = n
    BY <1>0, <1>1, FunctionIsSeq DEF State
  <1>. QED BY <1>2 DEF Replay

LEMMA EventsOfType ==
  ASSUME NEW j \in Seq(Envelope)
  PROVE  /\ EventsOf(j) \in State
         /\ Len(EventsOf(j)) = Len(j)
         /\ \A i \in 1..Len(j) : EventsOf(j)[i] = j[i].event
  <1>1. /\ Len(j) \in Nat
        /\ DOMAIN j = 1..Len(j)
        /\ \A i \in 1..Len(j) : j[i] \in Envelope
    BY ElementOfSeq, LenProperties
  <1>2. EventsOf(j) \in [1..Len(j) -> Event]
    BY <1>1 DEF EventsOf, Envelope
  <1>3. EventsOf(j) \in State /\ Len(EventsOf(j)) = Len(j)
    BY <1>1, <1>2, FunctionIsSeq DEF State
  <1>. QED BY <1>1, <1>3 DEF EventsOf

(* Entries pushed at the end of a journal (save_events) do not change what *)
(* an earlier version replays to.                                          *)
LEMMA ReplayOfPrefix ==
  ASSUME NEW j \in Seq(Envelope), NEW e \in Seq(Envelope), NEW n \in 0..Len(j)
  PROVE  Replay(j \o e, n) = Replay(j, n)
  BY DEF Replay

(* Where a journal holds some events from the entry after v on, replaying  *)
(* it that far is replaying v entries and then the events: what            *)
(* save_snapshot stores is what a load would rebuild.                      *)
LEMMA ReplayExtends ==
  ASSUME NEW j \in Seq(Envelope), NEW v \in Nat, NEW events \in State,
         v + Len(events) <= Len(j),
         \A i \in 1..Len(events) : j[v + i].event = events[i]
  PROVE  Replay(j, v + Len(events)) = Replay(j, v) \o events
  <1> DEFINE n == v + Len(events)
             all == Replay(j, n)
             old == Replay(j, v)
  <1>1. Len(j) \in Nat /\ Len(events) \in Nat
    BY LenProperties DEF State
  <1>2. n \in 0..Len(j) /\ v \in 0..Len(j)
    BY <1>1
  <1>3. /\ all \in State
        /\ Len(all) = n
        /\ \A i \in 1..n : all[i] = j[i].event
    <2>. HIDE DEF n
    <2>. QED BY <1>2, ReplayType
  <1>4. /\ old \in State
        /\ Len(old) = v
        /\ \A i \in 1..v : old[i] = j[i].event
    BY <1>2, ReplayType
  <1> HIDE DEF all, old
  <1>5. /\ old \o events \in State
        /\ Len(old \o events) = n
        /\ \A i \in 1..n : (old \o events)[i] =
             IF i <= v THEN old[i] ELSE events[i - v]
    BY <1>1, <1>4, ConcatProperties DEF State
  <1>6. ASSUME NEW i \in 1..n
        PROVE  all[i] = (old \o events)[i]
    <2>1. CASE i <= v
      BY <2>1, <1>1, <1>3, <1>4, <1>5
    <2>2. CASE i > v
      <3>1. i - v \in 1..Len(events) /\ v + (i - v) = i
        BY <2>2, <1>1
      <3>2. events[i - v] = j[i].event
        BY <3>1
      <3>. QED BY <3>2, <2>2, <1>1, <1>3, <1>5
    <2>3. i <= v \/ i > v
      BY <1>1
    <2>. QED BY <2>1, <2>2, <2>3
  <1>7. all = old \o events
    BY <1>3, <1>5, <1>6, SeqEqual DEF State
  <1>. QED BY <1>7 DEF all, old

(* What an append leaves in place and where it puts the new.               *)
LEMMA AppendPlaces ==
  ASSUME NEW S, NEW j \in Seq(S), NEW e \in Seq(S)
  PROVE  /\ j \o e \in Seq(S)
         /\ Len(j \o e) = Len(j) + Len(e)
         /\ \A i \in 1..Len(j) : (j \o e)[i] = j[i]
         /\ \A i \in 1..Len(e) : (j \o e)[Len(j) + i] = e[i]
  OBVIOUS

LEMMA EnvelopesAppend ==
  ASSUME NEW s \in Seq(Envelope), NEW e \in Seq(Envelope)
  PROVE  /\ s \o e \in Seq(Envelope)
         /\ Len(s \o e) = Len(s) + Len(e)
         /\ \A i \in 1..Len(s) : (s \o e)[i] = s[i]
         /\ \A i \in 1..Len(e) : (s \o e)[Len(s) + i] = e[i]
  BY AppendPlaces

(* The first v of a sequence.                                              *)
LEMMA SubSeqFromOne ==
  ASSUME NEW S, NEW s \in Seq(S), NEW v \in Nat, v <= Len(s)
  PROVE  SubSeq(s, 1, v) = [i \in 1..v |-> s[i]]
  OBVIOUS

(* The events of an append are those of both its parts.                    *)
LEMMA EventsOfAppend ==
  ASSUME NEW j \in Seq(Envelope), NEW e \in Seq(Envelope)
  PROVE  EventsOf(j \o e) = EventsOf(j) \o EventsOf(e)
  <1> DEFINE n == Len(j) + Len(e)
  <1>1. Len(j) \in Nat /\ Len(e) \in Nat
    BY LenProperties
  <1>2. /\ j \o e \in Seq(Envelope) /\ Len(j \o e) = n
        /\ \A i \in 1..Len(j) : (j \o e)[i] = j[i]
        /\ \A i \in 1..Len(e) : (j \o e)[Len(j) + i] = e[i]
    BY AppendPlaces
  <1>3. /\ EventsOf(j) \in Seq(Event) /\ Len(EventsOf(j)) = Len(j)
        /\ \A i \in 1..Len(j) : EventsOf(j)[i] = j[i].event
    BY EventsOfType DEF State
  <1>4. /\ EventsOf(e) \in Seq(Event) /\ Len(EventsOf(e)) = Len(e)
        /\ \A i \in 1..Len(e) : EventsOf(e)[i] = e[i].event
    BY EventsOfType DEF State
  <1> DEFINE all == EventsOf(j \o e)
             both == EventsOf(j) \o EventsOf(e)
  <1>5. /\ all \in Seq(Event) /\ Len(all) = n
        /\ \A i \in 1..n : all[i] = (j \o e)[i].event
    BY <1>2, EventsOfType DEF State
  <1>6. /\ both \in Seq(Event) /\ Len(both) = n
        /\ \A i \in 1..Len(j) : both[i] = EventsOf(j)[i]
        /\ \A i \in 1..Len(e) : both[Len(j) + i] = EventsOf(e)[i]
    <2> DEFINE a == EventsOf(j)
               b == EventsOf(e)
    <2>1. a \in Seq(Event) /\ b \in Seq(Event)
      BY <1>3, <1>4
    <2>3. Len(a) = Len(j) /\ Len(b) = Len(e)
      BY <1>3, <1>4
    <2> HIDE DEF a, b
    <2>2. /\ a \o b \in Seq(Event) /\ Len(a \o b) = Len(a) + Len(b)
          /\ \A i \in 1..Len(a) : (a \o b)[i] = a[i]
          /\ \A i \in 1..Len(b) : (a \o b)[Len(a) + i] = b[i]
      BY ONLY <2>1, AppendPlaces
    <2>. QED BY <2>2, <2>3 DEF a, b
  <1> HIDE DEF all, both
  <1>7. ASSUME NEW i \in 1..n
        PROVE  all[i] = both[i]
    <2>1. CASE i <= Len(j)
      <3>1. i \in 1..Len(j)
        BY <1>1, <2>1
      <3>. QED BY <1>2, <1>3, <1>5, <1>6, <3>1
    <2>2. CASE i > Len(j)
      <3>1. i - Len(j) \in 1..Len(e) /\ Len(j) + (i - Len(j)) = i
        BY <1>1, <2>2
      <3>2. all[i] = e[i - Len(j)].event
        BY <1>2, <1>5, <3>1
      <3>3. both[i] = e[i - Len(j)].event
        BY <1>4, <1>6, <3>1
      <3>. QED BY <3>2, <3>3
    <2>. QED BY <1>1, <2>1, <2>2
  <1>8. n \in Nat
    BY <1>1
  <1>9. all = both
    BY <1>5, <1>6, <1>7, <1>8, SeqEqual
  <1>. QED BY <1>9 DEF all, both

(* Envelopes numbered from the length of a contiguous journal keep it so.  *)
LEMMA ContiguousAppend ==
  ASSUME NEW j \in Seq(Envelope), Contiguous(j), NEW e \in Seq(Envelope),
         \A i \in 1..Len(e) : e[i].version = Len(j) + i
  PROVE  Contiguous(j \o e)
  <1>1. /\ Len(j) \in Nat /\ Len(e) \in Nat
        /\ DOMAIN j = 1..Len(j)
        /\ DOMAIN (j \o e) = 1..(Len(j) + Len(e))
    BY LenProperties, ConcatProperties
  <1>2. ASSUME NEW i \in 1..(Len(j) + Len(e))
        PROVE  (j \o e)[i].version = i
    <2>1. CASE i <= Len(j)
      BY <2>1, <1>1 DEF Contiguous
    <2>2. CASE i > Len(j)
      BY <2>2, <1>1
    <2>3. i <= Len(j) \/ i > Len(j)
      BY <1>1
    <2>. QED BY <2>1, <2>2, <2>3
  <1>. QED BY <1>1, <1>2 DEF Contiguous

(* In a contiguous journal the filter of fetch_events_from_version is the  *)
(* part of the journal after its first v entries.                          *)
LEMMA EventsFromVersionContiguous ==
  ASSUME NEW j \in Seq(Envelope), Contiguous(j), NEW v \in 0..Len(j)
  PROVE  EventsFromVersion(j, v) = [k \in 1..(Len(j) - v) |-> j[v + k]]
  <1> DEFINE later == {i \in DOMAIN j : j[i].version > v}
             rank(i) == Cardinality({m \in later : m <= i})
  <1>0. Len(j) \in Nat /\ v \in Nat
    BY LenProperties
  <1>1. later = (v + 1)..Len(j)
    BY <1>0 DEF Contiguous
  <1>2. Cardinality(later) = Len(j) - v
    <2>1. /\ v + 1 \in Int /\ Len(j) \in Int
          /\ (v + 1 > Len(j)) => (Len(j) - v = 0)
          /\ Len(j) - (v + 1) + 1 = Len(j) - v
      BY <1>0
    <2>. QED BY <1>1, <2>1, FS_Interval
  <1>3. ASSUME NEW i \in later
        PROVE  rank(i) = i - v
    <2>1. {m \in later : m <= i} = (v + 1)..i
      BY <1>0, <1>1, <1>3
    <2>2. /\ v + 1 \in Int /\ i \in Int
          /\ ~ (v + 1 > i)
          /\ i - (v + 1) + 1 = i - v
      BY <1>0, <1>1, <1>3
    <2>. QED BY <2>1, <2>2, FS_Interval
  <1>4. ASSUME NEW k \in 1..(Len(j) - v)
        PROVE  (CHOOSE i \in later : rank(i) = k) = v + k
    <2> HIDE DEF rank
    <2>1. v + k \in later
      BY <1>0, <1>1
    <2> HIDE DEF later
    <2>2. rank(v + k) = k
      BY <1>0, <1>3, <2>1
    <2>3. \A i \in later : rank(i) = k => i = v + k
      BY <1>0, <1>1, <1>3
    <2>. QED BY <2>1, <2>2, <2>3
  <1>5. EventsFromVersion(j, v)
          = [k \in 1..Cardinality(later) |-> j[CHOOSE i \in later : rank(i) = k]]
    BY DEF EventsFromVersion
  <1> HIDE DEF later, rank
  <1>. QED BY <1>2, <1>4, <1>5

(* What the filter of fetch_events_from_version lists is a sequence of     *)
(* entries of the journal above the version, none of them twice.           *)
LEMMA EventsFromVersionType ==
  ASSUME NEW j \in Seq(Envelope), NEW v \in Nat
  PROVE  /\ EventsFromVersion(j, v) \in Seq(Envelope)
         /\ \E at \in [1..Len(EventsFromVersion(j, v)) -> 1..Len(j)] :
              /\ \A k \in DOMAIN at : /\ EventsFromVersion(j, v)[k] = j[at[k]]
                                      /\ j[at[k]].version > v
              /\ \A k, l \in DOMAIN at : at[k] = at[l] => k = l
  <1> DEFINE n == Len(j)
             later == {i \in DOMAIN j : j[i].version > v}
             upTo(i) == {p \in later : p <= i}
             rank == [i \in later |-> Cardinality(upTo(i))]
             m == Cardinality(later)
  <1>1. n \in Nat /\ DOMAIN j = 1..n /\ later \in SUBSET (1..n)
    BY LenProperties
  <1>2. IsFiniteSet(1..n)
    <2>1. 1 \in Int /\ n \in Int
      BY <1>1
    <2> HIDE DEF n
    <2>. QED BY <2>1, FS_Interval
  <1>3. IsFiniteSet(later) /\ m \in Nat
    <2> HIDE DEF later
    <2>. QED BY <1>1, <1>2, FS_Subset, FS_CardinalityType
  <1>4. IsFiniteSet(1..m) /\ Cardinality(1..m) = m
    <2>1. 1 \in Int /\ m \in Int /\ (1 > m => m = 0) /\ m - 1 + 1 = m
      BY <1>3
    <2> HIDE DEF m
    <2>. QED BY <2>1, FS_Interval
  <1>5. ASSUME NEW i \in later
        PROVE  IsFiniteSet(upTo(i)) /\ rank[i] \in 1..m
    <2>0. upTo(i) \in SUBSET later
      OBVIOUS
    <2>1. /\ IsFiniteSet(upTo(i))
          /\ Cardinality(upTo(i)) <= m
          /\ Cardinality(upTo(i)) \in Nat
      <3> HIDE DEF later
      <3>. QED BY <1>3, <2>0, FS_Subset, FS_CardinalityType
    <2>2. i \in upTo(i)
      BY <1>1
    <2>3. Cardinality(upTo(i)) # 0
      BY <2>1, <2>2, FS_EmptySet
    <2>4. rank[i] = Cardinality(upTo(i))
      OBVIOUS
    <2> HIDE DEF rank, upTo, m, later
    <2>. QED BY <1>3, <2>1, <2>3, <2>4
  <1>6. ASSUME NEW a \in later, NEW b \in later, a < b
        PROVE  rank[a] # rank[b]
    <2>1. upTo(a) \subseteq upTo(b) /\ b \in upTo(b) /\ b \notin upTo(a)
      BY <1>1, <1>6
    <2>2. IsFiniteSet(upTo(b)) /\ upTo(a) \in SUBSET upTo(b) /\ upTo(a) # upTo(b)
      BY <1>5, <2>1
    <2>. QED BY <2>2, FS_Subset
  <1>7. rank \in Injection(later, 1..m)
    <2>1. rank \in [later -> 1..m]
      BY <1>5
    <2>2. ASSUME NEW a \in later, NEW b \in later, rank[a] = rank[b]
          PROVE  a = b
      <3>1. a # b => a < b \/ b < a
        BY <1>1
      <3>. QED BY <1>6, <2>2, <3>1
    <2> HIDE DEF rank, later, m
    <2>. QED BY <2>1, <2>2, Fun_IsInj
  <1>8. rank \in Surjection(later, 1..m)
    <2> HIDE DEF rank, later
    <2>. QED BY <1>3, <1>4, <1>7, FS_Injection DEF m
  <1> DEFINE place(k) == CHOOSE i \in later : Cardinality({p \in later : p <= i}) = k
             places == [k \in 1..m |-> place(k)]
  <1>9. ASSUME NEW k \in 1..m
        PROVE  /\ places[k] \in later /\ rank[places[k]] = k
               /\ EventsFromVersion(j, v)[k] = j[places[k]]
    <2>1. \E i \in later : rank[i] = k
      <3> HIDE DEF rank, later, m
      <3>. QED BY <1>8 DEF Surjection
    <2>2. \E i \in later : Cardinality({p \in later : p <= i}) = k
      BY <2>1
    <2> DEFINE at == CHOOSE i \in later : Cardinality({p \in later : p <= i}) = k
    <2>3. EventsFromVersion(j, v)[k] = j[at] /\ places[k] = at
      BY DEF EventsFromVersion
    <2>4. at \in later /\ Cardinality({p \in later : p <= at}) = k
      <3> HIDE DEF later
      <3>. QED BY <2>2
    <2> HIDE DEF at, later, places
    <2>. QED BY <2>3, <2>4
  <1>10. DOMAIN EventsFromVersion(j, v) = 1..m
    BY DEF EventsFromVersion
  <1>11. places \in [1..m -> 1..n] /\ \A k \in 1..m : j[places[k]].version > v
    <2>1. DOMAIN places = 1..m /\ places = [k \in 1..m |-> places[k]]
      <3> HIDE DEF m, place
      <3>. QED OBVIOUS
    <2>2. later \subseteq 1..n /\ \A i \in later : j[i].version > v
      BY <1>1
    <2> HIDE DEF places, later, n, m
    <2>. QED BY <1>9, <2>1, <2>2
  <1>12. \A k, l \in 1..m : places[k] = places[l] => k = l
    <2> HIDE DEF places, rank, m
    <2>. QED BY <1>9
  <1>13. EventsFromVersion(j, v) \in [1..m -> Envelope]
    <2>1. EventsFromVersion(j, v) = [k \in 1..m |-> EventsFromVersion(j, v)[k]]
      BY DEF EventsFromVersion
    <2>2. \A i \in 1..n : j[i] \in Envelope
      BY ElementOfSeq
    <2> HIDE DEF places, m, n
    <2>3. \A k \in 1..m : EventsFromVersion(j, v)[k] \in Envelope
      BY <1>9, <1>11, <2>2
    <2>. QED BY <2>1, <2>3
  <1>14. EventsFromVersion(j, v) \in Seq(Envelope) /\ Len(EventsFromVersion(j, v)) = m
    <2> HIDE DEF m
    <2>. QED BY <1>3, <1>13, FunctionIsSeq
  <1>15. \A k \in 1..m : EventsFromVersion(j, v)[k] = j[places[k]]
    BY <1>9
  <1> HIDE DEF m, places
  <1>16. DOMAIN places = 1..m
    BY <1>11
  <1>. QED BY <1>11, <1>12, <1>14, <1>15, <1>16

(* A contiguous journal is in the order of its versions already.           *)
LEMMA ByVersionContiguous ==
  ASSUME NEW j \in Seq(Envelope), Contiguous(j)
  PROVE  ByVersion(j) = j
  <1> DEFINE before(m, i) == \/ j[m].version < j[i].version
                             \/ j[m].version = j[i].version /\ m <= i
             rank(i) == Cardinality({m \in DOMAIN j : before(m, i)})
  <1>1. Len(j) \in Nat /\ DOMAIN j = 1..Len(j)
    BY LenProperties
  <1>2. ASSUME NEW i \in DOMAIN j
        PROVE  rank(i) = i
    <2>1. {m \in DOMAIN j : before(m, i)} = 1..i
      BY <1>1, <1>2 DEF Contiguous
    <2>2. 1 \in Int /\ i \in Int /\ ~ (1 > i) /\ i - 1 + 1 = i
      BY <1>1, <1>2
    <2>. QED BY <2>1, <2>2, FS_Interval
  <1> HIDE DEF rank
  <1>3. \A k \in DOMAIN j : (CHOOSE i \in DOMAIN j : rank(i) = k) = k
    BY <1>2
  <1>4. ByVersion(j) = [k \in DOMAIN j |-> j[CHOOSE i \in DOMAIN j : rank(i) = k]]
    BY DEF ByVersion, rank
  <1>5. ByVersion(j) = [k \in DOMAIN j |-> j[k]]
    BY <1>3, <1>4
  <1>6. j = [k \in DOMAIN j |-> j[k]]
    BY <1>1
  <1>. QED BY <1>5, <1>6

(* load_aggregate on a contiguous journal: the state rebuilt from the      *)
(* replay of v entries and the later ones is the replay of all of them,    *)
(* and the version read is the number of entries.                          *)
LEMMA LoadRebuildsReplay ==
  ASSUME NEW j \in Seq(Envelope), Contiguous(j), NEW v \in 0..Len(j)
  PROVE  LET tail == EventsFromVersion(j, v) IN
         /\ Replay(j, v) \o EventsOf(tail) = Replay(j, Len(j))
         /\ (IF tail = <<>> THEN v ELSE tail[Len(tail)].version) = Len(j)
  <1> DEFINE tail == EventsFromVersion(j, v)
  <1>0. Len(j) \in Nat /\ v \in Nat
    BY LenProperties
  <1>1. tail = [k \in 1..(Len(j) - v) |-> j[v + k]]
    BY EventsFromVersionContiguous
  <1> HIDE DEF tail
  <1>2. /\ tail \in Seq(Envelope)
        /\ Len(tail) = Len(j) - v
        /\ \A k \in 1..(Len(j) - v) : tail[k] = j[v + k]
    BY <1>0, <1>1
  <1>3. /\ EventsOf(tail) \in State
        /\ Len(EventsOf(tail)) = Len(j) - v
        /\ \A k \in 1..(Len(j) - v) : EventsOf(tail)[k] = j[v + k].event
    BY <1>2, EventsOfType
  <1>4. /\ Replay(j, v) \in State
        /\ Len(Replay(j, v)) = v
        /\ \A i \in 1..v : Replay(j, v)[i] = j[i].event
    BY ReplayType
  <1>5. /\ Replay(j, Len(j)) \in State
        /\ Len(Replay(j, Len(j))) = Len(j)
        /\ \A i \in 1..Len(j) : Replay(j, Len(j))[i] = j[i].event
    BY <1>0, ReplayType
  <1>6. Replay(j, v) \o EventsOf(tail) = Replay(j, Len(j))
    <2>1. /\ Replay(j, v) \o EventsOf(tail) \in State
          /\ Len(Replay(j, v) \o EventsOf(tail)) = v + (Len(j) - v)
          /\ v + (Len(j) - v) = Len(j)
      BY <1>0, <1>3, <1>4, ConcatProperties DEF State
    <2>2. ASSUME NEW i \in 1..Len(j)
          PROVE  (Replay(j, v) \o EventsOf(tail))[i] = Replay(j, Len(j))[i]
      <3>1. CASE i <= v
        BY <3>1, <1>0, <1>3, <1>4, <1>5 DEF State
      <3>2. CASE i > v
        <4>1. (Replay(j, v) \o EventsOf(tail))[i] = EventsOf(tail)[i - v]
          BY <3>2, <1>0, <1>3, <1>4 DEF State
        <4>. QED BY <4>1, <3>2, <1>0, <1>3, <1>5
      <3>3. i <= v \/ i > v
        BY <1>0
      <3>. QED BY <3>1, <3>2, <3>3
    <2>. QED BY <2>1, <2>2, <1>5, SeqEqual DEF State
  <1>7. (IF tail = <<>> THEN v ELSE tail[Len(tail)].version) = Len(j)
    <2>1. CASE tail = <<>>
      BY <2>1, <1>0, <1>2
    <2>2. CASE tail # <<>>
      <3>1. Len(j) - v \in 1..(Len(j) - v)
        BY <2>2, <1>0, <1>2
      <3>2. tail[Len(tail)] = j[Len(j)]
        BY <3>1, <1>0, <1>2
      <3>. QED BY <3>1, <3>2, <2>2, <1>0 DEF Contiguous
    <2>. QED BY <2>1, <2>2
  <1>. QED BY <1>6, <1>7 DEF tail

(* What ORDER BY version lists: every place of the list is that of some    *)
(* entry, and every entry has a place, for the rank of an entry, the       *)
(* number of those that do not come after it, tells any two apart.         *)
LEMMA ByVersionLists ==
  ASSUME NEW j \in Seq(Envelope)
  PROVE  /\ ByVersion(j) \in Seq(Envelope)
         /\ Len(ByVersion(j)) = Len(j)
         /\ \A k \in 1..Len(j) : \E i \in 1..Len(j) : ByVersion(j)[k] = j[i]
         /\ \A i \in 1..Len(j) : \E k \in 1..Len(j) : ByVersion(j)[k] = j[i]
         /\ \A i \in 1..Len(j) : j[i].version <= ByVersion(j)[Len(j)].version
  <1> DEFINE n == Len(j)
             before(m, i) == \/ j[m].version < j[i].version
                             \/ j[m].version = j[i].version /\ m <= i
             upTo(i) == {m \in 1..n : before(m, i)}
             rank == [i \in 1..n |-> Cardinality(upTo(i))]
  <1>1. n \in Nat /\ DOMAIN j = 1..n
    BY LenProperties
  <1>0. \A i \in 1..n : j[i] \in Envelope /\ j[i].version \in Nat
    <2>1. \A i \in 1..n : j[i] \in Envelope
      BY ElementOfSeq
    <2>. QED BY <2>1 DEF Envelope
  <1>2. IsFiniteSet(1..n) /\ Cardinality(1..n) = n
    <2>1. 1 \in Int /\ n \in Int /\ (1 > n => n = 0) /\ n - 1 + 1 = n
      BY <1>1
    <2> HIDE DEF n
    <2>. QED BY <2>1, FS_Interval
  <1>3. ASSUME NEW i \in 1..n
        PROVE  IsFiniteSet(upTo(i)) /\ rank[i] \in 1..n
    <2>1. /\ IsFiniteSet(upTo(i))
          /\ Cardinality(upTo(i)) <= n
          /\ Cardinality(upTo(i)) \in Nat
      BY <1>2, FS_Subset, FS_CardinalityType
    <2>2. i \in upTo(i)
      BY <1>0, <1>1
    <2>3. Cardinality(upTo(i)) # 0
      BY <2>1, <2>2, FS_EmptySet
    <2>4. rank[i] = Cardinality(upTo(i))
      OBVIOUS
    <2> HIDE DEF rank, upTo, n
    <2>. QED BY <1>1, <2>1, <2>3, <2>4
  <1>4. ASSUME NEW a \in 1..n, NEW b \in 1..n, a # b, before(a, b)
        PROVE  rank[a] # rank[b]
    <2>1. upTo(a) \subseteq upTo(b) /\ b \in upTo(b) /\ b \notin upTo(a)
      BY <1>0, <1>1, <1>4
    <2>2. IsFiniteSet(upTo(b)) /\ upTo(a) \in SUBSET upTo(b) /\ upTo(a) # upTo(b)
      BY <1>3, <2>1
    <2>. QED BY <2>2, FS_Subset
  <1>5. rank \in Injection(1..n, 1..n)
    <2>1. rank \in [1..n -> 1..n]
      BY <1>3
    <2>2. ASSUME NEW a \in 1..n, NEW b \in 1..n, rank[a] = rank[b]
          PROVE  a = b
      <3>1. a # b => before(a, b) \/ before(b, a)
        BY <1>0, <1>1
      <3>. QED BY <1>4, <2>2, <3>1
    <2>. QED BY <2>1, <2>2, Fun_IsInj
  <1>6. rank \in Surjection(1..n, 1..n)
    BY <1>2, <1>5, FS_Injection
  <1>7. ASSUME NEW k \in 1..n
        PROVE  \E i \in 1..n : ByVersion(j)[k] = j[i] /\ rank[i] = k
    <2>1. \E i \in 1..n : rank[i] = k
      <3> HIDE DEF rank, n
      <3>. QED BY <1>6 DEF Surjection
    <2>2. \E i \in DOMAIN j : Cardinality({m \in DOMAIN j : before(m, i)}) = k
      BY <1>1, <2>1
    <2> DEFINE at == CHOOSE i \in DOMAIN j : Cardinality({m \in DOMAIN j : before(m, i)}) = k
    <2>3. ByVersion(j)[k] = j[at]
      BY <1>1 DEF ByVersion
    <2>4. at \in DOMAIN j /\ Cardinality({m \in DOMAIN j : before(m, at)}) = k
      <3> HIDE DEF before
      <3>. QED BY <2>2
    <2>5. at \in 1..n /\ rank[at] = k
      <3>1. at \in 1..n
        BY <1>1, <2>4
      <3>2. \A m \in DOMAIN j : rank[m] = Cardinality({p \in DOMAIN j : before(p, m)})
        BY <1>1
      <3> HIDE DEF before, rank, at
      <3>. QED BY <2>4, <3>1, <3>2
    <2> HIDE DEF before, at, rank
    <2>. QED BY <2>3, <2>5
  <1>8. ByVersion(j) \in [1..n -> Envelope]
    <2>1. DOMAIN ByVersion(j) = 1..n /\ ByVersion(j) = [k \in 1..n |-> ByVersion(j)[k]]
      BY <1>1 DEF ByVersion
    <2>2. \A i \in 1..n : j[i] \in Envelope
      BY <1>0
    <2> HIDE DEF rank, n
    <2>3. \A k \in 1..n : ByVersion(j)[k] \in Envelope
      BY <1>7, <2>2
    <2>. QED BY <2>1, <2>3
  <1>9. ASSUME NEW i \in 1..n
        PROVE  \E k \in 1..n : ByVersion(j)[k] = j[i]
    <2> DEFINE k == rank[i]
               at == CHOOSE m \in DOMAIN j : Cardinality({p \in DOMAIN j : before(p, m)}) = k
    <2>1. k \in 1..n /\ ByVersion(j)[k] = j[at]
      <3>1. k \in 1..n
        BY <1>3
      <3>. QED BY <1>1, <3>1 DEF ByVersion
    <2>2. at \in 1..n /\ rank[at] = rank[i]
      <3>1. /\ \A m \in DOMAIN j : rank[m] = Cardinality({p \in DOMAIN j : before(p, m)})
            /\ i \in DOMAIN j
        BY <1>1
      <3>2. at \in DOMAIN j /\ Cardinality({p \in DOMAIN j : before(p, at)}) = k
        <4> HIDE DEF before, rank
        <4>. QED BY <3>1
      <3>3. rank[at] = k
        <4> HIDE DEF before, rank, at, k
        <4>. QED BY <3>1, <3>2
      <3>. QED BY <1>1, <3>2, <3>3
    <2> HIDE DEF at, rank, n
    <2>3. at = i
      BY <1>5, <2>2 DEF Injection, IsInjective
    <2>. QED BY <2>1, <2>3
  <1>10. ASSUME NEW i \in 1..n
         PROVE  j[i].version <= ByVersion(j)[n].version
    <2>1. n \in 1..n
      BY <1>1
    <2>2. PICK last \in 1..n : ByVersion(j)[n] = j[last] /\ rank[last] = n
      BY <1>7, <2>1
    <2>3. upTo(last) \in SUBSET (1..n) /\ Cardinality(upTo(last)) = n
      BY <2>2
    <2>4. upTo(last) = 1..n
      <3> HIDE DEF upTo, n
      <3>. QED BY <1>2, <2>3, FS_Subset
    <2>5. before(i, last)
      BY <2>4
    <2>6. j[i].version <= j[last].version
      BY <1>0, <2>5
    <2>. QED BY <2>2, <2>6
  <1>. QED BY <1>1, <1>7, <1>8, <1>9, <1>10, FunctionIsSeq

(* fetch_latest_event answers the version of some entry, or 0 if there is  *)
(* none, and no entry has a later one.                                     *)
LEMMA LatestVersionOccurs ==
  ASSUME NEW j \in Seq(Envelope)
  PROVE  LET v == LatestVersion(ByVersion(j)) IN
         /\ v \in Nat
         /\ v # 0 => \E i \in 1..Len(j) : j[i].version = v
         /\ \A i \in 1..Len(j) : j[i].version <= v
  <1> DEFINE s == ByVersion(j)
  <1>1. /\ s \in Seq(Envelope) /\ Len(s) = Len(j)
        /\ \A k \in 1..Len(j) : \E i \in 1..Len(j) : s[k] = j[i]
        /\ \A i \in 1..Len(j) : j[i].version <= s[Len(j)].version
    BY ByVersionLists
  <1> HIDE DEF s
  <1>2. CASE s = <<>>
    <2>1. Len(j) = 0
      BY <1>1, <1>2, EmptySeq
    <2>. QED BY <1>2, <2>1 DEF LatestVersion, s
  <1>3. CASE s # <<>>
    <2>1. Len(s) \in 1..Len(j) /\ s[Len(s)] \in Envelope
      BY <1>1, <1>3, EmptySeq, LenProperties, ElementOfSeq
    <2>2. LatestVersion(s) = s[Len(s)].version
      BY <1>3 DEF LatestVersion
    <2>3. \E i \in 1..Len(j) : j[i].version = LatestVersion(s)
      BY <1>1, <2>1, <2>2
    <2>4. \A i \in 1..Len(j) : j[i].version <= LatestVersion(s)
      BY <1>1, <2>2
    <2>. QED BY <2>1, <2>2, <2>3, <2>4 DEF s, Envelope
  <1>. QED BY <1>2, <1>3

(* The entries that a step adds to a journal are those of call c. *)
GrowsBy(c, j, k) ==
  /\ Len(j) <= Len(k)
  /\ \A i \in 1..Len(j) : k[i] = j[i]
  /\ \A i \in 1..Len(k) : i <= Len(j) \/ k[i].event[1] = c

(* What was replayed of a journal is what is replayed of it grown. *)
LEMMA ReplayOfGrown ==
  ASSUME NEW j, NEW k, NEW n \in Nat, n <= Len(j), Len(j) \in Nat,
         \A i \in 1..Len(j) : k[i] = j[i]
  PROVE  Replay(k, n) = Replay(j, n)
  BY DEF Replay

-----------------------------------------------------------------------------
(* The refinement mapping of EventStore: a step of an engine is simulated  *)
(* if it is a step of EventLog, or nothing there.                          *)
Simulated == [Log!Next]_(Log!vars)

(* A call that a step of another call leaves alone.                        *)
SameCall(d) ==
  /\ pc'[d] = pc[d]
  /\ agg'[d] = agg[d]
  /\ ver'[d] = ver[d]
  /\ batch'[d] = batch[d]
  /\ reply'[d] = reply[d]

(* What the mapping needs of a store.                                      *)
LoadsHold == CallTypeOK /\ StoreTypeOK /\ LoadedIsReplay

(* The step of one call moves that call alone.                             *)
LEMMA OthersMapped ==
  ASSUME NEW c \in Calls, \A d \in Calls : d # c => SameCall(d)
  PROVE  /\ Status' = [Status EXCEPT ![c] = Status'[c]]
         /\ Seen' = [Seen EXCEPT ![c] = Seen'[c]]
  <1>1. ASSUME NEW d \in Calls, d # c
        PROVE  Status'[d] = Status[d] /\ Seen'[d] = Seen[d]
    <2>1. SameCall(d)
      BY <1>1
    <2>. QED BY <2>1 DEF Status, Seen, SameCall, Loaded, Answered
  <1>2. /\ Status = [d \in Calls |-> Status[d]] /\ Seen = [d \in Calls |-> Seen[d]]
        /\ Status' = [d \in Calls |-> Status'[d]] /\ Seen' = [d \in Calls |-> Seen'[d]]
    BY DEF Status, Seen
  <1>. QED BY <1>1, <1>2

(* What a call is to EventLog, by where it is.                             *)
LEMMA MappedCall ==
  ASSUME NEW c \in Calls
  PROVE  /\ pc[c] \in {"fetch_snapshot", "fetch_tail"} =>
              Status[c] = "pending" /\ Seen[c] = <<>>
         /\ pc[c] \in {"handle", "start_session", "lock",
                       "fetch_latest", "save_events", "abort"} =>
              Status[c] = "observed" /\ Seen[c] = SubSeq(agg[c], 1, ver[c])
         /\ pc[c] \in {"save_snapshot", "close", "dispatch"} =>
              Status[c] = "appended" /\ Seen[c] = SubSeq(agg[c], 1, ver[c])
         /\ pc[c] = "done" /\ reply[c] = "ok" =>
              Status[c] = "acked" /\ Seen[c] = SubSeq(agg[c], 1, ver[c])
         /\ pc[c] = "done" /\ reply[c] # "ok" =>
              Status[c] = "failed" /\ Seen[c] = <<>>
  BY DEF Status, Seen, Loaded, Answered

LEMMA MappedCallAfter ==
  ASSUME NEW c \in Calls
  PROVE  /\ pc'[c] \in {"fetch_snapshot", "fetch_tail"} =>
              Status'[c] = "pending" /\ Seen'[c] = <<>>
         /\ pc'[c] \in {"handle", "start_session", "lock",
                        "fetch_latest", "save_events", "abort"} =>
              Status'[c] = "observed" /\ Seen'[c] = SubSeq(agg'[c], 1, ver'[c])
         /\ pc'[c] \in {"save_snapshot", "close", "dispatch"} =>
              Status'[c] = "appended" /\ Seen'[c] = SubSeq(agg'[c], 1, ver'[c])
         /\ pc'[c] = "done" /\ reply'[c] = "ok" =>
              Status'[c] = "acked" /\ Seen'[c] = SubSeq(agg'[c], 1, ver'[c])
         /\ pc'[c] = "done" /\ reply'[c] # "ok" =>
              Status'[c] = "failed" /\ Seen'[c] = <<>>
  BY DEF Status, Seen, Loaded, Answered

(* The first v events of what a call holds are the first v of its stream.  *)
LEMMA PrefixSeen ==
  ASSUME NEW j \in Seq(Envelope), NEW v \in Nat, v <= Len(j),
         NEW b \in State, NEW a, a = Replay(j, v) \o b
  PROVE  /\ SubSeq(a, 1, v) = SubSeq(EventsOf(j), 1, v)
         /\ Len(EventsOf(j)) = Len(j)
         /\ v = Len(j) => SubSeq(a, 1, v) = EventsOf(j)
  <1>1. Len(j) \in Nat /\ v \in 0..Len(j)
    BY LenProperties
  <1>2. /\ Replay(j, v) \in State /\ Len(Replay(j, v)) = v
        /\ \A i \in 1..v : Replay(j, v)[i] = j[i].event
    BY <1>1, ReplayType
  <1>3. /\ EventsOf(j) \in State /\ Len(EventsOf(j)) = Len(j)
        /\ \A i \in 1..Len(j) : EventsOf(j)[i] = j[i].event
    BY EventsOfType
  <1>4. /\ a \in State /\ Len(a) = v + Len(b) /\ Len(b) \in Nat
        /\ \A i \in 1..v : a[i] = j[i].event
    <2>1. a \in Seq(Event) /\ Len(a) = v + Len(b)
          /\ \A i \in 1..v : a[i] = Replay(j, v)[i]
      <3> DEFINE r == Replay(j, v)
      <3>1. r \in Seq(Event) /\ b \in Seq(Event) /\ Len(r) = v /\ a = r \o b
        BY <1>2 DEF State
      <3> HIDE DEF r
      <3>2. /\ r \o b \in Seq(Event) /\ Len(r \o b) = Len(r) + Len(b)
            /\ \A i \in 1..Len(r) : (r \o b)[i] = r[i]
        BY ONLY <3>1, AppendPlaces
      <3>. QED BY <3>1, <3>2 DEF r
    <2>. QED BY <1>2, <2>1, LenProperties DEF State
  <1>5. SubSeq(a, 1, v) = [i \in 1..v |-> j[i].event]
    <2>1. SubSeq(a, 1, v) = [i \in 1..v |-> a[i]]
      BY <1>4, SubSeqFromOne DEF State
    <2>. QED BY <1>4, <2>1
  <1>6. SubSeq(EventsOf(j), 1, v) = [i \in 1..v |-> j[i].event]
    <2>1. SubSeq(EventsOf(j), 1, v) = [i \in 1..v |-> EventsOf(j)[i]]
      BY <1>1, <1>3, SubSeqFromOne DEF State
    <2>. QED BY <1>1, <1>3, <2>1
  <1>7. v = Len(j) => EventsOf(j) = [i \in 1..v |-> j[i].event]
    BY <1>1, LenProperties DEF EventsOf
  <1>. QED BY <1>3, <1>5, <1>6, <1>7

(* A call that has loaded its aggregate has seen a prefix of its stream.   *)
LEMMA SeenIsPrefix ==
  ASSUME LoadsHold, NEW c \in Calls, Loaded(c)
  PROVE  LET t == target[c] IN
         /\ Stream[t] = EventsOf(journal[t])
         /\ ver[c] \in 0..Len(Stream[t])
         /\ SubSeq(agg[c], 1, ver[c]) = SubSeq(Stream[t], 1, ver[c])
         /\ ver[c] = Len(journal[t]) => SubSeq(agg[c], 1, ver[c]) = Stream[t]
  <1> DEFINE t == target[c]
             j == journal[t]
  <1>1. /\ t \in Ids /\ ver[c] \in Nat /\ batch[c] \in State /\ j \in Seq(Envelope)
        /\ ver[c] <= Len(j) /\ agg[c] = Replay(j, ver[c]) \o batch[c]
    BY DEF LoadsHold, CallTypeOK, StoreTypeOK, LoadedIsReplay
  <1>2. Stream[t] = EventsOf(j)
    BY <1>1 DEF Stream
  <1>3. Len(j) \in Nat
    BY <1>1, LenProperties
  <1> HIDE DEF t, j
  <1>4. /\ SubSeq(agg[c], 1, ver[c]) = SubSeq(EventsOf(j), 1, ver[c])
        /\ Len(EventsOf(j)) = Len(j)
        /\ ver[c] = Len(j) => SubSeq(agg[c], 1, ver[c]) = EventsOf(j)
    BY <1>1, PrefixSeen
  <1>5. ver[c] \in 0..Len(Stream[t])
    BY <1>1, <1>2, <1>3, <1>4
  <1>. QED BY <1>2, <1>4, <1>5 DEF t, j

LEMMA SeenIsPrefixAfter ==
  ASSUME LoadsHold', NEW c \in Calls, Loaded(c)'
  PROVE  LET t == target'[c] IN
         /\ ver'[c] \in 0..Len(Stream'[t])
         /\ SubSeq(agg'[c], 1, ver'[c]) = SubSeq(Stream'[t], 1, ver'[c])
  <1> DEFINE t == target'[c]
             j == journal'[t]
  <1>1. /\ t \in Ids /\ ver'[c] \in Nat /\ batch'[c] \in State /\ j \in Seq(Envelope)
        /\ ver'[c] <= Len(j) /\ agg'[c] = Replay(j, ver'[c]) \o batch'[c]
    BY DEF LoadsHold, CallTypeOK, StoreTypeOK, LoadedIsReplay
  <1>2. Stream'[t] = EventsOf(j)
    BY <1>1 DEF Stream
  <1>3. Len(j) \in Nat
    BY <1>1, LenProperties
  <1> HIDE DEF t, j
  <1>4. /\ SubSeq(agg'[c], 1, ver'[c]) = SubSeq(EventsOf(j), 1, ver'[c])
        /\ Len(EventsOf(j)) = Len(j)
    BY <1>1, PrefixSeen
  <1>5. ver'[c] \in 0..Len(Stream'[t])
    BY <1>1, <1>2, <1>3, <1>4
  <1>. QED BY <1>2, <1>4, <1>5 DEF t, j

(* A step that writes no journal is one of these to EventLog.              *)
QuietMove(c) ==
  \/ (* the aggregate is loaded *)
     pc[c] \in {"fetch_snapshot", "fetch_tail"} /\ pc'[c] = "handle"
  \/ (* between its two reads *)
     pc[c] = "fetch_snapshot" /\ pc'[c] = "fetch_tail"
  \/ (* the command is on its way *)
     pc[c] = "handle" /\ pc'[c] = "start_session" /\ ver' = ver
  \/ /\ agg' = agg /\ ver' = ver
     /\ \/ /\ pc[c] \in {"start_session", "lock", "fetch_latest", "save_events"}
           /\ pc'[c] \in {"lock", "fetch_latest", "save_events", "abort"}
        \/ /\ pc[c] \in {"save_snapshot", "close"}
           /\ pc'[c] \in {"save_snapshot", "close", "dispatch"}
        \/ /\ pc[c] \in {"close", "dispatch"}
           /\ pc'[c] = "done" /\ reply'[c] = "ok"
  \/ pc[c] # "done" /\ pc'[c] = "done" /\ reply'[c] # "ok"

LEMMA QuietMoveSimulated ==
  ASSUME LoadsHold, LoadsHold', NEW c \in Calls, \A d \in Calls : d # c => SameCall(d),
         target' = target, journal' = journal, QuietMove(c)
  PROVE  Simulated
  <1> DEFINE t == target[c]
  <1>1. /\ target' = target /\ Stream' = Stream
        /\ Status' = [Status EXCEPT ![c] = Status'[c]]
        /\ Seen' = [Seen EXCEPT ![c] = Seen'[c]]
    BY OthersMapped DEF Stream
  <1>2. ASSUME Status'[c] = Status[c], Seen'[c] = Seen[c]
        PROVE  Simulated
    <2>1. Status' = Status /\ Seen' = Seen
      <3>1. /\ Status = [d \in Calls |-> Status[d]]
            /\ Seen = [d \in Calls |-> Seen[d]]
        BY DEF Status, Seen
      <3>. QED BY <1>1, <1>2, <3>1
    <2>2. UNCHANGED Log!vars
      BY <1>1, <2>1 DEF Log!vars
    <2>. QED BY <2>2 DEF Simulated
  <1>3. ASSUME Log!Observe(c) \/ Log!Acknowledge(c) \/ Log!Fail(c)
        PROVE  Simulated
    BY <1>3 DEF Simulated, Log!Next
  <1>4. CASE pc[c] \in {"fetch_snapshot", "fetch_tail"} /\ pc'[c] = "handle"
    <2>1. /\ Status[c] = "pending" /\ Status'[c] = "observed"
          /\ Seen'[c] = SubSeq(agg'[c], 1, ver'[c])
      BY <1>4, MappedCall, MappedCallAfter
    <2>2. Loaded(c)'
      BY <1>4 DEF Loaded
    <2>3. /\ ver'[c] \in 0..Len(Stream[t])
          /\ SubSeq(agg'[c], 1, ver'[c]) = SubSeq(Stream[t], 1, ver'[c])
      BY <1>1, <2>2, SeenIsPrefixAfter
    <2>. QED BY <1>1, <1>3, <2>1, <2>3 DEF Log!Observe
  <1>5. CASE pc[c] = "fetch_snapshot" /\ pc'[c] = "fetch_tail"
    BY <1>2, <1>5, MappedCall, MappedCallAfter
  <1>6. CASE pc[c] = "handle" /\ pc'[c] = "start_session" /\ ver' = ver
    <2>1. /\ Status[c] = "observed" /\ Status'[c] = "observed"
          /\ Seen[c] = SubSeq(agg[c], 1, ver[c])
          /\ Seen'[c] = SubSeq(agg'[c], 1, ver'[c])
      BY <1>6, MappedCall, MappedCallAfter
    <2>2. Loaded(c) /\ Loaded(c)'
      BY <1>6 DEF Loaded
    <2>3. SubSeq(agg[c], 1, ver[c]) = SubSeq(Stream[t], 1, ver[c])
      BY <2>2, SeenIsPrefix
    <2>4. SubSeq(agg'[c], 1, ver'[c]) = SubSeq(Stream[t], 1, ver'[c])
      BY <1>1, <2>2, SeenIsPrefixAfter
    <2>. QED BY <1>2, <1>6, <2>1, <2>3, <2>4
  <1>7. CASE /\ agg' = agg /\ ver' = ver
             /\ pc[c] \in {"start_session", "lock", "fetch_latest", "save_events"}
             /\ pc'[c] \in {"lock", "fetch_latest", "save_events", "abort"}
    BY <1>2, <1>7, MappedCall, MappedCallAfter
  <1>8. CASE /\ agg' = agg /\ ver' = ver
             /\ pc[c] \in {"save_snapshot", "close"}
             /\ pc'[c] \in {"save_snapshot", "close", "dispatch"}
    BY <1>2, <1>8, MappedCall, MappedCallAfter
  <1>9. CASE /\ agg' = agg /\ ver' = ver
             /\ pc[c] \in {"close", "dispatch"}
             /\ pc'[c] = "done" /\ reply'[c] = "ok"
    <2>1. /\ Status[c] = "appended" /\ Status'[c] = "acked"
          /\ Seen'[c] = Seen[c]
      BY <1>9, MappedCall, MappedCallAfter
    <2>2. Seen' = Seen
      BY <1>1, <2>1 DEF Seen
    <2>. QED BY <1>1, <1>3, <2>1, <2>2 DEF Log!Acknowledge
  <1>10. CASE pc[c] # "done" /\ pc'[c] = "done" /\ reply'[c] # "ok"
    <2>1. Status'[c] = "failed" /\ Seen'[c] = <<>>
      BY <1>10, MappedCallAfter
    <2>2. Status[c] \in {"pending", "observed", "appended"}
      <3>1. pc[c] \in Label \ {"done"}
        BY <1>10 DEF LoadsHold, CallTypeOK
      <3>. QED BY <3>1, MappedCall DEF Label
    <2>. QED BY <1>1, <1>3, <2>1, <2>2 DEF Log!Fail
  <1>. QED BY <1>4, <1>5, <1>6, <1>7, <1>8, <1>9, <1>10 DEF QuietMove

(* What goes into the journal is the whole batch of a call that has seen   *)
(* the whole stream.                                                       *)
LEMMA AppendSimulated ==
  ASSUME LoadsHold, LoadsHold', NEW c \in Calls, \A d \in Calls : d # c => SameCall(d),
         pc[c] = "save_events", agg' = agg, ver' = ver, target' = target,
         NEW n \in 0..MaxEvents, batch[c] = NewEvents(c, n),
         n # 0 => ver[c] = Len(journal[target[c]]),
         journal' = [journal EXCEPT ![target[c]] = @ \o Envelopes(c)],
         \/ pc'[c] = "save_snapshot"
         \/ pc'[c] = "done" /\ reply'[c] # "ok"
  PROVE  Simulated
  <1> DEFINE t == target[c]
             j == journal[t]
             e == Envelopes(c)
  <1>1. /\ t \in Ids /\ ver[c] \in Nat /\ batch[c] \in State
        /\ j \in Seq(Envelope) /\ journal \in [Ids -> Seq(Envelope)]
        /\ Loaded(c)
    BY DEF LoadsHold, CallTypeOK, StoreTypeOK, Loaded
  <1>3. n \in Nat /\ Len(batch[c]) = n
    BY NewEventsType, MaxEventsAssumption
  <1>4. /\ Status[c] = "observed" /\ Seen[c] = SubSeq(agg[c], 1, ver[c])
        /\ \/ Status'[c] = "appended" /\ Seen'[c] = SubSeq(agg[c], 1, ver[c])
           \/ Status'[c] = "failed" /\ Seen'[c] = <<>>
    BY MappedCall, MappedCallAfter
  <1>5. /\ target' = target
        /\ Status' = [Status EXCEPT ![c] = Status'[c]]
        /\ Seen' = [Seen EXCEPT ![c] = Seen'[c]]
    BY OthersMapped
  <1>6. Seen'[c] = Seen[c] => Seen' = Seen
    BY <1>5 DEF Seen
  <1>7. /\ e \in Seq(Envelope) /\ Len(e) = n
        /\ EventsOf(e) = NewEvents(c, n)
    <2>1. /\ e \in Seq(Envelope) /\ Len(e) = n
          /\ \A i \in 1..n : e[i].event = batch[c][i]
      BY <1>1, <1>3, EnvelopedType DEF Envelopes
    <2>2. DOMAIN e = 1..n
      BY <2>1, LenProperties
    <2>. QED BY <2>1, <2>2 DEF EventsOf, NewEvents
  <1>8. journal' = [journal EXCEPT ![t] = j \o e]
    OBVIOUS
  <1>9. CASE n = 0
    <2>1. e = <<>>
      BY <1>7, <1>9, EmptySeq
    <2>2. j \o e = j
      BY <1>1, <2>1, ConcatEmptySeq
    <2>3. journal' = journal
      BY <1>1, <1>8, <2>2
    <2>4. Stream' = Stream
      BY <2>3 DEF Stream
    <2>5. Log!AppendNothing(c) \/ Log!Fail(c)
      BY <1>4, <1>5, <1>6, <2>4 DEF Log!AppendNothing, Log!Fail
    <2>. QED BY <2>5 DEF Simulated, Log!Next
  <1>10. CASE n # 0
    <2>1. n \in 1..MaxEvents
      BY <1>3, <1>10, MaxEventsAssumption
    <2>2. ver[c] = Len(j)
      BY <1>10
    <2>3. SubSeq(agg[c], 1, ver[c]) = Stream[t]
      BY <1>1, <2>2, SeenIsPrefix
    <2>4. Stream' = [Stream EXCEPT ![t] = @ \o NewEvents(c, n)]
      <3>1. EventsOf(j \o e) = EventsOf(j) \o EventsOf(e)
        BY <1>1, <1>7, EventsOfAppend
      <3>2. ASSUME NEW k \in Ids
            PROVE  Stream'[k] = IF k = t THEN Stream[k] \o NewEvents(c, n)
                                         ELSE Stream[k]
        <4>1. /\ Stream'[k] = EventsOf(journal'[k])
              /\ Stream[k] = EventsOf(journal[k])
          BY DEF Stream
        <4>2. journal'[k] = IF k = t THEN j \o e ELSE journal[k]
          BY <1>1, <1>8
        <4> HIDE DEF e
        <4>. QED BY <1>7, <3>1, <4>1, <4>2
      <3>. QED BY <3>2 DEF Stream
    <2>5. Log!AppendEvents(c)
      <3>1. Log!NewEvents(c, n) = NewEvents(c, n)
        BY DEF Log!NewEvents, NewEvents
      <3>. QED BY <1>4, <1>5, <1>6, <2>1, <2>3, <2>4, <3>1 DEF Log!AppendEvents
    <2>. QED BY <2>5 DEF Simulated, Log!Next
  <1>. QED BY <1>9, <1>10
=============================================================================
