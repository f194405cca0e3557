------------------------ MODULE PostgresEngineProofs ------------------------
(***************************************************************************)
(* The safety of the engine over PostgresPersist, for any number of calls, *)
(* aggregates and events per command, and for each use of the connections. *)
(*                                                                         *)
(* The argument: what a connection sees of an aggregate is what is         *)
(* committed and then its own rows.  As long as calls do not contend for a *)
(* connection, these are the versions 1, 2, 3, ..., so a row that the      *)
(* unique constraint lets in goes to the end.  With a pool a row not yet   *)
(* committed keeps every other connection from adding one, so a commit     *)
(* appends a whole batch to the journal its call has seen.  Where calls    *)
(* contend, the constraint is all that is left.                            *)
(***************************************************************************)
EXTENDS PostgresEngine, EventStoreLemmas

Calm == use # "contended"

(* The events of an aggregate as a connection sees them. *)
Table(k, id) == journal[id] \o rows[k][id]

OwnTable(c) == Table(Conn(c), target[c])

NothingOf(c) ==
  /\ NoEventsOf(c)
  /\ \A k \in Connections, id \in Ids : \A i \in DOMAIN rows[k][id] :
       rows[k][id][i].event[1] # c

(* What a call has made and how much of it it has sent. *)
BatchInv(c) ==
  /\ \E n \in 0..MaxEvents : batch[c] = NewEvents(c, n)
  /\ pc[c] \in {"fetch_snapshot", "fetch_tail", "handle"} => batch[c] = <<>>
  /\ sent[c] <= Len(batch[c])
  /\ pc[c] \in {"fetch_snapshot", "fetch_tail", "handle", "start_session",
                "lock", "fetch_latest"} => sent[c] = 0
  /\ pc[c] = "save_events" => batch[c] = <<>> \/ sent[c] < Len(batch[c])
  /\ pc[c] \in {"save_snapshot", "close"} => sent[c] = Len(batch[c])
  /\ pc[c] = "abort" => reply[c] \in {"concurrency_error", "database_error"}
  /\ pc[c] = "abort" /\ reply[c] = "concurrency_error" => sent[c] = 0
  /\ Refused(c) => sent[c] = 0

(* What was not sent is nowhere. *)
UnsentIsNowhere == \A c \in Calls : sent[c] = 0 => NothingOf(c)

(* Outside of a transaction there is nothing to commit. *)
NoneIsEmpty ==
  \A k \in Connections : txn[k] = "none" =>
    \A id \in Ids : rows[k][id] = <<>> /\ drafts[k][id] = NoSnapshot

Distinct(j) == \A i, m \in DOMAIN j : j[i].version = j[m].version => i = m

(* What the unique constraint keeps. *)
SingleVersions == \A k \in Connections, id \in Ids : Distinct(Table(k, id))

IsReplay(s, j) == s.version <= Len(j) /\ s.state = Replay(j, s.version)

TableInv(k, id) ==
  /\ Contiguous(Table(k, id))
  /\ drafts[k][id] # NoSnapshot => IsReplay(drafts[k][id], Table(k, id))

SnapshotInv(id) ==
  snapshots[id] # NoSnapshot => IsReplay(snapshots[id], journal[id])

(* A row not yet committed keeps every other connection from adding one. *)
OneWriter ==
  \A k, l \in Connections, id \in Ids :
    k # l => rows[k][id] = <<>> \/ rows[l][id] = <<>>

InSession(c) ==
  pc[c] \in {"lock", "fetch_latest", "save_events", "save_snapshot", "close"}

(* The call holds what it has loaded. *)
Holding(c) ==
  pc[c] \in {"fetch_tail", "handle", "start_session"} \/ InSession(c)

Active(c) == pc[c] \notin {"fetch_snapshot", "done"}

CallInv(c) ==
  /\ Holding(c) => /\ ver[c] <= Len(OwnTable(c))
                   /\ agg[c] = Replay(OwnTable(c), ver[c]) \o batch[c]
  /\ InSession(c) =>
       /\ txn[Conn(c)] = "open"
       /\ sent[c] > 0 => Len(OwnTable(c)) = ver[c] + sent[c]
       /\ \A i \in 1..sent[c] : OwnTable(c)[ver[c] + i].event = batch[c][i]
  /\ pc[c] = "dispatch" \/ Answered(c, "ok") => BatchInJournal(c)

InTurn ==
  use = "in_turn" => \A c, d \in Calls : Active(c) /\ Active(d) => c = d

(* With a connection per session a connection holds what its call wrote. *)
PoolInv(c) ==
  /\ \A id \in Ids : rows[c][id] # <<>> => id = target[c]
  /\ \A i \in DOMAIN rows[c][target[c]] : rows[c][target[c]][i].event[1] = c
  /\ InSession(c) /\ sent[c] > 0 => rows[c][target[c]] # <<>>
  /\ pc[c] = "close" => drafts[c][target[c]] # NoSnapshot
  /\ NoEventsOf(c) \/ BatchInJournal(c)

CalmInv ==
  Calm =>
    /\ \A k \in Connections, id \in Ids : TableInv(k, id)
    /\ \A id \in Ids : SnapshotInv(id)
    /\ OneWriter
    /\ \A c \in Calls : CallInv(c)

WholeInv ==
  use = "pool" =>
    /\ \A c \in Calls : PoolInv(c)
    /\ \A id \in Ids : snapshots[id] = NoSnapshot => journal[id] = <<>>

IInv ==
  /\ TypeOK
  /\ \A c \in Calls : BatchInv(c)
  /\ UnsentIsNowhere
  /\ NoneIsEmpty
  /\ ~ Calm => SingleVersions
  /\ InTurn
  /\ CalmInv
  /\ WholeInv

-----------------------------------------------------------------------------
(* Sequences of envelopes. *)

LEMMA AppendOne ==
  ASSUME NEW j \in Seq(Envelope), NEW e \in Envelope
  PROVE  /\ Append(j, e) = j \o <<e>>
         /\ <<e>> \in Seq(Envelope) /\ Len(<<e>>) = 1 /\ <<e>>[1] = e
         /\ <<e>> # <<>>
  OBVIOUS

LEMMA AppendOneProperties ==
  ASSUME NEW j \in Seq(Envelope), NEW e \in Envelope
  PROVE  /\ Append(j, e) \in Seq(Envelope)
         /\ Len(Append(j, e)) = Len(j) + 1
         /\ Append(j, e)[Len(j) + 1] = e
         /\ \A i \in 1..Len(j) : Append(j, e)[i] = j[i]
         /\ Append(j, e) # <<>>
  OBVIOUS

(* A replay stays one, whatever is appended.                               *)
LEMMA IsReplayGrows ==
  ASSUME NEW j \in Seq(Envelope), NEW e \in Seq(Envelope), NEW s \in Snapshot,
         IsReplay(s, j)
  PROVE  IsReplay(s, j \o e)
  <1>1. s.version \in Nat /\ s.version <= Len(j) /\ s.state = Replay(j, s.version)
    BY DEF IsReplay, Snapshot
  <1>2. Len(j) \in Nat /\ Len(e) \in Nat /\ Len(j \o e) = Len(j) + Len(e)
    BY LenProperties, AppendPlaces
  <1>3. s.version \in 0..Len(j) /\ s.version <= Len(j \o e)
    BY <1>1, <1>2
  <1>4. Replay(j \o e, s.version) = Replay(j, s.version)
    BY <1>3, ReplayOfPrefix
  <1>. QED BY <1>1, <1>3, <1>4 DEF IsReplay

LEMMA ContiguousPrefix ==
  ASSUME NEW j \in Seq(Envelope), NEW e \in Seq(Envelope), Contiguous(j \o e)
  PROVE  Contiguous(j)
  <1>1. /\ j \o e \in Seq(Envelope) /\ Len(j \o e) = Len(j) + Len(e)
        /\ \A i \in 1..Len(j) : (j \o e)[i] = j[i]
    BY AppendPlaces
  <1>2. /\ Len(j) \in Nat /\ Len(e) \in Nat
        /\ DOMAIN j = 1..Len(j) /\ DOMAIN (j \o e) = 1..Len(j \o e)
    BY <1>1, LenProperties
  <1>. QED BY <1>1, <1>2 DEF Contiguous

LEMMA DistinctPrefix ==
  ASSUME NEW j \in Seq(Envelope), NEW e \in Seq(Envelope), Distinct(j \o e)
  PROVE  Distinct(j)
  <1>1. /\ j \o e \in Seq(Envelope) /\ Len(j \o e) = Len(j) + Len(e)
        /\ \A i \in 1..Len(j) : (j \o e)[i] = j[i]
    BY AppendPlaces
  <1>2. /\ Len(j) \in Nat /\ Len(e) \in Nat
        /\ DOMAIN j = 1..Len(j) /\ DOMAIN (j \o e) = 1..Len(j \o e)
    BY <1>1, LenProperties
  <1>. QED BY <1>1, <1>2 DEF Distinct

LEMMA DistinctAppend ==
  ASSUME NEW j \in Seq(Envelope), NEW e \in Envelope, Distinct(j),
         \A i \in 1..Len(j) : j[i].version # e.version
  PROVE  Distinct(Append(j, e))
  <1>1. /\ Append(j, e) \in Seq(Envelope) /\ Len(Append(j, e)) = Len(j) + 1
        /\ Append(j, e)[Len(j) + 1] = e
        /\ \A i \in 1..Len(j) : Append(j, e)[i] = j[i]
    BY AppendOneProperties
  <1>2. /\ Len(j) \in Nat
        /\ DOMAIN j = 1..Len(j) /\ DOMAIN Append(j, e) = 1..(Len(j) + 1)
    BY <1>1, LenProperties
  <1>3. \A i \in 1..(Len(j) + 1) : i \in 1..Len(j) \/ i = Len(j) + 1
    BY <1>2
  <1>. QED BY <1>1, <1>2, <1>3 DEF Distinct

(* Unique versions that are contiguous have no room before their end.      *)
LEMMA NewVersionGoesToTheEnd ==
  ASSUME NEW j \in Seq(Envelope), Contiguous(j), NEW v \in Nat, v <= Len(j),
         \A i \in 1..Len(j) : j[i].version # v + 1
  PROVE  v = Len(j)
  <1>1. Len(j) \in Nat /\ DOMAIN j = 1..Len(j)
    BY LenProperties
  <1>2. v < Len(j) => v + 1 \in 1..Len(j)
    BY <1>1
  <1>3. v + 1 \in 1..Len(j) => j[v + 1].version = v + 1
    BY <1>1 DEF Contiguous
  <1>4. v + 1 \notin 1..Len(j)
    BY <1>3
  <1>5. ~ (v < Len(j))
    BY <1>2, <1>4
  <1> DEFINE n == Len(j)
  <1>6. n \in Nat /\ v \in Nat /\ v <= n /\ ~ (v < n)
    BY <1>1, <1>5
  <1> HIDE DEF n
  <1>7. v = n
    BY ONLY <1>6
  <1>. QED BY <1>7 DEF n

(* ORDER BY version shows every version and no other.                      *)
LEMMA ByVersionHas ==
  ASSUME NEW j \in Seq(Envelope), NEW v, ~ HasVersion(ByVersion(j), v)
  PROVE  \A i \in 1..Len(j) : j[i].version # v
  <1>1. /\ ByVersion(j) \in Seq(Envelope) /\ Len(ByVersion(j)) = Len(j)
        /\ \A i \in 1..Len(j) : \E k \in 1..Len(j) : ByVersion(j)[k] = j[i]
    BY ByVersionLists
  <1>2. DOMAIN ByVersion(j) = 1..Len(j)
    BY <1>1, LenProperties
  <1>. QED BY <1>1, <1>2 DEF HasVersion

-----------------------------------------------------------------------------
(* Connections. *)

LEMMA ConnFacts ==
  ASSUME NEW c \in Calls
  PROVE  /\ Conn(c) \in Connections
         /\ use = "pool" => Conn(c) = c /\ Connections = Calls
         /\ use # "pool" => \A k, l \in Connections : k = l
  BY DEF Conn, Connections, Shared

LEMMA ConnKept ==
  ASSUME use' = use
  PROVE  /\ Connections' = Connections
         /\ \A c \in Calls : Conn(c)' = Conn(c)
  BY DEF Conn, Connections, Shared

(* What the tables are.                                                    *)
LEMMA TableType ==
  ASSUME TypeOK, NEW k \in Connections, NEW id \in Ids
  PROVE  /\ journal[id] \in Seq(Envelope) /\ rows[k][id] \in Seq(Envelope)
         /\ Len(journal[id]) \in Nat /\ Len(rows[k][id]) \in Nat
         /\ DOMAIN journal[id] = 1..Len(journal[id])
         /\ DOMAIN rows[k][id] = 1..Len(rows[k][id])
         /\ Table(k, id) \in Seq(Envelope) /\ Len(Table(k, id)) \in Nat
         /\ Len(Table(k, id)) = Len(journal[id]) + Len(rows[k][id])
         /\ \A i \in 1..Len(journal[id]) : Table(k, id)[i] = journal[id][i]
         /\ \A i \in 1..Len(rows[k][id]) :
              Table(k, id)[Len(journal[id]) + i] = rows[k][id][i]
         /\ DOMAIN Table(k, id) = 1..Len(Table(k, id))
         /\ rows[k][id] = <<>> => Table(k, id) = journal[id]
         /\ drafts[k][id] \in Snapshot \cup {NoSnapshot}
         /\ snapshots[id] \in Snapshot \cup {NoSnapshot}
  <1>1. /\ journal[id] \in Seq(Envelope) /\ rows[k][id] \in Seq(Envelope)
        /\ drafts[k][id] \in Snapshot \cup {NoSnapshot}
        /\ snapshots[id] \in Snapshot \cup {NoSnapshot}
    BY DEF TypeOK, StoreTypeOK
  <1>2. /\ Table(k, id) \in Seq(Envelope)
        /\ Len(Table(k, id)) = Len(journal[id]) + Len(rows[k][id])
        /\ \A i \in 1..Len(journal[id]) : Table(k, id)[i] = journal[id][i]
        /\ \A i \in 1..Len(rows[k][id]) :
              Table(k, id)[Len(journal[id]) + i] = rows[k][id][i]
    <2> DEFINE j == journal[id]
               r == rows[k][id]
    <2>1. j \in Seq(Envelope) /\ r \in Seq(Envelope) /\ Table(k, id) = j \o r
      BY <1>1 DEF Table
    <2> HIDE DEF j, r
    <2>2. /\ j \o r \in Seq(Envelope) /\ Len(j \o r) = Len(j) + Len(r)
          /\ \A i \in 1..Len(j) : (j \o r)[i] = j[i]
          /\ \A i \in 1..Len(r) : (j \o r)[Len(j) + i] = r[i]
      BY ONLY <2>1, AppendPlaces
    <2>. QED BY <2>1, <2>2 DEF j, r
  <1>3. rows[k][id] = <<>> => Table(k, id) = journal[id]
    BY <1>1, ConcatEmptySeq DEF Table
  <1>. QED BY <1>1, <1>2, <1>3, LenProperties

-----------------------------------------------------------------------------
(* What a step of call c may do to the rest: nothing to the other calls,   *)
(* to its own command and to the other connections ...                     *)
Frame(c) ==
  /\ use' = use /\ target' = target
  /\ \A d \in Calls : d # c => SameCall(d) /\ sent'[d] = sent[d]
  /\ \A k \in Connections : k # Conn(c) => txn'[k] = txn[k]

(* ... and, where calls take turns, nothing at all in another's turn.      *)
KeepsTurn(c) ==
  use = "in_turn" =>
    \/ Active(c)
    \/ \A d \in Calls \ {c} : ~ Active(d)
    \/ ~ Active(c)' /\ UNCHANGED <<store, txn, rows, drafts, sent>>

(* What it does to the tables is one of these.                             *)
Quiet(c) ==
  /\ UNCHANGED <<journal, snapshots, rows, drafts, sent>>
  /\ txn' \in [Connections -> {"none", "open", "aborted"}]
  /\ txn[Conn(c)] # "none" => txn'[Conn(c)] # "none"

NextEnvelope(c) == Envelopes(c)[sent[c] + 1]

Inserts(c) ==
  /\ pc[c] = "save_events" /\ batch[c] # <<>>
  /\ \A k \in Others(c) : ~ HasVersion(rows[k][target[c]], NextEnvelope(c).version)
  /\ ~ Duplicate(c, NextEnvelope(c).version)
  /\ WriteRow(c, NextEnvelope(c))
  /\ sent' = [sent EXCEPT ![c] = @ + 1]
  /\ UNCHANGED <<snapshots, drafts, txn>>

Upserts(c) ==
  /\ pc[c] = "save_snapshot"
  /\ WriteSnapshot(c)
  /\ UNCHANGED <<journal, rows, txn, sent>>

Commits(c) == pc[c] = "close" /\ CommitTransaction(c)

Effect(c) == Quiet(c) \/ Inserts(c) \/ Upserts(c) \/ Commits(c) \/ Rollback(c)

-----------------------------------------------------------------------------
(* What the steps make of the tables. *)

LEMMA NestedUpdate ==
  ASSUME NEW K, NEW I, NEW V, NEW f \in [K -> [I -> V]],
         NEW k \in K, NEW i \in I, NEW v \in V
  PROVE  [f EXCEPT ![k][i] = v] \in [K -> [I -> V]]
  OBVIOUS

(* The envelope that INSERT sends has the next version and the next event  *)
(* of the batch of its call.                                               *)
LEMMA NextEnvelopeFacts ==
  ASSUME TypeOK, NEW c \in Calls, BatchInv(c),
         pc[c] = "save_events", batch[c] # <<>>
  PROVE  /\ NextEnvelope(c) \in Envelope
         /\ NextEnvelope(c).version = ver[c] + sent[c] + 1
         /\ NextEnvelope(c).event = batch[c][sent[c] + 1]
         /\ NextEnvelope(c).event[1] = c
         /\ sent[c] \in Nat /\ sent[c] + 1 \in 1..Len(batch[c])
         /\ sent[c] + 1 \in 0..MaxEvents
  <1>1. PICK n \in 0..MaxEvents : batch[c] = NewEvents(c, n)
    BY DEF BatchInv
  <1>2. n \in Nat /\ MaxEvents \in Nat /\ batch[c] \in State /\ Len(batch[c]) = n
    BY <1>1, NewEventsType, MaxEventsAssumption
  <1>3. ver[c] \in Nat /\ sent[c] \in Nat /\ sent[c] < Len(batch[c])
    BY DEF TypeOK, CallTypeOK, BatchInv
  <1> DEFINE m == sent[c] + 1
             e == Envelopes(c)
  <1>4. m \in 1..n /\ m \in 0..MaxEvents
    BY <1>2, <1>3
  <1>5. /\ e \in Seq(Envelope) /\ Len(e) = n
        /\ \A i \in 1..n : e[i].version = ver[c] + i /\ e[i].event = batch[c][i]
    BY <1>2, <1>3, EnvelopedType DEF Envelopes
  <1>6. e[m] \in Envelope
    <2> HIDE DEF e, m
    <2>. QED BY <1>4, <1>5, ElementOfSeq
  <1>7. ver[c] + m = ver[c] + sent[c] + 1
    BY <1>3
  <1>8. batch[c][m][1] = c
    <2> HIDE DEF m
    <2>. QED BY <1>1, <1>4 DEF NewEvents
  <1>9. NextEnvelope(c) = e[m]
    BY DEF NextEnvelope
  <1>10. e[m].version = ver[c] + m /\ e[m].event = batch[c][m]
    BY <1>4, <1>5
  <1>. QED BY <1>2, <1>3, <1>4, <1>6, <1>7, <1>8, <1>9, <1>10

LEMMA InsertTables ==
  ASSUME TypeOK, NEW c \in Calls, BatchInv(c), NoneIsEmpty, Inserts(c),
         use' = use, target' = target
  PROVE  LET t == target[c]
             e == NextEnvelope(c) IN
         /\ OwnTable(c)' = Append(OwnTable(c), e)
         /\ \A i \in 1..Len(OwnTable(c)) : OwnTable(c)[i].version # e.version
         /\ \A id \in Ids : id # t => journal'[id] = journal[id]
         /\ \A k \in Connections, id \in Ids :
              k # Conn(c) \/ id # t => rows'[k][id] = rows[k][id]
         /\ \/ /\ txn[Conn(c)] = "none" /\ rows[Conn(c)][t] = <<>>
               /\ journal' = [journal EXCEPT ![t] = Append(@, e)]
               /\ rows' = rows
            \/ /\ txn[Conn(c)] # "none"
               /\ journal' = journal
               /\ rows' = [rows EXCEPT ![Conn(c)][t] = Append(@, e)]
               /\ rows'[Conn(c)][t] = Append(rows[Conn(c)][t], e)
         /\ UNCHANGED <<snapshots, drafts, txn>>
  <1> DEFINE t == target[c]
             e == NextEnvelope(c)
             k == Conn(c)
  <1>1. /\ t \in Ids /\ k \in Connections /\ e \in Envelope
        /\ journal \in [Ids -> Seq(Envelope)]
        /\ rows \in [Connections -> [Ids -> Seq(Envelope)]]
        /\ journal[t] \in Seq(Envelope) /\ rows[k][t] \in Seq(Envelope)
    BY ConnFacts, NextEnvelopeFacts DEF TypeOK, CallTypeOK, StoreTypeOK, Inserts
  <1>2. /\ OwnTable(c) = journal[t] \o rows[k][t]
        /\ OwnTable(c) \in Seq(Envelope)
    BY <1>1, TableType DEF OwnTable, Table
  <1>3. OwnTable(c)' = journal'[t] \o rows'[k][t]
    BY ConnKept DEF OwnTable, Table
  <1>4. \A i \in 1..Len(OwnTable(c)) : OwnTable(c)[i].version # e.version
    <2>1. Visible(c) = ByVersion(OwnTable(c)) /\ ~ HasVersion(Visible(c), e.version)
      BY DEF Visible, OwnTable, Table, Inserts, Duplicate
    <2>. QED BY <1>2, <2>1, ByVersionHas
  <1>5. /\ txn[k] = "none" => /\ journal' = [journal EXCEPT ![t] = Append(@, e)]
                              /\ rows' = rows
        /\ txn[k] # "none" => /\ journal' = journal
                              /\ rows' = [rows EXCEPT ![k][t] = Append(@, e)]
        /\ UNCHANGED <<snapshots, drafts, txn>>
    BY DEF Inserts, WriteRow
  <1>6. txn[k] = "none" => rows[k][t] = <<>>
    BY <1>1 DEF NoneIsEmpty
  <1> HIDE DEF t, e, k
  <1>7. /\ Append(journal[t], e) = journal[t] \o <<e>>
        /\ Append(rows[k][t], e) = rows[k][t] \o <<e>>
        /\ <<e>> \in Seq(Envelope)
    BY <1>1, AppendOne
  <1>8. Append(OwnTable(c), e) = OwnTable(c) \o <<e>>
    BY <1>1, <1>2, AppendOne
  <1>9. CASE txn[k] = "none"
    <2>1. /\ journal'[t] = Append(journal[t], e) /\ rows'[k][t] = <<>>
          /\ \A id \in Ids : id # t => journal'[id] = journal[id]
      BY <1>1, <1>5, <1>6, <1>9
    <2>2. Append(journal[t], e) \in Seq(Envelope)
      BY <1>1, AppendOneProperties
    <2>3. journal'[t] \o rows'[k][t] = Append(journal[t], e)
      BY <2>1, <2>2, ConcatEmptySeq
    <2>4. OwnTable(c) = journal[t]
      BY <1>1, <1>2, <1>6, <1>9, ConcatEmptySeq
    <2>. QED BY <1>3, <1>4, <1>5, <1>6, <1>9, <2>1, <2>3, <2>4 DEF t, e, k
  <1>10. CASE txn[k] # "none"
    <2>1. /\ rows'[k][t] = Append(rows[k][t], e)
          /\ \A l \in Connections, id \in Ids :
               l # k \/ id # t => rows'[l][id] = rows[l][id]
      BY <1>1, <1>5, <1>10
    <2>2. journal[t] \o (rows[k][t] \o <<e>>) = (journal[t] \o rows[k][t]) \o <<e>>
      <3> DEFINE a == journal[t]
                 b == rows[k][t]
                 d == <<e>>
      <3>1. a \in Seq(Envelope) /\ b \in Seq(Envelope) /\ d \in Seq(Envelope)
        BY <1>1, <1>7
      <3> HIDE DEF a, b, d
      <3>2. (a \o b) \o d = a \o (b \o d)
        BY ONLY <3>1, ConcatAssociative
      <3>. QED BY <3>2 DEF a, b, d
    <2>3. OwnTable(c)' = Append(OwnTable(c), e)
      BY <1>2, <1>3, <1>5, <1>7, <1>8, <1>10, <2>1, <2>2
    <2>. QED BY <1>4, <1>5, <1>10, <2>1, <2>3 DEF t, e, k
  <1>. QED BY <1>9, <1>10

LEMMA CommitTables ==
  ASSUME TypeOK, NEW c \in Calls, CommitTransaction(c)
  PROVE  /\ \A id \in Ids : journal'[id] = Table(Conn(c), id)
         /\ \A id \in Ids : snapshots'[id] =
              IF drafts[Conn(c)][id] = NoSnapshot THEN snapshots[id]
                                                  ELSE drafts[Conn(c)][id]
         /\ \A id \in Ids : rows'[Conn(c)][id] = <<>>
                            /\ drafts'[Conn(c)][id] = NoSnapshot
         /\ \A k \in Connections : k # Conn(c) =>
              rows'[k] = rows[k] /\ drafts'[k] = drafts[k] /\ txn'[k] = txn[k]
         /\ txn'[Conn(c)] = "none"
         /\ use' = use /\ sent' = sent
  BY ConnFacts DEF CommitTransaction, Clear, Table, TypeOK

LEMMA RollbackTables ==
  ASSUME TypeOK, NEW c \in Calls, Rollback(c)
  PROVE  /\ journal' = journal /\ snapshots' = snapshots
         /\ \A id \in Ids : rows'[Conn(c)][id] = <<>>
                            /\ drafts'[Conn(c)][id] = NoSnapshot
         /\ \A k \in Connections : k # Conn(c) =>
              rows'[k] = rows[k] /\ drafts'[k] = drafts[k] /\ txn'[k] = txn[k]
         /\ txn'[Conn(c)] = "none"
         /\ use' = use /\ sent' = sent
  BY ConnFacts DEF Rollback, Clear, TypeOK, store

LEMMA NewSnapshotType ==
  ASSUME CallTypeOK, NEW c \in Calls
  PROVE  /\ NewSnapshot(c) \in Snapshot /\ NewSnapshot(c) # NoSnapshot
         /\ NewSnapshot(c).state = agg[c]
         /\ NewSnapshot(c).version = ver[c] + Len(batch[c])
  <1>1. ver[c] \in Nat /\ batch[c] \in State /\ agg[c] \in State
    BY DEF CallTypeOK
  <1>2. Len(batch[c]) \in Nat
    BY <1>1, LenProperties DEF State
  <1>3. ver[c] + Len(batch[c]) \in Nat
    BY <1>1, <1>2
  <1>. QED BY <1>1, <1>3, NoSnapshotAssumption DEF NewSnapshot, Snapshot

(* Every step leaves the tables well-typed.                                *)
LEMMA TablesTyped ==
  ASSUME TypeOK, NEW c \in Calls, BatchInv(c), NoneIsEmpty, Frame(c), Effect(c)
  PROVE  /\ StoreTypeOK'
         /\ txn' \in [Connections' -> {"none", "open", "aborted"}]
         /\ rows' \in [Connections' -> [Ids -> Seq(Envelope)]]
         /\ drafts' \in [Connections' -> [Ids -> Snapshot \cup {NoSnapshot}]]
         /\ sent' \in [Calls -> 0..MaxEvents]
  <1>1. /\ Connections' = Connections /\ Conn(c) \in Connections /\ target[c] \in Ids
        /\ journal \in [Ids -> Seq(Envelope)]
        /\ snapshots \in [Ids -> Snapshot \cup {NoSnapshot}]
        /\ txn \in [Connections -> {"none", "open", "aborted"}]
        /\ rows \in [Connections -> [Ids -> Seq(Envelope)]]
        /\ drafts \in [Connections -> [Ids -> Snapshot \cup {NoSnapshot}]]
        /\ sent \in [Calls -> 0..MaxEvents]
    BY ConnFacts, ConnKept DEF TypeOK, CallTypeOK, StoreTypeOK, Frame
  <1>2. CASE Quiet(c)
    BY <1>1, <1>2 DEF Quiet, StoreTypeOK
  <1>3. CASE Inserts(c)
    <2> DEFINE t == target[c]
               e == NextEnvelope(c)
    <2>1. /\ e \in Envelope /\ sent[c] + 1 \in 0..MaxEvents
      BY <1>3, NextEnvelopeFacts DEF Inserts
    <2>2. sent' \in [Calls -> 0..MaxEvents]
      BY <1>1, <1>3, <2>1 DEF Inserts
    <2>3. /\ journal[t] \in Seq(Envelope) /\ rows[Conn(c)][t] \in Seq(Envelope)
      BY <1>1
    <2> HIDE DEF e
    <2>4. /\ Append(journal[t], e) \in Seq(Envelope)
          /\ Append(rows[Conn(c)][t], e) \in Seq(Envelope)
      BY <2>1, <2>3, AppendOneProperties
    <2>5. /\ UNCHANGED <<snapshots, drafts, txn>>
          /\ \/ /\ journal' = [journal EXCEPT ![t] = Append(@, e)]
                /\ rows' = rows
             \/ /\ journal' = journal
                /\ rows' = [rows EXCEPT ![Conn(c)][t] = Append(@, e)]
      BY <1>3, InsertTables DEF Frame, e
    <2>6. journal' \in [Ids -> Seq(Envelope)]
      BY <1>1, <2>4, <2>5
    <2>7. rows' \in [Connections -> [Ids -> Seq(Envelope)]]
      <3> DEFINE k == Conn(c)
                 S == Seq(Envelope)
                 a == Append(rows[k][t], e)
      <3>1. k \in Connections /\ t \in Ids /\ a \in S /\ rows \in [Connections -> [Ids -> S]]
        BY <1>1, <2>4
      <3>2. rows' = rows \/ rows' = [rows EXCEPT ![k][t] = a]
        BY <2>5
      <3> HIDE DEF k, t, S, a
      <3>3. [rows EXCEPT ![k][t] = a] \in [Connections -> [Ids -> S]]
        BY ONLY <3>1, NestedUpdate
      <3>. QED BY <3>1, <3>2, <3>3 DEF S
    <2>. QED BY <1>1, <2>2, <2>5, <2>6, <2>7 DEF StoreTypeOK
  <1>4. CASE Upserts(c)
    <2>1. NewSnapshot(c) \in Snapshot
      BY NewSnapshotType DEF TypeOK
    <2>2. \/ /\ snapshots' = [snapshots EXCEPT ![target[c]] = NewSnapshot(c)]
             /\ drafts' = drafts
          \/ /\ drafts' = [drafts EXCEPT ![Conn(c)][target[c]] = NewSnapshot(c)]
             /\ snapshots' = snapshots
      BY <1>4 DEF Upserts, WriteSnapshot
    <2>3. snapshots' \in [Ids -> Snapshot \cup {NoSnapshot}]
      BY <1>1, <2>1, <2>2
    <2>4. NewSnapshot(c) \in Snapshot \cup {NoSnapshot}
      BY <2>1
    <2>5. drafts' \in [Connections -> [Ids -> Snapshot \cup {NoSnapshot}]]
      <3> DEFINE k == Conn(c)
                 t == target[c]
                 S == Snapshot \cup {NoSnapshot}
                 a == NewSnapshot(c)
      <3>1. k \in Connections /\ t \in Ids /\ a \in S /\ drafts \in [Connections -> [Ids -> S]]
        BY <1>1, <2>4
      <3>2. drafts' = drafts \/ drafts' = [drafts EXCEPT ![k][t] = a]
        BY <2>2
      <3> HIDE DEF k, t, S, a
      <3>3. [drafts EXCEPT ![k][t] = a] \in [Connections -> [Ids -> S]]
        BY ONLY <3>1, NestedUpdate
      <3>. QED BY <3>1, <3>2, <3>3 DEF S
    <2>. QED BY <1>1, <1>4, <2>3, <2>5 DEF Upserts, StoreTypeOK
  <1>5. /\ [id \in Ids |-> <<>>] \in [Ids -> Seq(Envelope)]
        /\ [id \in Ids |-> NoSnapshot] \in [Ids -> Snapshot \cup {NoSnapshot}]
    BY EmptySeq
  <1>6. CASE Commits(c)
    <2>1. \A id \in Ids : journal[id] \o rows[Conn(c)][id] \in Seq(Envelope)
      BY <1>1, TableType DEF Table
    <2>. QED BY <1>1, <1>5, <1>6, <2>1
         DEF Commits, CommitTransaction, Clear, StoreTypeOK
  <1>7. CASE Rollback(c)
    BY <1>1, <1>5, <1>7 DEF Rollback, Clear, StoreTypeOK, store
  <1>. QED BY <1>2, <1>3, <1>4, <1>6, <1>7 DEF Effect

(* Where the entries of a journal come from.                               *)
LEMMA TableEntries ==
  ASSUME TypeOK, NEW c \in Calls, NEW k \in Connections, NEW id \in Ids,
         NothingOf(c)
  PROVE  \A i \in 1..Len(Table(k, id)) : Table(k, id)[i].event[1] # c
  <1> DEFINE j == journal[id]
             r == rows[k][id]
             tab == Table(k, id)
             n == Len(j)
             m == Len(r)
  <1>1. /\ n \in Nat /\ m \in Nat /\ Len(tab) = n + m
        /\ \A i \in 1..n : tab[i] = j[i]
        /\ \A i \in 1..m : tab[n + i] = r[i]
        /\ DOMAIN j = 1..n /\ DOMAIN r = 1..m
    BY TableType
  <1>2. /\ \A i \in DOMAIN j : j[i].event[1] # c
        /\ \A i \in DOMAIN r : r[i].event[1] # c
    BY DEF NothingOf, NoEventsOf
  <1> HIDE DEF j, r, tab, n, m
  <1>3. ASSUME NEW i \in 1..Len(tab)
        PROVE  tab[i].event[1] # c
    <2>1. i \in 1..n \/ (i - n \in 1..m /\ n + (i - n) = i)
      BY ONLY <1>1, <1>3
    <2>2. CASE i \in 1..n
      BY <1>1, <1>2, <2>2
    <2>3. CASE i - n \in 1..m /\ n + (i - n) = i
      <3>1. tab[n + (i - n)] = r[i - n]
        BY <1>1, <2>3
      <3>2. r[i - n].event[1] # c
        BY <1>1, <1>2, <2>3
      <3>. QED BY <2>3, <3>1, <3>2
    <2>. QED BY <2>1, <2>2, <2>3
  <1>. QED BY <1>3 DEF tab

(* Only its own INSERT brings an event of a call anywhere.                 *)
LEMMA UnsentKept ==
  ASSUME TypeOK, NEW c \in Calls, BatchInv(c), NoneIsEmpty, UnsentIsNowhere,
         Frame(c), Effect(c)
  PROVE  UnsentIsNowhere'
  <1>1. SUFFICES ASSUME NEW d \in Calls, sent'[d] = 0
                 PROVE  NothingOf(d)'
    BY DEF UnsentIsNowhere
  <1>2. Connections' = Connections /\ Conn(c) \in Connections
    BY ConnFacts, ConnKept DEF Frame
  <1>3. sent \in [Calls -> 0..MaxEvents] /\ sent[c] \in Nat
    BY DEF TypeOK, BatchInv
  <1>4. sent[d] = 0 /\ (Inserts(c) => d # c)
    <2>1. Inserts(c) => sent'[c] = sent[c] + 1
      BY <1>3 DEF Inserts
    <2>2. ~ Inserts(c) => sent' = sent
      BY DEF Effect, Quiet, Upserts, Commits, CommitTransaction, Rollback, Clear
    <2>3. sent[c] + 1 # 0
      BY <1>3
    <2>. QED BY <1>1, <2>1, <2>2, <2>3 DEF Frame
  <1>5. NothingOf(d)
    BY <1>4 DEF UnsentIsNowhere
  <1>6. SUFFICES /\ \A id \in Ids : \A i \in DOMAIN journal'[id] :
                      journal'[id][i].event[1] # d
                 /\ \A k \in Connections, id \in Ids : \A i \in DOMAIN rows'[k][id] :
                      rows'[k][id][i].event[1] # d
    BY <1>2 DEF NothingOf, NoEventsOf
  <1>7. CASE Quiet(c) \/ Upserts(c)
    BY <1>5, <1>7 DEF Quiet, Upserts, NothingOf, NoEventsOf
  <1>8. CASE Inserts(c)
    <2> DEFINE t == target[c]
               e == NextEnvelope(c)
               own == Conn(c)
    <2>1. e \in Envelope /\ e.event[1] # d /\ t \in Ids
      BY <1>4, <1>8, NextEnvelopeFacts DEF Inserts, TypeOK, CallTypeOK
    <2>2. /\ \A id \in Ids : id # t => journal'[id] = journal[id]
          /\ \A k \in Connections, id \in Ids :
               k # own \/ id # t => rows'[k][id] = rows[k][id]
          /\ \/ journal' = [journal EXCEPT ![t] = Append(@, e)] /\ rows' = rows
             \/ journal' = journal /\ rows'[own][t] = Append(rows[own][t], e)
      BY <1>8, InsertTables DEF Frame
    <2>3. journal'[t] \in {journal[t], Append(journal[t], e)}
          /\ rows'[own][t] \in {rows[own][t], Append(rows[own][t], e)}
      BY <2>1, <2>2 DEF TypeOK, StoreTypeOK
    <2>4. ASSUME NEW j \in Seq(Envelope), NEW s \in {j, Append(j, e)},
                 \A i \in DOMAIN j : j[i].event[1] # d
          PROVE  \A i \in DOMAIN s : s[i].event[1] # d
      <3> HIDE DEF e
      <3>1. /\ Append(j, e) \in Seq(Envelope) /\ Len(Append(j, e)) = Len(j) + 1
            /\ Append(j, e)[Len(j) + 1] = e
            /\ \A i \in 1..Len(j) : Append(j, e)[i] = j[i]
        BY <2>1, AppendOneProperties
      <3>2. Len(j) \in Nat /\ DOMAIN j = 1..Len(j)
            /\ DOMAIN Append(j, e) = 1..(Len(j) + 1)
        BY <3>1, LenProperties
      <3>3. \A i \in 1..(Len(j) + 1) : i \in 1..Len(j) \/ i = Len(j) + 1
        BY <3>2
      <3>. QED BY <2>1, <2>4, <3>1, <3>2, <3>3
    <2>5. /\ journal[t] \in Seq(Envelope) /\ rows[own][t] \in Seq(Envelope)
          /\ \A i \in DOMAIN journal[t] : journal[t][i].event[1] # d
          /\ \A i \in DOMAIN rows[own][t] : rows[own][t][i].event[1] # d
      BY <1>2, <1>5, <2>1, TableType DEF NothingOf, NoEventsOf
    <2> HIDE DEF t, e, own
    <2>6. /\ \A i \in DOMAIN journal'[t] : journal'[t][i].event[1] # d
          /\ \A i \in DOMAIN rows'[own][t] : rows'[own][t][i].event[1] # d
      BY <2>3, <2>4, <2>5
    <2>. QED BY <1>5, <2>2, <2>6 DEF NothingOf, NoEventsOf
  <1>9. CASE Commits(c)
    <2>1. /\ \A id \in Ids : journal'[id] = Table(Conn(c), id)
          /\ \A id \in Ids : rows'[Conn(c)][id] = <<>>
          /\ \A k \in Connections : k # Conn(c) => rows'[k] = rows[k]
      BY <1>9, CommitTables DEF Commits
    <2>2. ASSUME NEW id \in Ids
          PROVE  \A i \in DOMAIN journal'[id] : journal'[id][i].event[1] # d
      BY <1>2, <1>5, <2>1, TableEntries, TableType
    <2>3. \A k \in Connections, id \in Ids :
            rows'[k][id] = <<>> \/ rows'[k][id] = rows[k][id]
      BY <2>1
    <2>. QED BY <1>5, <2>2, <2>3 DEF NothingOf
  <1>10. CASE Rollback(c)
    <2>1. journal' = journal
          /\ \A k \in Connections, id \in Ids :
               rows'[k][id] = <<>> \/ rows'[k][id] = rows[k][id]
      BY <1>10, RollbackTables
    <2>. QED BY <1>5, <2>1 DEF NothingOf, NoEventsOf
  <1>. QED BY <1>7, <1>8, <1>9, <1>10 DEF Effect

(* Only the end of a transaction leaves a connection without one.          *)
LEMMA NoneIsEmptyKept ==
  ASSUME TypeOK, NEW c \in Calls, BatchInv(c), NoneIsEmpty, Frame(c), Effect(c)
  PROVE  NoneIsEmpty'
  <1>1. SUFFICES ASSUME NEW k \in Connections, txn'[k] = "none", NEW id \in Ids
                 PROVE  rows'[k][id] = <<>> /\ drafts'[k][id] = NoSnapshot
    BY ConnKept DEF NoneIsEmpty, Frame
  <1>2. txn[k] = "none" => rows[k][id] = <<>> /\ drafts[k][id] = NoSnapshot
    BY DEF NoneIsEmpty
  <1>3. CASE Quiet(c)
    BY <1>1, <1>2, <1>3 DEF Quiet, Frame
  <1>4. CASE Inserts(c)
    <2>1. /\ txn' = txn /\ drafts' = drafts
          /\ k # Conn(c) \/ id # target[c] => rows'[k][id] = rows[k][id]
          /\ rows' = rows \/ txn[Conn(c)] # "none"
      BY <1>4, InsertTables DEF Frame
    <2>. QED BY <1>1, <1>2, <2>1
  <1>5. CASE Upserts(c)
    <2>1. /\ txn' = txn /\ rows' = rows
          /\ drafts' = drafts \/ (txn[Conn(c)] # "none" /\
               drafts' = [drafts EXCEPT ![Conn(c)][target[c]] = NewSnapshot(c)])
      BY <1>5 DEF Upserts, WriteSnapshot
    <2>2. k # Conn(c) => drafts'[k] = drafts[k]
      BY <2>1 DEF TypeOK
    <2>. QED BY <1>1, <1>2, <2>1, <2>2
  <1>6. CASE Commits(c) \/ Rollback(c)
    BY <1>1, <1>2, <1>6, CommitTables, RollbackTables DEF Commits
  <1>. QED BY <1>3, <1>4, <1>5, <1>6 DEF Effect

(* Whoever shares a connection, the constraint knows every row: those of   *)
(* the transaction and those committed.                                    *)
LEMMA SingleVersionsKept ==
  ASSUME TypeOK, NEW c \in Calls, BatchInv(c), NoneIsEmpty, Frame(c), Effect(c),
         use # "pool", SingleVersions
  PROVE  SingleVersions'
  <1>1. SUFFICES ASSUME NEW k \in Connections, NEW id \in Ids
                 PROVE  Distinct(Table(k, id))'
    BY ConnKept DEF SingleVersions, Frame
  <1>2. Conn(c) = k /\ target[c] \in Ids
    BY ConnFacts DEF TypeOK, CallTypeOK
  <1>3. Distinct(Table(k, id)) /\ Table(k, id) \in Seq(Envelope)
        /\ journal[id] \in Seq(Envelope) /\ rows[k][id] \in Seq(Envelope)
    BY TableType DEF SingleVersions
  <1>4. CASE Quiet(c) \/ Upserts(c)
    BY <1>3, <1>4 DEF Quiet, Upserts, Table
  <1>5. CASE Inserts(c)
    <2>1. CASE id = target[c]
      <3> DEFINE e == NextEnvelope(c)
      <3>1. /\ Table(k, id)' = Append(Table(k, id), e) /\ e \in Envelope
            /\ \A i \in 1..Len(Table(k, id)) : Table(k, id)[i].version # e.version
        <4>1. /\ OwnTable(c)' = Append(OwnTable(c), e)
              /\ \A i \in 1..Len(OwnTable(c)) : OwnTable(c)[i].version # e.version
          BY <1>5, InsertTables DEF Frame
        <4>2. OwnTable(c) = Table(k, id) /\ OwnTable(c)' = Table(k, id)'
          BY <1>2, <2>1, ConnKept DEF OwnTable, Frame
        <4>. QED BY <1>5, <4>1, <4>2, NextEnvelopeFacts DEF Inserts
      <3> HIDE DEF e
      <3>2. Distinct(Append(Table(k, id), e))
        BY <1>3, <3>1, DistinctAppend
      <3>. QED BY <3>1, <3>2 DEF Distinct
    <2>2. CASE id # target[c]
      <3>1. journal'[id] = journal[id] /\ rows'[k][id] = rows[k][id]
        BY <1>5, <2>2, InsertTables DEF Frame
      <3>. QED BY <1>3, <3>1 DEF Table, Distinct
    <2>. QED BY <2>1, <2>2
  <1>6. CASE Commits(c)
    <2>1. journal'[id] = Table(k, id) /\ rows'[k][id] = <<>>
      BY <1>2, <1>6, CommitTables DEF Commits
    <2>2. Table(k, id)' = Table(k, id)
      <3>1. Table(k, id) \o <<>> = Table(k, id)
        BY <1>3, ConcatEmptySeq
      <3>2. Table(k, id)' = journal'[id] \o rows'[k][id]
        BY DEF Table
      <3>. QED BY <2>1, <3>1, <3>2
    <2>. QED BY <1>3, <2>2 DEF Distinct
  <1>7. CASE Rollback(c)
    <2>1. journal' = journal /\ rows'[k][id] = <<>>
      BY <1>2, <1>7, RollbackTables
    <2>2. Table(k, id)' = journal[id]
      BY <1>3, <2>1, ConcatEmptySeq DEF Table
    <2>3. Distinct(journal[id])
      BY <1>3, DistinctPrefix DEF Table
    <2>. QED BY <2>2, <2>3 DEF Distinct
  <1>. QED BY <1>4, <1>5, <1>6, <1>7 DEF Effect

-----------------------------------------------------------------------------
(* While calls do not contend. *)

(* An INSERT that is let in goes to the end of what its connection sees;   *)
(* with a pool no other connection has a row there, since the first of its *)
(* rows would be of the version that this one waits for.                   *)
LEMMA InsertGoesToTheEnd ==
  ASSUME IInv, Calm, NEW c \in Calls, Frame(c), Inserts(c)
  PROVE  /\ Len(OwnTable(c)) = ver[c] + sent[c]
         /\ NextEnvelope(c).version = Len(OwnTable(c)) + 1
         /\ txn[Conn(c)] = "open"
         /\ \A k \in Connections : k # Conn(c) => rows[k][target[c]] = <<>>
  <1> DEFINE t == target[c]
             e == NextEnvelope(c)
             own == Conn(c)
             T == OwnTable(c)
  <1>1. /\ TypeOK /\ BatchInv(c) /\ NoneIsEmpty /\ CallInv(c) /\ OneWriter
        /\ \A k \in Connections, id \in Ids : TableInv(k, id)
    BY DEF IInv, CalmInv
  <1>2. /\ t \in Ids /\ own \in Connections /\ ver[c] \in Nat /\ sent[c] \in Nat
        /\ pc[c] = "save_events" /\ batch[c] # <<>>
    BY <1>1, ConnFacts DEF TypeOK, CallTypeOK, Inserts, BatchInv
  <1>3. /\ T \in Seq(Envelope) /\ Len(T) \in Nat /\ Contiguous(T)
        /\ T = Table(own, t)
    BY <1>1, <1>2, TableType DEF OwnTable, TableInv
  <1>4. /\ ver[c] <= Len(T) /\ txn[own] = "open"
        /\ sent[c] > 0 => Len(T) = ver[c] + sent[c]
    BY <1>1, <1>2 DEF CallInv, Holding, InSession
  <1>5. /\ e \in Envelope /\ e.version = ver[c] + sent[c] + 1
    BY <1>1, <1>2, NextEnvelopeFacts
  <1>6. \A i \in 1..Len(T) : T[i].version # e.version
    BY <1>1, InsertTables DEF Frame
  <1> HIDE DEF T, e, t, own
  <1>7. Len(T) = ver[c] + sent[c]
    <2>1. CASE sent[c] = 0
      <3>1. ver[c] + sent[c] + 1 = ver[c] + 1 /\ ver[c] + sent[c] = ver[c]
        BY <1>2, <2>1
      <3>2. \A i \in 1..Len(T) : T[i].version # ver[c] + 1
        BY <1>5, <1>6, <3>1
      <3>3. ver[c] = Len(T)
        BY <1>2, <1>3, <1>4, <3>2, NewVersionGoesToTheEnd
      <3>. QED BY <3>1, <3>3
    <2>2. CASE sent[c] # 0
      BY <1>2, <1>4, <2>2
    <2>. QED BY <2>1, <2>2
  <1>8. ASSUME NEW k \in Connections, k # own, rows[k][t] # <<>>
        PROVE  FALSE
    <2> DEFINE r == rows[k][t]
               j == journal[t]
    <2>1. /\ rows[own][t] = <<>>
      BY <1>1, <1>2, <1>8 DEF OneWriter
    <2>2. T = j
      BY <1>1, <1>2, <1>3, <2>1, TableType
    <2>3. /\ r \in Seq(Envelope) /\ Len(r) \in Nat /\ DOMAIN r = 1..Len(r)
          /\ Len(j) \in Nat
          /\ Len(Table(k, t)) = Len(j) + Len(r)
          /\ \A i \in 1..Len(r) : Table(k, t)[Len(j) + i] = r[i]
          /\ DOMAIN Table(k, t) = 1..Len(Table(k, t))
          /\ Contiguous(Table(k, t))
      BY <1>1, <1>2, TableType DEF TableInv
    <2>4. Len(r) # 0
      <3> HIDE DEF r
      <3>1. r # <<>>
        BY <1>8 DEF r
      <3>. QED BY <2>3, <3>1, EmptySeq
    <2> HIDE DEF r, j
    <2>5. 1 \in 1..Len(r) /\ Len(j) + 1 \in 1..Len(Table(k, t))
      BY <2>3, <2>4
    <2>6. r[1].version = Len(j) + 1
      BY <2>3, <2>5 DEF Contiguous
    <2>7. e.version = Len(j) + 1
      BY <1>5, <1>7, <2>2
    <2>8. HasVersion(r, e.version)
      BY <2>3, <2>5, <2>6, <2>7 DEF HasVersion
    <2>9. k \in Others(c)
      BY <1>8 DEF Others, own
    <2>. QED BY <2>8, <2>9 DEF Inserts, r, e, t
  <1>9. e.version = Len(T) + 1
    BY <1>5, <1>7
  <1>. QED BY <1>4, <1>7, <1>8, <1>9 DEF t, e, own, T

(* A journal only grows at its end.                                        *)
LEMMA JournalExtends ==
  ASSUME IInv, Calm, NEW c \in Calls, Frame(c), Effect(c), NEW id \in Ids
  PROVE  \E e \in Seq(Envelope) : journal'[id] = journal[id] \o e
  <1>1. TypeOK /\ BatchInv(c) /\ NoneIsEmpty /\ Conn(c) \in Connections
    BY ConnFacts DEF IInv
  <1>2. journal[id] \in Seq(Envelope) /\ rows[Conn(c)][id] \in Seq(Envelope)
    BY <1>1, TableType
  <1>3. ASSUME journal'[id] = journal[id]
        PROVE  \E e \in Seq(Envelope) : journal'[id] = journal[id] \o e
    <2>1. <<>> \in Seq(Envelope) /\ journal[id] \o <<>> = journal[id]
      BY <1>2, EmptySeq, ConcatEmptySeq
    <2>. QED BY <1>3, <2>1
  <1>4. CASE Quiet(c) \/ Upserts(c) \/ Rollback(c)
    BY <1>3, <1>4 DEF Quiet, Upserts, Rollback, store
  <1>5. CASE Inserts(c)
    <2>1. txn[Conn(c)] = "open"
      BY <1>5, InsertGoesToTheEnd
    <2>2. journal' = journal
      BY <1>1, <1>5, <2>1, InsertTables DEF Frame
    <2>. QED BY <1>3, <2>2
  <1>6. CASE Commits(c)
    <2>1. journal'[id] = journal[id] \o rows[Conn(c)][id]
      BY <1>1, <1>6, CommitTables DEF Commits, Table
    <2>. QED BY <1>2, <2>1
  <1>. QED BY <1>4, <1>5, <1>6 DEF Effect

(* What is in a journal stays at its place.                                *)
LEMMA BatchStays ==
  ASSUME IInv, Calm, NEW c \in Calls, Frame(c), Effect(c),
         NEW d \in Calls, ver'[d] = ver[d], batch'[d] = batch[d],
         BatchInJournal(d)
  PROVE  BatchInJournal(d)'
  <1> DEFINE t == target[d]
  <1>1. /\ t \in Ids /\ ver[d] \in Nat /\ batch[d] \in State
        /\ journal[t] \in Seq(Envelope) /\ target' = target
    BY DEF IInv, TypeOK, CallTypeOK, StoreTypeOK, Frame
  <1>2. PICK e \in Seq(Envelope) : journal'[t] = journal[t] \o e
    BY <1>1, JournalExtends
  <1>3. /\ Len(journal'[t]) = Len(journal[t]) + Len(e)
        /\ \A i \in 1..Len(journal[t]) : journal'[t][i] = journal[t][i]
    <2> DEFINE j == journal[t]
    <2>1. j \in Seq(Envelope) /\ journal'[t] = j \o e
      BY <1>1, <1>2
    <2> HIDE DEF j
    <2>2. Len(j \o e) = Len(j) + Len(e) /\ \A i \in 1..Len(j) : (j \o e)[i] = j[i]
      BY ONLY <2>1, e \in Seq(Envelope), AppendPlaces
    <2>. QED BY <2>1, <2>2 DEF j
  <1>4. Len(e) \in Nat /\ Len(journal[t]) \in Nat
        /\ DOMAIN batch[d] = 1..Len(batch[d]) /\ Len(batch[d]) \in Nat
    BY <1>1, LenProperties DEF State
  <1>5. ASSUME NEW i \in DOMAIN batch[d]
        PROVE  /\ ver[d] + i <= Len(journal'[t])
               /\ journal'[t][ver[d] + i].event = batch[d][i]
    <2>1. /\ ver[d] + i <= Len(journal[t])
          /\ journal[t][ver[d] + i].event = batch[d][i]
      BY <1>5 DEF BatchInJournal
    <2>2. ver[d] + i \in 1..Len(journal[t])
      BY <1>1, <1>4, <1>5, <2>1
    <2>3. ver[d] + i <= Len(journal'[t])
      BY <1>1, <1>3, <1>4, <1>5, <2>1
    <2>. QED BY <1>3, <2>1, <2>2, <2>3
  <1>. QED BY <1>1, <1>5 DEF BatchInJournal

(* The versions a connection sees stay 1, 2, 3, ..., a draft stays a       *)
(* replay of them, and so does a snapshot, of what is committed.           *)
LEMMA TablesKept ==
  ASSUME IInv, Calm, NEW c \in Calls, Frame(c), Effect(c),
         NEW k \in Connections, NEW id \in Ids
  PROVE  TableInv(k, id)'
  <1> DEFINE own == Conn(c)
             t == target[c]
             T == Table(k, id)
             draft == drafts[k][id]
  <1>1. /\ TypeOK /\ BatchInv(c) /\ NoneIsEmpty /\ CallInv(c) /\ OneWriter
        /\ TableInv(k, id) /\ TableInv(own, id)
        /\ own \in Connections /\ t \in Ids
    BY ConnFacts DEF IInv, CalmInv, TypeOK, CallTypeOK
  <1>2. /\ T \in Seq(Envelope) /\ Contiguous(T)
        /\ draft # NoSnapshot => draft \in Snapshot /\ IsReplay(draft, T)
    BY <1>1, TableType DEF TableInv
  <1>3. SUFFICES /\ Contiguous(Table(k, id)')
                 /\ drafts'[k][id] # NoSnapshot =>
                      IsReplay(drafts'[k][id], Table(k, id)')
    BY DEF TableInv, Contiguous, IsReplay
  <1>4. Table(k, id)' = journal'[id] \o rows'[k][id]
    BY DEF Table
  <1>5. ASSUME NEW e \in Seq(Envelope), Table(k, id)' = T \o e,
               Contiguous(T \o e), drafts'[k][id] \in {draft, NoSnapshot}
        PROVE  /\ Contiguous(Table(k, id)')
               /\ drafts'[k][id] # NoSnapshot =>
                    IsReplay(drafts'[k][id], Table(k, id)')
    BY <1>2, <1>5, IsReplayGrows
  <1>6. ASSUME Table(k, id)' = T, drafts'[k][id] \in {draft, NoSnapshot}
        PROVE  /\ Contiguous(Table(k, id)')
               /\ drafts'[k][id] # NoSnapshot =>
                    IsReplay(drafts'[k][id], Table(k, id)')
    BY <1>2, <1>6
  <1>7. CASE Quiet(c)
    BY <1>6, <1>7 DEF Quiet, Table
  <1>8. CASE Inserts(c)
    <2> DEFINE e == NextEnvelope(c)
    <2>1. /\ e \in Envelope /\ e.version = Len(OwnTable(c)) + 1
          /\ txn[own] = "open"
      BY <1>1, <1>8, NextEnvelopeFacts, InsertGoesToTheEnd DEF Inserts
    <2>2. /\ OwnTable(c)' = Append(OwnTable(c), e)
          /\ journal' = journal /\ drafts' = drafts
          /\ k # own \/ id # t => rows'[k][id] = rows[k][id]
      BY <1>1, <1>8, <2>1, InsertTables DEF Frame
    <2>3. CASE k = own /\ id = t
      <3>1. OwnTable(c) = T /\ OwnTable(c)' = Table(k, id)'
        BY <2>3, ConnKept DEF OwnTable, Frame
      <3> HIDE DEF e, T
      <3>2. /\ Append(T, e) = T \o <<e>> /\ <<e>> \in Seq(Envelope)
            /\ Len(<<e>>) = 1 /\ <<e>>[1] = e
        BY <1>2, <2>1, AppendOne
      <3>3. \A i \in 1..Len(<<e>>) : <<e>>[i].version = Len(T) + i
        BY <2>1, <3>1, <3>2
      <3>4. Contiguous(T \o <<e>>)
        BY <1>2, <3>2, <3>3, ContiguousAppend
      <3>. QED BY <1>5, <2>2, <3>1, <3>2, <3>4
    <2>4. CASE k # own \/ id # t
      BY <1>4, <1>6, <2>2, <2>4 DEF Table
    <2>. QED BY <2>3, <2>4
  <1>9. CASE Upserts(c)
    <2>1. txn[own] = "open" /\ pc[c] = "save_snapshot"
      BY <1>1, <1>9 DEF CallInv, InSession, Upserts
    <2>2. /\ drafts' = [drafts EXCEPT ![own][t] = NewSnapshot(c)]
          /\ journal' = journal /\ rows' = rows
      BY <1>9, <2>1 DEF Upserts, WriteSnapshot
    <2>3. Table(k, id)' = T
      BY <2>2 DEF Table
    <2>4. CASE k = own /\ id = t
      <3>1. drafts'[k][id] = NewSnapshot(c)
        BY <1>1, <2>2, <2>4 DEF TypeOK
      <3>2. OwnTable(c) = T
        BY <2>4 DEF OwnTable
      <3>3. /\ ver[c] \in Nat /\ batch[c] \in State /\ sent[c] = Len(batch[c])
            /\ Len(batch[c]) \in Nat /\ Len(T) \in Nat
            /\ ver[c] <= Len(T) /\ agg[c] = Replay(T, ver[c]) \o batch[c]
            /\ sent[c] > 0 => Len(T) = ver[c] + sent[c]
            /\ \A i \in 1..sent[c] : T[ver[c] + i].event = batch[c][i]
        BY <1>1, <1>2, <2>1, <3>2, LenProperties
        DEF TypeOK, CallTypeOK, BatchInv, CallInv, Holding, InSession, State
      <3>4. ver[c] + Len(batch[c]) <= Len(T)
        BY <3>3
      <3> HIDE DEF T
      <3>5. agg[c] = Replay(T, ver[c] + Len(batch[c]))
        BY <1>2, <3>3, <3>4, ReplayExtends
      <3>6. IsReplay(NewSnapshot(c), T)
        BY <1>1, <3>4, <3>5, NewSnapshotType DEF IsReplay, TypeOK
      <3>. QED BY <1>2, <2>3, <3>1, <3>6
    <2>5. CASE k # own \/ id # t
      <3>1. drafts'[k][id] = draft
        BY <1>1, <2>2, <2>5 DEF TypeOK
      <3>. QED BY <1>6, <2>3, <3>1
    <2>. QED BY <2>4, <2>5
  <1>10. CASE Commits(c)
    <2>1. /\ journal'[id] = Table(own, id)
          /\ k = own => rows'[k][id] = <<>> /\ drafts'[k][id] = NoSnapshot
          /\ k # own => rows'[k][id] = rows[k][id] /\ drafts'[k][id] = draft
      BY <1>1, <1>10, CommitTables DEF Commits
    <2>2. CASE k = own
      BY <1>2, <1>4, <1>6, <2>1, <2>2, ConcatEmptySeq
    <2>3. CASE k # own
      <3>1. CASE rows[own][id] = <<>>
        <4>1. Table(own, id) = journal[id]
          BY <1>1, <3>1, TableType
        <4>. QED BY <1>4, <1>6, <2>1, <2>3, <4>1 DEF Table
      <3>2. CASE rows[own][id] # <<>>
        <4>1. rows[k][id] = <<>>
          BY <1>1, <2>3, <3>2 DEF OneWriter
        <4>2. /\ T = journal[id] /\ rows[own][id] \in Seq(Envelope)
              /\ Table(own, id) \in Seq(Envelope)
          BY <1>1, <4>1, TableType
        <4>3. Table(k, id)' = Table(own, id)
          BY <1>4, <2>1, <2>3, <4>1, <4>2, ConcatEmptySeq
        <4>4. Table(own, id) = T \o rows[own][id]
          BY <4>2 DEF Table
        <4>5. Contiguous(Table(own, id))
          BY <1>1 DEF TableInv
        <4> HIDE DEF T
        <4>. QED BY <1>5, <2>1, <2>3, <4>2, <4>3, <4>4, <4>5
      <3>. QED BY <3>1, <3>2
    <2>. QED BY <2>2, <2>3
  <1>11. CASE Rollback(c)
    <2>1. /\ journal' = journal
          /\ k = own => rows'[k][id] = <<>> /\ drafts'[k][id] = NoSnapshot
          /\ k # own => rows'[k][id] = rows[k][id] /\ drafts'[k][id] = draft
      BY <1>1, <1>11, RollbackTables
    <2>2. CASE k = own
      <3>1. /\ journal[id] \in Seq(Envelope) /\ rows[k][id] \in Seq(Envelope)
            /\ T = journal[id] \o rows[k][id]
        BY <1>1, TableType DEF Table
      <3>2. Contiguous(journal[id])
        BY <1>2, <3>1, ContiguousPrefix
      <3>3. Table(k, id)' = journal[id]
        BY <1>4, <2>1, <2>2, <3>1, ConcatEmptySeq
      <3>. QED BY <2>1, <2>2, <3>2, <3>3
    <2>3. CASE k # own
      BY <1>4, <1>6, <2>1, <2>3 DEF Table
    <2>. QED BY <2>2, <2>3
  <1>. QED BY <1>7, <1>8, <1>9, <1>10, <1>11 DEF Effect

LEMMA SnapshotsKept ==
  ASSUME IInv, Calm, NEW c \in Calls, Frame(c), Effect(c), NEW id \in Ids
  PROVE  SnapshotInv(id)'
  <1> DEFINE own == Conn(c)
             j == journal[id]
             s == snapshots[id]
  <1>1. /\ TypeOK /\ BatchInv(c) /\ NoneIsEmpty /\ CallInv(c)
        /\ TableInv(own, id) /\ SnapshotInv(id) /\ own \in Connections
    BY ConnFacts DEF IInv, CalmInv
  <1>2. /\ j \in Seq(Envelope) /\ s \in Snapshot \cup {NoSnapshot}
        /\ s # NoSnapshot => IsReplay(s, j)
    BY <1>1, TableType DEF SnapshotInv
  <1>3. SUFFICES snapshots'[id] # NoSnapshot => IsReplay(snapshots'[id], journal'[id])
    BY DEF SnapshotInv, IsReplay
  <1>4. PICK e \in Seq(Envelope) : journal'[id] = j \o e
    BY JournalExtends
  <1>5. ASSUME snapshots'[id] = s
        PROVE  snapshots'[id] # NoSnapshot => IsReplay(snapshots'[id], journal'[id])
    <2> HIDE DEF j, s
    <2>. QED BY <1>2, <1>4, <1>5, IsReplayGrows
  <1>6. CASE Quiet(c) \/ Inserts(c) \/ Rollback(c)
    BY <1>5, <1>6 DEF Quiet, Inserts, Rollback, store
  <1>7. CASE Upserts(c)
    <2>1. txn[own] = "open"
      BY <1>1, <1>7 DEF CallInv, InSession, Upserts
    <2>2. snapshots' = snapshots
      BY <1>7, <2>1 DEF Upserts, WriteSnapshot
    <2>. QED BY <1>5, <2>2
  <1>8. CASE Commits(c)
    <2>1. /\ journal'[id] = Table(own, id)
          /\ snapshots'[id] = IF drafts[own][id] = NoSnapshot THEN s ELSE drafts[own][id]
      BY <1>1, <1>8, CommitTables DEF Commits
    <2>2. drafts[own][id] # NoSnapshot => IsReplay(drafts[own][id], Table(own, id))
      BY <1>1 DEF TableInv
    <2>. QED BY <1>5, <2>1, <2>2
  <1>. QED BY <1>6, <1>7, <1>8 DEF Effect

LEMMA OneWriterKept ==
  ASSUME IInv, Calm, NEW c \in Calls, Frame(c), Effect(c)
  PROVE  OneWriter'
  <1>1. TypeOK /\ BatchInv(c) /\ NoneIsEmpty /\ OneWriter
    BY DEF IInv, CalmInv
  <1>2. SUFFICES ASSUME NEW k \in Connections, NEW l \in Connections, k # l,
                        NEW id \in Ids
                 PROVE  rows'[k][id] = <<>> \/ rows'[l][id] = <<>>
    BY ConnKept DEF OneWriter, Frame
  <1>3. rows[k][id] = <<>> \/ rows[l][id] = <<>>
    BY <1>1, <1>2 DEF OneWriter
  <1>4. CASE Inserts(c)
    <2>1. /\ \A m \in Connections : m # Conn(c) => rows[m][target[c]] = <<>>
          /\ \A m \in Connections :
               m # Conn(c) \/ id # target[c] => rows'[m][id] = rows[m][id]
      BY <1>1, <1>4, InsertGoesToTheEnd, InsertTables DEF Frame
    <2>. QED BY <1>2, <1>3, <2>1
  <1>5. CASE ~ Inserts(c)
    <2>1. \A m \in Connections : rows'[m][id] \in {rows[m][id], <<>>}
      BY <1>1, <1>5, CommitTables, RollbackTables
      DEF Effect, Quiet, Upserts, Commits
    <2>. QED BY <1>3, <2>1
  <1>. QED BY <1>4, <1>5

(* What a call has loaded stays under it, whatever another call does: its  *)
(* table grows, and does not once it has rows of its own.                  *)
LEMMA OwnTableStays ==
  ASSUME IInv, Calm, NEW c \in Calls, Frame(c), Effect(c), KeepsTurn(c),
         NEW d \in Calls, d # c, Holding(d)
  PROVE  /\ \E e \in Seq(Envelope) : OwnTable(d)' = OwnTable(d) \o e
         /\ InSession(d) /\ sent[d] > 0 => OwnTable(d)' = OwnTable(d)
         /\ txn'[Conn(d)] = txn[Conn(d)]
  <1> DEFINE t == target[d]
             k == Conn(d)
  <1>1. /\ TypeOK /\ BatchInv(c) /\ NoneIsEmpty /\ OneWriter /\ InTurn
        /\ t \in Ids /\ k \in Connections /\ use \in {"pool", "in_turn", "contended"}
    BY ConnFacts, UsesAssumption DEF IInv, CalmInv, TypeOK, CallTypeOK
  <1>2. /\ OwnTable(d) = journal[t] \o rows[k][t]
        /\ OwnTable(d)' = journal'[t] \o rows'[k][t]
    BY ConnKept DEF OwnTable, Table, Frame
  <1>3. /\ journal[t] \in Seq(Envelope) /\ rows[k][t] \in Seq(Envelope)
        /\ OwnTable(d) \in Seq(Envelope)
    BY <1>1, TableType DEF OwnTable
  <1>4. ASSUME OwnTable(d)' = OwnTable(d)
        PROVE  \E e \in Seq(Envelope) : OwnTable(d)' = OwnTable(d) \o e
    <2>1. <<>> \in Seq(Envelope) /\ OwnTable(d) \o <<>> = OwnTable(d)
      BY <1>3, EmptySeq, ConcatEmptySeq
    <2>. QED BY <1>4, <2>1
  <1>5. CASE use = "in_turn"
    <2>1. Active(d)
      BY DEF Holding, InSession, Active
    <2>2. UNCHANGED <<store, txn, rows, drafts, sent>>
      BY <1>1, <1>5, <2>1 DEF KeepsTurn, InTurn
    <2>3. OwnTable(d)' = OwnTable(d)
      BY <1>2, <2>2 DEF store
    <2>. QED BY <1>4, <2>2, <2>3
  <1>6. CASE use = "pool"
    <2>1. k = d /\ Conn(c) = c /\ PoolInv(d)
      BY <1>6, ConnFacts DEF IInv, WholeInv
    <2>2. txn'[k] = txn[k]
      BY <1>1, <2>1 DEF Frame
    <2>3. rows'[k][t] = rows[k][t]
      BY <1>1, <2>1, InsertTables, CommitTables, RollbackTables
      DEF Effect, Quiet, Upserts, Commits, Frame
    <2>4. CASE Commits(c) /\ rows[c][t] # <<>>
      <3>1. rows[k][t] = <<>>
        BY <1>1, <1>6, <2>1, <2>4, ConnFacts DEF OneWriter
      <3>2. journal'[t] = journal[t] \o rows[c][t] /\ rows[c][t] \in Seq(Envelope)
        <4>1. c \in Connections
          BY <1>6, ConnFacts
        <4>2. journal'[t] = Table(c, t)
          BY <1>1, <2>1, <2>4, CommitTables DEF Commits
        <4>. QED BY <1>1, <4>1, <4>2, TableType DEF Table
      <3>3. OwnTable(d)' = OwnTable(d) \o rows[c][t]
        <4>1. OwnTable(d) = journal[t]
          BY <1>2, <1>3, <3>1, ConcatEmptySeq
        <4>2. journal[t] \o rows[c][t] \in Seq(Envelope)
          BY <1>3, <3>2, ConcatProperties
        <4>3. OwnTable(d)' = journal[t] \o rows[c][t]
          BY <1>2, <2>3, <3>1, <3>2, <4>2, ConcatEmptySeq
        <4>. QED BY <4>1, <4>3
      <3>4. ~ (InSession(d) /\ sent[d] > 0)
        BY <2>1, <3>1 DEF PoolInv
      <3>. QED BY <2>2, <3>2, <3>3, <3>4
    <2>5. CASE ~ (Commits(c) /\ rows[c][t] # <<>>)
      <3>1. journal'[t] = journal[t]
        <4>1. CASE Commits(c)
          <5>1. c \in Connections /\ rows[c][t] = <<>>
            BY <1>6, <2>5, <4>1, ConnFacts
          <5>2. journal'[t] = Table(c, t)
            BY <1>1, <2>1, <4>1, CommitTables DEF Commits
          <5>. QED BY <1>1, <5>1, <5>2, TableType
        <4>2. CASE Inserts(c)
          BY <1>1, <4>2, InsertGoesToTheEnd, InsertTables DEF Frame
        <4>3. CASE Quiet(c) \/ Upserts(c) \/ Rollback(c)
          BY <4>3 DEF Quiet, Upserts, Rollback, store
        <4>. QED BY <4>1, <4>2, <4>3 DEF Effect
      <3>2. OwnTable(d)' = OwnTable(d)
        BY <1>2, <2>3, <3>1
      <3>. QED BY <1>4, <2>2, <3>2
    <2>. QED BY <2>4, <2>5
  <1>. QED BY <1>1, <1>5, <1>6 DEF Calm

LEMMA OtherCallsKept ==
  ASSUME IInv, Calm, NEW c \in Calls, Frame(c), Effect(c), KeepsTurn(c),
         NEW d \in Calls, d # c
  PROVE  CallInv(d)'
  <1> DEFINE T == OwnTable(d)
             S == OwnTable(d)'
  <1>1. /\ TypeOK /\ CallInv(d) /\ SameCall(d) /\ sent'[d] = sent[d]
        /\ target' = target /\ Conn(d)' = Conn(d)
    BY ConnKept DEF IInv, CalmInv, Frame
  <1>2. /\ T \in Seq(Envelope) /\ Len(T) \in Nat
        /\ ver[d] \in Nat /\ sent[d] \in Nat
    <2>1. Conn(d) \in Connections /\ target[d] \in Ids
      BY <1>1, ConnFacts DEF TypeOK, CallTypeOK
    <2>2. T \in Seq(Envelope) /\ Len(T) \in Nat
      BY <1>1, <2>1, TableType DEF OwnTable
    <2>3. ver[d] \in Nat /\ sent[d] \in 0..MaxEvents
      BY <1>1 DEF TypeOK, CallTypeOK
    <2>. QED BY <2>2, <2>3, MaxEventsAssumption
  <1>3. Holding(d) => /\ ver[d] <= Len(S)
                      /\ agg[d] = Replay(S, ver[d]) \o batch[d]
    <2>1. SUFFICES ASSUME Holding(d)
                   PROVE  /\ ver[d] <= Len(S)
                          /\ agg[d] = Replay(S, ver[d]) \o batch[d]
      OBVIOUS
    <2>2. ver[d] <= Len(T) /\ agg[d] = Replay(T, ver[d]) \o batch[d]
      BY <1>1, <2>1 DEF CallInv
    <2>3. PICK e \in Seq(Envelope) : S = T \o e
      BY <2>1, OwnTableStays
    <2>4. ver[d] \in 0..Len(T)
      BY <1>2, <2>2
    <2> HIDE DEF T, S
    <2>5. Replay(T \o e, ver[d]) = Replay(T, ver[d])
      BY <1>2, <2>4, ReplayOfPrefix
    <2>6. Len(T \o e) = Len(T) + Len(e) /\ Len(e) \in Nat
      BY <1>2, ConcatProperties, LenProperties
    <2>. QED BY <1>2, <2>2, <2>3, <2>5, <2>6
  <1>4. InSession(d) =>
          /\ txn'[Conn(d)] = "open"
          /\ sent[d] > 0 => Len(S) = ver[d] + sent[d]
          /\ \A i \in 1..sent[d] : S[ver[d] + i].event = batch[d][i]
    <2>1. SUFFICES ASSUME InSession(d)
                   PROVE  /\ txn'[Conn(d)] = "open"
                          /\ sent[d] > 0 => Len(S) = ver[d] + sent[d]
                          /\ \A i \in 1..sent[d] : S[ver[d] + i].event = batch[d][i]
      OBVIOUS
    <2>2. Holding(d)
      BY <2>1 DEF Holding
    <2>3. txn'[Conn(d)] = txn[Conn(d)] /\ (sent[d] > 0 => S = T)
      BY <2>1, <2>2, OwnTableStays
    <2>4. /\ txn[Conn(d)] = "open"
          /\ sent[d] > 0 => Len(T) = ver[d] + sent[d]
          /\ \A i \in 1..sent[d] : T[ver[d] + i].event = batch[d][i]
      BY <1>1, <2>1 DEF CallInv
    <2>5. sent[d] = 0 \/ sent[d] > 0
      BY <1>2
    <2> HIDE DEF T, S
    <2>. QED BY <2>3, <2>4, <2>5
  <1>5. pc[d] = "dispatch" \/ Answered(d, "ok") => BatchInJournal(d)'
    BY <1>1, BatchStays DEF CallInv, SameCall
  <1>. QED BY <1>1, <1>3, <1>4, <1>5
       DEF CallInv, SameCall, Holding, InSession, Answered

(* With a pool, a commit has the rows of its own call and no other.        *)
LEMMA OthersAbsent ==
  ASSUME IInv, use = "pool", NEW c \in Calls, Frame(c), Effect(c),
         NEW d \in Calls, d # c, NoEventsOf(d)
  PROVE  NoEventsOf(d)'
  <1>1. /\ TypeOK /\ BatchInv(c) /\ NoneIsEmpty /\ PoolInv(c) /\ Calm
        /\ Conn(c) = c /\ Connections = Calls /\ target[c] \in Ids
    BY ConnFacts DEF IInv, WholeInv, Calm, TypeOK, CallTypeOK
  <1>2. CASE Commits(c)
    <2>1. SUFFICES ASSUME NEW id \in Ids, NEW i \in DOMAIN journal'[id]
                   PROVE  journal'[id][i].event[1] # d
      BY DEF NoEventsOf
    <2> DEFINE j == journal[id]
               r == rows[c][id]
               n == Len(j)
               m == Len(r)
               T == Table(c, id)
    <2>2. /\ journal'[id] = T
          /\ n \in Nat /\ m \in Nat /\ Len(T) = n + m
          /\ \A p \in 1..n : T[p] = j[p]
          /\ \A p \in 1..m : T[n + p] = r[p]
          /\ DOMAIN j = 1..n /\ DOMAIN r = 1..m /\ DOMAIN T = 1..Len(T)
      <3>1. journal'[id] = Table(c, id)
        BY <1>1, <1>2, CommitTables DEF Commits
      <3>2. c \in Connections
        BY <1>1
      <3>. QED BY <1>1, <3>1, <3>2, TableType
    <2>3. /\ \A p \in DOMAIN j : j[p].event[1] # d
          /\ r # <<>> => \A p \in DOMAIN r : r[p].event[1] = c
      BY <1>1 DEF PoolInv, NoEventsOf
    <2>4. r = <<>> => m = 0
      OBVIOUS
    <2> HIDE DEF j, r, n, m, T
    <2>5. i \in 1..n \/ (i - n \in 1..m /\ n + (i - n) = i)
      BY ONLY <2>1, <2>2
    <2>6. CASE i \in 1..n
      BY <2>2, <2>3, <2>6
    <2>7. CASE i - n \in 1..m /\ n + (i - n) = i
      <3>1. T[n + (i - n)] = r[i - n] /\ i - n \in DOMAIN r
        BY <2>2, <2>7
      <3>2. r # <<>>
        BY ONLY <2>2, <2>4, <2>7
      <3>3. r[i - n].event[1] = c
        BY <2>3, <3>1, <3>2
      <3>. QED BY <2>2, <2>7, <3>1, <3>3
    <2>. QED BY <2>5, <2>6, <2>7
  <1>3. CASE ~ Commits(c)
    <2>1. Inserts(c) => journal' = journal
      BY <1>1, InsertGoesToTheEnd, InsertTables DEF Frame
    <2>2. journal' = journal
      BY <1>3, <2>1 DEF Effect, Quiet, Upserts, Rollback, store
    <2>. QED BY <2>2 DEF NoEventsOf
  <1>. QED BY <1>2, <1>3

LEMMA OtherPoolsKept ==
  ASSUME IInv, use = "pool", NEW c \in Calls, Frame(c), Effect(c),
         NEW d \in Calls, d # c
  PROVE  PoolInv(d)'
  <1>1. /\ TypeOK /\ BatchInv(c) /\ NoneIsEmpty /\ PoolInv(d) /\ Calm
        /\ Conn(c) = c /\ Conn(d) = d /\ Connections = Calls /\ target[d] \in Ids
        /\ SameCall(d) /\ sent'[d] = sent[d] /\ target' = target
    BY ConnFacts DEF IInv, WholeInv, Calm, TypeOK, CallTypeOK, Frame
  <1>2. /\ \A id \in Ids : rows'[d][id] = rows[d][id]
        /\ drafts'[d][target[d]] = drafts[d][target[d]]
    <2>1. CASE Upserts(c)
      <3>1. rows' = rows /\ (drafts' = drafts \/
              drafts' = [drafts EXCEPT ![c][target[c]] = NewSnapshot(c)])
        BY <1>1, <2>1 DEF Upserts, WriteSnapshot
      <3>. QED BY <1>1, <3>1 DEF TypeOK
    <2>2. CASE ~ Upserts(c)
      BY <1>1, <2>2, InsertTables, CommitTables, RollbackTables
      DEF Effect, Quiet, Commits, Frame
    <2>. QED BY <2>1, <2>2
  <1>3. NoEventsOf(d)' \/ BatchInJournal(d)'
    BY <1>1, BatchStays, OthersAbsent DEF PoolInv, SameCall
  <1>. QED BY <1>1, <1>2, <1>3 DEF PoolInv, SameCall, InSession

(* With a pool, no commit leaves events without a snapshot.                *)
LEMMA SnapshotWithEvents ==
  ASSUME IInv, use = "pool", NEW c \in Calls, Frame(c), Effect(c),
         NEW id \in Ids, snapshots'[id] = NoSnapshot
  PROVE  journal'[id] = <<>>
  <1>1. /\ TypeOK /\ BatchInv(c) /\ NoneIsEmpty /\ PoolInv(c) /\ CallInv(c) /\ Calm
        /\ Conn(c) = c /\ c \in Connections /\ target[c] \in Ids
        /\ snapshots[id] = NoSnapshot => journal[id] = <<>>
    BY ConnFacts DEF IInv, WholeInv, CalmInv, Calm, TypeOK, CallTypeOK
  <1>2. CASE Commits(c)
    <2>1. /\ journal'[id] = Table(c, id) /\ pc[c] = "close"
          /\ snapshots'[id] = IF drafts[c][id] = NoSnapshot THEN snapshots[id]
                                                            ELSE drafts[c][id]
      BY <1>1, <1>2, CommitTables DEF Commits
    <2>2. drafts[c][id] = NoSnapshot /\ snapshots[id] = NoSnapshot
      BY <2>1
    <2>3. rows[c][id] = <<>>
      BY <1>1, <2>1, <2>2 DEF PoolInv
    <2>. QED BY <1>1, <2>1, <2>2, <2>3, TableType
  <1>3. CASE Upserts(c)
    <2>1. txn[c] = "open"
      BY <1>1, <1>3 DEF CallInv, InSession, Upserts
    <2>. QED BY <1>1, <1>3, <2>1 DEF Upserts, WriteSnapshot
  <1>4. CASE Inserts(c)
    BY <1>1, <1>4, InsertGoesToTheEnd, InsertTables DEF Frame
  <1>5. CASE Quiet(c) \/ Rollback(c)
    BY <1>1, <1>5 DEF Quiet, Rollback, store
  <1>. QED BY <1>2, <1>3, <1>4, <1>5 DEF Effect

-----------------------------------------------------------------------------
(* A step keeps IInv if it keeps what IInv says of the call that takes it. *)
LEMMA StepKeeps ==
  ASSUME IInv, NEW c \in Calls, Frame(c), Effect(c), KeepsTurn(c),
         CallTypeOK', found' \in [Calls -> Nat], BatchInv(c)',
         Calm => CallInv(c)',
         use = "pool" => PoolInv(c)'
  PROVE  IInv'
  <1>1. /\ TypeOK /\ BatchInv(c) /\ NoneIsEmpty /\ UnsentIsNowhere /\ InTurn
        /\ use' = use /\ (Calm' <=> Calm)
    BY DEF IInv, Frame, Calm
  <1>2. TypeOK'
    BY <1>1, TablesTyped DEF TypeOK
  <1>3. ASSUME NEW d \in Calls PROVE BatchInv(d)'
    <2>1. CASE d # c
      <3>1. BatchInv(d) /\ SameCall(d) /\ sent'[d] = sent[d]
        BY <2>1 DEF IInv, Frame
      <3>. QED BY <3>1 DEF BatchInv, SameCall, Refused
    <2>. QED BY <2>1
  <1>4. UnsentIsNowhere' /\ NoneIsEmpty'
    BY <1>1, UnsentKept, NoneIsEmptyKept
  <1>5. (~ Calm => SingleVersions)'
    BY <1>1, SingleVersionsKept DEF IInv, Calm
  <1>6. InTurn'
    <2>1. SUFFICES ASSUME use = "in_turn", NEW a \in Calls, NEW b \in Calls,
                          Active(a)', Active(b)'
                   PROVE  a = b
      BY <1>1 DEF InTurn
    <2>2. \A d \in Calls : d # c => (Active(d)' <=> Active(d))
      BY DEF Frame, SameCall, Active
    <2>. QED BY <1>1, <2>1, <2>2 DEF KeepsTurn, InTurn
  <1>7. CalmInv'
    <2>1. SUFFICES ASSUME Calm
                   PROVE  /\ \A k \in Connections, id \in Ids : TableInv(k, id)'
                          /\ \A id \in Ids : SnapshotInv(id)'
                          /\ OneWriter'
                          /\ \A d \in Calls : CallInv(d)'
      BY <1>1, ConnKept DEF CalmInv
    <2>2. ASSUME NEW d \in Calls PROVE CallInv(d)'
      BY <2>1, OtherCallsKept
    <2>. QED BY <2>1, <2>2, TablesKept, SnapshotsKept, OneWriterKept
  <1>8. WholeInv'
    <2>1. SUFFICES ASSUME use = "pool"
                   PROVE  /\ \A d \in Calls : PoolInv(d)'
                          /\ \A id \in Ids : snapshots'[id] = NoSnapshot =>
                               journal'[id] = <<>>
      BY <1>1 DEF WholeInv
    <2>2. ASSUME NEW d \in Calls PROVE PoolInv(d)'
      BY <2>1, OtherPoolsKept
    <2>. QED BY <2>1, <2>2, SnapshotWithEvents
  <1>. QED BY <1>2, <1>3, <1>4, <1>5, <1>6, <1>7, <1>8 DEF IInv

LEMMA InitIInv == Init => IInv
  <1> SUFFICES ASSUME Init PROVE IInv
    OBVIOUS
  <1> USE DEF Init, CallInit, StoreInit
  <1>1. TypeOK
    <2>1. CallTypeOK
      BY EmptyState DEF CallTypeOK, Label, Reply
    <2>2. StoreTypeOK
      BY EmptySeq DEF StoreTypeOK
    <2>3. 0 \in 0..MaxEvents
      BY MaxEventsAssumption
    <2>. QED BY <2>1, <2>2, <2>3, EmptySeq DEF TypeOK
  <1>2. ASSUME NEW c \in Calls PROVE BatchInv(c)
    <2>1. batch[c] = NewEvents(c, 0) /\ 0 \in 0..MaxEvents /\ batch[c] = <<>>
      BY MaxEventsAssumption DEF NewEvents
    <2>2. Len(batch[c]) = 0
      BY <2>1
    <2>. QED BY <2>1, <2>2 DEF BatchInv, Refused
  <1>3. \A c \in Calls : NoEventsOf(c) /\ NothingOf(c)
    BY DEF NoEventsOf, NothingOf
  <1>4. UnsentIsNowhere /\ NoneIsEmpty /\ InTurn
    BY <1>3 DEF UnsentIsNowhere, NoneIsEmpty, InTurn, Active
  <1>5. \A k \in Connections, id \in Ids : Table(k, id) = <<>>
    BY EmptySeq, ConcatEmptySeq DEF Table
  <1>6. SingleVersions
    BY <1>5 DEF SingleVersions, Distinct
  <1>7. CalmInv
    <2>1. \A k \in Connections, id \in Ids : TableInv(k, id)
      BY <1>5 DEF TableInv, Contiguous
    <2>2. /\ \A id \in Ids : SnapshotInv(id)
          /\ OneWriter
          /\ \A c \in Calls : CallInv(c)
      BY DEF SnapshotInv, OneWriter, CallInv, Holding, InSession, Answered
    <2>. QED BY <2>1, <2>2 DEF CalmInv
  <1>8. WholeInv
    <2>1. SUFFICES ASSUME use = "pool", NEW c \in Calls
                   PROVE  PoolInv(c)
      BY DEF WholeInv
    <2>2. c \in Connections /\ target[c] \in Ids
      BY <2>1, ConnFacts
    <2>. QED BY <1>3, <2>2 DEF PoolInv, InSession
  <1>. QED BY <1>1, <1>2, <1>4, <1>6, <1>7, <1>8 DEF IInv

(* The steps of a call that only read and decide: its own session has not  *)
(* begun.                                                                  *)
LEMMA LoadingKeeps ==
  ASSUME IInv, NEW c \in Calls, UNCHANGED <<store, transactions, target>>,
         \A d \in Calls : d # c => SameCall(d), KeepsTurn(c),
         CallTypeOK', BatchInv(c)', Calm => CallInv(c)',
         pc[c] \in {"fetch_snapshot", "fetch_tail", "handle"},
         ~ InSession(c)'
  PROVE  IInv'
  <1>1. TypeOK /\ BatchInv(c) /\ sent[c] = 0 /\ NoEventsOf(c)
    BY DEF IInv, BatchInv, UnsentIsNowhere, NothingOf
  <1>2. Frame(c) /\ Quiet(c)
    BY <1>1 DEF Frame, Quiet, store, transactions, TypeOK
  <1>3. found' \in [Calls -> Nat]
    BY <1>1 DEF TypeOK, transactions
  <1>4. use = "pool" => PoolInv(c)'
    <2>1. NoEventsOf(c)'
      BY <1>1 DEF NoEventsOf, store
    <2>2. pc'[c] # "close"
      BY DEF InSession
    <2>. QED BY <2>1, <2>2 DEF IInv, WholeInv, PoolInv, store, transactions
  <1>. QED BY <1>2, <1>3, <1>4, StepKeeps DEF Effect

(* The other steps of a call leave it what it holds.                       *)
Moves(c) ==
  /\ UNCHANGED <<use, kind, target, agg, ver, batch>>
  /\ \E l \in Label : pc' = [pc EXCEPT ![c] = l]
  /\ \E r \in Reply : reply' = [reply EXCEPT ![c] = r]

LEMMA MovesTyped ==
  ASSUME TypeOK, NEW c \in Calls, Moves(c)
  PROVE  CallTypeOK' /\ \A d \in Calls : d # c => SameCall(d)
  BY DEF Moves, TypeOK, CallTypeOK, SameCall

(* COMMIT brings the whole batch of a call into the journal.               *)
LEMMA CommittedBatch ==
  ASSUME IInv, Calm, NEW c \in Calls, Commits(c),
         target' = target, ver' = ver, batch' = batch
  PROVE  BatchInJournal(c)'
  <1> DEFINE t == target[c]
             T == OwnTable(c)
  <1>1. /\ TypeOK /\ BatchInv(c) /\ CallInv(c) /\ InSession(c) /\ pc[c] = "close"
        /\ t \in Ids
    BY DEF IInv, CalmInv, InSession, Commits, TypeOK, CallTypeOK
  <1>2. /\ ver[c] \in Nat /\ batch[c] \in State /\ sent[c] = Len(batch[c])
        /\ DOMAIN batch[c] = 1..Len(batch[c]) /\ Len(batch[c]) \in Nat
    BY <1>1, LenProperties DEF TypeOK, CallTypeOK, BatchInv, State
  <1>3. /\ sent[c] > 0 => Len(T) = ver[c] + sent[c]
        /\ \A i \in 1..sent[c] : T[ver[c] + i].event = batch[c][i]
    BY <1>1 DEF CallInv
  <1>4. journal'[t] = T
    BY <1>1, CommitTables DEF Commits, OwnTable
  <1> HIDE DEF T
  <1>5. ASSUME NEW i \in 1..sent[c]
        PROVE  ver[c] + i <= Len(T) /\ T[ver[c] + i].event = batch[c][i]
    <2>1. sent[c] \in Nat /\ sent[c] > 0
      BY <1>2, <1>5
    <2>2. Len(T) = ver[c] + sent[c]
      BY <1>3, <2>1
    <2>3. ver[c] + i <= ver[c] + sent[c]
      BY <1>2, <1>5, <2>1
    <2>. QED BY <1>3, <1>5, <2>2, <2>3
  <1>. QED BY <1>2, <1>4, <1>5 DEF BatchInJournal

(* What the pool says of the call that takes such a step.                  *)
LEMMA OwnPoolKept ==
  ASSUME IInv, use = "pool", NEW c \in Calls, Moves(c), Frame(c), Effect(c),
         InSession(c)' => \/ InSession(c) /\ (Quiet(c) \/ Inserts(c) \/ Upserts(c))
                          \/ Quiet(c) /\ sent[c] = 0,
         pc'[c] = "close" => Upserts(c) \/ (pc[c] = "close" /\ Quiet(c))
  PROVE  PoolInv(c)'
  <1> DEFINE t == target[c]
  <1>1. /\ TypeOK /\ BatchInv(c) /\ NoneIsEmpty /\ PoolInv(c) /\ CallInv(c) /\ Calm
        /\ Conn(c) = c /\ c \in Connections /\ t \in Ids /\ target' = target
        /\ sent[c] \in Nat
    BY ConnFacts
    DEF IInv, WholeInv, CalmInv, Calm, TypeOK, CallTypeOK, Moves, BatchInv
  <1>2. NoEventsOf(c)' \/ BatchInJournal(c)'
    <2>1. CASE Commits(c)
      BY <1>1, <2>1, CommittedBatch DEF Moves
    <2>2. CASE ~ Commits(c)
      <3>1. Inserts(c) => journal' = journal
        BY <1>1, InsertGoesToTheEnd, InsertTables DEF Frame
      <3>2. journal' = journal
        BY <2>2, <3>1 DEF Effect, Quiet, Upserts, Rollback, store
      <3>. QED BY <1>1, <3>2 DEF PoolInv, NoEventsOf, BatchInJournal, Moves
    <2>. QED BY <2>1, <2>2
  <1>3. CASE Inserts(c)
    <2> DEFINE e == NextEnvelope(c)
               r == rows[c][t]
    <2>1. /\ \A id \in Ids : id # t => rows'[c][id] = rows[c][id]
          /\ rows'[c][t] = Append(r, e) /\ drafts' = drafts
          /\ e \in Envelope /\ e.event[1] = c /\ r \in Seq(Envelope)
      <3>1. txn[c] = "open"
        BY <1>1, <1>3, InsertGoesToTheEnd
      <3>2. /\ \A id \in Ids : id # t => rows'[c][id] = rows[c][id]
            /\ rows'[c][t] = Append(r, e) /\ drafts' = drafts
        BY <1>1, <1>3, <3>1, InsertTables DEF Frame
      <3>3. e \in Envelope /\ e.event[1] = c
        BY <1>1, <1>3, NextEnvelopeFacts DEF Inserts
      <3>4. r \in Seq(Envelope)
        BY <1>1, TableType
      <3> HIDE DEF e, r
      <3>. QED BY <3>2, <3>3, <3>4
    <2>2. \A i \in DOMAIN r : r[i].event[1] = c
      BY <1>1 DEF PoolInv
    <2> HIDE DEF e, r
    <2>3. /\ Append(r, e) \in Seq(Envelope) /\ Len(Append(r, e)) = Len(r) + 1
          /\ Append(r, e)[Len(r) + 1] = e /\ Append(r, e) # <<>>
          /\ \A i \in 1..Len(r) : Append(r, e)[i] = r[i]
      BY <2>1, AppendOneProperties
    <2>4. Len(r) \in Nat /\ DOMAIN r = 1..Len(r) /\ DOMAIN Append(r, e) = 1..(Len(r) + 1)
      BY <2>1, <2>3, LenProperties
    <2>5. \A i \in 1..(Len(r) + 1) : i \in 1..Len(r) \/ i = Len(r) + 1
      BY <2>4
    <2>6. \A i \in DOMAIN Append(r, e) : Append(r, e)[i].event[1] = c
      BY <2>1, <2>2, <2>3, <2>4, <2>5
    <2>7. pc'[c] # "close"
      BY <1>3 DEF Inserts, Upserts
    <2>8. \A id \in Ids : rows'[c][id] # <<>> => id = t
      BY <1>1, <2>1 DEF PoolInv
    <2>. QED BY <1>1, <1>2, <2>1, <2>3, <2>6, <2>7, <2>8 DEF PoolInv
  <1>4. CASE Quiet(c) /\ ~ Upserts(c)
    <2>1. /\ rows' = rows /\ drafts' = drafts /\ sent' = sent
          /\ pc'[c] = "close" => pc[c] = "close"
          /\ InSession(c)' => InSession(c) \/ sent[c] = 0
      BY <1>4 DEF Quiet
    <2>2. InSession(c)' /\ sent[c] > 0 => rows[c][t] # <<>>
      BY <1>1, <2>1 DEF PoolInv
    <2>. QED BY <1>1, <1>2, <2>1, <2>2 DEF PoolInv
  <1>5. CASE Upserts(c)
    <2>1. txn[c] = "open" /\ InSession(c)
      BY <1>1, <1>5 DEF CallInv, InSession, Upserts
    <2>2. /\ rows' = rows /\ sent' = sent
          /\ drafts' = [drafts EXCEPT ![c][t] = NewSnapshot(c)]
      BY <1>1, <1>5, <2>1 DEF Upserts, WriteSnapshot
    <2>3. drafts'[c][t] # NoSnapshot
      BY <1>1, <2>2, NewSnapshotType DEF TypeOK
    <2>. QED BY <1>1, <1>2, <2>1, <2>2, <2>3 DEF PoolInv
  <1>6. CASE /\ Commits(c) \/ Rollback(c)
             /\ ~ Quiet(c) /\ ~ Upserts(c) /\ ~ Inserts(c)
    <2>1. \A id \in Ids : rows'[c][id] = <<>>
      BY <1>1, <1>6, CommitTables, RollbackTables DEF Commits
    <2>2. ~ InSession(c)'
      BY <1>6
    <2>. QED BY <1>1, <1>2, <2>1, <2>2 DEF PoolInv, InSession
  <1>. QED BY <1>3, <1>4, <1>5, <1>6 DEF Effect

(* A session that goes on without an INSERT.                               *)
LEMMA SessionGoesOn ==
  ASSUME IInv, Calm, NEW c \in Calls, Moves(c), Quiet(c) \/ Upserts(c),
         Holding(c), InSession(c) \/ sent[c] = 0,
         InSession(c)', txn'[Conn(c)] = "open"
  PROVE  CallInv(c)'
  <1>1. /\ TypeOK /\ CallInv(c) /\ target' = target /\ Conn(c)' = Conn(c)
        /\ agg' = agg /\ ver' = ver /\ batch' = batch
        /\ journal' = journal /\ rows' = rows /\ sent' = sent
    <2>1. Quiet(c) \/ Upserts(c) => journal' = journal /\ rows' = rows /\ sent' = sent
      <3>1. Upserts(c) => journal' = journal /\ rows' = rows /\ sent' = sent
        BY DEF Upserts
      <3>. QED BY <3>1 DEF Quiet
    <2>. QED BY <2>1, ConnKept DEF IInv, CalmInv, Moves
  <1>2. OwnTable(c)' = OwnTable(c)
    BY <1>1 DEF OwnTable, Table
  <1>3. /\ ver[c] <= Len(OwnTable(c))
        /\ agg[c] = Replay(OwnTable(c), ver[c]) \o batch[c]
    BY <1>1 DEF CallInv
  <1>4. /\ sent[c] > 0 => Len(OwnTable(c)) = ver[c] + sent[c]
        /\ \A i \in 1..sent[c] : OwnTable(c)[ver[c] + i].event = batch[c][i]
    <2>1. CASE InSession(c)
      BY <1>1, <2>1 DEF CallInv
    <2>2. CASE sent[c] = 0
      BY <2>2
    <2>. QED BY <2>1, <2>2
  <1>5. pc'[c] # "dispatch" /\ ~ Answered(c, "ok")'
    BY DEF InSession, Answered
  <1>6. txn'[Conn(c)'] = "open"
    BY <1>1
  <1>. QED BY <1>1, <1>2, <1>3, <1>4, <1>5, <1>6 DEF CallInv

(* A call that leaves its session, or ends without one.                    *)
LEMMA LeavingIsFine ==
  ASSUME NEW c \in Calls, pc'[c] \in {"abort", "dispatch", "done"},
         pc'[c] = "dispatch" \/ Answered(c, "ok")' => BatchInJournal(c)'
  PROVE  CallInv(c)'
  BY DEF CallInv, Holding, InSession

-----------------------------------------------------------------------------
(* The steps of load_aggregate and of the handler. *)

(* A statement sees a snapshot that is a replay of the rows it would see.  *)
LEMMA VisibleIsReplay ==
  ASSUME IInv, Calm, NEW c \in Calls, VisibleSnapshot(c) # NoSnapshot
  PROVE  IsReplay(VisibleSnapshot(c), OwnTable(c))
  <1> DEFINE k == Conn(c)
             t == target[c]
  <1>1. /\ TypeOK /\ k \in Connections /\ t \in Ids
        /\ TableInv(k, t) /\ SnapshotInv(t)
    BY ConnFacts DEF IInv, CalmInv, TypeOK, CallTypeOK
  <1>2. /\ journal[t] \in Seq(Envelope) /\ rows[k][t] \in Seq(Envelope)
        /\ snapshots[t] \in Snapshot \cup {NoSnapshot}
        /\ OwnTable(c) = journal[t] \o rows[k][t]
    BY <1>1, TableType DEF OwnTable, Table
  <1>3. CASE drafts[k][t] = NoSnapshot
    <2>1. /\ VisibleSnapshot(c) = snapshots[t] /\ snapshots[t] \in Snapshot
          /\ IsReplay(snapshots[t], journal[t])
      BY <1>1, <1>2, <1>3 DEF VisibleSnapshot, SnapshotInv
    <2>. QED BY <1>2, <2>1, IsReplayGrows
  <1>4. CASE drafts[k][t] # NoSnapshot
    BY <1>1, <1>4 DEF VisibleSnapshot, TableInv, OwnTable
  <1>. QED BY <1>3, <1>4

(* Whose turn it is to begin.                                              *)
LEMMA BeginsInTurn ==
  ASSUME NEW c \in Calls, MayBegin(c)
  PROVE  KeepsTurn(c)
  BY DEF MayBegin, KeepsTurn, Active

LEMMA FetchSnapshotKeeps ==
  ASSUME IInv, NEW c \in Calls, FetchSnapshot(c)
  PROVE  IInv'
  <1> DEFINE s == VisibleSnapshot(c)
             T == OwnTable(c)
  <1>1. /\ TypeOK /\ CallTypeOK /\ BatchInv(c) /\ pc[c] = "fetch_snapshot"
        /\ batch[c] = <<>> /\ KeepsTurn(c)
        /\ UNCHANGED <<kind, target, batch, store, transactions>>
        /\ s \in Snapshot \cup {NoSnapshot}
    <2>1. TypeOK /\ CallTypeOK /\ BatchInv(c)
      BY DEF IInv, TypeOK
    <2>2. /\ pc[c] = "fetch_snapshot" /\ MayBegin(c)
          /\ UNCHANGED <<kind, target, batch, store, transactions>>
      BY DEF FetchSnapshot, InitializeAggregate, LoadSnapshot
    <2>3. target[c] \in Ids /\ Conn(c) \in Connections
      BY <2>1, ConnFacts DEF CallTypeOK
    <2>4. s \in Snapshot \cup {NoSnapshot}
      BY <2>1, <2>3, TableType DEF VisibleSnapshot
    <2>. QED BY <2>1, <2>2, <2>4, BeginsInTurn DEF BatchInv
  <1>2. \/ /\ s = NoSnapshot
           /\ pc' = [pc EXCEPT ![c] = "handle"] /\ reply' = reply
           /\ agg' = [agg EXCEPT ![c] = <<>>] /\ ver' = [ver EXCEPT ![c] = 0]
        \/ /\ s # NoSnapshot /\ s \in Snapshot
           /\ pc' = [pc EXCEPT ![c] = "fetch_tail"] /\ reply' = reply
           /\ agg' = [agg EXCEPT ![c] = s.state]
           /\ ver' = [ver EXCEPT ![c] = s.version]
        \/ /\ pc' = [pc EXCEPT ![c] = "done"]
           /\ \E r \in {"already_exists", "not_found"} :
                reply' = [reply EXCEPT ![c] = r]
           /\ agg' = agg /\ ver' = ver
    BY <1>1 DEF FetchSnapshot, InitializeAggregate, LoadSnapshot, Goto, Answer
  <1>3. s # NoSnapshot => s.version \in Nat /\ s.state \in State
    BY <1>1 DEF Snapshot
  <1>4. Calm /\ s # NoSnapshot => s.version <= Len(T) /\ s.state = Replay(T, s.version)
    BY VisibleIsReplay DEF IsReplay
  <1>5. T \in Seq(Envelope) /\ Len(T) \in Nat
    <2>1. target[c] \in Ids /\ Conn(c) \in Connections
      BY <1>1, ConnFacts DEF CallTypeOK
    <2>. QED BY <1>1, <2>1, TableType DEF OwnTable
  <1>6. T = OwnTable(c)' /\ target'[c] = target[c]
    BY <1>1, ConnKept DEF OwnTable, Table, store, transactions
  <1> HIDE DEF s, T
  <1>7. CallTypeOK'
    <2>1. pc' \in [Calls -> Label] /\ reply' \in [Calls -> Reply]
      BY <1>1, <1>2 DEF CallTypeOK, Label, Reply
    <2>2. agg' \in [Calls -> State] /\ ver' \in [Calls -> Nat]
      <3>1. agg \in [Calls -> State] /\ ver \in [Calls -> Nat]
        BY <1>1 DEF CallTypeOK
      <3>. QED BY <1>2, <1>3, <3>1, EmptyState
    <2>. QED BY <1>1, <2>1, <2>2 DEF CallTypeOK
  <1>8. \A d \in Calls : d # c => SameCall(d)
    BY <1>1, <1>2 DEF SameCall, CallTypeOK
  <1>9. BatchInv(c)' /\ ~ InSession(c)'
    <2>1. /\ pc'[c] \in {"handle", "fetch_tail", "done"} /\ batch'[c] = batch[c]
          /\ sent'[c] = 0 /\ sent[c] = 0
      BY <1>1, <1>2 DEF CallTypeOK, BatchInv, transactions
    <2>. QED BY <1>1, <2>1 DEF BatchInv, InSession, Refused
  <1>10. Calm => CallInv(c)'
    <2>1. SUFFICES ASSUME Calm PROVE CallInv(c)'
      OBVIOUS
    <2>2. CASE pc'[c] = "done"
      <3>1. reply'[c] # "ok"
        BY <1>1, <1>2, <2>2 DEF CallTypeOK
      <3>. QED BY <2>2, <3>1 DEF CallInv, Holding, InSession, Answered
    <2>3. CASE pc'[c] = "handle"
      <3>1. ver'[c] = 0 /\ agg'[c] = <<>> /\ batch'[c] = <<>>
        BY <1>1, <1>2, <2>3 DEF CallTypeOK
      <3>2. agg'[c] = Replay(T, ver'[c]) \o batch'[c] /\ ver'[c] <= Len(T)
        BY <1>5, <3>1, EmptyState, ReplayOfNothing
      <3>. QED BY <1>6, <2>3, <3>2 DEF CallInv, Holding, InSession, Answered
    <2>4. CASE pc'[c] = "fetch_tail"
      <3>1. ver'[c] = s.version /\ agg'[c] = s.state /\ s # NoSnapshot /\ batch'[c] = <<>>
        BY <1>1, <1>2, <2>4 DEF CallTypeOK
      <3>2. agg'[c] = Replay(T, ver'[c]) \o batch'[c] /\ ver'[c] <= Len(T)
        BY <1>3, <1>4, <2>1, <3>1, EmptyState
      <3>. QED BY <1>6, <2>4, <3>2 DEF CallInv, Holding, InSession, Answered
    <2>. QED BY <1>1, <1>2, <2>2, <2>3, <2>4 DEF CallTypeOK
  <1>. QED BY <1>1, <1>7, <1>8, <1>9, <1>10, LoadingKeeps

LEMMA FetchEventsFromVersionKeeps ==
  ASSUME IInv, NEW c \in Calls, FetchEventsFromVersion(c)
  PROVE  IInv'
  <1> DEFINE T == OwnTable(c)
             tail == EventsFromVersion(ByVersion(T), ver[c])
  <1>1. /\ TypeOK /\ CallTypeOK /\ BatchInv(c) /\ pc[c] = "fetch_tail"
        /\ UNCHANGED <<kind, target, batch, reply, store, transactions>>
        /\ pc' = [pc EXCEPT ![c] = "handle"]
        /\ agg' = [agg EXCEPT ![c] = @ \o EventsOf(tail)]
        /\ ver' = [ver EXCEPT ![c] =
                     IF tail = <<>> THEN @ ELSE tail[Len(tail)].version]
    BY DEF IInv, TypeOK, FetchEventsFromVersion, LoadTail, Goto, Visible,
           OwnTable, Table
  <1>2. /\ T \in Seq(Envelope) /\ Len(T) \in Nat /\ ver[c] \in Nat
        /\ batch[c] = <<>> /\ agg[c] \in State
    <2>1. target[c] \in Ids /\ Conn(c) \in Connections
      BY <1>1, ConnFacts DEF CallTypeOK
    <2>. QED BY <1>1, <2>1, TableType DEF OwnTable, BatchInv, CallTypeOK
  <1>3. /\ tail \in Seq(Envelope)
        /\ EventsOf(tail) \in State
    <2> DEFINE s == ByVersion(T)
               v == ver[c]
    <2>1. s \in Seq(Envelope) /\ v \in Nat
      BY <1>2, ByVersionLists
    <2> HIDE DEF T, s, v
    <2>2. EventsFromVersion(s, v) \in Seq(Envelope)
      BY <2>1, EventsFromVersionType
    <2>3. tail \in Seq(Envelope)
      BY <2>2 DEF s, v
    <2> HIDE DEF tail
    <2>. QED BY <2>3, EventsOfType
  <1>4. T = OwnTable(c)' /\ target'[c] = target[c]
    BY <1>1, ConnKept DEF OwnTable, Table, store, transactions
  <1>5. Calm => agg'[c] = Replay(T, Len(T)) /\ ver'[c] = Len(T)
    <2>1. SUFFICES ASSUME Calm PROVE agg'[c] = Replay(T, Len(T)) /\ ver'[c] = Len(T)
      OBVIOUS
    <2>2. /\ ver[c] <= Len(T) /\ agg[c] = Replay(T, ver[c]) \o batch[c]
          /\ Contiguous(T)
      <3>1. CallInv(c) /\ TableInv(Conn(c), target[c])
        BY <1>1, <2>1, ConnFacts DEF IInv, CalmInv, CallTypeOK
      <3>. QED BY <1>1, <3>1 DEF CallInv, Holding, TableInv, OwnTable
    <2>3. ver[c] \in 0..Len(T)
      BY <1>2, <2>2
    <2>4. agg'[c] = agg[c] \o EventsOf(tail)
      BY <1>1 DEF CallTypeOK
    <2>5. ver'[c] = IF tail = <<>> THEN ver[c] ELSE tail[Len(tail)].version
      BY <1>1 DEF CallTypeOK
    <2> HIDE DEF T
    <2>6. tail = EventsFromVersion(T, ver[c])
      BY <1>2, <2>2, ByVersionContiguous
    <2>7. LET t == EventsFromVersion(T, ver[c]) IN
          /\ Replay(T, ver[c]) \o EventsOf(t) = Replay(T, Len(T))
          /\ (IF t = <<>> THEN ver[c] ELSE t[Len(t)].version) = Len(T)
      BY <1>2, <2>2, <2>3, LoadRebuildsReplay
    <2>8. Replay(T, ver[c]) \in State
      BY <1>2, <2>3, ReplayType
    <2>9. agg[c] = Replay(T, ver[c])
      BY <1>2, <2>2, <2>8, EmptyState
    <2> HIDE DEF tail
    <2>. QED BY <2>4, <2>5, <2>6, <2>7, <2>9
  <1> HIDE DEF tail, T
  <1>6. CallTypeOK'
    <2>0. agg \in [Calls -> State] /\ ver \in [Calls -> Nat]
      BY <1>1 DEF CallTypeOK
    <2>1. agg[c] \o EventsOf(tail) \in State
      BY <1>2, <1>3, ConcatProperties DEF State
    <2>2. (IF tail = <<>> THEN ver[c] ELSE tail[Len(tail)].version) \in Nat
      <3>1. CASE tail = <<>>
        BY <1>2, <3>1
      <3>2. CASE tail # <<>>
        <4>1. tail[Len(tail)] \in Envelope
          BY <1>3, <3>2, EmptySeq, LenProperties, ElementOfSeq
        <4>. QED BY <3>2, <4>1 DEF Envelope
      <3>. QED BY <3>1, <3>2
    <2>3. agg' \in [Calls -> State] /\ ver' \in [Calls -> Nat]
      BY <1>1, <2>0, <2>1, <2>2
    <2>4. pc' \in [Calls -> Label]
      BY <1>1 DEF CallTypeOK, Label
    <2>. QED BY <1>1, <2>3, <2>4 DEF CallTypeOK
  <1>7. \A d \in Calls : d # c => SameCall(d)
    BY <1>1 DEF SameCall, CallTypeOK
  <1>8. pc'[c] = "handle" /\ batch'[c] = <<>>
    BY <1>1, <1>2 DEF CallTypeOK
  <1>9. BatchInv(c)' /\ ~ InSession(c)' /\ KeepsTurn(c)
    BY <1>1, <1>8 DEF BatchInv, InSession, Refused, transactions, KeepsTurn, Active
  <1>10. Calm => CallInv(c)'
    <2>1. SUFFICES ASSUME Calm PROVE CallInv(c)'
      OBVIOUS
    <2>2. Len(T) \in 0..Len(T)
      BY <1>2
    <2>3. Replay(T, Len(T)) \in State
      BY <1>2, <2>2, ReplayType
    <2>4. agg'[c] = Replay(T, ver'[c]) \o batch'[c] /\ ver'[c] <= Len(T)
      BY <1>2, <1>5, <1>8, <2>1, <2>3, EmptyState
    <2>. QED BY <1>4, <1>8, <2>4 DEF CallInv, Holding, InSession, Answered
  <1>. QED BY <1>1, <1>6, <1>7, <1>9, <1>10, LoadingKeeps

LEMMA RunHandlerKeeps ==
  ASSUME IInv, NEW c \in Calls, RunHandler(c)
  PROVE  IInv'
  <1> DEFINE T == OwnTable(c)
  <1>1. /\ TypeOK /\ CallTypeOK /\ BatchInv(c) /\ pc[c] = "handle"
        /\ UNCHANGED <<kind, target, ver, store, transactions>>
        /\ batch[c] = <<>> /\ KeepsTurn(c) /\ sent[c] = 0 /\ sent'[c] = 0
    BY DEF IInv, TypeOK, RunHandler, Handle, Refuse, BatchInv, transactions,
           KeepsTurn, Active
  <1>2. /\ T \in Seq(Envelope) /\ Len(T) \in Nat /\ ver[c] \in Nat
        /\ agg[c] \in State
    <2>1. target[c] \in Ids /\ Conn(c) \in Connections
      BY <1>1, ConnFacts DEF CallTypeOK
    <2>. QED BY <1>1, <2>1, TableType DEF OwnTable, CallTypeOK
  <1>3. Calm => ver[c] <= Len(T) /\ agg[c] = Replay(T, ver[c])
    <2>1. SUFFICES ASSUME Calm PROVE ver[c] <= Len(T) /\ agg[c] = Replay(T, ver[c])
      OBVIOUS
    <2>2. ver[c] <= Len(T) /\ agg[c] = Replay(T, ver[c]) \o batch[c]
      BY <1>1, <2>1 DEF IInv, CalmInv, CallInv, Holding
    <2>3. ver[c] \in 0..Len(T)
      BY <1>2, <2>2
    <2> HIDE DEF T
    <2>4. Replay(T, ver[c]) \in State
      BY <1>2, <2>3, ReplayType
    <2>. QED BY <1>1, <2>2, <2>4, EmptyState
  <1>4. T = OwnTable(c)' /\ target'[c] = target[c]
    BY <1>1, ConnKept DEF OwnTable, Table, store, transactions
  <1> HIDE DEF T
  <1>5. CASE Handle(c)
    <2>1. PICK n \in 0..MaxEvents :
            /\ batch' = [batch EXCEPT ![c] = NewEvents(c, n)]
            /\ agg' = [agg EXCEPT ![c] = @ \o NewEvents(c, n)]
      BY <1>5 DEF Handle
    <2>2. pc' = [pc EXCEPT ![c] = "start_session"] /\ reply' = reply
      BY <1>5 DEF Handle, Goto
    <2> DEFINE new == NewEvents(c, n)
    <2>3. new \in State /\ Len(new) \in Nat
      BY NewEventsType, LenProperties DEF State
    <2>4. /\ batch'[c] = new /\ pc'[c] = "start_session"
          /\ agg'[c] = agg[c] \o new /\ ver'[c] = ver[c]
      BY <1>1, <2>1, <2>2 DEF CallTypeOK
    <2>5. BatchInv(c)'
      <3>1. \E m \in 0..MaxEvents : batch'[c] = NewEvents(c, m)
        BY <2>4
      <3> HIDE DEF new
      <3>. QED BY <1>1, <2>3, <2>4, <3>1 DEF BatchInv, Refused
    <2> HIDE DEF new
    <2>6. agg[c] \o new \in State
      BY <1>2, <2>3, ConcatProperties DEF State
    <2>7. CallTypeOK'
      <3>1. /\ agg' = [agg EXCEPT ![c] = agg[c] \o new]
            /\ batch' = [batch EXCEPT ![c] = new]
        BY <2>1 DEF new
      <3>2. agg' \in [Calls -> State] /\ batch' \in [Calls -> State]
        BY <1>1, <2>3, <2>6, <3>1 DEF CallTypeOK
      <3>3. pc' \in [Calls -> Label]
        BY <1>1, <2>2 DEF CallTypeOK, Label
      <3>. QED BY <1>1, <2>2, <3>2, <3>3 DEF CallTypeOK
    <2>8. \A d \in Calls : d # c => SameCall(d)
      BY <1>1, <2>1, <2>2 DEF SameCall, CallTypeOK
    <2>9. Calm => CallInv(c)'
      BY <1>3, <1>4, <2>4 DEF CallInv, Holding, InSession, Answered
    <2>10. ~ InSession(c)'
      BY <2>4 DEF InSession
    <2>. QED BY <1>1, <2>5, <2>7, <2>8, <2>9, <2>10, LoadingKeeps
  <1>6. CASE Refuse(c)
    <2>1. /\ pc' = [pc EXCEPT ![c] = "done"]
          /\ reply' = [reply EXCEPT ![c] = "user_error"]
          /\ UNCHANGED <<agg, batch>>
      BY <1>6 DEF Refuse, Answer
    <2>2. CallTypeOK'
      BY <1>1, <2>1 DEF CallTypeOK, Label, Reply
    <2>3. \A d \in Calls : d # c => SameCall(d)
      BY <1>1, <2>1 DEF SameCall, CallTypeOK
    <2>4. pc'[c] = "done" /\ reply'[c] = "user_error"
      BY <1>1, <2>1 DEF CallTypeOK
    <2>5. BatchInv(c)' /\ ~ InSession(c)' /\ CallInv(c)'
      BY <1>1, <2>1, <2>4
      DEF BatchInv, InSession, Refused, CallInv, Holding, Answered
    <2>. QED BY <1>1, <2>2, <2>3, <2>5, LoadingKeeps
  <1>. QED BY <1>5, <1>6 DEF RunHandler

-----------------------------------------------------------------------------
(* The steps of a session, and the ways out. *)

(* A step of Moves keeps IInv if it keeps what IInv says of its call.      *)
LEMMA MoveKeeps ==
  ASSUME IInv, NEW c \in Calls, Moves(c), Effect(c), KeepsTurn(c),
         \A d \in Calls : d # c => sent'[d] = sent[d],
         \A k \in Connections : k # Conn(c) => txn'[k] = txn[k],
         found' \in [Calls -> Nat], BatchInv(c)', Calm => CallInv(c)',
         InSession(c)' => \/ InSession(c) /\ (Quiet(c) \/ Inserts(c) \/ Upserts(c))
                          \/ Quiet(c) /\ sent[c] = 0,
         pc'[c] = "close" => Upserts(c) \/ (pc[c] = "close" /\ Quiet(c))
  PROVE  IInv'
  <1>1. CallTypeOK' /\ Frame(c)
    BY MovesTyped DEF IInv, Frame, Moves
  <1>2. use = "pool" => PoolInv(c)'
    BY <1>1, OwnPoolKept
  <1>. QED BY <1>1, <1>2, StepKeeps

(* The ways out without an "ok".                                           *)
LEMMA StopKeeps ==
  ASSUME IInv, NEW c \in Calls, Moves(c), KeepsTurn(c),
         Quiet(c) \/ Upserts(c) \/ Commits(c) \/ Rollback(c),
         \A k \in Connections : k # Conn(c) => txn'[k] = txn[k],
         found' \in [Calls -> Nat],
         pc'[c] \in {"abort", "done"}, reply'[c] # "ok",
         pc'[c] = "abort" => reply'[c] \in {"concurrency_error", "database_error"},
         reply'[c] \notin {"cancelled", "database_error"} => sent[c] = 0
  PROVE  IInv'
  <1>1. sent' = sent
    <2>1. Upserts(c) => sent' = sent
      BY DEF Upserts
    <2>2. Commits(c) \/ Rollback(c) => sent' = sent
      BY DEF Commits, CommitTransaction, Rollback, Clear
    <2>. QED BY <2>1, <2>2 DEF Quiet
  <1>2. BatchInv(c)'
    <2>1. BatchInv(c) /\ batch' = batch
      BY DEF IInv, Moves
    <2>. QED BY <1>1, <2>1 DEF BatchInv, Refused
  <1>3. CallInv(c)'
    BY LeavingIsFine DEF Answered
  <1>. QED BY <1>1, <1>2, <1>3, MoveKeeps DEF Effect, InSession

(* Every action but the first three moves its call as Moves says.          *)
LEMMA Moved ==
  ASSUME CallTypeOK, NEW c \in Calls,
         UNCHANGED <<use, kind, target, agg, ver, batch>>,
         NEW l \in Label, NEW r \in Reply,
         (pc' = pc /\ l = pc[c]) \/ pc' = [pc EXCEPT ![c] = l],
         (reply' = reply /\ r = reply[c]) \/ reply' = [reply EXCEPT ![c] = r]
  PROVE  Moves(c) /\ pc'[c] = l /\ reply'[c] = r
  <1>1. /\ pc = [pc EXCEPT ![c] = pc[c]] /\ reply = [reply EXCEPT ![c] = reply[c]]
        /\ pc \in [Calls -> Label] /\ reply \in [Calls -> Reply]
    BY DEF CallTypeOK
  <1>2. /\ pc' = [pc EXCEPT ![c] = l] /\ reply' = [reply EXCEPT ![c] = r]
    BY <1>1
  <1>. QED BY <1>1, <1>2 DEF Moves

LEMMA TypesOf ==
  ASSUME IInv, NEW c \in Calls
  PROVE  /\ TypeOK /\ CallTypeOK /\ BatchInv(c) /\ Conn(c) \in Connections
         /\ txn \in [Connections -> {"none", "open", "aborted"}]
         /\ found \in [Calls -> Nat] /\ pc[c] \in Label /\ reply[c] \in Reply
         /\ sent[c] \in Nat
  BY ConnFacts DEF IInv, TypeOK, CallTypeOK, BatchInv

LEMMA StartSessionKeeps ==
  ASSUME IInv, NEW c \in Calls, StartSession(c)
  PROVE  IInv'
  <1>1. /\ CallTypeOK /\ BatchInv(c) /\ Conn(c) \in Connections
        /\ txn \in [Connections -> {"none", "open", "aborted"}]
        /\ found \in [Calls -> Nat] /\ reply[c] \in Reply
    BY TypesOf
  <1>2. /\ pc[c] = "start_session" /\ sent[c] = 0 /\ KeepsTurn(c)
        /\ txn' = [txn EXCEPT ![Conn(c)] = "open"]
        /\ UNCHANGED <<use, kind, target, agg, ver, batch, reply>>
        /\ UNCHANGED <<journal, snapshots, rows, drafts, found, sent>>
    BY <1>1 DEF StartSession, BatchInv, KeepsTurn, Active, store
  <1>3. Moves(c) /\ pc'[c] = "lock" /\ reply'[c] = reply[c]
    BY <1>1, <1>2, Moved DEF StartSession, Goto, Label
  <1>4. /\ Quiet(c) /\ txn'[Conn(c)] = "open"
        /\ \A k \in Connections : k # Conn(c) => txn'[k] = txn[k]
    BY <1>1, <1>2 DEF Quiet
  <1>5. BatchInv(c)'
    BY <1>1, <1>2, <1>3 DEF BatchInv, Refused
  <1>6. Calm => CallInv(c)'
    BY <1>2, <1>3, <1>4, SessionGoesOn DEF Holding, InSession
  <1>. QED BY <1>1, <1>2, <1>3, <1>4, <1>5, <1>6, MoveKeeps DEF Effect

LEMMA FindLatestRowKeeps ==
  ASSUME IInv, NEW c \in Calls, FindLatestRow(c)
  PROVE  IInv'
  <1>1. /\ TypeOK /\ CallTypeOK /\ BatchInv(c) /\ Conn(c) \in Connections
        /\ txn \in [Connections -> {"none", "open", "aborted"}]
        /\ found \in [Calls -> Nat] /\ reply[c] \in Reply /\ target[c] \in Ids
    BY TypesOf DEF CallTypeOK
  <1>2. /\ pc[c] = "lock" /\ sent[c] = 0 /\ KeepsTurn(c)
        /\ UNCHANGED <<use, kind, target, agg, ver, batch, reply>>
        /\ UNCHANGED <<journal, snapshots, txn, rows, drafts, sent>>
        /\ found' = [found EXCEPT ![c] = LatestVersion(Visible(c))]
    BY <1>1 DEF FindLatestRow, BatchInv, KeepsTurn, Active, store
  <1>3. Moves(c) /\ pc'[c] = "fetch_latest" /\ reply'[c] = reply[c]
    BY <1>1, <1>2, Moved DEF FindLatestRow, Goto, Label
  <1>4. Quiet(c)
    BY <1>1, <1>2 DEF Quiet
  <1>5. found' \in [Calls -> Nat]
    <2>1. OwnTable(c) \in Seq(Envelope) /\ Visible(c) = ByVersion(OwnTable(c))
      BY <1>1, TableType DEF Visible, OwnTable, Table
    <2>2. LatestVersion(Visible(c)) \in Nat
      BY <2>1, LatestVersionOccurs
    <2>. QED BY <1>1, <1>2, <2>2
  <1>6. BatchInv(c)'
    BY <1>1, <1>2, <1>3 DEF BatchInv, Refused
  <1>7. Calm => CallInv(c)'
    <2>1. Calm => txn'[Conn(c)] = "open"
      BY <1>2 DEF IInv, CalmInv, CallInv, InSession
    <2>. QED BY <1>2, <1>3, <1>4, <2>1, SessionGoesOn DEF Holding, InSession
  <1>. QED BY <1>2, <1>3, <1>4, <1>5, <1>6, <1>7, MoveKeeps DEF Effect

LEMMA FetchLatestEventKeeps ==
  ASSUME IInv, NEW c \in Calls, FetchLatestEvent(c)
  PROVE  IInv'
  <1>1. /\ TypeOK /\ CallTypeOK /\ BatchInv(c) /\ Conn(c) \in Connections
        /\ txn \in [Connections -> {"none", "open", "aborted"}]
        /\ found \in [Calls -> Nat] /\ reply[c] \in Reply
        /\ \E n \in 0..MaxEvents : batch[c] = NewEvents(c, n)
        /\ batch[c] \in State
    BY TypesOf DEF BatchInv, CallTypeOK
  <1>2. /\ pc[c] = "fetch_latest" /\ sent[c] = 0 /\ KeepsTurn(c)
        /\ UNCHANGED <<use, kind, target, agg, ver, batch>>
        /\ UNCHANGED <<journal, snapshots, txn, rows, drafts, found, sent>>
    BY <1>1
    DEF FetchLatestEvent, CheckVersion, BatchInv, KeepsTurn, Active, store, transactions
  <1>3. Quiet(c) /\ found' \in [Calls -> Nat]
    BY <1>1, <1>2 DEF Quiet
  <1>4. CASE Goto(c, "save_events") /\ UNCHANGED reply
    <2>1. Moves(c) /\ pc'[c] = "save_events" /\ reply'[c] = reply[c]
      BY <1>1, <1>2, <1>4, Moved DEF Goto, Label
    <2>2. BatchInv(c)'
      <3>1. batch[c] # <<>> => 0 < Len(batch[c])
        BY <1>1, EmptySeq DEF State
      <3>2. 0 <= Len(batch[c])
        BY <1>1, LenProperties DEF State
      <3>. QED BY <1>1, <1>2, <2>1, <3>1, <3>2 DEF BatchInv, Refused
    <2>3. Calm => CallInv(c)'
      <3>1. Calm => txn'[Conn(c)] = "open"
        BY <1>2 DEF IInv, CalmInv, CallInv, InSession
      <3>. QED BY <1>2, <1>3, <2>1, <3>1, SessionGoesOn DEF Holding, InSession
    <2>. QED BY <1>2, <1>3, <2>1, <2>2, <2>3, MoveKeeps DEF Effect
  <1>5. CASE /\ Goto(c, "abort")
             /\ reply' = [reply EXCEPT ![c] = "concurrency_error"]
    <2>1. Moves(c) /\ pc'[c] = "abort" /\ reply'[c] = "concurrency_error"
      BY <1>1, <1>2, <1>5, Moved DEF Goto, Label, Reply
    <2>. QED BY <1>2, <1>3, <2>1, StopKeeps
  <1>. QED BY <1>4, <1>5 DEF FetchLatestEvent, CheckVersion

LEMMA FailStatementKeeps ==
  ASSUME IInv, NEW c \in Calls, FailStatement(c), Active(c),
         UNCHANGED <<use, kind, target, agg, ver, batch>>,
         UNCHANGED <<journal, snapshots, rows, drafts, sent>>,
         found' \in [Calls -> Nat]
  PROVE  IInv'
  <1>1. /\ CallTypeOK /\ Conn(c) \in Connections
        /\ txn \in [Connections -> {"none", "open", "aborted"}]
    BY TypesOf
  <1>2. Moves(c) /\ pc'[c] = "abort" /\ reply'[c] = "database_error"
    BY <1>1, Moved DEF FailStatement, Goto, Label, Reply
  <1>3. /\ Quiet(c) /\ KeepsTurn(c)
        /\ \A k \in Connections : k # Conn(c) => txn'[k] = txn[k]
    BY <1>1 DEF Quiet, FailStatement, KeepsTurn
  <1>. QED BY <1>2, <1>3, StopKeeps

(* An INSERT that is let in makes the next event of the batch the last row *)
(* of the table.                                                           *)
LEMMA InsertKeepsCall ==
  ASSUME IInv, Calm, NEW c \in Calls, Moves(c), Frame(c), Inserts(c),
         pc'[c] \in {"save_events", "save_snapshot"}
  PROVE  CallInv(c)'
  <1> DEFINE T == OwnTable(c)
             S == OwnTable(c)'
             e == NextEnvelope(c)
  <1>1. /\ TypeOK /\ BatchInv(c) /\ NoneIsEmpty /\ CallInv(c) /\ pc[c] = "save_events"
        /\ agg' = agg /\ ver' = ver /\ batch' = batch /\ Conn(c)' = Conn(c)
        /\ txn' = txn /\ batch[c] # <<>>
    BY ConnKept DEF IInv, CalmInv, Inserts, Moves
  <1>2. /\ sent[c] \in Nat /\ sent'[c] = sent[c] + 1
        /\ e \in Envelope /\ e.event = batch[c][sent[c] + 1]
    BY <1>1, NextEnvelopeFacts DEF Inserts, TypeOK
  <1>3. /\ S = Append(T, e) /\ Len(T) = ver[c] + sent[c] /\ txn[Conn(c)] = "open"
    BY <1>1, InsertTables, InsertGoesToTheEnd DEF Frame
  <1>4. /\ T \in Seq(Envelope) /\ Len(T) \in Nat /\ ver[c] \in Nat
    <2>1. target[c] \in Ids /\ Conn(c) \in Connections
      BY <1>1, ConnFacts DEF TypeOK, CallTypeOK
    <2>. QED BY <1>1, <2>1, TableType DEF OwnTable, TypeOK, CallTypeOK
  <1>5. /\ agg[c] = Replay(T, ver[c]) \o batch[c]
        /\ \A i \in 1..sent[c] : T[ver[c] + i].event = batch[c][i]
    BY <1>1 DEF CallInv, Holding, InSession
  <1> HIDE DEF T, S, e
  <1>6. /\ Len(S) = Len(T) + 1 /\ S[Len(T) + 1] = e
        /\ \A i \in 1..Len(T) : S[i] = T[i]
    BY <1>2, <1>3, <1>4, AppendOneProperties
  <1>7. /\ ver[c] <= Len(S) /\ Len(S) = ver[c] + sent'[c]
    BY <1>2, <1>3, <1>4, <1>6
  <1>8. Replay(S, ver[c]) = Replay(T, ver[c])
    <2>1. ver[c] <= Len(T)
      BY <1>2, <1>3, <1>4
    <2>2. \A i \in 1..ver[c] : i \in 1..Len(T)
      BY <1>4, <2>1
    <2>. QED BY <1>6, <2>2 DEF Replay
  <1>9. ASSUME NEW i \in 1..sent'[c]
        PROVE  S[ver[c] + i].event = batch[c][i]
    <2>1. i \in 1..sent[c] \/ i = sent[c] + 1
      BY <1>2, <1>9
    <2>2. CASE i \in 1..sent[c]
      <3>1. ver[c] + i \in 1..Len(T)
        BY <1>2, <1>3, <1>4, <2>2
      <3>. QED BY <1>5, <1>6, <2>2, <3>1
    <2>3. CASE i = sent[c] + 1
      <3>1. ver[c] + i = Len(T) + 1
        BY <1>2, <1>3, <1>4, <2>3
      <3>. QED BY <1>2, <1>6, <2>3, <3>1
    <2>. QED BY <2>1, <2>2, <2>3
  <1>10. pc'[c] # "dispatch" /\ ~ Answered(c, "ok")'
    BY DEF Answered
  <1>. QED BY <1>1, <1>3, <1>5, <1>7, <1>8, <1>9, <1>10 DEF CallInv, S

LEMMA SaveEventKeeps ==
  ASSUME IInv, NEW c \in Calls, SaveEvent(c)
  PROVE  IInv'
  <1>1. /\ TypeOK /\ CallTypeOK /\ BatchInv(c) /\ Conn(c) \in Connections
        /\ txn \in [Connections -> {"none", "open", "aborted"}]
        /\ found \in [Calls -> Nat] /\ reply[c] \in Reply
        /\ sent \in [Calls -> 0..MaxEvents] /\ sent[c] \in Nat
    BY TypesOf DEF TypeOK
  <1>2. /\ pc[c] = "save_events" /\ KeepsTurn(c) /\ Active(c)
        /\ UNCHANGED <<use, kind, target, agg, ver, batch>>
        /\ UNCHANGED <<snapshots, drafts, found>>
        /\ found' \in [Calls -> Nat]
    BY <1>1 DEF SaveEvent, KeepsTurn, Active
  <1>3. CASE /\ batch[c] = <<>> /\ Goto(c, "save_snapshot")
             /\ UNCHANGED <<reply, journal, txn, rows, sent>>
    <2>1. Moves(c) /\ pc'[c] = "save_snapshot" /\ reply'[c] = reply[c]
      BY <1>1, <1>2, <1>3, Moved DEF Goto, Label
    <2>2. Quiet(c)
      BY <1>1, <1>2, <1>3 DEF Quiet
    <2>3. BatchInv(c)' /\ sent[c] = 0
      <3>1. Len(batch[c]) = 0
        BY <1>3
      <3>2. sent[c] = 0
        BY <1>1, <3>1 DEF BatchInv
      <3>. QED BY <1>1, <1>2, <1>3, <2>1, <3>1, <3>2 DEF BatchInv, Refused
    <2>4. Calm => CallInv(c)'
      <3>1. Calm => txn'[Conn(c)] = "open"
        BY <1>2, <1>3 DEF IInv, CalmInv, CallInv, InSession
      <3>. QED BY <1>2, <2>1, <2>2, <3>1, SessionGoesOn DEF Holding, InSession
    <2>. QED BY <1>2, <1>3, <2>1, <2>2, <2>3, <2>4, MoveKeeps DEF Effect
  <1>4. CASE batch[c] # <<>> /\ InsertNext(c)
    <2>1. CASE Duplicate(c, NextEnvelope(c).version)
      <3>1. FailStatement(c) /\ UNCHANGED <<journal, rows, sent>>
        BY <1>4, <2>1 DEF InsertNext, NextEnvelope
      <3>. QED BY <1>2, <3>1, FailStatementKeeps
    <2>2. CASE ~ Duplicate(c, NextEnvelope(c).version)
      <3>1. /\ WriteRow(c, NextEnvelope(c))
            /\ \A k \in Others(c) : ~ HasVersion(rows[k][target[c]], NextEnvelope(c).version)
            /\ sent' = [sent EXCEPT ![c] = @ + 1]
            /\ IF sent[c] + 1 = Len(batch[c]) THEN Goto(c, "save_snapshot")
                                              ELSE UNCHANGED pc
            /\ UNCHANGED <<reply, txn>>
        BY <1>4, <2>2 DEF InsertNext, NextEnvelope
      <3>2. Inserts(c)
        BY <1>2, <1>4, <2>2, <3>1 DEF Inserts
      <3>3. /\ Moves(c) /\ reply'[c] = reply[c]
            /\ pc'[c] = IF sent[c] + 1 = Len(batch[c]) THEN "save_snapshot"
                                                       ELSE "save_events"
        <4>1. CASE sent[c] + 1 = Len(batch[c])
          BY <1>1, <1>2, <3>1, <4>1, Moved DEF Goto, Label
        <4>2. CASE sent[c] + 1 # Len(batch[c])
          BY <1>1, <1>2, <3>1, <4>2, Moved DEF Label
        <4>. QED BY <4>1, <4>2
      <3>4. /\ sent'[c] = sent[c] + 1
            /\ \A d \in Calls : d # c => sent'[d] = sent[d]
        BY <1>1, <3>1
      <3>5. Frame(c)
        BY <1>1, <1>2, <3>1, <3>3, <3>4, MovesTyped DEF Frame
      <3>6. BatchInv(c)'
        <4>1. sent[c] + 1 \in 1..Len(batch[c]) /\ Len(batch[c]) \in Nat
          <5>1. batch[c] \in State
            BY <1>1 DEF CallTypeOK
          <5>. QED BY <1>1, <1>2, <1>4, <5>1, NextEnvelopeFacts, LenProperties DEF State
        <4>2. sent[c] + 1 # Len(batch[c]) => sent[c] + 1 < Len(batch[c])
          BY <1>1, <4>1
        <4>. QED BY <1>1, <1>2, <3>3, <3>4, <4>1, <4>2 DEF BatchInv, Refused
      <3>7. Calm => CallInv(c)'
        BY <3>2, <3>3, <3>5, InsertKeepsCall
      <3>8. pc'[c] # "close" /\ InSession(c)
        BY <1>2, <3>3 DEF InSession
      <3>. QED BY <1>2, <3>1, <3>2, <3>3, <3>4, <3>6, <3>7, <3>8, MoveKeeps DEF Effect
    <2>. QED BY <2>1, <2>2
  <1>. QED BY <1>3, <1>4 DEF SaveEvent

LEMMA SaveSnapshotKeeps ==
  ASSUME IInv, NEW c \in Calls, SaveSnapshot(c)
  PROVE  IInv'
  <1>1. /\ CallTypeOK /\ BatchInv(c) /\ reply[c] \in Reply /\ found \in [Calls -> Nat]
    BY TypesOf
  <1>2. /\ pc[c] = "save_snapshot" /\ KeepsTurn(c)
        /\ UNCHANGED <<use, kind, target, agg, ver, batch, reply>>
        /\ UNCHANGED <<journal, txn, rows, found, sent>>
    BY DEF SaveSnapshot, KeepsTurn, Active
  <1>3. Moves(c) /\ pc'[c] = "close" /\ reply'[c] = reply[c]
    BY <1>1, <1>2, Moved DEF SaveSnapshot, Goto, Label
  <1>4. Upserts(c)
    BY <1>2 DEF SaveSnapshot, UpsertSnapshot, Upserts
  <1>5. BatchInv(c)'
    BY <1>1, <1>2, <1>3 DEF BatchInv, Refused
  <1>6. Calm => CallInv(c)'
    <2>1. Calm => txn'[Conn(c)] = "open"
      BY <1>2 DEF IInv, CalmInv, CallInv, InSession
    <2>. QED BY <1>2, <1>3, <1>4, <2>1, SessionGoesOn DEF Holding, InSession
  <1>7. InSession(c)
    BY <1>2 DEF InSession
  <1>. QED BY <1>1, <1>2, <1>3, <1>4, <1>5, <1>6, <1>7, MoveKeeps DEF Effect

(* What the end of a transaction does to the rest.                         *)
LEMMA Cleared ==
  ASSUME IInv, NEW c \in Calls, Clear(c)
  PROVE  /\ found' \in [Calls -> Nat] /\ sent' = sent /\ use' = use
         /\ \A k \in Connections : k # Conn(c) => txn'[k] = txn[k]
  <1>1. /\ found \in [Calls -> Nat] /\ Conn(c) \in Connections
        /\ txn \in [Connections -> {"none", "open", "aborted"}]
    BY TypesOf
  <1>. QED BY <1>1 DEF Clear

LEMMA EndIsEffect ==
  ASSUME IInv, NEW c \in Calls, pc[c] = "close", EndTransaction(c)
  PROVE  /\ Commits(c) \/ Rollback(c)
         /\ Calm => Commits(c)
         /\ Clear(c) /\ KeepsTurn(c)
  <1>1. Calm => txn[Conn(c)] = "open"
    BY DEF IInv, CalmInv, CallInv, InSession
  <1>. QED BY <1>1
       DEF EndTransaction, Commits, CommitTransaction, Rollback, KeepsTurn, Active

LEMMA CloseSessionKeeps ==
  ASSUME IInv, NEW c \in Calls, CloseSession(c)
  PROVE  IInv'
  <1>1. CallTypeOK /\ BatchInv(c) /\ reply[c] \in Reply
    BY TypesOf
  <1>2. /\ pc[c] = "close" /\ reply[c] = "none" /\ EndTransaction(c)
        /\ UNCHANGED <<kind, target, agg, ver, batch>>
    BY DEF CloseSession, Committed
  <1>3. /\ Commits(c) \/ Rollback(c)
        /\ Calm => Commits(c)
        /\ Clear(c) /\ KeepsTurn(c)
    BY <1>2, EndIsEffect
  <1>4. /\ found' \in [Calls -> Nat] /\ sent' = sent /\ use' = use
        /\ \A k \in Connections : k # Conn(c) => txn'[k] = txn[k]
    BY <1>3, Cleared
  <1>5. /\ Moves(c)
        /\ \/ pc'[c] = "done" /\ reply'[c] = "ok"
           \/ pc'[c] = "dispatch"
    <2>1. CASE batch[c] = <<>>
      <3>1. Answer(c, "ok")
        BY <2>1 DEF CloseSession, Committed
      <3>. QED BY <1>1, <1>2, <1>4, <3>1, Moved DEF Answer, Label, Reply
    <2>2. CASE batch[c] # <<>>
      <3>1. Goto(c, "dispatch") /\ UNCHANGED reply
        BY <2>2 DEF CloseSession, Committed
      <3>. QED BY <1>1, <1>2, <1>4, <3>1, Moved DEF Goto, Label
    <2>. QED BY <2>1, <2>2
  <1>6. BatchInv(c)'
    BY <1>1, <1>2, <1>4, <1>5 DEF BatchInv, Refused
  <1>7. Calm => CallInv(c)'
    <2>1. Calm => BatchInJournal(c)'
      BY <1>2, <1>3, CommittedBatch
    <2>. QED BY <1>5, <2>1, LeavingIsFine
  <1>8. ~ InSession(c)'
    BY <1>5 DEF InSession
  <1>9. Effect(c) /\ \A d \in Calls : d # c => sent'[d] = sent[d]
    BY <1>3, <1>4 DEF Effect
  <1>10. pc'[c] # "close"
    BY <1>5
  <1>. QED BY <1>3, <1>4, <1>5, <1>6, <1>7, <1>8, <1>9, <1>10, MoveKeeps

LEMMA CloseFailsKeeps ==
  ASSUME IInv, NEW c \in Calls, CloseFails(c)
  PROVE  IInv'
  <1>1. CallTypeOK
    BY TypesOf
  <1>2. /\ pc[c] = "close" /\ KeepsTurn(c)
        /\ UNCHANGED <<kind, target, agg, ver, batch>>
        /\ Commits(c) \/ Rollback(c)
        /\ Clear(c)
    BY DEF CloseFails, Commits, CommitTransaction, Rollback, KeepsTurn, Active
  <1>3. /\ found' \in [Calls -> Nat] /\ use' = use
        /\ \A k \in Connections : k # Conn(c) => txn'[k] = txn[k]
    BY <1>2, Cleared
  <1>4. Moves(c) /\ pc'[c] = "done" /\ reply'[c] = "database_error"
    BY <1>1, <1>2, <1>3, Moved DEF CloseFails, Answer, Label, Reply
  <1>. QED BY <1>2, <1>3, <1>4, StopKeeps

LEMMA AbortSessionKeeps ==
  ASSUME IInv, NEW c \in Calls, AbortSession(c)
  PROVE  IInv'
  <1>1. CallTypeOK /\ BatchInv(c) /\ reply[c] \in Reply
    BY TypesOf
  <1>2. /\ pc[c] = "abort" /\ KeepsTurn(c) /\ Rollback(c) /\ Clear(c)
        /\ UNCHANGED <<kind, target, agg, ver, batch, reply>>
        /\ reply[c] \in {"concurrency_error", "database_error"}
        /\ reply[c] = "concurrency_error" => sent[c] = 0
    BY <1>1 DEF AbortSession, Aborted, Rollback, KeepsTurn, Active, BatchInv
  <1>3. /\ found' \in [Calls -> Nat] /\ use' = use
        /\ \A k \in Connections : k # Conn(c) => txn'[k] = txn[k]
    BY <1>2, Cleared
  <1>4. Moves(c) /\ pc'[c] = "done" /\ reply'[c] = reply[c]
    BY <1>1, <1>2, <1>3, Moved DEF AbortSession, Aborted, Goto, Label
  <1>. QED BY <1>2, <1>3, <1>4, StopKeeps

LEMMA DispatchKeeps ==
  ASSUME IInv, NEW c \in Calls, Dispatch(c)
  PROVE  IInv'
  <1>1. /\ CallTypeOK /\ BatchInv(c) /\ found \in [Calls -> Nat]
        /\ txn \in [Connections -> {"none", "open", "aborted"}]
    BY TypesOf
  <1>2. /\ pc[c] = "dispatch" /\ KeepsTurn(c)
        /\ UNCHANGED <<use, kind, target, agg, ver, batch>>
        /\ UNCHANGED <<journal, snapshots, txn, rows, drafts, found, sent>>
    BY DEF Dispatch, Dispatched, KeepsTurn, Active, store, transactions
  <1>3. Moves(c) /\ pc'[c] = "done" /\ reply'[c] = "ok"
    BY <1>1, <1>2, Moved DEF Dispatch, Dispatched, Answer, Label, Reply
  <1>4. Quiet(c)
    BY <1>1, <1>2 DEF Quiet
  <1>5. BatchInv(c)'
    BY <1>1, <1>2, <1>3 DEF BatchInv, Refused
  <1>6. Calm => CallInv(c)'
    <2>1. Calm => BatchInJournal(c)'
      BY <1>2 DEF IInv, CalmInv, CallInv, BatchInJournal
    <2>. QED BY <1>3, <2>1, LeavingIsFine
  <1>7. ~ InSession(c)'
    BY <1>3 DEF InSession
  <1>. QED BY <1>1, <1>2, <1>3, <1>4, <1>5, <1>6, <1>7, MoveKeeps DEF Effect

LEMMA LateCloseKeeps ==
  ASSUME IInv, NEW c \in Calls, LateClose(c)
  PROVE  IInv'
  <1>1. CallTypeOK /\ reply[c] \in Reply
    BY TypesOf
  <1>2. /\ pc[c] = "close" /\ reply[c] = "cancelled" /\ KeepsTurn(c)
        /\ UNCHANGED <<kind, target, agg, ver, batch, reply>>
        /\ Commits(c) \/ Rollback(c)
        /\ Clear(c)
    BY DEF LateClose, EndTransaction, Commits, CommitTransaction, Rollback,
           KeepsTurn, Active
  <1>3. /\ found' \in [Calls -> Nat] /\ use' = use
        /\ \A k \in Connections : k # Conn(c) => txn'[k] = txn[k]
    BY <1>2, Cleared
  <1>4. Moves(c) /\ pc'[c] = "done" /\ reply'[c] = "cancelled"
    BY <1>1, <1>2, <1>3, Moved DEF LateClose, Goto, Label
  <1>. QED BY <1>2, <1>3, <1>4, StopKeeps

LEMMA RecycleKeeps ==
  ASSUME IInv, NEW c \in Calls, Recycle(c)
  PROVE  IInv'
  <1>1. CallTypeOK /\ BatchInv(c) /\ pc[c] \in Label /\ reply[c] \in Reply
    BY TypesOf
  <1>2. /\ pc[c] = "done" /\ use # "in_turn" /\ Rollback(c) /\ Clear(c)
        /\ UNCHANGED <<pc, kind, target, agg, ver, batch, reply>>
        /\ journal' = journal
    BY DEF Recycle, Rollback, Shared, callVars, store
  <1>3. /\ found' \in [Calls -> Nat] /\ sent' = sent /\ use' = use
        /\ \A k \in Connections : k # Conn(c) => txn'[k] = txn[k]
    BY <1>2, Cleared
  <1>4. Moves(c) /\ pc'[c] = "done" /\ reply'[c] = reply[c]
    BY <1>1, <1>2, <1>3, Moved
  <1>5. BatchInv(c)'
    BY <1>1, <1>2, <1>3 DEF BatchInv, Refused
  <1>6. Calm => CallInv(c)'
    <2>1. Calm /\ reply[c] = "ok" => BatchInJournal(c)'
      BY <1>2 DEF IInv, CalmInv, CallInv, BatchInJournal, Answered
    <2>. QED BY <1>4, <2>1, LeavingIsFine DEF Answered
  <1>7. ~ InSession(c)' /\ KeepsTurn(c)
    BY <1>2, <1>4 DEF InSession, KeepsTurn
  <1>. QED BY <1>2, <1>3, <1>4, <1>5, <1>6, <1>7, MoveKeeps DEF Effect

-----------------------------------------------------------------------------
(* Failed statements and dropped calls. *)

LEMMA LoadFailsKeeps ==
  ASSUME IInv, NEW c \in Calls, LoadFails(c)
  PROVE  IInv'
  <1>1. /\ CallTypeOK /\ Conn(c) \in Connections /\ found \in [Calls -> Nat]
        /\ txn \in [Connections -> {"none", "open", "aborted"}]
    BY TypesOf
  <1>2. /\ KeepsTurn(c)
        /\ txn' = [txn EXCEPT ![Conn(c)] = IF @ = "none" THEN @ ELSE "aborted"]
        /\ UNCHANGED <<use, kind, target, agg, ver, batch>>
        /\ UNCHANGED <<journal, snapshots, rows, drafts, found, sent>>
    BY BeginsInTurn DEF LoadFails, store
  <1>3. Moves(c) /\ pc'[c] = "done" /\ reply'[c] = "database_error"
    BY <1>1, <1>2, Moved DEF LoadFails, Answer, Label, Reply
  <1>4. Quiet(c) /\ \A k \in Connections : k # Conn(c) => txn'[k] = txn[k]
    BY <1>1, <1>2 DEF Quiet
  <1>. QED BY <1>1, <1>2, <1>3, <1>4, StopKeeps

LEMMA StartSessionFailsKeeps ==
  ASSUME IInv, NEW c \in Calls, StartSessionFails(c)
  PROVE  IInv'
  <1>1. /\ CallTypeOK /\ found \in [Calls -> Nat]
        /\ txn \in [Connections -> {"none", "open", "aborted"}]
    BY TypesOf
  <1>2. /\ KeepsTurn(c)
        /\ UNCHANGED <<use, kind, target, agg, ver, batch>>
        /\ UNCHANGED <<journal, snapshots, txn, rows, drafts, found, sent>>
    BY DEF StartSessionFails, KeepsTurn, Active, store, transactions
  <1>3. Moves(c) /\ pc'[c] = "done" /\ reply'[c] = "database_error"
    BY <1>1, <1>2, Moved DEF StartSessionFails, Answer, Label, Reply
  <1>4. Quiet(c)
    BY <1>1, <1>2 DEF Quiet
  <1>. QED BY <1>1, <1>2, <1>3, <1>4, StopKeeps

LEMMA SessionFailsKeeps ==
  ASSUME IInv, NEW c \in Calls, SessionFails(c)
  PROVE  IInv'
  <1>1. found \in [Calls -> Nat]
    BY TypesOf
  <1>2. found' \in [Calls -> Nat]
    BY <1>1 DEF SessionFails
  <1>3. /\ FailStatement(c) /\ Active(c)
        /\ UNCHANGED <<use, kind, target, agg, ver, batch>>
        /\ UNCHANGED <<journal, snapshots, rows, drafts, sent>>
    BY DEF SessionFails, Active, store
  <1>. QED BY <1>2, <1>3, FailStatementKeeps

LEMMA CancelKeeps ==
  ASSUME IInv, NEW c \in Calls, Cancel(c)
  PROVE  IInv'
  <1>1. /\ CallTypeOK /\ Conn(c) \in Connections /\ found \in [Calls -> Nat]
        /\ txn \in [Connections -> {"none", "open", "aborted"}]
    BY TypesOf
  <1>2. /\ pc[c] \notin {"done", "close", "abort"}
        /\ UNCHANGED <<use, kind, target, agg, ver, batch>>
        /\ UNCHANGED <<journal, rows, sent>>
        /\ txn' = [txn EXCEPT ![Conn(c)] =
                     IF pc[c] = "start_session" /\ @ = "none" THEN "open" ELSE @]
        /\ \/ UNCHANGED <<snapshots, drafts>>
           \/ pc[c] = "save_snapshot" /\ WriteSnapshot(c)
    BY DEF Cancel, Drop, UpsertSnapshot
  <1>3. found' \in [Calls -> Nat]
    BY <1>1 DEF Cancel
  <1>4. Moves(c) /\ pc'[c] = "done" /\ reply'[c] = "cancelled"
    BY <1>1, <1>2, Moved DEF Cancel, Drop, Answer, Label, Reply
  <1>5. \A k \in Connections : k # Conn(c) => txn'[k] = txn[k]
    BY <1>1, <1>2
  <1>6. Quiet(c) \/ Upserts(c)
    <2>1. CASE UNCHANGED <<snapshots, drafts>>
      BY <1>1, <1>2, <2>1 DEF Quiet
    <2>2. CASE pc[c] = "save_snapshot" /\ WriteSnapshot(c)
      <3>1. txn' = txn
        BY <1>1, <1>2, <2>2
      <3>. QED BY <1>2, <2>2, <3>1 DEF Upserts
    <2>. QED BY <1>2, <2>1, <2>2
  <1>7. KeepsTurn(c)
    <2>1. CASE pc[c] = "fetch_snapshot"
      <3>1. txn' = txn /\ UNCHANGED <<snapshots, drafts>>
        BY <1>1, <1>2, <2>1
      <3>2. ~ Active(c)'
        BY <1>4 DEF Active
      <3>. QED BY <1>2, <3>1, <3>2 DEF KeepsTurn, store
    <2>2. CASE pc[c] # "fetch_snapshot"
      BY <1>2, <2>2 DEF KeepsTurn, Active
    <2>. QED BY <2>1, <2>2
  <1>. QED BY <1>3, <1>4, <1>5, <1>6, <1>7, StopKeeps

LEMMA CancelCloseKeeps ==
  ASSUME IInv, NEW c \in Calls, CancelClose(c)
  PROVE  IInv'
  <1>1. /\ CallTypeOK /\ BatchInv(c) /\ found \in [Calls -> Nat] /\ pc[c] \in Label
        /\ txn \in [Connections -> {"none", "open", "aborted"}]
    BY TypesOf
  <1>2. /\ pc[c] = "close" /\ KeepsTurn(c) /\ pc' = pc
        /\ UNCHANGED <<use, kind, target, agg, ver, batch>>
        /\ UNCHANGED <<journal, snapshots, txn, rows, drafts, found, sent>>
    BY DEF CancelClose, KeepsTurn, Active, store, transactions
  <1>3. Moves(c) /\ pc'[c] = "close" /\ reply'[c] = "cancelled"
    BY <1>1, <1>2, Moved DEF CancelClose, Reply
  <1>4. Quiet(c) /\ InSession(c)
    BY <1>1, <1>2 DEF Quiet, InSession
  <1>5. BatchInv(c)'
    BY <1>1, <1>2, <1>3 DEF BatchInv, Refused
  <1>6. Calm => CallInv(c)'
    <2>1. Calm => txn'[Conn(c)] = "open"
      BY <1>2, <1>4 DEF IInv, CalmInv, CallInv
    <2>. QED BY <1>2, <1>3, <1>4, <2>1, SessionGoesOn DEF Holding, InSession
  <1>. QED BY <1>1, <1>2, <1>3, <1>4, <1>5, <1>6, MoveKeeps DEF Effect

LEMMA StutterKeeps ==
  ASSUME IInv, UNCHANGED vars
  PROVE  IInv'
  <1>1. /\ UNCHANGED <<use, txn, rows, drafts, found, sent, journal, snapshots>>
        /\ UNCHANGED <<pc, kind, target, agg, ver, batch, reply>>
    BY DEF vars, callVars, store, transactions
  <1>2. /\ Connections' = Connections /\ \A c \in Calls : Conn(c)' = Conn(c)
        /\ (Calm' <=> Calm)
    BY <1>1, ConnKept DEF Calm
  <1>3. TypeOK'
    BY <1>1, <1>2 DEF IInv, TypeOK, CallTypeOK, StoreTypeOK
  <1>4. \A c \in Calls : BatchInv(c)'
    BY <1>1 DEF IInv, BatchInv, Refused
  <1>5. UnsentIsNowhere' /\ NoneIsEmpty' /\ InTurn'
    <2>1. \A c \in Calls : NothingOf(c) => NothingOf(c)'
      BY <1>1, <1>2 DEF NothingOf, NoEventsOf
    <2>2. UnsentIsNowhere'
      BY <1>1, <2>1 DEF IInv, UnsentIsNowhere
    <2>. QED BY <1>1, <1>2, <2>2 DEF IInv, NoneIsEmpty, InTurn, Active
  <1>6. \A k \in Connections, id \in Ids : Table(k, id)' = Table(k, id)
    BY <1>1 DEF Table
  <1>7. (~ Calm => SingleVersions)'
    BY <1>2, <1>6 DEF IInv, SingleVersions, Distinct
  <1>8. \A c \in Calls : CallInv(c) => CallInv(c)'
    <2>1. \A c \in Calls : OwnTable(c)' = OwnTable(c)
      BY <1>1, <1>2 DEF OwnTable, Table
    <2>. QED BY <1>1, <1>2, <2>1
         DEF CallInv, Holding, InSession, Answered, BatchInJournal
  <1>9. CalmInv'
    <2>1. SUFFICES ASSUME Calm PROVE CalmInv'
      BY <1>2 DEF CalmInv
    <2>2. \A k \in Connections, id \in Ids : TableInv(k, id)'
      BY <1>1, <1>6, <2>1 DEF IInv, CalmInv, TableInv, Contiguous, IsReplay
    <2>3. (\A id \in Ids : SnapshotInv(id)') /\ OneWriter'
      BY <1>1, <1>2, <2>1 DEF IInv, CalmInv, SnapshotInv, IsReplay, OneWriter
    <2>. QED BY <1>2, <1>8, <2>1, <2>2, <2>3 DEF IInv, CalmInv
  <1>10. WholeInv'
    <2>1. \A c \in Calls : PoolInv(c) => PoolInv(c)'
      BY <1>1 DEF PoolInv, InSession, NoEventsOf, BatchInJournal
    <2>. QED BY <1>1, <2>1 DEF IInv, WholeInv
  <1>. QED BY <1>3, <1>4, <1>5, <1>7, <1>9, <1>10 DEF IInv

-----------------------------------------------------------------------------
LEMMA NextKeepsIInv == IInv /\ [Next]_vars => IInv'
  <1>1. ASSUME IInv, NEW c \in Calls, Step(c)
        PROVE  IInv'
    BY <1>1, FetchSnapshotKeeps, FetchEventsFromVersionKeeps, RunHandlerKeeps,
       StartSessionKeeps, FindLatestRowKeeps, FetchLatestEventKeeps,
       SaveEventKeeps, SaveSnapshotKeeps, CloseSessionKeeps, AbortSessionKeeps,
       DispatchKeeps, LateCloseKeeps, RecycleKeeps DEF Step
  <1>2. ASSUME IInv, NEW c \in Calls, Fault(c)
        PROVE  IInv'
    BY <1>2, LoadFailsKeeps, StartSessionFailsKeeps, SessionFailsKeeps,
       CloseFailsKeeps, CancelKeeps, CancelCloseKeeps DEF Fault
  <1>3. ASSUME IInv, UNCHANGED vars \/ Idle
        PROVE  IInv'
    BY <1>3, StutterKeeps DEF Idle
  <1>. QED BY <1>1, <1>2, <1>3 DEF Next

(* The inductive invariant holds in every state of every use of the        *)
(* connections, whatever fails and whoever is dropped.                     *)
THEOREM InvariantHolds == Spec => []IInv
  <1>1. Init => IInv
    BY InitIInv
  <1>2. IInv /\ [Next]_vars => IInv'
    BY NextKeepsIInv
  <1>. QED BY <1>1, <1>2, PTL DEF Spec


-----------------------------------------------------------------------------
(* What the invariant says of the tables and of the answers. *)

(* Without calls nothing was ever written.                                 *)
LEMMA SomeConnection ==
  ASSUME TypeOK, NEW id \in Ids, NEW i \in DOMAIN journal[id]
  PROVE  /\ journal[id][i].event[1] \in Calls
         /\ \E k \in Connections : k = Conn(journal[id][i].event[1])
  <1>1. journal[id] \in Seq(Envelope)
    BY DEF TypeOK, StoreTypeOK
  <1>2. journal[id][i] \in Envelope
    BY <1>1, ElementOfSeq, LenProperties
  <1>3. journal[id][i].event[1] \in Calls
    BY <1>2 DEF Envelope, Event
  <1>. QED BY <1>3, ConnFacts

LEMMA RefusedLeftNothing ==
  ASSUME IInv, NEW c \in Calls, Refused(c)
  PROVE  NoEventsOf(c)
  BY DEF IInv, BatchInv, UnsentIsNowhere, NothingOf

LEMMA CalmStoreIsConsistent ==
  ASSUME IInv, Calm
  PROVE  StoreConsistent
  <1>1. CallTypeOK /\ StoreTypeOK
    BY DEF IInv, TypeOK
  <1>2. VersionsContiguous
    <2> SUFFICES ASSUME NEW id \in Ids, NEW i \in DOMAIN journal[id]
                 PROVE  journal[id][i].version = i
      BY DEF VersionsContiguous, Contiguous
    <2>1. PICK k \in Connections : k = Conn(journal[id][i].event[1])
      BY SomeConnection DEF IInv
    <2>2. journal[id] \in Seq(Envelope) /\ rows[k][id] \in Seq(Envelope)
      BY TableType DEF IInv
    <2>3. Contiguous(journal[id] \o rows[k][id])
      BY DEF IInv, CalmInv, TableInv, Table
    <2>4. Contiguous(journal[id])
      BY <2>2, <2>3, ContiguousPrefix
    <2>. QED BY <2>4 DEF Contiguous
  <1>3. SnapshotIsReplay
    BY DEF IInv, CalmInv, SnapshotInv, IsReplay, SnapshotIsReplay
  <1>4. AnswersAreTrue
    BY RefusedLeftNothing DEF IInv, CalmInv, CallInv, AnswersAreTrue
  <1>. QED BY <1>1, <1>2, <1>3, <1>4 DEF StoreConsistent

LEMMA VersionsAreSingle ==
  ASSUME IInv, NEW id \in Ids
  PROVE  Distinct(journal[id])
  <1>1. CASE Calm
    <2>1. Contiguous(journal[id])
      BY <1>1, CalmStoreIsConsistent DEF StoreConsistent, VersionsContiguous
    <2>. QED BY <2>1 DEF Contiguous, Distinct
  <1>2. CASE ~ Calm
    <2>1. Client \in Connections
      BY <1>2 DEF Calm, Connections, Shared
    <2>2. /\ journal[id] \in Seq(Envelope) /\ rows[Client][id] \in Seq(Envelope)
      BY <2>1, TableType DEF IInv
    <2>3. Distinct(journal[id] \o rows[Client][id])
      BY <1>2, <2>1 DEF IInv, SingleVersions, Table
    <2>. QED BY <2>2, <2>3, DistinctPrefix
  <1>. QED BY <1>1, <1>2

(* With a connection per session, or calls that take turns, the journals   *)
(* are contiguous, the snapshots their replays and the answers true; and   *)
(* even where calls end each other's transactions (SharedClient), every    *)
(* version is single and a refused call has left nothing.                  *)
THEOREM StoreAsUsed == Spec => []ConsistentAsUsed
  <1>1. IInv => ConsistentAsUsed
    <2>1. ASSUME IInv, NEW id \in Ids, NEW i \in DOMAIN journal[id]
          PROVE  ~ Refused(journal[id][i].event[1])
      BY <2>1, RefusedLeftNothing, SomeConnection DEF IInv, NoEventsOf
    <2>2. IInv => TypeOK
      BY DEF IInv
    <2>. QED
      BY <2>1, <2>2, CalmStoreIsConsistent, VersionsAreSingle
      DEF ConsistentAsUsed, Calm, Distinct
  <1>. QED BY <1>1, InvariantHolds, PTL

(* With a connection per session all the events of a command are committed *)
(* or none is, whatever failed or was dropped on the way, and no aggregate *)
(* has events but no snapshot to load it from.                             *)
THEOREM CommitsAreWhole == Spec => []CommitIsWhole
  <1>1. IInv => CommitIsWhole
    BY DEF IInv, WholeInv, PoolInv, CommitIsWhole
  <1>. QED BY <1>1, InvariantHolds, PTL

-----------------------------------------------------------------------------
(* The refinement of EventLog, with a connection per session.              *)

(* What no step changes, whatever the use of the connections.              *)
LEMMA CallsMoveAlone ==
  ASSUME CallTypeOK, NEW c \in Calls, Step(c) \/ Fault(c)
  PROVE  /\ use' = use /\ target' = target
         /\ \A d \in Calls : d # c => SameCall(d)
  <1>0. /\ pc \in [Calls -> Label] /\ reply \in [Calls -> Reply]
        /\ agg \in [Calls -> State] /\ ver \in [Calls -> Nat]
        /\ batch \in [Calls -> State]
    BY DEF CallTypeOK
  <1> USE <1>0 DEF SameCall, callVars, store, transactions, Goto, Answer
  <1>1. CASE FetchSnapshot(c)
    BY <1>1 DEF FetchSnapshot, InitializeAggregate, LoadSnapshot
  <1>2. CASE FetchEventsFromVersion(c)
    BY <1>2 DEF FetchEventsFromVersion, LoadTail
  <1>3. CASE RunHandler(c)
    BY <1>3 DEF RunHandler, Handle, Refuse
  <1>4. CASE StartSession(c) \/ FindLatestRow(c) \/ StartSessionFails(c)
    BY <1>4 DEF StartSession, FindLatestRow, StartSessionFails
  <1>5. CASE FetchLatestEvent(c)
    BY <1>5 DEF FetchLatestEvent, CheckVersion
  <1>6. CASE SaveEvent(c)
    BY <1>6 DEF SaveEvent, InsertNext, FailStatement
  <1>7. CASE SaveSnapshot(c)
    BY <1>7 DEF SaveSnapshot
  <1>8. CASE CloseSession(c) \/ CloseFails(c) \/ LateClose(c)
    BY <1>8 DEF CloseSession, CloseFails, LateClose, EndTransaction, Committed,
                CommitTransaction, Rollback, Clear
  <1>9. CASE AbortSession(c) \/ Recycle(c)
    BY <1>9 DEF AbortSession, Recycle, Aborted, Rollback, Clear
  <1>10. CASE Dispatch(c)
    BY <1>10 DEF Dispatch, Dispatched
  <1>11. CASE LoadFails(c) \/ SessionFails(c)
    BY <1>11 DEF LoadFails, SessionFails, FailStatement
  <1>12. CASE Cancel(c) \/ CancelClose(c)
    BY <1>12 DEF Cancel, CancelClose, Drop
  <1>. QED BY <1>1, <1>2, <1>3, <1>4, <1>5, <1>6, <1>7, <1>8, <1>9, <1>10,
              <1>11, <1>12 DEF Step, Fault

LEMMA NoEntries ==
  ASSUME NEW r \in Seq(Envelope), \A i \in DOMAIN r : FALSE
  PROVE  r = <<>>
  <1> DEFINE n == Len(r)
  <1>1. DOMAIN r = 1..n /\ n \in Nat
    BY LenProperties
  <1>2. \A i \in 1..n : FALSE
    BY <1>1
  <1> HIDE DEF n
  <1>3. n = 0
    BY <1>1, <1>2
  <1>. QED BY <1>3, EmptySeq DEF n

(* What a call of the pool has not sent is not on its connection.          *)
LEMMA NothingOnConnection ==
  ASSUME IInv, use = "pool", NEW c \in Calls, sent[c] = 0
  PROVE  /\ \A id \in Ids : rows[c][id] = <<>>
         /\ OwnTable(c) = journal[target[c]]
  <1>1. /\ NothingOf(c) /\ PoolInv(c) /\ Conn(c) = c /\ c \in Connections
        /\ target[c] \in Ids
    BY ConnFacts DEF IInv, UnsentIsNowhere, WholeInv, TypeOK, CallTypeOK
  <1>2. \A i \in DOMAIN rows[c][target[c]] : FALSE
    BY <1>1 DEF PoolInv, NothingOf
  <1>3. rows[c][target[c]] \in Seq(Envelope)
    BY <1>1, TableType DEF IInv
  <1>4. rows[c][target[c]] = <<>>
    BY <1>2, <1>3, NoEntries
  <1>5. OwnTable(c) = Table(c, target[c])
    BY <1>1 DEF OwnTable
  <1>6. Table(c, target[c]) = journal[target[c]]
    BY <1>1, <1>4, TableType DEF IInv
  <1>. QED BY <1>1, <1>4, <1>5, <1>6 DEF PoolInv

(* What a call has loaded was committed when it loaded it.                 *)
LoadedIsCommitted(c) == Holding(c) => ver[c] <= Len(journal[target[c]])

RefinementInv ==
  IInv /\ (use = "pool" => \A c \in Calls : LoadedIsCommitted(c))

(* A step of a call that uses the pool is one of these.                    *)
Reads(c) ==
  /\ \/ pc[c] = "fetch_snapshot" /\ pc'[c] \in {"fetch_tail", "handle"}
     \/ pc[c] = "fetch_tail" /\ pc'[c] = "handle"
  /\ sent'[c] = 0 /\ journal' = journal

Decides(c) ==
  /\ pc[c] = "handle" /\ pc'[c] = "start_session"
  /\ ver' = ver /\ sent'[c] = 0 /\ journal' = journal

Walks(c) ==
  /\ UNCHANGED <<agg, ver, batch, journal>>
  /\ \/ /\ pc[c] \in {"start_session", "lock", "fetch_latest", "save_events"}
        /\ pc'[c] \in {"lock", "fetch_latest", "save_events", "save_snapshot", "abort"}
     \/ /\ pc[c] \in {"save_snapshot", "close"}
        /\ pc'[c] \in {"close", "abort"}
     \/ pc[c] = "done" /\ pc'[c] = "done" /\ reply'[c] = reply[c]

Succeeds(c) ==
  /\ UNCHANGED <<agg, ver, batch, journal>>
  /\ \/ pc[c] = "dispatch"
     \/ pc[c] = "close" /\ batch[c] = <<>>
  /\ pc'[c] = "done" /\ reply'[c] = "ok"

Stops(c) ==
  /\ journal' = journal
  /\ pc[c] # "done" /\ pc'[c] = "done" /\ reply'[c] # "ok"

Appends(c) ==
  /\ pc[c] = "close" /\ batch[c] # <<>> /\ CommitTransaction(c)
  /\ UNCHANGED <<agg, ver, batch>>
  /\ \/ pc'[c] = "dispatch"
     \/ pc'[c] = "done" /\ reply'[c] # "ok"

PoolMove(c) ==
  \/ Reads(c) \/ Decides(c) \/ Walks(c)
  \/ Succeeds(c) \/ Stops(c) \/ Appends(c)

(* A COMMIT without rows leaves the journal as it is.                      *)
LEMMA EmptyCommit ==
  ASSUME IInv, use = "pool", NEW c \in Calls, sent[c] = 0, CommitTransaction(c)
  PROVE  journal' = journal
  <1>1. /\ Conn(c) = c /\ c \in Connections /\ TypeOK
        /\ \A id \in Ids : rows[c][id] = <<>>
    BY NothingOnConnection, ConnFacts DEF IInv
  <1>2. ASSUME NEW id \in Ids PROVE journal[id] \o rows[c][id] = journal[id]
    BY <1>1, TableType DEF Table
  <1>. QED BY <1>1, <1>2 DEF CommitTransaction, TypeOK, StoreTypeOK

LEMMA PoolSteps ==
  ASSUME IInv, use = "pool", NEW c \in Calls, Step(c) \/ Fault(c)
  PROVE  PoolMove(c)
  <1>1. /\ TypeOK /\ BatchInv(c) /\ CallInv(c) /\ Conn(c) = c /\ ~ Shared
        /\ pc \in [Calls -> Label] /\ reply \in [Calls -> Reply]
        /\ sent[c] \in 0..MaxEvents
    BY ConnFacts DEF IInv, CalmInv, Calm, Shared, TypeOK, CallTypeOK
  <1>2. batch[c] = <<>> => sent[c] = 0
    <2>1. Len(<<>>) = 0 /\ sent[c] \in Nat
      BY <1>1, EmptyState, MaxEventsAssumption
    <2>. QED BY <1>1, <2>1 DEF BatchInv
  <1> USE DEF store, transactions, Goto, Answer
  <1>3. CASE FetchSnapshot(c) \/ FetchEventsFromVersion(c) \/ RunHandler(c)
    <2>1. sent[c] = 0
      BY <1>1, <1>3 DEF BatchInv, FetchSnapshot, FetchEventsFromVersion, RunHandler,
         InitializeAggregate, LoadSnapshot, LoadTail, Handle, Refuse
    <2>2. CASE FetchSnapshot(c)
      BY <1>1, <2>1, <2>2
      DEF FetchSnapshot, InitializeAggregate, LoadSnapshot, PoolMove, Reads, Stops
    <2>3. CASE FetchEventsFromVersion(c)
      BY <1>1, <2>1, <2>3 DEF FetchEventsFromVersion, LoadTail, PoolMove, Reads
    <2>4. CASE RunHandler(c)
      BY <1>1, <2>1, <2>4 DEF RunHandler, Handle, Refuse, PoolMove, Decides, Stops
    <2>. QED BY <1>3, <2>2, <2>3, <2>4
  <1>4. CASE StartSession(c) \/ FindLatestRow(c)
    BY <1>1, <1>4 DEF StartSession, FindLatestRow, PoolMove, Walks
  <1>5. CASE FetchLatestEvent(c)
    BY <1>1, <1>5 DEF FetchLatestEvent, CheckVersion, PoolMove, Walks
  <1>6. CASE SaveEvent(c)
    <2>1. txn[c] = "open"
      BY <1>1, <1>6 DEF SaveEvent, CallInv, InSession
    <2>2. journal' = journal
      BY <1>1, <1>6, <2>1 DEF SaveEvent, InsertNext, WriteRow
    <2>3. pc'[c] \in {"save_events", "save_snapshot", "abort"}
      BY <1>1, <1>6 DEF SaveEvent, InsertNext, FailStatement
    <2>4. pc[c] = "save_events" /\ UNCHANGED <<agg, ver, batch>>
      BY <1>6 DEF SaveEvent
    <2>. QED BY <2>2, <2>3, <2>4 DEF PoolMove, Walks
  <1>7. CASE SaveSnapshot(c)
    BY <1>1, <1>7 DEF SaveSnapshot, PoolMove, Walks
  <1>8. CASE CloseSession(c)
    <2>1. /\ pc[c] = "close" /\ UNCHANGED <<agg, ver, batch>>
          /\ IF batch[c] = <<>> THEN pc'[c] = "done" /\ reply'[c] = "ok"
                                ELSE pc'[c] = "dispatch"
      BY <1>1, <1>8 DEF CloseSession, Committed
    <2>2. CommitTransaction(c)
      BY <1>1, <1>8, <2>1 DEF CloseSession, EndTransaction, CallInv, InSession
    <2>3. batch[c] = <<>> => journal' = journal
      BY <1>2, <2>2, EmptyCommit
    <2>. QED BY <2>1, <2>2, <2>3 DEF PoolMove, Succeeds, Appends
  <1>9. CASE CloseFails(c) \/ LateClose(c)
    <2>1. /\ pc[c] = "close" /\ UNCHANGED <<agg, ver, batch>>
          /\ pc'[c] = "done" /\ reply'[c] # "ok"
      BY <1>1, <1>9 DEF CloseFails, LateClose
    <2>2. CommitTransaction(c) \/ Rollback(c)
      BY <1>9 DEF CloseFails, LateClose, EndTransaction
    <2>3. batch[c] = <<>> /\ CommitTransaction(c) => journal' = journal
      BY <1>2, EmptyCommit
    <2>4. Rollback(c) => journal' = journal
      BY DEF Rollback
    <2>. QED BY <2>1, <2>2, <2>3, <2>4 DEF PoolMove, Stops, Appends
  <1>10. CASE AbortSession(c)
    <2>1. reply[c] # "ok"
      BY <1>1, <1>10 DEF AbortSession, Aborted, BatchInv
    <2>. QED BY <1>1, <1>10, <2>1 DEF AbortSession, Aborted, Rollback, PoolMove, Stops
  <1>11. CASE Dispatch(c)
    BY <1>1, <1>11 DEF Dispatch, Dispatched, PoolMove, Succeeds
  <1>12. CASE Recycle(c)
    BY <1>1, <1>12 DEF Recycle, Rollback, callVars, PoolMove, Walks
  <1>13. CASE LoadFails(c) \/ StartSessionFails(c)
    BY <1>1, <1>13 DEF LoadFails, StartSessionFails, PoolMove, Stops
  <1>14. CASE SessionFails(c)
    BY <1>1, <1>14 DEF SessionFails, FailStatement, PoolMove, Walks
  <1>15. CASE Cancel(c)
    BY <1>1, <1>15 DEF Cancel, Drop, PoolMove, Stops
  <1>16. CASE CancelClose(c)
    BY <1>1, <1>16 DEF CancelClose, PoolMove, Walks
  <1>. QED BY <1>3, <1>4, <1>5, <1>6, <1>7, <1>8, <1>9, <1>10, <1>11, <1>12,
              <1>13, <1>14, <1>15, <1>16 DEF Step, Fault

(* At its COMMIT the rows of a call are its batch, and what it has loaded  *)
(* is the whole journal.                                                   *)
LEMMA CommitAppendsBatch ==
  ASSUME RefinementInv, use = "pool", NEW c \in Calls,
         pc[c] = "close", batch[c] # <<>>
  PROVE  LET t == target[c] IN
         /\ ver[c] = Len(journal[t])
         /\ Len(rows[c][t]) = Len(batch[c])
         /\ \A i \in 1..Len(batch[c]) : rows[c][t][i].event = batch[c][i]
  <1> DEFINE j == journal[target[c]]
             r == rows[c][target[c]]
             T == OwnTable(c)
             n == Len(j)
             m == Len(r)
             b == Len(batch[c])
             v == ver[c]
  <1>1. /\ TypeOK /\ BatchInv(c) /\ CallInv(c) /\ PoolInv(c) /\ Conn(c) = c
        /\ c \in Connections /\ target[c] \in Ids /\ v \in Nat
        /\ batch[c] \in State /\ sent[c] = b /\ LoadedIsCommitted(c)
    BY ConnFacts
    DEF RefinementInv, IInv, CalmInv, Calm, WholeInv, TypeOK, CallTypeOK, BatchInv
  <1>2. /\ n \in Nat /\ m \in Nat /\ Len(T) = n + m
        /\ DOMAIN r = 1..m
        /\ \A i \in 1..n : T[i] = j[i]
        /\ \A i \in 1..m : T[n + i] = r[i]
    <2>1. T = Table(c, target[c])
      BY <1>1 DEF OwnTable
    <2> HIDE DEF T
    <2>. QED BY <1>1, <2>1, TableType
  <1>9. DOMAIN j = 1..n /\ j \in Seq(Envelope)
    BY <1>1, TableType
  <1>3. /\ b \in Nat /\ b > 0 /\ DOMAIN batch[c] = 1..b
    BY <1>1, EmptySeq, LenProperties DEF State
  <1>4. \A i \in 1..b : batch[c][i][1] = c
    <2>1. PICK k \in 0..MaxEvents : batch[c] = NewEvents(c, k)
      BY <1>1 DEF BatchInv
    <2>. QED BY <1>3, <2>1 DEF NewEvents
  <1>5. /\ n + m = v + b /\ v <= n
        /\ \A i \in 1..b : T[v + i].event = batch[c][i]
        /\ \A i \in 1..m : r[i].event[1] = c
        /\ r # <<>>
    BY <1>1, <1>2, <1>3 DEF CallInv, PoolInv, InSession, Holding, LoadedIsCommitted
  <1>6. NoEventsOf(c)
    <2>1. SUFFICES ASSUME BatchInJournal(c) PROVE FALSE
      BY <1>1 DEF PoolInv
    <2>2. v + b <= n
      BY <1>3, <2>1 DEF BatchInJournal
    <2>3. m > 0
      <3>1. r \in Seq(Envelope)
        BY <1>1, TableType
      <3>2. m # 0
        BY <1>5, <3>1, EmptySeq
      <3>. QED BY <1>2, <3>2
    <2> HIDE DEF n, m, v, b
    <2>. QED BY <1>1, <1>2, <1>3, <1>5, <2>2, <2>3
  <1>7. v = n
    <2>1. SUFFICES ASSUME v < n PROVE FALSE
      <3> HIDE DEF n, m, v, b, T, r, j
      <3>. QED BY <1>1, <1>2, <1>5
    <2>2. v + 1 \in 1..n /\ 1 \in 1..b
      <3> HIDE DEF n, m, v, b, T, r, j
      <3>. QED BY <1>1, <1>2, <1>3, <2>1
    <2>3. j[v + 1].event[1] = c
      <3> HIDE DEF n, m, v, b, T, r, j
      <3>1. T[v + 1].event = batch[c][1] /\ T[v + 1] = j[v + 1]
        BY <1>2, <1>5, <2>2
      <3>. QED BY <1>4, <2>2, <3>1
    <2>. QED BY <1>1, <1>6, <1>9, <2>2, <2>3 DEF NoEventsOf
  <1>8. m = b /\ \A i \in 1..b : r[i].event = batch[c][i]
    <2> HIDE DEF n, m, v, b, T, r, j
    <2>1. m = b
      BY <1>1, <1>2, <1>3, <1>5, <1>7
    <2>. QED BY <1>2, <1>5, <1>7, <2>1
  <1>. QED BY <1>7, <1>8

(* The journals only get longer, and what a call has sent it sends from    *)
(* the version it has loaded.                                              *)
LEMMA LoadedKept ==
  ASSUME RefinementInv, IInv', use = "pool", NEW c \in Calls, Step(c) \/ Fault(c),
         NEW d \in Calls
  PROVE  LoadedIsCommitted(d)'
  <1> SUFFICES ASSUME Holding(d)'
               PROVE  ver'[d] <= Len(journal'[target'[d]])
    BY DEF LoadedIsCommitted
  <1>1. /\ IInv /\ CallTypeOK /\ TypeOK /\ BatchInv(d)' /\ CallInv(d)'
        /\ use' = use /\ target' = target /\ (c # d => SameCall(d))
        /\ target[d] \in Ids /\ LoadedIsCommitted(d) /\ PoolMove(c)
    BY CallsMoveAlone, PoolSteps
    DEF RefinementInv, IInv, CalmInv, Calm, TypeOK, CallTypeOK
  <1>2. CASE sent'[d] = 0
    <2> DEFINE t == target'[d]
               j == journal'[t]
               r == rows'[d][t]
    <2>1. /\ NothingOf(d)' /\ PoolInv(d)' /\ TypeOK' /\ t \in Ids
          /\ Conn(d)' = d /\ d \in Connections' /\ ver'[d] <= Len(OwnTable(d)')
      BY <1>1, <1>2, ConnFacts, ConnKept
      DEF IInv, UnsentIsNowhere, WholeInv, TypeOK, CallTypeOK, CallInv
    <2>2. j \in Seq(Envelope) /\ r \in Seq(Envelope)
      BY <2>1 DEF TypeOK, StoreTypeOK
    <2>3. OwnTable(d)' = j \o r
      BY <2>1 DEF OwnTable, Table
    <2>4. \A i \in DOMAIN r : FALSE
      BY <2>1 DEF PoolInv, NothingOf
    <2> HIDE DEF t, j, r
    <2>5. r = <<>>
      BY <2>2, <2>4, NoEntries
    <2>6. OwnTable(d)' = j
      BY <2>2, <2>3, <2>5, ConcatEmptySeq
    <2>. QED BY <2>1, <2>6 DEF t, j
  <1>3. CASE sent'[d] # 0
    <2>1. pc'[d] \in {"save_events", "save_snapshot", "close"}
      BY <1>1, <1>3 DEF BatchInv, Holding, InSession
    <2>2. Holding(d) /\ ver'[d] = ver[d]
      BY <1>1, <1>3, <2>1
      DEF PoolMove, Reads, Decides, Walks, Succeeds, Stops, Appends, Holding,
          InSession, SameCall
    <2>3. Len(journal[target[d]]) <= Len(journal'[target[d]])
      <3> DEFINE j == journal[target[d]]
                 r == rows[c][target[d]]
      <3>1. j \in Seq(Envelope) /\ r \in Seq(Envelope)
        BY <1>1, TableType, ConnFacts
      <3>2. journal'[target[d]] = j \/ journal'[target[d]] = j \o r
        BY <1>1, ConnFacts
        DEF PoolMove, Reads, Decides, Walks, Succeeds, Stops, Appends,
            CommitTransaction
      <3> HIDE DEF j, r
      <3>3. Len(j) \in Nat /\ Len(r) \in Nat /\ Len(j \o r) = Len(j) + Len(r)
        BY <3>1, LenProperties, AppendPlaces
      <3>4. Len(j) <= Len(journal'[target[d]])
        BY <3>2, <3>3
      <3>. QED BY <3>4 DEF j
    <2>4. /\ ver[d] \in Nat /\ Len(journal[target[d]]) \in Nat
          /\ Len(journal'[target[d]]) \in Nat
      BY <1>1, LenProperties DEF CallTypeOK, IInv, TypeOK, StoreTypeOK
    <2>. QED BY <1>1, <2>2, <2>3, <2>4 DEF LoadedIsCommitted
  <1>. QED BY <1>2, <1>3

LEMMA RefinementInvHolds == Spec => []RefinementInv
  <1>1. Init => RefinementInv
    BY InitIInv DEF Init, CallInit, RefinementInv, LoadedIsCommitted, Holding, InSession
  <1>2. RefinementInv /\ [Next]_vars => RefinementInv'
    <2> SUFFICES ASSUME RefinementInv, [Next]_vars PROVE RefinementInv'
      OBVIOUS
    <2>1. IInv'
      BY NextKeepsIInv DEF RefinementInv
    <2>2. CASE UNCHANGED vars
      BY <2>1, <2>2 DEF RefinementInv, LoadedIsCommitted, Holding, InSession, vars,
                        callVars, store, transactions
    <2>3. ASSUME NEW c \in Calls, Step(c) \/ Fault(c)
          PROVE  RefinementInv'
      <3>1. use' = use
        BY <2>3, CallsMoveAlone DEF RefinementInv, IInv, TypeOK
      <3>. QED BY <2>1, <2>3, <3>1, LoadedKept DEF RefinementInv
    <2>. QED BY <2>2, <2>3 DEF Next, Idle
  <1>. QED BY <1>1, <1>2, PTL DEF Spec

(* What a call of the pool is to EventLog, by where it is.                 *)
LEMMA CommitMapped ==
  ASSUME NEW c \in Calls, use = "pool"
  PROVE  /\ pc[c] \in {"fetch_snapshot", "fetch_tail"} =>
              CommitStatus[c] = "pending" /\ CommitSeen[c] = <<>>
         /\ pc[c] \in {"handle", "start_session", "lock", "fetch_latest",
                       "save_events"} =>
              CommitStatus[c] = "observed" /\ CommitSeen[c] = SubSeq(agg[c], 1, ver[c])
         /\ pc[c] \in {"save_snapshot", "close", "abort"} =>
              /\ CommitStatus[c] = IF batch[c] = <<>> THEN "appended" ELSE "observed"
              /\ CommitSeen[c] = SubSeq(agg[c], 1, ver[c])
         /\ pc[c] = "dispatch" =>
              CommitStatus[c] = "appended" /\ CommitSeen[c] = SubSeq(agg[c], 1, ver[c])
         /\ pc[c] = "done" /\ reply[c] = "ok" =>
              CommitStatus[c] = "acked" /\ CommitSeen[c] = SubSeq(agg[c], 1, ver[c])
         /\ pc[c] = "done" /\ reply[c] # "ok" =>
              CommitStatus[c] = "failed" /\ CommitSeen[c] = <<>>
  BY DEF CommitStatus, CommitSeen, Shared, Loaded, Answered

LEMMA CommitMappedAfter ==
  ASSUME NEW c \in Calls, use' = "pool"
  PROVE  /\ pc'[c] \in {"fetch_snapshot", "fetch_tail"} =>
              CommitStatus'[c] = "pending" /\ CommitSeen'[c] = <<>>
         /\ pc'[c] \in {"handle", "start_session", "lock", "fetch_latest",
                        "save_events"} =>
              /\ CommitStatus'[c] = "observed"
              /\ CommitSeen'[c] = SubSeq(agg'[c], 1, ver'[c])
         /\ pc'[c] \in {"save_snapshot", "close", "abort"} =>
              /\ CommitStatus'[c] = IF batch'[c] = <<>> THEN "appended" ELSE "observed"
              /\ CommitSeen'[c] = SubSeq(agg'[c], 1, ver'[c])
         /\ pc'[c] = "dispatch" =>
              /\ CommitStatus'[c] = "appended"
              /\ CommitSeen'[c] = SubSeq(agg'[c], 1, ver'[c])
         /\ pc'[c] = "done" /\ reply'[c] = "ok" =>
              /\ CommitStatus'[c] = "acked"
              /\ CommitSeen'[c] = SubSeq(agg'[c], 1, ver'[c])
         /\ pc'[c] = "done" /\ reply'[c] # "ok" =>
              CommitStatus'[c] = "failed" /\ CommitSeen'[c] = <<>>
  BY DEF CommitStatus, CommitSeen, Shared, Loaded, Answered

LEMMA OthersMappedToo ==
  ASSUME NEW c \in Calls, \A d \in Calls : d # c => SameCall(d), use' = use
  PROVE  /\ CommitStatus' = [CommitStatus EXCEPT ![c] = CommitStatus'[c]]
         /\ CommitSeen' = [CommitSeen EXCEPT ![c] = CommitSeen'[c]]
  <1>1. ASSUME NEW d \in Calls, d # c
        PROVE  CommitStatus'[d] = CommitStatus[d] /\ CommitSeen'[d] = CommitSeen[d]
    <2>1. SameCall(d)
      BY <1>1
    <2>. QED BY <2>1 DEF CommitStatus, CommitSeen, SameCall, Loaded, Answered, Shared
  <1>2. /\ CommitStatus = [d \in Calls |-> CommitStatus[d]]
        /\ CommitSeen = [d \in Calls |-> CommitSeen[d]]
        /\ CommitStatus' = [d \in Calls |-> CommitStatus'[d]]
        /\ CommitSeen' = [d \in Calls |-> CommitSeen'[d]]
    BY DEF CommitStatus, CommitSeen
  <1>. QED BY <1>1, <1>2

(* What a call has observed is a prefix of the committed stream.           *)
LEMMA CommitSeenIsPrefix ==
  ASSUME RefinementInv, use = "pool", NEW c \in Calls, Holding(c)
  PROVE  LET t == target[c] IN
         /\ CommittedStream[t] = EventsOf(journal[t])
         /\ ver[c] \in 0..Len(CommittedStream[t])
         /\ SubSeq(agg[c], 1, ver[c]) = SubSeq(CommittedStream[t], 1, ver[c])
         /\ ver[c] = Len(journal[t]) => SubSeq(agg[c], 1, ver[c]) = CommittedStream[t]
  <1> DEFINE t == target[c]
             j == journal[t]
             r == rows[c][t]
  <1>1. /\ t \in Ids /\ ver[c] \in Nat /\ batch[c] \in State
        /\ c \in Connections /\ OwnTable(c) = j \o r /\ CallInv(c)
        /\ ver[c] <= Len(j) /\ TypeOK
    BY ConnFacts
    DEF RefinementInv, IInv, CalmInv, Calm, TypeOK, CallTypeOK, LoadedIsCommitted,
        OwnTable, Table
  <1>2. j \in Seq(Envelope) /\ r \in Seq(Envelope) /\ Len(j) \in Nat
    BY <1>1, TableType
  <1>3. agg[c] = Replay(j \o r, ver[c]) \o batch[c]
    BY <1>1 DEF CallInv
  <1>4. CommittedStream[t] = EventsOf(j)
    BY <1>1 DEF CommittedStream, Shared
  <1> HIDE DEF t, j, r
  <1>5. ver[c] \in 0..Len(j)
    BY <1>1, <1>2
  <1>6. Replay(j \o r, ver[c]) = Replay(j, ver[c])
    BY <1>2, <1>5, ReplayOfPrefix
  <1>7. /\ SubSeq(agg[c], 1, ver[c]) = SubSeq(EventsOf(j), 1, ver[c])
        /\ Len(EventsOf(j)) = Len(j)
        /\ ver[c] = Len(j) => SubSeq(agg[c], 1, ver[c]) = EventsOf(j)
    <2> DEFINE a == agg[c]
               b == batch[c]
               v == ver[c]
    <2>1. /\ j \in Seq(Envelope) /\ v \in Nat /\ v <= Len(j) /\ b \in State
          /\ a = Replay(j, v) \o b
      BY <1>1, <1>2, <1>3, <1>6
    <2> HIDE DEF a, b, v
    <2>2. /\ SubSeq(a, 1, v) = SubSeq(EventsOf(j), 1, v)
          /\ Len(EventsOf(j)) = Len(j)
          /\ v = Len(j) => SubSeq(a, 1, v) = EventsOf(j)
      BY ONLY <2>1, PrefixSeen
    <2>. QED BY <2>2 DEF a, b, v
  <1>. QED BY <1>4, <1>5, <1>7 DEF t, j

LEMMA CommitSeenIsPrefixAfter ==
  ASSUME RefinementInv', use' = "pool", NEW c \in Calls, Holding(c)'
  PROVE  LET t == target'[c] IN
         /\ ver'[c] \in 0..Len(CommittedStream'[t])
         /\ SubSeq(agg'[c], 1, ver'[c]) = SubSeq(CommittedStream'[t], 1, ver'[c])
  <1> DEFINE t == target'[c]
             j == journal'[t]
             r == rows'[c][t]
             a == agg'[c]
             b == batch'[c]
             v == ver'[c]
  <1>1. /\ t \in Ids /\ v \in Nat /\ b \in State /\ TypeOK'
        /\ OwnTable(c)' = j \o r /\ CallInv(c)' /\ v <= Len(j)
        /\ c \in Connections'
    BY DEF RefinementInv, IInv, CalmInv, Calm, TypeOK, CallTypeOK, LoadedIsCommitted,
           OwnTable, Table, Conn, Connections, Shared
  <1>2. j \in Seq(Envelope) /\ r \in Seq(Envelope)
    BY <1>1 DEF TypeOK, StoreTypeOK
  <1>3. a = Replay(j \o r, v) \o b
    BY <1>1 DEF CallInv
  <1>4. CommittedStream'[t] = EventsOf(j)
    BY <1>1 DEF CommittedStream, Shared
  <1> HIDE DEF t, j, r, a, b, v
  <1>5. v \in 0..Len(j)
    BY <1>1, <1>2, LenProperties
  <1>6. Replay(j \o r, v) = Replay(j, v)
    BY <1>2, <1>5, ReplayOfPrefix
  <1>7. /\ SubSeq(a, 1, v) = SubSeq(EventsOf(j), 1, v)
        /\ Len(EventsOf(j)) = Len(j)
    <2>1. v <= Len(j) /\ a = Replay(j, v) \o b
      BY <1>1, <1>3, <1>6
    <2>. QED BY ONLY <1>1, <1>2, <2>1, PrefixSeen
  <1>. QED BY <1>4, <1>5, <1>7 DEF t, a, v

CommitSimulated == [CommitLog!Next]_(CommitLog!vars)

(* Where the journal stays, a step changes at most how far its call is.    *)
LEMMA PoolMoveSimulated ==
  ASSUME RefinementInv, RefinementInv', use = "pool", NEW c \in Calls,
         Step(c) \/ Fault(c),
         Reads(c) \/ Decides(c) \/ Walks(c) \/ Succeeds(c) \/ Stops(c)
  PROVE  CommitSimulated
  <1> DEFINE t == target[c]
  <1>1. /\ target' = target /\ use' = use /\ journal' = journal
        /\ CommittedStream' = CommittedStream
        /\ CommitStatus' = [CommitStatus EXCEPT ![c] = CommitStatus'[c]]
        /\ CommitSeen' = [CommitSeen EXCEPT ![c] = CommitSeen'[c]]
    <2>1. /\ target' = target /\ use' = use /\ \A d \in Calls : d # c => SameCall(d)
      BY CallsMoveAlone DEF RefinementInv, IInv, TypeOK
    <2>2. journal' = journal
      BY DEF Reads, Decides, Walks, Succeeds, Stops
    <2>. QED BY <2>1, <2>2, OthersMappedToo DEF CommittedStream, Shared
  <1>2. /\ CommitStatus = [d \in Calls |-> CommitStatus[d]]
        /\ CommitSeen = [d \in Calls |-> CommitSeen[d]]
    BY DEF CommitStatus, CommitSeen
  <1>3. ASSUME CommitStatus'[c] = CommitStatus[c], CommitSeen'[c] = CommitSeen[c]
        PROVE  CommitSimulated
    <2>1. CommitStatus' = CommitStatus /\ CommitSeen' = CommitSeen
      BY <1>1, <1>2, <1>3
    <2>. QED BY <1>1, <2>1 DEF CommitSimulated, CommitLog!vars
  <1>4. ASSUME \/ CommitLog!Observe(c) \/ CommitLog!AppendNothing(c)
               \/ CommitLog!Acknowledge(c) \/ CommitLog!Fail(c)
        PROVE  CommitSimulated
    BY <1>4 DEF CommitSimulated, CommitLog!Next
  <1>5. CASE Reads(c)
    <2>1. CASE pc'[c] = "fetch_tail"
      BY <1>1, <1>3, <1>5, <2>1, CommitMapped, CommitMappedAfter DEF Reads
    <2>2. CASE pc'[c] = "handle"
      <3>1. /\ CommitStatus[c] = "pending" /\ CommitStatus'[c] = "observed"
            /\ CommitSeen'[c] = SubSeq(agg'[c], 1, ver'[c])
        BY <1>1, <1>5, <2>2, CommitMapped, CommitMappedAfter DEF Reads
      <3>2. /\ ver'[c] \in 0..Len(CommittedStream[t])
            /\ SubSeq(agg'[c], 1, ver'[c]) = SubSeq(CommittedStream[t], 1, ver'[c])
        BY <1>1, <2>2, CommitSeenIsPrefixAfter DEF Holding
      <3>. QED BY <1>1, <1>4, <3>1, <3>2 DEF CommitLog!Observe
    <2>. QED BY <1>5, <2>1, <2>2 DEF Reads
  <1>6. CASE Decides(c)
    <2>1. /\ CommitStatus[c] = "observed" /\ CommitStatus'[c] = "observed"
          /\ CommitSeen[c] = SubSeq(agg[c], 1, ver[c])
          /\ CommitSeen'[c] = SubSeq(agg'[c], 1, ver'[c])
          /\ Holding(c) /\ Holding(c)' /\ ver' = ver
      BY <1>1, <1>6, CommitMapped, CommitMappedAfter DEF Decides, Holding
    <2>2. SubSeq(agg[c], 1, ver[c]) = SubSeq(CommittedStream[t], 1, ver[c])
      BY <2>1, CommitSeenIsPrefix
    <2>3. SubSeq(agg'[c], 1, ver'[c]) = SubSeq(CommittedStream[t], 1, ver'[c])
      BY <1>1, <2>1, CommitSeenIsPrefixAfter
    <2>. QED BY <1>3, <2>1, <2>2, <2>3
  <1>7. CASE Walks(c)
    <2>1. CASE pc[c] = "done"
      BY <1>1, <1>3, <1>7, <2>1, CommitMapped, CommitMappedAfter DEF Walks
    <2>2. CASE pc[c] # "done"
      <3>1. /\ CommitSeen'[c] = CommitSeen[c]
            /\ \/ CommitStatus'[c] = CommitStatus[c]
               \/ CommitStatus[c] = "observed" /\ CommitStatus'[c] = "appended"
        BY <1>1, <1>7, <2>2, CommitMapped, CommitMappedAfter DEF Walks
      <3>2. CommitSeen' = CommitSeen
        BY <1>1, <1>2, <3>1
      <3>. QED BY <1>1, <1>3, <1>4, <3>1, <3>2 DEF CommitLog!AppendNothing
    <2>. QED BY <2>1, <2>2
  <1>8. CASE Succeeds(c)
    <2>1. /\ CommitStatus[c] = "appended" /\ CommitStatus'[c] = "acked"
          /\ CommitSeen'[c] = CommitSeen[c]
      BY <1>1, <1>8, CommitMapped, CommitMappedAfter DEF Succeeds
    <2>2. CommitSeen' = CommitSeen
      BY <1>1, <1>2, <2>1
    <2>. QED BY <1>1, <1>4, <2>1, <2>2 DEF CommitLog!Acknowledge
  <1>9. CASE Stops(c)
    <2>1. CommitStatus'[c] = "failed" /\ CommitSeen'[c] = <<>>
      BY <1>1, <1>9, CommitMappedAfter DEF Stops
    <2>2. CommitStatus[c] \in {"pending", "observed", "appended"}
      <3>1. pc[c] \in Label \ {"done"}
        BY <1>9 DEF Stops, RefinementInv, IInv, TypeOK, CallTypeOK
      <3>. QED BY <3>1, CommitMapped DEF Label
    <2>. QED BY <1>1, <1>4, <2>1, <2>2 DEF CommitLog!Fail
  <1>. QED BY <1>5, <1>6, <1>7, <1>8, <1>9

(* A COMMIT with rows appends the whole batch of a call that has seen the  *)
(* whole stream.                                                           *)
LEMMA CommitIsAppend ==
  ASSUME RefinementInv, use = "pool", NEW c \in Calls, Step(c) \/ Fault(c),
         Appends(c)
  PROVE  CommitSimulated
  <1> DEFINE t == target[c]
             j == journal[t]
             r == rows[c][t]
             b == batch[c]
  <1>1. /\ target' = target /\ use' = use
        /\ CommitStatus' = [CommitStatus EXCEPT ![c] = CommitStatus'[c]]
        /\ CommitSeen' = [CommitSeen EXCEPT ![c] = CommitSeen'[c]]
    BY CallsMoveAlone, OthersMappedToo DEF RefinementInv, IInv, TypeOK
  <1>2. /\ TypeOK /\ PoolInv(c) /\ Conn(c) = c /\ c \in Connections /\ t \in Ids
        /\ b \in State /\ b # <<>> /\ pc[c] = "close" /\ CommitTransaction(c)
        /\ agg' = agg /\ ver' = ver /\ batch' = batch
    BY ConnFacts
    DEF RefinementInv, IInv, WholeInv, TypeOK, CallTypeOK, Appends
  <1>3. PICK n \in 0..MaxEvents : b = NewEvents(c, n)
    BY DEF RefinementInv, IInv, BatchInv
  <1>4. Len(b) = n /\ n \in 1..MaxEvents
    <2>1. Len(b) = n /\ n \in Nat
      BY <1>3, NewEventsType, MaxEventsAssumption
    <2>2. n # 0
      BY <1>2, <2>1, EmptySeq DEF State
    <2>. QED BY <1>3, <2>1, <2>2, MaxEventsAssumption
  <1>5. /\ ver[c] = Len(j) /\ Len(r) = n
        /\ \A i \in 1..n : r[i].event = b[i]
    BY <1>2, <1>4, CommitAppendsBatch
  <1>6. j \in Seq(Envelope) /\ r \in Seq(Envelope) /\ DOMAIN r = 1..Len(r)
    BY <1>2, TableType
  <1>7. EventsOf(r) = NewEvents(c, n)
    <2>1. DOMAIN r = 1..n
      BY <1>5, <1>6
    <2>. QED BY <1>3, <1>5, <2>1 DEF EventsOf, NewEvents
  <1>8. EventsOf(j \o r) = EventsOf(j) \o NewEvents(c, n)
    <2> HIDE DEF j, r
    <2>. QED BY <1>6, <1>7, EventsOfAppend
  <1>9. CommittedStream' = [CommittedStream EXCEPT ![t] = @ \o NewEvents(c, n)]
    <2>1. ASSUME NEW k \in Ids
          PROVE  CommittedStream'[k] = IF k = t THEN CommittedStream[k] \o NewEvents(c, n)
                                                ELSE CommittedStream[k]
      <3>1. /\ CommittedStream'[k] = EventsOf(journal'[k])
            /\ CommittedStream[k] = EventsOf(journal[k])
        BY <1>1 DEF CommittedStream, Shared
      <3>2. journal'[k] = journal[k] \o rows[c][k]
        BY <1>2 DEF CommitTransaction
      <3>3. CASE k = t
        BY <1>8, <3>1, <3>2, <3>3
      <3>4. CASE k # t
        <4>1. rows[c][k] = <<>>
          BY <1>2, <3>4 DEF PoolInv
        <4>2. journal[k] \o <<>> = journal[k]
          BY <1>2, ConcatEmptySeq DEF TypeOK, StoreTypeOK
        <4>. QED BY <3>1, <3>2, <3>4, <4>1, <4>2
      <3>. QED BY <3>3, <3>4
    <2>2. /\ CommittedStream = [k \in Ids |-> CommittedStream[k]]
          /\ CommittedStream' = [k \in Ids |-> CommittedStream'[k]]
      BY DEF CommittedStream
    <2>. QED BY <1>2, <2>1, <2>2
  <1>10. CommitStatus[c] = "observed" /\ CommitSeen[c] = CommittedStream[t]
    <2>1. Holding(c)
      BY <1>2 DEF Holding, InSession
    <2>. QED BY <1>2, <1>5, <2>1, CommitMapped, CommitSeenIsPrefix
  <1>11. \/ CommitStatus'[c] = "appended" /\ CommitSeen' = CommitSeen
         \/ CommitStatus'[c] = "failed" /\ CommitSeen'[c] = <<>>
    <2>1. CASE pc'[c] = "dispatch"
      <3>1. CommitStatus'[c] = "appended" /\ CommitSeen'[c] = CommitSeen[c]
        BY <1>1, <1>2, <2>1, CommitMapped, CommitMappedAfter
      <3>2. CommitSeen = [d \in Calls |-> CommitSeen[d]]
        BY DEF CommitSeen
      <3>. QED BY <1>1, <3>1, <3>2
    <2>2. CASE pc'[c] = "done" /\ reply'[c] # "ok"
      BY <1>1, <2>2, CommitMappedAfter
    <2>. QED BY <2>1, <2>2 DEF Appends
  <1>12. CommitLog!AppendEvents(c)
    <2>1. CommitLog!NewEvents(c, n) = NewEvents(c, n)
      BY DEF CommitLog!NewEvents, NewEvents
    <2>. QED BY <1>1, <1>4, <1>9, <1>10, <1>11, <2>1 DEF CommitLog!AppendEvents
  <1>. QED BY <1>12 DEF CommitSimulated, CommitLog!Next

(* A SharedClient is nothing to EventLog.                                  *)
LEMMA SharedSimulated ==
  ASSUME use # "pool", use' = use, target' = target
  PROVE  CommitSimulated
  BY DEF CommitSimulated, CommitLog!vars, CommittedStream, CommitStatus,
         CommitSeen, Shared

(* Whatever its reads, locks, statements and faults, with a connection per *)
(* session the engine over Postgres is one compare-and-append per command, *)
(* and the append is the COMMIT (PgSession::close).                        *)
THEOREM Refinement == Spec => CommitImplementsEventLog
  <1>1. Init => CommitLog!Init
    <2> SUFFICES ASSUME Init PROVE CommitLog!Init
      OBVIOUS
    <2>1. target \in [Calls -> Ids]
      BY DEF Init, CallInit
    <2>2. CommittedStream = [id \in Ids |-> <<>>]
      BY DEF Init, StoreInit, CommittedStream, EventsOf
    <2>3. /\ CommitStatus = [c \in Calls |-> "pending"]
          /\ CommitSeen = [c \in Calls |-> <<>>]
      BY DEF Init, CallInit, CommitStatus, CommitSeen, Loaded, Answered
    <2>. QED BY <2>1, <2>2, <2>3 DEF CommitLog!Init
  <1>2. RefinementInv /\ RefinementInv' /\ [Next]_vars
          => [CommitLog!Next]_(CommitLog!vars)
    <2> SUFFICES ASSUME RefinementInv, RefinementInv', [Next]_vars
                 PROVE  CommitSimulated
      BY DEF CommitSimulated
    <2>1. CASE UNCHANGED vars
      BY <2>1 DEF vars, callVars, store, transactions, CommitSimulated,
                  CommitLog!vars, CommittedStream, CommitStatus, CommitSeen,
                  Loaded, Answered, Shared
    <2>2. ASSUME NEW c \in Calls, Step(c) \/ Fault(c)
          PROVE  CommitSimulated
      <3>1. use' = use /\ target' = target
        BY <2>2, CallsMoveAlone DEF RefinementInv, IInv, TypeOK
      <3>2. CASE use = "pool"
        BY <2>2, <3>2, PoolSteps, PoolMoveSimulated, CommitIsAppend
        DEF PoolMove, RefinementInv
      <3>. QED BY <3>1, <3>2, SharedSimulated
    <2>. QED BY <2>1, <2>2 DEF Next, Idle
  <1>. QED BY <1>1, <1>2, RefinementInvHolds, PTL
       DEF Spec, CommitImplementsEventLog, CommitLog!Spec
=============================================================================
