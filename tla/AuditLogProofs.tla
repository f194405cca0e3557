--------------------------- MODULE AuditLogProofs ---------------------------
(***************************************************************************)
(* A walk over the history of an aggregate, for words of any width, pages  *)
(* of any size and journals of any length a word can count.                *)
(*                                                                         *)
(* What keeps the walk whole is that a journal only grows: the pages that  *)
(* were full stay as they were answered, so as long as the walk goes on    *)
(* what it has received is the first (page - 1) * size entries.  That      *)
(* product is bounded by the journal, so the arithmetic of the page never  *)
(* wraps, though it is done in words.  The counts are the same in every    *)
(* store; which entries they count is known where the pages are in order,  *)
(* and of a page that has the whole journal.                               *)
(***************************************************************************)
EXTENDS AuditLog, TLAPS, SequenceTheorems

Counters ==
  /\ store \in {"memory", "postgres", "surrealdb", "mongodb"}
  /\ phase \in {"idle", "count", "select", "done", "failed"}
  /\ length \in 0..MaxLength
  /\ page \in 0..Word - 1
  /\ size \in 0..Word - 1
  /\ begun \in Nat /\ begun <= length
  /\ total \in Nat /\ total <= length
  /\ got \in Seq(Nat)

(* A walk from page 1 has the entries of the full pages before this one.   *)
PagesBefore ==
  first = 1 /\ phase # "done" =>
    page >= 1 /\ Len(got) = (page - 1) * size /\ Len(got) <= length

(* Under one lock no commit comes between the two reads of a page.         *)
CountIsFresh == store = "memory" /\ phase = "select" => total = length

WalkInv ==
  /\ Counters
  /\ PagesBefore
  /\ CountIsFresh
  /\ WalkHasNoGap
  /\ FinishedWalkIsWhole
  /\ TotalCoversItems
  /\ response # <<>> => response.total \in Nat

(* Every store lists all n entries, and all but MongoDB in their order.    *)
LEMMA ListingIsWhole ==
  ASSUME NEW n \in Nat, NEW listing \in Listings(n)
  PROVE  /\ listing \in Seq(1..n) /\ Len(listing) = n
         /\ \A v \in 1..n : \E i \in 1..n : listing[i] = v
         /\ store # "mongodb" => \A i \in 1..n : listing[i] = i
  <1>1. listing \in [1..n -> 1..n]
    BY DEF Listings
  <1>2. \A v \in 1..n : \E i \in 1..n : listing[i] = v
    BY DEF Listings
  <1>3. store # "mongodb" => \A i \in 1..n : listing[i] = i
    BY DEF Listings
  <1>. QED BY <1>1, <1>2, <1>3

(* A page holds consecutive rows of the listing, and fewer than it may     *)
(* hold only if it reaches the end.                                        *)
LEMMA WindowIsAPage ==
  ASSUME NEW n \in Nat, NEW listing \in Seq(1..n), Len(listing) = n,
         NEW offset \in Nat, NEW limit \in Nat
  PROVE  LET items == Window(listing, offset, limit) IN
         /\ items \in Seq(Nat) /\ Len(items) \in Nat /\ Len(items) <= limit
         /\ Len(items) <= n
         /\ \A i \in 1..Len(items) :
              /\ items[i] = listing[offset + i] /\ items[i] \in 1..n
              /\ offset + i \in 1..n
         /\ offset <= n => offset + Len(items) <= n
         /\ offset <= n /\ Len(items) < limit => offset + Len(items) = n
         /\ offset = 0 /\ limit = n => Len(items) = n
  <1> DEFINE items == Window(listing, offset, limit)
             rest == IF offset < n THEN n - offset ELSE 0
             m == IF limit < rest THEN limit ELSE rest
  <1>1. items = [i \in 1..m |-> listing[offset + i]]
    BY DEF Window
  <1>2. /\ m \in Nat /\ m <= limit /\ m <= n
        /\ \A i \in 1..m : offset + i \in 1..n
        /\ offset <= n => offset + m <= n
        /\ offset <= n /\ m < limit => offset + m = n
        /\ offset = 0 /\ limit = n => m = n
    OBVIOUS
  <1>3. \A i \in 1..n : listing[i] \in 1..n /\ listing[i] \in Nat
    <2>1. \A i \in 1..n : listing[i] \in 1..n
      BY ElementOfSeq
    <2>. QED BY <2>1
  <1>4. \A i \in 1..m : listing[offset + i] \in Nat
    BY <1>2, <1>3
  <1> HIDE DEF items, m
  <1>5. items \in Seq(Nat) /\ Len(items) = m
    BY <1>1, <1>2, <1>4
  <1>. QED BY <1>1, <1>2, <1>3, <1>5 DEF items

(* A store is asked for the size of the page, but MongoDB for nothing or   *)
(* for less when an i64 does not count it.                                 *)
LEMMA LimitIsTheSize ==
  ASSUME NEW n \in Nat, NEW s \in 0..Word - 1
  PROVE  /\ Limit(s, n) \in Nat
         /\ store # "mongodb" => Limit(s, n) = s
         /\ s > 0 /\ s < Word \div 2 => Limit(s, n) = s
         /\ store = "mongodb" /\ s = 0 => Limit(s, n) = n
  <1>1. s \in Nat /\ AsI64(s) \in Int /\ Word \div 2 \in Nat
    BY WordAssumption DEF AsI64
  <1>2. s < Word \div 2 => AsI64(s) = s
    BY DEF AsI64
  <1>. QED BY <1>1, <1>2 DEF Limit, Abs

(* A product no larger than the journal is the same in words.              *)
LEMMA OffsetDoesNotWrap ==
  ASSUME NEW p \in 1..Word - 1, NEW s \in 0..Word - 1,
         (p - 1) * s <= MaxLength
  PROVE  Offset(p, s) = (p - 1) * s
  <1>1. (p - 1) * s \in Nat
    <2>1. p - 1 \in Nat /\ s \in Nat
      BY WordAssumption
    <2>. QED BY <2>1
  <1>2. (p - 1) * s < Word
    BY <1>1, WordAssumption
  <1>3. p # 0 /\ Offset(p, s) = ((p - 1) * s) % Word
    BY WordAssumption DEF Offset
  <1> DEFINE product == (p - 1) * s
  <1> HIDE DEF product
  <1>4. product \in Nat /\ product < Word => product % Word = product
    BY WordAssumption
  <1>. QED BY <1>1, <1>2, <1>3, <1>4 DEF product

(* A page number stays below the entries of the full pages up to it.       *)
LEMMA PageDoesNotWrap ==
  ASSUME NEW p \in 1..Word - 1, NEW s \in 1..Word - 1,
         (p - 1) * s + s <= MaxLength
  PROVE  /\ (p + 1) % Word = p + 1
         /\ (p - 1) * s + s = (p + 1 - 1) * s
  <1>1. p \in Nat /\ s \in Nat /\ p >= 1 /\ s >= 1 /\ Word \in Nat
    BY WordAssumption
  <1>2. (p - 1) * s + s = p * s /\ p + 1 - 1 = p
    BY <1>1
  <1>3. p <= p * s
    BY <1>1
  <1>4. p + 1 < Word /\ p + 1 \in Nat
    BY <1>1, <1>2, <1>3, WordAssumption
  <1>5. (p + 1) % Word = p + 1
    BY <1>1, <1>4
  <1>. QED BY <1>2, <1>5

LEMMA WalkBegins == Init => WalkInv
  <1> SUFFICES ASSUME Init PROVE WalkInv
    OBVIOUS
  <1>1. Counters
    BY WordAssumption, FirstPagesAssumption, StoresAssumption DEF Init, Counters
  <1>2. PagesBefore
    <2>1. size \in Int /\ length \in Nat
      BY <1>1, WordAssumption DEF Counters
    <2>2. (1 - 1) * size = 0
      BY <2>1
    <2>. QED BY <2>1, <2>2 DEF Init, PagesBefore
  <1>. QED BY <1>1, <1>2 DEF Init, WalkInv, CountIsFresh, WalkHasNoGap,
              FinishedWalkIsWhole, TotalCoversItems

(* A commit disturbs nothing that was counted or received.                 *)
LEMMA CommitKeeps == WalkInv /\ Commit => WalkInv'
  <1> SUFFICES ASSUME WalkInv, Commit PROVE WalkInv'
    OBVIOUS
  <1> USE DEF Commit, chosen
  <1>1. Counters' /\ length \in Nat /\ length' \in Nat /\ length <= length'
    BY WordAssumption DEF WalkInv, Counters
  <1>2. PagesBefore'
    BY <1>1 DEF WalkInv, PagesBefore, Counters
  <1>3. CountIsFresh'
    BY DEF WalkInv, CountIsFresh
  <1>4. TotalCoversItems'
    BY <1>1 DEF WalkInv, TotalCoversItems
  <1>. QED BY <1>1, <1>2, <1>3, <1>4
           DEF WalkInv, WalkHasNoGap, FinishedWalkIsWhole

LEMMA CountKeeps == WalkInv /\ (Ask \/ CountEvents) => WalkInv'
  <1> SUFFICES ASSUME WalkInv, Ask \/ CountEvents PROVE WalkInv'
    OBVIOUS
  <1> USE DEF Ask, CountEvents, chosen
  <1>1. Counters'
    BY WordAssumption DEF WalkInv, Counters
  <1>2. PagesBefore' /\ CountIsFresh'
    BY DEF WalkInv, PagesBefore, CountIsFresh
  <1>3. WalkHasNoGap' /\ FinishedWalkIsWhole' /\ TotalCoversItems'
    BY DEF WalkInv, WalkHasNoGap, FinishedWalkIsWhole, TotalCoversItems
  <1>. QED BY <1>1, <1>2, <1>3 DEF WalkInv

LEMMA FailureKeeps == WalkInv /\ ReadFails => WalkInv'
  <1> SUFFICES ASSUME WalkInv, ReadFails PROVE WalkInv'
    OBVIOUS
  <1> USE DEF ReadFails, chosen
  <1>1. Counters'
    BY DEF WalkInv, Counters
  <1>2. PagesBefore' /\ CountIsFresh'
    BY DEF WalkInv, PagesBefore, CountIsFresh
  <1>3. WalkHasNoGap' /\ FinishedWalkIsWhole' /\ TotalCoversItems'
    BY DEF WalkInv, WalkHasNoGap, FinishedWalkIsWhole, TotalCoversItems
  <1>. QED BY <1>1, <1>2, <1>3 DEF WalkInv

(* The page that is read continues the walk, or ends it with the journal.  *)
LEMMA SelectKeeps == WalkInv /\ SelectEvents => WalkInv'
  <1> SUFFICES ASSUME WalkInv, SelectEvents PROVE WalkInv'
    OBVIOUS
  <1>1. PICK listing \in Listings(length) :
          LET items == Window(listing, Offset(page, size), Limit(size, length)) IN
          /\ phase = "select" /\ store' = store /\ first' = first
          /\ length' = length /\ size' = size /\ begun' = begun /\ total' = total
          /\ page' = (page + 1) % Word
          /\ got' = got \o items
          /\ phase' = IF Len(items) < size \/ size = 0 THEN "done" ELSE "idle"
          /\ response'.items = items /\ response'.total = total
    BY DEF SelectEvents, Paged, chosen
  <1> DEFINE limit == Limit(size, length)
             items == Window(listing, Offset(page, size), limit)
  <1>2. /\ length \in Nat /\ length <= MaxLength /\ size \in Nat /\ page \in Nat
        /\ got \in Seq(Nat) /\ Len(got) \in Nat
        /\ size \in 0..Word - 1 /\ page \in 0..Word - 1
        /\ begun \in Nat /\ begun <= length /\ total \in Nat /\ total <= length
        /\ Word \div 2 \in Nat /\ length < Word \div 2
    BY WordAssumption, LenProperties DEF WalkInv, Counters
  <1>3. Offset(page, size) \in Nat
    <2>1. \A n \in Int : n % Word \in 0..Word - 1
      BY WordAssumption
    <2>2. ((IF page = 0 THEN 1 ELSE page) - 1) * size \in Int
      BY <1>2
    <2>. QED BY <2>1, <2>2, WordAssumption DEF Offset
  <1>4. /\ limit \in Nat
        /\ store # "mongodb" => limit = size
        /\ size > 0 /\ size < Word \div 2 => limit = size
        /\ store = "mongodb" /\ size = 0 => limit = length
    BY <1>2, LimitIsTheSize
  <1>5. /\ listing \in Seq(1..length) /\ Len(listing) = length
        /\ \A v \in 1..length : \E i \in 1..length : listing[i] = v
        /\ store # "mongodb" => \A i \in 1..length : listing[i] = i
    BY <1>2, ListingIsWhole
  <1> HIDE DEF limit
  <1>6. /\ items \in Seq(Nat) /\ Len(items) \in Nat /\ Len(items) <= limit
        /\ Len(items) <= length
        /\ \A i \in 1..Len(items) :
             /\ items[i] = listing[Offset(page, size) + i] /\ items[i] \in 1..length
             /\ Offset(page, size) + i \in 1..length
        /\ Offset(page, size) <= length =>
             Offset(page, size) + Len(items) <= length
        /\ Offset(page, size) <= length /\ Len(items) < limit =>
             Offset(page, size) + Len(items) = length
        /\ Offset(page, size) = 0 /\ limit = length => Len(items) = length
    <2> DEFINE offset == Offset(page, size)
    <2>1. offset \in Nat
      BY <1>3
    <2> HIDE DEF offset
    <2>2. LET shown == Window(listing, offset, limit) IN
          /\ shown \in Seq(Nat) /\ Len(shown) \in Nat /\ Len(shown) <= limit
          /\ Len(shown) <= length
          /\ \A i \in 1..Len(shown) :
               /\ shown[i] = listing[offset + i] /\ shown[i] \in 1..length
               /\ offset + i \in 1..length
          /\ offset <= length => offset + Len(shown) <= length
          /\ offset <= length /\ Len(shown) < limit => offset + Len(shown) = length
          /\ offset = 0 /\ limit = length => Len(shown) = length
      BY <1>2, <1>4, <1>5, <2>1, WindowIsAPage
    <2>. QED BY <2>2 DEF offset
  <1>7. /\ phase = "select" /\ store' = store /\ first' = first
        /\ length' = length /\ size' = size /\ begun' = begun /\ total' = total
        /\ page' = (page + 1) % Word
        /\ got' = got \o items
        /\ phase' = IF Len(items) < size \/ size = 0 THEN "done" ELSE "idle"
        /\ response'.items = items /\ response'.total = total
    BY <1>1 DEF limit
  <1> HIDE DEF items
  <1>8. /\ got' \in Seq(Nat) /\ Len(got') = Len(got) + Len(items)
        /\ \A i \in 1..(Len(got) + Len(items)) : got'[i] =
             IF i <= Len(got) THEN got[i] ELSE items[i - Len(got)]
    BY <1>2, <1>6, <1>7, ConcatProperties
  <1>9. DOMAIN got' = 1..(Len(got) + Len(items))
    BY <1>8, LenProperties
  <1>10. Counters'
    <2>1. (page + 1) % Word \in 0..Word - 1
      BY <1>2, WordAssumption
    <2>. QED BY <1>7, <1>8, <2>1 DEF WalkInv, Counters
  <1>11. TotalCoversItems' /\ response'.total \in Nat
    <2>1. store = "memory" => total = length
      BY <1>7 DEF WalkInv, CountIsFresh
    <2>2. DOMAIN items = 1..Len(items)
      BY <1>6, LenProperties
    <2>3. \A i \in 1..Len(items) : items[i] <= length
      BY <1>2, <1>6
    <2>. QED BY <1>2, <1>7, <2>1, <2>2, <2>3 DEF TotalCoversItems
  <1>12. CountIsFresh'
    BY <1>7 DEF CountIsFresh
  <1>13. CASE first # 1
    BY <1>7, <1>10, <1>11, <1>12, <1>13
       DEF WalkInv, PagesBefore, WalkHasNoGap, FinishedWalkIsWhole
  <1>14. CASE first = 1
    <2>1. page >= 1 /\ Len(got) = (page - 1) * size /\ Len(got) <= length
      BY <1>7, <1>14 DEF WalkInv, PagesBefore
    <2>2. Offset(page, size) = Len(got)
      <3>1. page \in 1..Word - 1
        BY <1>2, <2>1
      <3>2. (page - 1) * size <= MaxLength
        BY <1>2, <2>1, WordAssumption
      <3>. QED BY <1>2, <2>1, <3>1, <3>2, OffsetDoesNotWrap
    <2>3. ASSUME store # "mongodb", NEW i \in 1..(Len(got) + Len(items))
          PROVE  got'[i] = i
      <3>1. CASE i <= Len(got)
        <4>1. i \in 1..Len(got) /\ got'[i] = got[i]
          BY <1>2, <1>6, <1>8, <3>1
        <4>2. \A k \in 1..Len(got) : got[k] = k
          BY <1>2, <1>14, <2>3, LenProperties DEF WalkInv, WalkHasNoGap
        <4>. QED BY <4>1, <4>2
      <3>2. CASE i > Len(got)
        <4>1. i - Len(got) \in 1..Len(items)
          BY <1>2, <1>6, <3>2
        <4>2. got'[i] = items[i - Len(got)]
          BY <1>2, <1>6, <1>8, <3>2
        <4>3. /\ items[i - Len(got)] = listing[Len(got) + (i - Len(got))]
              /\ Len(got) + (i - Len(got)) \in 1..length
          BY <1>6, <2>2, <4>1
        <4>4. Len(got) + (i - Len(got)) = i
          BY <1>2
        <4>. QED BY <1>5, <2>3, <4>2, <4>3, <4>4
      <3>3. i <= Len(got) \/ i > Len(got)
        BY <1>2
      <3>. QED BY <3>1, <3>2, <3>3
    <2>4. WalkHasNoGap'
      BY <1>7, <1>9, <2>3 DEF WalkHasNoGap
    <2>5. size > 0 => Len(items) <= size
      <3>1. size >= Word \div 2 => Len(items) < size
        BY <1>2, <1>6
      <3>2. size >= Word \div 2 \/ size < Word \div 2
        BY <1>2
      <3>. QED BY <1>2, <1>4, <1>6, <3>1, <3>2
    <2>6. PagesBefore'
      <3> SUFFICES ASSUME phase' # "done"
                   PROVE  /\ page' >= 1
                          /\ Len(got') = (page' - 1) * size
                          /\ Len(got') <= length
        BY <1>7 DEF PagesBefore
      <3>1. Len(items) = size /\ size \in 1..Word - 1 /\ page \in 1..Word - 1
        BY <1>2, <1>6, <1>7, <2>1, <2>5
      <3>2. Len(got) + size <= length /\ Len(got) + size <= MaxLength
        BY <1>2, <1>6, <2>1, <2>2, <3>1, WordAssumption
      <3>3. page' = page + 1 /\ Len(got) + size = (page + 1 - 1) * size
        BY <1>7, <2>1, <3>1, <3>2, PageDoesNotWrap
      <3>. QED BY <1>2, <1>8, <3>1, <3>2, <3>3
    <2>7. FinishedWalkIsWhole'
      <3> SUFFICES ASSUME phase' = "done"
                   PROVE  /\ size > 0 /\ size < Word \div 2 => Len(got') >= begun
                          /\ (IF store = "mongodb" THEN page' = 2 /\ size < Word \div 2
                                                    ELSE size > 0) =>
                               \A v \in 1..begun : \E i \in DOMAIN got' : got'[i] = v
        BY <1>7 DEF FinishedWalkIsWhole
      <3>1. size > 0 /\ limit = size => Len(got) + Len(items) = length
        <4> SUFFICES ASSUME size > 0, limit = size
                     PROVE  Len(got) + Len(items) = length
          OBVIOUS
        <4>1. Len(items) < limit
          BY <1>2, <1>7
        <4>. QED BY <1>2, <1>6, <2>1, <2>2, <4>1
      <3>2. size > 0 /\ size < Word \div 2 => Len(got') >= begun
        BY <1>2, <1>4, <1>6, <1>8, <3>1
      <3>3. ASSUME store # "mongodb", size > 0, NEW v \in 1..begun
            PROVE  \E i \in DOMAIN got' : got'[i] = v
        <4>1. v \in 1..(Len(got) + Len(items))
          BY <1>2, <1>4, <1>6, <3>1, <3>3
        <4>. QED BY <1>9, <2>3, <3>3, <4>1
      <3>4. ASSUME store = "mongodb", page' = 2, size < Word \div 2, NEW v \in 1..begun
            PROVE  \E i \in DOMAIN got' : got'[i] = v
        <4>1. page = 1
          <5>1. Word \in Nat /\ page + 1 \in 1..Word /\ (page + 1) % Word = 2
            BY <1>2, <1>7, <3>4, WordAssumption
          <5>2. page + 1 < Word => (page + 1) % Word = page + 1
            BY <5>1
          <5>3. page + 1 = Word => (page + 1) % Word = 0
            BY <5>1
          <5>. QED BY <1>2, <5>1, <5>2, <5>3
        <4>2. Len(got) = 0
          BY <1>2, <2>1, <4>1
        <4>3. Len(items) = length
          BY <1>2, <1>4, <1>6, <2>2, <3>1, <3>4, <4>2
        <4>4. v \in 1..length
          BY <1>2
        <4>5. PICK i \in 1..length : listing[i] = v
          BY <1>5, <4>4
        <4>6. items[i] = listing[0 + i] /\ 0 + i = i
          BY <1>6, <2>2, <4>2, <4>3
        <4>7. i \in 1..(Len(got) + Len(items)) /\ got'[i] = items[i - 0] /\ i - 0 = i
          BY <1>2, <1>8, <4>2, <4>3
        <4>. QED BY <1>9, <4>5, <4>6, <4>7
      <3>. QED BY <3>2, <3>3, <3>4
    <2>. QED BY <1>10, <1>11, <1>12, <2>4, <2>6, <2>7 DEF WalkInv
  <1>. QED BY <1>13, <1>14

LEMMA WalkIsInductive == Spec => []WalkInv
  <1>1. WalkInv /\ [Next]_vars => WalkInv'
    <2>1. WalkInv /\ UNCHANGED vars => WalkInv'
      BY DEF vars, chosen, WalkInv, Counters, PagesBefore, CountIsFresh,
             WalkHasNoGap, FinishedWalkIsWhole, TotalCoversItems
    <2>. QED BY <2>1, CommitKeeps, CountKeeps, FailureKeeps, SelectKeeps DEF Next
  <1>. QED BY <1>1, WalkBegins, PTL DEF Spec

(* Where the pages are in order, a walk from page 1 gets the entries from  *)
(* the first on, each once, whatever is committed between its reads.       *)
THEOREM WalkGetsEveryEntry == Spec => []WalkHasNoGap
  <1>1. WalkInv => WalkHasNoGap
    BY DEF WalkInv
  <1>. QED BY <1>1, WalkIsInductive, PTL

(* A walk ends with as many entries as were there when it asked for its    *)
(* last page, and with those very ones where the pages are in order, or    *)
(* where the first page took them all.                                     *)
THEOREM FinishedWalkHasAll == Spec => []FinishedWalkIsWhole
  <1>1. WalkInv => FinishedWalkIsWhole
    BY DEF WalkInv
  <1>. QED BY <1>1, WalkIsInductive, PTL

(* The total of a page is that of one moment of the journal, and of the    *)
(* page's own moment in memory, where both are read under one lock.        *)
THEOREM TotalIsOfTheJournal == Spec => []TotalCoversItems
  <1>1. WalkInv => TotalCoversItems
    BY DEF WalkInv
  <1>. QED BY <1>1, WalkIsInductive, PTL
=============================================================================
