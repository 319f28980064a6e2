---------------------------- MODULE FeedsProofs -----------------------------
(***************************************************************************)
(* Proofs about the feeds: ingestion, persistence, verification and        *)
(* replay, each for any number of items, records, documents, events,       *)
(* workers, crashes and failures.                                          *)
(***************************************************************************)
EXTENDS Ingestion, Persistence, Verification, ReplaySessions, SetLemmas

-----------------------------------------------------------------------------
(***************************************************************************)
(* Ingestion. A page that is not full holds everything the upstream        *)
(* offers after the cursor, because the ranks of the items are a           *)
(* numbering of them: what a poll passes over needs a full page.           *)
(* CopiesInv counts the copies of one item on the stream: each needs a     *)
(* free claim, and only a failure or an expiry frees one that was used.    *)
(***************************************************************************)

IngestionTypeOK ==
  /\ source \in {"market", "social"} /\ offered \in Nat /\ cursor \in Nat
  /\ page \in Seq(Nat) /\ emitted \in Nat
  /\ tracker \in [last : Nat,
                  book : {"VALID", "GAP_DETECTED", "STALE", "RESYNCING", "RECOVERED"}]
  /\ step \in {"poll", "publish", "set_latest", "set_health"}
  /\ step # "poll" => page # <<>>
  /\ claims \in SUBSET Nat /\ IsFiniteSet(claims)
  /\ stream \in Seq(Nat)
  /\ clean \in Nat /\ full \in BOOLEAN
  /\ crashes \in Nat /\ failures \in Nat /\ expiries \in Nat

\* The item in ingest holds its claim, and past the publication it is published.
ItemInv ==
  /\ InIngest \subseteq claims
  /\ step \in {"set_latest", "set_health"} => Item \in Published

\* An item that is free, or claimed and about to be published, has one copy
\* less than the faults would allow.
CopiesInv ==
  \A i \in Nat :
    /\ Copies(i) <= 1 + failures + expiries
    /\ i \notin claims => Copies(i) <= failures + expiries
    /\ step = "publish" /\ i = Item => Copies(i) <= failures + expiries

\* The state of the book says how many clean updates there were, up to two.
BookInv ==
  /\ tracker.book \in {"GAP_DETECTED", "STALE"} <=> clean = 0
  /\ tracker.book = "RESYNCING" <=> clean = 1
  /\ tracker.book \in {"VALID", "RECOVERED"} <=> clean >= 2

IngestionIInv ==
  /\ IngestionTypeOK /\ ItemInv /\ LossNeedsACrash /\ CopiesInv /\ BookInv
  /\ PassedOverNeedsAFullPage

-----------------------------------------------------------------------------
(***************************************************************************)
(* The rank of an element of a set of numbers, and the pages cut by rank.  *)
(***************************************************************************)
Rank(S, i) == Cardinality({j \in S : j < i})

LEMMA RankGrows ==
  ASSUME NEW S \in SUBSET Nat, IsFiniteSet(S), NEW i \in S, NEW k \in S, i < k
  PROVE  Rank(S, i) \in Nat /\ Rank(S, k) \in Nat /\ Rank(S, i) < Rank(S, k)
  <1> DEFINE below == {j \in S : j < i}
             under == {j \in S : j < k}
  <1>1. IsFiniteSet(below) /\ IsFiniteSet(under)
    BY FS_Subset
  <1>2. IsFiniteSet(below \union {i}) /\ Cardinality(below \union {i}) = Cardinality(below) + 1
    <2>1. i \notin below
      OBVIOUS
    <2> HIDE DEF below
    <2>2. QED
      BY <1>1, <2>1, FS_AddElement
  <1>3. below \union {i} \subseteq under
    <2>1. \A j \in S : j \in Nat
      OBVIOUS
    <2>2. \A j \in S : j < i => j < k
      BY <2>1
    <2>3. QED
      BY <2>2
  <1> HIDE DEF below, under
  <1>4. Cardinality(below \union {i}) <= Cardinality(under)
    BY <1>1, <1>3, FS_Subset
  <1>5. Cardinality(below) \in Nat /\ Cardinality(under) \in Nat
    BY <1>1, FS_CardinalityType
  <1>6. QED
    BY <1>2, <1>4, <1>5 DEF Rank, below, under

LEMMA RankIsBijective ==
  ASSUME NEW S \in SUBSET Nat, IsFiniteSet(S)
  PROVE  /\ \A i \in S : Rank(S, i) \in 0 .. (Cardinality(S) - 1)
         /\ \A i, k \in S : Rank(S, i) = Rank(S, k) => i = k
         /\ \A m \in 0 .. (Cardinality(S) - 1) : \E i \in S : Rank(S, i) = m
  <1> DEFINE n == Cardinality(S)
  <1>1. n \in Nat
    BY FS_CardinalityType
  <1>2. ASSUME NEW i \in S PROVE Rank(S, i) \in 0 .. (n - 1)
    <2> DEFINE below == {j \in S : j < i}
    <2>1. below \subseteq S /\ i \notin below
      OBVIOUS
    <2> HIDE DEF below
    <2>2. IsFiniteSet(below) /\ Cardinality(below) \in Nat
      BY <2>1, FS_Subset, FS_CardinalityType
    <2>3. Cardinality(below \union {i}) = Cardinality(below) + 1
      BY <2>1, <2>2, FS_AddElement
    <2>4. below \union {i} \subseteq S
      BY <2>1
    <2>5. Cardinality(below \union {i}) <= n
      BY <2>4, FS_Subset
    <2>6. Rank(S, i) = Cardinality(below)
      BY DEF Rank, below
    <2>7. QED
      BY <1>1, <2>2, <2>3, <2>5, <2>6
  <1>3. ASSUME NEW i \in S, NEW k \in S, Rank(S, i) = Rank(S, k) PROVE i = k
    <2>1. ~(i < k) /\ ~(k < i)
      BY <1>3, RankGrows
    <2>2. QED
      BY <2>1
  <1> DEFINE f == [i \in S |-> Rank(S, i)]
  <1>4. f \in Injection(S, 0 .. (n - 1))
    BY <1>2, <1>3 DEF Injection, IsInjective
  <1>5. IsFiniteSet(0 .. (n - 1)) /\ Cardinality(0 .. (n - 1)) = n
    <2>1. 0 \in Int /\ n - 1 \in Int /\ (0 > n - 1 <=> n = 0) /\ n - 1 - 0 + 1 = n
      BY <1>1
    <2> HIDE DEF n
    <2>2. QED
      BY <2>1, FS_Interval
  <1>6. f \in Surjection(S, 0 .. (n - 1))
    <2> HIDE DEF f
    <2>1. QED
      BY <1>4, <1>5, FS_Injection
  <1>7. \A m \in 0 .. (n - 1) : \E i \in S : Rank(S, i) = m
    BY <1>6 DEF Surjection
  <1>8. QED
    BY <1>2, <1>3, <1>7

\* A page lists its items by age, each once, and ends with the newest.
LEMMA AscendingLists ==
  ASSUME NEW S \in SUBSET Nat, IsFiniteSet(S)
  PROVE  /\ Ascending(S) \in Seq(S) /\ Len(Ascending(S)) = Cardinality(S)
         /\ {Ascending(S)[k] : k \in DOMAIN Ascending(S)} = S
         /\ S # {} => /\ Cardinality(S) \in Nat \ {0}
                      /\ \A i \in S : i <= Ascending(S)[Cardinality(S)]
  <1> DEFINE n == Cardinality(S)
             a == Ascending(S)
  <1>1. n \in Nat
    BY FS_CardinalityType
  <1>2. \A i \in S : Rank(S, i) \in 0 .. (n - 1)
    BY RankIsBijective
  <1>3. \A m \in 0 .. (n - 1) : \E i \in S : Rank(S, i) = m
    BY RankIsBijective
  <1>3a. \A i, k \in S : Rank(S, i) = Rank(S, k) => i = k
    BY RankIsBijective
  <1>4. a = [k \in 1 .. n |-> CHOOSE i \in S : Rank(S, i) = k - 1]
    BY DEF Ascending, Rank
  <1>5. ASSUME NEW k \in 1 .. n PROVE a[k] \in S /\ Rank(S, a[k]) = k - 1
    <2>1. k - 1 \in 0 .. (n - 1)
      BY <1>1
    <2>2. \E i \in S : Rank(S, i) = k - 1
      BY <1>3, <2>1
    <2>3. QED
      BY <1>4, <2>2
  <1>6. a \in [1 .. n -> S]
    BY <1>4, <1>5
  <1> HIDE DEF a
  <1>7. a \in Seq(S) /\ Len(a) = n /\ DOMAIN a = 1 .. n
    BY <1>1, <1>6
  <1>8. ASSUME NEW i \in S PROVE \E k \in 1 .. n : a[k] = i
    <2>1. Rank(S, i) \in 0 .. (n - 1)
      BY <1>2
    <2>2. Rank(S, i) + 1 \in 1 .. n
      BY <1>1, <2>1
    <2>3. Rank(S, a[Rank(S, i) + 1]) = Rank(S, i) /\ a[Rank(S, i) + 1] \in S
      BY <1>1, <1>5, <2>1, <2>2
    <2> DEFINE k == Rank(S, i) + 1
    <2>4. k \in 1 .. n /\ a[k] \in S /\ Rank(S, a[k]) = Rank(S, i)
      BY <2>2, <2>3
    <2> HIDE DEF k
    <2>5. a[k] = i
      BY <2>4, <1>3a
    <2>6. QED
      BY <2>4, <2>5
  <1>9. S # {} => n # 0
    BY FS_EmptySet
  <1>10. ASSUME NEW i \in S PROVE i <= a[n]
    <2>1. n \in 1 .. n
      BY <1>1, <1>9
    <2>2. a[n] \in S /\ Rank(S, a[n]) = n - 1
      BY <1>5, <2>1
    <2>3. Rank(S, i) \in 0 .. (n - 1)
      BY <1>2
    <2>4. ASSUME a[n] < i PROVE FALSE
      <3> DEFINE last == a[n]
      <3>1. last \in S /\ last < i /\ Rank(S, last) = n - 1
        BY <2>2, <2>4
      <3> HIDE DEF last
      <3>2. Rank(S, last) < Rank(S, i)
        BY <3>1, RankGrows
      <3>3. QED
        BY <1>1, <2>3, <3>1, <3>2
    <2>5. i \in Nat /\ a[n] \in Nat
      BY <2>2
    <2>6. QED
      BY <2>4, <2>5
  <1>11. QED
    BY <1>1, <1>5, <1>7, <1>8, <1>9, <1>10 DEF a

\* A page that is not full leaves nothing out.
LEMMA ShortPage ==
  ASSUME NEW S \in SUBSET Nat, IsFiniteSet(S)
  PROVE  /\ Newest(S) # S => Cardinality(Newest(S)) >= PageSize
         /\ Oldest(S) # S => Cardinality(Oldest(S)) >= PageSize
  <1> USE IngestionAssumption
  <1>1. ASSUME Newest(S) # S PROVE Cardinality(Newest(S)) >= PageSize
    <2> DEFINE R == S \ Newest(S)
    <2>1. R # {} /\ R \in SUBSET Nat /\ Newest(S) \subseteq S
      BY <1>1 DEF Newest
    <2>2. IsFiniteSet(R)
      BY FS_Subset
    <2>4. PICK g \in R : \A i \in R : i <= g
      <3> HIDE DEF R
      <3>1. QED
        BY <2>1, <2>2, GreatestExists
    <2>5. IsFiniteSet(Newest(S)) /\ Cardinality(Newest(S)) \in Nat
      BY <2>1, FS_Subset, FS_CardinalityType
    <2> DEFINE above == {j \in S : j > g}
    <2>6. above \subseteq Newest(S)
      <3>1. \A j \in S : j > g => j \notin R
        BY <2>4
      <3>2. QED
        BY <3>1
    <2>7. Cardinality(above) <= Cardinality(Newest(S)) /\ Cardinality(above) \in Nat
      BY <2>5, <2>6, FS_Subset, FS_CardinalityType
    <2>8. ~(Cardinality(above) < PageSize)
      BY <2>4 DEF Newest
    <2> HIDE DEF above
    <2>9. QED
      BY <2>5, <2>7, <2>8
  <1>2. ASSUME Oldest(S) # S PROVE Cardinality(Oldest(S)) >= PageSize
    <2> DEFINE R == S \ Oldest(S)
    <2>1. R # {} /\ R \in SUBSET Nat /\ Oldest(S) \subseteq S
      BY <1>2 DEF Oldest
    <2>2. PICK g \in R : \A i \in R : g <= i
      <3> HIDE DEF R
      <3>1. QED
        BY <2>1, LeastExists
    <2>3. IsFiniteSet(Oldest(S)) /\ Cardinality(Oldest(S)) \in Nat
      BY <2>1, FS_Subset, FS_CardinalityType
    <2> DEFINE below == {j \in S : j < g}
    <2>4. below \subseteq Oldest(S)
      <3>1. \A j \in S : j < g => j \notin R
        BY <2>2
      <3>2. QED
        BY <3>1
    <2>5. Cardinality(below) <= Cardinality(Oldest(S)) /\ Cardinality(below) \in Nat
      BY <2>3, <2>4, FS_Subset, FS_CardinalityType
    <2>6. ~(Cardinality(below) < PageSize)
      BY <2>2 DEF Oldest
    <2> HIDE DEF below
    <2>7. QED
      BY <2>3, <2>5, <2>6
  <1>3. QED
    BY <1>1, <1>2


\* A page holds no more than PageSize items.
LEMMA PageIsBounded ==
  ASSUME NEW S \in SUBSET Nat, IsFiniteSet(S)
  PROVE  Cardinality(Newest(S)) <= PageSize /\ Cardinality(Oldest(S)) <= PageSize
  <1> USE IngestionAssumption
  <1>1. ASSUME NEW N \in SUBSET S, NEW m \in N, NEW B \in SUBSET S, Cardinality(B) < PageSize,
               \A i \in N : i # m => i \in B
        PROVE  Cardinality(N) <= PageSize
    <2>1. IsFiniteSet(N) /\ IsFiniteSet(B)
      BY FS_Subset
    <2>2. IsFiniteSet(N \ {m}) /\ Cardinality(N \ {m}) = Cardinality(N) - 1
      BY <2>1, FS_RemoveElement
    <2>3. N \ {m} \in SUBSET B
      BY <1>1
    <2>4. Cardinality(N \ {m}) <= Cardinality(B)
      BY <2>1, <2>3, FS_Subset
    <2>5. Cardinality(N) \in Nat /\ Cardinality(B) \in Nat
      BY <2>1, FS_CardinalityType
    <2>6. QED
      BY <1>1, <2>2, <2>4, <2>5
  <1>2. Cardinality({}) <= PageSize
    BY FS_EmptySet
  <1>3. ASSUME Newest(S) # {} PROVE Cardinality(Newest(S)) <= PageSize
    <2> DEFINE N == Newest(S)
    <2>1. N \subseteq S /\ \A i \in N : Cardinality({j \in S : j > i}) < PageSize
      BY DEF Newest
    <2> HIDE DEF N
    <2>2. PICK m \in N : \A i \in N : m <= i
      BY <1>3, <2>1, LeastExists DEF N
    <2> DEFINE B == {j \in S : j > m}
    <2>3. m \in Nat /\ \A i \in N : i \in Nat /\ i \in S
      BY <2>1
    <2>4. \A i \in N : i # m => i \in B
      BY <2>2, <2>3
    <2>5. B \in SUBSET S /\ Cardinality(B) < PageSize
      BY <2>1
    <2> HIDE DEF B
    <2>6. QED
      BY <1>1, <2>1, <2>4, <2>5 DEF N
  <1>4. ASSUME Oldest(S) # {} PROVE Cardinality(Oldest(S)) <= PageSize
    <2> DEFINE N == Oldest(S)
    <2>1. N \subseteq S /\ \A i \in N : Cardinality({j \in S : j < i}) < PageSize
      BY DEF Oldest
    <2> HIDE DEF N
    <2>2. IsFiniteSet(N) /\ N \in SUBSET Nat
      BY <2>1, FS_Subset
    <2>3. PICK m \in N : \A i \in N : i <= m
      BY <1>4, <2>2, GreatestExists DEF N
    <2> DEFINE B == {j \in S : j < m}
    <2>4. m \in Nat /\ \A i \in N : i \in Nat /\ i \in S
      BY <2>1
    <2>5. \A i \in N : i # m => i \in B
      BY <2>3, <2>4
    <2>6. B \in SUBSET S /\ Cardinality(B) < PageSize
      BY <2>1
    <2> HIDE DEF B
    <2>7. QED
      BY <1>1, <2>1, <2>5, <2>6 DEF N
  <1>5. Cardinality(Newest(S)) <= PageSize
    BY <1>2, <1>3
  <1>6. Cardinality(Oldest(S)) <= PageSize
    BY <1>2, <1>4
  <1>7. QED
    BY <1>5, <1>6

-----------------------------------------------------------------------------
(***************************************************************************)
(* One more item on the stream.                                            *)
(***************************************************************************)
LEMMA CopiesType ==
  ASSUME IngestionTypeOK, NEW i
  PROVE  IsFiniteSet({k \in DOMAIN stream : stream[k] = i}) /\ Copies(i) \in Nat
  <1> DEFINE K == {k \in DOMAIN stream : stream[k] = i}
  <1>1. DOMAIN stream = 1 .. Len(stream) /\ Len(stream) \in Nat
    BY DEF IngestionTypeOK
  <1>2. IsFiniteSet(1 .. Len(stream))
    BY <1>1, FS_Interval
  <1>3. K \subseteq 1 .. Len(stream)
    BY <1>1
  <1> HIDE DEF K
  <1>4. IsFiniteSet(K) /\ Cardinality(K) \in Nat
    BY <1>2, <1>3, FS_Subset, FS_CardinalityType
  <1>5. QED
    BY <1>4 DEF Copies, K

LEMMA ItemAppended ==
  ASSUME IngestionTypeOK, NEW x \in Nat, stream' = Append(stream, x)
  PROVE  /\ stream' \in Seq(Nat) /\ Published' = Published \union {x}
         /\ \A i \in Nat : Copies(i)' = IF i = x THEN Copies(i) + 1 ELSE Copies(i)
  <1> DEFINE n == Len(stream)
  <1>1. stream \in Seq(Nat) /\ n \in Nat /\ DOMAIN stream = 1 .. n
    BY DEF IngestionTypeOK
  <1>2. /\ stream' \in Seq(Nat) /\ DOMAIN stream' = 1 .. (n + 1)
        /\ stream'[n + 1] = x /\ \A k \in 1 .. n : stream'[k] = stream[k]
    BY <1>1
  <1>3. 1 .. (n + 1) = 1 .. n \union {n + 1} /\ n + 1 \notin 1 .. n
    BY <1>1
  <1> HIDE DEF n
  <1>4. Published' = Published \union {x}
    BY <1>1, <1>2, <1>3 DEF Published
  <1>5. ASSUME NEW i \in Nat
        PROVE  Copies(i)' = IF i = x THEN Copies(i) + 1 ELSE Copies(i)
    <2> DEFINE K == {k \in DOMAIN stream : stream[k] = i}
               L == {k \in DOMAIN stream' : stream'[k] = i}
    <2>1. Copies(i) = Cardinality(K) /\ Copies(i)' = Cardinality(L)
      BY DEF Copies
    <2>2. IsFiniteSet(K) /\ n + 1 \notin K
      BY <1>1, <1>3, CopiesType
    <2>3. L = IF i = x THEN K \union {n + 1} ELSE K
      BY <1>1, <1>2, <1>3
    <2> HIDE DEF K, L
    <2>4. QED
      BY <2>1, <2>2, <2>3, FS_AddElement
  <1>6. QED
    BY <1>2, <1>4, <1>5

\* The items of a page are numbers; its first is the next to be yielded.
LEMMA PageParts ==
  ASSUME IngestionTypeOK, page # <<>>
  PROVE  /\ Item \in Nat /\ Tail(page) \in Seq(Nat)
         /\ Waiting = {Item} \union {Tail(page)[k] : k \in DOMAIN Tail(page)}
  <1>1. page \in Seq(Nat) /\ Len(page) \in Nat \ {0} /\ DOMAIN page = 1 .. Len(page)
    BY DEF IngestionTypeOK
  <1>2. Item = page[1] /\ Item \in Nat /\ Tail(page) \in Seq(Nat)
    BY <1>1 DEF Item
  <1>3. /\ DOMAIN Tail(page) = 1 .. (Len(page) - 1)
        /\ \A k \in 1 .. (Len(page) - 1) : Tail(page)[k] = page[k + 1]
    BY <1>1
  <1>4. 1 .. Len(page) = {1} \union {k + 1 : k \in 1 .. (Len(page) - 1)}
    <2>1. ASSUME NEW j \in 1 .. Len(page), j # 1 PROVE \E k \in 1 .. (Len(page) - 1) : j = k + 1
      <3>1. j - 1 \in 1 .. (Len(page) - 1) /\ j = (j - 1) + 1
        BY <1>1, <2>1
      <3>2. QED
        BY <3>1
    <2>2. QED
      BY <1>1, <2>1
  <1>5. {Tail(page)[k] : k \in DOMAIN Tail(page)} = {page[k + 1] : k \in 1 .. (Len(page) - 1)}
    BY <1>3
  <1>6. Waiting = {page[1]} \union {page[k + 1] : k \in 1 .. (Len(page) - 1)}
    BY <1>1, <1>4 DEF Waiting
  <1>7. QED
    BY <1>2, <1>5, <1>6

-----------------------------------------------------------------------------
Lost == (claims \ Published) \ InIngest

LEMMA NoneLost ==
  ASSUME IngestionIInv, crashes' = crashes, Lost' \subseteq Lost
  PROVE  LossNeedsACrash'
  <1>1. IsFiniteSet(Lost)
    BY FS_Subset DEF Lost, IngestionIInv, IngestionTypeOK
  <1>2. Cardinality(Lost') <= Cardinality(Lost) /\ IsFiniteSet(Lost')
    BY <1>1, FS_Subset
  <1>3. Cardinality(Lost') \in Nat /\ Cardinality(Lost) \in Nat
    BY <1>1, <1>2, FS_CardinalityType
  <1>4. Cardinality(Lost) <= crashes /\ crashes \in Nat
    BY DEF Lost, IngestionIInv, LossNeedsACrash, IngestionTypeOK
  <1>5. QED
    BY <1>2, <1>3, <1>4 DEF Lost, LossNeedsACrash

LEMMA UpstreamGrowsKeeps == ASSUME IngestionIInv, UpstreamGrows PROVE IngestionIInv'
  <1> USE DEF IngestionIInv
  <1>1. /\ UNCHANGED <<source, cursor, page, emitted, tracker, step, clean, claims, stream,
                       latest, full, crashes, failures, expiries>>
        /\ offered' = offered + 1
    BY DEF UpstreamGrows, process, online, faults
  <1>2. IngestionTypeOK'
    BY <1>1 DEF IngestionTypeOK
  <1>3. Published' = Published /\ Waiting' = Waiting /\ InIngest' = InIngest /\ Item' = Item
        /\ \A i : Copies(i)' = Copies(i)
    BY <1>1 DEF Published, Waiting, InIngest, Item, Copies
  <1>4. ItemInv' /\ CopiesInv' /\ BookInv' /\ PassedOverNeedsAFullPage'
    BY <1>1, <1>3 DEF ItemInv, CopiesInv, BookInv, PassedOverNeedsAFullPage
  <1>5. LossNeedsACrash'
    BY <1>1, <1>3 DEF LossNeedsACrash
  <1>6. QED
    BY <1>2, <1>4, <1>5

\* A page that is not full holds everything the source had above the cursor.
LEMMA PollKeepsIngestion == ASSUME IngestionIInv, Poll PROVE IngestionIInv'
  <1> USE DEF IngestionIInv
  <1>1. /\ UNCHANGED <<source, offered, emitted, tracker, step, clean, claims, stream, latest,
                       crashes, failures, expiries>>
        /\ step = "poll" /\ page = <<>> /\ Page # {}
        /\ page' = Ascending(Page) /\ cursor' = page'[Len(page')]
        /\ full' = (full \/ Cardinality(Page) = PageSize)
    BY DEF Poll, online, faults
  <1> DEFINE unseen == (cursor + 1) .. offered
  <1>2. cursor \in Nat /\ offered \in Nat /\ unseen \in SUBSET Nat /\ IsFiniteSet(unseen)
    <2>1. cursor \in Nat /\ offered \in Nat
      BY DEF IngestionTypeOK
    <2>2. cursor + 1 \in Int /\ offered \in Int /\ \A i \in unseen : i \in Nat
      BY <2>1
    <2>3. IsFiniteSet(unseen)
      BY <2>2, FS_Interval
    <2>4. QED
      BY <2>1, <2>2, <2>3
  <1>3. Page \in {Newest(unseen), Oldest(unseen)} /\ Page \subseteq unseen
    BY DEF Page, Newest, Oldest
  <1>4. Page \in SUBSET Nat /\ IsFiniteSet(Page) /\ Cardinality(Page) \in Nat
    BY <1>2, <1>3, FS_Subset, FS_CardinalityType
  <1>5. /\ page' \in Seq(Page) /\ Len(page') = Cardinality(Page) /\ Waiting' = Page
        /\ Cardinality(Page) \in Nat \ {0} /\ \A i \in Page : i <= cursor'
    <2> DEFINE a == Ascending(Page)
    <2>1. /\ a \in Seq(Page) /\ Len(a) = Cardinality(Page) /\ {a[k] : k \in DOMAIN a} = Page
          /\ Cardinality(Page) \in Nat \ {0} /\ \A i \in Page : i <= a[Cardinality(Page)]
      BY <1>1, <1>4, AscendingLists
    <2>2. page' = a
      BY <1>1
    <2> HIDE DEF a
    <2>3. QED
      BY <1>1, <2>1, <2>2 DEF Waiting
  <1>6. cursor' \in Page
    BY <1>1, <1>5
  <1>7. Cardinality(Page) <= PageSize
    BY <1>2, <1>3, PageIsBounded
  <1>8. ~full' => Page = unseen
    <2>1. Page # unseen => Cardinality(Page) >= PageSize
      BY <1>2, <1>3, ShortPage
    <2>2. Page # unseen => Cardinality(Page) = PageSize
      BY <1>4, <1>7, <2>1, IngestionAssumption
    <2>3. QED
      BY <1>1, <2>2, Zenon
  <1>9. cursor' \in Nat /\ page' \in Seq(Nat) /\ full' \in BOOLEAN
    <2>2. page' \in Seq(Nat)
      BY <1>4, <1>5, SequenceOfMore
    <2>3. full' \in BOOLEAN
      BY <1>1 DEF IngestionTypeOK
    <2>4. QED
      BY <1>4, <1>6, <2>2, <2>3
  <1>10. IngestionTypeOK'
    BY <1>1, <1>9 DEF IngestionTypeOK
  <1>11. Published' = Published /\ InIngest' = {} /\ InIngest = {} /\ \A i : Copies(i)' = Copies(i)
    BY <1>1 DEF Published, InIngest, Copies
  <1>12. ItemInv' /\ CopiesInv' /\ BookInv'
    BY <1>1, <1>11 DEF ItemInv, CopiesInv, BookInv
  <1>13. LossNeedsACrash'
    BY <1>1, <1>11 DEF LossNeedsACrash
  <1>14. PassedOverNeedsAFullPage'
    <2> SUFFICES ASSUME ~full', NEW i \in 1 .. cursor'
                 PROVE  i \in Waiting' \union Published \union claims \union Refused \/ expiries > 0
      BY <1>1, <1>11 DEF PassedOverNeedsAFullPage
    <2>1. ~full
      BY <1>1 DEF IngestionTypeOK
    <2>2. CASE i <= cursor
      <3>1. i \in 1 .. cursor
        BY <1>2, <1>9, <2>2
      <3>2. i \in Waiting \union Published \union claims \union Refused \/ expiries > 0
        BY <2>1, <3>1 DEF PassedOverNeedsAFullPage
      <3>3. Waiting = {}
        BY <1>1 DEF Waiting
      <3>4. QED
        BY <3>2, <3>3
    <2>3. CASE i > cursor
      <3>1. cursor' <= offered
        BY <1>2, <1>3, <1>6
      <3>2. i \in unseen
        BY <1>2, <1>9, <2>3, <3>1
      <3>3. QED
        BY <1>5, <1>8, <3>2
    <2>4. QED
      BY <1>2, <1>9, <2>2, <2>3
  <1>15. QED
    BY <1>10, <1>12, <1>13, <1>14

LEMMA SkipKeeps == ASSUME IngestionIInv, Skip PROVE IngestionIInv'
  <1> USE DEF IngestionIInv
  <1>1. /\ UNCHANGED <<source, offered, cursor, tracker, step, clean, claims, stream, latest,
                       full, crashes, failures, expiries>>
        /\ step = "poll" /\ page # <<>> /\ Item \in Refused \union claims
        /\ emitted' = emitted + 1 /\ page' = Tail(page)
    BY DEF Skip, online, faults
  <1>2. /\ Item \in Nat /\ page' \in Seq(Nat) /\ Waiting = {Item} \union Waiting'
    BY <1>1, PageParts DEF Waiting
  <1>3. IngestionTypeOK'
    BY <1>1, <1>2 DEF IngestionTypeOK
  <1>4. Published' = Published /\ InIngest' = {} /\ InIngest = {} /\ \A i : Copies(i)' = Copies(i)
    BY <1>1 DEF Published, InIngest, Copies
  <1>5. ItemInv' /\ CopiesInv' /\ BookInv'
    BY <1>1, <1>4 DEF ItemInv, CopiesInv, BookInv
  <1>6. LossNeedsACrash'
    BY <1>1, <1>4 DEF LossNeedsACrash
  <1>7. PassedOverNeedsAFullPage'
    BY <1>1, <1>2, <1>4 DEF PassedOverNeedsAFullPage
  <1>8. QED
    BY <1>3, <1>5, <1>6, <1>7

\* SourceQualityTracker.observe: whatever the sequence number, the state of
\* the book tells the clean updates apart up to two.
LEMMA ObserveKeeps ==
  ASSUME IngestionTypeOK, BookInv, NEW sequence \in Nat, Observe(sequence)
  PROVE  /\ tracker' \in [last : Nat,
                 book : {"VALID", "GAP_DETECTED", "STALE", "RESYNCING", "RECOVERED"}]
         /\ clean' \in Nat /\ BookInv'
  <1>1. PICK stale \in BOOLEAN :
          /\ tracker' = [last |-> IF sequence > tracker.last THEN sequence ELSE tracker.last,
                         book |-> IF IsBook THEN BookAfter(sequence, stale) ELSE tracker.book]
          /\ clean' = IF ~IsBook THEN clean
                      ELSE IF stale \/ Gap(sequence) THEN 0 ELSE clean + 1
    BY DEF Observe
  <1>2. clean \in Nat /\ tracker.last \in Nat
        /\ tracker.book \in {"VALID", "GAP_DETECTED", "STALE", "RESYNCING", "RECOVERED"}
    BY DEF IngestionTypeOK
  <1>3. CASE ~IsBook
    BY <1>1, <1>2, <1>3 DEF BookInv
  <1>4. CASE IsBook /\ stale
    BY <1>1, <1>2, <1>4 DEF BookAfter, BookInv
  <1>5. CASE IsBook /\ ~stale /\ Gap(sequence)
    BY <1>1, <1>2, <1>5 DEF BookAfter, BookInv
  <1>6. CASE IsBook /\ ~stale /\ ~Gap(sequence)
    <2>1. BookAfter(sequence, stale) =
            CASE tracker.book \in {"GAP_DETECTED", "STALE"} -> "RESYNCING"
              [] tracker.book = "RESYNCING" -> "RECOVERED"
              [] tracker.book \in {"RECOVERED", "VALID"} -> "VALID"
      BY <1>6 DEF BookAfter
    <2>2. CASE tracker.book \in {"GAP_DETECTED", "STALE"}
      BY <1>1, <1>2, <1>6, <2>1, <2>2 DEF BookInv
    <2>3. CASE tracker.book = "RESYNCING"
      BY <1>1, <1>2, <1>6, <2>1, <2>3 DEF BookInv
    <2>4. CASE tracker.book \in {"RECOVERED", "VALID"}
      BY <1>1, <1>2, <1>6, <2>1, <2>4 DEF BookInv
    <2>5. QED
      BY <1>2, <2>2, <2>3, <2>4
  <1>7. QED
    BY <1>3, <1>4, <1>5, <1>6

LEMMA ClaimKeeps == ASSUME IngestionIInv, Claim PROVE IngestionIInv'
  <1> USE DEF IngestionIInv
  <1>1. /\ UNCHANGED <<source, offered, cursor, page, stream, latest, full,
                       crashes, failures, expiries>>
        /\ step = "poll" /\ page # <<>> /\ Item \notin Refused \union claims
        /\ claims' = claims \union {Item} /\ emitted' = emitted + 1 /\ step' = "publish"
        /\ \/ Observe(emitted')
           \/ UNCHANGED <<tracker, clean>>
    BY DEF Claim, faults
  <1>2. Item \in Nat /\ emitted \in Nat /\ emitted' \in Nat
    BY <1>1, PageParts DEF IngestionTypeOK
  <1>3. /\ tracker' \in [last : Nat,
              book : {"VALID", "GAP_DETECTED", "STALE", "RESYNCING", "RECOVERED"}]
        /\ clean' \in Nat /\ BookInv'
    <2>1. CASE Observe(emitted')
      <3>1. PICK n \in Nat : n = emitted'
        BY <1>2
      <3>2. Observe(n)
        BY <2>1, <3>1
      <3>3. QED
        BY <3>2, ObserveKeeps
    <2>2. CASE UNCHANGED <<tracker, clean>>
      BY <2>2 DEF IngestionTypeOK, BookInv
    <2>3. QED
      BY <1>1, <2>1, <2>2
  <1>4. claims' \in SUBSET Nat /\ IsFiniteSet(claims')
    BY <1>1, <1>2, FS_AddElement DEF IngestionTypeOK
  <1>5. IngestionTypeOK'
    BY <1>1, <1>2, <1>3, <1>4 DEF IngestionTypeOK
  <1>6. /\ Published' = Published /\ Item' = Item /\ Waiting' = Waiting
        /\ InIngest' = {Item} /\ InIngest = {} /\ \A i : Copies(i)' = Copies(i)
    BY <1>1 DEF Published, InIngest, Item, Waiting, Copies
  <1>7. ItemInv'
    BY <1>1, <1>6 DEF ItemInv
  <1>8. CopiesInv'
    BY <1>1, <1>6 DEF CopiesInv
  <1>9. LossNeedsACrash'
    BY <1>1, <1>6, NoneLost DEF Lost
  <1>10. PassedOverNeedsAFullPage'
    BY <1>1, <1>6 DEF PassedOverNeedsAFullPage
  <1>11. QED
    BY <1>3, <1>5, <1>7, <1>8, <1>9, <1>10

LEMMA PublishItemKeeps == ASSUME IngestionIInv, PublishItem PROVE IngestionIInv'
  <1> USE DEF IngestionIInv
  <1>1. /\ UNCHANGED <<source, offered, cursor, page, emitted, claims, latest, full,
                       crashes, failures, expiries>>
        /\ step = "publish" /\ step' = "set_latest" /\ stream' = Append(stream, Item)
        /\ \/ Observe(emitted)
           \/ UNCHANGED <<tracker, clean>>
    BY DEF PublishItem, faults
  <1>2. Item \in Nat /\ emitted \in Nat /\ page # <<>>
    BY <1>1, PageParts DEF IngestionTypeOK
  <1>3. /\ tracker' \in [last : Nat,
              book : {"VALID", "GAP_DETECTED", "STALE", "RESYNCING", "RECOVERED"}]
        /\ clean' \in Nat /\ BookInv'
    <2>1. CASE Observe(emitted)
      BY <1>2, <2>1, ObserveKeeps
    <2>2. CASE UNCHANGED <<tracker, clean>>
      BY <2>2 DEF IngestionTypeOK, BookInv
    <2>3. QED
      BY <1>1, <2>1, <2>2
  <1> DEFINE x == Item
  <1>4. /\ stream' \in Seq(Nat) /\ Published' = Published \union {x}
        /\ \A i \in Nat : Copies(i)' = IF i = x THEN Copies(i) + 1 ELSE Copies(i)
    BY <1>1, <1>2, ItemAppended
  <1>5. IngestionTypeOK'
    BY <1>1, <1>2, <1>3, <1>4 DEF IngestionTypeOK
  <1>6. Item' = Item /\ Waiting' = Waiting /\ InIngest' = {Item} /\ InIngest = {Item}
    BY <1>1 DEF InIngest, Item, Waiting
  <1>7. ItemInv'
    BY <1>1, <1>4, <1>6 DEF ItemInv
  <1>8. CopiesInv'
    <2>1. \A i : Copies(i) \in Nat
      BY CopiesType
    <2>2. x \in claims
      BY <1>6 DEF ItemInv
    <2>3. failures \in Nat /\ expiries \in Nat
      BY DEF IngestionTypeOK
    <2>4. Copies(x) <= failures + expiries
      BY <1>1, <1>2 DEF CopiesInv
    <2>5. ASSUME NEW i \in Nat
          PROVE  /\ Copies(i)' <= 1 + failures + expiries
                 /\ i \notin claims => Copies(i)' <= failures + expiries
      <3>1. CASE i = x
        BY <1>4, <2>1, <2>2, <2>3, <2>4, <3>1
      <3>2. CASE i # x
        BY <1>4, <3>2 DEF CopiesInv
      <3>3. QED
        BY <3>1, <3>2
    <2>6. QED
      BY <1>1, <2>5 DEF CopiesInv
  <1>9. LossNeedsACrash'
    BY <1>1, <1>4, <1>6, NoneLost DEF Lost
  <1>10. PassedOverNeedsAFullPage'
    BY <1>1, <1>4, <1>6 DEF PassedOverNeedsAFullPage
  <1>11. QED
    BY <1>3, <1>5, <1>7, <1>8, <1>9, <1>10

LEMMA SetKeeps == ASSUME IngestionIInv, SetLatest \/ SetHealth PROVE IngestionIInv'
  <1> USE DEF IngestionIInv
  <1>1. /\ UNCHANGED <<source, offered, cursor, emitted, tracker, clean, claims, stream, full,
                       crashes, failures, expiries>>
        /\ step \in {"set_latest", "set_health"}
        /\ \/ step' = "set_health" /\ page' = page
           \/ step' = "poll" /\ page' = Tail(page)
    BY DEF SetLatest, SetHealth, online, faults
  <1>2. page # <<>> /\ Item \in Published /\ Item \in claims
    BY <1>1 DEF IngestionTypeOK, ItemInv, InIngest
  <1>3. /\ page' \in Seq(Nat)
        /\ step' # "poll" => page' # <<>>
        /\ Waiting \subseteq Waiting' \union {Item}
    BY <1>1, <1>2, PageParts DEF IngestionTypeOK, Waiting
  <1>4. IngestionTypeOK'
    BY <1>1, <1>3 DEF IngestionTypeOK
  <1>5. Published' = Published /\ \A i : Copies(i)' = Copies(i)
    BY <1>1 DEF Published, Copies
  <1>6. InIngest = {Item} /\ (InIngest' = {} \/ (InIngest' = {Item} /\ Item' = Item))
    BY <1>1 DEF InIngest, Item
  <1>7. ItemInv'
    BY <1>1, <1>2, <1>5, <1>6 DEF ItemInv, Item
  <1>8. CopiesInv' /\ BookInv'
    BY <1>1, <1>5 DEF CopiesInv, BookInv
  <1>9. LossNeedsACrash'
    BY <1>1, <1>2, <1>5, <1>6, NoneLost DEF Lost
  <1>10. PassedOverNeedsAFullPage'
    BY <1>1, <1>2, <1>3, <1>5 DEF PassedOverNeedsAFullPage
  <1>11. QED
    BY <1>4, <1>7, <1>8, <1>9, <1>10

(***************************************************************************)
(* The process ends: what it was ingesting may be published or not.        *)
(***************************************************************************)
LEMMA Ended ==
  ASSUME IngestionIInv, ProcessEnds, UNCHANGED <<source, offered, full>>
  PROVE  /\ cursor' = 0 /\ page' = <<>> /\ emitted' = 0 /\ tracker' = Fresh
         /\ step' = "poll" /\ clean' = 2
         /\ InIngest' = {} /\ BookInv' /\ PassedOverNeedsAFullPage'
         /\ page' \in Seq(Nat)
         /\ tracker' \in [last : Nat,
               book : {"VALID", "GAP_DETECTED", "STALE", "RESYNCING", "RECOVERED"}]
  <1>1. /\ cursor' = 0 /\ page' = <<>> /\ emitted' = 0 /\ tracker' = Fresh
        /\ step' = "poll" /\ clean' = 2
    BY DEF ProcessEnds
  <1>2. 1 .. cursor' = {}
    BY <1>1
  <1>3. QED
    BY <1>1, <1>2 DEF InIngest, BookInv, PassedOverNeedsAFullPage, Fresh

LEMMA EndsKeep ==
  ASSUME IngestionIInv, PollFails \/ IngestorCrashes PROVE IngestionIInv'
  <1> USE DEF IngestionIInv
  <1>1. /\ UNCHANGED <<source, offered, full, claims, stream, latest, expiries>>
        /\ ProcessEnds
        /\ \/ step = "poll" /\ failures' = failures + 1 /\ crashes' = crashes
           \/ crashes' = crashes + 1 /\ failures' = failures
    BY DEF PollFails, IngestorCrashes, online
  <1>2. crashes \in Nat /\ failures \in Nat /\ crashes' \in Nat /\ failures' \in Nat
        /\ crashes <= crashes' /\ failures <= failures' /\ expiries \in Nat
    BY <1>1 DEF IngestionTypeOK
  <1>3. IngestionTypeOK'
    BY <1>1, <1>2, Ended DEF IngestionTypeOK
  <1>4. Published' = Published /\ \A i : Copies(i)' = Copies(i)
    BY <1>1 DEF Published, Copies
  <1>5. ItemInv'
    BY <1>1, Ended DEF ItemInv
  <1>6. CopiesInv'
    <2>1. \A i : Copies(i) \in Nat
      BY CopiesType
    <2>2. step' = "poll"
      BY <1>1, Ended
    <2> SUFFICES ASSUME NEW i \in Nat
                 PROVE  /\ Copies(i) <= 1 + failures' + expiries
                        /\ i \notin claims => Copies(i) <= failures' + expiries
      BY <1>1, <1>4, <2>2 DEF CopiesInv
    <2>3. QED
      BY <1>2, <2>1 DEF CopiesInv
  <1>7. LossNeedsACrash'
    <2>1. CASE step = "poll" /\ crashes' = crashes
      BY <1>1, <1>4, <2>1, Ended, NoneLost DEF Lost, InIngest
    <2>2. CASE crashes' = crashes + 1
      <3>1. Lost' \subseteq Lost \union {Item}
        BY <1>1, <1>4, Ended DEF Lost, InIngest
      <3>2. IsFiniteSet(Lost)
        BY FS_Subset DEF Lost, IngestionTypeOK
      <3>3. /\ IsFiniteSet(Lost \union {Item})
            /\ Cardinality(Lost \union {Item}) <= Cardinality(Lost) + 1
        <4>1. Cardinality(Lost) \in Nat
          BY <3>2, FS_CardinalityType
        <4>2. /\ IsFiniteSet(Lost \union {Item})
              /\ Cardinality(Lost \union {Item}) \in {Cardinality(Lost), Cardinality(Lost) + 1}
          BY <3>2, FS_AddElement
        <4>3. QED
          BY <4>1, <4>2
      <3>4. Cardinality(Lost') <= Cardinality(Lost \union {Item}) /\ IsFiniteSet(Lost')
        BY <3>1, <3>3, FS_Subset
      <3>5. /\ Cardinality(Lost') \in Nat /\ Cardinality(Lost) \in Nat
            /\ Cardinality(Lost \union {Item}) \in Nat
        BY <3>2, <3>3, <3>4, FS_CardinalityType
      <3>6. Cardinality(Lost) <= crashes
        BY DEF Lost, LossNeedsACrash
      <3>7. QED
        BY <1>2, <2>2, <3>3, <3>4, <3>5, <3>6 DEF Lost, LossNeedsACrash
    <2>3. QED
      BY <1>1, <2>1, <2>2
  <1>8. QED
    BY <1>1, <1>3, <1>5, <1>6, <1>7, Ended

\* IngestionService.ingest: the exception handler gives the claim back, and
\* the copy that may be on the stream is paid for by the failure.
LEMMA IngestFailsKeeps == ASSUME IngestionIInv, IngestFails PROVE IngestionIInv'
  <1> USE DEF IngestionIInv
  <1> DEFINE x == Item
  <1>1. /\ UNCHANGED <<source, offered, full, latest, crashes, expiries>>
        /\ step # "poll" /\ failures' = failures + 1
        /\ claims' = claims \ {x} /\ ProcessEnds
        /\ stream' = stream \/ (step = "publish" /\ stream' = Append(stream, x))
    BY DEF IngestFails
  <1>2. x \in Nat /\ failures \in Nat /\ failures' \in Nat /\ expiries \in Nat
    BY <1>1, PageParts DEF IngestionTypeOK
  <1>3. claims' \in SUBSET Nat /\ IsFiniteSet(claims')
    BY <1>1, FS_RemoveElement DEF IngestionTypeOK
  <1>4. \A i : Copies(i) \in Nat
    BY CopiesType
  <1>5. /\ stream' \in Seq(Nat) /\ Published \subseteq Published'
        /\ \A i \in Nat : \/ Copies(i)' = Copies(i)
                          \/ /\ i = x /\ step = "publish"
                             /\ Copies(i)' = Copies(i) + 1
    <2>1. CASE stream' = stream
      BY <2>1 DEF Published, Copies, IngestionTypeOK
    <2>2. CASE step = "publish" /\ stream' = Append(stream, x)
      BY <1>2, <2>2, ItemAppended
    <2>3. QED
      BY <1>1, <2>1, <2>2
  <1>6. IngestionTypeOK'
    BY <1>1, <1>2, <1>3, <1>5, Ended DEF IngestionTypeOK
  <1>7. ItemInv'
    BY <1>1, Ended DEF ItemInv
  <1>8. CopiesInv'
    <2>1. step' = "poll"
      BY <1>1, Ended
    <2> SUFFICES ASSUME NEW i \in Nat
                 PROVE  /\ Copies(i)' <= 1 + failures' + expiries
                        /\ i \notin claims' => Copies(i)' <= failures' + expiries
      BY <1>1, <2>1 DEF CopiesInv
    <2>2. CASE i = x /\ step = "publish" /\ Copies(i)' = Copies(i) + 1
      <3>1. Copies(i) <= failures + expiries
        BY <2>2 DEF CopiesInv
      <3>2. QED
        BY <1>1, <1>2, <1>4, <2>2, <3>1
    <2>3. CASE Copies(i)' = Copies(i)
      <3>1. Copies(i) <= 1 + failures + expiries
        BY DEF CopiesInv
      <3>2. QED
        BY <1>1, <1>2, <1>4, <2>3, <3>1
    <2>4. QED
      BY <1>5, <2>2, <2>3
  <1>9. LossNeedsACrash'
    <2>1. Lost' \subseteq Lost
      BY <1>1, <1>5, Ended DEF Lost, InIngest
    <2>2. QED
      BY <1>1, <2>1, NoneLost
  <1>10. QED
    BY <1>1, <1>6, <1>7, <1>8, <1>9, Ended

LEMMA ClaimTimesOutKeeps == ASSUME IngestionIInv, ClaimTimesOut PROVE IngestionIInv'
  <1> USE DEF IngestionIInv
  <1>1. PICK x \in claims \ InIngest : claims' = claims \ {x}
    BY DEF ClaimTimesOut
  <1>2. /\ UNCHANGED <<source, offered, cursor, page, emitted, tracker, step, clean, stream,
                       latest, full, crashes, failures>>
        /\ expiries' = expiries + 1
    BY DEF ClaimTimesOut, process
  <1>3. failures \in Nat /\ expiries \in Nat /\ expiries' \in Nat /\ expiries' > 0
    BY <1>2 DEF IngestionTypeOK
  <1>4. claims' \in SUBSET Nat /\ IsFiniteSet(claims')
    BY <1>1, FS_RemoveElement DEF IngestionTypeOK
  <1>5. IngestionTypeOK'
    BY <1>2, <1>3, <1>4 DEF IngestionTypeOK
  <1>6. /\ Published' = Published /\ InIngest' = InIngest /\ Item' = Item
        /\ \A i : Copies(i)' = Copies(i)
    BY <1>2 DEF Published, InIngest, Item, Copies
  <1>7. ItemInv' /\ BookInv'
    BY <1>1, <1>2, <1>6 DEF ItemInv, BookInv
  <1>8. CopiesInv'
    <2>1. \A i : Copies(i) \in Nat
      BY CopiesType
    <2>2. ASSUME NEW i \in Nat
          PROVE  /\ Copies(i) <= 1 + failures + expiries'
                 /\ Copies(i) <= failures + expiries'
      <3>1. Copies(i) <= 1 + failures + expiries
        BY DEF CopiesInv
      <3>2. QED
        BY <1>2, <1>3, <2>1, <3>1
    <2>3. QED
      BY <1>2, <1>6, <2>2 DEF CopiesInv
  <1>9. LossNeedsACrash'
    BY <1>1, <1>2, <1>6, NoneLost DEF Lost
  <1>10. PassedOverNeedsAFullPage'
    BY <1>3 DEF PassedOverNeedsAFullPage
  <1>11. QED
    BY <1>5, <1>7, <1>8, <1>9, <1>10

-----------------------------------------------------------------------------
LEMMA IngestionStep ==
  ASSUME IngestionIInv, [IngestionNext]_ingestionVars PROVE IngestionIInv'
  <1>1. CASE UNCHANGED ingestionVars
    <2>1. UNCHANGED <<source, offered, cursor, page, emitted, tracker, step, clean, claims,
                      stream, latest, full, crashes, failures, expiries>>
      BY <1>1 DEF ingestionVars, process, online, faults
    <2>2. Published' = Published /\ Waiting' = Waiting /\ InIngest' = InIngest /\ Item' = Item
          /\ \A i : Copies(i)' = Copies(i)
      BY <2>1 DEF Published, Waiting, InIngest, Item, Copies
    <2>3. IngestionTypeOK' /\ ItemInv' /\ CopiesInv' /\ BookInv'
      BY <2>1, <2>2 DEF IngestionIInv, IngestionTypeOK, ItemInv, CopiesInv, BookInv
    <2>4. LossNeedsACrash' /\ PassedOverNeedsAFullPage'
      BY <2>1, <2>2 DEF IngestionIInv, LossNeedsACrash, PassedOverNeedsAFullPage
    <2>5. QED
      BY <2>3, <2>4 DEF IngestionIInv
  <1>2. CASE UpstreamGrows \/ Poll
    BY <1>2, UpstreamGrowsKeeps, PollKeepsIngestion
  <1>3. CASE Ingest
    BY <1>3, SkipKeeps, ClaimKeeps, PublishItemKeeps, SetKeeps, IngestFailsKeeps DEF Ingest
  <1>4. CASE PollFails \/ IngestorCrashes \/ ClaimTimesOut
    BY <1>4, EndsKeep, ClaimTimesOutKeeps
  <1>5. QED
    BY <1>1, <1>2, <1>3, <1>4 DEF IngestionNext

LEMMA IngestionInitially == ASSUME IngestionInit PROVE IngestionIInv
  <1> USE DEF IngestionInit, Fresh
  <1>1. Published = {} /\ \A i : Copies(i) = 0 /\ InIngest = {} /\ DOMAIN stream = {}
    <2>1. DOMAIN stream = {}
      OBVIOUS
    <2>2. \A i : {k \in DOMAIN stream : stream[k] = i} = {}
      BY <2>1
    <2>3. QED
      BY <2>1, <2>2, FS_EmptySet DEF Published, Copies, InIngest
  <1>2. IngestionTypeOK
    <2>1. IsFiniteSet(claims) /\ claims \in SUBSET Nat
      BY FS_EmptySet
    <2>2. page \in Seq(Nat) /\ stream \in Seq(Nat)
      OBVIOUS
    <2>3. tracker \in [last : Nat,
             book : {"VALID", "GAP_DETECTED", "STALE", "RESYNCING", "RECOVERED"}]
      OBVIOUS
    <2>4. QED
      BY <2>1, <2>2, <2>3 DEF IngestionTypeOK
  <1>3. ItemInv /\ CopiesInv /\ BookInv
    BY <1>1 DEF ItemInv, CopiesInv, BookInv
  <1>4. LossNeedsACrash
    <2>1. (claims \ Published) \ InIngest = {}
      OBVIOUS
    <2>2. QED
      BY <2>1, FS_EmptySet DEF LossNeedsACrash
  <1>5. PassedOverNeedsAFullPage
    BY DEF PassedOverNeedsAFullPage
  <1>6. QED
    BY <1>2, <1>3, <1>4, <1>5 DEF IngestionIInv

LEMMA IngestionIInvTheorem == IngestionSpec => []IngestionIInv
  <1>1. IngestionInit => IngestionIInv
    BY IngestionInitially
  <1>2. IngestionIInv /\ [IngestionNext]_ingestionVars => IngestionIInv'
    BY IngestionStep
  <1>3. QED
    BY <1>1, <1>2, PTL DEF IngestionSpec

\* IngestionService.ingest and SourceQualityTracker.observe: a loss costs a
\* crash, a copy a failure or an expired claim, and an order book two clean
\* updates.
THEOREM IngestionInvTheorem == IngestionSpec => []IngestionInv
  <1>1. ASSUME IngestionIInv PROVE IngestionInv
    <2>1. CopiesNeedAFault
      <3>1. Published \subseteq Nat
        <4>1. \A k \in DOMAIN stream : stream[k] \in Nat
          BY <1>1 DEF IngestionIInv, IngestionTypeOK
        <4>2. QED
          BY <4>1 DEF Published
      <3>2. QED
        BY <1>1, <3>1 DEF IngestionIInv, CopiesInv, CopiesNeedAFault
    <2>2. BookNeedsTwoCleanUpdates
      BY <1>1 DEF IngestionIInv, BookInv, BookNeedsTwoCleanUpdates, BookValid
    <2>3. QED
      BY <1>1, <2>1, <2>2 DEF IngestionIInv, IngestionInv
  <1>2. QED
    BY <1>1, IngestionIInvTheorem, PTL

\* The providers' polls: an item below the cursor is waiting, published,
\* claimed or refused as long as no page was full.
THEOREM PassedOverTheorem == IngestionSpec => []PassedOverNeedsAFullPage
  <1>1. IngestionIInv => PassedOverNeedsAFullPage
    BY DEF IngestionIInv
  <1>2. QED
    BY <1>1, IngestionIInvTheorem, PTL

-----------------------------------------------------------------------------
(***************************************************************************)
(* Persistence. The halves of a post are kept in the cache from their      *)
(* record on, so of the two workers the one that comes second finds both   *)
(* and stores the post: PostInv says which worker still will. A file of    *)
(* the archive that a crash left torn is counted by the crashes, for it    *)
(* is of a record that will be read again.                                 *)
(***************************************************************************)

PersistenceTypeOK ==
  /\ feed \in {Half, {"market", "archive"}}
  /\ produced \in [Worker -> 0..MaxRecord] /\ \A w \in Worker \ feed : produced[w] = 0
  /\ position \in [Worker -> Nat] /\ committed \in [Worker -> Nat]
  /\ checkpoint \in [Worker -> Nat]
  /\ halves \in [Half -> SUBSET (1..MaxRecord)]
  /\ rows \in [{"market", "post"} -> SUBSET Nat]
  /\ file \in [1..MaxRecord -> {"none", "partial", "whole"}]
  /\ phase \in [Worker -> {"poll", "cache", "read", "persist", "open", "write", "save", "commit"}]
  /\ workerCrashes \in Nat

\* Offsets are those of produced records; a worker's next commit is ahead, and
\* a step of a record is taken by a worker of its kind.
WorkerInv ==
  \A w \in Worker :
    /\ position[w] <= produced[w] /\ committed[w] <= position[w]
    /\ phase[w] # "poll" => committed[w] < position[w]
    /\ phase[w] \in {"cache", "read"} => w \in Half
    /\ phase[w] \in {"open", "write"} => w = "archive"
    /\ phase[w] = "persist" => w # "archive"

\* A half of a post is kept from its record on, in order.
HalvesInv ==
  \A h \in Half :
    /\ \A j \in 1..position[h] : j \in halves[h] \/ (j = position[h] /\ phase[h] = "cache")
    /\ \A p \in halves[h] : 1..p \subseteq halves[h]
    /\ phase[h] \in {"persist", "save", "commit"} => position[h] \in halves[Other(h)]
    /\ phase[h] \in {"save", "commit"} => position[h] \in rows["post"]

\* The worker of a half will come to record j, or is about to store it.
Pending(h, j) ==
  \/ position[h] < j
  \/ position[h] = j /\ phase[h] \in {"cache", "read", "persist"}

\* A post that is complete and not stored will be, by one of the two workers:
\* the one that came second, once the other has gone on.
PostInv ==
  /\ \A j \in Nat : (\A h \in Half : j \in halves[h]) =>
       j \in rows["post"] \/ \E h \in Half : Pending(h, j)
  /\ \A h \in Half : \A p \in halves[Other(h)] : \A j \in halves[h] : j < p =>
       j \in rows["post"] \/ Pending(h, j)

MarketInv ==
  \A j \in 1..position["market"] :
    j \in rows["market"] \/ (j = position["market"] /\ phase["market"] = "persist")

\* The files a crash left behind.
Torn == {i \in 1..MaxRecord : /\ file[i] = "partial"
                              /\ ~(phase["archive"] = "write" /\ i = position["archive"])}
ArchiveInv ==
  /\ \A i \in 1..position["archive"] :
       file[i] # "none" \/ (i = position["archive"] /\ phase["archive"] = "open")
  /\ phase["archive"] = "write" => checkpoint["archive"] < position["archive"]
  /\ \A i \in 1..checkpoint["archive"] : i \in 1..MaxRecord /\ file[i] # "none"
  /\ Cardinality(Torn) <= workerCrashes

PInv ==
  /\ PersistenceTypeOK /\ WorkerInv /\ HalvesInv /\ PostInv /\ MarketInv /\ ArchiveInv
  /\ \A h \in Half : 1..checkpoint[h] \subseteq rows["post"]
  /\ 1..checkpoint["market"] \subseteq rows["market"]

-----------------------------------------------------------------------------
LEMMA OtherHalf ==
  \A h \in Half : /\ Other(h) \in Half /\ Other(h) # h /\ Other(Other(h)) = h
                  /\ \A g \in Half : g = h \/ g = Other(h)
  <1>1. Other("normalized") = "mentions" /\ Other("mentions") = "normalized"
    BY DEF Other, Half
  <1>2. QED
    BY <1>1 DEF Half

LEMMA TornIsFinite == IsFiniteSet(Torn) /\ Cardinality(Torn) \in Nat
  <1>1. IsFiniteSet(1..MaxRecord)
    BY FS_Interval, PersistenceAssumption
  <1>2. Torn \subseteq 1..MaxRecord
    BY DEF Torn
  <1>3. QED
    BY <1>1, <1>2, FS_Subset, FS_CardinalityType

\* The values a worker's step leaves alone, and the place it goes to.
LEMMA Goes ==
  ASSUME PersistenceTypeOK, NEW w \in Worker, NEW p, Goto(w, p),
         p \in {"poll", "cache", "read", "persist", "open", "write", "save", "commit"}
  PROVE  /\ phase'[w] = p
         /\ \A v \in Worker : v # w => phase'[v] = phase[v]
         /\ phase' \in [Worker -> {"poll", "cache", "read", "persist", "open", "write",
                                   "save", "commit"}]
  BY DEF PersistenceTypeOK, Goto

LEMMA ProduceKeeps == ASSUME PInv, Produce PROVE PInv'
  <1>1. /\ UNCHANGED <<feed, position, phase, committed, checkpoint, halves, rows, file,
                       workerCrashes>>
        /\ \A w \in feed : produced[w] < MaxRecord
        /\ produced' = [w \in Worker |-> IF w \in feed THEN produced[w] + 1 ELSE 0]
    BY DEF Produce, durable
  <1>2. PersistenceTypeOK'
    BY <1>1, PersistenceAssumption DEF PInv, PersistenceTypeOK
  <1>3. \A w \in Worker : produced'[w] >= produced[w] /\ produced[w] \in Nat /\ produced'[w] \in Nat
    BY <1>1, <1>2 DEF PInv, PersistenceTypeOK
  <1>4. WorkerInv'
    BY <1>1, <1>3 DEF PInv, WorkerInv, PersistenceTypeOK
  <1>5. QED
    BY <1>1, <1>2, <1>4 DEF PInv, HalvesInv, PostInv, Pending, MarketInv, ArchiveInv, Torn

LEMMA PollKeeps == ASSUME PInv, NEW w \in Worker, PollRecord(w) PROVE PInv'
  <1> USE DEF PInv
  <1>1. /\ UNCHANGED <<feed, produced, committed, checkpoint, halves, rows, file, workerCrashes>>
        /\ phase[w] = "poll" /\ position[w] < produced[w]
        /\ position' = [position EXCEPT ![w] = @ + 1] /\ Goto(w, First(w))
    BY DEF PollRecord, durable
  <1>2. /\ w \in Half => First(w) = "cache"
        /\ w = "market" => First(w) = "persist"
        /\ w = "archive" => First(w) = "open"
        /\ First(w) \in {"cache", "persist", "open"}
    BY DEF First, Worker, Half
  <1>3. /\ phase'[w] = First(w) /\ \A v \in Worker : v # w => phase'[v] = phase[v]
        /\ phase' \in [Worker -> {"poll", "cache", "read", "persist", "open", "write",
                                  "save", "commit"}]
    BY <1>1, <1>2, Goes
  <1>4. /\ position'[w] = position[w] + 1
        /\ \A v \in Worker : v # w => position'[v] = position[v]
        /\ position' \in [Worker -> Nat]
    BY <1>1 DEF PersistenceTypeOK
  <1>5. PersistenceTypeOK'
    BY <1>1, <1>3, <1>4 DEF PersistenceTypeOK
  <1>6. \A v \in Worker : /\ produced[v] \in Nat /\ position[v] \in Nat
                          /\ committed[v] \in Nat /\ checkpoint[v] \in Nat
    BY DEF PersistenceTypeOK
  <1>7. WorkerInv'
    BY <1>1, <1>2, <1>3, <1>4, <1>6 DEF WorkerInv, Half, Worker
  <1>8. Half \subseteq Worker /\ "market" \in Worker /\ "archive" \in Worker
        /\ "market" \notin Half /\ "archive" \notin Half
    BY DEF Worker, Half
  <1>9. HalvesInv'
    BY <1>1, <1>2, <1>3, <1>4, <1>6, <1>8 DEF HalvesInv
  <1>10. \A h \in Half, j \in Nat : Pending(h, j)' <=> Pending(h, j)
    BY <1>1, <1>2, <1>3, <1>4, <1>6, <1>8 DEF Pending
  <1>11. PostInv'
    <2>1. \A h \in Half : halves[h] \subseteq Nat
      BY DEF PersistenceTypeOK
    <2>2. QED
      BY <1>1, <1>10, <2>1, OtherHalf DEF PostInv
  <1>12. MarketInv'
    BY <1>1, <1>2, <1>3, <1>4, <1>6, <1>8 DEF MarketInv
  <1>13. ArchiveInv'
    <2>1. Torn' = Torn
      BY <1>1, <1>2, <1>3, <1>4, <1>8 DEF Torn
    <2>2. QED
      BY <1>1, <1>2, <1>3, <1>4, <1>6, <1>8, <2>1 DEF ArchiveInv
  <1>14. QED
    BY <1>1, <1>5, <1>7, <1>9, <1>11, <1>12, <1>13

LEMMA WorkerKinds ==
  /\ Half \subseteq Worker /\ "market" \in Worker /\ "archive" \in Worker
  /\ "market" \notin Half /\ "archive" \notin Half
  /\ \A w \in Worker : w \in Half \/ w = "market" \/ w = "archive"
  BY DEF Worker, Half

\* The types of the offsets, and that a worker with a record has one.
LEMMA Offsets ==
  ASSUME PInv, NEW w \in Worker
  PROVE  /\ produced[w] \in 0..MaxRecord /\ position[w] \in Nat /\ committed[w] \in Nat
         /\ checkpoint[w] \in Nat /\ position[w] <= produced[w] /\ committed[w] <= position[w]
         /\ phase[w] # "poll" => committed[w] < position[w] /\ position[w] \in 1..MaxRecord
  BY PersistenceAssumption DEF PInv, PersistenceTypeOK, WorkerInv

LEMMA CacheKeeps == ASSUME PInv, NEW w \in Worker, CacheHalf(w) PROVE PInv'
  <1> USE DEF PInv
  <1>1. /\ UNCHANGED <<feed, produced, position, committed, checkpoint, rows, file, workerCrashes>>
        /\ phase[w] = "cache" /\ Goto(w, "read")
        /\ halves' = [halves EXCEPT ![w] = @ \union {position[w]}]
    BY DEF CacheHalf
  <1>2. /\ phase'[w] = "read" /\ \A v \in Worker : v # w => phase'[v] = phase[v]
        /\ phase' \in [Worker -> {"poll", "cache", "read", "persist", "open", "write",
                                  "save", "commit"}]
    BY <1>1, Goes
  <1>3. w \in Half /\ position[w] \in 1..MaxRecord
    BY <1>1, Offsets DEF WorkerInv
  <1>4. /\ halves'[w] = halves[w] \union {position[w]}
        /\ \A h \in Half : h # w => halves'[h] = halves[h]
        /\ halves' \in [Half -> SUBSET (1..MaxRecord)]
    BY <1>1, <1>3 DEF PersistenceTypeOK
  <1>5. PersistenceTypeOK'
    BY <1>1, <1>2, <1>4 DEF PersistenceTypeOK
  <1>6. WorkerInv'
    BY <1>1, <1>2, <1>3 DEF WorkerInv
  <1>7. \A j \in 1..(position[w] - 1) : j \in halves[w]
    BY <1>3 DEF HalvesInv
  <1>8. HalvesInv'
    <2>1. 1..position[w] \subseteq halves'[w]
      BY <1>3, <1>4, <1>7
    <2>2. ASSUME NEW h \in Half
          PROVE  /\ \A j \in 1..position[h] :
                      j \in halves'[h] \/ (j = position[h] /\ phase'[h] = "cache")
                 /\ \A p \in halves'[h] : 1..p \subseteq halves'[h]
                 /\ phase'[h] \in {"persist", "save", "commit"} =>
                      position[h] \in halves'[Other(h)]
                 /\ phase'[h] \in {"save", "commit"} => position[h] \in rows["post"]
      <3>1. CASE h = w
        BY <1>2, <1>4, <2>1, <3>1, WorkerKinds DEF HalvesInv
      <3>2. CASE h # w
        BY <1>2, <1>4, <3>2, WorkerKinds, OtherHalf DEF HalvesInv
      <3>3. QED
        BY <3>1, <3>2
    <2>3. QED
      BY <1>1, <2>2 DEF HalvesInv
  <1>9. \A h \in Half, j \in Nat : Pending(h, j)' <=> Pending(h, j)
    BY <1>1, <1>2, WorkerKinds DEF Pending
  <1>10. \A h \in Half : halves[h] \subseteq Nat /\ halves'[h] \subseteq Nat
    BY <1>4 DEF PersistenceTypeOK
  <1>11. Pending(w, position[w])
    BY <1>1 DEF Pending
  <1>12. ASSUME NEW j \in Nat, \A h \in Half : j \in halves'[h]
         PROVE  j \in rows["post"] \/ \E h \in Half : Pending(h, j)
    <2>1. CASE j = position[w]
      BY <1>3, <1>11, <2>1
    <2>2. CASE j # position[w]
      BY <1>4, <1>12, <2>2 DEF PostInv
    <2>3. QED
      BY <2>1, <2>2
  <1>13. ASSUME NEW h \in Half, NEW p \in halves'[Other(h)], NEW j \in halves'[h], j < p
         PROVE  j \in rows["post"] \/ Pending(h, j)
    <2>1. CASE h = w
      <3>1. p \in halves[Other(h)]
        BY <1>4, <2>1, OtherHalf
      <3>2. QED
        BY <1>3, <1>4, <1>11, <1>13, <2>1, <3>1 DEF PostInv
    <2>2. CASE h # w
      <3>1. w = Other(h) /\ j \in halves[h] /\ j \in Nat
        BY <1>4, <1>10, <2>2, <1>3, OtherHalf
      <3>2. CASE p \in halves[w]
        BY <1>13, <3>1, <3>2 DEF PostInv
      <3>3. CASE p = position[w]
        <4>1. j \in 1..(position[w] - 1)
          BY <1>3, <1>4, <1>13, <3>1, <3>3 DEF PersistenceTypeOK
        <4>2. j \in halves[w]
          BY <1>7, <4>1
        <4>3. j \in rows["post"] \/ \E g \in Half : Pending(g, j)
          BY <3>1, <4>2, OtherHalf DEF PostInv
        <4>4. ~Pending(w, j)
          BY <1>3, <4>1 DEF Pending
        <4>5. QED
          BY <3>1, <4>3, <4>4, OtherHalf
      <3>4. QED
        BY <1>4, <3>1, <3>2, <3>3
    <2>3. QED
      BY <2>1, <2>2
  <1>14. PostInv'
    BY <1>1, <1>9, <1>10, <1>12, <1>13, OtherHalf DEF PostInv
  <1>15. MarketInv' /\ ArchiveInv'
    <2>1. Torn' = Torn
      BY <1>1, <1>2, <1>3, WorkerKinds DEF Torn
    <2>2. QED
      BY <1>1, <1>2, <1>3, <2>1, WorkerKinds DEF MarketInv, ArchiveInv
  <1>16. QED
    BY <1>1, <1>5, <1>6, <1>8, <1>14, <1>15

LEMMA ReadKeeps == ASSUME PInv, NEW w \in Worker, ReadPair(w) PROVE PInv'
  <1> USE DEF PInv
  <1> DEFINE next == IF position[w] \in halves[Other(w)] THEN "persist" ELSE "poll"
  <1>1. /\ UNCHANGED <<feed, produced, position, committed, checkpoint, halves, rows, file,
                       workerCrashes>>
        /\ phase[w] = "read" /\ Goto(w, next)
    BY DEF ReadPair, durable
  <1>2. /\ phase'[w] = next /\ \A v \in Worker : v # w => phase'[v] = phase[v]
        /\ phase' \in [Worker -> {"poll", "cache", "read", "persist", "open", "write",
                                  "save", "commit"}]
    BY <1>1, Goes
  <1>3. w \in Half /\ position[w] \in 1..MaxRecord /\ position[w] \in halves[w]
    BY <1>1, Offsets DEF WorkerInv, HalvesInv
  <1>4. PersistenceTypeOK'
    BY <1>1, <1>2 DEF PersistenceTypeOK
  <1>5. WorkerInv'
    BY <1>1, <1>2, <1>3, Offsets, WorkerKinds DEF WorkerInv
  <1>6. HalvesInv'
    BY <1>1, <1>2, <1>3, WorkerKinds DEF HalvesInv
  <1>7. \A h \in Half, j \in Nat : Pending(h, j) =>
          Pending(h, j)' \/ (h = w /\ j = position[w] /\ j \notin halves[Other(w)])
    BY <1>1, <1>2, WorkerKinds DEF Pending
  <1>8. ASSUME NEW j \in Nat, \A h \in Half : j \in halves[h]
        PROVE  j \in rows["post"] \/ \E h \in Half : Pending(h, j)'
    BY <1>3, <1>7, <1>8, OtherHalf DEF PostInv
  <1>9. ASSUME NEW h \in Half, NEW p \in halves[Other(h)], NEW j \in halves[h], j < p
        PROVE  j \in rows["post"] \/ Pending(h, j)'
    <2>1. j \in halves[Other(h)] /\ j \in Nat
      <3>1. 1..p \subseteq halves[Other(h)]
        BY OtherHalf DEF HalvesInv
      <3>2. j \in 1..MaxRecord /\ p \in 1..MaxRecord
        BY OtherHalf DEF PersistenceTypeOK
      <3>3. QED
        BY <1>9, <3>1, <3>2
    <2>2. QED
      BY <1>7, <1>9, <2>1 DEF PostInv
  <1>10. PostInv'
    BY <1>1, <1>8, <1>9 DEF PostInv
  <1>11. MarketInv' /\ ArchiveInv'
    <2>1. Torn' = Torn
      BY <1>1, <1>2, <1>3, WorkerKinds DEF Torn
    <2>2. QED
      BY <1>1, <1>2, <1>3, <2>1, WorkerKinds DEF MarketInv, ArchiveInv
  <1>12. QED
    BY <1>1, <1>4, <1>5, <1>6, <1>10, <1>11

LEMMA PersistKeeps == ASSUME PInv, NEW w \in Worker, PersistRecord(w) PROVE PInv'
  <1> USE DEF PInv
  <1> DEFINE table == IF w \in Half THEN "post" ELSE "market"
  <1>1. /\ UNCHANGED <<feed, produced, position, committed, checkpoint, halves, file,
                       workerCrashes>>
        /\ phase[w] = "persist" /\ Goto(w, "save")
        /\ rows' = [rows EXCEPT ![table] = @ \union {position[w]}]
    BY DEF PersistRecord
  <1>2. /\ phase'[w] = "save" /\ \A v \in Worker : v # w => phase'[v] = phase[v]
        /\ phase' \in [Worker -> {"poll", "cache", "read", "persist", "open", "write",
                                  "save", "commit"}]
    BY <1>1, Goes
  <1>3. w # "archive" /\ position[w] \in 1..MaxRecord
    BY <1>1, Offsets DEF WorkerInv
  <1>4. /\ rows' \in [{"market", "post"} -> SUBSET Nat]
        /\ rows["market"] \subseteq rows'["market"] /\ rows["post"] \subseteq rows'["post"]
        /\ w \in Half => position[w] \in rows'["post"]
        /\ w = "market" => position[w] \in rows'["market"]
    BY <1>1, <1>3, WorkerKinds DEF PersistenceTypeOK
  <1>5. PersistenceTypeOK'
    BY <1>1, <1>2, <1>4 DEF PersistenceTypeOK
  <1>6. WorkerInv'
    BY <1>1, <1>2, <1>3, Offsets, WorkerKinds DEF WorkerInv
  <1>7. HalvesInv'
    BY <1>1, <1>2, <1>4, WorkerKinds DEF HalvesInv
  <1>8. \A h \in Half, j \in Nat : Pending(h, j) => Pending(h, j)' \/ j \in rows'["post"]
    BY <1>1, <1>2, <1>4, WorkerKinds DEF Pending
  <1>9. PostInv'
    <2>1. \A h \in Half : halves[h] \subseteq Nat
      BY DEF PersistenceTypeOK
    <2>2. QED
      BY <1>1, <1>4, <1>8, <2>1, OtherHalf DEF PostInv
  <1>10. MarketInv'
    BY <1>1, <1>2, <1>4, WorkerKinds DEF MarketInv
  <1>11. ArchiveInv'
    <2>1. Torn' = Torn
      BY <1>1, <1>2, <1>3, WorkerKinds DEF Torn
    <2>2. QED
      BY <1>1, <1>2, <1>3, <2>1, WorkerKinds DEF ArchiveInv
  <1>12. QED
    BY <1>1, <1>4, <1>5, <1>6, <1>7, <1>9, <1>10, <1>11

\* A step of the archive worker leaves the posts and the market records alone.
LEMMA ArchiveStepKeeps ==
  ASSUME PInv, UNCHANGED <<position, halves, rows>>,
         \A v \in Worker : v # "archive" => phase'[v] = phase[v]
  PROVE  HalvesInv' /\ PostInv' /\ MarketInv'
  <1> USE DEF PInv
  <1>1. \A h \in Half : phase'[h] = phase[h]
    BY WorkerKinds
  <1>2. \A h \in Half : \A j : Pending(h, j)' <=> Pending(h, j)
    BY <1>1 DEF Pending
  <1>3. HalvesInv' /\ PostInv'
    BY <1>1, <1>2 DEF HalvesInv, PostInv
  <1>4. MarketInv'
    BY WorkerKinds DEF MarketInv
  <1>5. QED
    BY <1>3, <1>4

LEMMA OpenKeeps == ASSUME PInv, NEW w \in Worker, OpenFile(w) PROVE PInv'
  <1> USE DEF PInv
  <1> DEFINE i == position[w]
  <1>1. /\ UNCHANGED <<feed, produced, position, committed, checkpoint, halves, rows,
                       workerCrashes>>
        /\ phase[w] = "open"
        /\ \/ file[i] = "none" /\ file' = [file EXCEPT ![i] = "partial"] /\ Goto(w, "write")
           \/ file[i] # "none" /\ UNCHANGED file /\ Goto(w, "save")
    BY DEF OpenFile
  <1>2. w = "archive" /\ i \in 1..MaxRecord /\ checkpoint[w] \in Nat
    BY <1>1, Offsets DEF WorkerInv
  <1>3. /\ phase'[w] \in {"write", "save"} /\ \A v \in Worker : v # w => phase'[v] = phase[v]
        /\ phase' \in [Worker -> {"poll", "cache", "read", "persist", "open", "write",
                                  "save", "commit"}]
    BY <1>1, Goes
  <1>4. PersistenceTypeOK'
    BY <1>1, <1>2, <1>3 DEF PersistenceTypeOK
  <1>5. WorkerInv'
    BY <1>1, <1>2, <1>3, WorkerKinds DEF WorkerInv
  <1>6. HalvesInv' /\ PostInv' /\ MarketInv'
    BY <1>1, <1>2, <1>3, ArchiveStepKeeps
  <1>7. ArchiveInv'
    <2>1. CASE file[i] # "none"
      <3>1. UNCHANGED file /\ phase'[w] = "save"
        BY <1>1, <2>1, Goes
      <3>2. Torn' = Torn
        BY <1>1, <1>2, <3>1 DEF Torn
      <3>3. QED
        BY <1>1, <1>2, <2>1, <3>1, <3>2 DEF ArchiveInv
    <2>2. CASE file[i] = "none"
      <3>1. phase'[w] = "write" /\ file' = [file EXCEPT ![i] = "partial"]
        BY <1>1, <2>2, Goes
      <3>2. file'[i] = "partial" /\ \A j \in 1..MaxRecord : j # i => file'[j] = file[j]
        BY <1>2, <3>1 DEF PersistenceTypeOK
      <3>3. Torn' = Torn
        BY <1>1, <1>2, <2>2, <3>1, <3>2 DEF Torn
      <3>4. checkpoint[w] < i
        BY <1>2, <2>2 DEF ArchiveInv
      <3>5. \A j \in 1..i : j \in 1..MaxRecord
        BY <1>2, PersistenceAssumption
      <3>6. QED
        BY <1>1, <1>2, <3>1, <3>2, <3>3, <3>4, <3>5 DEF ArchiveInv
    <2>3. QED
      BY <2>1, <2>2
  <1>8. QED
    BY <1>1, <1>4, <1>5, <1>6, <1>7

LEMMA WriteKeeps == ASSUME PInv, NEW w \in Worker, WriteFile(w) PROVE PInv'
  <1> USE DEF PInv
  <1> DEFINE i == position[w]
  <1>1. /\ UNCHANGED <<feed, produced, position, committed, checkpoint, halves, rows,
                       workerCrashes>>
        /\ phase[w] = "write" /\ Goto(w, "save")
        /\ file' = [file EXCEPT ![i] = "whole"]
    BY DEF WriteFile
  <1>2. w = "archive" /\ i \in 1..MaxRecord
    BY <1>1, Offsets DEF WorkerInv
  <1>3. /\ phase'[w] = "save" /\ \A v \in Worker : v # w => phase'[v] = phase[v]
        /\ phase' \in [Worker -> {"poll", "cache", "read", "persist", "open", "write",
                                  "save", "commit"}]
    BY <1>1, Goes
  <1>4. /\ file'[i] = "whole" /\ \A j \in 1..MaxRecord : j # i => file'[j] = file[j]
        /\ file' \in [1..MaxRecord -> {"none", "partial", "whole"}]
    BY <1>1, <1>2 DEF PersistenceTypeOK
  <1>5. PersistenceTypeOK'
    BY <1>1, <1>3, <1>4 DEF PersistenceTypeOK
  <1>6. WorkerInv'
    BY <1>1, <1>2, <1>3, WorkerKinds DEF WorkerInv
  <1>7. HalvesInv' /\ PostInv' /\ MarketInv'
    BY <1>1, <1>2, <1>3, ArchiveStepKeeps
  <1>8. Torn' = Torn
    BY <1>1, <1>2, <1>3, <1>4 DEF Torn
  <1>9. ArchiveInv'
    BY <1>1, <1>2, <1>3, <1>4, <1>8, PersistenceAssumption DEF ArchiveInv
  <1>10. QED
    BY <1>1, <1>5, <1>6, <1>7, <1>9

LEMMA SaveKeeps == ASSUME PInv, NEW w \in Worker, SaveOffset(w) PROVE PInv'
  <1> USE DEF PInv
  <1>1. /\ UNCHANGED <<feed, produced, position, committed, halves, rows, file, workerCrashes>>
        /\ phase[w] = "save" /\ Goto(w, "commit")
        /\ checkpoint' = [checkpoint EXCEPT ![w] = AtLeast(@, position[w])]
    BY DEF SaveOffset
  <1>2. /\ phase'[w] = "commit" /\ \A v \in Worker : v # w => phase'[v] = phase[v]
        /\ phase' \in [Worker -> {"poll", "cache", "read", "persist", "open", "write",
                                  "save", "commit"}]
    BY <1>1, Goes
  <1>3. position[w] \in 1..MaxRecord /\ checkpoint[w] \in Nat
    BY <1>1, Offsets
  <1>4. /\ checkpoint'[w] \in {checkpoint[w], position[w]}
        /\ \A v \in Worker : v # w => checkpoint'[v] = checkpoint[v]
        /\ checkpoint' \in [Worker -> Nat]
    BY <1>1, <1>3 DEF PersistenceTypeOK, AtLeast
  <1>5. PersistenceTypeOK'
    BY <1>1, <1>2, <1>4 DEF PersistenceTypeOK
  <1>6. WorkerInv'
    BY <1>1, <1>2, <1>3, WorkerKinds DEF WorkerInv
  <1>7. HalvesInv'
    BY <1>1, <1>2, WorkerKinds DEF HalvesInv
  <1>8. \A h \in Half, j \in Nat : Pending(h, j)' <=> Pending(h, j)
    BY <1>1, <1>2, WorkerKinds DEF Pending
  <1>9. PostInv'
    <2>1. \A h \in Half : halves[h] \subseteq Nat
      BY DEF PersistenceTypeOK
    <2>2. QED
      BY <1>1, <1>8, <2>1, OtherHalf DEF PostInv
  <1>10. MarketInv'
    BY <1>1, <1>2, WorkerKinds DEF MarketInv
  <1>11. ASSUME w \in Half PROVE 1..position[w] \subseteq rows["post"]
    <2> SUFFICES ASSUME NEW j \in 1..position[w] PROVE j \in rows["post"]
      OBVIOUS
    <2>1. CASE j = position[w]
      BY <1>1, <1>11, <2>1 DEF HalvesInv
    <2>2. CASE j # position[w]
      <3>1. position[w] \in halves[Other(w)] /\ j \in halves[w] /\ j < position[w]
        BY <1>1, <1>3, <1>11, <2>2 DEF HalvesInv
      <3>2. ~Pending(w, j)
        BY <1>3, <2>2 DEF Pending
      <3>3. QED
        BY <1>11, <3>1, <3>2 DEF PostInv
    <2>3. QED
      BY <2>1, <2>2
  <1>12. ASSUME w = "market" PROVE 1..position[w] \subseteq rows["market"]
    BY <1>1, <1>12 DEF MarketInv
  <1>13. ArchiveInv'
    <2>1. Torn' = Torn
      BY <1>1, <1>2, WorkerKinds DEF Torn
    <2>2. w = "archive" => \A j \in 1..position[w] : j \in 1..MaxRecord /\ file[j] # "none"
      BY <1>1, <1>3, PersistenceAssumption DEF ArchiveInv
    <2>3. QED
      BY <1>1, <1>2, <1>4, <2>1, <2>2, WorkerKinds DEF ArchiveInv
  <1>14. \A h \in Half : 1..checkpoint'[h] \subseteq rows["post"]
    BY <1>4, <1>11, WorkerKinds
  <1>15. 1..checkpoint'["market"] \subseteq rows["market"]
    BY <1>4, <1>12, WorkerKinds
  <1>16. QED
    BY <1>1, <1>5, <1>6, <1>7, <1>9, <1>10, <1>13, <1>14, <1>15

LEMMA CommitKeeps == ASSUME PInv, NEW w \in Worker, CommitRecord(w) PROVE PInv'
  <1> USE DEF PInv
  <1>1. /\ UNCHANGED <<feed, produced, position, checkpoint, halves, rows, file, workerCrashes>>
        /\ phase[w] = "commit" /\ Goto(w, "poll")
        /\ committed' = [committed EXCEPT ![w] = position[w]]
    BY DEF CommitRecord
  <1>2. /\ phase'[w] = "poll" /\ \A v \in Worker : v # w => phase'[v] = phase[v]
        /\ phase' \in [Worker -> {"poll", "cache", "read", "persist", "open", "write",
                                  "save", "commit"}]
    BY <1>1, Goes
  <1>3. position[w] \in 1..MaxRecord
    BY <1>1, Offsets
  <1>4. /\ committed'[w] = position[w]
        /\ \A v \in Worker : v # w => committed'[v] = committed[v]
        /\ committed' \in [Worker -> Nat]
    BY <1>1, <1>3 DEF PersistenceTypeOK
  <1>5. PersistenceTypeOK'
    BY <1>1, <1>2, <1>4 DEF PersistenceTypeOK
  <1>6. WorkerInv'
    BY <1>1, <1>2, <1>3, <1>4, WorkerKinds DEF WorkerInv
  <1>7. HalvesInv'
    BY <1>1, <1>2, WorkerKinds DEF HalvesInv
  <1>8. \A h \in Half, j \in Nat : Pending(h, j)' <=> Pending(h, j)
    BY <1>1, <1>2, WorkerKinds DEF Pending
  <1>9. PostInv'
    <2>1. \A h \in Half : halves[h] \subseteq Nat
      BY DEF PersistenceTypeOK
    <2>2. QED
      BY <1>1, <1>8, <2>1, OtherHalf DEF PostInv
  <1>10. MarketInv'
    BY <1>1, <1>2, WorkerKinds DEF MarketInv
  <1>11. ArchiveInv'
    <2>1. Torn' = Torn
      BY <1>1, <1>2, WorkerKinds DEF Torn
    <2>2. QED
      BY <1>1, <1>2, <2>1, WorkerKinds DEF ArchiveInv
  <1>12. QED
    BY <1>1, <1>5, <1>6, <1>7, <1>9, <1>10, <1>11

LEMMA CrashKeeps == ASSUME PInv, NEW w \in Worker, WorkerCrashes(w) PROVE PInv'
  <1> USE DEF PInv
  <1>1. /\ UNCHANGED <<feed, produced, committed, checkpoint, halves, rows, file>>
        /\ workerCrashes' = workerCrashes + 1 /\ Goto(w, "poll")
        /\ position' = [position EXCEPT ![w] = committed[w]]
    BY DEF WorkerCrashes, durable
  <1>2. /\ phase'[w] = "poll" /\ \A v \in Worker : v # w => phase'[v] = phase[v]
        /\ phase' \in [Worker -> {"poll", "cache", "read", "persist", "open", "write",
                                  "save", "commit"}]
    BY <1>1, Goes
  <1>3. /\ position[w] \in Nat /\ committed[w] \in Nat /\ committed[w] <= position[w]
        /\ phase[w] # "poll" => committed[w] < position[w]
        /\ produced[w] \in Nat /\ position[w] <= produced[w]
    BY Offsets
  <1>4. /\ position'[w] = committed[w]
        /\ \A v \in Worker : v # w => position'[v] = position[v]
        /\ position' \in [Worker -> Nat]
    BY <1>1, <1>3 DEF PersistenceTypeOK
  <1>5. PersistenceTypeOK'
    BY <1>1, <1>2, <1>4 DEF PersistenceTypeOK
  <1>6. WorkerInv'
    BY <1>1, <1>2, <1>3, <1>4, WorkerKinds DEF WorkerInv
  <1>7. HalvesInv'
    BY <1>1, <1>2, <1>3, <1>4, WorkerKinds DEF HalvesInv
  <1>8. \A h \in Half, j \in Nat : Pending(h, j) => Pending(h, j)'
    BY <1>1, <1>2, <1>3, <1>4, WorkerKinds DEF Pending
  <1>9. PostInv'
    <2>1. \A h \in Half : halves[h] \subseteq Nat
      BY DEF PersistenceTypeOK
    <2>2. QED
      BY <1>1, <1>8, <2>1, OtherHalf DEF PostInv
  <1>10. MarketInv'
    BY <1>1, <1>2, <1>3, <1>4, WorkerKinds DEF MarketInv
  <1>11. ArchiveInv'
    <2>1. workerCrashes \in Nat
      BY DEF PersistenceTypeOK
    <2>2. Cardinality(Torn') <= workerCrashes + 1
      <3>1. CASE w = "archive" /\ phase[w] = "write"
        <4>1. Torn' \subseteq Torn \union {position[w]}
          BY <1>1, <3>1 DEF Torn
        <4>2. /\ IsFiniteSet(Torn \union {position[w]})
              /\ Cardinality(Torn \union {position[w]}) <= Cardinality(Torn) + 1
              /\ Cardinality(Torn \union {position[w]}) \in Nat
          <5>1. IsFiniteSet(Torn \union {position[w]})
            BY TornIsFinite, FS_AddElement
          <5>2. Cardinality(Torn \union {position[w]}) =
                  IF position[w] \in Torn THEN Cardinality(Torn) ELSE Cardinality(Torn) + 1
            BY TornIsFinite, FS_AddElement
          <5>3. QED
            BY <5>1, <5>2, TornIsFinite
        <4>3. /\ IsFiniteSet(Torn')
              /\ Cardinality(Torn') <= Cardinality(Torn \union {position[w]})
              /\ Cardinality(Torn') \in Nat
          BY <4>1, <4>2, FS_Subset, FS_CardinalityType
        <4>4. QED
          BY <2>1, <4>2, <4>3, TornIsFinite DEF ArchiveInv
      <3>2. CASE ~(w = "archive" /\ phase[w] = "write")
        <4>1. Torn' = Torn
          BY <1>1, <1>2, <1>4, <3>2, WorkerKinds DEF Torn
        <4>2. QED
          BY <2>1, <4>1, TornIsFinite DEF ArchiveInv
      <3>3. QED
        BY <3>1, <3>2
    <2>3. QED
      BY <1>1, <1>2, <1>3, <1>4, <2>2, WorkerKinds DEF ArchiveInv
  <1>12. QED
    BY <1>1, <1>5, <1>6, <1>7, <1>9, <1>10, <1>11

LEMMA PersistenceStep == PInv /\ [PersistenceNext]_persistenceVars => PInv'
  <1> SUFFICES ASSUME PInv, [PersistenceNext]_persistenceVars PROVE PInv'
    OBVIOUS
  <1>1. CASE UNCHANGED persistenceVars
    BY <1>1 DEF persistenceVars, durable, PInv, PersistenceTypeOK, WorkerInv, HalvesInv,
                PostInv, Pending, MarketInv, ArchiveInv, Torn
  <1>2. ASSUME NEW w \in Worker, Work(w) PROVE PInv'
    BY <1>2, PollKeeps, CacheKeeps, ReadKeeps, PersistKeeps, OpenKeeps, WriteKeeps,
       SaveKeeps, CommitKeeps DEF Work
  <1>3. QED
    BY <1>1, <1>2, ProduceKeeps, CrashKeeps DEF PersistenceNext

LEMMA PersistenceInitially == PersistenceInit => PInv
  <1> SUFFICES ASSUME PersistenceInit PROVE PInv
    OBVIOUS
  <1>1. PersistenceTypeOK /\ WorkerInv
    BY PersistenceAssumption DEF PersistenceInit, PersistenceTypeOK, WorkerInv
  <1>2. \A w \in Worker : position[w] = 0 /\ checkpoint[w] = 0 /\ phase[w] = "poll"
    BY DEF PersistenceInit
  <1>3. \A h \in Half : halves[h] = {}
    BY DEF PersistenceInit
  <1>4. HalvesInv /\ PostInv /\ MarketInv
    BY <1>2, <1>3, WorkerKinds DEF HalvesInv, PostInv, MarketInv, Half
  <1>5. ArchiveInv
    <2>1. Torn = {}
      BY DEF PersistenceInit, Torn
    <2>2. workerCrashes = 0
      BY DEF PersistenceInit
    <2>3. QED
      BY <1>2, <2>1, <2>2, FS_EmptySet, WorkerKinds DEF ArchiveInv
  <1>6. QED
    BY <1>1, <1>2, <1>4, <1>5, WorkerKinds DEF PInv

(***************************************************************************)
(* For any number of records and crashes: what a persistence worker's      *)
(* checkpoint claims is in PostgreSQL, and a checkpointed record lacks its *)
(* whole archive file only if a crash tore it.                             *)
(***************************************************************************)
THEOREM CheckpointedIsStoredTheorem == PersistenceSpec => []CheckpointedIsStored
  <1>1. PInv => CheckpointedIsStored
    <2> SUFFICES ASSUME PInv PROVE CheckpointedIsStored
      OBVIOUS
    <2> DEFINE lacking == {i \in 1..checkpoint["archive"] : file[i] # "whole"}
    <2>1. lacking \subseteq Torn
      <3> SUFFICES ASSUME NEW i \in lacking PROVE i \in Torn
        OBVIOUS
      <3>1. i \in 1..checkpoint["archive"] /\ i \in 1..MaxRecord /\ file[i] = "partial"
        BY DEF PInv, ArchiveInv, PersistenceTypeOK
      <3>2. ~(phase["archive"] = "write" /\ i = position["archive"])
        BY <3>1, WorkerKinds, Offsets DEF PInv, ArchiveInv
      <3>3. QED
        BY <3>1, <3>2 DEF Torn
    <2>2. Cardinality(lacking) <= Cardinality(Torn) /\ Cardinality(lacking) \in Nat
      BY <2>1, TornIsFinite, FS_Subset, FS_CardinalityType
    <2>3. workerCrashes \in Nat /\ Cardinality(Torn) <= workerCrashes
      BY DEF PInv, ArchiveInv, PersistenceTypeOK
    <2> HIDE DEF lacking
    <2>4. Cardinality(lacking) <= workerCrashes
      BY <2>2, <2>3, TornIsFinite
    <2>5. QED
      BY <2>4 DEF CheckpointedIsStored, PInv, lacking
  <1>2. QED
    BY <1>1, PersistenceInitially, PersistenceStep, PTL DEF PersistenceSpec

-----------------------------------------------------------------------------
(***************************************************************************)
(* Verification. PublishedInv follows a content from the site through the  *)
(* batch and the transaction into the versions: by the time it is said to  *)
(* be available it was public. VerdictInv is why a verdict that raced      *)
(* with no transaction is the same when it is repeated: what is still to   *)
(* be stored is available after the alert. The last part maps the          *)
(* documents and their versions to VersionHistory, step by step.           *)
(***************************************************************************)

EtagRow == [revision : Nat, contents : [Doc -> Content \union {Nothing}]]
Batch == [etag : EtagRow, left : SUBSET Doc]
Transaction == [doc : Doc, content : Content, available : Time]
Version == [content : Content, available : Time, status : {"CURRENT", "SUPERSEDED"}]
Result == {"CONFLICTING", "SUPPORTED_BEFORE_ALERT", "SUPPORTED_AFTER_ALERT",
           "UNSUPPORTED", "UNKNOWN"}

VerificationTypeOK ==
  /\ now \in Time /\ site \in [Doc -> Content \union {Nothing}]
  /\ public \in SUBSET [doc : Doc, content : Content, since : Time] /\ IsFiniteSet(public)
  /\ versions \in [Doc -> Seq(Version)]
  /\ run \in [status : {"NEVER_RUN", "RUNNING", "FAILED", "RATE_LIMITED", "CIRCUIT_OPEN",
                        "SUCCESS", "PARTIAL"},
              etag : EtagRow \union {Nothing}]
  /\ at \in {"idle", "fetch", "ingest", "failed", "limited", "refused"}
  /\ at = "ingest" => batch \in Batch
  /\ errors \in Nat
  /\ transaction \in Transaction \union {Nothing}
  /\ verdicts \in [AlertTime -> [result : Result, raced : BOOLEAN] \union {Nothing}]

\* By time t the source served content c, if P is what it ever served.
WasPublic(P, c, t) == \E p \in P : p.content = c /\ p.since <= t

\* On its way into the tables a content carries a time by which it was public.
PublishedInv ==
  /\ \A d \in Doc : site[d] # Nothing => WasPublic(public, site[d], now)
  /\ at = "ingest" => \A d \in Doc : batch.etag.contents[d] # Nothing =>
                         WasPublic(public, batch.etag.contents[d], now)
  /\ transaction # Nothing => WasPublic(public, transaction.content, transaction.available)
  /\ \A d \in Doc : \A k \in DOMAIN versions[d] :
       WasPublic(public, versions[d][k].content, versions[d][k].available)

Stored(d, c) == \E k \in DOMAIN versions[d] : versions[d][k].content = c

\* What a batch was served is still to come, in the transaction, stored, or
\* counted as an error.
BatchInv ==
  at = "ingest" =>
    /\ \A d \in batch.left : batch.etag.contents[d] # Nothing
    /\ errors = 0 => \A d \in Doc : batch.etag.contents[d] # Nothing =>
         \/ d \in batch.left
         \/ /\ transaction # Nothing /\ transaction.doc = d
            /\ transaction.content = batch.etag.contents[d]
         \/ Stored(d, batch.etag.contents[d])

TransactionInv ==
  transaction # Nothing =>
    /\ at = "ingest" /\ transaction.available <= now
    /\ ~IsUnchanged(transaction.doc, transaction.content)

\* Nothing that is still to be stored will count as known at an alert that
\* was judged without a race.
VerdictInv ==
  \A t \in AlertTime : verdicts[t] # Nothing =>
    /\ t < now
    /\ ~verdicts[t].raced =>
         /\ transaction # Nothing => transaction.available > t
         /\ verdicts[t].result = "CONFLICTING" <=> "conflict" \in Before(t)
         /\ verdicts[t].result = "SUPPORTED_BEFORE_ALERT" <=>
              "conflict" \notin Before(t) /\ "support" \in Before(t)

VInv ==
  /\ VerificationTypeOK /\ PublishedInv /\ BatchInv /\ TransactionInv /\ VerdictInv
  /\ CheckpointIsStored /\ NoHindsight

-----------------------------------------------------------------------------
LEMMA TimeIsNat == Time \subseteq Nat /\ AlertTime \subseteq Nat
  BY VerificationAssumption DEF Time

LEMMA RowsAreSomething ==
  /\ \A e \in EtagRow : e # Nothing
  /\ \A x \in Transaction : x # Nothing
  BY VerificationAssumption DEF EtagRow, Transaction

LEMMA CurrentEtag == ASSUME VerificationTypeOK PROVE Etag \in EtagRow /\ Etag.contents = site
  <1>1. Cardinality(public) \in Nat
    BY FS_CardinalityType DEF VerificationTypeOK
  <1>2. QED
    BY <1>1 DEF Etag, EtagRow, VerificationTypeOK

\* A verdict is grounded on what was known at the alert, and on nothing else.
LEMMA VerdictIsGrounded ==
  ASSUME NEW t
  PROVE  /\ Verdict(t) \in Result
         /\ Verdict(t) = "CONFLICTING" <=> "conflict" \in Before(t)
         /\ Verdict(t) = "SUPPORTED_BEFORE_ALERT" <=>
              "conflict" \notin Before(t) /\ "support" \in Before(t)
  <1>1. CASE "conflict" \in Before(t)
    <2>1. Before(t) \intersect Matching # {}
      BY <1>1 DEF Matching
    <2>2. Verdict(t) = "CONFLICTING"
      BY <1>1, <2>1 DEF Verdict
    <2>3. QED
      BY <1>1, <2>2 DEF Result
  <1>2. CASE "conflict" \notin Before(t) /\ "support" \in Before(t)
    <2>1. Before(t) \intersect Matching # {}
      BY <1>2 DEF Matching
    <2>2. Verdict(t) = "SUPPORTED_BEFORE_ALERT"
      BY <1>2, <2>1 DEF Verdict
    <2>3. QED
      BY <1>2, <2>2 DEF Result
  <1>3. CASE "conflict" \notin Before(t) /\ "support" \notin Before(t)
    <2>1. Before(t) \intersect Matching = {}
      BY <1>3 DEF Matching
    <2>2. Verdict(t) = IF Future(t) \intersect Matching # {} THEN "SUPPORTED_AFTER_ALERT"
                       ELSE IF Covered(t) /\ Before(t) \union Future(t) # {} THEN "UNSUPPORTED"
                       ELSE "UNKNOWN"
      BY <1>3, <2>1 DEF Verdict
    <2>3. QED
      BY <1>3, <2>2 DEF Result
  <1>4. QED
    BY <1>1, <1>2, <1>3

(***************************************************************************)
(* Steps of the worker's memory, the clock and the source, which leave the *)
(* versions and the verdicts alone.                                        *)
(***************************************************************************)
LEMMA VersionsKept ==
  ASSUME VInv, UNCHANGED <<versions, verdicts>>,
         now' >= now, now' \in Time, public \subseteq public',
         \/ transaction' \in {transaction, Nothing}
         \/ transaction'.available = now
  PROVE  VerdictInv' /\ NoHindsight'
  <1> USE DEF VInv
  <1>1. \A t : Before(t)' = Before(t)
    BY DEF Before, NewestAvailable
  <1>2. VerdictInv'
    <2> SUFFICES ASSUME NEW t \in AlertTime, verdicts[t] # Nothing
                 PROVE  /\ t < now'
                        /\ ~verdicts[t].raced =>
                             /\ transaction' # Nothing => transaction'.available > t
                             /\ verdicts[t].result = "CONFLICTING" <=> "conflict" \in Before(t)
                             /\ verdicts[t].result = "SUPPORTED_BEFORE_ALERT" <=>
                                  "conflict" \notin Before(t) /\ "support" \in Before(t)
      BY <1>1 DEF VerdictInv
    <2>1. t < now /\ t \in Nat /\ now \in Nat /\ now' \in Nat
      BY TimeIsNat DEF VerdictInv, VerificationTypeOK
    <2>2. ~verdicts[t].raced /\ transaction' # Nothing => transaction'.available > t
      BY <2>1 DEF VerdictInv
    <2>3. QED
      BY <2>1, <2>2 DEF VerdictInv
  <1>3. NoHindsight'
    BY DEF NoHindsight
  <1>4. QED
    BY <1>2, <1>3

LEMMA TimePassesKeeps == ASSUME VInv, TimePasses PROVE VInv'
  <1> USE DEF VInv
  <1>1. /\ UNCHANGED <<site, public, versions, run, completed, verdicts, at, batch, ingested,
                       errors, transaction, breaker, troubles>>
        /\ now' = now + 1 /\ now < MaxTime
    BY DEF TimePasses, tables, memory
  <1>2. now' \in Time /\ now \in Nat /\ now' \in Nat
    BY <1>1, VerificationAssumption DEF VerificationTypeOK, Time
  <1>3. VerificationTypeOK'
    BY <1>1, <1>2 DEF VerificationTypeOK
  <1>4. \A c : WasPublic(public, c, now) => WasPublic(public, c, now')
    <2>1. \A p \in public : p.since \in Nat
      BY TimeIsNat DEF VerificationTypeOK
    <2>2. QED
      BY <1>1, <1>2, <2>1 DEF WasPublic
  <1>5. PublishedInv'
    BY <1>1, <1>4 DEF PublishedInv, WasPublic
  <1>6. BatchInv' /\ CheckpointIsStored'
    BY <1>1 DEF BatchInv, Stored, CheckpointIsStored
  <1>7. TransactionInv'
    <2>1. transaction # Nothing => transaction.available \in Nat
      BY TimeIsNat DEF VerificationTypeOK, Transaction
    <2>2. QED
      BY <1>1, <1>2, <2>1 DEF TransactionInv, IsUnchanged, Latest
  <1>8. VerdictInv' /\ NoHindsight'
    BY <1>1, <1>2, VersionsKept
  <1>9. QED
    BY <1>3, <1>5, <1>6, <1>7, <1>8

LEMMA SourcePublishesKeeps == ASSUME VInv, SourcePublishes PROVE VInv'
  <1> USE DEF VInv
  <1>1. /\ UNCHANGED <<now, versions, run, completed, verdicts, at, batch, ingested,
                       errors, transaction, breaker, troubles>>
    BY DEF SourcePublishes, tables, memory
  <1>2. PICK d \in Doc, c \in Content :
          /\ site' = [site EXCEPT ![d] = c]
          /\ public' = public \union {[doc |-> d, content |-> c, since |-> now]}
    BY DEF SourcePublishes
  <1> DEFINE p == [doc |-> d, content |-> c, since |-> now]
  <1>3. p \in [doc : Doc, content : Content, since : Time] /\ p.content = c /\ p.since = now
    BY DEF VerificationTypeOK
  <1> HIDE DEF p
  <1>4. public' = public \union {p}
    BY <1>2 DEF p
  <1>5. VerificationTypeOK'
    <2>1. IsFiniteSet(public')
      BY <1>4, FS_AddElement DEF VerificationTypeOK
    <2>2. site' \in [Doc -> Content \union {Nothing}]
      BY <1>2 DEF VerificationTypeOK
    <2>3. QED
      BY <1>1, <1>3, <1>4, <2>1, <2>2 DEF VerificationTypeOK
  <1>6. \A x, t : WasPublic(public, x, t) => WasPublic(public', x, t)
    BY <1>4 DEF WasPublic
  <1>7. WasPublic(public', c, now)
    <2>1. now \in Nat /\ p \in public'
      BY <1>4, TimeIsNat DEF VerificationTypeOK
    <2>2. QED
      BY <1>1, <1>3, <2>1 DEF WasPublic
  <1>8. \A e \in Doc : site'[e] # Nothing => WasPublic(public', site'[e], now)
    <2>1. site \in [Doc -> Content \union {Nothing}]
      BY DEF VerificationTypeOK
    <2>2. \A e \in Doc : site'[e] = IF e = d THEN c ELSE site[e]
      BY <1>2, <2>1
    <2>3. \A e \in Doc : site[e] # Nothing => WasPublic(public', site[e], now)
      BY <1>1, <1>6 DEF PublishedInv
    <2>4. QED
      BY <1>7, <2>2, <2>3
  <1>9. PublishedInv'
    <2>1. at' = "ingest" => \A e \in Doc : batch'.etag.contents[e] # Nothing =>
                              WasPublic(public', batch'.etag.contents[e], now)
      BY <1>1, <1>6 DEF PublishedInv
    <2>2. transaction' # Nothing => WasPublic(public', transaction'.content, transaction'.available)
      BY <1>1, <1>6 DEF PublishedInv
    <2>3. \A e \in Doc : \A k \in DOMAIN versions'[e] :
            WasPublic(public', versions'[e][k].content, versions'[e][k].available)
      BY <1>1, <1>6 DEF PublishedInv
    <2>4. QED
      BY <1>1, <1>8, <2>1, <2>2, <2>3 DEF PublishedInv
  <1>10. BatchInv' /\ CheckpointIsStored' /\ TransactionInv'
    BY <1>1 DEF BatchInv, Stored, CheckpointIsStored, TransactionInv, IsUnchanged, Latest
  <1>11. VerdictInv' /\ NoHindsight'
    BY <1>1, <1>4, VersionsKept, TimeIsNat DEF VerificationTypeOK
  <1>12. QED
    BY <1>5, <1>9, <1>10, <1>11

\* A run starts, fails, is refused or is lost: no batch and no transaction.
LEMMA NoBatchKeeps ==
  ASSUME VInv, UNCHANGED <<now, site, public, versions, verdicts>>,
         at' \in {"idle", "fetch", "failed", "limited", "refused"}, transaction' = Nothing,
         errors' \in Nat,
         run' \in [status : {"NEVER_RUN", "RUNNING", "FAILED", "RATE_LIMITED", "CIRCUIT_OPEN",
                             "SUCCESS", "PARTIAL"}, etag : EtagRow \union {Nothing}],
         run'.etag = run.etag \/ CheckpointIsStored'
  PROVE  VInv'
  <1> USE DEF VInv
  <1>1. VerificationTypeOK'
    BY DEF VerificationTypeOK
  <1>2. PublishedInv' /\ BatchInv' /\ TransactionInv'
    BY DEF PublishedInv, WasPublic, BatchInv, TransactionInv
  <1>3. CheckpointIsStored'
    BY DEF CheckpointIsStored
  <1>4. VerdictInv' /\ NoHindsight'
    BY VersionsKept, TimeIsNat DEF VerificationTypeOK
  <1>5. QED
    BY <1>1, <1>2, <1>3, <1>4

LEMMA RunStepsKeep ==
  ASSUME VInv, StartRun \/ FetchFails \/ FetchRefused \/ RecoveryElapses \/ ConnectorCrashes
  PROVE  VInv'
  <1> USE DEF VInv
  <1>1. transaction = Nothing \/ at = "ingest"
    BY DEF TransactionInv
  <1>2. run.etag \in EtagRow \union {Nothing} /\ errors \in Nat
    BY DEF VerificationTypeOK
  <1>3. CASE StartRun
    BY <1>1, <1>2, <1>3, NoBatchKeeps DEF StartRun, VerificationTypeOK
  <1>4. CASE FetchFails \/ FetchRefused
    BY <1>1, <1>2, <1>4, NoBatchKeeps DEF FetchFails, FetchRefused, tables, VerificationTypeOK
  <1>5. CASE ConnectorCrashes
    BY <1>2, <1>5, NoBatchKeeps DEF ConnectorCrashes, tables, VerificationTypeOK
  <1>6. CASE RecoveryElapses
    <2>1. UNCHANGED <<now, site, public, versions, run, completed, verdicts, at, batch,
                      ingested, errors, transaction, troubles>>
      BY <1>6 DEF RecoveryElapses, tables
    <2>2. VerdictInv' /\ NoHindsight'
      BY <2>1, VersionsKept, TimeIsNat DEF VerificationTypeOK
    <2>3. QED
      BY <2>1, <2>2 DEF VerificationTypeOK, PublishedInv, WasPublic, BatchInv, Stored,
                        TransactionInv, IsUnchanged, Latest, CheckpointIsStored
  <1>7. QED
    BY <1>3, <1>4, <1>5, <1>6

LEMMA FetchBatchKeeps == ASSUME VInv, FetchBatch PROVE VInv'
  <1> USE DEF VInv
  <1>1. /\ UNCHANGED <<now, site, public, versions, run, completed, verdicts, ingested, errors,
                       transaction, troubles>>
        /\ at = "fetch" /\ at' = "ingest"
        /\ batch' = [etag |-> Etag, left |-> IF run.etag = Etag THEN {} ELSE Served]
    BY DEF FetchBatch, tables
  <1>2. Etag \in EtagRow /\ Etag.contents = site /\ Etag # Nothing
    BY CurrentEtag, RowsAreSomething
  <1>3. transaction = Nothing
    BY <1>1 DEF TransactionInv
  <1> DEFINE left == IF run.etag = Etag THEN {} ELSE Served
  <1>4. left \subseteq Doc /\ \A d \in left : site[d] # Nothing
    BY DEF Served
  <1>5. batch'.etag = Etag /\ batch'.left = left /\ batch' \in Batch
    BY <1>1, <1>2, <1>4 DEF Batch
  <1>6. VerificationTypeOK'
    BY <1>1, <1>5 DEF VerificationTypeOK
  <1>7. PublishedInv'
    BY <1>1, <1>2, <1>5 DEF PublishedInv, WasPublic
  <1>8. BatchInv'
    <2>1. ASSUME NEW d \in Doc, site[d] # Nothing
          PROVE  d \in left \/ Stored(d, site[d])
      <3>1. CASE run.etag = Etag
        BY <1>2, <2>1, <3>1 DEF CheckpointIsStored, Stored
      <3>2. CASE run.etag # Etag
        BY <2>1, <3>2 DEF Served
      <3>3. QED
        BY <3>1, <3>2
    <2> HIDE DEF left
    <2>2. QED
      BY <1>1, <1>2, <1>4, <1>5, <2>1 DEF BatchInv, Stored
  <1>9. TransactionInv' /\ CheckpointIsStored'
    BY <1>1, <1>3 DEF TransactionInv, CheckpointIsStored
  <1>10. VerdictInv' /\ NoHindsight'
    BY <1>1, VersionsKept, TimeIsNat DEF VerificationTypeOK
  <1>11. QED
    BY <1>6, <1>7, <1>8, <1>9, <1>10

LEMMA BeginPersistKeeps == ASSUME VInv, BeginPersist PROVE VInv'
  <1> USE DEF VInv
  <1>1. /\ UNCHANGED <<now, site, public, versions, run, completed, verdicts, at, ingested,
                       errors, troubles>>
        /\ at = "ingest" /\ transaction = Nothing
    BY DEF BeginPersist, tables
  <1>2. PICK d \in batch.left :
          /\ batch' = [batch EXCEPT !.left = @ \ {d}]
          /\ transaction' = IF IsUnchanged(d, batch.etag.contents[d]) THEN Nothing
                            ELSE [doc |-> d, content |-> batch.etag.contents[d],
                                  available |-> now]
    BY DEF BeginPersist
  <1> DEFINE c == batch.etag.contents[d]
             x == [doc |-> d, content |-> c, available |-> now]
  <1>3. batch \in Batch /\ now \in Time /\ now \in Nat
    BY <1>1, TimeIsNat DEF VerificationTypeOK
  <1>4. d \in Doc /\ batch.etag \in EtagRow /\ batch.left \subseteq Doc
    BY <1>3 DEF Batch
  <1>5. c # Nothing /\ c \in Content
    BY <1>1, <1>4 DEF BatchInv, EtagRow
  <1>6. /\ x \in Transaction /\ x # Nothing /\ x.doc = d /\ x.content = c /\ x.available = now
    BY <1>3, <1>4, <1>5, RowsAreSomething DEF Transaction
  <1>7. batch' \in Batch /\ batch'.etag = batch.etag /\ batch'.left = batch.left \ {d}
    BY <1>2, <1>3, <1>4 DEF Batch
  <1>8. transaction' = IF IsUnchanged(d, c) THEN Nothing ELSE x
    BY <1>2
  <1>9. WasPublic(public, c, now)
    BY <1>1, <1>4, <1>5 DEF PublishedInv
  <1> HIDE DEF c, x
  <1>10. VerificationTypeOK'
    BY <1>1, <1>6, <1>7, <1>8 DEF VerificationTypeOK
  <1>11. PublishedInv'
    BY <1>1, <1>6, <1>7, <1>8, <1>9 DEF PublishedInv, WasPublic
  <1>12. IsUnchanged(d, c) => Stored(d, c)
    <2> SUFFICES ASSUME versions[d] # <<>>, Latest(d).content = c PROVE Stored(d, c)
      BY DEF IsUnchanged
    <2>1. versions[d] \in Seq(Version)
      BY <1>4 DEF VerificationTypeOK
    <2>2. Len(versions[d]) \in DOMAIN versions[d]
      BY <2>1
    <2>3. QED
      BY <2>2 DEF Latest, Stored
  <1>13. BatchInv'
    <2>1. \A e \in batch'.left : batch'.etag.contents[e] # Nothing
      BY <1>1, <1>7 DEF BatchInv
    <2>2. ASSUME NEW e \in Doc, errors = 0, batch.etag.contents[e] # Nothing
          PROVE  \/ e \in batch'.left
                 \/ /\ transaction' # Nothing /\ transaction'.doc = e
                    /\ transaction'.content = batch.etag.contents[e]
                 \/ Stored(e, batch.etag.contents[e])
      <3>1. CASE e = d
        BY <1>6, <1>8, <1>12, <3>1 DEF c
      <3>2. CASE e # d
        BY <1>1, <1>7, <2>2, <3>2 DEF BatchInv
      <3>3. QED
        BY <3>1, <3>2
    <2>3. QED
      BY <1>1, <1>7, <2>1, <2>2 DEF BatchInv, Stored
  <1>14. TransactionInv'
    BY <1>1, <1>3, <1>6, <1>8 DEF TransactionInv, IsUnchanged, Latest
  <1>15. CheckpointIsStored'
    BY <1>1 DEF CheckpointIsStored
  <1>16. VerdictInv' /\ NoHindsight'
    BY <1>1, <1>3, <1>6, <1>8, VersionsKept
  <1>17. QED
    BY <1>10, <1>11, <1>13, <1>14, <1>15, <1>16

(***************************************************************************)
(* A new version: the older ones keep their contents and times.            *)
(***************************************************************************)
LEMMA VersionAdded ==
  ASSUME VInv, CommitPersist
  PROVE  LET x == transaction
             old == versions[x.doc]
             new == versions'[x.doc]
         IN  /\ x \in Transaction /\ x.doc \in Doc /\ old \in Seq(Version)
             /\ \A d \in Doc : d # x.doc => versions'[d] = versions[d]
             /\ versions' \in [Doc -> Seq(Version)]
             /\ Len(old) \in Nat /\ DOMAIN old = 1 .. Len(old)
             /\ Len(new) = Len(old) + 1 /\ DOMAIN new = 1 .. (Len(old) + 1)
             /\ \A k \in DOMAIN old : /\ new[k].content = old[k].content
                                      /\ new[k].available = old[k].available
                                      /\ new[k].status = "SUPERSEDED"
             /\ new[Len(old) + 1].content = x.content
             /\ new[Len(old) + 1].available = x.available
             /\ new[Len(old) + 1].status = "CURRENT"
  <1> USE DEF VInv
  <1> DEFINE x == transaction
             old == versions[x.doc]
  <1>1. x # Nothing /\ versions' = [versions EXCEPT ![x.doc] = Append(Superseded(@), NewVersion(x))]
    BY DEF CommitPersist
  <1>2. /\ x \in Transaction /\ versions \in [Doc -> Seq(Version)]
        /\ x.doc \in Doc /\ x.content \in Content /\ x.available \in Time
    BY <1>1 DEF VerificationTypeOK, Transaction
  <1>3. old \in Seq(Version) /\ Len(old) \in Nat /\ DOMAIN old = 1 .. Len(old)
    BY <1>2
  <1> DEFINE sup == Superseded(old)
             v == NewVersion(x)
  <1>4. v \in Version /\ v.content = x.content /\ v.available = x.available
        /\ v.status = "CURRENT"
    BY <1>2 DEF NewVersion, Version
  <1>5. \A k \in 1 .. Len(old) : old[k] \in Version
    BY <1>3
  <1>6. sup = [k \in 1 .. Len(old) |-> [old[k] EXCEPT !.status = "SUPERSEDED"]]
    BY <1>3 DEF Superseded
  <1>7. ASSUME NEW k \in 1 .. Len(old)
        PROVE  /\ sup[k] \in Version /\ sup[k].content = old[k].content
               /\ sup[k].available = old[k].available /\ sup[k].status = "SUPERSEDED"
    BY <1>5, <1>6 DEF Version
  <1>8. sup \in Seq(Version) /\ Len(sup) = Len(old)
    <2>1. DOMAIN sup = 1 .. Len(old)
      BY <1>6
    <2>2. sup \in [1 .. Len(old) -> Version]
      BY <1>6, <1>7
    <2> HIDE DEF sup
    <2>3. QED
      BY <1>3, <2>1, <2>2
  <1>9. versions' = [versions EXCEPT ![x.doc] = Append(sup, v)]
    BY <1>1
  <1> HIDE DEF sup, v
  <1>10. versions'[x.doc] = Append(sup, v)
    BY <1>2, <1>9
  <1>11. versions' \in [Doc -> Seq(Version)] /\ \A d \in Doc : d # x.doc => versions'[d] = versions[d]
    BY <1>2, <1>4, <1>8, <1>9
  <1> DEFINE new == Append(sup, v)
  <1>12. /\ Len(new) = Len(old) + 1 /\ DOMAIN new = 1 .. (Len(old) + 1)
         /\ new[Len(old) + 1] = v /\ \A k \in 1 .. Len(old) : new[k] = sup[k]
    BY <1>3, <1>4, <1>8
  <1> HIDE DEF new
  <1>13. QED
    BY <1>2, <1>3, <1>4, <1>7, <1>10, <1>11, <1>12 DEF new

LEMMA CommitPersistKeeps == ASSUME VInv, CommitPersist PROVE VInv'
  <1> USE DEF VInv
  <1> DEFINE x == transaction
             old == versions[x.doc]
             new == versions'[x.doc]
  <1>1. /\ UNCHANGED <<now, site, public, run, completed, verdicts, at, batch, errors,
                       breaker, troubles>>
        /\ transaction # Nothing /\ transaction' = Nothing
    BY DEF CommitPersist
  <1>2. /\ x \in Transaction /\ x.doc \in Doc /\ old \in Seq(Version)
        /\ \A d \in Doc : d # x.doc => versions'[d] = versions[d]
        /\ versions' \in [Doc -> Seq(Version)]
        /\ Len(old) \in Nat /\ DOMAIN old = 1 .. Len(old)
        /\ Len(new) = Len(old) + 1 /\ DOMAIN new = 1 .. (Len(old) + 1)
        /\ \A k \in DOMAIN old : /\ new[k].content = old[k].content
                                 /\ new[k].available = old[k].available
                                 /\ new[k].status = "SUPERSEDED"
        /\ new[Len(old) + 1].content = x.content
        /\ new[Len(old) + 1].available = x.available
        /\ new[Len(old) + 1].status = "CURRENT"
    BY VersionAdded
  <1> HIDE DEF old, new
  <1>3. VerificationTypeOK'
    BY <1>1, <1>2 DEF VerificationTypeOK
  <1> DEFINE Now(d, c) == \E k \in DOMAIN versions'[d] : versions'[d][k].content = c
  <1>4. \A d \in Doc : \A c : Stored(d, c) => Now(d, c)
    <2> SUFFICES ASSUME NEW d \in Doc, NEW c, NEW k \in DOMAIN versions[d],
                        versions[d][k].content = c
                 PROVE  Now(d, c)
      BY DEF Stored
    <2>1. CASE d = x.doc
      <3>1. k \in DOMAIN old /\ k \in DOMAIN new /\ new[k].content = c
        BY <1>2, <2>1 DEF old
      <3>2. QED
        BY <2>1, <3>1 DEF new
    <2>2. CASE d # x.doc
      BY <1>2, <2>2
    <2>3. QED
      BY <2>1, <2>2
  <1>5. Now(x.doc, x.content)
    <2>1. Len(old) + 1 \in DOMAIN new
      BY <1>2
    <2>2. QED
      BY <1>2, <2>1 DEF new
  <1>6. PublishedInv'
    <2>1. ASSUME NEW d \in Doc, NEW k \in DOMAIN versions'[d]
          PROVE  WasPublic(public, versions'[d][k].content, versions'[d][k].available)
      <3>1. CASE d # x.doc
        BY <1>2, <3>1 DEF PublishedInv
      <3>2. CASE d = x.doc /\ k = Len(old) + 1
        BY <1>1, <1>2, <3>2 DEF PublishedInv, new
      <3>3. CASE d = x.doc /\ k # Len(old) + 1
        <4>1. k \in DOMAIN old
          BY <1>2, <3>3 DEF new
        <4>2. QED
          BY <1>2, <3>3, <4>1 DEF PublishedInv, old, new
      <3>4. QED
        BY <3>1, <3>2, <3>3
    <2>2. QED
      BY <1>1, <2>1 DEF PublishedInv
  <1>7. BatchInv'
    <2>1. ASSUME at = "ingest", errors = 0,
                 NEW d \in Doc, batch.etag.contents[d] # Nothing, d \notin batch.left
          PROVE  Now(d, batch.etag.contents[d])
      BY <1>1, <1>4, <1>5, <2>1 DEF BatchInv
    <2>2. QED
      BY <1>1, <2>1 DEF BatchInv, Stored
  <1>8. TransactionInv' /\ NoHindsight'
    BY <1>1 DEF TransactionInv, NoHindsight
  <1>9. CheckpointIsStored'
    <2>1. ASSUME NEW d \in Doc, run.etag # Nothing, run.etag.contents[d] # Nothing
          PROVE  Now(d, run.etag.contents[d])
      BY <1>4, <2>1 DEF CheckpointIsStored, Stored
    <2>2. QED
      BY <1>1, <2>1 DEF CheckpointIsStored
  <1>10. \A t \in AlertTime : x.available > t => Before(t)' = Before(t)
    <2> SUFFICES ASSUME NEW t \in AlertTime, x.available > t
                 PROVE  Before(t)' = Before(t)
      OBVIOUS
    <2> DEFINE Is(vs, k) == /\ k \in DOMAIN vs /\ vs[k].available <= t
                            /\ \A j \in DOMAIN vs : vs[j].available <= t => j <= k
    <2>1. ASSUME NEW d \in Doc, NEW k
          PROVE  /\ Is(versions'[d], k) <=> Is(versions[d], k)
                 /\ Is(versions[d], k) => versions'[d][k].content = versions[d][k].content
      <3>1. CASE d # x.doc
        BY <1>2, <3>1
      <3>2. CASE d = x.doc
        <4>1. t \in Nat /\ x.available \in Nat
          BY <1>2, TimeIsNat DEF Transaction
        <4>2. \A i \in DOMAIN new : new[i].available <= t => i \in DOMAIN old
          BY <1>2, <4>1
        <4>3. \A i \in DOMAIN old : i \in DOMAIN new /\ new[i].available = old[i].available
          BY <1>2
        <4>4. Is(new, k) <=> Is(old, k)
          BY <4>2, <4>3
        <4>5. Is(old, k) => new[k].content = old[k].content
          BY <1>2
        <4>6. QED
          BY <3>2, <4>4, <4>5 DEF new, old
      <3>3. QED
        BY <3>1, <3>2
    <2>2. \A c : c \in Before(t) <=>
                   \E d \in Doc : \E k : Is(versions[d], k) /\ versions[d][k].content = c
      BY DEF Before, NewestAvailable
    <2>3. \A c : c \in Before(t)' <=>
                   \E d \in Doc : \E k : Is(versions'[d], k) /\ versions'[d][k].content = c
      BY DEF Before, NewestAvailable
    <2> HIDE DEF Is
    <2>4. \A c : c \in Before(t)' <=> c \in Before(t)
      BY <2>1, <2>2, <2>3
    <2>5. QED
      BY <2>4
  <1>11. VerdictInv'
    <2> SUFFICES ASSUME NEW t \in AlertTime, verdicts[t] # Nothing
                 PROVE  /\ t < now
                        /\ ~verdicts[t].raced =>
                             /\ verdicts[t].result = "CONFLICTING" <=> "conflict" \in Before(t)'
                             /\ verdicts[t].result = "SUPPORTED_BEFORE_ALERT" <=>
                                  "conflict" \notin Before(t)' /\ "support" \in Before(t)'
      BY <1>1 DEF VerdictInv
    <2>1. ~verdicts[t].raced => Before(t)' = Before(t)
      BY <1>1, <1>10 DEF VerdictInv
    <2>2. QED
      BY <2>1 DEF VerdictInv
  <1>12. QED
    BY <1>3, <1>6, <1>7, <1>8, <1>9, <1>11

LEMMA PersistFailsKeeps == ASSUME VInv, PersistFails PROVE VInv'
  <1> USE DEF VInv
  <1>1. /\ UNCHANGED <<now, site, public, versions, run, completed, verdicts, at, batch,
                       ingested, breaker>>
        /\ transaction # Nothing /\ transaction' = Nothing
        /\ errors' = errors + 1
    BY DEF PersistFails, tables
  <1>2. errors \in Nat
    BY DEF VerificationTypeOK
  <1>3. VerificationTypeOK'
    BY <1>1, <1>2 DEF VerificationTypeOK
  <1>4. PublishedInv' /\ CheckpointIsStored' /\ TransactionInv'
    BY <1>1 DEF PublishedInv, CheckpointIsStored, TransactionInv
  <1>5. BatchInv'
    BY <1>1, <1>2 DEF BatchInv
  <1>6. VerdictInv' /\ NoHindsight'
    BY <1>1, VersionsKept, TimeIsNat DEF VerificationTypeOK
  <1>7. QED
    BY <1>3, <1>4, <1>5, <1>6

LEMMA FinishRunKeeps == ASSUME VInv, FinishRun PROVE VInv'
  <1> USE DEF VInv
  <1>1. /\ UNCHANGED <<now, site, public, versions, verdicts, transaction, breaker, troubles>>
        /\ run' = [status |-> RunStatus, etag |-> NextCheckpoint]
        /\ at' = "idle" /\ errors' = 0
        /\ \/ at \in {"failed", "limited", "refused"}
           \/ at = "ingest" /\ transaction = Nothing /\ batch.left = {}
    BY DEF FinishRun
  <1>2. transaction = Nothing
    BY <1>1 DEF TransactionInv
  <1>3. /\ RunStatus \in {"FAILED", "RATE_LIMITED", "CIRCUIT_OPEN", "SUCCESS", "PARTIAL"}
        /\ at = "failed" => RunStatus = "FAILED"
        /\ at = "limited" => RunStatus = "RATE_LIMITED"
        /\ at = "refused" => RunStatus = "CIRCUIT_OPEN"
        /\ (at = "ingest" /\ errors # 0) => RunStatus # "SUCCESS"
    <2>1. CASE at = "failed"
      <3>1. RunStatus = "FAILED"
        BY <2>1 DEF RunStatus
      <3>2. QED
        BY <2>1, <3>1
    <2>2. CASE at = "refused"
      <3>1. RunStatus = "CIRCUIT_OPEN"
        BY <2>2 DEF RunStatus
      <3>2. QED
        BY <2>2, <3>1
    <2>3. CASE at = "ingest"
      <3>1. RunStatus = IF errors = 0 THEN "SUCCESS"
                        ELSE IF ingested > 0 THEN "PARTIAL" ELSE "FAILED"
        BY <2>3 DEF RunStatus
      <3>2. QED
        BY <2>3, <3>1
    <2>4. CASE at = "limited"
      <3>1. RunStatus = "RATE_LIMITED"
        BY <2>4 DEF RunStatus
      <3>2. QED
        BY <2>4, <3>1
    <2>5. QED
      BY <1>1, <2>1, <2>2, <2>3, <2>4
  <1>4. CASE RunStatus = "SUCCESS"
    <2>1. at = "ingest" /\ errors = 0 /\ NextCheckpoint = batch.etag /\ batch.left = {}
      BY <1>1, <1>3, <1>4 DEF NextCheckpoint
    <2>2. batch.etag \in EtagRow
      BY <2>1 DEF VerificationTypeOK, Batch
    <2>3. CheckpointIsStored'
      BY <1>1, <1>2, <2>1 DEF BatchInv, Stored, CheckpointIsStored
    <2>4. QED
      BY <1>1, <1>2, <1>3, <2>1, <2>2, <2>3, NoBatchKeeps
  <1>5. CASE RunStatus # "SUCCESS"
    <2>1. NextCheckpoint = run.etag /\ run.etag \in EtagRow \union {Nothing}
      BY <1>5 DEF NextCheckpoint, VerificationTypeOK
    <2>2. QED
      BY <1>1, <1>2, <1>3, <2>1, NoBatchKeeps
  <1>6. QED
    BY <1>4, <1>5

LEMMA VerifyKeeps == ASSUME VInv, Verify PROVE VInv'
  <1> USE DEF VInv
  <1>1. UNCHANGED <<now, site, public, versions, run, completed, at, batch, ingested, errors,
                    transaction, breaker, troubles>>
    BY DEF Verify, memory
  <1>2. PICK t \in AlertTime :
          /\ t < now /\ verdicts[t] = Nothing
          /\ verdicts' = [verdicts EXCEPT ![t] =
               [result |-> Verdict(t),
                raced |-> transaction # Nothing /\ transaction.available <= t]]
    BY DEF Verify
  <1> DEFINE raced == transaction # Nothing /\ transaction.available <= t
             v == [result |-> Verdict(t), raced |-> raced]
  <1>3. /\ Verdict(t) \in Result
        /\ Verdict(t) = "CONFLICTING" <=> "conflict" \in Before(t)
        /\ Verdict(t) = "SUPPORTED_BEFORE_ALERT" <=>
             "conflict" \notin Before(t) /\ "support" \in Before(t)
    BY VerdictIsGrounded
  <1>4. raced \in BOOLEAN
    OBVIOUS
  <1>5. v \in [result : Result, raced : BOOLEAN] /\ v.result = Verdict(t) /\ v.raced = raced
    BY <1>3, <1>4
  <1>6. /\ verdicts'[t] = v /\ \A u \in AlertTime : u # t => verdicts'[u] = verdicts[u]
        /\ verdicts' \in [AlertTime -> [result : Result, raced : BOOLEAN] \union {Nothing}]
    BY <1>2, <1>5 DEF VerificationTypeOK
  <1> HIDE DEF v
  <1>7. VerificationTypeOK'
    BY <1>1, <1>6 DEF VerificationTypeOK
  <1>8. PublishedInv' /\ BatchInv' /\ TransactionInv' /\ CheckpointIsStored'
    BY <1>1 DEF PublishedInv, BatchInv, Stored, TransactionInv, IsUnchanged, Latest,
                CheckpointIsStored
  <1>9. \A u : Before(u)' = Before(u)
    BY <1>1 DEF Before, NewestAvailable
  <1>10. ~raced /\ transaction # Nothing => transaction.available > t
    <2>1. transaction # Nothing => transaction.available \in Nat
      BY TimeIsNat DEF VerificationTypeOK, Transaction
    <2>2. t \in Nat
      BY TimeIsNat
    <2>3. QED
      BY <2>1, <2>2
  <1> HIDE DEF raced
  <1>11. VerdictInv'
    <2> SUFFICES ASSUME NEW u \in AlertTime, verdicts'[u] # Nothing
                 PROVE  /\ u < now
                        /\ ~verdicts'[u].raced =>
                             /\ transaction # Nothing => transaction.available > u
                             /\ verdicts'[u].result = "CONFLICTING" <=> "conflict" \in Before(u)
                             /\ verdicts'[u].result = "SUPPORTED_BEFORE_ALERT" <=>
                                  "conflict" \notin Before(u) /\ "support" \in Before(u)
      BY <1>1, <1>9 DEF VerdictInv
    <2>1. CASE u = t
      BY <1>2, <1>3, <1>5, <1>6, <1>10, <2>1
    <2>2. CASE u # t
      BY <1>6, <2>2 DEF VerdictInv
    <2>3. QED
      BY <2>1, <2>2
  <1>12. NoHindsight'
    <2> SUFFICES ASSUME NEW u \in AlertTime, verdicts'[u] # Nothing,
                        verdicts'[u].result \in DOMAIN Grounds
                 PROVE  \E p \in public : p.since <= u /\ p.content = Grounds[verdicts'[u].result]
      BY <1>1 DEF NoHindsight
    <2>1. CASE u # t
      BY <1>6, <2>1 DEF NoHindsight
    <2>2. CASE u = t
      <3> DEFINE c == Grounds[verdicts'[u].result]
      <3>1. c \in Before(t)
        BY <1>3, <1>5, <1>6, <2>2 DEF Grounds
      <3>2a. PICK d \in Doc : \E k \in NewestAvailable(d, t) : versions[d][k].content = c
        BY <3>1 DEF Before
      <3>2. PICK k \in NewestAvailable(d, t) : versions[d][k].content = c
        BY <3>2a
      <3>3. k \in DOMAIN versions[d] /\ versions[d][k].available <= t
        BY DEF NewestAvailable
      <3>4. PICK p \in public : p.content = c /\ p.since <= versions[d][k].available
        BY <3>2, <3>3 DEF PublishedInv, WasPublic
      <3>5. versions[d][k].available \in Nat /\ p.since \in Nat /\ t \in Nat
        <4>1. versions[d] \in Seq(Version)
          BY DEF VerificationTypeOK
        <4>2. versions[d][k] \in Version
          BY <3>3, <4>1
        <4>3. QED
          BY <4>2, TimeIsNat DEF Version, VerificationTypeOK
      <3>6. QED
        BY <2>2, <3>3, <3>4, <3>5
    <2>3. QED
      BY <2>1, <2>2
  <1>13. QED
    BY <1>7, <1>8, <1>11, <1>12

-----------------------------------------------------------------------------
LEMMA VerificationStep ==
  ASSUME VInv, [VerificationNext]_verificationVars PROVE VInv'
  <1>1. CASE UNCHANGED verificationVars
    <2>1. UNCHANGED <<now, site, public, versions, run, completed, verdicts, at, batch,
                      ingested, errors, transaction, breaker, troubles>>
      BY <1>1 DEF verificationVars, tables, memory
    <2>2. VerificationTypeOK' /\ PublishedInv' /\ CheckpointIsStored'
      BY <2>1 DEF VInv, VerificationTypeOK, PublishedInv, CheckpointIsStored
    <2>3. BatchInv' /\ TransactionInv'
      BY <2>1 DEF VInv, BatchInv, Stored, TransactionInv, IsUnchanged, Latest
    <2>4. VerdictInv' /\ NoHindsight'
      BY <2>1, VersionsKept, TimeIsNat DEF VInv, VerificationTypeOK
    <2>5. QED
      BY <2>2, <2>3, <2>4 DEF VInv
  <1>2. CASE TimePasses
    BY <1>2, TimePassesKeeps
  <1>3. CASE SourcePublishes
    BY <1>3, SourcePublishesKeeps
  <1>4. CASE ConnectorWorks
    BY <1>4, RunStepsKeep, FetchBatchKeeps, BeginPersistKeeps, CommitPersistKeeps, FinishRunKeeps
       DEF ConnectorWorks
  <1>5. CASE RecoveryElapses \/ FetchFails \/ ConnectorCrashes
    BY <1>5, RunStepsKeep
  <1>6. CASE PersistFails
    BY <1>6, PersistFailsKeeps
  <1>7. CASE Verify
    BY <1>7, VerifyKeeps
  <1>8. QED
    BY <1>1, <1>2, <1>3, <1>4, <1>5, <1>6, <1>7 DEF VerificationNext

LEMMA VerificationInitially == ASSUME VerificationInit PROVE VInv
  <1> USE DEF VerificationInit
  <1>1. now \in Time
    BY VerificationAssumption DEF Time
  <1>2. IsFiniteSet(public)
    BY FS_EmptySet
  <1>3. VerificationTypeOK
    BY <1>1, <1>2 DEF VerificationTypeOK
  <1>4. PublishedInv /\ BatchInv /\ TransactionInv /\ CheckpointIsStored
    BY DEF PublishedInv, BatchInv, TransactionInv, CheckpointIsStored
  <1>5. VerdictInv /\ NoHindsight
    BY DEF VerdictInv, NoHindsight
  <1>6. QED
    BY <1>3, <1>4, <1>5 DEF VInv

\* Every row the connector and the verification worker can leave.
THEOREM VerificationInvTheorem == VerificationSpec => []VInv
  <1>1. VerificationInit => VInv
    BY VerificationInitially
  <1>2. VInv /\ [VerificationNext]_verificationVars => VInv'
    BY VerificationStep
  <1>3. QED
    BY <1>1, <1>2, PTL DEF VerificationSpec

\* persist_versioned_disclosure, _run_policy and the verification worker: the
\* checkpoint never runs ahead of what is stored, and no claim is supported or
\* contradicted by what its source had not published by the alert.
THEOREM DisclosuresInvTheorem == VerificationSpec => []DisclosuresInv
  <1>1. VInv => DisclosuresInv
    BY DEF VInv, DisclosuresInv
  <1>2. QED
    BY <1>1, VerificationInvTheorem, PTL

\* SqlVerificationRepository.candidates: what is stored after an alert was
\* judged does not change what was known at it.
THEOREM VerdictsAreReproducibleTheorem == VerificationSpec => []VerdictsAreReproducible
  <1>1. ASSUME VInv PROVE VerdictsAreReproducible
    <2> SUFFICES ASSUME NEW t \in AlertTime, verdicts[t] # Nothing, ~verdicts[t].raced,
                        {Verdict(t), verdicts[t].result} \intersect DOMAIN Grounds # {}
                 PROVE  Verdict(t) = verdicts[t].result
      BY DEF VerdictsAreReproducible
    <2>1. /\ verdicts[t].result = "CONFLICTING" <=> "conflict" \in Before(t)
          /\ verdicts[t].result = "SUPPORTED_BEFORE_ALERT" <=>
               "conflict" \notin Before(t) /\ "support" \in Before(t)
      BY <1>1 DEF VInv, VerdictInv
    <2>2. /\ Verdict(t) = "CONFLICTING" <=> "conflict" \in Before(t)
          /\ Verdict(t) = "SUPPORTED_BEFORE_ALERT" <=>
               "conflict" \notin Before(t) /\ "support" \in Before(t)
      BY VerdictIsGrounded
    <2>3. DOMAIN Grounds = {"CONFLICTING", "SUPPORTED_BEFORE_ALERT"}
      BY DEF Grounds
    <2>4. QED
      BY <2>1, <2>2, <2>3
  <1>2. QED
    BY <1>1, VerificationInvTheorem, PTL

\* persist_versioned_disclosure appends to the history of a document or leaves
\* it alone, whatever else fails.
THEOREM ImplementsHistoryTheorem == VerificationSpec => ImplementsHistory
  <1> DEFINE history == [d \in Doc |-> [k \in DOMAIN versions[d] |-> versions[d][k].content]]
             current == [d \in Doc |-> {k \in DOMAIN versions[d] :
                                          versions[d][k].status = "CURRENT"}]
  <1>1. VerificationInit => History!Init
    BY DEF VerificationInit, History!Init
  <1>2. ASSUME VInv, CommitPersist PROVE History!Next
    <2> DEFINE x == transaction
               old == versions[x.doc]
               new == versions'[x.doc]
               contents(vs) == [k \in DOMAIN vs |-> vs[k].content]
               currents(vs) == {k \in DOMAIN vs : vs[k].status = "CURRENT"}
    <2>1. /\ x \in Transaction /\ x.doc \in Doc /\ old \in Seq(Version)
          /\ \A d \in Doc : d # x.doc => versions'[d] = versions[d]
          /\ Len(old) \in Nat /\ DOMAIN old = 1 .. Len(old)
          /\ Len(new) = Len(old) + 1 /\ DOMAIN new = 1 .. (Len(old) + 1)
          /\ \A k \in DOMAIN old : new[k].content = old[k].content
          /\ \A k \in DOMAIN old : new[k].status = "SUPERSEDED"
          /\ new[Len(old) + 1].content = x.content
          /\ new[Len(old) + 1].status = "CURRENT"
      BY <1>2, VersionAdded
    <2>2. x.content \in Content /\ ~IsUnchanged(x.doc, x.content)
      BY <1>2, <2>1 DEF VInv, TransactionInv, CommitPersist, Transaction
    <2> HIDE DEF old, new
    <2>3. /\ contents(old) \in Seq({old[k].content : k \in DOMAIN old} \union Content)
          /\ Len(contents(old)) = Len(old)
      BY <2>1
    <2>4. contents(new) = Append(contents(old), x.content)
      <3> DEFINE ap == Append(contents(old), x.content)
      <3>1. /\ DOMAIN ap = 1 .. (Len(old) + 1) /\ ap[Len(old) + 1] = x.content
            /\ \A k \in 1 .. Len(old) : ap[k] = contents(old)[k]
            /\ ap = [k \in DOMAIN ap |-> ap[k]]
        BY <2>1, <2>2, <2>3
      <3> HIDE DEF ap
      <3>2. \A k \in 1 .. (Len(old) + 1) : new[k].content = ap[k]
        BY <2>1, <3>1
      <3>3. QED
        BY <2>1, <3>1, <3>2 DEF ap
    <2>5. currents(new) = {Len(old) + 1}
      BY <2>1
    <2>6. contents(old) # <<>> => contents(old)[Len(contents(old))] # x.content
      <3>1. contents(old) # <<>> => old # <<>>
        BY <2>1
      <3>2. contents(old) # <<>> => Len(old) \in DOMAIN old
        BY <2>1, <2>3, <3>1
      <3>3. QED
        BY <2>2, <2>3, <3>1, <3>2 DEF IsUnchanged, Latest, old
    <2> HIDE DEF contents, currents
    <2>7. /\ history = [d \in Doc |-> contents(versions[d])]
          /\ history' = [d \in Doc |-> contents(versions'[d])]
          /\ current = [d \in Doc |-> currents(versions[d])]
          /\ current' = [d \in Doc |-> currents(versions'[d])]
      BY DEF contents, currents
    <2> HIDE DEF history, current
    <2>8. /\ history[x.doc] = contents(old)
          /\ history' = [history EXCEPT ![x.doc] = Append(history[x.doc], x.content)]
          /\ current' = [current EXCEPT ![x.doc] = {Len(history[x.doc]) + 1}]
      BY <2>1, <2>3, <2>4, <2>5, <2>7 DEF old, new
    <2>9. /\ history[x.doc] # <<>> => history[x.doc][Len(history[x.doc])] # x.content
          /\ history' = [history EXCEPT ![x.doc] = Append(history[x.doc], x.content)]
          /\ current' = [current EXCEPT ![x.doc] = {Len(history[x.doc]) + 1}]
      BY <2>6, <2>8
    <2>10. PICK d \in Doc, c \in Content : d = x.doc /\ c = x.content
      BY <2>1, <2>2
    <2>11. History!Revise(d, c)
      BY <2>9, <2>10, Zenon DEF History!Revise, history, current
    <2>12. QED
      BY <2>11 DEF History!Next
  <1>3. ASSUME VInv, [VerificationNext]_verificationVars, ~CommitPersist
        PROVE  UNCHANGED <<history, current>>
    <2>1. versions' = versions
      BY <1>3 DEF VerificationNext, ConnectorWorks, TimePasses, SourcePublishes, StartRun,
         FetchBatch, FetchRefused, BeginPersist, FinishRun, RecoveryElapses, FetchFails,
         PersistFails, ConnectorCrashes, Verify, verificationVars, tables, memory
    <2>2. QED
      BY <2>1
  <1>4. VInv /\ [VerificationNext]_verificationVars => [History!Next]_<<history, current>>
    BY <1>2, <1>3
  <1>5. QED
    BY <1>1, <1>4, VerificationInvTheorem, PTL DEF VerificationSpec, ImplementsHistory, History!Spec

-----------------------------------------------------------------------------
(***************************************************************************)
(* Proofs about ReplaySessions, for any number of control workers and      *)
(* events.                                                                 *)
(*                                                                         *)
(* A run that succeeded counted every event of the scenario, and it counts *)
(* only events it has claimed: BehindRunner says that the claims of the    *)
(* events a run has passed are held, by that run or by another, so no run  *)
(* can take one back from a session that completed.  OneRun is why only a  *)
(* pause of a running session lets a second run begin.                     *)
(***************************************************************************)

RunnerState ==
  [at : {"look", "start", "connect", "run"}, event : 1..(ScenarioEvents + 1), count : Nat]

SessionTypeOK ==
  /\ session \in {"CREATED", "QUEUED", "RUNNING", "PAUSED", "COMPLETED", "FAILED"}
  /\ accepted \in SUBSET (1..ScenarioEvents)
  /\ runner \in [Runner -> RunnerState]
  /\ paused_run \in BOOLEAN

BehindRunner == \A w \in Runner : 1..(runner[w].event - 1) \subseteq accepted

CompletedHasAll == session = "COMPLETED" => accepted = 1..ScenarioEvents

OneRun ==
  ~paused_run => \A v, w \in Runner :
    runner[v].at \in {"connect", "run"} /\ runner[w].at \in {"connect", "run"}
      => v = w /\ session = "RUNNING"

ReplayInv == SessionTypeOK /\ BehindRunner /\ CompletedHasAll /\ OneRun
-----------------------------------------------------------------------------
LEMMA ReplayInitInv == ReplayInit => ReplayInv
  <1> SUFFICES ASSUME ReplayInit PROVE ReplayInv
    OBVIOUS
  <1> USE ReplayAssumption DEF ReplayInit
  <1>1. Unoccupied \in RunnerState
    BY DEF Unoccupied, RunnerState
  <1>2. SessionTypeOK
    BY <1>1 DEF SessionTypeOK
  <1>3. BehindRunner /\ CompletedHasAll /\ OneRun
    BY DEF BehindRunner, CompletedHasAll, OneRun, Unoccupied
  <1> QED BY <1>2, <1>3 DEF ReplayInv

(***************************************************************************)
(* run_queued_session: one event, counted if its claim was free.           *)
(***************************************************************************)
LEMMA ReplayEventInv ==
  ASSUME ReplayInv, NEW w \in Runner, ReplayEvent(w)
  PROVE  ReplayInv'
  <1> USE ReplayAssumption DEF ReplayInv, SessionTypeOK
  <1> DEFINE r == runner[w]
  <1>1. r \in RunnerState /\ r.at = "run" /\ r.event \in 1..ScenarioEvents
    BY DEF ReplayEvent, RunnerState
  <1>2. PICK e \in 1..(ScenarioEvents + 1), n \in Nat :
          e = r.event + 1 /\ RunnerAt(w, [r EXCEPT !.event = e, !.count = n])
    <2>1. /\ r.event + 1 \in 1..(ScenarioEvents + 1)
          /\ (IF r.event \in accepted THEN r.count ELSE r.count + 1) \in Nat
      BY <1>1 DEF RunnerState
    <2> QED BY <2>1 DEF ReplayEvent
  <1> DEFINE after == [r EXCEPT !.event = e, !.count = n]
  <1>3. after \in RunnerState /\ after.event = r.event + 1 /\ after.at = "run"
    BY <1>2, <1>1 DEF RunnerState
  <1>4. /\ runner' = [runner EXCEPT ![w] = after]
        /\ accepted' = accepted \union {r.event}
        /\ UNCHANGED <<session, paused_run>>
    BY <1>2 DEF ReplayEvent, RunnerAt
  <1> HIDE DEF after
  <1>5. SessionTypeOK'
    <2>1. runner' \in [Runner -> RunnerState]
      BY <1>3, <1>4
    <2>2. accepted' \subseteq 1..ScenarioEvents
      BY <1>1, <1>4
    <2> QED BY <2>1, <2>2, <1>4
  <1>6. BehindRunner'
    <2>1. ASSUME NEW v \in Runner, v # w
          PROVE  1..(runner'[v].event - 1) \subseteq accepted'
      BY <1>4, <2>1 DEF BehindRunner
    <2>2. 1..(runner'[w].event - 1) \subseteq accepted'
      <3>1. runner'[w].event - 1 = r.event
        BY <1>1, <1>3, <1>4
      <3>2. 1..r.event \subseteq (1..(r.event - 1)) \union {r.event}
        BY <1>1
      <3> QED BY <1>4, <3>1, <3>2 DEF BehindRunner
    <2> QED BY <2>1, <2>2 DEF BehindRunner
  <1>7. CompletedHasAll'
    BY <1>1, <1>4 DEF CompletedHasAll
  <1>8. OneRun'
    BY <1>1, <1>3, <1>4 DEF OneRun
  <1> QED BY <1>5, <1>6, <1>7, <1>8

(***************************************************************************)
(* A worker that goes back to looking, or turns to a session it found, has *)
(* no event behind it.                                                     *)
(***************************************************************************)
LEMMA RunnerReset ==
  ASSUME ReplayInv, NEW w \in Runner, NEW place \in {"look", "start", "connect", "run"},
         RunnerAt(w, [Unoccupied EXCEPT !.at = place]), UNCHANGED accepted
  PROVE  /\ runner' \in [Runner -> RunnerState]
         /\ BehindRunner'
         /\ runner'[w].at = place
         /\ \A v \in Runner : v # w => runner'[v] = runner[v]
  <1> USE ReplayAssumption
  <1>1. /\ [Unoccupied EXCEPT !.at = place] \in RunnerState
        /\ [Unoccupied EXCEPT !.at = place].at = place
        /\ [Unoccupied EXCEPT !.at = place].event = 1
    BY DEF Unoccupied, RunnerState
  <1>2. /\ runner' = [runner EXCEPT ![w] = [Unoccupied EXCEPT !.at = place]]
        /\ runner \in [Runner -> RunnerState]
    BY DEF RunnerAt, ReplayInv, SessionTypeOK
  <1>3. /\ runner'[w] = [Unoccupied EXCEPT !.at = place]
        /\ \A v \in Runner : v # w => runner'[v] = runner[v]
        /\ runner' \in [Runner -> RunnerState]
    BY <1>1, <1>2
  <1>4. BehindRunner'
    <2>1. ASSUME NEW v \in Runner PROVE 1..(runner'[v].event - 1) \subseteq accepted'
      <3>1. CASE v = w
        <4>1. runner'[v].event = 1
          BY <1>1, <1>3, <3>1
        <4> QED BY <4>1
      <3>2. CASE v # w
        BY <1>3, <3>2 DEF ReplayInv, BehindRunner
      <3> QED BY <3>1, <3>2
    <2> QED BY <2>1 DEF BehindRunner
  <1> QED BY <1>1, <1>3, <1>4

LEMMA UnoccupiedLooks == Unoccupied = [Unoccupied EXCEPT !.at = "look"]
  BY DEF Unoccupied

LEMMA ReplayStep == ASSUME ReplayInv, [ReplayNext]_replayVars PROVE ReplayInv'
  <1> USE DEF ReplayInv
  <1>1. CASE StartReplay
    BY <1>1 DEF StartReplay, SessionTypeOK, BehindRunner, CompletedHasAll, OneRun
  <1>2. CASE PauseReplay
    BY <1>2 DEF PauseReplay, SessionTypeOK, BehindRunner, CompletedHasAll, OneRun
  <1>3. CASE UNCHANGED <<session, accepted, runner, paused_run>>
    BY <1>3 DEF SessionTypeOK, BehindRunner, CompletedHasAll, OneRun
  <1>4. ASSUME NEW w \in Runner, FindQueued(w) PROVE ReplayInv'
    BY <1>4, RunnerReset DEF FindQueued, SessionTypeOK, CompletedHasAll, OneRun
  <1>5. ASSUME NEW w \in Runner, BeginRun(w) PROVE ReplayInv'
    <2>1. CASE Startable
      <3>1. /\ session = "QUEUED" /\ session' = "RUNNING"
            /\ RunnerAt(w, [Unoccupied EXCEPT !.at = "connect"])
            /\ UNCHANGED <<accepted, paused_run>>
        BY <1>5, <2>1 DEF BeginRun, Startable
      <3>2. /\ runner' \in [Runner -> RunnerState] /\ BehindRunner'
            /\ \A v \in Runner : v # w => runner'[v] = runner[v]
        BY <3>1, RunnerReset
      <3>3. OneRun'
        BY <3>1, <3>2 DEF OneRun
      <3> QED BY <3>1, <3>2, <3>3 DEF SessionTypeOK, CompletedHasAll
    <2>2. CASE ~Startable
      <3>1. /\ RunnerAt(w, [Unoccupied EXCEPT !.at = "look"])
            /\ UNCHANGED <<session, accepted, paused_run>>
        BY <1>5, <2>2, UnoccupiedLooks DEF BeginRun
      <3> QED BY <3>1, RunnerReset DEF SessionTypeOK, CompletedHasAll, OneRun
    <2> QED BY <2>1, <2>2
  <1>6. ASSUME NEW w \in Runner, ReplayEvent(w) PROVE ReplayInv'
    BY <1>6, ReplayEventInv
  <1>7. ASSUME NEW w \in Runner, FinishSession(w) PROVE ReplayInv'
    <2>1. /\ RunnerAt(w, [Unoccupied EXCEPT !.at = "look"])
          /\ runner[w].at = "run" /\ runner[w].event = ScenarioEvents + 1
          /\ session' \in {"COMPLETED", "FAILED"}
          /\ UNCHANGED <<accepted, paused_run>>
      BY <1>7, UnoccupiedLooks, ReplayAssumption
         DEF FinishSession, SessionTypeOK, RunnerState
    <2>2. /\ runner' \in [Runner -> RunnerState] /\ BehindRunner'
          /\ runner'[w].at = "look"
          /\ \A v \in Runner : v # w => runner'[v] = runner[v]
      BY <2>1, RunnerReset
    <2>3. 1..ScenarioEvents \subseteq accepted
      <3>1. runner[w].event - 1 = ScenarioEvents
        BY <2>1, ReplayAssumption
      <3> QED BY <3>1 DEF BehindRunner
    <2>4. OneRun'
      BY <2>1, <2>2 DEF OneRun
    <2> QED BY <2>1, <2>2, <2>3, <2>4 DEF SessionTypeOK, CompletedHasAll
  <1>8. ASSUME NEW w \in Runner, RunFails(w) PROVE ReplayInv'
    <2>1. /\ RunnerAt(w, [Unoccupied EXCEPT !.at = "look"])
          /\ runner[w].at = "run" /\ session' = "FAILED"
          /\ UNCHANGED <<accepted, paused_run>>
      BY <1>8, UnoccupiedLooks DEF RunFails
    <2>2. /\ runner' \in [Runner -> RunnerState] /\ BehindRunner'
          /\ runner'[w].at = "look"
          /\ \A v \in Runner : v # w => runner'[v] = runner[v]
      BY <2>1, RunnerReset
    <2> QED BY <2>1, <2>2 DEF SessionTypeOK, CompletedHasAll, OneRun
  <1>9. ASSUME NEW w \in Runner, NEW places, LeaveSession(w, places) PROVE ReplayInv'
    <2>1. /\ RunnerAt(w, [Unoccupied EXCEPT !.at = "look"])
          /\ UNCHANGED <<session, accepted, paused_run>>
      BY <1>9, UnoccupiedLooks DEF LeaveSession
    <2> QED BY <2>1, RunnerReset DEF SessionTypeOK, CompletedHasAll, OneRun
  <1>10. ASSUME NEW w \in Runner, Connect(w) PROVE ReplayInv'
    <2>1. /\ runner[w].at = "connect" /\ RunnerAt(w, [Unoccupied EXCEPT !.at = "run"])
          /\ UNCHANGED <<session, accepted, paused_run>>
      BY <1>10 DEF Connect
    <2>2. /\ runner' \in [Runner -> RunnerState] /\ BehindRunner'
          /\ \A v \in Runner : v # w => runner'[v] = runner[v]
      BY <2>1, RunnerReset
    <2>3. OneRun'
      BY <2>1, <2>2 DEF OneRun
    <2> QED BY <2>1, <2>2, <2>3 DEF SessionTypeOK, CompletedHasAll
  <1>11. ASSUME NEW w \in Runner, RunnerFaults(w) PROVE ReplayInv'
    BY <1>8, <1>9, <1>11
       DEF RunnerFaults, BeginFails, ConnectFails, FinishFails, RunnerDies
  <1> QED
    BY <1>1, <1>2, <1>3, <1>4, <1>5, <1>6, <1>7, <1>10, <1>11
       DEF ReplayNext, RunnerSteps, EvaluateReplay, replayVars
-----------------------------------------------------------------------------
(***************************************************************************)
(* run_queued_session and the routes: a session that says COMPLETED has    *)
(* every event of its scenario accepted, and two runs of it overlap only   *)
(* after a pause of the running session.                                   *)
(***************************************************************************)
THEOREM CompletedIsWholeTheorem == ReplaySpec => []CompletedIsWhole
  <1>1. ReplayInv => CompletedIsWhole
    <2> SUFFICES ASSUME ReplayInv PROVE CompletedIsWhole
      OBVIOUS
    <2>1. session = "COMPLETED" => Cardinality(accepted) = ScenarioEvents
      <3>1. Cardinality(1..ScenarioEvents) = ScenarioEvents
        BY FS_Interval, ReplayAssumption
      <3> QED BY <3>1 DEF ReplayInv, CompletedHasAll
    <2>2. ~paused_run => ~(Cardinality(Running) > 1)
      <3> SUFFICES ASSUME ~paused_run PROVE ~(Cardinality(Running) > 1)
        OBVIOUS
      <3>1. CASE Running = {}
        BY <3>1, FS_EmptySet
      <3>2. ASSUME NEW w \in Running PROVE ~(Cardinality(Running) > 1)
        <4>1. Running = {w}
          BY <3>2 DEF ReplayInv, OneRun, Running
        <4> QED BY <4>1, FS_Singleton
      <3> QED BY <3>1, <3>2
    <2> QED BY <2>1, <2>2 DEF CompletedIsWhole
  <1> QED BY <1>1, ReplayInitInv, ReplayStep, PTL DEF ReplaySpec
=============================================================================
