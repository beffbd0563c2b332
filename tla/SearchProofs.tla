---------------------------- MODULE SearchProofs ----------------------------
(***************************************************************************)
(* What the sequential index keeps true, for any files, bytes and models;  *)
(* and what a search of it keeps true, for any number of candidates up to  *)
(* RRF_K + 1, any scores and any floor.                                    *)
(***************************************************************************)
EXTENDS Search, TLAPS, FiniteSetTheorems

(* The index. *)

LEMMA IndexTypes ==
  /\ \A c \in Contents, m \in Models : \A parse, outcome :
       /\ Row(c, StatusOf(parse), m) \in Rows
       /\ Row(c, RejectStatus(outcome), m) \in Rows
       /\ ChunksOf(parse, c, m) \in ChunkSets
  /\ \A entry \in Parsed \cup {"none"}, parse \in Parsed :
       CachePut(entry, parse) \in Parsed \cup {"none"}
<1>1. \A parse : StatusOf(parse) \in Statuses
  BY DEF StatusOf, Statuses
<1> QED
  BY <1>1 DEF Row, Rows, Statuses, RejectStatus, ChunksOf, ChunkSets, CachePut

LEMMA IndexTypeStep ==
  ASSUME TypeOK, [Next]_vars
  PROVE  TypeOK'
<1>1. ASSUME NEW d \in Docs, NEW c \in Contents, NEW m \in Models, Store(d, c, m)
      PROVE  TypeOK'
  <2>1. PICK parse \in {Parse[d][c], cache[c]} \cap Parsed :
          /\ row' = [row EXCEPT ![d] = Row(c, StatusOf(parse), m)]
          /\ chunks' = [chunks EXCEPT ![d] = ChunksOf(parse, c, m)]
          /\ cache' = [cache EXCEPT ![c] = CachePut(@, parse)]
    BY <1>1 DEF Store
  <2>2. CachePut(cache[c], parse) \in Parsed \cup {"none"}
    BY <2>1, IndexTypes DEF TypeOK
  <2> QED
    BY <2>1, <2>2, IndexTypes DEF TypeOK
<1>2. ASSUME NEW d \in Docs, NEW c \in Contents, NEW m \in Models, Reject(d, c, m)
      PROVE  TypeOK'
  BY <1>2, IndexTypes DEF TypeOK, Reject
<1>3. CASE UNCHANGED vars
  BY <1>3 DEF vars, TypeOK
<1> QED
  BY <1>1, <1>2, <1>3 DEF Next

\* Storing a parse makes the row and the chunks of that file agree.
LEMMA StoreKeepsCoherent ==
  ASSUME TypeOK, Coherent,
         NEW d \in Docs, NEW c \in Contents, NEW m \in Models, Store(d, c, m)
  PROVE  Coherent'
<1>1. PICK parse \in {Parse[d][c], cache[c]} \cap Parsed :
        /\ row' = [row EXCEPT ![d] = Row(c, StatusOf(parse), m)]
        /\ chunks' = [chunks EXCEPT ![d] = ChunksOf(parse, c, m)]
        /\ cache' = [cache EXCEPT ![c] = CachePut(@, parse)]
  BY DEF Store
<1>2. row'[d] = Row(c, StatusOf(parse), m) /\ chunks'[d] = ChunksOf(parse, c, m)
  BY <1>1 DEF TypeOK
<1>3. parse \in {Parse[d][c], cache'[c]}
  BY <1>1 DEF TypeOK, CachePut, Parsed
<1>4. \A e \in Docs \ {d} : row'[e] = row[e] /\ chunks'[e] = chunks[e]
  BY <1>1 DEF TypeOK
<1>5. \A k \in Contents : cache[k] = "sheets" => cache'[k] = "sheets"
  BY <1>1 DEF TypeOK, CachePut
<1>6. row'[d].hash = c /\ row'[d].status = StatusOf(parse) /\ row'[d].model = m
  BY <1>2 DEF Row
<1>7. /\ StatusOf(parse) = "indexed" => parse \in {"text", "sheets"}
      /\ StatusOf(parse) = "pending" => parse = "scan"
      /\ StatusOf(parse) # "extracting"
  <2>1. parse \in Parsed
    BY <1>1
  <2> QED
    BY <2>1 DEF StatusOf, Parsed
<1>8. /\ parse = "text" => chunks'[d] = ChunksOf("text", c, m)
      /\ parse # "text" => chunks'[d] = {}
  BY <1>2 DEF ChunksOf
<1>9. ASSUME NEW e \in Docs
      PROVE  /\ row'[e].status = "indexed" =>
                  \/ chunks'[e] = ChunksOf("text", row'[e].hash, row'[e].model)
                  \/ /\ chunks'[e] = {}
                     /\ "sheets" \in {Parse[e][row'[e].hash], cache'[row'[e].hash]}
             /\ row'[e].status = "pending" => chunks'[e] = {}
             /\ row'[e].status # "extracting"
             /\ row'[e] = NoRow => chunks'[e] = {}
  <2>1. CASE e = d
    BY <1>2, <1>3, <1>6, <1>7, <1>8, <2>1 DEF Row, NoRow
  <2>2. CASE e # d
    <3>1. row'[e] = row[e] /\ chunks'[e] = chunks[e]
      BY <1>4, <2>2
    <3>2. row[e].status = "indexed" => row[e].hash \in Contents
      BY DEF TypeOK, Rows, NoRow
    <3> QED
      BY <1>5, <3>1, <3>2 DEF Coherent
  <2> QED
    BY <2>1, <2>2
<1> QED
  BY <1>9 DEF Coherent

LEMMA CoherentKept ==
  ASSUME TypeOK, Coherent, [Next]_vars
  PROVE  Coherent'
<1>1. CASE UNCHANGED vars
  BY <1>1 DEF vars, Coherent
<1>2. ASSUME NEW d \in Docs, NEW c \in Contents, NEW m \in Models, Reject(d, c, m)
      PROVE  Coherent'
  <2>1. row'[d] = Row(c, RejectStatus(Parse[d][c]), m)
    BY <1>2 DEF Reject, TypeOK
  <2>2. \A e \in Docs \ {d} : row'[e] = row[e]
    BY <1>2 DEF Reject, TypeOK
  <2>3. row'[d].status \in {"skipped", "failed"} /\ row'[d] # NoRow
    BY <2>1 DEF Row, RejectStatus, NoRow
  <2>4. chunks' = chunks /\ cache' = cache
    BY <1>2 DEF Reject
  <2> QED
    BY <2>2, <2>3, <2>4 DEF Coherent
<1> QED
  BY <1>1, <1>2, StoreKeepsCoherent DEF Next

LEMMA CoherentAtFirst == Init => TypeOK /\ Coherent
  BY DEF Init, TypeOK, Coherent, NoRow, Parsed, ChunkSets

\* Every reachable state of the sequential index is well typed, and what its
\* settled rows say is what is stored.
THEOREM IndexIsCoherent == Spec => [](TypeOK /\ Coherent)
  BY CoherentAtFirst, IndexTypeStep, CoherentKept, PTL DEF Spec

\* What a row says of each chunk under it: the pair that the pass recorded, or
\* the row is that of a rejected pass over what an earlier one left.
RowsName ==
  \A d \in Docs : \A k \in chunks[d] :
    \/ k = [content |-> row[d].hash, model |-> row[d].model]
    \/ row[d].status \in {"failed", "skipped"} /\ Parse[d][row[d].hash] \notin Parsed

LEMMA RowsNameKept ==
  ASSUME TypeOK, RowsName, [Next]_vars
  PROVE  RowsName'
<1>1. ASSUME NEW d \in Docs, NEW c \in Contents, NEW m \in Models, Store(d, c, m)
      PROVE  RowsName'
  <2>1. PICK parse : /\ row' = [row EXCEPT ![d] = Row(c, StatusOf(parse), m)]
                     /\ chunks' = [chunks EXCEPT ![d] = ChunksOf(parse, c, m)]
    BY <1>1 DEF Store
  <2>2. row'[d].hash = c /\ row'[d].model = m /\ chunks'[d] = ChunksOf(parse, c, m)
    BY <2>1 DEF TypeOK, Row
  <2>3. \A k \in chunks'[d] : k = [content |-> row'[d].hash, model |-> row'[d].model]
    BY <2>2 DEF ChunksOf
  <2>4. \A e \in Docs \ {d} : row'[e] = row[e] /\ chunks'[e] = chunks[e]
    BY <2>1 DEF TypeOK
  <2> QED
    BY <2>3, <2>4 DEF RowsName
<1>2. ASSUME NEW d \in Docs, NEW c \in Contents, NEW m \in Models, Reject(d, c, m)
      PROVE  RowsName'
  <2>1. row'[d] = Row(c, RejectStatus(Parse[d][c]), m)
    BY <1>2 DEF Reject, TypeOK
  <2>2. row'[d].status \in {"failed", "skipped"} /\ Parse[d][row'[d].hash] \notin Parsed
    BY <1>2, <2>1 DEF Reject, Row, RejectStatus
  <2>3. chunks' = chunks /\ \A e \in Docs \ {d} : row'[e] = row[e]
    BY <1>2 DEF Reject, TypeOK
  <2> QED
    BY <2>2, <2>3 DEF RowsName
<1>3. CASE UNCHANGED vars
  BY <1>3 DEF vars, RowsName
<1> QED
  BY <1>1, <1>2, <1>3 DEF Next

-----------------------------------------------------------------------------
(* Searches. *)

\* A candidate list: at most Candidates rows, none with the id of another.
Listing(list) ==
  \E n \in 0..Candidates :
    /\ list \in [1..n -> HitRows]
    /\ \A i, j \in 1..n : Id(list[i]) = Id(list[j]) => i = j

Comparable(r) == r.chunk = [content |-> r.of.hash, model |-> asks] \/ Rejected(r)

FoundInv ==
  /\ asks \in Models
  /\ found \in [Query -> Seq(HitRows)]
  /\ Listing(found.vector) /\ Listing(found.text)
  /\ \A r \in Range(found.vector) \cup Range(found.text) : Comparable(r)

-----------------------------------------------------------------------------
(* The two queries. *)

\* Whatever a query returns is a candidate list of comparable rows.
LEMMA RetrievedIsListing ==
  ASSUME TypeOK, RowsName, asks \in Models, NEW list \in Retrieved(asks)
  PROVE  Listing(list) /\ \A r \in Range(list) : Comparable(r)
<1>1. PICK n \in 0..Candidates : list \in [1..n -> Searchable(asks)]
  BY DEF Retrieved
<1>2. \A i, j \in 1..n : list[i] = list[j] => i = j
  BY <1>1 DEF Retrieved, IsInjective
<1>3. ASSUME NEW r \in Searchable(asks)
      PROVE  r \in HitRows /\ r.of = row[r.doc] /\ Comparable(r)
  <2>0. PICK d \in Docs :
          /\ row[d] # NoRow /\ row[d].model = asks
          /\ \E k \in chunks[d] : r = [doc |-> d, chunk |-> k, of |-> row[d]]
    BY <1>3 DEF Searchable
  <2>1. PICK k \in chunks[d] : r = [doc |-> d, chunk |-> k, of |-> row[d]]
    BY <2>0
  <2>2. k \in [content : Contents, model : Models] /\ row[d] \in Rows
    BY <2>0, <2>1 DEF TypeOK, ChunkSets
  <2>3. \/ k = [content |-> row[d].hash, model |-> asks]
        \/ row[d].status \in {"failed", "skipped"} /\ Parse[d][row[d].hash] \notin Parsed
    BY <2>0, <2>1 DEF RowsName
  <2> QED
    BY <2>1, <2>2, <2>3 DEF HitRows, Comparable, Rejected
<1>4. ASSUME NEW i \in 1..n, NEW j \in 1..n, Id(list[i]) = Id(list[j])
      PROVE  i = j
  <2>1. list[i] \in HitRows /\ list[j] \in HitRows /\ list[i].of = list[j].of
    BY <1>1, <1>3, <1>4 DEF Id
  <2>2. list[i] = list[j]
    BY <1>4, <2>1 DEF HitRows, Id
  <2> QED
    BY <1>2, <2>2
<1>5. Listing(list)
  BY <1>1, <1>3, <1>4 DEF Listing
<1>6. \A r \in Range(list) : Comparable(r)
  BY <1>1, <1>3 DEF Range
<1> QED
  BY <1>5, <1>6

LEMMA ListingIsSeq ==
  ASSUME NEW list, Listing(list)
  PROVE  list \in Seq(HitRows) /\ Len(list) \in 0..Candidates
<1>1. PICK n \in 0..Candidates : list \in [1..n -> HitRows]
  BY DEF Listing
<1>2. n \in Nat
  BY RankAssumption
<1> QED
  BY <1>1, <1>2

LEMMA FoundAtFirst == SInit => FoundInv
<1> SUFFICES ASSUME SInit PROVE FoundInv
  OBVIOUS
<1>1. found.vector = <<>> /\ found.text = <<>>
  BY DEF SInit, Query
<1>2. 0 \in 0..Candidates /\ <<>> \in [1..0 -> HitRows]
  BY RankAssumption
<1>3. Listing(<<>>) /\ Range(<<>>) = {}
  BY <1>2 DEF Listing, Range
<1> QED
  BY <1>1, <1>3 DEF SInit, FoundInv, Query

LEMMA FoundKept ==
  ASSUME TypeOK, RowsName, FoundInv, [SNext]_allvars
  PROVE  FoundInv'
<1>1. CASE VectorQuery
  <2>1. PICK list \in Retrieved(asks) : found' = [found EXCEPT !.vector = list]
    BY <1>1 DEF VectorQuery
  <2>2. found'.vector = list /\ found'.text = found.text /\ asks' = asks
    BY <1>1, <2>1 DEF FoundInv, Query, VectorQuery
  <2>3. Listing(list) /\ \A r \in Range(list) : Comparable(r)
    BY <2>1, RetrievedIsListing DEF FoundInv
  <2> QED
    BY <2>1, <2>2, <2>3, ListingIsSeq DEF FoundInv, Query, Comparable, Listing
<1>2. CASE TextQuery
  <2>1. PICK list \in Retrieved(asks) : found' = [found EXCEPT !.text = list]
    BY <1>2 DEF TextQuery
  <2>2. found'.text = list /\ found'.vector = found.vector /\ asks' = asks
    BY <1>2, <2>1 DEF FoundInv, Query, TextQuery
  <2>3. Listing(list) /\ \A r \in Range(list) : Comparable(r)
    BY <2>1, RetrievedIsListing DEF FoundInv
  <2> QED
    BY <2>1, <2>2, <2>3, ListingIsSeq DEF FoundInv, Query, Comparable, Listing
<1>3. CASE UNCHANGED <<asks, found>>
  BY <1>3 DEF FoundInv, Comparable, Listing
<1> QED
  BY <1>1, <1>2, <1>3
  DEF SNext, BlankQuery, Fuse, Answer, NoneReranked, Count, FetchMeta, FetchChunks, IndexStep, allvars, svars

-----------------------------------------------------------------------------
(* The fusion. *)

\* What one list gives is less than what two lists give, at any ranks: with
\* c > K and a, b <= 2 * K + 1, both 2 * c * a and 2 * c * b exceed a * b.
LEMMA BothBeatOne ==
  ASSUME NEW r \in 1..Candidates, NEW s \in 1..Candidates, NEW t \in 1..Candidates
  PROVE  /\ More(BothRanks(r, s), OneRank(t))
         /\ ~More(OneRank(t), BothRanks(r, s))
<1> DEFINE a == K + r
           b == K + s
           c == K + t
<1>1. a \in Nat /\ b \in Nat /\ c \in Nat /\ a >= 1 /\ b >= 1
  BY RankAssumption
<1>2. a + 1 <= 2 * c /\ b + 1 <= 2 * c
  BY RankAssumption
<1> HIDE DEF a, b, c
<1>3. (a + 1) * b <= (2 * c) * b /\ (b + 1) * a <= (2 * c) * a
  <2>1. \A x, y, z \in Nat : x <= y => x * z <= y * z
    BY SMT
  <2> QED
    BY <1>1, <1>2, <2>1
<1>4. a * b + b <= 2 * (c * b) /\ a * b + a <= 2 * (c * a)
  BY <1>1, <1>3, SMT
<1>5. (a + b) * c = c * a + c * b
  BY <1>1, SMT
<1>6. a * b < (a + b) * c
  BY <1>1, <1>4, <1>5, SMT
<1> QED
  BY <1>1, <1>6 DEF More, BothRanks, OneRank, a, b, c

LEMMA RankIsAPlace ==
  ASSUME NEW list, Listing(list), NEW id \in Ids(list)
  PROVE  Rank(list, id) \in 1..Candidates
<1>1. PICK n \in 0..Candidates : list \in [1..n -> HitRows]
  BY DEF Listing
<1>2. Rank(list, id) \in DOMAIN list
  BY DEF Rank, Ids
<1> QED
  BY <1>1, <1>2, RankAssumption

\* A list in the order of the fusion has what both queries found first.
LEMMA FusionAgrees ==
  ASSUME FoundInv, NEW list \in Orderings(Merged, RanksBefore),
         NEW i \in DOMAIN list, NEW j \in DOMAIN list,
         Id(list[i]) \in Ids(found.vector) \cap Ids(found.text),
         Id(list[j]) \notin Ids(found.vector) \cap Ids(found.text)
  PROVE  i < j
<1> DEFINE x == Id(list[i])
           y == Id(list[j])
<1>1. list \in [1..Cardinality(Merged) -> Merged]
  BY DEF Orderings
<1>2. list[j] \in Merged /\ i \in Int /\ j \in Int
  BY <1>1
<1>3. y \in Ids(found.vector) \/ y \in Ids(found.text)
  <2>1. \A r \in Range(found.vector) : Id(r) \in Ids(found.vector)
    BY DEF Range, Ids
  <2>2. \A r \in Range(found.text) : Id(r) \in Ids(found.text)
    BY DEF Range, Ids
  <2> QED
    BY <1>2, <2>1, <2>2 DEF Merged
<1>4. Rrf(x) = BothRanks(Rank(found.vector, x), Rank(found.text, x))
  BY DEF Rrf
<1>5. PICK t \in 1..Candidates : Rrf(y) = OneRank(t)
  BY <1>3, RankIsAPlace DEF Rrf, FoundInv
<1>6. More(Rrf(x), Rrf(y)) /\ ~More(Rrf(y), Rrf(x))
  BY <1>4, <1>5, BothBeatOne, RankIsAPlace DEF FoundInv
<1>7. ~RanksBefore(list[j], list[i])
  BY <1>6 DEF RanksBefore
<1>8. ~(j < i)
  BY <1>7 DEF Orderings
<1>9. i # j
  OBVIOUS
<1> QED
  BY <1>2, <1>8, <1>9

\* The merged rows have different ids, and the ids of both queries.
LEMMA MergedOnce ==
  ASSUME FoundInv
  PROVE  /\ \A r, s \in Merged : Id(r) = Id(s) => r = s
         /\ {Id(r) : r \in Merged} = Ids(found.vector) \cup Ids(found.text)
         /\ Merged \subseteq HitRows
         /\ \A r \in Merged : Comparable(r)
         /\ IsFiniteSet(Merged)
<1>1. ASSUME NEW list, Listing(list)
      PROVE  /\ \A r, s \in Range(list) : Id(r) = Id(s) => r = s
             /\ Ids(list) = {Id(r) : r \in Range(list)}
             /\ Range(list) \subseteq HitRows
             /\ IsFiniteSet(Range(list))
  <2>1. PICK n \in 0..Candidates :
          /\ list \in [1..n -> HitRows]
          /\ \A i, j \in 1..n : Id(list[i]) = Id(list[j]) => i = j
    BY <1>1 DEF Listing
  <2>2. \A r, s \in Range(list) : Id(r) = Id(s) => r = s
    BY <2>1 DEF Range
  <2>3. Ids(list) = {Id(r) : r \in Range(list)}
    BY DEF Range, Ids
  <2>4. Range(list) \subseteq HitRows
    BY <2>1 DEF Range
  <2>5. IsFiniteSet(1..n)
    BY <2>1, FS_Interval, RankAssumption
  <2>6. list \in Surjection(1..n, Range(list))
    BY <2>1 DEF Surjection, Range
  <2>7. IsFiniteSet(Range(list))
    BY <2>5, <2>6, FS_Surjection
  <2> QED
    BY <2>2, <2>3, <2>4, <2>7
<1> DEFINE V == Range(found.vector)
           T == {r \in Range(found.text) : Id(r) \notin Ids(found.vector)}
<1>2. Merged = V \cup T
  BY DEF Merged
<1>3. /\ \A r, s \in V : Id(r) = Id(s) => r = s
      /\ \A r, s \in Range(found.text) : Id(r) = Id(s) => r = s
      /\ Ids(found.vector) = {Id(r) : r \in V}
      /\ Ids(found.text) = {Id(r) : r \in Range(found.text)}
  BY <1>1 DEF FoundInv
<1>4. \A r, s \in Merged : Id(r) = Id(s) => r = s
  BY <1>2, <1>3
<1>5. {Id(r) : r \in Merged} = Ids(found.vector) \cup Ids(found.text)
  BY <1>2, <1>3
<1>6. Merged \subseteq HitRows /\ \A r \in Merged : Comparable(r)
  BY <1>1, <1>2 DEF FoundInv
<1>7. IsFiniteSet(V) /\ IsFiniteSet(Range(found.text))
  BY <1>1 DEF FoundInv
<1>8. IsFiniteSet(T)
  BY <1>7, FS_Subset
<1>9. IsFiniteSet(Merged)
  BY <1>2, <1>7, <1>8, FS_Union
<1> QED
  BY <1>4, <1>5, <1>6, <1>9

-----------------------------------------------------------------------------
(* The ranked candidates. *)

RankedInv ==
  /\ pc \in {"vector", "meta", "chunks"} => Merged = {}
  /\ pc \in {"vector", "text", "fuse", "meta", "chunks"} => ranked = <<>>
  /\ pc \notin {"vector", "text", "fuse", "meta", "chunks"} =>
       ranked \in Orderings(Merged, RanksBefore)
  /\ pc = "rerank" => ranked # <<>>

\* The fused list is fixed by what the queries found.
LEMMA SameFoundSameOrder ==
  ASSUME found' = found
  PROVE  /\ Orderings(Merged, RanksBefore)' = Orderings(Merged, RanksBefore)
         /\ Merged' = Merged
BY DEF Orderings, Merged, RanksBefore, More, Rrf, Met, BothRanks, OneRank, Rank, Ids, Id

LEMMA RankedKept ==
  ASSUME RankedInv, [SNext]_allvars
  PROVE  RankedInv'
<1>0. CASE BlankQuery \/ FetchChunks \/ \E d \in Docs : FetchMeta(d)
  <2>1. Merged = {} /\ ranked = <<>> /\ found' = found /\ ranked' = ranked
    BY <1>0 DEF BlankQuery, FetchMeta, FetchChunks, RankedInv
  <2>2. ranked \in Orderings(Merged, RanksBefore)
    <3>1. Cardinality(Merged) = 0
      BY <2>1, FS_EmptySet
    <3> QED
      BY <2>1, <3>1 DEF Orderings, Range
  <2>3. pc' \in {"count", "chunks", "done"}
    BY <1>0 DEF BlankQuery, FetchMeta, FetchChunks
  <2> QED
    BY <2>1, <2>2, <2>3, SameFoundSameOrder DEF RankedInv
<1>1. CASE VectorQuery
  BY <1>1 DEF VectorQuery, RankedInv
<1>2. CASE TextQuery
  BY <1>2 DEF TextQuery, RankedInv
<1>3. CASE Fuse
  <2>1. found' = found /\ ranked' \in Orderings(Merged, RanksBefore)
    BY <1>3 DEF Fuse
  <2>2. ranked' \in Orderings(Merged, RanksBefore)'
    BY <2>1, SameFoundSameOrder
  <2> QED
    BY <1>3, <2>2 DEF Fuse, RankedInv
<1>4. CASE Answer \/ NoneReranked \/ Count
  BY <1>4, SameFoundSameOrder DEF Answer, NoneReranked, Count, RankedInv
<1>5. CASE IndexStep \/ UNCHANGED allvars
  BY <1>5, SameFoundSameOrder DEF IndexStep, allvars, svars, RankedInv
<1> QED
  BY <1>0, <1>1, <1>2, <1>3, <1>4, <1>5 DEF SNext

\* What the ranked list says of each candidate.
LEMMA RankedIsListing ==
  ASSUME FoundInv, RankedInv
  PROVE  /\ ranked \in Seq(HitRows)
         /\ \A i, j \in DOMAIN ranked : Id(ranked[i]) = Id(ranked[j]) => i = j
         /\ \A i \in DOMAIN ranked : Comparable(ranked[i])
         /\ pc \notin {"vector", "text", "fuse", "meta", "chunks"} =>
              {Id(ranked[i]) : i \in DOMAIN ranked} = Ids(found.vector) \cup Ids(found.text)
<1>1. CASE ranked = <<>> /\ pc \in {"vector", "text", "fuse", "meta", "chunks"}
  BY <1>1
<1>2. CASE ranked \in Orderings(Merged, RanksBefore)
  <2>1. Cardinality(Merged) \in Nat
    BY MergedOnce, FS_CardinalityType
  <2>2. ranked \in [1..Cardinality(Merged) -> Merged]
    BY <1>2 DEF Orderings
  <2>3. ranked \in Seq(HitRows)
    BY <2>1, <2>2, MergedOnce
  <2>4. \A i \in DOMAIN ranked : ranked[i] \in Merged
    BY <2>2
  <2>5. \A i, j \in DOMAIN ranked : ranked[i] = ranked[j] => i = j
    BY <1>2 DEF Orderings
  <2>6. \A i, j \in DOMAIN ranked : Id(ranked[i]) = Id(ranked[j]) => i = j
    BY <2>4, <2>5, MergedOnce
  <2>7. Range(ranked) = Merged
    BY <1>2 DEF Orderings
  <2>8. {Id(ranked[i]) : i \in DOMAIN ranked} = {Id(r) : r \in Merged}
    BY <2>7 DEF Range
  <2> QED
    BY <2>3, <2>4, <2>6, <2>8, MergedOnce
<1> QED
  BY <1>1, <1>2 DEF RankedInv

-----------------------------------------------------------------------------
(* Reranking and the gate. *)

\* The pool is not empty and its order begins with the best score.
LEMMA OrderFallsFromBest ==
  ASSUME ranked \in Seq(HitRows), ranked # <<>>,
         NEW scores \in [Pool -> Scores], NEW order \in RerankOrders(scores)
  PROVE  /\ Len(order) \in Nat \ {0}
         /\ order \in [1..Len(order) -> 1..Len(ranked)]
         /\ \A i \in 1..Len(order) : scores[order[i]] \in Scores
         /\ \A i \in 1..Len(order) : scores[order[i]] <= scores[order[1]]
<1>0. Smaller(PoolSize, Len(ranked)) \in Nat /\ Smaller(PoolSize, Len(ranked)) <= Len(ranked)
  BY RankAssumption DEF Smaller
<1>1. PICK S \in (SUBSET Pool) \ {{}} :
        order \in BestFirst(S, scores)
  BY DEF RerankOrders
<1> DEFINE n == Cardinality(S)
<1>2. IsFiniteSet(Pool)
  BY <1>0, FS_Interval DEF Pool
<1>3. n \in Nat \ {0}
  BY <1>1, <1>2, FS_Subset, FS_CardinalityType, FS_EmptySet
<1>4. order \in [1..n -> S]
  BY <1>1 DEF BestFirst, Orderings
<1>5. Len(order) = n
  BY <1>3, <1>4
<1>6. \A i \in 1..n : order[i] \in Pool
  BY <1>1, <1>4
<1>7. \A i \in 1..n : order[i] \in 1..Len(ranked) /\ scores[order[i]] \in Scores
  BY <1>0, <1>6 DEF Pool
<1>8. \A i, j \in 1..n : i < j =>
        \/ scores[order[i]] > scores[order[j]]
        \/ scores[order[i]] = scores[order[j]]
  BY <1>1, <1>4 DEF BestFirst, Orderings
<1>9. \A i \in 1..n : scores[order[i]] <= scores[order[1]]
  <2> HIDE DEF n
  <2> TAKE i \in 1..n
  <2>1. 1 \in 1..n /\ (i = 1 \/ 1 < i)
    BY <1>3
  <2>2. scores[order[i]] \in Int /\ scores[order[1]] \in Int
    BY <1>7, <2>1, RankAssumption
  <2>3. CASE i = 1
    BY <2>2, <2>3
  <2>4. CASE 1 < i
    BY <1>8, <2>1, <2>2, <2>4
  <2> QED
    BY <2>1, <2>3, <2>4
<1>10. order \in [1..n -> 1..Len(ranked)]
  BY <1>4, <1>7
<1> QED
  BY <1>3, <1>5, <1>7, <1>9, <1>10

\* The hits of an order, cut at any limit: they are there, the first is the
\* best, and it is the same one whatever the limit.
LEMMA HitsOfOrder ==
  ASSUME FoundInv, RankedInv, ranked # <<>>, NEW scores \in [Pool -> Scores],
         NEW order \in RerankOrders(scores), NEW limit \in Nat \ {0}
  PROVE  LET hits == Hits(order, scores, limit)
         IN  \E n \in Nat \ {0} :
               /\ DOMAIN hits = 1..n
               /\ \A i \in 1..n : /\ hits[i].row \in HitRows /\ Comparable(hits[i].row)
                                  /\ hits[i].score \in Scores /\ hits[i].score <= hits[1].score
               /\ hits # <<>> /\ hits[1].score = scores[order[1]]
<1> DEFINE n == Smaller(limit, Len(order))
           hits == Hits(order, scores, limit)
<1>1. ranked \in Seq(HitRows)
  BY RankedIsListing
<1>2. /\ Len(order) \in Nat \ {0}
      /\ order \in [1..Len(order) -> 1..Len(ranked)]
      /\ \A i \in 1..Len(order) : scores[order[i]] \in Scores
      /\ \A i \in 1..Len(order) : scores[order[i]] <= scores[order[1]]
  BY <1>1, OrderFallsFromBest
<1>3. n \in Nat \ {0} /\ n <= Len(order)
  BY <1>2 DEF Smaller
<1>4. DOMAIN hits = 1..n /\ \A i \in 1..n : hits[i] = [row |-> ranked[order[i]], score |-> scores[order[i]]]
  BY DEF Hits
<1>5. \A i \in 1..n : order[i] \in DOMAIN ranked /\ i \in 1..Len(order)
  BY <1>1, <1>2, <1>3
<1>6. 1 \in 1..n
  BY <1>3
<1> HIDE DEF n, hits
<1>7. \A i \in 1..n : /\ hits[i].row \in HitRows /\ Comparable(hits[i].row)
                      /\ hits[i].score \in Scores /\ hits[i].score <= hits[1].score
  <2> TAKE i \in 1..n
  <2>1. hits[i].row = ranked[order[i]] /\ hits[i].score = scores[order[i]]
        /\ hits[1].score = scores[order[1]]
    BY <1>4, <1>6
  <2>2. ranked[order[i]] \in HitRows /\ Comparable(ranked[order[i]])
    BY <1>1, <1>5, RankedIsListing
  <2> QED
    BY <1>2, <1>5, <2>1, <2>2
<1>8. hits # <<>> /\ hits[1].score = scores[order[1]]
  <2>1. hits # <<>>
    <3> SUFFICES ASSUME hits = <<>> PROVE FALSE
      OBVIOUS
    <3>1. DOMAIN hits = {}
      OBVIOUS
    <3> QED
      BY <1>4, <1>6, <3>1
  <2>2. hits[1].score = scores[order[1]]
    BY <1>4, <1>6
  <2> QED
    BY <2>1, <2>2
<1> QED
  BY <1>3, <1>4, <1>7, <1>8 DEF hits

AnswerInv ==
  /\ pc # "done" => answer = NoAnswer
  /\ answer.passes \subseteq Cases
  /\ EvaluationMeasuresTheTool
  /\ answer.told \in {"none", "answer", "not enough", "nothing", "stranded"}
  /\ \A p \in answer.passages :
       p.row \in HitRows /\ p.score \in Scores /\ Comparable(p.row)
  /\ GateHolds

\* The gate on hits of which the first is the best.
LEMMA JudgedHolds ==
  ASSUME NEW n \in Nat \ {0}, NEW hits, NEW seen, DOMAIN hits = 1..n,
         \A i \in 1..n : hits[i].score \in Int /\ hits[i].score <= hits[1].score
  PROVE  LET told     == Judged(hits, seen).told
             passages == Judged(hits, seen).passages
         IN  /\ told \in {"answer", "not enough"}
             /\ passages \subseteq Range(hits)
             /\ told = "answer" <=> \E p \in passages : p.score >= Threshold
             /\ told = "answer" =>
                  \A p \in passages : p.score >= Threshold /\ p.score <= Judged(hits, seen).best
             /\ Judged(hits, seen).passes = Passed(seen)
             /\ told = "answer" <=> hits # <<>> /\ hits[1].score >= Threshold
<1>0. hits # <<>>
  OBVIOUS
<1>1. 1 \in 1..n /\ hits[1] \in Range(hits)
  BY DEF Range
<1>2. \A p \in Range(hits) : p.score \in Int /\ p.score <= hits[1].score
  BY DEF Range
<1>3. CASE hits[1].score >= Threshold
  BY <1>0, <1>1, <1>2, <1>3 DEF Judged
<1>4. CASE ~(hits[1].score >= Threshold)
  <2>1. \A p \in Range(hits) : ~(p.score >= Threshold)
    BY <1>1, <1>2, <1>4, RankAssumption
  <2> QED
    BY <1>0, <1>1, <1>4, <2>1 DEF Judged
<1> QED
  BY <1>3, <1>4

\* What an evaluation makes of hits follows the gate.
LEMMA PassedFollowsTheGate ==
  ASSUME NEW hits, NEW case \in Cases
  PROVE  LET sufficient == hits # <<>> /\ hits[1].score >= Threshold
         IN  /\ case.documents = {} => (case \in Passed(hits) <=> ~sufficient)
             /\ case.documents # {} => (case \in Passed(hits) => sufficient)
BY DEF Passed

LEMMA AnswerKept ==
  ASSUME FoundInv, RankedInv, AnswerInv, [SNext]_allvars
  PROVE  AnswerInv'
<1>1. CASE Answer
  <2>1. PICK scores \in [Pool -> Scores] : \E order \in RerankOrders(scores) :
          answer' = Judged(Hits(order, scores, Limit), Hits(order, scores, CaseLimit))
    BY <1>1 DEF Answer
  <2>2. PICK order \in RerankOrders(scores) :
          answer' = Judged(Hits(order, scores, Limit), Hits(order, scores, CaseLimit))
    BY <2>1
  <2> DEFINE hits == Hits(order, scores, Limit)
             seen == Hits(order, scores, CaseLimit)
  <2>3. ranked # <<>>
    BY <1>1 DEF Answer, RankedInv
  <2>4. PICK n \in Nat \ {0} :
          /\ DOMAIN hits = 1..n
          /\ \A i \in 1..n : /\ hits[i].row \in HitRows /\ Comparable(hits[i].row)
                             /\ hits[i].score \in Scores /\ hits[i].score <= hits[1].score
    BY <2>3, HitsOfOrder, RankAssumption
  <2>5. hits # <<>> /\ seen # <<>> /\ hits[1].score = seen[1].score
    BY <2>3, HitsOfOrder, RankAssumption
  <2>8. answer' = Judged(hits, seen)
    BY <2>2
  <2> HIDE DEF hits, seen
  <2>9. \A p \in Range(hits) : p.row \in HitRows /\ Comparable(p.row) /\ p.score \in Scores
    BY <2>4 DEF Range
  <2>10. \A i \in 1..n : hits[i].score \in Int /\ hits[i].score <= hits[1].score
    BY <2>4, RankAssumption
  <2>11. /\ answer'.told \in {"answer", "not enough"}
         /\ answer'.passages \subseteq Range(hits)
         /\ answer'.told = "answer" <=> \E p \in answer'.passages : p.score >= Threshold
         /\ answer'.told = "answer" =>
              \A p \in answer'.passages : p.score >= Threshold /\ p.score <= answer'.best
         /\ answer'.passes = Passed(seen)
         /\ answer'.told = "answer" <=> hits # <<>> /\ hits[1].score >= Threshold
    BY <2>4, <2>8, <2>10, JudgedHolds
  <2>12. pc' = "done" /\ asks' = asks
    BY <1>1 DEF Answer
  <2>13. EvaluationMeasuresTheTool' /\ answer'.passes \subseteq Cases
    BY <2>5, <2>11, PassedFollowsTheGate DEF EvaluationMeasuresTheTool, Passed
  <2> QED
    BY <2>9, <2>11, <2>12, <2>13 DEF AnswerInv, GateHolds, Comparable
<1>2. CASE Count
  <2>1. /\ answer' = [answer EXCEPT !.told = IF Stranded = {} THEN "nothing" ELSE "stranded",
                                    !.passes = Passed(<<>>)]
        /\ pc = "count" /\ pc' = "done" /\ asks' = asks
    BY <1>2 DEF Count
  <2>2. answer = NoAnswer
    BY <2>1 DEF AnswerInv
  <2>3. PICK told \in {"nothing", "stranded"} :
          answer' = [answer EXCEPT !.told = told, !.passes = Passed(<<>>)]
    BY <2>1, Zenon
  <2>4. /\ answer'.told = told /\ answer'.passages = {} /\ answer'.passes = Passed(<<>>)
    BY <2>2, <2>3 DEF NoAnswer
  <2>5. answer'.told \in {"nothing", "stranded"} /\ answer'.passages = {}
    BY <2>4
  <2>6. GateHolds'
    BY <2>5 DEF GateHolds
  <2>7. EvaluationMeasuresTheTool' /\ answer'.passes \subseteq Cases
    BY <2>4, PassedFollowsTheGate DEF EvaluationMeasuresTheTool, Passed
  <2> QED
    BY <2>1, <2>5, <2>6, <2>7 DEF AnswerInv
<1>3. CASE BlankQuery \/ VectorQuery \/ TextQuery \/ Fuse \/ NoneReranked
  BY <1>3
  DEF BlankQuery, VectorQuery, TextQuery, Fuse, NoneReranked, AnswerInv, GateHolds, EvaluationMeasuresTheTool, Comparable
<1>5. CASE FetchChunks \/ \E d \in Docs : FetchMeta(d)
  <2>1. answer = NoAnswer /\ answer' = answer
    BY <1>5 DEF FetchChunks, FetchMeta, AnswerInv
  <2> QED
    BY <2>1 DEF AnswerInv, GateHolds, EvaluationMeasuresTheTool, NoAnswer
<1>4. CASE IndexStep \/ UNCHANGED allvars
  BY <1>4 DEF IndexStep, allvars, svars, AnswerInv, GateHolds, EvaluationMeasuresTheTool, Comparable
<1> QED
  BY <1>1, <1>2, <1>3, <1>4, <1>5 DEF SNext

-----------------------------------------------------------------------------

(* Fetching. *)

\* A file has the chunks of one version.
OneVersion == \A d \in Docs : \A k, l \in chunks[d] : k = l

LEMMA OneVersionKept ==
  ASSUME TypeOK, OneVersion, [Next]_vars
  PROVE  OneVersion'
<1>1. ASSUME NEW d \in Docs, NEW c \in Contents, NEW m \in Models, Store(d, c, m)
      PROVE  OneVersion'
  <2>1. PICK parse : chunks' = [chunks EXCEPT ![d] = ChunksOf(parse, c, m)]
    BY <1>1 DEF Store
  <2>2. \A k, l \in ChunksOf(parse, c, m) : k = l
    BY DEF ChunksOf
  <2> QED
    BY <2>1, <2>2 DEF TypeOK, OneVersion
<1>2. CASE UNCHANGED chunks
  BY <1>2 DEF OneVersion
<1> QED
  BY <1>1, <1>2 DEF Next, Reject, vars

\* What the columns that a fetch has read say of the document's chunks.
Columns(of, text) ==
  /\ of.status = "indexed" => text \subseteq {[content |-> of.hash, model |-> of.model]}
  /\ of.status \in {"absent", "pending"} => text = {}

FetchInv ==
  /\ fetched.of \in Rows \cup {NoRow} /\ fetched.text \in ChunkSets /\ fetched.renewed \in BOOLEAN
  /\ pc # "done" => fetched.text = {}
  /\ pc = "chunks" =>
       /\ fetched = [doc |-> fetched.doc, of |-> fetched.of, text |-> fetched.text,
                     renewed |-> fetched.renewed]
       /\ fetched.doc \in Docs
       /\ ~fetched.renewed => fetched.of = row[fetched.doc]
  /\ FetchedIsOneVersion

LEMMA RowsSpeak ==
  ASSUME TypeOK, Coherent, NEW d \in Docs
  PROVE  Columns(row[d], chunks[d])
<1>1. row[d] \in Rows => row[d].status # "absent"
  BY DEF Rows, Statuses
<1>2. row[d] = NoRow => row[d].status = "absent"
  BY DEF NoRow
<1>3. row[d] \in Rows \/ row[d] = NoRow
  BY DEF TypeOK
<1> QED
  BY <1>1, <1>2, <1>3 DEF Coherent, Columns, ChunksOf

LEMMA FetchKept ==
  ASSUME TypeOK, Coherent, OneVersion, FetchInv, [SNext]_allvars
  PROVE  FetchInv'
<1>1. CASE \E d \in Docs : FetchMeta(d)
  <2>1. PICK d \in Docs : FetchMeta(d)
    BY <1>1
  <2>2. fetched' = [doc |-> d, of |-> row[d], text |-> {}, renewed |-> FALSE]
    BY <2>1 DEF FetchMeta
  <2>3. row' = row /\ row[d] \in Rows \cup {NoRow} /\ {} \in ChunkSets
    BY <2>1 DEF FetchMeta, vars, TypeOK, ChunkSets
  <2> QED
    BY <2>2, <2>3 DEF FetchInv, FetchedIsOneVersion
<1>2. CASE FetchChunks
  <2> DEFINE d == fetched.doc
  <2>1. /\ d \in Docs /\ pc' = "done"
        /\ fetched' = [fetched EXCEPT !.text = chunks[d]]
        /\ fetched = [doc |-> d, of |-> fetched.of, text |-> fetched.text,
                      renewed |-> fetched.renewed]
    BY <1>2 DEF FetchChunks, FetchInv
  <2>2. /\ fetched'.of = fetched.of /\ fetched'.text = chunks[d]
        /\ fetched'.renewed = fetched.renewed
    BY <2>1
  <2>3. chunks[d] \in ChunkSets /\ \A k, l \in chunks[d] : k = l
    BY <2>1 DEF TypeOK, OneVersion
  <2>4. ~fetched.renewed => Columns(fetched.of, chunks[d])
    BY <1>2, <2>1, RowsSpeak DEF FetchChunks, FetchInv
  <2> QED
    BY <2>1, <2>2, <2>3, <2>4 DEF FetchInv, FetchedIsOneVersion, Columns
<1>3. CASE IndexStep
  <2>1. CASE pc = "chunks" /\ row'[fetched.doc] # row[fetched.doc]
    <3>1. fetched' = [fetched EXCEPT !.renewed = TRUE] /\ pc' = pc
      BY <1>3, <2>1 DEF IndexStep
    <3>2. /\ fetched'.doc = fetched.doc /\ fetched'.of = fetched.of
          /\ fetched'.text = fetched.text /\ fetched'.renewed = TRUE
          /\ fetched' = [doc |-> fetched'.doc, of |-> fetched'.of, text |-> fetched'.text,
                         renewed |-> fetched'.renewed]
      BY <2>1, <3>1 DEF FetchInv
    <3> QED
      BY <2>1, <3>1, <3>2 DEF FetchInv, FetchedIsOneVersion
  <2>2. CASE ~(pc = "chunks" /\ row'[fetched.doc] # row[fetched.doc])
    <3>1. fetched' = fetched /\ pc' = pc /\ pc # "done"
      BY <1>3, <2>2 DEF IndexStep
    <3> QED
      BY <2>2, <3>1 DEF FetchInv, FetchedIsOneVersion
  <2> QED
    BY <2>1, <2>2
<1>4. CASE BlankQuery \/ VectorQuery \/ TextQuery \/ Fuse \/ Answer \/ NoneReranked \/ Count
  <2>1. fetched' = fetched /\ row' = row /\ pc # "done" /\ pc' # "chunks"
    BY <1>4 DEF BlankQuery, VectorQuery, TextQuery, Fuse, Answer, NoneReranked, Count, vars
  <2>2. fetched.text = {}
    BY <2>1 DEF FetchInv
  <2> QED
    BY <2>1, <2>2 DEF FetchInv, FetchedIsOneVersion
<1>5. CASE UNCHANGED allvars
  BY <1>5 DEF allvars, svars, vars, FetchInv, FetchedIsOneVersion
<1> QED
  BY <1>1, <1>2, <1>3, <1>4, <1>5 DEF SNext

-----------------------------------------------------------------------------

SInv == TypeOK /\ Coherent /\ RowsName /\ FoundInv /\ RankedInv /\ AnswerInv /\ OneVersion /\ FetchInv
             /\ pc \in {"vector", "text", "fuse", "rerank", "count", "meta", "chunks", "done"}

LEMMA IndexOnly == [SNext]_allvars => [Next]_vars
  BY DEF SNext, VectorQuery, TextQuery, BlankQuery, Fuse, Answer, NoneReranked, Count, FetchMeta, FetchChunks,
         IndexStep, allvars

LEMMA SearchInvariant == SSpec => []SInv
<1>1. SInit => SInv
  <2> SUFFICES ASSUME SInit PROVE SInv
    OBVIOUS
  <2>1. found.vector = <<>> /\ found.text = <<>> /\ pc \in {"vector", "meta"} /\ ranked = <<>>
    BY DEF SInit, Query
  <2>2. Merged = {}
    BY <2>1 DEF Merged, Range
  <2>3. RankedInv
    BY <2>1, <2>2 DEF RankedInv
  <2>4. AnswerInv
    BY <2>1 DEF SInit, AnswerInv, GateHolds, EvaluationMeasuresTheTool, NoAnswer
  <2>5. FetchInv
    BY <2>1 DEF SInit, FetchInv, FetchedIsOneVersion, NoFetch, ChunkSets
  <2>6. OneVersion /\ RowsName
    BY DEF SInit, Init, OneVersion, RowsName
  <2> QED
    BY <2>1, <2>3, <2>4, <2>5, <2>6, FoundAtFirst, CoherentAtFirst DEF SInit, SInv
<1>2. SInv /\ [SNext]_allvars => SInv'
  <2> SUFFICES ASSUME SInv, [SNext]_allvars PROVE SInv'
    OBVIOUS
  <2>1. TypeOK' /\ Coherent' /\ OneVersion' /\ RowsName'
    BY IndexOnly, IndexTypeStep, CoherentKept, OneVersionKept, RowsNameKept DEF SInv
  <2>2. FoundInv' /\ RankedInv' /\ AnswerInv' /\ FetchInv'
    BY FoundKept, RankedKept, AnswerKept, FetchKept DEF SInv
  <2>3. pc' \in {"vector", "text", "fuse", "rerank", "count", "meta", "chunks", "done"}
    BY DEF SInv, SNext, VectorQuery, TextQuery, BlankQuery, Fuse, Answer, NoneReranked, Count, FetchMeta,
           FetchChunks, IndexStep, allvars, svars
  <2> QED
    BY <2>1, <2>2, <2>3 DEF SInv
<1> QED
  BY <1>1, <1>2, PTL DEF SSpec

\* Type correctness of the search.
THEOREM SearchTyping == SSpec => []STypeOK
<1>1. SInv => STypeOK
  BY RankedIsListing DEF SInv, STypeOK, FoundInv, AnswerInv, FetchInv
<1> QED
  BY <1>1, SearchInvariant, PTL

\* Whatever is ingested between the statements, a passage has a vector of the
\* searching model and the recorded bytes, of an indexed, pending or skipped
\* document alike: only the rows of rejected passes stand over other chunks.
THEOREM OnlyRejectedHitsMix == SSpec => []ComparableUnlessRejected
<1>1. SInv => ComparableUnlessRejected
  BY DEF SInv, AnswerInv, ComparableUnlessRejected, Comparable
<1> QED
  BY <1>1, SearchInvariant, PTL

\* With at most RRF_K + 1 candidates a query, no rank in one query alone
\* outweighs being found by both.
THEOREM BothWin == SSpec => []AgreementWins
<1>1. SInv => AgreementWins
  <2> SUFFICES ASSUME SInv PROVE AgreementWins
    OBVIOUS
  <2>1. CASE ranked = <<>>
    BY <2>1 DEF AgreementWins
  <2>2. CASE ranked \in Orderings(Merged, RanksBefore)
    BY <2>2, FusionAgrees DEF SInv, AgreementWins
  <2> QED
    BY <2>1, <2>2 DEF SInv, RankedInv
<1> QED
  BY <1>1, SearchInvariant, PTL

\* A chunk found by both queries is one candidate, even when its document's
\* row changed between them, and no candidate is dropped by the fusion.
THEOREM CandidatesOnce == SSpec => []FoundOnce
<1>1. SInv => FoundOnce
  BY RankedIsListing DEF SInv, FoundOnce
<1> QED
  BY <1>1, SearchInvariant, PTL

\* The gate holds for any scores and any floor.
THEOREM NothingWeakIsAnswered == SSpec => []GateHolds
<1>1. SInv => GateHolds
  BY DEF SInv, AnswerInv
<1> QED
  BY <1>1, SearchInvariant, PTL
\* An evaluation counts as answered and as refused what the tool answers and
\* refuses, for any hits, scores, floor and cases.
THEOREM EvaluationIsHonest == SSpec => []EvaluationMeasuresTheTool
<1>1. SInv => EvaluationMeasuresTheTool
  BY DEF SInv, AnswerInv
<1> QED
  BY <1>1, SearchInvariant, PTL

\* Whatever is ingested between the two statements of a fetch.
THEOREM FetchIsWhole == SSpec => []FetchedIsOneVersion
<1>1. SInv => FetchedIsOneVersion
  BY DEF SInv, FetchInv
<1> QED
  BY <1>1, SearchInvariant, PTL
=============================================================================
