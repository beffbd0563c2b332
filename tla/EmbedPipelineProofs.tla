------------------------ MODULE EmbedPipelineProofs ------------------------
(***************************************************************************)
(* What holds of the second half of ingest_document for every document,    *)
(* every setting of the sizes, the budget and the policy, and whatever the *)
(* patterns find: of chunk_blocks (Chunking), of redact (Pii), and of the  *)
(* pipeline around them, whose every behaviour is one of Chunking.         *)
(*                                                                         *)
(* The model computes with recursive functions and folds.  What they give  *)
(* is proved by induction over a set: the numbers, or the sequences, for   *)
(* which the fact holds.                                                   *)
(***************************************************************************)
EXTENDS EmbedPipeline, TLAPS, FiniteSetTheorems, WellFoundedInduction

(* Induction, and recursive functions. *)

LEMMA EveryNumber ==
  ASSUME NEW T, 0 \in T, \A n \in Nat : n \in T => n + 1 \in T
  PROVE  Nat \subseteq T
<1> DEFINE rest == Nat \ T
<1> SUFFICES ASSUME rest # {} PROVE FALSE
  OBVIOUS
<1>1. PICK n \in rest : \A m \in rest : ~(<<m, n>> \in OpToRel(<, Nat))
  <2>1. rest \subseteq Nat
    OBVIOUS
  <2> HIDE DEF rest
  <2> QED
    BY <2>1, NatLessThanWellFounded, WFMin
<1>2. n \in Nat /\ n # 0 /\ n \notin T
  OBVIOUS
<1>3. n - 1 \in Nat /\ n - 1 < n /\ (n - 1) + 1 = n
  BY <1>2
<1>4. n - 1 \notin T
  BY <1>2, <1>3
<1>5. n - 1 \in rest
  BY <1>3, <1>4
<1> QED
  BY <1>1, <1>2, <1>3, <1>5 DEF OpToRel

LEMMA EverySequence ==
  ASSUME NEW S, NEW T, <<>> \in T,
         \A s \in Seq(S) : \A e \in S : s \in T => Append(s, e) \in T
  PROVE  Seq(S) \subseteq T
<1> DEFINE N == {n \in Nat : \A s \in Seq(S) : Len(s) = n => s \in T}
<1>1. 0 \in N
  OBVIOUS
<1>2. ASSUME NEW n \in Nat, n \in N PROVE n + 1 \in N
  <2> SUFFICES ASSUME NEW s \in Seq(S), Len(s) = n + 1 PROVE s \in T
    OBVIOUS
  <2> DEFINE front == SubSeq(s, 1, n)
  <2>1. front \in Seq(S) /\ Len(front) = n /\ s[n + 1] \in S
    OBVIOUS
  <2>2. s = Append(front, s[n + 1])
    OBVIOUS
  <2>3. front \in T
    BY <1>2, <2>1
  <2> QED
    BY <2>1, <2>2, <2>3
<1>3. Nat \subseteq N
  BY <1>1, <1>2, EveryNumber
<1> QED
  BY <1>3

\* A function that is defined by recursion on numbers up to n is one.
LEMMA Recursion ==
  ASSUME NEW V, NEW base \in V, NEW n \in Nat, NEW step \in [1..n -> [V -> V]]
  PROVE  \E g \in [0..n -> V] : g[0] = base /\ \A i \in 1..n : g[i] = step[i][g[i - 1]]
<1> DEFINE IsUpTo(m, g) == /\ g \in [0..m -> V] /\ g[0] = base
                           /\ \A i \in 1..m : g[i] = step[i][g[i - 1]]
           N == {m \in Nat : m <= n => \E g : IsUpTo(m, g)}
<1>1. 0 \in N
  <2>1. IsUpTo(0, [i \in 0..0 |-> base])
    OBVIOUS
  <2> QED
    BY <2>1
<1>2. ASSUME NEW m \in Nat, m \in N PROVE m + 1 \in N
  <2> SUFFICES ASSUME m + 1 <= n PROVE \E g : IsUpTo(m + 1, g)
    OBVIOUS
  <2>1. PICK g : IsUpTo(m, g)
    BY <1>2
  <2> DEFINE h == [i \in 0..(m + 1) |-> IF i = m + 1 THEN step[m + 1][g[m]] ELSE g[i]]
  <2>2. g[m] \in V /\ m + 1 \in 1..n
    BY <2>1
  <2>3. step[m + 1][g[m]] \in V
    BY <2>2
  <2>4. h \in [0..(m + 1) -> V]
    BY <2>1, <2>3
  <2>5. h[0] = base
    BY <2>1
  <2>6. \A i \in 1..(m + 1) : h[i] = step[i][h[i - 1]]
    <3>1. h[m + 1] = step[m + 1][h[m]]
      <4>1. h[m] = g[m] /\ h[m + 1] = step[m + 1][g[m]]
        OBVIOUS
      <4> QED
        BY <4>1
    <3>2. ASSUME NEW i \in 1..m PROVE h[i] = step[i][h[i - 1]]
      <4>1. h[i] = g[i] /\ h[i - 1] = g[i - 1]
        OBVIOUS
      <4> QED
        BY <2>1, <4>1
    <3> HIDE DEF h
    <3> QED
      BY <3>1, <3>2
  <2> HIDE DEF h
  <2>7. IsUpTo(m + 1, h)
    BY <2>4, <2>5, <2>6
  <2> QED
    BY <2>7
<1>3. Nat \subseteq N
  <2> HIDE DEF N
  <2> QED
    BY <1>1, <1>2, EveryNumber
<1> QED
  BY <1>3

LEMMA UpTo ==
  ASSUME NEW n \in Nat, NEW T, 0 \in T, \A i \in 1..n : i - 1 \in T => i \in T
  PROVE  0..n \subseteq T
<1> DEFINE N == {i \in Nat : i <= n => i \in T}
<1>1. 0 \in N
  OBVIOUS
<1>2. ASSUME NEW i \in Nat, i \in N PROVE i + 1 \in N
  <2> SUFFICES ASSUME i + 1 <= n PROVE i + 1 \in T
    OBVIOUS
  <2>1. i \in T /\ i + 1 \in 1..n /\ (i + 1) - 1 = i
    BY <1>2
  <2> QED
    BY <2>1
<1>3. Nat \subseteq N
  <2> HIDE DEF N
  <2> QED
    BY <1>1, <1>2, EveryNumber
<1> QED
  BY <1>3

LEMMA FlattenRec ==
  ASSUME NEW S, NEW ss \in Seq(Seq(S))
  PROVE  \E g \in [0..Len(ss) -> Seq(S)] :
           FlattenSeq(ss) = g[Len(ss)] /\ g[0] = <<>> /\ \A i \in 1..Len(ss) : g[i] = g[i - 1] \o ss[i]
<1> DEFINE V == Seq(S)
           base == <<>>
           n == Len(ss)
           With(v, i) == v \o ss[i]
           step == [i \in 1..n |-> [v \in V |-> With(v, i)]]
           flatten[i \in 1..Len(ss)] == IF i = 1 THEN ss[i] ELSE flatten[i - 1] \o ss[i]
           F(h) == [i \in 1..n |-> IF i = 1 THEN ss[i] ELSE With(h[i - 1], i)]
<1>1. n \in Nat /\ base \in V
  OBVIOUS
<1>2. \A i \in 1..n : \A v \in V : With(v, i) \in V
  OBVIOUS
<1>3. FlattenSeq(ss) = IF n = 0 THEN ss ELSE flatten[n]
  BY DEF FlattenSeq
<1>4. ASSUME NEW g, g = F(g) PROVE flatten = F(flatten)
  BY <1>4
<1>5. \A i \in 1..n : With(base, i) = ss[i]
  OBVIOUS
<1>6. n = 0 => ss = base
  OBVIOUS
<1> HIDE DEF V, base, n, flatten, With
<1>7. step \in [1..n -> [V -> V]] /\ \A i \in 1..n : \A v \in V : step[i][v] = With(v, i)
  BY <1>2
<1> HIDE DEF step
<1>8. PICK g \in [0..n -> V] : g[0] = base /\ \A i \in 1..n : g[i] = step[i][g[i - 1]]
  BY <1>1, <1>7, Recursion, SMTT(60)
<1>9. \A i \in 1..n : g[i - 1] \in V
  BY <1>1
<1>10. \A i \in 1..n : g[i] = With(g[i - 1], i)
  BY <1>7, <1>8, <1>9
<1> DEFINE f == [i \in 1..n |-> g[i]]
<1>11. f = [i \in 1..n |-> IF i = 1 THEN ss[i] ELSE With(f[i - 1], i)]
  <2>1. ASSUME NEW i \in 1..n PROVE g[i] = IF i = 1 THEN ss[i] ELSE With(f[i - 1], i)
    <3>1. CASE i = 1
      <4>1. g[i] = With(base, i)
        BY <1>1, <1>8, <1>10, <3>1
      <4> QED
        BY <1>5, <1>8, <3>1, <4>1
    <3>2. CASE i # 1
      <4>1. i - 1 \in 1..n
        BY <1>1, <3>2
      <4>2. f[i - 1] = g[i - 1]
        BY <4>1
      <4> QED
        BY <1>10, <3>2, <4>2
    <3> QED
      BY <3>1, <3>2
  <2> QED
    BY <2>1
<1> HIDE DEF f
<1>12. flatten = [i \in 1..n |-> IF i = 1 THEN ss[i] ELSE With(flatten[i - 1], i)]
  <2> HIDE DEF F
  <2>1. f = F(f)
    BY <1>11 DEF F
  <2>2. flatten = F(flatten)
    BY <1>4, <2>1
  <2> QED
    BY <2>2 DEF F
<1> DEFINE T == {i \in 0..n : i > 0 => flatten[i] = g[i]}
<1>13. 0..n \subseteq T
  <2>1. 0 \in T
    BY <1>1
  <2>2. ASSUME NEW i \in 1..n, i - 1 \in T PROVE i \in T
    <3>1. flatten[i] = IF i = 1 THEN ss[i] ELSE With(flatten[i - 1], i)
      BY <1>12
    <3>2. CASE i = 1
      <4>1. g[i] = With(base, i)
        BY <1>1, <1>8, <1>10, <3>2
      <4> QED
        BY <1>5, <1>8, <3>1, <3>2, <4>1
    <3>3. CASE i # 1
      <4>1. i - 1 > 0
        BY <3>3
      <4>2. flatten[i - 1] = g[i - 1]
        BY <2>2, <4>1
      <4> QED
        BY <1>10, <3>1, <3>3, <4>2
    <3> QED
      BY <3>2, <3>3
  <2> HIDE DEF T
  <2> QED
    BY <1>1, <2>1, <2>2, UpTo
<1>14. FlattenSeq(ss) = g[n]
  <2>1. CASE n = 0
    BY <1>3, <1>6, <1>8, <2>1
  <2>2. CASE n # 0
    <3>1. n \in 0..n /\ n > 0
      BY <1>1, <2>2
    <3> QED
      BY <1>3, <1>13, <2>2, <3>1
  <2> QED
    BY <2>1, <2>2
<1> QED
  BY <1>8, <1>10, <1>14 DEF V, base, n, With

LEMMA FlattenAppend ==
  ASSUME NEW S, NEW ss \in Seq(Seq(S)), NEW s \in Seq(S)
  PROVE  FlattenSeq(ss) \in Seq(S) /\ FlattenSeq(Append(ss, s)) = FlattenSeq(ss) \o s
<1> DEFINE n == Len(ss)
           more == Append(ss, s)
           With(v, i) == v \o ss[i]
<1>1. n \in Nat /\ more \in Seq(Seq(S)) /\ Len(more) = n + 1
  OBVIOUS
<1>2. more[n + 1] = s /\ \A i \in 1..n : more[i] = ss[i]
  OBVIOUS
<1>3. PICK g \in [0..n -> Seq(S)] :
        FlattenSeq(ss) = g[n] /\ g[0] = <<>> /\ \A i \in 1..n : g[i] = With(g[i - 1], i)
  BY FlattenRec
<1> HIDE DEF more
<1>4. PICK h \in [0..(n + 1) -> Seq(S)] :
        FlattenSeq(more) = h[n + 1] /\ h[0] = <<>> /\ \A i \in 1..(n + 1) : h[i] = h[i - 1] \o more[i]
  <2>1. PICK h \in [0..Len(more) -> Seq(S)] :
          /\ FlattenSeq(more) = h[Len(more)] /\ h[0] = <<>>
          /\ \A i \in 1..Len(more) : h[i] = h[i - 1] \o more[i]
    BY <1>1, FlattenRec
  <2> HIDE DEF n
  <2> QED
    BY <1>1, <2>1
<1> DEFINE T == {i \in 0..n : h[i] = g[i]}
<1>10. \A i \in 1..n : h[i] = With(h[i - 1], i)
  <2>1. \A i \in 1..n : i \in 1..(n + 1)
    BY <1>1
  <2>2. \A i \in 1..n : h[i] = h[i - 1] \o more[i]
    BY <1>4, <2>1
  <2> QED
    BY <1>2, <2>2
<1> HIDE DEF With
<1>5. 0 \in T
  BY <1>1, <1>3, <1>4
<1>6. ASSUME NEW i \in 1..n, i - 1 \in T PROVE i \in T
  <2>1. h[i] = With(h[i - 1], i)
    BY <1>10
  <2> QED
    BY <1>3, <1>6, <2>1
<1> HIDE DEF n
<1>7. h[n] = g[n]
  <2> HIDE DEF T
  <2>1. 0..n \subseteq T
    BY <1>1, <1>5, <1>6, UpTo
  <2> QED
    BY <1>1, <2>1 DEF T
<1>8. h[n + 1] = h[n] \o s
  <2>1. n + 1 \in 1..(n + 1) /\ (n + 1) - 1 = n
    BY <1>1
  <2> QED
    BY <1>2, <1>4, <2>1
<1>9. g[n] \in Seq(S)
  BY <1>1
<1> QED
  BY <1>3, <1>4, <1>7, <1>8, <1>9 DEF more

LEMMA FlattenNone == FlattenSeq(<<>>) = <<>>
  BY DEF FlattenSeq

\* The numbers from 1 to n have one order.
LEMMA OneOrder ==
  ASSUME NEW n \in Nat, NEW r \in [1..n -> 1..n],
         \A i, k \in 1..n : i < k => r[i] < r[k]
  PROVE  \A i \in 1..n : r[i] = i
<1> DEFINE T == {i \in 0..n : i > 0 => r[i] >= i}
           U == {i \in 0..n : i < n => r[n - i] <= n - i}
<1>1. 0..n \subseteq T
  <2>1. 0 \in T
    OBVIOUS
  <2>2. ASSUME NEW i \in 1..n, i - 1 \in T PROVE i \in T
    <3>1. CASE i = 1
      BY <3>1
    <3>2. CASE i # 1
      <4>1. i - 1 \in 1..n /\ i - 1 < i /\ i \in 0..n
        BY <3>2
      <4>2. r[i - 1] \in 1..n /\ r[i] \in 1..n /\ r[i - 1] < r[i] /\ r[i - 1] >= i - 1
        BY <2>2, <4>1
      <4>3. r[i] >= i
        BY <4>2
      <4> QED
        BY <4>1, <4>3
    <3> QED
      BY <3>1, <3>2
  <2> HIDE DEF T
  <2> QED
    BY <2>1, <2>2, UpTo
<1>2. 0..n \subseteq U
  <2>1. 0 \in U
    OBVIOUS
  <2>2. ASSUME NEW i \in 1..n, i - 1 \in U PROVE i \in U
    <3> SUFFICES ASSUME i < n PROVE r[n - i] <= n - i
      OBVIOUS
    <3>1. n - i \in 1..n /\ n - (i - 1) \in 1..n /\ n - i < n - (i - 1) /\ i - 1 < n
      OBVIOUS
    <3>2. r[n - i] \in 1..n /\ r[n - (i - 1)] \in 1..n
      BY <3>1
    <3>3. r[n - i] < r[n - (i - 1)] /\ r[n - (i - 1)] <= n - (i - 1)
      BY <2>2, <3>1
    <3> QED
      BY <3>2, <3>3
  <2> HIDE DEF U
  <2> QED
    BY <2>1, <2>2, UpTo
<1> TAKE i \in 1..n
<1>3. i \in T /\ n - i \in U
  <2> HIDE DEF T, U
  <2>1. i \in 0..n /\ n - i \in 0..n
    OBVIOUS
  <2> QED
    BY <1>1, <1>2, <2>1
<1>4. r[i] >= i /\ r[n - (n - i)] <= n - (n - i)
  BY <1>3
<1>5. n - (n - i) = i
  OBVIOUS
<1> QED
  BY <1>4, <1>5

-----------------------------------------------------------------------------
(* chunk_blocks. *)

LEMMA CutPieces ==
  ASSUME NEW size \in Nat \ {0}, NEW sizes \in Cuts(size)
  PROVE  \E n \in Nat : sizes \in [1..n -> 1..MaxChars]
<1>1. CASE size <= MaxChars
  <2>1. sizes = <<size>>
    BY <1>1 DEF Cuts
  <2>2. sizes \in [1..1 -> 1..MaxChars]
    BY <1>1, <2>1, SizesAssumption
  <2> QED
    BY <2>2
<1>2. CASE ~(size <= MaxChars)
  <2>1. sizes \in UNION {[1..n -> 1..MaxChars] : n \in 1..MaxPieces}
    BY <1>2 DEF Cuts
  <2> QED
    BY <2>1, DocumentsAssumption
<1> QED
  BY <1>1, <1>2

\* A tail is trimmed so that it fits with the piece after it.
LEMMA FittedFits ==
  ASSUME NEW tail \in 0..Overlap, NEW piece \in Piece
  PROVE  /\ Fitted(tail, piece) \in 0..Overlap
         /\ StartWith(Fitted(tail, piece), piece).size \in Nat
         /\ StartWith(Fitted(tail, piece), piece).size <= MaxChars
  BY SizesAssumption DEF Fitted, StartWith, Smaller, Piece

LEMMA TailBounds ==
  ASSUME NEW text \in Text, NEW tail \in Tails(text)
  PROVE  tail \in 0..Overlap
  BY SizesAssumption DEF Tails

LEMMA EmitTyped ==
  ASSUME CTypeOK, taken > 0
  PROVE  Emit \in Seq(Chunk)
<1>1. taken \in 1..Len(blocks) /\ blocks \in Seq(Block)
  BY DocumentsAssumption DEF CTypeOK
<1>2. Here \in Locations
  <2>1. blocks[taken] \in Block
    BY <1>1
  <2> QED
    BY <2>1 DEF Here, Block
<1>3. Len(chunks) \in Nat
  BY DEF CTypeOK
<1>4. [at |-> Here, text |-> buffer, ordinal |-> Len(chunks)] \in Chunk
  BY <1>2, <1>3 DEF CTypeOK, Chunk
<1> QED
  BY <1>4 DEF Emit, CTypeOK

LEMMA EmptyTyped == Empty \in Text
  BY SizesAssumption DEF Empty, Text

\* What is in the buffer, or is cut and not placed, is of the block taken last.
Pending ==
  /\ buffer # Empty => taken > 0
  /\ \A k \in (placed + 1)..Len(cut) : cut[k].block = taken

IInv == CTypeOK /\ Pending /\ HardBound

LEMMA InitTyped == ChunkInit => IInv
<1> SUFFICES ASSUME ChunkInit PROVE IInv
  OBVIOUS
<1>1. blocks \in Seq(Block)
  BY DocumentsAssumption DEF ChunkInit
<1>2. CTypeOK
  <2>1. blocks \in Documents /\ taken \in 0..Len(blocks)
    BY <1>1 DEF ChunkInit
  <2>2. cut \in Seq(Piece) /\ placed \in 0..Len(cut)
    BY DEF ChunkInit
  <2>3. chunks \in Seq(Chunk)
    BY DEF ChunkInit
  <2> QED
    BY <2>1, <2>2, <2>3, EmptyTyped DEF ChunkInit, CTypeOK
<1>3. Pending
  BY DEF ChunkInit, Pending, Empty
<1>4. HardBound
  BY SizesAssumption DEF ChunkInit, HardBound, Empty
<1> QED
  BY <1>2, <1>3, <1>4 DEF IInv

LEMMA TakeTyped ==
  ASSUME IInv, TakeBlock
  PROVE  IInv'
<1>1. /\ blocks \in Seq(Block) /\ blocks' = blocks
      /\ taken \in Nat /\ taken + 1 \in 1..Len(blocks) /\ taken' = taken + 1
      /\ placed' = placed /\ placed = Len(cut) /\ cut \in Seq(Piece)
  BY DocumentsAssumption DEF IInv, CTypeOK, TakeBlock, AllPlaced
<1>2. PICK sizes \in Cuts(blocks[taken + 1].size) :
        cut' = cut \o [k \in 1..Len(sizes) |-> [block |-> taken + 1, size |-> sizes[k]]]
  BY DEF TakeBlock
<1>3. blocks[taken + 1].size \in Nat \ {0}
  <2>1. blocks[taken + 1] \in Block
    BY <1>1
  <2> QED
    BY <2>1 DEF Block
<1>4. PICK n \in Nat : sizes \in [1..n -> 1..MaxChars]
  BY <1>2, <1>3, CutPieces
<1>5. Len(sizes) = n
  BY <1>4
<1> DEFINE more == [k \in 1..n |-> [block |-> taken + 1, size |-> sizes[k]]]
<1>6. more \in Seq(Piece) /\ Len(more) = n
  BY <1>1, <1>4 DEF Piece
<1>7. cut' = cut \o more
  BY <1>2, <1>5
<1>8. cut' \in Seq(Piece) /\ Len(cut') = Len(cut) + n
  BY <1>1, <1>6, <1>7
<1>9. \A k \in (placed' + 1)..Len(cut') : cut'[k].block = taken'
  <2> SUFFICES ASSUME NEW k \in (placed' + 1)..Len(cut') PROVE cut'[k].block = taken'
    OBVIOUS
  <2>1. k - Len(cut) \in 1..n /\ cut'[k] = more[k - Len(cut)]
    BY <1>1, <1>6, <1>7, <1>8
  <2> QED
    BY <2>1, <1>1
<1>10. /\ chunks' \in Seq(Chunk) /\ buffer' \in Text /\ HardBound'
       /\ buffer' # Empty => taken' > 0
  <2>1. CASE OpensGroup
    <3>1. taken > 0
      BY <2>1 DEF OpensGroup
    <3>2. chunks' = Emit /\ buffer' = Empty
      BY <2>1 DEF TakeBlock
    <3>3. chunks' \in Seq(Chunk)
      BY <3>1, <3>2, EmitTyped DEF IInv
    <3>4. HardBound'
      BY <3>2, SizesAssumption DEF IInv, HardBound, CTypeOK, Emit, Empty
    <3> QED
      BY <3>2, <3>3, <3>4, EmptyTyped
  <2>2. CASE ~OpensGroup
    BY <2>2, <1>1 DEF TakeBlock, IInv, CTypeOK, HardBound
  <2> QED
    BY <2>1, <2>2
<1> QED
  BY <1>1, <1>8, <1>9, <1>10 DEF IInv, CTypeOK, Pending, TakeBlock

LEMMA PlaceTyped ==
  ASSUME IInv, PlacePiece
  PROVE  IInv'
<1> DEFINE piece == cut[placed + 1]
<1>1. /\ cut \in Seq(Piece) /\ placed \in 0..Len(cut) /\ placed # Len(cut)
      /\ buffer \in Text /\ chunks \in Seq(Chunk)
  BY DEF IInv, CTypeOK, PlacePiece, AllPlaced
<1>2. placed + 1 \in 1..Len(cut) /\ piece \in Piece /\ piece.block = taken
  <2>1. placed + 1 \in 1..Len(cut)
    BY <1>1
  <2>2. piece \in Piece
    BY <1>1, <2>1
  <2> QED
    BY <2>1, <2>2 DEF IInv, Pending
<1>3. taken > 0
  <2>1. piece.block \in Nat \ {0}
    BY <1>2 DEF Piece
  <2> QED
    BY <2>1, <1>2
<1>4. /\ placed' = placed + 1 /\ UNCHANGED <<blocks, taken, cut, finished>>
      /\ IF Grown(piece) > MaxChars /\ buffer # Empty THEN Overflow(piece) ELSE Extend(piece)
  BY DEF PlacePiece
<1>5. buffer' \in Text /\ buffer'.size <= MaxChars /\ chunks' \in Seq(Chunk)
  /\ chunks' \in {chunks, Emit}
  <2>1. CASE Grown(piece) > MaxChars /\ buffer # Empty
    <3>1. Overflow(piece)
      BY <1>4, <2>1
    <3>2. PICK tail \in Tails(buffer) : buffer' = StartWith(Fitted(tail, piece), piece)
      BY <3>1 DEF Overflow
    <3>3. tail \in 0..Overlap
      BY <3>2, <1>1, TailBounds
    <3> DEFINE fitted == Fitted(tail, piece)
    <3>4. /\ fitted \in 0..Overlap
          /\ StartWith(fitted, piece).size \in Nat
          /\ StartWith(fitted, piece).size <= MaxChars
      BY <3>3, <1>2, FittedFits
    <3>5. buffer' = StartWith(fitted, piece)
      BY <3>2
    <3> HIDE DEF fitted
    <3>6. <<piece>> \in Seq(Piece)
      BY <1>2
    <3>7. buffer' \in Text
      BY <3>4, <3>5, <3>6 DEF StartWith, Text
    <3>8. chunks' = Emit /\ Emit \in Seq(Chunk)
      BY <3>1, <1>3, EmitTyped DEF Overflow, IInv
    <3> QED
      BY <3>4, <3>5, <3>7, <3>8
  <2>2. CASE ~(Grown(piece) > MaxChars) /\ buffer # Empty
    <3>1. buffer' = [buffer EXCEPT !.own = Append(@, piece), !.size = Grown(piece)]
          /\ chunks' = chunks
      BY <1>4, <2>2 DEF Extend
    <3>2. Grown(piece) \in Nat /\ Grown(piece) <= MaxChars
      <4>1. buffer.size \in Nat /\ piece.size \in Nat
        BY <1>1, <1>2 DEF Text, Piece
      <4> QED
        BY <4>1, <2>2, SizesAssumption DEF Grown
    <3>3. Append(buffer.own, piece) \in Seq(Piece)
      BY <1>1, <1>2 DEF Text
    <3> QED
      BY <3>1, <3>2, <3>3, <1>1 DEF Text
  <2>3. CASE buffer = Empty
    <3>1. buffer' = [carried |-> 0, own |-> <<piece>>, size |-> piece.size] /\ chunks' = chunks
      BY <1>4, <2>3 DEF Extend
    <3>2. piece.size \in Nat /\ piece.size <= MaxChars /\ <<piece>> \in Seq(Piece)
      BY <1>2, SizesAssumption DEF Piece
    <3> QED
      BY <3>1, <3>2, <1>1, SizesAssumption DEF Text
  <2> QED
    BY <2>1, <2>2, <2>3
<1>6. HardBound'
  BY <1>1, <1>5 DEF IInv, HardBound, Emit
<1>7. Pending'
  BY <1>1, <1>3, <1>4 DEF IInv, Pending
<1>8. CTypeOK'
  BY <1>1, <1>4, <1>5 DEF IInv, CTypeOK
<1> QED
  BY <1>6, <1>7, <1>8 DEF IInv

LEMMA FinishTyped ==
  ASSUME IInv, FinishChunks
  PROVE  IInv'
<1>1. chunks' \in Seq(Chunk) /\ HardBound'
  <2>1. CASE buffer = Empty
    BY <2>1 DEF IInv, CTypeOK, HardBound, FinishChunks
  <2>2. CASE buffer # Empty
    <3>1. chunks' = Emit /\ buffer' = Empty
      BY <2>2 DEF FinishChunks
    <3>2. Emit \in Seq(Chunk)
      BY <2>2, EmitTyped DEF IInv, Pending
    <3>3. HardBound'
      BY <3>1, SizesAssumption DEF IInv, HardBound, CTypeOK, Emit, Empty
    <3> QED
      BY <3>1, <3>2, <3>3
  <2> QED
    BY <2>1, <2>2
<1>2. CTypeOK'
  BY <1>1, EmptyTyped DEF IInv, CTypeOK, FinishChunks
<1>3. Pending'
  BY DEF IInv, Pending, FinishChunks
<1> QED
  BY <1>1, <1>2, <1>3 DEF IInv

LEMMA IInvHolds == ChunkSpec => []IInv
<1>1. ChunkInit => IInv
  BY InitTyped
<1>2. IInv /\ [ChunkNext]_cvars => IInv'
  <2> SUFFICES ASSUME IInv, [ChunkNext]_cvars PROVE IInv'
    OBVIOUS
  <2>1. CASE TakeBlock
    BY <2>1, TakeTyped
  <2>2. CASE PlacePiece
    BY <2>2, PlaceTyped
  <2>3. CASE FinishChunks
    BY <2>3, FinishTyped
  <2>4. CASE UNCHANGED cvars
    BY <2>4 DEF cvars, IInv, CTypeOK, Pending, HardBound
  <2> QED
    BY <2>1, <2>2, <2>3, <2>4 DEF ChunkNext
<1> QED
  BY <1>1, <1>2, PTL DEF ChunkSpec

\* Type correctness of chunk_blocks, for any document and any sizes.
THEOREM ChunkTyping == ChunkSpec => []CTypeOK
<1>1. IInv => CTypeOK
  BY DEF IInv
<1> QED
  BY <1>1, IInvHolds, PTL

\* max_chars is a hard bound, the repeated tail included, for every document,
\* every way to cut its blocks and every overlap smaller than the bound.
THEOREM ChunksAreBounded == ChunkSpec => []HardBound
<1>1. IInv => HardBound
  BY DEF IInv
<1> QED
  BY <1>1, IInvHolds, PTL

-----------------------------------------------------------------------------
(* The citations. *)

\* The buffer stands where the block taken last does, and the tail it carries
\* is of the chunk before it.
BufferStands ==
  /\ \A k \in DOMAIN buffer.own : blocks[buffer.own[k].block].at = Here
  /\ buffer.carried > 0 => Len(chunks) > 0 /\ chunks[Len(chunks)].at = Here

CInv == IInv /\ BufferStands /\ CitedWhereItStands

\* A buffer that stands where the last block does makes a chunk that is cited
\* where it stands.
LEMMA EmitCited ==
  ASSUME CInv, chunks' = Emit, blocks' = blocks
  PROVE  CitedWhereItStands'
<1>1. chunks \in Seq(Chunk) /\ Len(chunks) \in Nat
  BY DEF CInv, IInv, CTypeOK
<1> DEFINE new == [at |-> Here, text |-> buffer, ordinal |-> Len(chunks)]
<1>2. chunks' = Append(chunks, new)
  BY DEF Emit
<1>3. /\ DOMAIN chunks = 1..Len(chunks) /\ DOMAIN chunks' = 1..(Len(chunks) + 1)
      /\ \A i \in 1..Len(chunks) : chunks'[i] = chunks[i]
      /\ chunks'[Len(chunks) + 1] = new
  BY <1>1, <1>2
<1>4. SUFFICES ASSUME NEW i \in DOMAIN chunks'
               PROVE  /\ \A k \in DOMAIN chunks'[i].text.own :
                            blocks[chunks'[i].text.own[k].block].at = chunks'[i].at
                      /\ chunks'[i].text.carried > 0 => i > 1 /\ chunks'[i - 1].at = chunks'[i].at
  BY DEF CitedWhereItStands
<1>5. CASE i \in 1..Len(chunks)
  <2>1. /\ \A k \in DOMAIN chunks[i].text.own :
              blocks[chunks[i].text.own[k].block].at = chunks[i].at
        /\ chunks[i].text.carried > 0 => i > 1 /\ chunks[i - 1].at = chunks[i].at
    BY <1>3, <1>5 DEF CInv, CitedWhereItStands
  <2>2. i > 1 => i - 1 \in 1..Len(chunks)
    BY <1>1, <1>5
  <2> QED
    BY <1>3, <1>5, <2>1, <2>2
<1>6. CASE i = Len(chunks) + 1
  <2>1. chunks'[i] = new
    BY <1>3, <1>6
  <2>2. \A k \in DOMAIN new.text.own : blocks[new.text.own[k].block].at = new.at
    BY DEF CInv, BufferStands
  <2>3. new.text.carried > 0 => Len(chunks) > 0 /\ chunks[Len(chunks)].at = new.at
    BY DEF CInv, BufferStands
  <2>4. Len(chunks) > 0 => i > 1 /\ chunks'[i - 1] = chunks[Len(chunks)]
    BY <1>1, <1>3, <1>6
  <2> QED
    BY <2>1, <2>2, <2>3, <2>4
<1> QED
  BY <1>1, <1>3, <1>5, <1>6

LEMMA TakeCited ==
  ASSUME CInv, TakeBlock
  PROVE  CInv'
<1>1. /\ blocks' = blocks /\ taken' = taken + 1 /\ taken \in Nat
      /\ buffer \in Text /\ Len(chunks) \in Nat
  BY DEF CInv, IInv, CTypeOK, TakeBlock
<1>2. IInv'
  BY TakeTyped DEF CInv
<1>3. CASE OpensGroup
  <2>1. chunks' = Emit /\ buffer' = Empty
    BY <1>3 DEF TakeBlock
  <2>2. BufferStands'
    BY <2>1 DEF BufferStands, Empty
  <2> QED
    BY <1>1, <1>2, <2>1, <2>2, EmitCited DEF CInv
<1>4. CASE ~OpensGroup
  <2>1. chunks' = chunks /\ buffer' = buffer
    BY <1>4 DEF TakeBlock
  <2>2. CitedWhereItStands'
    BY <1>1, <2>1 DEF CInv, CitedWhereItStands
  <2>3. ASSUME buffer = Empty PROVE BufferStands'
    BY <2>1, <2>3 DEF BufferStands, Empty
  <2>4. ASSUME buffer # Empty PROVE BufferStands'
    <3>1. taken > 0
      BY <2>4 DEF CInv, IInv, Pending
    <3>2. Here' = Here
      BY <1>1, <1>4, <3>1 DEF OpensGroup, Here
    <3> QED
      BY <1>1, <2>1, <3>2 DEF CInv, BufferStands
  <2>5. BufferStands'
    BY <2>3, <2>4
  <2> QED
    BY <1>2, <2>2, <2>5 DEF CInv
<1> QED
  BY <1>3, <1>4

LEMMA PlaceCited ==
  ASSUME CInv, PlacePiece
  PROVE  CInv'
<1> DEFINE piece == cut[placed + 1]
<1>1. /\ cut \in Seq(Piece) /\ placed \in 0..Len(cut) /\ placed # Len(cut)
      /\ buffer \in Text /\ chunks \in Seq(Chunk)
      /\ blocks' = blocks /\ taken' = taken
  BY DEF CInv, IInv, CTypeOK, PlacePiece, AllPlaced
<1>2. placed + 1 \in (placed + 1)..Len(cut)
  BY <1>1
<1>3. blocks[piece.block].at = Here
  BY <1>2 DEF CInv, IInv, Pending, Here
<1>4. Here' = Here
  BY <1>1 DEF Here
<1>5. IInv'
  BY PlaceTyped DEF CInv
<1>6. CASE Grown(piece) > MaxChars /\ buffer # Empty
  <2>1. chunks' = Emit
    BY <1>6 DEF PlacePiece, Overflow
  <2>2. PICK tail \in Tails(buffer) : buffer' = StartWith(Fitted(tail, piece), piece)
    BY <1>6 DEF PlacePiece, Overflow
  <2>3. buffer'.own = <<piece>>
    BY <2>2 DEF StartWith
  <2>4. Len(chunks') > 0 /\ chunks'[Len(chunks')].at = Here
    BY <1>1, <2>1 DEF Emit
  <2>5. BufferStands'
    BY <1>1, <1>3, <1>4, <2>3, <2>4 DEF BufferStands
  <2> QED
    BY <1>1, <1>5, <2>1, <2>5, EmitCited DEF CInv
<1>7. CASE ~(Grown(piece) > MaxChars /\ buffer # Empty)
  <2>1. Extend(piece)
    BY <1>7 DEF PlacePiece
  <2>2. chunks' = chunks
    BY <2>1 DEF Extend
  <2>3. CitedWhereItStands'
    BY <1>1, <2>2 DEF CInv, CitedWhereItStands
  <2>4. ASSUME buffer = Empty PROVE BufferStands'
    <3>1. buffer'.own = <<piece>> /\ buffer'.carried = 0
      BY <2>1, <2>4 DEF Extend
    <3> QED
      BY <1>1, <1>3, <1>4, <3>1 DEF BufferStands
  <2>5. ASSUME buffer # Empty PROVE BufferStands'
    <3>1. buffer'.own = Append(buffer.own, piece) /\ buffer'.carried = buffer.carried
      BY <2>1, <2>5, <1>1 DEF Extend, Text
    <3>2. buffer.own \in Seq(Piece) /\ piece \in Piece
      BY <1>1 DEF Text
    <3>3. \A k \in DOMAIN buffer'.own : buffer'.own[k] = piece \/
            (k \in DOMAIN buffer.own /\ buffer'.own[k] = buffer.own[k])
      BY <3>1, <3>2
    <3>4. \A k \in DOMAIN buffer'.own : blocks[buffer'.own[k].block].at = Here
      BY <3>3, <1>3 DEF CInv, BufferStands
    <3> QED
      BY <1>1, <1>4, <2>2, <3>1, <3>4 DEF CInv, BufferStands
  <2> QED
    BY <1>5, <2>3, <2>4, <2>5 DEF CInv
<1> QED
  BY <1>6, <1>7

LEMMA FinishCited ==
  ASSUME CInv, FinishChunks
  PROVE  CInv'
<1>1. IInv' /\ blocks' = blocks /\ buffer' = Empty
  BY FinishTyped DEF CInv, FinishChunks
<1>2. BufferStands'
  BY <1>1 DEF BufferStands, Empty
<1>3. CASE chunks' = chunks
  BY <1>1, <1>2, <1>3 DEF CInv, CitedWhereItStands
<1>4. CASE chunks' = Emit
  BY <1>1, <1>2, <1>4, EmitCited DEF CInv
<1> QED
  BY <1>3, <1>4 DEF FinishChunks

\* Whatever the blocks are, a chunk is cited where all of its own text stands,
\* and repeats text of that place only.
THEOREM CitationsHold == ChunkSpec => []CitedWhereItStands
<1>1. ChunkInit => CInv
  BY InitTyped DEF ChunkInit, CInv, BufferStands, CitedWhereItStands, Empty
<1>2. CInv /\ [ChunkNext]_cvars => CInv'
  <2> SUFFICES ASSUME CInv, [ChunkNext]_cvars PROVE CInv'
    OBVIOUS
  <2>1. CASE TakeBlock
    BY <2>1, TakeCited
  <2>2. CASE PlacePiece
    BY <2>2, PlaceCited
  <2>3. CASE FinishChunks
    BY <2>3, FinishCited
  <2>4. CASE UNCHANGED cvars
    BY <2>4 DEF cvars, CInv, IInv, CTypeOK, Pending, HardBound, BufferStands, Here,
                CitedWhereItStands
  <2> QED
    BY <2>1, <2>2, <2>3, <2>4 DEF ChunkNext
<1>3. CInv => CitedWhereItStands
  BY DEF CInv
<1> QED
  BY <1>1, <1>2, <1>3, PTL DEF ChunkSpec

\* Each chunk has the number of chunks before it.
Numbered == \A i \in DOMAIN chunks : chunks[i].ordinal = i - 1

LEMMA NumberedHolds == ChunkSpec => []Numbered
<1>1. ChunkInit => Numbered
  BY DEF ChunkInit, Numbered
<1>2. IInv /\ Numbered /\ [ChunkNext]_cvars => Numbered'
  <2> SUFFICES ASSUME IInv, Numbered, [ChunkNext]_cvars PROVE Numbered'
    OBVIOUS
  <2>1. chunks' = chunks \/ chunks' = Emit
    BY DEF ChunkNext, cvars, TakeBlock, PlacePiece, FinishChunks, Overflow, Extend
  <2>2. CASE chunks' = Emit
    <3>1. chunks \in Seq(Chunk) /\ Len(chunks) \in Nat /\ DOMAIN chunks = 1..Len(chunks)
      BY DEF IInv, CTypeOK
    <3> DEFINE new == [at |-> Here, text |-> buffer, ordinal |-> Len(chunks)]
    <3>2. chunks' = Append(chunks, new) /\ new.ordinal = Len(chunks)
      BY <2>2 DEF Emit
    <3> HIDE DEF new
    <3>3. /\ DOMAIN chunks' = 1..(Len(chunks) + 1) /\ chunks'[Len(chunks) + 1] = new
          /\ \A i \in 1..Len(chunks) : chunks'[i] = chunks[i]
      BY <3>1, <3>2
    <3>4. \A i \in 1..(Len(chunks) + 1) : i = Len(chunks) + 1 \/ i \in 1..Len(chunks)
      BY <3>1
    <3>5. (Len(chunks) + 1) - 1 = Len(chunks)
      BY <3>1
    <3> QED
      BY <3>1, <3>2, <3>3, <3>4, <3>5 DEF Numbered
  <2> QED
    BY <2>1, <2>2 DEF Numbered
<1> QED
  BY <1>1, <1>2, IInvHolds, PTL DEF ChunkSpec

\* The pieces of the chunks.
Owns == [i \in DOMAIN chunks |-> chunks[i].text.own]

NInv == IInv /\ NothingLost

LEMMA OwnsTyped ==
  ASSUME CTypeOK
  PROVE  Owns \in Seq(Seq(Piece)) /\ FlattenSeq(Owns) \in Seq(Piece) /\ buffer.own \in Seq(Piece)
<1>1. chunks \in Seq(Chunk) /\ Len(chunks) \in Nat /\ DOMAIN chunks = 1..Len(chunks)
      /\ buffer \in Text
  BY DEF CTypeOK
<1>2. \A i \in 1..Len(chunks) : chunks[i] \in Chunk
  BY <1>1
<1>3. \A i \in 1..Len(chunks) : chunks[i].text.own \in Seq(Piece)
  BY <1>2 DEF Chunk, Text
<1>4. Owns \in Seq(Seq(Piece))
  BY <1>1, <1>3 DEF Owns
<1>5. <<>> \in Seq(Piece)
  OBVIOUS
<1>6. FlattenSeq(Owns) \in Seq(Piece)
  BY <1>4, <1>5, FlattenAppend
<1> QED
  BY <1>1, <1>4, <1>6 DEF Text

\* The buffer that becomes a chunk takes its pieces along.
LEMMA EmitOwns ==
  ASSUME CTypeOK, chunks' = Emit
  PROVE  FlattenSeq(Owns') = FlattenSeq(Owns) \o buffer.own
<1>1. chunks \in Seq(Chunk) /\ Len(chunks) \in Nat /\ DOMAIN chunks = 1..Len(chunks)
  BY DEF CTypeOK
<1> DEFINE new == [at |-> Here, text |-> buffer, ordinal |-> Len(chunks)]
           n == Len(chunks)
<1>2. chunks' = Append(chunks, new) /\ new.text = buffer
  BY DEF Emit
<1> HIDE DEF new
<1>3. /\ DOMAIN chunks' = 1..(n + 1) /\ chunks'[n + 1] = new
      /\ \A i \in 1..n : chunks'[i] = chunks[i]
      /\ \A i \in 1..(n + 1) : i = n + 1 \/ i \in 1..n
  BY <1>1, <1>2
<1>4. Owns \in Seq(Seq(Piece)) /\ buffer.own \in Seq(Piece)
  BY OwnsTyped
<1>5. Len(Owns) = n /\ \A i \in 1..n : Owns[i] = chunks[i].text.own
  BY <1>1 DEF Owns
<1>6. Owns' = [i \in 1..(n + 1) |-> chunks'[i].text.own]
  BY <1>3 DEF Owns
<1> DEFINE own == buffer.own
           more == Append(Owns, own)
<1> HIDE DEF n, own
<1>7. /\ more \in Seq(Seq(Piece)) /\ Len(more) = n + 1 /\ more[n + 1] = own
      /\ \A i \in 1..n : more[i] = Owns[i]
  BY <1>4, <1>5 DEF own
<1>8. \A i \in 1..(n + 1) : more[i] = chunks'[i].text.own
  <2>1. chunks'[n + 1].text.own = own
    BY <1>2, <1>3 DEF own
  <2> QED
    BY <1>3, <1>5, <1>7, <2>1
<1> HIDE DEF more
<1>9. more = [i \in 1..(n + 1) |-> chunks'[i].text.own]
  <2>1. more = [i \in 1..(n + 1) |-> more[i]]
    <3>1. n \in Nat
      BY <1>1 DEF n
    <3> QED
      BY <1>7, <3>1
  <2> QED
    BY <1>8, <2>1
<1>10. FlattenSeq(more) = FlattenSeq(Owns) \o own
  BY <1>4, FlattenAppend DEF more, own
<1> QED
  BY <1>6, <1>9, <1>10 DEF own

LEMMA TakeLosesNothing ==
  ASSUME NInv, TakeBlock
  PROVE  NInv'
<1>1. /\ cut \in Seq(Piece) /\ placed = Len(cut) /\ placed' = placed /\ Len(cut) \in Nat
      /\ cut' \in Seq(Piece) /\ ~finished /\ finished' = finished
  <2>1. IInv /\ IInv' /\ TakeBlock
    BY TakeTyped DEF NInv
  <2>2. CTypeOK /\ CTypeOK'
    BY <2>1 DEF IInv
  <2>3. cut \in Seq(Piece) /\ cut' \in Seq(Piece)
    BY <2>2 DEF CTypeOK
  <2>4. placed = Len(cut) /\ placed' = placed /\ ~finished /\ finished' = finished
    BY <2>1 DEF TakeBlock, AllPlaced
  <2> QED
    BY <2>3, <2>4
<1>2. IInv' /\ CTypeOK
  BY TakeTyped DEF NInv, IInv
<1>3. /\ FlattenSeq(Owns) \in Seq(Piece) /\ buffer.own \in Seq(Piece)
  BY <1>2, OwnsTyped
<1>4. FlattenSeq(Owns) \o buffer.own = cut
  <2>1. FlattenSeq(Owns) \o buffer.own = SubSeq(cut, 1, placed)
    BY DEF NInv, NothingLost, Owns
  <2>2. SubSeq(cut, 1, Len(cut)) = cut
    BY <1>1
  <2> QED
    BY <1>1, <2>1, <2>2
<1>5. SubSeq(cut', 1, placed') = cut
  <2>1. PICK sizes \in Cuts(blocks[taken + 1].size) :
          cut' = cut \o [k \in 1..Len(sizes) |-> [block |-> taken + 1, size |-> sizes[k]]]
    BY DEF TakeBlock
  <2>2. blocks[taken + 1].size \in Nat \ {0} /\ taken \in Nat
    <3>1. blocks \in Seq(Block) /\ taken + 1 \in 1..Len(blocks) /\ taken \in Nat
      BY DocumentsAssumption DEF NInv, IInv, CTypeOK, TakeBlock
    <3>2. blocks[taken + 1] \in Block
      BY <3>1
    <3> QED
      BY <3>1, <3>2 DEF Block
  <2>3. PICK n \in Nat : sizes \in [1..n -> 1..MaxChars]
    BY <2>2, CutPieces
  <2> DEFINE more == [k \in 1..n |-> [block |-> taken + 1, size |-> sizes[k]]]
  <2>4. more \in Seq(Piece) /\ cut' = cut \o more
    <3>1. Len(sizes) = n
      BY <2>3
    <3>2. \A k \in 1..n : [block |-> taken + 1, size |-> sizes[k]] \in Piece
      BY <2>2, <2>3 DEF Piece
    <3>3. more \in Seq(Piece)
      BY <3>2
    <3> QED
      BY <2>1, <3>1, <3>3
  <2> HIDE DEF more
  <2>5. SubSeq(cut \o more, 1, Len(cut)) = cut
    BY <1>1, <2>4
  <2> QED
    BY <1>1, <2>4, <2>5
<1>6. FlattenSeq(Owns') \o buffer'.own = cut
  <2>1. CASE OpensGroup
    <3>1. chunks' = Emit /\ buffer'.own = <<>>
      BY <2>1 DEF TakeBlock, Empty
    <3>2. FlattenSeq(Owns') = cut
      BY <1>2, <1>4, <3>1, EmitOwns
    <3>3. cut \o <<>> = cut
      BY <1>1
    <3> QED
      BY <3>1, <3>2, <3>3
  <2>2. CASE ~OpensGroup
    BY <1>4, <2>2 DEF TakeBlock, Owns
  <2> QED
    BY <2>1, <2>2
<1>7. NothingLost'
  BY <1>1, <1>5, <1>6 DEF NothingLost, Owns
<1> QED
  BY <1>2, <1>7 DEF NInv

LEMMA PlaceLosesNothing ==
  ASSUME NInv, PlacePiece
  PROVE  NInv'
<1> DEFINE piece == cut[placed + 1]
           flat == FlattenSeq(Owns)
<1>1. /\ cut \in Seq(Piece) /\ placed \in Nat /\ placed + 1 \in 1..Len(cut)
      /\ placed' = placed + 1 /\ cut' = cut /\ ~finished /\ finished' = finished
      /\ IF Grown(piece) > MaxChars /\ buffer # Empty THEN Overflow(piece) ELSE Extend(piece)
  BY DEF NInv, IInv, CTypeOK, PlacePiece, AllPlaced
<1>2. IInv' /\ CTypeOK
  BY PlaceTyped DEF NInv, IInv
<1>3. /\ flat \in Seq(Piece) /\ buffer.own \in Seq(Piece) /\ piece \in Piece
  BY <1>1, <1>2, OwnsTyped
<1>4. flat \o buffer.own = SubSeq(cut, 1, placed)
  BY DEF NInv, NothingLost, Owns
<1>5. SubSeq(cut', 1, placed') = Append(SubSeq(cut, 1, placed), piece)
  BY <1>1
<1> HIDE DEF piece, flat
<1>6. FlattenSeq(Owns') \o buffer'.own = Append(SubSeq(cut, 1, placed), piece)
  <2>1. CASE Overflow(piece)
    <3>1. chunks' = Emit /\ buffer'.own = <<piece>>
      BY <2>1 DEF Overflow, StartWith
    <3>2. FlattenSeq(Owns') = SubSeq(cut, 1, placed)
      BY <1>2, <1>4, <3>1, EmitOwns DEF flat
    <3>3. SubSeq(cut, 1, placed) \in Seq(Piece)
      BY <1>1
    <3>4. \A s \in Seq(Piece) : s \o <<piece>> = Append(s, piece)
      BY <1>3
    <3> QED
      BY <3>1, <3>2, <3>3, <3>4
  <2>2. CASE Extend(piece)
    <3>1. Owns' = Owns
      BY <2>2 DEF Extend, Owns
    <3>2. buffer'.own = Append(buffer.own, piece)
      <4>1. CASE buffer = Empty
        <5>1. buffer'.own = <<piece>> /\ buffer.own = <<>>
          BY <2>2, <4>1 DEF Extend, Empty
        <5> QED
          BY <5>1
      <4>2. CASE buffer # Empty
        <5>1. buffer \in Text
          BY <1>2 DEF CTypeOK
        <5>2. buffer' = [buffer EXCEPT !.own = Append(@, piece), !.size = Grown(piece)]
          BY <2>2, <4>2 DEF Extend
        <5> QED
          BY <5>1, <5>2 DEF Text
      <4> QED
        BY <4>1, <4>2
    <3> DEFINE own == buffer.own
    <3>3. own \in Seq(Piece)
      BY <1>3
    <3> HIDE DEF own
    <3>4. flat \o Append(own, piece) = Append(flat \o own, piece)
      BY <1>3, <3>3
    <3> QED
      BY <1>4, <3>1, <3>2, <3>4 DEF own, flat
  <2> QED
    BY <1>1, <2>1, <2>2
<1>7. NothingLost'
  BY <1>1, <1>5, <1>6 DEF NothingLost, Owns
<1> QED
  BY <1>2, <1>7 DEF NInv

LEMMA FinishLosesNothing ==
  ASSUME NInv, FinishChunks
  PROVE  NInv'
<1>1. /\ cut' = cut /\ placed' = placed /\ taken' = taken /\ blocks' = blocks
      /\ AllPlaced /\ taken = Len(blocks) /\ buffer' = Empty
      /\ chunks' = IF buffer = Empty THEN chunks ELSE Emit
  BY DEF FinishChunks
<1>2. IInv' /\ CTypeOK
  BY FinishTyped DEF NInv, IInv
<1>3. FlattenSeq(Owns) \in Seq(Piece) /\ buffer.own \in Seq(Piece)
  BY <1>2, OwnsTyped
<1>4. FlattenSeq(Owns') = FlattenSeq(Owns) \o buffer.own
  <2>1. CASE buffer = Empty
    <3>1. Owns' = Owns /\ buffer.own = <<>>
      BY <1>1, <2>1 DEF Owns, Empty
    <3> QED
      BY <1>3, <3>1
  <2>2. CASE buffer # Empty
    BY <1>1, <1>2, <2>2, EmitOwns
  <2> QED
    BY <2>1, <2>2
<1>5. FlattenSeq(Owns') \o buffer'.own = FlattenSeq(Owns) \o buffer.own
  <2> DEFINE s == FlattenSeq(Owns) \o buffer.own
  <2>1. s \in Seq(Piece) /\ buffer'.own = <<>>
    BY <1>1, <1>3 DEF Empty
  <2> HIDE DEF s
  <2>2. s \o <<>> = s
    BY <2>1
  <2> QED
    BY <1>4, <2>1, <2>2 DEF s
<1>6. NothingLost'
  BY <1>1, <1>5 DEF NInv, NothingLost, Owns, AllPlaced
<1> QED
  BY <1>2, <1>6 DEF NInv

\* Every piece that a document is cut into is in one chunk, once, and the chunks
\* are in the order of the document.
THEOREM NoTextIsLost == ChunkSpec => []NothingLost
<1>1. ChunkInit => NInv
  <2> SUFFICES ASSUME ChunkInit PROVE NInv
    OBVIOUS
  <2>1. chunks = <<>> /\ cut = <<>> /\ placed = 0 /\ buffer.own = <<>> /\ ~finished
    BY DEF ChunkInit, Empty
  <2>2. Owns = <<>>
    BY <2>1 DEF Owns
  <2>3. FlattenSeq(Owns) \o buffer.own = SubSeq(cut, 1, placed)
    <3>1. SubSeq(<<>>, 1, 0) = <<>> /\ <<>> \o <<>> = <<>>
      OBVIOUS
    <3> QED
      BY <2>1, <2>2, <3>1, FlattenNone
  <2>4. NothingLost
    BY <2>1, <2>3 DEF NothingLost, Owns
  <2> QED
    BY <2>4, InitTyped DEF NInv
<1>2. NInv /\ [ChunkNext]_cvars => NInv'
  <2> SUFFICES ASSUME NInv, [ChunkNext]_cvars PROVE NInv'
    OBVIOUS
  <2>1. CASE TakeBlock
    BY <2>1, TakeLosesNothing
  <2>2. CASE PlacePiece
    BY <2>2, PlaceLosesNothing
  <2>3. CASE FinishChunks
    BY <2>3, FinishLosesNothing
  <2>4. CASE UNCHANGED cvars
    BY <2>4 DEF cvars, NInv, IInv, CTypeOK, Pending, HardBound, NothingLost, AllPlaced
  <2> QED
    BY <2>1, <2>2, <2>3, <2>4 DEF ChunkNext
<1>3. NInv => NothingLost
  BY DEF NInv
<1> QED
  BY <1>1, <1>2, <1>3, PTL DEF ChunkSpec

-----------------------------------------------------------------------------
(* redact. *)

\* No two findings have the same place in the order, and sort puts all of them
\* in it.
LEMMA BeforeOrders ==
  ASSUME NEW f \in Findings, NEW g \in Findings
  PROVE  /\ f = g \/ Before(f, g) \/ Before(g, f)
         /\ ~(Before(f, g) /\ Before(g, f))
         /\ ~Before(f, f)
         /\ Before(f, g) => f.start <= g.start
         /\ \A h \in Findings : Before(h, f) /\ Before(f, g) => Before(h, g)
<1>1. /\ f.start \in Nat /\ f.end \in Nat /\ f.severity \in Nat
      /\ g.start \in Nat /\ g.end \in Nat /\ g.severity \in Nat
      /\ \A h \in Findings : h.start \in Nat /\ h.end \in Nat /\ h.severity \in Nat
  BY DEF Findings
<1>2. f.start = g.start /\ f.end = g.end /\ f.severity = g.severity => f = g
  <2>1. /\ f = [start |-> f.start, end |-> f.end, severity |-> f.severity]
        /\ g = [start |-> g.start, end |-> g.end, severity |-> g.severity]
    BY DEF Findings
  <2> QED
    BY <2>1
<1>3. \/ f.start = g.start /\ f.end = g.end /\ f.severity = g.severity
      \/ Before(f, g) \/ Before(g, f)
  BY <1>1 DEF Before
<1> QED
  BY <1>1, <1>2, <1>3 DEF Before

Rank(marks, f) == Cardinality({g \in marks : Before(g, f)})

LEMMA Ranks ==
  ASSUME NEW marks \in SUBSET Findings, IsFiniteSet(marks)
  PROVE  /\ Cardinality(marks) \in Nat
         /\ \A f \in marks : Rank(marks, f) \in 0..(Cardinality(marks) - 1)
         /\ \A f, g \in marks : Before(f, g) => Rank(marks, f) < Rank(marks, g)
<1> DEFINE n == Cardinality(marks)
           Below(f) == {g \in marks : Before(g, f)}
<1>1. n \in Nat
  BY FS_CardinalityType
<1>2. ASSUME NEW f \in marks
      PROVE  IsFiniteSet(Below(f)) /\ Rank(marks, f) \in Nat /\ Rank(marks, f) < n
  <2>1. Below(f) \subseteq marks \ {f}
    BY BeforeOrders
  <2>2. IsFiniteSet(marks \ {f}) /\ Cardinality(marks \ {f}) = n - 1
    BY FS_RemoveElement
  <2> HIDE DEF Below
  <2>3. IsFiniteSet(Below(f)) /\ Cardinality(Below(f)) <= n - 1
    BY <2>1, <2>2, FS_Subset
  <2>4. Cardinality(Below(f)) \in Nat
    BY <2>3, FS_CardinalityType
  <2>5. Rank(marks, f) = Cardinality(Below(f))
    BY DEF Rank, Below
  <2> QED
    BY <1>1, <2>3, <2>4, <2>5
<1>3. ASSUME NEW f \in marks, NEW g \in marks, Before(f, g)
      PROVE  Rank(marks, f) < Rank(marks, g)
  <2>1. Below(f) \subseteq Below(g)
    BY <1>3, BeforeOrders
  <2>2. f \in Below(g) /\ f \notin Below(f)
    BY <1>3, BeforeOrders
  <2>3. IsFiniteSet(Below(g)) /\ Rank(marks, f) \in Nat /\ Rank(marks, g) \in Nat
    BY <1>2
  <2>4. Rank(marks, f) = Cardinality(Below(f)) /\ Rank(marks, g) = Cardinality(Below(g))
    BY DEF Rank
  <2> HIDE DEF Below
  <2>5. Cardinality(Below(f)) <= Cardinality(Below(g)) /\ Cardinality(Below(g)) # Cardinality(Below(f))
    BY <2>1, <2>2, <2>3, FS_Subset
  <2> QED
    BY <2>3, <2>4, <2>5
<1>4. ASSUME NEW f \in marks PROVE Rank(marks, f) \in 0..(n - 1)
  <2>1. Rank(marks, f) \in Nat /\ Rank(marks, f) < n
    BY <1>2
  <2> QED
    BY ONLY <1>1, <2>1
<1> QED
  BY <1>1, <1>3, <1>4

LEMMA SortedSorts ==
  ASSUME NEW marks \in SUBSET Findings, IsFiniteSet(marks)
  PROVE  /\ Cardinality(marks) \in Nat
         /\ Sorted(marks) \in [1..Cardinality(marks) -> marks]
         /\ \A f \in marks : \E i \in 1..Cardinality(marks) : Sorted(marks)[i] = f
         /\ \A i, k \in 1..Cardinality(marks) :
              i < k => Sorted(marks)[i].start <= Sorted(marks)[k].start
<1> DEFINE n == Cardinality(marks)
           all == Sorted(marks)
           place == [f \in marks |-> Rank(marks, f) + 1]
<1>1. /\ n \in Nat
      /\ \A f \in marks : Rank(marks, f) \in 0..(n - 1)
      /\ \A f, g \in marks : Before(f, g) => Rank(marks, f) < Rank(marks, g)
  BY Ranks
<1>2. all = [i \in 1..n |-> CHOOSE f \in marks : Rank(marks, f) = i - 1]
  BY DEF Sorted, Rank
<1> HIDE DEF n, all
<1>3. \A f \in marks : Rank(marks, f) \in Nat
  BY <1>1
<1>4. \A f, g \in marks : Rank(marks, f) = Rank(marks, g) => f = g
  <2> SUFFICES ASSUME NEW f \in marks, NEW g \in marks, Rank(marks, f) = Rank(marks, g), f # g
               PROVE  FALSE
    OBVIOUS
  <2>1. Before(f, g) \/ Before(g, f)
    BY BeforeOrders
  <2> QED
    BY <1>1, <1>3, <2>1
<1>5. place \in Injection(marks, 1..n)
  <2>1. \A f \in marks : place[f] \in 1..n
    BY <1>1
  <2>2. \A f, g \in marks : place[f] = place[g] => f = g
    BY <1>3, <1>4
  <2>3. place \in [marks -> 1..n]
    BY <2>1
  <2> QED
    BY <2>2, <2>3 DEF Injection, IsInjective
<1>6. IsFiniteSet(1..n) /\ Cardinality(1..n) = n
  <2>1. IsFiniteSet(1..n) /\ Cardinality(1..n) = IF 1 > n THEN 0 ELSE n - 1 + 1
    BY <1>1, FS_Interval
  <2> QED
    BY <1>1, <2>1
<1>7. place \in Surjection(marks, 1..n)
  BY <1>5, <1>6, FS_Injection DEF n
<1>8. ASSUME NEW i \in 1..n PROVE all[i] \in marks /\ Rank(marks, all[i]) = i - 1
  <2>1. PICK f \in marks : place[f] = i
    BY <1>7 DEF Surjection
  <2>2. Rank(marks, f) = i - 1
    BY <1>3, <2>1
  <2> QED
    BY <1>2, <2>2
<1>9. all \in [1..n -> marks]
  BY <1>2, <1>8
<1>10. ASSUME NEW f \in marks PROVE \E i \in 1..n : all[i] = f
  <2> DEFINE i == Rank(marks, f) + 1
  <2>1. i \in 1..n /\ i - 1 = Rank(marks, f)
    BY <1>1, <1>3
  <2> HIDE DEF i
  <2>2. all[i] = f
    BY <1>4, <1>8, <2>1
  <2> QED
    BY <2>1, <2>2
<1>11. ASSUME NEW i \in 1..n, NEW k \in 1..n, i < k PROVE all[i].start <= all[k].start
  <2> DEFINE f == all[i]
             g == all[k]
  <2>1. f \in marks /\ g \in marks /\ Rank(marks, f) = i - 1 /\ Rank(marks, g) = k - 1
    BY <1>8
  <2> HIDE DEF f, g
  <2>2. Rank(marks, f) < Rank(marks, g) /\ ~(Rank(marks, g) < Rank(marks, f))
    BY <1>1, <1>11, <2>1
  <2>3. f # g /\ ~Before(g, f)
    BY <1>1, <1>3, <2>1, <2>2
  <2>4. Before(f, g)
    BY <2>1, <2>3, BeforeOrders
  <2>5. f.start <= g.start
    BY <2>1, <2>4, BeforeOrders
  <2> QED
    BY <2>5 DEF f, g
<1> QED
  BY <1>1, <1>9, <1>10, <1>11 DEF n, all

\* What detect keeps of the findings it has seen.
Dropped(before, f) == before # <<>> /\ f.start < Last(before).end

LEMMA KeptRec ==
  ASSUME NEW marks \in SUBSET Findings, IsFiniteSet(marks)
  PROVE  LET n   == Cardinality(marks)
             all == Sorted(marks)
         IN  \E g \in [0..n -> Seq(Findings)] :
               /\ Kept(marks) = g[n] /\ g[0] = <<>>
               /\ \A i \in 1..n :
                    g[i] = IF Dropped(g[i - 1], all[i]) THEN g[i - 1] ELSE Append(g[i - 1], all[i])
<1> DEFINE V == Seq(Findings)
           base == <<>>
           n == Cardinality(marks)
           all == Sorted(marks)
           With(v, i) == IF v # <<>> /\ all[i].start < Last(v).end THEN v ELSE Append(v, all[i])
           step == [i \in 1..n |-> [v \in V |-> With(v, i)]]
           upTo[i \in 0..Len(all)] ==
             IF i = 0 THEN <<>>
             ELSE LET before == upTo[i - 1]
                  IN  IF before # <<>> /\ all[i].start < Last(before).end
                      THEN before ELSE Append(before, all[i])
<1>1. n \in Nat /\ base \in V /\ all \in [1..n -> marks]
  BY SortedSorts
<1>2. \A i \in 1..n : all[i] \in Findings
  BY <1>1
<1> HIDE DEF all, n
<1>3. \A i \in 1..n : \A v \in V : With(v, i) \in V
  BY <1>2
<1>4. Len(all) = n
  BY <1>1
<1>5. Kept(marks) = upTo[Len(all)]
  BY DEF Kept, all
<1>6. ASSUME NEW g, g = [i \in 0..Len(all) |-> IF i = 0 THEN base ELSE With(g[i - 1], i)]
      PROVE  upTo = [i \in 0..Len(all) |-> IF i = 0 THEN base ELSE With(upTo[i - 1], i)]
  BY <1>6
<1>7. \A v, i : With(v, i) = IF Dropped(v, all[i]) THEN v ELSE Append(v, all[i])
  BY DEF Dropped
<1> HIDE DEF V, base, With, upTo
<1>8. step \in [1..n -> [V -> V]] /\ \A i \in 1..n : \A v \in V : step[i][v] = With(v, i)
  BY <1>3
<1> HIDE DEF step
<1>9. PICK g \in [0..n -> V] : g[0] = base /\ \A i \in 1..n : g[i] = step[i][g[i - 1]]
  BY <1>1, <1>8, Recursion, SMTT(60)
<1>10. \A i \in 1..n : g[i - 1] \in V
  BY <1>1
<1>11. \A i \in 1..n : g[i] = With(g[i - 1], i)
  BY <1>8, <1>9, <1>10
<1>12. g = [i \in 0..n |-> IF i = 0 THEN base ELSE With(g[i - 1], i)]
  <2>1. \A i \in 0..n : g[i] = IF i = 0 THEN base ELSE With(g[i - 1], i)
    BY <1>1, <1>9, <1>11
  <2> QED
    BY <2>1
<1>13. upTo = [i \in 0..n |-> IF i = 0 THEN base ELSE With(upTo[i - 1], i)]
  BY <1>4, <1>6, <1>12
<1>14. \A i \in 0..n : upTo[i] = g[i]
  <2> DEFINE T == {i \in 0..n : upTo[i] = g[i]}
  <2>1. 0 \in T
    BY <1>1, <1>9, <1>13
  <2>2. ASSUME NEW i \in 1..n, i - 1 \in T PROVE i \in T
    <3>1. upTo[i] = With(upTo[i - 1], i)
      BY <1>1, <1>13
    <3> QED
      BY <1>11, <2>2, <3>1
  <2> HIDE DEF T
  <2>3. 0..n \subseteq T
    BY <1>1, <2>1, <2>2, UpTo
  <2> QED
    BY <2>3 DEF T
<1>15. Kept(marks) = g[n]
  BY <1>1, <1>4, <1>5, <1>14
<1>16. \A i \in 1..n :
         g[i] = IF Dropped(g[i - 1], all[i]) THEN g[i - 1] ELSE Append(g[i - 1], all[i])
  BY <1>7, <1>11
<1> QED
  BY <1>9, <1>15, <1>16 DEF V, base, n, all

\* What is kept is apart and in order, and each finding starts inside it.
Apart(kept) == \A a, b \in 1..Len(kept) : a < b => kept[a].end <= kept[b].start

Inside(f, kept) == \E k \in 1..Len(kept) : kept[k].start <= f.start /\ f.start < kept[k].end

LEMMA KeptKeeps ==
  ASSUME NEW marks \in SUBSET Findings, IsFiniteSet(marks)
  PROVE  /\ Kept(marks) \in Seq(Findings) /\ Apart(Kept(marks))
         /\ \A f \in marks : Inside(f, Kept(marks))
<1> DEFINE n == Cardinality(marks)
           all == Sorted(marks)
<1>1. /\ n \in Nat /\ all \in [1..n -> marks]
      /\ \A f \in marks : \E i \in 1..n : all[i] = f
      /\ \A i, k \in 1..n : i < k => all[i].start <= all[k].start
  BY SortedSorts
<1>2. PICK g \in [0..n -> Seq(Findings)] :
        /\ Kept(marks) = g[n] /\ g[0] = <<>>
        /\ \A i \in 1..n :
             g[i] = IF Dropped(g[i - 1], all[i]) THEN g[i - 1] ELSE Append(g[i - 1], all[i])
  BY KeptRec
<1> HIDE DEF n, all
<1> DEFINE Good(i) ==
             /\ Apart(g[i])
             /\ \A m \in 1..i : Inside(all[m], g[i])
             /\ \A k \in 1..Len(g[i]) : \E m \in 1..i : g[i][k] = all[m]
           T == {i \in 0..n : Good(i)}
<1>3. 0 \in T
  <2>1. Len(g[0]) = 0
    BY <1>2
  <2>2. Good(0)
    BY <2>1 DEF Apart
  <2> QED
    BY <1>1, <2>2
<1>4. ASSUME NEW i \in 1..n, i - 1 \in T PROVE i \in T
  <2> DEFINE before == g[i - 1]
             f == all[i]
             m == Len(before)
  <2>1. i \in 0..n /\ i - 1 \in 0..n /\ i \in Nat /\ \A j \in 1..i : j = i \/ j \in 1..(i - 1)
    BY <1>1
  <2>2. before \in Seq(Findings) /\ f \in Findings /\ m \in Nat
    BY <1>1, <2>1
  <2>3. f.start \in Nat /\ f.end \in Nat /\ f.start < f.end
    BY <2>2 DEF Findings
  <2>4. \A k \in 1..m : before[k] \in Findings
    BY <2>2
  <2>5. \A k \in 1..m : before[k].start \in Nat /\ before[k].end \in Nat /\ before[k].start < before[k].end
    BY <2>4 DEF Findings
  <2>6. Good(i - 1)
    BY <1>4
  <2>7. /\ Apart(before)
        /\ \A j \in 1..(i - 1) : Inside(all[j], before)
        /\ \A k \in 1..m : \E j \in 1..(i - 1) : before[k] = all[j]
    BY <2>6
  <2> HIDE DEF T
  <2>8. CASE Dropped(before, f)
    <3>1. g[i] = before
      BY <1>2, <2>8
    <3>2. m \in 1..m /\ f.start < before[m].end
      <4>1. m # 0
        BY <2>2, <2>8 DEF Dropped
      <4>2. m \in 1..m
        BY ONLY <2>2, <4>1
      <4> QED
        BY <2>8, <4>2 DEF Dropped, Last
    <3>3. before[m].start <= f.start
      <4>1. PICK j \in 1..(i - 1) : before[m] = all[j]
        BY <2>7, <3>2
      <4>2. j \in 1..n /\ j < i
        BY <1>1, <2>1
      <4> QED
        BY <1>1, <4>1, <4>2
    <3> HIDE DEF before, f, m
    <3>4. Inside(f, before)
      BY <3>2, <3>3 DEF Inside, m
    <3>5. \A j \in 1..i : Inside(all[j], before)
      BY <2>1, <2>7, <3>4 DEF f
    <3>6. \A k \in 1..m : \E j \in 1..i : before[k] = all[j]
      <4>1. \A j \in 1..(i - 1) : j \in 1..i
        BY <2>1
      <4> QED
        BY <2>7, <4>1
    <3>7. Good(i)
      BY <2>7, <3>1, <3>5, <3>6 DEF m
    <3> QED
      BY <2>1, <3>7 DEF T
  <2>9. CASE ~Dropped(before, f)
    <3> DEFINE after == Append(before, f)
    <3>1. g[i] = after
      BY <1>2, <2>9
    <3>2. \A k \in 1..m : before[k].end <= f.start
      <4> SUFFICES ASSUME NEW k \in 1..m PROVE before[k].end <= f.start
        OBVIOUS
      <4>1. m \in 1..m /\ m > 0
        BY ONLY <2>2, k \in 1..m
      <4>2. before # <<>>
        BY <4>1
      <4>3. before[m].end <= f.start
        <5>1. ~(f.start < before[m].end)
          BY <2>9, <4>2 DEF Dropped, Last
        <5> QED
          BY <2>3, <2>5, <4>1, <5>1
      <4>4. k < m => before[k].end <= before[m].start
        BY <2>7, <4>1 DEF Apart
      <4>5. k < m => before[k].end <= f.start
        <5>1. /\ before[k].end \in Nat /\ before[m].start \in Nat /\ before[m].end \in Nat
              /\ before[m].start < before[m].end /\ f.start \in Nat
          BY <2>3, <2>5, <4>1
        <5> HIDE DEF before, f, m
        <5> QED
          BY ONLY <4>3, <4>4, <5>1
      <4> QED
        BY <2>2, <4>3, <4>5
    <3>3. /\ Len(after) = m + 1 /\ after[m + 1] = f
          /\ \A k \in 1..m : after[k] = before[k]
          /\ \A k \in 1..(m + 1) : k = m + 1 \/ k \in 1..m
      BY <2>2
    <3> HIDE DEF before, f, m, after
    <3>4. Apart(after)
      <4> SUFFICES ASSUME NEW a \in 1..(m + 1), NEW b \in 1..(m + 1), a < b
                   PROVE  after[a].end <= after[b].start
        BY <3>3 DEF Apart
      <4>1. a \in 1..m
        BY <2>2
      <4>2. CASE b = m + 1
        BY <3>2, <3>3, <4>1, <4>2
      <4>3. CASE b \in 1..m
        BY <2>7, <3>3, <4>1, <4>3 DEF Apart, m
      <4> QED
        BY <3>3, <4>2, <4>3
    <3>5. Inside(f, after)
      <4>1. m + 1 \in 1..(m + 1)
        BY <2>2
      <4>2. after[m + 1].start <= f.start /\ f.start < after[m + 1].end
        BY <2>3, <3>3
      <4> QED
        BY <3>3, <4>1, <4>2 DEF Inside
    <3>6. \A j \in 1..(i - 1) : Inside(all[j], after)
      <4>1. \A k \in 1..m : k \in 1..(m + 1)
        BY <2>2
      <4> QED
        BY <2>7, <3>3, <4>1 DEF Inside, m
    <3>7. \A j \in 1..i : Inside(all[j], after)
      BY <2>1, <3>5, <3>6 DEF f
    <3>8. \A k \in 1..(m + 1) : \E j \in 1..i : after[k] = all[j]
      <4>1. \A j \in 1..(i - 1) : j \in 1..i
        BY <2>1
      <4>2. i \in 1..i
        BY <2>1
      <4> QED
        BY <2>7, <3>3, <4>1, <4>2 DEF f
    <3>9. Good(i)
      BY <3>1, <3>3, <3>4, <3>7, <3>8
    <3> QED
      BY <2>1, <3>9 DEF T
  <2> QED
    BY <2>8, <2>9
<1>5. Good(n)
  <2> HIDE DEF Good
  <2>1. n \in T
    <3> HIDE DEF T
    <3>1. 0..n \subseteq T
      BY <1>1, <1>3, <1>4, UpTo
    <3> QED
      BY <1>1, <3>1
  <2> QED
    BY <2>1
<1>6. \A f \in marks : Inside(f, g[n])
  BY <1>1, <1>5
<1> QED
  BY <1>1, <1>2, <1>5, <1>6

\* Nothing that was marks is legible once the text is redacted: a finding that
\* is not replaced itself starts inside one that is.
LEMMA NothingLegible ==
  ASSUME NEW marks \in SUBSET Findings, IsFiniteSet(marks)
  PROVE  Legible(marks) = {}
<1> DEFINE kept == Kept(marks)
           m == Len(kept)
           size == Max({f.end : f \in marks} \cup {0})
           segments == Segments(kept, size)
<1>1. kept \in Seq(Findings) /\ Apart(kept) /\ m \in Nat
  BY KeptKeeps
<1>2. \A k \in 1..m : kept[k].start \in Nat /\ kept[k].end \in Nat /\ kept[k].start < kept[k].end
  <2>1. \A k \in 1..m : kept[k] \in Findings
    BY <1>1
  <2> QED
    BY <2>1 DEF Findings
<1>3. Legible(marks) = {f \in marks : \E i \in DOMAIN segments :
                                        segments[i].from <= f.start /\ f.end <= segments[i].to}
  BY DEF Legible
<1>4. /\ DOMAIN segments = 1..(m + 1)
      /\ \A i \in 1..(m + 1) : /\ i > 1 => segments[i].from = kept[i - 1].end
                               /\ i <= m => segments[i].to = kept[i].start
  <2>1. segments = [i \in 1..(m + 1) |-> [from |-> IF i = 1 THEN 0 ELSE kept[i - 1].end,
                                          to   |-> IF i > m THEN size ELSE kept[i].start]]
    BY DEF Segments
  <2> HIDE DEF segments, size, kept, m
  <2> QED
    BY <1>1, <2>1
<1>5. ASSUME NEW f \in marks, NEW i \in 1..(m + 1),
             segments[i].from <= f.start, f.end <= segments[i].to
      PROVE  FALSE
  <2>1. Inside(f, kept)
    BY KeptKeeps
  <2> HIDE DEF segments, size, kept
  <2>2. PICK k \in 1..m : kept[k].start <= f.start /\ f.start < kept[k].end
    BY <2>1 DEF Inside
  <2>3. f.start \in Nat /\ f.end \in Nat /\ f.start < f.end
    BY DEF Findings
  <2>4. k \in 1..m /\ i \in 1..(m + 1) /\ (i <= k \/ i > k)
    BY <1>1
  <2> HIDE DEF m
  <2>5. CASE i <= k
    <3>1. i \in 1..m /\ i <= m
      BY <1>1, <2>4, <2>5
    <3>2. segments[i].to = kept[i].start
      BY <1>4, <3>1
    <3>3. kept[i].start <= kept[k].start
      <4>1. CASE i = k
        BY <1>2, <4>1
      <4>2. CASE i < k
        <5>1. kept[i].end <= kept[k].start
          BY <1>1, <3>1, <4>2 DEF Apart, m
        <5> QED
          BY <1>2, <3>1, <5>1
      <4> QED
        BY <2>5, <3>1, <4>1, <4>2
    <3> QED
      BY <1>2, <1>5, <2>2, <2>3, <3>1, <3>2, <3>3
  <2>6. CASE i > k
    <3>1. i - 1 \in 1..m /\ i > 1 /\ k <= i - 1
      BY <1>1, <2>4, <2>6
    <3>2. segments[i].from = kept[i - 1].end
      BY <1>4, <3>1
    <3>3. kept[k].end <= kept[i - 1].end
      <4>1. CASE k = i - 1
        BY <1>2, <4>1
      <4>2. CASE k < i - 1
        <5>1. kept[k].end <= kept[i - 1].start
          BY <1>1, <3>1, <4>2 DEF Apart, m
        <5> QED
          BY <1>2, <3>1, <5>1
      <4> QED
        BY <3>1, <4>1, <4>2
    <3> QED
      BY <1>2, <1>5, <2>2, <2>3, <3>1, <3>2, <3>3
  <2> QED
    BY <2>4, <2>5, <2>6
<1> QED
  BY <1>3, <1>4, <1>5

-----------------------------------------------------------------------------
(* What the budget adds up. *)

LEMMA Largest ==
  ASSUME NEW n \in Nat, NEW u \in SUBSET (1..n), u # {}
  PROVE  Max(u) \in u /\ \A x \in u : Max(u) >= x
<1> DEFINE T == {m \in 0..n : \A v \in SUBSET (1..m) : v # {} => \E x \in v : \A y \in v : x >= y}
<1>1. 0 \in T
  <2>1. \A v \in SUBSET (1..0) : v = {}
    OBVIOUS
  <2>2. 0 \in 0..n
    OBVIOUS
  <2> QED
    BY ONLY <2>1, <2>2
<1>2. ASSUME NEW m \in 1..n, m - 1 \in T PROVE m \in T
  <2> SUFFICES ASSUME NEW v \in SUBSET (1..m), v # {} PROVE \E x \in v : \A y \in v : x >= y
    OBVIOUS
  <2>1. CASE m \in v
    BY <2>1
  <2>2. CASE m \notin v
    <3>1. v \in SUBSET (1..(m - 1))
      BY <2>2
    <3> QED
      BY <1>2, <3>1
  <2> QED
    BY <2>1, <2>2
<1> HIDE DEF T
<1>3. 0..n \subseteq T
  BY <1>1, <1>2, UpTo
<1>4. n \in T
  BY <1>3
<1>5. \E x \in u : \A y \in u : x >= y
  BY <1>4 DEF T
<1> QED
  BY <1>5 DEF Max

\* FoldLeft adds up the numbers w[1] to w[n], from the last one on.
AddsUp(n, w, iter) ==
  \A u \in SUBSET (1..n) : iter[u] = IF u = {} THEN 0 ELSE iter[u \ {Max(u)}] + w[Max(u)]

\* `total` is the last of the sums so far.
Totals(n, w, total) ==
  \E g \in [0..n -> Nat] :
    g[0] = 0 /\ g[n] = total /\ \A i \in 1..n : g[i] = g[i - 1] + w[i]

LEMMA Folding ==
  ASSUME NEW n \in Nat, NEW w \in [1..n -> Nat]
  PROVE  \E g \in [SUBSET (1..n) -> Nat] : AddsUp(n, w, g)
<1> DEFINE T == {m \in 0..n : \E g \in [SUBSET (1..m) -> Nat] : AddsUp(m, w, g)}
<1>1. 0 \in T
  <2> DEFINE g == [u \in SUBSET (1..0) |-> 0]
  <2>1. \A u \in SUBSET (1..0) : u = {}
    OBVIOUS
  <2>2. g \in [SUBSET (1..0) -> Nat] /\ AddsUp(0, w, g)
    BY <2>1 DEF AddsUp
  <2>3. 0 \in 0..n
    OBVIOUS
  <2> HIDE DEF g
  <2> QED
    BY ONLY <2>2, <2>3
<1>2. ASSUME NEW m \in 1..n, m - 1 \in T PROVE m \in T
  <2>1. PICK g \in [SUBSET (1..(m - 1)) -> Nat] : AddsUp(m - 1, w, g)
    BY <1>2
  <2> HIDE DEF T
  <2> DEFINE h == [u \in SUBSET (1..m) |-> IF m \in u THEN g[u \ {m}] + w[m] ELSE g[u]]
  <2>2. \A u \in SUBSET (1..m) : m \notin u => u \in SUBSET (1..(m - 1))
    OBVIOUS
  <2>3. \A u \in SUBSET (1..m) : u \ {m} \in SUBSET (1..(m - 1))
    OBVIOUS
  <2>4. h \in [SUBSET (1..m) -> Nat]
    <3> SUFFICES ASSUME NEW u \in SUBSET (1..m)
                 PROVE  (IF m \in u THEN g[u \ {m}] + w[m] ELSE g[u]) \in Nat
      OBVIOUS
    <3>1. CASE m \in u
      <4>1. g[u \ {m}] \in Nat /\ w[m] \in Nat
        BY <2>3
      <4> QED
        BY <3>1, <4>1
    <3>2. CASE m \notin u
      <4>1. g[u] \in Nat
        BY <2>2, <3>2
      <4> QED
        BY <3>2, <4>1
    <3> QED
      BY <3>1, <3>2
  <2>5. ASSUME NEW u \in SUBSET (1..m), u # {}
        PROVE  h[u] = h[u \ {Max(u)}] + w[Max(u)]
    <3>1. Max(u) \in u /\ \A x \in u : Max(u) >= x
      <4>1. m \in Nat
        OBVIOUS
      <4> QED
        BY ONLY <2>5, <4>1, Largest
    <3>2. CASE m \in u
      <4>1. Max(u) = m
        <5>1. Max(u) \in 1..m /\ Max(u) >= m
          BY <3>1, <3>2
        <5> QED
          BY ONLY <5>1, m \in Nat
      <4>2. h[u] = g[u \ {m}] + w[m] /\ h[u \ {m}] = g[u \ {m}]
        BY <3>2
      <4> HIDE DEF h
      <4> QED
        BY <4>1, <4>2
    <3>3. CASE m \notin u
      <4>1. h[u] = g[u] /\ u \in SUBSET (1..(m - 1))
        BY <2>2, <3>3
      <4>2. u \ {Max(u)} \in SUBSET (1..m) /\ m \notin u \ {Max(u)}
        BY <3>3
      <4>3. h[u \ {Max(u)}] = g[u \ {Max(u)}]
        BY <4>2
      <4> HIDE DEF h
      <4> QED
        BY <2>1, <2>5, <4>1, <4>3 DEF AddsUp
    <3> QED
      BY <3>2, <3>3
  <2>6. h[{}] = 0
    <3>1. g[{}] = 0
      BY <2>1 DEF AddsUp
    <3> QED
      BY <3>1
  <2> HIDE DEF h
  <2>7. AddsUp(m, w, h)
    BY <2>5, <2>6 DEF AddsUp
  <2> QED
    BY <2>4, <2>7 DEF T
<1>3. n \in T
  <2> HIDE DEF T
  <2>1. 0..n \subseteq T
    BY <1>1, <1>2, UpTo
  <2> QED
    BY <2>1
<1> QED
  BY <1>3

LEMMA PrefixSums ==
  ASSUME NEW n \in Nat, NEW w \in [1..n -> Nat], NEW iter, AddsUp(n, w, iter)
  PROVE  Totals(n, w, iter[1..n])
<1> DEFINE g == [i \in 0..n |-> iter[1..i]]
<1>1. ASSUME NEW i \in 1..n PROVE iter[1..i] = iter[1..(i - 1)] + w[i]
  <2>1. 1..i \in SUBSET (1..n) /\ i \in 1..i
    OBVIOUS
  <2>2. Max(1..i) \in 1..i /\ Max(1..i) >= i
    BY <2>1, Largest
  <2>3. Max(1..i) = i /\ (1..i) \ {i} = 1..(i - 1)
    BY <2>2
  <2>4. iter[1..i] = iter[(1..i) \ {Max(1..i)}] + w[Max(1..i)]
    BY <2>1 DEF AddsUp
  <2> QED
    BY <2>3, <2>4
<1>2. iter[1..0] = 0
  <2>1. 1..0 = {} /\ {} \in SUBSET (1..n)
    OBVIOUS
  <2>2. iter[{}] = 0
    BY <2>1 DEF AddsUp
  <2> QED
    BY <2>1, <2>2
<1> DEFINE T == {i \in 0..n : iter[1..i] \in Nat}
<1>3. 0 \in T
  BY <1>2
<1>4. ASSUME NEW i \in 1..n, i - 1 \in T PROVE i \in T
  BY <1>1, <1>4
<1>5. 0..n \subseteq T
  <2> HIDE DEF T
  <2> QED
    BY <1>3, <1>4, UpTo
<1>6. g \in [0..n -> Nat]
  BY <1>5
<1>7. g[0] = 0 /\ g[n] = iter[1..n] /\ \A i \in 1..n : g[i] = g[i - 1] + w[i]
  BY <1>1, <1>2
<1> HIDE DEF g
<1> QED
  BY <1>6, <1>7 DEF Totals

LEMMA SumRec ==
  ASSUME NEW s \in Seq(Spending)
  PROVE  Totals(Len(s), [i \in 1..Len(s) |-> s[i].tokens], Sum(s))
<1> DEFINE n == Len(s)
           D == DOMAIN s
           iter[u \in SUBSET DOMAIN s] ==
             IF u = {} THEN 0 ELSE iter[u \ {Max(u)}] + s[Max(u)].tokens
           w == [i \in 1..n |-> s[i].tokens]
<1>1. n \in Nat /\ D = 1..n
  OBVIOUS
<1>2. Sum(s) = iter[D]
  BY DEF Sum, FoldLeft, MapThenFoldSet
<1>3. ASSUME NEW g, g = [u \in SUBSET D |-> IF u = {} THEN 0 ELSE g[u \ {Max(u)}] + s[Max(u)].tokens]
      PROVE  iter = [u \in SUBSET D |-> IF u = {} THEN 0 ELSE iter[u \ {Max(u)}] + s[Max(u)].tokens]
  BY <1>3
<1>4. w \in [1..n -> Nat]
  <2>1. \A i \in 1..n : s[i] \in Spending
    OBVIOUS
  <2>2. \A i \in 1..n : s[i].tokens \in Nat
    BY <2>1 DEF Spending
  <2> HIDE DEF n
  <2> QED
    BY <2>2
<1>5. \A i \in 1..n : w[i] = s[i].tokens
  OBVIOUS
<1> HIDE DEF n, w, iter, D
<1>6. PICK g \in [SUBSET (1..n) -> Nat] : AddsUp(n, w, g)
  BY <1>1, <1>4, Folding
<1>7. \A u \in SUBSET (1..n) : u # {} => Max(u) \in 1..n
  BY <1>1, Largest
<1>8. \A u \in SUBSET (1..n) : g[u] = IF u = {} THEN 0 ELSE g[u \ {Max(u)}] + s[Max(u)].tokens
  BY <1>5, <1>6, <1>7 DEF AddsUp
<1>9. g = [u \in SUBSET D |-> IF u = {} THEN 0 ELSE g[u \ {Max(u)}] + s[Max(u)].tokens]
  BY <1>1, <1>8
<1>10. iter = [u \in SUBSET D |-> IF u = {} THEN 0 ELSE iter[u \ {Max(u)}] + s[Max(u)].tokens]
  BY <1>3, <1>9
<1>11. AddsUp(n, w, iter)
  BY <1>1, <1>5, <1>7, <1>10 DEF AddsUp
<1>12. Totals(n, w, iter[1..n])
  BY <1>1, <1>4, <1>11, PrefixSums
<1> QED
  BY <1>1, <1>2, <1>12 DEF n, w

LEMMA OneMore ==
  ASSUME NEW n \in Nat, NEW w, NEW v, NEW x, NEW y, Totals(n, w, x), Totals(n + 1, v, y),
         \A i \in 1..n : v[i] = w[i]
  PROVE  x \in Nat /\ y = x + v[n + 1]
<1>1. PICK g \in [0..n -> Nat] : g[0] = 0 /\ g[n] = x /\ \A i \in 1..n : g[i] = g[i - 1] + w[i]
  BY DEF Totals
<1>2. PICK h \in [0..(n + 1) -> Nat] :
        h[0] = 0 /\ h[n + 1] = y /\ \A i \in 1..(n + 1) : h[i] = h[i - 1] + v[i]
  BY DEF Totals
<1> DEFINE T == {i \in 0..n : h[i] = g[i]}
<1>3. 0 \in T
  BY <1>1, <1>2
<1>4. ASSUME NEW i \in 1..n, i - 1 \in T PROVE i \in T
  BY <1>1, <1>2, <1>4
<1>5. n \in T
  <2> HIDE DEF T
  <2>1. 0..n \subseteq T
    BY <1>3, <1>4, UpTo
  <2> QED
    BY <2>1
<1>6. h[n + 1] = h[n] + v[n + 1]
  <2>1. n + 1 \in 1..(n + 1) /\ (n + 1) - 1 = n
    OBVIOUS
  <2> QED
    BY <1>2, <2>1
<1> QED
  BY <1>1, <1>2, <1>5, <1>6

LEMMA SumAppend ==
  ASSUME NEW s \in Seq(Spending), NEW e \in Spending
  PROVE  Sum(s) \in Nat /\ Sum(Append(s, e)) = Sum(s) + e.tokens
<1> DEFINE n == Len(s)
           se == Append(s, e)
           w == [i \in 1..n |-> s[i].tokens]
           v == [i \in 1..(n + 1) |-> se[i].tokens]
<1>1. n \in Nat /\ se \in Seq(Spending) /\ Len(se) = n + 1
  OBVIOUS
<1>2. v[n + 1] = e.tokens /\ \A i \in 1..n : v[i] = w[i]
  OBVIOUS
<1>3. Totals(n, w, Sum(s))
  BY SumRec
<1>4. Totals(n + 1, v, Sum(se))
  <2> HIDE DEF n, se
  <2> QED
    BY <1>1, SumRec
<1> HIDE DEF n, w, v, se
<1>5. Sum(s) \in Nat /\ Sum(se) = Sum(s) + v[n + 1]
  BY <1>1, <1>2, <1>3, <1>4, OneMore
<1> QED
  BY <1>2, <1>5 DEF se

LEMMA SumOfNone == Sum(<<>>) = 0
<1>1. <<>> \in Seq(Spending) /\ Len(<<>>) = 0
  OBVIOUS
<1>2. Totals(Len(<<>>), [i \in 1..Len(<<>>) |-> <<>>[i].tokens], Sum(<<>>))
  BY <1>1, SumRec
<1> QED
  BY <1>1, <1>2 DEF Totals

LEMMA TokensTyped ==
  ASSUME NEW text \in Sendable
  PROVE  Tokens(text) \in Nat
<1>1. text.size \in Nat /\ CharsPerToken \in Nat \ {0}
  BY PacingAssumption DEF Sendable
<1>2. text.size \div CharsPerToken \in Nat
  BY <1>1
<1> QED
  BY <1>2 DEF Tokens, Larger

LEMMA TokensOfTyped ==
  ASSUME NEW batch \in Seq(Sendable)
  PROVE  TokensOf(batch) \in Nat
<1> DEFINE n == Len(batch)
           D == DOMAIN batch
           iter[u \in SUBSET DOMAIN batch] ==
             IF u = {} THEN 0 ELSE iter[u \ {Max(u)}] + Tokens(batch[Max(u)])
           w == [i \in 1..n |-> Tokens(batch[i])]
<1>1. n \in Nat /\ D = 1..n
  OBVIOUS
<1>2. TokensOf(batch) = iter[D]
  BY DEF TokensOf, FoldLeft, MapThenFoldSet
<1>3. ASSUME NEW g, g = [u \in SUBSET D |-> IF u = {} THEN 0 ELSE g[u \ {Max(u)}] + Tokens(batch[Max(u)])]
      PROVE  iter = [u \in SUBSET D |-> IF u = {} THEN 0 ELSE iter[u \ {Max(u)}] + Tokens(batch[Max(u)])]
  BY <1>3
<1>4. w \in [1..n -> Nat]
  <2>1. \A i \in 1..n : batch[i] \in Sendable
    OBVIOUS
  <2> HIDE DEF n
  <2> QED
    BY <2>1, TokensTyped
<1>5. \A i \in 1..n : w[i] = Tokens(batch[i])
  OBVIOUS
<1> HIDE DEF n, w, iter, D
<1>6. PICK g \in [SUBSET (1..n) -> Nat] : AddsUp(n, w, g)
  BY <1>1, <1>4, Folding
<1>7. \A u \in SUBSET (1..n) : u # {} => Max(u) \in 1..n
  BY <1>1, Largest
<1>8. \A u \in SUBSET (1..n) : g[u] = IF u = {} THEN 0 ELSE g[u \ {Max(u)}] + Tokens(batch[Max(u)])
  BY <1>5, <1>6, <1>7 DEF AddsUp
<1>9. g = [u \in SUBSET D |-> IF u = {} THEN 0 ELSE g[u \ {Max(u)}] + Tokens(batch[Max(u)])]
  BY <1>1, <1>8
<1>10. iter = [u \in SUBSET D |-> IF u = {} THEN 0 ELSE iter[u \ {Max(u)}] + Tokens(batch[Max(u)])]
  BY <1>3, <1>9
<1>11. AddsUp(n, w, iter)
  BY <1>1, <1>5, <1>7, <1>10 DEF AddsUp
<1>12. Totals(n, w, iter[1..n])
  BY <1>1, <1>4, <1>11, PrefixSums
<1> QED
  BY <1>1, <1>2, <1>12 DEF Totals

-----------------------------------------------------------------------------
(* The rolling minute. *)

LEMMA LastMinuteRec ==
  ASSUME NEW s \in Seq(Spending)
  PROVE  \E g \in [0..Len(s) -> Seq(Spending)] :
           /\ LastMinute(s) = g[Len(s)] /\ g[0] = <<>>
           /\ \A i \in 1..Len(s) :
                g[i] = IF s[i].age < Window THEN Append(g[i - 1], s[i]) ELSE g[i - 1]
<1> DEFINE V == Seq(Spending)
           base == <<>>
           n == Len(s)
           With(v, i) == IF s[i].age < Window THEN Append(v, s[i]) ELSE v
           step == [i \in 1..n |-> [v \in V |-> With(v, i)]]
           upTo[i \in 0..Len(s)] ==
             IF i = 0 THEN <<>>
             ELSE IF s[i].age < Window THEN Append(upTo[i - 1], s[i]) ELSE upTo[i - 1]
<1>1. n \in Nat /\ base \in V
  OBVIOUS
<1>2. \A i \in 1..n : \A v \in V : With(v, i) \in V
  OBVIOUS
<1>3. LastMinute(s) = upTo[n]
  BY DEF LastMinute
<1>4. ASSUME NEW g, g = [i \in 0..n |-> IF i = 0 THEN base ELSE With(g[i - 1], i)]
      PROVE  upTo = [i \in 0..n |-> IF i = 0 THEN base ELSE With(upTo[i - 1], i)]
  BY <1>4
<1> HIDE DEF V, base, n, With, upTo
<1>5. step \in [1..n -> [V -> V]] /\ \A i \in 1..n : \A v \in V : step[i][v] = With(v, i)
  BY <1>2
<1> HIDE DEF step
<1>6. PICK g \in [0..n -> V] : g[0] = base /\ \A i \in 1..n : g[i] = step[i][g[i - 1]]
  BY <1>1, <1>5, Recursion, SMTT(60)
<1>7. \A i \in 1..n : g[i - 1] \in V
  BY <1>1
<1>8. \A i \in 1..n : g[i] = With(g[i - 1], i)
  BY <1>5, <1>6, <1>7
<1>9. g = [i \in 0..n |-> IF i = 0 THEN base ELSE With(g[i - 1], i)]
  <2>1. \A i \in 0..n : g[i] = IF i = 0 THEN base ELSE With(g[i - 1], i)
    BY <1>1, <1>6, <1>8
  <2> QED
    BY <2>1
<1>10. upTo = [i \in 0..n |-> IF i = 0 THEN base ELSE With(upTo[i - 1], i)]
  BY <1>4, <1>9
<1>11. \A i \in 0..n : upTo[i] = g[i]
  <2> DEFINE T == {i \in 0..n : upTo[i] = g[i]}
  <2>1. 0 \in T
    BY <1>1, <1>6, <1>10
  <2>2. ASSUME NEW i \in 1..n, i - 1 \in T PROVE i \in T
    <3>1. upTo[i] = With(upTo[i - 1], i)
      BY <1>1, <1>10
    <3> QED
      BY <1>8, <2>2, <3>1
  <2> HIDE DEF T
  <2>3. 0..n \subseteq T
    BY <1>1, <2>1, <2>2, UpTo
  <2> QED
    BY <2>3 DEF T
<1>12. LastMinute(s) = g[n]
  BY <1>1, <1>3, <1>11
<1> QED
  BY <1>6, <1>8, <1>12 DEF V, base, n, With

LEMMA LastMinuteAppend ==
  ASSUME NEW s \in Seq(Spending), NEW e \in Spending
  PROVE  /\ LastMinute(s) \in Seq(Spending)
         /\ LastMinute(Append(s, e)) =
              IF e.age < Window THEN Append(LastMinute(s), e) ELSE LastMinute(s)
<1> DEFINE n == Len(s)
           se == Append(s, e)
<1>1. n \in Nat /\ se \in Seq(Spending) /\ Len(se) = n + 1
  OBVIOUS
<1>2. se[n + 1] = e /\ \A i \in 1..n : se[i] = s[i]
  OBVIOUS
<1>3. PICK g \in [0..n -> Seq(Spending)] :
        /\ LastMinute(s) = g[n] /\ g[0] = <<>>
        /\ \A i \in 1..n : g[i] = IF s[i].age < Window THEN Append(g[i - 1], s[i]) ELSE g[i - 1]
  BY LastMinuteRec
<1> HIDE DEF se
<1>4. PICK h \in [0..(n + 1) -> Seq(Spending)] :
        /\ LastMinute(se) = h[n + 1] /\ h[0] = <<>>
        /\ \A i \in 1..(n + 1) :
             h[i] = IF se[i].age < Window THEN Append(h[i - 1], se[i]) ELSE h[i - 1]
  <2>1. PICK h \in [0..Len(se) -> Seq(Spending)] :
          /\ LastMinute(se) = h[Len(se)] /\ h[0] = <<>>
          /\ \A i \in 1..Len(se) :
               h[i] = IF se[i].age < Window THEN Append(h[i - 1], se[i]) ELSE h[i - 1]
    BY <1>1, LastMinuteRec
  <2> HIDE DEF n
  <2> QED
    BY <1>1, <2>1
<1> DEFINE T == {i \in 0..n : h[i] = g[i]}
<1>5. 0 \in T
  BY <1>1, <1>3, <1>4
<1>6. ASSUME NEW i \in 1..n, i - 1 \in T PROVE i \in T
  <2>1. h[i] = IF s[i].age < Window THEN Append(h[i - 1], s[i]) ELSE h[i - 1]
    BY <1>1, <1>2, <1>4
  <2> QED
    BY <1>3, <1>6, <2>1
<1> HIDE DEF n
<1>7. h[n] = g[n]
  <2> HIDE DEF T
  <2>1. 0..n \subseteq T
    BY <1>1, <1>5, <1>6, UpTo
  <2> QED
    BY <1>1, <2>1 DEF T
<1>8. h[n + 1] = IF e.age < Window THEN Append(h[n], e) ELSE h[n]
  <2>1. n + 1 \in 1..(n + 1) /\ (n + 1) - 1 = n
    BY <1>1
  <2> QED
    BY <1>2, <1>4, <2>1
<1>9. g[n] \in Seq(Spending)
  BY <1>1
<1> QED
  BY <1>3, <1>4, <1>7, <1>8, <1>9 DEF se

LEMMA LastMinuteOfNone == LastMinute(<<>>) = <<>>
<1>1. <<>> \in Seq(Spending) /\ Len(<<>>) = 0
  OBVIOUS
<1>2. PICK g \in [0..Len(<<>>) -> Seq(Spending)] : LastMinute(<<>>) = g[Len(<<>>)] /\ g[0] = <<>>
  BY <1>1, LastMinuteRec
<1> QED
  BY <1>1, <1>2

OlderBy1(e) == [e EXCEPT !.age = Smaller(@ + 1, Window)]

LEMMA OlderAppend ==
  ASSUME NEW s \in Seq(Spending), NEW e \in Spending
  PROVE  /\ OlderBy1(e) \in Spending /\ OlderBy1(e).tokens = e.tokens
         /\ e.age = Window => OlderBy1(e).age = Window
         /\ Older(s) \in Seq(Spending)
         /\ Older(Append(s, e)) = Append(Older(s), OlderBy1(e))
<1>1. ASSUME NEW x \in Spending
      PROVE  /\ OlderBy1(x) \in Spending /\ OlderBy1(x).tokens = x.tokens
             /\ x.age = Window => OlderBy1(x).age = Window
  <2> DEFINE v == Smaller(x.age + 1, Window)
  <2>1. x.age \in 0..Window /\ Window \in Nat
    BY PacingAssumption DEF Spending
  <2>3. v \in 0..Window
    BY <2>1 DEF Smaller
  <2>4. OlderBy1(x) = [x EXCEPT !.age = v]
    BY DEF OlderBy1
  <2> HIDE DEF v
  <2>5. [x EXCEPT !.age = v] \in Spending
    BY <2>3 DEF Spending
  <2>6. [x EXCEPT !.age = v].tokens = x.tokens /\ [x EXCEPT !.age = v].age = v
    BY DEF Spending
  <2>7. x.age = Window => v = Window
    BY <2>1, <2>3 DEF Smaller, v
  <2> QED
    BY <2>4, <2>5, <2>6, <2>7
<1>2. \A t : Older(t) = [i \in DOMAIN t |-> OlderBy1(t[i])]
  BY DEF Older, OlderBy1
<1>3. Older(s) \in Seq(Spending)
  <2>1. \A i \in DOMAIN s : s[i] \in Spending
    OBVIOUS
  <2>2. \A i \in DOMAIN s : OlderBy1(s[i]) \in Spending
    BY <1>1, <2>1
  <2> QED
    BY <1>2, <2>2
<1>4. Older(Append(s, e)) = Append(Older(s), OlderBy1(e))
  <2>1. DOMAIN Append(s, e) = 1..(Len(s) + 1) /\ DOMAIN s = 1..Len(s) /\ Len(s) \in Nat
    OBVIOUS
  <2>2. Len(Older(s)) = Len(s) /\ \A i \in 1..Len(s) : Older(s)[i] = OlderBy1(s[i])
    BY <1>2, <2>1
  <2> DEFINE r == Older(s)
             a == OlderBy1(e)
  <2>3. r \in Seq(Spending) /\ a \in Spending
    BY <1>1, <1>3
  <2>4. \A i \in 1..(Len(s) + 1) : Append(s, e)[i] = IF i = Len(s) + 1 THEN e ELSE s[i]
    OBVIOUS
  <2> HIDE DEF r, a
  <2>5. \A i \in 1..(Len(s) + 1) : Append(r, a)[i] = IF i = Len(s) + 1 THEN a ELSE r[i]
    BY <2>2, <2>3 DEF r
  <2>6. DOMAIN Append(r, a) = 1..(Len(s) + 1)
    BY <2>1, <2>2, <2>3 DEF r
  <2>7. Append(r, a) = [i \in 1..(Len(s) + 1) |-> Append(r, a)[i]]
    <3> DEFINE q == Append(r, a)
    <3>1. q \in Seq(Spending)
      BY <2>3
    <3> HIDE DEF q
    <3>2. q = [i \in DOMAIN q |-> q[i]]
      BY <3>1
    <3> QED
      BY <2>6, <3>2 DEF q
  <2>8. Older(Append(s, e)) = [i \in 1..(Len(s) + 1) |-> OlderBy1(Append(s, e)[i])]
    BY <1>2, <2>1
  <2>9. \A i \in 1..(Len(s) + 1) : OlderBy1(Append(s, e)[i]) = Append(r, a)[i]
    BY <2>1, <2>2, <2>4, <2>5 DEF r, a
  <2> QED
    BY <2>7, <2>8, <2>9 DEF r, a
<1> QED
  BY <1>1, <1>3, <1>4

\* Nothing comes back into the minute, and what leaves it makes it no fuller.
LEMMA MinuteRolls ==
  ASSUME NEW s \in Seq(Spending)
  PROVE  /\ LastMinute(LastMinute(s)) = LastMinute(s)
         /\ LastMinute(Older(LastMinute(s))) = LastMinute(Older(s))
         /\ Sum(LastMinute(Older(s))) <= Sum(s)
         /\ Len(LastMinute(Older(s))) <= Len(s)
<1> DEFINE T == {t \in Seq(Spending) :
                   /\ LastMinute(LastMinute(t)) = LastMinute(t)
                   /\ LastMinute(Older(LastMinute(t))) = LastMinute(Older(t))
                   /\ Sum(LastMinute(Older(t))) <= Sum(t)
                   /\ Len(LastMinute(Older(t))) <= Len(t)}
<1>1. <<>> \in T
  <2>1. Older(<<>>) = <<>>
    BY DEF Older
  <2> QED
    BY <2>1, LastMinuteOfNone, SumOfNone
<1>2. ASSUME NEW t \in Seq(Spending), NEW e \in Spending, t \in T PROVE Append(t, e) \in T
  <2> DEFINE o == OlderBy1(e)
             r == LastMinute(t)
             te == Append(t, e)
  <2>1. te \in Seq(Spending) /\ Len(te) = Len(t) + 1 /\ Len(t) \in Nat
    OBVIOUS
  <2>2. /\ o \in Spending /\ o.tokens = e.tokens
        /\ e.age = Window => o.age = Window
        /\ Older(t) \in Seq(Spending) /\ Older(te) = Append(Older(t), o)
    BY OlderAppend
  <2>3. r \in Seq(Spending)
    BY LastMinuteAppend
  <2>4. LastMinute(te) = IF e.age < Window THEN Append(r, e) ELSE r
    BY LastMinuteAppend
  <2>5. LastMinute(Append(r, e)) = IF e.age < Window THEN Append(LastMinute(r), e) ELSE LastMinute(r)
    BY <2>3, LastMinuteAppend
  <2>6. Older(Append(r, e)) = Append(Older(r), o) /\ Older(r) \in Seq(Spending)
    BY <2>3, OlderAppend
  <2>7. ASSUME NEW x \in Seq(Spending)
        PROVE  /\ LastMinute(x) \in Seq(Spending)
               /\ LastMinute(Append(x, o)) = IF o.age < Window THEN Append(LastMinute(x), o) ELSE LastMinute(x)
    <3>1. o \in Spending
      BY <2>2
    <3> HIDE DEF o
    <3> QED
      BY <3>1, LastMinuteAppend
  <2> HIDE DEF o, r, te
  <2>8. /\ LastMinute(r) = r /\ LastMinute(Older(r)) = LastMinute(Older(t))
        /\ Sum(LastMinute(Older(t))) <= Sum(t) /\ Len(LastMinute(Older(t))) <= Len(t)
    BY <1>2 DEF r
  <2>9. e.age \in 0..Window /\ Window \in Nat
    BY PacingAssumption DEF Spending
  <2>10. ~(e.age < Window) => ~(o.age < Window)
    <3> SUFFICES ASSUME ~(e.age < Window) PROVE ~(o.age < Window)
      OBVIOUS
    <3>1. e.age = Window
      BY <2>9
    <3>2. o.age = Window
      BY <2>2, <3>1
    <3> QED
      BY <2>9, <3>2
  <2>11. LastMinute(LastMinute(te)) = LastMinute(te)
    BY <2>4, <2>5, <2>8
  <2>12. LastMinute(Older(LastMinute(te))) = LastMinute(Older(te))
    <3>1. CASE e.age < Window
      BY <2>2, <2>4, <2>6, <2>7, <2>8, <3>1
    <3>2. CASE ~(e.age < Window)
      BY <2>2, <2>4, <2>7, <2>8, <2>10, <3>2
    <3> QED
      BY <3>1, <3>2
  <2>13. Sum(LastMinute(Older(te))) <= Sum(te) /\ Len(LastMinute(Older(te))) <= Len(te)
    <3> DEFINE q == LastMinute(Older(t))
    <3>1. q \in Seq(Spending) /\ LastMinute(Older(te)) \in {q, Append(q, o)}
      BY <2>2, <2>7
    <3>2. /\ Sum(q) \in Nat /\ Sum(Append(q, o)) = Sum(q) + e.tokens
          /\ Sum(t) \in Nat /\ Sum(te) = Sum(t) + e.tokens
      <4>1. q \in Seq(Spending) /\ o \in Spending /\ o.tokens = e.tokens
        BY <2>2, <3>1
      <4> HIDE DEF q
      <4>2. Sum(q) \in Nat /\ Sum(Append(q, o)) = Sum(q) + o.tokens
        BY <4>1, SumAppend
      <4>3. Sum(t) \in Nat /\ Sum(te) = Sum(t) + e.tokens
        BY SumAppend DEF te
      <4> QED
        BY <4>1, <4>2, <4>3
    <3>3. e.tokens \in Nat
      BY DEF Spending
    <3>4. Len(q) \in Nat /\ Len(Append(q, o)) = Len(q) + 1
      BY <2>2, <3>1
    <3>5. Sum(q) <= Sum(t) /\ Len(q) <= Len(t)
      BY <2>8
    <3> DEFINE after == LastMinute(Older(te))
    <3>6. after \in {q, Append(q, o)}
      BY <3>1
    <3> HIDE DEF q, after
    <3>7. CASE after = q
      <4>1. Sum(q) <= Sum(te) /\ Len(q) <= Len(te)
        BY <2>1, <3>2, <3>3, <3>4, <3>5
      <4> QED
        BY <3>7, <4>1 DEF after
    <3>8. CASE after = Append(q, o)
      <4>1. Sum(Append(q, o)) <= Sum(te) /\ Len(Append(q, o)) <= Len(te)
        BY <2>1, <3>2, <3>3, <3>4, <3>5
      <4> QED
        BY <3>8, <4>1 DEF after
    <3> QED
      BY <3>6, <3>7, <3>8
  <2> QED
    BY <2>1, <2>11, <2>12, <2>13 DEF te
<1>3. Seq(Spending) \subseteq T
  <2> HIDE DEF T
  <2> QED
    BY <1>1, <1>2, EverySequence
<1> QED
  BY <1>3

-----------------------------------------------------------------------------
(* The batches, and the answers to them. *)

\* The batches so far with one more text: in the last of them, or in a new one.
Joins(before, after, text) ==
  \/ before # <<>> /\ after = Append(Front(before), Append(Last(before), text))
  \/ after = Append(before, <<text>>)

LEMMA BatchesRec ==
  ASSUME NEW S, NEW texts \in Seq(S)
  PROVE  \E g \in [0..Len(texts) -> Seq(Seq(S))] :
           /\ Batches(texts) = g[Len(texts)] /\ g[0] = <<>>
           /\ \A i \in 1..Len(texts) : Joins(g[i - 1], g[i], texts[i])
<1> DEFINE V == Seq(Seq(S))
           base == <<>>
           n == Len(texts)
           Fits(batch, text) ==
             Len(batch) < DefaultBatch /\ TokensOf(batch) + Tokens(text) <= BatchLimit
           With(done, i) ==
             IF done # <<>> /\ Fits(Last(done), texts[i])
             THEN Append(Front(done), Append(Last(done), texts[i]))
             ELSE Append(done, <<texts[i]>>)
           step == [i \in 1..n |-> [done \in V |-> With(done, i)]]
           upTo[i \in 0..Len(texts)] ==
             IF i = 0 THEN <<>>
             ELSE LET done == upTo[i - 1]
                  IN  IF done # <<>> /\ Fits(Last(done), texts[i])
                      THEN Append(Front(done), Append(Last(done), texts[i]))
                      ELSE Append(done, <<texts[i]>>)
<1>1. n \in Nat /\ base \in V
  OBVIOUS
<1>2. ASSUME NEW i \in 1..n, NEW done \in V
      PROVE  With(done, i) \in V /\ Joins(done, With(done, i), texts[i])
  <2>1. texts[i] \in S
    OBVIOUS
  <2> DEFINE text == texts[i]
  <2> HIDE DEF Fits, text
  <2>2. Append(done, <<text>>) \in V
    BY <2>1 DEF text
  <2>3. ASSUME done # <<>> PROVE Append(Front(done), Append(Last(done), text)) \in V
    <3>1. Len(done) \in Nat /\ Len(done) > 0
      BY <2>3
    <3>2. Last(done) \in Seq(S)
      BY <3>1 DEF Last
    <3>3. Front(done) \in Seq(Seq(S))
      BY <3>1 DEF Front
    <3>4. Append(Last(done), text) \in Seq(S)
      BY <2>1, <3>2 DEF text
    <3> QED
      BY <3>3, <3>4
  <2>4. With(done, i) \in {Append(Front(done), Append(Last(done), text)), Append(done, <<text>>)}
        /\ (done = <<>> => With(done, i) = Append(done, <<text>>))
    BY DEF text
  <2> QED
    BY <2>2, <2>3, <2>4 DEF Joins, text
<1>3. Batches(texts) = upTo[n]
  BY DEF Batches
<1>4. ASSUME NEW g, g = [i \in 0..n |-> IF i = 0 THEN base ELSE With(g[i - 1], i)]
      PROVE  upTo = [i \in 0..n |-> IF i = 0 THEN base ELSE With(upTo[i - 1], i)]
  BY <1>4
<1> HIDE DEF V, base, n, With, upTo
<1>5. step \in [1..n -> [V -> V]] /\ \A i \in 1..n : \A v \in V : step[i][v] = With(v, i)
  BY <1>2
<1> HIDE DEF step
<1>6. PICK g \in [0..n -> V] : g[0] = base /\ \A i \in 1..n : g[i] = step[i][g[i - 1]]
  BY <1>1, <1>5, Recursion, SMTT(60)
<1>7. \A i \in 1..n : g[i - 1] \in V
  BY <1>1
<1>8. \A i \in 1..n : g[i] = With(g[i - 1], i)
  BY <1>5, <1>6, <1>7
<1>9. g = [i \in 0..n |-> IF i = 0 THEN base ELSE With(g[i - 1], i)]
  <2>1. \A i \in 0..n : g[i] = IF i = 0 THEN base ELSE With(g[i - 1], i)
    BY <1>1, <1>6, <1>8
  <2> QED
    BY <2>1
<1>10. upTo = [i \in 0..n |-> IF i = 0 THEN base ELSE With(upTo[i - 1], i)]
  BY <1>4, <1>9
<1>11. \A i \in 0..n : upTo[i] = g[i]
  <2> DEFINE T == {i \in 0..n : upTo[i] = g[i]}
  <2>1. 0 \in T
    BY <1>1, <1>6, <1>10
  <2>2. ASSUME NEW i \in 1..n, i - 1 \in T PROVE i \in T
    <3>1. upTo[i] = With(upTo[i - 1], i)
      BY <1>1, <1>10
    <3> QED
      BY <1>8, <2>2, <3>1
  <2> HIDE DEF T
  <2>3. 0..n \subseteq T
    BY <1>1, <2>1, <2>2, UpTo
  <2> QED
    BY <2>3 DEF T
<1>12. Batches(texts) = g[n]
  BY <1>1, <1>3, <1>11
<1>13. \A i \in 1..n : Joins(g[i - 1], g[i], texts[i])
  BY <1>2, <1>7, <1>8
<1> QED
  BY <1>6, <1>12, <1>13 DEF V, base, n

\* Batches of the texts from..to, each once and in their order.
EndOf(batch) == batch[1].chunk + Len(batch) - 1

Covers(bs, from, to) ==
  /\ \A b \in 1..Len(bs) :
       Len(bs[b]) > 0 /\ \A k \in 1..Len(bs[b]) : bs[b][k].chunk = bs[b][1].chunk + k - 1
  /\ bs = <<>> => to = from - 1
  /\ bs # <<>> => bs[1][1].chunk = from /\ EndOf(bs[Len(bs)]) = to
  /\ \A b \in 1..(Len(bs) - 1) : bs[b + 1][1].chunk = EndOf(bs[b]) + 1

LEMMA JoinsCovers ==
  ASSUME NEW bs \in Seq(Seq(Sendable)), NEW to \in Nat, Covers(bs, 1, to),
         NEW text \in Sendable, text.chunk = to + 1, NEW after, Joins(bs, after, text)
  PROVE  Covers(after, 1, to + 1) /\ after # <<>>
<1>1. Len(bs) \in Nat /\ DOMAIN bs = 1..Len(bs) /\ \A b \in 1..Len(bs) : bs[b] \in Seq(Sendable)
  OBVIOUS
<1>2. \A b \in 1..Len(bs) : Len(bs[b]) \in Nat
  BY <1>1
<1>3. \A b \in 1..Len(bs) : Len(bs[b]) > 0 => bs[b][1].chunk \in Nat
  <2> SUFFICES ASSUME NEW b \in 1..Len(bs), Len(bs[b]) > 0 PROVE bs[b][1].chunk \in Nat
    OBVIOUS
  <2>1. bs[b] \in Seq(Sendable)
    BY <1>1
  <2>2. bs[b][1] \in Sendable
    BY <2>1
  <2> QED
    BY <2>2 DEF Sendable
<1>4. CASE after = Append(bs, <<text>>)
  <2> DEFINE n == Len(bs) + 1
  <2>1. Len(after) = n /\ after[n] = <<text>> /\ \A b \in 1..Len(bs) : after[b] = bs[b]
    BY <1>4
  <2>2. Len(<<text>>) = 1 /\ <<text>>[1] = text
    OBVIOUS
  <2>3. EndOf(after[n]) = to + 1
    BY <2>1, <2>2 DEF EndOf
  <2>4. after # <<>>
    BY <1>1, <2>1
  <2>5. \A b \in 1..n : Len(after[b]) > 0
          /\ \A k \in 1..Len(after[b]) : after[b][k].chunk = after[b][1].chunk + k - 1
    <3>1. \A k \in 1..1 : <<text>>[k].chunk = <<text>>[1].chunk + k - 1
      BY <2>2
    <3>2. Len(after[n]) > 0 /\ \A k \in 1..Len(after[n]) : after[n][k].chunk = after[n][1].chunk + k - 1
      BY <2>1, <2>2, <3>1
    <3>3. \A b \in 1..n : b = n \/ b \in 1..Len(bs)
      BY <1>1
    <3>4. ASSUME NEW b \in 1..Len(bs)
          PROVE  Len(after[b]) > 0
            /\ \A k \in 1..Len(after[b]) : after[b][k].chunk = after[b][1].chunk + k - 1
      <4>1. after[b] = bs[b]
        BY <2>1
      <4>2. Len(bs[b]) > 0 /\ \A k \in 1..Len(bs[b]) : bs[b][k].chunk = bs[b][1].chunk + k - 1
        BY DEF Covers
      <4> QED
        BY <4>1, <4>2
    <3> HIDE DEF n
    <3> QED
      BY <3>2, <3>3, <3>4
  <2>6. after[1][1].chunk = 1
    <3>1. CASE bs = <<>>
      BY <2>1, <2>2, <3>1 DEF Covers
    <3>2. CASE bs # <<>>
      <4>1. 1 \in 1..Len(bs)
        BY <1>1, <3>2
      <4> QED
        BY <2>1, <3>2, <4>1 DEF Covers
    <3> QED
      BY <3>1, <3>2
  <2>7. \A b \in 1..(n - 1) : after[b + 1][1].chunk = EndOf(after[b]) + 1
    <3> SUFFICES ASSUME NEW b \in 1..(n - 1) PROVE after[b + 1][1].chunk = EndOf(after[b]) + 1
      OBVIOUS
    <3>1. b \in 1..Len(bs) /\ after[b] = bs[b] /\ bs # <<>>
      BY <1>1, <2>1
    <3>2. CASE b = Len(bs)
      <4>1. EndOf(bs[b]) = to
        BY <3>1, <3>2 DEF Covers
      <4>2. after[b + 1][1] = text
        BY <2>1, <2>2, <3>2
      <4> QED
        BY <3>1, <4>1, <4>2
    <3>3. CASE b # Len(bs)
      <4>1. b \in 1..(Len(bs) - 1) /\ b + 1 \in 1..Len(bs)
        <5>1. Len(bs) \in Nat /\ b \in 1..Len(bs) /\ b # Len(bs)
          BY <1>1, <3>1, <3>3
        <5> QED
          BY ONLY <5>1
      <4>2. bs[b + 1][1].chunk = EndOf(bs[b]) + 1
        BY <4>1 DEF Covers
      <4> QED
        BY <2>1, <3>1, <4>1, <4>2
    <3> QED
      BY <3>2, <3>3
  <2> QED
    BY <2>1, <2>3, <2>4, <2>5, <2>6, <2>7 DEF Covers
<1>5. CASE bs # <<>> /\ after = Append(Front(bs), Append(Last(bs), text))
  <2> DEFINE n == Len(bs)
             last == Append(bs[n], text)
             m == Len(bs[n])
  <2>0. n \in Nat
    BY <1>1
  <2>1. n \in 1..n /\ bs[n] \in Seq(Sendable) /\ m \in Nat /\ m > 0 /\ bs[n][1].chunk \in Nat
    <3>1. n \in 1..n
      BY <1>1, <1>5
    <3> QED
      BY <1>1, <1>2, <1>3, <3>1 DEF Covers
  <2>2. Len(last) = m + 1 /\ last[m + 1] = text /\ \A k \in 1..m : last[k] = bs[n][k]
    BY <2>1
  <2>3. /\ Len(after) = n /\ after[n] = last /\ after # <<>>
        /\ \A b \in 1..(n - 1) : after[b] = bs[b]
    <3>1. Front(bs) \in Seq(Seq(Sendable)) /\ Len(Front(bs)) = n - 1
          /\ \A b \in 1..(n - 1) : Front(bs)[b] = bs[b]
      BY <1>1, <2>1 DEF Front
    <3>2. last \in Seq(Sendable)
      BY <2>1
    <3>3. after = Append(Front(bs), last)
      BY <1>5 DEF Last
    <3> DEFINE front == Front(bs)
    <3> HIDE DEF last, front, m, n
    <3>4. front \in Seq(Seq(Sendable)) /\ Len(front) = n - 1 /\ after = Append(front, last)
      BY <3>1, <3>3 DEF front
    <3>5. Len(after) = n /\ after[n] = last /\ \A b \in 1..(n - 1) : after[b] = front[b]
      BY ONLY <2>0, <3>2, <3>4
    <3>6. n > 0
      BY <2>0, <2>1
    <3>7. after # <<>>
      BY ONLY <2>0, <3>5, <3>6
    <3> QED
      BY <3>1, <3>5, <3>7 DEF front
  <2>4. EndOf(bs[n]) = to /\ \A k \in 1..m : bs[n][k].chunk = bs[n][1].chunk + k - 1
    BY <1>5, <2>1 DEF Covers
  <2>5. bs[n][1].chunk + m - 1 = to
    BY <2>4 DEF EndOf
  <2>6. last[1] = bs[n][1]
    BY <2>1, <2>2
  <2>7. \A k \in 1..(m + 1) : last[k].chunk = last[1].chunk + k - 1
    <3> HIDE DEF last, m
    <3>1. last[m + 1].chunk = last[1].chunk + (m + 1) - 1
      <4> DEFINE c == bs[n][1].chunk
      <4>1. c \in Nat /\ m \in Nat /\ c + m - 1 = to
        BY <2>1, <2>5
      <4>2. last[m + 1].chunk = to + 1 /\ last[1].chunk = c
        BY <2>2, <2>6
      <4> HIDE DEF c
      <4> QED
        BY ONLY <4>1, <4>2, to \in Nat
    <3>2. \A k \in 1..m : last[k].chunk = last[1].chunk + k - 1
      BY <2>2, <2>4, <2>6
    <3>3. \A k \in 1..(m + 1) : k = m + 1 \/ k \in 1..m
      BY <2>1
    <3> QED
      BY <3>1, <3>2, <3>3
  <2>8. EndOf(last) = to + 1
    <3> DEFINE c == bs[n][1].chunk
    <3>1. c \in Nat /\ m \in Nat /\ c + m - 1 = to
      BY <2>1, <2>5
    <3>2. EndOf(last) = c + (m + 1) - 1
      BY <2>2, <2>6 DEF EndOf
    <3> HIDE DEF last, m, c
    <3> QED
      BY ONLY <3>1, <3>2, to \in Nat
  <2> HIDE DEF last, m
  <2>9. \A b \in 1..n : Len(after[b]) > 0
          /\ \A k \in 1..Len(after[b]) : after[b][k].chunk = after[b][1].chunk + k - 1
    <3>1. \A b \in 1..n : b = n \/ b \in 1..(n - 1)
      BY ONLY <2>0
    <3>2. after[n] = last /\ Len(last) > 0 /\ Len(last) = m + 1
      BY <2>1, <2>2, <2>3
    <3>3. ASSUME NEW b \in 1..(n - 1)
          PROVE  /\ Len(after[b]) > 0
                 /\ \A k \in 1..Len(after[b]) : after[b][k].chunk = after[b][1].chunk + k - 1
      <4>1. after[b] = bs[b] /\ b \in 1..Len(bs)
        BY <1>1, <2>3
      <4> QED
        BY <4>1 DEF Covers
    <3> QED
      BY <2>7, <3>1, <3>2, <3>3
  <2>10. after[1][1] = bs[1][1] /\ \A b \in 1..n : after[b][1] = bs[b][1]
    <3>1. \A b \in 1..n : b = n \/ b \in 1..(n - 1)
      BY ONLY <2>0
    <3>2. \A b \in 1..n : after[b][1] = bs[b][1]
      BY <2>3, <2>6, <3>1
    <3>3. 1 \in 1..n
      BY <2>1
    <3> HIDE DEF n
    <3> QED
      BY ONLY <3>2, <3>3
  <2>11. \A b \in 1..(n - 1) : after[b + 1][1].chunk = EndOf(after[b]) + 1
    <3> SUFFICES ASSUME NEW b \in 1..(n - 1) PROVE after[b + 1][1].chunk = EndOf(after[b]) + 1
      OBVIOUS
    <3>1. b + 1 \in 1..n
      BY <1>1
    <3>2. bs[b + 1][1].chunk = EndOf(bs[b]) + 1
      BY DEF Covers
    <3> QED
      BY <2>3, <2>10, <3>1, <3>2
  <2>12. bs[1][1].chunk = 1
    BY <1>5 DEF Covers
  <2> QED
    BY <2>3, <2>8, <2>9, <2>10, <2>11, <2>12 DEF Covers
<1> QED
  BY <1>4, <1>5 DEF Joins

\* What _batches makes of the screened chunks: typed as they are, none of them
\* missing or twice, in order, and no batch of none.
LEMMA BatchesCover ==
  ASSUME NEW S \in SUBSET Sendable, NEW texts \in Seq(S),
         \A i \in DOMAIN texts : texts[i].chunk = i
  PROVE  /\ Batches(texts) \in Seq(Seq(S))
         /\ Covers(Batches(texts), 1, Len(texts))
         /\ texts # <<>> => Batches(texts) # <<>>
<1> DEFINE n == Len(texts)
<1>1. n \in Nat /\ DOMAIN texts = 1..n /\ \A i \in 1..n : texts[i] \in Sendable
  OBVIOUS
<1>2. PICK g \in [0..n -> Seq(Seq(S))] :
        /\ Batches(texts) = g[n] /\ g[0] = <<>>
        /\ \A i \in 1..n : Joins(g[i - 1], g[i], texts[i])
  BY BatchesRec
<1>3. Seq(Seq(S)) \subseteq Seq(Seq(Sendable))
  OBVIOUS
<1> HIDE DEF n
<1> DEFINE T == {i \in 0..n : Covers(g[i], 1, i) /\ (i > 0 => g[i] # <<>>)}
<1>4. 0 \in T
  <2>1. Len(<<>>) = 0
    OBVIOUS
  <2>2. Covers(<<>>, 1, 0)
    BY <2>1 DEF Covers
  <2> QED
    BY <1>1, <1>2, <2>2
<1>5. ASSUME NEW i \in 1..n, i - 1 \in T PROVE i \in T
  <2>1. i - 1 \in Nat /\ (i - 1) + 1 = i /\ i - 1 \in 0..n /\ i \in 0..n
    BY <1>1
  <2>2. g[i - 1] \in Seq(Seq(Sendable)) /\ Covers(g[i - 1], 1, i - 1)
    BY <1>3, <1>5, <2>1
  <2>3. texts[i] \in Sendable /\ texts[i].chunk = (i - 1) + 1
    BY <1>1, <2>1
  <2>4. Joins(g[i - 1], g[i], texts[i])
    BY <1>2
  <2>5. Covers(g[i], 1, (i - 1) + 1) /\ g[i] # <<>>
    BY ONLY <2>1, <2>2, <2>3, <2>4, JoinsCovers
  <2> QED
    BY <2>1, <2>5
<1>6. n \in T
  <2> HIDE DEF T
  <2>1. 0..n \subseteq T
    BY <1>1, <1>4, <1>5, UpTo
  <2> QED
    BY <1>1, <2>1
<1>7. g[n] \in Seq(Seq(S))
  BY <1>1
<1>8. texts # <<>> => n > 0
  BY DEF n
<1> QED
  BY <1>2, <1>6, <1>7, <1>8 DEF n

\* The first of the batches is sent.
LEMMA TailCovers ==
  ASSUME NEW bs \in Seq(Seq(Sendable)), NEW from \in Nat, NEW to \in Nat, Covers(bs, from, to), bs # <<>>
  PROVE  /\ Head(bs) \in Seq(Sendable)
         /\ \A k \in 1..Len(Head(bs)) : Head(bs)[k].chunk = from + k - 1
         /\ Tail(bs) \in Seq(Seq(Sendable))
         /\ Covers(Tail(bs), from + Len(Head(bs)), to)
<1> DEFINE n == Len(bs)
           t == Tail(bs)
           h == Head(bs)
<1>1. n \in Nat /\ n > 0 /\ h = bs[1] /\ h \in Seq(Sendable) /\ Len(h) \in Nat
  OBVIOUS
<1>2. t \in Seq(Seq(Sendable)) /\ Len(t) = n - 1 /\ \A b \in 1..(n - 1) : t[b] = bs[b + 1]
  OBVIOUS
<1>3. h[1].chunk = from /\ \A k \in 1..Len(h) : h[k].chunk = h[1].chunk + k - 1
  <2>1. 1 \in 1..Len(bs) /\ h = bs[1]
    BY <1>1
  <2> HIDE DEF h, n, t
  <2> QED
    BY <2>1 DEF Covers
<1>4. EndOf(h) = from + Len(h) - 1
  BY <1>3 DEF EndOf
<1> HIDE DEF t, h, n
<1>5. Covers(t, from + Len(h), to)
  <2>1. CASE t = <<>>
    <3>1. n = 1
      BY <1>1, <1>2, <2>1
    <3>2. EndOf(h) = to
      BY <1>1, <3>1 DEF Covers, n
    <3>3. to = from + Len(h) - 1
      BY <1>4, <3>2
    <3>4. Len(t) = 0
      BY <2>1
    <3> QED
      BY <2>1, <3>3, <3>4 DEF Covers
  <2>2. CASE t # <<>>
    <3>1. n - 1 > 0 /\ n > 1
      BY <1>1, <1>2, <2>2
    <3>2. t[1] = bs[2] /\ t[n - 1] = bs[n]
      BY <1>1, <1>2, <3>1
    <3>3. t[1][1].chunk = from + Len(h)
      <4>1. bs[1 + 1][1].chunk = EndOf(bs[1]) + 1
        BY <1>1, <3>1 DEF Covers, n
      <4> QED
        BY <1>1, <1>4, <3>2, <4>1
    <3>4. EndOf(t[Len(t)]) = to
      BY <1>2, <3>2 DEF Covers, n
    <3>5. \A b \in 1..(n - 1) :
            Len(t[b]) > 0 /\ \A k \in 1..Len(t[b]) : t[b][k].chunk = t[b][1].chunk + k - 1
      <4>1. \A b \in 1..(n - 1) : b + 1 \in 1..n
        BY <1>1
      <4> QED
        BY <1>2, <4>1 DEF Covers, n
    <3>6. \A b \in 1..((n - 1) - 1) : t[b + 1][1].chunk = EndOf(t[b]) + 1
      <4> SUFFICES ASSUME NEW b \in 1..((n - 1) - 1) PROVE t[b + 1][1].chunk = EndOf(t[b]) + 1
        OBVIOUS
      <4>1. b \in 1..(n - 1) /\ b + 1 \in 1..(n - 1)
        BY <1>1
      <4>2. t[b] = bs[b + 1] /\ t[b + 1] = bs[(b + 1) + 1]
        BY <1>2, <4>1
      <4>3. bs[(b + 1) + 1][1].chunk = EndOf(bs[b + 1]) + 1
        BY <4>1 DEF Covers, n
      <4> QED
        BY <4>2, <4>3
    <3> QED
      BY <1>2, <2>2, <3>3, <3>4, <3>5, <3>6 DEF Covers
  <2> QED
    BY <2>1, <2>2
<1>6. \A k \in 1..Len(h) : h[k].chunk = from + k - 1
  BY <1>3
<1> QED
  BY <1>1, <1>2, <1>5, <1>6 DEF t, h

\* Whatever the order of the answer, its embeddings are put back in the order
\* of the batch.
LEMMA InInputOrder ==
  ASSUME NEW batch \in Seq(Sendable), NEW order \in Bijection(DOMAIN batch, DOMAIN batch)
  PROVE  Embedded([k \in DOMAIN batch |-> [index |-> order[k] - 1, embedding |-> batch[order[k]]]])
           = vectors \o batch
<1> DEFINE n == Len(batch)
           data == [k \in DOMAIN batch |-> [index |-> order[k] - 1, embedding |-> batch[order[k]]]]
           Sorts(p) == \A i, k \in DOMAIN data : i < k => data[p[i]].index <= data[p[k]].index
           p == CHOOSE p \in Bijection(DOMAIN data, DOMAIN data) : Sorts(p)
           q == [i \in 1..n |-> CHOOSE k \in 1..n : order[k] = i]
           sorted == InIndexOrder(data)
<1>1. n \in Nat /\ DOMAIN batch = 1..n /\ DOMAIN data = 1..n /\ batch = [i \in 1..n |-> batch[i]]
  OBVIOUS
<1>2. /\ order \in [1..n -> 1..n]
      /\ \A i, k \in 1..n : order[i] = order[k] => i = k
      /\ \A i \in 1..n : \E k \in 1..n : order[k] = i
  BY <1>1 DEF Bijection, Injection, Surjection, IsInjective
<1>3. \A k \in 1..n : data[k].index = order[k] - 1 /\ data[k].embedding = batch[order[k]]
  BY <1>1
<1>4. sorted = [i \in 1..n |-> data[p[i]]]
  BY <1>1 DEF InIndexOrder
<1> HIDE DEF n, data, p
<1>5. q \in Bijection(1..n, 1..n) /\ \A i \in 1..n : order[q[i]] = i
  <2>1. \A i \in 1..n : q[i] \in 1..n /\ order[q[i]] = i
    BY <1>2
  <2>2. q \in [1..n -> 1..n]
    BY <2>1
  <2>3. \A k \in 1..n : q[order[k]] = k
    BY <1>2, <2>1
  <2>4. \A i, k \in 1..n : q[i] = q[k] => i = k
    BY <2>1
  <2>5. \A k \in 1..n : order[k] \in 1..n
    BY <1>2
  <2> HIDE DEF q
  <2>6. \A k \in 1..n : \E i \in 1..n : q[i] = k
    BY <2>3, <2>5
  <2> QED
    BY <2>1, <2>2, <2>4, <2>6 DEF Bijection, Injection, Surjection, IsInjective
<1>6. Sorts(q)
  <2> SUFFICES ASSUME NEW i \in 1..n, NEW k \in 1..n, i < k
               PROVE  data[q[i]].index <= data[q[k]].index
    BY <1>1
  <2>1. q[i] \in 1..n /\ q[k] \in 1..n /\ order[q[i]] = i /\ order[q[k]] = k
    BY <1>5 DEF Bijection, Injection
  <2>2. data[q[i]].index = i - 1 /\ data[q[k]].index = k - 1
    BY <1>3, <2>1
  <2> QED
    BY <1>1, <2>2
<1> HIDE DEF q, Sorts
<1>7. p \in Bijection(1..n, 1..n) /\ Sorts(p)
  BY <1>1, <1>5, <1>6 DEF p
<1>8. p \in [1..n -> 1..n] /\ \A i, k \in 1..n : p[i] = p[k] => i = k
  BY <1>7 DEF Bijection, Injection, IsInjective
<1> DEFINE r == [i \in 1..n |-> order[p[i]]]
<1>9. r \in [1..n -> 1..n]
  BY <1>2, <1>8
<1>10. \A i, k \in 1..n : i < k => r[i] < r[k]
  <2> SUFFICES ASSUME NEW i \in 1..n, NEW k \in 1..n, i < k PROVE r[i] < r[k]
    OBVIOUS
  <2>1. p[i] \in 1..n /\ p[k] \in 1..n /\ p[i] # p[k]
    <3>1. i # k
      BY <1>1
    <3> QED
      BY <1>8, <3>1
  <2>2. order[p[i]] \in 1..n /\ order[p[k]] \in 1..n /\ order[p[i]] # order[p[k]]
    BY <1>2, <2>1
  <2>3. order[p[i]] - 1 <= order[p[k]] - 1
    <3>1. data[p[i]].index <= data[p[k]].index
      BY <1>1, <1>7 DEF Sorts
    <3> QED
      BY <1>3, <2>1, <3>1
  <2>4. order[p[i]] < order[p[k]]
    BY <1>1, <2>2, <2>3
  <2> QED
    BY <2>4
<1>11. \A i \in 1..n : r[i] = i
  <2> HIDE DEF r
  <2> QED
    BY <1>1, <1>9, <1>10, OneOrder
<1>12. \A i \in 1..n : sorted[i].embedding = batch[i]
  <2> SUFFICES ASSUME NEW i \in 1..n PROVE sorted[i].embedding = batch[i]
    OBVIOUS
  <2>1. p[i] \in 1..n /\ order[p[i]] = i
    BY <1>8, <1>11
  <2>2. sorted[i] = data[p[i]]
    BY <1>4
  <2> QED
    BY <1>3, <2>1, <2>2
<1>13. Len(sorted) = n
  BY <1>1, <1>4
<1> HIDE DEF sorted
<1>14. [k \in 1..Len(sorted) |-> sorted[k].embedding] = batch
  BY <1>1, <1>12, <1>13
<1>15. Embedded(data) = vectors \o [k \in 1..Len(sorted) |-> sorted[k].embedding]
  BY DEF Embedded, sorted
<1> QED
  BY <1>14, <1>15 DEF data

-----------------------------------------------------------------------------
(* The pipeline. *)

LEMMA ChunkPart == Init => ChunkInit
  BY DEF Init

LEMMA ChunkSteps == ASSUME [Next]_vars PROVE [ChunkNext]_cvars
<1>1. CASE ChunkStep
  BY <1>1 DEF ChunkStep
<1>2. CASE UNCHANGED vars
  BY <1>2 DEF vars
<1>3. CASE Next /\ ~ChunkStep
  <2>1. UNCHANGED cvars
    BY <1>3 DEF Next, Process, NothingToEmbed, Detect, Block_, Screen, Acquire, WakeUp, Answered,
                RateLimited, Refused, Store, Tick, Ended, vars
  <2> QED
    BY <2>1
<1> QED
  BY <1>1, <1>2, <1>3

\* chunk_blocks is the same algorithm inside ingest_document: every behaviour
\* of the pipeline is one of Chunking.
THEOREM PipelineChunks == Spec => ChunkSpec
<1>1. [Next]_vars => [ChunkNext]_cvars
  BY ChunkSteps
<1> QED
  BY <1>1, ChunkPart, PTL DEF Spec, ChunkSpec

\* And so what is true of chunk_blocks is true of the pipeline's chunks.
THEOREM PipelineKeepsItsChunks ==
  Spec => [](HardBound /\ CitedWhereItStands /\ NothingLost)
  BY PipelineChunks, ChunksAreBounded, CitationsHold, NoTextIsLost, PTL

\* Where time passes.
Underway == {"acquire", "sleep", "post", "backoff"}

\* Texts that may be sent.
Cleared == {text \in Sendable : policy # "allow" => text.legible = {}}

Typed ==
  /\ pc \in PCs /\ policy \in Policies /\ found \in Seq(FoundSets)
  /\ vectors \in Seq(Sendable) /\ batches \in Seq(Seq(Cleared))
  /\ spent \in Seq(Spending) /\ admitted \in Seq(Spending) /\ billed \in Seq(Spending)
  /\ attempt \in 1..MaxAttempts /\ timer \in 0..(Window + 1)
  /\ rows \in Seq([ordinal : Nat, vector : Sendable])

Staged ==
  /\ pc = "screen" => found \in [DOMAIN chunks -> FoundSets] /\ chunks # <<>>
  /\ pc \in {"chunk", "screen"} => vectors = <<>>
  /\ pc \in Underway => batches # <<>> /\ Covers(batches, Len(vectors) + 1, Len(chunks))
  /\ pc = "store" => Len(vectors) = Len(chunks)
  /\ pc # "stored" => rows = <<>>

InLine == \A i \in 1..Len(vectors) : vectors[i].chunk = i

Paced == admitted = LastMinute(spent) /\ AdmittedWithinAllowance

EInv == Typed /\ Staged /\ InLine /\ Paced /\ VectorsAligned

\* What all of it is about, chunk_blocks apart.
LEMMA ClearedSendable == Cleared \in SUBSET Sendable /\ Seq(Seq(Cleared)) \subseteq Seq(Seq(Sendable))
  BY DEF Cleared

LEMMA EInvInit == Init => EInv
<1> SUFFICES ASSUME Init PROVE EInv
  OBVIOUS
<1>1. Typed
  <2>1. pc \in PCs /\ policy \in Policies /\ attempt \in 1..MaxAttempts /\ timer \in 0..(Window + 1)
    BY PacingAssumption DEF Init, PCs
  <2>2. /\ found \in Seq(FoundSets) /\ vectors \in Seq(Sendable) /\ batches \in Seq(Seq(Cleared))
        /\ spent \in Seq(Spending) /\ admitted \in Seq(Spending) /\ billed \in Seq(Spending)
        /\ rows \in Seq([ordinal : Nat, vector : Sendable])
    BY DEF Init
  <2> QED
    BY <2>1, <2>2 DEF Typed
<1>2. Staged
  BY DEF Init, Staged, Underway
<1>3. InLine /\ VectorsAligned
  <2>1. vectors = <<>> /\ rows = <<>> /\ pc # "stored" /\ Len(<<>>) = 0 /\ DOMAIN <<>> = {}
    BY DEF Init
  <2> QED
    BY <2>1 DEF InLine, VectorsAligned
<1>4. Paced
  <2>1. spent = <<>> /\ admitted = <<>> /\ Len(<<>>) = 0
    BY DEF Init
  <2> QED
    BY <2>1, LastMinuteOfNone DEF Paced, AdmittedWithinAllowance
<1> QED
  BY <1>1, <1>2, <1>3, <1>4 DEF EInv

\* A step that keeps pace, vectors and rows has only the stages to get right.
LEMMA KeptOthers ==
  ASSUME EInv, UNCHANGED <<vectors, rows, spent, admitted>>, pc \notin {"stored"}, pc' # "stored",
         Typed', Staged'
  PROVE  EInv'
<1>1. InLine' /\ Paced'
  BY DEF EInv, InLine, Paced, AdmittedWithinAllowance
<1>2. rows' = <<>> /\ DOMAIN <<>> = {}
  BY DEF EInv, Staged
<1>3. VectorsAligned'
  BY <1>2 DEF VectorsAligned
<1> QED
  BY <1>1, <1>3 DEF EInv

LEMMA ChunkStepKeeps ==
  ASSUME EInv, ChunkStep
  PROVE  EInv'
<1>1. pc = "chunk" /\ UNCHANGED evars
  BY DEF ChunkStep
<1>2. UNCHANGED <<pc, policy, found, batches, vectors, spent, attempt, timer, rows, admitted, billed>>
  BY <1>1 DEF evars
<1>3. Typed'
  BY <1>2 DEF EInv, Typed, Cleared
<1>4. Staged'
  BY <1>1, <1>2 DEF EInv, Staged, Underway
<1> QED
  BY <1>1, <1>2, <1>3, <1>4, KeptOthers

LEMMA BeforeSending ==
  ASSUME EInv, CTypeOK, NothingToEmbed \/ Detect \/ Block_
  PROVE  EInv'
<1>1. CASE NothingToEmbed
  <2>1. /\ pc = "chunk" /\ pc' = "store" /\ chunks = <<>> /\ chunks' = chunks
        /\ UNCHANGED <<policy, found, batches, vectors, spent, attempt, timer, rows, admitted, billed>>
    BY <1>1 DEF NothingToEmbed, cvars
  <2>2. Typed'
    BY <2>1 DEF EInv, Typed, Cleared, PCs
  <2>3. vectors = <<>> /\ rows = <<>>
    BY <2>1 DEF EInv, Staged
  <2>4. Staged'
    BY <2>1, <2>3 DEF Staged, Underway
  <2> QED
    BY <2>1, <2>2, <2>4, KeptOthers
<1>2. CASE Detect
  <2>1. /\ pc = "chunk" /\ pc' = "screen" /\ chunks # <<>> /\ chunks' = chunks
        /\ found' \in [DOMAIN chunks -> FoundSets]
        /\ UNCHANGED <<policy, batches, vectors, spent, attempt, timer, rows, admitted, billed>>
    BY <1>2 DEF Detect, cvars
  <2>2. found' \in Seq(FoundSets)
    <3>1. DOMAIN chunks = 1..Len(chunks) /\ Len(chunks) \in Nat
      BY DEF CTypeOK
    <3> QED
      BY <2>1, <3>1
  <2>3. Typed'
    BY <2>1, <2>2 DEF EInv, Typed, Cleared, PCs
  <2>4. vectors = <<>> /\ rows = <<>>
    BY <2>1 DEF EInv, Staged
  <2>5. Staged'
    BY <2>1, <2>4 DEF Staged, Underway
  <2> QED
    BY <2>1, <2>3, <2>5, KeptOthers
<1>3. CASE Block_
  <2>1. /\ pc = "screen" /\ pc' = "failed"
        /\ UNCHANGED <<policy, found, batches, vectors, spent, attempt, timer, rows, admitted, billed>>
    BY <1>3 DEF Block_
  <2>2. Typed'
    BY <2>1 DEF EInv, Typed, Cleared, PCs
  <2>3. rows = <<>>
    BY <2>1 DEF EInv, Staged
  <2>4. Staged'
    BY <2>1, <2>3 DEF Staged, Underway
  <2> QED
    BY <2>1, <2>2, <2>4, KeptOthers
<1> QED
  BY <1>1, <1>2, <1>3

\* What screen hands back of a chunk may be sent.
LEMMA ScreenedCleared ==
  ASSUME Typed, CTypeOK, found \in [DOMAIN chunks -> FoundSets], ~(policy = "block" /\ Sensitive),
         NEW i \in DOMAIN chunks
  PROVE  Screened(i) \in Cleared /\ Screened(i).chunk = i
<1>1. chunks[i].text.size \in Nat /\ i \in Nat \ {0}
  <2>1. chunks[i] \in Chunk /\ i \in Nat \ {0}
    BY DEF CTypeOK
  <2> QED
    BY <2>1 DEF Chunk, Text
<1>2. found[i] \in SUBSET Findings /\ IsFiniteSet(found[i])
  BY PacingAssumption
<1>3. MaskedSize \in Nat
  BY PacingAssumption
<1>4. policy \in {"allow", "block", "redact"}
  BY PacingAssumption DEF Typed
<1>5. CASE policy = "redact" /\ found[i] # {}
  <2>1. Legible(found[i]) = {}
    BY <1>2, NothingLegible
  <2>2. Screened(i) = [chunk |-> i, legible |-> {}, size |-> MaskedSize]
    BY <1>5, <2>1 DEF Screened, Redacted
  <2>3. Screened(i) \in Sendable
    BY <1>1, <1>3, <2>2 DEF Sendable
  <2> QED
    BY <2>2, <2>3 DEF Cleared
<1>6. CASE ~(policy = "redact" /\ found[i] # {})
  <2>1. Screened(i) = [chunk |-> i, legible |-> found[i], size |-> chunks[i].text.size]
    BY <1>6 DEF Screened, Original
  <2>2. Screened(i) \in Sendable
    BY <1>1, <1>2, <2>1 DEF Sendable
  <2>3. policy = "block" => found[i] = {}
    BY DEF Sensitive
  <2> QED
    BY <1>4, <1>6, <2>1, <2>2, <2>3 DEF Cleared
<1> QED
  BY <1>5, <1>6

LEMMA ScreenKeeps ==
  ASSUME EInv, CTypeOK, Screen
  PROVE  EInv'
<1> DEFINE texts == [i \in DOMAIN chunks |-> Screened(i)]
<1>1. /\ pc = "screen" /\ pc' = "acquire" /\ batches' = Batches(texts)
      /\ chunks' = chunks /\ ~(policy = "block" /\ Sensitive)
      /\ UNCHANGED <<policy, found, vectors, spent, attempt, timer, rows, admitted, billed>>
  BY DEF Screen, cvars
<1>2. /\ found \in [DOMAIN chunks -> FoundSets] /\ chunks # <<>>
      /\ vectors = <<>> /\ rows = <<>> /\ Len(<<>>) = 0
  BY <1>1 DEF EInv, Staged
<1>3. DOMAIN chunks = 1..Len(chunks) /\ Len(chunks) \in Nat /\ Len(chunks) > 0
  BY <1>2 DEF CTypeOK
<1>4. \A i \in DOMAIN chunks : Screened(i) \in Cleared /\ Screened(i).chunk = i
  BY <1>1, <1>2, ScreenedCleared DEF EInv
<1>5. /\ texts \in Seq(Cleared) /\ Len(texts) = Len(chunks)
      /\ \A i \in DOMAIN texts : texts[i].chunk = i
  BY <1>3, <1>4
<1> HIDE DEF texts
<1>6. texts # <<>>
  BY <1>3, <1>5
<1>7. /\ batches' \in Seq(Seq(Cleared)) /\ Covers(batches', 1, Len(texts)) /\ batches' # <<>>
  BY <1>1, <1>5, <1>6, ClearedSendable, BatchesCover
<1>8. Typed'
  BY <1>1, <1>7 DEF EInv, Typed, Cleared, PCs
<1>9. Staged'
  <2>1. Covers(batches', Len(vectors') + 1, Len(chunks'))
    BY <1>1, <1>2, <1>5, <1>7
  <2> QED
    BY <1>1, <1>2, <1>7, <2>1 DEF Staged, Underway
<1> QED
  BY <1>1, <1>8, <1>9, KeptOthers

\* The budget.
LEMMA AcquireKeeps ==
  ASSUME EInv, Acquire
  PROVE  EInv'
<1> DEFINE recent == LastMinute(spent)
           needed == TokensOf(Head(batches))
           entry  == [age |-> 0, tokens |-> needed]
           go     == Sum(recent) + needed <= Allowance \/ recent = <<>>
<1>1. /\ pc = "acquire" /\ chunks' = chunks
      /\ UNCHANGED <<policy, found, batches, vectors, rows, billed>>
  BY DEF Acquire, cvars
<1>2. /\ go => /\ spent' = Append(recent, entry) /\ admitted' = Append(admitted, entry)
               /\ attempt' = 1 /\ pc' = "post" /\ timer' = timer
      /\ ~go => /\ spent' = recent /\ timer' = Window - Head(recent).age + 1
                /\ pc' = "sleep" /\ attempt' = attempt /\ admitted' = admitted
  BY DEF Acquire, Recent
<1>3. /\ spent \in Seq(Spending) /\ recent = admitted
      /\ AdmittedWithinAllowance /\ batches # <<>> /\ batches \in Seq(Seq(Sendable))
      /\ rows = <<>>
  BY <1>1, ClearedSendable DEF EInv, Typed, Staged, Paced, Underway
<1>4. recent \in Seq(Spending) /\ LastMinute(recent) = recent
  <2> DEFINE e == [age |-> 0, tokens |-> 0]
  <2>1. e \in Spending
    BY PacingAssumption DEF Spending
  <2>2. recent \in Seq(Spending)
    BY <1>3, <2>1, LastMinuteAppend
  <2>3. LastMinute(recent) = recent
    BY <1>3, MinuteRolls
  <2> QED
    BY <2>2, <2>3
<1>5. Head(batches) \in Seq(Sendable)
  BY <1>3
<1>6. needed \in Nat /\ Window \in Nat /\ Window > 0 /\ Allowance \in Nat
  BY <1>5, TokensOfTyped, PacingAssumption
<1> HIDE DEF needed
<1>7. entry \in Spending /\ entry.age = 0 /\ entry.tokens = needed
  BY <1>6 DEF Spending
<1> HIDE DEF entry, recent
<1>8. LastMinute(Append(recent, entry)) = Append(recent, entry)
  BY <1>4, <1>6, <1>7, LastMinuteAppend
<1>9. Sum(recent) \in Nat /\ Sum(Append(recent, entry)) = Sum(recent) + needed
  BY <1>4, <1>7, SumAppend
<1>10. CASE go
  <2>1. /\ spent' = Append(recent, entry) /\ admitted' = Append(recent, entry)
        /\ attempt' = 1 /\ pc' = "post" /\ timer' = timer
    BY <1>2, <1>3, <1>10
  <2>2. Append(recent, entry) \in Seq(Spending) /\ Len(Append(recent, entry)) = Len(recent) + 1
        /\ Len(recent) \in Nat
    BY <1>4, <1>7
  <2>3. Paced'
    <3>1. admitted' = LastMinute(spent')
      BY <1>8, <2>1
    <3>2. Len(admitted') > 1 => Sum(admitted') <= Allowance
      <4> SUFFICES ASSUME Len(admitted') > 1 PROVE Sum(admitted') <= Allowance
        OBVIOUS
      <4>1. recent # <<>>
        BY <2>1, <2>2
      <4> QED
        BY <1>9, <1>10, <2>1, <4>1
    <3> QED
      BY <3>1, <3>2 DEF Paced, AdmittedWithinAllowance
  <2>4. 1 \in 1..MaxAttempts
    BY PacingAssumption
  <2>5. Typed'
    BY <1>1, <2>1, <2>2, <2>4 DEF EInv, Typed, Cleared, PCs
  <2>6. Staged'
    BY <1>1, <2>1 DEF EInv, Staged, Underway
  <2>7. InLine'
    BY <1>1 DEF EInv, InLine
  <2>8. VectorsAligned'
    BY <1>1, <1>3, <2>1 DEF VectorsAligned
  <2> QED
    BY <2>3, <2>5, <2>6, <2>7, <2>8 DEF EInv
<1>11. CASE ~go
  <2>1. /\ spent' = recent /\ timer' = Window - Head(recent).age + 1
        /\ pc' = "sleep" /\ attempt' = attempt /\ admitted' = admitted
    BY <1>2, <1>11
  <2>2. Head(recent).age \in 0..Window
    <3>1. recent # <<>>
      BY <1>11
    <3>2. Head(recent) \in Spending
      BY <1>4, <3>1
    <3> QED
      BY <3>2 DEF Spending
  <2>3. timer' \in 0..(Window + 1)
    BY <1>6, <2>1, <2>2
  <2>4. Paced'
    BY <1>3, <1>4, <2>1 DEF Paced, AdmittedWithinAllowance
  <2>5. Typed'
    BY <1>1, <1>4, <2>1, <2>3 DEF EInv, Typed, Cleared, PCs
  <2>6. Staged'
    BY <1>1, <2>1 DEF EInv, Staged, Underway
  <2>7. InLine'
    BY <1>1 DEF EInv, InLine
  <2>8. VectorsAligned'
    BY <1>1, <1>3, <2>1 DEF VectorsAligned
  <2> QED
    BY <2>4, <2>5, <2>6, <2>7, <2>8 DEF EInv
<1> QED
  BY <1>10, <1>11

LEMMA TickKeeps ==
  ASSUME EInv, Tick
  PROVE  EInv'
<1>1. /\ pc \in Underway /\ chunks' = chunks
      /\ UNCHANGED <<pc, policy, found, batches, vectors, attempt, rows>>
      /\ timer' = Larger(0, timer - 1) /\ spent' = Older(spent)
      /\ admitted' = LastMinute(Older(admitted)) /\ billed' = LastMinute(Older(billed))
  BY DEF Tick, cvars, Underway
<1>2. /\ spent \in Seq(Spending) /\ admitted \in Seq(Spending) /\ billed \in Seq(Spending)
      /\ admitted = LastMinute(spent) /\ timer \in 0..(Window + 1) /\ rows = <<>>
      /\ AdmittedWithinAllowance
  BY <1>1 DEF EInv, Typed, Paced, Staged, Underway
<1>3. ASSUME NEW s \in Seq(Spending)
      PROVE  Older(s) \in Seq(Spending) /\ LastMinute(Older(s)) \in Seq(Spending)
  <2> DEFINE e == [age |-> 0, tokens |-> 0]
  <2>1. e \in Spending
    BY PacingAssumption DEF Spending
  <2>2. Older(s) \in Seq(Spending)
    BY <2>1, OlderAppend
  <2> QED
    BY <2>1, <2>2, LastMinuteAppend
<1>4. timer' \in 0..(Window + 1)
  <2>1. Window \in Nat
    BY PacingAssumption
  <2> QED
    BY <1>1, <1>2, <2>1 DEF Larger
<1>5. Typed'
  BY <1>1, <1>2, <1>3, <1>4 DEF EInv, Typed, Cleared
<1>6. Staged'
  BY <1>1 DEF EInv, Staged, Underway
<1>7. Paced'
  <2>1. admitted' = LastMinute(spent')
    BY <1>1, <1>2, MinuteRolls
  <2>2. Sum(admitted') <= Sum(admitted) /\ Len(admitted') <= Len(admitted)
    BY <1>1, <1>2, MinuteRolls
  <2>3. /\ Sum(admitted') \in Nat /\ Sum(admitted) \in Nat
        /\ Len(admitted') \in Nat /\ Len(admitted) \in Nat /\ Allowance \in Nat
    <3> DEFINE e == [age |-> 0, tokens |-> 0]
    <3>1. e \in Spending /\ Allowance \in Nat
      BY PacingAssumption DEF Spending
    <3>2. admitted' \in Seq(Spending)
      BY <1>1, <1>2, <1>3
    <3> HIDE DEF e
    <3> QED
      BY <1>2, <3>1, <3>2, SumAppend
  <2>4. AdmittedWithinAllowance'
    BY <1>2, <2>2, <2>3 DEF AdmittedWithinAllowance
  <2> QED
    BY <2>1, <2>4 DEF Paced
<1>8. InLine'
  BY <1>1 DEF EInv, InLine
<1>9. VectorsAligned'
  BY <1>1, <1>2 DEF VectorsAligned, Underway
<1> QED
  BY <1>5, <1>6, <1>7, <1>8, <1>9 DEF EInv

\* The entries of a batch that is billed.
LEMMA BillTyped ==
  ASSUME EInv, pc = "post", Bill
  PROVE  billed' \in Seq(Spending)
<1>1. batches # <<>> /\ batches \in Seq(Seq(Sendable)) /\ billed \in Seq(Spending)
  BY ClearedSendable DEF EInv, Typed, Staged, Underway
<1>2. Head(batches) \in Seq(Sendable)
  BY <1>1
<1> DEFINE needed == TokensOf(Head(batches))
           entry  == [age |-> 0, tokens |-> needed]
<1>3. needed \in Nat
  BY <1>2, TokensOfTyped
<1> HIDE DEF needed
<1>4. entry \in Spending
  BY <1>3, PacingAssumption DEF Spending
<1>5. billed' = Append(billed, entry)
  BY DEF Bill, needed
<1> HIDE DEF entry
<1> QED
  BY <1>1, <1>4, <1>5

LEMMA WaitingKeeps ==
  ASSUME EInv, WakeUp \/ RateLimited \/ Refused
  PROVE  EInv'
<1>1. CASE WakeUp
  <2>1. /\ pc \in Underway /\ pc' \in Underway /\ chunks' = chunks
        /\ UNCHANGED <<policy, found, batches, vectors, spent, attempt, timer, rows, admitted, billed>>
    BY <1>1 DEF WakeUp, cvars, Underway
  <2>2. Typed'
    BY <2>1 DEF EInv, Typed, Cleared, PCs, Underway
  <2>3. Staged'
    BY <2>1 DEF EInv, Staged, Underway
  <2>4. pc # "stored" /\ pc' # "stored"
    BY <2>1 DEF Underway
  <2> QED
    BY <2>1, <2>2, <2>3, <2>4, KeptOthers
<1>2. CASE RateLimited
  <2>1. /\ pc = "post" /\ pc' = "backoff" /\ chunks' = chunks
        /\ timer' \in 0..Window /\ attempt < MaxAttempts /\ attempt' = attempt + 1
        /\ UNCHANGED <<policy, found, batches, vectors, spent, rows, admitted, billed>>
    BY <1>2 DEF RateLimited, cvars
  <2>2. attempt' \in 1..MaxAttempts /\ timer' \in 0..(Window + 1)
    <3>1. MaxAttempts \in Nat /\ Window \in Nat
      BY PacingAssumption
    <3>2. attempt \in 1..MaxAttempts
      BY DEF EInv, Typed
    <3> QED
      BY ONLY <2>1, <3>1, <3>2
  <2>3. Typed'
    BY <2>1, <2>2 DEF EInv, Typed, Cleared, PCs
  <2>4. Staged'
    BY <2>1 DEF EInv, Staged, Underway
  <2> QED
    BY <2>1, <2>3, <2>4, KeptOthers
<1>3. CASE Refused
  <2>1. /\ pc = "post" /\ pc' = "failed" /\ chunks' = chunks
        /\ billed' = billed \/ Bill
        /\ UNCHANGED <<policy, found, batches, vectors, spent, attempt, timer, rows, admitted>>
    BY <1>3 DEF Refused, cvars
  <2>2. billed' \in Seq(Spending)
    BY <2>1, BillTyped DEF EInv, Typed
  <2>3. Typed'
    BY <2>1, <2>2 DEF EInv, Typed, Cleared, PCs
  <2>4. Staged'
    BY <2>1 DEF EInv, Staged, Underway
  <2> QED
    BY <2>1, <2>3, <2>4, KeptOthers
<1> QED
  BY <1>1, <1>2, <1>3

LEMMA AnsweredKeeps ==
  ASSUME EInv, CTypeOK, Answered
  PROVE  EInv'
<1> DEFINE batch == Head(batches)
           n == Len(vectors)
<1>1. /\ pc = "post" /\ chunks' = chunks /\ Bill /\ batches' = Tail(batches)
      /\ pc' = IF batches' = <<>> THEN "store" ELSE "acquire"
      /\ UNCHANGED <<policy, found, spent, attempt, timer, rows, admitted>>
  BY DEF Answered, cvars
<1>2. PICK order \in Bijection(DOMAIN batch, DOMAIN batch) :
        vectors' = Embedded([k \in DOMAIN batch |->
                               [index |-> order[k] - 1, embedding |-> batch[order[k]]]])
  BY DEF Answered
<1>3. /\ batches # <<>> /\ batches \in Seq(Seq(Sendable)) /\ batches \in Seq(Seq(Cleared))
      /\ vectors \in Seq(Sendable) /\ n \in Nat /\ Len(chunks) \in Nat
      /\ Covers(batches, n + 1, Len(chunks)) /\ rows = <<>>
  <2>1. pc \in Underway /\ pc # "stored"
    BY <1>1 DEF Underway
  <2>2. /\ batches # <<>> /\ rows = <<>>
        /\ Covers(batches, n + 1, Len(chunks))
    BY <2>1 DEF EInv, Staged
  <2>3. batches \in Seq(Seq(Cleared)) /\ vectors \in Seq(Sendable) /\ n \in Nat
    BY DEF EInv, Typed
  <2>4. batches \in Seq(Seq(Sendable))
    BY <2>3, ClearedSendable
  <2>5. Len(chunks) \in Nat
    BY DEF CTypeOK
  <2> QED
    BY <2>2, <2>3, <2>4, <2>5
<1>4. /\ batch \in Seq(Sendable)
      /\ \A k \in 1..Len(batch) : batch[k].chunk = (n + 1) + k - 1
      /\ Covers(Tail(batches), (n + 1) + Len(batch), Len(chunks))
  <2>1. n + 1 \in Nat
    BY <1>3
  <2> HIDE DEF n
  <2> QED
    BY <1>3, <2>1, TailCovers
<1>5. vectors' = vectors \o batch
  BY <1>2, <1>4, InInputOrder
<1> HIDE DEF batch
<1>6. Len(batch) \in Nat /\ vectors' \in Seq(Sendable) /\ Len(vectors') = n + Len(batch)
  BY <1>3, <1>4, <1>5
<1>7. InLine'
  <2> SUFFICES ASSUME NEW i \in 1..Len(vectors') PROVE vectors'[i].chunk = i
    BY DEF InLine
  <2>1. CASE i \in 1..n
    <3>1. vectors'[i] = vectors[i]
      BY <1>3, <1>4, <1>5, <2>1
    <3> QED
      BY <2>1, <3>1 DEF EInv, InLine
  <2>2. CASE i \notin 1..n
    <3>1. i - n \in 1..Len(batch) /\ vectors'[i] = batch[i - n]
      BY <1>3, <1>4, <1>5, <1>6, <2>2
    <3>2. (n + 1) + (i - n) - 1 = i
      BY <1>3, <1>6
    <3> QED
      BY <1>4, <3>1, <3>2
  <2> QED
    BY <2>1, <2>2
<1>8. Covers(batches', Len(vectors') + 1, Len(chunks))
  <2>1. (n + 1) + Len(batch) = Len(vectors') + 1
    BY <1>3, <1>6
  <2> QED
    BY <1>1, <1>4, <2>1
<1>9. batches' = <<>> => Len(vectors') = Len(chunks)
  <2> SUFFICES ASSUME batches' = <<>> PROVE Len(vectors') = Len(chunks)
    OBVIOUS
  <2>1. Len(chunks) = (Len(vectors') + 1) - 1
    BY <1>8 DEF Covers
  <2> QED
    BY <1>3, <1>6, <2>1
<1>10. Staged'
  <2>1. CASE batches' = <<>>
    BY <1>1, <1>3, <1>9, <2>1 DEF Staged, Underway
  <2>2. CASE batches' # <<>>
    BY <1>1, <1>3, <1>8, <2>2 DEF Staged, Underway
  <2> QED
    BY <2>1, <2>2
<1>11. Typed'
  <2>1. batches' \in Seq(Seq(Cleared))
    BY <1>1, <1>3
  <2>2. billed' \in Seq(Spending)
    BY <1>1, BillTyped
  <2> QED
    BY <1>1, <1>6, <2>1, <2>2 DEF EInv, Typed, Cleared, PCs
<1>12. Paced'
  BY <1>1 DEF EInv, Paced, AdmittedWithinAllowance
<1>13. VectorsAligned'
  <2>1. rows' = <<>> /\ DOMAIN <<>> = {} /\ pc' # "stored"
    BY <1>1, <1>3
  <2> QED
    BY <2>1 DEF VectorsAligned
<1> QED
  BY <1>7, <1>10, <1>11, <1>12, <1>13 DEF EInv

LEMMA StoreKeeps ==
  ASSUME EInv, CTypeOK, Numbered, Store
  PROVE  EInv'
<1>1. /\ pc = "store" /\ chunks' = chunks
      /\ UNCHANGED <<policy, found, batches, vectors, spent, attempt, timer, admitted, billed>>
  BY DEF Store, cvars
<1>2. Len(vectors) = Len(chunks) /\ vectors \in Seq(Sendable) /\ chunks \in Seq(Chunk)
  BY <1>1 DEF EInv, Typed, Staged, CTypeOK
<1> DEFINE n == Len(chunks)
<1>3. /\ n \in Nat /\ DOMAIN chunks = 1..n
      /\ \A i \in 1..n : /\ vectors[i] \in Sendable /\ vectors[i].chunk = i
                         /\ chunks[i].ordinal = i - 1 /\ i - 1 \in Nat
  BY <1>2 DEF EInv, InLine, Numbered
<1>4. /\ pc' = "stored"
      /\ rows' = [i \in 1..n |-> [ordinal |-> chunks[i].ordinal, vector |-> vectors[i]]]
  BY <1>2, <1>3 DEF Store
<1> HIDE DEF n
<1>5. /\ rows' \in Seq([ordinal : Nat, vector : Sendable])
      /\ Len(rows') = n /\ DOMAIN rows' = 1..n
  <2> DEFINE R == [ordinal : Nat, vector : Sendable]
  <2>1. \A i \in 1..n : [ordinal |-> chunks[i].ordinal, vector |-> vectors[i]] \in R
    BY <1>3
  <2> HIDE DEF R
  <2>2. rows' \in Seq(R) /\ Len(rows') = n /\ DOMAIN rows' = 1..n
    BY <1>3, <1>4, <2>1
  <2> QED
    BY <2>2 DEF R
<1>6. VectorsAligned'
  <2>1. \A i \in 1..n : rows'[i].vector.chunk = i /\ rows'[i].ordinal = i - 1
    BY <1>3, <1>4
  <2> QED
    BY <1>1, <1>5, <2>1 DEF VectorsAligned, n
<1>7. Typed'
  BY <1>1, <1>4, <1>5 DEF EInv, Typed, Cleared, PCs
<1>8. Staged'
  BY <1>1, <1>4 DEF Staged, Underway
<1>9. InLine' /\ Paced'
  BY <1>1 DEF EInv, InLine, Paced, AdmittedWithinAllowance
<1> QED
  BY <1>6, <1>7, <1>8, <1>9 DEF EInv

LEMMA StutterKeeps ==
  ASSUME EInv, UNCHANGED vars
  PROVE  EInv'
<1>1. /\ chunks' = chunks
      /\ UNCHANGED <<pc, policy, found, batches, vectors, spent, attempt, timer, rows, admitted, billed>>
  BY DEF vars, cvars, evars
<1>2. Typed' /\ Staged'
  BY <1>1 DEF EInv, Typed, Cleared, Staged
<1>3. InLine' /\ Paced' /\ VectorsAligned'
  BY <1>1 DEF EInv, InLine, Paced, AdmittedWithinAllowance, VectorsAligned
<1> QED
  BY <1>2, <1>3 DEF EInv

LEMMA EInvHolds == Spec => [](EInv /\ CTypeOK)
<1>1. IInv /\ Numbered /\ EInv /\ [Next]_vars => EInv'
  <2> SUFFICES ASSUME IInv, Numbered, EInv, [Next]_vars PROVE EInv'
    OBVIOUS
  <2>0. CTypeOK
    BY DEF IInv
  <2>1. CASE ChunkStep
    BY <2>1, ChunkStepKeeps
  <2>2. CASE NothingToEmbed \/ Detect \/ Block_
    BY <2>0, <2>2, BeforeSending
  <2>3. CASE Screen
    BY <2>0, <2>3, ScreenKeeps
  <2>4. CASE Acquire
    BY <2>4, AcquireKeeps
  <2>5. CASE WakeUp \/ RateLimited \/ Refused
    BY <2>5, WaitingKeeps
  <2>6. CASE Answered
    BY <2>0, <2>6, AnsweredKeeps
  <2>7. CASE Store
    BY <2>0, <2>7, StoreKeeps
  <2>8. CASE Tick
    BY <2>8, TickKeeps
  <2>9. CASE Ended \/ UNCHANGED vars
    BY <2>9, StutterKeeps DEF Ended
  <2> QED
    BY <2>1, <2>2, <2>3, <2>4, <2>5, <2>6, <2>7, <2>8, <2>9 DEF Next, Process
<1>2. IInv => CTypeOK
  BY DEF IInv
<1> QED
  BY <1>1, <1>2, PipelineChunks, IInvHolds, NumberedHolds, EInvInit, PTL DEF Spec

\* Type correctness of the whole pipeline.
THEOREM PipelineTyping == Spec => []ETypeOK
<1>1. EInv /\ CTypeOK => ETypeOK
  BY ClearedSendable DEF EInv, Typed, ETypeOK
<1> QED
  BY <1>1, EInvHolds, PTL

\* The stored vectors are those of the stored chunks, one for one, however the
\* chunks were batched and the answers ordered.
THEOREM VectorsStayAligned == Spec => []VectorsAligned
<1>1. EInv => VectorsAligned
  BY DEF EInv
<1> QED
  BY <1>1, EInvHolds, PTL

\* Whatever the patterns find, nothing of it is legible in what is sent, unless
\* the policy is "allow".
THEOREM NothingSensitiveLeaves == Spec => []OnlyClearedLeaves
<1>1. EInv => OnlyClearedLeaves
  <2> SUFFICES ASSUME EInv, NEW i \in DOMAIN batches, NEW k \in DOMAIN batches[i], policy # "allow"
               PROVE  batches[i][k].legible = {}
    BY DEF OnlyClearedLeaves
  <2>1. batches[i] \in Seq(Cleared)
    BY DEF EInv, Typed
  <2>2. batches[i][k] \in Cleared
    BY <2>1
  <2> QED
    BY <2>2 DEF Cleared
<1> QED
  BY <1>1, EInvHolds, PTL

\* In no minute, wherever it starts, does the budget let more through than the
\* allowance, unless one batch alone is more.
THEOREM BudgetIsRolling == Spec => []AdmittedWithinAllowance
<1>1. EInv => AdmittedWithinAllowance
  BY DEF EInv, Paced
<1> QED
  BY <1>1, EInvHolds, PTL
=============================================================================
