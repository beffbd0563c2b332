------------------------------ MODULE Chunking ------------------------------
(***************************************************************************)
(* chunk_blocks of go2/rag/chunking.py: the blocks of a document become    *)
(* chunks of at most MaxChars characters, none of which spans two          *)
(* locations, and each of which repeats the end of the one before it.      *)
(*                                                                         *)
(* Text is its length.  What the code decides by the letters (where a      *)
(* block is cut, where a tail starts) is a choice.                         *)
(***************************************************************************)
EXTENDS Integers, Sequences, SequencesExt

CONSTANTS
  Locations,   \* what _location returns: page, slide and heading
  MaxChars,    \* max_chars
  Overlap,     \* overlap_chars
  Join,        \* the length of _JOIN
  Documents,   \* the block sequences chunk_blocks is called with
  MaxPieces    \* bound: pieces an oversized block is cut into

\* A block: where it stands, and its length once it is stripped.  No extractor
\* emits an empty one.
Block == [at : Locations, size : Nat \ {0}]

\* chunk_blocks raises ValueError otherwise.
ASSUME SizesAssumption ==
  /\ MaxChars \in Nat \ {0} /\ Overlap \in 0..(MaxChars - 1)
  /\ Join \in Nat
ASSUME DocumentsAssumption == Documents \subseteq Seq(Block) /\ MaxPieces \in Nat

VARIABLES
  blocks,   \* the argument: a location and a size each
  taken,    \* how many blocks the loop has split
  cut,      \* the pieces they were cut into, in order
  placed,   \* how many of those are in a chunk or in the buffer
  buffer,   \* the text of the chunk being filled
  chunks,   \* the chunks appended so far
  finished  \* chunk_blocks has returned

cvars == <<blocks, taken, cut, placed, buffer, chunks, finished>>

Piece == [block : Nat \ {0}, size : 1..MaxChars]

\* A buffer, or a chunk's text: the carried tail, then its own pieces.
Text  == [carried : 0..Overlap, own : Seq(Piece), size : Nat]
Chunk == [at : Locations, text : Text, ordinal : Nat]

Empty == [carried |-> 0, own |-> <<>>, size |-> 0]

Smaller(m, n) == IF m <= n THEN m ELSE n

\* _split_oversized: what is dropped at a boundary makes the pieces shorter.
Cuts(size) ==
  IF size <= MaxChars THEN {<<size>>}
  ELSE {sizes \in UNION {[1..n -> 1..MaxChars] : n \in 1..MaxPieces} :
          FoldLeft(+, 0, sizes) <= size}

\* _overlap_tail: the last Overlap characters, from a word boundary on.
Tails(text) == IF text.size <= Overlap THEN {0} ELSE 0..Overlap

\* A slip: the tail is carried whole.
Untrimmed(tail, piece) == tail

\* The tail is trimmed to the room the next piece leaves.
Fitted(tail, piece) ==
  LET room == MaxChars - piece.size - Join
  IN  IF room <= 0 THEN 0 ELSE Smaller(tail, room)

\* Where the block that is being placed stands, which is its group's place.
Here == blocks[taken].at

\* The buffer becomes the next chunk.
Emit == Append(chunks, [at |-> Here, text |-> buffer, ordinal |-> Len(chunks)])

ChunkInit ==
  /\ blocks \in Documents
  /\ taken = 0 /\ cut = <<>> /\ placed = 0
  /\ buffer = Empty /\ chunks = <<>> /\ finished = FALSE

AllPlaced == placed = Len(cut)

\* A slip: blocks are grouped by document alone.
NeverOpens == FALSE

\* _group_by_location: the next block opens a group of its own.
OpensGroup == taken > 0 /\ blocks[taken + 1].at # Here

\* The next block of the group, split.
TakeBlock ==
  /\ ~finished /\ AllPlaced /\ taken < Len(blocks)
  /\ \E sizes \in Cuts(blocks[taken + 1].size) :
       cut' = cut \o [k \in 1..Len(sizes) |-> [block |-> taken + 1, size |-> sizes[k]]]
  /\ taken' = taken + 1
  /\ IF OpensGroup
       THEN chunks' = Emit /\ buffer' = Empty
       ELSE UNCHANGED <<chunks, buffer>>
  /\ UNCHANGED <<blocks, placed, finished>>

\* candidate: the buffer with the piece joined to it.
Grown(piece) == buffer.size + Join + piece.size

\* The piece is the first of its group, or still fits.
Extend(piece) ==
  /\ buffer' = IF buffer = Empty
                 THEN [carried |-> 0, own |-> <<piece>>, size |-> piece.size]
                 ELSE [buffer EXCEPT !.own = Append(@, piece), !.size = Grown(piece)]
  /\ UNCHANGED chunks

\* The text that starts with so much of the chunk before it.
StartWith(carried, piece) ==
  [carried |-> carried, own |-> <<piece>>,
   size |-> piece.size + IF carried = 0 THEN 0 ELSE carried + Join]

\* A slip: the piece that did not fit is dropped with the tail.
OverflowAlone(piece) == chunks' = Emit /\ buffer' = Empty

\* The piece does not fit: the buffer is a chunk, its tail starts the next.
Overflow(piece) ==
  /\ chunks' = Emit
  /\ \E tail \in Tails(buffer) : buffer' = StartWith(Fitted(tail, piece), piece)

PlacePiece ==
  /\ ~finished /\ ~AllPlaced
  /\ LET piece == cut[placed + 1]
     IN  IF Grown(piece) > MaxChars /\ buffer # Empty THEN Overflow(piece) ELSE Extend(piece)
  /\ placed' = placed + 1
  /\ UNCHANGED <<blocks, taken, cut, finished>>

\* The last group is over: what is in the buffer is the last chunk.
FinishChunks ==
  /\ ~finished /\ AllPlaced /\ taken = Len(blocks)
  /\ chunks' = IF buffer = Empty THEN chunks ELSE Emit
  /\ buffer' = Empty
  /\ finished' = TRUE
  /\ UNCHANGED <<blocks, taken, cut, placed>>

ChunkNext == TakeBlock \/ PlacePiece \/ FinishChunks

ChunkSpec == ChunkInit /\ [][ChunkNext]_cvars

-----------------------------------------------------------------------------
CTypeOK ==
  /\ blocks \in Documents
  /\ taken \in 0..Len(blocks)
  /\ cut \in Seq(Piece) /\ placed \in 0..Len(cut)
  /\ buffer \in Text /\ chunks \in Seq(Chunk) /\ finished \in BOOLEAN

\* "Hard upper bound on chunk length, overlap included": the tail that is
\* repeated never pushes a chunk over max_chars.
HardBound ==
  /\ buffer.size <= MaxChars
  /\ \A i \in DOMAIN chunks : chunks[i].text.size <= MaxChars

\* Blocks of different locations are never merged: every piece of a chunk
\* stands where the chunk's citation points, and so does the text it repeats.
CitedWhereItStands ==
  \A i \in DOMAIN chunks :
    /\ \A k \in DOMAIN chunks[i].text.own :
         blocks[chunks[i].text.own[k].block].at = chunks[i].at
    /\ chunks[i].text.carried > 0 => i > 1 /\ chunks[i - 1].at = chunks[i].at

\* The chunks and the buffer hold every piece placed so far once, in document
\* order, and when chunk_blocks returns that is the whole document.
NothingLost ==
  /\ FlattenSeq([i \in DOMAIN chunks |-> chunks[i].text.own]) \o buffer.own
       = SubSeq(cut, 1, placed)
  /\ finished => AllPlaced /\ taken = Len(blocks) /\ buffer = Empty
=============================================================================
