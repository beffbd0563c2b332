-------------------------- MODULE MCEmbedPipeline --------------------------
(* Instances of EmbedPipeline for TLC. *)
EXTENDS EmbedPipeline

CONSTANTS p1, p2

A(n) == [at |-> p1, size |-> n]
B(n) == [at |-> p2, size |-> n]

\* No block, blocks that fit together, that overflow, that change place and
\* come back to it, that are cut, and four full batches.
MCDocuments ==
  {<<>>, <<A(1), A(2), B(2)>>, <<A(3), A(3), A(4)>>, <<A(4), A(4), A(4), A(4)>>,
   <<A(2), B(5), A(2)>>, <<A(5), A(2)>>}

\* Three full chunks: three batches of half the allowance.
ThreeBatches == {<<A(4), A(4), A(4)>>}

At(start, end, severity) == [start |-> start, end |-> end, severity |-> severity]

\* Nothing; findings each of which overlaps the next, the second the more
\* severe; and a long one that begins with a more severe one.
MCFoundSets ==
  {{}, {At(1, 4, 2), At(3, 7, 0), At(6, 9, 1)}, {At(1, 3, 0), At(1, 9, 2), At(4, 6, 1)}}

\* Nothing found, ever.
NoFindings == {{}}
=============================================================================
