------------------------------ MODULE MCStack ------------------------------
(* Instances of Stack for TLC. *)
EXTENDS Stack

\* The released files, the next release, and a branch that was cut before it
\* and has a file of its own.
MCCheckouts == {{1, 3}, {1, 2, 3}, {1, 4}}
=============================================================================
