------------------------------ MODULE MCBasira ------------------------------
(* Instances of Basira for TLC. *)
EXTENDS Basira, TLC

CONSTANTS main, branch, x, y

Blank == [status |-> "backlog", blocked_by |-> {}, branch |-> None, pr |-> None, closed |-> "none",
          plan |-> TRUE, outcome |-> FALSE]

\* Held by an agent; waiting for the ticket before it; in review, without and
\* with its outcome written; given up.
MCDrafts == {
  [Blank EXCEPT !.status = "in-progress", !.branch = "b1"],
  [Blank EXCEPT !.blocked_by = {0}],
  [Blank EXCEPT !.status = "in-review", !.pr = "p2"],
  [Blank EXCEPT !.status = "in-review", !.pr = "p1", !.outcome = TRUE],
  [Blank EXCEPT !.status = "dropped", !.closed = "since", !.outcome = TRUE]}

\* One planned ticket, or two: in another checkout the second is another one.
First == [id |-> 0, slug |-> x, late |-> {}] @@ Blank
Second(slug) == [id |-> 1, slug |-> slug, late |-> {}] @@ Blank
MCStarts == {{First}, {First, Second(x)}, {First, Second(y)}}

MCSymmetry == Permutations({main, branch})
=============================================================================
