-------------------------------- MODULE Pii --------------------------------
(***************************************************************************)
(* What go2/security/pii.py makes of the raw findings of its patterns in   *)
(* one text: the overlaps that detect resolves, and the text that redact   *)
(* puts together around the findings that are kept.                        *)
(*                                                                         *)
(* Which value is sensitive is a matter of regular expressions and check   *)
(* sums; here a finding is where it begins and ends, and the place of its  *)
(* kind in PiiKind, 0 being the most severe.                               *)
(***************************************************************************)
EXTENDS Integers, Sequences, SequencesExt

Findings == {f \in [start : Nat, end : Nat, severity : Nat] : f.start < f.end}

Before(f, g) ==
  \/ f.start < g.start
  \/ f.start = g.start /\ f.severity < g.severity
  \/ f.start = g.start /\ f.severity = g.severity /\ f.end < g.end

\* found.sort(key=lambda f: (f.start, severity[f.kind]))
Sorted(found) ==
  [n \in 1..Cardinality(found) |->
     CHOOSE f \in found : Cardinality({g \in found : Before(g, f)}) = n - 1]

\* A slip: a finding is compared with the one before it, kept or not.
KeptAfterLast(found) ==
  LET all  == Sorted(found)
      keep == {i \in DOMAIN all : i = 1 \/ all[i].start >= all[i - 1].end}
  IN  [n \in 1..Cardinality(keep) |->
         all[CHOOSE i \in keep : Cardinality({j \in keep : j <= i}) = n]]

\* What detect returns: a finding that begins inside the one kept before it is
\* dropped.
Kept(found) ==
  LET all == Sorted(found)
      kept[n \in 0..Len(all)] ==
        IF n = 0 THEN <<>>
        ELSE LET before == kept[n - 1]
             IN  IF before # <<>> /\ all[n].start < Last(before).end
                 THEN before ELSE Append(before, all[n])
  IN  kept[Len(all)]

\* redact: what stands between the findings stays, up to `size`.
Segments(kept, size) ==
  [i \in 1..(Len(kept) + 1) |->
     [from |-> IF i = 1 THEN 0 ELSE kept[i - 1].end,
      to   |-> IF i > Len(kept) THEN size ELSE kept[i].start]]

\* The findings that stand in a text in full once it is redacted.
Legible(found) ==
  LET kept     == Kept(found)
      size     == Max({f.end : f \in found} \cup {0})
      segments == Segments(kept, size)
  IN  {f \in found : \E i \in DOMAIN segments :
         segments[i].from <= f.start /\ f.end <= segments[i].to}
=============================================================================
