--------------------------- MODULE IngestHistory ---------------------------
(***************************************************************************)
(* Ingest with a history of the passes that really did the work: a pass of *)
(* a file that did not take the short-circuit adds the row it commits, and *)
(* the chunks it stores, to what that file has earned.  It holds for every *)
(* deployment, several writers of one file included.                       *)
(***************************************************************************)
EXTENDS Ingest

VARIABLE earned  \* earned[d]: the rows that full passes of d committed

hvars == <<vars, earned>>

HInit == Init /\ earned = [d \in Docs |-> {}]

\* Reject and Store end a full pass, the other steps do not.
EndsPass(p) ==
  /\ Reject(p) \/ Store(p)
  /\ earned' = [earned EXCEPT ![tx[p].doc] = @ \cup {row'[tx[p].doc]}]

Continues(p) ==
  /\ \/ Fetch(p) \/ ReadState(p) \/ Refresh(p) \/ BeginWrite(p)
     \/ CacheHit(p) \/ CacheMiss(p) \/ PutCache(p) \/ EmbedFails(p) \/ Restart(p)
  /\ UNCHANGED earned

HNext == \E p \in Procs : EndsPass(p) \/ Continues(p)

HSpec == HInit /\ [][HNext]_hvars

\* With the fairness of Ingest.
HFairSpec == HSpec /\ Fairness

-----------------------------------------------------------------------------

HTypeOK == TypeOK /\ earned \in [Docs -> SUBSET Rows]

\* A settled row is never a guess: the same bytes were once taken through the
\* whole pipeline, for this file and under this model, and ended with this
\* status.  The short-circuit writes a row from a stale read, a restart may
\* change the model between two passes, two processes may overwrite each
\* other: none of them can label a file as done that never was.
SettledIsEarned ==
  \A d \in Docs : row[d].status \in Settled => row[d] \in earned[d]

\* Every stored chunk comes from a full pass of this file that ended
\* "indexed".
ChunksAreEarned ==
  \A d \in Docs : \A k \in chunks[d] : Row(k.content, "indexed", k.model) \in earned[d]

=============================================================================
