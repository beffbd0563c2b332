------------------------------- MODULE Search -------------------------------
(***************************************************************************)
(* search_documents (go2/tools/search.py) over an index that is written    *)
(* meanwhile: the two candidate queries and the fusion of                  *)
(* go2/rag/retrieval.py, the reranking of go2/rag/rerank.py and            *)
(* go2/rag/jina.py, the evidence gate, and what go2/evaluation.py records  *)
(* of the same hits.  Or a fetch_document, by its two statements.          *)
(*                                                                         *)
(* The index is SerialIndex, which Ingest implements.  Each statement of a *)
(* search has its own snapshot, so the index may change between them.      *)
(* What similarity, full-text ranking, the filters and the reranker make   *)
(* of the texts is a choice; what the code does with it is not.            *)
(***************************************************************************)
EXTENDS SerialIndex, Integers, Sequences, FiniteSets, Functions

CONSTANTS
  K,           \* RRF_K
  Candidates,  \* SearchOptions.candidates
  PoolSize,    \* rerank_candidates
  Limit,       \* SearchOptions.limit, of search_documents
  CaseLimit,   \* ... and of an evaluation's own search
  Scores,      \* scores the reranker gives
  Threshold    \* min_evidence_score

\* The settings that config.py allows; search_documents leaves candidates at
\* its default of 50, and RRF_K is 60.
ASSUME RankAssumption ==
  /\ K \in Nat \ {0} /\ Candidates \in Nat \ {0} /\ Candidates <= K + 1
  /\ PoolSize \in Nat \ {0} /\ Limit \in Nat \ {0} /\ CaseLimit \in Nat \ {0}
  /\ Scores \subseteq Int /\ Threshold \in Int

VARIABLES
  pc,      \* which statement of the call comes next
  asks,    \* the searching process's active_embedding_model
  found,   \* the rows of the vector query and of the text query
  ranked,  \* the fused candidates, best first
  answer,  \* what search_documents returns
  fetched  \* what fetch_document has read, and whether the document was
           \* ingested anew between its two statements

svars == <<pc, asks, found, ranked, answer, fetched>>
allvars == <<vars, svars>>

\* A row of _SELECT: a chunk, and the document's columns as it saw them.
HitRows == [doc : Docs, chunk : [content : Contents, model : Models], of : Rows]

\* chunk_id: what makes two rows the same candidate.
Id(r) == <<r.doc, r.chunk>>

Query == {"vector", "text"}

NoAnswer == [passages |-> {}, best |-> Threshold, told |-> "none", passes |-> {}]
NoFetch  == [of |-> NoRow, text |-> {}, renewed |-> FALSE]

\* The call is a search or a fetch.
SInit ==
  /\ Init
  /\ pc \in {"vector", "meta"} /\ asks \in Models
  /\ found = [q \in Query |-> <<>>] /\ ranked = <<>>
  /\ answer = NoAnswer /\ fetched = NoFetch

\* A slip: the chunks of every model are candidates.
SearchableByAll(m) ==
  UNION {{[doc |-> d, chunk |-> k, of |-> row[d]] : k \in chunks[d]} : d \in Docs}

\* _where: the chunks of the documents whose row names the model.
Searchable(m) ==
  UNION {{[doc |-> d, chunk |-> k, of |-> row[d]] : k \in chunks[d]} :
           d \in {e \in Docs : row[e] # NoRow /\ row[e].model = m}}

\* One query: some of them (the filters narrow, the approximate index may
\* miss), in some order, at most Candidates.
Retrieved(m) ==
  {list \in UNION {[1..n -> Searchable(m)] : n \in 0..Candidates} : IsInjective(list)}

\* search returns no hits for a query of blanks.
BlankQuery ==
  /\ pc = "vector" /\ pc' = "count"
  /\ UNCHANGED <<vars, asks, found, ranked, answer, fetched>>

VectorQuery ==
  /\ pc = "vector"
  /\ \E list \in Retrieved(asks) : found' = [found EXCEPT !.vector = list]
  /\ pc' = "text"
  /\ UNCHANGED <<vars, asks, ranked, answer, fetched>>

TextQuery ==
  /\ pc = "text"
  /\ \E list \in Retrieved(asks) : found' = [found EXCEPT !.text = list]
  /\ pc' = "fuse"
  /\ UNCHANGED <<vars, asks, ranked, answer, fetched>>

-----------------------------------------------------------------------------
(* Reciprocal rank fusion.  A score is a fraction, numerator first. *)

Ids(list) == {Id(list[i]) : i \in DOMAIN list}

Rank(list, id) == CHOOSE i \in DOMAIN list : Id(list[i]) = id

More(x, y) == x[1] * y[2] > y[1] * x[2]

\* A slip: a candidate has the score of its better rank alone.
BestRank(r, s) == IF r <= s THEN <<1, K + r>> ELSE <<1, K + s>>

\* 1 / (K + r) + 1 / (K + s)
BothRanks(r, s) == <<(K + r) + (K + s), (K + r) * (K + s)>>

OneRank(r) == <<1, K + r>>

Rrf(id) ==
  LET v == found.vector  t == found.text
  IN  CASE id \in Ids(v) \cap Ids(t) -> BothRanks(Rank(v, id), Rank(t, id))
        [] id \in Ids(v) \ Ids(t)    -> OneRank(Rank(v, id))
        [] OTHER                     -> OneRank(Rank(t, id))

\* When _fuse met the candidate first.
Met(id) ==
  IF id \in Ids(found.vector)
  THEN Rank(found.vector, id)
  ELSE Len(found.vector) + Rank(found.text, id)

\* merged: setdefault keeps the row of the vector query.
Merged ==
  Range(found.vector)
    \cup {r \in Range(found.text) : Id(r) \notin Ids(found.vector)}

\* The sequences that list a set, each of its elements once, in this order.
Orderings(S, Before(_, _)) ==
  {list \in [1..Cardinality(S) -> S] :
     /\ \A i, j \in DOMAIN list : i < j => Before(list[i], list[j])
     /\ \A i, j \in DOMAIN list : list[i] = list[j] => i = j
     /\ Range(list) = S}

\* sorted(..., reverse=True) keeps the order of what has the same score.
RanksBefore(r, s) ==
  \/ More(Rrf(Id(r)), Rrf(Id(s)))
  \/ ~More(Rrf(Id(s)), Rrf(Id(r))) /\ Met(Id(r)) <= Met(Id(s))

Fuse ==
  /\ pc = "fuse"
  /\ ranked' \in Orderings(Merged, RanksBefore)
  /\ pc' = IF ranked' = <<>> THEN "count" ELSE "rerank"
  /\ UNCHANGED <<vars, asks, found, answer, fetched>>

-----------------------------------------------------------------------------
(* Reranking and the evidence gate. *)

Smaller(m, n) == IF m <= n THEN m ELSE n

\* The first rerank_candidates of the fused list.
Pool == 1..Smaller(PoolSize, Len(ranked))

\* A slip: the hits keep the order of the fusion.
FusedOrders(scores) == Orderings(Pool, <=)

\* Places of the pool by their scores, the best first.
BestFirst(S, scores) ==
  Orderings(S, LAMBDA i, j : scores[i] > scores[j] \/ (scores[i] = scores[j] /\ i <= j))

\* rerank_order: the pool, best score first, or the part of it that the hosted
\* reranker returns.  It promises this order, the local reranker's scores are
\* sorted here; what select_window shows either of a passage may give it any
\* score.
RerankOrders(scores) == UNION {BestFirst(S, scores) : S \in (SUBSET Pool) \ {{}}}

\* A case of an evaluation: the documents that may answer it, none if it
\* expects no answer, and the bytes that hold expect_text, all of them if the
\* case names no text.
Cases == [documents : SUBSET Docs, text : SUBSET Contents]

\* A hit of an expected document that holds the expected text.
Expected(case, hits) ==
  \E h \in Range(hits) : h.row.doc \in case.documents /\ h.row.chunk.content \in case.text

\* A slip: a case is scored by what was found alone.
PassedOnRank(hits) ==
  {case \in Cases : IF case.documents = {} THEN hits = <<>> ELSE Expected(case, hits)}

\* The cases that run_case and Outcome.passed count as passed on these hits.
Passed(hits) ==
  LET sufficient == hits # <<>> /\ hits[1].score >= Threshold
  IN  {case \in Cases :
         IF case.documents = {} THEN ~sufficient ELSE Expected(case, hits) /\ sufficient}

\* What search_documents makes of its hits: below the floor they are handed
\* over as what they are, above it only those that clear it.  And what an
\* evaluation makes of what its own search of the same index has seen.
Judged(hits, seen) ==
  LET all    == Range(hits)
      best   == hits[1].score
      strong == {h \in all : h.score >= Threshold}
  IN  IF best >= Threshold
      THEN [told |-> "answer", best |-> best, passages |-> strong, passes |-> Passed(seen)]
      ELSE [told |-> "not enough", best |-> best, passages |-> all, passes |-> Passed(seen)]

\* The first hits of an order.
Hits(order, scores, limit) ==
  [i \in 1..Smaller(limit, Len(order)) |->
     [row |-> ranked[order[i]], score |-> scores[order[i]]]]

Answer ==
  /\ pc = "rerank"
  /\ \E scores \in [Pool -> Scores] : \E order \in RerankOrders(scores) :
       answer' = Judged(Hits(order, scores, Limit), Hits(order, scores, CaseLimit))
  /\ pc' = "done"
  /\ UNCHANGED <<vars, asks, found, ranked, fetched>>

\* The hosted reranker returns nothing: the search has no hits, and
\* search_documents goes on as when nothing was found.
NoneReranked ==
  /\ pc = "rerank" /\ pc' = "count"
  /\ UNCHANGED <<vars, asks, found, ranked, answer, fetched>>

\* unsearchable_count
Stranded == {d \in Docs : row[d] # NoRow /\ row[d].model # asks}

\* search_documents without hits, after the third statement.
Count ==
  /\ pc = "count"
  /\ answer' = [answer EXCEPT !.told = IF Stranded = {} THEN "nothing" ELSE "stranded",
                              !.passes = Passed(<<>>)]
  /\ pc' = "done"
  /\ UNCHANGED <<vars, asks, found, ranked, fetched>>

-----------------------------------------------------------------------------
(* Fetching. *)

\* fetch_document, first statement: the document's columns, or no document.
FetchMeta(d) ==
  /\ pc = "meta"
  /\ fetched' = [doc |-> d, of |-> row[d], text |-> {}, renewed |-> FALSE]
  /\ pc' = IF row[d] = NoRow THEN "done" ELSE "chunks"
  /\ UNCHANGED <<vars, asks, found, ranked, answer>>

\* ... and the second: the chunks that it has by now.
FetchChunks ==
  /\ pc = "chunks"
  /\ fetched' = [fetched EXCEPT !.text = chunks[fetched.doc]]
  /\ pc' = "done"
  /\ UNCHANGED <<vars, asks, found, ranked, answer>>

-----------------------------------------------------------------------------

\* Ingestion commits while a statement of the call is still to come.
IndexStep ==
  /\ pc \in {"vector", "text", "count", "meta", "chunks"}
  /\ Next
  /\ fetched' = IF pc = "chunks" /\ row'[fetched.doc] # row[fetched.doc]
                THEN [fetched EXCEPT !.renewed = TRUE]
                ELSE fetched
  /\ UNCHANGED <<pc, asks, found, ranked, answer>>

SNext ==
  \/ BlankQuery \/ VectorQuery \/ TextQuery \/ Fuse \/ Answer
  \/ NoneReranked \/ Count
  \/ (\E d \in Docs : FetchMeta(d)) \/ FetchChunks
  \/ IndexStep

SSpec == SInit /\ [][SNext]_allvars

-----------------------------------------------------------------------------
STypeOK ==
  /\ TypeOK
  /\ pc \in {"vector", "text", "fuse", "rerank", "count", "meta", "chunks", "done"}
  /\ asks \in Models
  /\ found \in [Query -> Seq(HitRows)] /\ ranked \in Seq(HitRows)
  /\ answer.told \in {"none", "answer", "not enough", "nothing", "stranded"}
  /\ \A p \in answer.passages : p.row \in HitRows /\ p.score \in Scores
  /\ answer.passes \subseteq Cases
  /\ fetched.of \in Rows \cup {NoRow} /\ fetched.text \in ChunkSets /\ fetched.renewed \in BOOLEAN

\* The last ingestion of the row's document was rejected: the row names the
\* bytes and the model of that attempt, over the chunks of an earlier pass.
Rejected(r) ==
  r.of.status \in {"failed", "skipped"} /\ Parse[r.doc][r.of.hash] \notin Parsed

\* "switching providers yields 'nothing found' rather than confident nonsense
\* from a mismatched vector space" (retrieval.py): a passage was embedded by
\* the searching process's model and cut from the bytes its row records,
\* whatever is ingested under whatever model meanwhile.  The code does not
\* keep that for a document whose last ingestion was rejected: the row takes
\* the active model before the extraction fails, and the chunks of the old
\* model become candidates.  That this is the only way is the property.
ComparableUnlessRejected ==
  \A p \in answer.passages :
    p.row.chunk = [content |-> p.row.of.hash, model |-> asks] \/ Rejected(p.row)

\* "one retriever cannot dominate on rank alone": what both queries found is
\* ranked above everything that only one of them found.
AgreementWins ==
  LET both == Ids(found.vector) \cap Ids(found.text)
  IN  \A i, j \in DOMAIN ranked :
        Id(ranked[i]) \in both /\ Id(ranked[j]) \notin both => i < j

\* A chunk is one candidate and one passage, however often it was found and
\* although its document's row may have changed between the queries.
FoundOnce ==
  /\ \A i, j \in DOMAIN ranked : Id(ranked[i]) = Id(ranked[j]) => i = j
  /\ pc \in {"rerank", "done"} =>
       {Id(ranked[i]) : i \in DOMAIN ranked} = Ids(found.vector) \cup Ids(found.text)

\* The gate: what is handed over as an answer clears the floor, every passage
\* of it, and what does not is never handed over as one.
GateHolds ==
  pc = "done" =>
    /\ answer.told = "answer" <=> \E p \in answer.passages : p.score >= Threshold
    /\ answer.told = "answer" => \A p \in answer.passages : p.score >= Threshold /\ p.score <= answer.best
    /\ answer.told \in {"nothing", "stranded"} => answer.passages = {}

\* "Scoring on retrieval alone reports a pass for a question the assistant
\* would actually decline to answer": what an evaluation counts as answered is
\* answered by search_documents, and what it counts as refused is not.
EvaluationMeasuresTheTool ==
  pc = "done" /\ answer.told # "none" =>
    \A case \in Cases :
      IF case.documents = {}
      THEN case \in answer.passes <=> answer.told # "answer"
      ELSE case \in answer.passes => answer.told = "answer"

\* The text of a fetched document is of one version, and that of the columns
\* it comes with unless the document was ingested anew in between: the two
\* statements of fetch_document have two snapshots.
FetchedIsOneVersion ==
  pc = "done" =>
    /\ \A k, l \in fetched.text : k = l
    /\ fetched.of.status = "indexed" /\ ~fetched.renewed =>
         fetched.text \subseteq {[content |-> fetched.of.hash, model |-> fetched.of.model]}
    /\ fetched.of.status \in {"absent", "pending"} /\ ~fetched.renewed => fetched.text = {}
=============================================================================
