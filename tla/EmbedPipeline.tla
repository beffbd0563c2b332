--------------------------- MODULE EmbedPipeline ---------------------------
(***************************************************************************)
(* The second half of ingest_document under GO2_EMBEDDING_PROVIDER=jina:   *)
(* the chunks of a document are screened, batched, paced by the token      *)
(* budget, sent, and stored with the vectors that come back                *)
(* (embed_documents, screen, jina.embed, _TokenBudget, _post and           *)
(* replace_chunks).                                                        *)
(*                                                                         *)
(* A vector is the text it was made of.  Time is kept as ages and timers,  *)
(* in ticks of which Window make the rolling minute, so no clock grows.    *)
(***************************************************************************)
EXTENDS Chunking, Pii

CONSTANTS
  Policies,       \* values pii_policy may have
  FoundSets,      \* the sets of findings that the patterns make in a text
  MaskedSize,     \* the length of a text once it is redacted
  CharsPerToken,  \* CHARS_PER_TOKEN
  Allowance,      \* jina_tokens_per_minute
  DefaultBatch,   \* DEFAULT_BATCH
  MaxAttempts,    \* _MAX_ATTEMPTS
  Window          \* _WINDOW_SECONDS, in ticks

ASSUME PacingAssumption ==
  /\ {CharsPerToken, Allowance, DefaultBatch, MaxAttempts, Window, MaskedSize} \subseteq Nat \ {0}
  /\ Policies \subseteq {"allow", "block", "redact"}
  /\ FoundSets \subseteq SUBSET Findings /\ \A findings \in FoundSets : IsFiniteSet(findings)

VARIABLES
  pc,        \* where the ingesting process is
  policy,    \* the pii_policy it runs under
  found,     \* what the patterns find in each chunk
  batches,   \* the batches that are still to be embedded
  vectors,   \* the embeddings of the earlier ones
  spent,     \* _TokenBudget._spent
  attempt,   \* which attempt of _post this is
  timer,     \* what is left of the sleep it is in
  rows,      \* the chunks stored, with their vectors
  admitted,  \* what the budget let through in the last minute
  billed     \* what the API accepted in the last minute

evars == <<pc, policy, found, batches, vectors, spent, attempt, timer, rows, admitted, billed>>
vars  == <<cvars, evars>>

\* Text that is sent: which chunk it is, and the findings legible in it.
Sendable == [chunk : Nat \ {0}, legible : SUBSET Findings, size : Nat]
Spending == [age : 0..Window, tokens : Nat]

PCs == {"chunk", "screen", "acquire", "sleep", "post", "backoff", "store", "stored", "failed"}

Larger(m, n) == IF m >= n THEN m ELSE n

Tokens(text)   == Larger(1, text.size \div CharsPerToken)
TokensOf(batch) == FoldLeft(LAMBDA sum, text : sum + Tokens(text), 0, batch)
Sum(spending)  == FoldLeft(LAMBDA sum, s : sum + s.tokens, 0, spending)

\* The tokens a batch may have, unless it is one text alone.
BatchLimit == Larger(1, Allowance \div 2)

\* _batches
Batches(texts) ==
  LET Fits(batch, text) ==
        Len(batch) < DefaultBatch /\ TokensOf(batch) + Tokens(text) <= BatchLimit
      upTo[n \in 0..Len(texts)] ==
        IF n = 0 THEN <<>>
        ELSE LET done == upTo[n - 1]
             IN  IF done # <<>> /\ Fits(Last(done), texts[n])
                 THEN Append(Front(done), Append(Last(done), texts[n]))
                 ELSE Append(done, <<texts[n]>>)
  IN  upTo[Len(texts)]

Original(i) == [chunk |-> i, legible |-> found[i], size |-> chunks[i].text.size]

\* A slip: the original is sent although something was redacted.
Unscreened(i) == Original(i)

\* redact: placeholders for what was found.
Redacted(i) == [chunk |-> i, legible |-> Legible(found[i]), size |-> MaskedSize]

\* What screen hands back for a chunk.
Screened(i) == IF policy = "redact" /\ found[i] # {} THEN Redacted(i) ELSE Original(i)

Init ==
  /\ ChunkInit
  /\ pc = "chunk" /\ policy \in Policies /\ found = <<>>
  /\ batches = <<>> /\ vectors = <<>> /\ rows = <<>>
  /\ spent = <<>> /\ attempt = 1 /\ timer = 0
  /\ admitted = <<>> /\ billed = <<>>

-----------------------------------------------------------------------------
ChunkStep == pc = "chunk" /\ ChunkNext /\ UNCHANGED evars

\* embed_documents: no texts, no request.
NothingToEmbed ==
  /\ pc = "chunk" /\ finished /\ chunks = <<>>
  /\ pc' = "store"
  /\ UNCHANGED <<cvars, policy, found, batches, vectors, spent, attempt, timer,
                 rows, admitted, billed>>

Detect ==
  /\ pc = "chunk" /\ finished /\ chunks # <<>>
  /\ found' \in [DOMAIN chunks -> FoundSets]
  /\ pc' = "screen"
  /\ UNCHANGED <<cvars, policy, batches, vectors, spent, attempt, timer, rows, admitted, billed>>

Sensitive == \E i \in DOMAIN found : found[i] # {}

\* PiiBlockedError
Block_ ==
  /\ pc = "screen" /\ policy = "block" /\ Sensitive
  /\ pc' = "failed"
  /\ UNCHANGED <<cvars, policy, found, batches, vectors, spent, attempt, timer,
                 rows, admitted, billed>>

Screen ==
  /\ pc = "screen" /\ ~(policy = "block" /\ Sensitive)
  /\ \E texts \in {[i \in DOMAIN chunks |-> Screened(i)]} : batches' = Batches(texts)
  /\ pc' = "acquire"
  /\ UNCHANGED <<cvars, policy, found, vectors, spent, attempt, timer, rows, admitted, billed>>

\* The spendings of the rolling minute.
LastMinute(spending) ==
  LET upTo[n \in 0..Len(spending)] ==
        IF n = 0 THEN <<>>
        ELSE IF spending[n].age < Window THEN Append(upTo[n - 1], spending[n])
        ELSE upTo[n - 1]
  IN  upTo[Len(spending)]

\* A slip: the window is emptied whole when its oldest entry is a minute old.
FixedWindow(spending) ==
  IF spending # <<>> /\ Head(spending).age >= Window THEN <<>> ELSE spending

\* What acquire keeps of _spent.
Recent(spending) == LastMinute(spending)

\* The budget lets the batch through, or says how long to sleep: until the
\* oldest spending is a minute old, and half a second more.
Acquire ==
  /\ pc = "acquire"
  /\ LET recent == Recent(spent)
         needed == TokensOf(Head(batches))
         entry  == [age |-> 0, tokens |-> needed]
     IN  IF Sum(recent) + needed <= Allowance \/ recent = <<>>
         THEN /\ spent' = Append(recent, entry)
              /\ admitted' = Append(admitted, entry)
              /\ attempt' = 1
              /\ pc' = "post"
              /\ UNCHANGED timer
         ELSE /\ spent' = recent
              /\ timer' = Window - Head(recent).age + 1
              /\ pc' = "sleep"
              /\ UNCHANGED <<attempt, admitted>>
  /\ UNCHANGED <<cvars, policy, found, batches, vectors, rows, billed>>

\* Both sleeps: in acquire, and before another attempt of _post.
WakeUp ==
  /\ timer = 0
  /\ \/ pc = "sleep" /\ pc' = "acquire"
     \/ pc = "backoff" /\ pc' = "post"
  /\ UNCHANGED <<cvars, policy, found, batches, vectors, spent, attempt, timer,
                 rows, admitted, billed>>

\* A slip: the answer is taken to be in the order of the inputs.
AsAnswered(data) == data

\* The answer has one item per input, in any order, each with its index.
InIndexOrder(data) ==
  LET order == CHOOSE p \in Bijection(DOMAIN data, DOMAIN data) :
                 \A i, k \in DOMAIN data : i < k => data[p[i]].index <= data[p[k]].index
  IN  [i \in DOMAIN data |-> data[order[i]]]

Embedded(data) ==
  LET sorted == InIndexOrder(data)
  IN  vectors \o [k \in 1..Len(sorted) |-> sorted[k].embedding]

Bill == billed' = Append(billed, [age |-> 0, tokens |-> TokensOf(Head(batches))])

Answered ==
  /\ pc = "post"
  /\ LET batch == Head(batches)
     IN  \E order \in Bijection(DOMAIN batch, DOMAIN batch) :
           vectors' = Embedded([k \in DOMAIN batch |->
                                  [index |-> order[k] - 1, embedding |-> batch[order[k]]]])
  /\ Bill
  /\ batches' = Tail(batches)
  /\ pc' = IF batches' = <<>> THEN "store" ELSE "acquire"
  /\ UNCHANGED <<cvars, policy, found, spent, attempt, timer, rows, admitted>>

\* A slip: the attempts are not counted.
RetryForEver ==
  /\ pc = "post"
  /\ timer' \in 0..Window
  /\ pc' = "backoff"
  /\ UNCHANGED <<cvars, policy, found, batches, vectors, spent, attempt, rows, admitted, billed>>

\* 429 with attempts left: sleep as long as Retry-After or the backoff says.
RateLimited ==
  /\ pc = "post" /\ attempt < MaxAttempts
  /\ timer' \in 0..Window
  /\ attempt' = attempt + 1
  /\ pc' = "backoff"
  /\ UNCHANGED <<cvars, policy, found, batches, vectors, spent, rows, admitted, billed>>

\* JinaError: no connection, another status, the last 429, or an answer with
\* too few or too many embeddings.  The transaction rolls back.
Refused ==
  /\ pc = "post"
  /\ pc' = "failed"
  /\ billed' = billed \/ Bill
  /\ UNCHANGED <<cvars, policy, found, batches, vectors, spent, attempt, timer, rows, admitted>>

\* replace_chunks: refused unless there is one embedding per chunk.
Store ==
  /\ pc = "store"
  /\ IF Len(vectors) = Len(chunks)
       THEN /\ rows' = [i \in DOMAIN chunks |-> [ordinal |-> chunks[i].ordinal,
                                                 vector |-> vectors[i]]]
            /\ pc' = "stored"
       ELSE pc' = "failed" /\ UNCHANGED rows
  /\ UNCHANGED <<cvars, policy, found, batches, vectors, spent, attempt, timer, admitted, billed>>

Older(spending) == [i \in DOMAIN spending |->
                      [spending[i] EXCEPT !.age = Smaller(@ + 1, Window)]]

\* Time passes wherever the process is between two looks at the clock.
Tick ==
  /\ pc \in {"acquire", "sleep", "post", "backoff"}
  /\ timer' = Larger(0, timer - 1)
  /\ spent' = Older(spent)
  /\ admitted' = LastMinute(Older(admitted))
  /\ billed' = LastMinute(Older(billed))
  /\ UNCHANGED <<cvars, pc, policy, found, batches, vectors, attempt, rows>>

Ended == pc \in {"stored", "failed"} /\ UNCHANGED vars

Process ==
  \/ ChunkStep \/ NothingToEmbed \/ Detect \/ Block_ \/ Screen \/ Acquire \/ WakeUp
  \/ Answered \/ RateLimited \/ Refused \/ Store

Next == Process \/ Tick \/ Ended

Spec == Init /\ [][Next]_vars

\* The process runs and time passes.
FairSpec == Spec /\ WF_vars(Process) /\ WF_vars(Tick)
-----------------------------------------------------------------------------
ETypeOK ==
  /\ CTypeOK
  /\ pc \in PCs /\ policy \in Policies /\ found \in Seq(FoundSets)
  /\ batches \in Seq(Seq(Sendable)) /\ vectors \in Seq(Sendable)
  /\ {spent, admitted, billed} \subseteq Seq(Spending)
  /\ attempt \in 1..MaxAttempts /\ timer \in 0..(Window + 1)
  /\ rows \in Seq([ordinal : Nat, vector : Sendable])

\* A stored chunk has the vector of its own text, whatever the batching was
\* and in whatever order the API answered, and no batch is lost or repeated.
VectorsAligned ==
  /\ pc = "stored" => Len(rows) = Len(chunks)
  /\ \A i \in DOMAIN rows : rows[i].vector.chunk = i /\ rows[i].ordinal = i - 1

\* Nothing that the patterns found leaves the machine in full, except under
\* "allow": not in a later batch or attempt, and not where findings overlap
\* and only some of them are kept.
OnlyClearedLeaves ==
  \A i \in DOMAIN batches : \A k \in DOMAIN batches[i] :
    policy # "allow" => batches[i][k].legible = {}

\* The budget is a rolling one: no minute, wherever it starts, has more
\* admitted tokens than the allowance, unless one request alone has them.
AdmittedWithinAllowance == Len(admitted) > 1 => Sum(admitted) <= Allowance

\* A request that is made ends with its vectors stored or an error: neither
\* the budget nor the retries hold it for ever.
EmbedEnds == <>(pc \in {"stored", "failed"})

\* "Requests are paced to stay under this" (config.py): what the account is
\* billed for in a minute is within its allowance.
BilledWithinAllowance == Len(billed) > 1 => Sum(billed) <= Allowance
=============================================================================
