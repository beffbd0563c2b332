----------------------------- MODULE IngestProofs -----------------------------
(***************************************************************************)
(* Theorems about Ingest and IngestHistory, for every set of files,        *)
(* contents, models and processes: the cache, the single writer and the    *)
(* refinement of SerialIndex first, then what a settled row and a stored   *)
(* chunk are worth when several processes may write the same file.         *)
(***************************************************************************)
EXTENDS IngestHistory, TLAPS

\* What a transaction carries, by where it is.
LEMMA TxShape ==
  ASSUME NEW t \in TxStates
  PROVE  /\ t.pc # "idle" => t.doc \in Docs /\ t.content \in Contents
         /\ t.pc = "idle" => t = Idle
         /\ t.pc \in {"fetched", "writing", "missed"} => t \in Handling
         /\ t.pc = "read" => t \in Reading /\ t.prev \in Rows \cup {NoRow}
         /\ t.pc = "parsed" => t \in Storing /\ t.parse \in Parsed /\ t.put \subseteq Contents
<1>1. CASE t = Idle
  BY <1>1 DEF Idle
<1>2. CASE t \in Handling
  BY <1>2 DEF Handling
<1>3. CASE t \in Reading
  BY <1>3 DEF Reading
<1>4. CASE t \in Storing
  BY <1>4 DEF Storing
<1> QED
  BY <1>1, <1>2, <1>3, <1>4 DEF TxStates

\* Every transaction a step can leave behind is one of TxStates.
LEMMA TxBuild ==
  ASSUME NEW d \in Docs, NEW c \in Contents
  PROVE  /\ \A pc \in {"fetched", "writing", "missed"} :
              [pc |-> pc, doc |-> d, content |-> c] \in TxStates
         /\ \A prev \in Rows \cup {NoRow} :
              [pc |-> "read", doc |-> d, content |-> c, prev |-> prev] \in TxStates
         /\ \A parse \in Parsed, put \in SUBSET Contents :
              [pc |-> "parsed", doc |-> d, content |-> c, parse |-> parse, put |-> put]
                \in TxStates
         /\ Idle \in TxStates
  BY DEF TxStates, Handling, Reading, Storing

\* The rows a step writes are rows, whatever it makes of the file.
LEMMA RowBuild ==
  ASSUME NEW c \in Contents, NEW m \in Models
  PROVE  /\ \A s \in Statuses : Row(c, s, m) \in Rows
         /\ \A parse \in Parsed : StatusOf(parse) \in Statuses
         /\ \A o \in Outcomes : RejectStatus(o) \in Statuses
         /\ \A parse : ChunksOf(parse, c, m) \in ChunkSets
  BY DEF Row, Rows, Statuses, StatusOf, RejectStatus, ChunksOf, ChunkSets

LEMMA TypeInit == Init => TypeOK
  BY DEF Init, TypeOK, ChunkSets, TxStates

\* A step changes the transaction of one process and no other, and what it
\* may change it to keeps the type.
LEMMA TypeStep == TypeOK /\ [Next]_vars => TypeOK'
<1> SUFFICES ASSUME TypeOK, [Next]_vars PROVE TypeOK'
  OBVIOUS
<1> USE DEF TypeOK, At, db
<1>1. ASSUME NEW p \in Procs, Fetch(p) PROVE TypeOK'
  <2>1. PICK d \in Assigned[p], c \in Contents :
          tx' = [tx EXCEPT ![p] = [pc |-> "fetched", doc |-> d, content |-> c]]
    BY <1>1 DEF Fetch
  <2>2. [pc |-> "fetched", doc |-> d, content |-> c] \in TxStates
    BY AssignedAssumption, TxBuild
  <2> QED
    BY <1>1, <2>1, <2>2 DEF Fetch
<1>2. ASSUME NEW p \in Procs, Step(p) PROVE TypeOK'
  <2> DEFINE t == tx[p]
  <2>0. t \in TxStates
    OBVIOUS
  <2>1. CASE ReadState(p)
    <3>1. t.doc \in Docs /\ t.content \in Contents
      BY <2>0, <2>1, TxShape DEF ReadState
    <3>2. [pc |-> "read", doc |-> t.doc, content |-> t.content, prev |-> row[t.doc]]
             \in TxStates
      BY <3>1, TxBuild
    <3> QED
      BY <2>1, <3>2 DEF ReadState
  <2>2. CASE Refresh(p)
    <3>1. t.doc \in Docs /\ t.content \in Contents /\ t.prev \in Rows \cup {NoRow}
      BY <2>0, <2>2, TxShape DEF Refresh
    <3>2. t.prev.status \in Statuses
      BY <2>2, <3>1 DEF Refresh, IsUnchanged, Rows
    <3>3. Row(t.content, t.prev.status, setting[p]) \in Rows
      BY <3>1, <3>2, RowBuild
    <3> QED
      BY <2>2, <3>1, <3>3, TxBuild DEF Refresh
  <2>3. CASE BeginWrite(p)
    <3>1. t.doc \in Docs /\ t.content \in Contents
      BY <2>0, <2>3, TxShape DEF BeginWrite
    <3>2. [pc |-> "writing", doc |-> t.doc, content |-> t.content] \in TxStates
      BY <3>1, TxBuild
    <3> QED
      BY <2>3, <3>2 DEF BeginWrite
  <2>4. CASE CacheHit(p)
    <3>1. t.doc \in Docs /\ t.content \in Contents
      BY <2>0, <2>4, TxShape DEF CacheHit
    <3>2. cache[t.content] \in Parsed
      BY <2>4, <3>1 DEF CacheHit
    <3>3. [pc |-> "parsed", doc |-> t.doc, content |-> t.content,
           parse |-> cache[t.content], put |-> {}] \in TxStates
      BY <3>1, <3>2, TxBuild
    <3> QED
      BY <2>4, <3>3 DEF CacheHit
  <2>5. CASE CacheMiss(p)
    <3>1. t \in Handling
      BY <2>0, <2>5, TxShape DEF CacheMiss
    <3>2. [t EXCEPT !.pc = "missed"] \in TxStates
      BY <3>1 DEF Handling, TxStates
    <3>3. tx' = [tx EXCEPT ![p] = [t EXCEPT !.pc = "missed"]]
      BY <2>5 DEF CacheMiss
    <3> QED
      BY <2>5, <3>2, <3>3 DEF CacheMiss
  <2>6. CASE PutCache(p)
    <3>1. t.doc \in Docs /\ t.content \in Contents
      BY <2>0, <2>6, TxShape DEF PutCache
    <3>2. [pc |-> "parsed", doc |-> t.doc, content |-> t.content,
           parse |-> Parse[t.doc][t.content], put |-> {c \in {t.content} : cache[c] = "none"}]
             \in TxStates
      BY <2>6, <3>1, TxBuild DEF PutCache
    <3> QED
      BY <2>6, <3>2 DEF PutCache
  <2>7. CASE Reject(p)
    <3>1. t.doc \in Docs /\ t.content \in Contents
      BY <2>0, <2>7, TxShape DEF Reject
    <3>2. Parse[t.doc][t.content] \in Outcomes
      BY <3>1, ParseAssumption
    <3>3. Row(t.content, RejectStatus(Parse[t.doc][t.content]), setting[p]) \in Rows
      BY <3>1, <3>2, RowBuild
    <3> QED
      BY <2>7, <3>1, <3>3, TxBuild DEF Reject
  <2>8. CASE Store(p)
    <3>1. t.doc \in Docs /\ t.content \in Contents /\ t.parse \in Parsed
      BY <2>0, <2>8, TxShape DEF Store
    <3>2. Row(t.content, StatusOf(t.parse), setting[p]) \in Rows
      BY <3>1, RowBuild
    <3>3. ChunksOf(t.parse, t.content, setting[p]) \in ChunkSets
      BY <3>1, RowBuild
    <3> QED
      BY <2>8, <3>1, <3>2, <3>3, TxBuild DEF Store
  <2>9. CASE EmbedFails(p)
    BY <2>9 DEF EmbedFails, TxStates
  <2> QED
    BY <1>2, <2>1, <2>2, <2>3, <2>4, <2>5, <2>6, <2>7, <2>8, <2>9 DEF Step
<1>3. ASSUME NEW p \in Procs, Restart(p) PROVE TypeOK'
  BY <1>3 DEF Restart, TxStates
<1>4. CASE UNCHANGED vars
  BY <1>4 DEF vars
<1> QED
  BY <1>1, <1>2, <1>3, <1>4 DEF Next

\* The database and the transactions keep their shape.
THEOREM Typing == Spec => []TypeOK
  BY TypeInit, TypeStep, PTL DEF Spec

-----------------------------------------------------------------------------
(* The extraction cache, under any deployment. *)

\* A parse at hand is the process's own or the cached one; put holds its key
\* exactly when the cache still misses it, and no two transactions have
\* inserted the same key.
CacheInv ==
  \A p \in Procs : At(p, "parsed") =>
    /\ tx[p].put = {c \in {tx[p].content} : cache[c] = "none"}
    /\ tx[p].parse \in {Parse[tx[p].doc][tx[p].content], cache[tx[p].content]}
    /\ \A c \in tx[p].put : KeyFree(p, c)

\* A step of one process leaves every other transaction as it is.
LEMMA Others ==
  ASSUME TypeOK, NEW p \in Procs, Fetch(p) \/ Step(p) \/ Restart(p)
  PROVE  \A q \in Procs \ {p} : tx'[q] = tx[q]
  BY DEF TypeOK, Fetch, Step, ReadState, Refresh, BeginWrite, CacheHit, CacheMiss,
         PutCache, Reject, Store, EmbedFails, Restart

\* A step leaves a new parse at hand only after looking the cache up.
LEMMA NewlyParsed ==
  ASSUME TypeOK, NEW p \in Procs, Fetch(p) \/ Step(p) \/ Restart(p),
         tx'[p].pc = "parsed"
  PROVE  CacheHit(p) \/ PutCache(p)
<1>1. ASSUME CacheMiss(p) PROVE FALSE
  <2>1. tx[p] \in Handling
    BY <1>1, TxShape DEF CacheMiss, TypeOK, At
  <2> QED
    BY <1>1, <2>1 DEF CacheMiss, TypeOK, Handling
<1> QED
  BY <1>1 DEF Fetch, Step, ReadState, Refresh, BeginWrite, Reject, Store, EmbedFails,
              Restart, TypeOK, Idle

\* The cache changes only when a transaction that inserted a key commits, and
\* only at that key.
LEMMA CacheStep ==
  ASSUME TypeOK, NEW p \in Procs, Fetch(p) \/ Step(p) \/ Restart(p)
  PROVE  \/ cache' = cache
         \/ /\ Store(p)
            /\ \A c \in Contents : cache'[c] = IF c \in tx[p].put THEN tx[p].parse
                                                             ELSE cache[c]
  BY DEF Fetch, Step, ReadState, Refresh, BeginWrite, CacheHit, CacheMiss,
         PutCache, Reject, Store, EmbedFails, Restart, db

LEMMA CacheInvInit == Init => CacheInv
  BY DEF Init, CacheInv, At, Idle

LEMMA CacheInvStep == TypeOK /\ CacheInv /\ [Next]_vars => CacheInv'
<1> SUFFICES ASSUME TypeOK, CacheInv, [Next]_vars PROVE CacheInv'
  OBVIOUS
<1> USE DEF At
<1>1. CASE UNCHANGED vars
  BY <1>1 DEF vars, CacheInv, KeyFree
<1>2. ASSUME NEW p \in Procs, Fetch(p) \/ Step(p) \/ Restart(p) PROVE CacheInv'
  <2>1. SUFFICES ASSUME NEW q \in Procs, tx'[q].pc = "parsed"
                 PROVE  /\ tx'[q].put = {c \in {tx'[q].content} : cache'[c] = "none"}
                        /\ tx'[q].parse \in {Parse[tx'[q].doc][tx'[q].content],
                                             cache'[tx'[q].content]}
                        /\ \A c \in tx'[q].put, r \in Procs \ {q} :
                             tx'[r].pc = "parsed" => c \notin tx'[r].put
    BY DEF CacheInv, KeyFree
  <2>2. \A r \in Procs \ {p} : tx'[r] = tx[r]
    BY <1>2, Others
  <2>3. CASE q = p
    <3>1. CASE CacheHit(p)
      <4>1. tx'[p] = [pc |-> "parsed", doc |-> tx[p].doc, content |-> tx[p].content,
                      parse |-> cache[tx[p].content], put |-> {}]
        BY <3>1 DEF CacheHit, TypeOK
      <4> QED
        BY <2>3, <3>1, <4>1 DEF CacheHit, db
    <3>2. CASE PutCache(p)
      <4>1. tx'[p] = [pc |-> "parsed", doc |-> tx[p].doc, content |-> tx[p].content,
                      parse |-> Parse[tx[p].doc][tx[p].content],
                      put |-> {c \in {tx[p].content} : cache[c] = "none"}]
        BY <3>2 DEF PutCache, TypeOK
      <4> QED
        BY <2>2, <2>3, <3>2, <4>1 DEF PutCache, KeyFree, db
    <3> QED
      BY <1>2, <2>1, <2>3, <3>1, <3>2, NewlyParsed
  <2>4. CASE q # p
    <3>1. tx'[q] = tx[q] /\ tx[q].pc = "parsed" /\ tx[q].content \in Contents
      BY <2>1, <2>2, <2>4, TxShape DEF TypeOK
    <3>2. tx[q].put = {c \in {tx[q].content} : cache[c] = "none"}
      BY <3>1 DEF CacheInv
    <3>3. ASSUME Store(p) PROVE tx[q].content \notin tx[p].put \/ tx[q].put = {}
      BY <2>4, <3>1, <3>2, <3>3 DEF CacheInv, KeyFree, Store
    <3>4. \/ cache'[tx[q].content] = cache[tx[q].content]
          \/ cache[tx[q].content] # "none" /\ Store(p) /\ tx[q].content \in tx[p].put
      BY <1>2, <3>1, <3>2, <3>3, CacheStep
    <3>5. ASSUME Store(p) PROVE tx[p].put = {c \in {tx[p].content} : cache[c] = "none"}
      BY <3>5 DEF CacheInv, Store
    <3>6. cache'[tx[q].content] = cache[tx[q].content]
      BY <3>4, <3>5
    <3>7. ASSUME NEW c \in tx[q].put, NEW r \in Procs \ {q}, tx'[r].pc = "parsed"
          PROVE  c \notin tx'[r].put
      <4>1. CASE r # p
        BY <2>2, <3>1, <3>7, <4>1 DEF CacheInv, KeyFree
      <4>2. CASE r = p /\ CacheHit(p)
        BY <4>2 DEF CacheHit, TypeOK
      <4>3. CASE r = p /\ PutCache(p)
        <5>1. tx'[p].put \subseteq {tx[p].content}
          BY <4>3 DEF PutCache, TypeOK
        <5>2. tx[p].content \notin tx[q].put
          BY <2>4, <3>1, <4>3 DEF PutCache, KeyFree
        <5> QED
          BY <3>7, <4>3, <5>1, <5>2
      <4> QED
        BY <1>2, <3>7, <4>1, <4>2, <4>3, NewlyParsed
    <3> QED
      BY <3>1, <3>2, <3>6, <3>7 DEF CacheInv
  <2> QED
    BY <2>3, <2>4
<1> QED
  BY <1>1, <1>2 DEF Next

\* Two processes may miss the same key and parse the same bytes under two
\* names; the entry that is committed first is never replaced.
THEOREM CacheIsWrittenOnce == Spec => CacheWriteOnce
<1>1. ASSUME TypeOK, CacheInv, [Next]_vars, NEW c \in Contents, cache[c] # "none"
      PROVE  cache'[c] = cache[c]
  <2>1. CASE UNCHANGED vars
    BY <2>1 DEF vars
  <2>2. ASSUME NEW p \in Procs, Fetch(p) \/ Step(p) \/ Restart(p)
        PROVE  cache'[c] = cache[c]
    <3>1. ASSUME Store(p) PROVE c \notin tx[p].put
      BY <1>1, <3>1 DEF Store, CacheInv
    <3> QED
      BY <1>1, <2>2, <3>1, CacheStep
  <2> QED
    BY <1>1, <2>1, <2>2 DEF Next
<1>2. TypeOK /\ CacheInv /\ [Next]_vars
        => [\A c \in Contents : cache[c] # "none" => cache'[c] = cache[c]]_vars
  BY <1>1
<1> QED
  BY <1>2, Typing, CacheInvInit, CacheInvStep, PTL DEF Spec, CacheWriteOnce

-----------------------------------------------------------------------------
(* Deployments in which each file has one writer. *)

\* A process handles only its own files, what it read of a row is still
\* true, and what it found to be new work still is.
WriterInv ==
  \A p \in Procs :
    /\ ~At(p, "idle") => tx[p].doc \in Assigned[p]
    /\ At(p, "read") => tx[p].prev = row[tx[p].doc]
    /\ tx[p].pc \in {"writing", "missed", "parsed"}
         => ~IsUnchanged(row[tx[p].doc], tx[p].content, setting[p])

LEMMA WriterInvInit == Init => WriterInv
  BY DEF Init, WriterInv, At, Idle

\* A step writes the row of the file its process handles, and no other.
LEMMA RowStep ==
  ASSUME TypeOK, NEW p \in Procs, Fetch(p) \/ Step(p) \/ Restart(p)
  PROVE  /\ \A d \in Docs : row'[d] # row[d] => ~At(p, "idle") /\ d = tx[p].doc
         /\ row' # row => tx'[p] = Idle
         /\ \A q \in Procs \ {p} : setting'[q] = setting[q]
         /\ setting' # setting => tx'[p] = Idle
  BY DEF TypeOK, Fetch, Step, ReadState, Refresh, BeginWrite, CacheHit, CacheMiss,
         PutCache, Reject, Store, EmbedFails, Restart, db, At, Idle

\* Where the transaction of a process comes from.
LEMMA TxStep ==
  ASSUME TypeOK, NEW p \in Procs, Fetch(p) \/ Step(p) \/ Restart(p)
  PROVE  \/ tx'[p] = Idle
         \/ tx'[p].pc = "fetched" /\ tx'[p].doc \in Assigned[p]
         \/ /\ ~At(p, "idle")
            /\ tx'[p].doc = tx[p].doc
            /\ tx'[p].content = tx[p].content
            /\ \/ tx'[p].pc = "read" /\ tx'[p].prev = row[tx[p].doc]
               \/ tx'[p].pc = "writing" /\ At(p, "read")
                    /\ ~IsUnchanged(tx[p].prev, tx[p].content, setting[p])
               \/ tx'[p].pc \in {"missed", "parsed"} /\ tx[p].pc \in {"writing", "missed"}
<1> USE DEF At, TypeOK
<1>1. CASE CacheMiss(p)
  <2>1. tx[p] \in Handling
    BY <1>1, TxShape DEF CacheMiss
  <2>2. tx'[p] = [tx[p] EXCEPT !.pc = "missed"]
    BY <1>1 DEF CacheMiss
  <2> QED
    BY <1>1, <2>1, <2>2 DEF CacheMiss, Handling
<1>2. CASE Fetch(p) \/ Refresh(p) \/ Reject(p) \/ Store(p) \/ EmbedFails(p) \/ Restart(p)
  BY <1>2 DEF Fetch, Refresh, Reject, Store, EmbedFails, Restart
<1>3. CASE ReadState(p) \/ BeginWrite(p) \/ CacheHit(p) \/ PutCache(p)
  BY <1>3 DEF ReadState, BeginWrite, CacheHit, PutCache
<1> QED
  BY <1>1, <1>2, <1>3 DEF Step

LEMMA WriterInvStep ==
  ASSUME SingleWriter, TypeOK, WriterInv, [Next]_vars
  PROVE  WriterInv'
<1> USE DEF At
<1>1. CASE UNCHANGED vars
  BY <1>1 DEF vars, WriterInv, IsUnchanged
<1>2. ASSUME NEW p \in Procs, Fetch(p) \/ Step(p) \/ Restart(p) PROVE WriterInv'
  <2>1. SUFFICES ASSUME NEW q \in Procs
        PROVE  /\ tx'[q].pc # "idle" => tx'[q].doc \in Assigned[q]
               /\ tx'[q].pc = "read" => tx'[q].prev = row'[tx'[q].doc]
               /\ tx'[q].pc \in {"writing", "missed", "parsed"}
                    => ~IsUnchanged(row'[tx'[q].doc], tx'[q].content, setting'[q])
    BY DEF WriterInv, IsUnchanged
  <2>2. CASE q # p
    <3>1. tx'[q] = tx[q] /\ setting'[q] = setting[q]
      BY <1>2, <2>2, Others, RowStep
    <3>2. CASE tx[q].pc = "idle"
      BY <3>1, <3>2
    <3>3. CASE tx[q].pc # "idle"
      <4>1. tx[q].doc \in Assigned[q] /\ tx[q].doc \in Docs
        BY <3>3, TxShape DEF WriterInv, TypeOK
      <4>2. row'[tx[q].doc] = row[tx[q].doc]
        BY <1>2, <2>2, <4>1, RowStep DEF WriterInv, SingleWriter
      <4> QED
        BY <3>1, <3>3, <4>1, <4>2 DEF WriterInv
    <3> QED
      BY <3>2, <3>3
  <2>3. CASE q = p /\ tx'[p] = Idle
    BY <2>3 DEF Idle
  <2>4. CASE q = p /\ tx'[p] # Idle
    <3>1. row' = row /\ setting' = setting
      BY <1>2, <2>4, RowStep
    <3> QED
      BY <1>2, <2>4, <3>1, TxStep DEF WriterInv
  <2> QED
    BY <2>2, <2>3, <2>4
<1> QED
  BY <1>1, <1>2 DEF Next

\* The sequential index decides by the same rules.
LEMMA Rules ==
  /\ Serial!Parsed = Parsed
  /\ Serial!NoRow = NoRow
  /\ \A c, s, m : Serial!Row(c, s, m) = Row(c, s, m)
  /\ \A r, c, m : Serial!IsUnchanged(r, c, m) <=> IsUnchanged(r, c, m)
  /\ \A parse, c, m : Serial!ChunksOf(parse, c, m) = ChunksOf(parse, c, m)
  /\ \A parse : Serial!StatusOf(parse) = StatusOf(parse)
  /\ \A o : Serial!RejectStatus(o) = RejectStatus(o)
  /\ \A e, parse : Serial!CachePut(e, parse) = CachePut(e, parse)
<1>1. \A r, c, m : Serial!IsUnchanged(r, c, m) <=> IsUnchanged(r, c, m)
  BY DEF Serial!IsUnchanged, IsUnchanged, Serial!NoRow, NoRow, Serial!Settled, Settled
<1>2. \A parse : Serial!StatusOf(parse) = StatusOf(parse)
  BY Zenon DEF Serial!StatusOf, StatusOf
<1>3. \A o : Serial!RejectStatus(o) = RejectStatus(o)
  BY DEF Serial!RejectStatus, RejectStatus
<1>4. \A parse, c, m : Serial!ChunksOf(parse, c, m) = ChunksOf(parse, c, m)
  BY DEF Serial!ChunksOf, ChunksOf
<1>5. \A e, parse : Serial!CachePut(e, parse) = CachePut(e, parse)
  BY DEF Serial!CachePut, CachePut
<1> QED
  BY <1>1, <1>2, <1>3, <1>4, <1>5
  DEF Serial!Parsed, Parsed, Serial!NoRow, NoRow, Serial!Row, Row

\* Every step is a step of the sequential index, or leaves it alone.
LEMMA StepImplements ==
  ASSUME TypeOK, CacheInv, WriterInv, [Next]_vars
  PROVE  [Serial!Next]_(Serial!vars)
<1> USE DEF At
<1>1. ASSUME NEW p \in Procs, Store(p) PROVE Serial!Next
  <2> DEFINE t == tx[p]
  <2>1. t \in Storing /\ t.doc \in Docs /\ t.content \in Contents /\ t.parse \in Parsed
    BY <1>1, TxShape DEF Store, TypeOK
  <2>2. setting[p] \in Models
    BY DEF TypeOK
  <2>3. ~IsUnchanged(row[t.doc], t.content, setting[p])
    BY <1>1 DEF Store, WriterInv
  <2>4. t.parse \in {Parse[t.doc][t.content], cache[t.content]} \cap Parsed
    BY <1>1, <2>1 DEF Store, CacheInv
  <2>5. cache' = [cache EXCEPT ![t.content] = CachePut(@, t.parse)]
    <3>1. t.put = {c \in {t.content} : cache[c] = "none"}
      BY <1>1 DEF Store, CacheInv
    <3> QED
      BY <1>1, <2>1, <3>1 DEF Store, CachePut, TypeOK
  <2>6. Serial!Store(t.doc, t.content, setting[p])
    BY <1>1, <2>4, <2>5, Rules DEF Store, Serial!Store
  <2> QED
    BY <2>1, <2>2, <2>3, <2>6, Rules DEF Serial!Next
<1>2. ASSUME NEW p \in Procs, Reject(p) PROVE Serial!Next
  <2> DEFINE t == tx[p]
  <2>1. t.doc \in Docs /\ t.content \in Contents /\ setting[p] \in Models
    BY <1>2, TxShape DEF Reject, TypeOK
  <2>2. ~IsUnchanged(row[t.doc], t.content, setting[p])
    BY <1>2 DEF Reject, WriterInv
  <2>3. Serial!Reject(t.doc, t.content, setting[p])
    BY <1>2, Rules DEF Reject, Serial!Reject
  <2> QED
    BY <2>1, <2>2, <2>3, Rules DEF Serial!Next
<1>3. ASSUME NEW p \in Procs, Refresh(p) PROVE UNCHANGED Serial!vars
  <2> DEFINE t == tx[p]
  <2>1. t.doc \in Docs /\ t.prev = row[t.doc]
    BY <1>3, TxShape DEF Refresh, WriterInv, TypeOK
  <2>2. Row(t.content, t.prev.status, setting[p]) = row[t.doc]
    BY <1>3, <2>1 DEF Refresh, IsUnchanged, Row, Rows, TypeOK
  <2> QED
    BY <1>3, <2>1, <2>2 DEF Refresh, Serial!vars, TypeOK
<1>4. ASSUME NEW p \in Procs, Fetch(p) \/ ReadState(p) \/ BeginWrite(p) \/ CacheHit(p)
              \/ CacheMiss(p) \/ PutCache(p) \/ EmbedFails(p) \/ Restart(p)
      PROVE  UNCHANGED Serial!vars
  BY <1>4 DEF Fetch, ReadState, BeginWrite, CacheHit, CacheMiss, PutCache, EmbedFails,
              Restart, db, Serial!vars
<1>5. CASE UNCHANGED vars
  BY <1>5 DEF vars, Serial!vars
<1> QED
  BY <1>1, <1>2, <1>3, <1>4, <1>5 DEF Next, Step

LEMMA InitImplements == Init => Serial!Init
  BY Rules DEF Init, Serial!Init

\* When no file has two writers, the concurrent pipeline implements the
\* sequential index, whatever crashes, restarts, failures of the embedder and
\* races for the extraction cache occur.
THEOREM Serializes ==
  ASSUME SingleWriter
  PROVE  Spec => Serializable
<1>1. TypeOK /\ WriterInv /\ [Next]_vars => WriterInv'
  BY WriterInvStep
<1>2. TypeOK /\ CacheInv /\ WriterInv /\ [Next]_vars => [Serial!Next]_(Serial!vars)
  BY StepImplements
<1> QED
  BY <1>1, <1>2, Typing, CacheInvInit, CacheInvStep, WriterInvInit, InitImplements, PTL
  DEF Spec, Serializable, Serial!Spec

-----------------------------------------------------------------------------
(* What the sequential index keeps true. *)

\* Coherent, in the words of this module.
LEMMA CoherentMeans ==
  Coherent <=>
    \A d \in Docs :
      /\ row[d].status = "indexed" =>
           \/ chunks[d] = ChunksOf("text", row[d].hash, row[d].model)
           \/ /\ chunks[d] = {}
              /\ "sheets" \in {Parse[d][row[d].hash], cache[row[d].hash]}
      /\ row[d].status = "pending" => chunks[d] = {}
      /\ row[d].status # "extracting"
      /\ row[d] = NoRow => chunks[d] = {}
  BY Rules DEF Coherent, Serial!Coherent

LEMMA CoherentInit == Serial!Init => Coherent
  BY CoherentMeans, Rules DEF Serial!Init, NoRow

\* Storing a parse makes the row and the chunks of that file agree.
LEMMA StoreCoherent ==
  ASSUME TypeOK, TypeOK', Coherent,
         NEW d \in Docs, NEW c \in Contents, NEW m \in Models, Serial!Store(d, c, m)
  PROVE  Coherent'
<1>1. PICK parse \in {Parse[d][c], cache[c]} \cap Parsed :
        /\ row' = [row EXCEPT ![d] = Row(c, StatusOf(parse), m)]
        /\ chunks' = [chunks EXCEPT ![d] = ChunksOf(parse, c, m)]
        /\ cache' = [cache EXCEPT ![c] = CachePut(@, parse)]
  BY Rules DEF Serial!Store
<1>2. row'[d] = Row(c, StatusOf(parse), m) /\ chunks'[d] = ChunksOf(parse, c, m)
  BY <1>1 DEF TypeOK
<1>3. parse \in {Parse[d][c], cache'[c]}
  BY <1>1 DEF TypeOK, CachePut, Parsed
<1>4. \A e \in Docs \ {d} : row'[e] = row[e] /\ chunks'[e] = chunks[e]
  BY <1>1 DEF TypeOK
<1>5. \A k \in Contents : cache[k] = "sheets" => cache'[k] = "sheets"
  BY <1>1 DEF TypeOK, CachePut
<1>6. row'[d].hash = c /\ row'[d].status = StatusOf(parse) /\ row'[d].model = m
  BY <1>2 DEF Row
<1>7. /\ StatusOf(parse) = "indexed" => parse \in {"text", "sheets"}
      /\ StatusOf(parse) = "pending" => parse = "scan"
      /\ StatusOf(parse) # "extracting"
  <2>1. parse \in Parsed
    BY <1>1
  <2> QED
    BY <2>1 DEF StatusOf, Parsed
<1>8. /\ parse = "text" => chunks'[d] = ChunksOf("text", c, m)
      /\ parse # "text" => chunks'[d] = {}
  BY <1>2 DEF ChunksOf
<1>9. ASSUME NEW e \in Docs
      PROVE  /\ row'[e].status = "indexed" =>
                  \/ chunks'[e] = ChunksOf("text", row'[e].hash, row'[e].model)
                  \/ /\ chunks'[e] = {}
                     /\ "sheets" \in {Parse[e][row'[e].hash], cache'[row'[e].hash]}
             /\ row'[e].status = "pending" => chunks'[e] = {}
             /\ row'[e].status # "extracting"
             /\ row'[e] = NoRow => chunks'[e] = {}
  <2>1. CASE e = d
    BY <1>2, <1>3, <1>6, <1>7, <1>8, <2>1 DEF Row, NoRow
  <2>2. CASE e # d
    <3>1. row'[e] = row[e] /\ chunks'[e] = chunks[e]
      BY <1>4, <2>2
    <3>2. row[e].status = "indexed" => row[e].hash \in Contents
      BY DEF TypeOK, Rows, NoRow
    <3> QED
      BY <1>5, <3>1, <3>2, CoherentMeans
  <2> QED
    BY <2>1, <2>2
<1> QED
  BY <1>9, CoherentMeans, Rules DEF Coherent, Serial!Coherent

LEMMA CoherentStep ==
  ASSUME TypeOK, TypeOK', Coherent, [Serial!Next]_(Serial!vars)
  PROVE  Coherent'
<1>1. CASE UNCHANGED Serial!vars
  BY <1>1 DEF Serial!vars, Coherent, Serial!Coherent
<1>2. ASSUME NEW d \in Docs, NEW c \in Contents, NEW m \in Models, Serial!Reject(d, c, m)
      PROVE  Coherent'
  <2>1. row'[d] = Row(c, RejectStatus(Parse[d][c]), m)
    BY <1>2, Rules DEF Serial!Reject, TypeOK
  <2>2. \A e \in Docs \ {d} : row'[e] = row[e]
    BY <1>2 DEF Serial!Reject, TypeOK
  <2>3. row'[d].status \in {"skipped", "failed"} /\ row'[d] # NoRow
    BY <2>1 DEF Row, RejectStatus, NoRow
  <2>4. chunks' = chunks /\ cache' = cache
    BY <1>2 DEF Serial!Reject
  <2> QED
    BY <2>2, <2>3, <2>4, Rules DEF Coherent, Serial!Coherent
<1> QED
  BY <1>1, <1>2, StoreCoherent DEF Serial!Next

\* When no file has two writers, the columns the short-circuit trusts tell
\* the truth about the stored chunks, in every reachable state.
THEOREM AlwaysCoherent ==
  ASSUME SingleWriter
  PROVE  Spec => []Coherent
<1>1. TypeOK /\ TypeOK' /\ Coherent /\ [Serial!Next]_(Serial!vars) => Coherent'
  BY CoherentStep
<1> QED
  BY <1>1, Serializes, Typing, CoherentInit, PTL DEF Serializable, Serial!Spec

-----------------------------------------------------------------------------
(* Several writers: the rows and chunks that were earned. *)

\* A step of the history specification is a step of Ingest.
LEMMA HistoryStep == [HNext]_hvars => [Next]_vars
  BY DEF HNext, EndsPass, Continues, hvars, Next, Step

LEMMA HistoryTypeStep == HTypeOK /\ [HNext]_hvars => HTypeOK'
<1> SUFFICES ASSUME HTypeOK, [HNext]_hvars PROVE HTypeOK'
  OBVIOUS
<1>1. TypeOK'
  BY HistoryStep, TypeStep DEF HTypeOK
<1>2. ASSUME NEW p \in Procs, EndsPass(p) PROVE earned' \in [Docs -> SUBSET Rows]
  <2>1. tx[p].doc \in Docs /\ row'[tx[p].doc].status # "absent"
    <3>1. tx[p].doc \in Docs
      BY <1>2, TxShape DEF HTypeOK, TypeOK, EndsPass, Reject, Store, At
    <3>2. PICK s \in {"indexed", "pending", "skipped", "failed"} :
            row'[tx[p].doc] = Row(tx[p].content, s, setting[p])
      <4>1. tx[p].parse \in Parsed => StatusOf(tx[p].parse) \in {"indexed", "pending", "skipped"}
        BY DEF StatusOf
      <4> QED
        BY <1>2, <3>1, <4>1, TxShape DEF EndsPass, Reject, Store, HTypeOK, TypeOK, RejectStatus, At
    <3> QED
      BY <3>1, <3>2 DEF Row
  <2>2. row'[tx[p].doc] \in Rows
    BY <1>1, <2>1 DEF TypeOK, NoRow
  <2> QED
    BY <1>2, <2>1, <2>2 DEF HTypeOK, EndsPass
<1> QED
  BY <1>1, <1>2 DEF HTypeOK, HNext, Continues, hvars

\* The history keeps its shape too.
THEOREM HistoryTyping == HSpec => []HTypeOK
<1>1. HInit => HTypeOK
  BY TypeInit DEF HInit, HTypeOK
<1> QED
  BY <1>1, HistoryTypeStep, PTL DEF HSpec

-----------------------------------------------------------------------------

\* What a process has read of a settled row was earned, and stays earned
\* however stale it gets.
EarnedInv ==
  /\ SettledIsEarned
  /\ \A p \in Procs : At(p, "read") /\ tx[p].prev.status \in Settled
       => tx[p].prev \in earned[tx[p].doc]

LEMMA EarnedInvInit == HInit => EarnedInv
  BY DEF HInit, Init, EarnedInv, SettledIsEarned, NoRow, Settled, At, Idle

\* What a file has earned it keeps.
LEMMA EarnedGrows ==
  ASSUME HTypeOK, [HNext]_hvars, NEW d \in Docs
  PROVE  earned[d] \subseteq earned'[d]
  BY DEF HTypeOK, HNext, EndsPass, Continues, hvars

LEMMA EarnedInvStep ==
  ASSUME HTypeOK, EarnedInv, [HNext]_hvars
  PROVE  EarnedInv'
<1> USE DEF At
<1>1. CASE UNCHANGED hvars
  BY <1>1 DEF hvars, vars, EarnedInv, SettledIsEarned
<1>2. ASSUME NEW p \in Procs, EndsPass(p) \/ Continues(p) PROVE EarnedInv'
  <2>0. TypeOK /\ (Fetch(p) \/ Step(p) \/ Restart(p))
    BY <1>2 DEF HTypeOK, EndsPass, Continues, Step
  <2>1. ASSUME NEW d \in Docs, row'[d].status \in Settled PROVE row'[d] \in earned'[d]
    <3>1. CASE row'[d] = row[d]
      BY <2>1, <3>1, EarnedGrows DEF EarnedInv, SettledIsEarned
    <3>2. CASE row'[d] # row[d]
      <4>1. d = tx[p].doc
        BY <2>0, <3>2, RowStep
      <4>2. CASE EndsPass(p)
        BY <2>1, <4>1, <4>2 DEF EndsPass, HTypeOK
      <4>3. CASE Continues(p) /\ Refresh(p)
        <5>1. tx[p].prev \in Rows \cup {NoRow} /\ tx[p].content \in Contents
          BY <2>0, <4>3, TxShape DEF Refresh, TypeOK
        <5>2. row'[d] = tx[p].prev
          BY <2>0, <4>1, <4>3, <5>1 DEF Refresh, IsUnchanged, Row, Rows, TypeOK
        <5>3. row'[d] \in earned[d]
          BY <2>1, <4>1, <4>3, <5>2 DEF EarnedInv, Refresh
        <5> QED
          BY <5>3, EarnedGrows
      <4> QED
        BY <1>2, <3>2, <4>2, <4>3 DEF Continues, Fetch, ReadState, BeginWrite, CacheHit,
           CacheMiss, PutCache, EmbedFails, Restart, db
    <3> QED
      BY <3>1, <3>2
  <2>2. ASSUME NEW q \in Procs, tx'[q].pc = "read", tx'[q].prev.status \in Settled
        PROVE  tx'[q].prev \in earned'[tx'[q].doc]
    <3>1. CASE tx'[q] = tx[q]
      <4>1. tx[q].doc \in Docs /\ tx[q].prev \in earned[tx[q].doc]
        BY <2>0, <2>2, <3>1, TxShape DEF EarnedInv, TypeOK
      <4> QED
        BY <3>1, <4>1, EarnedGrows
    <3>2. CASE tx'[q] # tx[q]
      <4>1. q = p
        BY <2>0, <3>2, Others
      <4>2. /\ tx'[p].prev = row[tx[p].doc] /\ tx'[p].doc = tx[p].doc
            /\ tx[p].doc \in Docs
        BY <2>0, <2>2, <4>1, TxStep, TxShape DEF Idle, TypeOK
      <4>3. row[tx[p].doc] \in earned[tx[p].doc]
        BY <2>2, <4>1, <4>2 DEF EarnedInv, SettledIsEarned
      <4> QED
        BY <4>1, <4>2, <4>3, EarnedGrows
    <3> QED
      BY <3>1, <3>2
  <2> QED
    BY <2>1, <2>2 DEF EarnedInv, SettledIsEarned
<1> QED
  BY <1>1, <1>2 DEF HNext

\* In every deployment, a settled row records work that was really done for
\* that file, with those bytes and that model.
THEOREM SettledRowsAreEarned == HSpec => []SettledIsEarned
<1>1. HTypeOK /\ EarnedInv /\ [HNext]_hvars => EarnedInv'
  BY EarnedInvStep
<1>2. EarnedInv => SettledIsEarned
  BY DEF EarnedInv
<1> QED
  BY <1>1, <1>2, EarnedInvInit, HistoryTyping, PTL DEF HSpec

-----------------------------------------------------------------------------

LEMMA ChunksEarnedStep ==
  ASSUME HTypeOK, ChunksAreEarned, [HNext]_hvars
  PROVE  ChunksAreEarned'
<1>1. CASE UNCHANGED hvars
  BY <1>1 DEF hvars, vars, ChunksAreEarned
<1>2. ASSUME NEW p \in Procs, Continues(p) \/ (EndsPass(p) /\ Reject(p)) PROVE ChunksAreEarned'
  <2>1. chunks' = chunks
    BY <1>2 DEF Continues, Fetch, ReadState, Refresh, BeginWrite, CacheHit, CacheMiss, PutCache,
       Reject, EmbedFails, Restart, db
  <2> QED
    BY <2>1, EarnedGrows DEF ChunksAreEarned
<1>3. ASSUME NEW p \in Procs, EndsPass(p), Store(p) PROVE ChunksAreEarned'
  <2> DEFINE t == tx[p]
  <2>1. t.doc \in Docs /\ t.content \in Contents /\ t.parse \in Parsed
    BY <1>3, TxShape DEF Store, HTypeOK, TypeOK, At
  <2>2. earned'[t.doc] = earned[t.doc] \cup {row'[t.doc]}
    BY <1>3, <2>1 DEF EndsPass, HTypeOK
  <2>3. /\ row'[t.doc] = Row(t.content, StatusOf(t.parse), setting[p])
        /\ chunks'[t.doc] = ChunksOf(t.parse, t.content, setting[p])
        /\ \A d \in Docs \ {t.doc} : chunks'[d] = chunks[d]
    BY <1>3, <2>1 DEF Store, HTypeOK, TypeOK
  <2>4. ASSUME NEW k \in chunks'[t.doc]
        PROVE  Row(k.content, "indexed", k.model) \in earned'[t.doc]
    <3>1. t.parse = "text" /\ k = [content |-> t.content, model |-> setting[p]]
      BY <2>3, <2>4 DEF ChunksOf
    <3>2. StatusOf(t.parse) = "indexed"
      BY <3>1 DEF StatusOf
    <3> QED
      BY <2>2, <2>3, <3>1, <3>2
  <2> QED
    BY <2>3, <2>4, EarnedGrows DEF ChunksAreEarned
<1> QED
  BY <1>1, <1>2, <1>3 DEF HNext, EndsPass

\* In every deployment, a stored chunk was cut from bytes of that file and
\* embedded under a model in a pass that ended "indexed".
THEOREM StoredChunksAreEarned == HSpec => []ChunksAreEarned
<1>1. HInit => ChunksAreEarned
  BY DEF HInit, Init, ChunksAreEarned
<1>2. HTypeOK /\ ChunksAreEarned /\ [HNext]_hvars => ChunksAreEarned'
  BY ChunksEarnedStep
<1> QED
  BY <1>1, <1>2, HistoryTyping, PTL DEF HSpec

=============================================================================
