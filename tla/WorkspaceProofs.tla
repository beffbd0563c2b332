-------------------------- MODULE WorkspaceProofs --------------------------
(***************************************************************************)
(* What a deletion removes with a workspace, and a credential that is      *)
(* granted again, for any processes and commands, workspaces, accounts,    *)
(* files and numbers of each.                                              *)
(***************************************************************************)
EXTENDS Workspace, TLAPS

Places == [pc : Transaction \cup {"idle", "polling", "consenting", "loaded"},
           tenant : 0..born, conn : [tenant : 0..born, account : Accounts],
           todo : SUBSET Files, cred : 0..issued]

TypeInv ==
  /\ WTypeOK
  /\ proc \in [Procs -> Places]
  /\ held = [p \in Procs |-> held[p]]
  /\ \A j \in jobs : j.file \in Files /\ j.conn \in Conns

\* Who can be where: a connection is ensured by `go2 ingest` alone, which
\* works with the upload connection; a credential comes from Google.
RoleInv(p) ==
  LET me == proc[p] IN
  /\ me.conn.tenant = me.tenant
  /\ me.pc # "idle" => me.tenant # None
  /\ me.pc \in {"ensuring", "ensuring jobs", "queueing"} \/ Ensures(p) => Role[p] = "ingest"
  /\ Role[p] = "ingest" => me.conn.account = Local
  /\ me.pc = "polling" => Role[p] = "worker"
  /\ me.pc = "consenting" => Role[p] = "connect"
  /\ me.pc = "loaded" => Role[p] = "sync"
  /\ me.pc = "saving" => Role[p] \in {"connect", "sync"}
  /\ me.pc \in {"loaded", "saving"} => me.cred # Blank /\ me.conn.account # Local

\* What a transaction has locked when it relies on it.
HoldInv(p) ==
  LET me == proc[p] IN
  /\ me.pc = "saving" => held[p] = {}
  /\ me.pc = "queueing" => Ensures(p)
  /\ me.pc = "cascading" => Key(TenantRow(me.tenant)) \in held[p]
  /\ me.pc \in {"of tenant", "of connection", "embedding", "storing"} =>
       Update(DocRow(Doc(me))) \in held[p]
  /\ me.pc \in {"of connection", "embedding", "storing"} /\ ~Stored(Doc(me)) =>
       /\ Share(TenantRow(me.tenant)) \in held[p] /\ Exists(me.tenant)
       /\ me.pc = "of connection" \/ Connected(me.conn) \/ Ensures(p)

\* Nobody holds what somebody else has locked.
Exclusive ==
  \A p, q \in Procs : p # q => \A l \in held[p], m \in held[q] : ~Conflict(l, m)

\* A credential that was granted while nobody had read the one before is the
\* one that every sync has read since.
GrantInv ==
  \A c \in DOMAIN granted : granted[c].late = {} =>
    /\ token[c] = granted[c].cred
    /\ \A p \in Reading(c) : proc[p].cred = granted[c].cred

Inv ==
  /\ TypeInv /\ Exclusive /\ GrantInv /\ Scoped
  /\ \A p \in Procs : RoleInv(p) /\ HoldInv(p)

LEMMA InvAtFirst == Init => Inv
<1> SUFFICES ASSUME Init PROVE Inv
  OBVIOUS
<1>1. PICK local \in Slugs : tenants = [s \in Slugs |-> IF s = local THEN 1 ELSE None]
  BY DEF Init
<1>2. /\ born = 1 /\ token = <<>> /\ docs = {} /\ jobs = {} /\ issued = 0
      /\ proc = [p \in Procs |-> Idle] /\ held = [p \in Procs |-> {}] /\ granted = <<>>
  BY DEF Init
<1>3. DOMAIN token = {} /\ DOMAIN granted = {}
  BY <1>2
<1>4. Idle \in Places
  <2>1. ConnOf(None, Local) \in [tenant : 0..born, account : Accounts]
    BY <1>2 DEF ConnOf, None, Accounts
  <2> QED
    BY <1>2, <2>1 DEF Idle, Places, None, Blank
<1>5. /\ Idle.pc = "idle" /\ Idle.conn.tenant = Idle.tenant /\ Idle.conn.account = Local
      /\ Idle.todo = {} /\ Idle.cred = 0
  BY DEF Idle, ConnOf, Blank
<1>6. TypeInv
  <2>1. proc \in [Procs -> Places] /\ held = [p \in Procs |-> held[p]]
    BY <1>2, <1>4
  <2>2. tenants \in [Slugs -> 0..born] /\ born \in 0..MaxTenants /\ issued \in 0..MaxCredentials
    BY <1>1, <1>2, WorkspaceAssumption DEF None
  <2>3. \A p \in Procs :
          /\ proc[p].pc \in Transaction \cup {"idle", "polling", "consenting", "loaded"}
          /\ proc[p].todo \subseteq Files /\ proc[p].cred \in 0..issued
          /\ held[p] # {} => proc[p].pc \in Transaction
    BY <1>2, <1>5
  <2> QED
    BY <1>2, <1>3, <2>1, <2>2, <2>3 DEF TypeInv, WTypeOK
<1>7. Exclusive /\ GrantInv /\ Scoped
  BY <1>2, <1>3 DEF Exclusive, GrantInv, Scoped
<1>8. \A p \in Procs : RoleInv(p) /\ HoldInv(p)
  BY <1>2, <1>5 DEF RoleInv, HoldInv, Ensures
<1> QED
  BY <1>6, <1>7, <1>8 DEF Inv

-----------------------------------------------------------------------------
(* What one process does to the others. *)

\* The rows that others rely on are still there, and so are their locks.
LEMMA OthersKeep ==
  ASSUME Inv, NEW q \in Procs, proc'[q] = proc[q], held'[q] = held[q],
         DOMAIN token \subseteq DOMAIN token', docs \subseteq docs',
         \A t : t # None /\ Exists(t) => Exists(t)'
  PROVE  RoleInv(q)' /\ HoldInv(q)'
<1>1. RoleInv(q) /\ HoldInv(q)
  BY DEF Inv
<1>2. RoleInv(q)'
  BY <1>1 DEF RoleInv, Ensures
<1>3. Ensures(q)' <=> Ensures(q)
  BY DEF Ensures
<1>4. \A d : Stored(d) => Stored(d)'
  BY DEF Stored
<1>5. Doc(proc[q])' = Doc(proc[q])
  BY DEF Doc, FileOf
<1>6. HoldInv(q)'
  BY <1>1, <1>3, <1>4, <1>5 DEF HoldInv, RoleInv, Connected
<1> QED
  BY <1>2, <1>6

\* A lock is taken only when nobody is in its way.
LEMMA StillExclusive ==
  ASSUME Exclusive, NEW p \in Procs, NEW h, held = [q \in Procs |-> held[q]],
         held' = [held EXCEPT ![p] = h],
         \/ h \subseteq held[p]
         \/ h = held[p] \cup Wants(proc[p]) /\ MayLock(p)
  PROVE  Exclusive'
<1>1. /\ held'[p] = h /\ \A q \in Procs \ {p} : held'[q] = held[q]
  OBVIOUS
<1>2. \A l, m : Conflict(l, m) => Conflict(m, l)
  BY DEF Conflict
<1>3. \A q \in Procs \ {p} : \A l \in h, m \in held[q] : ~Conflict(l, m)
  BY DEF Exclusive, MayLock, WaitsFor
<1> QED
  BY <1>1, <1>2, <1>3 DEF Exclusive

\* A step that moves p and changes its locks alone.
LEMMA MoveKeeps ==
  ASSUME Inv, NEW p \in Procs, NEW me, NEW h,
         proc' = [proc EXCEPT ![p] = me], held' = [held EXCEPT ![p] = h],
         UNCHANGED <<tenants, born, token, docs, jobs, granted>>,
         issued' \in 0..MaxCredentials, issued <= issued',
         me \in Places',
         me.pc \in Transaction \cup {"idle", "polling", "consenting", "loaded"},
         h # {} => me.pc \in Transaction,
         \/ h \subseteq held[p]
         \/ h = held[p] \cup Wants(proc[p]) /\ MayLock(p),
         Role[p] = "sync" /\ me.pc \in {"loaded", "saving"} =>
           \/ me.cred = token[me.conn]
           \/ proc[p].pc \in {"loaded", "saving"} /\ me.conn = proc[p].conn /\ me.cred = proc[p].cred,
         RoleInv(p)', HoldInv(p)'
  PROVE  Inv'
<1>1. /\ TypeInv /\ Exclusive /\ GrantInv /\ Scoped
      /\ \A q \in Procs : RoleInv(q) /\ HoldInv(q)
  BY DEF Inv
<1>2. /\ proc \in [Procs -> Places] /\ held = [q \in Procs |-> held[q]]
      /\ issued \in 0..MaxCredentials /\ born \in 0..MaxTenants
  BY <1>1 DEF TypeInv, WTypeOK
<1>3. /\ proc'[p] = me /\ \A q \in Procs \ {p} : proc'[q] = proc[q]
      /\ held'[p] = h /\ \A q \in Procs \ {p} : held'[q] = held[q]
      /\ held' = [q \in Procs |-> held'[q]]
  BY <1>2
<1>4. Places \subseteq Places'
  <2>1. MaxCredentials \in Nat
    BY WorkspaceAssumption
  <2>2. 0..issued \subseteq 0..issued'
    BY <1>2, <2>1
  <2> QED
    BY <2>2 DEF Places
<1>5. TypeInv'
  <2>1. proc' \in [Procs -> Places']
    BY <1>2, <1>4
  <2>2. \A c \in DOMAIN token : token[c] \in 0..issued'
    <3>1. \A c \in DOMAIN token : token[c] \in 0..issued
      BY <1>1 DEF TypeInv, WTypeOK
    <3> QED
      BY <1>2, <3>1, WorkspaceAssumption
  <2>3. \A q \in Procs :
          /\ proc'[q].pc \in Transaction \cup {"idle", "polling", "consenting", "loaded"}
          /\ held'[q] # {} => proc'[q].pc \in Transaction
    BY <1>1, <1>3 DEF TypeInv, WTypeOK
  <2>4. \A q \in Procs : proc'[q].todo \subseteq Files /\ proc'[q].cred \in 0..issued'
    BY <2>1 DEF Places
  <2> QED
    BY <1>1, <1>3, <2>1, <2>2, <2>3, <2>4 DEF TypeInv, WTypeOK
<1>6. Exclusive'
  BY <1>1, <1>2, StillExclusive
<1>7. Scoped'
  BY <1>1 DEF Scoped, Exists, Connected
<1>8. GrantInv'
  <2> SUFFICES ASSUME NEW c \in DOMAIN granted, granted[c].late = {}, NEW q \in Reading(c)'
               PROVE  proc'[q].cred = granted[c].cred
    BY <1>1 DEF GrantInv
  <2>1. /\ q \in Procs /\ Role[q] = "sync" /\ proc'[q].conn = c
        /\ proc'[q].pc \in {"loaded", "saving"}
    BY DEF Reading
  <2>2. /\ token[c] = granted[c].cred
        /\ \A r \in Procs : Role[r] = "sync" /\ proc[r].conn = c
             /\ proc[r].pc \in {"loaded", "saving"} => proc[r].cred = granted[c].cred
    BY <1>1 DEF GrantInv, Reading
  <2> QED
    BY <1>3, <2>1, <2>2
<1>9. \A q \in Procs \ {p} : RoleInv(q)' /\ HoldInv(q)'
  BY <1>3, OthersKeep DEF Exists
<1> QED
  BY <1>5, <1>6, <1>7, <1>8, <1>9 DEF Inv

-----------------------------------------------------------------------------
(* Where a step takes its process. *)

LEMMA PlaceOf ==
  ASSUME Inv, NEW p \in Procs
  PROVE  /\ proc[p] \in Places /\ RoleInv(p) /\ HoldInv(p)
         /\ held[p] # {} => proc[p].pc \in Transaction
         /\ proc = [q \in Procs |-> proc[q]] /\ held = [q \in Procs |-> held[q]]
         /\ issued \in 0..MaxCredentials /\ born \in 0..MaxTenants
  BY DEF Inv, TypeInv, WTypeOK

LEMMA IdlePlace ==
  ASSUME Inv
  PROVE  /\ Idle \in Places /\ Idle.pc = "idle" /\ Idle.conn.tenant = Idle.tenant
         /\ Idle.conn.account = Local /\ Idle.tenant = None
<1>1. issued \in 0..MaxCredentials /\ born \in 0..MaxTenants
  BY DEF Inv, TypeInv, WTypeOK
<1>2. 0 \in 0..issued /\ 0 \in 0..born
  BY <1>1, WorkspaceAssumption
<1>3. ConnOf(None, Local) \in [tenant : 0..born, account : Accounts]
  BY <1>2 DEF ConnOf, None, Accounts
<1> QED
  BY <1>2, <1>3 DEF Idle, Places, None, Blank, ConnOf

\* The command is over, or its transaction has ended.
LEMMA EndKeeps ==
  ASSUME Inv, NEW p \in Procs, Ends(p), Unlocks(p),
         UNCHANGED <<tenants, born, token, docs, jobs, issued, granted>>
  PROVE  Inv'
<1>1. Idle \in Places' /\ Places' = Places
  BY IdlePlace DEF Places
<1>2. proc' = [proc EXCEPT ![p] = Idle] /\ held' = [held EXCEPT ![p] = {}]
  BY DEF Ends, Unlocks
<1>3. proc'[p] = Idle /\ held'[p] = {}
  BY <1>2, PlaceOf
<1>4. RoleInv(p)' /\ HoldInv(p)'
  BY <1>3, IdlePlace DEF RoleInv, HoldInv, Ensures
<1>5. issued' \in 0..MaxCredentials /\ issued <= issued'
  BY PlaceOf
<1>6. /\ Idle.pc \in Transaction \cup {"idle", "polling", "consenting", "loaded"}
      /\ Idle.pc \notin {"loaded", "saving"}
  BY IdlePlace
<1> QED
  BY <1>1, <1>2, <1>4, <1>5, <1>6, MoveKeeps

LEMMA RollbackKeeps ==
  ASSUME Inv, NEW p \in Procs, proc[p].pc # "idle", Rollback(p)
  PROVE  Inv'
<1>1. CASE Role[p] # "worker"
  BY <1>1, EndKeeps DEF Rollback
<1>2. CASE Role[p] = "worker"
  <2> DEFINE me == [proc[p] EXCEPT !.pc = "polling"]
  <2>1. proc' = [proc EXCEPT ![p] = me] /\ held' = [held EXCEPT ![p] = {}]
    BY <1>2, PlaceOf DEF Rollback, Goes, Unlocks
  <2>2. /\ me \in Places /\ me.pc = "polling" /\ me.tenant = proc[p].tenant
        /\ me.conn = proc[p].conn
    BY PlaceOf DEF Places
  <2> HIDE DEF me
  <2>3. proc'[p] = me /\ held'[p] = {} /\ Places' = Places
    BY <2>1, PlaceOf DEF Rollback, Places
  <2>4. RoleInv(p)' /\ HoldInv(p)'
    BY <1>2, <2>2, <2>3, PlaceOf DEF RoleInv, HoldInv, Ensures
  <2>5. issued' \in 0..MaxCredentials /\ issued <= issued'
    BY PlaceOf DEF Rollback
  <2>6. UNCHANGED <<tenants, born, token, docs, jobs, granted>>
    BY DEF Rollback
  <2> QED
    BY <2>1, <2>2, <2>3, <2>4, <2>5, <2>6, MoveKeeps
<1> QED
  BY <1>1, <1>2

\* A command starts, or goes on, without locks.
LEMMA ResolveKeeps ==
  ASSUME Inv, NEW p \in Procs, NEW me, proc' = [proc EXCEPT ![p] = me],
         UNCHANGED <<tenants, born, token, docs, jobs, held, granted>>,
         issued' \in 0..MaxCredentials, issued <= issued', me \in Places', held[p] = {},
         me.conn.tenant = me.tenant, me.pc # "idle" => me.tenant # None,
         me.pc \in {"ensuring", "ensuring jobs"} => Role[p] = "ingest",
         Role[p] = "ingest" => me.conn.account = Local,
         \/ me.pc \in {"idle", "ensuring", "ensuring jobs", "writing", "deleting"}
         \/ me.pc = "polling" /\ Role[p] = "worker"
         \/ me.pc = "consenting" /\ Role[p] = "connect"
         \/ /\ me.pc \in {"loaded", "saving"} /\ Role[p] = "sync"
            /\ me.cred # Blank /\ me.conn.account # Local
            /\ \/ me.cred = token[me.conn]
               \/ proc[p].pc \in {"loaded", "saving"} /\ me.conn = proc[p].conn
                    /\ me.cred = proc[p].cred
         \/ me.pc = "saving" /\ Role[p] = "connect" /\ me.cred # Blank /\ me.conn.account # Local
  PROVE  Inv'
<1>1. held' = [held EXCEPT ![p] = {}]
  BY PlaceOf
<1>2. proc'[p] = me /\ held'[p] = {}
  BY <1>1, PlaceOf
<1>3. RoleInv(p)' /\ HoldInv(p)'
  BY <1>2 DEF RoleInv, HoldInv, Ensures
<1>4. me.pc \in Transaction \cup {"idle", "polling", "consenting", "loaded"}
  BY DEF Places
<1> QED
  BY <1>1, <1>3, <1>4, MoveKeeps

\* A statement of a transaction gets its locks, or needs none.
LEMMA GoOnKeeps ==
  ASSUME Inv, NEW p \in Procs, NEW pc \in Transaction, Goes(p, pc),
         \/ Locks(p) /\ MayLock(p)
         \/ UNCHANGED held,
         UNCHANGED <<tenants, born, token, docs, jobs, issued, granted>>,
         pc # "saving", pc \in {"ensuring", "ensuring jobs"} => Role[p] = "ingest",
         proc[p].pc # "idle",
         RoleInv(p)', HoldInv(p)'
  PROVE  Inv'
<1> DEFINE me == [proc[p] EXCEPT !.pc = pc]
<1>1. proc' = [proc EXCEPT ![p] = me]
  BY PlaceOf DEF Goes
<1>2. me \in Places /\ me.pc = pc
  BY PlaceOf DEF Places
<1> HIDE DEF me
<1>3. Places' = Places
  BY DEF Places
<1>4. issued' \in 0..MaxCredentials /\ issued <= issued'
  <2>1. issued \in 0..MaxCredentials
    BY PlaceOf
  <2>2. issued' = issued
    OBVIOUS
  <2> QED
    BY ONLY <2>1, <2>2, WorkspaceAssumption
<1>5. me.pc \in Transaction /\ me.pc \notin {"loaded", "saving"}
  BY <1>2 DEF Transaction
<1>6. CASE Locks(p) /\ MayLock(p)
  <2>1. held' = [held EXCEPT ![p] = held[p] \cup Wants(proc[p])]
    BY <1>6 DEF Locks
  <2> DEFINE h == held[p] \cup Wants(proc[p])
  <2>2. held' = [held EXCEPT ![p] = h] /\ h = held[p] \cup Wants(proc[p])
    BY <2>1
  <2> HIDE DEF h
  <2> QED
    BY <1>1, <1>2, <1>3, <1>4, <1>5, <1>6, <2>2, MoveKeeps
<1>7. CASE UNCHANGED held
  <2>1. held' = [held EXCEPT ![p] = held[p]]
    BY <1>7, PlaceOf
  <2> QED
    BY <1>1, <1>2, <1>3, <1>4, <1>5, <2>1, MoveKeeps
<1> QED
  BY <1>6, <1>7

-----------------------------------------------------------------------------
(* The steps that move one process and change no row. *)

LEMMA Unmoved ==
  ASSUME Inv, UNCHANGED <<born, issued>>
  PROVE  Places' = Places /\ issued' \in 0..MaxCredentials /\ issued <= issued'
<1>1. issued \in 0..MaxCredentials
  BY DEF Inv, TypeInv, WTypeOK
<1> QED
  BY <1>1, WorkspaceAssumption DEF Places

\* What a command that has resolved s starts with.
LEMMA Resolved ==
  ASSUME Inv, NEW p \in Procs, NEW s \in Slugs, NEW role, Resolves(p, role, s)
  PROVE  /\ Role[p] = role /\ held[p] = {} /\ tenants[s] # None /\ tenants[s] \in 0..born
<1>1. proc[p].pc = "idle" /\ Role[p] = role /\ tenants[s] # None
  BY DEF Resolves
<1>2. held[p] = {}
  BY <1>1, PlaceOf DEF Transaction
<1> QED
  BY <1>1, <1>2 DEF Inv, TypeInv, WTypeOK

LEMMA StartsKeep ==
  ASSUME Inv, NEW p \in Procs, NEW s \in Slugs,
         IngestStarts(p, s) \/ WorkerStarts(p, s) \/ ConnectStarts(p, s) \/ DeleteStarts(p, s)
  PROVE  Inv'
<1> DEFINE t == tenants[s]
<1>1. UNCHANGED <<tenants, born, token, docs, jobs, issued, held, granted>>
  BY DEF IngestStarts, WorkerStarts, ConnectStarts, DeleteStarts
<1>2. /\ t # None /\ t \in 0..born /\ held[p] = {}
      /\ IngestStarts(p, s) => Role[p] = "ingest"
      /\ WorkerStarts(p, s) => Role[p] = "worker"
      /\ ConnectStarts(p, s) => Role[p] = "connect"
  BY Resolved DEF IngestStarts, WorkerStarts, ConnectStarts, DeleteStarts
<1>3. Local \in Accounts
  BY DEF Accounts
<1> HIDE DEF t
<1>4. /\ Places' = Places /\ issued' \in 0..MaxCredentials /\ issued <= issued'
  BY <1>1, Unmoved
<1>5. CASE WorkerStarts(p, s) \/ ConnectStarts(p, s) \/ DeleteStarts(p, s)
  <2>1. PICK pc \in {"polling", "consenting", "deleting"} :
          /\ proc' = [proc EXCEPT ![p] = At(pc, t, Local)]
          /\ pc = "polling" => WorkerStarts(p, s)
          /\ pc = "consenting" => ConnectStarts(p, s)
    BY <1>5 DEF WorkerStarts, ConnectStarts, DeleteStarts, t
  <2> DEFINE me == At(pc, t, Local)
  <2>2. /\ me \in Places /\ me.pc = pc /\ me.tenant = t /\ me.conn.tenant = t
        /\ me.conn.account = Local
    BY <1>2, <1>3, IdlePlace DEF At, Idle, Places, Transaction, ConnOf
  <2>3. /\ pc = "polling" => Role[p] = "worker"
        /\ pc = "consenting" => Role[p] = "connect"
    BY <2>1, Resolved DEF WorkerStarts, ConnectStarts
  <2>4. proc' = [proc EXCEPT ![p] = me]
    BY <2>1
  <2> HIDE DEF me
  <2> QED
    BY <1>1, <1>2, <1>4, <2>2, <2>3, <2>4, ResolveKeeps
<1>6. CASE IngestStarts(p, s)
  <2>1. PICK pc \in {"ensuring", "ensuring jobs"} :
          proc' = [proc EXCEPT ![p] = [At(pc, t, Local) EXCEPT !.todo = Files]]
    BY <1>6 DEF IngestStarts, t
  <2> DEFINE me == [At(pc, t, Local) EXCEPT !.todo = Files]
  <2>2. /\ At(pc, t, Local) \in Places /\ At(pc, t, Local).pc = pc
        /\ At(pc, t, Local).tenant = t /\ At(pc, t, Local).conn.tenant = t
        /\ At(pc, t, Local).conn.account = Local
    BY <1>2, <1>3, IdlePlace DEF At, Idle, Places, Transaction, ConnOf
  <2>3. /\ me \in Places /\ me.pc = pc /\ me.tenant = t /\ me.conn.tenant = t
        /\ me.conn.account = Local
    BY <2>2 DEF Places
  <2>4. Role[p] = "ingest"
    BY <1>6, Resolved DEF IngestStarts
  <2>5. proc' = [proc EXCEPT ![p] = me]
    BY <2>1
  <2> HIDE DEF me
  <2> QED
    BY <1>1, <1>2, <1>4, <2>3, <2>4, <2>5, ResolveKeeps
<1> QED
  BY <1>5, <1>6

LEMMA LoadTokenKeeps ==
  ASSUME Inv, NEW p \in Procs, NEW s \in Slugs, NEW a \in Google, LoadToken(p, s, a)
  PROVE  Inv'
<1> DEFINE c == ConnOf(tenants[s], a)
           me == [At("loaded", tenants[s], a) EXCEPT !.cred = token[c]]
<1>1. /\ Resolves(p, "sync", s) /\ Connected(c) /\ proc' = [proc EXCEPT ![p] = me]
      /\ UNCHANGED <<tenants, born, token, docs, jobs, issued, held, granted>>
  BY DEF LoadToken
<1>2. /\ tenants[s] # None /\ tenants[s] \in 0..born /\ held[p] = {} /\ Role[p] = "sync"
  BY <1>1, Resolved
<1>3. a \in Accounts /\ a # Local
  BY AccountsAssumption DEF Accounts
<1>4. /\ At("loaded", tenants[s], a) \in Places /\ At("loaded", tenants[s], a).pc = "loaded"
      /\ At("loaded", tenants[s], a).tenant = tenants[s] /\ At("loaded", tenants[s], a).conn = c
  BY <1>2, <1>3, IdlePlace DEF At, Idle, Places, Transaction, ConnOf
<1>5. c.tenant = tenants[s] /\ c.account = a
  BY DEF ConnOf
<1>6. token[c] \in 0..issued /\ token[c] # Blank
  BY <1>1, <1>3, <1>5 DEF Inv, TypeInv, WTypeOK, Connected
<1> HIDE DEF c
<1>7. /\ me \in Places /\ me.pc = "loaded" /\ me.tenant = tenants[s] /\ me.conn = c
      /\ me.cred = token[c]
  BY <1>4, <1>6 DEF Places
<1> HIDE DEF me
<1>8. /\ Places' = Places /\ issued' \in 0..MaxCredentials /\ issued <= issued'
  BY <1>1, Unmoved
<1> QED
  BY <1>1, <1>2, <1>3, <1>5, <1>6, <1>7, <1>8, ResolveKeeps

LEMMA ConsentKeeps ==
  ASSUME Inv, NEW p \in Procs, NEW a \in Google, Consent(p, a)
  PROVE  Inv'
<1> DEFINE t == proc[p].tenant
           me == [At("saving", t, a) EXCEPT !.cred = issued']
<1>1. /\ proc[p].pc = "consenting" /\ issued < MaxCredentials /\ issued' = issued + 1
      /\ proc' = [proc EXCEPT ![p] = me]
      /\ UNCHANGED <<tenants, born, token, docs, jobs, held, granted>>
  BY DEF Consent
<1>2. /\ held[p] = {} /\ t \in 0..born /\ t # None /\ Role[p] = "connect"
  BY <1>1, PlaceOf DEF Transaction, Places, RoleInv
<1>3. a \in Accounts /\ a # Local
  BY AccountsAssumption DEF Accounts
<1> HIDE DEF t
<1>4. /\ At("saving", t, a) \in Places /\ At("saving", t, a).pc = "saving"
      /\ At("saving", t, a).tenant = t
      /\ At("saving", t, a).conn.tenant = t /\ At("saving", t, a).conn.account = a
  BY <1>2, <1>3, IdlePlace DEF At, Idle, Places, Transaction, ConnOf
<1>5. issued \in 0..MaxCredentials
  BY PlaceOf
<1>6. /\ issued' \in 0..MaxCredentials /\ issued <= issued' /\ issued' # Blank
      /\ 0..issued \subseteq 0..issued' /\ issued' \in 0..issued'
  BY <1>1, <1>5, WorkspaceAssumption DEF Blank
<1>7. /\ me \in Places' /\ me.pc = "saving" /\ me.tenant = t /\ me.conn.tenant = t
      /\ me.conn.account = a /\ me.cred = issued'
  <2>1. born' = born
    BY <1>1
  <2> HIDE DEF t
  <2> QED
    BY <1>4, <1>6, <2>1 DEF Places
<1> HIDE DEF me
<1> QED
  BY <1>1, <1>2, <1>3, <1>6, <1>7, ResolveKeeps

LEMMA FreshKeeps ==
  ASSUME Inv, NEW p \in Procs, Fresh(p)
  PROVE  Inv'
<1>1. /\ proc[p].pc = "loaded"
      /\ UNCHANGED <<tenants, born, token, docs, jobs, issued, held, granted>>
  BY DEF Fresh
<1>2. held[p] = {} /\ RoleInv(p) /\ proc[p] \in Places
  BY <1>1, PlaceOf DEF Transaction
<1>3. CASE Ends(p)
  <2>1. Unlocks(p)
    BY <1>1, <1>2, PlaceOf DEF Unlocks
  <2> QED
    BY <1>1, <1>3, <2>1, EndKeeps
<1>4. ASSUME NEW files \in SUBSET Files, NEW pc \in {"writing", "saving"},
             proc' = [proc EXCEPT ![p] = [@ EXCEPT !.pc = pc, !.todo = files]]
      PROVE  Inv'
  <2> DEFINE me == [proc[p] EXCEPT !.pc = pc, !.todo = files]
  <2>1. /\ me \in Places /\ me.pc = pc /\ me.tenant = proc[p].tenant
        /\ me.conn = proc[p].conn /\ me.cred = proc[p].cred
    BY <1>2 DEF Places, Transaction
  <2>2. proc' = [proc EXCEPT ![p] = me]
    BY <1>4
  <2> HIDE DEF me
  <2>3. /\ Places' = Places /\ issued' \in 0..MaxCredentials /\ issued <= issued'
    BY <1>1, Unmoved
  <2>4. /\ me.conn.tenant = me.tenant /\ me.tenant # None /\ Role[p] = "sync"
        /\ me.cred # Blank /\ me.conn.account # Local
    BY <1>1, <1>2, <2>1 DEF RoleInv
  <2> QED
    BY <1>1, <1>2, <2>1, <2>2, <2>3, <2>4, ResolveKeeps
<1> QED
  BY <1>3, <1>4 DEF Fresh

\* A step to another place works on what it worked on.
LEMMA SameWork ==
  ASSUME Inv, NEW p \in Procs, NEW pc, Goes(p, pc)
  PROVE  /\ proc'[p].pc = pc /\ proc'[p].tenant = proc[p].tenant
         /\ proc'[p].conn = proc[p].conn /\ proc'[p].todo = proc[p].todo
         /\ proc'[p].cred = proc[p].cred
         /\ Doc(proc[p])' = Doc(proc[p])
<1>1. /\ proc'[p].pc = pc /\ proc'[p].tenant = proc[p].tenant
      /\ proc'[p].conn = proc[p].conn /\ proc'[p].todo = proc[p].todo
      /\ proc'[p].cred = proc[p].cred
  BY PlaceOf DEF Goes, Places
<1> QED
  BY <1>1 DEF Doc, FileOf

LEMMA EnsureConnectionKeeps ==
  ASSUME Inv, NEW p \in Procs, EnsureConnection(p)
  PROVE  Inv'
<1>1. /\ proc[p].pc \in {"ensuring", "ensuring jobs"} /\ MayLock(p) /\ Locks(p)
      /\ UNCHANGED <<tenants, born, token, docs, jobs, issued, granted>>
  BY DEF EnsureConnection
<1>2. PICK pc \in {"writing", "queueing"} : Goes(p, pc)
  BY DEF EnsureConnection
<1>3. /\ RoleInv(p) /\ Role[p] = "ingest" /\ proc[p].conn.account = Local
      /\ proc[p].conn.tenant = proc[p].tenant /\ proc[p].tenant # None
  BY <1>1, PlaceOf DEF RoleInv
<1>4. held'[p] = held[p] \cup Wants(proc[p])
  BY <1>1, PlaceOf DEF Locks
<1>5. Key(ConnRow(proc[p].conn)) \in held'[p]
  BY <1>1, <1>4 DEF Wants
<1>6. proc'[p].pc = pc /\ proc'[p].tenant = proc[p].tenant /\ proc'[p].conn = proc[p].conn
  BY <1>2, SameWork
<1>7. Ensures(p)'
  BY <1>5, <1>6 DEF Ensures
<1>8. RoleInv(p)' /\ HoldInv(p)'
  BY <1>2, <1>3, <1>6, <1>7 DEF RoleInv, HoldInv
<1> QED
  BY <1>1, <1>2, <1>8, GoOnKeeps DEF Transaction

\* Only `go2 ingest` locks the row of a connection to itself; the locks that
\* the other statements take are others.
LEMMA OtherLocks ==
  ASSUME Inv, NEW p \in Procs, proc'[p].conn = proc[p].conn, NEW t, NEW c, NEW d,
         held'[p] \subseteq held[p] \cup
           {Update(DocRow(d)), Share(TenantRow(t)), Share(ConnRow(c)), Key(TenantRow(t))},
         held[p] \subseteq held'[p]
  PROVE  Ensures(p)' <=> Ensures(p)
<1>1. Key(ConnRow(proc[p].conn)) \notin
        {Update(DocRow(d)), Share(TenantRow(t)), Share(ConnRow(c)), Key(TenantRow(t))}
  BY DEF Key, Update, Share, ConnRow, TenantRow
<1> QED
  BY <1>1 DEF Ensures

LEMMA WriteDocumentKeeps ==
  ASSUME Inv, NEW p \in Procs, WriteDocument(p)
  PROVE  Inv'
<1> DEFINE d == Doc(proc[p])
<1>1. /\ proc[p].pc = "writing" /\ MayLock(p) /\ Locks(p)
      /\ UNCHANGED <<tenants, born, token, docs, jobs, issued, granted>>
  BY DEF WriteDocument
<1>2. PICK pc \in {"embedding", "of tenant"} : Goes(p, pc) /\ (pc = "embedding" => Stored(d))
  BY DEF WriteDocument
<1>3. held'[p] = held[p] \cup {Update(DocRow(d))}
  BY <1>1, PlaceOf DEF Locks, Wants
<1>4. /\ proc'[p].pc = pc /\ proc'[p].tenant = proc[p].tenant /\ proc'[p].conn = proc[p].conn
      /\ d' = d
  BY <1>2, SameWork
<1> HIDE DEF d
<1>5. Ensures(p)' <=> Ensures(p)
  BY <1>3, <1>4, OtherLocks
<1>6. RoleInv(p)'
  BY <1>1, <1>2, <1>4, <1>5, PlaceOf DEF RoleInv
<1>7. Stored(d)' <=> Stored(d)
  BY <1>1, <1>4 DEF Stored
<1>8. HoldInv(p)'
  BY <1>2, <1>3, <1>4, <1>7 DEF HoldInv, d
<1> QED
  BY <1>1, <1>2, <1>6, <1>8, GoOnKeeps DEF Transaction

LEMMA ReferenceKeeps ==
  ASSUME Inv, NEW p \in Procs, Reference(p)
  PROVE  Inv'
<1> DEFINE d == Doc(proc[p])
           t == proc[p].tenant
           c == proc[p].conn
<1>1. /\ proc[p].pc \in {"of tenant", "of connection"} /\ MayLock(p) /\ Locks(p) /\ ~Dangles(p)
      /\ UNCHANGED <<tenants, born, token, docs, jobs, issued, granted>>
  BY DEF Reference
<1>2. held'[p] = held[p] \cup Wants(proc[p])
  BY <1>1, PlaceOf DEF Locks
<1>3. Update(DocRow(d)) \in held'[p]
  BY <1>1, <1>2, PlaceOf DEF HoldInv
<1>4. CASE proc[p].pc = "of tenant"
  <2>1. Goes(p, "of connection") /\ Wants(proc[p]) = {Share(TenantRow(t))}
    BY <1>4 DEF Reference, Wants
  <2>2. /\ proc'[p].pc = "of connection" /\ proc'[p].tenant = t /\ proc'[p].conn = c /\ d' = d
    BY <2>1, SameWork
  <2>3. \E s \in Slugs : tenants'[s] = t
    BY <1>1, <2>1 DEF Dangles, Exists
  <2> HIDE DEF d, t, c
  <2>4. Ensures(p)' <=> Ensures(p)
    BY <1>2, <2>1, <2>2, OtherLocks DEF c
  <2>5. RoleInv(p)'
    BY <1>4, <2>2, <2>4, PlaceOf DEF RoleInv, t, c
  <2>6. HoldInv(p)'
    BY <1>2, <1>3, <2>1, <2>2, <2>3 DEF HoldInv, Exists, d
  <2> QED
    BY <1>1, <2>1, <2>5, <2>6, GoOnKeeps DEF Transaction
<1>5. CASE proc[p].pc = "of connection"
  <2>1. Goes(p, "embedding") /\ Wants(proc[p]) = {Share(ConnRow(c))}
    BY <1>5 DEF Reference, Wants
  <2>2. /\ proc'[p].pc = "embedding" /\ proc'[p].tenant = t /\ proc'[p].conn = c /\ d' = d
    BY <2>1, SameWork
  <2>3. Connected(c) \/ Ensures(p)
    BY <1>1, <1>5 DEF Dangles
  <2>4. ~Stored(d) => Share(TenantRow(t)) \in held[p] /\ Exists(t)
    BY <1>5, PlaceOf DEF HoldInv
  <2> HIDE DEF d, t, c
  <2>5. Ensures(p)' <=> Ensures(p)
    BY <1>2, <2>1, <2>2, OtherLocks DEF c
  <2>6. RoleInv(p)'
    BY <1>5, <2>2, <2>5, PlaceOf DEF RoleInv, t, c
  <2>7. /\ Stored(d)' <=> Stored(d)
        /\ Exists(t)' <=> Exists(t)
        /\ Connected(c)' <=> Connected(c)
    BY <1>1, <2>2 DEF Stored, Exists, Connected, t, c
  <2>8. HoldInv(p)'
    BY <1>2, <1>3, <2>2, <2>3, <2>4, <2>5, <2>7 DEF HoldInv, d, t, c
  <2> QED
    BY <1>1, <2>1, <2>6, <2>8, GoOnKeeps DEF Transaction
<1> QED
  BY <1>1, <1>4, <1>5

LEMMA EmbeddedKeeps ==
  ASSUME Inv, NEW p \in Procs, Embedded(p)
  PROVE  Inv'
<1>1. /\ proc[p].pc = "embedding" /\ Goes(p, "storing") /\ UNCHANGED held
      /\ UNCHANGED <<tenants, born, token, docs, jobs, issued, granted>>
  BY DEF Embedded
<1>2. /\ proc'[p].pc = "storing" /\ proc'[p].tenant = proc[p].tenant
      /\ proc'[p].conn = proc[p].conn /\ Doc(proc[p])' = Doc(proc[p])
  BY <1>1, SameWork
<1>3. Ensures(p)' <=> Ensures(p)
  BY <1>1, <1>2 DEF Ensures
<1>4. RoleInv(p)'
  BY <1>1, <1>2, <1>3, PlaceOf DEF RoleInv
<1>5. HoldInv(p)'
  BY <1>1, <1>2, <1>3, PlaceOf DEF HoldInv, Stored, Exists, Connected
<1> QED
  BY <1>1, <1>4, <1>5, GoOnKeeps DEF Transaction

LEMMA DeleteTenantKeeps ==
  ASSUME Inv, NEW p \in Procs, DeleteTenant(p)
  PROVE  Inv'
<1>1. /\ proc[p].pc = "deleting" /\ MayLock(p)
      /\ UNCHANGED <<tenants, born, token, docs, jobs, issued, granted>>
  BY DEF DeleteTenant
<1>2. CASE Ends(p) /\ Unlocks(p)
  BY <1>1, <1>2, EndKeeps
<1>3. CASE Goes(p, "cascading") /\ Locks(p)
  <2>1. held'[p] = held[p] \cup {Key(TenantRow(proc[p].tenant))}
    BY <1>1, <1>3, PlaceOf DEF Locks, Wants
  <2>2. /\ proc'[p].pc = "cascading" /\ proc'[p].tenant = proc[p].tenant
        /\ proc'[p].conn = proc[p].conn
    BY <1>3, SameWork
  <2>3. Ensures(p)' <=> Ensures(p)
    BY <2>1, <2>2, OtherLocks
  <2>4. RoleInv(p)'
    BY <1>1, <2>2, <2>3, PlaceOf DEF RoleInv
  <2>5. HoldInv(p)'
    BY <2>1, <2>2 DEF HoldInv
  <2> QED
    BY <1>1, <1>3, <2>4, <2>5, GoOnKeeps DEF Transaction
<1> QED
  BY <1>2, <1>3 DEF DeleteTenant

-----------------------------------------------------------------------------
(* The steps that write rows. *)

\* A step of p that removes no row: what it adds is in order.
LEMMA RowsKeep ==
  ASSUME Inv, NEW p \in Procs, NEW me \in Places, NEW h, h \subseteq held[p],
         proc' = [proc EXCEPT ![p] = me], held' = [held EXCEPT ![p] = h],
         UNCHANGED <<tenants, born, issued>>, h # {} => me.pc \in Transaction,
         DOMAIN token \subseteq DOMAIN token', docs \subseteq docs',
         DOMAIN granted' \subseteq DOMAIN token',
         \A c \in DOMAIN token' :
           c \in Conns /\ token'[c] \in 0..issued /\ (token'[c] = Blank <=> c.account = Local),
         \A j \in jobs' : j.file \in Files /\ j.conn \in Conns,
         GrantInv', Scoped', RoleInv(p)', HoldInv(p)'
  PROVE  Inv'
<1>1. /\ TypeInv /\ Exclusive
      /\ proc \in [Procs -> Places] /\ held = [q \in Procs |-> held[q]]
  BY DEF Inv, TypeInv
<1>2. /\ proc'[p] = me /\ \A q \in Procs \ {p} : proc'[q] = proc[q]
      /\ held'[p] = h /\ \A q \in Procs \ {p} : held'[q] = held[q]
      /\ held' = [q \in Procs |-> held'[q]] /\ proc' \in [Procs -> Places]
  BY <1>1
<1>3. TypeInv'
  <2>1. Places' = Places
    BY DEF Places
  <2>2. \A q \in Procs :
          /\ proc'[q].pc \in Transaction \cup {"idle", "polling", "consenting", "loaded"}
          /\ proc'[q].todo \subseteq Files /\ proc'[q].cred \in 0..issued'
    BY <1>2 DEF Places
  <2>3. \A q \in Procs : held'[q] # {} => proc'[q].pc \in Transaction
    BY <1>1, <1>2 DEF TypeInv, WTypeOK
  <2>4. /\ tenants' \in [Slugs -> 0..born'] /\ born' \in 0..MaxTenants
        /\ issued' \in 0..MaxCredentials
    BY <1>1 DEF TypeInv, WTypeOK
  <2>5. /\ DOMAIN token' \subseteq Conns
        /\ \A c \in DOMAIN token' :
             token'[c] \in 0..issued' /\ (token'[c] = Blank <=> c.account = Local)
    OBVIOUS
  <2>6. WTypeOK'
    BY <2>2, <2>3, <2>4, <2>5 DEF WTypeOK
  <2> QED
    BY <1>2, <2>1, <2>6 DEF TypeInv
<1>4. Exclusive'
  BY <1>1, StillExclusive
<1>5. \A q \in Procs \ {p} : RoleInv(q)' /\ HoldInv(q)'
  BY <1>2, OthersKeep DEF Exists
<1> QED
  BY <1>3, <1>4, <1>5 DEF Inv

\* Nothing is granted and no credential changes; p has none in hand.
LEMMA GrantStays ==
  ASSUME Inv, NEW p \in Procs, \A q \in Procs \ {p} : proc'[q] = proc[q],
         proc'[p].pc \notin {"loaded", "saving"}, UNCHANGED granted,
         \A c \in DOMAIN token : token'[c] = token[c]
  PROVE  GrantInv'
<1> SUFFICES ASSUME NEW c \in DOMAIN granted, granted[c].late = {}
             PROVE  /\ token'[c] = granted[c].cred
                    /\ \A q \in Reading(c)' : proc'[q].cred = granted[c].cred
  BY DEF GrantInv
<1>1. /\ c \in DOMAIN token /\ token[c] = granted[c].cred
      /\ \A q \in Reading(c) : proc[q].cred = granted[c].cred
  BY DEF Inv, GrantInv, TypeInv, WTypeOK
<1>2. \A q \in Reading(c)' : q # p /\ q \in Reading(c) /\ proc'[q] = proc[q]
  BY DEF Reading
<1> QED
  BY <1>1, <1>2

\* A connection that is ensured is an upload connection, with no token.
LEMMA EnsuredRows ==
  ASSUME Inv, NEW p \in Procs, proc[p].pc # "idle", token' = Ensured(p)
  PROVE  /\ DOMAIN token \subseteq DOMAIN token'
         /\ DOMAIN token' \subseteq DOMAIN token \cup {proc[p].conn}
         /\ \A c \in DOMAIN token : token'[c] = token[c]
         /\ Ensures(p) => proc[p].conn \in DOMAIN token'
         /\ \A c \in DOMAIN token' :
              c \in Conns /\ token'[c] \in 0..issued /\ (token'[c] = Blank <=> c.account = Local)
<1> DEFINE c == proc[p].conn
<1>1. \A d \in DOMAIN token :
        d \in Conns /\ token[d] \in 0..issued /\ (token[d] = Blank <=> d.account = Local)
  BY DEF Inv, TypeInv, WTypeOK
<1>2. CASE Ensures(p) /\ ~Connected(c)
  <2>1. token' = [d \in DOMAIN token \cup {c} |-> IF d = c THEN Blank ELSE token[d]]
    BY <1>2 DEF Ensured, Upsert
  <2>2. c.account = Local /\ c.tenant = proc[p].tenant /\ proc[p].tenant # None
    BY <1>2, PlaceOf DEF RoleInv
  <2>3. c \in [tenant : 0..born, account : Accounts] /\ born \in 0..MaxTenants
    BY PlaceOf DEF Places
  <2>4. c \in Conns
    <3>1. c.tenant \in Ids
      BY <2>2, <2>3, WorkspaceAssumption DEF Ids, None
    <3> QED
      BY <2>3, <3>1 DEF Conns
  <2>5. Blank \in 0..issued
    BY PlaceOf, WorkspaceAssumption DEF Blank
  <2>6. c \notin DOMAIN token
    BY <1>2 DEF Connected
  <2> HIDE DEF c
  <2>7. /\ DOMAIN token' = DOMAIN token \cup {c} /\ token'[c] = Blank
        /\ \A d \in DOMAIN token : token'[d] = token[d]
    BY <2>1, <2>6
  <2> QED
    BY <1>1, <2>2, <2>4, <2>5, <2>7 DEF c
<1>3. CASE ~(Ensures(p) /\ ~Connected(c))
  <2>1. token' = token
    BY <1>3 DEF Ensured
  <2> QED
    BY <1>1, <1>3, <2>1 DEF Connected
<1> QED
  BY <1>2, <1>3

LEMMA EnqueueKeeps ==
  ASSUME Inv, NEW p \in Procs, Enqueue(p)
  PROVE  Inv'
<1> DEFINE me == proc[p]
<1>1. /\ me.pc = "queueing" /\ ~Dangles(p) /\ token' = Ensured(p)
      /\ jobs' = jobs \cup {[tenant |-> me.tenant, conn |-> me.conn, file |-> f] : f \in me.todo}
      /\ Ends(p) /\ Unlocks(p)
      /\ UNCHANGED <<tenants, born, docs, issued, granted>>
  BY DEF Enqueue
<1>2. /\ RoleInv(p) /\ Ensures(p) /\ me.todo \subseteq Files /\ me.conn.tenant = me.tenant
  BY <1>1, PlaceOf DEF HoldInv, RoleInv, Places
<1>3. /\ DOMAIN token \subseteq DOMAIN token'
      /\ DOMAIN token' \subseteq DOMAIN token \cup {me.conn}
      /\ \A c \in DOMAIN token : token'[c] = token[c]
      /\ me.conn \in DOMAIN token'
      /\ \A c \in DOMAIN token' :
           c \in Conns /\ token'[c] \in 0..issued /\ (token'[c] = Blank <=> c.account = Local)
  BY <1>1, <1>2, EnsuredRows
<1>4. Exists(me.tenant)
  BY <1>1 DEF Dangles, Wants
<1>5. /\ proc' = [proc EXCEPT ![p] = Idle] /\ held' = [held EXCEPT ![p] = {}]
      /\ proc'[p] = Idle /\ held'[p] = {} /\ \A q \in Procs \ {p} : proc'[q] = proc[q]
  BY <1>1, PlaceOf DEF Ends, Unlocks
<1>6. RoleInv(p)' /\ HoldInv(p)'
  BY <1>5, IdlePlace DEF RoleInv, HoldInv, Ensures
<1>7. GrantInv'
  BY <1>1, <1>3, <1>5, IdlePlace, GrantStays
<1> HIDE DEF me
<1>8. \A j \in jobs' : j \in jobs \/ (/\ j.tenant = me.tenant /\ j.conn = me.conn
                                      /\ j.file \in Files)
  BY <1>1, <1>2
<1>9. \A j \in jobs' : j.file \in Files /\ j.conn \in Conns
  BY <1>3, <1>8 DEF Inv, TypeInv
<1>10. Scoped'
  <2>1. \A c \in DOMAIN token' : Exists(c.tenant)
    BY <1>2, <1>3, <1>4 DEF Inv, Scoped
  <2>2. \A r \in docs \cup jobs' :
          Exists(r.tenant) /\ r.conn \in DOMAIN token' /\ r.conn.tenant = r.tenant
    BY <1>2, <1>3, <1>4, <1>8 DEF Inv, Scoped, Connected
  <2> QED
    BY <1>1, <2>1, <2>2 DEF Scoped, Exists, Connected
<1>11. DOMAIN granted' \subseteq DOMAIN token'
  BY <1>1, <1>3 DEF Inv, TypeInv, WTypeOK
<1> QED
  BY <1>1, <1>3, <1>5, <1>6, <1>7, <1>9, <1>10, <1>11, IdlePlace, RowsKeep

\* What a document refers to is there when its transaction commits.
LEMMA Secured ==
  ASSUME Inv, NEW p \in Procs, proc[p].pc \in {"embedding", "storing"}
  PROVE  /\ Exists(proc[p].tenant)
         /\ ~Stored(Doc(proc[p])) => Connected(proc[p].conn) \/ Ensures(p)
<1>1. HoldInv(p) /\ Scoped
  BY DEF Inv
<1>2. CASE Stored(Doc(proc[p]))
  <2>1. PICK e \in docs : DocRow(e) = DocRow(Doc(proc[p]))
    BY <1>2 DEF Stored
  <2>2. e.tenant = proc[p].tenant
    BY <2>1 DEF DocRow, Doc
  <2> QED
    BY <1>1, <1>2, <2>2 DEF Scoped
<1>3. CASE ~Stored(Doc(proc[p]))
  BY <1>1, <1>3 DEF HoldInv
<1> QED
  BY <1>2, <1>3

LEMMA CommitKeeps ==
  ASSUME Inv, NEW p \in Procs, Commit(p)
  PROVE  Inv'
<1> DEFINE me == proc[p]
           d == Doc(me)
           rest == me.todo \ {FileOf(me)}
           pc == IF Role[p] = "ingest" THEN "ensuring" ELSE "writing"
           next == IF Role[p] = "worker" THEN [me EXCEPT !.pc = "polling", !.todo = {}]
                   ELSE IF rest = {} THEN Idle ELSE [me EXCEPT !.pc = pc, !.todo = rest]
<1>1. /\ me.pc \in {"embedding", "storing"} /\ token' = Ensured(p)
      /\ docs' = IF Stored(d) THEN docs ELSE docs \cup {d}
      /\ proc' = [proc EXCEPT ![p] = next]
      /\ Unlocks(p)
      /\ UNCHANGED <<tenants, born, jobs, issued, granted>>
  BY DEF Commit
<1>2. /\ me \in Places /\ RoleInv(p) /\ me.conn.tenant = me.tenant /\ me.tenant # None
  BY <1>1, PlaceOf DEF RoleInv
<1>3. /\ Exists(me.tenant)
      /\ ~Stored(d) => Connected(me.conn) \/ Ensures(p)
  BY <1>1, Secured
<1>4. d.tenant = me.tenant /\ d.conn = me.conn
  BY DEF Doc
<1>5. /\ next \in Places
      /\ \/ next = Idle
         \/ /\ next.tenant = me.tenant /\ next.conn = me.conn
            /\ \/ next.pc = "polling" /\ Role[p] = "worker"
               \/ next.pc = "ensuring" /\ Role[p] = "ingest"
               \/ next.pc = "writing"
  <2>1. rest \in SUBSET Files
    BY <1>2 DEF Places
  <2> HIDE DEF rest
  <2>2. ASSUME NEW to \in {"polling", "ensuring", "writing"}, NEW todo \in SUBSET Files,
               NEW new, new = [me EXCEPT !.pc = to, !.todo = todo]
        PROVE  new \in Places /\ new.pc = to /\ new.tenant = me.tenant /\ new.conn = me.conn
    BY <1>2, <2>2 DEF Places, Transaction
  <2>3. CASE Role[p] = "worker"
    <3>1. next = [me EXCEPT !.pc = "polling", !.todo = {}]
      BY <2>3
    <3> QED
      BY <2>2, <2>3, <3>1
  <2>4. CASE Role[p] # "worker" /\ rest = {}
    <3>1. next = Idle
      BY <2>4
    <3> QED
      BY <3>1, IdlePlace
  <2>5. CASE Role[p] # "worker" /\ rest # {}
    <3>1. next = [me EXCEPT !.pc = pc, !.todo = rest]
      BY <2>5
    <3>2. pc \in {"ensuring", "writing"} /\ (pc = "ensuring" => Role[p] = "ingest")
      OBVIOUS
    <3> HIDE DEF pc, next
    <3>3. next \in Places /\ next.pc = pc /\ next.tenant = me.tenant /\ next.conn = me.conn
      BY <2>1, <2>2, <3>1, <3>2
    <3> QED
      BY <3>2, <3>3
  <2> QED
    BY <2>3, <2>4, <2>5
<1> HIDE DEF d, next
<1>6. /\ DOMAIN token \subseteq DOMAIN token'
      /\ DOMAIN token' \subseteq DOMAIN token \cup {me.conn}
      /\ \A c \in DOMAIN token : token'[c] = token[c]
      /\ Ensures(p) => me.conn \in DOMAIN token'
      /\ \A c \in DOMAIN token' :
           c \in Conns /\ token'[c] \in 0..issued /\ (token'[c] = Blank <=> c.account = Local)
  BY <1>1, EnsuredRows
<1>7. /\ held' = [held EXCEPT ![p] = {}]
      /\ proc'[p] = next /\ held'[p] = {} /\ \A q \in Procs \ {p} : proc'[q] = proc[q]
  BY <1>1, PlaceOf DEF Unlocks
<1>8. RoleInv(p)' /\ HoldInv(p)'
  <2>1. ~Ensures(p)'
    BY <1>7 DEF Ensures
  <2>2. CASE next = Idle
    BY <1>7, <2>1, <2>2, IdlePlace DEF RoleInv, HoldInv
  <2>3. CASE next # Idle
    <3>1. Role[p] = "ingest" => me.conn.account = Local
      BY <1>2 DEF RoleInv
    <3> QED
      BY <1>2, <1>5, <1>7, <2>1, <2>3, <3>1 DEF RoleInv, HoldInv
  <2> QED
    BY <2>2, <2>3
<1>9. GrantInv'
  <2>1. next.pc \notin {"loaded", "saving"}
    BY <1>5, IdlePlace
  <2> QED
    BY <1>1, <1>6, <1>7, <2>1, GrantStays
<1>10. Scoped'
  <2>1. \A c \in DOMAIN token' : Exists(c.tenant)
    BY <1>2, <1>3, <1>6 DEF Inv, Scoped
  <2>2. \A r \in docs' : r \in docs \/ (r = d /\ ~Stored(d))
    BY <1>1
  <2>3. me.conn \in DOMAIN token' \/ Stored(d)
    BY <1>3, <1>6 DEF Connected
  <2>4. \A r \in docs' \cup jobs :
          Exists(r.tenant) /\ r.conn \in DOMAIN token' /\ r.conn.tenant = r.tenant
    BY <1>2, <1>3, <1>4, <1>6, <2>2, <2>3 DEF Inv, Scoped, Connected
  <2> QED
    BY <1>1, <2>1, <2>4 DEF Scoped, Exists, Connected
<1>11. DOMAIN granted' \subseteq DOMAIN token' /\ docs \subseteq docs'
  BY <1>1, <1>6 DEF Inv, TypeInv, WTypeOK
<1>12. \A j \in jobs' : j.file \in Files /\ j.conn \in Conns
  BY <1>1 DEF Inv, TypeInv
<1> QED
  BY <1>1, <1>5, <1>6, <1>7, <1>8, <1>9, <1>10, <1>11, <1>12, RowsKeep

LEMMA ClaimKeeps ==
  ASSUME Inv, NEW p \in Procs, NEW j \in jobs, Claim(p, j)
  PROVE  Inv'
<1> DEFINE me == [proc[p] EXCEPT !.pc = "writing", !.conn = j.conn, !.todo = {j.file}]
<1>1. /\ proc[p].pc = "polling" /\ j.tenant = proc[p].tenant
      /\ jobs' = jobs \ {j} /\ proc' = [proc EXCEPT ![p] = me]
      /\ UNCHANGED <<tenants, born, token, docs, issued, held, granted>>
  BY DEF Claim, ClaimableBy
<1>2. /\ proc[p] \in Places /\ RoleInv(p) /\ held[p] = {} /\ Role[p] = "worker"
      /\ proc[p].tenant # None
  BY <1>1, PlaceOf DEF Transaction, RoleInv
<1>3. /\ j.file \in Files /\ j.conn \in Conns /\ j.conn.tenant = proc[p].tenant
  BY <1>1 DEF Inv, TypeInv, Scoped
<1>4. me \in Places /\ me.pc = "writing" /\ me.tenant = proc[p].tenant /\ me.conn = j.conn
  <2>1. j.conn \in [tenant : 0..born, account : Accounts]
    BY <1>2, <1>3 DEF Conns, Places
  <2> QED
    BY <1>2, <1>3, <2>1 DEF Places, Transaction
<1> HIDE DEF me
<1>5. /\ held' = [held EXCEPT ![p] = {}] /\ held'[p] = {} /\ proc'[p] = me
      /\ \A q \in Procs \ {p} : proc'[q] = proc[q]
  BY <1>1, <1>2, PlaceOf
<1>6. RoleInv(p)' /\ HoldInv(p)'
  BY <1>2, <1>3, <1>4, <1>5 DEF RoleInv, HoldInv, Ensures
<1>7. GrantInv'
  BY <1>1, <1>4, <1>5, GrantStays
<1>8. Scoped'
  BY <1>1 DEF Inv, Scoped, Exists, Connected
<1>9. /\ \A c \in DOMAIN token :
           c \in Conns /\ token[c] \in 0..issued /\ (token[c] = Blank <=> c.account = Local)
      /\ DOMAIN granted \subseteq DOMAIN token
      /\ \A i \in jobs' : i.file \in Files /\ i.conn \in Conns
  BY <1>1 DEF Inv, TypeInv, WTypeOK
<1> QED
  BY <1>1, <1>4, <1>5, <1>6, <1>7, <1>8, <1>9, RowsKeep

LEMMA SaveTokenKeeps ==
  ASSUME Inv, NEW p \in Procs, SaveToken(p)
  PROVE  Inv'
<1> DEFINE me == proc[p]
           c == me.conn
<1>1. /\ me.pc = "saving" /\ ~Dangles(p) /\ token' = Upsert(token, c, me.cred)
      /\ IF Role[p] = "connect"
         THEN granted' = Upsert(granted, c, [cred |-> me.cred, late |-> Reading(c)]) /\ Ends(p)
         ELSE Goes(p, "writing") /\ UNCHANGED granted
      /\ UNCHANGED <<tenants, born, docs, jobs, issued, held>>
  BY DEF SaveToken, Replaces
<1>2. /\ me \in Places /\ RoleInv(p) /\ held[p] = {} /\ c.tenant = me.tenant /\ me.tenant # None
      /\ me.cred # Blank /\ c.account # Local /\ Role[p] \in {"connect", "sync"}
  BY <1>1, PlaceOf DEF RoleInv, HoldInv
<1>3. me.cred \in 0..issued /\ c \in [tenant : 0..born, account : Accounts] /\ born \in 0..MaxTenants
  BY <1>2, PlaceOf DEF Places
<1>4. c \in Conns
  <2>1. c.tenant \in Ids
    BY <1>2, <1>3, WorkspaceAssumption DEF Ids, None
  <2> QED
    BY <1>3, <2>1 DEF Conns
<1>5. Exists(c.tenant)
  BY <1>1, <1>2 DEF Dangles, Wants, NewConn, Connected, Inv, Scoped
<1>6. /\ DOMAIN token' = DOMAIN token \cup {c} /\ token'[c] = me.cred
      /\ \A d \in DOMAIN token \ {c} : token'[d] = token[d]
  BY <1>1 DEF Upsert
<1>7. /\ \A d \in DOMAIN token' :
           d \in Conns /\ token'[d] \in 0..issued /\ (token'[d] = Blank <=> d.account = Local)
  <2>1. \A d \in DOMAIN token :
          d \in Conns /\ token[d] \in 0..issued /\ (token[d] = Blank <=> d.account = Local)
    BY DEF Inv, TypeInv, WTypeOK
  <2> HIDE DEF c
  <2> QED
    BY <1>2, <1>3, <1>4, <1>6, <2>1
<1>8. Scoped'
  <2>1. \A d \in DOMAIN token' : Exists(d.tenant)
    BY <1>5, <1>6 DEF Inv, Scoped
  <2>2. \A r \in docs \cup jobs :
          Exists(r.tenant) /\ r.conn \in DOMAIN token' /\ r.conn.tenant = r.tenant
    BY <1>6 DEF Inv, Scoped, Connected
  <2> QED
    BY <1>1, <2>1, <2>2 DEF Scoped, Exists, Connected
<1>9. /\ held' = [held EXCEPT ![p] = {}] /\ held'[p] = {}
  BY <1>1, <1>2, PlaceOf
<1>10. /\ \A d \in DOMAIN granted : granted[d].late = {} =>
            /\ d \in DOMAIN token /\ token[d] = granted[d].cred
            /\ \A q \in Reading(d) : proc[q].cred = granted[d].cred
       /\ DOMAIN granted \subseteq DOMAIN token
       /\ \A j \in jobs' : j.file \in Files /\ j.conn \in Conns
  BY <1>1 DEF Inv, GrantInv, TypeInv, WTypeOK
<1> HIDE DEF c
<1>11. CASE Role[p] = "connect"
  <2> DEFINE grant == [cred |-> me.cred, late |-> Reading(c)]
  <2>1. /\ granted' = Upsert(granted, c, grant) /\ proc' = [proc EXCEPT ![p] = Idle]
    BY <1>1, <1>11 DEF Ends
  <2>2. grant.cred = me.cred /\ grant.late = Reading(c)
    OBVIOUS
  <2> HIDE DEF grant
  <2>3. /\ DOMAIN granted' = DOMAIN granted \cup {c} /\ granted'[c] = grant
        /\ \A d \in DOMAIN granted \ {c} : granted'[d] = granted[d]
    BY <2>1 DEF Upsert
  <2>4. proc'[p] = Idle /\ \A q \in Procs \ {p} : proc'[q] = proc[q]
    BY <2>1, PlaceOf
  <2>5. \A d : \A q \in Reading(d)' : q \in Reading(d) /\ proc'[q] = proc[q]
    BY <2>4, IdlePlace DEF Reading
  <2>6. GrantInv'
    <3> SUFFICES ASSUME NEW d \in DOMAIN granted', granted'[d].late = {}
                 PROVE  /\ token'[d] = granted'[d].cred
                        /\ \A q \in Reading(d)' : proc'[q].cred = granted'[d].cred
      BY DEF GrantInv
    <3>1. CASE d = c
      BY <1>6, <2>2, <2>3, <2>5, <3>1
    <3>2. CASE d # c
      BY <1>6, <1>10, <2>3, <2>5, <3>2
    <3> QED
      BY <3>1, <3>2
  <2>7. RoleInv(p)' /\ HoldInv(p)'
    BY <1>9, <2>4, IdlePlace DEF RoleInv, HoldInv, Ensures
  <2>8. DOMAIN granted' \subseteq DOMAIN token'
    BY <1>6, <1>10, <2>3
  <2> QED
    BY <1>1, <1>6, <1>7, <1>8, <1>9, <1>10, <2>1, <2>6, <2>7, <2>8, IdlePlace, RowsKeep
<1>12. CASE Role[p] = "sync"
  <2> DEFINE new == [me EXCEPT !.pc = "writing"]
  <2>1. UNCHANGED granted /\ Goes(p, "writing") /\ proc' = [proc EXCEPT ![p] = new]
    BY <1>1, <1>12, PlaceOf DEF Goes
  <2>2. new \in Places /\ new.pc = "writing" /\ new.tenant = me.tenant /\ new.conn = c
    BY <1>2 DEF Places, Transaction, c
  <2> HIDE DEF new
  <2>3. proc'[p] = new /\ \A q \in Procs \ {p} : proc'[q] = proc[q]
    BY <2>1, PlaceOf
  <2>4. \A d : \A q \in Reading(d)' : q \in Reading(d) /\ proc'[q] = proc[q]
    BY <2>2, <2>3 DEF Reading
  <2>5. p \in Reading(c)
    BY <1>1, <1>12 DEF Reading, c
  <2>6. GrantInv'
    <3> SUFFICES ASSUME NEW d \in DOMAIN granted, granted[d].late = {}
                 PROVE  /\ token'[d] = granted[d].cred
                        /\ \A q \in Reading(d)' : proc'[q].cred = granted[d].cred
      BY <2>1 DEF GrantInv
    <3>1. CASE d = c
      BY <1>6, <1>10, <2>4, <2>5, <3>1
    <3>2. CASE d # c
      BY <1>6, <1>10, <2>4, <3>2
    <3> QED
      BY <3>1, <3>2
  <2>7. RoleInv(p)' /\ HoldInv(p)'
    BY <1>2, <1>9, <1>12, <2>2, <2>3 DEF RoleInv, HoldInv, Ensures
  <2> QED
    BY <1>1, <1>6, <1>7, <1>8, <1>9, <1>10, <2>1, <2>2, <2>6, <2>7, RowsKeep
<1> QED
  BY <1>2, <1>11, <1>12

-----------------------------------------------------------------------------
(* A workspace that is created, and one that goes with all of its rows. *)

LEMMA CreateTenantKeeps ==
  ASSUME Inv, NEW s \in Slugs, CreateTenant(s)
  PROVE  Inv'
<1>1. /\ tenants[s] = None /\ born < MaxTenants /\ born' = born + 1
      /\ tenants' = [tenants EXCEPT ![s] = born']
      /\ UNCHANGED <<token, docs, jobs, issued, proc, held, granted>>
  BY DEF CreateTenant
<1>2. /\ tenants \in [Slugs -> 0..born] /\ born \in 0..MaxTenants
      /\ proc \in [Procs -> Places] /\ held = [q \in Procs |-> held[q]]
  BY DEF Inv, TypeInv, WTypeOK
<1>3. 0..born \subseteq 0..born' /\ born' \in 0..born' /\ born' \in 0..MaxTenants
  BY <1>1, <1>2, WorkspaceAssumption
<1>4. tenants' \in [Slugs -> 0..born']
  BY <1>1, <1>2, <1>3
<1>5. \A t : t # None /\ Exists(t) => Exists(t)'
  BY <1>1, <1>2 DEF Exists
<1>6. TypeInv'
  <2>1. Places \subseteq Places'
    BY <1>1, <1>3 DEF Places
  <2>2. proc' \in [Procs -> Places']
    BY <1>1, <1>2, <2>1
  <2>3. WTypeOK'
    BY <1>1, <1>3, <1>4 DEF Inv, TypeInv, WTypeOK
  <2> QED
    BY <1>1, <2>2, <2>3 DEF Inv, TypeInv
<1>7. Exclusive' /\ GrantInv'
  BY <1>1 DEF Inv, Exclusive, GrantInv, Reading
<1>8. Scoped'
  <2>1. \A c \in DOMAIN token : c.tenant # None
    BY WorkspaceAssumption DEF Inv, TypeInv, WTypeOK, Conns, Ids, None
  <2> QED
    BY <1>1, <1>5, <2>1 DEF Inv, Scoped, Connected
<1>9. \A q \in Procs : RoleInv(q)' /\ HoldInv(q)'
  BY <1>1, <1>5, OthersKeep
<1> QED
  BY <1>6, <1>7, <1>8, <1>9 DEF Inv

\* A transaction that is going to refer to a workspace, or that has found the
\* document it writes, keeps the workspace, or the document, from being
\* deleted: this is what the locks are for.
LEMMA CascadeSparesOthers ==
  ASSUME Inv, NEW p \in Procs, Cascade(p), NEW q \in Procs, q # p
  PROVE  RoleInv(q)' /\ HoldInv(q)'
<1> DEFINE t == proc[p].tenant
           me == proc[q]
<1>1. /\ proc[p].pc = "cascading" /\ MayLock(p)
      /\ tenants' = [s \in Slugs |-> IF tenants[s] = t THEN None ELSE tenants[s]]
      /\ token' = [c \in DOMAIN token \ {c \in DOMAIN token : c.tenant = t} |-> token[c]]
      /\ docs' = {d \in docs : d.tenant # t}
  BY DEF Cascade
<1>2. proc'[q] = me /\ held'[q] = held[q]
  BY PlaceOf DEF Cascade, Ends, Unlocks
<1>3. RoleInv(q) /\ HoldInv(q)
  BY DEF Inv
<1>4. RoleInv(q)'
  BY <1>2, <1>3 DEF RoleInv, Ensures
<1>5. Ensures(q)' <=> Ensures(q)
  BY <1>2 DEF Ensures
<1>6. Doc(me)' = Doc(me)
  BY <1>2 DEF Doc, FileOf
<1>7. Key(TenantRow(t)) \in held[p]
  BY <1>1, PlaceOf DEF HoldInv
<1>8. ASSUME Share(TenantRow(me.tenant)) \in held[q]
      PROVE  me.tenant # t
  BY <1>7, <1>8 DEF Inv, Exclusive, Conflict, Key, Share
<1>9. ASSUME Update(DocRow(Doc(me))) \in held[q], Stored(Doc(me))
      PROVE  Stored(Doc(me))'
  <2>1. PICK e \in docs : DocRow(e) = DocRow(Doc(me))
    BY <1>9 DEF Stored
  <2>2. CASE e.tenant = t
    <3>1. Key(DocRow(e)) \in Wants(proc[p])
      BY <1>1, <2>2 DEF Wants
    <3>2. Conflict(Key(DocRow(e)), Update(DocRow(Doc(me))))
      BY <2>1 DEF Conflict, Key, Update
    <3> QED
      BY <1>1, <1>9, <3>1, <3>2 DEF MayLock, WaitsFor
  <2>3. CASE e.tenant # t
    BY <1>1, <1>6, <2>1, <2>3 DEF Stored
  <2> QED
    BY <2>2, <2>3
<1>10. ASSUME me.tenant # t
       PROVE  /\ Exists(me.tenant) => Exists(me.tenant)'
              /\ Connected(me.conn) => Connected(me.conn)'
  <2>1. me.conn.tenant # t
    BY <1>3, <1>10 DEF RoleInv
  <2> HIDE DEF t
  <2>2. Exists(me.tenant) => Exists(me.tenant)'
    BY <1>1, <1>2, <1>10 DEF Exists
  <2>3. Connected(me.conn) => Connected(me.conn)'
    BY <1>1, <1>2, <2>1 DEF Connected
  <2> QED
    BY <2>2, <2>3
<1> HIDE DEF t
<1>11. HoldInv(q)'
  BY <1>2, <1>3, <1>5, <1>6, <1>8, <1>9, <1>10 DEF HoldInv
<1> QED
  BY <1>4, <1>11

LEMMA CascadeKeeps ==
  ASSUME Inv, NEW p \in Procs, Cascade(p)
  PROVE  Inv'
<1> DEFINE t == proc[p].tenant
           gone == {c \in DOMAIN token : c.tenant = t}
<1>1. /\ tenants' = [s \in Slugs |-> IF tenants[s] = t THEN None ELSE tenants[s]]
      /\ token' = [c \in DOMAIN token \ gone |-> token[c]]
      /\ granted' = [c \in DOMAIN granted \ gone |-> granted[c]]
      /\ docs' = {d \in docs : d.tenant # t}
      /\ jobs' = {j \in jobs : j.tenant # t}
      /\ proc' = [proc EXCEPT ![p] = Idle] /\ held' = [held EXCEPT ![p] = {}]
      /\ UNCHANGED <<born, issued>>
  BY DEF Cascade, Ends, Unlocks
<1> HIDE DEF t
<1>2. /\ proc'[p] = Idle /\ held'[p] = {}
      /\ \A q \in Procs \ {p} : proc'[q] = proc[q] /\ held'[q] = held[q]
  BY <1>1, PlaceOf
<1>3. /\ DOMAIN token' = {c \in DOMAIN token : c.tenant # t}
      /\ \A c \in DOMAIN token' : token'[c] = token[c]
  BY <1>1
<1>4. /\ DOMAIN granted' \subseteq DOMAIN granted /\ DOMAIN granted' \subseteq DOMAIN token'
      /\ \A c \in DOMAIN granted' : granted'[c] = granted[c]
  BY <1>1 DEF Inv, TypeInv, WTypeOK
<1>5. \A u : u # t /\ Exists(u) => Exists(u)'
  BY <1>1 DEF Exists
<1>6. TypeInv'
  <2>1. Places' = Places
    BY <1>1 DEF Places
  <2>2. proc' \in [Procs -> Places'] /\ held' = [q \in Procs |-> held'[q]]
    BY <1>1, <2>1, PlaceOf, IdlePlace DEF Inv, TypeInv
  <2>3. tenants' \in [Slugs -> 0..born]
    <3>1. tenants \in [Slugs -> 0..born] /\ None \in 0..born
      BY WorkspaceAssumption DEF Inv, TypeInv, WTypeOK, None
    <3> QED
      BY <1>1, <3>1
  <2>4. /\ DOMAIN token' \subseteq Conns
        /\ \A c \in DOMAIN token' :
             token'[c] \in 0..issued /\ (token'[c] = Blank <=> c.account = Local)
    BY <1>3 DEF Inv, TypeInv, WTypeOK
  <2>5. \A q \in Procs :
          /\ proc'[q].pc \in Transaction \cup {"idle", "polling", "consenting", "loaded"}
          /\ proc'[q].todo \subseteq Files /\ proc'[q].cred \in 0..issued
    BY <2>1, <2>2 DEF Places
  <2>6. \A q \in Procs : held'[q] # {} => proc'[q].pc \in Transaction
    BY <1>2 DEF Inv, TypeInv, WTypeOK
  <2>7. born' \in 0..MaxTenants /\ issued' \in 0..MaxCredentials
    BY <1>1 DEF Inv, TypeInv, WTypeOK
  <2>8. WTypeOK'
    BY <1>1, <1>4, <2>3, <2>4, <2>5, <2>6, <2>7 DEF WTypeOK
  <2> QED
    BY <1>1, <2>2, <2>8 DEF Inv, TypeInv
<1>7. Exclusive'
  BY <1>1, PlaceOf, StillExclusive DEF Inv
<1>8. GrantInv'
  <2> SUFFICES ASSUME NEW c \in DOMAIN granted', granted'[c].late = {}
               PROVE  /\ token'[c] = granted'[c].cred
                      /\ \A q \in Reading(c)' : proc'[q].cred = granted'[c].cred
    BY DEF GrantInv
  <2>1. /\ token[c] = granted[c].cred
        /\ \A q \in Reading(c) : proc[q].cred = granted[c].cred
    BY <1>4 DEF Inv, GrantInv
  <2>2. \A q \in Reading(c)' : q \in Reading(c) /\ proc'[q] = proc[q]
    BY <1>2, IdlePlace DEF Reading
  <2> QED
    BY <1>3, <1>4, <2>1, <2>2
<1>9. Scoped'
  <2>1. \A c \in DOMAIN token' : Exists(c.tenant)'
    BY <1>3, <1>5 DEF Inv, Scoped
  <2>2. \A r \in docs' \cup jobs' :
          /\ r.tenant # t /\ Exists(r.tenant) /\ r.conn.tenant = r.tenant
          /\ r.conn \in DOMAIN token
    BY <1>1 DEF Inv, Scoped, Connected
  <2>3. \A r \in docs' \cup jobs' :
          Exists(r.tenant)' /\ r.conn \in DOMAIN token' /\ r.conn.tenant = r.tenant
    BY <1>3, <1>5, <2>2
  <2> QED
    BY <2>1, <2>3 DEF Scoped, Connected
<1>10. RoleInv(p)' /\ HoldInv(p)'
  BY <1>2, IdlePlace DEF RoleInv, HoldInv, Ensures
<1>11. \A q \in Procs \ {p} : RoleInv(q)' /\ HoldInv(q)'
  BY CascadeSparesOthers
<1> QED
  BY <1>6, <1>7, <1>8, <1>9, <1>10, <1>11 DEF Inv

-----------------------------------------------------------------------------
(* Every step. *)

LEMMA EarlyEndKeeps ==
  ASSUME Inv, NEW p \in Procs,
         \/ ConsentFails(p) \/ EmbedFails(p) \/ ReferenceFails(p)
         \/ Deadlock(p) \/ Killed(p)
  PROVE  Inv'
<1>1. CASE ConsentFails(p)
  <2>1. held[p] = {}
    BY <1>1, PlaceOf DEF ConsentFails, Transaction
  <2>2. Unlocks(p)
    BY <1>1, <2>1, PlaceOf DEF ConsentFails, Unlocks
  <2> QED
    BY <1>1, <2>2, EndKeeps DEF ConsentFails
<1>2. CASE Killed(p)
  BY <1>2, EndKeeps DEF Killed
<1>3. CASE EmbedFails(p) \/ ReferenceFails(p) \/ Deadlock(p)
  <2>1. Rollback(p)
    BY <1>3 DEF EmbedFails, ReferenceFails, Deadlock
  <2>2. proc[p].pc = "idle" => Wants(proc[p]) = {}
    BY DEF Wants
  <2>3. proc[p].pc # "idle"
    BY <1>3, <2>2 DEF EmbedFails, ReferenceFails, Deadlock, Dangles, MayLock, WaitsFor
  <2> QED
    BY <2>1, <2>3, RollbackKeeps
<1> QED
  BY <1>1, <1>2, <1>3

LEMMA StepKeeps ==
  ASSUME Inv, [Next]_vars
  PROVE  Inv'
<1>1. CASE UNCHANGED vars
  <2>1. UNCHANGED <<tenants, born, token, docs, jobs, issued, proc, held, granted>>
    BY <1>1 DEF vars
  <2>2. Places' = Places
    BY <2>1 DEF Places
  <2>3. TypeInv'
    BY <2>1, <2>2 DEF Inv, TypeInv, WTypeOK
  <2>4. Exclusive' /\ GrantInv' /\ Scoped'
    BY <2>1 DEF Inv, Exclusive, GrantInv, Scoped, Reading, Exists, Connected
  <2>5. \A q \in Procs : RoleInv(q)' /\ HoldInv(q)'
    BY <2>1, OthersKeep DEF Exists
  <2> QED
    BY <2>3, <2>4, <2>5 DEF Inv
<1>2. ASSUME NEW p \in Procs, Ingest(p) \/ Pipeline(p)
      PROVE  Inv'
  BY <1>2, StartsKeep, EnsureConnectionKeeps, EnqueueKeeps, WriteDocumentKeeps, ReferenceKeeps,
     EarlyEndKeeps, EmbeddedKeeps, CommitKeeps DEF Ingest, Pipeline
<1>3. ASSUME NEW p \in Procs, Worker(p) \/ Drive(p)
      PROVE  Inv'
  BY <1>3, StartsKeep, ClaimKeeps, LoadTokenKeeps, ConsentKeeps, EarlyEndKeeps, FreshKeeps,
     SaveTokenKeeps DEF Worker, Drive
<1>4. ASSUME NEW p \in Procs, Tenant(p)
      PROVE  Inv'
  BY <1>4, StartsKeep, DeleteTenantKeeps, CascadeKeeps DEF Tenant
<1>5. ASSUME NEW p \in Procs, ReferenceFails(p) \/ Deadlock(p) \/ Killed(p)
      PROVE  Inv'
  BY <1>5, EarlyEndKeeps
<1>6. ASSUME NEW s \in Slugs, CreateTenant(s)
      PROVE  Inv'
  BY <1>6, CreateTenantKeeps
<1>7. ASSUME NEW p \in Procs, NEW s \in Slugs, UnknownTenant(p, s)
      PROVE  Inv'
  BY <1>1, <1>7 DEF UnknownTenant
<1> QED
  BY <1>1, <1>2, <1>3, <1>4, <1>5, <1>6, <1>7 DEF Next

LEMMA InvAlways == Spec => []Inv
<1>1. Init => Inv
  BY InvAtFirst
<1>2. Inv /\ [Next]_vars => Inv'
  BY StepKeeps
<1> QED
  BY <1>1, <1>2, PTL DEF Spec

-----------------------------------------------------------------------------

\* What go2/tenancy.py and the tables may hold, among others that every
\* credential in a row was issued by Google, that only the connections of
\* Google accounts have one, and that no row is locked outside a transaction.
THEOREM WorkspaceTyping == Spec => []WTypeOK
<1>1. Inv => WTypeOK
  BY DEF Inv, TypeInv
<1> QED
  BY <1>1, InvAlways, PTL

\* No connection, document or job outlives its workspace or strays into
\* another one, whatever the other commands have under way when it is deleted:
\* an upload that is being written, a credential that is being stored, a job
\* that is being queued or claimed.  This is about the rows that refer to a
\* workspace; the texts in extraction_cache refer to none, and stay.
THEOREM TenantRowsAreScoped == Spec => []Scoped
<1>1. Inv => Scoped
  BY DEF Inv
<1> QED
  BY <1>1, InvAlways, PTL

\* `go2 connect google` replaces the stored credential, and it stays replaced
\* unless a `go2 sync` that had read the one before stores it again.
THEOREM GrantReplaces == Spec => []ReauthorizationHolds
<1>1. Inv => ReauthorizationHolds
  BY DEF Inv, GrantInv, ReauthorizationHolds
<1> QED
  BY <1>1, InvAlways, PTL
=============================================================================
