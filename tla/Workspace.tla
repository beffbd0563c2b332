----------------------------- MODULE Workspace -----------------------------
(***************************************************************************)
(* Workspaces (go2/tenancy.py), their connections and credentials, and the *)
(* commands that work in them side by side: `go2 ingest`, also with        *)
(* --background, `go2 worker`, `go2 sync`, `go2 connect google`, `go2      *)
(* tenant create` and `go2 tenant delete`.                                 *)
(*                                                                         *)
(* Ingest and JobQueue look at what the transactions of one workspace read *)
(* and write.  This module looks at the rows they lock and refer to, and   *)
(* at a workspace that is deleted under a command that has resolved it.    *)
(* The id of a tenant is a number that is never used again; a connection   *)
(* goes only with its tenant, so tenant and account stand for its id.      *)
(*                                                                         *)
(* The rows here are those of the tables that carry tenant_id, but chunks, *)
(* which go with their documents.  extraction_cache carries none: it holds *)
(* the extracted text of whatever any workspace ever indexed, under its    *)
(* digest, and no deletion reaches it.  Ingest has it, as its cache.       *)
(***************************************************************************)
EXTENDS Integers, FiniteSets

CONSTANTS
  Procs,           \* processes
  Role,            \* Role[p]: the command that p runs, again and again
  Slugs,           \* names of workspaces
  Google,          \* Google accounts
  Files,           \* files
  MaxTenants,      \* bound: workspaces ever created
  MaxCredentials,  \* bound: credentials that Google issues
  MaxCommands      \* bound: commands ever started

Roles == {"ingest", "worker", "sync", "connect", "delete"}

ASSUME WorkspaceAssumption ==
  /\ Role \in [Procs -> Roles] /\ IsFiniteSet(Files)
  /\ MaxTenants \in Nat \ {0} /\ MaxCredentials \in Nat /\ MaxCommands \in Nat

VARIABLES
  tenants,    \* tenants[s]: the id of the workspace named s, or None
  born,       \* ids handed out
  token,      \* token[c]: the credential in the row of connection c
  docs,       \* the rows of documents
  jobs,       \* the queued rows of jobs
  issued,     \* credentials that Google has issued
  started,    \* commands started
  proc,       \* where each process is
  held,       \* held[p]: the row locks of p's transaction
  granted     \* granted[c]: what `go2 connect` stored last in c, and the syncs
              \* that had read c before and not ended (history)

vars == <<tenants, born, token, docs, jobs, issued, started, proc, held, granted>>

None == 0
Blank == 0      \* the empty token_blob of an upload connection
Local == "local"

\* Google names an account by its address.
ASSUME AccountsAssumption == Local \notin Google

Accounts == Google \cup {Local}
Ids == 1..MaxTenants
Source(account) == IF account = Local THEN "upload" ELSE "gdrive"

ConnOf(t, account) == [tenant |-> t, account |-> account]

\* f with x at c.
Upsert(f, c, x) == [d \in DOMAIN f \cup {c} |-> IF d = c THEN x ELSE f[d]]

Idle == [pc |-> "idle", tenant |-> None, conn |-> ConnOf(None, Local), todo |-> {}, cred |-> Blank]

\* A command that has resolved t and works with an account of it.
At(pc, t, account) == [Idle EXCEPT !.pc = pc, !.tenant = t, !.conn = ConnOf(t, account)]

Init ==
  /\ \E local \in Slugs : tenants = [s \in Slugs |-> IF s = local THEN 1 ELSE None]
  /\ born = 1
  /\ token = <<>> /\ docs = {} /\ jobs = {} /\ issued = 0 /\ started = 0
  /\ proc = [p \in Procs |-> Idle] /\ held = [p \in Procs |-> {}]
  /\ granted = <<>>

-----------------------------------------------------------------------------
(* Rows and their locks, as PostgreSQL takes them: FOR KEY SHARE by a      *)
(* reference to a row, FOR UPDATE by DELETE and by an update of a unique   *)
(* column, FOR NO KEY UPDATE by any other.  A row that is being inserted   *)
(* is locked too.                                                          *)

TenantRow(t) == <<"tenant", t>>
ConnRow(c) == <<"connection", c.tenant, c.account>>
DocRow(d) == <<"document", d.tenant, d.source, d.file>>

Share(row) == [row |-> row, mode |-> "share"]
Update(row) == [row |-> row, mode |-> "update"]
Key(row) == [row |-> row, mode |-> "key"]

Conflict(l, m) ==
  l.row = m.row /\ (l.mode = "key" \/ m.mode = "key" \/ (l.mode = "update" /\ m.mode = "update"))

Exists(t) == \E s \in Slugs : tenants[s] = t
Connected(c) == c \in DOMAIN token

FileOf(me) == CHOOSE f \in me.todo : TRUE
Doc(me) == [tenant |-> me.tenant, source |-> Source(me.conn.account), file |-> FileOf(me),
            conn |-> me.conn]
Stored(d) == \E e \in docs : DocRow(e) = DocRow(d)

\* ON CONFLICT: only a new connection refers to its tenant.
NewConn(me) == IF Connected(me.conn) THEN {} ELSE {Share(TenantRow(me.tenant))}

\* The locks that the next statement of a transaction takes.
Wants(me) ==
  CASE me.pc \in {"ensuring", "ensuring jobs"} -> {Key(ConnRow(me.conn))} \cup NewConn(me)
    [] me.pc = "saving" -> {Update(ConnRow(me.conn))} \cup NewConn(me)
    [] me.pc = "writing" -> {Update(DocRow(Doc(me)))}
    [] me.pc \in {"of tenant", "storing", "queueing"} -> {Share(TenantRow(me.tenant))}
    [] me.pc = "of connection" -> {Share(ConnRow(me.conn))}
    [] me.pc = "deleting" -> {Key(TenantRow(me.tenant))}
    [] me.pc = "cascading" ->
         {Key(ConnRow(c)) : c \in {c \in DOMAIN token : c.tenant = me.tenant}} \cup
         {Key(DocRow(d)) : d \in {d \in docs : d.tenant = me.tenant}}
    [] OTHER -> {}

WaitsFor(p, q) == p # q /\ \E l \in Wants(proc[p]), m \in held[q] : Conflict(l, m)

MayLock(p) == \A q \in Procs : ~WaitsFor(p, q)

Locks(p) == held' = [held EXCEPT ![p] = @ \cup Wants(proc[p])]
Unlocks(p) == held' = [held EXCEPT ![p] = {}]
Goes(p, pc) == proc' = [proc EXCEPT ![p].pc = pc]
Ends(p) == proc' = [proc EXCEPT ![p] = Idle]

\* resolve_tenant_id, in a transaction of its own.
Resolves(p, role, s) ==
  /\ Role[p] = role /\ proc[p].pc = "idle" /\ tenants[s] # None
  /\ started < MaxCommands /\ started' = started + 1

\* It never creates a workspace: the command ends.
UnknownTenant(p, s) == proc[p].pc = "idle" /\ tenants[s] = None /\ UNCHANGED vars

-----------------------------------------------------------------------------
(* How a transaction ends early. *)

\* A slip: the exception leaves the transaction open.
LeftOpen(p) ==
  /\ IF Role[p] = "worker" THEN Goes(p, "polling") ELSE Ends(p)
  /\ UNCHANGED <<tenants, born, token, docs, jobs, issued, started, held, granted>>

\* connect() rolls back and the exception goes on: run_worker turns it into
\* a failed job, every other command is over.
Rollback(p) ==
  /\ IF Role[p] = "worker" THEN Goes(p, "polling") ELSE Ends(p)
  /\ Unlocks(p)
  /\ UNCHANGED <<tenants, born, token, docs, jobs, issued, started, granted>>

\* The transaction has the row of its connection to itself.
Ensures(p) == Key(ConnRow(proc[p].conn)) \in held[p]

\* The row that a new row refers to is not there.
Dangles(p) ==
  LET me == proc[p] IN
  \/ me.pc = "of connection" /\ ~Connected(me.conn) /\ ~Ensures(p)
  \/ Share(TenantRow(me.tenant)) \in Wants(me) /\ ~Exists(me.tenant)

ReferenceFails(p) == Dangles(p) /\ MayLock(p) /\ Rollback(p)

EmbedFails(p) == proc[p].pc = "embedding" /\ Rollback(p)

\* Everyone in S waits for someone in S, and nobody could be left out.
Cycle(S) ==
  LET Stuck(R) == R # {} /\ \A p \in R : \E q \in R : WaitsFor(p, q)
  IN  Stuck(S) /\ \A R \in SUBSET S : Stuck(R) => R = S

\* PostgreSQL breaks a deadlock by failing one of the statements in it.
Deadlock(p) ==
  /\ ~MayLock(p)
  /\ \E S \in SUBSET {q \in Procs : ~MayLock(q)} : p \in S /\ Cycle(S)
  /\ Rollback(p)

\* The process is killed or stopped, and its connection goes.
Killed(p) ==
  /\ proc[p].pc # "idle"
  /\ Ends(p) /\ Unlocks(p)
  /\ UNCHANGED <<tenants, born, token, docs, jobs, issued, started, granted>>

-----------------------------------------------------------------------------
(* go2 ingest: a transaction for each file, from ensure_connection on. *)

IngestStarts(p, s) ==
  /\ Resolves(p, "ingest", s)
  /\ \E pc \in {"ensuring", "ensuring jobs"} :
       proc' = [proc EXCEPT ![p] = [At(pc, tenants[s], Local) EXCEPT !.todo = Files]]
  /\ UNCHANGED <<tenants, born, token, docs, jobs, issued, held, granted>>

\* ensure_connection, whose DO UPDATE sets a unique column.
EnsureConnection(p) ==
  /\ proc[p].pc \in {"ensuring", "ensuring jobs"}
  /\ MayLock(p) /\ ~Dangles(p)
  /\ Goes(p, IF proc[p].pc = "ensuring" THEN "writing" ELSE "queueing")
  /\ Locks(p)
  /\ UNCHANGED <<tenants, born, token, docs, jobs, issued, started, granted>>

\* A connection that ensure_connection creates keeps an empty token, an
\* existing one keeps what it has.
Ensured(p) ==
  IF Ensures(p) /\ ~Connected(proc[p].conn) THEN Upsert(token, proc[p].conn, Blank) ELSE token

\* enqueue_paths commits the connection and all of its jobs.
Enqueue(p) ==
  LET me == proc[p] IN
  /\ me.pc = "queueing" /\ MayLock(p) /\ ~Dangles(p)
  /\ token' = Ensured(p)
  /\ jobs' = jobs \cup {[tenant |-> me.tenant, conn |-> me.conn, file |-> f] : f \in me.todo}
  /\ Ends(p) /\ Unlocks(p)
  /\ UNCHANGED <<tenants, born, docs, issued, started, granted>>

-----------------------------------------------------------------------------
(* ingest_document, for `go2 ingest`, `go2 worker` and `go2 sync` alike. *)

WriteDocument(p) ==
  /\ proc[p].pc = "writing" /\ MayLock(p)
  /\ Goes(p, IF Stored(Doc(proc[p])) THEN "embedding" ELSE "of tenant")
  /\ Locks(p)
  /\ UNCHANGED <<tenants, born, token, docs, jobs, issued, started, granted>>

\* A new document refers to its tenant, then to its connection.
Reference(p) ==
  /\ proc[p].pc \in {"of tenant", "of connection"}
  /\ MayLock(p) /\ ~Dangles(p)
  /\ Goes(p, IF proc[p].pc = "of tenant" THEN "of connection" ELSE "embedding")
  /\ Locks(p)
  /\ UNCHANGED <<tenants, born, token, docs, jobs, issued, started, granted>>

\* The new chunks refer to the tenant.
Embedded(p) ==
  /\ proc[p].pc = "embedding"
  /\ Goes(p, "storing")
  /\ UNCHANGED <<tenants, born, token, docs, jobs, issued, started, held, granted>>

\* A file that is unchanged, rejected or empty has no chunks to store.
Commit(p) ==
  LET me == proc[p] rest == me.todo \ {FileOf(me)} IN
  /\ me.pc \in {"embedding", "storing"} /\ MayLock(p)
  /\ token' = Ensured(p)
  /\ docs' = IF Stored(Doc(me)) THEN docs ELSE docs \cup {Doc(me)}
  /\ proc' = [proc EXCEPT ![p] =
       IF Role[p] = "worker" THEN [me EXCEPT !.pc = "polling", !.todo = {}]
       ELSE IF rest = {} THEN Idle
       ELSE [me EXCEPT !.pc = IF Role[p] = "ingest" THEN "ensuring" ELSE "writing", !.todo = rest]]
  /\ Unlocks(p)
  /\ UNCHANGED <<tenants, born, jobs, issued, started, granted>>

-----------------------------------------------------------------------------
(* go2 worker: the workspace is resolved once, before the loop. *)

WorkerStarts(p, s) ==
  /\ Resolves(p, "worker", s)
  /\ proc' = [proc EXCEPT ![p] = At("polling", tenants[s], Local)]
  /\ UNCHANGED <<tenants, born, token, docs, jobs, issued, held, granted>>

\* A slip: the jobs of any workspace.
Claimable(j, t) == TRUE

\* WHERE tenant_id = :tenant_id.
ClaimableBy(j, t) == j.tenant = t

Claim(p, j) ==
  /\ proc[p].pc = "polling" /\ ClaimableBy(j, proc[p].tenant)
  /\ jobs' = jobs \ {j}
  /\ proc' = [proc EXCEPT ![p] = [@ EXCEPT !.pc = "writing", !.conn = j.conn, !.todo = {j.file}]]
  /\ UNCHANGED <<tenants, born, token, docs, issued, started, held, granted>>

-----------------------------------------------------------------------------
(* go2 connect google and go2 sync. *)

ConnectStarts(p, s) ==
  /\ Resolves(p, "connect", s)
  /\ proc' = [proc EXCEPT ![p] = At("consenting", tenants[s], Local)]
  /\ UNCHANGED <<tenants, born, token, docs, jobs, issued, held, granted>>

\* run_installed_app_flow and account_email: the user picks an account and
\* Google issues a credential for it.
Consent(p, account) ==
  /\ proc[p].pc = "consenting" /\ issued < MaxCredentials
  /\ issued' = issued + 1
  /\ proc' = [proc EXCEPT ![p] = [At("saving", @.tenant, account) EXCEPT !.cred = issued']]
  /\ UNCHANGED <<tenants, born, token, docs, jobs, started, held, granted>>

\* AuthorizationFailedError, or no key to encrypt the credential with.
ConsentFails(p) ==
  /\ proc[p].pc = "consenting"
  /\ Ends(p)
  /\ UNCHANGED <<tenants, born, token, docs, jobs, issued, started, held, granted>>

\* find_connections, _choose_connection and load_token: three transactions,
\* of which only the last counts.
LoadToken(p, s, account) ==
  LET c == ConnOf(tenants[s], account) IN
  /\ Resolves(p, "sync", s) /\ Connected(c)
  /\ proc' = [proc EXCEPT ![p] = [At("loaded", tenants[s], account) EXCEPT !.cred = token[c]]]
  /\ UNCHANGED <<tenants, born, token, docs, jobs, issued, held, granted>>

\* ensure_fresh: a credential that has expired is refreshed and stored, one
\* that is revoked ends the sync.  The listing says which files there are.
Fresh(p) ==
  /\ proc[p].pc = "loaded"
  /\ \E files \in (SUBSET Files) \ {{}} :
       \/ \E pc \in {"writing", "saving"} :
            proc' = [proc EXCEPT ![p] = [@ EXCEPT !.pc = pc, !.todo = files]]
       \/ Ends(p)
  /\ UNCHANGED <<tenants, born, token, docs, jobs, issued, started, held, granted>>

\* A slip: ON CONFLICT keeps the stored token.
KeepsOld(c, new) == IF Connected(c) THEN token[c] ELSE new

\* ON CONFLICT DO UPDATE SET token_blob.
Replaces(c, new) == new

\* The syncs that have read the token of c and may store it again.
Reading(c) ==
  {p \in Procs : Role[p] = "sync" /\ proc[p].conn = c /\ proc[p].pc \in {"loaded", "saving"}}

\* upsert_connection_token, committed at once.
SaveToken(p) ==
  LET me == proc[p] c == me.conn IN
  /\ me.pc = "saving" /\ MayLock(p) /\ ~Dangles(p)
  /\ token' = Upsert(token, c, Replaces(c, me.cred))
  /\ IF Role[p] = "connect"
     THEN granted' = Upsert(granted, c, [cred |-> me.cred, late |-> Reading(c)]) /\ Ends(p)
     ELSE Goes(p, "writing") /\ UNCHANGED granted
  /\ UNCHANGED <<tenants, born, docs, jobs, issued, started, held>>

-----------------------------------------------------------------------------
(* go2 tenant. *)

\* create_tenant; for a name that is taken it comes to nothing.
CreateTenant(s) ==
  /\ tenants[s] = None /\ born < MaxTenants
  /\ born' = born + 1
  /\ tenants' = [tenants EXCEPT ![s] = born']
  /\ UNCHANGED <<token, docs, jobs, issued, started, proc, held, granted>>

DeleteStarts(p, s) ==
  /\ Resolves(p, "delete", s)
  /\ proc' = [proc EXCEPT ![p] = At("deleting", tenants[s], Local)]
  /\ UNCHANGED <<tenants, born, token, docs, jobs, issued, held, granted>>

\* DELETE FROM tenants, which finds nothing when another one was faster.
DeleteTenant(p) ==
  /\ proc[p].pc = "deleting" /\ MayLock(p)
  /\ IF Exists(proc[p].tenant) THEN Goes(p, "cascading") /\ Locks(p)
     ELSE Ends(p) /\ Unlocks(p)
  /\ UNCHANGED <<tenants, born, token, docs, jobs, issued, started, granted>>

\* ON DELETE CASCADE, with the locks of all the rows taken in one step.  It
\* follows the references to the tenant; extraction_cache has none, so the
\* text of the documents that go here stays behind in it.
Cascade(p) ==
  LET t == proc[p].tenant gone == {c \in DOMAIN token : c.tenant = t} IN
  /\ proc[p].pc = "cascading" /\ MayLock(p)
  /\ tenants' = [s \in Slugs |-> IF tenants[s] = t THEN None ELSE tenants[s]]
  /\ token' = [c \in DOMAIN token \ gone |-> token[c]]
  /\ granted' = [c \in DOMAIN granted \ gone |-> granted[c]]
  /\ docs' = {d \in docs : d.tenant # t}
  /\ jobs' = {j \in jobs : j.tenant # t}
  /\ Ends(p) /\ Unlocks(p)
  /\ UNCHANGED <<born, issued, started>>

-----------------------------------------------------------------------------

Ingest(p) ==
  \/ \E s \in Slugs : IngestStarts(p, s)
  \/ EnsureConnection(p) \/ Enqueue(p)

Pipeline(p) ==
  WriteDocument(p) \/ Reference(p) \/ EmbedFails(p) \/ Embedded(p) \/ Commit(p)

Worker(p) == (\E s \in Slugs : WorkerStarts(p, s)) \/ (\E j \in jobs : Claim(p, j))

Drive(p) ==
  \/ \E s \in Slugs : ConnectStarts(p, s) \/ \E a \in Google : LoadToken(p, s, a)
  \/ \E a \in Google : Consent(p, a)
  \/ ConsentFails(p) \/ Fresh(p) \/ SaveToken(p)

Tenant(p) == (\E s \in Slugs : DeleteStarts(p, s)) \/ DeleteTenant(p) \/ Cascade(p)

Next ==
  \/ \E p \in Procs :
       \/ Ingest(p) \/ Pipeline(p) \/ Worker(p) \/ Drive(p) \/ Tenant(p)
       \/ ReferenceFails(p) \/ Deadlock(p) \/ Killed(p)
  \/ \E s \in Slugs : CreateTenant(s) \/ \E p \in Procs : UnknownTenant(p, s)

\* The statement under way ends: with its locks, or as a deadlock, or
\* because what it refers to has gone.
Advances(p) ==
  \/ EnsureConnection(p) \/ Enqueue(p) \/ Pipeline(p) \/ SaveToken(p)
  \/ DeleteTenant(p) \/ Cascade(p) \/ ReferenceFails(p) \/ Deadlock(p)

Spec == Init /\ [][Next]_vars

\* PostgreSQL and the processes go on while a statement can end.  The
\* commands are finitely many, so this needs no fairness between them.
FairSpec == Spec /\ WF_vars(\E p \in Procs : Advances(p))

-----------------------------------------------------------------------------
(* Properties. *)

Transaction ==
  {"ensuring", "ensuring jobs", "queueing", "saving", "writing", "of tenant", "of connection",
   "embedding", "storing", "deleting", "cascading"}

Conns == [tenant : Ids, account : Accounts]

\* Among others: locks are held inside a transaction only.
WTypeOK ==
  /\ tenants \in [Slugs -> 0..born] /\ born \in 0..MaxTenants
  /\ issued \in 0..MaxCredentials
  /\ DOMAIN token \subseteq Conns /\ DOMAIN granted \subseteq DOMAIN token
  /\ \A c \in DOMAIN token :
       token[c] \in 0..issued /\ (token[c] = Blank <=> c.account = Local)
  /\ \A p \in Procs :
       /\ proc[p].pc \in Transaction \cup {"idle", "polling", "consenting", "loaded"}
       /\ proc[p].todo \subseteq Files /\ proc[p].cred \in 0..issued
       /\ held[p] # {} => proc[p].pc \in Transaction

\* What a deletion does remove.  Whatever was under way when a workspace was
\* deleted, the connections, documents and jobs that are left, or come later,
\* belong to workspaces that are there, and a document or a job to the same
\* workspace as its connection.  cli.py says "a workspace and everything in
\* it": that is more, since extraction_cache keeps the text of the documents.
Scoped ==
  /\ \A c \in DOMAIN token : Exists(c.tenant)
  /\ \A r \in docs \cup jobs :
       Exists(r.tenant) /\ Connected(r.conn) /\ r.conn.tenant = r.tenant

\* "Connecting the same account twice, or reauthorizing after a revoked
\* refresh token, must both replace the stored credential": it stays the
\* one that the user granted last, unless a sync that had read the old one
\* was still under way.
ReauthorizationHolds ==
  \A c \in DOMAIN granted : token[c] = granted[c].cred \/ granted[c].late # {}

\* No transaction waits for ever for the rows of the others: once the
\* commands have been started, all of their transactions end.
TransactionsEnd == <>[](\A p \in Procs : proc[p].pc \notin Transaction)
=============================================================================
