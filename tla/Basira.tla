------------------------------- MODULE Basira -------------------------------
(***************************************************************************)
(* The mirror of the backlog in the owner's tracking app (go2/basira.py,   *)
(* `go2 backlog sync`).  A pass loads the tickets, asks the app for its    *)
(* records with one request, and then sends one request for every ticket   *)
(* that has no record or another one than it should.  A request may fail,  *)
(* before or after the app has done it, which ends the pass.               *)
(*                                                                         *)
(* The app is modelled from its use: a POST makes a record, a PUT sets the *)
(* fields it names, and a request whose answer does not come is done when  *)
(* its pass ends, or never.  The owner moves, annotates and deletes        *)
(* records.                                                                *)
(***************************************************************************)
EXTENDS Backlog

CONSTANTS
  MaxRecords   \* bound: records the app ever has

ASSUME RecordsAssumption == MaxRecords \in Nat

VARIABLES
  records,   \* the app: a function from the ids of its records
  pass,      \* the pass of each checkout
  posts,
  quiet,     \* history: the passes that nothing else has met since they began
  paired,    \* history: ids that two passes had to push at the same time
  attached   \* history: records that got a proof by hand while no pass ran

rvars == <<records, pass, posts, quiet, paired, attached>>
allvars == <<bvars, rvars>>

STATUS == [s \in Statuses |->
  CASE s = "ready" -> "todo" [] s = "in-review" -> "review" [] s = "dropped" -> "done" [] OTHER -> s]

\* desired: the fields the mirror owns.
desired(t, open_ids) ==
  [title |-> t.slug, status |-> STATUS[t.status],
   tags |-> {tag \in {"blocked", "dropped"} :
               IF tag = "blocked" THEN t.blocked_by \cap open_ids # {} ELSE t.status = "dropped"},
   notes |-> {t.branch, t.pr} \ {None}]

Hand == "hand"  \* a proof that the owner attached
ASSUME HandAssumption == Hand \notin Prs

NoPass == [stage |-> "off", tickets |-> {}, by_ref |-> <<>>, open_ids |-> {}]
UnderWay(c) == pass[c].stage # "off"

RInit ==
  /\ BInit
  /\ records = <<>>
  /\ pass = [c \in Checkouts |-> NoPass]
  /\ posts = 0
  /\ quiet = {} /\ paired = {} /\ attached = {}

-----------------------------------------------------------------------------
(* A pass. *)

Ids(tickets) == {t.id : t \in tickets}

\* load_tickets, then GET /work-tickets and _index: for each ref one of the
\* records that carry it.  Between the two only the app can matter, and it
\* might as well have changed before.
Load(c) ==
  /\ ~UnderWay(c)
  /\ Consistent(files[c])
  /\ LET refs == {records[r].ref : r \in DOMAIN records}
     IN \E of \in [refs -> DOMAIN records] :
          /\ \A ref \in refs : records[of[ref]].ref = ref
          /\ pass' = [pass EXCEPT ![c] =
               [stage |-> "push", tickets |-> files[c],
                by_ref |-> [ref \in refs |-> [rec |-> of[ref], was |-> records[of[ref]]]],
                open_ids |-> Ids({t \in files[c] : IsOpen(t)})]]
  /\ LET others == {d \in Checkouts \ {c} : UnderWay(d)}
     IN  /\ quiet' = IF others = {} THEN {c} ELSE {}
         /\ paired' = paired \cup (Ids(files[c]) \cap UNION {Ids(pass[d].tickets) : d \in others})
  /\ Event /\ UNCHANGED <<files, merged, closing, records, posts, attached>>

\* The tickets are pushed in the order of their files.
Turn(c, t) == t \in pass[c].tickets /\ \A u \in pass[c].tickets : t.id <= u.id

\* A slip: what is mirrored is told from the title and the status.
DiffersInStatus(c, t) ==
  LET was == pass[c].by_ref[t.id].was
      now == desired(t, pass[c].open_ids)
  IN was.fields.title # now.title \/ was.fields.status # now.status
     \/ (t.pr # None /\ t.pr \notin was.proofs)

Differs(c, t) ==
  LET was == pass[c].by_ref[t.id].was
  IN was.fields # desired(t, pass[c].open_ids) \/ (t.pr # None /\ t.pr \notin was.proofs)

\* _proofs: none, unless the ticket's pull request is missing among those that
\* the record had when the pass asked.  It then replaces the others that were
\* generated.  A slip: it replaces all.
ProofsAlone(t, had, now) == IF t.pr = None \/ t.pr \in had THEN now ELSE {t.pr}

_proofs(t, had, now) ==
  IF t.pr = None \/ t.pr \in had THEN now ELSE (had \ Prs) \cup {t.pr}

\* The request is done or not, and its answer comes, and is good, or not.
\* Without it the pass is over.
Answered(c, t, heard) ==
  /\ IF heard THEN UNCHANGED events ELSE Event
  /\ pass' = IF heard THEN [pass EXCEPT ![c].tickets = @ \ {t}] ELSE [pass EXCEPT ![c] = NoPass]
  /\ UNCHANGED <<files, merged, closing, quiet, paired, attached>>

Mine(c, t) == pass[c].stage = "push" /\ Turn(c, t)

Create(c, t, done) ==
  IF done
    THEN /\ posts < MaxRecords /\ posts' = posts + 1
         /\ LET new == [ref |-> t.id, fields |-> desired(t, pass[c].open_ids),
                        proofs |-> _proofs(t, {}, {})]
            IN  records' = [r \in DOMAIN records \cup {posts'} |->
                              IF r = posts' THEN new ELSE records[r]]
    ELSE UNCHANGED <<records, posts>>

\* A slip: a POST whose answer does not come is sent again.
PostTwice(c, t, done, heard) ==
  /\ Mine(c, t) /\ t.id \notin DOMAIN pass[c].by_ref
  /\ Create(c, t, done)
  /\ IF heard THEN Answered(c, t, TRUE)
     ELSE UNCHANGED <<bvars, pass, quiet, paired, attached>>

\* push: there is no record for the ticket ...
Post(c, t, done, heard) ==
  /\ Mine(c, t) /\ t.id \notin DOMAIN pass[c].by_ref
  /\ heard => done
  /\ Create(c, t, done)
  /\ Answered(c, t, heard)

\* ... or there is one that differs.  If it is gone by now, the app says so.
Put(c, t, done, heard) ==
  /\ Mine(c, t) /\ t.id \in DOMAIN pass[c].by_ref /\ Differs(c, t)
  /\ heard => done
  /\ LET entry == pass[c].by_ref[t.id]
     IN IF entry.rec \in DOMAIN records
        THEN /\ records' = IF ~done THEN records ELSE
                  [records EXCEPT ![entry.rec] =
                     [ref |-> @.ref, fields |-> desired(t, pass[c].open_ids),
                      proofs |-> _proofs(t, entry.was.proofs, @.proofs)]]
             /\ Answered(c, t, heard)
        ELSE /\ pass' = [pass EXCEPT ![c] = NoPass]
             /\ UNCHANGED <<bvars, records, quiet, paired, attached>>
  /\ UNCHANGED posts

\* ... or one that does not.
Leave(c, t) ==
  /\ Mine(c, t) /\ t.id \in DOMAIN pass[c].by_ref /\ ~Differs(c, t)
  /\ UNCHANGED <<records, posts>> /\ Answered(c, t, TRUE)

Return(c) ==
  /\ pass[c].stage = "push" /\ pass[c].tickets = {}
  /\ pass' = [pass EXCEPT ![c] = NoPass] /\ quiet' = quiet \ {c}
  /\ UNCHANGED <<bvars, records, posts, paired, attached>>

-----------------------------------------------------------------------------
(* What goes on meanwhile. *)

Busy == \E c \in Checkouts : UnderWay(c)

ByOwner ==
  /\ Event
  /\ quiet' = {}
  /\ UNCHANGED <<files, merged, closing, pass, posts, paired>>

\* The owner moves a record to another column ...
Move(r, status) ==
  /\ records' = [records EXCEPT ![r].fields.status = status]
  /\ ByOwner /\ UNCHANGED attached

\* ... or attaches a proof ...
Attach(r) ==
  /\ Hand \notin records[r].proofs
  /\ records' = [records EXCEPT ![r].proofs = @ \cup {Hand}]
  /\ attached' = IF Busy THEN attached ELSE attached \cup {r}
  /\ ByOwner

\* ... or deletes it.
Delete(r) ==
  /\ records' = [s \in DOMAIN records \ {r} |-> records[s]]
  /\ attached' = attached \ {r}
  /\ ByOwner

\* The files of c change.
Rewrite(c) ==
  /\ Command(c) \/ ByHand(c)
  /\ quiet' = quiet \ {c}
  /\ UNCHANGED <<records, pass, posts, paired, attached>>

RNext ==
  \/ \E c \in Checkouts :
       \/ Load(c) \/ Return(c) \/ Rewrite(c) \/ (Asking(c) /\ UNCHANGED rvars)
       \/ \E t \in pass[c].tickets :
            \/ Leave(c, t)
            \/ \E done, heard \in BOOLEAN : Post(c, t, done, heard) \/ Put(c, t, done, heard)
  \/ \E r \in DOMAIN records : Attach(r) \/ Delete(r) \/ Move(r, "done")
  \/ \E p \in Prs : MergePr(p) /\ UNCHANGED rvars

RSpec == RInit /\ [][RNext]_allvars

-----------------------------------------------------------------------------
(* Properties. *)

\* "The push is idempotent": a pass that ended early, after whatever request,
\* is made good by the next one, without a second record for any ticket, but
\* for tickets that two checkouts had to push at the same time.  (A checkout
\* runs one pass at a time here, and a POST is done when its pass has ended, or
\* never.)
OnePerRef ==
  \A r, s \in DOMAIN records :
    records[r].ref = records[s].ref /\ records[r].ref \notin paired => r = s

\* "Hand-added proofs are kept": those attached while no pass was under way,
\* whatever the passes after it replace or fail at.  (One attached between the
\* GET of a pass and its PUT is overwritten with the proofs of before.)
HandProofsKept == \A r \in attached : Hand \in records[r].proofs

\* A pass that gets through, while nobody touches its files or the app,
\* leaves a true record of every ticket: whatever earlier passes left half
\* done, the owner moved, or the files of another checkout had put there.
PassMirrors ==
  \A c \in quiet :
    pass[c].stage = "push" /\ pass[c].tickets = {} =>
      \A t \in files[c] : \E r \in DOMAIN records :
        /\ records[r].ref = t.id
        /\ records[r].fields = desired(t, Ids({u \in files[c] : IsOpen(u)}))
        /\ t.pr # None => records[r].proofs \cap Prs = {t.pr}
=============================================================================
