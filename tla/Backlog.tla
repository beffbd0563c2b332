------------------------------ MODULE Backlog ------------------------------
(***************************************************************************)
(* The ticket store (go2/backlog.py and the `go2 backlog` commands): the   *)
(* ticket files of several checkouts of the repository, which agents edit  *)
(* by hand, and which git merges.  A command first loads every ticket and  *)
(* refuses to work if one file is invalid or two contradict each other.    *)
(*                                                                         *)
(* Left out: BACKLOG.md, a rendering of the tickets that `backlog check`   *)
(* compares with them; titles, phases, priorities and the other text.      *)
(***************************************************************************)
EXTENDS Integers, FiniteSets, FiniteSetsExt

CONSTANTS
  Checkouts,  \* worktrees, each with its own backlog/
  Slugs,      \* what the name of a ticket's file says after the id
  Branches, Prs,
  Drafts,     \* what an editor may make of a ticket: fields it sets
  Starts,     \* the backlogs that the checkouts may begin with
  LastId,     \* the highest id that ID_PATTERN admits (T-999)
  MaxEvents   \* bound: commands, edits, merges and whatever else begins

Statuses == {"backlog", "ready", "in-progress", "in-review", "done", "dropped"}
OPEN_STATUSES == {"backlog", "ready", "in-progress", "in-review"}

None == "none"
\* How `closed` compares with `created`.
Dates == {"none", "before", "since"}

Draft == [status : Statuses, blocked_by : SUBSET (0..LastId), branch : Branches \cup {None},
          pr : Prs \cup {None}, closed : Dates, plan : BOOLEAN, outcome : BOOLEAN]

Ticket == [id : 0..(LastId + 1), slug : Slugs, status : Statuses, blocked_by : SUBSET (0..LastId),
           branch : Branches \cup {None}, pr : Prs \cup {None}, late : SUBSET Prs, closed : Dates,
           plan : BOOLEAN, outcome : BOOLEAN]

ASSUME StartsAssumption == Starts \subseteq SUBSET Ticket
ASSUME DraftsAssumption == Drafts \subseteq Draft
ASSUME BoundsAssumption == LastId \in Nat /\ MaxEvents \in Nat

VARIABLES
  files,   \* the ticket files of each checkout
  merged,  \* the pull requests that are merged
  closing, \* the tickets of each checkout that a `close` has loaded and asks
           \* GitHub about, as they were then
  events

bvars == <<files, merged, closing, events>>

Event == events < MaxEvents /\ events' = events + 1

-----------------------------------------------------------------------------
(* Loading: parse_ticket, then the tickets together. *)

IsOpen(t) == t.status \in OPEN_STATUSES

\* _check_lifecycle.  `plan` stands for Problem, Definition and Success
\* metrics, `branch` for owner and branch, `late` (with `created`) for the
\* pull requests that were merged on an earlier day than `created`.  A ticket
\* closed on a day before that has all of them in `late`, so that `updated`
\* is refused when `closed` is.
Lifecycle(t) ==
  /\ t.plan
  /\ t.status = "in-progress" => t.branch # None
  /\ t.status = "in-review" => t.pr # None
  /\ t.status = "done" => t.pr # None /\ t.closed = "since" /\ t.outcome
  /\ t.status = "dropped" => t.closed # "none" /\ t.outcome

Valid(t) == t.id <= LastId /\ Lifecycle(t)

Blockers(t, tickets) ==
  \A b \in t.blocked_by :
    /\ b # t.id
    /\ \E u \in tickets : u.id = b
         /\ t.status \in {"ready", "in-progress", "in-review"} => ~IsOpen(u)

\* load_tickets returns.
Consistent(tickets) ==
  /\ \A t \in tickets : Valid(t) /\ Blockers(t, tickets)
  /\ \A t, u \in tickets : t.id = u.id => t = u
  /\ \A t, u \in tickets :
       t.status = "in-progress" /\ u.status = "in-progress" /\ t.branch = u.branch => t = u

\* One more than the highest.
next_id(tickets) == Max({t.id : t \in tickets} \cup {-1}) + 1

-----------------------------------------------------------------------------
(* The commands that write tickets. *)

\* `go2 backlog new`.  What it makes is not valid before it is filled in.
New(c, slug) ==
  /\ Consistent(files[c])
  /\ next_id(files[c]) <= LastId + 1
  /\ \E late \in SUBSET merged :
       files' = [files EXCEPT ![c] = @ \cup
         {[id |-> next_id(files[c]), slug |-> slug, status |-> "backlog", blocked_by |-> {},
           branch |-> None, pr |-> None, late |-> late, closed |-> "none",
           plan |-> FALSE, outcome |-> FALSE]}]
  /\ Event /\ UNCHANGED <<merged, closing>>

\* A slip: the status and the outcome are not looked at, only the pull request.
CloseLooksAtPr(c, t) ==
  /\ Consistent(files[c])
  /\ t.pr # None /\ t \notin closing[c]
  /\ closing' = [closing EXCEPT ![c] = @ \cup {t}]
  /\ Event /\ UNCHANGED <<files, merged>>

\* close_ticket loads the tickets: this one is in review, with its outcome
\* written.  It then asks GitHub about the pull request.
CloseLooks(c, t) ==
  /\ Consistent(files[c])
  /\ t.status = "in-review" /\ t.outcome /\ t \notin closing[c]
  /\ closing' = [closing EXCEPT ![c] = @ \cup {t}]
  /\ Event /\ UNCHANGED <<files, merged>>

SameFile(t, u) == t.id = u.id /\ t.slug = u.slug

\* The day gh says the pull request was merged, or today if it says none, on
\* the ticket as it is by now.
MergeDates(t, u) == {"since", IF t.pr \in u.late THEN "before" ELSE "since"}

\* GitHub has answered that it is merged: the file of the ticket is read again
\* and written, whatever it says by now.
CloseWrites(c, t, u) ==
  /\ t \in closing[c] /\ t.pr \in merged
  /\ u \in files[c] /\ SameFile(t, u)
  /\ \E day \in MergeDates(t, u) :
       files' = [files EXCEPT ![c] = (@ \ {u}) \cup {[u EXCEPT !.status = "done", !.closed = day]}]
  /\ closing' = [closing EXCEPT ![c] = @ \ {t}]
  /\ UNCHANGED <<merged, events>>

\* It is not merged, there is no answer, or the file is gone.
CloseFails(c, t) ==
  /\ t \in closing[c]
  /\ closing' = [closing EXCEPT ![c] = @ \ {t}]
  /\ UNCHANGED <<files, merged, events>>

-----------------------------------------------------------------------------
(* What others do to the files. *)

\* An agent rewrites a ticket.
Edit(c, t, d) ==
  /\ files' = [files EXCEPT ![c] = (@ \ {t}) \cup
       {[t EXCEPT !.status = d.status, !.blocked_by = d.blocked_by, !.branch = d.branch,
                  !.pr = d.pr, !.closed = d.closed, !.plan = d.plan, !.outcome = d.outcome]}]
  /\ Event /\ UNCHANGED <<merged, closing>>

\* ... or gives it another id, and its file the name that goes with it.
Renumber(c, t) ==
  /\ \E u \in files[c] \ {t} : u.id = t.id
  /\ next_id(files[c]) <= LastId
  /\ files' = [files EXCEPT ![c] = (@ \ {t}) \cup {[t EXCEPT !.id = next_id(files[c])]}]
  /\ Event /\ UNCHANGED <<merged, closing>>

\* git merges the files of d into c.  Of two versions of one file one is kept.
Merge(c, d) ==
  /\ files[c] # files[d]
  /\ \E kept \in {c, d} :
       files' = [files EXCEPT ![c] = files[kept] \cup
         {t \in files[c] \cup files[d] : \A u \in files[kept] : ~SameFile(t, u)}]
  /\ Event /\ UNCHANGED <<merged, closing>>

MergePr(p) ==
  /\ p \notin merged
  /\ merged' = merged \cup {p}
  /\ Event /\ UNCHANGED <<files, closing>>

BInit ==
  /\ files \in [Checkouts -> Starts]
  /\ merged = {} /\ closing = [c \in Checkouts |-> {}] /\ events = 0

\* By hand: the files of c change in a way no command is asked about.
ByHand(c) ==
  \/ \E t \in files[c] : Renumber(c, t) \/ \E d \in Drafts : Edit(c, t, d)
  \/ \E d \in Checkouts \ {c} : Merge(c, d)

\* A command writes a ticket.
Command(c) ==
  \/ \E slug \in Slugs : New(c, slug)
  \/ \E t \in closing[c], u \in files[c] : CloseWrites(c, t, u)

\* ... or only begins to, or gives up.
Asking(c) ==
  (\E t \in files[c] : CloseLooks(c, t)) \/ \E t \in closing[c] : CloseFails(c, t)

-----------------------------------------------------------------------------
(* Properties. *)

BTypeOK ==
  /\ files \in [Checkouts -> SUBSET Ticket]
  /\ closing \in [Checkouts -> SUBSET Ticket]
  /\ merged \subseteq Prs /\ events \in 0..MaxEvents

\* `go2 backlog close` never turns a backlog that commands accept into one that
\* the next command refuses, whatever the other tickets say and whatever was
\* done to this one while GitHub was asked: unless the pull request was merged
\* before the day the ticket was created, which it does not look at and every
\* later command does; or the outcome or the pull request, which it did look
\* at, was taken away meanwhile, for it does not look again.
CloseKeepsConsistent ==
  [][\A c \in Checkouts : \A t \in closing[c], u \in files[c] :
       CloseWrites(c, t, u) /\ Consistent(files[c]) =>
         \/ Consistent(files'[c])
         \/ t.pr \in u.late
         \/ t.outcome /\ ~u.outcome
         \/ t.pr # None /\ u.pr = None]_bvars
=============================================================================
