---------------------------- MODULE BasiraProofs ----------------------------
(***************************************************************************)
(* What the ticket store and its mirror keep true, for any checkouts,      *)
(* tickets, edits and pull requests and any number of records and events:  *)
(* a ticket that is closed leaves a backlog the next command accepts, a    *)
(* ticket gets one record, the owner's proofs stay, and a pass that meets  *)
(* nobody leaves a true record of every ticket.                            *)
(***************************************************************************)
EXTENDS Basira, TLAPS, WellFoundedInduction

\* Ids of records are never used again; of the pull requests a record shows
\* one at most.
RecordsInv ==
  /\ posts \in Nat /\ DOMAIN records \subseteq 1..posts
  /\ records = [r \in DOMAIN records |-> records[r]]
  /\ \A r \in DOMAIN records :
       /\ records[r] = [ref |-> records[r].ref, fields |-> records[r].fields,
                        proofs |-> records[r].proofs]
       /\ \A p, q \in records[r].proofs \cap Prs : p = q

\* What the pass of c read of a record is about the ticket it is kept for, and
\* holds the proof that was there before the pass.  A ticket it has yet to
\* push has no record that it did not see.
PassInv(c) ==
  /\ pass[c] = [stage |-> "push", tickets |-> pass[c].tickets, by_ref |-> pass[c].by_ref,
                open_ids |-> pass[c].open_ids]
  /\ pass[c].tickets \subseteq Ticket
  /\ \A t, u \in pass[c].tickets : t.id = u.id => t = u
  /\ \A ref \in DOMAIN pass[c].by_ref :
       LET entry == pass[c].by_ref[ref]
       IN entry.was.ref = ref /\ (entry.rec \in attached => Hand \in entry.was.proofs)
  /\ \A t \in pass[c].tickets, r \in DOMAIN records :
       records[r].ref = t.id /\ t.id \notin paired => t.id \in DOMAIN pass[c].by_ref

PassesInv ==
  /\ pass = [c \in Checkouts |-> pass[c]]
  /\ \A c \in Checkouts : UnderWay(c) => PassInv(c)
  /\ \A c, d \in Checkouts : c # d /\ UnderWay(c) /\ UnderWay(d) =>
       Ids(pass[c].tickets) \cap Ids(pass[d].tickets) \subseteq paired

AttachedInv == attached \subseteq DOMAIN records /\ HandProofsKept

Mirrored(c, t) ==
  \E r \in DOMAIN records :
    /\ records[r].ref = t.id
    /\ records[r].fields = desired(t, pass[c].open_ids)
    /\ t.pr # None => records[r].proofs \cap Prs = {t.pr}

\* A pass that has met nobody: the app is as the pass found it but for what
\* the pass has pushed.
QuietInv(c) ==
  /\ \A d \in Checkouts \ {c} : ~UnderWay(d)
  /\ Consistent(files[c]) /\ pass[c].tickets \subseteq files[c]
  /\ pass[c].open_ids = Ids({t \in files[c] : IsOpen(t)})
  /\ \A t \in pass[c].tickets : t.id \in DOMAIN pass[c].by_ref =>
       LET entry == pass[c].by_ref[t.id]
       IN entry.rec \in DOMAIN records /\ records[entry.rec] = entry.was
  /\ \A t \in files[c] \ pass[c].tickets : Mirrored(c, t)

QuietsInv == quiet \subseteq Checkouts /\ \A c \in quiet : UnderWay(c) => QuietInv(c)

MirrorInv == RecordsInv /\ PassesInv /\ AttachedInv /\ OnePerRef /\ QuietsInv

Inv == BTypeOK /\ MirrorInv

-----------------------------------------------------------------------------
(* The ticket store. *)

\* What next_id rests on: finitely many ids, all below a bound, have a highest.
LEMMA Highest ==
  ASSUME NEW K \in Nat, NEW S, S \subseteq -1..K, S # {}
  PROVE  Max(S) \in S /\ \A x \in S : Max(S) >= x
<1>1. PICK x0 \in S : TRUE
  OBVIOUS
<1> DEFINE Gaps == {n \in Nat : K - n \in S}
<1>2. K - x0 \in Gaps
  BY <1>1
<1>3. PICK n \in Gaps : \A m \in Gaps : ~(<<m, n>> \in OpToRel(<, Nat))
  <2>1. Gaps \subseteq Nat /\ Gaps # {}
    BY <1>2
  <2> HIDE DEF Gaps
  <2> QED
    BY <2>1, NatLessThanWellFounded, WFMin
<1>4. \A m \in Gaps : ~(m < n)
  BY <1>3 DEF OpToRel
<1>5. \A x \in S : K - n >= x
  <2> SUFFICES ASSUME NEW x \in S, ~(K - n >= x) PROVE FALSE
    OBVIOUS
  <2>1. K - x \in Gaps /\ K - x < n
    OBVIOUS
  <2> QED
    BY <2>1, <1>4
<1>6. K - n \in S
  OBVIOUS
<1> HIDE DEF Gaps
<1> QED
  BY <1>5, <1>6 DEF Max

LEMMA NextId ==
  ASSUME NEW tickets, tickets \subseteq Ticket
  PROVE  next_id(tickets) \in Nat
<1> DEFINE S == {t.id : t \in tickets} \cup {-1}
<1>1. LastId + 1 \in Nat /\ S # {}
  BY BoundsAssumption
<1>2. S \subseteq -1..(LastId + 1)
  BY BoundsAssumption DEF Ticket
<1>3. Max(S) \in S
  BY <1>1, <1>2, Highest
<1>4. Max(S) \in -1..(LastId + 1)
  BY <1>2, <1>3
<1> HIDE DEF S
<1>5. Max(S) + 1 \in Nat
  BY <1>4, <1>1
<1> QED
  BY <1>5 DEF next_id, S

LEMMA NewTypes ==
  ASSUME BTypeOK, NEW c \in Checkouts, NEW slug \in Slugs, New(c, slug)
  PROVE  BTypeOK'
<1> DEFINE id == next_id(files[c])
<1>1. id \in 0..(LastId + 1)
  BY NextId, BoundsAssumption DEF BTypeOK, New
<1>2. PICK late \in SUBSET merged :
       files' = [files EXCEPT ![c] = @ \cup
         {[id |-> id, slug |-> slug, status |-> "backlog", blocked_by |-> {},
           branch |-> None, pr |-> None, late |-> late, closed |-> "none",
           plan |-> FALSE, outcome |-> FALSE]}]
  BY DEF New
<1> HIDE DEF id
<1>3. [id |-> id, slug |-> slug, status |-> "backlog", blocked_by |-> {},
       branch |-> None, pr |-> None, late |-> late, closed |-> "none",
       plan |-> FALSE, outcome |-> FALSE] \in Ticket
  BY <1>1 DEF Ticket, Statuses, Dates, BTypeOK
<1>4. files' \in [Checkouts -> SUBSET Ticket]
  BY <1>2, <1>3 DEF BTypeOK
<1> QED
  BY <1>4, BoundsAssumption DEF New, Event, BTypeOK

\* A ticket that is rewritten in its place.
LEMMA RewriteTypes ==
  ASSUME BTypeOK, NEW c \in Checkouts, NEW t, NEW u \in Ticket,
         files' = [files EXCEPT ![c] = (@ \ {t}) \cup {u}], UNCHANGED merged,
         UNCHANGED events \/ Event, closing' \in [Checkouts -> SUBSET Ticket]
  PROVE  BTypeOK'
<1>1. files' \in [Checkouts -> SUBSET Ticket]
  BY DEF BTypeOK
<1>2. events' \in 0..MaxEvents
  BY BoundsAssumption DEF BTypeOK, Event
<1> QED
  BY <1>1, <1>2 DEF BTypeOK

LEMMA CloseTypes ==
  ASSUME BTypeOK, NEW c \in Checkouts, NEW t \in closing[c], NEW u \in files[c],
         CloseWrites(c, t, u)
  PROVE  BTypeOK'
<1>1. PICK day \in MergeDates(t, u) :
       files' = [files EXCEPT ![c] = (@ \ {u}) \cup {[u EXCEPT !.status = "done", !.closed = day]}]
  BY DEF CloseWrites
<1>2. u \in Ticket /\ day \in Dates
  BY DEF BTypeOK, MergeDates, Dates
<1>3. [u EXCEPT !.status = "done", !.closed = day] \in Ticket
  BY <1>2 DEF Ticket, Statuses
<1>4. closing' \in [Checkouts -> SUBSET Ticket] /\ UNCHANGED <<merged, events>>
  BY DEF CloseWrites, BTypeOK
<1> QED
  BY <1>1, <1>3, <1>4, RewriteTypes

LEMMA AskingTypes ==
  ASSUME BTypeOK, NEW c \in Checkouts, Asking(c)
  PROVE  BTypeOK'
<1>1. ASSUME NEW t \in files[c], CloseLooks(c, t)
      PROVE  BTypeOK'
  BY <1>1, BoundsAssumption DEF CloseLooks, Event, BTypeOK
<1>2. ASSUME NEW t \in closing[c], CloseFails(c, t)
      PROVE  BTypeOK'
  BY <1>2 DEF CloseFails, BTypeOK
<1> QED
  BY <1>1, <1>2 DEF Asking

LEMMA ByHandTypes ==
  ASSUME BTypeOK, NEW c \in Checkouts, ByHand(c)
  PROVE  BTypeOK'
<1>1. ASSUME NEW t \in files[c], Renumber(c, t)
      PROVE  BTypeOK'
  <2>1. t \in Ticket /\ next_id(files[c]) \in 0..(LastId + 1)
    BY <1>1, NextId, BoundsAssumption DEF BTypeOK, Renumber
  <2>2. [t EXCEPT !.id = next_id(files[c])] \in Ticket
    BY <2>1 DEF Ticket
  <2> QED
    BY <1>1, <2>2, RewriteTypes DEF Renumber, BTypeOK
<1>2. ASSUME NEW t \in files[c], NEW d \in Drafts, Edit(c, t, d)
      PROVE  BTypeOK'
  <2>1. t \in Ticket /\ d \in Draft
    BY DraftsAssumption DEF BTypeOK
  <2>2. [t EXCEPT !.status = d.status, !.blocked_by = d.blocked_by, !.branch = d.branch,
                  !.pr = d.pr, !.closed = d.closed, !.plan = d.plan, !.outcome = d.outcome]
          \in Ticket
    BY <2>1 DEF Ticket, Draft
  <2> QED
    BY <1>2, <2>2, RewriteTypes DEF Edit, BTypeOK
<1>3. ASSUME NEW d \in Checkouts \ {c}, Merge(c, d)
      PROVE  BTypeOK'
  <2>1. PICK kept \in {c, d} :
       files' = [files EXCEPT ![c] = files[kept] \cup
         {t \in files[c] \cup files[d] : \A u \in files[kept] : ~SameFile(t, u)}]
    BY <1>3 DEF Merge
  <2>2. files' \in [Checkouts -> SUBSET Ticket]
    BY <2>1 DEF BTypeOK
  <2> QED
    BY <1>3, <2>2, BoundsAssumption DEF Merge, Event, BTypeOK
<1> QED
  BY <1>1, <1>2, <1>3 DEF ByHand

LEMMA CommandTypes ==
  ASSUME BTypeOK, NEW c \in Checkouts, Command(c)
  PROVE  BTypeOK'
  BY NewTypes, CloseTypes DEF Command

\* What `close` has looked at before it asks.
LookedAt == \A c \in Checkouts : \A t \in closing[c] : t.outcome /\ t.pr # None

LEMMA LookedAtKept ==
  ASSUME BTypeOK, LookedAt, [RNext]_allvars
  PROVE  LookedAt'
<1>1. ASSUME NEW c \in Checkouts, NEW t \in files[c], CloseLooks(c, t)
      PROVE  LookedAt'
  <2>1. t.outcome /\ t.pr # None
    BY <1>1 DEF CloseLooks, Consistent, Valid, Lifecycle
  <2>2. \A d \in Checkouts : closing'[d] \subseteq closing[d] \cup {t}
    BY <1>1 DEF CloseLooks, BTypeOK
  <2> QED
    BY <2>1, <2>2 DEF LookedAt
<1>2. ASSUME NEW c \in Checkouts, NEW t, CloseFails(c, t) \/ \E u : CloseWrites(c, t, u)
      PROVE  LookedAt'
  <2>1. \A d \in Checkouts : closing'[d] \subseteq closing[d]
    BY <1>2 DEF CloseFails, CloseWrites, BTypeOK
  <2> QED
    BY <2>1 DEF LookedAt
<1>3. CASE UNCHANGED closing
  BY <1>3 DEF LookedAt
<1>4. ASSUME NEW c \in Checkouts, Rewrite(c)
      PROVE  LookedAt'
  <2>1. CASE ByHand(c) \/ \E slug \in Slugs : New(c, slug)
    BY <1>3, <2>1 DEF ByHand, New, Renumber, Edit, Merge
  <2> QED
    BY <1>2, <1>4, <2>1 DEF Rewrite, Command
<1>5. ASSUME NEW c \in Checkouts, NEW t, NEW heard, Answered(c, t, heard)
      PROVE  LookedAt'
  BY <1>3, <1>5 DEF Answered
<1>6. ASSUME NEW c \in Checkouts, NEW t, NEW done, NEW heard,
             Leave(c, t) \/ Post(c, t, done, heard) \/ Put(c, t, done, heard)
      PROVE  LookedAt'
  <2>1. (\E h : Answered(c, t, h)) \/ UNCHANGED bvars
    BY <1>6 DEF Leave, Post, Put
  <2> QED
    BY <1>3, <1>5, <2>1 DEF bvars
<1>7. CASE UNCHANGED allvars
  BY <1>3, <1>7 DEF allvars, bvars
<1>8. ASSUME NEW c \in Checkouts, Load(c) \/ Return(c)
      PROVE  LookedAt'
  BY <1>3, <1>8 DEF Load, Return, bvars
<1>9. ASSUME NEW r, Attach(r) \/ Delete(r) \/ Move(r, "done")
      PROVE  LookedAt'
  BY <1>3, <1>9 DEF Attach, Delete, Move, ByOwner
<1>10. ASSUME NEW p \in Prs, MergePr(p)
      PROVE  LookedAt'
  BY <1>3, <1>10 DEF MergePr
<1> QED
  BY <1>1, <1>2, <1>4, <1>6, <1>7, <1>8, <1>9, <1>10 DEF RNext, Asking

\* What `go2 backlog close` writes is accepted together with the tickets that
\* it has not read again.
LEMMA CloseIsAccepted ==
  ASSUME BTypeOK, LookedAt,
         NEW c \in Checkouts, NEW old \in closing[c], NEW t \in files[c], CloseWrites(c, old, t),
         Consistent(files[c]), old.pr \notin t.late, t.outcome, t.pr # None
  PROVE  Consistent(files'[c])
<1>1. PICK day \in MergeDates(old, t) :
       files' = [files EXCEPT ![c] = (@ \ {t}) \cup {[t EXCEPT !.status = "done", !.closed = day]}]
  BY DEF CloseWrites
<1>2. day = "since"
  BY DEF MergeDates
<1> DEFINE u == [t EXCEPT !.status = "done", !.closed = "since"]
<1>0. t \in Ticket
  BY DEF BTypeOK
<1>3. /\ t \in Ticket /\ u.id = t.id /\ u.status = "done" /\ u.closed = "since"
      /\ u.plan = t.plan /\ u.pr = t.pr /\ u.outcome = t.outcome
      /\ u.blocked_by = t.blocked_by
  BY ONLY <1>0 DEF Ticket
<1>4. files'[c] = (files[c] \ {t}) \cup {u}
  BY <1>1, <1>2 DEF BTypeOK
<1>5. Consistent(files[c]) /\ t.outcome /\ t.pr # None
  OBVIOUS
<1> HIDE DEF u
<1>6. Valid(u)
  BY <1>3, <1>5 DEF Consistent, Valid, Lifecycle
<1>7. ~IsOpen(u)
  BY <1>3 DEF IsOpen, OPEN_STATUSES
<1>8. ASSUME NEW v \in files'[c]
      PROVE  Valid(v) /\ Blockers(v, files'[c])
  <2>1. PICK w \in files[c] : /\ v.blocked_by = w.blocked_by /\ v.id = w.id
                              /\ v = w \/ v = u
    BY <1>3, <1>4
  <2>2. Valid(v)
    BY <1>4, <1>5, <1>6 DEF Consistent
  <2>3. Blockers(w, files[c])
    BY <1>5 DEF Consistent
  <2>4. ASSUME NEW b \in v.blocked_by
        PROVE  /\ b # v.id
               /\ \E y \in files'[c] : y.id = b
                    /\ v.status \in {"ready", "in-progress", "in-review"} => ~IsOpen(y)
    <3>1. b # w.id /\ \E y \in files[c] : y.id = b
            /\ w.status \in {"ready", "in-progress", "in-review"} => ~IsOpen(y)
      BY <2>1, <2>3 DEF Blockers
    <3>2. PICK y \in files[c] : y.id = b
            /\ w.status \in {"ready", "in-progress", "in-review"} => ~IsOpen(y)
      BY <3>1
    <3>3. CASE y = t
      BY <3>1, <3>2, <3>3, <1>3, <1>4, <1>7, <2>1
    <3>4. CASE y # t
      BY <3>1, <3>2, <3>4, <1>3, <1>4, <2>1
    <3> QED
      BY <3>3, <3>4
  <2> QED
    BY <2>2, <2>4 DEF Blockers
<1>9. \A v, w \in files'[c] : v.id = w.id => v = w
  BY <1>3, <1>4, <1>5 DEF Consistent
<1>10. \A v, w \in files'[c] :
         v.status = "in-progress" /\ w.status = "in-progress" /\ v.branch = w.branch => v = w
  BY <1>3, <1>4, <1>5 DEF Consistent
<1> QED
  BY <1>8, <1>9, <1>10 DEF Consistent

-----------------------------------------------------------------------------
(* The mirror: a pass begins and ends. *)

LEMMA InvAtFirst == RInit => Inv
<1> SUFFICES ASSUME RInit PROVE Inv
  OBVIOUS
<1>1. BTypeOK
  BY StartsAssumption, BoundsAssumption DEF RInit, BInit, BTypeOK
<1>2. records = <<>> /\ DOMAIN records = {}
  BY DEF RInit
<1>3. \A c \in Checkouts : ~UnderWay(c)
  BY DEF RInit, UnderWay, NoPass
<1>4. RecordsInv
  BY <1>2 DEF RInit, RecordsInv
<1>5. PassesInv
  BY <1>3 DEF RInit, PassesInv
<1> QED
  BY <1>1, <1>2, <1>4, <1>5
     DEF RInit, Inv, MirrorInv, AttachedInv, HandProofsKept, OnePerRef, QuietsInv

LEMMA LoadKeeps ==
  ASSUME Inv, NEW c \in Checkouts, Load(c)
  PROVE  MirrorInv'
<1> DEFINE refs == {records[r].ref : r \in DOMAIN records}
           others == {d \in Checkouts \ {c} : UnderWay(d)}
<1>1. PICK of \in [refs -> DOMAIN records] :
        /\ \A ref \in refs : records[of[ref]].ref = ref
        /\ pass' = [pass EXCEPT ![c] =
             [stage |-> "push", tickets |-> files[c],
              by_ref |-> [ref \in refs |-> [rec |-> of[ref], was |-> records[of[ref]]]],
              open_ids |-> Ids({t \in files[c] : IsOpen(t)})]]
  BY DEF Load
<1>2. /\ ~UnderWay(c) /\ Consistent(files[c])
      /\ quiet' = IF others = {} THEN {c} ELSE {}
      /\ paired' = paired \cup (Ids(files[c]) \cap UNION {Ids(pass[d].tickets) : d \in others})
      /\ UNCHANGED <<files, records, posts, attached>>
  BY DEF Load
<1>3. /\ pass = [d \in Checkouts |-> pass[d]]
      /\ \A d \in Checkouts : UnderWay(d) => PassInv(d)
      /\ \A d, e \in Checkouts : d # e /\ UnderWay(d) /\ UnderWay(e) =>
           Ids(pass[d].tickets) \cap Ids(pass[e].tickets) \subseteq paired
  BY DEF Inv, MirrorInv, PassesInv
<1>4. /\ pass'[c] = [stage |-> "push", tickets |-> files[c],
                     by_ref |-> [ref \in refs |-> [rec |-> of[ref], was |-> records[of[ref]]]],
                     open_ids |-> Ids({t \in files[c] : IsOpen(t)})]
      /\ \A d \in Checkouts \ {c} : pass'[d] = pass[d]
      /\ pass' = [d \in Checkouts |-> pass'[d]]
  BY <1>1, <1>3
<1>5. \A d \in Checkouts : UnderWay(d)' <=> d = c \/ UnderWay(d)
  BY <1>4 DEF UnderWay
<1>6. \A d \in Checkouts : UnderWay(d)' => PassInv(d)'
  <2> SUFFICES ASSUME NEW d \in Checkouts, UnderWay(d)' PROVE PassInv(d)'
    OBVIOUS
  <2>1. CASE d # c
    BY <1>2, <1>3, <1>4, <1>5, <2>1 DEF PassInv
  <2>2. CASE d = c
    <3>1. /\ pass'[c] = [stage |-> "push", tickets |-> pass'[c].tickets,
                         by_ref |-> pass'[c].by_ref, open_ids |-> pass'[c].open_ids]
          /\ pass'[c].tickets = files[c] /\ DOMAIN pass'[c].by_ref = refs
          /\ \A ref \in refs : pass'[c].by_ref[ref] = [rec |-> of[ref], was |-> records[of[ref]]]
      BY <1>4
    <3>2. files[c] \subseteq Ticket /\ \A t, u \in files[c] : t.id = u.id => t = u
      BY <1>2 DEF Inv, BTypeOK, Consistent
    <3>3. \A ref \in refs : /\ records[of[ref]].ref = ref
                            /\ of[ref] \in attached => Hand \in records[of[ref]].proofs
      BY <1>1 DEF Inv, MirrorInv, AttachedInv, HandProofsKept
    <3>4. \A t \in files[c], r \in DOMAIN records : records[r].ref = t.id => t.id \in refs
      OBVIOUS
    <3> HIDE DEF refs
    <3>5. \A ref \in DOMAIN pass'[c].by_ref :
            /\ pass'[c].by_ref[ref].was.ref = ref
            /\ pass'[c].by_ref[ref].rec \in attached' => Hand \in pass'[c].by_ref[ref].was.proofs
      <4> SUFFICES ASSUME NEW ref \in refs
                   PROVE  /\ pass'[c].by_ref[ref].was.ref = ref
                          /\ pass'[c].by_ref[ref].rec \in attached =>
                               Hand \in pass'[c].by_ref[ref].was.proofs
        BY <1>2, <3>1
      <4>1. /\ pass'[c].by_ref[ref].rec = of[ref]
            /\ pass'[c].by_ref[ref].was = records[of[ref]]
        <5>1. pass'[c].by_ref[ref] = [rec |-> of[ref], was |-> records[of[ref]]]
          BY ONLY <3>1, ref \in refs
        <5> QED
          BY ONLY <5>1
      <4> QED
        BY <3>3, <4>1
    <3>6. \A t \in pass'[c].tickets, r \in DOMAIN records' :
            records'[r].ref = t.id /\ t.id \notin paired' => t.id \in DOMAIN pass'[c].by_ref
      BY <1>2, <3>1, <3>4
    <3> QED
      BY <2>2, <3>1, <3>2, <3>5, <3>6 DEF PassInv
  <2> QED
    BY <2>1, <2>2
<1>7. \A d, e \in Checkouts : d # e /\ UnderWay(d)' /\ UnderWay(e)' =>
        Ids(pass'[d].tickets) \cap Ids(pass'[e].tickets) \subseteq paired'
  <2>1. \A d \in others : Ids(files[c]) \cap Ids(pass[d].tickets) \subseteq paired'
    BY <1>2
  <2>2. pass'[c].tickets = files[c]
    BY <1>4
  <2> QED
    BY <1>2, <1>3, <1>4, <1>5, <2>1, <2>2
<1>8. PassesInv'
  BY <1>4, <1>6, <1>7 DEF PassesInv
<1>9. RecordsInv' /\ AttachedInv' /\ OnePerRef'
  BY <1>2 DEF Inv, MirrorInv, RecordsInv, AttachedInv, HandProofsKept, OnePerRef
<1>10. QuietsInv'
  <2>1. CASE others # {}
    BY <1>2, <2>1 DEF QuietsInv
  <2>2. CASE others = {}
    <3>1. /\ pass'[c].tickets = files'[c]
          /\ pass'[c].open_ids = Ids({t \in files[c] : IsOpen(t)})'
          /\ DOMAIN pass'[c].by_ref = refs
          /\ \A ref \in refs : /\ pass'[c].by_ref[ref].rec \in DOMAIN records
                               /\ records[pass'[c].by_ref[ref].rec] = pass'[c].by_ref[ref].was
      BY <1>2, <1>4
    <3>2. \A d \in Checkouts \ {c} : ~UnderWay(d)'
      BY <1>5, <2>2
    <3>3. QuietInv(c)'
      BY <1>2, <3>1, <3>2 DEF QuietInv, Consistent
    <3> QED
      BY <1>2, <2>2, <3>3 DEF QuietsInv
  <2> QED
    BY <2>1, <2>2
<1> QED
  BY <1>8, <1>9, <1>10 DEF MirrorInv

\* A pass that is over leaves what the others have.
LEMMA EndKeeps ==
  ASSUME Inv, NEW c \in Checkouts, pass' = [pass EXCEPT ![c] = NoPass],
         quiet' \subseteq quiet, UNCHANGED <<files, records, posts, paired, attached>>
  PROVE  MirrorInv'
<1>1. /\ \A d \in Checkouts : UnderWay(d)' => UnderWay(d) /\ pass'[d] = pass[d]
      /\ pass' = [d \in Checkouts |-> pass'[d]]
  BY DEF Inv, MirrorInv, PassesInv, UnderWay, NoPass
<1>2. PassesInv'
  <2>1. \A d \in Checkouts : UnderWay(d)' => PassInv(d)'
    BY <1>1 DEF Inv, MirrorInv, PassesInv, PassInv
  <2> QED
    BY <1>1, <2>1 DEF Inv, MirrorInv, PassesInv
<1>3. RecordsInv' /\ AttachedInv' /\ OnePerRef'
  BY DEF Inv, MirrorInv, RecordsInv, AttachedInv, HandProofsKept, OnePerRef
<1>4. \A d \in quiet' : UnderWay(d)' => QuietInv(d)'
  <2> SUFFICES ASSUME NEW d \in quiet', UnderWay(d)' PROVE QuietInv(d)'
    OBVIOUS
  <2>1. d \in Checkouts /\ QuietInv(d) /\ pass'[d] = pass[d]
    BY <1>1 DEF Inv, MirrorInv, QuietsInv
  <2> QED
    BY <1>1, <2>1 DEF QuietInv, Mirrored
<1> QED
  BY <1>2, <1>3, <1>4 DEF Inv, MirrorInv, QuietsInv

-----------------------------------------------------------------------------
(* A pass pushes a ticket. *)

LEMMA AnsweredPass ==
  ASSUME PassesInv, NEW c \in Checkouts, NEW t, NEW heard \in BOOLEAN, UnderWay(c),
         Answered(c, t, heard)
  PROVE  /\ \A d \in Checkouts \ {c} : pass'[d] = pass[d]
         /\ pass' = [d \in Checkouts |-> pass'[d]]
         /\ heard => pass'[c] = [stage |-> "push", tickets |-> pass[c].tickets \ {t},
                                 by_ref |-> pass[c].by_ref, open_ids |-> pass[c].open_ids]
         /\ ~heard => ~UnderWay(c)'
<1>1. /\ pass = [d \in Checkouts |-> pass[d]]
      /\ pass[c] = [stage |-> "push", tickets |-> pass[c].tickets, by_ref |-> pass[c].by_ref,
                    open_ids |-> pass[c].open_ids]
  BY DEF PassesInv, PassInv
<1>2. pass' = IF heard THEN [pass EXCEPT ![c].tickets = @ \ {t}] ELSE [pass EXCEPT ![c] = NoPass]
  BY DEF Answered
<1>3. CASE heard
  <2>1. pass'[c] = [pass[c] EXCEPT !.tickets = @ \ {t}]
    <3>1. pass' = [pass EXCEPT ![c].tickets = @ \ {t}]
      BY <1>2, <1>3
    <3> QED
      BY <1>1, <3>1
  <2>2. [pass[c] EXCEPT !.tickets = @ \ {t}] =
          [stage |-> "push", tickets |-> pass[c].tickets \ {t},
           by_ref |-> pass[c].by_ref, open_ids |-> pass[c].open_ids]
    BY <1>1
  <2> QED
    BY <1>1, <1>2, <1>3, <2>1, <2>2
<1>4. CASE ~heard
  BY <1>1, <1>2, <1>4 DEF UnderWay, NoPass
<1> QED
  BY <1>3, <1>4

\* A request that changes the records of no ticket but t, makes one only if
\* the pass knows none, and leaves a true one when a quiet pass hears of it.
LEMMA PushKeeps ==
  ASSUME Inv, NEW c \in Checkouts, NEW t, Mine(c, t), NEW heard \in BOOLEAN,
         Answered(c, t, heard),
         RecordsInv', DOMAIN records \subseteq DOMAIN records',
         \A r \in DOMAIN records : /\ records'[r].ref = records[r].ref
                                   /\ r \in attached => Hand \in records'[r].proofs,
         \A r \in DOMAIN records' \ DOMAIN records :
           /\ records'[r].ref = t.id /\ t.id \notin DOMAIN pass[c].by_ref
           /\ \A s \in DOMAIN records' \ DOMAIN records : r = s,
         QuietInv(c) /\ heard =>
           /\ \A r \in DOMAIN records : records[r].ref # t.id => records'[r] = records[r]
           /\ \E r \in DOMAIN records' :
                /\ records'[r].ref = t.id
                /\ records'[r].fields = desired(t, pass[c].open_ids)
                /\ t.pr # None => records'[r].proofs \cap Prs = {t.pr}
  PROVE  MirrorInv'
<1>1. /\ UnderWay(c) /\ t \in pass[c].tickets
      /\ UNCHANGED <<files, quiet, paired, attached>>
  BY DEF Mine, Turn, UnderWay, Answered
<1>2. PassInv(c) /\ PassesInv
  BY <1>1 DEF Inv, MirrorInv, PassesInv
<1>3. /\ \A d \in Checkouts \ {c} : pass'[d] = pass[d]
      /\ pass' = [d \in Checkouts |-> pass'[d]]
      /\ heard => pass'[c] = [stage |-> "push", tickets |-> pass[c].tickets \ {t},
                              by_ref |-> pass[c].by_ref, open_ids |-> pass[c].open_ids]
      /\ ~heard => ~UnderWay(c)'
  BY <1>1, <1>2, AnsweredPass
<1>4. \A d \in Checkouts : UnderWay(d)' =>
        /\ UnderWay(d) /\ pass'[d].tickets \subseteq pass[d].tickets
        /\ pass'[d] = [stage |-> "push", tickets |-> pass'[d].tickets,
                       by_ref |-> pass'[d].by_ref, open_ids |-> pass'[d].open_ids]
        /\ pass'[d].by_ref = pass[d].by_ref /\ pass'[d].open_ids = pass[d].open_ids
        /\ d = c => t \notin pass'[d].tickets
  <2> SUFFICES ASSUME NEW d \in Checkouts, UnderWay(d)'
               PROVE  /\ UnderWay(d) /\ pass'[d].tickets \subseteq pass[d].tickets
                      /\ pass'[d] = [stage |-> "push", tickets |-> pass'[d].tickets,
                                     by_ref |-> pass'[d].by_ref, open_ids |-> pass'[d].open_ids]
                      /\ pass'[d].by_ref = pass[d].by_ref /\ pass'[d].open_ids = pass[d].open_ids
                      /\ d = c => t \notin pass'[d].tickets
    OBVIOUS
  <2>1. CASE d = c
    BY <1>1, <1>3, <2>1
  <2>2. CASE d # c
    <3>1. pass'[d] = pass[d] /\ UnderWay(d)
      BY <1>3, <2>2 DEF UnderWay
    <3> QED
      BY <1>2, <2>2, <3>1 DEF PassesInv, PassInv
  <2> QED
    BY <2>1, <2>2
<1>5. \A d \in Checkouts : \A u : UnderWay(d)' /\ u \in pass'[d].tickets /\ u.id = t.id =>
        t.id \in paired
  <2> SUFFICES ASSUME NEW d \in Checkouts, NEW u, UnderWay(d)', u \in pass'[d].tickets,
                      u.id = t.id
               PROVE  t.id \in paired
    OBVIOUS
  <2>1. CASE d = c
    BY <1>1, <1>2, <1>4, <2>1 DEF PassInv
  <2>2. CASE d # c
    <3>1. t.id \in Ids(pass[c].tickets) /\ t.id \in Ids(pass[d].tickets)
      BY <1>1, <1>4 DEF Ids
    <3> QED
      BY <1>1, <1>2, <1>4, <2>2, <3>1 DEF PassesInv
  <2> QED
    BY <2>1, <2>2
<1>6. \A d \in Checkouts : UnderWay(d)' => PassInv(d)'
  <2> SUFFICES ASSUME NEW d \in Checkouts, UnderWay(d)' PROVE PassInv(d)'
    OBVIOUS
  <2>1. PassInv(d)
    BY <1>2, <1>4 DEF PassesInv
  <2>2. \A u \in pass'[d].tickets, r \in DOMAIN records' :
          records'[r].ref = u.id /\ u.id \notin paired => u.id \in DOMAIN pass'[d].by_ref
    <3> SUFFICES ASSUME NEW u \in pass'[d].tickets, NEW r \in DOMAIN records',
                        records'[r].ref = u.id, u.id \notin paired
                 PROVE  u.id \in DOMAIN pass[d].by_ref
      BY <1>4
    <3>1. r \in DOMAIN records
      BY <1>5
    <3> QED
      BY <1>4, <2>1, <3>1 DEF PassInv
  <2>3. /\ pass'[d].tickets \subseteq Ticket
        /\ \A v, u \in pass'[d].tickets : v.id = u.id => v = u
    BY <1>4, <2>1 DEF PassInv
  <2>4. \A ref \in DOMAIN pass'[d].by_ref :
          /\ pass'[d].by_ref[ref].was.ref = ref
          /\ pass'[d].by_ref[ref].rec \in attached' => Hand \in pass'[d].by_ref[ref].was.proofs
    BY <1>1, <1>4, <2>1 DEF PassInv
  <2> QED
    BY <1>1, <1>4, <2>2, <2>3, <2>4 DEF PassInv
<1>7. \A d, e \in Checkouts : d # e /\ UnderWay(d)' /\ UnderWay(e)' =>
        Ids(pass'[d].tickets) \cap Ids(pass'[e].tickets) \subseteq paired'
  <2> SUFFICES ASSUME NEW d \in Checkouts, NEW e \in Checkouts, d # e,
                      UnderWay(d)', UnderWay(e)'
               PROVE  Ids(pass'[d].tickets) \cap Ids(pass'[e].tickets) \subseteq paired
    BY <1>1
  <2>1. Ids(pass[d].tickets) \cap Ids(pass[e].tickets) \subseteq paired
    BY <1>2, <1>4 DEF PassesInv
  <2>2. /\ Ids(pass'[d].tickets) \subseteq Ids(pass[d].tickets)
        /\ Ids(pass'[e].tickets) \subseteq Ids(pass[e].tickets)
    <3>1. pass'[d].tickets \subseteq pass[d].tickets /\ pass'[e].tickets \subseteq pass[e].tickets
      BY <1>4
    <3> QED
      BY ONLY <3>1 DEF Ids
  <2> QED
    BY <2>1, <2>2
<1>8. OnePerRef'
  <2> SUFFICES ASSUME NEW r \in DOMAIN records', NEW s \in DOMAIN records',
                      records'[r].ref = records'[s].ref, records'[r].ref \notin paired,
                      s \in DOMAIN records => r \in DOMAIN records
               PROVE  r = s
    <3>1. \A r, s \in DOMAIN records' :
            /\ records'[r].ref = records'[s].ref /\ records'[r].ref \notin paired
            /\ s \in DOMAIN records => r \in DOMAIN records
            => r = s
      OBVIOUS
    <3> QED
      BY <1>1, <3>1 DEF OnePerRef
  <2>1. CASE s \in DOMAIN records
    BY <2>1 DEF Inv, MirrorInv, OnePerRef
  <2>2. CASE s \notin DOMAIN records /\ r \in DOMAIN records
    BY <1>1, <1>2, <2>2 DEF PassInv
  <2>3. CASE s \notin DOMAIN records /\ r \notin DOMAIN records
    BY <2>3
  <2> QED
    BY <2>1, <2>2, <2>3
<1>9. AttachedInv'
  BY <1>1 DEF Inv, MirrorInv, AttachedInv, HandProofsKept
<1>10. \A d \in quiet : UnderWay(d)' => QuietInv(d)'
  <2> SUFFICES ASSUME NEW d \in quiet, UnderWay(d)' PROVE QuietInv(d)'
    OBVIOUS
  <2>1. d \in Checkouts /\ QuietInv(d) /\ d = c
    BY <1>1, <1>4 DEF Inv, MirrorInv, QuietsInv, QuietInv
  <2>2. heard /\ QuietInv(c)
    BY <1>3, <2>1
  <2>3. \A e \in Checkouts \ {c} : ~UnderWay(e)'
    BY <1>4, <2>2 DEF QuietInv
  <2>4. /\ Consistent(files[c])' /\ pass'[c].tickets \subseteq files'[c]
        /\ pass'[c].open_ids = Ids({u \in files[c] : IsOpen(u)})'
    BY <1>1, <1>4, <2>1, <2>2 DEF QuietInv, Consistent
  <2>5. \A u, v \in files[c] : u.id = v.id => u = v
    BY <2>2 DEF QuietInv, Consistent
  <2>6. t \in files[c]
    BY <1>1, <2>2 DEF QuietInv
  <2>7. \A u \in pass'[c].tickets : u.id \in DOMAIN pass'[c].by_ref =>
          /\ pass'[c].by_ref[u.id].rec \in DOMAIN records'
          /\ records'[pass'[c].by_ref[u.id].rec] = pass'[c].by_ref[u.id].was
    <3> SUFFICES ASSUME NEW u \in pass'[c].tickets, u.id \in DOMAIN pass[c].by_ref
                 PROVE  /\ pass[c].by_ref[u.id].rec \in DOMAIN records'
                        /\ records'[pass[c].by_ref[u.id].rec] = pass[c].by_ref[u.id].was
      BY <1>4, <2>1
    <3>1. u.id # t.id /\ u \in pass[c].tickets
      BY <1>1, <1>2, <1>4, <2>1 DEF PassInv
    <3>2. /\ pass[c].by_ref[u.id].rec \in DOMAIN records
          /\ records[pass[c].by_ref[u.id].rec] = pass[c].by_ref[u.id].was
          /\ pass[c].by_ref[u.id].was.ref = u.id
      BY <1>2, <2>2, <3>1 DEF QuietInv, PassInv
    <3> QED
      BY <2>2, <3>1, <3>2
  <2>8. \A u \in files'[c] \ pass'[c].tickets : Mirrored(c, u)'
    <3> SUFFICES ASSUME NEW u \in files[c], u \notin pass'[c].tickets PROVE Mirrored(c, u)'
      BY <1>1
    <3>1. CASE u = t
      BY <1>4, <2>1, <2>2, <3>1 DEF Mirrored
    <3>2. CASE u # t
      <4>1. u.id # t.id /\ u \notin pass[c].tickets
        BY <1>3, <2>2, <2>5, <2>6, <3>2
      <4>2. PICK r \in DOMAIN records :
              /\ records[r].ref = u.id
              /\ records[r].fields = desired(u, pass[c].open_ids)
              /\ u.pr # None => records[r].proofs \cap Prs = {u.pr}
        BY <2>2, <4>1 DEF QuietInv, Mirrored
      <4> QED
        BY <1>4, <2>1, <2>2, <4>1, <4>2 DEF Mirrored
    <3> QED
      BY <3>1, <3>2
  <2> QED
    BY <2>1, <2>3, <2>4, <2>7, <2>8 DEF QuietInv
<1> QED
  BY <1>1, <1>3, <1>6, <1>7, <1>8, <1>9, <1>10
     DEF Inv, MirrorInv, PassesInv, QuietsInv

LEMMA PostKeeps ==
  ASSUME Inv, NEW c \in Checkouts, NEW t \in pass[c].tickets, NEW done \in BOOLEAN,
         NEW heard \in BOOLEAN, Post(c, t, done, heard)
  PROVE  MirrorInv'
<1>1. /\ Mine(c, t) /\ Answered(c, t, heard) /\ t.id \notin DOMAIN pass[c].by_ref
      /\ heard => done
      /\ Create(c, t, done)
  BY DEF Post
<1>2. PassInv(c) /\ RecordsInv
  BY <1>1 DEF Inv, MirrorInv, PassesInv, Mine, UnderWay
<1>3. t \in Ticket
  BY <1>2 DEF PassInv
<1>4. CASE ~done
  <2>1. UNCHANGED <<records, posts>> /\ ~heard
    BY <1>1, <1>4 DEF Create
  <2>2. RecordsInv'
    BY <1>2, <2>1 DEF RecordsInv
  <2>3. \A r \in attached : Hand \in records[r].proofs
    BY DEF Inv, MirrorInv, AttachedInv, HandProofsKept
  <2> QED
    BY <1>1, <2>1, <2>2, <2>3, PushKeeps
<1>5. CASE done
  <2> DEFINE new == [ref |-> t.id, fields |-> desired(t, pass[c].open_ids),
                     proofs |-> _proofs(t, {}, {})]
  <2>1. /\ posts' = posts + 1
        /\ records' = [r \in DOMAIN records \cup {posts'} |-> IF r = posts' THEN new ELSE records[r]]
    BY <1>1, <1>5 DEF Create
  <2>2. posts \in Nat /\ posts + 1 \notin DOMAIN records
    BY <1>2 DEF RecordsInv
  <2>3. /\ DOMAIN records' = DOMAIN records \cup {posts + 1}
        /\ records'[posts + 1] = new
        /\ \A r \in DOMAIN records : records'[r] = records[r]
        /\ records' = [r \in DOMAIN records' |-> records'[r]]
    BY <2>1, <2>2
  <2>4. /\ new.ref = t.id /\ new.fields = desired(t, pass[c].open_ids)
        /\ new = [ref |-> new.ref, fields |-> new.fields, proofs |-> new.proofs]
        /\ new.proofs = IF t.pr = None THEN {} ELSE {t.pr}
    BY DEF _proofs
  <2>5. t.pr # None => t.pr \in Prs
    BY <1>3 DEF Ticket
  <2> HIDE DEF new
  <2>6. /\ \A p, q \in new.proofs \cap Prs : p = q
        /\ t.pr # None => new.proofs \cap Prs = {t.pr}
    BY <2>4, <2>5
  <2>7. RecordsInv'
    BY <1>2, <2>1, <2>2, <2>3, <2>4, <2>6 DEF RecordsInv
  <2>8. \A r \in attached : Hand \in records[r].proofs
    BY DEF Inv, MirrorInv, AttachedInv, HandProofsKept
  <2> QED
    BY <1>1, <2>3, <2>4, <2>6, <2>7, <2>8, PushKeeps
<1> QED
  BY <1>4, <1>5

LEMMA PutKeeps ==
  ASSUME Inv, NEW c \in Checkouts, NEW t \in pass[c].tickets, NEW done \in BOOLEAN,
         NEW heard \in BOOLEAN, Put(c, t, done, heard)
  PROVE  MirrorInv'
<1> DEFINE entry == pass[c].by_ref[t.id]
<1>1. /\ Mine(c, t) /\ t.id \in DOMAIN pass[c].by_ref
      /\ heard => done
      /\ UNCHANGED posts
  BY DEF Put
<1>2. PassInv(c) /\ RecordsInv
  BY <1>1 DEF Inv, MirrorInv, PassesInv, Mine, UnderWay
<1>3. /\ t \in Ticket /\ entry.was.ref = t.id
      /\ entry.rec \in attached => Hand \in entry.was.proofs
  BY <1>1, <1>2 DEF PassInv
<1>4. CASE entry.rec \notin DOMAIN records
  <2>1. pass' = [pass EXCEPT ![c] = NoPass] /\ UNCHANGED <<bvars, records, quiet, paired, attached>>
    BY <1>4 DEF Put
  <2> QED
    BY <1>1, <2>1, EndKeeps DEF bvars
<1>5. CASE entry.rec \in DOMAIN records /\ ~done
  <2>1. UNCHANGED <<records, posts>> /\ Answered(c, t, heard) /\ ~heard
    BY <1>1, <1>5 DEF Put
  <2>2. RecordsInv'
    BY <1>2, <2>1 DEF RecordsInv
  <2>3. \A r \in attached : Hand \in records[r].proofs
    BY DEF Inv, MirrorInv, AttachedInv, HandProofsKept
  <2> QED
    BY <1>1, <2>1, <2>2, <2>3, PushKeeps
<1>6. CASE entry.rec \in DOMAIN records /\ done
  <2> DEFINE rec == entry.rec
             put == [ref |-> records[rec].ref, fields |-> desired(t, pass[c].open_ids),
                     proofs |-> _proofs(t, entry.was.proofs, records[rec].proofs)]
  <2>1. /\ records' = [records EXCEPT ![rec] = put]
        /\ Answered(c, t, heard)
    BY <1>6 DEF Put
  <2>2. /\ records = [r \in DOMAIN records |-> records[r]]
        /\ records[rec] = [ref |-> records[rec].ref, fields |-> records[rec].fields,
                           proofs |-> records[rec].proofs]
        /\ \A p, q \in records[rec].proofs \cap Prs : p = q
    BY <1>2, <1>6 DEF RecordsInv
  <2>4. /\ put.ref = records[rec].ref /\ put.fields = desired(t, pass[c].open_ids)
        /\ put.proofs = _proofs(t, entry.was.proofs, records[rec].proofs)
        /\ put = [ref |-> put.ref, fields |-> put.fields, proofs |-> put.proofs]
    OBVIOUS
  <2> HIDE DEF put, rec
  <2>6. /\ DOMAIN records' = DOMAIN records /\ records'[rec] = put
        /\ \A r \in DOMAIN records \ {rec} : records'[r] = records[r]
        /\ records' = [r \in DOMAIN records' |-> records'[r]]
    BY <1>6, <2>1, <2>2 DEF rec
  <2>7. t.pr # None => t.pr \in Prs
    BY <1>3 DEF Ticket
  <2>8. \A p, q \in put.proofs \cap Prs : p = q
    BY <2>2, <2>4 DEF _proofs
  <2>9. RecordsInv'
    <3>1. ASSUME NEW r \in DOMAIN records
          PROVE  /\ records'[r] = [ref |-> records'[r].ref, fields |-> records'[r].fields,
                                   proofs |-> records'[r].proofs]
                 /\ \A p, q \in records'[r].proofs \cap Prs : p = q
      <4>1. CASE r = rec
        BY <2>4, <2>6, <2>8, <4>1
      <4>2. CASE r # rec
        BY <1>2, <2>6, <4>2 DEF RecordsInv
      <4> QED
        BY <4>1, <4>2
    <3>2. posts' \in Nat /\ DOMAIN records' \subseteq 1..posts'
      BY <1>1, <1>2, <2>6 DEF RecordsInv
    <3> QED
      BY <2>6, <3>1, <3>2 DEF RecordsInv
  <2>10. rec \in attached => Hand \in put.proofs
    <3>1. rec \in attached => Hand \in records[rec].proofs
      BY DEF Inv, MirrorInv, AttachedInv, HandProofsKept
    <3> QED
      BY <1>3, <2>4, <3>1, HandAssumption DEF _proofs, rec
  <2>11. \A r \in DOMAIN records : /\ records'[r].ref = records[r].ref
                                   /\ r \in attached => Hand \in records'[r].proofs
    BY <2>4, <2>6, <2>10 DEF Inv, MirrorInv, AttachedInv, HandProofsKept
  <2>12. QuietInv(c) /\ heard =>
           /\ \A r \in DOMAIN records : records[r].ref # t.id => records'[r] = records[r]
           /\ \E r \in DOMAIN records' :
                /\ records'[r].ref = t.id
                /\ records'[r].fields = desired(t, pass[c].open_ids)
                /\ t.pr # None => records'[r].proofs \cap Prs = {t.pr}
    <3> SUFFICES ASSUME QuietInv(c)
                 PROVE  /\ records[rec].ref = t.id
                        /\ t.pr # None => put.proofs \cap Prs = {t.pr}
      BY <1>6, <2>4, <2>6 DEF rec
    <3>1. records[rec] = entry.was
      BY <1>1 DEF QuietInv, rec
    <3> QED
      BY <1>3, <2>2, <2>4, <2>7, <3>1 DEF _proofs
  <2>13. Answered(c, t, heard) /\ DOMAIN records \subseteq DOMAIN records'
    BY <2>1, <2>6
  <2>14. DOMAIN records' \ DOMAIN records = {}
    BY <2>6
  <2> QED
    BY <1>1, <2>9, <2>11, <2>12, <2>13, <2>14, PushKeeps
<1> QED
  BY <1>4, <1>5, <1>6

LEMMA LeaveKeeps ==
  ASSUME Inv, NEW c \in Checkouts, NEW t \in pass[c].tickets, Leave(c, t)
  PROVE  MirrorInv'
<1> DEFINE entry == pass[c].by_ref[t.id]
<1>1. /\ Mine(c, t) /\ t.id \in DOMAIN pass[c].by_ref /\ ~Differs(c, t)
      /\ UNCHANGED <<records, posts>> /\ Answered(c, t, TRUE)
  BY DEF Leave
<1>2. PassInv(c) /\ RecordsInv
  BY <1>1 DEF Inv, MirrorInv, PassesInv, Mine, UnderWay
<1>3. /\ t \in Ticket /\ entry.was.ref = t.id
      /\ entry.was.fields = desired(t, pass[c].open_ids)
      /\ t.pr # None => t.pr \in entry.was.proofs /\ t.pr \in Prs
  BY <1>1, <1>2 DEF PassInv, Differs, Ticket
<1>4. RecordsInv'
  BY <1>1, <1>2 DEF RecordsInv
<1>5. \A r \in attached : Hand \in records[r].proofs
  BY DEF Inv, MirrorInv, AttachedInv, HandProofsKept
<1>6. ASSUME QuietInv(c)
      PROVE  \E r \in DOMAIN records :
               /\ records[r].ref = t.id
               /\ records[r].fields = desired(t, pass[c].open_ids)
               /\ t.pr # None => records[r].proofs \cap Prs = {t.pr}
  <2>1. entry.rec \in DOMAIN records /\ records[entry.rec] = entry.was
    BY <1>1, <1>6 DEF QuietInv
  <2>2. \A p, q \in entry.was.proofs \cap Prs : p = q
    BY <1>2, <2>1 DEF RecordsInv
  <2> QED
    BY <1>3, <2>1, <2>2
<1> QED
  BY <1>1, <1>4, <1>5, <1>6, PushKeeps

LEMMA ReturnKeeps ==
  ASSUME Inv, NEW c \in Checkouts, Return(c)
  PROVE  MirrorInv'
  BY EndKeeps DEF Return, bvars

-----------------------------------------------------------------------------
(* What goes on meanwhile. *)

LEMMA OwnerKeeps ==
  ASSUME Inv, ByOwner, DOMAIN records' \subseteq DOMAIN records,
         RecordsInv', AttachedInv', Busy => attached' \subseteq attached,
         \A r \in DOMAIN records' : records'[r].ref = records[r].ref
  PROVE  MirrorInv'
<1>1. quiet' = {} /\ UNCHANGED <<pass, paired>>
  BY DEF ByOwner
<1>2. OnePerRef'
  BY <1>1 DEF Inv, MirrorInv, OnePerRef
<1>3. ASSUME NEW c \in Checkouts, UnderWay(c)'
      PROVE  PassInv(c)'
  <2>1. PassInv(c) /\ attached' \subseteq attached
    BY <1>1, <1>3 DEF Inv, MirrorInv, PassesInv, UnderWay, Busy
  <2> QED
    BY <1>1, <2>1 DEF PassInv
<1>4. PassesInv'
  BY <1>1, <1>3 DEF Inv, MirrorInv, PassesInv, UnderWay
<1> QED
  BY <1>1, <1>2, <1>4 DEF MirrorInv, QuietsInv

LEMMA MoveKeeps ==
  ASSUME Inv, NEW r \in DOMAIN records, NEW status, Move(r, status)
  PROVE  MirrorInv'
<1>1. RecordsInv /\ AttachedInv
  BY DEF Inv, MirrorInv
<1>2. /\ records' = [records EXCEPT ![r].fields.status = status]
      /\ ByOwner /\ UNCHANGED <<attached, posts>>
  BY DEF Move, ByOwner
<1> DEFINE fields == [records[r].fields EXCEPT !.status = status]
<1>3. records' = [records EXCEPT ![r].fields = fields]
  BY <1>2
<1> HIDE DEF fields
<1>4. /\ DOMAIN records' = DOMAIN records
      /\ records' = [s \in DOMAIN records' |-> records'[s]]
      /\ \A s \in DOMAIN records \ {r} : records'[s] = records[s]
      /\ records'[r] = [records[r] EXCEPT !.fields = fields]
  BY <1>1, <1>3 DEF RecordsInv
<1>5. records'[r] = [ref |-> records[r].ref, fields |-> fields, proofs |-> records[r].proofs]
  BY <1>1, <1>4 DEF RecordsInv
<1>6. \A s \in DOMAIN records :
        records'[s].ref = records[s].ref /\ records'[s].proofs = records[s].proofs
  BY <1>4, <1>5
<1>7. RecordsInv'
  <2>1. \A s \in DOMAIN records :
          records'[s] = [ref |-> records'[s].ref, fields |-> records'[s].fields,
                         proofs |-> records'[s].proofs]
    BY <1>1, <1>4, <1>5 DEF RecordsInv
  <2> QED
    BY <1>1, <1>2, <1>4, <1>6, <2>1 DEF RecordsInv
<1>8. AttachedInv'
  BY <1>1, <1>2, <1>4, <1>6 DEF AttachedInv, HandProofsKept
<1> QED
  BY <1>2, <1>4, <1>6, <1>7, <1>8, OwnerKeeps

LEMMA AttachKeeps ==
  ASSUME Inv, NEW r \in DOMAIN records, Attach(r)
  PROVE  MirrorInv'
<1>1. RecordsInv /\ AttachedInv
  BY DEF Inv, MirrorInv
<1>2. /\ records' = [records EXCEPT ![r].proofs = @ \cup {Hand}]
      /\ ByOwner /\ UNCHANGED posts
      /\ attached' = IF Busy THEN attached ELSE attached \cup {r}
  BY DEF Attach, ByOwner
<1>3. /\ DOMAIN records' = DOMAIN records
      /\ records' = [s \in DOMAIN records' |-> records'[s]]
      /\ \A s \in DOMAIN records \ {r} : records'[s] = records[s]
      /\ records'[r] = [records[r] EXCEPT !.proofs = @ \cup {Hand}]
  BY <1>1, <1>2 DEF RecordsInv
<1>4. records'[r] = [ref |-> records[r].ref, fields |-> records[r].fields,
                     proofs |-> records[r].proofs \cup {Hand}]
  BY <1>1, <1>3 DEF RecordsInv
<1>5. \A s \in DOMAIN records : /\ records'[s].ref = records[s].ref
                                /\ records'[s].proofs \cap Prs = records[s].proofs \cap Prs
                                /\ records[s].proofs \subseteq records'[s].proofs
  <2>1. (records[r].proofs \cup {Hand}) \cap Prs = records[r].proofs \cap Prs
    BY HandAssumption
  <2>2. /\ records'[r].ref = records[r].ref
        /\ records'[r].proofs = records[r].proofs \cup {Hand}
    BY <1>4
  <2> QED
    BY <1>3, <2>1, <2>2
<1>6. RecordsInv'
  <2>1. \A s \in DOMAIN records :
          records'[s] = [ref |-> records'[s].ref, fields |-> records'[s].fields,
                         proofs |-> records'[s].proofs]
    BY <1>1, <1>3, <1>4 DEF RecordsInv
  <2> QED
    BY <1>1, <1>2, <1>3, <1>5, <2>1 DEF RecordsInv
<1>7. AttachedInv'
  BY <1>1, <1>2, <1>3, <1>4, <1>5 DEF AttachedInv, HandProofsKept
<1>8. Busy => attached' \subseteq attached
  BY <1>2
<1> QED
  BY <1>2, <1>3, <1>5, <1>6, <1>7, <1>8, OwnerKeeps

LEMMA DeleteKeeps ==
  ASSUME Inv, NEW r \in DOMAIN records, Delete(r)
  PROVE  MirrorInv'
<1>1. /\ records' = [s \in DOMAIN records \ {r} |-> records[s]]
      /\ attached' = attached \ {r} /\ ByOwner /\ UNCHANGED posts
  BY DEF Delete, ByOwner
<1>2. RecordsInv' /\ AttachedInv'
  BY <1>1 DEF Inv, MirrorInv, RecordsInv, AttachedInv, HandProofsKept
<1>3. /\ DOMAIN records' \subseteq DOMAIN records
      /\ \A s \in DOMAIN records' : records'[s].ref = records[s].ref
  BY <1>1
<1> QED
  BY <1>1, <1>2, <1>3, OwnerKeeps

LEMMA RewriteKeeps ==
  ASSUME Inv, NEW c \in Checkouts, Rewrite(c)
  PROVE  MirrorInv'
<1>1. quiet' = quiet \ {c} /\ UNCHANGED <<records, pass, posts, paired, attached>>
  BY DEF Rewrite
<1>2. \A d \in Checkouts \ {c} : files'[d] = files[d]
  <2>1. ASSUME NEW t \in closing[c], NEW u \in files[c], CloseWrites(c, t, u)
        PROVE  \A d \in Checkouts \ {c} : files'[d] = files[d]
    BY <2>1 DEF CloseWrites, Inv, BTypeOK
  <2> QED
    BY <2>1 DEF Rewrite, Command, ByHand, New, Renumber, Edit, Merge, Inv, BTypeOK
<1>3. RecordsInv' /\ AttachedInv' /\ OnePerRef'
  BY <1>1 DEF Inv, MirrorInv, RecordsInv, AttachedInv, HandProofsKept, OnePerRef
<1>4. PassesInv'
  BY <1>1 DEF Inv, MirrorInv, PassesInv, PassInv, UnderWay
<1>5. \A d \in quiet' : UnderWay(d)' => QuietInv(d)'
  <2> SUFFICES ASSUME NEW d \in quiet', UnderWay(d)' PROVE QuietInv(d)'
    OBVIOUS
  <2>1. QuietInv(d) /\ d \in Checkouts \ {c}
    BY <1>1 DEF Inv, MirrorInv, QuietsInv, UnderWay
  <2>2. files'[d] = files[d]
    BY <1>2, <2>1
  <2> QED
    BY <1>1, <2>1, <2>2 DEF QuietInv, Mirrored, Consistent, UnderWay
<1> QED
  BY <1>1, <1>3, <1>4, <1>5 DEF Inv, MirrorInv, QuietsInv

LEMMA FilesStayKeeps ==
  ASSUME Inv, UNCHANGED <<files, rvars>>
  PROVE  MirrorInv'
<1>1. UNCHANGED <<records, pass, posts, quiet, paired, attached, files>>
  BY DEF rvars
<1>2. RecordsInv' /\ AttachedInv' /\ OnePerRef'
  BY <1>1 DEF Inv, MirrorInv, RecordsInv, AttachedInv, HandProofsKept, OnePerRef
<1>3. PassesInv'
  BY <1>1 DEF Inv, MirrorInv, PassesInv, PassInv, UnderWay
<1>4. QuietsInv'
  <2> SUFFICES ASSUME NEW c \in quiet, UnderWay(c) PROVE QuietInv(c)'
    BY <1>1 DEF Inv, MirrorInv, QuietsInv, UnderWay
  <2>1. QuietInv(c)
    BY DEF Inv, MirrorInv, QuietsInv
  <2> QED
    BY <1>1, <2>1 DEF QuietInv, Mirrored, Consistent, UnderWay
<1> QED
  BY <1>2, <1>3, <1>4 DEF MirrorInv

-----------------------------------------------------------------------------
(* The theorems. *)

LEMMA StepTypes == BTypeOK /\ [RNext]_allvars => BTypeOK'
<1> SUFFICES ASSUME BTypeOK, [RNext]_allvars PROVE BTypeOK'
  OBVIOUS
<1>1. ASSUME UNCHANGED files, UNCHANGED merged, UNCHANGED closing, UNCHANGED events \/ Event
      PROVE  BTypeOK'
  BY <1>1, BoundsAssumption DEF BTypeOK, Event
<1>2. ASSUME NEW c \in Checkouts, Load(c) \/ Return(c)
      PROVE  BTypeOK'
  BY <1>1, <1>2 DEF Load, Return, bvars
<1>3. ASSUME NEW c \in Checkouts, Rewrite(c) \/ Asking(c)
      PROVE  BTypeOK'
  BY <1>3, ByHandTypes, CommandTypes, AskingTypes DEF Rewrite
<1>4. ASSUME NEW c \in Checkouts, NEW t, NEW heard, Answered(c, t, heard)
      PROVE  BTypeOK'
  BY <1>1, <1>4 DEF Answered
<1>5. ASSUME NEW c \in Checkouts, NEW t \in pass[c].tickets,
             NEW done \in BOOLEAN, NEW heard \in BOOLEAN,
             Leave(c, t) \/ Post(c, t, done, heard) \/ Put(c, t, done, heard)
      PROVE  BTypeOK'
  <2>1. CASE Leave(c, t) \/ Post(c, t, done, heard)
    BY <1>4, <2>1 DEF Leave, Post
  <2>2. CASE Put(c, t, done, heard)
    <3>1. Answered(c, t, heard) \/ UNCHANGED bvars
      BY <2>2 DEF Put
    <3> QED
      BY <1>1, <1>4, <3>1 DEF bvars
  <2> QED
    BY <1>5, <2>1, <2>2
<1>6. ASSUME NEW r, Attach(r) \/ Delete(r) \/ Move(r, "done")
      PROVE  BTypeOK'
  BY <1>1, <1>6 DEF Attach, Delete, Move, ByOwner
<1>7. ASSUME NEW p \in Prs, MergePr(p)
      PROVE  BTypeOK'
  BY <1>7, BoundsAssumption DEF MergePr, BTypeOK, Event
<1>8. ASSUME UNCHANGED allvars
      PROVE  BTypeOK'
  BY <1>1, <1>8 DEF allvars, bvars
<1> QED
  BY <1>2, <1>3, <1>5, <1>6, <1>7, <1>8 DEF RNext

LEMMA StepKeeps == Inv /\ [RNext]_allvars => Inv'
<1> SUFFICES ASSUME Inv, [RNext]_allvars PROVE MirrorInv'
  BY StepTypes DEF Inv
<1>1. ASSUME NEW c \in Checkouts, NEW t \in pass[c].tickets,
             NEW done \in BOOLEAN, NEW heard \in BOOLEAN,
             Leave(c, t) \/ Post(c, t, done, heard) \/ Put(c, t, done, heard)
      PROVE  MirrorInv'
  BY <1>1, LeaveKeeps, PostKeeps, PutKeeps
<1>2. ASSUME NEW c \in Checkouts, Load(c) \/ Return(c) \/ Rewrite(c)
      PROVE  MirrorInv'
  BY <1>2, LoadKeeps, ReturnKeeps, RewriteKeeps
<1>3. ASSUME NEW r \in DOMAIN records, Attach(r) \/ Delete(r) \/ Move(r, "done")
      PROVE  MirrorInv'
  BY <1>3, AttachKeeps, DeleteKeeps, MoveKeeps
<1>4. ASSUME UNCHANGED rvars, (\E p \in Prs : MergePr(p)) \/ \E c \in Checkouts : Asking(c)
      PROVE  MirrorInv'
  <2>1. UNCHANGED files
    BY <1>4 DEF MergePr, Asking, CloseLooks, CloseFails
  <2> QED
    BY <1>4, <2>1, FilesStayKeeps
<1>5. ASSUME UNCHANGED allvars
      PROVE  MirrorInv'
  BY <1>5, FilesStayKeeps DEF allvars, bvars
<1> QED
  BY <1>1, <1>2, <1>3, <1>4, <1>5 DEF RNext

LEMMA InvHolds == RSpec => []Inv
  BY InvAtFirst, StepKeeps, PTL DEF RSpec

\* Every ticket file stays a ticket file: next_id never runs out of the ids
\* that fit, and no edit, merge or command makes anything else of one.
THEOREM TicketTyping == RSpec => []BTypeOK
  BY InvHolds, PTL DEF Inv

\* The push is idempotent: whatever requests failed, before or after the app
\* had done them, no ticket gets a second record, but for those that two
\* passes had to push at once.
THEOREM OneRecordPerTicket == RSpec => []OnePerRef
  BY InvHolds, PTL DEF Inv, MirrorInv

\* A proof that the owner attached while no pass ran outlives every pass.
THEOREM OwnersProofsStay == RSpec => []HandProofsKept
  BY InvHolds, PTL DEF Inv, MirrorInv, AttachedInv

\* A pass that ends and has met nobody leaves a true record of every ticket.
THEOREM PassLeavesTrueRecords == RSpec => []PassMirrors
<1>1. Inv => PassMirrors
  <2> SUFFICES ASSUME Inv, NEW c \in quiet, pass[c].stage = "push", pass[c].tickets = {},
                      NEW t \in files[c]
               PROVE  \E r \in DOMAIN records :
                        /\ records[r].ref = t.id
                        /\ records[r].fields = desired(t, Ids({u \in files[c] : IsOpen(u)}))
                        /\ t.pr # None => records[r].proofs \cap Prs = {t.pr}
    BY DEF PassMirrors
  <2>1. QuietInv(c)
    BY DEF Inv, MirrorInv, QuietsInv, UnderWay
  <2> QED
    BY <2>1 DEF QuietInv, Mirrored
<1> QED
  BY <1>1, InvHolds, PTL

\* `go2 backlog close` leaves a backlog that every later command accepts, if
\* the one it writes into is accepted: whatever the other tickets say and
\* whatever happened to this one while GitHub was asked, unless the pull
\* request was merged before the day the ticket was created, or the outcome or
\* the pull request is gone from the ticket by then.
THEOREM ClosingIsAccepted == RSpec => CloseKeepsConsistent
<1>1. RInit => LookedAt
  BY DEF RInit, BInit, LookedAt
<1>2. BTypeOK /\ LookedAt /\ [RNext]_allvars => LookedAt'
  BY LookedAtKept
<1>3. BTypeOK /\ LookedAt /\ [RNext]_allvars =>
        [\A c \in Checkouts : \A t \in closing[c], u \in files[c] :
           CloseWrites(c, t, u) /\ Consistent(files[c]) =>
             \/ Consistent(files'[c])
             \/ t.pr \in u.late
             \/ t.outcome /\ ~u.outcome
             \/ t.pr # None /\ u.pr = None]_bvars
  <2> SUFFICES ASSUME BTypeOK, LookedAt, NEW c \in Checkouts, NEW t \in closing[c],
                      NEW u \in files[c], CloseWrites(c, t, u), Consistent(files[c]),
                      t.pr \notin u.late, ~(t.outcome /\ ~u.outcome), ~(t.pr # None /\ u.pr = None)
               PROVE  Consistent(files'[c])
    OBVIOUS
  <2>1. u.outcome /\ u.pr # None
    BY DEF LookedAt
  <2> QED
    BY <2>1, CloseIsAccepted
<1> QED
  BY <1>1, <1>2, <1>3, TicketTyping, PTL DEF RSpec, CloseKeepsConsistent
=============================================================================
