------------------------------ MODULE DriveSync ------------------------------
(***************************************************************************)
(* Google Drive: the connector (go2/connectors/gdrive.py) and `go2 sync`   *)
(* (go2/cli.py), against an account whose files change at any time.        *)
(*                                                                         *)
(* The changes of the account are numbered; a cursor (page token) is the   *)
(* number of a change, and a version of a file is the number of the change *)
(* that made it.  `go2 sync` lists the whole account every time.  The      *)
(* cursors are for a caller that keeps to what list_changes asks of it:    *)
(* pass None first, then what the last answer said (save_cursor keeps it). *)
(***************************************************************************)
EXTENDS Integers, FiniteSets

CONSTANTS
  Files,       \* files of the account
  Kind,        \* Kind[f]: what its MIME type is
  PageSize,    \* page_size
  Limit,       \* --limit
  MaxChanges,  \* bound: changes of the account
  MaxFailures  \* bound: listings that fail

Kinds == {"blob", "doc", "form", "folder"}

ASSUME DriveAssumption ==
  /\ Kind \in [Files -> Kinds] /\ IsFiniteSet(Files)
  /\ PageSize \in Nat \ {0} /\ Limit \in Nat /\ MaxChanges \in Nat /\ MaxFailures \in Nat

VARIABLES
  drive,     \* what each file is, and since which change
  now,       \* the number of the last change
  listing,   \* the full listing under way, or Nothing
  cursor,    \* connections.cursor, or None
  told,      \* told[f]: what the change sets have said of f since the last full one
  run,       \* where `go2 sync` is
  index,     \* index[f]: the version of f that is ingested, 0 before
  failures

driveVars == <<drive, now>>
walkVars  == <<cursor, told>>
syncVars  == <<run, index>>
vars == <<driveVars, walkVars, syncVars, listing, failures>>

None == -1
Nothing == [by |-> "nobody"]

\* is_ingestable: not a folder, and downloadable or exportable.
Ingestable(f) == Kind[f] \in {"blob", "doc"}

\* parse_file and parse_change: a trashed file is a deletion, and a removed
\* entry has no file at all.
Remote(f) == [file |-> f, version |-> drive[f].at, deleted |-> drive[f].is # "live"]

Init ==
  /\ drive \in [Files -> {[is |-> "live", at |-> 0], [is |-> "gone", at |-> 0]}]
  /\ now = 0
  /\ listing = Nothing
  /\ cursor = None /\ told = [f \in Files |-> None]
  /\ run = [pc |-> "idle"] /\ index = [f \in Files |-> None]
  /\ failures = 0

-----------------------------------------------------------------------------
(* The account. *)

Change(f, is) ==
  /\ now < MaxChanges
  /\ now' = now + 1
  /\ drive' = [drive EXCEPT ![f] = [is |-> is, at |-> now']]
  /\ UNCHANGED <<walkVars, syncVars, listing, failures>>

\* A file is created, edited, renamed or taken out of the trash.
Edit(f) == Change(f, "live")

Trash(f) == drive[f].is = "live" /\ Change(f, "trashed")

\* It is deleted for good, or no longer shared with the account.
Remove(f) == drive[f].is # "gone" /\ Change(f, "gone")

-----------------------------------------------------------------------------
(* The connector. *)

\* The callers share nothing but the account: that they take turns loses no
\* behaviour of either.
Free == listing = Nothing /\ run.pc \in {"idle", "ended"}

\* list_changes(None): start_cursor, before the first page.
StartListing(caller) ==
  /\ Free
  /\ listing' = [by |-> caller, next |-> now, left |-> Files, got |-> {}]

\* _full_listing: one page, of what is live and ingestable at this moment.
ListPage ==
  /\ listing # Nothing /\ listing.left # {}
  /\ \E page \in (SUBSET listing.left) \ {{}} :
       LET live == {f \in page : drive[f].is = "live"} IN
       /\ Cardinality(live) <= PageSize
       /\ listing' = [listing EXCEPT
            !.left = @ \ page, !.got = @ \cup {Remote(f) : f \in {g \in live : Ingestable(g)}}]
  /\ UNCHANGED <<driveVars, walkVars, syncVars, failures>>

\* No nextPageToken: the change set is complete.
Listed(caller) == listing.by = caller /\ listing.left = {} /\ listing' = Nothing

\* A slip: the cursor is taken when the listing ends.
CursorAfter(l) == now

\* The cursor of the change set.
NextCursor(l) == l.next

\* A request fails, or the caller dies: nothing of the listing is kept.
ListingFails ==
  /\ listing # Nothing /\ failures < MaxFailures
  /\ failures' = failures + 1
  /\ listing' = Nothing
  /\ run' = IF listing.by = "sync" THEN [pc |-> "idle"] ELSE run
  /\ UNCHANGED <<driveVars, walkVars, index>>

\* The entries of the change feed after a cursor.  Drive keeps one for each
\* file, and answers with the file as it is now.
Pending(from) == {f \in Files : drive[f].at > from}

\* changes().list: a page goes on to the last change that page_size allows.
PageEnds(from) ==
  LET fits == {n \in from..now : Cardinality({f \in Pending(from) : drive[f].at <= n}) <= PageSize}
  IN  {n \in fits : \A m \in fits : m <= n}

\* list_changes(cursor): deletions pass the filter.
ChangeSet(from, last) ==
  {r \in {Remote(f) : f \in {g \in Pending(from) : drive[g].at <= last}} :
     r.deleted \/ Ingestable(r.file)}

\* A slip: nextPageToken is not looked at.
OnlyNewStart(from, last) == IF last = now THEN now ELSE from

\* nextPageToken while there is more, newStartPageToken then.
NextToken(from, last) == last

-----------------------------------------------------------------------------
(* A caller that keeps the cursor. *)

Described(files, f) == \E r \in files : r.file = f

About(files, f) == CHOOSE r \in files : r.file = f

VersionOf(remote) == IF remote.deleted THEN None ELSE remote.version

\* The first call, or one that starts over.
WalkAll ==
  /\ StartListing("walk")
  /\ UNCHANGED <<driveVars, walkVars, syncVars, failures>>

\* A full listing says of every file whether it is there.
WalkListed ==
  /\ Listed("walk")
  /\ told' = [f \in Files |->
       IF Described(listing.got, f) THEN VersionOf(About(listing.got, f)) ELSE None]
  /\ cursor' = NextCursor(listing)
  /\ UNCHANGED <<driveVars, syncVars, failures>>

\* The caller may die before save_cursor commits, and sees the page again.
WalkChanges ==
  /\ Free /\ cursor # None
  /\ \E last \in PageEnds(cursor) :
       LET files == ChangeSet(cursor, last) IN
       /\ told' = [f \in Files |->
            IF Described(files, f) THEN VersionOf(About(files, f)) ELSE told[f]]
       /\ \/ cursor' = NextToken(cursor, last) /\ UNCHANGED failures
          \/ cursor' = cursor /\ failures < MaxFailures /\ failures' = failures + 1
  /\ UNCHANGED <<driveVars, syncVars, listing>>

-----------------------------------------------------------------------------
(* go2 sync. *)

SyncStarts ==
  /\ StartListing("sync")
  /\ run' = [pc |-> "listing", began |-> now]
  /\ UNCHANGED <<driveVars, walkVars, index, failures>>

\* The change set is cut at --limit; its cursor is dropped.
SyncListed ==
  LET got == {r.file : r \in listing.got} IN
  /\ Listed("sync")
  /\ \E files \in SUBSET got :
       /\ IF Cardinality(got) <= Limit THEN files = got ELSE Cardinality(files) = Limit
       /\ run' = [pc |-> "syncing", began |-> run.began, todo |-> files, missed |-> got \ files]
  /\ UNCHANGED <<driveVars, walkVars, index, failures>>

\* fetch_content returns what the file holds now.
Fetch(f) ==
  /\ run.pc = "syncing" /\ f \in run.todo /\ drive[f].is # "gone"
  /\ run' = [pc |-> "fetched", began |-> run.began, todo |-> run.todo \ {f},
             missed |-> run.missed, file |-> f, version |-> drive[f].at]
  /\ UNCHANGED <<driveVars, walkVars, index, listing, failures>>

\* ... or raises: one bad file must not stop the sync.
FetchFails(f) ==
  /\ run.pc = "syncing" /\ f \in run.todo
  /\ drive[f].is = "gone" \/ failures < MaxFailures
  /\ failures' = IF drive[f].is = "gone" THEN failures ELSE failures + 1
  /\ run' = [run EXCEPT !.todo = @ \ {f}, !.missed = @ \cup {f}]
  /\ UNCHANGED <<driveVars, walkVars, index, listing>>

Goes(pc) == [pc |-> pc, began |-> run.began, todo |-> run.todo, missed |-> run.missed]

\* A slip: what is in the index stays.
IngestNew ==
  /\ run.pc = "fetched"
  /\ index' = [index EXCEPT ![run.file] = IF @ = None THEN run.version ELSE @]
  /\ run' = Goes("syncing")
  /\ UNCHANGED <<driveVars, walkVars, listing, failures>>

\* ingest_document commits; a file that holds what is ingested already is
\* left alone, which comes to the same.
IngestFetched ==
  /\ run.pc = "fetched"
  /\ index' = [index EXCEPT ![run.file] = run.version]
  /\ run' = Goes("syncing")
  /\ UNCHANGED <<driveVars, walkVars, listing, failures>>

\* ... or raises, which ends the command with files still to come.
IngestRaises ==
  /\ run.pc = "fetched" /\ failures < MaxFailures
  /\ failures' = failures + 1
  /\ run' = [pc |-> "idle"]
  /\ UNCHANGED <<driveVars, walkVars, index, listing>>

SyncEnds ==
  /\ run.pc = "syncing" /\ run.todo = {}
  /\ run' = Goes("ended")
  /\ UNCHANGED <<driveVars, walkVars, index, listing, failures>>

-----------------------------------------------------------------------------

Account == \E f \in Files : Edit(f) \/ Trash(f) \/ Remove(f)

Sync ==
  \/ SyncStarts \/ SyncListed \/ IngestFetched \/ IngestRaises \/ SyncEnds
  \/ \E f \in Files : Fetch(f) \/ FetchFails(f)

Next ==
  \/ Account \/ Sync \/ WalkAll \/ WalkListed \/ WalkChanges
  \/ ListPage \/ ListingFails

Spec == Init /\ [][Next]_vars

\* Whoever has begun goes on, and the caller that keeps the cursor gets its
\* turn again and again.
FairSpec ==
  /\ Spec
  /\ WF_vars(ListPage) /\ WF_vars(WalkListed) /\ WF_vars(Sync)
  /\ SF_vars(cursor = None /\ WalkAll) /\ SF_vars(WalkChanges)

-----------------------------------------------------------------------------
(* Properties. *)

TypeOK ==
  /\ drive \in [Files -> [is : {"live", "trashed", "gone"}, at : 0..now]]
  /\ now \in 0..MaxChanges /\ failures \in 0..MaxFailures
  /\ cursor \in -1..now
  /\ told \in [Files -> -1..now] /\ index \in [Files -> -1..now]
  /\ run.pc \in {"idle", "listing", "syncing", "fetched", "ended"}
  /\ listing # Nothing =>
       /\ listing.by \in {"walk", "sync"} /\ listing.next \in 0..now /\ listing.left \subseteq Files
       /\ listing.got \subseteq [file : Files, version : 0..now, deleted : {FALSE}]

\* The version of f that a caller should know of.
Current(f) == IF drive[f].is = "live" /\ Ingestable(f) THEN drive[f].at ELSE None

\* "Take the cursor before listing, so anything changed mid-listing is
\* replayed next sync rather than missed": whatever changes between two
\* requests, and wherever the caller dies, what it has not been told of a
\* file is still to come after the cursor it keeps.
NothingMissed ==
  cursor # None => \A f \in Files : told[f] = Current(f) \/ drive[f].at > cursor

\* Once the account is quiet the caller is told everything, page by page.
Converges == <>[](\A f \in Files : told[f] = Current(f))

\* When `go2 sync` ends, every file that is live, has not changed since the
\* command began and could be fetched is in the index as it is.
SyncedIsCurrent ==
  run.pc = "ended" =>
    \A f \in Files \ run.missed :
      Current(f) # None /\ drive[f].at <= run.began => index[f] = Current(f)
=============================================================================
