--------------------------- MODULE DriveSyncProofs ---------------------------
(***************************************************************************)
(* No change of the account is missed by a caller that keeps its cursor,   *)
(* and what go2 sync could fetch is indexed as it is: for any files, page  *)
(* size and number of changes, requests and failures.                      *)
(***************************************************************************)
EXTENDS DriveSync, TLAPS

AccountInv ==
  /\ now \in Nat
  /\ drive \in [Files -> [is : {"live", "trashed", "gone"}, at : 0..now]]
  /\ cursor \in -1..now
  /\ told \in [Files -> Int]
  /\ \A f \in Files : ~Ingestable(f) => told[f] = None

\* What is visited and has not changed since the listing began is described
\* exactly as it is.
ListingInv ==
  listing # Nothing =>
    /\ listing = [by |-> listing.by, next |-> listing.next, left |-> listing.left, got |-> listing.got]
    /\ listing.next \in 0..now /\ listing.left \subseteq Files
    /\ \A r \in listing.got : /\ r.file \in Files \ listing.left /\ Ingestable(r.file)
                              /\ r.version \in Nat /\ ~r.deleted
    /\ \A f \in Files \ listing.left : drive[f].at <= listing.next =>
         /\ Current(f) # None => Described(listing.got, f)
         /\ \A r \in listing.got : r.file = f => r.version = Current(f)

Inv == AccountInv /\ ListingInv /\ NothingMissed

LEMMA InvAtFirst == Init => Inv
  BY DriveAssumption DEF Init, Inv, AccountInv, ListingInv, NothingMissed, None, Nothing

\* Whatever happens to a file is numbered above every cursor handed out.
LEMMA ChangeKeeps ==
  ASSUME Inv, NEW f \in Files, NEW is \in {"live", "trashed", "gone"}, Change(f, is)
  PROVE  Inv'
<1>1. /\ now' = now + 1 /\ now \in Nat
      /\ drive' = [drive EXCEPT ![f] = [is |-> is, at |-> now']]
      /\ UNCHANGED <<listing, cursor, told>>
  BY DEF Change, Inv, AccountInv, walkVars
<1>2. AccountInv'
  BY <1>1 DEF Inv, AccountInv, None, Ingestable
<1>3. drive'[f].at = now + 1 /\ \A g \in Files \ {f} : drive'[g] = drive[g]
  BY <1>1 DEF Inv, AccountInv
<1>4. \A g \in Files \ {f} : Current(g)' = Current(g)
  BY <1>3 DEF Current, Ingestable
<1>5. ListingInv'
  <2>1. CASE listing = Nothing
    BY <1>1, <2>1 DEF ListingInv, Nothing
  <2>2. CASE listing # Nothing
    <3>1. listing.next < drive'[f].at
      BY <1>1, <1>3, <2>2 DEF Inv, ListingInv
    <3> QED
      BY <1>1, <1>3, <1>4, <2>2, <3>1 DEF Inv, ListingInv, Ingestable, Described, Nothing
  <2> QED
    BY <2>1, <2>2
<1>6. NothingMissed'
  <2>1. cursor < drive'[f].at
    BY <1>1, <1>3 DEF Inv, AccountInv
  <2> QED
    BY <1>1, <1>3, <1>4, <2>1 DEF Inv, NothingMissed, None
<1> QED
  BY <1>2, <1>5, <1>6 DEF Inv

LEMMA StartKeeps ==
  ASSUME Inv, NEW caller, StartListing(caller), UNCHANGED <<drive, now, cursor, told>>
  PROVE  Inv'
<1>1. AccountInv' /\ NothingMissed'
  BY DEF Inv, AccountInv, NothingMissed, Current, Ingestable, None
<1>2. ListingInv'
  BY DEF StartListing, ListingInv, Inv, AccountInv, Nothing
<1> QED
  BY <1>1, <1>2 DEF Inv

LEMMA PageKeeps ==
  ASSUME Inv, ListPage
  PROVE  Inv'
<1>1. AccountInv' /\ NothingMissed'
  BY DEF ListPage, driveVars, walkVars, Inv, AccountInv, NothingMissed, Current, Ingestable, None
<1>2. PICK page \in (SUBSET listing.left) \ {{}} :
        listing' = [listing EXCEPT
          !.left = @ \ page,
          !.got  = @ \cup {Remote(f) : f \in {g \in {h \in page : drive[h].is = "live"} : Ingestable(g)}}]
  BY DEF ListPage
<1> DEFINE new == {Remote(f) : f \in {g \in {h \in page : drive[h].is = "live"} : Ingestable(g)}}
<1>3. UNCHANGED <<drive, now>> /\ listing # Nothing
  BY DEF ListPage, driveVars
<1>4. listing' = [by |-> listing.by, next |-> listing.next,
                  left |-> listing.left \ page, got |-> listing.got \cup new]
  BY <1>2, <1>3 DEF Inv, ListingInv
<1>5. \A f \in Files : Current(f)' = Current(f)
  BY <1>3 DEF Current, Ingestable
<1>6. /\ page \subseteq listing.left /\ listing.left \subseteq Files
      /\ \A r \in listing.got : r.file \in Files \ listing.left
  BY <1>2, <1>3 DEF Inv, ListingInv
<1>7. \A r \in new : /\ r.file \in page /\ Ingestable(r.file) /\ r.version \in Nat
                     /\ r.version = Current(r.file) /\ ~r.deleted
  <2>1. TAKE r \in new
  <2>2. PICK f \in page : drive[f].is = "live" /\ Ingestable(f) /\ r = Remote(f)
    OBVIOUS
  <2>3. r.file = f /\ r.version = drive[f].at /\ ~r.deleted
    BY <2>2 DEF Remote
  <2>4. drive[f].at \in Nat
    BY <1>6 DEF Inv, AccountInv
  <2> QED
    BY <2>2, <2>3, <2>4 DEF Current
<1>8. ASSUME NEW f \in Files \ (listing.left \ page), drive[f].at <= listing.next
      PROVE  /\ Current(f) # None => Described(listing.got \cup new, f)
             /\ \A r \in listing.got \cup new : r.file = f => r.version = Current(f)
  <2>1. CASE f \in page
    <3>1. \A r \in listing.got : r.file # f
      BY <1>6, <2>1
    <3>2. Current(f) # None => Remote(f) \in new
      BY <2>1 DEF Current
    <3>3. Remote(f).file = f
      BY DEF Remote
    <3>4. Current(f) # None => Described(listing.got \cup new, f)
      BY <3>2, <3>3 DEF Described
    <3> QED
      BY <1>7, <3>1, <3>4
  <2>2. CASE f \notin page
    <3>1. \A r \in new : r.file # f
      BY <1>7, <2>2
    <3>2. /\ Current(f) # None => Described(listing.got, f)
          /\ \A r \in listing.got : r.file = f => r.version = Current(f)
      BY <1>3, <1>8, <2>2 DEF Inv, ListingInv
    <3> QED
      BY <3>1, <3>2 DEF Described
  <2> QED
    BY <2>1, <2>2
<1>9. ListingInv'
  <2> HIDE DEF new
  <2>1. /\ listing'.next = listing.next /\ listing'.left = listing.left \ page
        /\ listing'.got = listing.got \cup new /\ listing'.by = listing.by
    BY <1>4
  <2>2. /\ listing.next \in 0..now
        /\ \A r \in listing.got : /\ r.file \in Files \ listing.left /\ Ingestable(r.file)
                                  /\ r.version \in Nat /\ ~r.deleted
    BY <1>3 DEF Inv, ListingInv
  <2>3. \A r \in listing'.got :
          /\ r.file \in Files \ listing'.left /\ Ingestable(r.file)
          /\ r.version \in Nat /\ ~r.deleted
    BY <1>6, <1>7, <2>1, <2>2
  <2> QED
    BY <1>3, <1>4, <1>5, <1>6, <1>8, <2>1, <2>2, <2>3 DEF ListingInv, Ingestable, Described
<1> QED
  BY <1>1, <1>9 DEF Inv

\* The caller takes over a full listing and its cursor.
LEMMA WalkListedKeeps ==
  ASSUME Inv, WalkListed
  PROVE  Inv'
<1> DEFINE l == listing
<1>1. /\ told' = [f \in Files |-> IF Described(l.got, f) THEN VersionOf(About(l.got, f)) ELSE None]
      /\ cursor' = l.next /\ l.left = {} /\ listing' = Nothing /\ UNCHANGED <<drive, now>>
      /\ l # Nothing
  BY DEF WalkListed, Listed, NextCursor, driveVars, Nothing
<1>2. /\ l.next \in 0..now
      /\ \A r \in l.got : Ingestable(r.file) /\ r.version \in Nat /\ VersionOf(r) = r.version
      /\ \A f \in Files : drive[f].at <= l.next =>
           /\ Current(f) # None => Described(l.got, f)
           /\ \A r \in l.got : r.file = f => r.version = Current(f)
  BY <1>1 DEF Inv, ListingInv, VersionOf
<1>3. \A f \in Files : Described(l.got, f) => About(l.got, f) \in l.got /\ About(l.got, f).file = f
  BY DEF Described, About
<1> HIDE DEF l
<1>4. AccountInv'
  <2>1. told' \in [Files -> Int]
    BY <1>1, <1>2, <1>3 DEF None
  <2>2. \A f \in Files : ~Ingestable(f) => told'[f] = None
    BY <1>1, <1>2, <1>3
  <2> QED
    BY <1>1, <1>2, <2>1, <2>2 DEF Inv, AccountInv, Ingestable, None
<1>5. NothingMissed'
  <2>1. ASSUME NEW f \in Files, drive[f].at <= l.next
        PROVE  told'[f] = Current(f)
    BY <1>1, <1>2, <1>3, <2>1
  <2>2. \A f \in Files : Current(f)' = Current(f) /\ drive[f].at \in Nat
    BY <1>1 DEF Current, Ingestable, Inv, AccountInv
  <2> QED
    BY <1>1, <1>2, <2>1, <2>2 DEF NothingMissed
<1> QED
  BY <1>1, <1>4, <1>5 DEF Inv, ListingInv

\* The caller is told a page of the feed, and keeps the cursor of the page or
\* the one it had.
LEMMA WalkChangesKeeps ==
  ASSUME Inv, WalkChanges
  PROVE  Inv'
<1>1. PICK last \in PageEnds(cursor) :
        LET files == ChangeSet(cursor, last) IN
        /\ told' = [f \in Files |->
             IF Described(files, f) THEN VersionOf(About(files, f)) ELSE told[f]]
        /\ cursor' \in {last, cursor}
  BY DEF WalkChanges, NextToken
<1> DEFINE files == ChangeSet(cursor, last)
<1>2. UNCHANGED <<drive, now, listing>> /\ listing = Nothing /\ cursor # None
  BY DEF WalkChanges, driveVars, Free
<1>3. cursor \in 0..now /\ last \in cursor..now
  BY <1>1, <1>2 DEF PageEnds, Inv, AccountInv, None
<1>4. \A r \in files : r = Remote(r.file) /\ r.file \in Files
                       /\ drive[r.file].at > cursor /\ drive[r.file].at <= last
                       /\ (r.deleted \/ Ingestable(r.file))
  BY DEF ChangeSet, Pending, Remote
<1>5. ASSUME NEW f \in Files, Described(files, f)
      PROVE  told'[f] = Current(f)
  <2>1. About(files, f) \in files /\ About(files, f).file = f
    BY <1>5 DEF Described, About
  <2>2. About(files, f) = Remote(f) /\ (Remote(f).deleted \/ Ingestable(f))
    BY <1>4, <2>1
  <2>3. told'[f] = VersionOf(Remote(f))
    BY <1>1, <1>5, <2>2
  <2> QED
    BY <2>2, <2>3 DEF Remote, Current, VersionOf
<1>6. ASSUME NEW f \in Files, ~Described(files, f)
      PROVE  /\ told'[f] = told[f]
             /\ drive[f].at > last \/ drive[f].at <= cursor \/ ~Ingestable(f)
  <2>1. told'[f] = told[f]
    BY <1>1, <1>6
  <2>2. SUFFICES ASSUME f \in Pending(cursor), drive[f].at <= last, Ingestable(f)
                 PROVE  FALSE
    BY <1>3, <2>1 DEF Pending, Inv, AccountInv
  <2>3. Remote(f) \in files
    BY <2>2 DEF ChangeSet, Remote
  <2> QED
    BY <1>6, <2>3 DEF Described, Remote
<1>7. \A f \in Files : Current(f)' = Current(f) /\ Current(f) \in Int
                       /\ (~Ingestable(f) => Current(f) = None)
  BY <1>2 DEF Current, Ingestable, None, Inv, AccountInv
<1> HIDE DEF files
<1>8. AccountInv'
  <2>1. told' \in [Files -> Int]
    <3>1. \A f \in Files : told'[f] \in Int
      BY <1>5, <1>6, <1>7 DEF Inv, AccountInv
    <3>2. told' = [f \in Files |-> told'[f]]
      BY <1>1
    <3> QED
      BY <3>1, <3>2
  <2>2. \A f \in Files : ~Ingestable(f) => told'[f] = None
    BY <1>5, <1>6, <1>7 DEF Inv, AccountInv
  <2> QED
    BY <1>1, <1>2, <1>3, <2>1, <2>2 DEF Inv, AccountInv, Ingestable, None
<1>9. NothingMissed'
  <2>1. ASSUME NEW f \in Files
        PROVE  told'[f] = Current(f) \/ drive[f].at > last
    <3>1. CASE Described(files, f)
      BY <1>5, <3>1
    <3>2. CASE ~Described(files, f)
      BY <1>2, <1>6, <1>7, <3>2 DEF Inv, AccountInv, NothingMissed
    <3> QED
      BY <3>1, <3>2
  <2>2. \A f \in Files : drive[f].at \in Nat
    BY DEF Inv, AccountInv
  <2>3. cursor' <= last /\ cursor' \in Nat /\ last \in Nat
    BY <1>1, <1>3
  <2> QED
    BY <1>2, <1>7, <2>1, <2>2, <2>3 DEF NothingMissed
<1> QED
  BY <1>2, <1>8, <1>9 DEF Inv, ListingInv

LEMMA InvKept == Inv /\ [Next]_vars => Inv'
<1> SUFFICES ASSUME Inv, [Next]_vars PROVE Inv'
  OBVIOUS
<1>1. CASE Account
  BY <1>1, ChangeKeeps DEF Account, Edit, Trash, Remove
<1>2. CASE WalkAll \/ SyncStarts
  BY <1>2, StartKeeps DEF WalkAll, SyncStarts, driveVars, walkVars
<1>3. CASE ListPage
  BY <1>3, PageKeeps
<1>4. CASE WalkListed
  BY <1>4, WalkListedKeeps
<1>5. CASE WalkChanges
  BY <1>5, WalkChangesKeeps
<1>6. CASE listing' \in {listing, Nothing} /\ UNCHANGED <<driveVars, walkVars>>
  BY <1>6 DEF driveVars, walkVars, Inv, AccountInv, ListingInv, NothingMissed, Current,
              Ingestable, Described, None
<1>7. CASE Sync \/ ListingFails \/ UNCHANGED vars
  BY <1>2, <1>6, <1>7 DEF Sync, SyncListed, Listed, Fetch, FetchFails, IngestFetched,
     IngestRaises, SyncEnds, ListingFails, vars
<1> QED
  BY <1>1, <1>3, <1>4, <1>5, <1>2, <1>7 DEF Next

\* What a caller that keeps the cursor has not been told is after the cursor.
THEOREM ChangesAreNotMissed == Spec => []NothingMissed
<1>1. Inv => NothingMissed
  BY DEF Inv
<1> QED
  BY <1>1, InvAtFirst, InvKept, PTL DEF Spec
-----------------------------------------------------------------------------
(* go2 sync. *)

\* What f holds now is what was there when the command began.
Unchanged(f) == Current(f) # None /\ drive[f].at <= run.began

\* What the command has dealt with, and has not missed, is in the index as it
\* is, if it has not changed since.
Synced(f) == Unchanged(f) => index[f] = Current(f)

\* The listing of the command took its cursor when the command began; what it
\* has not put on its list then was not there, or changed since.
SyncInv ==
  /\ index \in [Files -> Int]
  /\ listing.by = "sync" => run.pc = "listing" /\ run.began = listing.next
  /\ run.pc = "listing" => listing.by = "sync"
  /\ run.pc \in {"syncing", "ended"} =>
       /\ run = [pc |-> run.pc, began |-> run.began, todo |-> run.todo, missed |-> run.missed]
       /\ run.began \in 0..now
       /\ \A f \in Files \ (run.todo \cup run.missed) : Synced(f)
  /\ run.pc = "fetched" =>
       /\ run.began \in 0..now /\ run.file \in Files /\ run.version \in Nat
       /\ Unchanged(run.file) => run.version = Current(run.file)
       /\ \A f \in Files \ (run.todo \cup run.missed \cup {run.file}) : Synced(f)
  /\ run.pc = "ended" => run.todo = {}

LEMMA SyncInit == Init => SyncInv
BY DEF Init, SyncInv, Nothing, None

\* A version in the index or on its way there may be overtaken, never changed:
\* what happens to a file happens after the command began.
LEMMA ChangeSyncs ==
  ASSUME Inv, SyncInv, NEW g \in Files, NEW is \in {"live", "trashed", "gone"}, Change(g, is)
  PROVE  SyncInv'
<1>1. /\ now \in Nat /\ now' = now + 1 /\ UNCHANGED <<listing, run, index>>
      /\ drive' = [drive EXCEPT ![g] = [is |-> is, at |-> now']]
      /\ drive \in [Files -> [is : {"live", "trashed", "gone"}, at : 0..now]]
  BY DEF Change, Inv, AccountInv, syncVars
<1>2. drive'[g].at = now + 1 /\ \A f \in Files \ {g} : drive'[f] = drive[f]
  BY <1>1
<1>3. run.began \in 0..now => \A f \in Files : Unchanged(f)' => Unchanged(f) /\ Current(f)' = Current(f)
  BY <1>1, <1>2 DEF Unchanged, Current, Ingestable
<1>4. run.began \in 0..now => \A f \in Files : Synced(f) => Synced(f)'
  BY <1>1, <1>3 DEF Synced
<1> QED BY <1>1, <1>3, <1>4 DEF SyncInv

\* Steps of the connector and of the other caller: the command waits.
LEMMA OthersSync ==
  ASSUME SyncInv, UNCHANGED <<drive, now, index, run>>,
         listing'.by = "sync" => listing.by = "sync" /\ listing'.next = listing.next,
         listing.by = "sync" => listing'.by = "sync"
  PROVE  SyncInv'
<1>1. \A f \in Files : Synced(f)' = Synced(f) /\ Unchanged(f)' = Unchanged(f) /\ Current(f)' = Current(f)
  BY DEF Synced, Unchanged, Current, Ingestable
<1> QED BY <1>1 DEF SyncInv

\* What the listing does not have, when it is complete, has changed or is not
\* there; what --limit cut off is missed.
LEMMA ListedSyncs == ASSUME Inv, SyncInv, SyncListed PROVE SyncInv'
<1> DEFINE got == {r.file : r \in listing.got}
<1>1. PICK files \in SUBSET got :
        run' = [pc |-> "syncing", began |-> run.began, todo |-> files, missed |-> got \ files]
  BY DEF SyncListed
<1>2. /\ UNCHANGED <<drive, now, index>> /\ listing.by = "sync" /\ listing.left = {}
      /\ listing' = Nothing /\ listing # Nothing /\ run.began = listing.next
  BY DEF SyncListed, Listed, driveVars, SyncInv, Nothing
<1>3. /\ listing.next \in 0..now
      /\ \A f \in Files : drive[f].at <= listing.next /\ Current(f) # None => Described(listing.got, f)
  BY <1>2 DEF Inv, ListingInv
<1>4. \A f \in Files \ (files \cup (got \ files)) : Synced(f)'
  <2> SUFFICES ASSUME NEW f \in Files, f \notin got, Unchanged(f)' PROVE FALSE
    BY DEF Synced
  <2>1. Current(f) # None /\ drive[f].at <= listing.next
    BY <1>1, <1>2 DEF Unchanged, Current, Ingestable
  <2> QED BY <1>3, <2>1 DEF Described
<1> QED BY <1>1, <1>2, <1>3, <1>4 DEF SyncInv, Nothing

LEMMA FetchSyncs ==
  ASSUME Inv, SyncInv, NEW f \in Files, Fetch(f) \/ FetchFails(f)
  PROVE  SyncInv'
<1>1. /\ UNCHANGED <<drive, now, index, listing>> /\ run.pc = "syncing" /\ f \in run.todo
      /\ run = [pc |-> run.pc, began |-> run.began, todo |-> run.todo, missed |-> run.missed]
      /\ run.began \in 0..now
      /\ \A g \in Files \ (run.todo \cup run.missed) : Synced(g)
  BY DEF Fetch, FetchFails, driveVars, SyncInv
<1>2. \A g \in Files : Current(g)' = Current(g)
  BY <1>1 DEF Current, Ingestable
<1>3. CASE Fetch(f)
  <2>1. run' = [pc |-> "fetched", began |-> run.began, todo |-> run.todo \ {f},
                missed |-> run.missed, file |-> f, version |-> drive[f].at]
    BY <1>3 DEF Fetch
  <2>2. drive[f].at \in Nat
    BY DEF Inv, AccountInv
  <2>3. Unchanged(f)' => drive[f].at = Current(f)
    BY <1>2 DEF Unchanged, Current
  <2>4. \A g \in Files : Synced(g)' = Synced(g)
    BY <1>1, <1>2, <2>1 DEF Synced, Unchanged
  <2> QED BY <1>1, <1>2, <2>1, <2>2, <2>3, <2>4 DEF SyncInv
<1>4. CASE FetchFails(f)
  <2>1. run' = [pc |-> "syncing", began |-> run.began, todo |-> run.todo \ {f},
                missed |-> run.missed \cup {f}]
    BY <1>1, <1>4 DEF FetchFails
  <2>2. \A g \in Files : Synced(g)' = Synced(g)
    BY <1>1, <1>2, <2>1 DEF Synced, Unchanged
  <2> QED BY <1>1, <2>1, <2>2 DEF SyncInv
<1> QED BY <1>3, <1>4

LEMMA IngestSyncs == ASSUME Inv, SyncInv, IngestFetched PROVE SyncInv'
<1>1. /\ UNCHANGED <<drive, now, listing>> /\ run.pc = "fetched"
      /\ index' = [index EXCEPT ![run.file] = run.version]
      /\ run' = [pc |-> "syncing", began |-> run.began, todo |-> run.todo, missed |-> run.missed]
      /\ run.began \in 0..now /\ run.file \in Files /\ run.version \in Nat
      /\ Unchanged(run.file) => run.version = Current(run.file)
      /\ \A g \in Files \ (run.todo \cup run.missed \cup {run.file}) : Synced(g)
      /\ index \in [Files -> Int]
  BY DEF IngestFetched, Goes, driveVars, SyncInv
<1>2. \A g \in Files : Current(g)' = Current(g) /\ Unchanged(g)' = Unchanged(g)
  BY <1>1 DEF Current, Ingestable, Unchanged
<1>3. \A g \in Files \ (run.todo \cup run.missed) : Synced(g)'
  BY <1>1, <1>2 DEF Synced
<1> QED BY <1>1, <1>3 DEF SyncInv

LEMMA SyncKept == Inv /\ SyncInv /\ [Next]_vars => SyncInv'
<1> SUFFICES ASSUME Inv, SyncInv, [Next]_vars PROVE SyncInv'
  OBVIOUS
<1>1. CASE Account
  BY <1>1, ChangeSyncs DEF Account, Edit, Trash, Remove
<1>2. CASE ListPage
  <2>1. listing'.by = listing.by /\ listing'.next = listing.next
    BY <1>2 DEF ListPage, Inv, ListingInv
  <2> QED BY <1>2, <2>1, OthersSync DEF ListPage, driveVars, syncVars
<1>3. CASE WalkAll \/ WalkListed
  BY <1>3, OthersSync DEF WalkAll, StartListing, Free, WalkListed, Listed, driveVars, syncVars, Nothing
<1>4. CASE WalkChanges \/ UNCHANGED vars
  BY <1>4, OthersSync DEF WalkChanges, driveVars, syncVars, vars
<1>5. CASE ListingFails
  <2>1. UNCHANGED <<drive, now, index>> /\ listing' = Nothing
    BY <1>5 DEF ListingFails, driveVars
  <2>2. CASE listing.by = "sync"
    BY <1>5, <2>1, <2>2 DEF ListingFails, SyncInv, Nothing
  <2>3. CASE listing.by # "sync"
    BY <1>5, <2>1, <2>3, OthersSync DEF ListingFails, Nothing
  <2> QED BY <2>2, <2>3
<1>6. CASE SyncStarts
  BY <1>6 DEF SyncStarts, StartListing, SyncInv
<1>7. CASE IngestRaises
  BY <1>7 DEF IngestRaises, SyncInv
<1>8. CASE SyncEnds
  <2>1. /\ run' = [pc |-> "ended", began |-> run.began, todo |-> run.todo, missed |-> run.missed]
        /\ UNCHANGED <<drive, now, index, listing>> /\ run.pc = "syncing" /\ run.todo = {}
    BY <1>8 DEF SyncEnds, Goes, driveVars
  <2>2. \A f \in Files : Synced(f)' = Synced(f)
    BY <2>1 DEF Synced, Unchanged, Current, Ingestable
  <2> QED BY <2>1, <2>2 DEF SyncInv
<1> QED BY <1>1, <1>2, <1>3, <1>4, <1>5, <1>6, <1>7, <1>8, ListedSyncs, FetchSyncs, IngestSyncs
       DEF Next, Sync

\* When `go2 sync` ends, every file that is live, unchanged since the command
\* began and was not missed is in the index as it is, whatever changed between
\* its requests and wherever an earlier run broke off.
THEOREM SyncIsCurrent == Spec => []SyncedIsCurrent
<1>1. SyncInv => SyncedIsCurrent
  BY DEF SyncInv, SyncedIsCurrent, Synced, Unchanged
<1> QED
  BY <1>1, InvAtFirst, InvKept, SyncInit, SyncKept, PTL DEF Spec
=============================================================================
