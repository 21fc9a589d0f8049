-------------------------------- MODULE Reads --------------------------------
(***************************************************************************)
(* git_backend.read and the listings of the service on one machine, beside *)
(* calls that publish (Publication).  The machine keeps the last accepted  *)
(* tip it knows of as a ref of its object store: calls and reads advance   *)
(* it, and reads are served from it when the remote cannot be reached.     *)
(* Operation o closes item o, so that every commit takes a row off a ready *)
(* queue, while holds that end add rows to it without any commit.  A       *)
(* revision is the length of the branch there.                             *)
(***************************************************************************)
EXTENDS Publication

CONSTANTS
    Local,   \* the operations called on this machine
    Readers, \* the processes that read on it
    Legacy,  \* the revision an older version left in its cache, or NoRev
    NoRev,   \* no revision
    Unread,  \* advance_tip has not read the ref
    MaxTries, \* the times advance_tip tries to write it
    Items,   \* the items that may be listed; operation o closes item o
    Held,    \* those with a hold that has not ended
    Listing, \* the rows of a listing, for the items that are ready
    Limit    \* rows on a page

ASSUME ReadAssumption ==
    /\ Local \subseteq Ops
    /\ Local \cap Readers = {}
    /\ NoRev \notin Nat
    /\ Unread \notin Nat \cup {NoRev}
    /\ MaxTries \in Nat \ {0}
    /\ Legacy \in {0, NoRev}
    /\ Ops \subseteq Items
    /\ Held \subseteq Items
    /\ Listing \in [SUBSET Items -> Seq(Items)]
    /\ Limit \in Nat \ {0}

\* Rows are sorted: a further item moves a row back, never forward.
ASSUME OrderAssumption ==
    \A S, T \in SUBSET Items : S \subseteq T =>
        \A j \in DOMAIN Listing[S] :
            \E k \in DOMAIN Listing[T] : j <= k /\ Listing[T][k] = Listing[S][j]

VARIABLES
    cached,  \* the ref of the store that names its last accepted tip
    aim,     \* where advance_tip is moving it, for each of its callers
    old,     \* what advance_tip read of it
    tries,   \* how often its write of the ref has failed
    reader,  \* where each read is
    page,    \* the last page each reader was given
    held     \* the items whose hold has not ended

cacheVars == <<cached, aim, old, tries>>
readVars == <<cacheVars, reader, page, held>>
everyVar == <<vars, readVars>>

Clients == Local \cup Readers
Revs == Nat \cup {NoRev}

\* at: before, between ls_remote and the tip, or past the tip of _read_tip;
\* seen: the answer of ls_remote; rev: the revision read; mended: repaired.
Reader == [at : {"idle", "seen", "read"}, seen : Revs, rev : Revs, mended : BOOLEAN]
Idle == [at |-> "idle", seen |-> NoRev, rev |-> NoRev, mended |-> FALSE]

\* rev: its revision; next: the offset its cursor names; more: it has one;
\* due: the rows when the first page was made; served: those on the pages.
Page == [rev : Revs, next : Nat, more : BOOLEAN, due : SUBSET Items, served : SUBSET Items]
NoPage == [rev |-> NoRev, next |-> 0, more |-> FALSE, due |-> {}, served |-> {}]

CacheTypeOK ==
    /\ cached \in Revs
    /\ aim \in [Clients -> Revs]
    /\ old \in [Clients -> Revs \cup {Unread}]
    /\ tries \in [Clients -> 0..(MaxTries - 1)]
    /\ reader \in [Readers -> Reader]

ReadTypeOK ==
    /\ TypeOK /\ CacheTypeOK
    /\ page \in [Readers -> Page]
    /\ held \in SUBSET Held

ReadInit ==
    /\ Init
    /\ cached \in {0, NoRev}
    /\ aim = [c \in Clients |-> NoRev]
    /\ old = [c \in Clients |-> Unread]
    /\ tries = [c \in Clients |-> 0]
    /\ reader = [r \in Readers |-> Idle]
    /\ page = [r \in Readers |-> NoPage]
    /\ held = Held

-----------------------------------------------------------------------------
\* advance_tip

\* rev is cached or an ancestor of what is: the branch only grows.
Reached(rev) == cached # NoRev /\ rev <= cached

\* The caller is going to move the ref to rev.
Aim(c, rev) ==
    /\ aim' = [aim EXCEPT ![c] = rev]
    /\ tries' = [tries EXCEPT ![c] = 0]
    /\ UNCHANGED <<cached, old>>

\* A ref that is there already, or further, is left alone.
LookAtTip(c) ==
    /\ aim[c] # NoRev /\ old[c] = Unread
    /\ \/ Reached(aim[c]) /\ Aim(c, NoRev)
       \/ /\ ~Reached(aim[c])
          /\ old' = [old EXCEPT ![c] = cached]
          /\ UNCHANGED <<cached, aim, tries>>
    /\ UNCHANGED <<vars, reader, page, held>>

\* advance_tip returns: the ref is written, or it has been tried often enough.
Returned(c) ==
    /\ aim' = [aim EXCEPT ![c] = NoRev]
    /\ tries' = [tries EXCEPT ![c] = 0]

\* Fault: the ref is written whatever it holds by now.
SwapBlindly(c) ==
    /\ old[c] # Unread
    /\ cached' = aim[c]
    /\ Returned(c)
    /\ old' = [old EXCEPT ![c] = Unread]
    /\ UNCHANGED <<vars, reader, page, held>>

\* The last try there is fails: advance_tip returns as if it had succeeded.
GivesUp(c) == old[c] # Unread /\ tries[c] + 1 = MaxTries /\ cached' = cached

\* update-ref with the old value.  It fails if the ref has moved, and may for
\* any other reason (a stale lock of the ref, a full disk): the loop reads the
\* ref again, a bounded number of times.
SwapTip(c) ==
    /\ old[c] # Unread
    /\ \/ cached = old[c] /\ cached' = aim[c] /\ Returned(c)
       \/ GivesUp(c) /\ Returned(c)
       \/ /\ tries[c] + 1 < MaxTries
          /\ tries' = [tries EXCEPT ![c] = @ + 1]
          /\ UNCHANGED <<cached, aim>>
    /\ old' = [old EXCEPT ![c] = Unread]
    /\ UNCHANGED <<vars, reader, page, held>>

\* The caller dies, or a Git command of advance_tip times out.
Abandon(c) ==
    /\ Returned(c)
    /\ old' = [old EXCEPT ![c] = Unread]
    /\ UNCHANGED cached

\* Inside the shared lock of the store.
Using(c) ==
    \/ aim[c] # NoRev
    \/ c \in Readers /\ reader[c].at = "read"
    \/ c \in Local /\ pc[c] \in {"apply", "push", "confirm", "settle", "recheck"}

\* repair waits for all others to leave the store and empties it, unless
\* another has done so since it failed.
Rebuild(c) ==
    /\ \A d \in Clients \ {c} : ~Using(d)
    /\ cached' \in {NoRev, cached}
    /\ UNCHANGED <<aim, old, tries>>

-----------------------------------------------------------------------------
\* Calls: those of this machine advance the ref to every tip they fetch

\* A call goes on when its advance_tip has returned.
Free(o) == o \in Local => aim[o] = NoRev

CallAims(o) == IF o \in Local THEN Aim(o, Len(branch)) ELSE UNCHANGED cacheVars

CallFetches(o) ==
    /\ Free(o)
    /\ Fetch(o) \/ FindOwnCommit(o)
    /\ CallAims(o)
    /\ UNCHANGED <<reader, page, held>>

\* The call ends, perhaps inside advance_tip, or rebuilds the store.
CallBreaks(o) ==
    /\ StoreFails(o)
    /\ \/ o \notin Local /\ UNCHANGED cacheVars
       \/ o \in Local /\ pc'[o] = "done" /\ Abandon(o)
       \/ o \in Local /\ pc'[o] # "done" /\ Free(o) /\ Rebuild(o)
    /\ UNCHANGED <<reader, page, held>>

\* Fault: the commit becomes the cached tip when it is sent.
PushCached(o) ==
    /\ Free(o)
    /\ Push(o)
    /\ IF o \in Local THEN Aim(o, base[o] + 1) ELSE UNCHANGED cacheVars
    /\ UNCHANGED <<reader, page, held>>

CallPushes(o) ==
    /\ Free(o)
    /\ Push(o)
    /\ UNCHANGED readVars

\* Fault: a confirmed push does not advance the ref.
SettleUncached(o) ==
    /\ Free(o)
    /\ Confirm(o) \/ Reconcile(o)
    /\ UNCHANGED readVars

\* Confirmed at the tip, or searched for on the branch that was fetched; the
\* answer is unknown without a fetch, or if the store breaks after it.
CallSettles(o) ==
    /\ Free(o)
    /\ \/ Confirm(o) /\ outcome'[o] = "applied" /\ CallAims(o)
       \/ Confirm(o) /\ pc'[o] = "settle" /\ UNCHANGED cacheVars
       \/ Reconcile(o) /\ CallAims(o)
       \/ Reconcile(o) /\ outcome'[o] = "unknown" /\ UNCHANGED cacheVars
    /\ UNCHANGED <<reader, page, held>>

\* The steps of a call that leave the ref alone.
CallGoesOn(o) ==
    /\ Free(o)
    /\ \/ FetchFails(o)
       \/ Refuse(o)
       \/ PushSucceeds(o)
       \/ PushConflicts(o)
       \/ PushRejected(o)
       \/ PushOffline(o)
       \/ PushTimesOut(o)
    /\ UNCHANGED readVars

CallCrashes(o) ==
    /\ Crash(o)
    /\ IF o \in Local THEN Abandon(o) ELSE UNCHANGED cacheVars
    /\ UNCHANGED <<reader, page, held>>

PushLands(o) == RemoteAccepts(o) /\ UNCHANGED readVars

-----------------------------------------------------------------------------
\* Listings

\* The items a ready queue at a revision lists: open there, not held by now.
Ready(rev) == Items \ ({branch[n] : n \in 1..rev} \cup held)

\* The rows at a revision, in order.
Rows(rev) == Listing[Ready(rev)]

\* The clock passes not_before of an item: it is listed from now on, at
\* whatever revision.
HoldEnds(i) ==
    /\ i \in held
    /\ held' = held \ {i}
    /\ UNCHANGED <<vars, cacheVars, reader, page>>

\* Fault: a cursor continues at any revision.
ContinuesAnywhere(r, rev) == page[r].more

\* A cursor continues a listing of this very revision.
Continues(r, rev) == page[r].more /\ page[r].rev = rev

\* Fault: the cursor is not moved back when rows are taken off the page.
CursorUnmoved(offset, n) == offset + Limit

\* The cursor names the row behind the last one served.
Cursor(offset, n) == offset + n

\* The page at an offset: as many rows as fit the limit and the byte cap.
PageAt(r, rev, offset, due, served) ==
    \E n \in 0..Limit :
        LET rows == Rows(rev)
            last == offset + n
        IN /\ last <= Len(rows)
           /\ n = 0 => offset >= Len(rows)
           /\ page' = [page EXCEPT ![r] =
                  [rev |-> rev, next |-> Cursor(offset, n),
                   more |-> Cursor(offset, n) < Len(rows), due |-> due,
                   served |-> served \cup {rows[k] : k \in (offset + 1)..last}]]

\* list_items: a first page; the page of a cursor; or an error, because the
\* cursor is stale or not even one row fits.
Serve(r, rev) ==
    /\ \/ PageAt(r, rev, 0, {Rows(rev)[k] : k \in 1..Len(Rows(rev))}, {})
       \/ /\ Continues(r, rev)
          /\ PageAt(r, rev, page[r].next, page[r].due, page[r].served)
       \/ page' = [page EXCEPT ![r] = NoPage]
    /\ reader' = [reader EXCEPT ![r] = Idle]

-----------------------------------------------------------------------------
\* Reads

Seen(rev, mended) == [at |-> "seen", seen |-> rev, rev |-> NoRev, mended |-> mended]

\* ls_remote_tip.
AskRemote(r) ==
    /\ reader[r].at = "idle"
    /\ reader' = [reader EXCEPT ![r] = Seen(Len(branch), FALSE)]
    /\ UNCHANGED <<vars, cacheVars, page, held>>

Reading(r, rev) ==
    /\ reader' = [reader EXCEPT ![r] =
           [at |-> "read", seen |-> @.seen, rev |-> rev, mended |-> @.mended]]
    /\ Aim(r, rev)
    /\ UNCHANGED <<vars, page, held>>

\* Fault: any cached tip will do.
ReadAnyCached(r) ==
    /\ reader[r].at = "seen"
    /\ Reading(r, IF cached = NoRev THEN reader[r].seen ELSE cached)

\* The tip is cached, or the store has its objects from another fetch or from
\* a push of this machine: load it and advance the ref.
ReadKnown(r) ==
    /\ reader[r].at = "seen"
    /\ Reading(r, reader[r].seen)

\* Else fetch the tip there is by now, advance the ref and load it.
ReadFetched(r) ==
    /\ reader[r].at = "seen"
    /\ cached # reader[r].seen
    /\ Reading(r, Len(branch))

\* ls-remote or the fetch fails, or a command times out after the fetch:
\* _offline_cached serves the cached tip, or what an older version left if
\* there is none or it cannot be read.
ReadOffline(r) ==
    /\ reader[r].at = "seen" => cached # reader[r].seen
    /\ \E rev \in {cached, Legacy} \ {NoRev} : Serve(r, rev)
    /\ Abandon(r)
    /\ UNCHANGED <<vars, held>>

\* The read is killed or ends in an error: nothing cached, the store broken
\* twice, a command timed out.
ReadFails(r) ==
    /\ reader' = [reader EXCEPT ![r] = Idle]
    /\ Abandon(r)
    /\ UNCHANGED <<vars, page, held>>

\* StoreError: rebuild the store once and read the tip again.
ReadBreaks(r) ==
    /\ reader[r].at \in {"seen", "read"}
    /\ aim[r] = NoRev
    /\ ~reader[r].mended
    /\ Rebuild(r)
    /\ reader' = [reader EXCEPT ![r] = Seen(reader[r].seen, TRUE)]
    /\ UNCHANGED <<vars, page, held>>

\* The ref has been advanced: the page is made from what was read.
ReadDone(r) ==
    /\ reader[r].at = "read"
    /\ aim[r] = NoRev
    /\ Serve(r, reader[r].rev)
    /\ UNCHANGED <<vars, cacheVars, held>>

ReadStep(r) ==
    \/ AskRemote(r)
    \/ ReadKnown(r)
    \/ ReadFetched(r)
    \/ ReadOffline(r)
    \/ ReadFails(r)
    \/ ReadBreaks(r)
    \/ ReadDone(r)

CallStep(o) ==
    \/ CallFetches(o)
    \/ CallBreaks(o)
    \/ CallPushes(o)
    \/ CallSettles(o)
    \/ CallGoesOn(o)

TipStep(c) == LookAtTip(c) \/ SwapTip(c)

ReadNext ==
    \/ \E o \in Ops : CallStep(o) \/ CallCrashes(o) \/ PushLands(o)
    \/ \E c \in Clients : TipStep(c)
    \/ \E r \in Readers : ReadStep(r)
    \/ \E i \in Items : HoldEnds(i)
    \/ Done /\ UNCHANGED everyVar

ReadSpec == ReadInit /\ [][ReadNext]_everyVar

-----------------------------------------------------------------------------
\* Properties

\* What is cached, or about to be, was accepted by the remote: a read without
\* the remote serves no commit that may yet lose its push.
CacheIsAccepted ==
    /\ cached # NoRev => cached <= Len(branch)
    /\ \A c \in Clients : aim[c] # NoRev => aim[c] <= Len(branch)

\* "the ref never moves backwards when processes race" (git_store.py:381): a
\* cached tip gives way to a later one, or to none when the store is rebuilt.
CacheMovesForward ==
    [][cached # NoRev /\ cached' # NoRev => cached <= cached']_everyVar

\* The caller of o has been told that it was applied.
Told(o) == outcome[o] = "applied" /\ aim[o] = NoRev

\* A call that returns "applied" leaves its commit in the cache, so that reads
\* that follow on this machine find it there although they may be offline.  The
\* one exception is the "best effort" of advance_tip (git_store.py:382): all its
\* writes of the ref have failed, the last one in this step.
WritesCachedUnlessGivenUp ==
    [][\A o \in Local : ~Told(o) /\ Told(o)' =>
        \/ \E n \in DOMAIN branch : branch[n] = o /\ cached' # NoRev /\ n <= cached'
        \/ GivesUp(o)]_everyVar

\* A read that reached the remote returns an accepted revision no older than
\* the tip it saw there.
FreshReads ==
    \A r \in Readers :
        reader[r].at = "read" => reader[r].rev \in reader[r].seen..Len(branch)

\* A listing read to its last page has shown every row it had when its first
\* page was made, whatever was accepted and whatever holds ended in between:
\* the cursor is tied to the revision, "not the clock" (ADR 0009).
NothingMissed == \A r \in Readers : page[r].more \/ page[r].due \subseteq page[r].served
=============================================================================
