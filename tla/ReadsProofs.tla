----------------------------- MODULE ReadsProofs -----------------------------
(***************************************************************************)
(* Reads for every set of operations, of machines' calls and of readers:   *)
(* every step is a step of Publication, whose theorems therefore hold; the *)
(* cached tip is accepted and never moves backwards; and a read that       *)
(* reached the remote is no older than the tip it saw there.               *)
(***************************************************************************)
EXTENDS Reads, PublicationProofs

-----------------------------------------------------------------------------
\* Publication goes on as before

\* A step of a call, its crash or the remote is one of Publication; all others
\* leave its variables alone.
LEMMA ReadsPublish ==
    ASSUME [ReadNext]_everyVar
    PROVE  [Next]_vars
  <1>1. ASSUME NEW o \in Ops, CallStep(o) PROVE Next
    <2>1. Step(o)
      BY <1>1 DEF CallStep, CallFetches, CallBreaks, CallPushes, CallSettles, CallGoesOn, Step
    <2> QED
      BY <2>1 DEF Next
  <1>2. ASSUME NEW o \in Ops, CallCrashes(o) \/ PushLands(o) PROVE Next
    BY <1>2 DEF CallCrashes, PushLands, Next
  <1>3. ASSUME NEW c \in Clients, TipStep(c) PROVE UNCHANGED vars
    BY <1>3 DEF TipStep, LookAtTip, SwapTip
  <1>4. ASSUME NEW r \in Readers, ReadStep(r) PROVE UNCHANGED vars
    BY <1>4 DEF ReadStep, AskRemote, ReadKnown, ReadFetched, Reading, ReadOffline,
                ReadFails, ReadBreaks, ReadDone
  <1>5. ASSUME NEW i \in Items, HoldEnds(i) PROVE UNCHANGED vars
    BY <1>5 DEF HoldEnds
  <1> QED
    BY <1>1, <1>2, <1>3, <1>4, <1>5 DEF ReadNext, everyVar

\* The branch only grows.
LEMMA BranchGrows ==
    ASSUME TypeOK, TypeOK', [Next]_vars
    PROVE  Len(branch) \in Nat /\ Len(branch') \in Nat /\ Len(branch) <= Len(branch')
  <1>1. branch \in Seq(Ops) /\ branch' \in Seq(Ops)
    BY DEF TypeOK
  <1>2. ASSUME NEW o \in Ops, RemoteAccepts(o) PROVE Len(branch') = Len(branch) + 1
    BY <1>1, <1>2, AppendProperties DEF RemoteAccepts
  <1>3. CASE branch' = branch
    BY <1>1, <1>3, LenProperties
  <1>4. ASSUME NEW o \in Ops, Step(o) \/ Crash(o) PROVE branch' = branch
    BY <1>4 DEF Step, Crash, FetchFails, FindOwnCommit, Fetch, Refuse, StoreFails, Push,
                PushSucceeds, PushConflicts, PushRejected, PushOffline, PushTimesOut,
                FailureReported, Confirm, Reconcile, remoteVars
  <1> QED
    BY <1>1, <1>2, <1>3, <1>4, LenProperties DEF Next, vars, remoteVars

\* All a run of Publication keeps holds of the branch that is read, too.
THEOREM ReadsKeepPublication == ReadSpec => [](PushInv /\ TypeOK)
  <1>1. ReadInit => PushInv /\ TypeOK
    <2> SUFFICES ASSUME ReadInit PROVE PushInv /\ TypeOK
      OBVIOUS
    <2>1. TypeOK
      BY RetryAssumption DEF ReadInit, Init, TypeOK, Outcomes
    <2> QED
      BY <2>1 DEF ReadInit, Init, PushInv, AtMostOnce, AppliedIsAccepted
  <1>2. PushInv /\ TypeOK /\ [ReadNext]_everyVar => PushInv' /\ TypeOK'
    BY ReadsPublish, StepTypes, PushStep
  <1> QED
    BY <1>1, <1>2, PTL DEF ReadSpec

-----------------------------------------------------------------------------
\* The cached tip

\* What advance_tip read of the ref lies below where it moves it; a read has
\* no move under way before it knows its revision, and saw an accepted tip.
AdvanceInv ==
    /\ \A c \in Clients : old[c] # Unread =>
          aim[c] # NoRev /\ (old[c] # NoRev => old[c] < aim[c])
    /\ \A r \in Readers :
          /\ reader[r].at # "read" => aim[r] = NoRev
          /\ reader[r].at # "idle" => reader[r].seen \in 0..Len(branch)

CacheInv == CacheTypeOK /\ CacheIsAccepted /\ FreshReads /\ AdvanceInv

\* A step of one client that leaves the readers alone keeps the invariant if
\* it leaves an accepted tip and an accepted aim.
LEMMA ClientStep ==
    ASSUME CacheInv, Len(branch) \in Nat, Len(branch') \in Nat, Len(branch) <= Len(branch'),
           NEW c \in Clients, reader' = reader,
           cached' \in Revs, cached' # NoRev => cached' <= Len(branch'),
           NEW a \in Revs, aim' = [aim EXCEPT ![c] = a], a # NoRev => a <= Len(branch'),
           NEW t \in Revs \cup {Unread}, old' = [old EXCEPT ![c] = t],
           t # Unread => a # NoRev /\ (t # NoRev => t < a),
           NEW k \in 0..(MaxTries - 1), tries' = [tries EXCEPT ![c] = k],
           c \in Readers => aim[c] # NoRev \/ a = NoRev
    PROVE  CacheInv'
  <1> USE ReadAssumption DEF CacheInv, CacheTypeOK, Revs
  <1>1. CacheTypeOK'
    OBVIOUS
  <1>2. CacheIsAccepted'
    BY DEF CacheIsAccepted
  <1>3. FreshReads'
    BY DEF FreshReads, Reader
  <1>4. AdvanceInv'
    BY DEF AdvanceInv, Reader
  <1> QED
    BY <1>1, <1>2, <1>3, <1>4

\* A step of one reader that leaves the branch alone keeps the invariant if it
\* leaves the reader an accepted revision and the ref no later tip.
LEMMA ReaderStep ==
    ASSUME CacheInv, Len(branch) \in Nat, branch' = branch, NEW r \in Readers,
           NEW rec \in Reader, reader' = [reader EXCEPT ![r] = rec],
           cached' \in {cached, NoRev},
           NEW a \in Revs, aim' = [aim EXCEPT ![r] = a], a # NoRev => a <= Len(branch),
           NEW t \in Revs \cup {Unread}, old' = [old EXCEPT ![r] = t],
           t # Unread => a # NoRev /\ (t # NoRev => t < a),
           NEW k \in 0..(MaxTries - 1), tries' = [tries EXCEPT ![r] = k],
           rec.at # "read" => a = NoRev,
           rec.at # "idle" => rec.seen \in 0..Len(branch),
           rec.at = "read" => rec.rev \in rec.seen..Len(branch)
    PROVE  CacheInv'
  <1> USE ReadAssumption DEF CacheInv, CacheTypeOK, Revs
  <1>0. r \in Clients
    BY DEF Clients
  <1>1. CacheTypeOK'
    BY <1>0
  <1>2. CacheIsAccepted'
    BY <1>0 DEF CacheIsAccepted
  <1>3. FreshReads'
    BY DEF FreshReads
  <1>4. AdvanceInv'
    BY <1>0 DEF AdvanceInv
  <1> QED
    BY <1>1, <1>2, <1>3, <1>4

\* Every step keeps the invariant.
LEMMA CacheSteps ==
    ASSUME PushInv, TypeOK, TypeOK', CacheInv, [ReadNext]_everyVar
    PROVE  CacheInv'
  <1>1. Len(branch) \in Nat /\ Len(branch') \in Nat /\ Len(branch) <= Len(branch')
    BY ReadsPublish, BranchGrows
  <1>2. /\ cached \in Revs /\ aim \in [Clients -> Revs]
        /\ old \in [Clients -> Revs \cup {Unread}] /\ reader \in [Readers -> Reader]
        /\ tries \in [Clients -> 0..(MaxTries - 1)] /\ 0 \in 0..(MaxTries - 1)
    BY ReadAssumption DEF CacheInv, CacheTypeOK
  <1>0. /\ cached # NoRev => cached <= Len(branch')
        /\ \A c \in Clients : aim[c] # NoRev => aim[c] <= Len(branch')
        /\ \A c \in Clients : aim[c] \in Revs /\ old[c] \in Revs \cup {Unread}
        /\ \A c \in Clients : old[c] # Unread =>
              aim[c] # NoRev /\ (old[c] # NoRev => old[c] < aim[c])
        /\ NoRev \in Revs /\ Unread \notin Revs
    BY <1>1, <1>2, ReadAssumption DEF CacheInv, CacheIsAccepted, AdvanceInv, Revs
  <1>3. ASSUME UNCHANGED readVars PROVE CacheInv'
    BY <1>1, <1>2, <1>3 DEF readVars, cacheVars, CacheInv, CacheTypeOK, CacheIsAccepted,
                       FreshReads, AdvanceInv, Reader, Revs
  <1>4. ASSUME UNCHANGED <<cacheVars, reader>> PROVE CacheInv'
    BY <1>1, <1>2, <1>4 DEF cacheVars, CacheInv, CacheTypeOK, CacheIsAccepted,
                       FreshReads, AdvanceInv, Reader, Revs
  <1>13. ASSUME NEW i \in Items, HoldEnds(i) PROVE CacheInv'
    BY <1>4, <1>13 DEF HoldEnds
  <1>5. ASSUME NEW o \in Ops, Free(o), CallAims(o), reader' = reader PROVE CacheInv'
    <2>1. CASE o \in Local
      <3>1. o \in Clients /\ old[o] = Unread /\ cached' = cached
        BY <1>2, <1>5, <2>1 DEF Free, CallAims, Aim, Clients, CacheInv, AdvanceInv
      <3>2. old' = [old EXCEPT ![o] = Unread]
        BY <1>2, <1>5, <2>1, <3>1 DEF CallAims, Aim
      <3> QED
        <4>1. /\ aim' = [aim EXCEPT ![o] = Len(branch)] /\ Len(branch) \in Revs
              /\ tries' = [tries EXCEPT ![o] = 0]
          BY <1>1, <1>5, <2>1 DEF CallAims, Aim, Revs
        <4>2. o \notin Readers
          BY <2>1, ReadAssumption
        <4> QED
          BY <1>0, <1>1, <1>2, <1>5, <3>1, <3>2, <4>1, <4>2, ClientStep
    <2>2. CASE o \notin Local
      BY <1>4, <1>5, <2>2 DEF CallAims
    <2> QED
      BY <2>1, <2>2
  <1>6. ASSUME NEW c \in Clients, Abandon(c), reader' = reader PROVE CacheInv'
    BY <1>0, <1>1, <1>2, <1>6, ClientStep DEF Abandon, Returned
  <1>7. ASSUME NEW o \in Ops, CallBreaks(o) PROVE CacheInv'
    <2>1. CASE o \notin Local
      BY <1>4, <1>7, <2>1 DEF CallBreaks
    <2>2. CASE o \in Local /\ Abandon(o)
      BY <1>6, <1>7, <2>2 DEF CallBreaks, Clients
    <2>3. CASE o \in Local /\ Rebuild(o)
      <3>1. /\ o \in Clients /\ aim[o] \in Revs /\ old[o] \in Revs \cup {Unread}
            /\ tries[o] \in 0..(MaxTries - 1)
        BY <1>2, <2>3 DEF Clients
      <3>2. /\ aim' = [aim EXCEPT ![o] = aim[o]] /\ old' = [old EXCEPT ![o] = old[o]]
            /\ tries' = [tries EXCEPT ![o] = tries[o]]
        BY <1>2, <2>3, <3>1 DEF Rebuild
      <3>3. reader' = reader /\ cached' \in {NoRev, cached}
        BY <1>7, <2>3 DEF CallBreaks, Rebuild
      <3> QED
        <4>1. /\ cached' \in Revs /\ (cached' # NoRev => cached' <= Len(branch'))
              /\ aim[o] # NoRev => aim[o] <= Len(branch')
          BY <1>0, <1>2, <3>1, <3>3
        <4>2. old[o] # Unread => aim[o] # NoRev /\ (old[o] # NoRev => old[o] < aim[o])
          BY <1>0, <3>1
        <4>3. aim[o] # NoRev \/ aim[o] = NoRev
          OBVIOUS
        <4> QED
          BY <1>1, <3>1, <3>2, <3>3, <4>1, <4>2, <4>3, ClientStep
    <2> QED
      BY <1>7, <2>1, <2>2, <2>3 DEF CallBreaks
  <1>8. ASSUME NEW o \in Ops, CallStep(o) PROVE CacheInv'
    <2>1. CASE CallFetches(o)
      BY <1>5, <2>1 DEF CallFetches
    <2>2. CASE CallSettles(o)
      BY <1>4, <1>5, <2>2 DEF CallSettles
    <2>3. CASE CallPushes(o) \/ CallGoesOn(o)
      BY <1>3, <2>3 DEF CallPushes, CallGoesOn
    <2> QED
      BY <1>7, <1>8, <2>1, <2>2, <2>3 DEF CallStep
  <1>9. ASSUME NEW o \in Ops, CallCrashes(o) \/ PushLands(o) PROVE CacheInv'
    <2>1. CASE o \in Local /\ Abandon(o) /\ reader' = reader
      BY <1>6, <2>1 DEF Clients
    <2>2. CASE UNCHANGED <<cacheVars, reader>>
      BY <1>4, <2>2
    <2> QED
      BY <1>9, <2>1, <2>2 DEF CallCrashes, PushLands, readVars
  <1>10. ASSUME NEW c \in Clients, LookAtTip(c) PROVE CacheInv'
    <2>1. aim[c] # NoRev /\ old[c] = Unread /\ reader' = reader
      BY <1>10 DEF LookAtTip
    <2>2. CASE Aim(c, NoRev)
      <3>1. old' = [old EXCEPT ![c] = Unread]
        BY <1>2, <2>1, <2>2 DEF Aim
      <3> QED
        BY <1>0, <1>1, <1>2, <1>10, <2>1, <2>2, <3>1, ClientStep DEF Aim
    <2>3. CASE ~Reached(aim[c]) /\ old' = [old EXCEPT ![c] = cached] /\ UNCHANGED <<cached, aim, tries>>
      <3>1. /\ aim[c] \in Revs /\ aim' = [aim EXCEPT ![c] = aim[c]]
            /\ tries[c] \in 0..(MaxTries - 1) /\ tries' = [tries EXCEPT ![c] = tries[c]]
        BY <1>2, <1>10, <2>1, <2>3 DEF LookAtTip
      <3>2. cached # NoRev => cached < aim[c]
        BY <1>2, <2>1, <2>3, ReadAssumption DEF Reached, Revs
      <3> QED
        BY <1>0, <1>1, <1>2, <1>10, <2>1, <2>3, <3>1, <3>2, ClientStep
    <2> QED
      BY <1>10, <2>2, <2>3 DEF LookAtTip
  <1>11. ASSUME NEW c \in Clients, SwapTip(c) PROVE CacheInv'
    <2>1. aim[c] # NoRev /\ reader' = reader /\ old' = [old EXCEPT ![c] = Unread]
      BY <1>11 DEF SwapTip, CacheInv, AdvanceInv
    <2>2. CASE cached' \in {aim[c], cached} /\ Returned(c)
      <3>1. aim' = [aim EXCEPT ![c] = NoRev] /\ tries' = [tries EXCEPT ![c] = 0]
        BY <2>2 DEF Returned
      <3>2. cached' \in Revs /\ (cached' # NoRev => cached' <= Len(branch'))
        BY <1>0, <1>2, <2>1, <2>2
      <3> QED
        BY <1>0, <1>1, <1>2, <1>11, <2>1, <3>1, <3>2, ClientStep
    <2>3. CASE /\ tries[c] + 1 < MaxTries
               /\ tries' = [tries EXCEPT ![c] = @ + 1]
               /\ UNCHANGED <<cached, aim>>
      <3>1. aim[c] \in Revs /\ aim' = [aim EXCEPT ![c] = aim[c]]
        BY <1>2, <2>3
      <3>2. tries[c] + 1 \in 0..(MaxTries - 1) /\ tries' = [tries EXCEPT ![c] = tries[c] + 1]
        BY <1>2, <2>3, ReadAssumption
      <3> QED
        BY <1>0, <1>1, <1>2, <1>11, <2>1, <2>3, <3>1, <3>2, ClientStep
    <2> QED
      BY <1>11, <2>2, <2>3 DEF SwapTip, GivesUp
  <1>12. ASSUME NEW r \in Readers, ReadStep(r) PROVE CacheInv'
    <2> USE ReadAssumption
    <2>1. branch' = branch /\ r \in Clients
      BY <1>12 DEF ReadStep, AskRemote, ReadKnown, ReadFetched, Reading, ReadOffline,
                   ReadFails, ReadBreaks, ReadDone, vars, remoteVars, Clients
    <2>2. Idle \in Reader
      BY DEF Idle, Reader, Revs
    <2>3. CASE AskRemote(r)
      <3>1. aim[r] = NoRev /\ old[r] = Unread
        BY <1>2, <2>1, <2>3 DEF AskRemote, CacheInv, AdvanceInv
      <3>2. /\ cached' = cached
            /\ aim' = [aim EXCEPT ![r] = NoRev] /\ old' = [old EXCEPT ![r] = Unread]
            /\ tries' = [tries EXCEPT ![r] = tries[r]] /\ tries[r] \in 0..(MaxTries - 1)
        BY <1>2, <2>1, <2>3, <3>1 DEF AskRemote, cacheVars
      <3>3. /\ reader' = [reader EXCEPT ![r] = Seen(Len(branch), FALSE)]
            /\ Seen(Len(branch), FALSE) \in Reader
        BY <1>1, <2>3 DEF AskRemote, Seen, Reader, Revs
      <3>4. /\ Seen(Len(branch), FALSE).at = "seen"
            /\ Seen(Len(branch), FALSE).seen \in 0..Len(branch)
        BY <1>1 DEF Seen
      <3> QED
        BY <1>0, <1>1, <2>1, <3>2, <3>3, <3>4, ReaderStep
    <2>4. ASSUME NEW rev \in Nat, Reading(r, rev), reader[r].at = "seen",
                 reader[r].seen <= rev, rev <= Len(branch)
          PROVE  CacheInv'
      <3>1. aim[r] = NoRev /\ old[r] = Unread
        BY <1>2, <2>1, <2>4 DEF CacheInv, AdvanceInv
      <3>2. /\ cached' = cached /\ aim' = [aim EXCEPT ![r] = rev]
            /\ old' = [old EXCEPT ![r] = Unread] /\ tries' = [tries EXCEPT ![r] = 0]
        BY <1>2, <2>1, <2>4, <3>1 DEF Reading, Aim
      <3> DEFINE rec == [at |-> "read", seen |-> reader[r].seen, rev |-> rev,
                         mended |-> reader[r].mended]
      <3>3. rec \in Reader /\ reader' = [reader EXCEPT ![r] = rec]
        BY <1>2, <2>4 DEF Reading, Reader, Revs
      <3>4. reader[r].seen \in 0..Len(branch)
        BY <1>1, <2>4 DEF CacheInv, AdvanceInv
      <3>5. /\ rec.at = "read" /\ rec.seen \in 0..Len(branch)
            /\ rec.rev \in rec.seen..Len(branch)
        BY <1>1, <2>4, <3>4
      <3> HIDE DEF rec
      <3> QED
        BY <1>1, <1>2, <2>1, <2>4, <3>2, <3>3, <3>5, ReaderStep DEF Revs
    <2>5. CASE ReadKnown(r) \/ ReadFetched(r)
      <3>1. reader[r].at = "seen" /\ reader[r].seen \in 0..Len(branch)
        BY <2>5 DEF ReadKnown, ReadFetched, CacheInv, AdvanceInv
      <3> QED
        BY <1>1, <2>4, <2>5, <3>1 DEF ReadKnown, ReadFetched
    <2>6. CASE ReadOffline(r) \/ ReadFails(r)
      <3>1. reader' = [reader EXCEPT ![r] = Idle] /\ Abandon(r)
        BY <2>6 DEF ReadOffline, ReadFails, Serve
      <3> QED
        BY <1>1, <1>2, <2>1, <2>2, <3>1, ReaderStep DEF Abandon, Returned, Idle, Revs
    <2>7. CASE ReadBreaks(r)
      <3>1. aim[r] = NoRev /\ old[r] = Unread
        BY <1>2, <2>1, <2>7 DEF ReadBreaks, CacheInv, AdvanceInv
      <3>2. /\ cached' \in {cached, NoRev}
            /\ aim' = [aim EXCEPT ![r] = NoRev] /\ old' = [old EXCEPT ![r] = Unread]
            /\ tries' = [tries EXCEPT ![r] = tries[r]] /\ tries[r] \in 0..(MaxTries - 1)
        BY <1>2, <2>1, <2>7, <3>1 DEF ReadBreaks, Rebuild
      <3>3. reader[r].seen \in 0..Len(branch)
        BY <2>7 DEF ReadBreaks, CacheInv, AdvanceInv
      <3>4. /\ reader' = [reader EXCEPT ![r] = Seen(reader[r].seen, TRUE)]
            /\ Seen(reader[r].seen, TRUE) \in Reader
        BY <1>1, <2>7, <3>3 DEF ReadBreaks, Seen, Reader, Revs
      <3>5. /\ Seen(reader[r].seen, TRUE).at = "seen"
            /\ Seen(reader[r].seen, TRUE).seen \in 0..Len(branch)
        BY <3>3 DEF Seen
      <3> QED
        BY <1>0, <1>1, <2>1, <3>2, <3>3, <3>4, <3>5, ReaderStep
    <2>8. CASE ReadDone(r)
      <3>1. aim[r] = NoRev /\ old[r] = Unread
        BY <1>2, <2>1, <2>8 DEF ReadDone, CacheInv, AdvanceInv
      <3>2. /\ cached' = cached
            /\ aim' = [aim EXCEPT ![r] = NoRev] /\ old' = [old EXCEPT ![r] = Unread]
            /\ tries' = [tries EXCEPT ![r] = tries[r]] /\ tries[r] \in 0..(MaxTries - 1)
        BY <1>2, <2>1, <2>8, <3>1 DEF ReadDone, cacheVars
      <3>3. reader' = [reader EXCEPT ![r] = Idle]
        BY <2>8 DEF ReadDone, Serve
      <3> QED
        BY <1>1, <1>2, <2>1, <2>2, <3>2, <3>3, ReaderStep DEF Idle, Revs
    <2> QED
      BY <1>12, <2>3, <2>5, <2>6, <2>7, <2>8 DEF ReadStep
  <1> QED
    BY <1>3, <1>8, <1>9, <1>10, <1>11, <1>12, <1>13 DEF ReadNext, TipStep, everyVar

THEOREM CacheInvHolds == ReadSpec => []CacheInv
  <1>1. ReadInit => CacheInv
    <2> SUFFICES ASSUME ReadInit PROVE CacheInv
      OBVIOUS
    <2>1. Len(branch) = 0
      BY DEF ReadInit, Init
    <2>2. Idle \in Reader /\ Idle.at = "idle" /\ 0 \in Revs /\ NoRev \in Revs
      BY DEF Idle, Reader, Revs
    <2>3. CacheTypeOK
      BY <2>2, ReadAssumption DEF ReadInit, CacheTypeOK
    <2>4. CacheIsAccepted
      BY <2>1 DEF ReadInit, CacheIsAccepted
    <2>5. FreshReads /\ AdvanceInv
      BY <2>2 DEF ReadInit, FreshReads, AdvanceInv, Clients
    <2> QED
      BY <2>3, <2>4, <2>5 DEF CacheInv
  <1>2. PushInv /\ TypeOK /\ TypeOK' /\ CacheInv /\ [ReadNext]_everyVar => CacheInv'
    BY CacheSteps
  <1> QED
    BY <1>1, <1>2, ReadsKeepPublication, PTL DEF ReadSpec

\* Neither the cache nor an advance under way names a commit that the remote
\* has not accepted.
THEOREM CacheIsAcceptedHolds == ReadSpec => []CacheIsAccepted
  <1>1. CacheInv => CacheIsAccepted
    BY DEF CacheInv
  <1> QED
    BY <1>1, CacheInvHolds, PTL

\* A read that reached the remote is no older than the tip it saw there.
THEOREM FreshReadsHold == ReadSpec => []FreshReads
  <1>1. CacheInv => FreshReads
    BY DEF CacheInv
  <1> QED
    BY <1>1, CacheInvHolds, PTL

\* However calls, reads and repairs race, a cached tip gives way to a later
\* one or to none.
THEOREM CacheMovesForwardHolds == ReadSpec => CacheMovesForward
  <1>1. ASSUME CacheInv, [ReadNext]_everyVar
        PROVE  [cached # NoRev /\ cached' # NoRev => cached <= cached']_everyVar
    <2> SUFFICES ASSUME cached # NoRev, cached' # NoRev PROVE cached <= cached'
      BY <1>1
    <2>1. cached \in Nat
      BY <1>1 DEF CacheInv, CacheTypeOK, Revs
    <2>2. CASE cached' = cached
      BY <2>1, <2>2
    <2>3. ASSUME NEW c \in Clients, Rebuild(c) PROVE cached' = cached
      BY <2>3 DEF Rebuild
    <2>4. ASSUME NEW c \in Clients, TipStep(c) PROVE cached <= cached'
      <3>1. CASE LookAtTip(c)
        BY <2>2, <3>1 DEF LookAtTip, Aim
      <3>2. CASE SwapTip(c)
        BY <1>1, <2>1, <3>2, ReadAssumption
          DEF SwapTip, GivesUp, CacheInv, AdvanceInv, CacheTypeOK, Revs
      <3> QED
        BY <2>4, <3>1, <3>2 DEF TipStep
    <2>5. ASSUME NEW o \in Ops, CallStep(o) \/ CallCrashes(o) \/ PushLands(o)
          PROVE  cached' = cached
      <3>1. CASE CallBreaks(o)
        BY <2>3, <3>1 DEF CallBreaks, Abandon, cacheVars, Clients
      <3>2. CASE CallCrashes(o) \/ PushLands(o)
        BY <3>2 DEF CallCrashes, PushLands, Abandon, cacheVars, readVars
      <3>3. CASE CallFetches(o) \/ CallPushes(o) \/ CallSettles(o) \/ CallGoesOn(o)
        BY <3>3 DEF CallFetches, CallPushes, CallSettles, CallGoesOn, CallAims, Aim,
                    cacheVars, readVars
      <3> QED
        BY <2>5, <3>1, <3>2, <3>3 DEF CallStep
    <2>6. ASSUME NEW r \in Readers, ReadStep(r) PROVE cached' = cached
      <3>1. CASE ReadBreaks(r)
        BY <2>3, <3>1 DEF ReadBreaks, Clients
      <3> QED
        BY <2>6, <3>1 DEF ReadStep, AskRemote, ReadKnown, ReadFetched, Reading, Aim,
                          ReadOffline, ReadFails, ReadDone, Abandon, cacheVars
    <2>7. CASE UNCHANGED everyVar \/ \E i \in Items : HoldEnds(i)
      BY <2>2, <2>7 DEF everyVar, readVars, cacheVars, HoldEnds
    <2> QED
      BY <1>1, <2>1, <2>2, <2>4, <2>5, <2>6, <2>7 DEF ReadNext
  <1>2. CacheInv /\ [ReadNext]_everyVar
          => [cached # NoRev /\ cached' # NoRev => cached <= cached']_everyVar
    BY <1>1
  <1> QED
    BY <1>2, CacheInvHolds, PTL DEF ReadSpec, CacheMovesForward

-----------------------------------------------------------------------------
\* A call that returns "applied" leaves its commit in the cache

\* The commit of o lies at or below rev.
Carried(o, rev) == \E n \in DOMAIN branch : branch[n] = o /\ n <= rev

\* A call under way has answered nothing, and what an applied call has yet to
\* cache carries its commit.
WriteInv ==
    /\ Unanswered
    /\ \A o \in Local : outcome[o] = "applied" /\ aim[o] # NoRev => Carried(o, aim[o])

\* What a step does to the answer of a call of this machine and to the advance
\* that goes with it.
LEMMA WriteStep ==
    ASSUME TypeOK, CacheInv, WriteInv, [ReadNext]_everyVar, NEW o \in Local
    PROVE  \/ outcome'[o] = outcome[o] /\ aim'[o] = aim[o]
           \/ outcome'[o] # "applied"
           \/ aim'[o] = Len(branch) /\ branch' = branch
           \/ /\ outcome'[o] = outcome[o] /\ aim[o] # NoRev /\ aim'[o] = NoRev
              /\ GivesUp(o) \/ (cached' # NoRev /\ aim[o] <= cached')
  <1> DEFINE Goal == \/ outcome'[o] = outcome[o] /\ aim'[o] = aim[o]
                     \/ outcome'[o] # "applied"
                     \/ aim'[o] = Len(branch) /\ branch' = branch
                     \/ /\ outcome'[o] = outcome[o] /\ aim[o] # NoRev /\ aim'[o] = NoRev
                        /\ GivesUp(o) \/ (cached' # NoRev /\ aim[o] <= cached')
  <1>1. /\ o \in Ops /\ o \in Clients /\ o \notin Readers
        /\ outcome \in [Ops -> Outcomes] /\ aim \in [Clients -> Revs]
        /\ pc \in [Ops -> {"fetch", "apply", "push", "confirm", "settle", "recheck", "done"}]
    BY ReadAssumption DEF TypeOK, CacheInv, CacheTypeOK, Clients
  <1>2. pc[o] # "done" => outcome[o] = "none"
    BY <1>1 DEF WriteInv, Unanswered
  <1>3. ASSUME NEW p \in Ops, CallStep(p) PROVE Goal
    <2> USE DEF remoteVars
    <2>1. ASSUME NEW result, Return(p, result)
          PROVE  outcome' = [outcome EXCEPT ![p] = result]
      BY <2>1 DEF Return
    <2>2. CASE p # o
      <3>1. outcome'[o] = outcome[o]
        <4>1. \/ \E result : Return(p, result)
              \/ outcome' = outcome
          BY <1>3 DEF CallStep, CallFetches, CallBreaks, CallPushes, CallSettles, CallGoesOn,
                      FetchFails, FindOwnCommit, Fetch, Refuse, StoreFails, Push,
                      PushSucceeds, PushConflicts, PushRejected, PushOffline,
                      PushTimesOut, Confirm, Reconcile, Proceed, Retry
        <4> QED
          BY <1>1, <2>1, <2>2, <4>1
      <3>2. aim'[o] = aim[o]
        BY <1>1, <1>3, <2>2 DEF CallStep, CallFetches, CallBreaks, CallPushes, CallSettles,
                   CallGoesOn, CallAims, Aim, Abandon, Returned, Rebuild, readVars, cacheVars
      <3> QED
        BY <3>1, <3>2
    <2>3. CASE p = o
      <3>1. pc[o] # "done" /\ branch' = branch
        BY <1>3, <2>3 DEF CallStep, CallFetches, CallBreaks, CallPushes, CallSettles, CallGoesOn,
                    FetchFails, FindOwnCommit, Fetch, Refuse, StoreFails, Push,
                    PushSucceeds, PushConflicts, PushRejected, PushOffline,
                    PushTimesOut, Confirm, Reconcile, FailureReported
      <3>2. outcome[o] = "none"
        BY <1>2, <3>1
      <3>3. CASE CallAims(o)
        BY <1>1, <3>1, <3>3 DEF CallAims, Aim
      <3>4. CASE CallBreaks(o) \/ CallPushes(o) \/ CallGoesOn(o)
        <4>1. \/ \E result \in {"conflict", "error", "offline", "noop"} : Return(o, result)
              \/ outcome' = outcome
          BY <3>4 DEF CallBreaks, CallPushes, CallGoesOn, FetchFails, Refuse, StoreFails,
                      Push, PushSucceeds, PushConflicts, PushRejected, PushOffline,
                      PushTimesOut, Proceed, Retry
        <4> QED
          BY <1>1, <2>1, <2>3, <3>2, <4>1
      <3>5. CASE Confirm(o) /\ pc'[o] = "settle"
        BY <1>1, <3>2, <3>5 DEF Confirm, Return, Proceed, Goto
      <3> QED
        BY <1>3, <2>3, <3>3, <3>4, <3>5 DEF CallStep, CallFetches, CallSettles
    <2> QED
      BY <2>2, <2>3
  <1>4. ASSUME NEW p \in Ops, CallCrashes(p) \/ PushLands(p) PROVE Goal
    <2>1. outcome' = outcome
      BY <1>4 DEF CallCrashes, PushLands, Crash, RemoteAccepts, callVars
    <2>2. CASE aim'[o] = aim[o]
      BY <2>1, <2>2
    <2>3. CASE aim'[o] # aim[o]
      <3>1. CallCrashes(p) /\ p = o
        BY <1>1, <1>4, <2>3 DEF CallCrashes, PushLands, Abandon, Returned, cacheVars, readVars
      <3> QED
        BY <1>2, <2>1, <3>1 DEF CallCrashes, Crash
    <2> QED
      BY <2>2, <2>3
  <1>5. ASSUME NEW c \in Clients, TipStep(c) PROVE Goal
    <2>1. outcome' = outcome
      BY <1>5 DEF TipStep, LookAtTip, SwapTip, vars, callVars
    <2>2. CASE aim'[o] = aim[o]
      BY <2>1, <2>2
    <2>3. CASE aim'[o] # aim[o]
      <3>1. CASE LookAtTip(c)
        BY <1>1, <2>1, <2>3, <3>1 DEF LookAtTip, Aim, Reached
      <3>2. CASE SwapTip(c)
        <4>1. /\ c = o /\ aim'[o] = NoRev /\ old[o] # Unread
              /\ cached' = aim[o] \/ GivesUp(o)
          BY <1>1, <2>3, <3>2 DEF SwapTip, Returned
        <4>2. aim[o] # NoRev /\ aim[o] \in Nat
          BY <1>1, <4>1 DEF CacheInv, AdvanceInv, Revs
        <4> QED
          BY <2>1, <4>1, <4>2
      <3> QED
        BY <1>5, <3>1, <3>2 DEF TipStep
    <2> QED
      BY <2>2, <2>3
  <1>6. ASSUME NEW r \in Readers, ReadStep(r) PROVE Goal
    <2>1. outcome' = outcome
      BY <1>6 DEF ReadStep, AskRemote, ReadKnown, ReadFetched, Reading, ReadOffline,
                  ReadFails, ReadBreaks, ReadDone, vars, callVars
    <2>2. aim'[o] = aim[o]
      BY <1>1, <1>6 DEF ReadStep, AskRemote, ReadKnown, ReadFetched, Reading, ReadOffline,
                        ReadFails, ReadBreaks, ReadDone, Aim, Abandon, Returned, Rebuild,
                        cacheVars
    <2> QED
      BY <2>1, <2>2
  <1>7. CASE UNCHANGED everyVar \/ \E i \in Items : HoldEnds(i)
    BY <1>7 DEF everyVar, vars, callVars, readVars, cacheVars, HoldEnds
  <1> QED
    BY <1>3, <1>4, <1>5, <1>6, <1>7 DEF ReadNext

\* What carries an operation still does after a step of the branch.
LEMMA CarriedOn ==
    ASSUME TypeOK, [Next]_vars, NEW o \in Ops, NEW rev \in Nat, Carried(o, rev)
    PROVE  Carried(o, rev)'
  <1>1. branch \in Seq(Ops)
    BY DEF TypeOK
  <1>2. CASE branch' = branch
    BY <1>2 DEF Carried
  <1>3. ASSUME NEW p \in Ops, RemoteAccepts(p) PROVE Carried(o, rev)'
    <2>1. branch' = Append(branch, p) /\ branch' \in Seq(Ops)
      BY <1>1, <1>3, AppendProperties DEF RemoteAccepts
    <2>2. \A n \in DOMAIN branch : n \in DOMAIN branch' /\ branch'[n] = branch[n]
      BY <1>1, <2>1, AppendProperties, LenProperties
    <2> QED
      BY <2>2 DEF Carried
  <1>4. ASSUME NEW p \in Ops, Step(p) \/ Crash(p) PROVE branch' = branch
    BY <1>4 DEF Step, Crash, FetchFails, FindOwnCommit, Fetch, Refuse, StoreFails, Push,
                PushSucceeds, PushConflicts, PushRejected, PushOffline, PushTimesOut,
                FailureReported, Confirm, Reconcile, remoteVars
  <1> QED
    BY <1>2, <1>3, <1>4 DEF Next, vars, remoteVars

\* Every step keeps the invariant.
LEMMA WriteKept ==
    ASSUME PushInv', TypeOK, CacheInv, CacheInv', WriteInv, [ReadNext]_everyVar
    PROVE  WriteInv'
  <1>1. Unanswered'
    BY ReadsPublish, AnswersAtEnd DEF WriteInv
  <1>2. ASSUME NEW o \in Local, outcome'[o] = "applied", aim'[o] # NoRev
        PROVE  Carried(o, aim[o])'
    <2>1. o \in Ops /\ o \in Clients /\ aim'[o] \in Nat
      BY <1>2, ReadAssumption DEF CacheInv, CacheTypeOK, Revs, Clients
    <2>2. CASE outcome'[o] = outcome[o] /\ aim'[o] = aim[o]
      <3>1. Carried(o, aim'[o])
        BY <1>2, <2>2 DEF WriteInv
      <3>2. branch \in Seq(Ops)
        BY DEF TypeOK
      <3>3. DEFINE rev == aim'[o]
      <3> HIDE DEF rev
      <3>4. rev \in Nat /\ Carried(o, rev)
        BY <2>1, <3>1 DEF rev
      <3>5. \E n \in DOMAIN branch' : branch'[n] = o /\ n <= rev
        BY <2>1, <3>4, ReadsPublish, CarriedOn DEF Carried
      <3> QED
        BY <3>5 DEF Carried, rev
    <2>3. CASE aim'[o] = Len(branch) /\ branch' = branch
      <3>1. Landed(o)' /\ branch' \in Seq(Ops)
        BY <1>2, <2>1 DEF PushInv, AppliedIsAccepted, TypeOK
      <3> QED
        BY <2>3, <3>1, LenProperties DEF Landed, Carried
    <2> QED
      BY <1>2, <2>2, <2>3, WriteStep
  <1> QED
    BY <1>1, <1>2 DEF WriteInv

THEOREM WriteInvHolds == ReadSpec => []WriteInv
  <1>1. ReadInit => WriteInv
    BY ReadAssumption DEF ReadInit, Init, WriteInv, Unanswered
  <1>2. PushInv' /\ TypeOK /\ CacheInv /\ CacheInv' /\ WriteInv /\ [ReadNext]_everyVar
          => WriteInv'
    BY WriteKept
  <1> QED
    BY <1>1, <1>2, ReadsKeepPublication, CacheInvHolds, PTL DEF ReadSpec

\* When a call of this machine is told "applied", the cached tip carries its
\* commit, or the last of the writes advance_tip may try has just failed.
THEOREM WritesCachedUnlessGivenUpHolds == ReadSpec => WritesCachedUnlessGivenUp
  <1> DEFINE A == \A o \in Local : ~Told(o) /\ Told(o)' =>
                    \/ \E n \in DOMAIN branch : branch[n] = o /\ cached' # NoRev /\ n <= cached'
                    \/ GivesUp(o)
  <1>1. ASSUME PushInv, PushInv', TypeOK, CacheInv, CacheInv', WriteInv, [ReadNext]_everyVar
        PROVE  A
    <2> SUFFICES ASSUME NEW o \in Local, ~Told(o), Told(o)', ~GivesUp(o)
                 PROVE  \E n \in DOMAIN branch : branch[n] = o /\ cached' # NoRev /\ n <= cached'
      OBVIOUS
    <2>1. o \in Ops /\ o \in Clients /\ aim[o] \in Revs /\ Len(branch) \in Nat
      BY <1>1, ReadAssumption, LenProperties DEF CacheInv, CacheTypeOK, TypeOK, Clients
    <2>2. outcome'[o] = "applied" /\ aim'[o] = NoRev
      BY DEF Told
    <2>3. aim'[o] # Len(branch) /\ ~(outcome'[o] = outcome[o] /\ aim'[o] = aim[o])
      BY <2>1, <2>2, ReadAssumption DEF Told
    <2>4. /\ outcome[o] = "applied" /\ aim[o] # NoRev /\ aim[o] \in Nat
          /\ cached' # NoRev /\ aim[o] <= cached'
      BY <1>1, <2>1, <2>2, <2>3, WriteStep DEF Revs
    <2>5. PICK n \in DOMAIN branch : branch[n] = o /\ n <= aim[o]
      BY <1>1, <2>4 DEF WriteInv, Carried
    <2>6. n \in Nat /\ cached' \in Nat
      BY <1>1, <2>4, <2>5, LenProperties DEF TypeOK, CacheInv, CacheTypeOK, Revs
    <2> QED
      BY <2>4, <2>5, <2>6
  <1>2. PushInv /\ PushInv' /\ TypeOK /\ CacheInv /\ CacheInv' /\ WriteInv
          /\ [ReadNext]_everyVar => [A]_everyVar
    BY <1>1
  <1> QED
    BY <1>2, ReadsKeepPublication, CacheInvHolds, WriteInvHolds, PTL
       DEF ReadSpec, WritesCachedUnlessGivenUp

-----------------------------------------------------------------------------
\* A listing shows every row

\* What a page, with those before it, does not show of the first one's rows lies
\* behind its cursor.
Whole(p) ==
    /\ p.rev \in 0..Len(branch)
    /\ \A i \in p.due \ p.served :
          \E k \in DOMAIN Rows(p.rev) : p.next < k /\ Rows(p.rev)[k] = i
    /\ ~p.more => p.due \subseteq p.served

PageInv ==
    /\ page \in [Readers -> Page]
    /\ held \in SUBSET Held
    /\ \A r \in Readers : page[r] = NoPage \/ Whole(page[r])

LEMMA RowsAreRows ==
    ASSUME NEW rev
    PROVE  /\ Rows(rev) \in Seq(Items) /\ Len(Rows(rev)) \in Nat
           /\ DOMAIN Rows(rev) = 1..Len(Rows(rev))
  <1>1. Ready(rev) \in SUBSET Items
    BY DEF Ready
  <1> QED
    BY <1>1, ReadAssumption, LenProperties DEF Rows

\* What was accepted up to a revision stays as it is.
LEMMA OpenStays ==
    ASSUME TypeOK, [Next]_vars, NEW rev \in 0..Len(branch)
    PROVE  /\ {branch'[n] : n \in 1..rev} = {branch[n] : n \in 1..rev}
           /\ rev \in 0..Len(branch')
  <1>1. branch \in Seq(Ops) /\ Len(branch) \in Nat
    BY LenProperties DEF TypeOK
  <1>2. CASE branch' = branch
    BY <1>2
  <1>3. ASSUME NEW p \in Ops, RemoteAccepts(p)
        PROVE  /\ {branch'[n] : n \in 1..rev} = {branch[n] : n \in 1..rev}
               /\ rev \in 0..Len(branch')
    <2>1. branch' = Append(branch, p)
      BY <1>3 DEF RemoteAccepts
    <2>2. Len(branch') = Len(branch) + 1 /\ \A n \in 1..Len(branch) : branch'[n] = branch[n]
      BY <1>1, <2>1, AppendProperties
    <2>3. \A n \in 1..rev : branch'[n] = branch[n]
      BY <1>1, <2>2
    <2> QED
      BY <1>1, <2>2, <2>3
  <1>4. ASSUME NEW p \in Ops, Step(p) \/ Crash(p) PROVE branch' = branch
    BY <1>4 DEF Step, Crash, FetchFails, FindOwnCommit, Fetch, Refuse, StoreFails, Push,
                PushSucceeds, PushConflicts, PushRejected, PushOffline, PushTimesOut,
                FailureReported, Confirm, Reconcile, remoteVars
  <1> QED
    BY <1>2, <1>3, <1>4 DEF Next, vars, remoteVars

\* Holds only end.
LEMMA HoldsEnd ==
    ASSUME held \in SUBSET Held, [ReadNext]_everyVar
    PROVE  held' \in SUBSET held
  <1>1. ASSUME NEW o \in Ops, CallStep(o) \/ CallCrashes(o) \/ PushLands(o) PROVE held' = held
    BY <1>1 DEF CallStep, CallFetches, CallBreaks, CallPushes, CallSettles, CallGoesOn,
                CallCrashes, PushLands, readVars
  <1>2. ASSUME NEW c \in Clients, TipStep(c) PROVE held' = held
    BY <1>2 DEF TipStep, LookAtTip, SwapTip
  <1>3. ASSUME NEW r \in Readers, ReadStep(r) PROVE held' = held
    BY <1>3 DEF ReadStep, AskRemote, ReadKnown, ReadFetched, Reading, ReadOffline,
                ReadFails, ReadBreaks, ReadDone
  <1>4. ASSUME NEW i \in Items, HoldEnds(i) PROVE held' \in SUBSET held
    BY <1>4 DEF HoldEnds
  <1> QED
    BY <1>1, <1>2, <1>3, <1>4 DEF ReadNext, everyVar, readVars

\* Time moves the rows of a revision back, never forward.
LEMMA RowsMoveBack ==
    ASSUME TypeOK, [Next]_vars, held' \in SUBSET held, NEW rev \in 0..Len(branch),
           NEW j \in DOMAIN Rows(rev)
    PROVE  \E k \in DOMAIN Rows(rev)' : j <= k /\ Rows(rev)'[k] = Rows(rev)[j]
  <1> DEFINE S == Ready(rev)
             T == Items \ ({branch'[n] : n \in 1..rev} \cup held')
  <1>1. S \in SUBSET Items /\ T \in SUBSET Items /\ S \subseteq T
    BY OpenStays DEF Ready
  <1>2. Rows(rev) = Listing[S] /\ Rows(rev)' = Listing[T]
    BY DEF Rows, Ready
  <1> HIDE DEF S, T
  <1> QED
    BY <1>1, <1>2, OrderAssumption

\* Without a commit or the end of a hold a page stays as good as it was.
LEMMA WholeStays ==
    ASSUME UNCHANGED <<branch, held>>, NEW p, Whole(p)
    PROVE  Whole(p)'
  BY DEF Whole, Rows, Ready

\* A page made at an offset continues what is due from there on.
LEMMA PageMade ==
    ASSUME PageInv, UNCHANGED <<branch, held>>, NEW r \in Readers, NEW rev \in 0..Len(branch),
           NEW offset \in Nat, NEW due \in SUBSET Items, NEW served \in SUBSET Items,
           \A i \in due \ served : \E k \in DOMAIN Rows(rev) : offset < k /\ Rows(rev)[k] = i,
           PageAt(r, rev, offset, due, served)
    PROVE  PageInv'
  <1> DEFINE rows == Rows(rev)
  <1>1. rows \in Seq(Items) /\ Len(rows) \in Nat /\ DOMAIN rows = 1..Len(rows)
    BY RowsAreRows
  <1>2. \A k \in 1..Len(rows) : rows[k] \in Items
    BY <1>1, ElementOfSeq
  <1>3. PICK n \in 0..Limit :
           /\ offset + n <= Len(rows)
           /\ page' = [page EXCEPT ![r] =
                  [rev |-> rev, next |-> offset + n, more |-> offset + n < Len(rows), due |-> due,
                   served |-> served \cup {rows[k] : k \in (offset + 1)..(offset + n)}]]
    BY DEF PageAt, Cursor
  <1>4. \A i \in due \ served : \E k \in DOMAIN rows : offset < k /\ rows[k] = i
    OBVIOUS
  <1> HIDE DEF rows
  <1> DEFINE shown == served \cup {rows[k] : k \in (offset + 1)..(offset + n)}
             p == [rev |-> rev, next |-> offset + n, more |-> offset + n < Len(rows),
                   due |-> due, served |-> shown]
  <1>5. n \in Nat /\ offset + n \in Nat
    BY <1>3, ReadAssumption
  <1>6. shown \in SUBSET Items
    BY <1>1, <1>2, <1>3, <1>5
  <1>7. \A i \in due \ shown : \E k \in DOMAIN rows : offset + n < k /\ rows[k] = i
    <2> SUFFICES ASSUME NEW i \in due \ shown
                 PROVE  \E k \in DOMAIN rows : offset + n < k /\ rows[k] = i
      OBVIOUS
    <2>1. PICK k \in DOMAIN rows : offset < k /\ rows[k] = i
      BY <1>4
    <2>2. k \notin (offset + 1)..(offset + n)
      BY <2>1
    <2> QED
      BY <1>1, <1>5, <2>1, <2>2
  <1> HIDE DEF shown
  <1>8. /\ p.rev = rev /\ p.next = offset + n /\ p.more = (offset + n < Len(rows))
        /\ p.due = due /\ p.served = shown
    OBVIOUS
  <1>9. page' = [page EXCEPT ![r] = p]
    BY <1>3 DEF shown
  <1>10. p \in Page
    BY <1>5, <1>6 DEF Page, Revs
  <1> HIDE DEF p
  <1>11. Whole(p)
    <2>1. ASSUME ~p.more, NEW i \in p.due, i \notin p.served PROVE FALSE
      <3>1. ~(offset + n < Len(rows))
        BY <1>8, <2>1
      <3>2. i \in due \ shown
        BY <1>8, <2>1
      <3>3. PICK k \in 1..Len(rows) : offset + n < k
        BY <1>1, <1>7, <3>2
      <3> QED
        BY <1>1, <1>5, <3>1, <3>3
    <2> QED
      BY <1>7, <1>8, <2>1 DEF Whole, rows
  <1>12. \A q : Whole(q) => Whole(q)'
    BY WholeStays
  <1> QED
    BY <1>9, <1>10, <1>11, <1>12 DEF PageInv

\* Whatever page is made at an accepted revision keeps the invariant.
LEMMA ServeStep ==
    ASSUME PageInv, UNCHANGED <<branch, held>>, NEW r \in Readers, NEW rev \in 0..Len(branch),
           Serve(r, rev)
    PROVE  PageInv'
  <1>1. /\ Rows(rev) \in Seq(Items) /\ Len(Rows(rev)) \in Nat
        /\ DOMAIN Rows(rev) = 1..Len(Rows(rev))
    BY RowsAreRows
  <1>2. CASE PageAt(r, rev, 0, {Rows(rev)[k] : k \in 1..Len(Rows(rev))}, {})
    <2> DEFINE due == {Rows(rev)[k] : k \in 1..Len(Rows(rev))}
    <2>1. due \in SUBSET Items
      BY <1>1, ElementOfSeq
    <2>2. \A i \in due \ {} : \E k \in DOMAIN Rows(rev) : 0 < k /\ Rows(rev)[k] = i
      BY <1>1
    <2>3. PageAt(r, rev, 0, due, {})
      BY <1>2
    <2> HIDE DEF due
    <2> QED
      BY <2>1, <2>2, <2>3, PageMade
  <1>3. CASE Continues(r, rev) /\ PageAt(r, rev, page[r].next, page[r].due, page[r].served)
    <2>1. page[r] # NoPage /\ page[r].rev = rev
      BY <1>3 DEF Continues, NoPage
    <2>2. Whole(page[r]) /\ page[r] \in Page
      BY <2>1 DEF PageInv
    <2> DEFINE offset == page[r].next
               due == page[r].due
               served == page[r].served
    <2>3. offset \in Nat /\ due \in SUBSET Items /\ served \in SUBSET Items
      BY <2>2 DEF Page
    <2>4. \A i \in due \ served : \E k \in DOMAIN Rows(rev) : offset < k /\ Rows(rev)[k] = i
      BY <2>1, <2>2 DEF Whole
    <2>5. PageAt(r, rev, offset, due, served)
      BY <1>3
    <2> HIDE DEF offset, due, served
    <2> QED
      BY <2>3, <2>4, <2>5, PageMade
  <1>4. CASE page' = [page EXCEPT ![r] = NoPage]
    <2>1. NoPage \in Page
      BY DEF NoPage, Page, Revs
    <2>2. \A q : Whole(q) => Whole(q)'
      BY WholeStays
    <2> QED
      BY <1>4, <2>1, <2>2 DEF PageInv
  <1> QED
    BY <1>2, <1>3, <1>4 DEF Serve

\* Every step keeps the invariant.
LEMMA PageSteps ==
    ASSUME TypeOK, CacheInv, PageInv, [ReadNext]_everyVar
    PROVE  PageInv'
  <1>1. Len(branch) \in Nat /\ cached \in Revs
    BY LenProperties DEF TypeOK, CacheInv, CacheTypeOK
  <1>2. CASE page' = page
    <2>1. ASSUME NEW p \in Page, Whole(p) PROVE Whole(p)'
      <3>1. p.rev \in 0..Len(branch) /\ p.next \in Nat
        BY <2>1 DEF Whole, Page
      <3>2. [Next]_vars /\ held' \in SUBSET held
        BY ReadsPublish, HoldsEnd DEF PageInv
      <3>3. p.rev \in 0..Len(branch')
        BY <3>1, <3>2, OpenStays
      <3>4. ASSUME NEW i \in p.due \ p.served
            PROVE  \E k \in DOMAIN Rows(p.rev)' : p.next < k /\ Rows(p.rev)'[k] = i
        <4>1. PICK j \in DOMAIN Rows(p.rev) : p.next < j /\ Rows(p.rev)[j] = i
          BY <2>1 DEF Whole
        <4>2. PICK k \in DOMAIN Rows(p.rev)' : j <= k /\ Rows(p.rev)'[k] = Rows(p.rev)[j]
          BY <3>1, <3>2, RowsMoveBack
        <4>3. j \in Nat /\ k \in Nat
          <5>1. DOMAIN Rows(p.rev) \subseteq Nat /\ DOMAIN Rows(p.rev)' \subseteq Nat
            <6>1. \A S \in SUBSET Items : DOMAIN Listing[S] \subseteq Nat
              BY ReadAssumption, LenProperties
            <6>2. /\ Items \ ({branch[n] : n \in 1..p.rev} \cup held) \in SUBSET Items
                  /\ Items \ ({branch'[n] : n \in 1..p.rev} \cup held') \in SUBSET Items
              OBVIOUS
            <6> QED
              BY <6>1, <6>2 DEF Rows, Ready
          <5> QED
            BY <5>1
        <4> QED
          BY <3>1, <4>1, <4>2, <4>3
      <3> QED
        BY <2>1, <3>3, <3>4 DEF Whole
    <2>2. held' \in SUBSET Held
      BY HoldsEnd DEF PageInv
    <2> QED
      BY <1>2, <2>1, <2>2 DEF PageInv
  <1>3. ASSUME NEW r \in Readers, ReadOffline(r) \/ ReadDone(r) PROVE PageInv'
    <2>1. UNCHANGED <<branch, held>>
      BY <1>3 DEF ReadOffline, ReadDone, vars, remoteVars
    <2>2. CASE ReadOffline(r)
      <3>1. PICK rev \in {cached, Legacy} \ {NoRev} : Serve(r, rev)
        BY <2>2 DEF ReadOffline
      <3>2. rev \in 0..Len(branch)
        BY <1>1, <3>1, ReadAssumption DEF CacheInv, CacheIsAccepted, Revs
      <3> QED
        BY <2>1, <3>1, <3>2, ServeStep
    <2>3. CASE ReadDone(r)
      <3>1. reader[r].seen \in 0..Len(branch)
        BY <2>3 DEF ReadDone, CacheInv, AdvanceInv
      <3>2. reader[r].rev \in reader[r].seen..Len(branch)
        BY <2>3 DEF ReadDone, CacheInv, FreshReads
      <3>3. reader[r].rev \in 0..Len(branch)
        BY <1>1, <3>1, <3>2
      <3> QED
        BY <2>1, <2>3, <3>3, ServeStep DEF ReadDone
    <2> QED
      BY <1>3, <2>2, <2>3
  <1>4. ASSUME NEW r \in Readers, ReadStep(r), ~ReadOffline(r), ~ReadDone(r), page' # page
        PROVE  FALSE
    BY <1>4 DEF ReadStep, AskRemote, ReadKnown, ReadFetched, Reading, ReadFails, ReadBreaks
  <1>5. ASSUME NEW o \in Ops, CallStep(o) \/ CallCrashes(o) \/ PushLands(o) PROVE page' = page
    BY <1>5 DEF CallStep, CallFetches, CallBreaks, CallPushes, CallSettles, CallGoesOn,
                CallCrashes, PushLands, readVars
  <1>6. ASSUME NEW c \in Clients, TipStep(c) PROVE page' = page
    BY <1>6 DEF TipStep, LookAtTip, SwapTip
  <1>7. ASSUME NEW i \in Items, HoldEnds(i) PROVE page' = page
    BY <1>7 DEF HoldEnds
  <1> QED
    BY <1>2, <1>3, <1>4, <1>5, <1>6, <1>7 DEF ReadNext, everyVar, readVars

THEOREM PageInvHolds == ReadSpec => []PageInv
  <1>1. ReadInit => PageInv
    BY DEF ReadInit, PageInv, NoPage, Page, Revs
  <1>2. TypeOK /\ CacheInv /\ PageInv /\ [ReadNext]_everyVar => PageInv'
    BY PageSteps
  <1> QED
    BY <1>1, <1>2, ReadsKeepPublication, CacheInvHolds, PTL DEF ReadSpec

\* However the rows are sorted and filtered, whatever is accepted and whatever
\* holds end between two pages, and wherever the pages are cut: a listing read to
\* its end has shown every row it had when it was begun.
THEOREM NothingMissedHolds == ReadSpec => []NothingMissed
  <1>1. PageInv => NothingMissed
    BY DEF NothingMissed, PageInv, Whole, NoPage
  <1> QED
    BY <1>1, PageInvHolds, PTL

\* Every variable keeps its type.
THEOREM ReadTypes == ReadSpec => []ReadTypeOK
  <1>1. TypeOK /\ CacheInv /\ PageInv => ReadTypeOK
    BY DEF CacheInv, PageInv, ReadTypeOK
  <1> QED
    BY <1>1, ReadsKeepPublication, CacheInvHolds, PageInvHolds, PTL

=============================================================================
