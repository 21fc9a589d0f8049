---------------------------- MODULE TrackerSafety ----------------------------
(***************************************************************************)
(* The safety of claims, closed items and deferral rows, for every value   *)
(* of the constants.  Everything rests on one inductive invariant about    *)
(* claims: a stored claim belongs to an active item and is known to at     *)
(* most one process image, which runs as its worker.                       *)
(***************************************************************************)
EXTENDS TrackerTypes, FiniteSetTheorems

\* ClaimedActive is what lets an item be closed only by the holder of its
\* claim: without it an expired claim on a closed item could be adopted.
ClaimedActive == \A i \in Items : claim[i] # None => status[i] = "active"

HoldersFit ==
    \A i \in Items :
        /\ \A p, q \in holders[i] : p = q
        /\ \A p \in holders[i] : claim[i] # None /\ claim[i].worker = Actor[p]

ClaimInv == TypeInv /\ ClaimedActive /\ HoldersFit

-----------------------------------------------------------------------------
\* What one step does to the claim on an item: drop it, grant it afresh, or
\* leave its worker alone.

Dropped(i) ==
    /\ claim'[i] = None
    /\ holders'[i] = {}

Granted(i) ==
    \E p \in Procs :
        /\ claim'[i] = [worker |-> Actor[p], left |-> TTL]
        /\ holders'[i] \in {{p}, {}}
        /\ status'[i] = "active"

Kept(i) ==
    /\ claim'[i] = None <=> claim[i] = None
    /\ claim[i] # None => claim'[i].worker = claim[i].worker /\ status'[i] = status[i]
    /\ holders'[i] \subseteq holders[i]

ClaimMoves(i) == Dropped(i) \/ Granted(i) \/ Kept(i)

\* Steps that leave the claims alone leave the status of claimed items alone
\* and close nothing: creation, edits, deferral rows and the bookkeeping of
\* batches.
LEMMA QuietSteps ==
    ASSUME ClaimInv,
           \/ \E i \in Items : Create(i) \/ Update(i)
           \/ DeferralNext
           \/ \E p \in Procs, b \in Batches, g \in OwnerGens :
                 \/ \E M \in MemberSets : RegisterBatch(p, b, M, g)
                 \/ \E files \in SUBSET Paths : AdvanceFix(p, b, g, files)
                 \/ AdvanceMerge(p, b, g)
                 \/ BindPR(p, b, g)
                 \/ RebindPR(p, b, g)
                 \/ \E new \in OwnerGens : RecoverOwner(p, b, g, new)
    PROVE  /\ claim' = claim /\ holders' = holders
           /\ \A i \in Items : claim[i] # None => status'[i] = status[i]
           /\ \A i \in Items : status'[i] \in Terminal <=> status[i] \in Terminal
  <1> USE DEF ClaimInv, ClaimedActive, Terminal
  <1>1. status \in [Items -> Statuses \cup {"absent"}]
    BY DEF TypeInv, TypeOK
  <1>2. ASSUME NEW j \in Items, NEW nd, NEW h, NEW mt, CreateItem(j, nd, h, mt)
        PROVE  /\ \A i \in Items : claim[i] # None => status'[i] = status[i]
               /\ \A i \in Items : status'[i] \in Terminal <=> status[i] \in Terminal
    BY <1>1, <1>2 DEF CreateItem, Present
  <1>3. CASE \E i \in Items : Create(i)
    BY <1>2, <1>3 DEF Create
  <1>4. CASE \E i \in Items : Update(i)
    <2>1. PICK j \in Items : Update(j)
      BY <1>4
    <2>2. CASE UpdateStatus(j)
      BY <1>1, <2>2 DEF UpdateStatus
    <2>3. CASE UpdateContent(j) \/ UpdateNeeds(j) \/ UpdateHold(j) \/ UpdateBatch(j)
      BY <2>3 DEF UpdateContent, UpdateNeeds, UpdateHold, UpdateBatch, itemVars
    <2> QED
      BY <2>1, <2>2, <2>3 DEF Update
  <1>5. CASE DeferralNext
    <2>1. CASE \E i \in Items : Defer(i)
      BY <2>1 DEF Defer
    <2>2. CASE \E i \in Items : \E n \in DOMAIN deferrals[i] : \E j \in Items : PromoteLink(i, n, j)
      BY <2>2 DEF PromoteLink
    <2>3. CASE \E i \in Items : \E n \in DOMAIN deferrals[i] : \E j \in Items : PromoteCreate(i, n, j)
      BY <1>2, <2>3 DEF PromoteCreate
    <2>4. CASE \E i \in Items : \E n \in DOMAIN deferrals[i] : Dismiss(i, n)
      BY <2>4 DEF Dismiss
    <2> QED
      BY <1>5, <2>1, <2>2, <2>3, <2>4 DEF DeferralNext
  <1>6. CASE \E p \in Procs, b \in Batches, g \in OwnerGens :
                \/ \E M \in MemberSets : RegisterBatch(p, b, M, g)
                \/ \E files \in SUBSET Paths : AdvanceFix(p, b, g, files)
                \/ AdvanceMerge(p, b, g)
                \/ BindPR(p, b, g)
                \/ RebindPR(p, b, g)
                \/ \E new \in OwnerGens : RecoverOwner(p, b, g, new)
    <2>1. PICK p \in Procs, b \in Batches, g \in OwnerGens :
                \/ \E M \in MemberSets : RegisterBatch(p, b, M, g)
                \/ \E files \in SUBSET Paths : AdvanceFix(p, b, g, files)
                \/ AdvanceMerge(p, b, g)
                \/ BindPR(p, b, g)
                \/ RebindPR(p, b, g)
                \/ \E new \in OwnerGens : RecoverOwner(p, b, g, new)
      BY <1>6
    <2>2. UNCHANGED itemVars
      BY <2>1, Zenon DEF RegisterBatch, AdvanceFix, AdvanceMerge, BindPR, RebindPR, RecoverOwner
    <2> QED
      BY <2>2 DEF itemVars
  <1> QED
    BY <1>3, <1>4, <1>5, <1>6

\* Release, the two ways to finish, drop and prepare give up the claim of one
\* item and leave the others alone.
LEMMA GivingUp ==
    ASSUME ClaimInv, NEW p \in Procs, NEW i \in Items,
           \/ Release(p, i) \/ FinishPlain(p, i) \/ FinishMember(p, i)
           \/ Drop(p, i) \/ Prepare(p, i)
    PROVE  /\ claim' = [claim EXCEPT ![i] = None]
           /\ holders' = [holders EXCEPT ![i] = {}]
           /\ \A j \in Items \ {i} : status'[j] = status[j]
  <1>1. status \in [Items -> Statuses \cup {"absent"}]
    BY DEF ClaimInv, TypeInv, TypeOK
  <1>2. CASE Release(p, i)
    BY <1>1, <1>2 DEF Release, DropClaim
  <1>3. CASE FinishPlain(p, i)
    BY <1>1, <1>3 DEF FinishPlain, DropClaim
  <1>4. CASE FinishMember(p, i)
    BY <1>1, <1>4 DEF FinishMember, DropClaim
  <1>5. CASE Drop(p, i)
    BY <1>1, <1>5 DEF Drop, DropClaim
  <1>6. CASE Prepare(p, i)
    BY <1>1, <1>6 DEF Prepare, PrepareAt, DropClaim
  <1> QED
    BY <1>2, <1>3, <1>4, <1>5, <1>6

\* Every step of the tracker moves each claim in one of the three ways.
LEMMA ClaimSteps ==
    ASSUME ClaimInv, [Next]_vars, NEW i \in Items
    PROVE  ClaimMoves(i)
  <1> USE DEF ClaimMoves
  <1>1. /\ claim \in [Items -> Claim \cup {None}]
        /\ holders \in [Items -> SUBSET Procs]
        /\ status \in [Items -> Statuses \cup {"absent"}]
    BY DEF ClaimInv, TypeInv, TypeOK
  <1>2. ASSUME claim' = claim, holders' = holders, claim[i] # None => status'[i] = status[i]
        PROVE  Kept(i)
    BY <1>2 DEF Kept
  <1>3. CASE UNCHANGED vars
    BY <1>2, <1>3 DEF vars, itemVars
  <1>4. CASE DeferralNext
    BY <1>2, <1>4, QuietSteps
  <1>5. CASE ItemNext
    <2>1. CASE \E j \in Items : Create(j) \/ Update(j)
      BY <1>2, <2>1, QuietSteps
    <2>2. ASSUME NEW p \in Procs, NEW j \in Items, Take(p, j) \/ Takeover(p, j)
          PROVE  ClaimMoves(i)
      <3>1. GrantClaim(p, j)
        BY <2>2 DEF Take, Takeover
      <3>2. CASE i = j
        BY <1>1, <3>1, <3>2 DEF GrantClaim, Granted
      <3>3. CASE i # j
        BY <1>1, <3>1, <3>3 DEF GrantClaim, Kept
      <3> QED
        BY <3>2, <3>3
    <2>3. ASSUME NEW p \in Procs, NEW j \in Items, Renew(p, j)
          PROVE  Kept(i)
      <3>1. claim[j] \in Claim /\ claim' = [claim EXCEPT ![j] = [claim[j] EXCEPT !.left = TTL]]
        BY <1>1, <2>3 DEF Renew, HoldsClaim
      <3>2. [claim[j] EXCEPT !.left = TTL] \in Claim
        BY <3>1, TimeAssumption DEF Claim
      <3>3. [claim[j] EXCEPT !.left = TTL].worker = claim[j].worker
        BY <3>1 DEF Claim
      <3> QED
        BY <1>1, <2>3, <3>1, <3>2, <3>3, NoneAssumption DEF Renew, Kept
    <2>4. ASSUME NEW p \in Procs, NEW j \in Items,
                 Release(p, j) \/ FinishPlain(p, j) \/ FinishMember(p, j) \/ Drop(p, j)
          PROVE  ClaimMoves(i)
      <3>1. CASE i = j
        BY <1>1, <2>4, <3>1, GivingUp DEF Dropped
      <3>2. CASE i # j
        BY <1>1, <2>4, <3>2, GivingUp DEF Kept
      <3> QED
        BY <3>1, <3>2
    <2>5. ASSUME NEW p \in Procs, Restart(p)
          PROVE  Kept(i)
      BY <1>1, <2>5 DEF Restart, Kept
    <2>6. CASE Tick
      <3>1. CASE ClaimLive(i)
        <4>1. claim[i] \in Claim /\ claim'[i] = [claim[i] EXCEPT !.left = @ - 1]
          BY <1>1, <2>6, <3>1 DEF Tick, ClaimLive
        <4>2. claim'[i] \in Claim /\ claim'[i].worker = claim[i].worker
          BY <3>1, <4>1, TimeAssumption DEF Claim, ClaimLive
        <4> QED
          BY <2>6, <4>1, <4>2, NoneAssumption DEF Tick, Kept
      <3>2. CASE ~ClaimLive(i)
        BY <1>1, <2>6, <3>2 DEF Tick, Kept
      <3> QED
        BY <3>1, <3>2
    <2> QED
      BY <1>5, <2>1, <2>2, <2>3, <2>4, <2>5, <2>6 DEF ItemNext
  <1>6. CASE BatchNext
    <2>1. ASSUME NEW p \in Procs, NEW j \in Items, Prepare(p, j)
          PROVE  ClaimMoves(i)
      <3>1. CASE i = j
        BY <1>1, <2>1, <3>1, GivingUp DEF Dropped
      <3>2. CASE i # j
        BY <1>1, <2>1, <3>2, GivingUp DEF Kept
      <3> QED
        BY <3>1, <3>2
    <2>2. ASSUME NEW p \in Procs, NEW b \in Batches, NEW g \in OwnerGens, AbortBatch(p, b, g)
          PROVE  ClaimMoves(i)
      <3>1. CASE i \in batches[b].members
        BY <1>1, <2>2, <3>1 DEF AbortBatch, Dropped
      <3>2. CASE i \notin batches[b].members
        BY <1>1, <2>2, <3>2 DEF AbortBatch, Kept
      <3> QED
        BY <3>1, <3>2
    <2>3. CASE \E p \in Procs, b \in Batches, g \in OwnerGens :
                  \/ \E M \in MemberSets : RegisterBatch(p, b, M, g)
                  \/ \E files \in SUBSET Paths : AdvanceFix(p, b, g, files)
                  \/ AdvanceMerge(p, b, g)
                  \/ BindPR(p, b, g)
                  \/ RebindPR(p, b, g)
                  \/ \E new \in OwnerGens : RecoverOwner(p, b, g, new)
      BY <1>2, <2>3, QuietSteps
    <2> QED
      BY <1>6, <2>1, <2>2, <2>3 DEF BatchNext
  <1> QED
    BY <1>3, <1>4, <1>5, <1>6 DEF Next

-----------------------------------------------------------------------------
\* The invariant about claims.

\* No step and no initial state breaks the invariant.
THEOREM ClaimsHold == Spec => []ClaimInv
  <1>1. Init => ClaimInv
    BY InitTypes DEF Init, ClaimInv, ClaimedActive, HoldersFit
  <1>2. ClaimInv /\ TypeInv' /\ [Next]_vars => ClaimInv'
    <2> SUFFICES ASSUME ClaimInv, TypeInv', [Next]_vars PROVE ClaimInv'
      OBVIOUS
    <2>1. ASSUME NEW i \in Items, claim'[i] # None PROVE status'[i] = "active"
      BY <2>1, ClaimSteps DEF ClaimMoves, Dropped, Granted, Kept, ClaimInv, ClaimedActive
    <2>2. ASSUME NEW i \in Items
          PROVE  /\ \A p, q \in holders'[i] : p = q
                 /\ \A p \in holders'[i] : claim'[i] # None /\ claim'[i].worker = Actor[p]
      <3>1. CASE Dropped(i)
        BY <3>1 DEF Dropped
      <3>2. CASE Granted(i)
        <4>1. PICK p \in Procs : /\ claim'[i] = [worker |-> Actor[p], left |-> TTL]
                                 /\ holders'[i] \in {{p}, {}}
          BY <3>2 DEF Granted
        <4>2. claim'[i] # None
          <5>1. claim'[i] \in Claim
            BY <4>1, ActorAssumption, TimeAssumption DEF Claim
          <5> QED
            BY <5>1, NoneAssumption
        <4> QED
          BY <4>1, <4>2
      <3>3. CASE Kept(i)
        BY <3>3 DEF Kept, ClaimInv, HoldersFit
      <3> QED
        BY <3>1, <3>2, <3>3, ClaimSteps DEF ClaimMoves
    <2> QED
      BY <2>1, <2>2 DEF ClaimInv, ClaimedActive, HoldersFit
  <1> QED
    BY <1>1, <1>2, TypesHold, PTL DEF Spec

\* At most one process image can act on a claim: re-adoption after a restart,
\* takeover, expiry and abort leave no second credential behind.
THEOREM SoleHolderHolds == Spec => []SoleHolder
  <1>1. ClaimInv => SoleHolder
    <2> SUFFICES ASSUME ClaimInv, NEW i \in Items PROVE Cardinality(holders[i]) <= 1
      BY DEF ClaimInv, HoldersFit, SoleHolder
    <2>1. CASE holders[i] = {}
      BY <2>1, FS_EmptySet
    <2>2. CASE holders[i] # {}
      <3>1. PICK p \in holders[i] : TRUE
        BY <2>2
      <3>2. holders[i] = {p}
        BY <3>1 DEF ClaimInv, HoldersFit
      <3>3. Cardinality({p}) = 1
        BY ONLY FS_Singleton
      <3> QED
        BY ONLY <3>2, <3>3, SMT
    <2> QED
      BY <2>1, <2>2
  <1> QED
    BY <1>1, ClaimsHold, PTL

\* When a claim passes to another worker, every generation the displaced
\* images hold is stale in the same commit.
THEOREM TransferFencesHolds == Spec => TransferFences
  <1> DEFINE Fenced ==
        \A i \in Items :
          claim[i] # None /\ claim'[i] # None /\ claim'[i].worker # claim[i].worker
              => holders'[i] \cap holders[i] = {}
  <1>1. ClaimInv /\ [Next]_vars => [Fenced]_vars
    <2> SUFFICES ASSUME ClaimInv, [Next]_vars, NEW i \in Items,
                        claim[i] # None, claim'[i] # None, claim'[i].worker # claim[i].worker
                 PROVE  holders'[i] \cap holders[i] = {}
      OBVIOUS
    <2>1. PICK p \in Procs : /\ claim'[i] = [worker |-> Actor[p], left |-> TTL]
                             /\ holders'[i] \in {{p}, {}}
      BY ClaimSteps DEF ClaimMoves, Dropped, Granted, Kept
    <2>2. \A q \in holders[i] : claim[i].worker = Actor[q]
      BY DEF ClaimInv, HoldersFit
    <2> QED
      BY <2>1, <2>2
  <1> QED
    BY <1>1, ClaimsHold, PTL DEF TransferFences, Spec

-----------------------------------------------------------------------------
\* What one step does to the status of an item: a closed one keeps it, a known
\* one stays known, and none is closed as done over open deferral rows.
StatusMoves(i) ==
    /\ status[i] \in Terminal => status'[i] = status[i]
    /\ status[i] # "absent" => status'[i] # "absent"
    /\ status'[i] = "done" => \/ status[i] = "done"
                              \/ OpenRows(i) = {} /\ deferrals' = deferrals

\* Setting the status of one item that is neither closed nor finished by it.
LEMMA StatusSet ==
    ASSUME status \in [Items -> Statuses \cup {"absent"}],
           NEW j \in Items, NEW s \in Statuses,
           status' = [status EXCEPT ![j] = s],
           status[j] \notin Terminal,
           s = "done" => OpenRows(j) = {} /\ deferrals' = deferrals,
           NEW i \in Items
    PROVE  StatusMoves(i)
  BY DEF StatusMoves, Statuses, Terminal, Live

\* Every step of the tracker moves the status of each item that way.
LEMMA StatusSteps ==
    ASSUME ClaimInv, [Next]_vars, NEW i \in Items
    PROVE  StatusMoves(i)
  <1>1. status \in [Items -> Statuses \cup {"absent"}]
    BY DEF ClaimInv, TypeInv, TypeOK
  <1>2. \A j \in Items : claim[j] # None => status[j] = "active"
    BY DEF ClaimInv, ClaimedActive
  <1> USE DEF Statuses, Terminal, Live
  <1>3. ASSUME status'[i] = status[i] PROVE StatusMoves(i)
    BY <1>3 DEF StatusMoves
  <1>4. ASSUME NEW j \in Items, NEW nd, NEW h, NEW mt, CreateItem(j, nd, h, mt)
        PROVE  StatusMoves(i)
    BY <1>1, <1>4, StatusSet DEF CreateItem, Present
  <1>5. CASE UNCHANGED vars
    BY <1>3, <1>5 DEF vars, itemVars
  <1>6. CASE ItemNext
    <2>1. ASSUME NEW j \in Items, Create(j) PROVE StatusMoves(i)
      BY <1>4, <2>1 DEF Create
    <2>2. ASSUME NEW j \in Items, Update(j) PROVE StatusMoves(i)
      <3>1. CASE UpdateStatus(j)
        BY <1>1, <3>1, StatusSet DEF UpdateStatus
      <3>2. CASE UpdateContent(j) \/ UpdateNeeds(j) \/ UpdateHold(j) \/ UpdateBatch(j)
        BY <1>3, <3>2 DEF UpdateContent, UpdateNeeds, UpdateHold, UpdateBatch, itemVars
      <3> QED
        BY <2>2, <3>1, <3>2 DEF Update
    <2>3. ASSUME NEW p \in Procs, NEW j \in Items, Take(p, j) PROVE StatusMoves(i)
      <3>1. status[j] \notin Terminal
        BY <1>2, <2>3 DEF Take, Takeable, ClaimLive
      <3> QED
        BY <1>1, <2>3, <3>1, StatusSet DEF Take, GrantClaim
    <2>4. ASSUME NEW p \in Procs, NEW j \in Items, Takeover(p, j) PROVE StatusMoves(i)
      BY <1>1, <2>4, StatusSet DEF Takeover, GrantClaim
    <2>5. ASSUME NEW p \in Procs, NEW j \in Items, Renew(p, j) PROVE StatusMoves(i)
      BY <1>3, <2>5 DEF Renew
    <2>6. ASSUME NEW p \in Procs, NEW j \in Items, Release(p, j) PROVE StatusMoves(i)
      <3>1. status[j] = "active"
        BY <1>2, <2>6 DEF Release, HoldsClaim
      <3> QED
        BY <1>1, <2>6, <3>1, StatusSet DEF Release
    <2>7. ASSUME NEW p \in Procs, NEW j \in Items, FinishPlain(p, j) PROVE StatusMoves(i)
      <3>1. status[j] = "active" /\ OpenRows(j) = {}
        BY <1>2, <2>7 DEF FinishPlain, FinishAllowed, HoldsClaim
      <3> QED
        BY <1>1, <2>7, <3>1, StatusSet DEF FinishPlain
    <2>8. ASSUME NEW p \in Procs, NEW j \in Items, FinishMember(p, j) PROVE StatusMoves(i)
      <3>1. status[j] = "active" /\ OpenRows(j) = {}
        BY <1>2, <2>8 DEF FinishMember, FinishAllowed, HoldsClaim
      <3>2. status' = [status EXCEPT ![j] = "done"] /\ deferrals' = deferrals
        BY <2>8 DEF FinishMember
      <3> QED
        BY <1>1, <3>1, <3>2, StatusSet
    <2>9. ASSUME NEW p \in Procs, NEW j \in Items, Drop(p, j) PROVE StatusMoves(i)
      BY <1>1, <2>9, StatusSet DEF Drop
    <2>10. CASE Tick \/ \E p \in Procs : Restart(p)
      BY <1>3, <2>10 DEF Tick, Restart
    <2> QED
      BY <1>6, <2>1, <2>2, <2>3, <2>4, <2>5, <2>6, <2>7, <2>8, <2>9, <2>10 DEF ItemNext
  <1>7. CASE DeferralNext
    <2>1. ASSUME NEW j \in Items, Defer(j) PROVE StatusMoves(i)
      BY <1>3, <2>1 DEF Defer
    <2>2. ASSUME NEW k \in Items, NEW n \in DOMAIN deferrals[k], NEW j \in Items, PromoteLink(k, n, j)
          PROVE  StatusMoves(i)
      BY <1>3, <2>2 DEF PromoteLink
    <2>3. ASSUME NEW k \in Items, NEW n \in DOMAIN deferrals[k], NEW j \in Items, PromoteCreate(k, n, j)
          PROVE  StatusMoves(i)
      BY <1>4, <2>3 DEF PromoteCreate
    <2>4. ASSUME NEW k \in Items, NEW n \in DOMAIN deferrals[k], Dismiss(k, n)
          PROVE  StatusMoves(i)
      BY <1>3, <2>4 DEF Dismiss
    <2> QED
      BY <1>7, <2>1, <2>2, <2>3, <2>4 DEF DeferralNext
  <1>8. CASE BatchNext
    <2>1. ASSUME NEW p \in Procs, NEW j \in Items, Prepare(p, j) PROVE StatusMoves(i)
      <3>1. status[j] = "active" /\ status' = [status EXCEPT ![j] = "open"]
        BY <2>1 DEF Prepare, PrepareAt
      <3> QED
        BY <1>1, <3>1, StatusSet
    <2>2. ASSUME NEW p \in Procs, NEW b \in Batches, NEW g \in OwnerGens, AbortBatch(p, b, g)
          PROVE  StatusMoves(i)
      BY <1>1, <2>2 DEF AbortBatch, StatusMoves
    <2>3. ASSUME NEW p \in Procs, NEW b \in Batches, NEW g \in OwnerGens,
                 \/ \E M \in MemberSets : RegisterBatch(p, b, M, g)
                 \/ \E files \in SUBSET Paths : AdvanceFix(p, b, g, files)
                 \/ AdvanceMerge(p, b, g)
                 \/ BindPR(p, b, g)
                 \/ RebindPR(p, b, g)
                 \/ \E new \in OwnerGens : RecoverOwner(p, b, g, new)
          PROVE  StatusMoves(i)
      <3>1. UNCHANGED itemVars
        BY <2>3, Zenon DEF RegisterBatch, AdvanceFix, AdvanceMerge, BindPR, RebindPR, RecoverOwner
      <3> QED
        BY <1>3, <3>1 DEF itemVars
    <2> QED
      BY <1>8, <2>1, <2>2, <2>3 DEF BatchNext
  <1> QED
    BY <1>5, <1>6, <1>7, <1>8 DEF Next

\* What one step does to the proofs of a finished item: nothing.
LEMMA ProofSteps ==
    ASSUME ClaimInv, [Next]_vars, NEW i \in Items, status[i] = "done"
    PROVE  receipt'[i] = receipt[i] /\ evidence'[i] = evidence[i]
  <1>1. /\ receipt \in [Items -> Receipt \cup {None}]
        /\ evidence \in [Items -> Evidence \cup {None}]
    BY DEF ClaimInv, TypeInv, TypeOK
  <1>2. claim[i] = None
    BY DEF ClaimInv, ClaimedActive
  <1>3. ASSUME UNCHANGED proofVars
        PROVE  receipt'[i] = receipt[i] /\ evidence'[i] = evidence[i]
    BY <1>3 DEF proofVars
  <1>4. ASSUME NEW j \in Items, Update(j)
        PROVE  receipt'[i] = receipt[i] /\ evidence'[i] = evidence[i]
    <2>1. VoidReceipts(j)
      BY <1>4 DEF Update, UpdateContent, UpdateNeeds, UpdateStatus, UpdateHold, UpdateBatch
    <2>2. i \notin Downstream(j) /\ (i = j => receipt[i] = None)
      <3>1. PICK mt : EditAllowed(j, mt)
        BY <1>4 DEF Update, UpdateContent, UpdateNeeds, UpdateStatus, UpdateHold, UpdateBatch
      <3> QED
        BY <3>1 DEF EditAllowed
    <2> QED
      BY <1>1, <2>1, <2>2 DEF VoidReceipts
  <1>5. ASSUME NEW p \in Procs, NEW j \in Items, FinishMember(p, j)
        PROVE  receipt'[i] = receipt[i] /\ evidence'[i] = evidence[i]
    <2>1. i # j
      BY <1>2, <1>5 DEF FinishMember, FinishAllowed, HoldsClaim
    <2>2. receipt' = receipt /\ \E e : evidence' = [evidence EXCEPT ![j] = e]
      BY <1>5 DEF FinishMember
    <2> QED
      BY <1>1, <2>1, <2>2
  <1>6. ASSUME NEW p \in Procs, NEW j \in Items, Prepare(p, j)
        PROVE  receipt'[i] = receipt[i] /\ evidence'[i] = evidence[i]
    <2>1. i # j
      BY <1>6 DEF Prepare, PrepareAt
    <2>2. evidence' = evidence /\ \E r : receipt' = [receipt EXCEPT ![j] = r]
      BY <1>6 DEF Prepare, PrepareAt
    <2> QED
      BY <1>1, <2>1, <2>2
  <1>7. ASSUME NEW p \in Procs, NEW b \in Batches, NEW g \in OwnerGens,
               RebindPR(p, b, g) \/ AbortBatch(p, b, g)
        PROVE  receipt'[i] = receipt[i] /\ evidence'[i] = evidence[i]
    <2>1. i \notin batches[b].members
      BY <1>7 DEF RebindPR, AbortBatch, AnyDone
    <2>2. CASE RebindPR(p, b, g)
      BY <2>1, <2>2 DEF RebindPR
    <2>3. CASE AbortBatch(p, b, g)
      BY <2>1, <2>3 DEF AbortBatch
    <2> QED
      BY <1>7, <2>2, <2>3
  <1>8. CASE ItemNext
    <2>1. CASE \E j \in Items : Create(j)
      BY <1>3, <2>1 DEF Create
    <2>2. CASE \E p \in Procs, j \in Items :
                  \/ Take(p, j) \/ Takeover(p, j) \/ Renew(p, j)
                  \/ Release(p, j) \/ FinishPlain(p, j) \/ Drop(p, j)
      BY <1>3, <2>2, Zenon DEF Take, Takeover, Renew, Release, FinishPlain, Drop
    <2>3. CASE Tick \/ \E p \in Procs : Restart(p)
      BY <1>3, <2>3 DEF Tick, Restart
    <2> QED
      BY <1>4, <1>5, <1>8, <2>1, <2>2, <2>3 DEF ItemNext
  <1>9. CASE DeferralNext
    BY <1>3, <1>9, Zenon DEF DeferralNext, Defer, PromoteLink, PromoteCreate, Dismiss
  <1>10. CASE BatchNext
    <2>1. CASE \E p \in Procs, b \in Batches, g \in OwnerGens :
                  \/ \E M \in MemberSets : RegisterBatch(p, b, M, g)
                  \/ \E files \in SUBSET Paths : AdvanceFix(p, b, g, files)
                  \/ AdvanceMerge(p, b, g)
                  \/ BindPR(p, b, g)
                  \/ \E new \in OwnerGens : RecoverOwner(p, b, g, new)
      BY <1>3, <2>1, Zenon DEF RegisterBatch, AdvanceFix, AdvanceMerge, BindPR, RecoverOwner
    <2> QED
      BY <1>6, <1>7, <1>10, <2>1 DEF BatchNext
  <1>11. CASE UNCHANGED vars
    BY <1>3, <1>11 DEF vars
  <1> QED
    BY <1>8, <1>9, <1>10, <1>11 DEF Next

\* A closed item stays closed and its evidence stays with it: no edit, claim,
\* abort or cascade of another item reopens it.
THEOREM TerminalForeverHolds == Spec => TerminalForever
  <1> DEFINE Closed ==
        \A i \in Items : status[i] \in Terminal =>
          /\ status'[i] = status[i]
          /\ status[i] = "done" => evidence'[i] = evidence[i] /\ receipt'[i] = receipt[i]
  <1>1. ClaimInv /\ [Next]_vars => [Closed]_vars
    BY StatusSteps, ProofSteps DEF StatusMoves
  <1> QED
    BY <1>1, ClaimsHold, PTL DEF TerminalForever, Spec

-----------------------------------------------------------------------------
\* What one step does to the rows of an item: a row stays or, when open, is
\* resolved; a promoted row names another item that is known; and new rows are
\* open rows of live work.
RowResolved(i, n) ==
    /\ n \in OpenRows(i)
    /\ deferrals'[i][n].resolution \in {"promoted", "dismissed"}
    /\ deferrals'[i][n].resolution = "promoted" =>
          /\ deferrals'[i][n].target \in Items \ {i}
          /\ status'[deferrals'[i][n].target] # "absent"

RowMoves(i) ==
    /\ \A n \in DOMAIN deferrals[i] :
          /\ n \in DOMAIN deferrals'[i]
          /\ deferrals'[i][n] = deferrals[i][n] \/ RowResolved(i, n)
    /\ \A n \in DOMAIN deferrals'[i] \ DOMAIN deferrals[i] :
          /\ status[i] \in Live
          /\ status'[i] = status[i]
          /\ deferrals'[i][n].resolution = "open"

\* A row of item j written over an open row moves the rows of every item.
LEMMA RowSet ==
    ASSUME TypeInv, NEW j \in Items, NEW m \in OpenRows(j), NEW row \in Row,
           row.resolution \in {"promoted", "dismissed"},
           row.resolution = "promoted" => row.target \in Items \ {j} /\ status'[row.target] # "absent",
           deferrals' = [deferrals EXCEPT ![j][m] = row],
           NEW i \in Items
    PROVE  RowMoves(i)
  <1>1. deferrals \in [Items -> Seq(Row)]
    BY DEF TypeInv, TypeOK
  <1>2. CASE i # j
    BY <1>1, <1>2 DEF RowMoves
  <1>3. CASE i = j
    <2>1. m \in 1..Len(deferrals[i])
      BY <1>1, <1>3, LenProperties DEF OpenRows
    <2>2. deferrals'[i] = [deferrals[i] EXCEPT ![m] = row]
      BY <1>1, <1>3
    <2>3. /\ DOMAIN deferrals'[i] = DOMAIN deferrals[i]
          /\ \A n \in DOMAIN deferrals[i] :
                deferrals'[i][n] = IF n = m THEN row ELSE deferrals[i][n]
      BY <1>1, <2>1, <2>2, ExceptSeq, LenProperties
    <2> QED
      BY <1>3, <2>3 DEF RowMoves, RowResolved
  <1> QED
    BY <1>2, <1>3

\* Every step of the tracker moves the rows of each item that way.
LEMMA RowSteps ==
    ASSUME ClaimInv, [Next]_vars, NEW i \in Items
    PROVE  RowMoves(i)
  <1>1. /\ deferrals \in [Items -> Seq(Row)]
        /\ status \in [Items -> Statuses \cup {"absent"}]
        /\ TypeInv
    BY DEF ClaimInv, TypeInv, TypeOK
  <1>2. ASSUME deferrals' = deferrals PROVE RowMoves(i)
    BY <1>2 DEF RowMoves
  <1>3. CASE UNCHANGED vars
    BY <1>2, <1>3 DEF vars, itemVars
  <1>4. CASE ItemNext
    <2>1. ASSUME NEW j \in Items, Create(j) PROVE RowMoves(i)
      BY <1>2, <2>1 DEF Create
    <2>2. ASSUME NEW j \in Items, Update(j) PROVE RowMoves(i)
      BY <1>2, <2>2, Zenon
      DEF Update, UpdateContent, UpdateNeeds, UpdateStatus, UpdateHold, UpdateBatch, itemVars
    <2>3. ASSUME NEW p \in Procs, NEW j \in Items,
                 \/ Take(p, j) \/ Takeover(p, j) \/ Renew(p, j) \/ Release(p, j)
                 \/ FinishPlain(p, j) \/ FinishMember(p, j) \/ Drop(p, j)
          PROVE  RowMoves(i)
      BY <1>2, <2>3, Zenon DEF Take, Takeover, Renew, Release, FinishPlain, FinishMember, Drop
    <2>4. CASE Tick \/ \E p \in Procs : Restart(p)
      BY <1>2, <2>4 DEF Tick, Restart
    <2> QED
      BY <1>4, <2>1, <2>2, <2>3, <2>4 DEF ItemNext
  <1>5. CASE BatchNext
    <2>1. ASSUME NEW p \in Procs, NEW j \in Items, Prepare(p, j) PROVE RowMoves(i)
      BY <1>2, <2>1 DEF Prepare, PrepareAt
    <2>2. ASSUME NEW p \in Procs, NEW b \in Batches, NEW g \in OwnerGens, AbortBatch(p, b, g)
          PROVE  RowMoves(i)
      BY <1>2, <2>2 DEF AbortBatch
    <2>3. ASSUME NEW p \in Procs, NEW b \in Batches, NEW g \in OwnerGens,
                 \/ \E M \in MemberSets : RegisterBatch(p, b, M, g)
                 \/ \E files \in SUBSET Paths : AdvanceFix(p, b, g, files)
                 \/ AdvanceMerge(p, b, g)
                 \/ BindPR(p, b, g)
                 \/ RebindPR(p, b, g)
                 \/ \E new \in OwnerGens : RecoverOwner(p, b, g, new)
          PROVE  RowMoves(i)
      <3>1. UNCHANGED itemVars
        BY <2>3, Zenon DEF RegisterBatch, AdvanceFix, AdvanceMerge, BindPR, RebindPR, RecoverOwner
      <3> QED
        BY <1>2, <3>1 DEF itemVars
    <2> QED
      BY <1>5, <2>1, <2>2, <2>3 DEF BatchNext
  <1>6. CASE DeferralNext
    <2>1. ASSUME NEW j \in Items, Defer(j) PROVE RowMoves(i)
      <3> DEFINE row == [resolution |-> "open", target |-> None]
      <3>1. row \in Row
        BY DEF Row
      <3>2. deferrals' = [deferrals EXCEPT ![j] = Append(@, row)]
        BY <2>1 DEF Defer
      <3>3. row.resolution = "open"
        OBVIOUS
      <3> HIDE DEF row
      <3>4. CASE i = j
        <4>1. deferrals'[i] = Append(deferrals[i], row)
          BY <1>1, <3>2, <3>4
        <4>2. deferrals[i] \in Seq(Row)
          BY <1>1
        <4>3. /\ \A n \in DOMAIN deferrals[i] : deferrals'[i][n] = deferrals[i][n]
              /\ DOMAIN deferrals[i] = 1..Len(deferrals[i])
              /\ DOMAIN deferrals'[i] = 1..(Len(deferrals[i]) + 1)
              /\ deferrals'[i][Len(deferrals[i]) + 1] = row
          BY <3>1, <4>1, <4>2, AppendProperties, LenProperties
        <4>4. Len(deferrals[i]) \in Nat
          BY <4>2, LenProperties
        <4> QED
          BY <2>1, <3>3, <3>4, <4>3, <4>4 DEF RowMoves, Defer
      <3>5. CASE i # j
        BY <1>1, <3>2, <3>5 DEF RowMoves
      <3> QED
        BY <3>4, <3>5
    <2>2. ASSUME NEW k \in Items, NEW n \in DOMAIN deferrals[k], NEW j \in Items, PromoteLink(k, n, j)
          PROVE  RowMoves(i)
      <3> DEFINE row == [resolution |-> "promoted", target |-> j]
      <3>1. row \in Row /\ row.resolution = "promoted" /\ row.target = j
        BY DEF Row
      <3>2. n \in OpenRows(k) /\ j # k /\ status'[j] # "absent"
        BY <2>2 DEF PromoteLink, Present
      <3>3. deferrals' = [deferrals EXCEPT ![k][n] = row]
        BY <2>2 DEF PromoteLink, Promoted
      <3> HIDE DEF row
      <3> QED
        BY <1>1, <3>1, <3>2, <3>3, RowSet
    <2>3. ASSUME NEW k \in Items, NEW n \in DOMAIN deferrals[k], NEW j \in Items, PromoteCreate(k, n, j)
          PROVE  RowMoves(i)
      <3> DEFINE row == [resolution |-> "promoted", target |-> j]
      <3>1. row \in Row /\ row.resolution = "promoted" /\ row.target = j
        BY DEF Row
      <3>2. n \in OpenRows(k) /\ j # k /\ status'[j] # "absent"
        BY <1>1, <2>3 DEF PromoteCreate, CreateItem, Present
      <3>3. deferrals' = [deferrals EXCEPT ![k][n] = row]
        BY <2>3 DEF PromoteCreate, Promoted
      <3> HIDE DEF row
      <3> QED
        BY <1>1, <3>1, <3>2, <3>3, RowSet
    <2>4. ASSUME NEW k \in Items, NEW n \in DOMAIN deferrals[k], Dismiss(k, n)
          PROVE  RowMoves(i)
      <3> DEFINE row == [deferrals[k][n] EXCEPT !.resolution = "dismissed"]
      <3>1. deferrals[k][n] \in Row
        BY <1>1, LenProperties, ElementOfSeq
      <3>2. row \in Row /\ row.resolution = "dismissed"
        BY <3>1 DEF Row
      <3>3. n \in OpenRows(k) /\ deferrals' = [deferrals EXCEPT ![k][n] = row]
        BY <2>4 DEF Dismiss
      <3> HIDE DEF row
      <3> QED
        BY <1>1, <3>2, <3>3, RowSet
    <2> QED
      BY <1>6, <2>1, <2>2, <2>3, <2>4 DEF DeferralNext
  <1> QED
    BY <1>3, <1>4, <1>5, <1>6 DEF Next

\* A row is resolved once, and rows are never dropped: a resolved row survives
\* every retry and every race unchanged.
THEOREM RowsResolveOnceHolds == Spec => RowsResolveOnce
  <1> DEFINE Once ==
        \A i \in Items : \A n \in DOMAIN deferrals[i] :
          /\ n \in DOMAIN deferrals'[i]
          /\ deferrals[i][n].resolution # "open" => deferrals'[i][n] = deferrals[i][n]
  <1>1. ClaimInv /\ [Next]_vars => [Once]_vars
    BY RowSteps DEF RowMoves, RowResolved, OpenRows
  <1> QED
    BY <1>1, ClaimsHold, PTL DEF RowsResolveOnce, Spec

\* Finishing an item leaves no deferred work unresolved behind it, and none is
\* recorded afterwards.
THEOREM NoOpenDeferralsHolds == Spec => []NoOpenDeferralsWhenDone
  <1>1. Init => NoOpenDeferralsWhenDone
    BY DEF Init, NoOpenDeferralsWhenDone
  <1>2. ClaimInv /\ NoOpenDeferralsWhenDone /\ [Next]_vars => NoOpenDeferralsWhenDone'
    <2> SUFFICES ASSUME ClaimInv, NoOpenDeferralsWhenDone, [Next]_vars,
                        NEW i \in Items, status'[i] = "done",
                        NEW n \in DOMAIN deferrals'[i], deferrals'[i][n].resolution = "open"
                 PROVE  FALSE
      BY DEF NoOpenDeferralsWhenDone, OpenRows
    <2>1. OpenRows(i) = {} /\ (status[i] = "done" \/ deferrals' = deferrals)
      BY StatusSteps DEF StatusMoves, NoOpenDeferralsWhenDone
    <2>2. CASE n \in DOMAIN deferrals[i]
      BY <2>1, <2>2, RowSteps DEF RowMoves, RowResolved, OpenRows
    <2>3. CASE n \notin DOMAIN deferrals[i]
      BY <2>1, <2>3, RowSteps DEF RowMoves, Live
    <2> QED
      BY <2>2, <2>3
  <1> QED
    BY <1>1, <1>2, ClaimsHold, PTL DEF Spec

\* A promoted row names a task that exists and is not its source: the linked
\* task, or the successor created in the same commit.
THEOREM PromotionsLandHolds == Spec => []PromotionsLand
  <1>1. Init => PromotionsLand
    BY DEF Init, PromotionsLand
  <1>2. ClaimInv /\ PromotionsLand /\ [Next]_vars => PromotionsLand'
    <2> SUFFICES ASSUME ClaimInv, PromotionsLand, [Next]_vars,
                        NEW i \in Items, NEW n \in DOMAIN deferrals'[i],
                        deferrals'[i][n].resolution = "promoted"
                 PROVE  /\ deferrals'[i][n].target \in Items \ {i}
                        /\ status'[deferrals'[i][n].target] # "absent"
      BY DEF PromotionsLand, Present
    <2>1. n \in DOMAIN deferrals[i]
      BY RowSteps DEF RowMoves
    <2>2. CASE RowResolved(i, n)
      BY <2>2 DEF RowResolved
    <2>3. CASE deferrals'[i][n] = deferrals[i][n]
      <3>1. /\ deferrals[i][n].target \in Items \ {i}
            /\ status[deferrals[i][n].target] # "absent"
        BY <2>1, <2>3 DEF PromotionsLand, Present
      <3> QED
        BY <2>3, <3>1, StatusSteps DEF StatusMoves
    <2> QED
      BY <2>1, <2>2, <2>3, RowSteps DEF RowMoves
  <1> QED
    BY <1>1, <1>2, ClaimsHold, PTL DEF Spec

-----------------------------------------------------------------------------
\* The ledger of leases.

\* The ledger's variables, as Tracker maps them.
Leases == [i \in Items |-> LeaseOf(i)]
ClosedItems == {i \in Items : status[i] \in Terminal}

\* A claim that no step touched is the same lease.
LEMMA SameLease == ASSUME NEW i \in Items, claim'[i] = claim[i] PROVE Leases'[i] = Leases[i]
  BY DEF Leases, LeaseOf

\* Take and takeover are grants: what they claim is not closed.
LEMMA GrantsLease ==
    ASSUME ClaimInv, NEW p \in Procs, NEW i \in Items, Take(p, i) \/ Takeover(p, i)
    PROVE  Ledger!Grant(p, i)
  <1>1. /\ claim \in [Items -> Claim \cup {None}] /\ holders \in [Items -> SUBSET Procs]
        /\ status \in [Items -> Statuses \cup {"absent"}]
    BY DEF ClaimInv, TypeInv, TypeOK
  <1>2. GrantClaim(p, i) /\ status[i] \notin Terminal
    BY DEF Take, Takeover, Takeable, ClaimLive, ClaimInv, ClaimedActive, Terminal, Live
  <1> DEFINE c == [worker |-> Actor[p], left |-> TTL]
  <1>3. claim' = [claim EXCEPT ![i] = c] /\ status' = [status EXCEPT ![i] = "active"]
    BY <1>2 DEF GrantClaim
  <1>4. c # None /\ c.worker = Actor[p] /\ c.left > 0
    <2>1. c \in Claim
      BY ActorAssumption, TimeAssumption DEF Claim
    <2> QED
      BY <2>1, NoneAssumption, TimeAssumption
  <1> HIDE DEF c
  <1>5. Leases' = [Leases EXCEPT ![i] = [worker |-> Actor[p], running |-> TRUE]]
    BY <1>1, <1>3, <1>4 DEF Leases, LeaseOf
  <1>6. ClosedItems' = ClosedItems
    BY <1>1, <1>2, <1>3 DEF ClosedItems, Terminal
  <1>7. \E keepers \in {{p}, {}} : holders' = [holders EXCEPT ![i] = keepers]
    BY <1>2 DEF GrantClaim
  <1> QED
    BY <1>2, <1>5, <1>6, <1>7 DEF Ledger!Grant, Leases, ClosedItems

\* Renewal extends the lease.
LEMMA RenewExtends ==
    ASSUME ClaimInv, NEW p \in Procs, NEW i \in Items, Renew(p, i)
    PROVE  Ledger!Extend(p, i)
  <1>1. claim \in [Items -> Claim \cup {None}] /\ claim[i] \in Claim /\ p \in holders[i]
    BY DEF ClaimInv, TypeInv, TypeOK, Renew, HoldsClaim
  <1> DEFINE c == [claim[i] EXCEPT !.left = TTL]
  <1>2. claim' = [claim EXCEPT ![i] = c] /\ holders' = holders /\ status' = status
    BY <1>1 DEF Renew
  <1>3. c \in Claim /\ c.worker = claim[i].worker /\ c.left > 0
    BY <1>1, TimeAssumption DEF Claim
  <1>4. c # None /\ claim[i] # None
    BY <1>1, <1>3, NoneAssumption
  <1> HIDE DEF c
  <1>5. Leases' = [Leases EXCEPT ![i] = [Leases[i] EXCEPT !.running = TRUE]]
    BY <1>1, <1>2, <1>3, <1>4 DEF Leases, LeaseOf
  <1>6. ClosedItems' = ClosedItems
    BY <1>2 DEF ClosedItems
  <1> QED
    BY <1>1, <1>2, <1>5, <1>6 DEF Ledger!Extend, Leases, ClosedItems

\* Giving up a claim clears its lease; the item is closed, or stays as it was.
LEMMA GivingUpClears ==
    ASSUME ClaimInv, NEW p \in Procs, NEW i \in Items,
           \/ Release(p, i) \/ FinishPlain(p, i) \/ FinishMember(p, i)
           \/ Drop(p, i) \/ Prepare(p, i)
    PROVE  Ledger!Return(p, i) \/ Ledger!Close(p, i)
  <1>1. /\ claim \in [Items -> Claim \cup {None}] /\ holders \in [Items -> SUBSET Procs]
        /\ status \in [Items -> Statuses \cup {"absent"}]
    BY DEF ClaimInv, TypeInv, TypeOK
  <1>2. /\ claim' = [claim EXCEPT ![i] = None] /\ holders' = [holders EXCEPT ![i] = {}]
        /\ \A j \in Items \ {i} : status'[j] = status[j]
    BY GivingUp
  <1>3. Ledger!Cleared({i})
    BY <1>1, <1>2 DEF Ledger!Cleared, LeaseOf
  <1>4. status[i] \notin Terminal
    BY DEF Release, FinishPlain, FinishMember, FinishAllowed, Drop, Prepare, PrepareAt, HoldsClaim,
           ClaimInv, ClaimedActive, Terminal, Live
  <1>5. CASE Release(p, i) \/ Prepare(p, i)
    <2>1. p \in holders[i] /\ status[i] = "active"
      BY <1>5 DEF Release, Prepare, PrepareAt, HoldsClaim, ClaimInv, ClaimedActive
    <2>2. status'[i] = "open"
      BY <1>1, <1>5, <2>1 DEF Release, Prepare, PrepareAt
    <2>3. ClosedItems' = ClosedItems
      BY <1>2, <1>4, <2>2 DEF ClosedItems, Terminal
    <2> QED
      BY <1>3, <2>1, <2>3 DEF Ledger!Return, ClosedItems
  <1>6. CASE FinishPlain(p, i) \/ FinishMember(p, i) \/ Drop(p, i)
    <2>1. ClaimLive(i) => p \in holders[i]
      BY <1>6 DEF FinishPlain, FinishMember, FinishAllowed, Drop, HoldsClaim
    <2>2. Ledger!Running(i) => p \in holders[i]
      BY <2>1 DEF Ledger!Running, LeaseOf, ClaimLive
    <2>3. status'[i] \in Terminal
      BY <1>1, <1>6 DEF FinishPlain, FinishMember, Drop, Terminal
    <2>4. ClosedItems' = ClosedItems \cup {i}
      BY <1>2, <2>3 DEF ClosedItems
    <2> QED
      BY <1>3, <1>4, <2>2, <2>4 DEF Ledger!Close, ClosedItems
  <1> QED
    BY <1>5, <1>6

\* An abort withdraws the leases of the members, none of which runs.
LEMMA AbortWithdraws ==
    ASSUME ClaimInv, NEW p \in Procs, NEW b \in Batches, NEW g \in OwnerGens, AbortBatch(p, b, g)
    PROVE  \E S \in SUBSET Items : Ledger!Withdraw(S)
  <1> DEFINE M == batches[b].members
  <1>1. M \in SUBSET Items /\ status \in [Items -> Statuses \cup {"absent"}]
        /\ claim \in [Items -> Claim \cup {None}] /\ holders \in [Items -> SUBSET Procs]
    BY DEF ClaimInv, TypeInv, TypeOK, BatchRecord, AbortBatch, ActiveBatch, Registered
  <1>2. /\ \A m \in M : ~ClaimLive(m)
        /\ claim' = [i \in Items |-> IF i \in M THEN None ELSE claim[i]]
        /\ holders' = [i \in Items |-> IF i \in M THEN {} ELSE holders[i]]
        /\ status' = [i \in Items |-> IF i \in M /\ status[i] \in Live THEN "open" ELSE status[i]]
    BY DEF AbortBatch
  <1> HIDE DEF M
  <1>3. Ledger!Cleared(M)
    BY <1>1, <1>2 DEF Ledger!Cleared, LeaseOf
  <1>4. \A m \in M : ~Ledger!Running(m)
    BY <1>1, <1>2 DEF Ledger!Running, LeaseOf, ClaimLive
  <1>5. ClosedItems' = ClosedItems
    BY <1>1, <1>2 DEF ClosedItems, Terminal, Live
  <1> QED
    BY <1>1, <1>3, <1>4, <1>5 DEF Ledger!Withdraw, ClosedItems

\* The clock lets leases lapse.
LEMMA TickLapses == ASSUME ClaimInv, Tick PROVE \E S \in SUBSET Items : Ledger!Lapse(S)
  <1> DEFINE S == {i \in Items : ClaimLive(i) /\ claim[i].left = 1}
  <1>1. claim \in [Items -> Claim \cup {None}]
    BY DEF ClaimInv, TypeInv, TypeOK
  <1>2. ASSUME NEW i \in Items
        PROVE  Leases'[i] = IF i \in S /\ Leases[i] # None /\ Leases[i].running
                            THEN [worker |-> Leases[i].worker, running |-> FALSE] ELSE Leases[i]
    <2>1. CASE ClaimLive(i)
      <3>1. claim[i] \in Claim /\ claim'[i] = [claim[i] EXCEPT !.left = @ - 1]
        BY <1>1, <2>1 DEF Tick, ClaimLive
      <3>2. claim[i].left \in Nat /\ claim[i].left > 0
        BY <2>1, <3>1, TimeAssumption DEF Claim, ClaimLive
      <3>3. /\ claim'[i].worker = claim[i].worker /\ claim'[i].left = claim[i].left - 1
            /\ claim'[i] # None
        <4>1. [claim[i] EXCEPT !.left = @ - 1] \in Claim
          BY <3>1, <3>2, TimeAssumption DEF Claim
        <4> QED
          BY <3>1, <4>1, NoneAssumption DEF Claim
      <3>4. Leases[i] = [worker |-> claim[i].worker, running |-> TRUE]
        BY <2>1, <3>2 DEF Leases, LeaseOf, ClaimLive
      <3>5. CASE claim[i].left = 1
        <4>1. i \in S /\ claim'[i].left = 0 /\ claim'[i] # None
          BY <2>1, <3>3, <3>5
        <4>2. (claim'[i].left > 0) = FALSE
          BY <4>1
        <4>3. Leases'[i] = [worker |-> claim'[i].worker, running |-> FALSE]
          BY <4>1, <4>2, Zenon DEF Leases, LeaseOf
        <4>4. Leases'[i] = [worker |-> claim[i].worker, running |-> FALSE]
          BY <3>3, <4>3
        <4>5. Leases[i] \in Lease
          BY <3>1, <3>4 DEF Lease, Claim
        <4>6. Leases[i] # None
          BY <4>5, NoneAssumption
        <4>7. Leases[i].running /\ Leases[i].worker = claim[i].worker
          BY <3>4
        <4> HIDE DEF S
        <4> QED
          BY ONLY <4>1, <4>4, <4>6, <4>7, Zenon
      <3>6. CASE claim[i].left # 1
        <4>1. i \notin S /\ claim'[i].left > 0 /\ claim'[i] # None
          BY <3>2, <3>3, <3>6
        <4>2. Leases'[i] = [worker |-> claim[i].worker, running |-> TRUE]
          BY <3>3, <4>1 DEF Leases, LeaseOf
        <4> QED
          BY <3>4, <4>1, <4>2
      <3> QED
        BY <3>5, <3>6
    <2>2. CASE ~ClaimLive(i)
      BY <2>2, SameLease DEF Tick
    <2> QED
      BY <2>1, <2>2
  <1>3. Leases' = [i \in Items |-> IF i \in S /\ Leases[i] # None /\ Leases[i].running
                                   THEN [worker |-> Leases[i].worker, running |-> FALSE]
                                   ELSE Leases[i]]
    BY <1>2 DEF Leases
  <1>4. holders' = holders /\ ClosedItems' = ClosedItems
    BY DEF Tick, ClosedItems
  <1>5. S \in SUBSET Items
    OBVIOUS
  <1> HIDE DEF S
  <1>6. Ledger!Lapse(S)
    BY <1>3, <1>4 DEF Ledger!Lapse, Ledger!Running, Leases, ClosedItems
  <1> QED
    BY <1>5, <1>6

\* A step that leaves the claims alone leaves the ledger alone.
LEMMA QuietLedger ==
    ASSUME claim' = claim, holders' = holders,
           \A i \in Items : status'[i] \in Terminal <=> status[i] \in Terminal
    PROVE  UNCHANGED <<Leases, holders, ClosedItems>>
  BY DEF Leases, LeaseOf, ClosedItems

\* Every step of the tracker is a step of the ledger, or leaves it alone.
LEMMA LedgerSteps ==
    ASSUME ClaimInv, [Next]_vars
    PROVE  Ledger!Next \/ UNCHANGED <<Leases, holders, ClosedItems>>
  <1>1. CASE UNCHANGED vars
    <2>1. claim' = claim /\ holders' = holders /\ status' = status
      BY <1>1 DEF vars, itemVars
    <2> QED
      BY <2>1, QuietLedger
  <1>2. ASSUME NEW p \in Procs, NEW i \in Items,
               \/ Take(p, i) \/ Takeover(p, i) \/ Renew(p, i) \/ Release(p, i)
               \/ FinishPlain(p, i) \/ FinishMember(p, i) \/ Drop(p, i) \/ Prepare(p, i)
        PROVE  Ledger!Next
    <2>1. Ledger!Grant(p, i) \/ Ledger!Extend(p, i) \/ Ledger!Return(p, i) \/ Ledger!Close(p, i)
      BY <1>2, GrantsLease, RenewExtends, GivingUpClears
    <2> QED
      BY <2>1, Zenon DEF Ledger!Next
  <1>3. CASE ItemNext
    <2>1. CASE \E i \in Items : Create(i) \/ Update(i)
      BY <2>1, QuietSteps, QuietLedger
    <2>2. ASSUME NEW p \in Procs, Restart(p) PROVE Ledger!Next
      <3>1. Ledger!Forget(p)
        BY <2>2 DEF Restart, Ledger!Forget, LeaseOf
      <3> QED
        BY <3>1, Zenon DEF Ledger!Next
    <2>3. CASE Tick
      BY <2>3, TickLapses, Zenon DEF Ledger!Next
    <2> QED
      BY <1>2, <1>3, <2>1, <2>2, <2>3 DEF ItemNext
  <1>4. CASE DeferralNext
    BY <1>4, QuietSteps, QuietLedger
  <1>5. CASE BatchNext
    <2>1. ASSUME NEW p \in Procs, NEW b \in Batches, NEW g \in OwnerGens, AbortBatch(p, b, g)
          PROVE  Ledger!Next
      BY <2>1, AbortWithdraws, Zenon DEF Ledger!Next
    <2>2. CASE \E p \in Procs, b \in Batches, g \in OwnerGens :
                  \/ \E M \in MemberSets : RegisterBatch(p, b, M, g)
                  \/ \E files \in SUBSET Paths : AdvanceFix(p, b, g, files)
                  \/ AdvanceMerge(p, b, g)
                  \/ BindPR(p, b, g)
                  \/ RebindPR(p, b, g)
                  \/ \E new \in OwnerGens : RecoverOwner(p, b, g, new)
      BY <2>2, QuietSteps, QuietLedger
    <2> QED
      BY <1>2, <1>5, <2>1, <2>2 DEF BatchNext
  <1> QED
    BY <1>1, <1>3, <1>4, <1>5 DEF Next

\* The tracker implements the ledger of leases: while a claim is live only the
\* image that holds its generation extends it, gives the item back or closes it,
\* and nobody else ends it except by claiming the item anew.
THEOREM LedgerRefined == Spec => RefinesLedger
  <1>1. Init => Ledger!Init
    <2> SUFFICES ASSUME Init PROVE Ledger!Init
      OBVIOUS
    <2>1. Leases = [i \in Items |-> None]
      BY DEF Init, Leases, LeaseOf
    <2>2. ClosedItems = {}
      BY DEF Init, ClosedItems, Terminal
    <2> QED
      BY <2>1, <2>2 DEF Init, Ledger!Init, Leases, ClosedItems
  <1>2. ClaimInv /\ [Next]_vars => [Ledger!Next]_<<Leases, holders, ClosedItems>>
    BY LedgerSteps
  <1> QED
    BY <1>1, <1>2, ClaimsHold, PTL DEF Spec, RefinesLedger, Ledger!Spec, Leases, ClosedItems

=============================================================================
