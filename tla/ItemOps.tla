------------------------------- MODULE ItemOps -------------------------------
(***************************************************************************)
(* Operations on one item: create, edit, claim, renew, release, finish and *)
(* drop.  Each action is a service handler with the store operation it     *)
(* applies; a refused call changes nothing and is not a step.              *)
(***************************************************************************)
EXTENDS TrackerState

-----------------------------------------------------------------------------
\* Create

\* Fault: membership is not looked up.
MetaUndeclared(i, nd, mt) == mt # None => Registered(mt.batch) /\ mt.deps \subseteq nd

\* Batch metadata an item may carry once its dependencies are nd: the batch
\* is registered, declares the item, and the edges are dependencies.
MetaAllowed(i, nd, mt) ==
    mt # None =>
        /\ schema = 4
        /\ Registered(mt.batch)
        /\ i \in batches[mt.batch].members
        /\ mt.deps \subseteq nd

\* op_create: a new open item with known dependencies, an optional future
\* hold and optional batch metadata.
CreateItem(i, nd, h, mt) ==
    /\ ~Present(i)
    /\ i \notin nd
    /\ \A d \in nd : Present(d)
    /\ MetaAllowed(i, nd, mt)
    /\ status' = [status EXCEPT ![i] = "open"]
    /\ needs' = [needs EXCEPT ![i] = nd]
    /\ hold' = [hold EXCEPT ![i] = h]
    /\ meta' = [meta EXCEPT ![i] = mt]

\* The metadata inputs worth trying: none, or some edges among nd.
MetaInputs(nd) == {None} \cup [batch : Batches, deps : SUBSET nd]

Create(i) ==
    \E nd \in NeedSets, h \in 0..MaxHold : \E mt \in MetaInputs(nd) :
        /\ CreateItem(i, nd, h, mt)
        /\ UNCHANGED <<claim, holders, deferrals, proofVars, batchVars>>

-----------------------------------------------------------------------------
\* Update.  A call that edits context alone changes nothing modelled here, and
\* a call that names several fields composes the single-field edits below.

\* Fault: only the edited item's own receipt is voided.
NoDownstream(i) == {}

\* _invalidate_prepared_dependents: the items reached from i along
\* implementation dependencies, through items that hold prepared evidence.
Downstream(i) ==
    LET Reached(S) ==
            \A j \in Items \ {i} :
                /\ meta[j] # None
                /\ meta[j].deps \cap (S \cup {i}) # {}
                /\ receipt[j] # None \/ evidence[j] # None
                => j \in S
    IN  {j \in Items \ {i} : \A S \in SUBSET Items : Reached(S) => j \in S}

\* The guards every edit of content shares, mt being the metadata after it:
\* members of a finished batch and completed prepared members are frozen, and
\* once closeout has started no edit may void a receipt.
EditAllowed(i, mt) ==
    /\ Present(i)
    /\ ~Settled(i)
    /\ ~(receipt[i] # None /\ status[i] = "done")
    /\ receipt[i] # None \/ Downstream(i) # {} => ~CloseoutStarted(mt)
    /\ \A j \in Downstream(i) : status[j] # "done"

\* A content edit voids the item's own receipt and every receipt built on it.
VoidReceipts(i) ==
    /\ receipt' = [j \in Items |->
                     IF j = i \/ j \in Downstream(i) THEN None ELSE receipt[j]]
    /\ evidence' = [j \in Items |->
                     IF (j = i /\ receipt[i] # None) \/ j \in Downstream(i)
                     THEN None ELSE evidence[j]]

\* title, priority, description, acceptance, links
UpdateContent(i) ==
    /\ EditAllowed(i, meta[i])
    /\ VoidReceipts(i)
    /\ UNCHANGED <<itemVars, batchVars>>

\* Fault: only a direct self-dependency is looked for.
NeedsNotSelf(i, nd) ==
    /\ \A d \in nd : Present(d) /\ d # i
    /\ meta[i] # None => meta[i].deps \subseteq nd

\* Fault: a dependency that batch metadata names may be dropped.
NeedsBelowEdges(i, nd) ==
    /\ \A d \in nd : Present(d)
    /\ Acyclic([needs EXCEPT ![i] = nd])

\* Dependencies are known, acyclic, and never below the registered edges.
NeedsAllowed(i, nd) ==
    /\ \A d \in nd : Present(d)
    /\ Acyclic([needs EXCEPT ![i] = nd])
    /\ meta[i] # None => meta[i].deps \subseteq nd

\* needs
UpdateNeeds(i) ==
    \E nd \in NeedSets :
        /\ EditAllowed(i, meta[i])
        /\ NeedsAllowed(i, nd)
        /\ needs' = [needs EXCEPT ![i] = nd]
        /\ VoidReceipts(i)
        /\ UNCHANGED <<status, claim, holders, hold, meta, deferrals, batchVars>>

\* status: only parking and unparking, and not under a live claim.
UpdateStatus(i) ==
    \E s \in {"open", "blocked"} :
        /\ EditAllowed(i, meta[i])
        /\ status[i] \in {"open", "blocked"} \ {s}
        /\ ~ClaimLive(i)
        /\ status' = [status EXCEPT ![i] = s]
        /\ VoidReceipts(i)
        /\ UNCHANGED <<needs, claim, holders, hold, meta, deferrals, batchVars>>

\* not_before: set to a future time, or cleared.
UpdateHold(i) ==
    \E h \in 0..MaxHold :
        /\ EditAllowed(i, meta[i])
        /\ hold' = [hold EXCEPT ![i] = h]
        /\ VoidReceipts(i)
        /\ UNCHANGED <<status, needs, claim, holders, meta, deferrals, batchVars>>

\* batch: attached once; metadata already registered is immutable.
UpdateBatch(i) ==
    \E mt \in MetaInputs(needs[i]) \ {None} :
        /\ meta[i] = None
        /\ EditAllowed(i, mt)
        /\ MetaAllowed(i, needs[i], mt)
        /\ meta' = [meta EXCEPT ![i] = mt]
        /\ VoidReceipts(i)
        /\ UNCHANGED <<status, needs, claim, holders, hold, deferrals, batchVars>>

Update(i) ==
    \/ UpdateContent(i)
    \/ UpdateNeeds(i)
    \/ UpdateStatus(i)
    \/ UpdateHold(i)
    \/ UpdateBatch(i)

-----------------------------------------------------------------------------
\* Claims

\* Fault: the claim keeps its generation, so earlier holders keep theirs.
GrantSameGeneration(p, i) ==
    /\ claim' = [claim EXCEPT ![i] = [worker |-> Actor[p], left |-> TTL]]
    /\ status' = [status EXCEPT ![i] = "active"]
    /\ holders' = [holders EXCEPT ![i] = @ \cup {p}]

\* A claim for p's worker under a new generation.  The image that made the call learns
\* the generation from the acknowledgement, so a lost reply leaves the claim
\* to nobody; every generation handed out before is stale.
GrantClaim(p, i) ==
    /\ claim' = [claim EXCEPT ![i] = [worker |-> Actor[p], left |-> TTL]]
    /\ status' = [status EXCEPT ![i] = "active"]
    /\ \E known \in {{p}, {}} : holders' = [holders EXCEPT ![i] = known]

DropClaim(i) ==
    /\ claim' = [claim EXCEPT ![i] = None]
    /\ holders' = [holders EXCEPT ![i] = {}]

MayClaim(p, i) ==
    /\ Present(i)
    /\ SlotFree(Actor[p], i)
    /\ TakeReady(i)
    /\ OwnerMayClaim(Actor[p], i)

\* Fault: closed items are not told from open ones.
TakeableClosed(w, i) == ClaimLive(i) => claim[i].worker = w

\* The worker's own live claim, or work that nobody holds and nobody closed.
Takeable(w, i) ==
    \/ ClaimLive(i) /\ claim[i].worker = w
    \/ ~ClaimLive(i) /\ status[i] \in Live

\* take
Take(p, i) ==
    /\ MayClaim(p, i)
    /\ Takeable(Actor[p], i)
    /\ GrantClaim(p, i)
    /\ UNCHANGED <<needs, hold, meta, deferrals, proofVars, batchVars>>

\* takeover: replaces a live claim of another worker, the expected holder.
Takeover(p, i) ==
    /\ MayClaim(p, i)
    /\ ClaimLive(i)
    /\ status[i] = "active"
    /\ claim[i].worker # Actor[p]
    /\ GrantClaim(p, i)
    /\ UNCHANGED <<needs, hold, meta, deferrals, proofVars, batchVars>>

\* renew: extends the claim whose credentials match, expired or not.
Renew(p, i) ==
    /\ Present(i)
    /\ HoldsClaim(p, i)
    /\ claim' = [claim EXCEPT ![i].left = TTL]
    /\ UNCHANGED <<status, needs, holders, hold, meta, deferrals, proofVars, batchVars>>

Release(p, i) ==
    /\ Present(i)
    /\ HoldsClaim(p, i)
    /\ DropClaim(i)
    /\ status' = [status EXCEPT ![i] = IF @ = "active" THEN "open" ELSE @]
    /\ UNCHANGED <<needs, hold, meta, deferrals, proofVars, batchVars>>

-----------------------------------------------------------------------------
\* Closing

\* What finish asks of every item.
FinishAllowed(p, i) ==
    /\ Present(i)
    /\ hold[i] = 0
    /\ HoldsClaim(p, i)
    /\ OwnerMayClaim(Actor[p], i)
    /\ OpenRows(i) = {}
    /\ meta[i] # None => ActiveBatch(meta[i].batch) /\ batches[meta[i].batch].v2

\* finish, for an item without batch metadata.
FinishPlain(p, i) ==
    /\ FinishAllowed(p, i)
    /\ meta[i] = None
    /\ receipt[i] = None
    /\ DropClaim(i)
    /\ status' = [status EXCEPT ![i] = "done"]
    /\ UNCHANGED <<needs, hold, meta, deferrals, proofVars, batchVars>>

\* Fault: any bound PR will do, whatever head it is bound to.
EvidenceForAnyPR(b, acc) ==
    /\ batches[b].finalPR # None
    /\ ReceiptHolders(b) = batches[b].members
    /\ AcceptanceRequired(b) \subseteq acc
    /\ acc \subseteq ReceiptHolders(b)

\* _validate_batch_final_evidence and _validate_current_acceptance: evidence
\* at the registered head, which the final PR is bound to, over the receipts
\* of every declared member, with acc the members reverified at that head.
EvidenceValid(b, acc) ==
    /\ batches[b].finalPR = IntegrationHead(b)
    /\ ReceiptHolders(b) = batches[b].members
    /\ AcceptanceRequired(b) \subseteq acc
    /\ acc \subseteq ReceiptHolders(b)

\* Fault: members nobody claims count as finished.
NoneClaimed(b, i) == \A m \in batches[b].members \ {i} : claim[m] = None

LastMember(b, i) == \A m \in batches[b].members \ {i} : status[m] = "done"

\* finish, for a prepared member; the last one completes the batch.
FinishMember(p, i) ==
    /\ FinishAllowed(p, i)
    /\ meta[i] # None
    /\ receipt[i] # None
    /\ LET b == meta[i].batch IN
       /\ \E acc \in SUBSET Items :
             /\ EvidenceValid(b, acc)
             /\ evidence' = [evidence EXCEPT ![i] = [head |-> IntegrationHead(b), accepted |-> acc]]
       /\ batches' = IF LastMember(b, i)
                     THEN [batches EXCEPT ![b].lifecycle = "completed"]
                     ELSE batches
    /\ DropClaim(i)
    /\ status' = [status EXCEPT ![i] = "done"]
    /\ UNCHANGED <<schema, needs, hold, meta, deferrals, receipt>>

\* drop: needs the holder's credentials only under a live claim.
Drop(p, i) ==
    /\ status[i] \in Live
    /\ ~(meta[i] # None /\ ActiveBatch(meta[i].batch) /\ receipt[i] # None)
    /\ ClaimLive(i) => HoldsClaim(p, i)
    /\ DropClaim(i)
    /\ status' = [status EXCEPT ![i] = "dropped"]
    /\ UNCHANGED <<needs, hold, meta, deferrals, proofVars, batchVars>>

-----------------------------------------------------------------------------
\* Environment

\* Time passes: every expiry and hold comes one tick nearer.
Tick ==
    /\ claim' = [i \in Items |->
                   IF ClaimLive(i) THEN [claim[i] EXCEPT !.left = @ - 1] ELSE claim[i]]
    /\ hold' = [i \in Items |-> IF hold[i] > 0 THEN hold[i] - 1 ELSE 0]
    /\ UNCHANGED <<status, needs, holders, meta, deferrals, proofVars, batchVars>>

\* A process image dies and forgets its generations.
Restart(p) ==
    /\ holders' = [i \in Items |-> holders[i] \ {p}]
    /\ UNCHANGED <<status, needs, claim, hold, meta, deferrals, proofVars, batchVars>>

ItemNext ==
    \/ \E i \in Items : Create(i) \/ Update(i)
    \/ \E p \in Procs, i \in Items :
          \/ Take(p, i)
          \/ Takeover(p, i)
          \/ Renew(p, i)
          \/ Release(p, i)
          \/ FinishPlain(p, i)
          \/ FinishMember(p, i)
          \/ Drop(p, i)
    \/ \E p \in Procs : Restart(p)
    \/ Tick
=============================================================================
