------------------------------- MODULE Tracker -------------------------------
(***************************************************************************)
(* The whole tracker: its initial states, next-state relation and the      *)
(* properties stated of it.                                                *)
(***************************************************************************)
EXTENDS DeferralOps, BatchOps

-----------------------------------------------------------------------------
\* A tracker at schema 3: a fresh one, or one whose batches are v1 records with
\* their members enrolled.
LegacyBatch(b, w, g) ==
    [v2 |-> FALSE, lifecycle |-> "active", owner |-> w, gen |-> g, epoch |-> 0,
     members |-> LegacyMembers[b], log |-> <<>>,
     finalPR |-> None, integrated |-> [m \in Items |-> None]]

Enrolled == UNION {LegacyMembers[b] : b \in Batches}

Init ==
    /\ schema = 3
    /\ status = [i \in Items |-> IF i \in Enrolled THEN "open" ELSE "absent"]
    /\ needs = [i \in Items |-> {}]
    /\ claim = [i \in Items |-> None]
    /\ holders = [i \in Items |-> {}]
    /\ hold = [i \in Items |-> 0]
    /\ meta = [i \in Items |->
                 IF i \in Enrolled
                 THEN [batch |-> CHOOSE b \in Batches : i \in LegacyMembers[b],
                       deps |-> {}]
                 ELSE None]
    /\ receipt = [i \in Items |-> None]
    /\ evidence = [i \in Items |-> None]
    /\ deferrals = [i \in Items |-> <<>>]
    /\ \E w \in Workers, g \in OwnerGens :
          batches = [b \in Batches |->
                       IF LegacyMembers[b] = {} THEN None ELSE LegacyBatch(b, w, g)]

Next == ItemNext \/ DeferralNext \/ BatchNext

Spec == Init /\ [][Next]_vars

-----------------------------------------------------------------------------
\* Types

\* Every variable holds what index.json and the details may hold.
TypeOK ==
    /\ schema \in {3, 4}
    /\ status \in [Items -> Statuses \cup {"absent"}]
    /\ needs \in [Items -> SUBSET Items]
    /\ claim \in [Items -> Claim \cup {None}]
    /\ holders \in [Items -> SUBSET Procs]
    /\ hold \in [Items -> 0..MaxHold]
    /\ meta \in [Items -> Meta \cup {None}]
    /\ receipt \in [Items -> Receipt \cup {None}]
    /\ evidence \in [Items -> Evidence \cup {None}]
    /\ deferrals \in [Items -> Seq(Row)]
    /\ batches \in [Batches -> BatchRecord \cup {None}]

-----------------------------------------------------------------------------
\* The validator

\* validate_snapshot, over items: known acyclic dependencies, and claims on
\* active items only.
ValidItems ==
    /\ \A i \in Items : Present(i) =>
          /\ i \notin needs[i]
          /\ \A d \in needs[i] : Present(d)
    /\ Acyclic(needs)
    /\ \A i \in Items : claim[i] # None => status[i] = "active"

\* _validate_batch_v2_fields: the log is a chain from one start entry, and the
\* integration evidence points into it.
ValidLog(r) ==
    /\ r.log # <<>>
    /\ \A n \in DOMAIN r.log :
          LET e == r.log[n] IN
          /\ (n = 1) = (e.kind = "start")
          /\ e.kind = "fix" => e.requires \subseteq r.members
          /\ e.kind \in {"prepare", "reprepare"} => e.member \in r.members
          /\ n > 1 => (e.kind = "reprepare") = (e.head = r.log[n - 1].head)
    /\ \A m \in Items : r.integrated[m] # None =>
          /\ m \in r.members
          /\ r.integrated[m].seq \in 1..Len(r.log) - 1
          /\ r.log[r.integrated[m].seq + 1].head = r.integrated[m].head

\* _check_receipt_against_batch and the member checks of validate_snapshot.
ValidReceipt(i) ==
    LET r == receipt[i]
        rec == batches[r.batch]
    IN
    /\ meta[i] # None /\ meta[i].batch = r.batch
    /\ rec # None /\ rec.v2
    /\ i \in rec.members
    /\ rec.integrated[i] # None
    /\ rec.integrated[i].seq = r.seq
    /\ rec.integrated[i].head = r.head
    /\ r.epoch <= rec.epoch

\* validate_snapshot never refuses the snapshot an operation writes: every
\* commit on the state branch can be loaded again.
ValidSnapshot ==
    /\ ValidItems
    /\ \A b \in Batches : Registered(b) /\ batches[b].v2 =>
          schema = 4 /\ ValidLog(batches[b])
    /\ \A i \in Items : receipt[i] # None => ValidReceipt(i)
    /\ \A i \in Items : meta[i] # None =>
          /\ meta[i].deps \subseteq needs[i]
          /\ Registered(meta[i].batch)
          /\ i \in batches[meta[i].batch].members

-----------------------------------------------------------------------------
\* Claims

\* At most one process image can act on a claim, and only one of the claim's
\* worker: re-adoption, takeover and expiry leave no second credential behind.
SoleHolder ==
    \A i \in Items :
        /\ Cardinality(holders[i]) <= 1
        /\ \A p \in holders[i] : claim[i] # None /\ claim[i].worker = Actor[p]

\* A live claim never passes to another worker while an image can still use
\* it: the generation of the displaced claim is stale in the same commit.
TransferFences ==
    [][\A i \in Items :
          claim[i] # None /\ claim'[i] # None /\ claim'[i].worker # claim[i].worker
              => holders'[i] \cap holders[i] = {}]_vars

\* The claims implement the ledger of leases: while a claim is live only the
\* image that holds its generation extends it, gives the item back or closes it,
\* and nobody else ends it except by claiming the item anew.
LeaseOf(i) ==
    IF claim[i] = None THEN None
    ELSE [worker |-> claim[i].worker, running |-> claim[i].left > 0]
Ledger == INSTANCE ClaimLedger WITH
    Images <- Procs,
    lease <- [i \in Items |-> LeaseOf(i)],
    key <- holders,
    closed <- {i \in Items : status[i] \in Terminal}
RefinesLedger == Ledger!Spec

\* A closed item stays closed, and its evidence stays with it: no edit, claim,
\* abort or cascade of another item reopens it.
TerminalForever ==
    [][\A i \in Items : status[i] \in Terminal =>
          /\ status'[i] = status[i]
          /\ status[i] = "done" => evidence'[i] = evidence[i] /\ receipt'[i] = receipt[i]]_vars

-----------------------------------------------------------------------------
\* Deferrals

\* Finishing an item leaves no deferred work unresolved behind it.
NoOpenDeferralsWhenDone ==
    \A i \in Items : status[i] = "done" => OpenRows(i) = {}

\* A row is resolved once: a resolved row never changes, whatever retries and
\* races follow, and rows are never dropped.
RowsResolveOnce ==
    [][\A i \in Items : \A n \in DOMAIN deferrals[i] :
          /\ n \in DOMAIN deferrals'[i]
          /\ deferrals[i][n].resolution # "open" => deferrals'[i][n] = deferrals[i][n]]_vars

\* A promoted row names a task that exists and is not its source.
PromotionsLand ==
    \A i \in Items : \A n \in DOMAIN deferrals[i] :
        deferrals[i][n].resolution = "promoted" =>
            /\ deferrals[i][n].target \in Items \ {i}
            /\ Present(deferrals[i][n].target)

-----------------------------------------------------------------------------
\* Batches

\* An item belongs to at most one active batch, so the first batch found for
\* it (active_batch_of) is the only one.
OneActiveBatchPerItem == \A i \in Items : Cardinality(BatchesOf(i)) <= 1

\* After the cutover no v1 batch is active.
LegacyRetired ==
    schema = 4 => \A b \in Batches : ActiveBatch(b) => batches[b].v2

\* A receipt or final evidence is recorded only under a claim of the worker who
\* owns the batch at that moment: after a recovery the deposed owner's claim
\* on a member, still live, can no longer land work.
OwnerRecordsWork ==
    [][\A i \in Items :
          (receipt'[i] \notin {None, receipt[i]} \/ evidence'[i] \notin {None, evidence[i]})
              => /\ claim[i] # None
                 /\ \A o \in BatchesOf(i) : claim[i].worker = batches[o].owner]_vars

\* The integration log only grows, and ownership epochs only rise.
LogAppendOnly ==
    [][\A b \in Batches : Registered(b) =>
          /\ Registered(b)'
          /\ Len(batches'[b].log) >= Len(batches[b].log)
          /\ SubSeq(batches'[b].log, 1, Len(batches[b].log)) = batches[b].log
          /\ batches'[b].epoch >= batches[b].epoch
          /\ batches[b].lifecycle # "active" =>
                batches'[b].lifecycle = batches[b].lifecycle]_vars

\* Final evidence belongs to finished members, and every member closed under
\* it is closed at the same head: the one the final PR is bound to, over the
\* receipts of all declared members.
CloseoutComplete ==
    \A i \in Items : evidence[i] # None =>
        LET b == meta[i].batch IN
        /\ status[i] = "done"
        /\ meta[i] # None
        /\ batches[b].finalPR = evidence[i].head
        /\ IntegrationHead(b) = evidence[i].head
        /\ ReceiptHolders(b) = batches[b].members
        /\ \A m \in batches[b].members : status[m] # "dropped"

\* A batch completes with its last member and not before.
CompletedTogether ==
    \A b \in Batches : Registered(b) /\ batches[b].lifecycle = "completed" =>
        \A m \in batches[b].members : status[m] = "done"

\* The dependencies a prepared member was built on inside its batch are prepared
\* too, and were integrated before it: no receipt outlives that work.
DependentsFollow ==
    \A i \in Items : receipt[i] # None =>
        \A d \in meta[i].deps \cap batches[receipt[i].batch].members :
            /\ receipt[d] # None
            /\ receipt[d].batch = receipt[i].batch => receipt[d].seq < receipt[i].seq

\* Of two members that touch the same file, the earlier one is verified again
\* at the final head before any member of the batch closes.
LaterMembersReaccepted ==
    \A i \in Items : evidence[i] # None =>
        LET b == meta[i].batch IN
        \A m, n \in ReceiptHolders(b) :
            /\ receipt[m].seq < receipt[n].seq
            /\ receipt[m].files \cap receipt[n].files # {}
            => m \in evidence[i].accepted

\* A member whose files a leader's fix touched, and that was not built on the
\* fix, is verified again at the final head before any member closes.
FixesReaccepted ==
    \A i \in Items : evidence[i] # None =>
        LET b == meta[i].batch IN
        \A m \in ReceiptHolders(b), s \in FixSeqs(b) :
            /\ receipt[m].base < s
            /\ receipt[m].files \cap EntryAt(b, s).files # {}
            => m \in evidence[i].accepted

\* An open item whose metadata names a batch that is over: prepare, finish and
\* every edit refuse it.
Stranded(i) == Settled(i) /\ status[i] \in Live

\* The abort keeps its word (the comment at store.py:2312-2315): an item is
\* stranded neither by the abort nor by the completion of its batch, and by
\* nothing else but metadata attached for a batch that was aborted before.
OnlyMetadataStrands ==
    [][\A i \in Items : Stranded(i)' /\ ~Stranded(i) =>
          /\ meta[i] = None /\ meta'[i] # None
          /\ batches[meta'[i].batch] # None
          /\ batches[meta'[i].batch].lifecycle = "aborted"]_vars

-----------------------------------------------------------------------------
\* What the documents say of the program, and a run refutes.

\* "A worker holds one live claim outside any batch and one live claim per
\* active batch" (docs/operations/mcp-clients.md).
OneClaimPerSlot ==
    \A i, j \in Items :
        ClaimLive(i) /\ ClaimLive(j) /\ i # j /\ claim[i].worker = claim[j].worker
            => BatchesOf(i) # BatchesOf(j)

\* A restarted worker "can adopt or resume its active claim without releasing
\* or re-queuing" (docs/adr/0003-claim-coordinated-agent-workflow.md).
AdoptionNeverRefused ==
    \A p \in Procs, i \in Items :
        /\ ClaimLive(i)
        /\ claim[i].worker = Actor[p]
        /\ OwnerMayClaim(Actor[p], i)
        => MayClaim(p, i)

\* "Once all members finish, the batch is completed" (references/batch.md).
BatchCompletes ==
    [][\A b \in Batches :
          /\ ActiveBatch(b) /\ batches[b].v2
          /\ \E m \in batches[b].members : status[m] # "done"
          /\ \A m \in batches[b].members : status'[m] = "done"
          => batches'[b].lifecycle = "completed"]_vars
=============================================================================
