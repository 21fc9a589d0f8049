---------------------------- MODULE TrackerState ----------------------------
(***************************************************************************)
(* The tracker snapshot (index.json and the item details it names) and the *)
(* pure reads over it that the operations of src/tractable/store.py and    *)
(* service.py share.  The operations themselves are in ItemOps,            *)
(* DeferralOps and BatchOps; Tracker composes them.  A definition whose    *)
(* comment starts with "Fault" is no part of the model: it is a bug that   *)
(* one of the properties must catch when it replaces the definition below. *)
(*                                                                         *)
(* One step of the model is one accepted commit on the state branch: every *)
(* operation reads a snapshot at the tip and publishes its successor with  *)
(* a compare-and-swap push (git_backend.mutate), so operations of several  *)
(* processes interleave as wholes.                                         *)
(*                                                                         *)
(* Time is relative.  An expiry or hold is kept as the number of ticks     *)
(* until it passes; Tick moves every clock at once.                        *)
(***************************************************************************)
EXTENDS Naturals, FiniteSets, Sequences

CONSTANTS
    Items,         \* task IDs
    Order,         \* the position of each ID among the sorted keys of index.json
    Workers,       \* actor names
    Procs,         \* process images; several may run as one worker
    Actor,         \* the worker each process image runs as
    Batches,       \* batch IDs
    OwnerGens,     \* owner generations callers may choose
    Paths,         \* repository paths
    Scope,         \* the scope manifest a leader registers: paths per item
    Successor,     \* the derived ID "<item>-deferral-<n>", per item and row
    NeedSets,      \* dependency lists a caller may pass
    MemberSets,    \* member lists a leader may register
    DevelopRefs,   \* batches registered with a develop_ref
    LegacyMembers, \* members of the v1 batch each batch ID starts as, or {}
    TTL,           \* ticks a fresh claim lives
    MaxHold,       \* bound: ticks a not_before hold may lie ahead
    MaxRows,       \* bound: deferral rows per item
    MaxLog,        \* bound: integration log entries per batch
    MaxEpoch,      \* bound: owner recoveries per batch
    None           \* an absent claim, receipt, record or target

VARIABLES
    schema,    \* index schema_version: 3 or 4
    status,    \* status of each item, "absent" when the index has no entry
    needs,     \* dependency edges
    claim,     \* worker and ticks left of each item's claim, or None
    holders,   \* images holding the generation of the item's current claim
    hold,      \* ticks until not_before passes; 0 when unset or past
    meta,      \* detail["batch"]: batch and implementation dependencies
    receipt,   \* detail["prepared"]
    evidence,  \* detail["final_evidence"]
    deferrals, \* deferral rows; a row's id is its position
    batches    \* the batch registry

itemVars == <<status, needs, claim, holders, hold, meta, deferrals>>
batchVars == <<schema, batches>>
proofVars == <<receipt, evidence>>
vars == <<itemVars, proofVars, batchVars>>

-----------------------------------------------------------------------------
\* Record sets

Live == {"open", "blocked", "active"}
Terminal == {"done", "dropped"}
Statuses == Live \cup Terminal
AdvanceKinds == {"start", "prepare", "reprepare", "fix", "develop-merge"}

Claim == [worker : Workers, left : 0..TTL]
Lease == [worker : Workers, running : BOOLEAN]
Meta == [batch : Batches, deps : SUBSET Items]

\* A head is named by the position of the log entry that introduced it, and
\* the accepted member head of a receipt by the entry that integrated it.
Receipt == [batch : Batches, epoch : Nat, seq : Nat, head : Nat, base : Nat,
            files : SUBSET Paths, overMembers : SUBSET Items,
            overFixes : SUBSET Nat]
Evidence == [head : Nat, accepted : SUBSET Items]
Row == [resolution : {"open", "promoted", "dismissed"},
        target : Items \cup {None}]
LogEntry == [kind : AdvanceKinds, head : Nat, member : Items \cup {None},
             files : SUBSET Paths, requires : SUBSET Items]
Integrated == [seq : Nat, head : Nat, files : SUBSET Paths]
BatchRecord ==
    [v2 : BOOLEAN, lifecycle : {"active", "completed", "aborted"},
     owner : Workers, gen : OwnerGens, epoch : Nat, members : SUBSET Items,
     log : Seq(LogEntry), finalPR : Nat \cup {None},
     integrated : [Items -> Integrated \cup {None}]]

ASSUME ActorAssumption == Actor \in [Procs -> Workers]
ASSUME OrderAssumption ==
    /\ Order \in [Items -> Nat]
    /\ \A i, j \in Items : i # j => Order[i] # Order[j]
ASSUME TimeAssumption == TTL \in Nat \ {0} /\ MaxHold \in Nat
ASSUME BoundAssumption == MaxRows \in Nat /\ MaxLog \in Nat /\ MaxEpoch \in Nat
ASSUME InputAssumption ==
    /\ Scope \in [Items -> SUBSET Paths]
    /\ Successor \in [Items -> [1..MaxRows -> Items \cup {None}]]
    /\ NeedSets \subseteq SUBSET Items
    /\ MemberSets \subseteq SUBSET Items
    /\ DevelopRefs \subseteq Batches
    /\ LegacyMembers \in [Batches -> SUBSET Items]
    /\ \A b, c \in Batches : b # c => LegacyMembers[b] \cap LegacyMembers[c] = {}
ASSUME NoneAssumption ==
    /\ None \notin Claim
    /\ None \notin Lease
    /\ None \notin Meta
    /\ None \notin Receipt
    /\ None \notin Evidence
    /\ None \notin Integrated
    /\ None \notin BatchRecord
    /\ None \notin Items
    /\ None \notin Nat

-----------------------------------------------------------------------------
\* Items

Present(i) == status[i] # "absent"

\* Fault: expiry is never looked at.
ClaimStored(i) == claim[i] # None

\* claim_is_live: an expired claim stays in the index but no longer counts.
ClaimLive(i) == claim[i] # None /\ claim[i].left > 0

\* Fault: the worker's name is credential enough.
ClaimOfWorker(p, i) == claim[i] # None /\ claim[i].worker = Actor[p]

\* The holder's credentials: worker and generation of the stored claim.
\* Expiry is not part of the comparison.
HoldsClaim(p, i) ==
    /\ claim[i] # None
    /\ claim[i].worker = Actor[p]
    /\ p \in holders[i]

\* waiting_until: a hold parks open and blocked work only.
Waiting(i) == hold[i] > 0 /\ status[i] \in {"open", "blocked"}

OpenRows(i) == {n \in DOMAIN deferrals[i] : deferrals[i][n].resolution = "open"}

\* _check_cycles: every nonempty set of items has one that needs none of it.
Acyclic(nd) == \A S \in SUBSET Items : S # {} => \E i \in S : nd[i] \cap S = {}

-----------------------------------------------------------------------------
\* Batches

Registered(b) == batches[b] # None
ActiveBatch(b) == Registered(b) /\ batches[b].lifecycle = "active"

\* active_batch_of
BatchesOf(i) == {b \in Batches : ActiveBatch(b) /\ i \in batches[b].members}

\* Fault: a worker that still has its claim passes, whoever owns the batch now.
OwnerOrClaimant(w, i) ==
    \/ claim[i] # None /\ claim[i].worker = w
    \/ \A b \in BatchesOf(i) : batches[b].owner = w

\* require_member_owner: claims on active members are reserved to the owner.
OwnerMayClaim(w, i) == \A b \in BatchesOf(i) : batches[b].owner = w

\* integration_head and the sequence number the next log entry gets.
IntegrationHead(b) == batches[b].log[Len(batches[b].log)].head
NextSeq(b) == Len(batches[b].log)
EntryAt(b, s) == batches[b].log[s + 1]
LogHeads(b) == {batches[b].log[n].head : n \in DOMAIN batches[b].log}
FixSeqs(b) == {s \in 0..NextSeq(b) - 1 : EntryAt(b, s).kind = "fix"}

\* Fault: all members for any member.
AllDone(b) == \A m \in batches[b].members : status[m] = "done"

\* _closeout_or_done
AnyDone(b) == \E m \in batches[b].members : status[m] = "done"

\* _closeout_started, for batch metadata mt
CloseoutStarted(mt) ==
    mt # None /\ ActiveBatch(mt.batch) /\ AnyDone(mt.batch)

\* The batch the item's metadata names is over.
Settled(i) == meta[i] # None /\ Registered(meta[i].batch) /\ ~ActiveBatch(meta[i].batch)

\* _v2_receipts
ReceiptHolders(b) ==
    {m \in batches[b].members : receipt[m] # None /\ receipt[m].batch = b}

\* acceptance_required: members whose own verification must be rerun at the
\* final head, derived from the receipts' overlaps and the recorded fixes.
AcceptanceRequired(b) ==
    (UNION {receipt[m].overMembers : m \in ReceiptHolders(b)})
        \cup {m \in ReceiptHolders(b) : receipt[m].overFixes # {}}
        \cup (UNION {EntryAt(b, s).requires : s \in FixSeqs(b)})

\* is_ready, of one implementation dependency d that is not done: its receipt
\* is this batch's, registered, and d is not claimed again.
DependencyPrepared(i, d) ==
    LET b == meta[i].batch IN
    /\ receipt[d] # None
    /\ receipt[d].batch = b
    /\ Registered(b)
    /\ batches[b].v2
    /\ batches[b].integrated[d] # None
    /\ batches[b].integrated[d].seq = receipt[d].seq
    /\ meta[d] # None /\ meta[d].batch = b
    /\ claim[d] = None

\* is_ready
IsReady(i) ==
    /\ status[i] = "open"
    /\ ~ClaimLive(i)
    /\ ~Waiting(i)
    /\ \A d \in needs[i] :
          \/ status[d] = "done"
          \/ meta[i] # None /\ d \in meta[i].deps /\ DependencyPrepared(i, d)

\* has_prepared_edge: the item builds on work that is prepared, not done.
PreparedEdges(i) ==
    IF meta[i] = None THEN {}
    ELSE {d \in needs[i] \cap meta[i].deps : status[d] # "done"}

\* _batch_runtime_ready, with the Git checkout at the registered head.
RuntimeReady(i) == \A d \in meta[i].deps : status[d] = "done" \/ receipt[d] # None

\* _check_take_readiness
TakeReady(i) ==
    /\ ~Waiting(i)
    /\ PreparedEdges(i) # {} => IsReady(i) /\ RuntimeReady(i)

\* The live claims of w in the slot of item i.
HeldInSlot(w, i) ==
    {j \in Items : /\ ClaimLive(j)
                   /\ claim[j].worker = w
                   /\ BatchesOf(j) = BatchesOf(i)}

\* _held_claim finds none of them, or finds i itself: the scan stops at the
\* first one of the index, so another one before i stands in the way of i.
SlotFree(w, i) ==
    \A j \in HeldInSlot(w, i) : i \in HeldInSlot(w, i) /\ Order[i] <= Order[j]
=============================================================================
