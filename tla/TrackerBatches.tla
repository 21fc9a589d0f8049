--------------------------- MODULE TrackerBatches ---------------------------
(***************************************************************************)
(* The safety of the batch registry, for every value of the constants: the *)
(* schema cutover, exclusive membership, append-only history, completion   *)
(* with the last member, and recording of work by the owner alone.         *)
(***************************************************************************)
EXTENDS TrackerSafety

-----------------------------------------------------------------------------
\* What one step does to a batch: enrol it, or move a registered record on.

\* The record of b is new, and no other record changes.
Enrols(b) ==
    /\ batches[b] = None
    /\ batches'[b].v2 /\ batches'[b].lifecycle = "active"
    /\ NoOverlap(batches'[b].members)
    /\ schema' = 4
    /\ schema = 3 => \A o \in Batches : ~ActiveBatch(o)
    /\ \A o \in Batches \ {b} : batches'[o] = batches[o]

\* The record of b keeps its version, its members and its history; it ends
\* once, as completed only when its last member is done, and as aborted only
\* when none of them is held.
MovesOn(b) ==
    /\ batches[b] # None /\ batches'[b] # None
    /\ batches'[b].v2 = batches[b].v2
    /\ batches'[b].members = batches[b].members
    /\ batches'[b].epoch >= batches[b].epoch
    /\ \/ batches'[b].log = batches[b].log
       \/ \E e \in LogEntry : batches'[b].log = Append(batches[b].log, e)
    /\ \/ batches'[b].lifecycle = batches[b].lifecycle
       \/ /\ batches[b].lifecycle = "active"
          /\ batches'[b].lifecycle = "completed" =>
                \A m \in batches[b].members : status'[m] = "done"
          /\ batches'[b].lifecycle = "aborted" =>
                \A m \in batches[b].members : ~ClaimLive(m)
    /\ schema' = schema

BatchMoves(b) ==
    \/ batches'[b] = batches[b] /\ (schema' = schema \/ \E c \in Batches \ {b} : Enrols(c))
    \/ Enrols(b)
    \/ MovesOn(b)

\* A record written for c, and nothing else, moves every batch.
LEMMA RecordSet ==
    ASSUME TypeInv, NEW c \in Batches, NEW r \in BatchRecord, Registered(c),
           batches' = [batches EXCEPT ![c] = r], schema' = schema,
           r.v2 = batches[c].v2, r.members = batches[c].members,
           r.epoch >= batches[c].epoch,
           \/ r.log = batches[c].log
           \/ \E e \in LogEntry : r.log = Append(batches[c].log, e),
           \/ r.lifecycle = batches[c].lifecycle
           \/ /\ batches[c].lifecycle = "active"
              /\ r.lifecycle = "completed" => \A m \in batches[c].members : status'[m] = "done"
              /\ r.lifecycle = "aborted" => \A m \in batches[c].members : ~ClaimLive(m),
           NEW b \in Batches
    PROVE  BatchMoves(b)
  <1>1. batches \in [Batches -> BatchRecord \cup {None}]
    BY DEF TypeInv, TypeOK
  <1>2. r # None
    BY NoneAssumption
  <1>3. CASE b = c
    BY <1>1, <1>2, <1>3 DEF BatchMoves, MovesOn, Registered
  <1>4. CASE b # c
    BY <1>1, <1>4 DEF BatchMoves
  <1> QED
    BY <1>3, <1>4

\* A member that closes last completes its batch, and no other step does.
LEMMA FinishMoves ==
    ASSUME ClaimInv, NEW p \in Procs, NEW i \in Items, FinishMember(p, i), NEW b \in Batches
    PROVE  BatchMoves(b)
  <1> DEFINE c == meta[i].batch
             r == [batches[c] EXCEPT !.lifecycle = "completed"]
  <1>1. /\ c \in Batches /\ ActiveBatch(c) /\ Registered(c) /\ batches[c] \in BatchRecord
        /\ TypeInv /\ status \in [Items -> Statuses \cup {"absent"}]
    BY DEF FinishMember, FinishAllowed, ActiveBatch, Registered, ClaimInv, TypeInv, TypeOK, Meta
  <1>2. schema' = schema /\ status' = [status EXCEPT ![i] = "done"]
    BY DEF FinishMember
  <1>3. batches' = IF LastMember(c, i) THEN [batches EXCEPT ![c].lifecycle = "completed"] ELSE batches
    BY DEF FinishMember
  <1>4. CASE ~LastMember(c, i)
    BY <1>2, <1>3, <1>4 DEF BatchMoves
  <1>5. CASE LastMember(c, i)
    <2>1. batches' = [batches EXCEPT ![c] = r]
      BY <1>3, <1>5
    <2>2. /\ r \in BatchRecord
          /\ r.v2 = batches[c].v2 /\ r.members = batches[c].members
          /\ r.epoch >= batches[c].epoch /\ r.log = batches[c].log
      BY <1>1 DEF BatchRecord
    <2>3. batches[c].members \subseteq Items
      BY <1>1 DEF BatchRecord
    <2>4. \A m \in batches[c].members : status'[m] = "done"
      BY <1>1, <1>2, <1>5, <2>3 DEF LastMember
    <2>5. batches[c].lifecycle = "active" /\ r.lifecycle = "completed"
      BY <1>1 DEF ActiveBatch, BatchRecord
    <2> HIDE DEF r, c
    <2> QED
      BY <1>1, <1>2, <2>1, <2>2, <2>4, <2>5, RecordSet
  <1> QED
    BY <1>4, <1>5

\* Landing a member appends to the log of its batch.
LEMMA PrepareMoves ==
    ASSUME ClaimInv, NEW p \in Procs, NEW i \in Items, Prepare(p, i), NEW b \in Batches
    PROVE  BatchMoves(b)
  <1> DEFINE c == meta[i].batch
  <1>1. /\ c \in Batches /\ Registered(c) /\ batches[c] \in BatchRecord
        /\ TypeInv
        /\ batches \in [Batches -> BatchRecord \cup {None}]
    BY DEF Prepare, PrepareAt, ActiveBatch, Registered, ClaimInv, TypeInv, TypeOK, Meta
  <1>2. PICK e, x : /\ batches' = [batches EXCEPT ![c] =
                                     [batches[c] EXCEPT !.log = Append(@, e), !.integrated[i] = x]]
                    /\ e \in LogEntry /\ x \in Integrated
    <2>1. PICK base \in LogHeads(c), files \in SUBSET Scope[i], again \in BOOLEAN :
             PrepareAt(p, i, base, files, again)
      BY DEF Prepare
    <2> DEFINE head == IF again THEN IntegrationHead(c) ELSE NextSeq(c)
               e == [kind |-> IF again THEN "reprepare" ELSE "prepare",
                     head |-> head, member |-> i, files |-> {}, requires |-> {}]
               x == [seq |-> NextSeq(c), head |-> head, files |-> files]
    <2>2. batches' = [batches EXCEPT ![c] =
                        [batches[c] EXCEPT !.log = Append(@, e), !.integrated[i] = x]]
      BY <2>1 DEF PrepareAt
    <2>3. batches[c].v2
      BY <2>1 DEF PrepareAt
    <2>4. NextSeq(c) \in Nat /\ IntegrationHead(c) \in Nat
      BY <1>1, <2>3, SeqTypes, HeadTypes
    <2>5. e \in LogEntry
      BY <2>4 DEF LogEntry, AdvanceKinds
    <2>6. x \in Integrated
      BY <2>1, <2>4, InputAssumption DEF PrepareAt, Integrated
    <2> QED
      BY <2>2, <2>5, <2>6
  <1> DEFINE r == [batches[c] EXCEPT !.log = Append(@, e), !.integrated[i] = x]
  <1>3. r.v2 = batches[c].v2 /\ r.members = batches[c].members /\ r.epoch = batches[c].epoch
    BY <1>1 DEF BatchRecord
  <1>4. r.log = Append(batches[c].log, e) /\ r.lifecycle = batches[c].lifecycle
    BY <1>1 DEF BatchRecord
  <1>5. batches' = [batches EXCEPT ![c] = r] /\ schema' = schema
    BY <1>2 DEF Prepare, PrepareAt
  <1> HIDE DEF r, c
  <1>6. r \in BatchRecord
    <2>1. [batches[c] EXCEPT !.log = Append(@, e)] \in BatchRecord
      BY <1>1, <1>2, EntryAppended
    <2> QED
      BY <1>1, <1>2, <2>1 DEF BatchRecord, r
  <1>7. r.epoch >= batches[c].epoch
    BY <1>1, <1>3 DEF BatchRecord
  <1> QED
    BY <1>1, <1>2, <1>3, <1>4, <1>5, <1>6, <1>7, RecordSet

\* Enrolment writes a new record beside the others.
LEMMA RegisterMoves ==
    ASSUME ClaimInv, NEW p \in Procs, NEW c \in Batches, NEW g \in OwnerGens, NEW M \in MemberSets,
           RegisterBatch(p, c, M, g), NEW b \in Batches
    PROVE  BatchMoves(b)
  <1>1. batches \in [Batches -> BatchRecord \cup {None}] /\ schema \in {3, 4}
    BY DEF ClaimInv, TypeInv, TypeOK
  <1>2. PICK r : /\ batches' = [batches EXCEPT ![c] = r]
                 /\ r.v2 /\ r.lifecycle = "active" /\ r.members = M
    <2> DEFINE r == [v2 |-> TRUE, lifecycle |-> "active", owner |-> Actor[p], gen |-> g,
                     epoch |-> 0, members |-> M, finalPR |-> None,
                     log |-> <<[kind |-> "start", head |-> 0, member |-> None,
                                files |-> {}, requires |-> {}]>>,
                     integrated |-> [m \in Items |-> None]]
    <2>1. batches' = [batches EXCEPT ![c] = r]
      BY DEF RegisterBatch
    <2>2. r.v2 /\ r.lifecycle = "active" /\ r.members = M
      OBVIOUS
    <2> HIDE DEF r
    <2> QED
      BY <2>1, <2>2
  <1>3. batches'[c] = r /\ \A o \in Batches \ {c} : batches'[o] = batches[o]
    BY <1>1, <1>2
  <1>4. /\ batches[c] = None /\ NoOverlap(M) /\ schema' = 4
        /\ schema = 3 => \A o \in Batches : ~ActiveBatch(o)
    BY DEF RegisterBatch, Registrable, Registered, Quiescent
  <1>5. Enrols(c)
    BY <1>2, <1>3, <1>4 DEF Enrols
  <1> QED
    BY <1>3, <1>5 DEF BatchMoves

\* The owner's other calls rewrite one record.
LEMMA OwnerMoves ==
    ASSUME ClaimInv, NEW p \in Procs, NEW c \in Batches, NEW g \in OwnerGens,
           \/ \E files \in SUBSET Paths : AdvanceFix(p, c, g, files)
           \/ AdvanceMerge(p, c, g)
           \/ BindPR(p, c, g)
           \/ RebindPR(p, c, g)
           \/ \E new \in OwnerGens : RecoverOwner(p, c, g, new)
           \/ AbortBatch(p, c, g),
           NEW b \in Batches
    PROVE  BatchMoves(b)
  <1>1. /\ Registered(c) /\ batches[c] \in BatchRecord /\ batches[c].lifecycle = "active"
        /\ TypeInv
    <2>1. ActiveBatch(c)
      BY DEF AdvanceFix, AdvanceMerge, AdvanceAllowed, BindPR, RebindPR, OwnedBatch,
             RecoverOwner, AbortBatch
    <2> QED
      BY <2>1 DEF ActiveBatch, Registered, ClaimInv, TypeInv, TypeOK
  <1>2. schema' = schema
    BY DEF AdvanceFix, AdvanceMerge, BindPR, RebindPR, RecoverOwner, AbortBatch
  <1>3. ASSUME NEW kind \in AdvanceKinds, NEW files \in SUBSET Paths, NEW requires \in SUBSET Items,
               Advanced(c, kind, files, requires)
        PROVE  BatchMoves(b)
    <2> DEFINE e == [kind |-> kind, head |-> NextSeq(c), member |-> None,
                     files |-> files, requires |-> requires]
               r == [batches[c] EXCEPT !.log = Append(@, e)]
    <2>1. e \in LogEntry
      BY <1>1, SeqTypes DEF LogEntry
    <2>2. batches' = [batches EXCEPT ![c] = r]
      BY <1>3 DEF Advanced
    <2> HIDE DEF e
    <2>3. r \in BatchRecord
      BY <1>1, <2>1, EntryAppended
    <2>4. /\ r.v2 = batches[c].v2 /\ r.members = batches[c].members
          /\ r.epoch >= batches[c].epoch /\ r.lifecycle = batches[c].lifecycle
          /\ r.log = Append(batches[c].log, e)
      BY <1>1 DEF BatchRecord
    <2> HIDE DEF r
    <2> QED
      BY <1>1, <1>2, <2>1, <2>2, <2>3, <2>4, RecordSet
  <1>4. ASSUME NEW files \in SUBSET Paths, AdvanceFix(p, c, g, files) PROVE BatchMoves(b)
    <2>1. {m \in ReceiptHolders(c) : receipt[m].files \cap files # {}} \in SUBSET Items
      BY <1>1 DEF ReceiptHolders, BatchRecord
    <2> QED
      BY <1>3, <1>4, <2>1 DEF AdvanceFix, AdvanceKinds
  <1>5. CASE AdvanceMerge(p, c, g)
    BY <1>3, <1>5 DEF AdvanceMerge, AdvanceKinds
  <1>6. CASE BindPR(p, c, g) \/ RebindPR(p, c, g)
    <2> DEFINE r == [batches[c] EXCEPT !.finalPR = IntegrationHead(c)]
    <2>1. batches[c].v2
      BY <1>6 DEF BindPR, RebindPR, OwnedBatch
    <2>2. r \in BatchRecord
      BY <1>1, <2>1, HeadTypes DEF BatchRecord
    <2>3. batches' = [batches EXCEPT ![c] = r]
      BY <1>6 DEF BindPR, RebindPR
    <2>4. /\ r.v2 = batches[c].v2 /\ r.members = batches[c].members
          /\ r.epoch >= batches[c].epoch /\ r.lifecycle = batches[c].lifecycle
          /\ r.log = batches[c].log
      BY <1>1 DEF BatchRecord
    <2> HIDE DEF r
    <2> QED
      BY <1>1, <1>2, <2>2, <2>3, <2>4, RecordSet
  <1>7. ASSUME NEW new \in OwnerGens, RecoverOwner(p, c, g, new) PROVE BatchMoves(b)
    <2> DEFINE r == [batches[c] EXCEPT !.owner = Actor[p], !.gen = new, !.epoch = @ + 1]
    <2>1. batches[c].epoch + 1 \in Nat /\ Actor[p] \in Workers
      BY <1>1, ActorAssumption DEF BatchRecord
    <2>2. r \in BatchRecord
      BY <1>1, <2>1 DEF BatchRecord
    <2>3. batches' = [batches EXCEPT ![c] = r]
      BY <1>7 DEF RecoverOwner
    <2>4. /\ r.v2 = batches[c].v2 /\ r.members = batches[c].members
          /\ r.epoch >= batches[c].epoch /\ r.lifecycle = batches[c].lifecycle
          /\ r.log = batches[c].log
      BY <1>1 DEF BatchRecord
    <2> HIDE DEF r
    <2> QED
      BY <1>1, <1>2, <2>2, <2>3, <2>4, RecordSet
  <1>8. CASE AbortBatch(p, c, g)
    <2> DEFINE r == [batches[c] EXCEPT !.lifecycle = "aborted", !.integrated = [m \in Items |-> None]]
    <2>1. r \in BatchRecord
      BY <1>1 DEF BatchRecord
    <2>2. batches' = [batches EXCEPT ![c] = r]
      BY <1>8 DEF AbortBatch
    <2>3. /\ r.v2 = batches[c].v2 /\ r.members = batches[c].members
          /\ r.epoch >= batches[c].epoch /\ r.lifecycle = "aborted"
          /\ r.log = batches[c].log
      BY <1>1 DEF BatchRecord
    <2>4. \A m \in batches[c].members : ~ClaimLive(m)
      BY <1>8 DEF AbortBatch
    <2> HIDE DEF r
    <2> QED
      BY <1>1, <1>2, <2>1, <2>2, <2>3, <2>4, RecordSet
  <1> QED
    BY <1>4, <1>5, <1>6, <1>7, <1>8

\* Every step of the tracker moves every batch in one of these ways.
LEMMA BatchSteps ==
    ASSUME ClaimInv, [Next]_vars, NEW b \in Batches
    PROVE  BatchMoves(b)
  <1>1. ASSUME UNCHANGED batchVars PROVE BatchMoves(b)
    BY <1>1 DEF batchVars, BatchMoves
  <1>2. CASE UNCHANGED vars
    BY <1>1, <1>2 DEF vars
  <1>3. CASE ItemNext
    <2>1. ASSUME NEW j \in Items, Create(j) \/ Update(j) PROVE BatchMoves(b)
      BY <1>1, <2>1, Zenon
      DEF Create, Update, UpdateContent, UpdateNeeds, UpdateStatus, UpdateHold, UpdateBatch
    <2>2. ASSUME NEW p \in Procs, NEW j \in Items,
                 \/ Take(p, j) \/ Takeover(p, j) \/ Renew(p, j) \/ Release(p, j)
                 \/ FinishPlain(p, j) \/ Drop(p, j)
          PROVE  BatchMoves(b)
      BY <1>1, <2>2, Zenon DEF Take, Takeover, Renew, Release, FinishPlain, Drop
    <2>3. CASE Tick \/ \E p \in Procs : Restart(p)
      BY <1>1, <2>3 DEF Tick, Restart
    <2> QED
      BY <1>3, <2>1, <2>2, <2>3, FinishMoves DEF ItemNext
  <1>4. CASE DeferralNext
    BY <1>1, <1>4, Zenon DEF DeferralNext, Defer, PromoteLink, PromoteCreate, Dismiss
  <1>5. CASE BatchNext
    BY <1>5, PrepareMoves, RegisterMoves, OwnerMoves DEF BatchNext
  <1> QED
    BY <1>2, <1>3, <1>4, <1>5 DEF Next

-----------------------------------------------------------------------------
\* The registry.

\* After the schema cutover no v1 batch is active: the cutover waits for the
\* old batches, and nothing revives or enrols one afterwards.
THEOREM LegacyRetiredHolds == Spec => []LegacyRetired
  <1>1. Init => LegacyRetired
    BY DEF Init, LegacyRetired
  <1>2. ClaimInv /\ LegacyRetired /\ [Next]_vars => LegacyRetired'
    <2> SUFFICES ASSUME ClaimInv, LegacyRetired, [Next]_vars, schema' = 4,
                        NEW b \in Batches, batches'[b] # None, batches'[b].lifecycle = "active"
                 PROVE  batches'[b].v2
      BY DEF LegacyRetired, ActiveBatch, Registered
    <2>1. schema \in {3, 4}
      BY DEF ClaimInv, TypeInv, TypeOK
    <2>2. CASE batches'[b] = batches[b] /\ \E c \in Batches \ {b} : Enrols(c)
      BY <2>1, <2>2 DEF Enrols, LegacyRetired, ActiveBatch, Registered
    <2>3. CASE batches'[b] = batches[b] /\ schema' = schema
      BY <2>3 DEF LegacyRetired, ActiveBatch, Registered
    <2>4. CASE Enrols(b)
      BY <2>4 DEF Enrols
    <2>5. CASE MovesOn(b)
      BY <2>5 DEF MovesOn, LegacyRetired, ActiveBatch, Registered
    <2> QED
      BY <2>2, <2>3, <2>4, <2>5, BatchSteps DEF BatchMoves
  <1> QED
    BY <1>1, <1>2, ClaimsHold, PTL DEF Spec

\* Active batches share no member.
Disjoint ==
    \A b, c \in Batches : ActiveBatch(b) /\ ActiveBatch(c) /\ b # c =>
        batches[b].members \cap batches[c].members = {}

\* Enrolment refuses members of active batches, and no batch becomes active again.
THEOREM DisjointHolds == Spec => []Disjoint
  <1>1. Init => Disjoint
    BY InputAssumption DEF Init, Disjoint, ActiveBatch, Registered, LegacyBatch
  <1>2. ClaimInv /\ Disjoint /\ [Next]_vars => Disjoint'
    <2> SUFFICES ASSUME ClaimInv, Disjoint, [Next]_vars, NEW b \in Batches, NEW c \in Batches, b # c,
                        batches'[b] # None, batches'[b].lifecycle = "active",
                        batches'[c] # None, batches'[c].lifecycle = "active"
                 PROVE  batches'[b].members \cap batches'[c].members = {}
      BY DEF Disjoint, ActiveBatch, Registered
    <2>1. ASSUME NEW d \in Batches, ~Enrols(d), batches'[d] # None, batches'[d].lifecycle = "active"
          PROVE  ActiveBatch(d) /\ batches'[d].members = batches[d].members
      BY <2>1, BatchSteps DEF BatchMoves, MovesOn, ActiveBatch, Registered
    <2>2. CASE Enrols(b)
      BY <2>2 DEF Enrols, NoOverlap, ActiveBatch, Registered
    <2>3. CASE Enrols(c)
      BY <2>3 DEF Enrols, NoOverlap, ActiveBatch, Registered
    <2>4. CASE ~Enrols(b) /\ ~Enrols(c)
      BY <2>1, <2>4 DEF Disjoint
    <2> QED
      BY <2>2, <2>3, <2>4
  <1> QED
    BY <1>1, <1>2, ClaimsHold, PTL DEF Spec

\* An item belongs to at most one active batch: the first one a lookup finds
\* is the only one.
THEOREM OneActiveBatchHolds == Spec => []OneActiveBatchPerItem
  <1>1. Disjoint => OneActiveBatchPerItem
    <2> SUFFICES ASSUME Disjoint, NEW i \in Items PROVE Cardinality(BatchesOf(i)) <= 1
      BY DEF OneActiveBatchPerItem
    <2>1. CASE BatchesOf(i) = {}
      BY <2>1, FS_EmptySet
    <2>2. CASE BatchesOf(i) # {}
      <3>1. PICK b \in BatchesOf(i) : TRUE
        BY <2>2
      <3>2. BatchesOf(i) = {b}
        BY <3>1 DEF BatchesOf, Disjoint
      <3> QED
        BY <3>2, FS_Singleton
    <2> QED
      BY <2>1, <2>2
  <1> QED
    BY <1>1, DisjointHolds, PTL

\* A batch completes with its last member and not before, and its members
\* stay done.
THEOREM CompletedTogetherHolds == Spec => []CompletedTogether
  <1>1. Init => CompletedTogether
    BY DEF Init, CompletedTogether, Registered, LegacyBatch
  <1>2. ClaimInv /\ CompletedTogether /\ [Next]_vars => CompletedTogether'
    <2> SUFFICES ASSUME ClaimInv, CompletedTogether, [Next]_vars,
                        NEW b \in Batches, batches'[b] # None, batches'[b].lifecycle = "completed",
                        NEW m \in batches'[b].members
                 PROVE  status'[m] = "done"
      BY DEF CompletedTogether, Registered
    <2>1. ASSUME batches[b] # None, batches[b].lifecycle = "completed",
                 batches'[b].members = batches[b].members
          PROVE  status'[m] = "done"
      <3>1. status[m] = "done"
        BY <2>1 DEF CompletedTogether, Registered
      <3>2. m \in Items
        BY <2>1 DEF ClaimInv, TypeInv, TypeOK, BatchRecord
      <3> QED
        BY <3>1, <3>2, StatusSteps DEF StatusMoves, Terminal
    <2>2. CASE batches'[b] = batches[b]
      BY <2>1, <2>2
    <2>3. CASE Enrols(b)
      BY <2>3 DEF Enrols
    <2>4. CASE MovesOn(b)
      BY <2>1, <2>4 DEF MovesOn
    <2> QED
      BY <2>2, <2>3, <2>4, BatchSteps DEF BatchMoves
  <1> QED
    BY <1>1, <1>2, ClaimsHold, PTL DEF Spec

\* The integration log of a batch only grows, its epoch never falls, and a
\* batch that is over stays as it ended.
THEOREM LogAppendOnlyHolds == Spec => LogAppendOnly
  <1> DEFINE Grows ==
        \A b \in Batches : Registered(b) =>
          /\ Registered(b)'
          /\ Len(batches'[b].log) >= Len(batches[b].log)
          /\ SubSeq(batches'[b].log, 1, Len(batches[b].log)) = batches[b].log
          /\ batches'[b].epoch >= batches[b].epoch
          /\ batches[b].lifecycle # "active" =>
                batches'[b].lifecycle = batches[b].lifecycle
  <1>1. ClaimInv /\ [Next]_vars => [Grows]_vars
    <2> SUFFICES ASSUME ClaimInv, [Next]_vars, NEW b \in Batches, batches[b] # None
                 PROVE  /\ batches'[b] # None
                        /\ Len(batches'[b].log) >= Len(batches[b].log)
                        /\ SubSeq(batches'[b].log, 1, Len(batches[b].log)) = batches[b].log
                        /\ batches'[b].epoch >= batches[b].epoch
                        /\ batches[b].lifecycle # "active" =>
                              batches'[b].lifecycle = batches[b].lifecycle
      BY DEF Registered
    <2> DEFINE old == batches[b].log
               new == batches'[b].log
    <2>1. old \in Seq(LogEntry) /\ batches[b].epoch \in Nat
      BY DEF ClaimInv, TypeInv, TypeOK, BatchRecord
    <2>2. CASE batches'[b] = batches[b]
      BY <2>1, <2>2, SubSeqFull, LenProperties
    <2>3. CASE MovesOn(b)
      <3>1. new = old \/ \E e \in LogEntry : new = Append(old, e)
        BY <2>3 DEF MovesOn
      <3>2. Len(new) >= Len(old) /\ SubSeq(new, 1, Len(old)) = old
        <4> HIDE DEF old, new
        <4>1. CASE new = old
          BY <2>1, <4>1, SubSeqFull, LenProperties
        <4>2. ASSUME NEW e \in LogEntry, new = Append(old, e)
              PROVE  Len(new) >= Len(old) /\ SubSeq(new, 1, Len(old)) = old
          <5>1. Len(old) \in Nat /\ Len(new) = Len(old) + 1
            BY <2>1, <4>2, AppendProperties, LenProperties
          <5>2. \A n \in 1..Len(old) : new[n] = old[n] /\ new[n] \in LogEntry
            BY <2>1, <4>2, AppendProperties, ElementOfSeq
          <5>3. /\ SubSeq(new, 1, Len(old)) \in Seq(LogEntry)
                /\ Len(SubSeq(new, 1, Len(old))) = Len(old)
                /\ \A n \in 1..Len(old) : SubSeq(new, 1, Len(old))[n] = old[n]
            BY <5>1, <5>2, SubSeqProperties
          <5>4. SubSeq(new, 1, Len(old)) = old
            BY <2>1, <5>3, SeqEqual
          <5> QED
            BY <5>1, <5>4
        <4> QED
          BY <3>1, <4>1, <4>2
      <3> QED
        BY <2>3, <3>2 DEF MovesOn
    <2> QED
      BY <2>2, <2>3, BatchSteps DEF BatchMoves, Enrols
  <1> QED
    BY <1>1, ClaimsHold, PTL DEF LogAppendOnly, Spec

-----------------------------------------------------------------------------
\* Work is recorded by the owner.

\* What one step does to the proofs of an item: nothing, voiding, or a record
\* made under the item's claim by a worker who owns its batches.
RecordMoves(i) ==
    \/ receipt'[i] \in {None, receipt[i]} /\ evidence'[i] \in {None, evidence[i]}
    \/ \E p \in Procs : HoldsClaim(p, i) /\ OwnerMayClaim(Actor[p], i)

\* Every step of the tracker records work in that way only.
LEMMA RecordSteps ==
    ASSUME ClaimInv, [Next]_vars, NEW i \in Items
    PROVE  RecordMoves(i)
  <1>1. /\ receipt \in [Items -> Receipt \cup {None}]
        /\ evidence \in [Items -> Evidence \cup {None}]
    BY DEF ClaimInv, TypeInv, TypeOK
  <1>2. ASSUME UNCHANGED proofVars PROVE RecordMoves(i)
    BY <1>2 DEF proofVars, RecordMoves
  <1>3. ASSUME NEW j \in Items, Update(j) PROVE RecordMoves(i)
    <2>1. VoidReceipts(j)
      BY <1>3 DEF Update, UpdateContent, UpdateNeeds, UpdateStatus, UpdateHold, UpdateBatch
    <2> QED
      BY <2>1 DEF VoidReceipts, RecordMoves
  <1>4. ASSUME NEW p \in Procs, NEW j \in Items, FinishMember(p, j) PROVE RecordMoves(i)
    <2>1. HoldsClaim(p, j) /\ OwnerMayClaim(Actor[p], j)
      BY <1>4 DEF FinishMember, FinishAllowed
    <2>2. receipt' = receipt /\ \E e : evidence' = [evidence EXCEPT ![j] = e]
      BY <1>4 DEF FinishMember
    <2> QED
      BY <1>1, <2>1, <2>2 DEF RecordMoves
  <1>5. ASSUME NEW p \in Procs, NEW j \in Items, Prepare(p, j) PROVE RecordMoves(i)
    <2>1. HoldsClaim(p, j) /\ OwnerMayClaim(Actor[p], j)
      BY <1>5 DEF Prepare, PrepareAt
    <2>2. evidence' = evidence /\ \E r : receipt' = [receipt EXCEPT ![j] = r]
      BY <1>5 DEF Prepare, PrepareAt
    <2> QED
      BY <1>1, <2>1, <2>2 DEF RecordMoves
  <1>6. ASSUME NEW p \in Procs, NEW b \in Batches, NEW g \in OwnerGens,
               RebindPR(p, b, g) \/ AbortBatch(p, b, g)
        PROVE  RecordMoves(i)
    BY <1>6 DEF RebindPR, AbortBatch, RecordMoves
  <1>7. CASE ItemNext
    <2>1. CASE \E j \in Items : Create(j)
      BY <1>2, <2>1 DEF Create
    <2>2. CASE \E p \in Procs, j \in Items :
                  \/ Take(p, j) \/ Takeover(p, j) \/ Renew(p, j)
                  \/ Release(p, j) \/ FinishPlain(p, j) \/ Drop(p, j)
      BY <1>2, <2>2, Zenon DEF Take, Takeover, Renew, Release, FinishPlain, Drop
    <2>3. CASE Tick \/ \E p \in Procs : Restart(p)
      BY <1>2, <2>3 DEF Tick, Restart
    <2> QED
      BY <1>3, <1>4, <1>7, <2>1, <2>2, <2>3 DEF ItemNext
  <1>8. CASE DeferralNext
    BY <1>2, <1>8, Zenon DEF DeferralNext, Defer, PromoteLink, PromoteCreate, Dismiss
  <1>9. CASE BatchNext
    <2>1. CASE \E p \in Procs, b \in Batches, g \in OwnerGens :
                  \/ \E M \in MemberSets : RegisterBatch(p, b, M, g)
                  \/ \E files \in SUBSET Paths : AdvanceFix(p, b, g, files)
                  \/ AdvanceMerge(p, b, g)
                  \/ BindPR(p, b, g)
                  \/ \E new \in OwnerGens : RecoverOwner(p, b, g, new)
      BY <1>2, <2>1, Zenon DEF RegisterBatch, AdvanceFix, AdvanceMerge, BindPR, RecoverOwner
    <2> QED
      BY <1>5, <1>6, <1>9, <2>1 DEF BatchNext
  <1>10. CASE UNCHANGED vars
    BY <1>2, <1>10 DEF vars
  <1> QED
    BY <1>7, <1>8, <1>9, <1>10 DEF Next

\* After a recovery, the deposed owner's claim on a member lands nothing, live
\* or not: a receipt or final evidence needs the claim of the current owner.
THEOREM OwnerRecordsWorkHolds == Spec => OwnerRecordsWork
  <1> DEFINE Owned ==
        \A i \in Items :
          (receipt'[i] \notin {None, receipt[i]} \/ evidence'[i] \notin {None, evidence[i]})
              => /\ claim[i] # None
                 /\ \A o \in BatchesOf(i) : claim[i].worker = batches[o].owner
  <1>1. ClaimInv /\ [Next]_vars => [Owned]_vars
    BY RecordSteps DEF RecordMoves, HoldsClaim, OwnerMayClaim
  <1> QED
    BY <1>1, ClaimsHold, PTL DEF OwnerRecordsWork, Spec

-----------------------------------------------------------------------------
\* One live claim per slot: what a document promises and a run refutes, and the
\* one step that breaks it.

\* A claim that has expired is renewed.
Revives == \E p \in Procs, i \in Items : Renew(p, i) /\ ~ClaimLive(i)

\* A live claim that is kept keeps its batches: none of them ends under it.
LEMMA BatchesKept ==
    ASSUME ClaimInv, ClaimInv', [Next]_vars, NEW i \in Items, ClaimLive(i), claim'[i] # None,
           NEW b \in BatchesOf(i)
    PROVE  /\ b \in Batches /\ batches'[b] # None /\ batches'[b].lifecycle = "active"
           /\ batches'[b].members = batches[b].members
           /\ i \in batches[b].members
  <1>1. /\ b \in Batches /\ batches[b] # None /\ batches[b].lifecycle = "active"
        /\ i \in batches[b].members
    BY DEF BatchesOf, ActiveBatch, Registered
  <1>2. status'[i] = "active"
    BY DEF ClaimInv, ClaimedActive
  <1>3. CASE batches'[b] = batches[b]
    BY <1>1, <1>3
  <1>4. CASE Enrols(b)
    BY <1>1, <1>4 DEF Enrols
  <1>5. CASE MovesOn(b)
    <2>1. batches'[b].lifecycle \in {"active", "completed", "aborted"}
      BY <1>1, <1>5 DEF MovesOn, ClaimInv, TypeInv, TypeOK, BatchRecord
    <2> QED
      BY <1>1, <1>2, <1>5, <2>1 DEF MovesOn
  <1> QED
    BY <1>1, <1>3, <1>4, <1>5, BatchSteps DEF BatchMoves

\* A claim is live after a step because it was, or because the step granted it
\* or revived it.
LEMMA LiveSteps ==
    ASSUME ClaimInv, Next, ~Revives, NEW i \in Items, claim'[i] # None, claim'[i].left > 0
    PROVE  \/ ClaimLive(i) /\ claim'[i].worker = claim[i].worker
           \/ \E p \in Procs : Take(p, i) \/ Takeover(p, i)
  <1> DEFINE Goal == \/ ClaimLive(i) /\ claim'[i].worker = claim[i].worker
                     \/ \E p \in Procs : Take(p, i) \/ Takeover(p, i)
  <1>1. claim \in [Items -> Claim \cup {None}]
    BY DEF ClaimInv, TypeInv, TypeOK
  <1>2. ASSUME claim'[i] = claim[i] PROVE Goal
    BY <1>2 DEF ClaimLive
  <1>3. ASSUME NEW p \in Procs, NEW j \in Items, Take(p, j) \/ Takeover(p, j) PROVE Goal
    <2>1. CASE i = j
      BY <1>3, <2>1
    <2>2. CASE i # j
      BY <1>1, <1>2, <1>3, <2>2 DEF Take, Takeover, GrantClaim
    <2> QED
      BY <2>1, <2>2
  <1>4. ASSUME NEW p \in Procs, NEW j \in Items, Renew(p, j) PROVE Goal
    <2>1. CASE i = j
      <3>1. ClaimLive(i)
        BY <1>4, <2>1 DEF Revives
      <3>2. claim[i] \in Claim /\ claim' = [claim EXCEPT ![i] = [claim[i] EXCEPT !.left = TTL]]
        BY <1>1, <1>4, <2>1, <3>1 DEF Renew, ClaimLive
      <3>3. [claim[i] EXCEPT !.left = TTL].worker = claim[i].worker
        BY <3>2 DEF Claim
      <3> QED
        BY <1>1, <3>1, <3>2, <3>3
    <2>2. CASE i # j
      BY <1>1, <1>2, <1>4, <2>2 DEF Renew
    <2> QED
      BY <2>1, <2>2
  <1>5. ASSUME NEW p \in Procs, NEW j \in Items,
               \/ Release(p, j) \/ FinishPlain(p, j) \/ FinishMember(p, j)
               \/ Drop(p, j) \/ Prepare(p, j)
        PROVE  Goal
    BY <1>1, <1>2, <1>5, GivingUp
  <1>6. CASE Tick
    <2>1. CASE ClaimLive(i)
      <3>1. claim[i] \in Claim /\ claim'[i] = [claim[i] EXCEPT !.left = @ - 1]
        BY <1>1, <1>6, <2>1 DEF Tick, ClaimLive
      <3> QED
        BY <2>1, <3>1 DEF Claim
    <2>2. CASE ~ClaimLive(i)
      BY <1>2, <1>6, <2>2 DEF Tick
    <2> QED
      BY <2>1, <2>2
  <1>7. ASSUME NEW p \in Procs, NEW b \in Batches, NEW g \in OwnerGens, AbortBatch(p, b, g) PROVE Goal
    BY <1>2, <1>7 DEF AbortBatch
  <1>8. CASE \E p \in Procs : Restart(p)
    BY <1>2, <1>8 DEF Restart
  <1>9. CASE ItemNext
    <2>1. CASE \E j \in Items : Create(j) \/ Update(j)
      BY <1>2, <2>1, QuietSteps
    <2> QED
      BY <1>3, <1>4, <1>5, <1>6, <1>8, <1>9, <2>1 DEF ItemNext
  <1>10. CASE DeferralNext
    BY <1>2, <1>10, QuietSteps
  <1>11. CASE BatchNext
    <2>1. CASE \E p \in Procs, b \in Batches, g \in OwnerGens :
                  \/ \E M \in MemberSets : RegisterBatch(p, b, M, g)
                  \/ \E files \in SUBSET Paths : AdvanceFix(p, b, g, files)
                  \/ AdvanceMerge(p, b, g)
                  \/ BindPR(p, b, g)
                  \/ RebindPR(p, b, g)
                  \/ \E new \in OwnerGens : RecoverOwner(p, b, g, new)
      BY <1>2, <2>1, QuietSteps
    <2> QED
      BY <1>5, <1>7, <1>11, <2>1 DEF BatchNext
  <1> QED
    BY <1>9, <1>10, <1>11 DEF Next

\* The claim a take or takeover grants is the only live one in its slot.
LEMMA GrantAlone ==
    ASSUME ClaimInv, OneClaimPerSlot, NEW p \in Procs, NEW i \in Items, Take(p, i) \/ Takeover(p, i),
           NEW j \in Items, i # j, claim'[j] # None, claim'[j].left > 0,
           claim'[i].worker = claim'[j].worker
    PROVE  BatchesOf(i)' # BatchesOf(j)'
  <1>1. claim \in [Items -> Claim \cup {None}]
    BY DEF ClaimInv, TypeInv, TypeOK
  <1>2. /\ claim'[i].worker = Actor[p] /\ claim'[j] = claim[j] /\ batches' = batches
        /\ SlotFree(Actor[p], i)
    BY <1>1 DEF Take, Takeover, GrantClaim, MayClaim, batchVars
  <1>3. ClaimLive(j) /\ claim[j].worker = Actor[p]
    BY <1>2 DEF ClaimLive
  <1>4. BatchesOf(i) # BatchesOf(j)
    BY <1>2, <1>3 DEF SlotFree, HeldInSlot, OneClaimPerSlot
  <1> QED
    BY <1>2, <1>4 DEF BatchesOf, ActiveBatch, Registered

\* Every step but a revival keeps live claims of one worker in different slots.
LEMMA SlotStep ==
    ASSUME ClaimInv, ClaimInv', OneClaimPerSlot, [Next]_vars, ~Revives
    PROVE  OneClaimPerSlot'
  <1>1. CASE UNCHANGED vars
    BY <1>1 DEF vars, itemVars, batchVars, OneClaimPerSlot, ClaimLive, BatchesOf, ActiveBatch, Registered
  <1>2. CASE Next
    <2> SUFFICES ASSUME NEW i \in Items, NEW j \in Items, i # j,
                        claim'[i] # None, claim'[i].left > 0,
                        claim'[j] # None, claim'[j].left > 0,
                        claim'[i].worker = claim'[j].worker
                 PROVE  BatchesOf(i)' # BatchesOf(j)'
      BY DEF OneClaimPerSlot, ClaimLive
    <2>1. CASE \E p \in Procs : Take(p, i) \/ Takeover(p, i)
      BY <2>1, GrantAlone
    <2>2. CASE \E p \in Procs : Take(p, j) \/ Takeover(p, j)
      BY <2>2, GrantAlone
    <2>3. CASE /\ ClaimLive(i) /\ claim'[i].worker = claim[i].worker
               /\ ClaimLive(j) /\ claim'[j].worker = claim[j].worker
      <3>1. BatchesOf(i) # BatchesOf(j)
        BY <2>3 DEF OneClaimPerSlot
      <3>2. \A b \in BatchesOf(i) \ BatchesOf(j) : b \in BatchesOf(i)' /\ b \notin BatchesOf(j)'
        BY <2>3, BatchesKept DEF BatchesOf, ActiveBatch, Registered
      <3>3. \A b \in BatchesOf(j) \ BatchesOf(i) : b \in BatchesOf(j)' /\ b \notin BatchesOf(i)'
        BY <2>3, BatchesKept DEF BatchesOf, ActiveBatch, Registered
      <3> QED
        BY <3>1, <3>2, <3>3
    <2> QED
      BY <1>2, <2>1, <2>2, <2>3, LiveSteps
  <1> QED
    BY <1>1, <1>2

\* Renewing an expired claim is the only step that gives a worker a second
\* live claim in a slot: take and takeover refuse it, and neither enrolment,
\* completion, abort nor the passing of time moves two claims into one slot.
OnlyRevivalDoubles == [][OneClaimPerSlot => OneClaimPerSlot' \/ Revives]_vars

THEOREM OnlyRevivalDoublesHolds == Spec => OnlyRevivalDoubles
  <1>1. ClaimInv /\ ClaimInv' /\ [Next]_vars => [OneClaimPerSlot => OneClaimPerSlot' \/ Revives]_vars
    BY SlotStep
  <1> QED
    BY <1>1, ClaimsHold, PTL DEF OnlyRevivalDoubles, Spec

\* So the documented rule holds of every history without a revival.
THEOREM OneClaimPerSlotHolds == Spec /\ [][~Revives]_vars => []OneClaimPerSlot
  <1>1. Init => OneClaimPerSlot
    BY DEF Init, OneClaimPerSlot, ClaimLive
  <1>2. OneClaimPerSlot /\ UNCHANGED vars => OneClaimPerSlot'
    BY DEF vars, itemVars, batchVars, OneClaimPerSlot, ClaimLive, BatchesOf, ActiveBatch, Registered
  <1>3. ClaimInv /\ ClaimInv' /\ OneClaimPerSlot /\ [Next]_vars /\ [~Revives]_vars => OneClaimPerSlot'
    BY <1>2, SlotStep
  <1> QED
    BY <1>1, <1>3, ClaimsHold, PTL DEF Spec

-----------------------------------------------------------------------------
\* Adoption after a restart: when it is refused.

\* A worker that may own the item adopts its live claim exactly when the item
\* builds on no prepared work and is the first, by ID, of those the worker has
\* claimed in the slot: with a prepared edge the readiness check asks for an open
\* item, which a claimed one never is, and with another claim before it take
\* finds that one.
AdoptedWhenFirstAndUnprepared ==
    \A p \in Procs, i \in Items :
        /\ ClaimLive(i)
        /\ claim[i].worker = Actor[p]
        /\ OwnerMayClaim(Actor[p], i)
        => (MayClaim(p, i) <=>
              /\ PreparedEdges(i) = {}
              /\ \A j \in HeldInSlot(Actor[p], i) : Order[i] <= Order[j])

THEOREM AdoptedWhenFirstAndUnpreparedHolds == Spec => []AdoptedWhenFirstAndUnprepared
  <1>1. ClaimInv => AdoptedWhenFirstAndUnprepared
    <2> SUFFICES ASSUME ClaimInv, NEW p \in Procs, NEW i \in Items, ClaimLive(i),
                        claim[i].worker = Actor[p], OwnerMayClaim(Actor[p], i)
                 PROVE  MayClaim(p, i) <=>
                          /\ PreparedEdges(i) = {}
                          /\ \A j \in HeldInSlot(Actor[p], i) : Order[i] <= Order[j]
      BY DEF AdoptedWhenFirstAndUnprepared
    <2>1. status[i] = "active"
      BY DEF ClaimLive, ClaimInv, ClaimedActive
    <2>2. SlotFree(Actor[p], i) <=> \A j \in HeldInSlot(Actor[p], i) : Order[i] <= Order[j]
      BY DEF SlotFree, HeldInSlot
    <2>3. Present(i) /\ ~Waiting(i) /\ ~IsReady(i)
      BY <2>1 DEF Present, Waiting, IsReady
    <2> QED
      BY <2>2, <2>3 DEF MayClaim, TakeReady
  <1> QED
    BY <1>1, ClaimsHold, PTL

\* While no worker has two live claims in a slot, the claim it adopts is the
\* first one there.
LEMMA OnlyOneIsFirst ==
    ASSUME OneClaimPerSlot, NEW p \in Procs, NEW i \in Items, ClaimLive(i),
           claim[i].worker = Actor[p], NEW j \in HeldInSlot(Actor[p], i)
    PROVE  Order[i] <= Order[j]
  <1>1. j = i
    BY DEF OneClaimPerSlot, HeldInSlot
  <1>2. Order[i] \in Nat
    BY OrderAssumption
  <1> QED
    BY <1>1, <1>2

\* So adoption is never refused while claimed items build on no prepared work
\* and no expired claim is revived: both exceptions are real.
THEOREM AdoptionNeverRefusedHolds ==
    Spec /\ [][~Revives]_vars /\ [](\A i \in Items : ClaimLive(i) => PreparedEdges(i) = {})
        => []AdoptionNeverRefused
  <1>1. AdoptedWhenFirstAndUnprepared /\ OneClaimPerSlot
          /\ (\A i \in Items : ClaimLive(i) => PreparedEdges(i) = {})
           => AdoptionNeverRefused
    BY OnlyOneIsFirst DEF AdoptedWhenFirstAndUnprepared, AdoptionNeverRefused
  <1> QED
    BY <1>1, AdoptedWhenFirstAndUnpreparedHolds, OneClaimPerSlotHolds, PTL

=============================================================================
