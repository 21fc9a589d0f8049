--------------------------- MODULE TrackerReceipts ---------------------------
(***************************************************************************)
(* Snapshots, receipts and final evidence, for every value of the          *)
(* constants: what an operation writes passes the validator, a receipt     *)
(* falls with the work it rests on, and a closeout starts over complete    *)
(* receipts and covers every overlap and every fix.                        *)
(***************************************************************************)
EXTENDS TrackerBatches

-----------------------------------------------------------------------------
\* Steps, by what they may change.

Created(j) ==
    \E nd \in NeedSets, h \in 0..MaxHold : \E mt \in MetaInputs(nd) : CreateItem(j, nd, h, mt)

\* A call on a batch by its number, rather than on an item.
BatchCall(b) ==
    \E p \in Procs, g \in OwnerGens :
        \/ \E M \in MemberSets : RegisterBatch(p, b, M, g)
        \/ \E files \in SUBSET Paths : AdvanceFix(p, b, g, files)
        \/ AdvanceMerge(p, b, g)
        \/ BindPR(p, b, g)
        \/ RebindPR(p, b, g)
        \/ \E new \in OwnerGens : RecoverOwner(p, b, g, new)
        \/ AbortBatch(p, b, g)

\* Claims, deferral rows and time leave the rest of the snapshot alone.
Quiet == UNCHANGED <<needs, meta, receipt, evidence, schema, batches>>

LEMMA Kinds ==
    ASSUME [Next]_vars
    PROVE  \/ Quiet
           \/ \E j \in Items : Created(j) /\ UNCHANGED <<receipt, evidence, schema, batches>>
           \/ \E j \in Items : Update(j)
           \/ \E p \in Procs, j \in Items : FinishMember(p, j) \/ Prepare(p, j)
           \/ \E b \in Batches : BatchCall(b)
  <1>1. CASE UNCHANGED vars
    BY <1>1 DEF vars, itemVars, proofVars, batchVars, Quiet
  <1>2. CASE ItemNext
    <2>1. ASSUME NEW j \in Items, Create(j)
          PROVE  Created(j) /\ UNCHANGED <<receipt, evidence, schema, batches>>
      BY <2>1 DEF Create, Created, proofVars, batchVars
    <2>2. ASSUME NEW p \in Procs, NEW j \in Items,
                 \/ Take(p, j) \/ Takeover(p, j) \/ Renew(p, j) \/ Release(p, j)
                 \/ FinishPlain(p, j) \/ Drop(p, j)
          PROVE  Quiet
      <3>1. UNCHANGED <<needs, meta, proofVars, batchVars>>
        BY <2>2, Zenon DEF Take, Takeover, Renew, Release, FinishPlain, Drop
      <3> QED
        BY <3>1 DEF Quiet, proofVars, batchVars
    <2>3. CASE Tick \/ \E p \in Procs : Restart(p)
      BY <2>3 DEF Tick, Restart, Quiet, proofVars, batchVars
    <2> QED
      BY <1>2, <2>1, <2>2, <2>3 DEF ItemNext
  <1>3. CASE DeferralNext
    <2>1. ASSUME NEW i \in Items, NEW n \in DOMAIN deferrals[i], NEW j \in Items, PromoteCreate(i, n, j)
          PROVE  Created(j) /\ UNCHANGED <<receipt, evidence, schema, batches>>
      BY <2>1 DEF PromoteCreate, Created, proofVars, batchVars
    <2>2. ASSUME NEW i \in Items, NEW n, NEW j, Defer(i) \/ PromoteLink(i, n, j) \/ Dismiss(i, n)
          PROVE  Quiet
      BY <2>2 DEF Defer, PromoteLink, Dismiss, Quiet, proofVars, batchVars
    <2> QED
      BY <1>3, <2>1, <2>2 DEF DeferralNext
  <1>4. CASE BatchNext
    BY <1>4 DEF BatchNext, BatchCall
  <1> QED
    BY <1>1, <1>2, <1>3, <1>4 DEF Next

-----------------------------------------------------------------------------
\* Dependencies and batch metadata.

\* Nothing needs an item the index does not know, and dependencies close no
\* cycle.  ItemsFit adds to the validator's rules that an unknown item has no
\* record of any kind, so that its creation cannot meet one.
ItemsFit ==
    /\ \A i \in Items : ~Present(i) => needs[i] = {} /\ meta[i] = None
    /\ \A i \in Items : \A d \in needs[i] : Present(d)
    /\ Acyclic(needs)

MetaFits ==
    \A i \in Items : meta[i] # None =>
        /\ meta[i].deps \subseteq needs[i]
        /\ Registered(meta[i].batch)
        /\ i \in batches[meta[i].batch].members

\* A new node that nothing needs, and that does not need itself, closes no
\* cycle.
LEMMA NewNode ==
    ASSUME NEW nd \in [Items -> SUBSET Items], Acyclic(nd),
           NEW j \in Items, NEW D \in SUBSET Items, j \notin D,
           \A i \in Items : j \notin nd[i]
    PROVE  Acyclic([nd EXCEPT ![j] = D])
  <1> SUFFICES ASSUME NEW S \in SUBSET Items, S # {}
               PROVE  \E i \in S : [nd EXCEPT ![j] = D][i] \cap S = {}
    BY DEF Acyclic
  <1>1. CASE S \subseteq {j}
    BY <1>1
  <1>2. CASE ~(S \subseteq {j})
    <2>1. PICK i \in S \ {j} : nd[i] \cap (S \ {j}) = {}
      BY <1>2 DEF Acyclic
    <2> QED
      BY <2>1
  <1> QED
    BY <1>1, <1>2

\* Records of batches stay, with their members.
LEMMA MembersStay ==
    ASSUME ClaimInv, [Next]_vars, NEW b \in Batches, Registered(b)
    PROVE  batches'[b] # None /\ batches'[b].members = batches[b].members
  BY BatchSteps DEF BatchMoves, Enrols, MovesOn, Registered

\* What an edit of j does to dependencies and metadata.
LEMMA EditItems ==
    ASSUME ClaimInv, ItemsFit, MetaFits, [Next]_vars, NEW j \in Items, Update(j)
    PROVE  ItemsFit' /\ MetaFits'
  <1>1. /\ needs \in [Items -> SUBSET Items] /\ meta \in [Items -> Meta \cup {None}]
        /\ Present(j)
    BY DEF ClaimInv, TypeInv, TypeOK, Update, UpdateContent, UpdateNeeds, UpdateStatus,
           UpdateHold, UpdateBatch, EditAllowed
  <1>2. \A i \in Items : Present(i) => status'[i] # "absent"
    BY StatusSteps DEF StatusMoves, Present
  <1>3. batches' = batches /\ schema' = schema
    BY Zenon DEF Update, UpdateContent, UpdateNeeds, UpdateStatus, UpdateHold, UpdateBatch, batchVars
  <1>4. CASE needs' = needs /\ meta' = meta
    <2>1. Acyclic(needs')
      BY <1>4 DEF ItemsFit
    <2>2. ItemsFit'
      BY <1>1, <1>2, <1>4, <2>1 DEF ItemsFit, Present
    <2>3. MetaFits'
      BY <1>3, <1>4 DEF MetaFits, Registered
    <2> QED
      BY <2>2, <2>3
  <1>5. CASE UpdateNeeds(j)
    <2>1. PICK nd \in NeedSets : NeedsAllowed(j, nd) /\ needs' = [needs EXCEPT ![j] = nd] /\ meta' = meta
      BY <1>5 DEF UpdateNeeds
    <2>2. nd \subseteq Items
      BY InputAssumption
    <2>3. /\ \A d \in nd : Present(d)
          /\ Acyclic(needs')
          /\ meta[j] # None => meta[j].deps \subseteq nd
      BY <2>1 DEF NeedsAllowed
    <2>4. \A i \in Items : needs'[i] = IF i = j THEN nd ELSE needs[i]
      BY <1>1, <2>1
    <2>5. ItemsFit'
      BY <1>1, <1>2, <2>1, <2>2, <2>3, <2>4 DEF ItemsFit, Present, Acyclic
    <2>6. MetaFits'
      BY <1>3, <2>1, <2>3, <2>4 DEF MetaFits, Registered
    <2> QED
      BY <2>5, <2>6
  <1>6. CASE UpdateBatch(j)
    <2>1. PICK mt \in MetaInputs(needs[j]) \ {None} :
             MetaAllowed(j, needs[j], mt) /\ meta' = [meta EXCEPT ![j] = mt] /\ needs' = needs
      BY <1>6 DEF UpdateBatch
    <2>2. \A i \in Items : meta'[i] = IF i = j THEN mt ELSE meta[i]
      BY <1>1, <2>1
    <2>3. ItemsFit'
      BY <1>1, <1>2, <2>1, <2>2 DEF ItemsFit, Present, Acyclic
    <2>4. MetaFits'
      BY <1>3, <2>1, <2>2 DEF MetaFits, Registered, MetaAllowed
    <2> QED
      BY <2>3, <2>4
  <1> QED
    BY <1>4, <1>5, <1>6 DEF Update, UpdateContent, UpdateStatus, UpdateHold, itemVars

\* No step breaks the rules for items and their metadata.
LEMMA ItemsKept ==
    ASSUME ClaimInv, ItemsFit, MetaFits, [Next]_vars
    PROVE  ItemsFit' /\ MetaFits'
  <1>1. needs \in [Items -> SUBSET Items] /\ meta \in [Items -> Meta \cup {None}]
    BY DEF ClaimInv, TypeInv, TypeOK
  <1>2. \A i \in Items : Present(i) => status'[i] # "absent"
    BY StatusSteps DEF StatusMoves, Present
  <1>3. \A i \in Items : meta[i] # None =>
            /\ batches'[meta[i].batch] # None
            /\ batches'[meta[i].batch].members = batches[meta[i].batch].members
    BY <1>1, MembersStay DEF MetaFits, Meta
  <1>4. CASE needs' = needs /\ \A i \in Items : meta'[i] \in {meta[i], None}
    <2>1. Acyclic(needs')
      BY <1>4 DEF ItemsFit
    <2>2. ItemsFit'
      BY <1>1, <1>2, <1>4, <2>1 DEF ItemsFit, Present
    <2>3. MetaFits'
      BY <1>3, <1>4 DEF MetaFits, Registered
    <2> QED
      BY <2>2, <2>3
  <1>5. ASSUME NEW j \in Items, Created(j), batches' = batches PROVE ItemsFit' /\ MetaFits'
    <2>1. PICK nd \in NeedSets, h \in 0..MaxHold : \E mt \in MetaInputs(nd) : CreateItem(j, nd, h, mt)
      BY <1>5 DEF Created
    <2>2. PICK mt \in MetaInputs(nd) : CreateItem(j, nd, h, mt)
      BY <2>1
    <2>3. nd \subseteq Items
      BY InputAssumption
    <2>4. /\ ~Present(j) /\ j \notin nd /\ \A d \in nd : Present(d)
          /\ MetaAllowed(j, nd, mt)
          /\ status' = [status EXCEPT ![j] = "open"]
          /\ needs' = [needs EXCEPT ![j] = nd] /\ meta' = [meta EXCEPT ![j] = mt]
      BY <2>2 DEF CreateItem
    <2>5. Acyclic(needs')
      BY <1>1, <2>3, <2>4, NewNode DEF ItemsFit
    <2>6. \A i \in Items : /\ needs'[i] = IF i = j THEN nd ELSE needs[i]
                           /\ meta'[i] = IF i = j THEN mt ELSE meta[i]
      BY <1>1, <2>4
    <2>7. status'[j] = "open"
      BY <2>4 DEF ClaimInv, TypeInv, TypeOK
    <2>8. ItemsFit'
      BY <1>1, <1>2, <2>3, <2>4, <2>5, <2>6, <2>7 DEF ItemsFit, Present, Acyclic
    <2>9. MetaFits'
      BY <1>3, <1>5, <2>4, <2>6 DEF MetaFits, Registered, MetaAllowed
    <2> QED
      BY <2>8, <2>9
  <1>6. ASSUME NEW p \in Procs, NEW j \in Items, FinishMember(p, j) \/ Prepare(p, j)
        PROVE  needs' = needs /\ meta' = meta
    BY <1>6 DEF FinishMember, Prepare, PrepareAt
  <1>7. ASSUME NEW b \in Batches, BatchCall(b)
        PROVE  needs' = needs /\ \A i \in Items : meta'[i] \in {meta[i], None}
    BY <1>7 DEF BatchCall, RegisterBatch, AdvanceFix, AdvanceMerge, BindPR, RebindPR, RecoverOwner,
                AbortBatch, Detached, itemVars
  <1> QED
    BY <1>4, <1>5, <1>6, <1>7, Kinds, EditItems DEF Quiet

-----------------------------------------------------------------------------
\* Integration logs.

\* Each entry names a head that was new when it was written, or an older one.
HeadsFit(log) == \A n \in DOMAIN log : log[n].head < n

LogsFit ==
    \A b \in Batches : Registered(b) /\ batches[b].v2 =>
        schema = 4 /\ ValidLog(batches[b]) /\ HeadsFit(batches[b].log)

\* What the entries of a grown log are.
LEMMA Grown ==
    ASSUME NEW log \in Seq(LogEntry), NEW e \in LogEntry, NEW new, new = Append(log, e)
    PROVE  /\ new \in Seq(LogEntry) /\ new # <<>>
           /\ Len(log) \in Nat /\ Len(new) = Len(log) + 1
           /\ DOMAIN log = 1..Len(log) /\ DOMAIN new = 1..(Len(log) + 1)
           /\ \A n \in 1..Len(log) : new[n] = log[n] /\ log[n] \in LogEntry
           /\ new[Len(log) + 1] = e
  BY AppendProperties, LenProperties, ElementOfSeq

\* A valid log is still valid with an entry that is new, or that lands a member
\* again at the last head, and with the evidence of its member.
LEMMA LogGrows ==
    ASSUME NEW r \in BatchRecord, ValidLog(r), HeadsFit(r.log),
           NEW e \in LogEntry, e.kind # "start",
           e.kind = "fix" => e.requires \subseteq r.members,
           e.kind \in {"prepare", "reprepare"} => e.member \in r.members,
           e.head = IF e.kind = "reprepare" THEN r.log[Len(r.log)].head ELSE Len(r.log),
           NEW s \in BatchRecord, s.log = Append(r.log, e), s.members = r.members,
           \A m \in Items :
              \/ s.integrated[m] = r.integrated[m]
              \/ /\ m \in r.members
                 /\ s.integrated[m].seq = Len(r.log) /\ s.integrated[m].head = e.head
    PROVE  ValidLog(s) /\ HeadsFit(s.log)
  <1> DEFINE log == r.log
             new == s.log
  <1>1. log \in Seq(LogEntry) /\ log # <<>>
    BY DEF BatchRecord, ValidLog
  <1> HIDE DEF log, new
  <1>2. /\ new # <<>>
        /\ Len(log) \in Nat /\ Len(new) = Len(log) + 1
        /\ DOMAIN log = 1..Len(log) /\ DOMAIN new = 1..(Len(log) + 1)
        /\ \A n \in 1..Len(log) : new[n] = log[n] /\ log[n] \in LogEntry
        /\ new[Len(log) + 1] = e
    BY <1>1, Grown DEF log, new
  <1>3. Len(log) > 0
    BY <1>1, <1>2, EmptySeq
  <1>4. \A n \in 1..Len(log) : log[n].head \in Nat /\ log[n].head < n
    BY <1>2 DEF HeadsFit, LogEntry, log
  <1>5. HeadsFit(new)
    BY <1>2, <1>3, <1>4 DEF HeadsFit, log
  <1>6. ASSUME NEW n \in DOMAIN new
        PROVE  /\ (n = 1) = (new[n].kind = "start")
               /\ new[n].kind = "fix" => new[n].requires \subseteq s.members
               /\ new[n].kind \in {"prepare", "reprepare"} => new[n].member \in s.members
               /\ n > 1 => (new[n].kind = "reprepare") = (new[n].head = new[n - 1].head)
    <2>1. CASE n \in 1..Len(log)
      <3>1. n > 1 => n - 1 \in 1..Len(log)
        BY <2>1, <1>2
      <3> QED
        BY <2>1, <3>1, <1>2 DEF ValidLog, log
    <2>2. CASE n = Len(log) + 1
      <3>1. n - 1 \in 1..Len(log) /\ n - 1 = Len(log)
        BY <2>2, <1>2, <1>3
      <3>2. new[n] = e /\ new[n - 1] = log[Len(log)]
        BY <2>2, <3>1, <1>2
      <3>3. (e.kind = "reprepare") = (e.head = log[Len(log)].head)
        BY <1>2, <1>3, <1>4 DEF log
      <3> QED
        BY <2>2, <1>3, <3>2, <3>3
    <2> QED
      BY <2>1, <2>2, <1>2
  <1>7. ASSUME NEW m \in Items, s.integrated[m] # None
        PROVE  /\ m \in s.members
               /\ s.integrated[m].seq \in 1..Len(new) - 1
               /\ new[s.integrated[m].seq + 1].head = s.integrated[m].head
    <2>1. CASE s.integrated[m] = r.integrated[m]
      <3>1. /\ m \in r.members
            /\ r.integrated[m].seq \in 1..Len(log) - 1
            /\ log[r.integrated[m].seq + 1].head = r.integrated[m].head
        BY <1>7, <2>1 DEF ValidLog, log
      <3> QED
        BY <2>1, <3>1, <1>2
    <2>2. CASE s.integrated[m] # r.integrated[m]
      BY <2>2, <1>2, <1>3 DEF log
    <2> QED
      BY <2>1, <2>2
  <1> QED
    BY <1>2, <1>5, <1>6, <1>7 DEF ValidLog, new

-----------------------------------------------------------------------------
\* Landing a member.

\* What Prepare writes for i, on the record of its batch.
LandKinds == {"prepare", "reprepare"}
LandedHead(i, kind) ==
    IF kind = "reprepare" THEN IntegrationHead(meta[i].batch) ELSE NextSeq(meta[i].batch)
LandedReceipt(i, base, files, kind) ==
    LET b == meta[i].batch IN
    [batch |-> b, epoch |-> batches[b].epoch, seq |-> NextSeq(b), head |-> LandedHead(i, kind),
     base |-> base, files |-> files,
     overMembers |-> OverlappingMembers(b, i, files),
     overFixes |-> OverlappingFixes(b, base, files)]
LandedEntry(i, kind) ==
    [kind |-> kind, head |-> LandedHead(i, kind), member |-> i, files |-> {}, requires |-> {}]
LandedRecord(i, files, kind) ==
    [batches[meta[i].batch] EXCEPT
        !.log = Append(@, LandedEntry(i, kind)),
        !.integrated[i] = [seq |-> NextSeq(meta[i].batch), head |-> LandedHead(i, kind), files |-> files]]

Lands(i, base, files, kind) ==
    LET b == meta[i].batch IN
    /\ b \in Batches /\ ActiveBatch(b) /\ batches[b].v2
    /\ batches[b] \in BatchRecord
    /\ i \in batches[b].members
    /\ status[i] = "active" /\ receipt[i] = None
    /\ \A d \in meta[i].deps : receipt[d] # None
    /\ kind = "reprepare" => batches[b].integrated[i] # None
    /\ NextSeq(b) \in Nat /\ LandedHead(i, kind) \in Nat
    /\ receipt' = [receipt EXCEPT ![i] = LandedReceipt(i, base, files, kind)]
    /\ batches' = [batches EXCEPT ![b] = LandedRecord(i, files, kind)]
    /\ UNCHANGED <<schema, needs, meta, evidence>>

LEMMA Landing ==
    ASSUME ClaimInv, NEW p \in Procs, NEW i \in Items, Prepare(p, i)
    PROVE  \E base \in LogHeads(meta[i].batch), files \in SUBSET Paths, kind \in LandKinds :
              Lands(i, base, files, kind)
  <1> DEFINE b == meta[i].batch
  <1>1. PICK base \in LogHeads(b), files \in SUBSET Scope[i], again \in BOOLEAN :
           PrepareAt(p, i, base, files, again)
    BY DEF Prepare
  <1> DEFINE kind == IF again THEN "reprepare" ELSE "prepare"
  <1>2. /\ b \in Batches /\ ActiveBatch(b) /\ batches[b].v2
        /\ Registered(b) /\ batches[b] \in BatchRecord /\ TypeInv
    BY <1>1 DEF Prepare, PrepareAt, ActiveBatch, Registered, ClaimInv, TypeInv, TypeOK, Meta
  <1>3. NextSeq(b) \in Nat /\ LandedHead(i, kind) \in Nat
    BY <1>2, SeqTypes, HeadTypes DEF LandedHead
  <1>4. files \in SUBSET Paths
    BY InputAssumption
  <1>5. /\ i \in batches[b].members /\ status[i] = "active" /\ receipt[i] = None
        /\ \A d \in meta[i].deps : receipt[d] # None
        /\ kind = "reprepare" => batches[b].integrated[i] # None
        /\ UNCHANGED <<schema, needs, meta, evidence>>
    BY <1>1 DEF PrepareAt
  <1>6. /\ receipt' = [receipt EXCEPT ![i] = LandedReceipt(i, base, files, kind)]
        /\ batches' = [batches EXCEPT ![b] = LandedRecord(i, files, kind)]
    BY <1>1 DEF PrepareAt, LandedReceipt, LandedRecord, LandedEntry, LandedHead
  <1>7. Lands(i, base, files, kind)
    <2> HIDE DEF kind
    <2> QED
      BY <1>2, <1>3, <1>5, <1>6 DEF Lands
  <1>8. kind \in LandKinds
    BY DEF LandKinds
  <1> HIDE DEF kind
  <1> QED
    BY <1>4, <1>7, <1>8

\* The fields of what Prepare writes.
Landed(i, files, kind) ==
    LET b == meta[i].batch
        r == batches[b]
        s == LandedRecord(i, files, kind)
        e == LandedEntry(i, kind)
    IN
    /\ e \in LogEntry
    /\ s \in BatchRecord
    /\ s.log = Append(r.log, e)
    /\ s.v2 = r.v2 /\ s.members = r.members /\ s.epoch = r.epoch
    /\ s.lifecycle = r.lifecycle /\ s.finalPR = r.finalPR
    /\ s.integrated = [r.integrated EXCEPT ![i] =
         [seq |-> NextSeq(b), head |-> LandedHead(i, kind), files |-> files]]

LEMMA LandedTypes ==
    ASSUME NEW i \in Items, NEW base, NEW files \in SUBSET Paths, NEW kind \in LandKinds,
           Lands(i, base, files, kind)
    PROVE  Landed(i, files, kind)
  <1> DEFINE b == meta[i].batch
             r == batches[b]
             e == LandedEntry(i, kind)
             x == [seq |-> NextSeq(b), head |-> LandedHead(i, kind), files |-> files]
             s == LandedRecord(i, files, kind)
  <1>1. r \in BatchRecord /\ NextSeq(b) \in Nat /\ LandedHead(i, kind) \in Nat
    BY DEF Lands
  <1>2. e \in LogEntry
    BY <1>1 DEF LandedEntry, LogEntry, AdvanceKinds, LandKinds
  <1>3. x \in Integrated
    BY <1>1 DEF Integrated
  <1>4. s = [r EXCEPT !.log = Append(@, e), !.integrated[i] = x]
    BY DEF LandedRecord
  <1> HIDE DEF s, x, e
  <1>5. [r EXCEPT !.log = Append(@, e)] \in BatchRecord
    BY <1>1, <1>2, EntryAppended
  <1>6. s \in BatchRecord
    BY <1>1, <1>3, <1>4, <1>5 DEF BatchRecord
  <1>7. /\ s.log = Append(r.log, e)
        /\ s.v2 = r.v2 /\ s.members = r.members /\ s.epoch = r.epoch
        /\ s.lifecycle = r.lifecycle /\ s.finalPR = r.finalPR
    BY <1>1, <1>4 DEF BatchRecord
  <1>8. s.integrated = [r.integrated EXCEPT ![i] = x]
    BY <1>1, <1>4 DEF BatchRecord
  <1> QED
    BY <1>2, <1>6, <1>7, <1>8 DEF s, x, e, Landed

-----------------------------------------------------------------------------
\* The owner's calls on a record.

\* A record of c that keeps its log and its evidence, or forgets the evidence.
SameLog(r, s) ==
    /\ s.v2 = r.v2 /\ s.members = r.members /\ s.log = r.log
    /\ \A m \in Items : s.integrated[m] \in {r.integrated[m], None}

\* What a call on batch b does to the registry.
Calls(b) ==
    /\ \A c \in Batches \ {b} : batches'[c] = batches[c]
    /\ batches'[b] # None
    /\ \/ /\ batches[b] = None /\ schema' = 4
          /\ batches'[b].v2 /\ batches'[b].lifecycle = "active"
          /\ ValidLog(batches'[b]) /\ HeadsFit(batches'[b].log)
          /\ UNCHANGED <<meta, receipt, evidence>>
       \/ /\ batches[b] # None /\ schema' = schema
          /\ \/ /\ batches[b].v2 /\ batches[b].lifecycle = "active" /\ ~AnyDone(b)
                /\ \E files \in SUBSET Paths, kind \in {"fix", "develop-merge"} :
                      LET e == [kind |-> kind, head |-> NextSeq(b), member |-> None, files |-> files,
                                requires |-> {m \in ReceiptHolders(b) : receipt[m].files \cap files # {}}]
                      IN  /\ kind = "develop-merge" => files = {}
                          /\ batches'[b] = [batches[b] EXCEPT !.log = Append(@, e)]
                /\ UNCHANGED <<meta, receipt, evidence>>
             \/ /\ SameLog(batches[b], batches'[b])
                /\ batches'[b].lifecycle = batches[b].lifecycle
                /\ batches'[b].integrated = batches[b].integrated
                /\ batches'[b].epoch >= batches[b].epoch
                /\ batches[b].finalPR # None /\ AnyDone(b) => batches'[b].finalPR = batches[b].finalPR
                /\ UNCHANGED <<meta, receipt>>
                /\ \/ evidence' = evidence
                   \/ /\ ~AnyDone(b)
                      /\ \A i \in Items : evidence'[i] = IF i \in batches[b].members THEN None
                                                         ELSE evidence[i]
             \/ /\ SameLog(batches[b], batches'[b])
                /\ ActiveBatch(b) /\ ~AnyDone(b)
                /\ \A i \in Items :
                      /\ receipt'[i] = IF i \in batches[b].members THEN None ELSE receipt[i]
                      /\ evidence'[i] = IF i \in batches[b].members THEN None ELSE evidence[i]
                      /\ meta'[i] = IF i \in batches[b].members THEN None ELSE meta[i]

LEMMA BatchCalls ==
    ASSUME ClaimInv, NEW b \in Batches, BatchCall(b)
    PROVE  Calls(b)
  <1>1. /\ batches \in [Batches -> BatchRecord \cup {None}]
        /\ TypeInv
    BY DEF ClaimInv, TypeInv, TypeOK
  <1>2. PICK p \in Procs, g \in OwnerGens :
           \/ \E M \in MemberSets : RegisterBatch(p, b, M, g)
           \/ \E files \in SUBSET Paths : AdvanceFix(p, b, g, files)
           \/ AdvanceMerge(p, b, g)
           \/ BindPR(p, b, g)
           \/ RebindPR(p, b, g)
           \/ \E new \in OwnerGens : RecoverOwner(p, b, g, new)
           \/ AbortBatch(p, b, g)
    BY DEF BatchCall
  <1>3. ASSUME NEW M \in MemberSets, RegisterBatch(p, b, M, g) PROVE Calls(b)
    <2> DEFINE e == [kind |-> "start", head |-> 0, member |-> None, files |-> {}, requires |-> {}]
               r == [v2 |-> TRUE, lifecycle |-> "active", owner |-> Actor[p], gen |-> g,
                     epoch |-> 0, members |-> M, finalPR |-> None, log |-> <<e>>,
                     integrated |-> [m \in Items |-> None]]
    <2>1. /\ batches' = [batches EXCEPT ![b] = r] /\ schema' = 4
          /\ UNCHANGED <<meta, receipt, evidence>> /\ batches[b] = None
      BY <1>3 DEF RegisterBatch, itemVars, proofVars, Registrable, Registered
    <2>2. /\ r.v2 /\ r.lifecycle = "active" /\ r # None
          /\ ValidLog(r) /\ HeadsFit(r.log)
      <3>1. r \in BatchRecord
        <4>1. e \in LogEntry
          BY DEF LogEntry, AdvanceKinds
        <4> HIDE DEF e
        <4>2. <<e>> \in Seq(LogEntry)
          BY <4>1
        <4> QED
          BY <4>2, ActorAssumption, InputAssumption DEF BatchRecord
      <3>2. r # None
        BY <3>1, NoneAssumption
      <3>3. ValidLog(r) /\ HeadsFit(r.log)
        BY DEF ValidLog, HeadsFit
      <3> QED
        BY <3>2, <3>3
    <2> HIDE DEF r
    <2>3. batches'[b] = r /\ \A c \in Batches \ {b} : batches'[c] = batches[c]
      BY <1>1, <2>1
    <2> QED
      BY <2>1, <2>2, <2>3 DEF Calls
  <1>4. ASSUME ActiveBatch(b)
        PROVE  batches[b] \in BatchRecord /\ batches[b] # None /\ batches[b].epoch \in Nat
    BY <1>1, <1>4 DEF ActiveBatch, Registered, BatchRecord
  <1>5. ASSUME NEW kind \in {"fix", "develop-merge"}, NEW files \in SUBSET Paths, AdvanceAllowed(p, b, g),
               Advanced(b, kind, files, {m \in ReceiptHolders(b) : receipt[m].files \cap files # {}}),
               kind = "develop-merge" => files = {},
               UNCHANGED <<schema, meta, receipt, evidence>>
        PROVE  Calls(b)
    <2> DEFINE e == [kind |-> kind, head |-> NextSeq(b), member |-> None, files |-> files,
                     requires |-> {m \in ReceiptHolders(b) : receipt[m].files \cap files # {}}]
               r == [batches[b] EXCEPT !.log = Append(@, e)]
    <2>1. ActiveBatch(b) /\ batches[b].v2 /\ batches[b].lifecycle = "active" /\ ~AnyDone(b)
      BY <1>5 DEF AdvanceAllowed, OwnedBatch, ActiveBatch
    <2>2. batches' = [batches EXCEPT ![b] = r]
      BY <1>5 DEF Advanced
    <2>3. batches'[b] = r /\ \A c \in Batches \ {b} : batches'[c] = batches[c]
      BY <1>1, <2>2
    <2>4. r # None
      <3>1. NextSeq(b) \in Nat
        BY <1>1, <2>1, SeqTypes DEF ActiveBatch
      <3>2. {m \in ReceiptHolders(b) : receipt[m].files \cap files # {}} \in SUBSET Items
        BY <1>4, <2>1 DEF ReceiptHolders, BatchRecord
      <3>3. e \in LogEntry
        BY <3>1, <3>2 DEF LogEntry, AdvanceKinds
      <3> HIDE DEF e
      <3> QED
        BY <1>4, <2>1, <3>3, EntryAppended, NoneAssumption
    <2> QED
      BY <1>4, <1>5, <2>1, <2>3, <2>4 DEF Calls
  <1>6. ASSUME NEW files \in SUBSET Paths, AdvanceFix(p, b, g, files) PROVE Calls(b)
    BY <1>5, <1>6 DEF AdvanceFix, itemVars, proofVars
  <1>7. CASE AdvanceMerge(p, b, g)
    <2>1. {m \in ReceiptHolders(b) : receipt[m].files \cap {} # {}} = {}
      OBVIOUS
    <2>2. /\ AdvanceAllowed(p, b, g) /\ UNCHANGED <<schema, meta, receipt, evidence>>
          /\ Advanced(b, "develop-merge", {}, {})
      BY <1>7 DEF AdvanceMerge, itemVars, proofVars
    <2> QED
      BY <1>5, <2>1, <2>2
  <1>8. CASE BindPR(p, b, g) \/ RebindPR(p, b, g)
    <2> DEFINE r == [batches[b] EXCEPT !.finalPR = IntegrationHead(b)]
    <2>1. ActiveBatch(b) /\ batches' = [batches EXCEPT ![b] = r]
          /\ UNCHANGED <<schema, meta, receipt>>
      BY <1>8 DEF BindPR, RebindPR, OwnedBatch, itemVars, proofVars
    <2>2. batches'[b] = r /\ \A c \in Batches \ {b} : batches'[c] = batches[c]
      BY <1>1, <2>1
    <2>3. r \in BatchRecord
      <3>1. IntegrationHead(b) \in Nat
        BY <1>1, <1>8, HeadTypes DEF BindPR, RebindPR, OwnedBatch, ActiveBatch
      <3> QED
        BY <1>4, <2>1, <3>1 DEF BatchRecord
    <2>4. /\ r.v2 = batches[b].v2 /\ r.members = batches[b].members /\ r.log = batches[b].log
          /\ r.lifecycle = batches[b].lifecycle /\ r.integrated = batches[b].integrated
          /\ r.epoch >= batches[b].epoch
      BY <1>4, <2>1 DEF BatchRecord
    <2>5. /\ batches[b].finalPR # None => ~AnyDone(b)
          /\ \/ evidence' = evidence
             \/ /\ ~AnyDone(b)
                /\ \A i \in Items : evidence'[i] = IF i \in batches[b].members THEN None ELSE evidence[i]
      BY <1>8 DEF BindPR, RebindPR, proofVars
    <2> HIDE DEF r
    <2> QED
      BY <1>4, <2>1, <2>2, <2>3, <2>4, <2>5, NoneAssumption DEF Calls, SameLog
  <1>9. ASSUME NEW new \in OwnerGens, RecoverOwner(p, b, g, new) PROVE Calls(b)
    <2> DEFINE r == [batches[b] EXCEPT !.owner = Actor[p], !.gen = new, !.epoch = @ + 1]
    <2>1. ActiveBatch(b) /\ batches' = [batches EXCEPT ![b] = r]
          /\ UNCHANGED <<schema, meta, receipt, evidence>>
      BY <1>9 DEF RecoverOwner, itemVars, proofVars
    <2>2. batches'[b] = r /\ \A c \in Batches \ {b} : batches'[c] = batches[c]
      BY <1>1, <2>1
    <2>3. r \in BatchRecord
      <3>1. batches[b].epoch + 1 \in Nat /\ Actor[p] \in Workers
        BY <1>4, <2>1, ActorAssumption
      <3> QED
        BY <1>4, <2>1, <3>1 DEF BatchRecord
    <2>4. /\ r.v2 = batches[b].v2 /\ r.members = batches[b].members /\ r.log = batches[b].log
          /\ r.lifecycle = batches[b].lifecycle /\ r.integrated = batches[b].integrated
          /\ r.epoch >= batches[b].epoch /\ r.finalPR = batches[b].finalPR
      BY <1>4, <2>1 DEF BatchRecord
    <2> HIDE DEF r
    <2> QED
      BY <1>4, <2>1, <2>2, <2>3, <2>4, NoneAssumption DEF Calls, SameLog
  <1>10. CASE AbortBatch(p, b, g)
    <2> DEFINE r == [batches[b] EXCEPT !.lifecycle = "aborted", !.integrated = [m \in Items |-> None]]
    <2>1. ActiveBatch(b) /\ ~AnyDone(b) /\ batches' = [batches EXCEPT ![b] = r] /\ schema' = schema
      BY <1>10 DEF AbortBatch
    <2>2. batches'[b] = r /\ \A c \in Batches \ {b} : batches'[c] = batches[c]
      BY <1>1, <2>1
    <2>3. r \in BatchRecord
      BY <1>4, <2>1 DEF BatchRecord
    <2>4. SameLog(batches[b], r)
      BY <1>4, <2>1 DEF BatchRecord, SameLog
    <2>5. \A i \in Items :
            /\ receipt'[i] = IF i \in batches[b].members THEN None ELSE receipt[i]
            /\ evidence'[i] = IF i \in batches[b].members THEN None ELSE evidence[i]
            /\ meta'[i] = IF i \in batches[b].members THEN None ELSE meta[i]
      BY <1>10 DEF AbortBatch, Detached
    <2> HIDE DEF r
    <2> QED
      BY <1>4, <2>1, <2>2, <2>3, <2>4, <2>5, NoneAssumption DEF Calls
  <1> QED
    BY <1>2, <1>3, <1>6, <1>7, <1>8, <1>9, <1>10

-----------------------------------------------------------------------------
\* Logs and receipts fit the registry.

\* Every receipt points at the evidence of a batch that was not aborted, and
\* the evidence names the files of the receipt.
ReceiptsFit ==
    \A i \in Items : receipt[i] # None =>
        /\ ValidReceipt(i)
        /\ batches[receipt[i].batch].integrated[i].files = receipt[i].files
        /\ batches[receipt[i].batch].lifecycle # "aborted"

Fits == ClaimInv /\ ItemsFit /\ MetaFits /\ LogsFit /\ ReceiptsFit

\* Calls that keep the log, or forget evidence, keep it valid.
LEMMA SameLogs ==
    ASSUME NEW r, NEW s, ValidLog(r), HeadsFit(r.log), SameLog(r, s)
    PROVE  ValidLog(s) /\ HeadsFit(s.log)
  <1>1. \A m \in Items : s.integrated[m] # None => s.integrated[m] = r.integrated[m]
    BY DEF SameLog
  <1> QED
    BY <1>1 DEF SameLog, ValidLog

\* The entry an advance of b writes.
Advance(b, kind, files) ==
    [kind |-> kind, head |-> NextSeq(b), member |-> None, files |-> files,
     requires |-> {m \in ReceiptHolders(b) : receipt[m].files \cap files # {}}]

AdvancedRecord(b, kind, files) ==
    [batches[b] EXCEPT !.log = Append(@, Advance(b, kind, files))]

AdvanceFit(b, kind, files) ==
    LET r == batches[b]
        s == AdvancedRecord(b, kind, files)
    IN
    /\ Advance(b, kind, files) \in LogEntry
    /\ s \in BatchRecord /\ ValidLog(s) /\ HeadsFit(s.log)
    /\ s.log = Append(r.log, Advance(b, kind, files))
    /\ s.members = r.members /\ s.integrated = r.integrated
    /\ s.v2 = r.v2 /\ s.lifecycle = r.lifecycle /\ s.epoch = r.epoch /\ s.finalPR = r.finalPR

LEMMA AdvanceFits ==
    ASSUME Fits, NEW b \in Batches, batches[b] # None, batches[b].v2,
           NEW kind \in {"fix", "develop-merge"}, NEW files \in SUBSET Paths
    PROVE  AdvanceFit(b, kind, files)
  <1> DEFINE e == Advance(b, kind, files)
             s == AdvancedRecord(b, kind, files)
  <1>1. batches[b] \in BatchRecord /\ NextSeq(b) \in Nat /\ NextSeq(b) = Len(batches[b].log)
    BY SeqTypes DEF Fits, ClaimInv, TypeInv, TypeOK, Registered, NextSeq
  <1>2. ValidLog(batches[b]) /\ HeadsFit(batches[b].log)
    BY DEF Fits, LogsFit, Registered
  <1>3. e.requires \subseteq batches[b].members /\ e.requires \subseteq Items
    BY <1>1 DEF Advance, ReceiptHolders, BatchRecord
  <1>4. e \in LogEntry /\ e.kind = kind /\ e.head = Len(batches[b].log)
    BY <1>1, <1>3 DEF Advance, LogEntry, AdvanceKinds
  <1>5. s = [batches[b] EXCEPT !.log = Append(@, e)]
    BY DEF AdvancedRecord
  <1> DEFINE r == batches[b]
  <1>6. /\ s \in BatchRecord /\ ValidLog(s) /\ HeadsFit(s.log)
        /\ s.log = Append(r.log, e) /\ s.members = r.members /\ s.integrated = r.integrated
        /\ s.v2 = r.v2 /\ s.lifecycle = r.lifecycle /\ s.epoch = r.epoch /\ s.finalPR = r.finalPR
    <2> HIDE DEF e, r, s
    <2>1. r \in BatchRecord /\ ValidLog(r) /\ HeadsFit(r.log) /\ s = [r EXCEPT !.log = Append(@, e)]
      BY <1>1, <1>2, <1>5 DEF r
    <2>2. e \in LogEntry /\ e.kind = kind /\ e.head = Len(r.log) /\ e.requires \subseteq r.members
      BY <1>3, <1>4 DEF r
    <2>3. s \in BatchRecord
      BY <2>1, <2>2, EntryAppended
    <2>4. /\ s.log = Append(r.log, e) /\ s.members = r.members /\ s.integrated = r.integrated
          /\ s.v2 = r.v2 /\ s.lifecycle = r.lifecycle /\ s.epoch = r.epoch /\ s.finalPR = r.finalPR
      BY <2>1, <2>2 DEF BatchRecord
    <2>5. ValidLog(s) /\ HeadsFit(s.log)
      BY <2>1, <2>2, <2>3, <2>4, LogGrows
    <2> QED
      BY <2>3, <2>4, <2>5
  <1> QED
    BY <1>4, <1>6 DEF AdvanceFit

\* What Prepare writes is a valid record, and the member's evidence is newer
\* than every other receipt of the batch.
LandFit(i, files, kind) ==
    LET b == meta[i].batch
        s == LandedRecord(i, files, kind)
    IN
    /\ ValidLog(s) /\ HeadsFit(s.log)
    /\ \A m \in Items \ {i} : s.integrated[m] = batches[b].integrated[m]
    /\ s.integrated[i] = [seq |-> NextSeq(b), head |-> LandedHead(i, kind), files |-> files]

LEMMA LandFits ==
    ASSUME Fits, NEW i \in Items, NEW base, NEW files \in SUBSET Paths, NEW kind \in LandKinds,
           Lands(i, base, files, kind)
    PROVE  LandFit(i, files, kind)
  <1> DEFINE b == meta[i].batch
             r == batches[b]
             e == LandedEntry(i, kind)
             s == LandedRecord(i, files, kind)
  <1>1. /\ r \in BatchRecord /\ s \in BatchRecord /\ e \in LogEntry
        /\ s.log = Append(r.log, e) /\ s.members = r.members
        /\ s.integrated = [r.integrated EXCEPT ![i] =
              [seq |-> NextSeq(b), head |-> LandedHead(i, kind), files |-> files]]
    <2>1. r \in BatchRecord
      BY DEF Lands
    <2>2. Landed(i, files, kind)
      BY LandedTypes
    <2> QED
      BY <2>1, <2>2 DEF Landed
  <1>2. ValidLog(r) /\ HeadsFit(r.log) /\ i \in r.members
    BY DEF Fits, LogsFit, Lands, ActiveBatch
  <1>3. /\ e.kind = kind /\ e.member = i
        /\ e.head = IF e.kind = "reprepare" THEN r.log[Len(r.log)].head ELSE Len(r.log)
        /\ e.head = LandedHead(i, kind) /\ NextSeq(b) = Len(r.log)
    BY DEF LandedEntry, LandedHead, IntegrationHead, NextSeq
  <1> HIDE DEF e, s
  <1>4. /\ \A m \in Items \ {i} : s.integrated[m] = r.integrated[m]
        /\ s.integrated[i] = [seq |-> NextSeq(b), head |-> LandedHead(i, kind), files |-> files]
    BY <1>1 DEF BatchRecord
  <1>5. \A m \in Items :
          \/ s.integrated[m] = r.integrated[m]
          \/ /\ m \in r.members
             /\ s.integrated[m].seq = Len(r.log) /\ s.integrated[m].head = e.head
    BY <1>2, <1>3, <1>4
  <1>6. ValidLog(s) /\ HeadsFit(s.log)
    <2>1. e.kind # "start" /\ e.kind # "fix" /\ e.member \in r.members
      BY <1>2, <1>3 DEF LandKinds
    <2> HIDE DEF r
    <2> QED
      BY <1>1, <1>2, <1>3, <1>5, <2>1, LogGrows
  <1> QED
    BY <1>4, <1>6 DEF s, LandFit

\* No step breaks a log.
LEMMA LogsKept ==
    ASSUME Fits, [Next]_vars
    PROVE  LogsFit'
  <1>1. SUFFICES ASSUME NEW b \in Batches, batches'[b] # None, batches'[b].v2
                 PROVE  schema' = 4 /\ ValidLog(batches'[b]) /\ HeadsFit(batches'[b].log)
    BY DEF LogsFit, Registered, ValidLog, HeadsFit
  <1>2. batches[b] # None /\ batches[b].v2 =>
            schema = 4 /\ ValidLog(batches[b]) /\ HeadsFit(batches[b].log)
    BY DEF Fits, LogsFit, Registered
  <1>3. schema \in {3, 4} /\ batches \in [Batches -> BatchRecord \cup {None}] /\ ClaimInv
    BY DEF Fits, ClaimInv, TypeInv, TypeOK
  <1>4. CASE batches' = batches /\ schema' = schema
    BY <1>1, <1>2, <1>4
  <1>5. ASSUME NEW p \in Procs, NEW j \in Items, Prepare(p, j)
        PROVE  schema' = 4 /\ ValidLog(batches'[b]) /\ HeadsFit(batches'[b].log)
    <2>1. PICK base \in LogHeads(meta[j].batch), files \in SUBSET Paths, kind \in LandKinds :
             Lands(j, base, files, kind)
      BY <1>3, <1>5, Landing
    <2> DEFINE c == meta[j].batch
               s == LandedRecord(j, files, kind)
    <2>2. c \in Batches /\ batches[c] # None /\ batches[c].v2
          /\ batches' = [batches EXCEPT ![c] = s] /\ schema' = schema
      BY <2>1 DEF Lands, ActiveBatch, Registered
    <2>3. ValidLog(s) /\ HeadsFit(s.log)
      BY <2>1, LandFits DEF LandFit
    <2>4. schema = 4
      BY <2>2 DEF Fits, LogsFit, Registered
    <2> HIDE DEF s, c
    <2>5. b = c => batches'[b] = s
      BY <1>3, <2>2
    <2>6. b # c => batches'[b] = batches[b]
      BY <1>3, <2>2
    <2> QED
      BY <1>1, <1>2, <2>2, <2>3, <2>4, <2>5, <2>6
  <1>6. ASSUME NEW p \in Procs, NEW j \in Items, FinishMember(p, j)
        PROVE  schema' = 4 /\ ValidLog(batches'[b]) /\ HeadsFit(batches'[b].log)
    <2> DEFINE c == meta[j].batch
    <2>1. /\ c \in Batches /\ batches[c] # None /\ schema' = schema
          /\ \/ batches' = batches
             \/ batches' = [batches EXCEPT ![c].lifecycle = "completed"]
      BY <1>3, <1>6 DEF FinishMember, FinishAllowed, ActiveBatch, Registered, ClaimInv, TypeInv, TypeOK, Meta
    <2>2. b # c => batches'[b] = batches[b]
      BY <1>3, <2>1
    <2>3. b = c => batches'[b] = batches[b] \/ batches'[b] = [batches[b] EXCEPT !.lifecycle = "completed"]
      BY <1>3, <2>1
    <2>4. batches[b] # None => batches[b] \in BatchRecord
      BY <1>3
    <2> HIDE DEF c
    <2>5. batches[b] # None /\ batches'[b].v2 = batches[b].v2 /\ SameLog(batches[b], batches'[b])
      BY <1>1, <2>1, <2>2, <2>3, <2>4 DEF SameLog, BatchRecord
    <2> QED
      BY <1>1, <1>2, <2>1, <2>5, SameLogs
  <1>7. ASSUME NEW c \in Batches, BatchCall(c)
        PROVE  schema' = 4 /\ ValidLog(batches'[b]) /\ HeadsFit(batches'[b].log)
    <2>1. Calls(c)
      BY <1>3, <1>7, BatchCalls
    <2>2. CASE b # c
      BY <1>1, <1>2, <1>3, <2>1, <2>2 DEF Calls
    <2>3. CASE b = c /\ batches[c] = None
      BY <2>1, <2>3 DEF Calls
    <2>4. CASE b = c /\ SameLog(batches[b], batches'[b]) /\ batches[b] # None /\ schema' = schema
      BY <1>1, <1>2, <2>4, SameLogs DEF SameLog
    <2>5. ASSUME b = c, batches[b] # None, batches[b].v2, schema' = schema,
                 NEW kind \in {"fix", "develop-merge"}, NEW files \in SUBSET Paths,
                 batches'[b] = AdvancedRecord(b, kind, files)
          PROVE  schema' = 4 /\ ValidLog(batches'[b]) /\ HeadsFit(batches'[b].log)
      <3> DEFINE s == AdvancedRecord(b, kind, files)
      <3>1. ValidLog(s) /\ HeadsFit(s.log)
        BY <2>5, AdvanceFits DEF AdvanceFit
      <3>2. batches'[b] = s
        BY <2>5
      <3> HIDE DEF s
      <3> QED
        BY <1>2, <2>5, <3>1, <3>2
    <2> QED
      BY <2>1, <2>2, <2>3, <2>4, <2>5 DEF Calls, Advance, AdvancedRecord
  <1> QED
    BY <1>3, <1>4, <1>5, <1>6, <1>7, Kinds DEF Quiet, Update, UpdateContent, UpdateNeeds, UpdateStatus,
       UpdateHold, UpdateBatch, batchVars

-----------------------------------------------------------------------------
\* What one step does to the receipt and the metadata of an item: no step but
\* Prepare writes a receipt, and metadata is attached once, to an item that
\* holds none, and stays as long as the receipt.
LEMMA ItemWrites ==
    ASSUME Fits, [Next]_vars, NEW i \in Items
    PROVE  \/ \E p \in Procs : Prepare(p, i)
           \/ /\ receipt'[i] \in {receipt[i], None}
              /\ receipt'[i] # None => meta'[i] = meta[i]
  <1>1. /\ receipt \in [Items -> Receipt \cup {None}] /\ meta \in [Items -> Meta \cup {None}]
        /\ ClaimInv
    BY DEF Fits, ClaimInv, TypeInv, TypeOK
  <1>2. receipt[i] # None => meta[i] # None
    BY DEF Fits, ReceiptsFit, ValidReceipt
  <1>3. CASE UNCHANGED <<receipt, meta>>
    BY <1>3
  <1>4. ASSUME NEW j \in Items, Created(j), receipt' = receipt
        PROVE  receipt'[i] \in {receipt[i], None} /\ (receipt'[i] # None => meta'[i] = meta[i])
    <2>1. PICK mt : ~Present(j) /\ meta' = [meta EXCEPT ![j] = mt]
      BY <1>4 DEF Created, CreateItem
    <2>2. meta[j] = None
      BY <2>1 DEF Fits, ItemsFit
    <2> QED
      BY <1>1, <1>2, <1>4, <2>1, <2>2
  <1>5. ASSUME NEW j \in Items, Update(j)
        PROVE  receipt'[i] \in {receipt[i], None} /\ (receipt'[i] # None => meta'[i] = meta[i])
    <2>1. VoidReceipts(j)
      BY <1>5 DEF Update, UpdateContent, UpdateNeeds, UpdateStatus, UpdateHold, UpdateBatch
    <2>2. meta' = meta \/ (meta[j] = None /\ \A k \in Items \ {j} : meta'[k] = meta[k])
      <3>1. CASE UpdateBatch(j)
        <4>1. PICK mt \in MetaInputs(needs[j]) : meta[j] = None /\ meta' = [meta EXCEPT ![j] = mt]
          BY <3>1 DEF UpdateBatch
        <4> QED
          BY <1>1, <4>1
      <3>2. CASE UpdateContent(j) \/ UpdateNeeds(j) \/ UpdateStatus(j) \/ UpdateHold(j)
        BY <3>2 DEF UpdateContent, UpdateNeeds, UpdateStatus, UpdateHold, itemVars
      <3> QED
        BY <1>5, <3>1, <3>2 DEF Update
    <2> QED
      BY <1>1, <1>2, <2>1, <2>2 DEF VoidReceipts
  <1>6. ASSUME NEW p \in Procs, NEW j \in Items, FinishMember(p, j)
        PROVE  UNCHANGED <<receipt, meta>>
    BY <1>6 DEF FinishMember
  <1>7. ASSUME NEW p \in Procs, NEW j \in Items, Prepare(p, j), j # i
        PROVE  receipt'[i] \in {receipt[i], None} /\ (receipt'[i] # None => meta'[i] = meta[i])
    BY <1>1, <1>7, Landing DEF Lands
  <1>8. ASSUME NEW b \in Batches, BatchCall(b)
        PROVE  receipt'[i] \in {receipt[i], None} /\ (receipt'[i] # None => meta'[i] = meta[i])
    BY <1>1, <1>8, BatchCalls DEF Calls
  <1> QED
    BY <1>1, <1>3, <1>4, <1>5, <1>6, <1>7, <1>8, Kinds DEF Quiet

\* What one step does to the record of a batch, as far as the receipts of its
\* members go.
LEMMA RecordWrites ==
    ASSUME Fits, [Next]_vars, NEW b \in Batches, batches[b] # None,
           NEW i \in Items, receipt[i] # None, receipt[i].batch = b,
           receipt'[i] = receipt[i]
    PROVE  /\ batches'[b] # None
           /\ batches'[b].v2 = batches[b].v2 /\ batches'[b].members = batches[b].members
           /\ batches'[b].epoch >= batches[b].epoch
           /\ batches'[b].integrated[i] = batches[b].integrated[i]
           /\ batches'[b].lifecycle = "aborted" => batches[b].lifecycle = "aborted"
  <1> DEFINE Good ==
           /\ batches'[b] # None
           /\ batches'[b].v2 = batches[b].v2 /\ batches'[b].members = batches[b].members
           /\ batches'[b].epoch >= batches[b].epoch
           /\ batches'[b].integrated[i] = batches[b].integrated[i]
           /\ batches'[b].lifecycle = "aborted" => batches[b].lifecycle = "aborted"
  <1>1. /\ batches \in [Batches -> BatchRecord \cup {None}] /\ batches[b] \in BatchRecord
        /\ batches[b].epoch \in Nat /\ ClaimInv
    BY DEF Fits, ClaimInv, TypeInv, TypeOK, BatchRecord
  <1>2. CASE batches'[b] = batches[b]
    BY <1>1, <1>2
  <1>3. ASSUME NEW p \in Procs, NEW j \in Items, FinishMember(p, j) PROVE Good
    <2> DEFINE c == meta[j].batch
               r == [batches[b] EXCEPT !.lifecycle = "completed"]
    <2>1. batches' = batches \/ batches' = [batches EXCEPT ![c].lifecycle = "completed"]
      BY <1>3 DEF FinishMember
    <2>2. batches'[b] = batches[b] \/ batches'[b] = r
      BY <1>1, <2>1
    <2>3. r \in BatchRecord /\ r # None
      <3>1. r \in BatchRecord
        BY <1>1 DEF BatchRecord
      <3> QED
        BY <3>1, NoneAssumption
    <2>4. /\ r.v2 = batches[b].v2 /\ r.members = batches[b].members /\ r.epoch = batches[b].epoch
          /\ r.integrated = batches[b].integrated /\ r.lifecycle = "completed"
      BY <1>1 DEF BatchRecord
    <2> HIDE DEF r
    <2> QED
      BY <1>1, <1>2, <2>2, <2>3, <2>4
  <1>4. ASSUME NEW p \in Procs, NEW j \in Items, Prepare(p, j) PROVE Good
    <2>1. PICK base \in LogHeads(meta[j].batch), files \in SUBSET Paths, kind \in LandKinds :
             Lands(j, base, files, kind)
      BY <1>1, <1>4, Landing
    <2> DEFINE s == LandedRecord(j, files, kind)
    <2>2. batches' = [batches EXCEPT ![meta[j].batch] = s] /\ receipt[j] = None
      BY <2>1 DEF Lands
    <2>3. CASE b # meta[j].batch
      BY <1>1, <1>2, <2>2, <2>3
    <2>4. CASE b = meta[j].batch
      <3>1. Landed(j, files, kind)
        BY <2>1, LandedTypes
      <3>2. /\ s \in BatchRecord /\ s.v2 = batches[b].v2 /\ s.members = batches[b].members
            /\ s.epoch = batches[b].epoch /\ s.lifecycle = batches[b].lifecycle
        BY <2>4, <3>1 DEF Landed
      <3>3. s.integrated[i] = batches[b].integrated[i]
        <4>1. LandFit(j, files, kind)
          BY <2>1, LandFits
        <4> QED
          BY <2>2, <2>4, <4>1 DEF LandFit
      <3> HIDE DEF s
      <3>4. batches'[b] = s /\ s # None
        BY <1>1, <2>2, <2>4, <3>2, NoneAssumption
      <3> QED
        BY <1>1, <3>2, <3>3, <3>4
    <2> QED
      BY <2>3, <2>4
  <1>5. ASSUME NEW c \in Batches, BatchCall(c) PROVE Good
    <2>1. Calls(c)
      BY <1>1, <1>5, BatchCalls
    <2>2. CASE c # b
      BY <1>2, <2>1, <2>2 DEF Calls
    <2>3. CASE c = b
      <3>1. i \in batches[b].members
        BY DEF Fits, ReceiptsFit, ValidReceipt
      <3>2. ASSUME batches[b].v2, NEW kind \in {"fix", "develop-merge"}, NEW files \in SUBSET Paths,
                   batches'[b] = AdvancedRecord(b, kind, files)
            PROVE  Good
        <4> DEFINE s == AdvancedRecord(b, kind, files)
        <4>1. /\ s.members = batches[b].members /\ s.integrated = batches[b].integrated
              /\ s.v2 = batches[b].v2 /\ s.lifecycle = batches[b].lifecycle /\ s.epoch = batches[b].epoch
              /\ s \in BatchRecord
          <5>1. AdvanceFit(b, kind, files)
            BY <3>2, AdvanceFits
          <5> QED
            BY <5>1 DEF AdvanceFit
        <4>2. batches'[b] = s
          BY <3>2
        <4> HIDE DEF s
        <4> QED
          BY <1>1, <4>1, <4>2, NoneAssumption
      <3>3. CASE /\ SameLog(batches[b], batches'[b]) /\ batches'[b] # None
                 /\ batches'[b].lifecycle = batches[b].lifecycle
                 /\ batches'[b].integrated = batches[b].integrated
                 /\ batches'[b].epoch >= batches[b].epoch
        BY <3>3 DEF SameLog
      <3>4. CASE receipt'[i] = None
        BY <3>4
      <3> QED
        BY <2>1, <2>3, <3>1, <3>2, <3>3, <3>4 DEF Calls, Advance, AdvancedRecord
    <2> QED
      BY <2>2, <2>3
  <1> QED
    BY <1>1, <1>2, <1>3, <1>4, <1>5, Kinds DEF Quiet, Update, UpdateContent, UpdateNeeds, UpdateStatus,
       UpdateHold, UpdateBatch, batchVars

\* No step breaks a receipt without voiding it.
LEMMA ReceiptsKept ==
    ASSUME Fits, ClaimInv', [Next]_vars
    PROVE  ReceiptsFit'
  <1> SUFFICES ASSUME NEW i \in Items, receipt'[i] # None
               PROVE  /\ ValidReceipt(i)'
                      /\ batches'[receipt'[i].batch].integrated[i].files = receipt'[i].files
                      /\ batches'[receipt'[i].batch].lifecycle # "aborted"
    BY DEF ReceiptsFit, ValidReceipt
  <1>1. ClaimInv /\ receipt \in [Items -> Receipt \cup {None}]
        /\ batches \in [Batches -> BatchRecord \cup {None}]
    BY DEF Fits, ClaimInv, TypeInv, TypeOK
  <1>2. CASE receipt'[i] = receipt[i] /\ meta'[i] = meta[i]
    <2> DEFINE b == receipt[i].batch
               r == batches[b]
               s == batches'[b]
    <2>1. /\ b \in Batches /\ r # None /\ receipt[i].epoch \in Nat
      BY <1>1, <1>2 DEF Fits, ReceiptsFit, ValidReceipt, Receipt
    <2>2. /\ meta[i] # None /\ meta[i].batch = b /\ r.v2 /\ i \in r.members
          /\ r.integrated[i] # None /\ r.integrated[i].seq = receipt[i].seq
          /\ r.integrated[i].head = receipt[i].head /\ receipt[i].epoch <= r.epoch
          /\ r.integrated[i].files = receipt[i].files /\ r.lifecycle # "aborted"
      BY <1>2 DEF Fits, ReceiptsFit, ValidReceipt
    <2>3. /\ s # None /\ s.v2 = r.v2 /\ s.members = r.members /\ s.epoch >= r.epoch
          /\ s.integrated[i] = r.integrated[i]
          /\ s.lifecycle = "aborted" => r.lifecycle = "aborted"
      BY <1>2, <2>1, RecordWrites
    <2>4. r.epoch \in Nat /\ s.epoch \in Nat
      <3>1. r \in BatchRecord
        BY <1>1, <2>1
      <3>2. batches' \in [Batches -> BatchRecord \cup {None}]
        BY DEF ClaimInv, TypeInv, TypeOK
      <3>3. s \in BatchRecord
        BY <2>1, <2>3, <3>2
      <3> QED
        BY <3>1, <3>3 DEF BatchRecord
    <2>5. receipt[i].epoch <= s.epoch
      BY <2>1, <2>2, <2>3, <2>4
    <2> HIDE DEF r, s
    <2>6. receipt'[i].batch = b /\ batches'[receipt'[i].batch] = s
      BY <1>2 DEF s
    <2> QED
      BY <1>2, <2>1, <2>2, <2>3, <2>5, <2>6 DEF ValidReceipt
  <1>3. ASSUME NEW p \in Procs, Prepare(p, i)
        PROVE  /\ ValidReceipt(i)'
               /\ batches'[receipt'[i].batch].integrated[i].files = receipt'[i].files
               /\ batches'[receipt'[i].batch].lifecycle # "aborted"
    <2>1. PICK base \in LogHeads(meta[i].batch), files \in SUBSET Paths, kind \in LandKinds :
             Lands(i, base, files, kind)
      BY <1>1, <1>3, Landing
    <2> DEFINE b == meta[i].batch
               s == LandedRecord(i, files, kind)
               rc == LandedReceipt(i, base, files, kind)
               x == [seq |-> NextSeq(b), head |-> LandedHead(i, kind), files |-> files]
    <2>2. /\ b \in Batches /\ batches[b].v2 /\ i \in batches[b].members /\ batches[b] \in BatchRecord
          /\ batches[b].lifecycle = "active"
          /\ batches' = [batches EXCEPT ![b] = s]
          /\ receipt' = [receipt EXCEPT ![i] = rc] /\ meta' = meta
      BY <2>1 DEF Lands, ActiveBatch
    <2>3. /\ rc.batch = b /\ rc.epoch = batches[b].epoch /\ rc.seq = NextSeq(b)
          /\ rc.head = LandedHead(i, kind) /\ rc.files = files
      BY DEF LandedReceipt
    <2>4. /\ s \in BatchRecord /\ s.v2 = batches[b].v2 /\ s.members = batches[b].members
          /\ s.epoch = batches[b].epoch /\ s.lifecycle = batches[b].lifecycle
      <3>1. Landed(i, files, kind)
        BY <2>1, LandedTypes
      <3> QED
        BY <3>1 DEF Landed
    <2>5. s.integrated[i] = x
      BY <2>1, LandFits DEF LandFit
    <2>6. x # None
      <3>1. NextSeq(b) \in Nat /\ LandedHead(i, kind) \in Nat
        BY <2>1 DEF Lands
      <3>2. x \in Integrated
        BY <3>1 DEF Integrated
      <3> QED
        BY <3>2, NoneAssumption
    <2>7. s # None /\ s.epoch \in Nat
      BY <2>4, NoneAssumption DEF BatchRecord
    <2>8. meta[i] # None
      BY <1>3 DEF Prepare
    <2> HIDE DEF s, rc, b
    <2>9. receipt'[i] = rc /\ batches'[b] = s
      BY <1>1, <2>2
    <2>10. meta'[i] # None /\ meta'[i].batch = b
      BY <2>2, <2>8 DEF b
    <2>11. receipt'[i].batch = b /\ batches'[receipt'[i].batch] = s
      BY <2>3, <2>9
    <2>12. /\ s.v2 /\ i \in s.members /\ s.integrated[i] # None /\ s.lifecycle # "aborted"
           /\ s.integrated[i].seq = rc.seq /\ s.integrated[i].head = rc.head
           /\ s.integrated[i].files = rc.files
      BY <2>2, <2>3, <2>4, <2>5, <2>6
    <2>13. rc.epoch <= s.epoch
      BY <2>3, <2>4, <2>7
    <2> QED
      BY <2>7, <2>9, <2>10, <2>11, <2>12, <2>13 DEF ValidReceipt
  <1> QED
    BY <1>2, <1>3, ItemWrites

\* The parts hold together.
THEOREM FitsHold == Spec => []Fits
  <1>1. Init => ItemsFit /\ MetaFits /\ LogsFit /\ ReceiptsFit
    <2> SUFFICES ASSUME Init PROVE ItemsFit /\ MetaFits /\ LogsFit /\ ReceiptsFit
      OBVIOUS
    <2>1. ItemsFit
      BY DEF Init, ItemsFit, Present, Acyclic
    <2>2. ASSUME NEW i \in Items, meta[i] # None
          PROVE  /\ meta[i].deps \subseteq needs[i]
                 /\ Registered(meta[i].batch)
                 /\ i \in batches[meta[i].batch].members
      <3>1. i \in Enrolled /\ meta[i] = [batch |-> CHOOSE b \in Batches : i \in LegacyMembers[b], deps |-> {}]
        BY <2>2 DEF Init
      <3>2. PICK c \in Batches : i \in LegacyMembers[c]
        BY <3>1 DEF Enrolled
      <3>3. (CHOOSE b \in Batches : i \in LegacyMembers[b]) = c
        BY <3>2, InputAssumption
      <3>4. meta[i].batch = c /\ meta[i].deps = {}
        BY <3>1, <3>3
      <3>5. PICK w \in Workers, g \in OwnerGens : batches[c] = LegacyBatch(c, w, g)
        BY <3>2 DEF Init
      <3>6. batches[c] # None /\ batches[c].members = LegacyMembers[c]
        <4>1. LegacyBatch(c, w, g) \in BatchRecord
          BY InputAssumption, EmptySeq DEF LegacyBatch, BatchRecord
        <4>2. LegacyBatch(c, w, g).members = LegacyMembers[c]
          BY DEF LegacyBatch
        <4> QED
          BY <3>5, <4>1, <4>2, NoneAssumption
      <3> QED
        BY <3>2, <3>4, <3>6 DEF Registered
    <2>3. LogsFit
      BY DEF Init, LogsFit, Registered, LegacyBatch
    <2>4. ReceiptsFit
      BY DEF Init, ReceiptsFit
    <2> QED
      BY <2>1, <2>2, <2>3, <2>4 DEF MetaFits
  <1>2. Fits /\ ClaimInv' /\ [Next]_vars => Fits'
    BY ItemsKept, LogsKept, ReceiptsKept DEF Fits
  <1> QED
    BY <1>1, <1>2, ClaimsHold, PTL DEF Spec, Fits

\* Every snapshot an operation writes passes the validator: whatever sequence
\* of calls led there, the next load of the state branch succeeds.
THEOREM ValidSnapshotHolds == Spec => []ValidSnapshot
  <1>1. Fits => ValidSnapshot
    <2> SUFFICES ASSUME Fits PROVE ValidSnapshot
      OBVIOUS
    <2>1. needs \in [Items -> SUBSET Items]
      BY DEF Fits, ClaimInv, TypeInv, TypeOK
    <2>2. \A i \in Items : i \notin needs[i]
      <3> SUFFICES ASSUME NEW i \in Items, i \in needs[i] PROVE FALSE
        OBVIOUS
      <3>1. {i} \in SUBSET Items /\ {i} # {}
        OBVIOUS
      <3>2. PICK k \in {i} : needs[k] \cap {i} = {}
        BY <3>1 DEF Fits, ItemsFit, Acyclic
      <3> QED
        BY <3>2
    <2>3. ValidItems
      BY <2>2 DEF Fits, ItemsFit, ValidItems, ClaimInv, ClaimedActive
    <2> QED
      BY <2>3 DEF Fits, MetaFits, LogsFit, ReceiptsFit, ValidSnapshot
  <1> QED
    BY <1>1, FitsHold, PTL

-----------------------------------------------------------------------------
\* Receipts fall with the work they rest on.

\* Whatever an item rests on falls into its downstream with it.
LEMMA DownstreamCloses ==
    ASSUME NEW j \in Items, NEW d \in Items, d = j \/ d \in Downstream(j),
           NEW i \in Items, i # j, meta[i] # None, d \in meta[i].deps,
           receipt[i] # None \/ evidence[i] # None
    PROVE  i \in Downstream(j)
  BY DEF Downstream

\* Receipts that two batches could both claim do not exist: a member of an
\* active batch that nobody finished belongs to no other batch in progress.
LEMMA ReceiptsApart ==
    ASSUME Fits, Disjoint, CompletedTogether,
           NEW b \in Batches, ActiveBatch(b), ~AnyDone(b),
           NEW i \in Items, receipt[i] # None, i \notin batches[b].members
    PROVE  batches[receipt[i].batch].members \cap batches[b].members = {}
  <1> DEFINE c == receipt[i].batch
  <1>1. /\ c \in Batches /\ batches[c] # None /\ i \in batches[c].members
        /\ batches[c].lifecycle \in {"active", "completed"}
    <2>1. receipt[i] \in Receipt /\ c \in Batches
      BY DEF Fits, ClaimInv, TypeInv, TypeOK, Receipt
    <2>2. batches[c] # None /\ i \in batches[c].members /\ batches[c].lifecycle # "aborted"
      BY DEF Fits, ReceiptsFit, ValidReceipt
    <2>3. batches[c] \in BatchRecord
      BY <2>1, <2>2 DEF Fits, ClaimInv, TypeInv, TypeOK
    <2> QED
      BY <2>1, <2>2, <2>3 DEF BatchRecord
  <1> SUFFICES batches[c].members \cap batches[b].members = {}
    OBVIOUS
  <1> HIDE DEF c
  <1>2. CASE batches[c].lifecycle = "active"
    BY <1>1, <1>2 DEF Disjoint, ActiveBatch, Registered
  <1>3. CASE batches[c].lifecycle = "completed"
    BY <1>1, <1>3 DEF CompletedTogether, Registered, AnyDone
  <1> QED
    BY <1>1, <1>2, <1>3

\* No receipt outlives the work of its batch that it rests on: an edit, an abort
\* or a recovery takes the dependents' receipts with it.
THEOREM DependentsFollowHolds == Spec => []DependentsFollow
  <1>1. Init => DependentsFollow
    BY DEF Init, DependentsFollow
  <1>2. Fits /\ Disjoint /\ CompletedTogether /\ DependentsFollow /\ [Next]_vars => DependentsFollow'
    <2> SUFFICES ASSUME Fits, Disjoint, CompletedTogether, DependentsFollow, [Next]_vars,
                        NEW i \in Items, receipt'[i] # None,
                        NEW d \in meta'[i].deps, d \in batches'[receipt'[i].batch].members
                 PROVE  /\ receipt'[d] # None
                        /\ receipt'[d].batch = receipt'[i].batch => receipt'[d].seq < receipt'[i].seq
      BY DEF DependentsFollow
    <2> DEFINE Good == /\ receipt'[d] # None
                       /\ receipt'[d].batch = receipt'[i].batch => receipt'[d].seq < receipt'[i].seq
    <2>1. /\ receipt \in [Items -> Receipt \cup {None}] /\ meta \in [Items -> Meta \cup {None}]
          /\ batches \in [Batches -> BatchRecord \cup {None}] /\ ClaimInv
      BY DEF Fits, ClaimInv, TypeInv, TypeOK
    <2>2. ASSUME NEW p \in Procs, Prepare(p, i) PROVE Good
      <3>1. PICK base \in LogHeads(meta[i].batch), files \in SUBSET Paths, kind \in LandKinds :
               Lands(i, base, files, kind)
        BY <2>1, <2>2, Landing
      <3> DEFINE b == meta[i].batch
      <3>2. /\ receipt' = [receipt EXCEPT ![i] = LandedReceipt(i, base, files, kind)]
            /\ meta' = meta /\ receipt[i] = None
            /\ \A x \in meta[i].deps : receipt[x] # None
        BY <3>1 DEF Lands
      <3>3. meta[i] # None /\ meta[i].deps \subseteq Items
        BY <2>1, <2>2 DEF Prepare, Meta
      <3>4. d \in Items /\ d # i /\ receipt[d] # None /\ receipt'[d] = receipt[d]
        BY <2>1, <3>2, <3>3
      <3>5. receipt'[i].batch = b /\ receipt'[i].seq = NextSeq(b)
        BY <2>1, <3>2 DEF LandedReceipt
      <3>6. ASSUME receipt[d].batch = b PROVE receipt[d].seq < NextSeq(b)
        <4>1. b \in Batches /\ batches[b] # None /\ batches[b].v2 /\ NextSeq(b) \in Nat
          BY <3>1 DEF Lands, ActiveBatch, Registered
        <4>2. batches[b].integrated[d] # None /\ batches[b].integrated[d].seq = receipt[d].seq
          BY <3>4, <3>6 DEF Fits, ReceiptsFit, ValidReceipt
        <4>3. ValidLog(batches[b])
          BY <4>1 DEF Fits, LogsFit, Registered
        <4>4. batches[b].integrated[d].seq \in 1..Len(batches[b].log) - 1
          BY <3>4, <4>2, <4>3 DEF ValidLog
        <4> QED
          BY <4>1, <4>2, <4>4 DEF NextSeq
      <3> QED
        BY <3>4, <3>5, <3>6
    <2>3. ASSUME receipt'[i] = receipt[i], meta'[i] = meta[i] PROVE Good
      <3> DEFINE b == receipt[i].batch
      <3>1. /\ b \in Batches /\ batches[b] # None /\ meta[i] # None /\ d \in Items /\ d \in meta[i].deps
        <4>1. meta[i] # None /\ meta[i] \in Meta
          BY <2>1, <2>3 DEF Fits, ReceiptsFit, ValidReceipt
        <4> QED
          BY <2>1, <2>3, <4>1 DEF Fits, ReceiptsFit, ValidReceipt, Receipt, Meta
      <3>2. batches'[b].members = batches[b].members
        BY <2>3, <3>1, RecordWrites
      <3>3. /\ receipt[d] # None
            /\ receipt[d].batch = b => receipt[d].seq < receipt[i].seq
            /\ d \in batches[b].members
        BY <2>3, <3>1, <3>2 DEF DependentsFollow
      <3>4. CASE receipt'[d] = receipt[d]
        BY <2>3, <3>3, <3>4
      <3>5. CASE receipt'[d] # receipt[d]
        <4>1. ~ \E p \in Procs : Prepare(p, d)
          BY <3>3 DEF Prepare, PrepareAt
        <4>2. receipt'[d] = None
          BY <3>1, <3>5, <4>1, ItemWrites
        <4>3. ASSUME NEW j \in Items, Update(j) PROVE FALSE
          <5>1. VoidReceipts(j)
            BY <4>3 DEF Update, UpdateContent, UpdateNeeds, UpdateStatus, UpdateHold, UpdateBatch
          <5>2. d = j \/ d \in Downstream(j)
            BY <3>1, <3>5, <5>1 DEF VoidReceipts
          <5>3. i # j /\ i \notin Downstream(j)
            BY <5>1, <2>3 DEF VoidReceipts
          <5> QED
            BY <2>3, <3>1, <5>2, <5>3, DownstreamCloses
        <4>4. ASSUME NEW c \in Batches, BatchCall(c) PROVE FALSE
          <5>1. /\ ActiveBatch(c) /\ ~AnyDone(c) /\ d \in batches[c].members
                /\ \A k \in batches[c].members : k \in Items => receipt'[k] = None
            BY <2>1, <3>1, <3>5, <4>4, BatchCalls DEF Calls
          <5>2. i \notin batches[c].members
            BY <5>1
          <5> QED
            BY <2>3, <3>3, <5>1, <5>2, ReceiptsApart
        <4>5. ASSUME NEW p \in Procs, NEW j \in Items, FinishMember(p, j) \/ Prepare(p, j)
              PROVE  FALSE
          <5>1. receipt' = receipt \/ \E r \in {receipt'[j]} : receipt' = [receipt EXCEPT ![j] = r]
            BY <4>5, <2>1, Landing DEF FinishMember, Lands
          <5> QED
            BY <2>1, <3>1, <3>3, <3>5, <4>1, <4>2, <4>5, <5>1 DEF FinishMember
        <4> QED
          BY <3>5, <4>3, <4>4, <4>5, Kinds DEF Quiet
      <3> QED
        BY <3>4, <3>5
    <2> QED
      BY <2>2, <2>3, ItemWrites
  <1> QED
    BY <1>1, <1>2, FitsHold, DisjointHolds, CompletedTogetherHolds, PTL DEF Spec

-----------------------------------------------------------------------------
\* What receipts note of each other.

\* A member that landed later notes every earlier one it shares a file with.
OverlapsNoted ==
    \A m, n \in Items :
        /\ receipt[m] # None /\ receipt[n] # None /\ receipt[m].batch = receipt[n].batch
        /\ receipt[m].seq < receipt[n].seq
        /\ receipt[m].files \cap receipt[n].files # {}
        => m \in receipt[n].overMembers

\* A fix that the receipt's base does not contain is noted by the receipt, when
\* it came first, or by the fix, when it came later.
FixesNoted ==
    \A m \in Items : receipt[m] # None =>
        \A s \in FixSeqs(receipt[m].batch) :
            /\ receipt[m].base < s
            /\ receipt[m].files \cap EntryAt(receipt[m].batch, s).files # {}
            => s \in receipt[m].overFixes \/ m \in EntryAt(receipt[m].batch, s).requires

\* A prepared member is not given up.
NoneDropped == \A i \in Items : receipt[i] # None => status[i] # "dropped"

\* The sequence numbers of receipts lie inside the log.
LEMMA SeqInside ==
    ASSUME Fits, NEW m \in Items, receipt[m] # None
    PROVE  LET b == receipt[m].batch IN
           /\ b \in Batches /\ batches[b] # None /\ batches[b].v2
           /\ m \in batches[b].members
           /\ batches[b].integrated[m] # None
           /\ batches[b].integrated[m].files = receipt[m].files
           /\ receipt[m].seq \in Nat /\ receipt[m].seq < NextSeq(b)
           /\ NextSeq(b) \in Nat
  <1> DEFINE b == receipt[m].batch
  <1>1. receipt[m] \in Receipt /\ ClaimInv
    BY DEF Fits, ClaimInv, TypeInv, TypeOK
  <1>2. b \in Batches /\ receipt[m].seq \in Nat
    BY <1>1 DEF Receipt
  <1>3. /\ batches[b] # None /\ batches[b].v2 /\ m \in batches[b].members
        /\ batches[b].integrated[m] # None
        /\ batches[b].integrated[m].seq = receipt[m].seq
        /\ batches[b].integrated[m].files = receipt[m].files
    BY DEF Fits, ReceiptsFit, ValidReceipt
  <1>4. ValidLog(batches[b])
    BY <1>2, <1>3 DEF Fits, LogsFit, Registered
  <1>5. receipt[m].seq \in 1..Len(batches[b].log) - 1
    BY <1>3, <1>4 DEF ValidLog
  <1>6. NextSeq(b) \in Nat /\ NextSeq(b) = Len(batches[b].log)
    BY <1>1, <1>2, <1>3, SeqTypes DEF ClaimInv, Registered, NextSeq
  <1>7. receipt[m].seq < NextSeq(b)
    BY <1>2, <1>5, <1>6
  <1> QED
    BY <1>2, <1>3, <1>6, <1>7

\* No step lets a receipt miss an earlier overlap.
LEMMA OverlapsKept ==
    ASSUME Fits, OverlapsNoted, [Next]_vars
    PROVE  OverlapsNoted'
  <1> SUFFICES ASSUME NEW m \in Items, NEW n \in Items,
                      receipt'[m] # None, receipt'[n] # None, receipt'[m].batch = receipt'[n].batch,
                      receipt'[m].seq < receipt'[n].seq,
                      receipt'[m].files \cap receipt'[n].files # {}
               PROVE  m \in receipt'[n].overMembers
    BY DEF OverlapsNoted
  <1>1. receipt \in [Items -> Receipt \cup {None}] /\ ClaimInv
    BY DEF Fits, ClaimInv, TypeInv, TypeOK
  <1>2. CASE receipt'[m] = receipt[m] /\ receipt'[n] = receipt[n]
    BY <1>2 DEF OverlapsNoted
  <1>3. ASSUME NEW p \in Procs, NEW j \in Items, Prepare(p, j), j \in {m, n}
        PROVE  m \in receipt'[n].overMembers
    <2>1. PICK base \in LogHeads(meta[j].batch), files \in SUBSET Paths, kind \in LandKinds :
             Lands(j, base, files, kind)
      BY <1>1, <1>3, Landing
    <2> DEFINE b == meta[j].batch
               rc == LandedReceipt(j, base, files, kind)
    <2>2. /\ receipt' = [receipt EXCEPT ![j] = rc] /\ NextSeq(b) \in Nat
          /\ receipt[j] = None
      BY <2>1 DEF Lands
    <2>3. /\ rc.batch = b /\ rc.seq = NextSeq(b) /\ rc.files = files
          /\ rc.overMembers = OverlappingMembers(b, j, files)
      BY DEF LandedReceipt
    <2> HIDE DEF rc, b
    <2>4. /\ receipt'[j] = rc
          /\ \A k \in Items \ {j} : receipt'[k] = receipt[k]
      BY <1>1, <2>2
    <2>5. CASE n = j
      <3>1. m # j
        BY <2>2, <2>3, <2>4, <2>5
      <3>2. receipt[m] # None /\ receipt[m].batch = b /\ receipt'[m] = receipt[m]
        BY <2>3, <2>4, <2>5, <3>1
      <3>3. batches[b].integrated[m] # None /\ batches[b].integrated[m].files = receipt[m].files
        BY <3>2, SeqInside
      <3> QED
        BY <2>3, <2>4, <2>5, <3>1, <3>2, <3>3 DEF OverlappingMembers
    <2>6. CASE m = j /\ n # j
      <3>1. receipt[n] # None /\ receipt[n].batch = b /\ receipt'[n] = receipt[n]
        BY <2>3, <2>4, <2>6
      <3>2. receipt[n].seq \in Nat /\ receipt[n].seq < NextSeq(b)
        BY <3>1, SeqInside
      <3>3. NextSeq(b) < receipt[n].seq
        BY <2>3, <2>4, <2>6, <3>1
      <3> QED
        BY <2>2, <3>2, <3>3
    <2> QED
      BY <1>3, <2>5, <2>6
  <1> QED
    BY <1>1, <1>2, <1>3, ItemWrites

\* What one step appends to the log of a batch: nothing, or one entry, which
\* obliges the members it overlaps when it is a fix.
Appends(b, e) ==
    /\ batches'[b].log = Append(batches[b].log, e)
    /\ e.kind = "fix" =>
          \A m \in Items : /\ receipt[m] # None /\ receipt[m].batch = b
                           /\ receipt[m].files \cap e.files # {}
                           => m \in e.requires

LEMMA LogWrites ==
    ASSUME Fits, [Next]_vars, NEW b \in Batches, batches[b] # None
    PROVE  \/ batches'[b].log = batches[b].log
           \/ \E e \in LogEntry : Appends(b, e)
  <1> DEFINE Good == \/ batches'[b].log = batches[b].log
                     \/ \E e \in LogEntry : Appends(b, e)
  <1>1. batches \in [Batches -> BatchRecord \cup {None}] /\ batches[b] \in BatchRecord /\ ClaimInv
    BY DEF Fits, ClaimInv, TypeInv, TypeOK
  <1>2. ASSUME NEW p \in Procs, NEW j \in Items, FinishMember(p, j) PROVE Good
    <2>1. batches' = batches \/ batches' = [batches EXCEPT ![meta[j].batch].lifecycle = "completed"]
      BY <1>2 DEF FinishMember
    <2>2. batches'[b] = batches[b] \/ batches'[b] = [batches[b] EXCEPT !.lifecycle = "completed"]
      BY <1>1, <2>1
    <2> QED
      BY <1>1, <2>2 DEF BatchRecord
  <1>3. ASSUME NEW p \in Procs, NEW j \in Items, Prepare(p, j) PROVE Good
    <2>1. PICK base \in LogHeads(meta[j].batch), files \in SUBSET Paths, kind \in LandKinds :
             Lands(j, base, files, kind)
      BY <1>1, <1>3, Landing
    <2> DEFINE e == LandedEntry(j, kind)
               s == LandedRecord(j, files, kind)
    <2>2. batches' = [batches EXCEPT ![meta[j].batch] = s]
      BY <2>1 DEF Lands
    <2>3. Landed(j, files, kind)
      BY <2>1, LandedTypes
    <2>4. CASE b = meta[j].batch
      <3>1. e \in LogEntry /\ s.log = Append(batches[b].log, e)
        BY <2>3, <2>4 DEF Landed
      <3>2. e.kind # "fix"
        BY DEF LandedEntry, LandKinds
      <3> HIDE DEF e, s
      <3>3. Appends(b, e)
        BY <1>1, <2>2, <2>4, <3>1, <3>2 DEF Appends
      <3> QED
        BY <3>1, <3>3
    <2>5. CASE b # meta[j].batch
      BY <1>1, <2>2, <2>5
    <2> QED
      BY <2>4, <2>5
  <1>4. ASSUME NEW c \in Batches, BatchCall(c) PROVE Good
    <2>1. Calls(c)
      BY <1>1, <1>4, BatchCalls
    <2>2. CASE c # b
      BY <2>1, <2>2 DEF Calls
    <2>3. ASSUME batches[b].v2, NEW kind \in {"fix", "develop-merge"}, NEW files \in SUBSET Paths,
                 batches'[b] = AdvancedRecord(b, kind, files)
          PROVE  Good
      <3> DEFINE e == Advance(b, kind, files)
      <3>1. AdvanceFit(b, kind, files)
        BY <2>3, AdvanceFits
      <3>2. e \in LogEntry /\ batches'[b].log = Append(batches[b].log, e)
        BY <2>3, <3>1 DEF AdvanceFit
      <3>3. ASSUME NEW m \in Items, receipt[m] # None, receipt[m].batch = b,
                   receipt[m].files \cap files # {}
            PROVE  m \in e.requires
        <4>1. m \in batches[b].members
          BY <3>3 DEF Fits, ReceiptsFit, ValidReceipt
        <4> QED
          BY <3>3, <4>1 DEF Advance, ReceiptHolders
      <3>4. e.files = files
        BY DEF Advance
      <3> HIDE DEF e
      <3>5. Appends(b, e)
        BY <3>2, <3>3, <3>4 DEF Appends
      <3> QED
        BY <3>2, <3>5
    <2>4. CASE c = b
      BY <1>1, <2>1, <2>3, <2>4 DEF Calls, SameLog, Advance, AdvancedRecord
    <2> QED
      BY <2>2, <2>4
  <1> QED
    BY <1>1, <1>2, <1>3, <1>4, Kinds DEF Quiet, Update, UpdateContent, UpdateNeeds, UpdateStatus,
       UpdateHold, UpdateBatch, batchVars

\* Reading a log across a step: old entries stay, and there is at most one more.
LEMMA FixesRead ==
    ASSUME Fits, [Next]_vars, NEW b \in Batches, batches[b] # None, NEW s \in FixSeqs(b)'
    PROVE  \/ s \in FixSeqs(b) /\ EntryAt(b, s)' = EntryAt(b, s)
           \/ \E e \in LogEntry : Appends(b, e) /\ e.kind = "fix" /\ EntryAt(b, s)' = e
  <1> DEFINE log == batches[b].log
             new == batches'[b].log
  <1>1. log \in Seq(LogEntry)
    BY DEF Fits, ClaimInv, TypeInv, TypeOK, BatchRecord
  <1>2. CASE new = log
    BY <1>2 DEF FixSeqs, EntryAt, NextSeq
  <1>3. ASSUME NEW e \in LogEntry, Appends(b, e)
        PROVE  \/ s \in FixSeqs(b) /\ EntryAt(b, s)' = EntryAt(b, s)
               \/ Appends(b, e) /\ e.kind = "fix" /\ EntryAt(b, s)' = e
    <2>1. new = Append(log, e)
      BY <1>3 DEF Appends
    <2>2. /\ Len(log) \in Nat /\ Len(new) = Len(log) + 1
          /\ \A n \in 1..Len(log) : new[n] = log[n]
          /\ new[Len(log) + 1] = e
      <3> HIDE DEF log, new
      <3> QED
        BY <1>1, <2>1, Grown
    <2>3. s \in 0..Len(new) - 1 /\ new[s + 1].kind = "fix"
      BY DEF FixSeqs, EntryAt, NextSeq
    <2>4. CASE s = Len(log)
      BY <1>3, <2>2, <2>3, <2>4 DEF EntryAt
    <2>5. CASE s # Len(log)
      <3>1. s + 1 \in 1..Len(log) /\ s \in 0..Len(log) - 1
        BY <2>2, <2>3, <2>5
      <3> QED
        BY <2>2, <2>3, <3>1 DEF FixSeqs, EntryAt, NextSeq
    <2> QED
      BY <2>4, <2>5
  <1> QED
    BY <1>2, <1>3, LogWrites

\* No step lets a fix and a receipt miss each other.
LEMMA FixesKept ==
    ASSUME Fits, FixesNoted, [Next]_vars
    PROVE  FixesNoted'
  <1> SUFFICES ASSUME NEW m \in Items, receipt'[m] # None,
                      NEW b, b = receipt'[m].batch, NEW s \in FixSeqs(b)',
                      receipt'[m].base < s,
                      receipt'[m].files \cap EntryAt(b, s)'.files # {}
               PROVE  s \in receipt'[m].overFixes \/ m \in EntryAt(b, s)'.requires
    BY DEF FixesNoted, FixSeqs, EntryAt, NextSeq
  <1>1. receipt \in [Items -> Receipt \cup {None}] /\ ClaimInv
    BY DEF Fits, ClaimInv, TypeInv, TypeOK
  <1>2. CASE receipt'[m] = receipt[m]
    <2>1. b \in Batches /\ batches[b] # None /\ receipt[m] # None /\ receipt[m].batch = b
      BY <1>2, SeqInside
    <2>2. CASE s \in FixSeqs(b) /\ EntryAt(b, s)' = EntryAt(b, s)
      BY <1>2, <2>1, <2>2 DEF FixesNoted
    <2>3. ASSUME NEW e \in LogEntry, Appends(b, e), e.kind = "fix", EntryAt(b, s)' = e
          PROVE  m \in EntryAt(b, s)'.requires
      BY <1>2, <2>1, <2>3 DEF Appends
    <2> QED
      BY <2>1, <2>2, <2>3, FixesRead
  <1>3. ASSUME NEW p \in Procs, Prepare(p, m)
        PROVE  s \in receipt'[m].overFixes \/ m \in EntryAt(b, s)'.requires
    <2>1. PICK base \in LogHeads(meta[m].batch), files \in SUBSET Paths, kind \in LandKinds :
             Lands(m, base, files, kind)
      BY <1>1, <1>3, Landing
    <2> DEFINE rc == LandedReceipt(m, base, files, kind)
    <2>2. receipt' = [receipt EXCEPT ![m] = rc] /\ meta[m].batch \in Batches
          /\ batches[meta[m].batch] # None
          /\ batches' = [batches EXCEPT ![meta[m].batch] = LandedRecord(m, files, kind)]
      BY <2>1 DEF Lands, ActiveBatch, Registered
    <2>3. /\ rc.batch = meta[m].batch /\ rc.base = base /\ rc.files = files
          /\ rc.overFixes = OverlappingFixes(meta[m].batch, base, files)
      BY DEF LandedReceipt
    <2> HIDE DEF rc
    <2>4. receipt'[m] = rc /\ b = meta[m].batch
      BY <1>1, <2>2, <2>3
    <2>5. s \in FixSeqs(b) /\ EntryAt(b, s)' = EntryAt(b, s)
      <3>1. ASSUME NEW e \in LogEntry, Appends(b, e), e.kind = "fix" PROVE FALSE
        <4>1. Landed(m, files, kind)
          BY <2>1, LandedTypes
        <4>2. batches'[b] = LandedRecord(m, files, kind)
          <5>1. batches \in [Batches -> BatchRecord \cup {None}]
            BY <1>1 DEF ClaimInv, TypeInv, TypeOK
          <5> QED
            BY <2>2, <2>4, <5>1
        <4>3. Append(batches[b].log, e) = Append(batches[b].log, LandedEntry(m, kind))
              /\ LandedEntry(m, kind) \in LogEntry
          BY <2>4, <3>1, <4>1, <4>2 DEF Appends, Landed
        <4>4. batches[b].log \in Seq(LogEntry)
          BY <1>1, <2>2, <2>4 DEF ClaimInv, TypeInv, TypeOK, BatchRecord
        <4>5. e = LandedEntry(m, kind)
          <5> DEFINE log == batches[b].log
                     f == LandedEntry(m, kind)
          <5> HIDE DEF log, f
          <5>1. log \in Seq(LogEntry) /\ f \in LogEntry /\ Append(log, e) = Append(log, f)
            BY <4>3, <4>4 DEF log, f
          <5>2. Append(log, e)[Len(log) + 1] = e /\ Append(log, f)[Len(log) + 1] = f
            BY <5>1, Grown
          <5> QED
            BY <5>1, <5>2 DEF f
        <4> QED
          BY <3>1, <4>5 DEF LandedEntry, LandKinds
      <3> QED
        BY <2>2, <2>4, <3>1, FixesRead
    <2> QED
      BY <2>3, <2>4, <2>5 DEF OverlappingFixes
  <1> QED
    BY <1>2, <1>3, ItemWrites

\* Only drop gives an item up.
LEMMA DropMoves ==
    ASSUME ClaimInv, [Next]_vars, NEW i \in Items, status'[i] = "dropped"
    PROVE  status[i] = "dropped" \/ \E p \in Procs : Drop(p, i)
  <1>1. status \in [Items -> Statuses \cup {"absent"}]
    BY DEF ClaimInv, TypeInv, TypeOK
  <1>2. ASSUME status'[i] = status[i] PROVE status[i] = "dropped"
    BY <1>2
  <1>3. ASSUME NEW j \in Items, NEW s, s # "dropped", status' = [status EXCEPT ![j] = s]
        PROVE  status[i] = "dropped"
    BY <1>1, <1>3
  <1>4. CASE ItemNext
    <2>1. ASSUME NEW j \in Items, Create(j) \/ Update(j) PROVE status[i] = "dropped"
      BY <1>2, <1>3, <2>1
      DEF Create, CreateItem, Update, UpdateContent, UpdateNeeds, UpdateStatus, UpdateHold, UpdateBatch,
          itemVars
    <2>2. ASSUME NEW p \in Procs, NEW j \in Items,
                 \/ Take(p, j) \/ Takeover(p, j) \/ Renew(p, j)
                 \/ FinishPlain(p, j) \/ FinishMember(p, j)
          PROVE  status[i] = "dropped"
      BY <1>2, <1>3, <2>2 DEF Take, Takeover, GrantClaim, Renew, FinishPlain, FinishMember
    <2>3. ASSUME NEW p \in Procs, NEW j \in Items, Release(p, j) PROVE status[i] = "dropped"
      BY <1>1, <2>3 DEF Release
    <2>4. ASSUME NEW p \in Procs, NEW j \in Items, Drop(p, j)
          PROVE  status[i] = "dropped" \/ \E q \in Procs : Drop(q, i)
      <3>1. CASE i = j
        BY <2>4, <3>1
      <3>2. CASE i # j
        BY <1>1, <2>4, <3>2 DEF Drop
      <3> QED
        BY <3>1, <3>2
    <2>5. CASE Tick \/ \E p \in Procs : Restart(p)
      BY <1>2, <2>5 DEF Tick, Restart
    <2> QED
      BY <1>4, <2>1, <2>2, <2>3, <2>4, <2>5 DEF ItemNext
  <1>5. CASE DeferralNext
    <2>1. ASSUME NEW j \in Items, NEW n \in DOMAIN deferrals[j], NEW k \in Items, PromoteCreate(j, n, k)
          PROVE  status[i] = "dropped"
      BY <1>3, <2>1 DEF PromoteCreate, CreateItem
    <2>2. ASSUME NEW j \in Items, NEW n, NEW k, Defer(j) \/ PromoteLink(j, n, k) \/ Dismiss(j, n)
          PROVE  status[i] = "dropped"
      BY <1>2, <2>2 DEF Defer, PromoteLink, Dismiss
    <2> QED
      BY <1>5, <2>1, <2>2 DEF DeferralNext
  <1>6. CASE BatchNext
    <2>1. ASSUME NEW p \in Procs, NEW j \in Items, Prepare(p, j) PROVE status[i] = "dropped"
      BY <1>3, <2>1 DEF Prepare, PrepareAt
    <2>2. ASSUME NEW p \in Procs, NEW b \in Batches, NEW g \in OwnerGens, AbortBatch(p, b, g)
          PROVE  status[i] = "dropped"
      BY <1>2, <2>2 DEF AbortBatch
    <2>3. ASSUME NEW p \in Procs, NEW b \in Batches, NEW g \in OwnerGens,
                 \/ \E M \in MemberSets : RegisterBatch(p, b, M, g)
                 \/ \E files \in SUBSET Paths : AdvanceFix(p, b, g, files)
                 \/ AdvanceMerge(p, b, g)
                 \/ BindPR(p, b, g)
                 \/ RebindPR(p, b, g)
                 \/ \E new \in OwnerGens : RecoverOwner(p, b, g, new)
          PROVE  status[i] = "dropped"
      <3>1. UNCHANGED itemVars
        BY <2>3, Zenon DEF RegisterBatch, AdvanceFix, AdvanceMerge, BindPR, RebindPR, RecoverOwner
      <3> QED
        BY <1>2, <3>1 DEF itemVars
    <2> QED
      BY <1>6, <2>1, <2>2, <2>3 DEF BatchNext
  <1>7. CASE UNCHANGED vars
    BY <1>2, <1>7 DEF vars, itemVars
  <1> QED
    BY <1>4, <1>5, <1>6, <1>7 DEF Next

\* The batch a receipt names is in progress, or complete with the item done.
LEMMA ReceiptBatch ==
    ASSUME Fits, CompletedTogether, NEW i \in Items, receipt[i] # None
    PROVE  /\ meta[i] # None /\ meta[i].batch = receipt[i].batch
           /\ ActiveBatch(receipt[i].batch) \/ status[i] = "done"
  <1> DEFINE c == receipt[i].batch
  <1>1. /\ c \in Batches /\ batches[c] # None /\ i \in batches[c].members
        /\ batches[c].lifecycle # "aborted" /\ meta[i] # None /\ meta[i].batch = c
    BY SeqInside DEF Fits, ReceiptsFit, ValidReceipt
  <1>2. batches[c].lifecycle \in {"active", "completed"}
    BY <1>1 DEF Fits, ClaimInv, TypeInv, TypeOK, BatchRecord
  <1> QED
    BY <1>1, <1>2 DEF CompletedTogether, Registered, ActiveBatch

LEMMA NoneDroppedKept ==
    ASSUME Fits, CompletedTogether, NoneDropped, [Next]_vars
    PROVE  NoneDropped'
  <1> SUFFICES ASSUME NEW i \in Items, receipt'[i] # None, status'[i] = "dropped" PROVE FALSE
    BY DEF NoneDropped
  <1>1. status \in [Items -> Statuses \cup {"absent"}] /\ ClaimInv
    BY DEF Fits, ClaimInv, TypeInv, TypeOK
  <1>2. ~ \E p \in Procs : Prepare(p, i)
    BY <1>1 DEF Prepare, PrepareAt
  <1>3. receipt'[i] = receipt[i] /\ receipt[i] # None
    BY <1>2, ItemWrites
  <1>4. PICK p \in Procs : Drop(p, i)
    BY <1>1, <1>3, DropMoves DEF NoneDropped
  <1> QED
    BY <1>3, <1>4, ReceiptBatch DEF Drop, Live

-----------------------------------------------------------------------------
\* Closeout.  The registry lets an item depend, for implementation, on work
\* outside its batch; an edit of that work voids receipts whatever has closed.
\* What follows is about executions in which a batch starts to close only once
\* the outside work its members build on is closed itself, with its receipt.
OutsideWorkDone ==
    \A b \in Batches : Registered(b) /\ AnyDone(b) =>
        \A m \in batches[b].members : meta[m] # None /\ meta[m].batch = b =>
            \A d \in meta[m].deps \ batches[b].members : status[d] = "done" /\ receipt[d] # None

\* Then no edit outside a fully prepared batch that is closing reaches it: it
\* would go through the closed work, and is refused there.
LEMMA EditStopsOutside ==
    ASSUME Fits, OutsideWorkDone, NEW b \in Batches, batches[b] # None, AnyDone(b),
           ReceiptHolders(b) = batches[b].members,
           NEW j \in Items, j \notin batches[b].members,
           ~(receipt[j] # None /\ status[j] = "done"),
           \A k \in Downstream(j) : status[k] # "done",
           NEW m \in batches[b].members, m \in Items
    PROVE  m \notin Downstream(j)
  <1> DEFINE S == {k \in Downstream(j) : k \notin batches[b].members}
  <1>1. ASSUME NEW k \in Items \ {j}, meta[k] # None, meta[k].deps \cap (S \cup {j}) # {},
               receipt[k] # None \/ evidence[k] # None
        PROVE  k \in S
    <2>1. PICK d \in Items : d \in meta[k].deps /\ d \in S \cup {j}
      BY <1>1 DEF Downstream
    <2>2. k \in Downstream(j)
      BY <1>1, <2>1, DownstreamCloses
    <2>3. ASSUME k \in batches[b].members PROVE FALSE
      <3>1. receipt[k] # None /\ receipt[k].batch = b
        BY <2>3 DEF ReceiptHolders
      <3>2. meta[k].batch = b
        BY <1>1, <3>1 DEF Fits, ReceiptsFit, ValidReceipt
      <3>3. d \notin batches[b].members
        BY <2>1
      <3>4. status[d] = "done" /\ receipt[d] # None
        BY <1>1, <2>1, <2>3, <3>2, <3>3 DEF OutsideWorkDone, Registered
      <3> QED
        BY <2>1, <3>4
    <2> QED
      BY <2>2, <2>3
  <1>2. S \in SUBSET Items /\ m \notin S
    BY DEF Downstream
  <1> HIDE DEF S
  <1> QED
    BY <1>1, <1>2 DEF Downstream

\* Once a member of a fully prepared batch is done, nothing moves: no receipt,
\* no log entry, no other pull request.
Frozen(b) ==
    /\ batches'[b] # None
    /\ batches'[b].members = batches[b].members
    /\ batches'[b].log = batches[b].log
    /\ batches'[b].finalPR = batches[b].finalPR
    /\ \A m \in batches[b].members : receipt'[m] = receipt[m]

LEMMA FinishFreezes ==
    ASSUME ClaimInv, NEW b \in Batches, batches[b] # None,
           NEW p \in Procs, NEW j \in Items, FinishMember(p, j)
    PROVE  Frozen(b)
  <1>1. batches \in [Batches -> BatchRecord \cup {None}] /\ batches[b] \in BatchRecord
    BY DEF ClaimInv, TypeInv, TypeOK
  <1>2. /\ receipt' = receipt
        /\ \/ batches' = batches
           \/ batches' = [batches EXCEPT ![meta[j].batch].lifecycle = "completed"]
    BY DEF FinishMember
  <1> DEFINE r == [batches[b] EXCEPT !.lifecycle = "completed"]
  <1>3. batches'[b] = batches[b] \/ batches'[b] = r
    BY <1>1, <1>2
  <1>4. /\ r \in BatchRecord /\ r.members = batches[b].members /\ r.log = batches[b].log
        /\ r.finalPR = batches[b].finalPR
    BY <1>1 DEF BatchRecord
  <1> HIDE DEF r
  <1> QED
    BY <1>2, <1>3, <1>4, NoneAssumption DEF Frozen

LEMMA Freezes ==
    ASSUME Fits, Disjoint, CompletedTogether, OutsideWorkDone, [Next]_vars,
           NEW b \in Batches, batches[b] # None, AnyDone(b), batches[b].finalPR # None,
           ReceiptHolders(b) = batches[b].members
    PROVE  Frozen(b)
  <1>1. /\ receipt \in [Items -> Receipt \cup {None}] /\ meta \in [Items -> Meta \cup {None}]
        /\ batches \in [Batches -> BatchRecord \cup {None}] /\ batches[b] \in BatchRecord
        /\ batches[b].members \subseteq Items /\ ClaimInv
    BY DEF Fits, ClaimInv, TypeInv, TypeOK, BatchRecord
  <1>2. \A m \in batches[b].members :
           /\ receipt[m] # None /\ receipt[m].batch = b
           /\ meta[m] # None /\ meta[m].batch = b
           /\ ActiveBatch(b) \/ status[m] = "done"
    BY <1>1, ReceiptBatch DEF ReceiptHolders
  <1>3. ASSUME NEW c \in Batches, BatchCall(c), NEW m \in batches[b].members
        PROVE  receipt'[m] = receipt[m]
    <2> SUFFICES ASSUME receipt'[m] # receipt[m] PROVE FALSE
      OBVIOUS
    <2>1. ActiveBatch(c) /\ ~AnyDone(c) /\ m \in batches[c].members
      BY <1>1, <1>3, BatchCalls DEF Calls
    <2>2. c # b
      BY <2>1
    <2> QED
      BY <1>2, <2>1, <2>2 DEF Disjoint, AnyDone
  <1>4. ASSUME NEW j \in Items, Update(j), NEW m \in batches[b].members
        PROVE  receipt'[m] = receipt[m]
    <2> SUFFICES ASSUME receipt'[m] # receipt[m] PROVE FALSE
      OBVIOUS
    <2>1. VoidReceipts(j)
      BY <1>4 DEF Update, UpdateContent, UpdateNeeds, UpdateStatus, UpdateHold, UpdateBatch
    <2>2. m = j \/ m \in Downstream(j)
      BY <1>1, <2>1 DEF VoidReceipts
    <2>3. /\ ~(receipt[j] # None /\ status[j] = "done")
          /\ \A k \in Downstream(j) : status[k] # "done"
      BY <1>4 DEF Update, UpdateContent, UpdateNeeds, UpdateStatus, UpdateHold, UpdateBatch, EditAllowed
    <2>4. j \in batches[b].members
      BY <1>1, <2>2, <2>3, EditStopsOutside
    <2>5. EditAllowed(j, meta[j])
      BY <1>2, <1>4, <2>4 DEF Update, UpdateContent, UpdateNeeds, UpdateStatus, UpdateHold, UpdateBatch
    <2> QED
      BY <1>2, <2>4, <2>5 DEF EditAllowed, CloseoutStarted, Settled, Registered
  <1>5. ASSUME NEW p \in Procs, NEW j \in Items, FinishMember(p, j) PROVE Frozen(b)
    BY <1>1, <1>5, FinishFreezes
  <1>6. ASSUME NEW p \in Procs, NEW j \in Items, Prepare(p, j) PROVE Frozen(b)
    <2>1. PICK base \in LogHeads(meta[j].batch), files \in SUBSET Paths, kind \in LandKinds :
             Lands(j, base, files, kind)
      BY <1>1, <1>6, Landing
    <2>2. /\ j \in batches[meta[j].batch].members /\ receipt[j] = None
          /\ receipt' = [receipt EXCEPT ![j] = LandedReceipt(j, base, files, kind)]
          /\ batches' = [batches EXCEPT ![meta[j].batch] = LandedRecord(j, files, kind)]
      BY <2>1 DEF Lands
    <2>3. meta[j].batch # b /\ j \notin batches[b].members
      BY <1>2, <2>2
    <2> QED
      BY <1>1, <2>2, <2>3 DEF Frozen
  <1>7. ASSUME NEW c \in Batches, BatchCall(c) PROVE Frozen(b)
    BY <1>1, <1>3, <1>7, BatchCalls DEF Calls, SameLog, Frozen
  <1>8. ASSUME batches' = batches, \A m \in batches[b].members : receipt'[m] = receipt[m]
        PROVE  Frozen(b)
    BY <1>8 DEF Frozen
  <1>9. ASSUME NEW j \in Items, Update(j) PROVE batches' = batches
    BY <1>9, Zenon DEF Update, UpdateContent, UpdateNeeds, UpdateStatus, UpdateHold, UpdateBatch, batchVars
  <1> QED
    BY <1>4, <1>5, <1>6, <1>7, <1>8, <1>9, Kinds DEF Quiet

\* Final evidence is recorded by finishing.
LEMMA EvidenceWrites ==
    ASSUME ClaimInv, [Next]_vars, NEW i \in Items
    PROVE  evidence'[i] \in {None, evidence[i]} \/ \E p \in Procs : FinishMember(p, i)
  <1>1. evidence \in [Items -> Evidence \cup {None}]
    BY DEF ClaimInv, TypeInv, TypeOK
  <1>2. ASSUME NEW j \in Items, Update(j) PROVE evidence'[i] \in {None, evidence[i]}
    <2>1. VoidReceipts(j)
      BY <1>2 DEF Update, UpdateContent, UpdateNeeds, UpdateStatus, UpdateHold, UpdateBatch
    <2> QED
      BY <2>1 DEF VoidReceipts
  <1>3. ASSUME NEW p \in Procs, NEW j \in Items, FinishMember(p, j), j # i
        PROVE  evidence'[i] = evidence[i]
    <2>1. PICK acc \in SUBSET Items :
             evidence' = [evidence EXCEPT ![j] = [head |-> IntegrationHead(meta[j].batch), accepted |-> acc]]
      BY <1>3 DEF FinishMember
    <2> QED
      BY <1>1, <1>3, <2>1
  <1>4. ASSUME NEW p \in Procs, NEW j \in Items, Prepare(p, j) PROVE evidence' = evidence
    BY <1>4 DEF Prepare, PrepareAt
  <1>5. ASSUME NEW b \in Batches, BatchCall(b) PROVE evidence'[i] \in {None, evidence[i]}
    BY <1>5, BatchCalls DEF Calls
  <1> QED
    BY <1>2, <1>3, <1>4, <1>5, Kinds DEF Quiet

\* What is read of a frozen batch reads the same.
LEMMA ReadsFrozen ==
    ASSUME NEW b \in Batches, Frozen(b)
    PROVE  /\ ReceiptHolders(b)' = ReceiptHolders(b)
           /\ IntegrationHead(b)' = IntegrationHead(b)
           /\ AcceptanceRequired(b)' = AcceptanceRequired(b)
  <1>1. ReceiptHolders(b)' = ReceiptHolders(b)
    BY DEF Frozen, ReceiptHolders
  <1>2. IntegrationHead(b)' = IntegrationHead(b) /\ FixSeqs(b)' = FixSeqs(b)
        /\ \A s : EntryAt(b, s)' = EntryAt(b, s)
    BY DEF Frozen, IntegrationHead, FixSeqs, EntryAt, NextSeq
  <1>3. \A m \in ReceiptHolders(b) : receipt'[m] = receipt[m]
    BY DEF Frozen, ReceiptHolders
  <1> QED
    BY <1>1, <1>2, <1>3 DEF AcceptanceRequired

\* Final evidence belongs to a finished member of a fully prepared batch, at its
\* final head, and covers what had to be verified again there.
ClosedAt(i, b) ==
    /\ status[i] = "done" /\ meta[i] # None /\ meta[i].batch = b
    /\ batches[b] # None
    /\ ReceiptHolders(b) = batches[b].members
    /\ batches[b].finalPR = evidence[i].head
    /\ IntegrationHead(b) = evidence[i].head
    /\ AcceptanceRequired(b) \subseteq evidence[i].accepted

Closed == \A i \in Items : evidence[i] # None => \E b \in Batches : ClosedAt(i, b)

LEMMA ClosedKept ==
    ASSUME Fits, Disjoint, CompletedTogether, OutsideWorkDone, Closed, [Next]_vars
    PROVE  Closed'
  <1> SUFFICES ASSUME NEW i \in Items, evidence'[i] # None
               PROVE  \E b \in Batches : ClosedAt(i, b)'
    BY DEF Closed
  <1>1. /\ evidence \in [Items -> Evidence \cup {None}] /\ meta \in [Items -> Meta \cup {None}]
        /\ status \in [Items -> Statuses \cup {"absent"}] /\ ClaimInv
    BY DEF Fits, ClaimInv, TypeInv, TypeOK
  <1>2. CASE evidence'[i] = evidence[i]
    <2>1. PICK b \in Batches : ClosedAt(i, b)
      BY <1>2 DEF Closed
    <2>2. evidence[i].head \in Nat
      BY <1>1, <1>2 DEF Evidence
    <2>3. i \in batches[b].members
      BY <2>1 DEF Fits, MetaFits, ClosedAt
    <2>4. AnyDone(b) /\ batches[b].finalPR # None
      BY <2>1, <2>2, <2>3, NoneAssumption DEF AnyDone, ClosedAt
    <2>5. Frozen(b)
      BY <2>1, <2>4, Freezes DEF ClosedAt
    <2>6. receipt[i] # None /\ receipt'[i] = receipt[i]
      BY <2>1, <2>3, <2>5 DEF ClosedAt, ReceiptHolders, Frozen
    <2>7. meta'[i] = meta[i]
      BY <2>6, ItemWrites DEF Prepare, PrepareAt
    <2>8. status'[i] = "done"
      BY <1>1, <2>1, StatusSteps DEF StatusMoves, Terminal, ClosedAt
    <2>9. ClosedAt(i, b)'
      BY <1>2, <2>1, <2>5, <2>7, <2>8, ReadsFrozen DEF ClosedAt, Frozen
    <2> QED
      BY <2>9
  <1>3. ASSUME NEW p \in Procs, FinishMember(p, i) PROVE \E b \in Batches : ClosedAt(i, b)'
    <2>1. PICK b \in Batches : b = meta[i].batch /\ batches[b] # None /\ meta[i] # None
      BY <1>1, <1>3 DEF FinishMember, FinishAllowed, ActiveBatch, Registered, Meta
    <2>2. PICK acc \in SUBSET Items :
             /\ EvidenceValid(b, acc)
             /\ evidence' = [evidence EXCEPT ![i] = [head |-> IntegrationHead(b), accepted |-> acc]]
      BY <1>3, <2>1 DEF FinishMember
    <2>3. meta' = meta /\ status' = [status EXCEPT ![i] = "done"]
      BY <1>3 DEF FinishMember
    <2>4. Frozen(b)
      BY <1>1, <1>3, <2>1, FinishFreezes
    <2>5. evidence'[i].head = IntegrationHead(b) /\ evidence'[i].accepted = acc
      BY <1>1, <2>2
    <2>6. status'[i] = "done" /\ meta'[i] # None /\ meta'[i].batch = b
      BY <1>1, <2>1, <2>3
    <2>7. ClosedAt(i, b)'
      BY <2>1, <2>2, <2>4, <2>5, <2>6, ReadsFrozen DEF ClosedAt, EvidenceValid, Frozen
    <2> QED
      BY <2>1, <2>7
  <1> QED
    BY <1>1, <1>2, <1>3, EvidenceWrites

\* Everything closeout rests on, in executions that close outside work first.
LEMMA ClosedHolds == Spec /\ []OutsideWorkDone => [](Fits /\ OverlapsNoted /\ FixesNoted /\ NoneDropped /\ Closed)
  <1>1. Init => OverlapsNoted /\ FixesNoted /\ NoneDropped /\ Closed
    BY DEF Init, OverlapsNoted, FixesNoted, NoneDropped, Closed
  <1>2. Fits /\ OverlapsNoted /\ [Next]_vars => OverlapsNoted'
    BY OverlapsKept
  <1>3. Fits /\ FixesNoted /\ [Next]_vars => FixesNoted'
    BY FixesKept
  <1>4. Fits /\ CompletedTogether /\ NoneDropped /\ [Next]_vars => NoneDropped'
    BY NoneDroppedKept
  <1>5. Fits /\ Disjoint /\ CompletedTogether /\ OutsideWorkDone /\ Closed /\ [Next]_vars => Closed'
    BY ClosedKept
  <1> QED
    BY <1>1, <1>2, <1>3, <1>4, <1>5, FitsHold, DisjointHolds, CompletedTogetherHolds, PTL DEF Spec

\* Final evidence belongs to finished members, at the head the final PR is bound
\* to, over the receipts of all declared members, none of them given up.
THEOREM CloseoutCompleteHolds == Spec /\ []OutsideWorkDone => []CloseoutComplete
  <1>1. Fits /\ NoneDropped /\ Closed => CloseoutComplete
    <2> SUFFICES ASSUME Fits, NoneDropped, Closed, NEW i \in Items, evidence[i] # None
                 PROVE  /\ status[i] = "done"
                        /\ meta[i] # None
                        /\ batches[meta[i].batch].finalPR = evidence[i].head
                        /\ IntegrationHead(meta[i].batch) = evidence[i].head
                        /\ ReceiptHolders(meta[i].batch) = batches[meta[i].batch].members
                        /\ \A m \in batches[meta[i].batch].members : status[m] # "dropped"
      BY DEF CloseoutComplete
    <2>1. PICK b \in Batches : ClosedAt(i, b)
      BY DEF Closed
    <2>2. batches[b].members \subseteq Items
      BY <2>1 DEF Fits, ClaimInv, TypeInv, TypeOK, BatchRecord, ClosedAt
    <2>3. \A m \in batches[b].members : status[m] # "dropped"
      BY <2>1, <2>2 DEF NoneDropped, ClosedAt, ReceiptHolders
    <2> QED
      BY <2>1, <2>3 DEF ClosedAt
  <1> QED
    BY <1>1, ClosedHolds, PTL

\* Of two members that touch the same file, the earlier one is verified again
\* at the final head before any member of the batch closes.
THEOREM LaterMembersReacceptedHolds == Spec /\ []OutsideWorkDone => []LaterMembersReaccepted
  <1>1. Fits /\ OverlapsNoted /\ Closed => LaterMembersReaccepted
    <2> SUFFICES ASSUME Fits, OverlapsNoted, Closed, NEW i \in Items, evidence[i] # None,
                        NEW m \in ReceiptHolders(meta[i].batch), NEW n \in ReceiptHolders(meta[i].batch),
                        receipt[m].seq < receipt[n].seq,
                        receipt[m].files \cap receipt[n].files # {}
                 PROVE  m \in evidence[i].accepted
      BY DEF LaterMembersReaccepted
    <2>1. PICK b \in Batches : ClosedAt(i, b)
      BY DEF Closed
    <2>2. m \in ReceiptHolders(b) /\ n \in ReceiptHolders(b)
      BY <2>1 DEF ClosedAt
    <2>3. m \in Items /\ n \in Items
      BY <2>1, <2>2 DEF Fits, ClaimInv, TypeInv, TypeOK, BatchRecord, ClosedAt, ReceiptHolders
    <2>4. m \in receipt[n].overMembers
      BY <2>2, <2>3 DEF OverlapsNoted, ReceiptHolders
    <2>5. m \in AcceptanceRequired(b)
      BY <2>2, <2>4 DEF AcceptanceRequired
    <2> QED
      BY <2>1, <2>5 DEF ClosedAt
  <1> QED
    BY <1>1, ClosedHolds, PTL

\* A fix is accounted for by either of the two that note it.
LEMMA FixRequires ==
    ASSUME NEW b, NEW k \in ReceiptHolders(b), NEW t \in FixSeqs(b),
           t \in receipt[k].overFixes \/ k \in EntryAt(b, t).requires
    PROVE  k \in AcceptanceRequired(b)
  <1> DEFINE overlapping == UNION {receipt[m].overMembers : m \in ReceiptHolders(b)}
             overFixed == {m \in ReceiptHolders(b) : receipt[m].overFixes # {}}
             obliged == UNION {EntryAt(b, s).requires : s \in FixSeqs(b)}
  <1>1. AcceptanceRequired(b) = overlapping \cup overFixed \cup obliged
    BY DEF AcceptanceRequired
  <1>2. t \in receipt[k].overFixes => k \in overFixed
    OBVIOUS
  <1>3. k \in EntryAt(b, t).requires => k \in obliged
    OBVIOUS
  <1> HIDE DEF overlapping, overFixed, obliged
  <1> QED
    BY <1>1, <1>2, <1>3

\* A member whose files a leader's fix touched, and that was not built on the
\* fix, is verified again at the final head before any member closes.
THEOREM FixesReacceptedHolds == Spec /\ []OutsideWorkDone => []FixesReaccepted
  <1>1. Fits /\ FixesNoted /\ Closed => FixesReaccepted
    <2> SUFFICES ASSUME Fits, FixesNoted, Closed, NEW i \in Items, evidence[i] # None,
                        NEW m \in ReceiptHolders(meta[i].batch), NEW s \in FixSeqs(meta[i].batch),
                        receipt[m].base < s,
                        receipt[m].files \cap EntryAt(meta[i].batch, s).files # {}
                 PROVE  m \in evidence[i].accepted
      BY DEF FixesReaccepted
    <2>1. PICK b \in Batches : ClosedAt(i, b)
      BY DEF Closed
    <2>2. /\ meta[i].batch = b /\ m \in ReceiptHolders(b) /\ s \in FixSeqs(b)
          /\ receipt[m] # None /\ receipt[m].batch = b
      BY <2>1 DEF ClosedAt, ReceiptHolders
    <2>3. m \in Items
      BY <2>1, <2>2 DEF Fits, ClaimInv, TypeInv, TypeOK, BatchRecord, ClosedAt, ReceiptHolders
    <2>4. s \in receipt[m].overFixes \/ m \in EntryAt(b, s).requires
      BY <2>2, <2>3 DEF FixesNoted
    <2>5. m \in AcceptanceRequired(b)
      BY <2>2, <2>4, FixRequires
    <2> QED
      BY <2>1, <2>5 DEF ClosedAt
  <1> QED
    BY <1>1, ClosedHolds, PTL

-----------------------------------------------------------------------------
\* Completion: what the reference promises and a run refutes, and the one way
\* a batch stays active over finished members.

\* Only the two ways to finish close an item as done.
LEMMA DoneMoves ==
    ASSUME ClaimInv, Next, NEW i \in Items, status'[i] = "done", status[i] # "done"
    PROVE  \E p \in Procs : FinishPlain(p, i) \/ FinishMember(p, i)
  <1> DEFINE Goal == \E p \in Procs : FinishPlain(p, i) \/ FinishMember(p, i)
  <1>1. status \in [Items -> Statuses \cup {"absent"}]
    BY DEF ClaimInv, TypeInv, TypeOK
  <1>2. ASSUME NEW j \in Items, NEW s, s # "done", status' = [status EXCEPT ![j] = s]
        PROVE  FALSE
    BY <1>1, <1>2
  <1>3. CASE ItemNext
    <2>1. ASSUME NEW j \in Items, Create(j) \/ Update(j) PROVE FALSE
      BY <1>2, <2>1
      DEF Create, CreateItem, Update, UpdateContent, UpdateNeeds, UpdateStatus, UpdateHold, UpdateBatch,
          itemVars
    <2>2. ASSUME NEW p \in Procs, NEW j \in Items,
                 Take(p, j) \/ Takeover(p, j) \/ Renew(p, j) \/ Drop(p, j)
          PROVE  FALSE
      BY <1>2, <2>2 DEF Take, Takeover, GrantClaim, Renew, Drop
    <2>3. ASSUME NEW p \in Procs, NEW j \in Items, Release(p, j) PROVE FALSE
      BY <1>1, <2>3 DEF Release
    <2>4. ASSUME NEW p \in Procs, NEW j \in Items, FinishPlain(p, j) \/ FinishMember(p, j) PROVE Goal
      <3>1. i = j
        BY <2>4, GivingUp
      <3> QED
        BY <2>4, <3>1
    <2>5. CASE Tick \/ \E p \in Procs : Restart(p)
      BY <2>5 DEF Tick, Restart
    <2> QED
      BY <1>3, <2>1, <2>2, <2>3, <2>4, <2>5 DEF ItemNext
  <1>4. CASE DeferralNext
    <2>1. ASSUME NEW j \in Items, NEW n \in DOMAIN deferrals[j], NEW k \in Items, PromoteCreate(j, n, k)
          PROVE  FALSE
      BY <1>2, <2>1 DEF PromoteCreate, CreateItem
    <2>2. ASSUME NEW j \in Items, NEW n, NEW k, Defer(j) \/ PromoteLink(j, n, k) \/ Dismiss(j, n)
          PROVE  FALSE
      BY <2>2 DEF Defer, PromoteLink, Dismiss
    <2> QED
      BY <1>4, <2>1, <2>2 DEF DeferralNext
  <1>5. CASE BatchNext
    <2>1. ASSUME NEW p \in Procs, NEW j \in Items, Prepare(p, j) PROVE FALSE
      BY <1>2, <2>1 DEF Prepare, PrepareAt
    <2>2. ASSUME NEW p \in Procs, NEW b \in Batches, NEW g \in OwnerGens, AbortBatch(p, b, g)
          PROVE  FALSE
      BY <2>2 DEF AbortBatch
    <2>3. ASSUME NEW p \in Procs, NEW b \in Batches, NEW g \in OwnerGens,
                 \/ \E M \in MemberSets : RegisterBatch(p, b, M, g)
                 \/ \E files \in SUBSET Paths : AdvanceFix(p, b, g, files)
                 \/ AdvanceMerge(p, b, g)
                 \/ BindPR(p, b, g)
                 \/ RebindPR(p, b, g)
                 \/ \E new \in OwnerGens : RecoverOwner(p, b, g, new)
          PROVE  FALSE
      <3>1. UNCHANGED itemVars
        BY <2>3, Zenon DEF RegisterBatch, AdvanceFix, AdvanceMerge, BindPR, RebindPR, RecoverOwner
      <3> QED
        BY <3>1 DEF itemVars
    <2> QED
      BY <1>5, <2>1, <2>2, <2>3 DEF BatchNext
  <1> QED
    BY <1>3, <1>4, <1>5 DEF Next

\* The member that closes last either carries the batch's metadata, and its
\* finish completes the batch, or carries none.
LEMMA LastFinish ==
    ASSUME Fits, Disjoint, Next, NEW b \in Batches, ActiveBatch(b),
           NEW m \in batches[b].members, status[m] # "done",
           \A n \in batches[b].members : status'[n] = "done"
    PROVE  (Present(m) /\ meta[m] = None) \/ batches'[b].lifecycle = "completed"
  <1>1. /\ batches \in [Batches -> BatchRecord \cup {None}] /\ batches[b] \in BatchRecord
        /\ meta \in [Items -> Meta \cup {None}]
        /\ batches[b].members \subseteq Items /\ m \in Items /\ ClaimInv
    BY DEF Fits, ClaimInv, TypeInv, TypeOK, BatchRecord, ActiveBatch, Registered
  <1>2. PICK p \in Procs : FinishPlain(p, m) \/ FinishMember(p, m)
    BY <1>1, DoneMoves
  <1>3. CASE FinishPlain(p, m)
    BY <1>3 DEF FinishPlain, FinishAllowed
  <1>4. CASE FinishMember(p, m)
    <2>1. meta[m] # None /\ meta[m].batch \in Batches /\ ActiveBatch(meta[m].batch)
      BY <1>1, <1>4 DEF FinishMember, FinishAllowed, Meta
    <2>2. m \in batches[meta[m].batch].members
      BY <1>1, <2>1 DEF Fits, MetaFits
    <2>3. meta[m].batch = b
      BY <2>1, <2>2 DEF Disjoint
    <2>4. \A n \in batches[b].members \ {m} : status[n] = "done"
      BY <1>1, <1>4, GivingUp
    <2>5. batches' = [batches EXCEPT ![b] = [batches[b] EXCEPT !.lifecycle = "completed"]]
      BY <1>4, <2>3, <2>4 DEF FinishMember, LastMember
    <2> QED
      BY <1>1, <2>5 DEF BatchRecord
  <1> QED
    BY <1>2, <1>3, <1>4

\* An active batch whose last member closes completes in that step, unless the
\* member carries no metadata: such a member finishes as if it were in no batch.
CompletesUnlessBare ==
    [][\A b \in Batches :
          /\ ActiveBatch(b)
          /\ \E m \in batches[b].members : status[m] # "done"
          /\ \A m \in batches[b].members : status'[m] = "done"
          => \/ batches'[b].lifecycle = "completed"
             \/ \E m \in batches[b].members : status[m] \notin {"absent", "done"} /\ meta[m] = None]_vars

THEOREM CompletesUnlessBareHolds == Spec => CompletesUnlessBare
  <1> DEFINE Completes ==
        \A b \in Batches :
          /\ ActiveBatch(b)
          /\ \E m \in batches[b].members : status[m] # "done"
          /\ \A m \in batches[b].members : status'[m] = "done"
          => \/ batches'[b].lifecycle = "completed"
             \/ \E m \in batches[b].members : status[m] \notin {"absent", "done"} /\ meta[m] = None
  <1>1. Fits /\ Disjoint /\ [Next]_vars => [Completes]_vars
    BY LastFinish DEF Present
  <1> QED
    BY <1>1, FitsHold, DisjointHolds, PTL DEF CompletesUnlessBare, Spec

\* So the documented rule holds of every history in which the members of active
\* batches carry metadata.
MembersCarry ==
    \A b \in Batches : ActiveBatch(b) /\ batches[b].v2 =>
        \A m \in batches[b].members : status[m] \notin {"absent", "done"} => meta[m] # None

THEOREM BatchCompletesHolds == Spec /\ []MembersCarry => BatchCompletes
  <1> DEFINE Bare ==
        \A b \in Batches :
          /\ ActiveBatch(b)
          /\ \E m \in batches[b].members : status[m] # "done"
          /\ \A m \in batches[b].members : status'[m] = "done"
          => \/ batches'[b].lifecycle = "completed"
             \/ \E m \in batches[b].members : status[m] \notin {"absent", "done"} /\ meta[m] = None
      Completes ==
        \A b \in Batches :
          /\ ActiveBatch(b) /\ batches[b].v2
          /\ \E m \in batches[b].members : status[m] # "done"
          /\ \A m \in batches[b].members : status'[m] = "done"
          => batches'[b].lifecycle = "completed"
  <1>1. MembersCarry /\ [Bare]_vars => [Completes]_vars
    BY DEF MembersCarry
  <1> QED
    BY <1>1, CompletesUnlessBareHolds, PTL DEF CompletesUnlessBare, BatchCompletes

-----------------------------------------------------------------------------
\* Items left behind by an aborted batch.

Aborts(b) == \E p \in Procs, g \in OwnerGens : AbortBatch(p, b, g)

\* Metadata is attached once, stays, and is taken away by an abort alone.
LEMMA MetaMoves ==
    ASSUME ClaimInv, ItemsFit, [Next]_vars, NEW i \in Items
    PROVE  \/ meta'[i] = meta[i]
           \/ meta[i] = None /\ meta'[i] # None /\ batches' = batches
           \/ \E b \in Batches : Aborts(b) /\ i \in batches[b].members /\ meta'[i] = None
  <1>1. meta \in [Items -> Meta \cup {None}]
    BY DEF ClaimInv, TypeInv, TypeOK
  <1>2. ASSUME NEW j \in Items, NEW mt, meta' = [meta EXCEPT ![j] = mt], meta[j] = None, batches' = batches
        PROVE  meta'[i] = meta[i] \/ (meta[i] = None /\ meta'[i] # None /\ batches' = batches)
    BY <1>1, <1>2
  <1>3. ASSUME NEW j \in Items, Created(j), batches' = batches
        PROVE  meta'[i] = meta[i] \/ (meta[i] = None /\ meta'[i] # None /\ batches' = batches)
    <2>1. meta[j] = None /\ \E mt : meta' = [meta EXCEPT ![j] = mt]
      BY <1>3 DEF Created, CreateItem, ItemsFit
    <2> QED
      BY <1>2, <1>3, <2>1
  <1>4. ASSUME NEW j \in Items, Update(j)
        PROVE  meta'[i] = meta[i] \/ (meta[i] = None /\ meta'[i] # None /\ batches' = batches)
    <2>1. CASE UpdateBatch(j)
      <3>1. meta[j] = None /\ batches' = batches /\ \E mt : meta' = [meta EXCEPT ![j] = mt]
        BY <2>1 DEF UpdateBatch, batchVars
      <3> QED
        BY <1>2, <3>1
    <2>2. CASE UpdateContent(j) \/ UpdateNeeds(j) \/ UpdateStatus(j) \/ UpdateHold(j)
      BY <2>2 DEF UpdateContent, UpdateNeeds, UpdateStatus, UpdateHold, itemVars
    <2> QED
      BY <1>4, <2>1, <2>2 DEF Update
  <1>5. ASSUME NEW p \in Procs, NEW j \in Items, FinishMember(p, j) \/ Prepare(p, j)
        PROVE  meta'[i] = meta[i]
    BY <1>5 DEF FinishMember, Prepare, PrepareAt
  <1>6. ASSUME NEW b \in Batches, BatchCall(b)
        PROVE  \/ meta'[i] = meta[i]
               \/ Aborts(b) /\ i \in batches[b].members /\ meta'[i] = None
    <2>1. ASSUME NEW p \in Procs, NEW g \in OwnerGens, AbortBatch(p, b, g)
          PROVE  \/ meta'[i] = meta[i]
                 \/ Aborts(b) /\ i \in batches[b].members /\ meta'[i] = None
      BY <2>1 DEF AbortBatch, Detached, Aborts
    <2>2. ASSUME ~Aborts(b) PROVE meta' = meta
      BY <1>6, <2>2, Zenon
      DEF BatchCall, Aborts, RegisterBatch, AdvanceFix, AdvanceMerge, BindPR, RebindPR, RecoverOwner, itemVars
    <2> QED
      BY <2>1, <2>2 DEF Aborts
  <1> QED
    BY <1>3, <1>4, <1>5, <1>6, Kinds DEF Quiet

\* A batch that ends as aborted ends by the abort, which detaches its members.
LEMMA AbortDetaches ==
    ASSUME ClaimInv, [Next]_vars, NEW b \in Batches, ActiveBatch(b),
           batches'[b].lifecycle = "aborted", NEW i \in batches[b].members, i \in Items
    PROVE  meta'[i] = None
  <1>1. /\ batches \in [Batches -> BatchRecord \cup {None}] /\ batches[b] \in BatchRecord
        /\ batches[b].lifecycle = "active" /\ batches[b] # None
    BY DEF ClaimInv, TypeInv, TypeOK, ActiveBatch, Registered
  <1>2. batches' # batches
    BY <1>1
  <1>3. ASSUME NEW p \in Procs, NEW j \in Items, FinishMember(p, j) PROVE FALSE
    <2> DEFINE r == [batches[b] EXCEPT !.lifecycle = "completed"]
    <2>1. batches'[b] = batches[b] \/ batches'[b] = r
      BY <1>1, <1>3 DEF FinishMember
    <2>2. r.lifecycle = "completed"
      BY <1>1 DEF BatchRecord
    <2> QED
      BY <1>1, <2>1, <2>2
  <1>4. ASSUME NEW p \in Procs, NEW j \in Items, Prepare(p, j) PROVE FALSE
    <2>1. PICK files \in SUBSET Paths, kind \in LandKinds : \E base : Lands(j, base, files, kind)
      BY <1>4, Landing
    <2>2. Landed(j, files, kind)
      BY <2>1, LandedTypes
    <2> QED
      BY <1>1, <2>1, <2>2 DEF Lands, Landed
  <1>5. ASSUME NEW c \in Batches, BatchCall(c) PROVE meta'[i] = None
    <2>1. Calls(c)
      BY <1>5, BatchCalls
    <2>2. c = b
      BY <1>1, <2>1 DEF Calls
    <2>3. ASSUME NEW e PROVE [batches[b] EXCEPT !.log = Append(@, e)].lifecycle = "active"
      BY <1>1 DEF BatchRecord
    <2>4. \A m \in Items : meta'[m] = IF m \in batches[b].members THEN None ELSE meta[m]
      BY <1>1, <2>1, <2>2, <2>3 DEF Calls
    <2> QED
      BY <2>4
  <1> QED
    BY <1>2, <1>3, <1>4, <1>5, Kinds DEF Quiet, Update, UpdateContent, UpdateNeeds, UpdateStatus,
       UpdateHold, UpdateBatch, batchVars

\* The batch was aborted, and the item holds no receipt.
StrandedBare ==
    \A i \in Items : Stranded(i) =>
        batches[meta[i].batch].lifecycle = "aborted" /\ receipt[i] = None

LEMMA StrandedBareHolds == Spec => []StrandedBare
  <1>1. ASSUME Fits, CompletedTogether, NEW i \in Items, Stranded(i)
        PROVE  batches[meta[i].batch].lifecycle = "aborted" /\ receipt[i] = None
    <2> DEFINE b == meta[i].batch
    <2>1. /\ b \in Batches /\ i \in batches[b].members
          /\ batches[b] # None /\ batches[b].lifecycle # "active" /\ status[i] \in Live
          /\ batches[b] \in BatchRecord
      BY <1>1 DEF Fits, ClaimInv, TypeInv, TypeOK, Meta, MetaFits, Stranded, Settled, Registered, ActiveBatch
    <2>2. batches[b].lifecycle # "completed"
      BY <1>1, <2>1 DEF CompletedTogether, Registered, Live
    <2>3. batches[b].lifecycle = "aborted"
      BY <2>1, <2>2 DEF BatchRecord
    <2> QED
      BY <1>1, <2>3 DEF Fits, ReceiptsFit, ValidReceipt
  <1>2. Fits /\ CompletedTogether => StrandedBare
    BY <1>1 DEF StrandedBare
  <1> QED
    BY <1>2, FitsHold, CompletedTogetherHolds, PTL

\* Of every history: see OnlyMetadataStrands in Tracker.
THEOREM OnlyMetadataStrandsHolds == Spec => OnlyMetadataStrands
  <1> DEFINE Strands(i) ==
        Stranded(i)' /\ ~Stranded(i) =>
          /\ meta[i] = None /\ meta'[i] # None
          /\ batches[meta'[i].batch] # None
          /\ batches[meta'[i].batch].lifecycle = "aborted"
  <1>1. ASSUME Fits, Fits', StrandedBare', [Next]_vars, NEW i \in Items,
               Stranded(i)', ~Stranded(i)
        PROVE  /\ meta[i] = None /\ meta'[i] # None
               /\ batches[meta'[i].batch] # None
               /\ batches[meta'[i].batch].lifecycle = "aborted"
    <2> DEFINE b == meta'[i].batch
    <2>1. /\ meta'[i] # None /\ b \in Batches /\ i \in batches'[b].members
          /\ batches'[b] # None /\ batches'[b].lifecycle # "active" /\ status'[i] \in Live
      BY <1>1 DEF Fits, ClaimInv, TypeInv, TypeOK, Meta, MetaFits, Stranded, Settled, Registered, ActiveBatch
    <2>2. batches'[b].lifecycle = "aborted"
      BY <1>1 DEF StrandedBare
    <2> HIDE DEF b
    <2>3. CASE meta'[i] = meta[i]
      <3>1. batches[b] # None /\ i \in batches[b].members
        BY <1>1, <2>1, <2>3 DEF Fits, MetaFits, Registered, b
      <3>2. ActiveBatch(b)
        <4>1. status[i] \in Live
          BY <1>1, <2>1, <2>3, StatusSteps
          DEF Fits, ItemsFit, ClaimInv, TypeInv, TypeOK, StatusMoves, Present, Statuses, Terminal, Live
        <4> QED
          BY <1>1, <2>1, <2>3, <3>1, <4>1 DEF Stranded, Settled, Registered, b
      <3> QED
        BY <1>1, <2>1, <2>2, <3>1, <3>2, AbortDetaches DEF Fits
    <2>4. CASE meta[i] = None /\ batches' = batches
      BY <2>1, <2>2, <2>4 DEF b
    <2> QED
      BY <1>1, <2>1, <2>3, <2>4, MetaMoves DEF Fits
  <1>2. Fits /\ Fits' /\ StrandedBare' /\ [Next]_vars => [\A i \in Items : Strands(i)]_vars
    BY <1>1
  <1> QED
    BY <1>2, FitsHold, StrandedBareHolds, PTL DEF OnlyMetadataStrands, Spec

\* And such metadata is final: the item is never finished or prepared, its
\* metadata never replaced, and it leaves that state only when it is dropped, or
\* when another batch that declares it is aborted too.
StrandedStays ==
    [][\A i \in Items : Stranded(i) =>
          \/ Stranded(i)' /\ meta'[i] = meta[i] /\ receipt'[i] = None
          \/ status'[i] = "dropped" /\ meta'[i] = meta[i]
          \/ \E b \in BatchesOf(i) : batches'[b].lifecycle = "aborted" /\ meta'[i] = None]_vars

THEOREM StrandedStaysHolds == Spec => StrandedStays
  <1> DEFINE Stays(i) ==
        Stranded(i) =>
          \/ Stranded(i)' /\ meta'[i] = meta[i] /\ receipt'[i] = None
          \/ status'[i] = "dropped" /\ meta'[i] = meta[i]
          \/ \E b \in BatchesOf(i) : batches'[b].lifecycle = "aborted" /\ meta'[i] = None
  <1>1. ASSUME Fits, Fits', StrandedBare', Next, NEW i \in Items, Stranded(i)
        PROVE  Stays(i)
    <2> DEFINE b == meta[i].batch
    <2>1. /\ meta[i] # None /\ b \in Batches /\ batches[b] # None /\ batches[b].lifecycle # "active"
          /\ status[i] \in Live /\ batches \in [Batches -> BatchRecord \cup {None}] /\ ClaimInv
      BY <1>1 DEF Fits, ClaimInv, TypeInv, TypeOK, Meta, Stranded, Settled, Registered, ActiveBatch
    <2>2. status'[i] # "done"
      <3>1. ASSUME NEW p \in Procs, FinishPlain(p, i) \/ FinishMember(p, i) PROVE FALSE
        BY <2>1, <3>1 DEF FinishPlain, FinishMember, FinishAllowed, ActiveBatch
      <3> QED
        BY <1>1, <2>1, <3>1, DoneMoves DEF Live
    <2>3. status'[i] \in Live \cup {"dropped"}
      BY <1>1, <2>1, <2>2, StatusSteps
      DEF Fits, ClaimInv, TypeInv, TypeOK, StatusMoves, Statuses, Terminal, Live
    <2>4. batches'[b] # None /\ batches'[b].lifecycle # "active"
      BY <1>1, <2>1, BatchSteps DEF BatchMoves, Enrols, MovesOn
    <2> HIDE DEF b
    <2>5. CASE meta'[i] = meta[i]
      BY <1>1, <2>1, <2>3, <2>4, <2>5 DEF Stranded, Settled, Registered, ActiveBatch, StrandedBare, b
    <2>6. ASSUME NEW c \in Batches, Aborts(c), i \in batches[c].members, meta'[i] = None
          PROVE  c \in BatchesOf(i) /\ batches'[c].lifecycle = "aborted"
      <3> DEFINE r == [batches[c] EXCEPT !.lifecycle = "aborted", !.integrated = [m \in Items |-> None]]
      <3>1. ActiveBatch(c) /\ batches' = [batches EXCEPT ![c] = r]
        BY <2>6 DEF Aborts, AbortBatch
      <3>2. batches[c] \in BatchRecord
        BY <2>1, <3>1 DEF ActiveBatch, Registered
      <3>3. r.lifecycle = "aborted"
        BY <3>2 DEF BatchRecord
      <3> HIDE DEF r
      <3> QED
        BY <2>1, <2>6, <3>1, <3>3 DEF BatchesOf
    <2> QED
      BY <1>1, <2>1, <2>5, <2>6, MetaMoves DEF Fits
  <1>2. ASSUME UNCHANGED vars, StrandedBare', NEW i \in Items PROVE Stays(i)
    BY <1>2 DEF vars, itemVars, proofVars, batchVars, Stranded, Settled, Registered, ActiveBatch, StrandedBare
  <1>3. Fits /\ Fits' /\ StrandedBare' /\ [Next]_vars => [\A i \in Items : Stays(i)]_vars
    BY <1>1, <1>2
  <1> QED
    BY <1>3, FitsHold, StrandedBareHolds, PTL DEF StrandedStays, Spec
=============================================================================
