---------------------------- MODULE TrackerTypes ----------------------------
(***************************************************************************)
(* Type correctness of the tracker for every set of items, workers,        *)
(* processes and batches.  The type of a head read from an integration log *)
(* rests on the log having an entry, so the two are proved together.       *)
(***************************************************************************)
EXTENDS Tracker, SequenceTheorems, TLAPS

\* Every v2 record has the start entry of its log.
LogStarted ==
    \A b \in Batches : Registered(b) /\ batches[b].v2 => batches[b].log # <<>>

TypeInv == TypeOK /\ LogStarted

USE ActorAssumption, TimeAssumption, BoundAssumption, InputAssumption, NoneAssumption

-----------------------------------------------------------------------------
\* The initial state is well typed.
LEMMA InitTypes == Init => TypeInv
  <1> SUFFICES ASSUME Init PROVE TypeInv
    OBVIOUS
  <1>1. schema \in {3, 4}
    BY DEF Init
  <1>2. /\ status \in [Items -> Statuses \cup {"absent"}]
        /\ needs \in [Items -> SUBSET Items]
        /\ claim \in [Items -> Claim \cup {None}]
        /\ holders \in [Items -> SUBSET Procs]
        /\ hold \in [Items -> 0..MaxHold]
    BY DEF Init, Statuses, Live
  <1>3. meta \in [Items -> Meta \cup {None}]
    <2>1. \A i \in Enrolled : \E b \in Batches : i \in LegacyMembers[b]
      BY DEF Enrolled
    <2>2. \A i \in Enrolled : (CHOOSE b \in Batches : i \in LegacyMembers[b]) \in Batches
      BY <2>1
    <2> QED
      BY <2>2 DEF Init, Meta
  <1>4. /\ receipt \in [Items -> Receipt \cup {None}]
        /\ evidence \in [Items -> Evidence \cup {None}]
        /\ deferrals \in [Items -> Seq(Row)]
    BY DEF Init
  <1>5. batches \in [Batches -> BatchRecord \cup {None}]
    <2>1. ASSUME NEW b \in Batches, NEW u \in Workers, NEW g \in OwnerGens
          PROVE  LegacyBatch(b, u, g) \in BatchRecord
      BY DEF LegacyBatch, BatchRecord
    <2> QED
      BY <2>1 DEF Init
  <1>6. LogStarted
    BY DEF Init, LogStarted, Registered, LegacyBatch
  <1> QED
    BY <1>1, <1>2, <1>3, <1>4, <1>5, <1>6 DEF TypeInv, TypeOK

-----------------------------------------------------------------------------
\* Steps on one item.

\* Metadata inputs are metadata.
LEMMA MetaInputTypes == ASSUME NEW nd \in SUBSET Items PROVE MetaInputs(nd) \subseteq Meta \cup {None}
  BY DEF MetaInputs, Meta

\* Creating an item keeps the types of the variables it writes.
LEMMA CreateTypes ==
    ASSUME TypeInv, NEW i \in Items, NEW nd \in NeedSets, NEW h \in 0..MaxHold,
           NEW mt \in MetaInputs(nd), CreateItem(i, nd, h, mt)
    PROVE  /\ status' \in [Items -> Statuses \cup {"absent"}]
           /\ needs' \in [Items -> SUBSET Items]
           /\ hold' \in [Items -> 0..MaxHold]
           /\ meta' \in [Items -> Meta \cup {None}]
  <1>1. mt \in Meta \cup {None}
    BY MetaInputTypes
  <1> QED
    BY <1>1 DEF TypeInv, TypeOK, CreateItem, Statuses, Live

\* Voided receipts are absent receipts.
LEMMA VoidTypes ==
    ASSUME TypeInv, NEW i \in Items, VoidReceipts(i)
    PROVE  /\ receipt' \in [Items -> Receipt \cup {None}]
           /\ evidence' \in [Items -> Evidence \cup {None}]
  BY DEF TypeInv, TypeOK, VoidReceipts

\* A granted claim is a claim.
LEMMA GrantTypes ==
    ASSUME TypeInv, NEW p \in Procs, NEW i \in Items, GrantClaim(p, i)
    PROVE  /\ status' \in [Items -> Statuses \cup {"absent"}]
           /\ claim' \in [Items -> Claim \cup {None}]
           /\ holders' \in [Items -> SUBSET Procs]
  <1>1. [worker |-> Actor[p], left |-> TTL] \in Claim
    BY DEF Claim
  <1> QED
    BY <1>1 DEF TypeInv, TypeOK, GrantClaim, Statuses, Live

\* A dropped claim is an absent claim.
LEMMA DropTypes ==
    ASSUME TypeInv, NEW i \in Items, DropClaim(i)
    PROVE  /\ claim' \in [Items -> Claim \cup {None}]
           /\ holders' \in [Items -> SUBSET Procs]
  BY DEF TypeInv, TypeOK, DropClaim

\* A claim renewed to its full life is a claim.
LEMMA RenewedClaim ==
    ASSUME NEW c \in Claim
    PROVE  [c EXCEPT !.left = TTL] \in Claim
  <1>1. TTL \in 0..TTL
    BY TimeAssumption
  <1>2. c \in [worker : Workers, left : 0..TTL]
    BY DEF Claim
  <1> DEFINE lives == 0..TTL
  <1>3. TTL \in lives /\ c \in [worker : Workers, left : lives]
    BY <1>1, <1>2
  <1> HIDE DEF lives
  <1>4. [c EXCEPT !.left = TTL] \in [worker : Workers, left : lives]
    BY <1>3
  <1> QED
    BY <1>4 DEF Claim, lives

\* The integration head of a started log is a number.
LEMMA HeadTypes ==
    ASSUME TypeInv, NEW b \in Batches, Registered(b), batches[b].v2
    PROVE  IntegrationHead(b) \in Nat
  <1> DEFINE log == batches[b].log
  <1>1. log \in Seq(LogEntry) /\ log # <<>>
    BY DEF TypeInv, TypeOK, LogStarted, Registered, BatchRecord
  <1>2. Len(log) \in 1..Len(log)
    <2> HIDE DEF log
    <2> QED
      BY <1>1, EmptySeq
  <1>3. log[Len(log)] \in LogEntry
    <2> HIDE DEF log
    <2> QED
      BY <1>1, <1>2, ElementOfSeq
  <1> QED
    BY <1>3 DEF IntegrationHead, LogEntry

\* Creating, editing, claiming and releasing an item keeps the types.
LEMMA ItemTypes ==
    ASSUME TypeInv, ItemNext
    PROVE  TypeInv'
  <1>1. ASSUME NEW i \in Items, Create(i) PROVE TypeInv'
    <2>1. PICK nd \in NeedSets, h \in 0..MaxHold :
             \E mt \in MetaInputs(nd) : CreateItem(i, nd, h, mt)
      BY <1>1 DEF Create
    <2>2. PICK mt \in MetaInputs(nd) : CreateItem(i, nd, h, mt)
      BY <2>1
    <2>3. UNCHANGED <<claim, holders, deferrals, proofVars, batchVars>>
      BY <1>1 DEF Create
    <2> QED
      BY <2>2, <2>3, CreateTypes DEF TypeInv, TypeOK, LogStarted, Registered, proofVars, batchVars
  <1>2. ASSUME NEW i \in Items, Update(i) PROVE TypeInv'
    <2>1. CASE UpdateContent(i)
      BY <2>1, VoidTypes DEF UpdateContent, TypeInv, TypeOK, LogStarted, Registered, itemVars, batchVars
    <2>2. CASE UpdateNeeds(i)
      BY <2>2, VoidTypes DEF UpdateNeeds, TypeInv, TypeOK, LogStarted, Registered, batchVars
    <2>3. CASE UpdateStatus(i)
      BY <2>3, VoidTypes DEF UpdateStatus, TypeInv, TypeOK, LogStarted, Registered, batchVars, Statuses, Live
    <2>4. CASE UpdateHold(i)
      BY <2>4, VoidTypes DEF UpdateHold, TypeInv, TypeOK, LogStarted, Registered, batchVars
    <2>5. CASE UpdateBatch(i)
      <3>1. needs[i] \in SUBSET Items
        BY DEF TypeInv, TypeOK
      <3>2. PICK mt \in MetaInputs(needs[i]) : meta' = [meta EXCEPT ![i] = mt]
        BY <2>5 DEF UpdateBatch
      <3>3. meta' \in [Items -> Meta \cup {None}]
        BY <3>1, <3>2, MetaInputTypes DEF TypeInv, TypeOK
      <3> QED
        BY <2>5, <3>3, VoidTypes DEF UpdateBatch, TypeInv, TypeOK, LogStarted, Registered, batchVars
    <2> QED
      BY <1>2, <2>1, <2>2, <2>3, <2>4, <2>5 DEF Update
  <1>3. ASSUME NEW p \in Procs, NEW i \in Items, Take(p, i) \/ Takeover(p, i) PROVE TypeInv'
    BY <1>3, GrantTypes DEF Take, Takeover, TypeInv, TypeOK, LogStarted, Registered, proofVars, batchVars
  <1>4. ASSUME NEW p \in Procs, NEW i \in Items, Renew(p, i) PROVE TypeInv'
    <2>1. claim \in [Items -> Claim \cup {None}] /\ claim[i] \in Claim
      BY <1>4 DEF Renew, HoldsClaim, TypeInv, TypeOK
    <2>2. [claim[i] EXCEPT !.left = TTL] \in Claim
      BY <2>1, RenewedClaim
    <2>3. claim' = [claim EXCEPT ![i] = [claim[i] EXCEPT !.left = TTL]]
      BY <1>4 DEF Renew
    <2>4. claim' \in [Items -> Claim \cup {None}]
      BY <2>1, <2>2, <2>3
    <2> QED
      BY <1>4, <2>4 DEF Renew, TypeInv, TypeOK, LogStarted, Registered, proofVars, batchVars
  <1>5. ASSUME NEW p \in Procs, NEW i \in Items, Release(p, i) \/ FinishPlain(p, i) \/ Drop(p, i)
        PROVE  TypeInv'
    <2>1. status' \in [Items -> Statuses \cup {"absent"}]
      <3> status \in [Items -> Statuses \cup {"absent"}]
        BY DEF TypeInv, TypeOK
      <3>1. CASE Release(p, i)
        BY <3>1 DEF Release, Statuses, Live
      <3>2. CASE FinishPlain(p, i)
        BY <3>2 DEF FinishPlain, Statuses, Terminal
      <3>3. CASE Drop(p, i)
        BY <3>3 DEF Drop, Statuses, Terminal
      <3> QED
        BY <1>5, <3>1, <3>2, <3>3
    <2> QED
      BY <1>5, <2>1, DropTypes
      DEF Release, FinishPlain, Drop, TypeInv, TypeOK, LogStarted, Registered, proofVars, batchVars
  <1>6. ASSUME NEW p \in Procs, NEW i \in Items, FinishMember(p, i) PROVE TypeInv'
    <2> DEFINE b == meta[i].batch
    <2>1. b \in Batches /\ batches[b] \in BatchRecord /\ Registered(b) /\ batches[b].v2
      BY <1>6 DEF FinishMember, FinishAllowed, ActiveBatch, Registered, TypeInv, TypeOK, Meta
    <2>2. IntegrationHead(b) \in Nat
      BY <2>1, HeadTypes
    <2>3. evidence' \in [Items -> Evidence \cup {None}]
      BY <1>6, <2>2 DEF FinishMember, TypeInv, TypeOK, Evidence
    <2>4. batches' \in [Batches -> BatchRecord \cup {None}] /\ LogStarted'
      <3>1. [batches[b] EXCEPT !.lifecycle = "completed"] \in BatchRecord
        BY <2>1 DEF BatchRecord
      <3>2. batches' \in {batches, [batches EXCEPT ![b].lifecycle = "completed"]}
        BY <1>6 DEF FinishMember
      <3>3. CASE batches' = batches
        BY <3>3 DEF TypeInv, TypeOK, LogStarted, Registered
      <3>4. CASE batches' = [batches EXCEPT ![b].lifecycle = "completed"]
        <4> DEFINE r == [batches[b] EXCEPT !.lifecycle = "completed"]
        <4>1. batches' = [batches EXCEPT ![b] = r]
          BY <3>4
        <4>2. r \in BatchRecord /\ r.v2 = batches[b].v2 /\ r.log = batches[b].log
          BY <2>1, <3>1 DEF BatchRecord
        <4> HIDE DEF r
        <4> QED
          BY <2>1, <4>1, <4>2 DEF TypeInv, TypeOK, LogStarted, Registered
      <3> QED
        BY <3>2, <3>3, <3>4
    <2>5. status' \in [Items -> Statuses \cup {"absent"}]
      BY <1>6 DEF FinishMember, TypeInv, TypeOK, Statuses, Terminal
    <2> QED
      BY <1>6, <2>3, <2>4, <2>5, DropTypes DEF FinishMember, TypeInv, TypeOK
  <1>7. ASSUME NEW p \in Procs, Restart(p) PROVE TypeInv'
    BY <1>7 DEF Restart, TypeInv, TypeOK, LogStarted, Registered, proofVars, batchVars
  <1>8. ASSUME Tick PROVE TypeInv'
    <2>1. claim' \in [Items -> Claim \cup {None}]
      BY <1>8 DEF Tick, ClaimLive, TypeInv, TypeOK, Claim
    <2>2. hold' \in [Items -> 0..MaxHold]
      BY <1>8 DEF Tick, TypeInv, TypeOK
    <2> QED
      BY <1>8, <2>1, <2>2 DEF Tick, TypeInv, TypeOK, LogStarted, Registered, proofVars, batchVars
  <1> QED
    BY <1>1, <1>2, <1>3, <1>4, <1>5, <1>6, <1>7, <1>8 DEF ItemNext

-----------------------------------------------------------------------------
\* Steps on deferral rows.

\* A row written at a position of the log keeps it a log of rows.
LEMMA RowWritten ==
    ASSUME TypeInv, NEW i \in Items, NEW n \in DOMAIN deferrals[i], NEW row \in Row,
           deferrals' = [deferrals EXCEPT ![i][n] = row]
    PROVE  deferrals' \in [Items -> Seq(Row)]
  <1>1. deferrals \in [Items -> Seq(Row)]
    BY DEF TypeInv, TypeOK
  <1>2. n \in 1..Len(deferrals[i])
    BY <1>1, LenProperties
  <1>3. [deferrals[i] EXCEPT ![n] = row] \in Seq(Row)
    BY <1>1, <1>2, ExceptSeq
  <1> QED
    BY <1>1, <1>3

\* Recording, promoting and dismissing deferred work keeps the types.
LEMMA DeferralTypes ==
    ASSUME TypeInv, DeferralNext
    PROVE  TypeInv'
  <1> USE DEF TypeInv
  <1>1. deferrals \in [Items -> Seq(Row)]
    BY DEF TypeOK
  <1>2. ASSUME NEW i \in Items, Defer(i) PROVE TypeInv'
    <2>1. [resolution |-> "open", target |-> None] \in Row
      BY DEF Row
    <2>2. Append(deferrals[i], [resolution |-> "open", target |-> None]) \in Seq(Row)
      BY <1>1, <2>1, AppendProperties
    <2>3. deferrals' \in [Items -> Seq(Row)]
      BY <1>1, <1>2, <2>2 DEF Defer
    <2> QED
      BY <1>2, <2>3 DEF Defer, TypeOK, LogStarted, Registered, proofVars, batchVars
  <1>3. ASSUME NEW i \in Items, NEW n \in DOMAIN deferrals[i], NEW j \in Items, PromoteLink(i, n, j)
        PROVE  TypeInv'
    <2>1. [resolution |-> "promoted", target |-> j] \in Row
      BY DEF Row
    <2>2. deferrals' \in [Items -> Seq(Row)]
      BY <1>3, <2>1, RowWritten DEF PromoteLink, Promoted
    <2> QED
      BY <1>3, <2>2 DEF PromoteLink, TypeOK, LogStarted, Registered, proofVars, batchVars
  <1>4. ASSUME NEW i \in Items, NEW n \in DOMAIN deferrals[i], NEW j \in Items, PromoteCreate(i, n, j)
        PROVE  TypeInv'
    <2>1. [resolution |-> "promoted", target |-> j] \in Row
      BY DEF Row
    <2>2. deferrals' \in [Items -> Seq(Row)]
      BY <1>4, <2>1, RowWritten DEF PromoteCreate, Promoted
    <2>3. PICK nd \in NeedSets, h \in 0..MaxHold :
             \E mt \in MetaInputs(nd) : CreateItem(j, nd, h, mt)
      BY <1>4 DEF PromoteCreate
    <2>4. PICK mt \in MetaInputs(nd) : CreateItem(j, nd, h, mt)
      BY <2>3
    <2>5. UNCHANGED <<claim, holders, proofVars, batchVars>>
      BY <1>4 DEF PromoteCreate
    <2> QED
      BY <2>2, <2>4, <2>5, CreateTypes
      DEF TypeOK, LogStarted, Registered, proofVars, batchVars
  <1>5. ASSUME NEW i \in Items, NEW n \in DOMAIN deferrals[i], Dismiss(i, n) PROVE TypeInv'
    <2>1. n \in 1..Len(deferrals[i]) /\ deferrals[i][n] \in Row
      BY <1>1, LenProperties, ElementOfSeq
    <2> DEFINE row == [deferrals[i][n] EXCEPT !.resolution = "dismissed"]
    <2>2. row \in Row
      BY <2>1 DEF Row
    <2>3. deferrals' = [deferrals EXCEPT ![i][n] = row]
      BY <1>5 DEF Dismiss
    <2> HIDE DEF row
    <2>4. deferrals' \in [Items -> Seq(Row)]
      BY <2>2, <2>3, RowWritten
    <2> QED
      BY <1>5, <2>4 DEF Dismiss, TypeOK, LogStarted, Registered, proofVars, batchVars
  <1> QED
    BY <1>2, <1>3, <1>4, <1>5 DEF DeferralNext

-----------------------------------------------------------------------------
\* Steps on batches.

\* A record written in the registry keeps it a registry of started logs.
LEMMA BatchWritten ==
    ASSUME TypeInv, NEW b \in Batches, NEW r \in BatchRecord, r.v2 => r.log # <<>>,
           batches' = [batches EXCEPT ![b] = r]
    PROVE  batches' \in [Batches -> BatchRecord \cup {None}] /\ LogStarted'
  BY DEF TypeInv, TypeOK, LogStarted, Registered

\* An entry appended to the log of a record keeps it a record.
LEMMA EntryAppended ==
    ASSUME NEW r \in BatchRecord, NEW e \in LogEntry
    PROVE  /\ Append(r.log, e) \in Seq(LogEntry)
           /\ Append(r.log, e) # <<>>
           /\ [r EXCEPT !.log = Append(@, e)] \in BatchRecord
  <1>1. r.log \in Seq(LogEntry)
    BY DEF BatchRecord
  <1>2. Append(r.log, e) \in Seq(LogEntry) /\ Append(r.log, e) # <<>>
    BY <1>1, AppendProperties
  <1> QED
    BY <1>2 DEF BatchRecord

\* Sequence numbers are numbers.
LEMMA SeqTypes ==
    ASSUME TypeInv, NEW b \in Batches, Registered(b)
    PROVE  NextSeq(b) \in Nat
  <1>1. batches[b].log \in Seq(LogEntry)
    BY DEF TypeInv, TypeOK, Registered, BatchRecord
  <1> QED
    BY <1>1, LenProperties DEF NextSeq

\* An advance of the integration head keeps the registry typed.
LEMMA AdvancedTypes ==
    ASSUME TypeInv, NEW b \in Batches, Registered(b), NEW kind \in AdvanceKinds,
           NEW files \in SUBSET Paths, NEW requires \in SUBSET Items,
           Advanced(b, kind, files, requires)
    PROVE  batches' \in [Batches -> BatchRecord \cup {None}] /\ LogStarted'
  <1> DEFINE e == [kind |-> kind, head |-> NextSeq(b), member |-> None,
                   files |-> files, requires |-> requires]
             r == [batches[b] EXCEPT !.log = Append(@, e)]
  <1>1. batches[b] \in BatchRecord
    BY DEF TypeInv, TypeOK, Registered
  <1>2. e \in LogEntry
    BY SeqTypes DEF LogEntry
  <1>3. batches' = [batches EXCEPT ![b] = r]
    BY DEF Advanced
  <1> HIDE DEF e
  <1>4. r \in BatchRecord /\ r.log # <<>>
    BY <1>1, <1>2, EntryAppended DEF BatchRecord
  <1> HIDE DEF r
  <1> QED
    BY <1>3, <1>4, BatchWritten

\* Landing a member keeps the types: receipt, log entry and integration
\* evidence take their numbers from the log.
LEMMA PrepareTypes ==
    ASSUME TypeInv, NEW p \in Procs, NEW i \in Items, Prepare(p, i)
    PROVE  TypeInv'
  <1> DEFINE b == meta[i].batch
  <1>1. PICK base \in LogHeads(b), files \in SUBSET Scope[i], again \in BOOLEAN :
           PrepareAt(p, i, base, files, again)
    BY DEF Prepare
  <1>2. /\ b \in Batches
        /\ Registered(b) /\ batches[b].v2
        /\ batches[b] \in BatchRecord
    BY <1>1 DEF Prepare, PrepareAt, ActiveBatch, Registered, TypeInv, TypeOK, Meta
  <1> DEFINE seq == NextSeq(b)
             head == IF again THEN IntegrationHead(b) ELSE seq
             e == [kind |-> IF again THEN "reprepare" ELSE "prepare",
                   head |-> head, member |-> i, files |-> {}, requires |-> {}]
             mi == [seq |-> seq, head |-> head, files |-> files]
             r == [batches[b] EXCEPT !.log = Append(@, e), !.integrated[i] = mi]
  <1>3. seq \in Nat /\ head \in Nat
    BY <1>2, SeqTypes, HeadTypes
  <1>4. base \in Nat
    <2>1. batches[b].log \in Seq(LogEntry)
      BY <1>2 DEF BatchRecord
    <2>2. PICK n \in DOMAIN batches[b].log : base = batches[b].log[n].head
      BY DEF LogHeads
    <2>3. batches[b].log[n] \in LogEntry
      BY <2>1, LenProperties, ElementOfSeq
    <2> QED
      BY <2>2, <2>3 DEF LogEntry
  <1>5. files \in SUBSET Paths
    OBVIOUS
  <1>6. e \in LogEntry
    BY <1>3 DEF LogEntry, AdvanceKinds
  <1>7. mi \in Integrated
    BY <1>3, <1>5 DEF Integrated
  <1>8. receipt' \in [Items -> Receipt \cup {None}]
    <2> DEFINE rc == [batch |-> b, epoch |-> batches[b].epoch, seq |-> seq, head |-> head,
                      base |-> base, files |-> files,
                      overMembers |-> OverlappingMembers(b, i, files),
                      overFixes |-> OverlappingFixes(b, base, files)]
    <2>1. receipt' = [receipt EXCEPT ![i] = rc]
      BY <1>1 DEF PrepareAt
    <2>2. OverlappingMembers(b, i, files) \in SUBSET Items
      BY DEF OverlappingMembers
    <2>3. OverlappingFixes(b, base, files) \in SUBSET Nat
      BY <1>3 DEF OverlappingFixes, FixSeqs
    <2>4. rc \in Receipt
      <3> HIDE DEF b, seq, head
      <3> QED
        BY <1>2, <1>3, <1>4, <1>5, <2>2, <2>3 DEF Receipt, BatchRecord
    <2> HIDE DEF rc
    <2> QED
      BY <2>1, <2>4 DEF TypeInv, TypeOK
  <1>9. batches' \in [Batches -> BatchRecord \cup {None}] /\ LogStarted'
    <2>1. batches' = [batches EXCEPT ![b] = r]
      BY <1>1 DEF PrepareAt
    <2>2. r \in BatchRecord /\ r.log # <<>>
      <3> HIDE DEF e, mi
      <3>1. [batches[b] EXCEPT !.log = Append(@, e)] \in BatchRecord
        BY <1>2, <1>6, EntryAppended
      <3>2. Append(batches[b].log, e) # <<>>
        BY <1>2, <1>6, EntryAppended
      <3> QED
        BY <1>2, <1>7, <3>1, <3>2 DEF BatchRecord
    <2> HIDE DEF r
    <2> QED
      BY <1>2, <2>1, <2>2, BatchWritten
  <1>10. status' \in [Items -> Statuses \cup {"absent"}]
    BY <1>1 DEF PrepareAt, TypeInv, TypeOK, Statuses, Live
  <1>11. DropClaim(i) /\ UNCHANGED <<schema, needs, hold, meta, deferrals, evidence>>
    BY <1>1 DEF PrepareAt
  <1> QED
    BY <1>8, <1>9, <1>10, <1>11, DropTypes DEF TypeInv, TypeOK

\* Registering, integrating, recovering and aborting batches keeps the types.
LEMMA BatchTypes ==
    ASSUME TypeInv, BatchNext
    PROVE  TypeInv'
  <1> USE DEF TypeInv
  <1>1. ASSUME NEW p \in Procs, NEW b \in Batches, NEW g \in OwnerGens, NEW M \in MemberSets,
               RegisterBatch(p, b, M, g)
        PROVE  TypeInv'
    <2> DEFINE e == [kind |-> "start", head |-> 0, member |-> None,
                     files |-> {}, requires |-> {}]
               r == [v2 |-> TRUE, lifecycle |-> "active", owner |-> Actor[p], gen |-> g,
                     epoch |-> 0, members |-> M, finalPR |-> None, log |-> <<e>>,
                     integrated |-> [m \in Items |-> None]]
    <2>1. batches' = [batches EXCEPT ![b] = r]
      BY <1>1 DEF RegisterBatch
    <2>2. e \in LogEntry
      BY DEF LogEntry, AdvanceKinds
    <2>3. r \in BatchRecord /\ r.log # <<>>
      <3> HIDE DEF e
      <3> QED
        BY <2>2 DEF BatchRecord
    <2> HIDE DEF r
    <2>4. batches' \in [Batches -> BatchRecord \cup {None}] /\ LogStarted'
      BY <2>1, <2>3, BatchWritten
    <2> QED
      BY <1>1, <2>4 DEF RegisterBatch, TypeOK, itemVars, proofVars
  <1>2. ASSUME NEW p \in Procs, NEW b \in Batches, NEW g \in OwnerGens, NEW files \in SUBSET Paths,
               AdvanceFix(p, b, g, files)
        PROVE  TypeInv'
    <2> DEFINE obliged == {m \in ReceiptHolders(b) : receipt[m].files \cap files # {}}
    <2>1. Registered(b) /\ batches[b] \in BatchRecord
      BY <1>2 DEF AdvanceFix, AdvanceAllowed, OwnedBatch, ActiveBatch, Registered, TypeOK
    <2>2. obliged \in SUBSET Items
      BY <2>1 DEF ReceiptHolders, BatchRecord
    <2>3. Advanced(b, "fix", files, obliged)
      BY <1>2 DEF AdvanceFix
    <2> HIDE DEF obliged
    <2>4. batches' \in [Batches -> BatchRecord \cup {None}] /\ LogStarted'
      BY <2>1, <2>2, <2>3, AdvancedTypes DEF AdvanceKinds
    <2> QED
      BY <1>2, <2>4 DEF AdvanceFix, TypeOK, itemVars, proofVars
  <1>3. ASSUME NEW p \in Procs, NEW b \in Batches, NEW g \in OwnerGens, AdvanceMerge(p, b, g)
        PROVE  TypeInv'
    <2>1. Registered(b)
      BY <1>3 DEF AdvanceMerge, AdvanceAllowed, OwnedBatch, ActiveBatch
    <2>2. batches' \in [Batches -> BatchRecord \cup {None}] /\ LogStarted'
      BY <1>3, <2>1, AdvancedTypes DEF AdvanceMerge, AdvanceKinds
    <2> QED
      BY <1>3, <2>2 DEF AdvanceMerge, TypeOK, itemVars, proofVars
  <1>4. ASSUME NEW p \in Procs, NEW b \in Batches, NEW g \in OwnerGens,
               BindPR(p, b, g) \/ RebindPR(p, b, g)
        PROVE  TypeInv'
    <2>1. Registered(b) /\ batches[b].v2 /\ batches[b] \in BatchRecord
      BY <1>4 DEF BindPR, RebindPR, OwnedBatch, ActiveBatch, Registered, TypeOK
    <2>2. IntegrationHead(b) \in Nat
      BY <2>1, HeadTypes
    <2> DEFINE r == [batches[b] EXCEPT !.finalPR = IntegrationHead(b)]
    <2>3. r \in BatchRecord /\ r.log # <<>>
      BY <2>1, <2>2 DEF BatchRecord, LogStarted
    <2>4. batches' = [batches EXCEPT ![b] = r]
      BY <1>4 DEF BindPR, RebindPR
    <2> HIDE DEF r
    <2>5. batches' \in [Batches -> BatchRecord \cup {None}] /\ LogStarted'
      BY <2>3, <2>4, BatchWritten
    <2>6. evidence' \in [Items -> Evidence \cup {None}]
      <3>1. CASE BindPR(p, b, g)
        BY <3>1 DEF BindPR, proofVars, TypeOK
      <3>2. CASE RebindPR(p, b, g)
        <4>1. evidence \in [Items -> Evidence \cup {None}]
          BY DEF TypeOK
        <4> QED
          BY <3>2, <4>1 DEF RebindPR
      <3> QED
        BY <1>4, <3>1, <3>2
    <2> QED
      BY <1>4, <2>5, <2>6 DEF BindPR, RebindPR, TypeOK, itemVars, proofVars
  <1>5. ASSUME NEW p \in Procs, NEW b \in Batches, NEW g \in OwnerGens, NEW new \in OwnerGens,
               RecoverOwner(p, b, g, new)
        PROVE  TypeInv'
    <2> DEFINE r == [batches[b] EXCEPT !.owner = Actor[p], !.gen = new, !.epoch = @ + 1]
    <2>1. Registered(b) /\ batches[b].v2 /\ batches[b] \in BatchRecord
      BY <1>5 DEF RecoverOwner, ActiveBatch, Registered, TypeOK
    <2>2. r \in BatchRecord /\ r.log # <<>>
      <3>1. batches[b].epoch + 1 \in Nat /\ Actor[p] \in Workers
        BY <2>1 DEF BatchRecord
      <3>2. r \in BatchRecord
        BY <2>1, <3>1 DEF BatchRecord
      <3>3. r.log = batches[b].log
        BY <2>1 DEF BatchRecord
      <3> QED
        BY <2>1, <3>2, <3>3 DEF LogStarted
    <2>3. batches' = [batches EXCEPT ![b] = r]
      BY <1>5 DEF RecoverOwner
    <2> HIDE DEF r
    <2>4. batches' \in [Batches -> BatchRecord \cup {None}] /\ LogStarted'
      BY <2>2, <2>3, BatchWritten
    <2> QED
      BY <1>5, <2>4 DEF RecoverOwner, TypeOK, itemVars, proofVars
  <1>6. ASSUME NEW p \in Procs, NEW b \in Batches, NEW g \in OwnerGens, AbortBatch(p, b, g)
        PROVE  TypeInv'
    <2> DEFINE r == [batches[b] EXCEPT !.lifecycle = "aborted", !.integrated = [m \in Items |-> None]]
    <2>1. Registered(b) /\ batches[b] \in BatchRecord
      BY <1>6 DEF AbortBatch, ActiveBatch, Registered, TypeOK
    <2>2. r \in BatchRecord /\ (r.v2 => r.log # <<>>)
      BY <2>1 DEF BatchRecord, LogStarted
    <2>3. batches' = [batches EXCEPT ![b] = r]
      BY <1>6 DEF AbortBatch
    <2> HIDE DEF r
    <2>4. batches' \in [Batches -> BatchRecord \cup {None}] /\ LogStarted'
      BY <2>2, <2>3, BatchWritten
    <2>5. /\ receipt' \in [Items -> Receipt \cup {None}]
          /\ evidence' \in [Items -> Evidence \cup {None}]
          /\ meta' \in [Items -> Meta \cup {None}]
          /\ claim' \in [Items -> Claim \cup {None}]
          /\ holders' \in [Items -> SUBSET Procs]
      BY <1>6 DEF AbortBatch, Detached, TypeOK
    <2>6. status' \in [Items -> Statuses \cup {"absent"}]
      BY <1>6 DEF AbortBatch, TypeOK, Statuses, Live
    <2> QED
      BY <1>6, <2>4, <2>5, <2>6 DEF AbortBatch, TypeOK
  <1> QED
    BY <1>1, <1>2, <1>3, <1>4, <1>5, <1>6, PrepareTypes DEF BatchNext

-----------------------------------------------------------------------------
\* Every reachable state is well typed, whatever the items, workers, processes,
\* batches and bounds: the index and the details never hold anything else.
THEOREM TypesHold == Spec => []TypeInv
  <1>1. TypeInv /\ [Next]_vars => TypeInv'
    <2> SUFFICES ASSUME TypeInv, [Next]_vars PROVE TypeInv'
      OBVIOUS
    <2>1. CASE Next
      BY <2>1, ItemTypes, DeferralTypes, BatchTypes DEF Next
    <2>2. CASE UNCHANGED vars
      BY <2>2 DEF vars, itemVars, proofVars, batchVars, TypeInv, TypeOK, LogStarted, Registered
    <2> QED
      BY <2>1, <2>2
  <1> QED
    BY InitTypes, <1>1, PTL DEF Spec

\* Type correctness as the runs state it.
THEOREM TypeCorrect == Spec => []TypeOK
  BY TypesHold, PTL DEF TypeInv

=============================================================================
