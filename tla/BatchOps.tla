------------------------------ MODULE BatchOps ------------------------------
(***************************************************************************)
(* Operations on a registered batch: enrolment and the schema cutover,     *)
(* preparing a member, moving the integration head, binding the final PR,  *)
(* owner recovery and abort.  Idempotent retries write nothing and are not *)
(* steps.  Git facts about checkouts (ancestry, cleanliness) are taken to  *)
(* hold whenever a call succeeds.                                          *)
(***************************************************************************)
EXTENDS ItemOps

-----------------------------------------------------------------------------
\* Registration

\* A live claim of another worker than w on one of the items in S.
ForeignClaim(w, S) == \E i \in S : ClaimLive(i) /\ claim[i].worker # w

NoOverlap(M) == \A o \in Batches : ActiveBatch(o) => batches[o].members \cap M = {}

\* What the schema cutover waits for.
Quiescent(w) ==
    /\ \A o \in Batches : ~ActiveBatch(o)
    /\ ~ForeignClaim(w, Items)

\* Fault: the ID of a finished batch is used again.
RegistrableAgain(w, b, M) ==
    /\ ~ActiveBatch(b)
    /\ NoOverlap(M)
    /\ ~ForeignClaim(w, M)
    /\ schema = 3 => Quiescent(w)

\* Fault: members of other batches may be enrolled.
RegistrableOverlapping(w, b, M) ==
    /\ ~Registered(b)
    /\ ~ForeignClaim(w, M)
    /\ schema = 3 => Quiescent(w)

\* Fault: the cutover does not wait for old batches.
RegistrableUnquiet(w, b, M) ==
    /\ ~Registered(b)
    /\ NoOverlap(M)
    /\ ~ForeignClaim(w, M)

\* Members may be unknown, and may belong to finished batches.
Registrable(w, b, M) ==
    /\ ~Registered(b)
    /\ NoOverlap(M)
    /\ ~ForeignClaim(w, M)
    /\ schema = 3 => Quiescent(w)

\* op_register_batch.  The first call cuts the store over to schema 4.
RegisterBatch(p, b, M, g) ==
    /\ Registrable(Actor[p], b, M)
    /\ schema' = 4
    /\ batches' = [batches EXCEPT ![b] =
         [v2 |-> TRUE, lifecycle |-> "active", owner |-> Actor[p], gen |-> g,
          epoch |-> 0, members |-> M, finalPR |-> None,
          log |-> <<[kind |-> "start", head |-> 0, member |-> None,
                     files |-> {}, requires |-> {}]>>,
          integrated |-> [m \in Items |-> None]]]
    /\ UNCHANGED <<itemVars, proofVars>>

\* _owned_batch: the caller proves owner and generation of an active v2 batch.
OwnedBatch(p, b, g) ==
    /\ ActiveBatch(b)
    /\ batches[b].v2
    /\ batches[b].owner = Actor[p]
    /\ batches[b].gen = g

-----------------------------------------------------------------------------
\* Integration

\* Fault: only finished members are looked at.
OverlappingDone(b, i, files) ==
    {m \in Items \ {i} : /\ batches[b].integrated[m] # None
                         /\ status[m] = "done"
                         /\ batches[b].integrated[m].files \cap files # {}}

\* The members already integrated, and the fixes recorded since the base the
\* receipt is built on, that touch the same files.
OverlappingMembers(b, i, files) ==
    {m \in Items \ {i} : /\ batches[b].integrated[m] # None
                         /\ batches[b].integrated[m].files \cap files # {}}
OverlappingFixes(b, base, files) ==
    {s \in FixSeqs(b) : s > base /\ EntryAt(b, s).files \cap files # {}}

\* op_prepare: files is the member's own diff from base to its accepted head.
\* A member integrated before may land again at the current head (again);
\* otherwise the integration head must be new to the log.
PrepareAt(p, i, base, files, again) ==
    LET b == meta[i].batch
        seq == NextSeq(b)
        head == IF again THEN IntegrationHead(b) ELSE seq
    IN
    /\ HoldsClaim(p, i)
    /\ OwnerMayClaim(Actor[p], i)
    /\ status[i] = "active"
    /\ ActiveBatch(b) /\ batches[b].v2
    /\ i \in batches[b].members
    /\ receipt[i] = None
    /\ base \in LogHeads(b)
    /\ files \subseteq Scope[i]
    /\ \A d \in meta[i].deps : receipt[d] # None
    /\ again => batches[b].integrated[i] # None
    /\ Len(batches[b].log) < MaxLog
    /\ receipt' = [receipt EXCEPT ![i] =
         [batch |-> b, epoch |-> batches[b].epoch, seq |-> seq, head |-> head,
          base |-> base, files |-> files,
          overMembers |-> OverlappingMembers(b, i, files),
          overFixes |-> OverlappingFixes(b, base, files)]]
    /\ batches' = [batches EXCEPT ![b] = [batches[b] EXCEPT
         !.log = Append(@, [kind |-> IF again THEN "reprepare" ELSE "prepare",
                            head |-> head, member |-> i,
                            files |-> {}, requires |-> {}]),
         !.integrated[i] = [seq |-> seq, head |-> head, files |-> files]]]
    /\ DropClaim(i)
    /\ status' = [status EXCEPT ![i] = "open"]
    /\ UNCHANGED <<schema, needs, hold, meta, deferrals, evidence>>

Prepare(p, i) ==
    /\ Present(i)
    /\ meta[i] # None
    /\ \E base \in LogHeads(meta[i].batch), files \in SUBSET Scope[i], again \in BOOLEAN :
          PrepareAt(p, i, base, files, again)

\* op_advance_batch_head.  The first caller wins the expected head; no advance
\* is recorded once a member is done.
AdvanceAllowed(p, b, g) ==
    /\ OwnedBatch(p, b, g)
    /\ ~AnyDone(b)
    /\ Len(batches[b].log) < MaxLog

\* Fault: the obligations of a fix are not recorded.
AdvancedUnbound(b, kind, files, requires) ==
    batches' = [batches EXCEPT ![b].log =
        Append(@, [kind |-> kind, head |-> NextSeq(b), member |-> None,
                   files |-> files, requires |-> {}])]

Advanced(b, kind, files, requires) ==
    batches' = [batches EXCEPT ![b].log =
        Append(@, [kind |-> kind, head |-> NextSeq(b), member |-> None,
                   files |-> files, requires |-> requires])]

\* A fix stays inside the member scopes and obliges every member whose receipt
\* shares a file with it to be verified again.
AdvanceFix(p, b, g, files) ==
    /\ AdvanceAllowed(p, b, g)
    /\ files \subseteq UNION {Scope[m] : m \in batches[b].members}
    /\ Advanced(b, "fix", files,
                {m \in ReceiptHolders(b) : receipt[m].files \cap files # {}})
    /\ UNCHANGED <<schema, itemVars, proofVars>>

\* A develop merge is recorded only for a batch registered with develop_ref.
\* Its files are read by the final scope accounting alone, left out here.
AdvanceMerge(p, b, g) ==
    /\ AdvanceAllowed(p, b, g)
    /\ b \in DevelopRefs
    /\ Advanced(b, "develop-merge", {}, {})
    /\ UNCHANGED <<schema, itemVars, proofVars>>

-----------------------------------------------------------------------------
\* The final PR

\* op_bind_batch_pr with no PR bound yet.
BindPR(p, b, g) ==
    /\ OwnedBatch(p, b, g)
    /\ batches[b].finalPR = None
    /\ batches' = [batches EXCEPT ![b].finalPR = IntegrationHead(b)]
    /\ UNCHANGED <<schema, itemVars, proofVars>>

\* op_bind_batch_pr moving the bound head, which voids final evidence.
RebindPR(p, b, g) ==
    /\ OwnedBatch(p, b, g)
    /\ batches[b].finalPR \notin {None, IntegrationHead(b)}
    /\ ~AnyDone(b)
    /\ batches' = [batches EXCEPT ![b].finalPR = IntegrationHead(b)]
    /\ evidence' = [i \in Items |->
                      IF i \in batches[b].members THEN None ELSE evidence[i]]
    /\ UNCHANGED <<schema, itemVars, receipt>>

-----------------------------------------------------------------------------
\* Recovery and abort

\* op_recover_batch_owner: any worker that names the current owner and its
\* generation takes the batch; claims stay as they are.
RecoverOwner(p, b, g, new) ==
    /\ ActiveBatch(b)
    /\ batches[b].v2
    /\ batches[b].gen = g
    /\ new # g
    /\ batches[b].epoch < MaxEpoch
    /\ batches' = [batches EXCEPT ![b] =
         [batches[b] EXCEPT !.owner = Actor[p], !.gen = new, !.epoch = @ + 1]]
    /\ UNCHANGED <<schema, itemVars, proofVars>>

\* Fault: members that were never prepared keep the metadata they carry.
DetachedPrepared(M) ==
    [i \in Items |-> IF i \in M /\ receipt[i] # None THEN None ELSE meta[i]]

\* The metadata an abort leaves: every member, prepared or not, becomes an
\* ordinary item.
Detached(M) == [i \in Items |-> IF i \in M THEN None ELSE meta[i]]

\* op_abort_batch: detaches every member and returns live ones to open.  It
\* serves v1 batches too, unlike every operation above.
AbortBatch(p, b, g) ==
    /\ ActiveBatch(b)
    /\ batches[b].owner = Actor[p]
    /\ batches[b].gen = g
    /\ ~AnyDone(b)
    /\ LET M == batches[b].members IN
       /\ \A m \in M : ~ClaimLive(m)
       /\ receipt' = [i \in Items |-> IF i \in M THEN None ELSE receipt[i]]
       /\ evidence' = [i \in Items |-> IF i \in M THEN None ELSE evidence[i]]
       /\ meta' = Detached(M)
       /\ claim' = [i \in Items |-> IF i \in M THEN None ELSE claim[i]]
       /\ holders' = [i \in Items |-> IF i \in M THEN {} ELSE holders[i]]
       /\ status' = [i \in Items |->
                       IF i \in M /\ status[i] \in Live THEN "open" ELSE status[i]]
    /\ batches' = [batches EXCEPT ![b] =
         [batches[b] EXCEPT !.lifecycle = "aborted", !.integrated = [m \in Items |-> None]]]
    /\ UNCHANGED <<schema, needs, hold, deferrals>>

BatchNext ==
    \/ \E p \in Procs, i \in Items : Prepare(p, i)
    \/ \E p \in Procs, b \in Batches, g \in OwnerGens :
          \/ \E M \in MemberSets : RegisterBatch(p, b, M, g)
          \/ \E files \in SUBSET Paths : AdvanceFix(p, b, g, files)
          \/ AdvanceMerge(p, b, g)
          \/ BindPR(p, b, g)
          \/ RebindPR(p, b, g)
          \/ \E new \in OwnerGens : RecoverOwner(p, b, g, new)
          \/ AbortBatch(p, b, g)
=============================================================================
