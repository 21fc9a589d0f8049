-------------------------- MODULE ClaimCallsProofs --------------------------
(***************************************************************************)
(* ClaimCalls for every set of operations and every number of retries:     *)
(* every step is one of Publication, whose theorems therefore hold; a      *)
(* takeover replaces the claim its first attempt saw; and if only a push   *)
(* that timed out can still land, the acknowledgement names the generation *)
(* that landed.                                                            *)
(***************************************************************************)
EXTENDS ClaimCalls, PublicationProofs

-----------------------------------------------------------------------------
\* Publication goes on as before

LEMMA ClaimsPublish ==
    ASSUME [ClaimNext]_allVars
    PROVE  [Next]_vars
  <1>1. ASSUME NEW o \in Ops, ClaimStep(o) PROVE Step(o)
    BY <1>1 DEF ClaimStep, ClaimFetch, ApplyBreaks, SendClaim, ClaimSent, ClaimFails,
                ClaimSettles, ClaimEnds, Step
  <1>2. ASSUME NEW o \in Ops, ClaimCrashes(o) \/ ClaimLands(o) PROVE Crash(o) \/ RemoteAccepts(o)
    BY <1>2 DEF ClaimCrashes, ClaimLands
  <1> QED
    BY <1>1, <1>2 DEF ClaimNext, Next, allVars

\* All a run of Publication keeps holds of calls on a claim, too.
THEOREM ClaimsKeepPublication == ClaimSpec => [](PushInv /\ TypeOK)
  <1>1. ClaimInit => PushInv /\ TypeOK
    <2> SUFFICES ASSUME ClaimInit PROVE PushInv /\ TypeOK
      OBVIOUS
    <2>1. TypeOK
      BY RetryAssumption DEF ClaimInit, Init, TypeOK, Outcomes
    <2> QED
      BY <2>1 DEF ClaimInit, Init, PushInv, AtMostOnce, AppliedIsAccepted
  <1>2. PushInv /\ TypeOK /\ [ClaimNext]_allVars => PushInv' /\ TypeOK'
    BY ClaimsPublish, StepTypes, PushStep
  <1> QED
    BY <1>1, <1>2, PTL DEF ClaimSpec

\* Calls on a claim, too, implement the atomic branch when replies fail in the
\* honest ways only.
THEOREM ClaimsRefine ==
    ASSUME Honest
    PROVE  ClaimSpec => RefinesAtomicBranch
  <1>1. ClaimInit => HonestInv /\ Abstract!Init
    <2> SUFFICES ASSUME ClaimInit PROVE HonestInv /\ Abstract!Init
      OBVIOUS
    <2>1. TypeOK
      BY RetryAssumption DEF ClaimInit, Init, TypeOK, Outcomes
    <2>2. \A o \in Ops : ~Landed(o)
      BY DEF ClaimInit, Init, Landed
    <2>3. HonestInv
      BY <2>1, <2>2 DEF ClaimInit, Init, HonestInv, Single
    <2>4. Abstract!Init
      BY DEF ClaimInit, Init, Abstract!Init, AnswerOf
    <2> QED
      BY <2>3, <2>4
  <1>2. HonestInv /\ TypeOK' /\ [ClaimNext]_allVars =>
           HonestInv' /\ [Abstract!Next]_<<branch, [o \in Ops |-> AnswerOf(outcome[o])]>>
    BY ClaimsPublish, HonestSteps
  <1> QED
    BY <1>1, <1>2, ClaimsKeepPublication, PTL DEF ClaimSpec, RefinesAtomicBranch, Abstract!Spec

-----------------------------------------------------------------------------
\* A takeover replaces the claim its first attempt saw

\* A takeover that has seen no claim has sent nothing; what it has sent is
\* built on the claim it has seen.
PinInv ==
    /\ pinned \in [Ops -> SUBSET SUBSET Nat]
    /\ TakeoverAsInspected
    /\ \A o \in Takeovers : \A t \in inFlight[o] : pinned[o] = {Image(t)}

\* Up to a position of the branch the claim stays as it is.
LEMMA ImagesStay ==
    ASSUME TypeOK, [Next]_vars, NEW n \in 0..Len(branch)
    PROVE  Image(n)' = Image(n)
  <1>1. branch \in Seq(Ops) /\ Len(branch) \in Nat
    BY LenProperties DEF TypeOK
  <1>2. CASE branch' = branch
    BY <1>2 DEF Image
  <1>3. ASSUME NEW p \in Ops, RemoteAccepts(p) PROVE Image(n)' = Image(n)
    <2>1. branch' = Append(branch, p)
      BY <1>3 DEF RemoteAccepts
    <2>2. \A m \in 1..n : branch'[m] = branch[m]
      BY <1>1, <2>1, AppendProperties
    <2> QED
      BY <2>2 DEF Image
  <1>4. ASSUME NEW p \in Ops, Step(p) \/ Crash(p) PROVE branch' = branch
    BY <1>4 DEF Step, Crash, FetchFails, FindOwnCommit, Fetch, Refuse, StoreFails, Push,
                PushSucceeds, PushConflicts, PushRejected, PushOffline, PushTimesOut,
                FailureReported, Confirm, Reconcile, remoteVars
  <1> QED
    BY <1>2, <1>3, <1>4 DEF Next, vars, remoteVars

\* A pin never replaces another.
LEMMA PinsStay ==
    ASSUME PushInv, PinInv, [ClaimNext]_allVars
    PROVE  /\ pinned' \in [Ops -> SUBSET SUBSET Nat]
           /\ \A o \in Takeovers : pinned[o] # {} => pinned'[o] = pinned[o]
  <1>1. base \in [Ops -> Nat] /\ pinned \in [Ops -> SUBSET SUBSET Nat]
    BY DEF PushInv, TypeOK, PinInv
  <1>2. ASSUME NEW o \in Ops, Pin(o)
        PROVE  /\ pinned' \in [Ops -> SUBSET SUBSET Nat]
               /\ \A r \in Takeovers : pinned[r] # {} => pinned'[r] = pinned[r]
    <2>1. Image(base[o]) \in SUBSET Nat
      BY <1>1 DEF Image
    <2>2. {Image(base[o])} \in SUBSET SUBSET Nat
      BY <2>1
    <2>3. pinned[o] \in SUBSET SUBSET Nat
      BY <1>1
    <2> QED
      BY <1>1, <1>2, <2>2, <2>3, ClaimAssumption DEF Pin
  <1>3. CASE pinned' = pinned
    BY <1>1, <1>3
  <1>4. ASSUME NEW o \in Ops, ClaimStep(o) PROVE Pin(o) \/ pinned' = pinned
    BY <1>4 DEF ClaimStep, ClaimFetch, ApplyBreaks, SendClaim, ClaimSent, ClaimFails,
                ClaimSettles, ClaimEnds, Idle, claimVars
  <1>5. ASSUME NEW o \in Ops, ClaimCrashes(o) \/ ClaimLands(o) PROVE pinned' = pinned
    BY <1>5 DEF ClaimCrashes, ClaimLands, Idle, claimVars
  <1> QED
    BY <1>2, <1>3, <1>4, <1>5 DEF ClaimNext, allVars, claimVars

\* Only SendClaim sends, and what it sends is built on the claim it has seen.
LEMMA SendsPinned ==
    ASSUME TypeOK, PinInv, [ClaimNext]_allVars,
           NEW o \in Takeovers, NEW t \in inFlight'[o], t \notin inFlight[o]
    PROVE  pc[o] = "apply" /\ t = base[o] /\ pinned'[o] = {Image(t)}
  <1>1. /\ o \in Ops /\ inFlight \in [Ops -> SUBSET Nat]
        /\ pinned \in [Ops -> SUBSET SUBSET Nat]
    BY ClaimAssumption DEF TypeOK, PinInv
  <1>2. ASSUME NEW p \in Ops, SendClaim(p)
        PROVE  pc[o] = "apply" /\ t = base[o] /\ pinned'[o] = {Image(t)}
    <2>1. p = o /\ pc[o] = "apply" /\ t = base[o]
      BY <1>1, <1>2 DEF SendClaim, Push
    <2>2. pinned' = [pinned EXCEPT ![o] = {Image(base[o])}]
      BY <1>2, <2>1 DEF SendClaim, Pin
    <2> QED
      BY <1>1, <2>1, <2>2
  <1>3. ASSUME NEW p \in Ops, ClaimStep(p), ~SendClaim(p) PROVE FALSE
    BY <1>1, <1>3 DEF ClaimStep, ClaimFetch, ApplyBreaks, ClaimSent, ClaimFails, ClaimSettles,
                ClaimEnds, FetchFails, FindOwnCommit, Fetch, Refuse, StoreFails,
                PushSucceeds, PushConflicts, PushRejected, PushOffline, PushTimesOut,
                FailureReported, Confirm, Reconcile, remoteVars
  <1>4. ASSUME NEW p \in Ops, ClaimCrashes(p) \/ ClaimLands(p) PROVE FALSE
    BY <1>1, <1>4 DEF ClaimCrashes, ClaimLands, Crash, RemoteAccepts, remoteVars
  <1> QED
    BY <1>2, <1>3, <1>4 DEF ClaimNext, allVars, vars, remoteVars

\* Every step keeps the invariant.
LEMMA PinSteps ==
    ASSUME PushInv, TypeOK', PinInv, [ClaimNext]_allVars
    PROVE  PinInv'
  <1>1. /\ branch \in Seq(Ops) /\ Len(branch) \in Nat /\ base \in [Ops -> Nat]
        /\ inFlight \in [Ops -> SUBSET Nat] /\ TypeOK
    BY LenProperties DEF PushInv, TypeOK
  <1>2. \A n \in 0..Len(branch) : Image(n)' = Image(n)
    BY <1>1, ClaimsPublish, ImagesStay
  <1>3. ASSUME NEW o \in Takeovers, NEW t \in inFlight'[o] PROVE pinned'[o] = {Image(t)'}
    <2>1. o \in Ops
      BY ClaimAssumption
    <2>2. CASE t \in inFlight[o]
      <3>1. pinned[o] = {Image(t)} /\ t \in 0..Len(branch)
        BY <1>1, <2>1, <2>2 DEF PinInv, PushInv, FreshUpTo
      <3> QED
        BY <1>2, <3>1, PinsStay
    <2>3. CASE t \notin inFlight[o]
      <3>1. pc[o] = "apply" /\ t = base[o] /\ pinned'[o] = {Image(t)}
        BY <1>1, <2>3, SendsPinned
      <3>2. t \in 0..Len(branch)
        BY <1>1, <2>1, <3>1 DEF PushInv, FreshUpTo
      <3> QED
        BY <1>2, <3>1, <3>2
    <2> QED
      BY <2>2, <2>3
  <1>4. ASSUME NEW o \in Takeovers, NEW n \in DOMAIN branch', branch'[n] = o
        PROVE  pinned'[o] = {Image(n - 1)'}
    <2>1. CASE n \in DOMAIN branch /\ branch[n] = o
      <3>1. pinned[o] = {Image(n - 1)} /\ n - 1 \in 0..Len(branch)
        BY <1>1, <2>1, LenProperties DEF PinInv, TakeoverAsInspected
      <3> QED
        BY <1>2, <3>1, PinsStay
    <2>2. CASE ~(n \in DOMAIN branch /\ branch[n] = o)
      <3>1. PICK p \in Ops : ClaimLands(p)
        <4>1. ASSUME NEW p \in Ops, ClaimStep(p) \/ ClaimCrashes(p) PROVE branch' = branch
          BY <4>1 DEF ClaimStep, ClaimCrashes, ClaimFetch, ApplyBreaks, SendClaim, ClaimSent,
                      ClaimFails, ClaimSettles, ClaimEnds, Crash, FetchFails, FindOwnCommit,
                      Fetch, Refuse, StoreFails, Push, PushSucceeds, PushConflicts,
                      PushRejected, PushOffline, PushTimesOut, FailureReported, Confirm,
                      Reconcile, remoteVars
        <4> QED
          BY <1>4, <2>2, <4>1 DEF ClaimNext, allVars, vars, remoteVars
      <3>2. branch' = Append(branch, p) /\ Len(branch) \in inFlight[p] /\ UNCHANGED pinned
        BY <3>1 DEF ClaimLands, RemoteAccepts
      <3>3. branch' \in Seq(Ops) /\ DOMAIN branch' = 1..(Len(branch) + 1)
        BY <1>1, <3>2, AppendProperties, LenProperties
      <3>4. n = Len(branch) + 1 /\ p = o
        BY <1>1, <1>4, <2>2, <3>2, <3>3, AppendProperties, LenProperties
      <3>5. pinned[o] = {Image(Len(branch))}
        BY <3>2, <3>4 DEF PinInv
      <3> QED
        <4>1. n - 1 = Len(branch)
          BY <1>1, <3>4
        <4>2. Image(n - 1)' = {m \in 1..(n - 1) : branch'[m] \notin Bystanders}
          BY DEF Image
        <4>3. Image(Len(branch)) = {m \in 1..Len(branch) : branch'[m] \notin Bystanders}
          BY <1>1, <3>2, AppendProperties DEF Image
        <4> QED
          BY <3>2, <3>5, <4>1, <4>2, <4>3
    <2> QED
      BY <2>1, <2>2
  <1>5. pinned' \in [Ops -> SUBSET SUBSET Nat]
    BY PinsStay
  <1> QED
    BY <1>3, <1>4, <1>5 DEF PinInv, TakeoverAsInspected

\* However many commits and retries come between, a takeover replaces the claim
\* that its first attempt inspected.
THEOREM TakeoverAsInspectedHolds == ClaimSpec => []TakeoverAsInspected
  <1>1. ClaimInit => PinInv
    BY ClaimAssumption DEF ClaimInit, Init, PinInv, TakeoverAsInspected
  <1>2. PushInv /\ TypeOK' /\ PinInv /\ [ClaimNext]_allVars => PinInv'
    BY PinSteps
  <1>3. PinInv => TakeoverAsInspected
    BY DEF PinInv
  <1> QED
    BY <1>1, <1>2, <1>3, ClaimsKeepPublication, PTL DEF ClaimSpec

-----------------------------------------------------------------------------
\* The acknowledgement names the generation that landed, unless a push that
\* was reported offline can still land

\* A call has at most one push the remote has not decided, that of the attempt
\* it makes, and none before it pushes or when it looks at the branch again;
\* once it has landed, so has the attempt the call is at, or the one it named.
AckInv ==
    /\ sent \in [Ops -> SUBSET (Nat \X Nat)]
    /\ landed \in [Ops -> Nat \cup {None}]
    /\ ack \in [Ops -> Nat \cup {None}]
    /\ \A o \in Ops :
          /\ pc[o] \in {"fetch", "apply", "recheck"} => inFlight[o] = {}
          /\ pc[o] = "apply" => ~Landed(o)
          /\ \A s \in sent[o] : s[2] \in inFlight[o]
          /\ pc[o] # "done" => \A s \in sent[o] : s[1] = retries[o]
          /\ pc[o] \in {"push", "confirm", "settle", "recheck"} /\ Landed(o)
                => landed[o] = retries[o]
          /\ pc[o] # "done" => ack[o] = None
          /\ ack[o] # None => Landed(o) /\ landed[o] = ack[o]

\* A step of call o that leaves the branch alone keeps the invariant when it
\* does so for o.
LEMMA AckCall ==
    ASSUME AckInv, branch' = branch, landed' = landed, NEW o \in Ops,
           sent' \in [Ops -> SUBSET (Nat \X Nat)], ack' \in [Ops -> Nat \cup {None}],
           \A r \in Ops \ {o} : /\ pc'[r] = pc[r] /\ inFlight'[r] = inFlight[r]
                                /\ sent'[r] = sent[r] /\ retries'[r] = retries[r]
                                /\ ack'[r] = ack[r],
           pc'[o] \in {"fetch", "apply", "recheck"} => inFlight'[o] = {},
           pc'[o] = "apply" => ~Landed(o),
           \A s \in sent'[o] : s[2] \in inFlight'[o],
           pc'[o] # "done" => \A s \in sent'[o] : s[1] = retries'[o],
           pc'[o] \in {"push", "confirm", "settle", "recheck"} /\ Landed(o)
              => landed[o] = retries'[o],
           pc'[o] # "done" => ack'[o] = None,
           ack'[o] # None => Landed(o) /\ landed[o] = ack'[o]
    PROVE  AckInv'
  <1>1. \A r \in Ops : Landed(r)' <=> Landed(r)
    BY DEF Landed
  <1> QED
    BY <1>1 DEF AckInv

\* Every step keeps the invariant.
LEMMA AckSteps ==
    ASSUME LateKinds \subseteq {"timeout"},
           PushInv, TypeOK', Unanswered, AckInv, [ClaimNext]_allVars
    PROVE  AckInv'
  <1> USE DEF remoteVars, callVars, claimVars, Idle
  <1>1. /\ pc \in [Ops -> {"fetch", "apply", "push", "confirm", "settle", "recheck", "done"}]
        /\ base \in [Ops -> Nat] /\ retries \in [Ops -> 0..MaxRetries]
        /\ inFlight \in [Ops -> SUBSET Nat] /\ branch \in Seq(Ops) /\ Len(branch) \in Nat
        /\ sent \in [Ops -> SUBSET (Nat \X Nat)] /\ ack \in [Ops -> Nat \cup {None}]
    BY LenProperties DEF PushInv, TypeOK, AckInv
  <1>2. ASSUME NEW o \in Ops, \E result : Return(o, result), branch' = branch, landed' = landed,
               pc[o] # "done",
               sent' \in [Ops -> SUBSET (Nat \X Nat)],
               \A r \in Ops \ {o} : inFlight'[r] = inFlight[r] /\ sent'[r] = sent[r],
               \A s \in sent'[o] : s[2] \in inFlight'[o],
               \/ ack' = ack
               \/ /\ pc[o] \in {"push", "confirm", "settle", "recheck"} /\ Landed(o)
                  /\ ack' = [ack EXCEPT ![o] = retries[o]]
        PROVE  AckInv'
    <2>1. /\ pc'[o] = "done"
          /\ \A r \in Ops \ {o} : pc'[r] = pc[r] /\ retries'[r] = retries[r]
      BY <1>1, <1>2 DEF Return, Goto, Forget
    <2>2. /\ ack' \in [Ops -> Nat \cup {None}]
          /\ \A r \in Ops \ {o} : ack'[r] = ack[r]
          /\ ack'[o] # None => Landed(o) /\ landed[o] = ack'[o]
      <3>1. ack[o] = None /\ retries[o] \in Nat
        BY <1>1, <1>2, RetryAssumption DEF AckInv
      <3>2. CASE ack' = ack
        BY <1>1, <3>1, <3>2
      <3>3. CASE Landed(o) /\ ack' = [ack EXCEPT ![o] = retries[o]] /\ landed[o] = retries[o]
        BY <1>1, <3>1, <3>3
      <3> QED
        BY <1>2, <3>2, <3>3 DEF AckInv
    <2> QED
      BY <1>1, <1>2, <2>1, <2>2, AckCall
  <1>3. ASSUME NEW o \in Ops, NEW label, Proceed(o, label), UNCHANGED <<branch, landed, ack>>,
               pc[o] # "done", label \in {"push", "confirm", "settle", "recheck"},
               sent' \in [Ops -> SUBSET (Nat \X Nat)],
               \A r \in Ops \ {o} : inFlight'[r] = inFlight[r] /\ sent'[r] = sent[r],
               \A s \in sent'[o] : s[2] \in inFlight'[o] /\ s[1] = retries[o],
               label = "recheck" => inFlight'[o] = {},
               Landed(o) => landed[o] = retries[o]
        PROVE  AckInv'
    <2>1. /\ pc'[o] = label /\ retries' = retries
          /\ \A r \in Ops \ {o} : pc'[r] = pc[r]
      BY <1>1, <1>3 DEF Proceed, Goto
    <2>2. ack[o] = None
      BY <1>3 DEF AckInv
    <2> QED
      BY <1>1, <1>3, <2>1, <2>2, AckCall
  <1>4. ASSUME NEW o \in Ops, Retry(o), UNCHANGED <<branch, landed, ack>>, pc[o] # "done",
               sent' \in [Ops -> SUBSET (Nat \X Nat)],
               \A r \in Ops \ {o} : inFlight'[r] = inFlight[r] /\ sent'[r] = sent[r],
               sent'[o] = {}, inFlight'[o] = {}
        PROVE  AckInv'
    <2>1. CASE retries[o] = MaxRetries
      BY <1>2, <1>4, <2>1 DEF Retry
    <2>2. CASE retries[o] # MaxRetries
      <3>1. /\ pc'[o] = "fetch"
            /\ \A r \in Ops \ {o} : pc'[r] = pc[r] /\ retries'[r] = retries[r]
        BY <1>1, <1>4, <2>2 DEF Retry, Goto
      <3>2. ack[o] = None
        BY <1>4 DEF AckInv
      <3> QED
        BY <1>1, <1>4, <3>1, <3>2, AckCall
    <2> QED
      BY <2>1, <2>2
  <1>5. ASSUME NEW o \in Ops, ClaimEnds(o) PROVE AckInv'
    <2>1. /\ \E result : Return(o, result)
          /\ pc[o] # "done" /\ UNCHANGED <<branch, inFlight, sent, landed, ack>>
      BY <1>5 DEF ClaimEnds, FetchFails, FindOwnCommit, Refuse
    <2> QED
      BY <1>1, <1>2, <2>1 DEF AckInv
  <1>6. ASSUME NEW o \in Ops, ClaimFetch(o) PROVE AckInv'
    <2>1. /\ pc'[o] = "apply" /\ pc[o] = "fetch" /\ ~Landed(o)
          /\ UNCHANGED <<branch, inFlight, sent, landed, ack, retries>>
          /\ \A r \in Ops \ {o} : pc'[r] = pc[r]
      BY <1>1, <1>6 DEF ClaimFetch, Fetch, Goto
    <2>2. inFlight[o] = {} /\ ack[o] = None /\ sent[o] = {}
      BY <2>1 DEF AckInv
    <2> QED
      BY <1>1, <2>1, <2>2, AckCall
  <1>7. ASSUME NEW o \in Ops, ApplyBreaks(o) PROVE AckInv'
    <2>1. /\ pc[o] \in {"fetch", "apply"} /\ UNCHANGED <<branch, inFlight, sent, landed, ack>>
      BY <1>7 DEF ApplyBreaks, StoreFails
    <2>2. inFlight[o] = {} /\ ack[o] = None /\ sent[o] = {}
      BY <2>1 DEF AckInv
    <2>3. CASE Return(o, "error")
      BY <1>1, <1>2, <2>1, <2>2, <2>3
    <2>4. CASE ~Return(o, "error")
      <3>1. /\ pc'[o] = "fetch" /\ retries' = retries
            /\ \A r \in Ops \ {o} : pc'[r] = pc[r]
        BY <1>1, <1>7, <2>4 DEF ApplyBreaks, StoreFails, Goto
      <3> QED
        BY <1>1, <2>1, <2>2, <3>1, AckCall
    <2> QED
      BY <2>3, <2>4
  <1>8. ASSUME NEW o \in Ops, SendClaim(o) PROVE AckInv'
    <2>1. pc[o] = "apply" /\ ~Landed(o) /\ sent[o] = {} /\ inFlight[o] = {}
      BY <1>8 DEF SendClaim, Push, AckInv
    <2>2. /\ inFlight'[o] = {base[o]} /\ sent'[o] = {<<retries[o], base[o]>>}
          /\ \A r \in Ops \ {o} : inFlight'[r] = inFlight[r] /\ sent'[r] = sent[r]
      BY <1>1, <1>8, <2>1 DEF SendClaim, Push
    <2>3. sent' \in [Ops -> SUBSET (Nat \X Nat)]
      <3>1. <<retries[o], base[o]>> \in Nat \X Nat
        BY <1>1, RetryAssumption
      <3> QED
        BY <1>1, <1>8, <3>1 DEF SendClaim
    <2>4. Proceed(o, "push") /\ UNCHANGED <<branch, landed, ack>>
      BY <1>8 DEF SendClaim, Push
    <2> QED
      BY <1>3, <2>1, <2>2, <2>3, <2>4
  <1>9. ASSUME NEW o \in Ops, ClaimSent(o) PROVE AckInv'
    <2>1. /\ pc[o] = "push" /\ landed[o] = retries[o] /\ Proceed(o, "confirm")
          /\ UNCHANGED <<branch, inFlight, sent, landed, ack>>
      BY <1>9 DEF ClaimSent, PushSucceeds
    <2> QED
      BY <1>1, <1>3, <2>1 DEF AckInv
  <1>10. ASSUME NEW o \in Ops, ClaimFails(o) PROVE AckInv'
    <2>1. /\ pc[o] = "push" /\ UNCHANGED <<branch, landed, ack>>
          /\ inFlight' = inFlight \/ inFlight' = [inFlight EXCEPT ![o] = {}]
      BY <1>10 DEF ClaimFails, PushConflicts, PushRejected, PushOffline, PushTimesOut,
                   FailureReported
    <2>2. sent' = [sent EXCEPT ![o] = {s \in @ : s[2] \in inFlight'[o]}]
      BY <1>10 DEF ClaimFails
    <2>3. /\ sent' \in [Ops -> SUBSET (Nat \X Nat)]
          /\ sent'[o] = {s \in sent[o] : s[2] \in inFlight'[o]}
          /\ \A r \in Ops \ {o} : inFlight'[r] = inFlight[r] /\ sent'[r] = sent[r]
      BY <1>1, <2>1, <2>2
    <2>4. /\ \A s \in sent'[o] : s[2] \in inFlight'[o] /\ s[1] = retries[o]
          /\ Landed(o) => landed[o] = retries[o]
      BY <2>1, <2>3 DEF AckInv
    <2>5. CASE PushTimesOut(o)
      BY <1>3, <2>1, <2>3, <2>4, <2>5 DEF PushTimesOut
    <2>6. CASE ~PushTimesOut(o)
      <3>1. inFlight'[o] = {} /\ sent'[o] = {}
        BY <1>1, <1>10, <2>3, <2>6
          DEF ClaimFails, PushConflicts, PushRejected, PushOffline, FailureReported
      <3> QED
        BY <1>2, <1>3, <1>4, <1>10, <2>1, <2>3, <2>4, <2>6, <3>1
          DEF ClaimFails, PushConflicts, PushRejected, PushOffline
    <2> QED
      BY <2>5, <2>6
  <1>11. ASSUME NEW o \in Ops, ClaimSettles(o) PROVE AckInv'
    <2>1. /\ pc[o] \in {"confirm", "settle", "recheck"}
          /\ UNCHANGED <<branch, inFlight, sent, landed>>
          /\ outcome \in [Ops -> Outcomes] /\ outcome[o] = "none"
      BY <1>11 DEF ClaimSettles, Confirm, Reconcile, PushInv, TypeOK, Unanswered
    <2>2. /\ pc[o] = "confirm" => Landed(o)
          /\ Landed(o) => landed[o] = retries[o]
          /\ \A s \in sent[o] : s[2] \in inFlight[o] /\ s[1] = retries[o]
          /\ ack[o] = None
          /\ pc[o] = "recheck" => inFlight[o] = {} /\ sent[o] = {}
      BY <2>1 DEF PushInv, AckInv
    <2>3. ack' = IF outcome'[o] = "applied" THEN [ack EXCEPT ![o] = retries[o]] ELSE ack
      BY <1>11 DEF ClaimSettles
    <2>4. CASE Landed(o) /\ Return(o, "applied")
      BY <1>1, <1>2, <2>1, <2>2, <2>3, <2>4
    <2>5. CASE Return(o, "unknown")
      <3>1. outcome'[o] # "applied"
        BY <2>1, <2>5 DEF Return
      <3> QED
        BY <1>1, <1>2, <2>1, <2>2, <2>3, <2>5, <3>1
    <2>6. CASE Landed(o) /\ Proceed(o, "settle")
      <3>1. ack' = ack
        BY <2>1, <2>3, <2>6 DEF Proceed
      <3> QED
        BY <1>1, <1>3, <2>1, <2>2, <2>6, <3>1
    <2>7. CASE pc[o] = "recheck" /\ ~Landed(o) /\ Retry(o)
      <3>1. ack' = ack
        BY <2>1, <2>3, <2>7 DEF Retry, Return
      <3> QED
        BY <1>1, <1>4, <2>1, <2>2, <2>7, <3>1
    <2> QED
      BY <1>11, <2>2, <2>4, <2>5, <2>6, <2>7 DEF ClaimSettles, Confirm, Reconcile
  <1>12. ASSUME NEW o \in Ops, ClaimCrashes(o) PROVE AckInv'
    <2>1. /\ pc'[o] = "done" /\ pc[o] # "done"
          /\ UNCHANGED <<branch, inFlight, sent, landed, ack>>
          /\ \A r \in Ops \ {o} : pc'[r] = pc[r] /\ retries'[r] = retries[r]
      BY <1>1, <1>12 DEF ClaimCrashes, Crash, Goto, Forget
    <2>2. /\ \A s \in sent[o] : s[2] \in inFlight[o]
          /\ ack[o] = None
      BY <2>1 DEF AckInv
    <2> QED
      BY <1>1, <2>1, <2>2, AckCall
  <1>13. ASSUME NEW o \in Ops, ClaimLands(o) PROVE AckInv'
    <2>1. /\ Len(branch) \in inFlight[o] /\ branch' = Append(branch, o)
          /\ inFlight' = [inFlight EXCEPT ![o] = @ \ {Len(branch)}]
          /\ sent' = [sent EXCEPT ![o] = {r \in @ : r[2] \in inFlight'[o]}]
          /\ UNCHANGED <<pc, retries, ack>>
      BY <1>13 DEF ClaimLands, RemoteAccepts
    <2>2. PICK s \in sent[o] : landed' = [landed EXCEPT ![o] = s[1]]
      BY <1>13 DEF ClaimLands
    <2>3. ~Landed(o) /\ pc[o] \notin {"fetch", "apply", "recheck"} /\ ack[o] = None
      BY <1>1, <2>1, LenProperties DEF AckInv, PushInv, FreshUpTo, Landed
    <2>4. \A r \in Ops \ {o} : Landed(r)' <=> Landed(r)
      <3>1. branch' \in Seq(Ops) /\ Len(branch') = Len(branch) + 1
        BY <1>1, <2>1, AppendProperties
      <3>2. /\ DOMAIN branch = 1..Len(branch) /\ DOMAIN branch' = 1..(Len(branch) + 1)
            /\ branch'[Len(branch) + 1] = o
            /\ \A n \in 1..Len(branch) : branch'[n] = branch[n]
        BY <1>1, <2>1, <3>1, AppendProperties, LenProperties
      <3>3. Len(branch) \in Nat
        BY <1>1
      <3> QED
        BY <3>2, <3>3 DEF Landed
    <2>5. /\ landed'[o] = s[1] /\ s[1] \in Nat
          /\ landed' \in [Ops -> Nat \cup {None}]
          /\ \A r \in Ops \ {o} : landed'[r] = landed[r]
      BY <1>1, <2>2 DEF AckInv
    <2>6. pc[o] # "done" => s[1] = retries[o]
      BY <2>2 DEF AckInv
    <2>7. /\ sent' \in [Ops -> SUBSET (Nat \X Nat)]
          /\ sent'[o] = {r \in sent[o] : r[2] \in inFlight'[o]}
          /\ \A r \in Ops \ {o} : inFlight'[r] = inFlight[r] /\ sent'[r] = sent[r]
      BY <1>1, <2>1
    <2> QED
      BY <1>1, <2>1, <2>3, <2>4, <2>5, <2>6, <2>7 DEF AckInv
  <1>14. CASE UNCHANGED allVars
    BY <1>14 DEF allVars, vars, AckInv, Landed
  <1> QED
    BY <1>5, <1>6, <1>7, <1>8, <1>9, <1>10, <1>11, <1>12, <1>13, <1>14 DEF ClaimNext, ClaimStep

\* If only a push that timed out can still land, a worker that is given a
\* generation holds the claim with it.  Which failures are misread of pushes
\* that landed does not matter.
THEOREM AckIsLandedHolds ==
    ASSUME LateKinds \subseteq {"timeout"}
    PROVE  ClaimSpec => []AckIsLanded
  <1>1. ClaimInit => AckInv
    BY DEF ClaimInit, Init, AckInv
  <1>2. PushInv /\ TypeOK' /\ Unanswered /\ AckInv /\ [ClaimNext]_allVars => AckInv'
    BY AckSteps
  <1>4. ClaimInit => Unanswered
    BY DEF ClaimInit, Init, Unanswered
  <1>5. TypeOK /\ Unanswered /\ [ClaimNext]_allVars => Unanswered'
    BY ClaimsPublish, AnswersAtEnd
  <1>3. AckInv => AckIsLanded
    BY DEF AckInv, AckIsLanded
  <1> QED
    BY <1>1, <1>2, <1>3, <1>4, <1>5, ClaimsKeepPublication, PTL DEF ClaimSpec

=============================================================================
