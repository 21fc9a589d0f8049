-------------------------- MODULE PublicationProofs --------------------------
(***************************************************************************)
(* Publication for every set of operations and every number of retries:    *)
(* whatever replies are lost, misread or late, nothing lands twice and     *)
(* "applied" is never false; and when replies fail in the honest ways only *)
(* the protocol implements AtomicBranch.                                   *)
(***************************************************************************)
EXTENDS Publication, SequenceTheorems, TLAPS

-----------------------------------------------------------------------------
\* Types

\* A call that returns, moves on or retries keeps the types.
LEMMA CallTypes ==
    ASSUME TypeOK, NEW o \in Ops,
           \/ \E result \in Outcomes : Return(o, result)
           \/ \E label \in {"push", "confirm", "settle", "recheck"} : Proceed(o, label)
           \/ Retry(o)
    PROVE  /\ pc' \in [Ops -> {"fetch", "apply", "push", "confirm", "settle", "recheck", "done"}]
           /\ base' \in [Ops -> Nat]
           /\ retries' \in [Ops -> 0..MaxRetries]
           /\ repaired' \in [Ops -> BOOLEAN]
           /\ outcome' \in [Ops -> Outcomes]
  <1> USE DEF TypeOK, Goto, Outcomes
  <1>1. ASSUME NEW result \in Outcomes, Return(o, result)
        PROVE  /\ pc' \in [Ops -> {"fetch", "apply", "push", "confirm", "settle", "recheck", "done"}]
               /\ outcome' \in [Ops -> Outcomes]
               /\ base' \in [Ops -> Nat]
               /\ retries' \in [Ops -> 0..MaxRetries]
               /\ repaired' \in [Ops -> BOOLEAN]
    BY <1>1, RetryAssumption DEF Return, Forget
  <1>2. ASSUME NEW label \in {"push", "confirm", "settle", "recheck"}, Proceed(o, label)
        PROVE  /\ pc' \in [Ops -> {"fetch", "apply", "push", "confirm", "settle", "recheck", "done"}]
               /\ UNCHANGED <<base, retries, repaired, outcome>>
    BY <1>2 DEF Proceed
  <1>3. CASE Retry(o) /\ retries[o] # MaxRetries
    <2>1. retries[o] \in 0..MaxRetries
      OBVIOUS
    <2>2. retries[o] + 1 \in 0..MaxRetries
      BY <1>3, <2>1, RetryAssumption
    <2>3. retries' \in [Ops -> 0..MaxRetries]
      BY <1>3, <2>2 DEF Retry
    <2>4. pc' \in [Ops -> {"fetch", "apply", "push", "confirm", "settle", "recheck", "done"}]
      BY <1>3 DEF Retry
    <2> QED
      BY <1>3, <2>3, <2>4 DEF Retry
  <1>4. CASE Retry(o) /\ retries[o] = MaxRetries
    BY <1>1, <1>4 DEF Retry
  <1> QED
    BY <1>1, <1>2, <1>3, <1>4

\* Every step of a call, a crash or the remote keeps the types.
LEMMA StepTypes ==
    ASSUME TypeOK, [Next]_vars
    PROVE  TypeOK'
  <1> USE DEF remoteVars, callVars, Outcomes
  <1>1. branch \in Seq(Ops) /\ Len(branch) \in Nat
    BY LenProperties DEF TypeOK
  <1>2. ASSUME NEW o \in Ops, FetchFails(o) \/ FindOwnCommit(o) \/ Refuse(o) PROVE TypeOK'
    <2>1. \E result \in Outcomes : Return(o, result)
      BY <1>2 DEF FetchFails, FindOwnCommit, Refuse
    <2>2. UNCHANGED remoteVars
      BY <1>2 DEF FetchFails, FindOwnCommit, Refuse
    <2> QED
      BY <2>1, <2>2, CallTypes DEF TypeOK
  <1>3. ASSUME NEW o \in Ops, Fetch(o) PROVE TypeOK'
    BY <1>1, <1>3 DEF Fetch, Goto, TypeOK
  <1>4. ASSUME NEW o \in Ops, StoreFails(o) PROVE TypeOK'
    <2>1. CASE Return(o, "error")
      BY <1>4, <2>1, CallTypes DEF StoreFails, TypeOK
    <2>2. CASE ~Return(o, "error")
      BY <1>4, <2>2 DEF StoreFails, Goto, TypeOK
    <2> QED
      BY <2>1, <2>2
  <1>5. ASSUME NEW o \in Ops, Push(o) PROVE TypeOK'
    <2>1. inFlight' \in [Ops -> SUBSET Nat]
      BY <1>5 DEF Push, TypeOK
    <2> QED
      BY <1>5, <2>1, CallTypes DEF Push, TypeOK
  <1>6. ASSUME NEW o \in Ops, PushSucceeds(o) PROVE TypeOK'
    BY <1>6, CallTypes DEF PushSucceeds, TypeOK
  <1>7. ASSUME NEW o \in Ops,
               PushConflicts(o) \/ PushRejected(o) \/ PushOffline(o) \/ PushTimesOut(o)
        PROVE  TypeOK'
    <2>1. PICK kind : FailureReported(o, kind)
      BY <1>7 DEF PushConflicts, PushRejected, PushOffline, PushTimesOut
    <2>2. branch' = branch /\ inFlight' \in [Ops -> SUBSET Nat]
      BY <2>1 DEF FailureReported, TypeOK
    <2>3. \/ \E result \in Outcomes : Return(o, result)
          \/ \E label \in {"push", "confirm", "settle", "recheck"} : Proceed(o, label)
          \/ Retry(o)
      BY <1>7 DEF PushConflicts, PushRejected, PushOffline, PushTimesOut
    <2> QED
      BY <2>2, <2>3, CallTypes DEF TypeOK
  <1>8. ASSUME NEW o \in Ops, Confirm(o) \/ Reconcile(o) PROVE TypeOK'
    <2>1. \/ \E result \in Outcomes : Return(o, result)
          \/ \E label \in {"push", "confirm", "settle", "recheck"} : Proceed(o, label)
          \/ Retry(o)
      BY <1>8 DEF Confirm, Reconcile
    <2>2. UNCHANGED remoteVars
      BY <1>8 DEF Confirm, Reconcile
    <2> QED
      BY <2>1, <2>2, CallTypes DEF TypeOK
  <1>9. ASSUME NEW o \in Ops, Crash(o) PROVE TypeOK'
    BY <1>9, RetryAssumption DEF Crash, Forget, Goto, TypeOK
  <1>10. ASSUME NEW o \in Ops, RemoteAccepts(o) PROVE TypeOK'
    <2>1. branch' \in Seq(Ops)
      BY <1>1, <1>10, AppendProperties DEF RemoteAccepts
    <2>2. inFlight' \in [Ops -> SUBSET Nat]
      BY <1>10 DEF RemoteAccepts, TypeOK
    <2> QED
      BY <1>10, <2>1, <2>2 DEF RemoteAccepts, TypeOK
  <1>11. CASE UNCHANGED vars
    BY <1>11 DEF vars, TypeOK
  <1> QED
    BY <1>2, <1>3, <1>4, <1>5, <1>6, <1>7, <1>8, <1>9, <1>10, <1>11 DEF Next, Step

\* The protocol is well typed for every set of operations and retry bound: in
\* particular no call counts more lost races than it may retry.
THEOREM PublicationTypes == Spec => []TypeOK
  <1>1. Init => TypeOK
    BY RetryAssumption DEF Init, TypeOK, Outcomes
  <1> QED
    BY <1>1, StepTypes, PTL DEF Spec

-----------------------------------------------------------------------------
\* Whatever replies say: nothing lands twice, and "applied" is true.

\* No accepted commit of o lies at or below position t.
FreshUpTo(o, t) == t <= Len(branch) /\ \A n \in 1..t : branch[n] # o

\* A push is built on a tip whose history was searched for the call's own
\* commit, so at most one of the pushes a call has in flight can land: the
\* others are built on a tip that is gone.
PushInv ==
    /\ TypeOK
    /\ \A o \in Ops : \A t \in inFlight[o] : FreshUpTo(o, t)
    /\ \A o \in Ops : pc[o] = "apply" => FreshUpTo(o, base[o])
    /\ \A o \in Ops : pc[o] = "confirm" => Landed(o)
    /\ AtMostOnce
    /\ AppliedIsAccepted

\* A step that leaves the branch alone keeps the invariant when it sends no
\* push, or one on the base it searched, and answers "applied" of a landed
\* operation only.
LEMMA CallKeeps ==
    ASSUME PushInv, TypeOK', branch' = branch, NEW o \in Ops,
           \A r \in Ops \ {o} : pc'[r] = pc[r] /\ base'[r] = base[r] /\ outcome'[r] = outcome[r],
           \A r \in Ops : \A t \in inFlight'[r] :
              t \in inFlight[r] \/ (r = o /\ pc[o] = "apply" /\ t = base[o]),
           pc'[o] = "apply" => FreshUpTo(o, base'[o]),
           pc'[o] = "confirm" => Landed(o),
           outcome'[o] = "applied" => outcome[o] = "applied" \/ Landed(o)
    PROVE  PushInv'
  <1>1. \A r \in Ops : Landed(r) => Landed(r)'
    BY DEF Landed
  <1>2. (\A r \in Ops : \A t \in inFlight[r] : FreshUpTo(r, t))'
    BY DEF PushInv, FreshUpTo
  <1>3. (\A r \in Ops : pc[r] = "apply" => FreshUpTo(r, base[r]))'
    BY DEF PushInv, FreshUpTo
  <1>4. (\A r \in Ops : pc[r] = "confirm" => Landed(r))'
    BY <1>1 DEF PushInv
  <1>5. AtMostOnce'
    BY DEF PushInv, AtMostOnce
  <1>6. AppliedIsAccepted'
    BY <1>1 DEF PushInv, AppliedIsAccepted
  <1> QED
    BY <1>2, <1>3, <1>4, <1>5, <1>6 DEF PushInv

\* An accepted push extends the branch by an operation that is not on it.
LEMMA AcceptStep ==
    ASSUME PushInv, TypeOK', NEW o \in Ops, RemoteAccepts(o)
    PROVE  PushInv'
  <1>1. branch \in Seq(Ops) /\ Len(branch) \in Nat /\ inFlight \in [Ops -> SUBSET Nat]
    BY LenProperties DEF PushInv, TypeOK
  <1>2. branch' = Append(branch, o) /\ UNCHANGED callVars
    BY DEF RemoteAccepts
  <1>3. /\ Len(branch') = Len(branch) + 1
        /\ \A n \in 1..Len(branch) : branch'[n] = branch[n]
        /\ branch'[Len(branch) + 1] = o
        /\ DOMAIN branch = 1..Len(branch)
        /\ DOMAIN branch' = 1..(Len(branch) + 1)
    <2>1. branch' \in Seq(Ops)
      BY DEF TypeOK
    <2> QED
      BY <1>1, <1>2, <2>1, AppendProperties, LenProperties
  <1>4. \A n \in 1..Len(branch) : branch[n] # o
    BY DEF RemoteAccepts, PushInv, FreshUpTo
  <1>5. \A r \in Ops : \A t \in inFlight'[r] : t \in inFlight[r] /\ t \in Nat
    BY <1>1 DEF RemoteAccepts
  <1>6. \A r \in Ops, t \in Nat : FreshUpTo(r, t) => (FreshUpTo(r, t))'
    BY <1>1, <1>3 DEF FreshUpTo
  <1>7. (\A r \in Ops : \A t \in inFlight[r] : FreshUpTo(r, t))'
    BY <1>5, <1>6 DEF PushInv
  <1>8. (\A r \in Ops : pc[r] = "apply" => FreshUpTo(r, base[r]))'
    BY <1>2, <1>6 DEF PushInv, TypeOK, callVars
  <1>9. \A r \in Ops : Landed(r) => Landed(r)'
    BY <1>1, <1>3 DEF Landed
  <1>10. (\A r \in Ops : pc[r] = "confirm" => Landed(r))'
    BY <1>2, <1>9 DEF PushInv, callVars
  <1>11. AppliedIsAccepted'
    BY <1>2, <1>9 DEF PushInv, AppliedIsAccepted, callVars
  <1>12. AtMostOnce'
    BY <1>1, <1>3, <1>4 DEF PushInv, AtMostOnce
  <1> QED
    BY <1>7, <1>8, <1>10, <1>11, <1>12 DEF PushInv

\* Every step keeps the invariant.
LEMMA PushStep ==
    ASSUME PushInv, TypeOK', [Next]_vars
    PROVE  PushInv'
  <1> USE DEF remoteVars, callVars
  <1>1. /\ pc \in [Ops -> {"fetch", "apply", "push", "confirm", "settle", "recheck", "done"}]
        /\ base \in [Ops -> Nat]
        /\ outcome \in [Ops -> Outcomes]
        /\ inFlight \in [Ops -> SUBSET Nat]
        /\ branch \in Seq(Ops) /\ Len(branch) \in Nat
    BY LenProperties DEF PushInv, TypeOK
  <1>2. ASSUME NEW o \in Ops,
               \/ \E result \in Outcomes \ {"applied"} : Return(o, result)
               \/ Return(o, "applied") /\ Landed(o)
               \/ \E label \in {"push", "settle", "recheck"} : Proceed(o, label)
               \/ Proceed(o, "confirm") /\ Landed(o)
               \/ Retry(o)
        PROVE  /\ \A r \in Ops \ {o} : pc'[r] = pc[r] /\ base'[r] = base[r] /\ outcome'[r] = outcome[r]
               /\ pc'[o] # "apply"
               /\ pc'[o] = "confirm" => Landed(o)
               /\ outcome'[o] = "applied" => outcome[o] = "applied" \/ Landed(o)
    BY <1>1, <1>2 DEF Return, Forget, Proceed, Retry, Goto
  <1>3. ASSUME NEW o \in Ops, FetchFails(o) \/ FindOwnCommit(o) \/ Refuse(o) PROVE PushInv'
    BY <1>2, <1>3, CallKeeps DEF FetchFails, FindOwnCommit, Refuse, Outcomes
  <1>4. ASSUME NEW o \in Ops, Fetch(o) PROVE PushInv'
    <2>1. FreshUpTo(o, Len(branch))
      BY <1>1, <1>4, LenProperties DEF Fetch, Landed, FreshUpTo
    <2> QED
      BY <1>1, <1>4, <2>1, CallKeeps DEF Fetch, Goto
  <1>5. ASSUME NEW o \in Ops, StoreFails(o) PROVE PushInv'
    <2>1. CASE Return(o, "error")
      BY <1>2, <1>5, <2>1, CallKeeps DEF StoreFails, Outcomes
    <2>2. CASE ~Return(o, "error")
      BY <1>1, <1>5, <2>2, CallKeeps DEF StoreFails, Goto
    <2> QED
      BY <2>1, <2>2
  <1>6. ASSUME NEW o \in Ops, Push(o) PROVE PushInv'
    <2>1. \A r \in Ops : \A t \in inFlight'[r] : t \in inFlight[r] \/ (r = o /\ pc[o] = "apply" /\ t = base[o])
      BY <1>1, <1>6 DEF Push
    <2> QED
      BY <1>2, <1>6, <2>1, CallKeeps DEF Push
  <1>7. ASSUME NEW o \in Ops, PushSucceeds(o) PROVE PushInv'
    BY <1>2, <1>7, CallKeeps DEF PushSucceeds
  <1>8. ASSUME NEW o \in Ops,
               PushConflicts(o) \/ PushRejected(o) \/ PushOffline(o) \/ PushTimesOut(o)
        PROVE  PushInv'
    <2>1. PICK kind : FailureReported(o, kind)
      BY <1>8 DEF PushConflicts, PushRejected, PushOffline, PushTimesOut
    <2>2. branch' = branch /\ \A r \in Ops : \A t \in inFlight'[r] : t \in inFlight[r]
      BY <1>1, <2>1 DEF FailureReported
    <2>3. \/ Return(o, "error")
          \/ \E label \in {"push", "settle", "recheck"} : Proceed(o, label)
          \/ Retry(o)
      BY <1>8 DEF PushConflicts, PushRejected, PushOffline, PushTimesOut
    <2> QED
      BY <1>2, <2>2, <2>3, CallKeeps DEF Outcomes
  <1>9. ASSUME NEW o \in Ops, Confirm(o) \/ Reconcile(o) PROVE PushInv'
    <2>1. pc[o] = "confirm" => Landed(o)
      BY DEF PushInv
    <2>2. \/ Return(o, "applied") /\ Landed(o)
          \/ Return(o, "unknown")
          \/ Proceed(o, "settle")
          \/ Retry(o)
      BY <1>9, <2>1 DEF Confirm, Reconcile
    <2>3. UNCHANGED remoteVars
      BY <1>9 DEF Confirm, Reconcile
    <2> QED
      BY <1>2, <2>2, <2>3, CallKeeps DEF Outcomes
  <1>10. ASSUME NEW o \in Ops, Crash(o) PROVE PushInv'
    BY <1>1, <1>10, CallKeeps DEF Crash, Forget, Goto
  <1>11. ASSUME NEW o \in Ops, RemoteAccepts(o) PROVE PushInv'
    BY <1>11, AcceptStep
  <1>12. CASE UNCHANGED vars
    BY <1>12 DEF vars, PushInv, FreshUpTo, AtMostOnce, AppliedIsAccepted, Landed
  <1> QED
    BY <1>3, <1>4, <1>5, <1>6, <1>7, <1>8, <1>9, <1>10, <1>11, <1>12 DEF Next, Step

\* The invariant holds of every behaviour.
THEOREM PushInvHolds == Spec => []PushInv
  <1>1. Init => PushInv
    <2> SUFFICES ASSUME Init PROVE PushInv
      OBVIOUS
    <2>1. TypeOK
      BY RetryAssumption DEF Init, TypeOK, Outcomes
    <2> QED
      BY <2>1 DEF Init, PushInv, AtMostOnce, AppliedIsAccepted
  <1>2. PushInv /\ TypeOK' /\ [Next]_vars => PushInv'
    BY PushStep
  <1> QED
    BY <1>1, <1>2, PublicationTypes, PTL DEF Spec

\* An operation is on the branch at most once, whatever was lost or late.
THEOREM AtMostOnceHolds == Spec => []AtMostOnce
  BY PushInvHolds, PTL DEF PushInv

\* A caller is told "applied" only of an operation the remote accepted.
THEOREM AppliedIsAcceptedHolds == Spec => []AppliedIsAccepted
  BY PushInvHolds, PTL DEF PushInv

\* A call under way has answered nothing.
Unanswered == \A o \in Ops : pc[o] # "done" => outcome[o] = "none"

\* A call answers at its end only, and for itself only.
LEMMA AnswersAtEnd ==
    ASSUME TypeOK, [Next]_vars, Unanswered
    PROVE  Unanswered'
  <1> SUFFICES ASSUME NEW q \in Ops, pc'[q] # "done" PROVE outcome'[q] = "none"
    BY DEF Unanswered
  <1>1. /\ pc \in [Ops -> {"fetch", "apply", "push", "confirm", "settle", "recheck", "done"}]
        /\ outcome \in [Ops -> Outcomes]
    BY DEF TypeOK
  <1>2. ASSUME NEW o \in Ops, Step(o) \/ Crash(o)
        PROVE  /\ pc'[o] # "done" => outcome'[o] = outcome[o]
               /\ pc[o] # "done"
               /\ \A r \in Ops \ {o} : pc'[r] = pc[r] /\ outcome'[r] = outcome[r]
    <2>1. ASSUME \/ \E result : Return(o, result)
                 \/ \E label : Proceed(o, label)
                 \/ Retry(o)
          PROVE  /\ pc'[o] # "done" => outcome'[o] = outcome[o]
                 /\ \A r \in Ops \ {o} : pc'[r] = pc[r] /\ outcome'[r] = outcome[r]
      BY <1>1, <2>1 DEF Return, Proceed, Retry, Goto
    <2>2. CASE FetchFails(o) \/ FindOwnCommit(o) \/ Refuse(o) \/ Push(o) \/ PushSucceeds(o)
      BY <2>1, <2>2 DEF FetchFails, FindOwnCommit, Refuse, Push, PushSucceeds
    <2>3. CASE PushConflicts(o) \/ PushRejected(o) \/ PushOffline(o) \/ PushTimesOut(o)
      BY <2>1, <2>3 DEF PushConflicts, PushRejected, PushOffline, PushTimesOut, FailureReported
    <2>4. CASE Confirm(o) \/ Reconcile(o)
      BY <2>1, <2>4 DEF Confirm, Reconcile
    <2>5. CASE Fetch(o) \/ StoreFails(o) \/ Crash(o)
      BY <1>1, <2>1, <2>5 DEF Fetch, StoreFails, Crash, Goto
    <2> QED
      BY <1>2, <2>2, <2>3, <2>4, <2>5 DEF Step
  <1>3. ASSUME NEW o \in Ops, RemoteAccepts(o) PROVE UNCHANGED <<pc, outcome>>
    BY <1>3 DEF RemoteAccepts, callVars
  <1>4. ASSUME UNCHANGED vars PROVE UNCHANGED <<pc, outcome>>
    BY <1>4 DEF vars, callVars
  <1>5. pc[q] # "done" => outcome[q] = "none"
    BY DEF Unanswered
  <1> QED
    BY <1>2, <1>3, <1>4, <1>5 DEF Next

-----------------------------------------------------------------------------
\* When replies fail in the honest ways only, publication implements the
\* atomic branch: a push reported as rejected or as a lost race did not land,
\* and only a push that timed out can still land.
Honest ==
    /\ LostKinds \subseteq {"offline", "timeout"}
    /\ LateKinds \subseteq {"timeout"}

Single(S) == \A s, t \in S : s = t

\* A call has at most one push undecided, none while it starts over, none once
\* it landed, and none after a definite answer.
HonestInv ==
    /\ TypeOK
    /\ \A o \in Ops :
          /\ Single(inFlight[o])
          /\ pc[o] \in {"fetch", "apply"} => ~Landed(o) /\ inFlight[o] = {}
          /\ pc[o] = "recheck" => inFlight[o] = {}
          /\ pc[o] = "confirm" => Landed(o)
          /\ Landed(o) => inFlight[o] = {}
          /\ pc[o] # "done" => outcome[o] = "none"
          /\ outcome[o] \notin {"none", "unknown"} => inFlight[o] = {}

\* A step of call o that leaves the branch alone keeps the invariant when it
\* does so for o, and tells the caller what AtomicBranch allows.
LEMMA HonestCall ==
    ASSUME HonestInv, TypeOK', branch' = branch, NEW o \in Ops,
           \A r \in Ops \ {o} : /\ pc'[r] = pc[r] /\ outcome'[r] = outcome[r]
                                /\ inFlight'[r] = inFlight[r],
           Single(inFlight'[o]),
           pc'[o] \in {"fetch", "apply"} => ~Landed(o) /\ inFlight'[o] = {},
           pc'[o] = "recheck" => inFlight'[o] = {},
           pc'[o] = "confirm" => Landed(o),
           Landed(o) => inFlight'[o] = {},
           pc'[o] # "done" => outcome'[o] = "none",
           outcome'[o] \notin {"none", "unknown"} => inFlight'[o] = {},
           outcome'[o] = outcome[o] \/ pc[o] # "done",
           outcome'[o] = "applied" => outcome[o] = "applied" \/ Landed(o),
           outcome'[o] \in {"conflict", "error", "offline", "noop"} =>
              outcome'[o] = outcome[o] \/ ~Landed(o)
    PROVE  HonestInv' /\ [Abstract!Next]_<<branch, [r \in Ops |-> AnswerOf(outcome[r])]>>
  <1>1. \A r \in Ops : Landed(r)' <=> Landed(r)
    BY DEF Landed
  <1>2. HonestInv'
    BY <1>1 DEF HonestInv
  <1>3. outcome \in [Ops -> Outcomes] /\ outcome' \in [Ops -> Outcomes]
    BY DEF HonestInv, TypeOK
  <1>4. CASE outcome'[o] = outcome[o]
    <2>1. outcome' = outcome
      BY <1>3, <1>4
    <2> QED
      BY <1>2, <2>1
  <1>5. CASE outcome'[o] # outcome[o]
    <2> DEFINE a == AnswerOf(outcome'[o])
    <2>1. outcome[o] = "none" /\ outcome'[o] \in Outcomes \ {"none"}
      BY <1>3, <1>5 DEF HonestInv
    <2>2. a \in {"applied", "failed", "unknown", "noop"}
      BY <2>1 DEF AnswerOf, Outcomes
    <2>3. AnswerOf(outcome[o]) = "none"
      BY <2>1 DEF AnswerOf
    <2>4. a = "applied" => Landed(o)
      BY <2>1 DEF AnswerOf, Outcomes
    <2>5. a \in {"failed", "noop"} => ~Landed(o)
      BY <1>5, <2>1 DEF AnswerOf, Outcomes
    <2>6. [r \in Ops |-> AnswerOf(outcome[r])]'
             = [[r \in Ops |-> AnswerOf(outcome[r])] EXCEPT ![o] = a]
      <3> HIDE DEF a
      <3>1. \A r \in Ops \ {o} : AnswerOf(outcome'[r]) = AnswerOf(outcome[r])
        OBVIOUS
      <3>2. AnswerOf(outcome'[o]) = a
        BY DEF a
      <3> QED
        BY <3>1, <3>2
    <2> HIDE DEF a
    <2>7. Abstract!Answer(o, a)
      BY <2>3, <2>4, <2>5, <2>6 DEF Abstract!Answer, Abstract!InHistory, Landed
    <2>8. Abstract!Next
      BY <2>2, <2>7 DEF Abstract!Next, Abstract!Answers
    <2> QED
      BY <1>2, <2>8
  <1> QED
    BY <1>4, <1>5

\* An accepted push lands its operation, as AtomicBranch allows.
LEMMA HonestAccept ==
    ASSUME HonestInv, TypeOK', NEW o \in Ops, RemoteAccepts(o)
    PROVE  HonestInv' /\ Abstract!Next
  <1>1. branch \in Seq(Ops) /\ inFlight \in [Ops -> SUBSET Nat] /\ outcome \in [Ops -> Outcomes]
    BY DEF HonestInv, TypeOK
  <1>2. branch' = Append(branch, o) /\ UNCHANGED callVars
    BY DEF RemoteAccepts
  <1>3. ~Landed(o) /\ inFlight[o] = {Len(branch)}
    BY DEF RemoteAccepts, HonestInv, Single
  <1>4. inFlight'[o] = {} /\ \A r \in Ops \ {o} : inFlight'[r] = inFlight[r]
    BY <1>1, <1>3 DEF RemoteAccepts
  <1>5. \A r \in Ops \ {o} : Landed(r)' <=> Landed(r)
    <2>1. /\ Len(branch) \in Nat
          /\ \A n \in 1..Len(branch) : branch'[n] = branch[n]
          /\ branch'[Len(branch) + 1] = o
          /\ DOMAIN branch = 1..Len(branch)
      BY <1>1, <1>2, AppendProperties, LenProperties
    <2>2. DOMAIN branch' = 1..(Len(branch) + 1)
      <3>1. branch' \in Seq(Ops) /\ Len(branch') = Len(branch) + 1
        BY <1>1, <1>2, AppendProperties
      <3> QED
        BY <3>1, LenProperties
    <2> QED
      BY <2>1, <2>2 DEF Landed
  <1>6. pc[o] \notin {"fetch", "apply", "confirm", "recheck"} /\ outcome[o] \in {"none", "unknown"}
    BY <1>3 DEF HonestInv
  <1>7. HonestInv'
    BY <1>2, <1>4, <1>5, <1>6 DEF HonestInv, Single, callVars
  <1>8. [r \in Ops |-> AnswerOf(outcome[r])]' = [r \in Ops |-> AnswerOf(outcome[r])]
    BY <1>2 DEF callVars
  <1>9. AnswerOf(outcome[o]) \in {"none", "unknown"}
    BY <1>6 DEF AnswerOf
  <1>10. Abstract!Land(o)
    BY <1>2, <1>3, <1>8, <1>9 DEF Abstract!Land, Abstract!InHistory, Landed
  <1> QED
    BY <1>7, <1>10 DEF Abstract!Next

\* Every step keeps the invariant and is a step of AtomicBranch or stutters.
LEMMA HonestSteps ==
    ASSUME Honest, HonestInv, TypeOK', [Next]_vars
    PROVE  HonestInv' /\ [Abstract!Next]_<<branch, [o \in Ops |-> AnswerOf(outcome[o])]>>
  <1> DEFINE Goal == HonestInv' /\ [Abstract!Next]_<<branch, [o \in Ops |-> AnswerOf(outcome[o])]>>
  <1> USE DEF remoteVars, callVars
  <1>1. /\ pc \in [Ops -> {"fetch", "apply", "push", "confirm", "settle", "recheck", "done"}]
        /\ base \in [Ops -> Nat]
        /\ outcome \in [Ops -> Outcomes]
        /\ inFlight \in [Ops -> SUBSET Nat]
    BY DEF HonestInv, TypeOK
  <1>2. ASSUME NEW o \in Ops, NEW result \in Outcomes \ {"none"}, Return(o, result),
               branch' = branch, pc[o] # "done",
               \A r \in Ops \ {o} : inFlight'[r] = inFlight[r],
               inFlight'[o] \subseteq inFlight[o],
               result # "unknown" => inFlight'[o] = {},
               result = "applied" => Landed(o),
               result \in {"conflict", "error", "offline", "noop"} => ~Landed(o)
        PROVE  Goal
    <2>1. /\ pc'[o] = "done" /\ outcome'[o] = result
          /\ \A r \in Ops \ {o} : pc'[r] = pc[r] /\ outcome'[r] = outcome[r]
      BY <1>1, <1>2 DEF Return, Goto
    <2>2. Single(inFlight'[o]) /\ (Landed(o) => inFlight'[o] = {})
      BY <1>2, <2>1 DEF HonestInv, Single
    <2> QED
      BY <1>2, <2>1, <2>2, HonestCall
  <1>3. ASSUME NEW o \in Ops, NEW label \in {"push", "confirm", "settle", "recheck"}, Proceed(o, label),
               branch' = branch, pc[o] # "done",
               \A r \in Ops \ {o} : inFlight'[r] = inFlight[r],
               Single(inFlight'[o]),
               label = "recheck" => inFlight'[o] = {},
               label = "confirm" => Landed(o),
               Landed(o) => inFlight'[o] = {}
        PROVE  Goal
    <2>1. /\ pc'[o] = label /\ outcome' = outcome
          /\ \A r \in Ops \ {o} : pc'[r] = pc[r]
      BY <1>1, <1>3 DEF Proceed, Goto
    <2>2. outcome[o] = "none"
      BY <1>3 DEF HonestInv
    <2> QED
      BY <1>3, <2>1, <2>2, HonestCall
  <1>4. ASSUME NEW o \in Ops, Retry(o), branch' = branch, pc[o] # "done",
               \A r \in Ops \ {o} : inFlight'[r] = inFlight[r],
               inFlight'[o] = {}, ~Landed(o)
        PROVE  Goal
    <2>1. CASE retries[o] = MaxRetries
      BY <1>2, <1>4, <2>1 DEF Retry, Outcomes
    <2>2. CASE retries[o] # MaxRetries
      <3>1. /\ pc'[o] = "fetch" /\ outcome' = outcome
            /\ \A r \in Ops \ {o} : pc'[r] = pc[r]
        BY <1>1, <1>4, <2>2 DEF Retry, Goto
      <3>2. outcome[o] = "none"
        BY <1>4 DEF HonestInv
      <3> QED
        BY <1>4, <3>1, <3>2, HonestCall DEF Single
    <2> QED
      BY <2>1, <2>2
  <1>5. ASSUME NEW o \in Ops, FetchFails(o) \/ FindOwnCommit(o) \/ Refuse(o) PROVE Goal
    <2>1. ~Landed(o) /\ inFlight[o] = {} /\ pc[o] # "done" /\ UNCHANGED remoteVars
      BY <1>5 DEF FetchFails, FindOwnCommit, Refuse, HonestInv
    <2>2. PICK result \in {"conflict", "error", "offline", "noop"} : Return(o, result)
      BY <1>5, <2>1 DEF FetchFails, FindOwnCommit, Refuse
    <2> QED
      BY <1>2, <2>1, <2>2 DEF Outcomes
  <1>6. ASSUME NEW o \in Ops, Fetch(o) PROVE Goal
    <2>1. /\ pc'[o] = "apply" /\ outcome' = outcome /\ branch' = branch /\ inFlight' = inFlight
          /\ \A r \in Ops \ {o} : pc'[r] = pc[r]
      BY <1>1, <1>6 DEF Fetch, Goto
    <2>2. ~Landed(o) /\ inFlight[o] = {} /\ outcome[o] = "none"
      BY <1>6 DEF Fetch, HonestInv
    <2> QED
      BY <2>1, <2>2, HonestCall DEF Single
  <1>7. ASSUME NEW o \in Ops, StoreFails(o) PROVE Goal
    <2>1. ~Landed(o) /\ inFlight[o] = {} /\ pc[o] # "done" /\ outcome[o] = "none"
      BY <1>7 DEF StoreFails, HonestInv
    <2>2. CASE Return(o, "error")
      BY <1>2, <1>7, <2>1, <2>2 DEF StoreFails, Outcomes
    <2>3. CASE ~Return(o, "error")
      <3>1. /\ pc'[o] = "fetch" /\ outcome' = outcome /\ branch' = branch /\ inFlight' = inFlight
            /\ \A r \in Ops \ {o} : pc'[r] = pc[r]
        BY <1>1, <1>7, <2>3 DEF StoreFails, Goto
      <3> QED
        BY <2>1, <3>1, HonestCall DEF Single
    <2> QED
      BY <2>2, <2>3
  <1>8. ASSUME NEW o \in Ops, Push(o) PROVE Goal
    <2>1. ~Landed(o) /\ inFlight[o] = {} /\ pc[o] # "done"
      BY <1>8 DEF Push, HonestInv
    <2>2. inFlight'[o] = {base[o]} /\ \A r \in Ops \ {o} : inFlight'[r] = inFlight[r]
      BY <1>1, <1>8, <2>1 DEF Push
    <2> QED
      BY <1>3, <1>8, <2>1, <2>2 DEF Push, Single
  <1>9. ASSUME NEW o \in Ops, PushSucceeds(o) PROVE Goal
    <2>1. Landed(o) /\ inFlight[o] = {} /\ pc[o] # "done"
      BY <1>9 DEF PushSucceeds, HonestInv
    <2> QED
      BY <1>3, <1>9, <2>1 DEF PushSucceeds, Single
  <1>10. ASSUME NEW o \in Ops,
                PushConflicts(o) \/ PushRejected(o) \/ PushOffline(o) \/ PushTimesOut(o)
         PROVE  Goal
    <2>1. ASSUME NEW kind, FailureReported(o, kind)
          PROVE  /\ branch' = branch /\ pc[o] # "done"
                 /\ \A r \in Ops \ {o} : inFlight'[r] = inFlight[r]
                 /\ Single(inFlight'[o])
                 /\ Landed(o) => inFlight'[o] = {}
                 /\ kind \in {"conflict", "rejected"} => ~Landed(o)
                 /\ kind \in {"conflict", "rejected", "offline"} => inFlight'[o] = {}
      BY <1>1, <2>1 DEF FailureReported, Honest, HonestInv, Single
    <2>2. CASE PushConflicts(o)
      BY <1>4, <2>1, <2>2 DEF PushConflicts
    <2>3. CASE PushRejected(o)
      BY <1>2, <2>1, <2>3 DEF PushRejected, Outcomes, FailureReported
    <2>4. CASE PushOffline(o)
      BY <1>3, <2>1, <2>4 DEF PushOffline
    <2>5. CASE PushTimesOut(o)
      BY <1>3, <2>1, <2>5 DEF PushTimesOut
    <2> QED
      BY <1>10, <2>2, <2>3, <2>4, <2>5
  <1>11. ASSUME NEW o \in Ops, Confirm(o) PROVE Goal
    <2>1. Landed(o) /\ inFlight[o] = {} /\ pc[o] # "done" /\ UNCHANGED remoteVars
      BY <1>11 DEF Confirm, HonestInv
    <2>2. Return(o, "applied") \/ Proceed(o, "settle")
      BY <1>11 DEF Confirm
    <2> QED
      BY <1>2, <1>3, <2>1, <2>2 DEF Outcomes, Single
  <1>12. ASSUME NEW o \in Ops, Reconcile(o) PROVE Goal
    <2>1. /\ pc[o] # "done" /\ UNCHANGED remoteVars
          /\ Landed(o) => inFlight[o] = {}
          /\ pc[o] = "recheck" => inFlight[o] = {}
      BY <1>12 DEF Reconcile, HonestInv
    <2>2. CASE Landed(o) /\ Return(o, "applied")
      BY <1>2, <2>1, <2>2 DEF Outcomes
    <2>3. CASE Return(o, "unknown")
      BY <1>2, <2>1, <2>3 DEF Outcomes
    <2>4. CASE pc[o] = "recheck" /\ ~Landed(o) /\ Retry(o)
      BY <1>4, <2>1, <2>4
    <2> QED
      BY <1>12, <2>2, <2>3, <2>4 DEF Reconcile
  <1>13. ASSUME NEW o \in Ops, Crash(o) PROVE Goal
    <2>1. /\ pc'[o] = "done" /\ UNCHANGED <<branch, inFlight, outcome>>
          /\ \A r \in Ops \ {o} : pc'[r] = pc[r]
      BY <1>1, <1>13 DEF Crash, Goto
    <2>2. /\ Single(inFlight[o])
          /\ Landed(o) => inFlight[o] = {}
          /\ outcome[o] = "none"
      BY <1>13 DEF Crash, HonestInv
    <2> QED
      BY <2>1, <2>2, HonestCall
  <1>14. ASSUME NEW o \in Ops, RemoteAccepts(o) PROVE Goal
    BY <1>14, HonestAccept
  <1>15. CASE UNCHANGED vars
    BY <1>15 DEF vars, HonestInv, Landed
  <1> QED
    BY <1>5, <1>6, <1>7, <1>8, <1>9, <1>10, <1>11, <1>12, <1>13, <1>14, <1>15 DEF Next, Step

\* Publication implements AtomicBranch whenever replies fail in the honest
\* ways only: no failure is reported of an operation that is, or will be, on
\* the branch.
THEOREM HonestRefines ==
    ASSUME Honest
    PROVE  Spec => RefinesAtomicBranch
  <1>1. Init => HonestInv /\ Abstract!Init
    <2> SUFFICES ASSUME Init PROVE HonestInv /\ Abstract!Init
      OBVIOUS
    <2>1. TypeOK
      BY RetryAssumption DEF Init, TypeOK, Outcomes
    <2>2. \A o \in Ops : ~Landed(o)
      BY DEF Init, Landed
    <2>3. HonestInv
      BY <2>1, <2>2 DEF Init, HonestInv, Single
    <2>4. Abstract!Init
      BY DEF Init, Abstract!Init, AnswerOf
    <2> QED
      BY <2>3, <2>4
  <1>2. HonestInv /\ TypeOK' /\ [Next]_vars =>
           HonestInv' /\ [Abstract!Next]_<<branch, [o \in Ops |-> AnswerOf(outcome[o])]>>
    BY HonestSteps
  <1> QED
    BY <1>1, <1>2, PublicationTypes, PTL DEF Spec, RefinesAtomicBranch, Abstract!Spec

\* The branch takes no operation whose caller was told that it failed.
LEMMA AtomicFailures ==
    ASSUME FailuresAreDefinite, branch \in Seq(Ops), outcome \in [Ops -> Outcomes], outcome' \in [Ops -> Outcomes],
           [Abstract!Next]_<<branch, [o \in Ops |-> AnswerOf(outcome[o])]>>
    PROVE  FailuresAreDefinite'
  <1> DEFINE told == [o \in Ops |-> AnswerOf(outcome[o])]
  <1>1. \A o \in Ops : /\ told[o] = "failed" <=> outcome[o] \in {"conflict", "error", "offline"}
                       /\ told'[o] = "failed" <=> outcome'[o] \in {"conflict", "error", "offline"}
    BY DEF AnswerOf, Outcomes
  <1>2. \A o \in Ops : told[o] = "failed" => ~Landed(o)
    BY <1>1 DEF FailuresAreDefinite
  <1> SUFFICES ASSUME NEW o \in Ops, told'[o] = "failed"
               PROVE  ~Landed(o)'
    BY <1>1 DEF FailuresAreDefinite
  <1> HIDE DEF told
  <1>3. CASE UNCHANGED <<branch, told>>
    BY <1>2, <1>3 DEF Landed
  <1>4. ASSUME NEW q \in Ops, Abstract!Land(q)
        PROVE  ~Landed(o)'
    <2>1. branch' = Append(branch, q) /\ told' = told /\ told[q] \in {"none", "unknown"}
      BY <1>4 DEF Abstract!Land, told
    <2>2. o # q /\ ~Landed(o)
      BY <1>2, <2>1
    <2>3. /\ DOMAIN branch' = 1..(Len(branch) + 1) /\ Len(branch) \in Nat
          /\ branch'[Len(branch) + 1] = q
          /\ \A n \in 1..Len(branch) : branch'[n] = branch[n]
          /\ DOMAIN branch = 1..Len(branch)
      BY <2>1, AppendProperties, LenProperties
    <2> QED
      BY <2>2, <2>3 DEF Landed
  <1>5. ASSUME NEW q \in Ops, NEW a \in Abstract!Answers \ {"none"}, Abstract!Answer(q, a)
        PROVE  ~Landed(o)'
    <2>1. /\ branch' = branch /\ told' = [told EXCEPT ![q] = a]
          /\ a = "failed" => ~Landed(q)
      BY <1>5 DEF Abstract!Answer, Abstract!InHistory, Landed, told
    <2>2. told'[o] = told[o] \/ (o = q /\ a = "failed")
      BY <2>1 DEF told
    <2> QED
      BY <1>2, <2>1, <2>2 DEF Landed
  <1> QED
    BY <1>3, <1>4, <1>5 DEF Abstract!Next, told

\* Where replies fail in the honest ways only, a reported failure is final: the
\* operation is not on the branch and never will be.  The run lost_reply shows
\* what a misread reply does to this.
THEOREM FailuresAreDefiniteHolds ==
    ASSUME Honest
    PROVE  Spec => []FailuresAreDefinite
  <1>1. Init => FailuresAreDefinite
    BY DEF Init, FailuresAreDefinite
  <1>2. FailuresAreDefinite /\ TypeOK /\ TypeOK'
           /\ [Abstract!Next]_<<branch, [o \in Ops |-> AnswerOf(outcome[o])]>> => FailuresAreDefinite'
    BY AtomicFailures DEF TypeOK
  <1>3. Spec => [][Abstract!Next]_<<branch, [o \in Ops |-> AnswerOf(outcome[o])]>>
    BY HonestRefines, PTL DEF RefinesAtomicBranch, Abstract!Spec
  <1> QED
    BY <1>1, <1>2, <1>3, PublicationTypes, PTL DEF Spec

-----------------------------------------------------------------------------
\* How long a call takes

\* The steps a call may still take from where it is, in one attempt.
Stage == [fetch |-> 5, apply |-> 4, push |-> 3, confirm |-> 2, settle |-> 1, recheck |-> 1]

Repairs(o) == IF repaired[o] THEN 0 ELSE 1

\* The attempts it may still make, of six steps at most, and those of this one.
Remaining(o) ==
    IF pc[o] = "done" THEN 0
    ELSE 6 * (MaxRetries - retries[o] + Repairs(o)) + Stage[pc[o]]

\* Every step of a call brings its end nearer, and nothing puts it off: neither
\* another call nor the remote.
CallsCountDown ==
    [][\A o \in Ops : /\ Remaining(o)' <= Remaining(o)
                      /\ Step(o) \/ Crash(o) => Remaining(o)' < Remaining(o)]_vars

\* A call under way has at least one step left, and at most six for each of its
\* attempts and its one repair.
LEMMA RemainingBounds ==
    ASSUME TypeOK, NEW o \in Ops
    PROVE  /\ Remaining(o) \in 0..6 * (MaxRetries + 2)
           /\ Remaining(o) = 0 <=> pc[o] = "done"
  <1>1. /\ pc[o] \in {"fetch", "apply", "push", "confirm", "settle", "recheck", "done"}
        /\ retries[o] \in 0..MaxRetries /\ repaired[o] \in BOOLEAN
    BY DEF TypeOK
  <1>2. pc[o] # "done" => Stage[pc[o]] \in 1..5
    BY <1>1 DEF Stage
  <1>3. Repairs(o) \in {0, 1}
    BY DEF Repairs
  <1> QED
    BY <1>1, <1>2, <1>3, RetryAssumption DEF Remaining

\* A step of a call lowers what remains of it.
LEMMA StepCountsDown ==
    ASSUME TypeOK, TypeOK', NEW o \in Ops, Step(o) \/ Crash(o)
    PROVE  Remaining(o)' < Remaining(o)
  <1>1. /\ pc \in [Ops -> {"fetch", "apply", "push", "confirm", "settle", "recheck", "done"}]
        /\ retries \in [Ops -> 0..MaxRetries] /\ repaired \in [Ops -> BOOLEAN]
        /\ retries[o] \in Nat /\ retries'[o] \in Nat /\ MaxRetries \in Nat
        /\ retries[o] <= MaxRetries /\ retries'[o] <= MaxRetries
    BY RetryAssumption DEF TypeOK
  <1>2. Repairs(o) \in {0, 1} /\ Repairs(o)' \in {0, 1}
    BY DEF Repairs
  <1>3. ASSUME pc[o] # "done", pc'[o] = "done"
        PROVE  Remaining(o)' < Remaining(o)
    <2>1. Remaining(o)' = 0
      BY <1>3 DEF Remaining
    <2>2. Remaining(o) \in Nat /\ Remaining(o) # 0
      BY <1>3, RemainingBounds, RetryAssumption
    <2> QED
      BY <2>1, <2>2
  <1>4. ASSUME pc[o] # "done", pc'[o] # "done", retries'[o] = retries[o], Repairs(o)' = Repairs(o),
               Stage[pc'[o]] < Stage[pc[o]]
        PROVE  Remaining(o)' < Remaining(o)
    <2>1. /\ pc[o] \in {"fetch", "apply", "push", "confirm", "settle", "recheck"}
          /\ pc'[o] \in {"fetch", "apply", "push", "confirm", "settle", "recheck"}
      BY <1>4 DEF TypeOK
    <2>2. Stage[pc[o]] \in 1..5 /\ Stage[pc'[o]] \in 1..5
      BY <2>1 DEF Stage
    <2> QED
      BY <1>1, <1>2, <1>4, <2>2 DEF Remaining
  <1>5. ASSUME pc[o] # "done", pc'[o] = "fetch",
               MaxRetries - retries'[o] + Repairs(o)' = MaxRetries - retries[o] + Repairs(o) - 1
        PROVE  Remaining(o)' < Remaining(o)
    <2>1. Stage[pc[o]] \in 1..5 /\ Stage[pc'[o]] = 5
      BY <1>1, <1>5 DEF Stage
    <2> QED
      BY <1>1, <1>2, <1>5, <2>1 DEF Remaining
  <1>6. ASSUME NEW result, Return(o, result)
        PROVE  pc'[o] = "done"
    BY <1>1, <1>6 DEF Return, Goto
  <1>7. ASSUME NEW label, Proceed(o, label), pc[o] # "done", label # "done", Stage[label] < Stage[pc[o]]
        PROVE  Remaining(o)' < Remaining(o)
    <2>1. pc'[o] = label /\ retries'[o] = retries[o] /\ Repairs(o)' = Repairs(o)
      BY <1>1, <1>7 DEF Proceed, Goto, Repairs
    <2> QED
      BY <1>4, <1>7, <2>1
  <1>8. ASSUME Retry(o), pc[o] # "done"
        PROVE  Remaining(o)' < Remaining(o)
    <2>1. CASE retries[o] = MaxRetries
      BY <1>3, <1>6, <1>8, <2>1 DEF Retry
    <2>2. CASE retries[o] # MaxRetries
      <3>1. pc'[o] = "fetch" /\ retries'[o] = retries[o] + 1 /\ Repairs(o)' = Repairs(o)
        BY <1>1, <1>8, <2>2 DEF Retry, Goto, Repairs
      <3>2. MaxRetries - retries'[o] + Repairs(o)' = MaxRetries - retries[o] + Repairs(o) - 1
        BY <1>1, <1>2, <3>1
      <3> QED
        BY <1>5, <1>8, <3>1, <3>2
    <2> QED
      BY <2>1, <2>2
  <1>9. CASE FetchFails(o) \/ FindOwnCommit(o) \/ Refuse(o) \/ PushRejected(o)
    BY <1>3, <1>6, <1>9 DEF FetchFails, FindOwnCommit, Refuse, PushRejected, FailureReported
  <1>10. CASE Fetch(o)
    <2>1. pc[o] = "fetch" /\ pc'[o] = "apply" /\ retries'[o] = retries[o] /\ Repairs(o)' = Repairs(o)
      BY <1>1, <1>10 DEF Fetch, Goto, Repairs
    <2> QED
      BY <1>4, <2>1 DEF Stage
  <1>11. CASE StoreFails(o)
    <2>1. CASE Return(o, "error")
      BY <1>3, <1>6, <1>11, <2>1 DEF StoreFails
    <2>2. CASE ~Return(o, "error")
      <3>1. /\ pc[o] # "done" /\ pc'[o] = "fetch" /\ retries'[o] = retries[o]
            /\ Repairs(o) = 1 /\ Repairs(o)' = 0
        BY <1>1, <1>11, <2>2 DEF StoreFails, Goto, Repairs
      <3>2. MaxRetries - retries'[o] + Repairs(o)' = MaxRetries - retries[o] + Repairs(o) - 1
        BY <1>1, <3>1
      <3> QED
        BY <1>5, <3>1, <3>2
    <2> QED
      BY <2>1, <2>2
  <1>12. CASE Push(o) \/ PushSucceeds(o) \/ PushOffline(o) \/ PushTimesOut(o)
    BY <1>7, <1>12 DEF Push, PushSucceeds, PushOffline, PushTimesOut, FailureReported, Stage
  <1>13. CASE PushConflicts(o)
    BY <1>8, <1>13 DEF PushConflicts, FailureReported
  <1>14. CASE Confirm(o)
    BY <1>3, <1>6, <1>7, <1>14 DEF Confirm, Stage
  <1>15. CASE Reconcile(o)
    BY <1>3, <1>6, <1>8, <1>15 DEF Reconcile
  <1>16. CASE Crash(o)
    BY <1>1, <1>3, <1>16 DEF Crash, Goto
  <1> QED
    BY <1>9, <1>10, <1>11, <1>12, <1>13, <1>14, <1>15, <1>16 DEF Step

\* A step of another call leaves what remains of this one.
LEMMA OthersStandStill ==
    ASSUME TypeOK, NEW q \in Ops, NEW o \in Ops, q # o, Step(q) \/ Crash(q)
    PROVE  pc'[o] = pc[o] /\ retries'[o] = retries[o] /\ repaired'[o] = repaired[o]
  <1>1. /\ pc \in [Ops -> {"fetch", "apply", "push", "confirm", "settle", "recheck", "done"}]
        /\ retries \in [Ops -> 0..MaxRetries] /\ repaired \in [Ops -> BOOLEAN]
    BY DEF TypeOK
  <1>2. ASSUME \/ \E result : Return(q, result)
               \/ \E label : Proceed(q, label)
               \/ Retry(q)
        PROVE  pc'[o] = pc[o] /\ retries'[o] = retries[o] /\ repaired'[o] = repaired[o]
    BY <1>1, <1>2 DEF Return, Proceed, Retry, Goto, Forget
  <1>3. CASE FetchFails(q) \/ FindOwnCommit(q) \/ Refuse(q) \/ Push(q) \/ PushSucceeds(q)
    BY <1>2, <1>3 DEF FetchFails, FindOwnCommit, Refuse, Push, PushSucceeds
  <1>4. CASE PushConflicts(q) \/ PushRejected(q) \/ PushOffline(q) \/ PushTimesOut(q)
    BY <1>2, <1>4 DEF PushConflicts, PushRejected, PushOffline, PushTimesOut
  <1>5. CASE Confirm(q) \/ Reconcile(q)
    BY <1>2, <1>5 DEF Confirm, Reconcile
  <1>6. CASE Fetch(q) \/ StoreFails(q) \/ Crash(q)
    BY <1>1, <1>2, <1>6 DEF Fetch, StoreFails, Crash, Goto, Forget
  <1> QED
    BY <1>3, <1>4, <1>5, <1>6 DEF Step

\* With RemainingBounds: whatever the remote does, a call is over after six steps
\* for each attempt it may make, and one repair.  This is what Terminates rests
\* on beside the fairness of a call's own steps.
THEOREM CallsCountDownHolds == Spec => CallsCountDown
  <1> DEFINE Down(o) == /\ Remaining(o)' <= Remaining(o)
                        /\ Step(o) \/ Crash(o) => Remaining(o)' < Remaining(o)
  <1>1. TypeOK => \A o \in Ops : Remaining(o) \in 0..6 * (MaxRetries + 2)
    BY RemainingBounds
  <1>2. TypeOK' => \A o \in Ops : Remaining(o)' \in 0..6 * (MaxRetries + 2)
    <2>1. (TypeOK => \A o \in Ops : Remaining(o) \in 0..6 * (MaxRetries + 2))'
      BY <1>1, PTL
    <2> QED
      BY <2>1
  <1>3. TypeOK /\ TypeOK' /\ [Next]_vars => [\A o \in Ops : Down(o)]_vars
    <2> SUFFICES ASSUME TypeOK, TypeOK', Next, NEW o \in Ops
                 PROVE  Down(o)
      OBVIOUS
    <2>1. Remaining(o) \in Nat /\ Remaining(o)' \in Nat
      BY <1>1, <1>2, RetryAssumption
    <2>2. CASE Step(o) \/ Crash(o)
      BY <2>1, <2>2, StepCountsDown
    <2>3. CASE ~(Step(o) \/ Crash(o))
      <3>1. pc'[o] = pc[o] /\ retries'[o] = retries[o] /\ repaired'[o] = repaired[o]
        <4>1. ASSUME NEW q \in Ops, Step(q) \/ Crash(q)
              PROVE  pc'[o] = pc[o] /\ retries'[o] = retries[o] /\ repaired'[o] = repaired[o]
          BY <2>3, <4>1, OthersStandStill
        <4>2. ASSUME NEW q \in Ops, RemoteAccepts(q)
              PROVE  UNCHANGED callVars
          BY <4>2 DEF RemoteAccepts
        <4> QED
          BY <4>1, <4>2 DEF Next, vars, callVars
      <3>2. Remaining(o)' = Remaining(o)
        BY <3>1 DEF Remaining, Repairs
      <3> QED
        BY <2>1, <2>3, <3>2
    <2> QED
      BY <2>2, <2>3
  <1> QED
    BY <1>3, PublicationTypes, PTL DEF Spec, CallsCountDown
=============================================================================
