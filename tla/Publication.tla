----------------------------- MODULE Publication -----------------------------
(***************************************************************************)
(* git_backend.mutate: one call per operation fetches the accepted tip,    *)
(* applies its operation to that snapshot, commits on it and pushes.  The  *)
(* remote accepts a push only on the tip it was built on.  Replies may be  *)
(* lost, misread or late, the local store may break and be rebuilt once,   *)
(* and callers may crash.  A definition whose comment starts with "Fault"  *)
(* is no part of the model: it is a bug that a property must catch.        *)
(***************************************************************************)
EXTENDS Naturals, FiniteSets, Sequences

CONSTANTS
    Ops,         \* operation IDs, one mutate call each
    MaxRetries,  \* competing pushes a call tolerates
    LostKinds,   \* failures that may be reported of a push that landed
    LateKinds    \* failures after which the push may still land

ASSUME OpsAssumption == IsFiniteSet(Ops)
ASSUME RetryAssumption == MaxRetries \in Nat
ASSUME KindAssumption ==
    /\ LostKinds \subseteq {"conflict", "offline", "rejected", "timeout"}
    /\ LateKinds \subseteq {"offline", "timeout"}

VARIABLES
    branch,   \* remote history: the operation each accepted commit carries
    inFlight, \* tips on which pushes the remote has not decided are built
    pc,       \* where each call is
    base,     \* the tip each call last fetched, as a length of branch
    retries,  \* attempts lost to competing pushes
    repaired, \* the call has rebuilt the local store
    outcome   \* what the call returned

remoteVars == <<branch, inFlight>>
callVars == <<pc, base, retries, repaired, outcome>>
vars == <<remoteVars, callVars>>

Outcomes == {"none", "applied", "noop", "conflict", "error", "offline", "unknown"}

TypeOK ==
    /\ branch \in Seq(Ops)
    /\ inFlight \in [Ops -> SUBSET Nat]
    /\ pc \in [Ops -> {"fetch", "apply", "push", "confirm", "settle", "recheck", "done"}]
    /\ base \in [Ops -> Nat]
    /\ retries \in [Ops -> 0..MaxRetries]
    /\ repaired \in [Ops -> BOOLEAN]
    /\ outcome \in [Ops -> Outcomes]

Init ==
    /\ branch = <<>>
    /\ inFlight = [o \in Ops |-> {}]
    /\ pc = [o \in Ops |-> "fetch"]
    /\ base = [o \in Ops |-> 0]
    /\ retries = [o \in Ops |-> 0]
    /\ repaired = [o \in Ops |-> FALSE]
    /\ outcome = [o \in Ops |-> "none"]

Landed(o) == \E n \in DOMAIN branch : branch[n] = o

-----------------------------------------------------------------------------
\* Steps of a call

Goto(o, label) == pc' = [pc EXCEPT ![o] = label]

\* What a call knew is gone with it.
Forget(o) ==
    /\ base' = [base EXCEPT ![o] = 0]
    /\ retries' = [retries EXCEPT ![o] = 0]
    /\ repaired' = [repaired EXCEPT ![o] = FALSE]

Return(o, result) ==
    /\ Goto(o, "done")
    /\ outcome' = [outcome EXCEPT ![o] = result]
    /\ Forget(o)

Proceed(o, label) ==
    /\ Goto(o, label)
    /\ UNCHANGED <<base, retries, repaired, outcome>>

\* Fault: one retry too many.
RetryOnceMore(o) ==
    IF retries[o] > MaxRetries
    THEN Return(o, "conflict")
    ELSE /\ Goto(o, "fetch")
         /\ retries' = [retries EXCEPT ![o] = @ + 1]
         /\ UNCHANGED <<base, repaired, outcome>>

\* Fault: retries are not counted.
RetryForever(o) == Proceed(o, "fetch")

\* A competing push won: start over, up to max_retries times.
Retry(o) ==
    IF retries[o] = MaxRetries
    THEN Return(o, "conflict")
    ELSE /\ Goto(o, "fetch")
         /\ retries' = [retries EXCEPT ![o] = @ + 1]
         /\ UNCHANGED <<base, repaired, outcome>>

\* The fetch fails or times out.
FetchFails(o) ==
    /\ pc[o] = "fetch"
    /\ Return(o, "offline")
    /\ UNCHANGED remoteVars

\* _find_op_commit: an earlier attempt of this call is on the branch already.
FindOwnCommit(o) ==
    /\ pc[o] = "fetch"
    /\ Landed(o)
    /\ Return(o, "applied")
    /\ UNCHANGED remoteVars

\* Fault: the fetched history is not searched for the call's own commit.
FetchBlind(o) ==
    /\ pc[o] = "fetch"
    /\ base' = [base EXCEPT ![o] = Len(branch)]
    /\ Goto(o, "apply")
    /\ UNCHANGED <<retries, repaired, outcome, remoteVars>>

\* The tip is fetched and its snapshot loaded.
Fetch(o) ==
    /\ pc[o] = "fetch"
    /\ ~Landed(o)
    /\ base' = [base EXCEPT ![o] = Len(branch)]
    /\ Goto(o, "apply")
    /\ UNCHANGED <<retries, repaired, outcome, remoteVars>>

\* The operation is refused at this snapshot (conflict or error), changes
\* nothing (error), or finds itself done before (no write).
Refuse(o) ==
    /\ pc[o] = "apply"
    /\ \E result \in {"conflict", "error", "noop"} : Return(o, result)
    /\ UNCHANGED remoteVars

\* StoreError before anything is pushed: rebuild the store once, start over.
\* A local command that times out, or a branch that is gone, ends the call.
StoreFails(o) ==
    /\ pc[o] \in {"fetch", "apply"}
    /\ \/ Return(o, "error")
       \/ /\ ~repaired[o]
          /\ repaired' = [repaired EXCEPT ![o] = TRUE]
          /\ Goto(o, "fetch")
          /\ UNCHANGED <<base, retries, outcome>>
    /\ UNCHANGED remoteVars

\* The commit is built on the fetched tip and its push is sent.
Push(o) ==
    /\ pc[o] = "apply"
    /\ inFlight' = [inFlight EXCEPT ![o] = @ \cup {base[o]}]
    /\ Proceed(o, "push")
    /\ UNCHANGED branch

\* git push exits 0.
PushSucceeds(o) ==
    /\ pc[o] = "push"
    /\ Landed(o)
    /\ Proceed(o, "confirm")
    /\ UNCHANGED remoteVars

\* Whether the push may be reported as a failure of this kind: it did not
\* land, or replies of this kind can be wrong; if undecided, it is dropped
\* unless it can still land after such a reply.
FailureReported(o, kind) ==
    /\ pc[o] = "push"
    /\ Landed(o) => kind \in LostKinds
    /\ inFlight' = IF kind \in LateKinds THEN inFlight
                   ELSE [inFlight EXCEPT ![o] = {}]
    /\ UNCHANGED branch

\* git push fails or times out; _classify_remote_failure reads its stderr.
PushConflicts(o) == FailureReported(o, "conflict") /\ Retry(o)
PushRejected(o) == FailureReported(o, "rejected") /\ Return(o, "error")
PushOffline(o) == FailureReported(o, "offline") /\ Proceed(o, "recheck")
PushTimesOut(o) == FailureReported(o, "timeout") /\ Proceed(o, "settle")

\* ls_remote_tip after a push that succeeded: the tip is this commit, or the
\* call falls back to reconciling.
Confirm(o) ==
    /\ pc[o] = "confirm"
    /\ \/ branch[Len(branch)] = o /\ Return(o, "applied")
       \/ Proceed(o, "settle")
    /\ UNCHANGED remoteVars

\* Fault: no answer is taken for success.
ReconcileOptimistic(o) ==
    /\ pc[o] \in {"settle", "recheck"}
    /\ Return(o, "applied")
    /\ UNCHANGED remoteVars

\* Fault: absence is taken for failure.
ReconcileAsFailed(o) ==
    /\ pc[o] \in {"settle", "recheck"}
    /\ \/ Landed(o) /\ Return(o, "applied")
       \/ ~Landed(o) /\ Return(o, "error")
    /\ UNCHANGED remoteVars

\* Fault: absence after a push that timed out starts the call over, too.
ReconcileRetrying(o) ==
    /\ pc[o] \in {"settle", "recheck"}
    /\ \/ Landed(o) /\ Return(o, "applied")
       \/ Return(o, "unknown")
       \/ ~Landed(o) /\ Retry(o)
    /\ UNCHANGED remoteVars

\* _reconcile: look the operation up on the branch.  An unreachable remote
\* leaves the outcome unknown; absence does so too, except after a failure
\* that reads as offline, where the call starts over.
Reconcile(o) ==
    /\ pc[o] \in {"settle", "recheck"}
    /\ \/ Landed(o) /\ Return(o, "applied")
       \/ Return(o, "unknown")
       \/ pc[o] = "recheck" /\ ~Landed(o) /\ Retry(o)
    /\ UNCHANGED remoteVars

\* The process dies; whatever it sent may still arrive.
Crash(o) ==
    /\ pc[o] # "done"
    /\ Goto(o, "done")
    /\ Forget(o)
    /\ UNCHANGED <<outcome, remoteVars>>

Step(o) ==
    \/ FetchFails(o)
    \/ FindOwnCommit(o)
    \/ Fetch(o)
    \/ Refuse(o)
    \/ StoreFails(o)
    \/ Push(o)
    \/ PushSucceeds(o)
    \/ PushConflicts(o)
    \/ PushRejected(o)
    \/ PushOffline(o)
    \/ PushTimesOut(o)
    \/ Confirm(o)
    \/ Reconcile(o)

-----------------------------------------------------------------------------
\* The remote

\* A push is accepted only on the tip it was built on: a fast-forward.
RemoteAccepts(o) ==
    /\ Len(branch) \in inFlight[o]
    /\ branch' = Append(branch, o)
    /\ inFlight' = [inFlight EXCEPT ![o] = @ \ {Len(branch)}]
    /\ UNCHANGED callVars

Done == \A o \in Ops : pc[o] = "done"

Next ==
    \/ \E o \in Ops : Step(o) \/ Crash(o) \/ RemoteAccepts(o)
    \/ Done /\ UNCHANGED vars

\* Every Git command of a call runs under a timeout, so a call that can move
\* does; nothing is assumed of the remote.
Fairness == \A o \in Ops : WF_vars(Step(o))

Spec == Init /\ [][Next]_vars /\ Fairness

-----------------------------------------------------------------------------
\* Properties

\* An operation is on the branch at most once, whatever was lost or late.
AtMostOnce ==
    \A m, n \in DOMAIN branch : branch[m] = branch[n] => m = n

\* A caller is told "applied" only of an operation the remote accepted.
AppliedIsAccepted == \A o \in Ops : outcome[o] = "applied" => Landed(o)

\* Every call returns: retries and repairs are bounded.
Terminates == \A o \in Ops : <>(pc[o] = "done")

\* The answer of AtomicBranch each outcome amounts to.
AnswerOf(result) ==
    CASE result \in {"conflict", "error", "offline"} -> "failed"
      [] OTHER -> result

Abstract == INSTANCE AtomicBranch WITH
    history <- branch,
    answer <- [o \in Ops |-> AnswerOf(outcome[o])]

\* Publication implements the atomic branch.
RefinesAtomicBranch == Abstract!Spec

\* "A lost reply reconciles by operation ID without duplicating the change; an
\* undetermined outcome is reported as unknown/retryable" (README.md): no call
\* reports a failure of an operation that was accepted.
FailuresAreDefinite ==
    \A o \in Ops : outcome[o] \in {"conflict", "error", "offline"} => ~Landed(o)
=============================================================================
