------------------------------ MODULE ClaimCalls ------------------------------
(***************************************************************************)
(* Calls of take and takeover on one item, published by git_backend.mutate *)
(* (Publication) next to operations that leave its claim alone.  Every     *)
(* attempt applies the operation anew and makes a generation of its own,   *)
(* so the commit that lands and the acknowledgement that is returned may   *)
(* be two attempts'.  A takeover pins the claim image its first attempt    *)
(* saw.  An attempt is named by the retries before it, a claim image by    *)
(* the commits that wrote the claim.                                       *)
(***************************************************************************)
EXTENDS Publication

CONSTANTS
    Takeovers,  \* the operations that take the claim over
    Bystanders, \* the operations that do not touch the claim
    None        \* no attempt

ASSUME ClaimAssumption ==
    /\ Takeovers \subseteq Ops \ Bystanders
    /\ None \notin Nat

VARIABLES
    sent,   \* pushes the remote has not decided: their attempts and tips
    landed, \* the attempt whose commit the branch accepted
    pinned, \* the claim image, if any, that the first attempt of a takeover saw
    ack     \* the attempt whose generation the caller was given

claimVars == <<sent, landed, pinned, ack>>
allVars == <<vars, claimVars>>

Attempts == 0..MaxRetries

ClaimInit ==
    /\ Init
    /\ sent = [o \in Ops |-> {}]
    /\ landed = [o \in Ops |-> None]
    /\ pinned = [o \in Ops |-> {}]
    /\ ack = [o \in Ops |-> None]

\* The claim after the first n commits, as those of them that wrote it.
Image(n) == {m \in 1..n : branch[m] \notin Bystanders}

-----------------------------------------------------------------------------
\* Steps of a call

Idle == UNCHANGED claimVars

\* Fault: a later attempt does not compare the claim with the pinned image.
PinUnchecked(o) ==
    IF o \in Takeovers /\ pinned[o] = {}
    THEN pinned' = [pinned EXCEPT ![o] = {Image(base[o])}]
    ELSE UNCHANGED pinned

\* The first attempt of a takeover pins the claim; a later one is refused if
\* it has changed.
Pin(o) ==
    IF o \in Takeovers
    THEN /\ pinned[o] \subseteq {Image(base[o])}
         /\ pinned' = [pinned EXCEPT ![o] = {Image(base[o])}]
    ELSE UNCHANGED pinned

\* The store may break before or after apply has run.
ApplyBreaks(o) ==
    /\ StoreFails(o)
    /\ \/ pc[o] = "apply" /\ Pin(o)
       \/ UNCHANGED pinned
    /\ UNCHANGED <<sent, landed, ack>>

SendClaim(o) ==
    /\ Push(o)
    /\ Pin(o)
    /\ sent' = [sent EXCEPT ![o] = @ \cup {<<retries[o], base[o]>>}]
    /\ UNCHANGED <<landed, ack>>

\* git push exits 0 only if this attempt's commit was accepted.
ClaimSent(o) ==
    /\ PushSucceeds(o)
    /\ landed[o] = retries[o]
    /\ Idle

\* The pushes that can no longer land are forgotten.
ClaimFails(o) ==
    /\ \/ PushConflicts(o)
       \/ PushRejected(o)
       \/ PushOffline(o)
       \/ PushTimesOut(o)
    /\ sent' = [sent EXCEPT ![o] = {s \in @ : s[2] \in inFlight'[o]}]
    /\ UNCHANGED <<landed, pinned, ack>>

\* Confirmed or reconciled, the call returns what its last attempt computed.
ClaimSettles(o) ==
    /\ Confirm(o) \/ Reconcile(o)
    /\ ack' = IF outcome'[o] = "applied" THEN [ack EXCEPT ![o] = retries[o]] ELSE ack
    /\ UNCHANGED <<sent, landed, pinned>>

\* A duplicate is acknowledged as such, without a generation; a refusal and an
\* operation found done have none.
ClaimEnds(o) ==
    /\ FetchFails(o) \/ FindOwnCommit(o) \/ Refuse(o)
    /\ Idle

ClaimCrashes(o) == Crash(o) /\ Idle

ClaimFetch(o) == Fetch(o) /\ Idle

\* One of the pushes built on the tip is accepted.
ClaimLands(o) ==
    /\ RemoteAccepts(o)
    /\ \E s \in sent[o] :
           /\ s[2] = Len(branch)
           /\ sent' = [sent EXCEPT ![o] = {r \in @ : r[2] \in inFlight'[o]}]
           /\ landed' = [landed EXCEPT ![o] = s[1]]
    /\ UNCHANGED <<pinned, ack>>

ClaimStep(o) ==
    \/ ClaimFetch(o)
    \/ ApplyBreaks(o)
    \/ SendClaim(o)
    \/ ClaimSent(o)
    \/ ClaimFails(o)
    \/ ClaimSettles(o)
    \/ ClaimEnds(o)

ClaimNext ==
    \/ \E o \in Ops : ClaimStep(o) \/ ClaimCrashes(o) \/ ClaimLands(o)
    \/ Done /\ UNCHANGED allVars

\* As in Publication: the Git commands of a call run under timeouts.
ClaimFairness == \A o \in Ops : WF_allVars(ClaimStep(o))

ClaimSpec == ClaimInit /\ [][ClaimNext]_allVars /\ ClaimFairness

-----------------------------------------------------------------------------
\* Properties

\* A worker that is given a generation holds the claim with it: "The token
\* proving you hold the claim; returned by `take`" (README.md).  The commit on
\* the branch is the one the acknowledgement was computed with.
AckIsLanded == \A o \in Ops : ack[o] # None => landed[o] = ack[o]

\* A takeover replaces the claim that its first attempt inspected, however many
\* commits and retries come between: no renewal or handover under retry is
\* overwritten.
TakeoverAsInspected ==
    \A o \in Takeovers, n \in DOMAIN branch :
        branch[n] = o => pinned[o] = {Image(n - 1)}
=============================================================================
