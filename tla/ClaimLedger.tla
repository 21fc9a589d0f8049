---------------------------- MODULE ClaimLedger ----------------------------
(***************************************************************************)
(* What the tracker promises about claims (README.md, "Concepts"): a       *)
(* ledger of leases.  An item is leased to one worker, and at most one     *)
(* process image holds the key of the lease.  While a lease runs, only the *)
(* image with the key extends it, gives the item back or closes it; anyone *)
(* may lease the item anew, which makes the old key worthless.  A closed   *)
(* item is never leased again.                                             *)
(***************************************************************************)
CONSTANTS
    Items,  \* task IDs
    Images, \* process images
    Actor,  \* the worker each image runs as
    None    \* no lease

VARIABLES
    lease,  \* the worker each item is leased to and whether the lease runs, or None
    key,    \* the images holding the key of each item's lease
    closed  \* the items that are done or dropped

Init ==
    /\ lease = [i \in Items |-> None]
    /\ key = [i \in Items |-> {}]
    /\ closed = {}

Running(i) == lease[i] # None /\ lease[i].running

Cleared(S) ==
    /\ lease' = [i \in Items |-> IF i \in S THEN None ELSE lease[i]]
    /\ key' = [i \in Items |-> IF i \in S THEN {} ELSE key[i]]

\* A new lease, whose key reaches the image that asked, or nobody.
Grant(p, i) ==
    /\ i \notin closed
    /\ lease' = [lease EXCEPT ![i] = [worker |-> Actor[p], running |-> TRUE]]
    /\ \E keepers \in {{p}, {}} : key' = [key EXCEPT ![i] = keepers]
    /\ UNCHANGED closed

Extend(p, i) ==
    /\ p \in key[i]
    /\ lease' = [lease EXCEPT ![i].running = TRUE]
    /\ UNCHANGED <<key, closed>>

Return(p, i) ==
    /\ p \in key[i]
    /\ Cleared({i})
    /\ UNCHANGED closed

Close(p, i) ==
    /\ i \notin closed
    /\ Running(i) => p \in key[i]
    /\ Cleared({i})
    /\ closed' = closed \cup {i}

\* Leases that no longer run are withdrawn together.
Withdraw(S) ==
    /\ \A i \in S : ~Running(i)
    /\ Cleared(S)
    /\ UNCHANGED closed

Lapse(S) ==
    /\ lease' = [i \in Items |->
                   IF i \in S /\ Running(i)
                   THEN [worker |-> lease[i].worker, running |-> FALSE] ELSE lease[i]]
    /\ UNCHANGED <<key, closed>>

\* An image ends, and its keys with it.
Forget(p) ==
    /\ key' = [i \in Items |-> key[i] \ {p}]
    /\ UNCHANGED <<lease, closed>>

Next ==
    \/ \E p \in Images, i \in Items :
          Grant(p, i) \/ Extend(p, i) \/ Return(p, i) \/ Close(p, i)
    \/ \E S \in SUBSET Items : Withdraw(S) \/ Lapse(S)
    \/ \E p \in Images : Forget(p)

Spec == Init /\ [][Next]_<<lease, key, closed>>
=============================================================================
