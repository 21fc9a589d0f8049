------------------------------ MODULE MCClaims ------------------------------
(* Ordinary tasks without batches: claims, expiry, holds and deferrals. *)
EXTENDS Tracker, TLC

CONSTANTS t1, t2, p1, p2, q1, w, v

ByID == [i \in Items |-> IF i = t1 THEN 1 ELSE 2]
\* Two images of one worker and one of another.
MCActor == (p1 :> w) @@ (p2 :> w) @@ (q1 :> v)
\* Nothing tells the two images of w apart.
ImageSymmetry == Permutations({p1, p2})
MCScope == [i \in Items |-> {}]
NoSuccessors == [i \in Items |-> [n \in 1..MaxRows |-> None]]
DerivedSuccessors ==
    [i \in Items |-> [n \in 1..MaxRows |-> IF i = t1 /\ n = 1 THEN t2 ELSE None]]
NeedInputs == {S \in SUBSET Items : Cardinality(S) <= 1}
NoMembers == {}
NoLegacy == [d \in Batches |-> {}]
=============================================================================
