------------------------------- MODULE MCBatch -------------------------------
(* Tasks enrolled in batches: preparation, integration, closeout, recovery *)
(* and abort, with one or two batches and the schema cutover.              *)
EXTENDS Tracker, TLC

CONSTANTS t1, t2, p, q, w, v, x, B, C, D

ByID == [i \in Items |-> IF i = t1 THEN 1 ELSE 2]
MCActor == [r \in Procs |-> IF r = p THEN w ELSE v]
\* Neither the two leaders, each with its worker, nor two batch IDs nobody has
\* used can be told apart.
Alike == Permutations({C, D}) \cup {(p :> q) @@ (q :> p) @@ (w :> v) @@ (v :> w)}
\* Every member may touch every path, so receipts and fixes can overlap.
SharedScope == [i \in Items |-> Paths]
NoSuccessors == [i \in Items |-> [n \in 1..MaxRows |-> None]]
\* Edges point from t2 to t1, as they must in some order of an acyclic graph.
ChainNeeds == {{}, {t1}}
NoNeeds == {{}}
\* A batch one of whose members builds on the other is followed for three log
\* entries, one of independent members for as many as MaxLog allows.
Short == \A b \in Batches :
    Registered(b) /\ (\E i \in Items : needs[i] # {}) => Len(batches[b].log) <= 3
AllMembers == {Items}
TailOrAll == {{t2}, Items}
LegacyB == [d \in Batches |-> IF d = B THEN {t1} ELSE {}]
NoLegacy == [d \in Batches |-> {}]
=============================================================================
