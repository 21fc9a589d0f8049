---------------------------- MODULE AtomicBranch ----------------------------
(***************************************************************************)
(* What publication promises a caller (README.md, "Data safety"): each     *)
(* operation enters the state branch at most once, as a whole; a caller    *)
(* told it was applied finds it there; a caller told it failed never will; *)
(* otherwise the answer says that the outcome is unknown.                  *)
(***************************************************************************)
EXTENDS Naturals, Sequences

CONSTANT Ops \* operation IDs

VARIABLES
    history, \* the operations accepted on the branch, in order
    answer   \* what the caller of each operation was told

Answers == {"none", "applied", "failed", "unknown", "noop"}

InHistory(o) == \E n \in DOMAIN history : history[n] = o

Init ==
    /\ history = <<>>
    /\ answer = [o \in Ops |-> "none"]

\* The branch accepts o once, unless its caller was told that it failed.
Land(o) ==
    /\ ~InHistory(o)
    /\ answer[o] \in {"none", "unknown"}
    /\ history' = Append(history, o)
    /\ UNCHANGED answer

\* The caller of o is told a once.  An operation that found its effect already
\* in place ("noop") never enters the branch itself.
Answer(o, a) ==
    /\ answer[o] = "none"
    /\ a = "applied" => InHistory(o)
    /\ a \in {"failed", "noop"} => ~InHistory(o)
    /\ answer' = [answer EXCEPT ![o] = a]
    /\ UNCHANGED history

Next == \E o \in Ops :
    \/ Land(o)
    \/ \E a \in Answers \ {"none"} : Answer(o, a)

Spec == Init /\ [][Next]_<<history, answer>>
=============================================================================
