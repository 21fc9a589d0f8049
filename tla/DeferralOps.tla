----------------------------- MODULE DeferralOps -----------------------------
(***************************************************************************)
(* The deferral log of an item: rows recorded while the item is live, each *)
(* resolved once, by a successor item or by dismissal.  No credentials are *)
(* asked for.                                                              *)
(***************************************************************************)
EXTENDS ItemOps

\* Fault: work may be deferred on a closed item.
DeferAnytime(i) ==
    /\ Present(i)
    /\ Len(deferrals[i]) < MaxRows
    /\ deferrals' = [deferrals EXCEPT ![i] =
                        Append(@, [resolution |-> "open", target |-> None])]
    /\ UNCHANGED <<status, needs, claim, holders, hold, meta, proofVars, batchVars>>

\* op_defer.  Rows are never removed, so the next id is the next position.
Defer(i) ==
    /\ status[i] \in Live
    /\ Len(deferrals[i]) < MaxRows
    /\ deferrals' = [deferrals EXCEPT ![i] =
                        Append(@, [resolution |-> "open", target |-> None])]
    /\ UNCHANGED <<status, needs, claim, holders, hold, meta, proofVars, batchVars>>

Promoted(i, n, j) ==
    deferrals' = [deferrals EXCEPT ![i][n] = [resolution |-> "promoted", target |-> j]]

\* Fault: the target need not exist.
PromoteToUnknown(i, n, j) ==
    /\ Present(i)
    /\ n \in OpenRows(i)
    /\ j # i
    /\ Promoted(i, n, j)
    /\ UNCHANGED <<status, needs, claim, holders, hold, meta, proofVars, batchVars>>

\* op_promote_deferral with to_item: link an existing item.
PromoteLink(i, n, j) ==
    /\ Present(i)
    /\ n \in OpenRows(i)
    /\ Present(j)
    /\ j # i
    /\ Promoted(i, n, j)
    /\ UNCHANGED <<status, needs, claim, holders, hold, meta, proofVars, batchVars>>

\* op_promote_deferral without to_item: create the successor and resolve the
\* row in one snapshot change.
PromoteCreate(i, n, j) ==
    /\ Present(i)
    /\ n \in OpenRows(i)
    /\ j = Successor[i][n]
    /\ \E nd \in NeedSets, h \in 0..MaxHold : \E mt \in MetaInputs(nd) :
          CreateItem(j, nd, h, mt)
    /\ Promoted(i, n, j)
    /\ UNCHANGED <<claim, holders, proofVars, batchVars>>

\* Fault: a row that is resolved already is dismissed.
DismissAgain(i, n) ==
    /\ Present(i)
    /\ deferrals' = [deferrals EXCEPT ![i][n].resolution = "dismissed"]
    /\ UNCHANGED <<status, needs, claim, holders, hold, meta, proofVars, batchVars>>

\* op_dismiss_deferral
Dismiss(i, n) ==
    /\ Present(i)
    /\ n \in OpenRows(i)
    /\ deferrals' = [deferrals EXCEPT ![i][n].resolution = "dismissed"]
    /\ UNCHANGED <<status, needs, claim, holders, hold, meta, proofVars, batchVars>>

DeferralNext ==
    \E i \in Items :
        \/ Defer(i)
        \/ \E n \in DOMAIN deferrals[i] :
              \/ \E j \in Items : PromoteLink(i, n, j) \/ PromoteCreate(i, n, j)
              \/ Dismiss(i, n)
=============================================================================
