------------------------------- MODULE MCReads -------------------------------
(* One call of this machine and one of another, and a ready queue of the   *)
(* items they close behind one that is held at first.                      *)
EXTENDS Reads

CONSTANTS o1, o2, h

InOrder ==
    [ready \in SUBSET {o1, o2, h} |-> SelectSeq(<<h, o1, o2>>, LAMBDA i : i \in ready)]

\* What follows the last page of a listing follows an error in its place too; and
\* a hold may end just before a page that is continued, to the same effect.  A
\* second try of advance_tip is followed only before a listing has begun and
\* before a call has started over.
Pending ==
    \A r \in Readers :
        /\ page[r] # NoPage => page[r].more
        /\ (\E c \in Clients : tries[c] > 0) =>
              page[r] = NoPage /\ held = Held /\ \A o \in Ops : retries[o] = 0
        /\ held = {} => page[r].more /\ page[r].rev \in {cached, reader[r].rev}
=============================================================================
