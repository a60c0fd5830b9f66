---------------------------- MODULE OldestFirst ----------------------------
(***************************************************************************)
(* What a record in flash promises, without saying where it puts things: a *)
(* record is newer than all before it and stays until it is among the       *)
(* oldest Batch, which may go at any time.                                 *)
(***************************************************************************)
EXTENDS Integers, FiniteSets

CONSTANTS Batch, Times

VARIABLE kept       \* the records: [seq, t]
vars == kept

Older(r) == {q \in kept : q.seq < r.seq}

Add(t) ==
  \E r \in kept' : /\ r.t = t /\ \A q \in kept : q.seq < r.seq
                   /\ kept' = kept \cup {r}

Forget(gone) ==
  /\ \A r \in gone : Cardinality(Older(r)) < Batch
  /\ kept' = kept \ gone

Init == kept = {}
Next == \/ \E t \in Times : Add(t)
        \/ \E gone \in SUBSET kept : Forget(gone)
Spec == Init /\ [][Next]_vars
=============================================================================
