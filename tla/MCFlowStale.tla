----------------------------- MODULE MCFlowStale -----------------------------
(* LabelFlowHistory on labels that all touch one byte. *)
EXTENDS LabelFlowHistory

OneByte == {[type |-> t, file |-> f, app |-> 1, off |-> 0, len |-> 1] :
              t \in {"Write", "Read"}, f \in Files}
=============================================================================
