----------------------------- MODULE MCLabelFlow -----------------------------
(* Instances of LabelFlow for TLC. *)
EXTENDS LabelFlow

Req(t, o) == [type |-> t, file |-> CHOOSE f \in Files : TRUE, app |-> 1, off |-> o, len |-> 1]

\* Writes and reads of two adjacent bytes: merges, conflicts and free labels.
ByteRequests == {Req(t, o) : t \in {"Write", "Read"}, o \in {0, 1}}

\* One conflict, one merge, and the types that bypass shuffler or execution.
MixedRequests == {Req("Write", 0), Req("Write", 1), Req("Read", 0),
                  Req("Delete", 0), Req("Observe", 0)}

\* Enough for supertasks of three children, direct reads and free writes.
LiveRequests == {Req("Write", 0), Req("Write", 1), Req("Read", 0)}
=============================================================================
