--------------------------- MODULE MCShuffleBatch ---------------------------
(* ShuffleBatch on labels of two files, with empty, adjacent, overlapping and *)
(* nested ranges.                                                             *)
EXTENDS ShuffleBatch

CONSTANTS f1, f2

Lab(t, f, o, n) == [type |-> t, file |-> f, app |-> 1, off |-> o, len |-> n]

RangeLabels == {Lab(t, f1, p[1], p[2]) : t \in {"Write", "Read"},
                                         p \in {<<0, 1>>, <<0, 2>>, <<1, 1>>, <<1, 0>>, <<2, 1>>}}
                 \cup {Lab(t, f2, 0, 2) : t \in {"Write", "Read"}}
=============================================================================
