------------------------------- MODULE MCPosix -------------------------------
(* The intercepted application for TLC. *)
EXTENDS Intercept

(* Two neighbouring records that fill the cache together, and one write    *)
(* that is a label of its own.                                             *)
RecordExtents == {<<0, 1>>, <<1, 1>>, <<0, 2>>}

(* Writes at one offset of two lengths, both small. *)
NestedExtents == {<<0, 1>>, <<0, 2>>}

WholeFile == {<<0, 2>>}
OneByte == {<<1, 1>>}
=============================================================================
