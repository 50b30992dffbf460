------------------------------ MODULE Shuffler ------------------------------
(***************************************************************************)
(* The dispatcher's shuffler (src/src/labios/shuffler.cpp): aggregation of *)
(* consecutive writes, dependency detection and supertask formation over   *)
(* one batch of labels.                                                    *)
(*                                                                         *)
(* A label is known by its id; r[i] is the label behind id i, a record     *)
(* with its type, its file_key, its app_id and the byte range it touches   *)
(* (off, len).  What aggregate() returns is a set of UNITS: a unit is the  *)
(* set of ids of the labels merged into it, a singleton for a label left   *)
(* as it was.  A supertask is the set of the units it executes.  The code  *)
(* keeps these collections in vectors and hash maps; the order of the      *)
(* elements of one collection carries no meaning there, except for the     *)
(* children of a supertask, which run in increasing order of UnitId.       *)
(***************************************************************************)
EXTENDS Integers, FiniteSets

CONSTANTS
    AggregationEnabled,   \* ShufflerConfig::aggregation_enabled
    DepGranularity        \* ShufflerConfig::dep_granularity

ASSUME ShufflerConfigAssumption ==
    /\ AggregationEnabled \in BOOLEAN
    /\ DepGranularity \in {"per-file", "per-application"}

-----------------------------------------------------------------------------
(* Ranges *)

End(a) == a.off + a.len

\* Seeded fault: ranges are compared by their offsets alone.
RangesOverlapSameStart(a, b) == a.len # 0 /\ b.len # 0 /\ a.off = b.off

RangesOverlap(a, b) ==
    /\ a.len # 0
    /\ b.len # 0
    /\ a.off < End(b)
    /\ b.off < End(a)

-----------------------------------------------------------------------------
(* aggregate() *)

\* The order std::sort leaves the writes of one file in: by offset, writes at
\* one offset in the order they arrived in (libstdc++ sorts up to 16 elements by
\* insertion; a longer batch may swap writes at one offset).
Precedes(r, i, j) ==
    \/ r[i].off < r[j].off
    \/ r[i].off = r[j].off /\ i < j

\* Seeded fault: a write that starts inside its predecessor is merged too.
ConsecutiveOrInside(r, W, i, j) ==
    /\ Precedes(r, i, j)
    /\ ~\E k \in W : Precedes(r, i, k) /\ Precedes(r, k, j)
    /\ r[j].off <= End(r[i])

\* j comes right after i among the sorted writes W and continues its bytes.
Consecutive(r, W, i, j) ==
    /\ Precedes(r, i, j)
    /\ ~\E k \in W : Precedes(r, i, k) /\ Precedes(r, k, j)
    /\ r[j].off = End(r[i])

\* The maximal run of consecutive writes that starts at h.
RunFrom(r, W, h) ==
    {j \in W : /\ ~Precedes(r, j, h)
               /\ \A k \in W : Precedes(r, h, k) /\ ~Precedes(r, j, k)
                               => \E i \in W : Consecutive(r, W, i, k)}

\* Seeded fault: the scan restarts at the next write instead of behind the run.
MergeRunsRescan(r, W) == {RunFrom(r, W, h) : h \in W}

MergeRuns(r, W) ==
    {RunFrom(r, W, h) : h \in {x \in W : ~\E i \in W : Consecutive(r, W, i, x)}}

Aggregate(r, batch) ==
    LET writes(f) == {l \in batch : r[l].type = "Write" /\ r[l].file = f}
    IN  IF AggregationEnabled
        THEN {{l} : l \in {x \in batch : r[x].type # "Write"}}
               \cup UNION {MergeRuns(r, writes(f)) : f \in {r[l].file : l \in batch}}
        ELSE {{l} : l \in batch}

\* A merged label takes the id, and everything else that is not summed over
\* the run, from the first write of the run.
UnitId(r, u) == CHOOSE i \in u : \A j \in u \ {i} : Precedes(r, i, j)

UnitEnd(r, u) == End(r[CHOOSE i \in u : \A j \in u \ {i} : Precedes(r, j, i)])

UnitType(r, u) == r[UnitId(r, u)].type

UnitFile(r, u) == r[UnitId(r, u)].file

UnitRange(r, u) ==
    LET start == r[UnitId(r, u)].off
    IN  [off |-> start, len |-> UnitEnd(r, u) - start]

-----------------------------------------------------------------------------
(* detect_dependencies() and build_supertasks() *)

GroupKey(r, u) ==
    IF DepGranularity = "per-application"
    THEN r[UnitId(r, u)].app
    ELSE UnitFile(r, u)

\* Seeded fault: pairs are compared across groups.
ConflictAcrossGroups(r, u, v) ==
    /\ u # v
    /\ RangesOverlap(UnitRange(r, u), UnitRange(r, v))
    /\ ~(UnitType(r, u) = "Read" /\ UnitType(r, v) = "Read")

\* Two units of one group conflict; the one with the larger id is then made to
\* depend on the other (RAW, WAW or WAR).
Conflict(r, u, v) ==
    /\ u # v
    /\ GroupKey(r, u) = GroupKey(r, v)
    /\ RangesOverlap(UnitRange(r, u), UnitRange(r, v))
    /\ ~(UnitType(r, u) = "Read" /\ UnitType(r, v) = "Read")

Involved(r, units) == {u \in units : \E v \in units : Conflict(r, u, v)}

\* One supertask per group key, of every involved unit of that group.
BuildSupertasks(r, units) ==
    LET inv == Involved(r, units)
    IN  {{u \in inv : GroupKey(r, u) = k} : k \in {GroupKey(r, v) : v \in inv}}

\* Seeded fault: the children are sorted the other way round.
LastChild(r, units) ==
    CHOOSE u \in units : \A v \in units : UnitId(r, v) <= UnitId(r, u)

\* The child a worker executes first: children are sorted by id.
FirstChild(r, units) ==
    CHOOSE u \in units : \A v \in units : UnitId(r, u) <= UnitId(r, v)

\* The composite label takes the id of its first child.
CompositeId(r, units) == UnitId(r, FirstChild(r, units))
=============================================================================
