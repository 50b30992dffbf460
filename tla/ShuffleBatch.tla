---------------------------- MODULE ShuffleBatch ----------------------------
(***************************************************************************)
(* Shuffler::shuffle on one batch, phase by phase.  The labels' ids are    *)
(* their positions in the batch: ids grow with the time of publication, so *)
(* a client's earlier label has the smaller id.  Phase 4 (read locality)   *)
(* depends on the catalog and belongs to LabelFlow.                        *)
(***************************************************************************)
EXTENDS Shuffler

CONSTANTS
    BatchSize,   \* bound: labels of a batch
    Labels       \* the labels a batch is made of

ASSUME ShuffleBatchAssumption ==
    /\ BatchSize \in Nat
    /\ \A a \in Labels : a.off \in Nat /\ a.len \in Nat

VARIABLES
    r,            \* the batch: id -> label
    stage,        \* the next phase of shuffle()
    units,        \* what aggregate() returned
    supertasks,   \* what build_supertasks() returned
    independent   \* what it left behind

svars == <<r, stage, units, supertasks, independent>>

Batch == 1 .. BatchSize

ShuffleInit ==
    /\ r \in [Batch -> Labels]
    /\ stage = "aggregate"
    /\ units = {}
    /\ supertasks = {}
    /\ independent = {}

AggregatePhase ==
    /\ stage = "aggregate"
    /\ stage' = "supertasks"
    /\ units' = Aggregate(r, Batch)
    /\ UNCHANGED <<r, supertasks, independent>>

SupertaskPhase ==
    /\ stage = "supertasks"
    /\ stage' = "done"
    /\ supertasks' = BuildSupertasks(r, units)
    /\ independent' = units \ Involved(r, units)
    /\ UNCHANGED <<r, units>>

ShuffleNext == AggregatePhase \/ SupertaskPhase

ShuffleSpec == ShuffleInit /\ [][ShuffleNext]_svars

-----------------------------------------------------------------------------
Bytes(l) == r[l].off .. (End(r[l]) - 1)

\* Labels whose order matters to their clients: they share a byte of a file and
\* one of them is not a read.
Hazard(l, m) ==
    /\ r[l].file = r[m].file
    /\ Bytes(l) \cap Bytes(m) # {}
    /\ ~(r[l].type = "Read" /\ r[m].type = "Read")

UnitOf(l) == CHOOSE u \in units : l \in u

\* The worker runs u before v when both are children of one supertask.
RunsBefore(u, v) == FirstChild(r, {u, v}) = u

\* Every label of the batch is executed exactly once: it is in one unit, and
\* that unit is in one supertask or among the independent labels.
ExactlyOnce ==
    stage = "done" =>
        \A l \in Batch :
            /\ \E u \in units : l \in u
            /\ \A u, v \in units : l \in u \cap v => u = v
            /\ Cardinality({st \in supertasks : UnitOf(l) \in st})
                 + (IF UnitOf(l) \in independent THEN 1 ELSE 0) = 1

\* A merged write is made of writes of one file and its range holds the bytes of
\* each of them once, so that concatenating the staged chunks puts every byte at
\* its place.
MergeIsExact ==
    \A u \in units : Cardinality(u) > 1 =>
        LET rng == UnitRange(r, u)
        IN  /\ \A l \in u : r[l].type = "Write" /\ r[l].file = UnitFile(r, u)
            /\ \A b \in rng.off .. (End(rng) - 1) :
                  Cardinality({l \in u : b \in Bytes(l)}) = 1
            /\ \A l \in u : Bytes(l) \subseteq rng.off .. (End(rng) - 1)

\* Two labels that share a byte of a file, not both reads, end up in one unit or in
\* one supertask, merged writes included: they never race on different workers.
HazardsTogether ==
    stage = "done" /\ DepGranularity = "per-file" =>
        \A l, m \in Batch : Hazard(l, m) /\ UnitOf(l) # UnitOf(m)
            => \E st \in supertasks : {UnitOf(l), UnitOf(m)} \subseteq st

\* Labels that were not merged run in the order of their ids when they conflict.
SinglesInOrder ==
    stage = "done" =>
        \A l, m \in Batch :
            (l < m /\ Hazard(l, m) /\ UnitOf(l) = {l} /\ UnitOf(m) = {m})
            => RunsBefore({l}, {m})

\* A supertask is never made of labels that could have run in parallel: each of
\* its children conflicts with another child of it.
SupertasksNeeded ==
    \A st \in supertasks : \A u \in st : \E v \in st :
        /\ u # v
        /\ \E l \in u, m \in v : Hazard(l, m)

\* All conflicting labels run in the order of their ids, merged or not.
HazardsInOrder ==
    stage = "done" =>
        \A l, m \in Batch : (l < m /\ Hazard(l, m) /\ UnitOf(l) # UnitOf(m))
                            => RunsBefore(UnitOf(l), UnitOf(m))
=============================================================================
