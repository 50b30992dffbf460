------------------------- MODULE ShuffleBatchProofs -------------------------
(***************************************************************************)
(* What shuffle() makes of a batch of any size and content: every label is *)
(* executed once, a merged write puts every byte at its place, conflicting *)
(* labels end up together and in order, and nothing is serialized for      *)
(* nothing.                                                                *)
(***************************************************************************)
EXTENDS ShuffleBatch, ShufflerProofs

-----------------------------------------------------------------------------
(* The inductive invariant: what the phases have computed so far *)

Stages ==
    /\ stage \in {"aggregate", "supertasks", "done"}
    /\ units = IF stage = "aggregate" THEN {} ELSE Aggregate(r, Batch)
    /\ supertasks = IF stage = "done" THEN BuildSupertasks(r, units) ELSE {}
    /\ independent = IF stage = "done" THEN units \ Involved(r, units) ELSE {}

ShuffleInv == r \in [Batch -> Labels] /\ Stages

LEMMA ShuffleInvInit == ShuffleInit => ShuffleInv
BY DEF ShuffleInit, ShuffleInv, Stages

LEMMA ShuffleInvNext == ShuffleInv /\ [ShuffleNext]_svars => ShuffleInv'
<1> SUFFICES ASSUME ShuffleInv, [ShuffleNext]_svars PROVE ShuffleInv'
    OBVIOUS
<1> USE DEF ShuffleInv, Stages, Batch
<1>1. CASE AggregatePhase
    BY <1>1 DEF AggregatePhase
<1>2. CASE SupertaskPhase
    BY <1>2 DEF SupertaskPhase
<1>3. CASE UNCHANGED svars
    BY <1>3 DEF svars
<1> QED BY <1>1, <1>2, <1>3 DEF ShuffleNext

\* The phases of shuffle() compute what the functions say.
THEOREM ShuffleInvariant == ShuffleSpec => []ShuffleInv
BY ShuffleInvInit, ShuffleInvNext, PTL DEF ShuffleSpec

\* A batch is finite and its ranges are ranges of natural numbers.
LEMMA BatchRanged ==
    ASSUME r \in [Batch -> Labels]
    PROVE  Ranged(r, Batch)
<1>1. IsFiniteSet(Batch) /\ Batch \subseteq Nat
    BY FS_Interval, ShuffleBatchAssumption DEF Batch
<1> QED BY <1>1, ShuffleBatchAssumption DEF Ranged

-----------------------------------------------------------------------------
(* Every label is executed once *)

\* Once the batch is aggregated, a label has a unit.
LEMMA UnitOfLabel ==
    ASSUME ShuffleInv, stage = "done", NEW l \in Batch
    PROVE  /\ UnitOf(l) \in units /\ l \in UnitOf(l)
           /\ \A u \in units : l \in u => u = UnitOf(l)
<1>1. Ranged(r, Batch) /\ units = Aggregate(r, Batch)
    BY BatchRanged DEF ShuffleInv, Stages
<1>2. \E u \in units : l \in u
    BY <1>1, UnitsCover
<1>3. UnitOf(l) \in units /\ l \in UnitOf(l)
    BY <1>2 DEF UnitOf
<1>4. ASSUME NEW u \in units, l \in u PROVE u = UnitOf(l)
    <2>1. u \cap UnitOf(l) # {}
        BY <1>3, <1>4
    <2> QED BY <1>1, <1>3, <2>1, UnitsDisjoint
<1> QED BY <1>3, <1>4

\* Every label of a batch is in one unit, and that unit is executed once: in one
\* supertask or on its own.
THEOREM ExecutedOnce == ShuffleSpec => []ExactlyOnce
<1>1. ASSUME ShuffleInv PROVE ExactlyOnce
    <2> SUFFICES ASSUME stage = "done", NEW l \in Batch
                 PROVE  /\ \E u \in units : l \in u
                        /\ \A u, v \in units : l \in u \cap v => u = v
                        /\ Cardinality({st \in supertasks : UnitOf(l) \in st})
                             + (IF UnitOf(l) \in independent THEN 1 ELSE 0) = 1
        BY DEF ExactlyOnce
    <2> DEFINE x == UnitOf(l)
               inv == Involved(r, units)
               T == {st \in supertasks : x \in st}
    <2>1. x \in units /\ l \in x /\ \A u \in units : l \in u => u = x
        BY <1>1, UnitOfLabel
    <2>2. supertasks = BuildSupertasks(r, units) /\ independent = units \ inv
        BY <1>1 DEF ShuffleInv, Stages
    <2> HIDE DEF x, inv
    <2>3. CASE x \in inv
        <3>1. PICK st \in BuildSupertasks(r, units) : x \in st
            BY <2>3, SupertaskOf DEF inv
        <3>2. \A s \in T : s = st
            BY <2>2, <3>1, SupertasksDisjoint
        <3>3. T = {st}
            BY <2>2, <3>1, <3>2
        <3>4. Cardinality(T) = 1
            BY <3>3, FS_Singleton
        <3> QED BY <2>1, <2>2, <2>3, <3>4 DEF x
    <2>4. CASE x \notin inv
        <3>1. T = {}
            BY <2>2, <2>4, SupertasksDisjoint DEF inv
        <3>2. Cardinality(T) = 0
            BY <3>1, FS_EmptySet
        <3> QED BY <2>1, <2>2, <2>4, <3>2 DEF x
    <2> QED BY <2>3, <2>4
<1> QED BY <1>1, ShuffleInvariant, PTL

-----------------------------------------------------------------------------
(* A merged write puts every byte at its place *)

\* A unit of more than one label is made of writes of one file, and its range
\* holds the bytes of each of them, every byte once.
THEOREM MergedWritesAreExact == ShuffleSpec => []MergeIsExact
<1>1. ASSUME ShuffleInv PROVE MergeIsExact
    <2> SUFFICES ASSUME NEW u \in units, Cardinality(u) > 1
                 PROVE  /\ \A l \in u : r[l].type = "Write" /\ r[l].file = UnitFile(r, u)
                        /\ \A b \in UnitRange(r, u).off .. (End(UnitRange(r, u)) - 1) :
                              Cardinality({l \in u : b \in Bytes(l)}) = 1
                        /\ \A l \in u : Bytes(l) \subseteq
                              UnitRange(r, u).off .. (End(UnitRange(r, u)) - 1)
        BY DEF MergeIsExact
    <2>1. Ranged(r, Batch) /\ u \in Aggregate(r, Batch)
        BY <1>1, BatchRanged DEF ShuffleInv, Stages
    <2>2. u \subseteq Batch /\ u # {} /\ Ranged(r, u)
        BY <2>1, UnitsWithin, RangedPart
    <2>3. ASSUME NEW l \in u PROVE \E m \in u : m # l
        <3> SUFFICES ASSUME u = {l} PROVE FALSE
            OBVIOUS
        <3> QED BY FS_Singleton
    <2>4. \A l \in u : r[l].type = "Write" /\ r[l].file = UnitFile(r, u)
        BY <2>1, <2>3, UnitsWithin, UnitAlike
    <2>5. \A l \in u : l \in Nat /\ r[l].off \in Nat /\ r[l].len \in Nat
        BY <2>2 DEF Ranged
    <2> DEFINE start == r[UnitId(r, u)].off
               end == UnitEnd(r, u)
    <2>6. /\ UnitRange(r, u).off = start /\ start \in Nat
          /\ End(UnitRange(r, u)) = end /\ end \in Nat
        BY <2>1, UnitSpan DEF End
    <2>7. /\ \A l \in u : start <= r[l].off /\ End(r[l]) <= end
          /\ \A b \in Nat : start <= b /\ b < end =>
                /\ \E l \in u : HasByte(r[l], b)
                /\ \A l, m \in u : (HasByte(r[l], b) /\ HasByte(r[m], b)) => l = m
        BY <2>1, UnitBytes
    <2> HIDE DEF start, end
    <2>8. \A l \in u : \A b \in Nat : b \in Bytes(l) <=> HasByte(r[l], b)
        BY <2>5 DEF Bytes, HasByte, End
    <2>9. ASSUME NEW b \in start .. (end - 1)
          PROVE  Cardinality({l \in u : b \in Bytes(l)}) = 1
        <3>1. b \in Nat /\ start <= b /\ b < end
            BY <2>6
        <3>2. PICK l \in u : HasByte(r[l], b)
            BY <2>7, <3>1
        <3>3. {m \in u : b \in Bytes(m)} = {l}
            BY <2>7, <2>8, <3>1, <3>2
        <3> QED BY <3>3, FS_Singleton
    <2>10. ASSUME NEW l \in u PROVE Bytes(l) \subseteq start .. (end - 1)
        <3>1. start <= r[l].off /\ End(r[l]) <= end /\ r[l].off \in Nat /\ End(r[l]) \in Nat
            BY <2>5, <2>7 DEF End
        <3> QED BY <2>6, <3>1 DEF Bytes
    <2> QED BY <2>4, <2>6, <2>9, <2>10
<1> QED BY <1>1, ShuffleInvariant, PTL

-----------------------------------------------------------------------------
(* Conflicting labels *)

\* Two units conflict whatever the order they are compared in.
LEMMA ConflictSymmetric ==
    ASSUME NEW u, NEW v, Conflict(r, u, v)
    PROVE  Conflict(r, v, u)
BY DEF Conflict, RangesOverlap

\* The supertask of a unit that conflicts with another one holds both.
LEMMA ConflictTogether ==
    ASSUME ShuffleInv, stage = "done", NEW u \in units, NEW v \in units, Conflict(r, u, v)
    PROVE  \E st \in supertasks : {u, v} \subseteq st
<1>1. u \in Involved(r, units) /\ v \in Involved(r, units) /\ GroupKey(r, v) = GroupKey(r, u)
    BY ConflictSymmetric DEF Involved, Conflict
<1>2. supertasks = BuildSupertasks(r, units)
    BY DEF ShuffleInv, Stages
<1> QED BY <1>1, <1>2, SupertaskOf

\* Labels of two units that share a byte of a file, not both reads, make the
\* units conflict.
LEMMA HazardConflict ==
    ASSUME ShuffleInv, stage = "done", DepGranularity = "per-file",
           NEW u \in units, NEW v \in units, u # v,
           NEW l \in u, NEW m \in v, Hazard(l, m)
    PROVE  Conflict(r, u, v)
<1>1. Ranged(r, Batch) /\ u \in Aggregate(r, Batch) /\ v \in Aggregate(r, Batch)
    BY BatchRanged DEF ShuffleInv, Stages
<1>2. l \in Batch /\ m \in Batch
    BY <1>1, UnitsWithin
<1>3. /\ r[l].off \in Nat /\ r[l].len \in Nat
      /\ r[m].off \in Nat /\ r[m].len \in Nat
    BY <1>1, <1>2 DEF Ranged
<1>4. PICK b \in Bytes(l) : b \in Bytes(m)
    BY DEF Hazard
<1>5. /\ b \in Nat
      /\ r[l].off <= b /\ b < End(r[l]) /\ End(r[l]) \in Nat
      /\ r[m].off <= b /\ b < End(r[m]) /\ End(r[m]) \in Nat
    BY <1>3, <1>4 DEF Bytes, End
<1>6. /\ r[UnitId(r, u)].off <= r[l].off /\ End(r[l]) <= UnitEnd(r, u)
      /\ r[UnitId(r, v)].off <= r[m].off /\ End(r[m]) <= UnitEnd(r, v)
    BY <1>1, UnitBytes
<1>7. \A x \in {u, v} : /\ UnitRange(r, x).off \in Nat /\ UnitRange(r, x).len \in Nat
                        /\ UnitRange(r, x).off = r[UnitId(r, x)].off
                        /\ End(UnitRange(r, x)) = UnitEnd(r, x)
    BY <1>1, UnitSpan
<1>8. \A x \in {u, v} : UnitRange(r, x).off <= b /\ b < End(UnitRange(r, x))
    <2>1. r[UnitId(r, u)].off \in Nat /\ r[UnitId(r, v)].off \in Nat
        BY <1>7
    <2>2. UnitEnd(r, u) \in Nat /\ UnitEnd(r, v) \in Nat
        BY <1>7 DEF End
    <2>3. /\ r[UnitId(r, u)].off <= b /\ b < UnitEnd(r, u)
          /\ r[UnitId(r, v)].off <= b /\ b < UnitEnd(r, v)
        BY <1>3, <1>5, <1>6, <2>1, <2>2
    <2> QED BY <1>7, <2>3
<1>9. RangesOverlap(UnitRange(r, u), UnitRange(r, v))
    <2> DEFINE a == UnitRange(r, u)
               c == UnitRange(r, v)
    <2>1. /\ a.off \in Nat /\ a.len \in Nat /\ a.off <= b /\ b < End(a)
          /\ c.off \in Nat /\ c.len \in Nat /\ c.off <= b /\ b < End(c)
        BY <1>7, <1>8
    <2> HIDE DEF a, c
    <2>2. RangesOverlap(a, c)
        BY <1>5, <2>1 DEF RangesOverlap, End
    <2> QED BY <2>2 DEF a, c
<1>10. /\ r[l].type = UnitType(r, u) /\ r[l].file = UnitFile(r, u)
       /\ r[m].type = UnitType(r, v) /\ r[m].file = UnitFile(r, v)
    BY <1>1, UnitAlike
<1>11. GroupKey(r, u) = GroupKey(r, v) /\ ~(UnitType(r, u) = "Read" /\ UnitType(r, v) = "Read")
    BY <1>10 DEF GroupKey, Hazard
<1> QED BY <1>9, <1>11 DEF Conflict

\* Labels that share a byte of a file, not both reads, are in one unit or in one
\* supertask: no two workers race on that byte.
THEOREM ConflictsStayTogether == ShuffleSpec => []HazardsTogether
<1>1. ASSUME ShuffleInv PROVE HazardsTogether
    <2> SUFFICES ASSUME stage = "done", DepGranularity = "per-file",
                        NEW l \in Batch, NEW m \in Batch,
                        Hazard(l, m), UnitOf(l) # UnitOf(m)
                 PROVE  \E st \in supertasks : {UnitOf(l), UnitOf(m)} \subseteq st
        BY DEF HazardsTogether
    <2>1. /\ UnitOf(l) \in units /\ l \in UnitOf(l)
          /\ UnitOf(m) \in units /\ m \in UnitOf(m)
        BY <1>1, UnitOfLabel
    <2> QED BY <1>1, <2>1, HazardConflict, ConflictTogether
<1> QED BY <1>1, ShuffleInvariant, PTL

\* A worker executes two conflicting labels that were not merged in the order of
\* their ids.
THEOREM SinglesRunInOrder == ShuffleSpec => []SinglesInOrder
<1>1. ASSUME ShuffleInv PROVE SinglesInOrder
    <2> SUFFICES ASSUME NEW l \in Batch, NEW m \in Batch, l < m
                 PROVE  RunsBefore({l}, {m})
        BY DEF SinglesInOrder
    <2>1. l \in Nat /\ m \in Nat /\ Ranged(r, {l}) /\ Ranged(r, {m})
        BY <1>1, BatchRanged, RangedPart DEF ShuffleInv, Ranged
    <2>2. UnitId(r, {l}) = l /\ UnitId(r, {m}) = m
        BY <2>1, FirstLabel
    <2> DEFINE two == {{l}, {m}}
               First(u) == u \in two /\ \A v \in two : UnitId(r, u) <= UnitId(r, v)
    <2>3. First({l}) /\ \A u : First(u) => u = {l}
        BY <2>1, <2>2
    <2>4. (CHOOSE u \in two : \A v \in two : UnitId(r, u) <= UnitId(r, v)) = {l}
        BY <2>3
    <2> QED BY <2>4 DEF RunsBefore, FirstChild
<1> QED BY <1>1, ShuffleInvariant, PTL

\* With dependencies kept per file, a unit is serialized with another one only
\* if one of its labels conflicts with one of the other's.
THEOREM NothingSerializedInVain ==
    ASSUME DepGranularity = "per-file"
    PROVE  ShuffleSpec => []SupertasksNeeded
<1>1. ASSUME ShuffleInv PROVE SupertasksNeeded
    <2> SUFFICES ASSUME NEW st \in supertasks, NEW u \in st
                 PROVE  \E v \in st : u # v /\ \E l \in u, m \in v : Hazard(l, m)
        BY DEF SupertasksNeeded
    <2>1. stage = "done" /\ supertasks = BuildSupertasks(r, units) /\ units = Aggregate(r, Batch)
        BY <1>1 DEF ShuffleInv, Stages
    <2>2. u \in Involved(r, units) /\ st \subseteq units
        BY <2>1, SupertasksDisjoint
    <2>3. PICK v \in units : Conflict(r, u, v)
        BY <2>2 DEF Involved
    <2>4. v \in st
        <3>1. PICK t \in supertasks : {u, v} \subseteq t
            BY <1>1, <2>1, <2>2, <2>3, ConflictTogether
        <3> QED BY <2>1, <3>1, SupertasksDisjoint
    <2>5. Ranged(r, Batch) /\ u \in Aggregate(r, Batch) /\ v \in Aggregate(r, Batch)
        BY <1>1, <2>1, <2>2, BatchRanged DEF ShuffleInv
    <2> DEFINE a == UnitRange(r, u)
               c == UnitRange(r, v)
    <2>6. /\ a.off \in Nat /\ a.len \in Nat /\ c.off \in Nat /\ c.len \in Nat
          /\ a.off = r[UnitId(r, u)].off /\ End(a) = UnitEnd(r, u)
          /\ c.off = r[UnitId(r, v)].off /\ End(c) = UnitEnd(r, v)
        BY <2>5, UnitSpan
    <2>7. RangesOverlap(a, c)
        BY <2>3 DEF Conflict
    <2> HIDE DEF a, c
    <2>8. \E b \in {a.off, c.off} : a.off <= b /\ b < End(a) /\ c.off <= b /\ b < End(c)
        BY <2>6, <2>7 DEF RangesOverlap, End
    <2>9. PICK b \in Nat : a.off <= b /\ b < End(a) /\ c.off <= b /\ b < End(c)
        BY <2>6, <2>8
    <2>10. PICK l \in u : HasByte(r[l], b)
        BY <2>5, <2>6, <2>9, UnitBytes
    <2>11. PICK m \in v : HasByte(r[m], b)
        BY <2>5, <2>6, <2>9, UnitBytes
    <2>12. b \in Bytes(l) /\ b \in Bytes(m)
        <3>1. l \in Batch /\ m \in Batch
            BY <2>5, UnitsWithin
        <3>2. r[l].off \in Nat /\ r[l].len \in Nat /\ r[m].off \in Nat /\ r[m].len \in Nat
            BY <2>5, <3>1 DEF Ranged
        <3> QED BY <2>10, <2>11, <3>2 DEF Bytes, HasByte, End
    <2>13. /\ r[l].type = UnitType(r, u) /\ r[l].file = UnitFile(r, u)
           /\ r[m].type = UnitType(r, v) /\ r[m].file = UnitFile(r, v)
        BY <2>5, UnitAlike
    <2>14. UnitFile(r, u) = UnitFile(r, v)
        BY <2>3 DEF Conflict, GroupKey
    <2>15. Hazard(l, m)
        BY <2>3, <2>12, <2>13, <2>14 DEF Hazard, Conflict
    <2> QED BY <2>3, <2>4, <2>15 DEF Conflict
<1> QED BY <1>1, ShuffleInvariant, PTL
=============================================================================
