--------------------------- MODULE ShufflerProofs ---------------------------
(***************************************************************************)
(* What the shuffler's functions return for any batch of labels: which     *)
(* runs of writes are merged, that every label is in one unit and every    *)
(* unit in at most one supertask, and which bytes a unit stands for.       *)
(***************************************************************************)
EXTENDS Shuffler, FiniteSetTheorems, TLAPS

-----------------------------------------------------------------------------
(* Minima *)

\* A nonempty set of natural numbers below n has a least element: the intervals
\* 0 .. x are well founded under strict inclusion.
LEMMA MinBounded ==
    ASSUME NEW n \in Nat, NEW S, S \subseteq 0 .. n, S # {}
    PROVE  \E x \in S : \A y \in S : x <= y
<1> DEFINE T == {0 .. x : x \in S}
           R == StrictSubsetOrdering(0 .. n)
<1>1. IsFiniteSet(0 .. n)
    BY FS_Interval
<1>2. \A t \in T : t \subseteq 0 .. n
    OBVIOUS
<1>3. T \subseteq FiniteSubsetsOf(0 .. n)
    BY <1>1, <1>2, FS_Subset DEF FiniteSubsetsOf
<1>4. IsWellFoundedOn(R, FiniteSubsetsOf(0 .. n))
    BY FS_StrictSubsetOrderingWellFounded
<1>5. T # {}
    OBVIOUS
<1> HIDE DEF R
<1>6. PICK t \in T : \A s \in T : ~(<<s, t>> \in R)
    BY <1>3, <1>4, <1>5, WFMin
<1>7. PICK x \in S : t = 0 .. x
    OBVIOUS
<1>8. ASSUME NEW y \in S PROVE x <= y
    <2>1. <<0 .. y, 0 .. x>> \notin R
        BY <1>6, <1>7
    <2>2. ASSUME y < x PROVE FALSE
        <3>1. 0 .. y \subseteq 0 .. x /\ 0 .. x # 0 .. y
            <4>1. x \in 0 .. x /\ x \notin 0 .. y
                BY <2>2
            <4> QED BY <4>1, <2>2
        <3>2. 0 .. y \in SUBSET (0 .. n) /\ 0 .. x \in SUBSET (0 .. n)
            BY <1>2
        <3> QED BY <3>1, <3>2, <2>1 DEF R, StrictSubsetOrdering
    <2> QED BY <2>2
<1> QED BY <1>8

\* A nonempty set of natural numbers has a least element.
LEMMA MinNat ==
    ASSUME NEW S, S \subseteq Nat, S # {}
    PROVE  \E x \in S : \A y \in S : x <= y
<1>1. PICK n \in S : TRUE
    OBVIOUS
<1> DEFINE T == S \cap (0 .. n)
<1>2. T \subseteq 0 .. n /\ T # {}
    OBVIOUS
<1> HIDE DEF T
<1>3. PICK x \in T : \A y \in T : x <= y
    BY <1>2, MinBounded
<1>4. \A y \in S : y \in T \/ n < y
    BY DEF T
<1> QED BY <1>3, <1>4 DEF T

-----------------------------------------------------------------------------
(* The order of writes *)

\* The labels of a finite batch L.
Ranged(r, L) ==
    /\ IsFiniteSet(L)
    /\ L \subseteq Nat
    /\ \A l \in L : r[l].off \in Nat /\ r[l].len \in Nat

\* The order of the writes of a file is strict and total.
LEMMA PrecedesTotal ==
    ASSUME NEW r, NEW L, Ranged(r, L), NEW i \in L, NEW j \in L
    PROVE  /\ ~(Precedes(r, i, j) /\ Precedes(r, j, i))
           /\ i = j \/ Precedes(r, i, j) \/ Precedes(r, j, i)
BY DEF Precedes, Ranged

LEMMA PrecedesTransitive ==
    ASSUME NEW r, NEW L, Ranged(r, L), NEW i \in L, NEW j \in L, NEW k \in L,
           Precedes(r, i, j), Precedes(r, j, k)
    PROVE  Precedes(r, i, k)
<1>1. i \in Nat /\ j \in Nat /\ k \in Nat /\ r[i].off \in Nat /\ r[j].off \in Nat /\ r[k].off \in Nat
    BY DEF Ranged
<1> QED BY <1>1 DEF Precedes

\* A label does not start after one that it precedes.
LEMMA PrecedesStart ==
    ASSUME NEW r, NEW L, Ranged(r, L), NEW i \in L, NEW j \in L, Precedes(r, i, j)
    PROVE  r[i].off <= r[j].off
<1>1. r[i].off \in Nat /\ r[j].off \in Nat
    BY DEF Ranged
<1> QED BY <1>1 DEF Precedes

\* Part of a batch is a batch.
LEMMA RangedPart ==
    ASSUME NEW r, NEW L, Ranged(r, L), NEW u, u \subseteq L
    PROVE  Ranged(r, u)
BY FS_Subset DEF Ranged

\* The label whose end is the end of a unit.
LastId(r, u) == CHOOSE i \in u : \A j \in u \ {i} : Precedes(r, j, i)

\* A unit has a first label.
LEMMA FirstLabel ==
    ASSUME NEW r, NEW u, Ranged(r, u), u # {}
    PROVE  /\ UnitId(r, u) \in u
           /\ \A j \in u \ {UnitId(r, u)} : Precedes(r, UnitId(r, u), j)
<1> DEFINE offs == {r[i].off : i \in u}
<1>1. offs \subseteq Nat /\ offs # {}
    BY DEF Ranged
<1>2. PICK o \in offs : \A p \in offs : o <= p
    BY <1>1, MinNat
<1>3. \A j \in u : r[j].off \in Nat /\ o <= r[j].off
    BY <1>1, <1>2
<1> DEFINE firsts == {i \in u : r[i].off = o}
<1>4. firsts \subseteq Nat /\ firsts # {}
    BY <1>2 DEF Ranged
<1>5. PICK i \in firsts : \A j \in firsts : i <= j
    BY <1>4, MinNat
<1>6. ASSUME NEW j \in u \ {i} PROVE Precedes(r, i, j)
    <2>1. CASE r[j].off = o
        <3>1. i <= j /\ i # j /\ i \in Nat /\ j \in Nat
            BY <2>1, <1>4, <1>5
        <3>2. i < j
            BY <3>1
        <3> QED BY <3>2, <2>1 DEF Precedes
    <2>2. CASE r[j].off # o
        <3>1. o < r[j].off
            BY <2>2, <1>1, <1>2, <1>3
        <3> QED BY <3>1 DEF Precedes
    <2> QED BY <2>1, <2>2
<1>7. i \in u
    OBVIOUS
<1> HIDE DEF firsts, offs
<1> QED
    BY <1>6, <1>7 DEF UnitId

\* A unit has a last label: take the smallest unit without one, and a label out of it.
LEMMA LastLabel ==
    ASSUME NEW r, NEW u, Ranged(r, u), u # {}
    PROVE  /\ LastId(r, u) \in u
           /\ \A j \in u \ {LastId(r, u)} : Precedes(r, j, LastId(r, u))
<1> DEFINE HasLast(X) == \E i \in X : \A j \in X \ {i} : Precedes(r, j, i)
           T == {X \in FiniteSubsetsOf(u) : X # {} /\ ~HasLast(X)}
           R == StrictSubsetOrdering(u)
<1>1. ASSUME T # {} PROVE FALSE
    <2>1. IsWellFoundedOn(R, FiniteSubsetsOf(u)) /\ T \subseteq FiniteSubsetsOf(u)
        BY FS_StrictSubsetOrderingWellFounded
    <2>2. PICK X \in T : \A Y \in T : ~(<<Y, X>> \in R)
        <3> HIDE DEF R, T
        <3> QED BY <1>1, <2>1, WFMin
    <2>3. X \in SUBSET u /\ IsFiniteSet(X) /\ X # {} /\ ~HasLast(X)
        BY <2>2 DEF FiniteSubsetsOf
    <2>4. PICK x \in X : TRUE
        BY <2>3
    <2> DEFINE Y == X \ {x}
    <2>5. Y \in FiniteSubsetsOf(u) /\ <<Y, X>> \in R
        BY <2>3, <2>4, FS_Subset DEF FiniteSubsetsOf, StrictSubsetOrdering
    <2>6. CASE Y = {}
        BY <2>3, <2>4, <2>6
    <2>7. CASE Y # {}
        <3>1. Y \notin T
            BY <2>2, <2>5
        <3>2. HasLast(Y)
            BY <2>5, <2>7, <3>1
        <3>3. PICK y \in Y : \A j \in Y \ {y} : Precedes(r, j, y)
            BY <3>2
        <3>4. x \in u /\ y \in u /\ X \subseteq u /\ x # y
            BY <2>3, <2>4
        <3>5. CASE Precedes(r, x, y)
            <4>1. \A j \in X \ {y} : Precedes(r, j, y)
                BY <3>3, <3>5
            <4> QED BY <2>3, <4>1
        <3>6. CASE Precedes(r, y, x)
            <4>1. ASSUME NEW j \in X \ {x} PROVE Precedes(r, j, x)
                <5>1. CASE j = y
                    BY <3>6, <5>1
                <5>2. CASE j # y
                    <6>1. Precedes(r, j, y) /\ j \in u
                        BY <3>3, <3>4, <5>2
                    <6> QED BY <3>4, <3>6, <6>1, PrecedesTransitive
                <5> QED BY <5>1, <5>2
            <4> QED BY <2>3, <2>4, <4>1
        <3> QED BY <3>4, <3>5, <3>6, PrecedesTotal
    <2> QED BY <2>6, <2>7
<1>2. u \in FiniteSubsetsOf(u)
    BY DEF Ranged, FiniteSubsetsOf
<1>3. HasLast(u)
    BY <1>1, <1>2
<1> QED BY <1>3 DEF LastId

-----------------------------------------------------------------------------
(* Runs of consecutive writes *)

\* A run is taken from the writes it is built from, and holds the write it starts at.
LEMMA RunsWithin ==
    ASSUME NEW r, NEW W, Ranged(r, W), NEW u \in MergeRuns(r, W)
    PROVE  u \subseteq W /\ u # {}
<1>1. PICK h \in W : u = RunFrom(r, W, h)
    BY DEF MergeRuns
<1>2. ~Precedes(r, h, h)
    BY PrecedesTotal
<1>3. \A k \in W : ~(Precedes(r, h, k) /\ ~Precedes(r, h, k))
    OBVIOUS
<1>4. h \in u
    BY <1>1, <1>2, <1>3 DEF RunFrom
<1> QED BY <1>1, <1>4 DEF RunFrom

\* Two runs of consecutive writes that share a write are the same run.
LEMMA RunsDisjoint ==
    ASSUME NEW r, NEW W, Ranged(r, W),
           NEW u \in MergeRuns(r, W), NEW v \in MergeRuns(r, W), u \cap v # {}
    PROVE  u = v
<1> DEFINE Heads == {x \in W : ~\E i \in W : Consecutive(r, W, i, x)}
<1>1. PICK h \in Heads : u = RunFrom(r, W, h)
    BY DEF MergeRuns
<1>2. PICK g \in Heads : v = RunFrom(r, W, g)
    BY DEF MergeRuns
<1>3. PICK j \in u : j \in v
    OBVIOUS
<1>4. ~Precedes(r, h, g)
    <2> SUFFICES ASSUME Precedes(r, h, g) PROVE FALSE
        OBVIOUS
    <2>1. ~Precedes(r, j, g)
        BY <1>2, <1>3 DEF RunFrom
    <2>2. \E i \in W : Consecutive(r, W, i, g)
        BY <1>1, <1>2, <1>3, <2>1 DEF RunFrom
    <2> QED BY <1>2, <2>2
<1>5. ~Precedes(r, g, h)
    <2> SUFFICES ASSUME Precedes(r, g, h) PROVE FALSE
        OBVIOUS
    <2>1. ~Precedes(r, j, h)
        BY <1>1, <1>3 DEF RunFrom
    <2>2. \E i \in W : Consecutive(r, W, i, h)
        BY <1>1, <1>2, <1>3, <2>1 DEF RunFrom
    <2> QED BY <1>1, <2>2
<1>6. h = g
    BY <1>4, <1>5, PrecedesTotal
<1> QED BY <1>1, <1>2, <1>6

\* Every write is in a run: the one of the last head that does not come after it.
LEMMA RunsCover ==
    ASSUME NEW r, NEW W, Ranged(r, W), NEW l \in W
    PROVE  \E u \in MergeRuns(r, W) : l \in u
<1> DEFINE Heads == {x \in W : ~\E i \in W : Consecutive(r, W, i, x)}
           C == {x \in Heads : ~Precedes(r, l, x)}
           first == UnitId(r, W)
           h == LastId(r, C)
<1>1. first \in W /\ \A j \in W \ {first} : Precedes(r, first, j)
    BY FirstLabel
<1>2. first \in C
    <2>1. \A i \in W : ~Precedes(r, i, first)
        <3> SUFFICES ASSUME NEW i \in W PROVE ~Precedes(r, i, first)
            OBVIOUS
        <3> HIDE DEF first
        <3> QED BY <1>1, PrecedesTotal
    <2> HIDE DEF first
    <2> QED BY <1>1, <2>1 DEF Consecutive
<1>3. Ranged(r, C)
    BY RangedPart
<1>4. h \in C /\ \A j \in C \ {h} : Precedes(r, j, h)
    <2> HIDE DEF C, first
    <2> QED BY <1>2, <1>3, LastLabel
<1> HIDE DEF h, first
<1>5. ASSUME NEW k \in W, Precedes(r, h, k), ~Precedes(r, l, k)
      PROVE  \E i \in W : Consecutive(r, W, i, k)
    <2> SUFFICES ASSUME k \in Heads PROVE FALSE
        OBVIOUS
    <2>1. k \in C
        BY <1>5
    <2>2. k # h /\ ~Precedes(r, k, h)
        BY <1>4, <1>5, PrecedesTotal
    <2> QED BY <1>4, <2>1, <2>2
<1>6. l \in RunFrom(r, W, h)
    BY <1>4, <1>5 DEF RunFrom
<1>7. RunFrom(r, W, h) \in MergeRuns(r, W)
    BY <1>4 DEF MergeRuns
<1> QED BY <1>6, <1>7

\* In a run, a label that is not the last is continued by the next.
LEMMA RunContinues ==
    ASSUME NEW r, NEW W, Ranged(r, W), NEW u \in MergeRuns(r, W),
           NEW l \in u, l # LastId(r, u)
    PROVE  \E k \in u : Consecutive(r, W, l, k)
<1>1. PICK h \in W : u = RunFrom(r, W, h)
    BY DEF MergeRuns
<1>2. u \subseteq W /\ u # {} /\ Ranged(r, u)
    BY RunsWithin, RangedPart
<1> DEFINE S == {k \in u : Precedes(r, l, k)}
           k == UnitId(r, S)
<1>3. LastId(r, u) \in S
    BY <1>2, LastLabel
<1>4. Ranged(r, S)
    BY <1>2, RangedPart
<1>5. k \in S /\ \A j \in S \ {k} : Precedes(r, k, j)
    <2> HIDE DEF S
    <2> QED BY <1>3, <1>4, FirstLabel
<1> HIDE DEF k
<1>6. k \in W /\ l \in W /\ Precedes(r, l, k) /\ ~Precedes(r, k, k) /\ ~Precedes(r, l, h)
    BY <1>1, <1>2, <1>5, PrecedesTotal DEF RunFrom
<1>7. h = l \/ Precedes(r, h, l)
    BY <1>6, PrecedesTotal
<1>8. Precedes(r, h, k)
    BY <1>6, <1>7, PrecedesTransitive
<1>9. PICK i \in W : Consecutive(r, W, i, k)
    BY <1>1, <1>5, <1>6, <1>8 DEF RunFrom
<1>10. Precedes(r, i, k)
    BY <1>9 DEF Consecutive
<1>11. ~Precedes(r, i, l)
    BY <1>6, <1>9 DEF Consecutive
<1>12. ~Precedes(r, l, i)
    <2> SUFFICES ASSUME Precedes(r, l, i) PROVE FALSE
        OBVIOUS
    <2>1. Precedes(r, h, i)
        BY <1>6, <1>7, PrecedesTransitive
    <2>2. ~Precedes(r, i, h)
        BY <2>1, PrecedesTotal
    <2>3. ASSUME NEW j \in W, Precedes(r, h, j), ~Precedes(r, i, j)
          PROVE  \E x \in W : Consecutive(r, W, x, j)
        <3>1. j = i \/ Precedes(r, j, i)
            BY <2>3, PrecedesTotal
        <3>2. Precedes(r, j, k)
            BY <1>6, <1>10, <3>1, PrecedesTransitive
        <3>3. ~Precedes(r, k, j)
            BY <1>6, <3>2, PrecedesTotal
        <3> QED BY <1>1, <1>5, <2>3, <3>3 DEF RunFrom
    <2>4. i \in S
        BY <1>1, <2>2, <2>3 DEF RunFrom
    <2>5. i = k \/ Precedes(r, k, i)
        BY <1>5, <2>4
    <2> QED BY <1>6, <1>10, <2>5, PrecedesTotal
<1>13. i = l
    BY <1>6, <1>11, <1>12, PrecedesTotal
<1> QED BY <1>5, <1>9, <1>13

\* The bytes of a label of a run are among those of the run.
LEMMA RunHolds ==
    ASSUME NEW r, NEW W, Ranged(r, W), NEW u \in MergeRuns(r, W), NEW l \in u
    PROVE  r[UnitId(r, u)].off <= r[l].off /\ End(r[l]) <= UnitEnd(r, u)
<1>1. u \subseteq W /\ u # {} /\ Ranged(r, u)
    BY RunsWithin, RangedPart
<1> DEFINE first == UnitId(r, u)
           last == LastId(r, u)
<1>2. first \in u /\ \A j \in u \ {first} : Precedes(r, first, j)
    BY <1>1, FirstLabel
<1>3. last \in u /\ \A j \in u \ {last} : Precedes(r, j, last)
    BY <1>1, LastLabel
<1>4. UnitEnd(r, u) = End(r[last])
    BY DEF UnitEnd, LastId
<1> HIDE DEF first, last
<1>5. \A j \in u : r[j].off \in Nat /\ r[j].len \in Nat
    BY <1>1 DEF Ranged
<1>6. r[first].off <= r[l].off
    <2>1. CASE l = first
        BY <1>5, <2>1
    <2>2. CASE l # first
        BY <1>1, <1>2, <2>2, PrecedesStart
    <2> QED BY <2>1, <2>2
<1>7. End(r[l]) <= End(r[last])
    <2>1. CASE l = last
        BY <1>5, <2>1 DEF End
    <2>2. CASE l # last
        <3>1. PICK k \in u : Consecutive(r, W, l, k)
            BY <2>2, RunContinues DEF last
        <3>2. r[k].off <= r[last].off
            <4>1. CASE k = last
                BY <1>5, <4>1
            <4>2. CASE k # last
                BY <1>1, <1>3, <4>2, PrecedesStart
            <4> QED BY <4>1, <4>2
        <3>3. r[k].off = End(r[l])
            BY <3>1 DEF Consecutive
        <3> QED BY <1>3, <1>5, <3>2, <3>3 DEF End
    <2> QED BY <2>1, <2>2
<1> QED BY <1>4, <1>6, <1>7 DEF first

\* No two labels of a run have a byte in common.
LEMMA RunOnce ==
    ASSUME NEW r, NEW W, Ranged(r, W), NEW u \in MergeRuns(r, W),
           NEW l \in u, NEW m \in u, l # m, NEW b \in Nat,
           r[l].off <= b, b < End(r[l]), r[m].off <= b, b < End(r[m])
    PROVE  FALSE
<1>1. u \subseteq W /\ u # {} /\ Ranged(r, u)
    BY RunsWithin, RangedPart
<1>2. \A j \in u : r[j].off \in Nat /\ r[j].len \in Nat
    BY <1>1 DEF Ranged
<1>3. ASSUME NEW i \in u, NEW j \in u, Precedes(r, i, j), b < End(r[i]), r[j].off <= b
      PROVE  FALSE
    <2>1. i # LastId(r, u)
        <3> SUFFICES ASSUME i = LastId(r, u) PROVE FALSE
            OBVIOUS
        <3>1. j # i /\ ~Precedes(r, j, i)
            BY <1>1, <1>3, PrecedesTotal
        <3> QED BY <1>1, <3>1, LastLabel
    <2>2. PICK k \in u : Consecutive(r, W, i, k)
        BY <2>1, RunContinues
    <2>3. ~Precedes(r, j, k) /\ r[k].off = End(r[i])
        BY <1>1, <1>3, <2>2 DEF Consecutive
    <2>4. j = k \/ Precedes(r, k, j)
        BY <1>1, <2>3, PrecedesTotal
    <2>5. r[k].off <= r[j].off
        <3>1. CASE j = k
            BY <1>2, <3>1
        <3>2. CASE Precedes(r, k, j)
            BY <1>1, <3>2, PrecedesStart
        <3> QED BY <2>4, <3>1, <3>2
    <2>6. r[i].off \in Nat /\ r[i].len \in Nat /\ r[j].off \in Nat /\ r[k].off \in Nat
        BY <1>2
    <2> QED BY <1>3, <2>3, <2>5, <2>6 DEF End
<1>4. Precedes(r, l, m) \/ Precedes(r, m, l)
    BY <1>1, PrecedesTotal
<1> QED BY <1>3, <1>4

\* Every byte from the start of the first label of a run to the end of the last is
\* a byte of one of its labels: of the last that does not start behind it.
LEMMA RunFull ==
    ASSUME NEW r, NEW W, Ranged(r, W), NEW u \in MergeRuns(r, W), NEW b \in Nat,
           r[UnitId(r, u)].off <= b, b < UnitEnd(r, u)
    PROVE  \E l \in u : r[l].off <= b /\ b < End(r[l])
<1>1. u \subseteq W /\ u # {} /\ Ranged(r, u)
    BY RunsWithin, RangedPart
<1>2. \A j \in u : r[j].off \in Nat /\ r[j].len \in Nat
    BY <1>1 DEF Ranged
<1> DEFINE S == {l \in u : r[l].off <= b}
           l == LastId(r, S)
<1>3. S # {}
    BY <1>1, FirstLabel
<1>4. Ranged(r, S)
    BY <1>1, RangedPart
<1>5. l \in S /\ \A j \in S \ {l} : Precedes(r, j, l)
    <2> HIDE DEF S
    <2> QED BY <1>3, <1>4, LastLabel
<1> HIDE DEF l
<1>6. ASSUME ~(b < End(r[l])) PROVE FALSE
    <2>1. l # LastId(r, u)
        BY <1>6 DEF UnitEnd, LastId
    <2>2. PICK k \in u : Consecutive(r, W, l, k)
        BY <1>5, <2>1, RunContinues
    <2>3. Precedes(r, l, k) /\ r[k].off = End(r[l])
        BY <2>2 DEF Consecutive
    <2>4. k \in S
        BY <1>2, <1>5, <1>6, <2>3 DEF End
    <2>5. l = k \/ Precedes(r, k, l)
        BY <1>5, <2>4
    <2> QED BY <1>4, <1>5, <2>3, <2>4, <2>5, PrecedesTotal
<1> QED BY <1>5, <1>6

-----------------------------------------------------------------------------
(* The units of aggregate() *)

FileWrites(r, batch, f) == {l \in batch : r[l].type = "Write" /\ r[l].file = f}

\* A unit is a label by itself, or a run of writes of one file.
LEMMA UnitForms ==
    ASSUME NEW r, NEW batch, NEW u \in Aggregate(r, batch)
    PROVE  \/ \E l \in batch : u = {l} /\ (AggregationEnabled => r[l].type # "Write")
           \/ AggregationEnabled /\ \E f : u \in MergeRuns(r, FileWrites(r, batch, f))
BY DEF Aggregate, FileWrites

LEMMA WritesRanged ==
    ASSUME NEW r, NEW batch, Ranged(r, batch), NEW f
    PROVE  Ranged(r, FileWrites(r, batch, f)) /\ FileWrites(r, batch, f) \subseteq batch
BY RangedPart DEF FileWrites

\* A unit is taken from its batch and not empty, and only writes of one file are merged.
LEMMA UnitsWithin ==
    ASSUME NEW r, NEW batch, Ranged(r, batch), NEW u \in Aggregate(r, batch)
    PROVE  /\ u \subseteq batch /\ u # {}
           /\ \A l, m \in u : l # m => /\ r[l].type = "Write" /\ r[m].type = "Write"
                                       /\ r[l].file = r[m].file
<1>1. CASE \E l \in batch : u = {l}
    BY <1>1
<1>2. CASE \E f : u \in MergeRuns(r, FileWrites(r, batch, f))
    <2>1. PICK f : u \in MergeRuns(r, FileWrites(r, batch, f))
        BY <1>2
    <2>2. u \subseteq FileWrites(r, batch, f) /\ u # {}
        BY <2>1, WritesRanged, RunsWithin
    <2> QED BY <2>2 DEF FileWrites
<1> QED BY <1>1, <1>2, UnitForms

\* A unit is of the type and the file of its labels.
LEMMA UnitAlike ==
    ASSUME NEW r, NEW batch, Ranged(r, batch), NEW u \in Aggregate(r, batch), NEW l \in u
    PROVE  r[l].type = UnitType(r, u) /\ r[l].file = UnitFile(r, u)
<1>1. Ranged(r, u) /\ u # {}
    BY UnitsWithin, RangedPart
<1>2. UnitId(r, u) \in u
    BY <1>1, FirstLabel
<1>3. CASE l = UnitId(r, u)
    BY <1>3 DEF UnitType, UnitFile
<1>4. CASE l # UnitId(r, u)
    BY <1>2, <1>4, UnitsWithin DEF UnitType, UnitFile
<1> QED BY <1>3, <1>4

\* aggregate() puts a label into one unit, ...
LEMMA UnitsDisjoint ==
    ASSUME NEW r, NEW batch, Ranged(r, batch),
           NEW u \in Aggregate(r, batch), NEW v \in Aggregate(r, batch), u \cap v # {}
    PROVE  u = v
<1>0. PICK l \in u : l \in v
    OBVIOUS
<1>1. ASSUME NEW x \in Aggregate(r, batch), l \in x
      PROVE  IF AggregationEnabled /\ r[l].type = "Write"
             THEN x \in MergeRuns(r, FileWrites(r, batch, r[l].file))
             ELSE x = {l}
    <2>1. CASE \E m \in batch : x = {m} /\ (AggregationEnabled => r[m].type # "Write")
        BY <1>1, <2>1
    <2>2. CASE AggregationEnabled /\ \E f : x \in MergeRuns(r, FileWrites(r, batch, f))
        <3>1. PICK f : x \in MergeRuns(r, FileWrites(r, batch, f))
            BY <2>2
        <3>2. l \in FileWrites(r, batch, f)
            BY <1>1, <3>1, WritesRanged, RunsWithin
        <3>3. r[l].type = "Write" /\ f = r[l].file
            BY <3>2 DEF FileWrites
        <3> QED BY <2>2, <3>1, <3>3
    <2> QED BY <2>1, <2>2, UnitForms
<1>2. CASE AggregationEnabled /\ r[l].type = "Write"
    <2>1. /\ u \in MergeRuns(r, FileWrites(r, batch, r[l].file))
          /\ v \in MergeRuns(r, FileWrites(r, batch, r[l].file))
        BY <1>0, <1>1, <1>2
    <2> QED BY <2>1, WritesRanged, RunsDisjoint
<1>3. CASE ~(AggregationEnabled /\ r[l].type = "Write")
    <2>1. u = {l} /\ v = {l}
        BY <1>0, <1>1, <1>3
    <2> QED BY <2>1
<1> QED BY <1>2, <1>3

\* ... and leaves none out.
LEMMA UnitsCover ==
    ASSUME NEW r, NEW batch, Ranged(r, batch), NEW l \in batch
    PROVE  \E u \in Aggregate(r, batch) : l \in u
<1>1. CASE ~AggregationEnabled
    BY <1>1 DEF Aggregate
<1>2. CASE AggregationEnabled /\ r[l].type # "Write"
    BY <1>2 DEF Aggregate
<1>3. CASE AggregationEnabled /\ r[l].type = "Write"
    <2>1. l \in FileWrites(r, batch, r[l].file)
        BY <1>3 DEF FileWrites
    <2>2. PICK u \in MergeRuns(r, FileWrites(r, batch, r[l].file)) : l \in u
        BY <2>1, WritesRanged, RunsCover
    <2>3. u \in Aggregate(r, batch)
        BY <1>3, <2>2 DEF Aggregate, FileWrites
    <2> QED BY <2>2, <2>3
<1> QED BY <1>1, <1>2, <1>3

HasByte(a, b) == a.off <= b /\ b < End(a)

\* The bytes of a unit are those of its labels, each of them once.
LEMMA UnitBytes ==
    ASSUME NEW r, NEW batch, Ranged(r, batch), NEW u \in Aggregate(r, batch)
    PROVE  /\ \A l \in u : r[UnitId(r, u)].off <= r[l].off /\ End(r[l]) <= UnitEnd(r, u)
           /\ \A b \in Nat : r[UnitId(r, u)].off <= b /\ b < UnitEnd(r, u) =>
                /\ \E l \in u : HasByte(r[l], b)
                /\ \A l, m \in u : (HasByte(r[l], b) /\ HasByte(r[m], b)) => l = m
<1>1. Ranged(r, u) /\ u # {}
    BY UnitsWithin, RangedPart
<1>2. CASE \E l \in batch : u = {l}
    <2>1. PICK l : u = {l}
        BY <1>2
    <2>2. UnitId(r, u) = l /\ LastId(r, u) = l
        BY <1>1, <2>1, FirstLabel, LastLabel
    <2>3. UnitEnd(r, u) = End(r[l])
        BY <2>2 DEF UnitEnd, LastId
    <2>4. r[l].off \in Nat /\ r[l].len \in Nat
        BY <1>1, <2>1 DEF Ranged
    <2>5. \A m \in u : r[UnitId(r, u)].off <= r[m].off /\ End(r[m]) <= UnitEnd(r, u)
        <3>1. End(r[l]) <= End(r[l]) /\ r[l].off <= r[l].off
            BY <2>4 DEF End
        <3> QED BY <2>1, <2>2, <2>3, <3>1
    <2>6. \A b \in Nat : r[UnitId(r, u)].off <= b /\ b < UnitEnd(r, u) =>
                         HasByte(r[l], b)
        BY <2>2, <2>3 DEF HasByte
    <2> HIDE <2>2, <2>3
    <2> QED BY <2>1, <2>5, <2>6
<1>3. CASE \E f : u \in MergeRuns(r, FileWrites(r, batch, f))
    <2>1. PICK f : u \in MergeRuns(r, FileWrites(r, batch, f))
        BY <1>3
    <2>2. Ranged(r, FileWrites(r, batch, f))
        BY WritesRanged
    <2>3. \A l \in u : r[UnitId(r, u)].off <= r[l].off /\ End(r[l]) <= UnitEnd(r, u)
        BY <2>1, <2>2, RunHolds
    <2>4. ASSUME NEW b \in Nat, r[UnitId(r, u)].off <= b, b < UnitEnd(r, u)
          PROVE  \E l \in u : HasByte(r[l], b)
        BY <2>1, <2>2, <2>4, RunFull DEF HasByte
    <2>5. ASSUME NEW b \in Nat, NEW l \in u, NEW m \in u,
                 HasByte(r[l], b), HasByte(r[m], b)
          PROVE  l = m
        BY <2>1, <2>2, <2>5, RunOnce DEF HasByte
    <2>6. ASSUME NEW b \in Nat, r[UnitId(r, u)].off <= b, b < UnitEnd(r, u)
          PROVE  /\ \E l \in u : HasByte(r[l], b)
                 /\ \A l, m \in u : (HasByte(r[l], b) /\ HasByte(r[m], b)) => l = m
        BY <2>4, <2>5, <2>6
    <2> QED BY <2>3, <2>6
<1> QED BY <1>2, <1>3, UnitForms

\* The range of a unit, in terms of its first and last labels.
LEMMA UnitSpan ==
    ASSUME NEW r, NEW batch, Ranged(r, batch), NEW u \in Aggregate(r, batch)
    PROVE  /\ UnitId(r, u) \in u /\ UnitId(r, u) \in Nat
           /\ UnitRange(r, u).off \in Nat /\ UnitRange(r, u).len \in Nat
           /\ UnitRange(r, u).off = r[UnitId(r, u)].off
           /\ End(UnitRange(r, u)) = UnitEnd(r, u)
<1>1. Ranged(r, u) /\ u # {}
    BY UnitsWithin, RangedPart
<1>2. UnitId(r, u) \in u /\ LastId(r, u) \in u /\ UnitEnd(r, u) = End(r[LastId(r, u)])
    BY <1>1, FirstLabel, LastLabel DEF UnitEnd, LastId
<1>3. \A j \in u : j \in Nat /\ r[j].off \in Nat /\ r[j].len \in Nat
    BY <1>1 DEF Ranged
<1>4. End(r[UnitId(r, u)]) <= UnitEnd(r, u)
    BY <1>2, UnitBytes
<1>5. r[UnitId(r, u)].off \in Nat /\ UnitEnd(r, u) \in Nat /\ r[UnitId(r, u)].off <= UnitEnd(r, u)
    BY <1>2, <1>3, <1>4 DEF End
<1> QED BY <1>2, <1>3, <1>5 DEF UnitRange, End

-----------------------------------------------------------------------------
(* The supertasks of build_supertasks() *)

\* A unit is in one supertask if it conflicts with another one, ...
LEMMA SupertaskOf ==
    ASSUME NEW r, NEW units, NEW u \in Involved(r, units)
    PROVE  \E st \in BuildSupertasks(r, units) :
              st = {v \in Involved(r, units) : GroupKey(r, v) = GroupKey(r, u)} /\ u \in st
<1>1. {v \in Involved(r, units) : GroupKey(r, v) = GroupKey(r, u)} \in BuildSupertasks(r, units)
    BY DEF BuildSupertasks
<1> QED BY <1>1

\* ... and in none otherwise.
LEMMA SupertasksDisjoint ==
    ASSUME NEW r, NEW units, NEW s \in BuildSupertasks(r, units), NEW t \in BuildSupertasks(r, units)
    PROVE  /\ s \subseteq Involved(r, units) /\ s \subseteq units
           /\ s \cap t # {} => s = t
BY DEF BuildSupertasks, Involved
=============================================================================
