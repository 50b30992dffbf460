----------------------------- MODULE PosixProofs -----------------------------
(***************************************************************************)
(* The intercepted application, for any files, descriptors, threads and    *)
(* sizes: the cache is bounded, the catalog follows the stored data, and   *)
(* no written byte vanishes between the application and its label.         *)
(***************************************************************************)
EXTENDS Intercept, SequenceTheorems, FiniteSetTheorems, TLAPS

-----------------------------------------------------------------------------
(* Numbers and finite sets *)

\* A family of sets that, with all sets that lack one of its elements, has a set
\* itself.
Grows(G, D) ==
    \A s \in SUBSET D : (\A x \in s : s \ {x} \in G) => s \in G

\* Such a family has every finite set.
LEMMA SubsetInduction ==
    ASSUME NEW D, IsFiniteSet(D), NEW G, Grows(G, D)
    PROVE  \A s \in SUBSET D : s \in G
<1> DEFINE T == (SUBSET D) \ G
           R == StrictSubsetOrdering(D)
<1> SUFFICES ASSUME T # {} PROVE FALSE
    OBVIOUS
<1>1. T \subseteq FiniteSubsetsOf(D)
    BY FS_Subset DEF FiniteSubsetsOf
<1>2. IsWellFoundedOn(R, FiniteSubsetsOf(D))
    BY FS_StrictSubsetOrderingWellFounded
<1> HIDE DEF R
<1>3. PICK t \in T : \A s \in T : ~(<<s, t>> \in R)
    BY <1>1, <1>2, WFMin
<1>4. ASSUME NEW x \in t PROVE t \ {x} \in G
    <2>1. t \ {x} \in SUBSET D /\ t \in SUBSET D /\ t \ {x} \subseteq t /\ t \ {x} # t
        BY <1>3, <1>4
    <2>2. <<t \ {x}, t>> \in R
        BY <2>1 DEF R, StrictSubsetOrdering
    <2> QED BY <1>3, <2>1, <2>2
<1>5. t \in SUBSET D /\ t \notin G
    OBVIOUS
<1>6. \A x \in t : t \ {x} \in G
    BY <1>4
<1>7. (\A x \in t : t \ {x} \in G) => t \in G
    <2> HIDE DEF T
    <2> QED BY <1>5, Zenon DEF Grows
<1> QED BY <1>5, <1>6, <1>7

\* The least of a nonempty set of natural numbers.
LEMMA MinBounded ==
    ASSUME NEW n \in Nat, NEW S, S \subseteq 0 .. n, S # {}
    PROVE  \E x \in S : \A y \in S : x <= y
<1> DEFINE G == {T \in SUBSET S : T # {} => \E x \in T : \A y \in T : x <= y}
<1>1. IsFiniteSet(S)
    <2>1. IsFiniteSet(0 .. n)
        BY FS_Interval
    <2> QED BY <2>1, FS_Subset
<1>2. ASSUME NEW T \in SUBSET S, \A x \in T : T \ {x} \in G, T # {}
      PROVE  \E x \in T : \A y \in T : x <= y
    <2>1. PICK z \in T : TRUE
        BY <1>2
    <2>2. CASE T \ {z} = {}
        BY <2>1, <2>2
    <2>3. CASE T \ {z} # {}
        <3>1. PICK x \in T \ {z} : \A y \in T \ {z} : x <= y
            BY <1>2, <2>3
        <3>2. x \in 0 .. n /\ z \in 0 .. n
            BY <1>2
        <3>3. CASE x <= z
            BY <3>1, <3>3
        <3>4. CASE ~(x <= z)
            <4>1. \A y \in T : z <= y
                <5> SUFFICES ASSUME NEW y \in T PROVE z <= y
                    OBVIOUS
                <5>1. y \in 0 .. n
                    BY <1>2
                <5> QED BY <5>1, <3>1, <3>2, <3>4
            <4> QED BY <4>1
        <3> QED BY <3>3, <3>4
    <2> QED BY <2>2, <2>3
<1>3. Grows(G, S)
    BY <1>2 DEF Grows
<1> HIDE DEF G
<1>4. S \in G
    BY <1>1, <1>3, SubsetInduction
<1> QED BY <1>4 DEF G

LEMMA LeastOf ==
    ASSUME NEW S \in SUBSET Nat, S # {}
    PROVE  Min(S) \in S /\ \A y \in S : Min(S) <= y
<1>1. PICK n \in S : TRUE
    OBVIOUS
<1> DEFINE T == S \cap (0 .. n)
<1>2. PICK x \in T : \A y \in T : x <= y
    <2>1. n \in T /\ T \subseteq 0 .. n
        BY <1>1
    <2> QED BY <2>1, MinBounded
<1>3. \A y \in S : x <= y
    <2> SUFFICES ASSUME NEW y \in S PROVE x <= y
        OBVIOUS
    <2>1. CASE y <= n
        BY <1>2, <2>1
    <2>2. CASE ~(y <= n)
        BY <1>2, <2>2
    <2> QED BY <2>1, <2>2
<1>4. \E m \in S : \A y \in S : m <= y
    BY <1>2, <1>3
<1> QED BY <1>4 DEF Min

LEMMA GreatestOf ==
    ASSUME NEW n \in Nat, NEW S, S \subseteq 0 .. n, S # {}
    PROVE  Max(S) \in S /\ \A y \in S : Max(S) >= y
<1> DEFINE T == {n - x : x \in S}
<1>2. \A y \in S : n - y \in T
    OBVIOUS
<1>1. T \subseteq 0 .. n /\ T # {}
    <2>1. \A y \in S : n - y \in 0 .. n
        OBVIOUS
    <2>2. T # {}
        BY <1>2
    <2> QED BY <2>1, <2>2
<1>3. \A t \in T : \E x \in S : t = n - x
    BY Zenon
<1> HIDE DEF T
<1>4. PICK t \in T : \A y \in T : t <= y
    BY <1>1, MinBounded, Zenon
<1>5. PICK x \in S : t = n - x
    BY <1>3
<1>6. \A y \in S : x >= y
    <2> SUFFICES ASSUME NEW y \in S PROVE x >= y
        OBVIOUS
    <2>1. t <= n - y
        BY <1>2, <1>4
    <2> QED BY <2>1, <1>5
<1>7. \E m \in S : \A y \in S : m >= y
    BY <1>6
<1> QED BY <1>7 DEF Max

\* What holds of 0 and passes from each number to the next holds up to n.
LEMMA Reaches ==
    ASSUME NEW n \in Nat, NEW S, 0 \in S,
           \A k \in 0 .. n : k + 1 \in 0 .. n /\ k \in S => k + 1 \in S
    PROVE  \A k \in 0 .. n : k \in S
<1> SUFFICES ASSUME (0 .. n) \ S # {} PROVE FALSE
    OBVIOUS
<1>1. PICK m \in (0 .. n) \ S : \A y \in (0 .. n) \ S : m <= y
    <2>1. (0 .. n) \ S \subseteq 0 .. n
        OBVIOUS
    <2> QED BY <2>1, MinBounded
<1>2. m # 0 /\ m - 1 \in 0 .. n /\ m - 1 \in S
    BY <1>1
<1> QED BY <1>1, <1>2

-----------------------------------------------------------------------------
(* The bytes of a cache *)

\* The loop that MapThenSumSet runs over the regions rg.
Adds(f, rg) ==
    f = [s \in SUBSET DOMAIN rg |->
           IF s = {} THEN 0
           ELSE LET x == CHOOSE x \in s : TRUE IN rg[x].len + f[s \ {x}]]

Loop(rg) == CHOOSE f : Adds(f, rg)

Total(rg) == MapThenSumSet(LAMBDA o : rg[o].len, DOMAIN rg)

LEMMA TotalLoop == ASSUME NEW rg PROVE Total(rg) = Loop(rg)[DOMAIN rg]
BY DEF Total, Loop, Adds, MapThenSumSet, MapThenFoldSet

Some(s) == CHOOSE x \in s : TRUE

LEMMA SomeOf == ASSUME NEW s, s # {} PROVE Some(s) \in s
BY DEF Some

\* A function that satisfies the equation of the loop up to the set t.
AddsTo(f, rg, t) ==
    \A s \in SUBSET t :
      f[s] = IF s = {} THEN 0 ELSE rg[Some(s)].len + f[s \ {Some(s)}]

LEMMA LoopUnfolds ==
    ASSUME NEW rg, IsFiniteSet(DOMAIN rg)
    PROVE  AddsTo(Loop(rg), rg, DOMAIN rg)
<1> DEFINE D == DOMAIN rg
           Value(f, s) == IF s = {} THEN 0 ELSE rg[Some(s)].len + f[s \ {Some(s)}]
           Small(n) == {s \in SUBSET D : Cardinality(s) <= n}
           Good(n, f) == \A s \in Small(n) : f[s] = Value(f, s)
           N == Cardinality(D)
           S == {n \in 0 .. N : \E f : Good(n, f)}
<1>1. N \in Nat /\ \A s \in SUBSET D : IsFiniteSet(s) /\ Cardinality(s) \in 0 .. N
    BY FS_Subset, FS_CardinalityType
<1>2. \A s \in SUBSET D : s # {} =>
        /\ s \ {Some(s)} \in SUBSET D
        /\ Cardinality(s \ {Some(s)}) = Cardinality(s) - 1
    BY <1>1, SomeOf, FS_RemoveElement
<1>3. 0 \in S
    <2> DEFINE f == [s \in SUBSET D |-> 0]
    <2>1. Good(0, f)
        <3> SUFFICES ASSUME NEW s \in Small(0) PROVE f[s] = Value(f, s)
            OBVIOUS
        <3>1. s = {}
            BY <1>1, FS_EmptySet
        <3> QED BY <3>1
    <2> HIDE DEF f, Good
    <2> QED BY <1>1, <2>1
<1>4. ASSUME NEW n \in 0 .. N, n + 1 \in 0 .. N, n \in S PROVE n + 1 \in S
    <2>1. PICK f : Good(n, f)
        BY <1>4
    <2> DEFINE g == [s \in SUBSET D |-> IF Cardinality(s) = n + 1 THEN Value(f, s) ELSE f[s]]
    <2>2. Good(n + 1, g)
        <3> SUFFICES ASSUME NEW s \in Small(n + 1) PROVE g[s] = Value(g, s)
            OBVIOUS
        <3>1. s \in SUBSET D /\ Cardinality(s) \in 0 .. n + 1
            BY <1>1
        <3>2. g[s] = Value(f, s)
            <4>1. CASE Cardinality(s) = n + 1
                BY <3>1, <4>1
            <4>2. CASE Cardinality(s) # n + 1
                <5>1. s \in Small(n)
                    BY <3>1, <4>2
                <5> QED BY <2>1, <3>1, <4>2, <5>1
            <4> QED BY <4>1, <4>2
        <3>3. CASE s = {}
            BY <3>2, <3>3
        <3>4. CASE s # {}
            <4>1. g[s \ {Some(s)}] = f[s \ {Some(s)}]
                BY <1>2, <3>1, <3>4
            <4> QED BY <3>2, <3>4, <4>1
        <3> QED BY <3>3, <3>4
    <2> HIDE DEF g, Good
    <2> QED BY <1>4, <2>2
<1> HIDE DEF S
<1>5. N \in S
    <2>1. \A k \in 0 .. N : k \in S
        BY <1>1, <1>3, <1>4, Reaches
    <2> QED BY <1>1, <2>1
<1>6. PICK f : Good(N, f)
    BY <1>5 DEF S
<1> DEFINE h == [s \in SUBSET D |-> f[s]]
<1>7. \A s \in SUBSET D : h[s] = Value(h, s)
    <2> SUFFICES ASSUME NEW s \in SUBSET D PROVE h[s] = Value(h, s)
        OBVIOUS
    <2>1. s \in Small(N)
        BY <1>1
    <2>2. h[s] = Value(f, s)
        BY <1>6, <2>1
    <2> QED BY <1>2, <2>2
<1>8. h = [s \in SUBSET D |-> h[s]]
    OBVIOUS
<1> HIDE DEF h
<1>9. Adds(h, rg)
    BY <1>7, <1>8 DEF Adds, Some
<1>10. Adds(Loop(rg), rg)
    BY <1>9, Zenon DEF Loop
<1> QED BY <1>10 DEF Adds, AddsTo, Some

\* Regions whose lengths are natural numbers.
Measured(rg) == IsFiniteSet(DOMAIN rg) /\ \A o \in DOMAIN rg : rg[o].len \in Nat

LEMMA LoopNat ==
    ASSUME NEW rg, Measured(rg)
    PROVE  \A s \in SUBSET DOMAIN rg : Loop(rg)[s] \in Nat
<1> DEFINE D == DOMAIN rg
           f == Loop(rg)
           G == {s \in SUBSET D : f[s] \in Nat}
<1> HIDE DEF f
<1>1. \A s \in SUBSET D : f[s] = IF s = {} THEN 0 ELSE rg[Some(s)].len + f[s \ {Some(s)}]
    BY LoopUnfolds DEF Measured, AddsTo, f
<1>2. ASSUME NEW s \in SUBSET D, \A x \in s : s \ {x} \in G PROVE f[s] \in Nat
    <2>1. CASE s = {}
        <3>1. f[s] = 0
            BY <1>1, <2>1
        <3> HIDE DEF G
        <3> QED BY <3>1
    <2>2. CASE s # {}
        <3>1. Some(s) \in s
            BY <2>2, SomeOf
        <3>2. f[s \ {Some(s)}] \in Nat /\ rg[Some(s)].len \in Nat
            BY <1>2, <3>1 DEF Measured
        <3> QED BY <1>1, <2>2, <3>2
    <2> QED BY <2>1, <2>2
<1>3. Grows(G, D)
    BY <1>2 DEF Grows
<1> HIDE DEF G
<1>4. \A s \in SUBSET D : s \in G
    BY <1>3, SubsetInduction DEF Measured
<1> QED BY <1>4 DEF G, f

\* The sum does not depend on the order of the loop.
LEMMA LoopTake ==
    ASSUME NEW rg, Measured(rg)
    PROVE  \A s \in SUBSET DOMAIN rg : \A x \in s :
             Loop(rg)[s] = rg[x].len + Loop(rg)[s \ {x}]
<1> DEFINE D == DOMAIN rg
           f == Loop(rg)
           G == {s \in SUBSET D : \A x \in s : f[s] = rg[x].len + f[s \ {x}]}
<1> HIDE DEF f
<1>1. \A s \in SUBSET D : f[s] = IF s = {} THEN 0 ELSE rg[Some(s)].len + f[s \ {Some(s)}]
    BY LoopUnfolds DEF Measured, AddsTo, f
<1>2. ASSUME NEW s \in SUBSET D, \A x \in s : s \ {x} \in G, NEW x \in s
      PROVE  f[s] = rg[x].len + f[s \ {x}]
    <2>1. PICK y : y = Some(s)
        OBVIOUS
    <2>2. y \in s /\ f[s] = rg[y].len + f[s \ {y}]
        BY <1>1, <2>1, SomeOf
    <2>3. CASE x = y
        BY <2>2, <2>3
    <2>4. CASE x # y
        <3>1. f[s \ {y}] = rg[x].len + f[(s \ {y}) \ {x}]
            BY <1>2, <2>2, <2>4
        <3>2. f[s \ {x}] = rg[y].len + f[(s \ {x}) \ {y}]
            BY <1>2, <2>2, <2>4
        <3>3. (s \ {x}) \ {y} = (s \ {y}) \ {x}
            OBVIOUS
        <3>4. f[(s \ {y}) \ {x}] \in Nat /\ rg[x].len \in Nat /\ rg[y].len \in Nat
            BY <2>2, LoopNat DEF f, Measured
        <3> HIDE DEF G
        <3> QED BY <2>2, <3>1, <3>2, <3>3, <3>4
    <2> QED BY <2>3, <2>4
<1>3. Grows(G, D)
    BY <1>2 DEF Grows
<1> HIDE DEF G
<1>4. \A s \in SUBSET D : s \in G
    BY <1>3, SubsetInduction DEF Measured
<1> QED BY <1>4 DEF G, f

\* Nor on the regions outside the set.
LEMMA LoopSame ==
    ASSUME NEW rg, NEW new, Measured(rg), Measured(new),
           NEW t \in SUBSET DOMAIN rg, t \in SUBSET DOMAIN new,
           \A o \in t : rg[o].len = new[o].len
    PROVE  Loop(rg)[t] = Loop(new)[t]
<1> DEFINE f == Loop(rg)
           g == Loop(new)
           G == {s \in SUBSET t : f[s] = g[s]}
<1> HIDE DEF f, g
<1>1. \A s \in SUBSET t : f[s] = IF s = {} THEN 0 ELSE rg[Some(s)].len + f[s \ {Some(s)}]
    BY LoopUnfolds DEF Measured, AddsTo, f
<1>2. \A s \in SUBSET t : g[s] = IF s = {} THEN 0 ELSE new[Some(s)].len + g[s \ {Some(s)}]
    BY LoopUnfolds DEF Measured, AddsTo, g
<1>3. ASSUME NEW s \in SUBSET t, \A x \in s : s \ {x} \in G PROVE f[s] = g[s]
    <2>1. CASE s = {}
        BY <1>1, <1>2, <2>1
    <2>2. CASE s # {}
        <3>1. Some(s) \in s
            BY <2>2, SomeOf
        <3>2. f[s \ {Some(s)}] = g[s \ {Some(s)}] /\ rg[Some(s)].len = new[Some(s)].len
            BY <1>3, <3>1
        <3> QED BY <1>1, <1>2, <2>2, <3>2
    <2> QED BY <2>1, <2>2
<1>4. Grows(G, t)
    BY <1>3 DEF Grows
<1>5. IsFiniteSet(t)
    BY FS_Subset DEF Measured
<1> HIDE DEF G
<1>6. t \in G
    BY <1>4, <1>5, SubsetInduction
<1> QED BY <1>6 DEF G, f, g

LEMMA TotalNat == ASSUME NEW rg, Measured(rg) PROVE Total(rg) \in Nat
BY LoopNat, TotalLoop

LEMMA TotalEmpty == ASSUME NEW rg, DOMAIN rg = {} PROVE Total(rg) = 0
<1>1. IsFiniteSet(DOMAIN rg)
    BY FS_EmptySet
<1> QED BY <1>1, LoopUnfolds, TotalLoop DEF AddsTo

\* Regions that hold bytes have a total.
LEMMA TotalPositive ==
    ASSUME NEW rg, Measured(rg), NEW x \in DOMAIN rg, rg[x].len >= 1
    PROVE  Total(rg) >= 1
<1>1. Total(rg) = rg[x].len + Loop(rg)[DOMAIN rg \ {x}]
    BY LoopTake, TotalLoop
<1>2. Loop(rg)[DOMAIN rg \ {x}] \in Nat
    BY LoopNat
<1> QED BY <1>1, <1>2 DEF Measured

\* A region of the given length stored at an offset.
Puts(new, rg, off, len) ==
    /\ DOMAIN new = DOMAIN rg \cup {off} /\ new[off].len = len
    /\ \A o \in DOMAIN rg \ {off} : new[o].len = rg[o].len

\* What that does to the total.
LEMMA TotalStored ==
    ASSUME NEW rg, Measured(rg), NEW off, NEW len \in Nat, NEW new, Puts(new, rg, off, len)
    PROVE  /\ Measured(new)
           /\ Total(new) = Total(rg) - (IF off \in DOMAIN rg THEN rg[off].len ELSE 0) + len
<1> USE DEF Puts
<1>2. Measured(new)
    <2>1. IsFiniteSet(DOMAIN new)
        BY FS_AddElement DEF Measured
    <2>2. \A o \in DOMAIN new : new[o].len \in Nat
        BY DEF Measured
    <2> QED BY <2>1, <2>2 DEF Measured
<1>3. Total(new) = len + Loop(new)[DOMAIN rg \ {off}]
    <2>1. DOMAIN new \ {off} = DOMAIN rg \ {off} /\ off \in DOMAIN new
        OBVIOUS
    <2>2. Loop(new)[DOMAIN new] = new[off].len + Loop(new)[DOMAIN new \ {off}]
        <3>1. \A s \in SUBSET DOMAIN new : \A x \in s :
                Loop(new)[s] = new[x].len + Loop(new)[s \ {x}]
            BY <1>2, LoopTake
        <3>2. DOMAIN new \in SUBSET DOMAIN new
            OBVIOUS
        <3> QED BY <2>1, <3>1, <3>2
    <2> QED BY <2>1, <2>2, TotalLoop
<1>4. Loop(new)[DOMAIN rg \ {off}] = Loop(rg)[DOMAIN rg \ {off}]
    BY <1>2, LoopSame
<1>5. Loop(rg)[DOMAIN rg \ {off}] \in Nat
    BY LoopNat
<1>6. CASE off \in DOMAIN rg
    <2>1. Total(rg) = rg[off].len + Loop(rg)[DOMAIN rg \ {off}] /\ rg[off].len \in Nat
        BY <1>6, LoopTake, TotalLoop DEF Measured
    <2> QED BY <1>2, <1>3, <1>4, <1>5, <1>6, <2>1
<1>7. CASE off \notin DOMAIN rg
    <2>1. DOMAIN rg \ {off} = DOMAIN rg
        BY <1>7
    <2> QED BY <1>2, <1>3, <1>4, <1>5, <1>7, <2>1, TotalLoop
<1> QED BY <1>6, <1>7

-----------------------------------------------------------------------------
(* The regions of a cache as a sequence *)

LEMMA FiniteGreatest ==
    ASSUME NEW S \in SUBSET Nat, IsFiniteSet(S), S # {}
    PROVE  \E x \in S : \A y \in S : y <= x
<1> DEFINE G == {T \in SUBSET S : T # {} => \E x \in T : \A y \in T : y <= x}
<1>1. ASSUME NEW T \in SUBSET S, \A x \in T : T \ {x} \in G, T # {}
      PROVE  \E x \in T : \A y \in T : y <= x
    <2>1. PICK z \in T : TRUE
        BY <1>1
    <2>2. CASE T \ {z} = {}
        <3>1. \A y \in T : y = z
            BY <2>2
        <3>2. z <= z
            BY <1>1
        <3> QED BY <2>1, <3>1, <3>2
    <2>3. CASE T \ {z} # {}
        <3>1. PICK x \in T \ {z} : \A y \in T \ {z} : y <= x
            BY <1>1, <2>3
        <3>2. x \in Nat /\ z \in Nat
            BY <1>1
        <3>3. CASE z <= x
            BY <3>1, <3>3
        <3>4. CASE ~(z <= x)
            <4>1. \A y \in T : y <= z
                <5> SUFFICES ASSUME NEW y \in T PROVE y <= z
                    OBVIOUS
                <5>1. y \in Nat
                    BY <1>1
                <5> QED BY <5>1, <3>1, <3>2, <3>4
            <4> QED BY <4>1
        <3> QED BY <3>3, <3>4
    <2> QED BY <2>2, <2>3
<1>2. Grows(G, S)
    BY <1>1 DEF Grows
<1> HIDE DEF G
<1>3. S \in G
    BY <1>2, SubsetInduction
<1> QED BY <1>3 DEF G

\* An ascending enumeration of a set of n numbers.
Climbs(f, n) == \A j, k \in 1 .. n : j < k => f[j] < f[k]

LEMMA AscendingExists ==
    ASSUME NEW S \in SUBSET Nat, IsFiniteSet(S)
    PROVE  \E f \in [1 .. Cardinality(S) -> S] : Climbs(f, Cardinality(S))
<1> DEFINE G == {T \in SUBSET S : \E f \in [1 .. Cardinality(T) -> T] : Climbs(f, Cardinality(T))}
<1>1. ASSUME NEW T \in SUBSET S, \A x \in T : T \ {x} \in G PROVE T \in G
    <2>1. IsFiniteSet(T) /\ Cardinality(T) \in Nat
        BY <1>1, FS_Subset, FS_CardinalityType
    <2>2. CASE T = {}
        <3>1. Cardinality(T) = 0
            BY <2>2, FS_EmptySet
        <3>2. [i \in 1 .. 0 |-> 0] \in [1 .. 0 -> T] /\ Climbs([i \in 1 .. 0 |-> 0], 0)
            BY DEF Climbs
        <3> QED BY <1>1, <3>1, <3>2
    <2>3. CASE T # {}
        <3>1. PICK m \in T : \A y \in T : y <= m
            BY <1>1, <2>1, <2>3, FiniteGreatest
        <3>2. PICK n \in Nat : n = Cardinality(T)
            BY <2>1
        <3>3. Cardinality(T \ {m}) = n - 1 /\ n - 1 \in Nat
            <4>1. Cardinality(T \ {m}) = n - 1
                BY <2>1, <3>1, <3>2, FS_RemoveElement
            <4>2. IsFiniteSet(T \ {m})
                BY <2>1, FS_RemoveElement
            <4> QED BY <4>1, <4>2, FS_CardinalityType
        <3>4. PICK f \in [1 .. n - 1 -> T \ {m}] : Climbs(f, n - 1)
            BY <1>1, <3>1, <3>3
        <3>5. PICK g : g = [i \in 1 .. n |-> IF i = n THEN m ELSE f[i]]
            OBVIOUS
        <3>6. g \in [1 .. n -> T]
            BY <3>3, <3>4, <3>5, <3>1
        <3>7. Climbs(g, n)
            <4> SUFFICES ASSUME NEW j \in 1 .. n, NEW k \in 1 .. n, j < k PROVE g[j] < g[k]
                BY DEF Climbs
            <4>1. j \in 1 .. n - 1 /\ g[j] = f[j] /\ f[j] \in T \ {m}
                BY <3>3, <3>4, <3>5
            <4>2. CASE k = n
                <5>1. f[j] \in Nat /\ m \in Nat /\ f[j] <= m /\ f[j] # m /\ g[k] = m
                    BY <1>1, <3>1, <3>5, <4>1, <4>2
                <5> QED BY <4>1, <5>1
            <4>3. CASE k # n
                <5>1. k \in 1 .. n - 1 /\ g[k] = f[k]
                    BY <3>3, <3>5, <4>3
                <5> QED BY <3>4, <4>1, <5>1 DEF Climbs
            <4> QED BY <4>2, <4>3
        <3> QED BY <1>1, <3>2, <3>6, <3>7
    <2> QED BY <2>2, <2>3
<1>2. Grows(G, S)
    BY <1>1 DEF Grows
<1> HIDE DEF G
<1>3. S \in G
    BY <1>2, SubsetInduction
<1> QED BY <1>3 DEF G

LEMMA AscendingOf ==
    ASSUME NEW S \in SUBSET Nat, IsFiniteSet(S)
    PROVE  /\ Cardinality(S) \in Nat
           /\ Ascending(S) \in [1 .. Cardinality(S) -> S]
           /\ Len(Ascending(S)) = Cardinality(S)
           /\ \A x \in S : \E i \in 1 .. Cardinality(S) : Ascending(S)[i] = x
<1>1. PICK n \in Nat : n = Cardinality(S)
    BY FS_CardinalityType
<1>2. PICK g \in [1 .. n -> S] : Climbs(g, n)
    BY <1>1, AscendingExists
<1>3. g \in SetToSeqs(S) /\ \A j, k \in DOMAIN g : j < k => g[j] < g[k]
    <2>1. \A j, k \in 1 .. n : j # k => g[j] # g[k]
        <3> SUFFICES ASSUME NEW j \in 1 .. n, NEW k \in 1 .. n, j # k, g[j] = g[k] PROVE FALSE
            OBVIOUS
        <3>1. g[j] \in S /\ g[k] \in S /\ (j < k \/ k < j)
            BY <1>2
        <3>2. g[j] < g[k] \/ g[k] < g[j]
            BY <1>2, <3>1 DEF Climbs
        <3>3. g[j] \in Nat /\ g[k] \in Nat
            BY <3>1
        <3> QED BY <3>2, <3>3
    <2>2. DOMAIN g = 1 .. n
        BY <1>2
    <2>3. g \in SetToSeqs(S)
        BY <1>1, <1>2, <2>1 DEF SetToSeqs
    <2> QED BY <1>2, <2>2, <2>3 DEF Climbs
<1>4. PICK a : a = Ascending(S)
    OBVIOUS
<1>5. a \in SetToSeqs(S)
    BY <1>3, <1>4, Zenon DEF Ascending
<1>6. a \in [1 .. n -> S] /\ \A i, j \in 1 .. n : i # j => a[i] # a[j]
    BY <1>1, <1>5 DEF SetToSeqs
<1>7. a \in Injection(1 .. n, S)
    BY <1>6 DEF Injection, IsInjective
<1>8. Cardinality(1 .. n) = n
    BY FS_Interval
<1>9. a \in Surjection(1 .. n, S)
    BY <1>1, <1>7, <1>8, FS_Injection
<1>10. \A x \in S : \E i \in 1 .. n : a[i] = x
    BY <1>9 DEF Surjection
<1> QED BY <1>1, <1>4, <1>6, <1>10

\* What FlushRegions makes of the region at an offset.
RegionAt(c, o) ==
    [file |-> c.filepath, off |-> o, len |-> c.regions[o].len, id |-> c.regions[o].id]

Held(c) == {RegionAt(c, o) : o \in DOMAIN c.regions}

LEMMA FlushRegionsOf ==
    ASSUME NEW c, DOMAIN c.regions \in SUBSET Nat, IsFiniteSet(DOMAIN c.regions)
    PROVE  /\ FlushRegions(c) \in Seq(Held(c))
           /\ Range(FlushRegions(c)) = Held(c)
           /\ FlushRegions(c) = <<>> <=> DOMAIN c.regions = {}
<1>1. PICK D : D = DOMAIN c.regions
    OBVIOUS
<1>2. PICK n \in Nat : n = Cardinality(D)
    BY <1>1, FS_CardinalityType
<1>3. PICK a : a = Ascending(D)
    OBVIOUS
<1>4. a \in [1 .. n -> D] /\ Len(a) = n /\ \A x \in D : \E i \in 1 .. n : a[i] = x
    BY <1>1, <1>2, <1>3, AscendingOf
<1>5. PICK f : f = FlushRegions(c)
    OBVIOUS
<1>6. f = [i \in 1 .. n |-> RegionAt(c, a[i])]
    BY <1>1, <1>3, <1>4, <1>5 DEF FlushRegions, RegionAt
<1>7. \A i \in 1 .. n : RegionAt(c, a[i]) \in Held(c)
    BY <1>1, <1>4 DEF Held
<1>8. f \in [1 .. n -> Held(c)]
    BY <1>6, <1>7
<1>9. f \in Seq(Held(c)) /\ Len(f) = n
    BY <1>8
<1>10. Range(f) = Held(c)
    <2>1. Range(f) = {f[i] : i \in 1 .. n}
        BY <1>8 DEF Range
    <2>2. ASSUME NEW r \in Held(c) PROVE r \in Range(f)
        <3>1. PICK o \in D : r = RegionAt(c, o)
            BY <1>1, <2>2 DEF Held
        <3>2. PICK i \in 1 .. n : a[i] = o
            BY <1>4, <3>1
        <3> QED BY <1>6, <2>1, <3>1, <3>2
    <2>3. ASSUME NEW r \in Range(f) PROVE r \in Held(c)
        BY <1>6, <1>7, <2>1, <2>3
    <2> QED BY <2>2, <2>3
<1>11. f = <<>> <=> D = {}
    <2>1. n = 0 <=> D = {}
        BY <1>1, <1>2, FS_EmptySet
    <2>2. f = <<>> <=> Len(f) = 0
        BY <1>9, EmptySeq
    <2> QED BY <1>9, <2>1, <2>2
<1> QED BY <1>1, <1>5, <1>9, <1>10, <1>11

LEMMA RangeOfConcat ==
    ASSUME NEW R, NEW s \in Seq(R), NEW t \in Seq(R)
    PROVE  s \o t \in Seq(R) /\ Range(s \o t) = Range(s) \cup Range(t)
<1>1. /\ s \o t \in Seq(R) /\ Len(s \o t) = Len(s) + Len(t)
      /\ \A i \in 1 .. Len(s) + Len(t) :
           (s \o t)[i] = IF i <= Len(s) THEN s[i] ELSE t[i - Len(s)]
    OBVIOUS
<1>2. PICK u \in Seq(R) : u = s \o t
    BY <1>1
<1>3. /\ Range(u) = {u[i] : i \in 1 .. Len(u)}
      /\ Range(s) = {s[i] : i \in 1 .. Len(s)}
      /\ Range(t) = {t[i] : i \in 1 .. Len(t)}
    BY DEF Range
<1>4. Len(u) = Len(s) + Len(t) /\ Len(s) \in Nat /\ Len(t) \in Nat
    BY <1>1, <1>2
<1>5. \A i \in 1 .. Len(u) : u[i] = IF i <= Len(s) THEN s[i] ELSE t[i - Len(s)]
    BY <1>1, <1>2
<1>6. ASSUME NEW r \in Range(u) PROVE r \in Range(s) \cup Range(t)
    <2>1. PICK i \in 1 .. Len(u) : r = u[i]
        BY <1>3, <1>6
    <2>2. CASE i <= Len(s)
        BY <1>3, <1>4, <1>5, <2>1, <2>2
    <2>3. CASE ~(i <= Len(s))
        <3>1. i - Len(s) \in 1 .. Len(t) /\ u[i] = t[i - Len(s)]
            BY <1>4, <1>5, <2>1, <2>3
        <3> QED BY <1>3, <2>1, <3>1
    <2> QED BY <2>2, <2>3
<1>7. ASSUME NEW r \in Range(s) PROVE r \in Range(u)
    <2>1. PICK i \in 1 .. Len(s) : r = s[i]
        BY <1>3, <1>7
    <2>2. i \in 1 .. Len(u) /\ u[i] = s[i]
        BY <1>4, <1>5, <2>1
    <2> QED BY <1>3, <2>1, <2>2
<1>8. ASSUME NEW r \in Range(t) PROVE r \in Range(u)
    <2>1. PICK i \in 1 .. Len(t) : r = t[i]
        BY <1>3, <1>8
    <2>2. i + Len(s) \in 1 .. Len(u) /\ ~(i + Len(s) <= Len(s)) /\ (i + Len(s)) - Len(s) = i
        BY <1>4, <2>1
    <2>3. u[i + Len(s)] = t[i]
        BY <1>5, <2>2
    <2> QED BY <1>3, <2>1, <2>2, <2>3
<1> QED BY <1>1, <1>2, <1>6, <1>7, <1>8

\* The function with which FlattenSeq is computed.
Flattens(f, seqs) ==
    f = [i \in 1 .. Len(seqs) |-> IF i = 1 THEN seqs[i] ELSE f[i - 1] \o seqs[i]]

LEMMA FlattenUnfolds ==
    ASSUME NEW R, NEW n \in Nat, NEW seqs, Len(seqs) = n, \A i \in 1 .. n : seqs[i] \in Seq(R)
    PROVE  \E f : Flattens(f, seqs)
<1> DEFINE Good(k, f) == \A i \in 1 .. k : f[i] = IF i = 1 THEN seqs[i] ELSE f[i - 1] \o seqs[i]
           S == {k \in 0 .. n : \E f : Good(k, f)}
<1>1. 0 \in S
    OBVIOUS
<1>2. ASSUME NEW k \in 0 .. n, k + 1 \in 0 .. n, k \in S PROVE k + 1 \in S
    <2>1. PICK f : Good(k, f)
        BY <1>2
    <2>2. PICK g : g = [i \in 1 .. k + 1 |->
                          IF i = k + 1 THEN IF i = 1 THEN seqs[i] ELSE f[i - 1] \o seqs[i]
                          ELSE f[i]]
        OBVIOUS
    <2>3. Good(k + 1, g)
        <3> SUFFICES ASSUME NEW i \in 1 .. k + 1
                     PROVE g[i] = IF i = 1 THEN seqs[i] ELSE g[i - 1] \o seqs[i]
            OBVIOUS
        <3>1. i # 1 => g[i - 1] = f[i - 1]
            BY <2>2
        <3>2. CASE i = k + 1
            BY <2>2, <3>1, <3>2
        <3>3. CASE i # k + 1
            <4>1. i \in 1 .. k /\ g[i] = f[i]
                BY <2>2, <3>3
            <4> QED BY <2>1, <3>1, <4>1
        <3> QED BY <3>2, <3>3
    <2> HIDE DEF Good
    <2> QED BY <1>2, <2>3
<1> HIDE DEF S
<1>3. n \in S
    <2>1. \A k \in 0 .. n : k \in S
        BY <1>1, <1>2, Reaches
    <2> QED BY <2>1
<1>4. PICK f : Good(n, f)
    BY <1>3 DEF S
<1>5. PICK g : g = [i \in 1 .. n |-> f[i]]
    OBVIOUS
<1>6. \A i \in 1 .. n : g[i] = IF i = 1 THEN seqs[i] ELSE g[i - 1] \o seqs[i]
    <2> SUFFICES ASSUME NEW i \in 1 .. n
                 PROVE g[i] = IF i = 1 THEN seqs[i] ELSE g[i - 1] \o seqs[i]
        OBVIOUS
    <2>1. g[i] = f[i] /\ (i # 1 => g[i - 1] = f[i - 1])
        BY <1>5
    <2> QED BY <1>4, <2>1
<1>7. Flattens(g, seqs)
    BY <1>5, <1>6 DEF Flattens
<1> QED BY <1>7

LEMMA FlattenOf ==
    ASSUME NEW R, NEW n \in Nat, NEW seqs, Len(seqs) = n, n = 0 => seqs = <<>>,
           \A i \in 1 .. n : seqs[i] \in Seq(R)
    PROVE  /\ FlattenSeq(seqs) \in Seq(R)
           /\ Range(FlattenSeq(seqs)) = UNION {Range(seqs[i]) : i \in 1 .. n}
<1>1. CASE n = 0
    <2>1. FlattenSeq(seqs) = <<>>
        BY <1>1 DEF FlattenSeq
    <2>2. Range(<<>>) = {}
        BY DEF Range
    <2> QED BY <1>1, <2>1, <2>2
<1>2. CASE n # 0
    <2>1. PICK f : f = CHOOSE h : Flattens(h, seqs)
        OBVIOUS
    <2>2. Flattens(f, seqs)
        BY <2>1, FlattenUnfolds, Zenon
    <2>3. FlattenSeq(seqs) = f[n]
        BY <1>2, <2>1 DEF FlattenSeq, Flattens
    <2>4. \A i \in 1 .. n : f[i] = IF i = 1 THEN seqs[i] ELSE f[i - 1] \o seqs[i]
        BY <2>2 DEF Flattens
    <2> DEFINE Below(k) == UNION {Range(seqs[i]) : i \in 1 .. k}
               S == {k \in 0 .. n : k # 0 => f[k] \in Seq(R) /\ Range(f[k]) = Below(k)}
    <2>5. \A k \in 1 .. n : Below(k) = Below(k - 1) \cup Range(seqs[k])
        <3> SUFFICES ASSUME NEW k \in 1 .. n PROVE Below(k) = Below(k - 1) \cup Range(seqs[k])
            OBVIOUS
        <3>1. 1 .. k = (1 .. k - 1) \cup {k}
            OBVIOUS
        <3> QED BY <3>1
    <2>6. Below(0) = {}
        OBVIOUS
    <2> HIDE DEF Below
    <2>7. 0 \in S
        OBVIOUS
    <2>8. ASSUME NEW k \in 0 .. n, k + 1 \in 0 .. n, k \in S PROVE k + 1 \in S
        <3>1. k + 1 \in 1 .. n /\ seqs[k + 1] \in Seq(R) /\ (k + 1) - 1 = k
            BY <2>8
        <3>2. Below(k + 1) = Below(k) \cup Range(seqs[k + 1])
            BY <2>5, <3>1
        <3>3. CASE k = 0
            <4>1. f[k + 1] = seqs[k + 1]
                BY <2>4, <3>1, <3>3
            <4>2. Below(k + 1) = Range(seqs[k + 1])
                BY <2>6, <3>2, <3>3
            <4> QED BY <3>1, <4>1, <4>2
        <3>4. CASE k # 0
            <4>1. f[k + 1] = f[k] \o seqs[k + 1]
                <5>1. k + 1 # 1
                    BY <3>4
                <5>2. f[k + 1] = f[(k + 1) - 1] \o seqs[k + 1]
                    BY <2>4, <3>1, <5>1
                <5> QED BY <3>1, <5>2
            <4>2. f[k] \in Seq(R) /\ Range(f[k]) = Below(k)
                BY <2>8, <3>4
            <4>3. f[k] \o seqs[k + 1] \in Seq(R)
                  /\ Range(f[k] \o seqs[k + 1]) = Range(f[k]) \cup Range(seqs[k + 1])
                BY <3>1, <4>2, RangeOfConcat
            <4>4. f[k + 1] \in Seq(R) /\ Range(f[k + 1]) = Below(k + 1)
                BY <3>2, <4>1, <4>2, <4>3
            <4> QED BY <2>8, <4>4
        <3> QED BY <3>3, <3>4
    <2> HIDE DEF S
    <2>9. n \in S
        <3>1. \A k \in 0 .. n : k \in S
            BY <2>7, <2>8, Reaches
        <3> QED BY <3>1
    <2> QED BY <1>2, <2>3, <2>9 DEF S, Below
<1> QED BY <1>1, <1>2

-----------------------------------------------------------------------------
(* The inductive invariant *)

Ops == {"idle", "write", "read", "fsync", "close", "timer", "exit"}

Steps == {"publish", "track", "resize", "flush", "closed"}

CallRecords ==
    [op : Ops, step : Steps, fd : Fds \cup {0}, fs : Nat, todo : Seq(Regions),
     cur : 0 .. Size, put : [off : Nat, len : Nat, id : Nat], move : BOOLEAN,
     next : {"return", "fclose", "dup2"}, oldfd : Fds \cup {0}]

\* Regions lie inside the file, and only writes made so far have regions.
Fits(r, w) == r.off + r.len <= Size /\ r.id <= w

CallOK(c, w) ==
    /\ c \in CallRecords
    /\ \A r \in Range(c.todo) : Fits(r, w)
    /\ c.put.off + c.put.len <= Size

\* A small write, as the cache keeps it.
CachedOK(o, x, w) ==
    /\ x.len \in 1 .. Size /\ x.id \in 1 .. w
    /\ <<o, x.len>> \in Extents /\ x.len < LabelMinSize

HoldsOK(c, w) ==
    /\ c = [filepath |-> c.filepath, regions |-> c.regions, total_bytes |-> c.total_bytes]
    /\ c.filepath \in Files \cup {NoFile}
    /\ DOMAIN c.regions \subseteq Bytes
    /\ \A o \in DOMAIN c.regions : CachedOK(o, c.regions[o], w)
    /\ c.filepath = NoFile => DOMAIN c.regions = {}
    /\ c.total_bytes = Total(c.regions)

CacheOK(c, w) == HoldsOK(c, w) /\ c.total_bytes < LabelMinSize

States == [file : Files \cup {NoFile}, sync : BOOLEAN, offset : 0 .. Size, refs : Nat]

TableInv ==
    /\ table \in [Fds -> 0 .. MaxOpens]
    /\ kernel \subseteq Fds
    /\ states \in [1 .. MaxOpens -> States]
    /\ \A s \in 1 .. MaxOpens : states[s].refs # 0 => states[s].file \in Files

\* A FileState counts at least the descriptors that lead to it.
RefInv ==
    \A s \in 1 .. MaxOpens : Cardinality({fd \in Fds : table[fd] = s}) <= states[s].refs

DataInv ==
    /\ meta \in [Files -> [exists : BOOLEAN, size : 0 .. Size]]
    /\ store \in [Files -> [Bytes -> 0 .. MaxWrites]]
    /\ latest \in [Files -> [Bytes -> 0 .. MaxWrites]]
    /\ owed \subseteq Files \X Bytes
    /\ torn \subseteq Files \cup {NoFile}
    /\ writes \in 0 .. MaxWrites /\ faults \in 0 .. MaxFaults

CachesInv == DOMAIN caches = Fds /\ \A fd \in Fds : CacheOK(caches[fd], writes)

\* What the place of a call in its code says about it.
ShapeOK(c) ==
    /\ c.op = "idle" => c = IdleCall
    /\ c.step \in {"flush", "closed"} => c.op = "close" /\ c.todo = <<>>
    /\ c.step \in {"track", "resize"} => c.todo # <<>>
    /\ c.op = "close" => c.fd \in Fds
    /\ c.op = "close" /\ c.next = "dup2" => c.oldfd \in Fds

CallsInv ==
    DOMAIN call = Actors /\ \A a \in Actors : CallOK(call[a], writes) /\ ShapeOK(call[a])

TypeInv == TableInv /\ RefInv /\ DataInv /\ CachesInv /\ CallsInv

\* The thread that exits is alone, and has taken all there is.
ExitOK(t) ==
    call[t].op = "exit" =>
      /\ \A u \in Threads \ {t} : call[u].op = "idle"
      /\ \A fd \in Fds : DOMAIN caches[fd].regions = {}

\* The cache of a descriptor belongs to the file it leads to.
PathOK(fd) ==
    table[fd] # 0 =>
      \/ caches[fd].filepath \in {NoFile, FileOf(fd)}
      \/ caches[fd].filepath \in torn /\ FileOf(fd) \in torn

\* A close may still flush and evict the cache of a number that was reused.
CloseOK(t) ==
    call[t].op = "close" /\ call[t].step # "closed" =>
      LET fd == call[t].fd IN
      /\ table[fd] # 0 => FileOf(fd) \in torn /\ caches[fd].filepath \in torn \cup {NoFile}
      /\ call[t].step # "flush" =>
           DOMAIN caches[fd].regions = {} \/ caches[fd].filepath \in torn

PathInv ==
    /\ \A t \in Threads : ExitOK(t) /\ CloseOK(t)
    /\ \A fd \in Fds : PathOK(fd)

Kept(p) ==
    \/ \E fd \in Fds : \E r \in Held(caches[fd]) : Holds(r, p[1], p[2])
    \/ \E a \in Actors : \E r \in Range(call[a].todo) : Holds(r, p[1], p[2])

\* Between storing a region and tracking it its owner owes nothing for it.
Settled(a) ==
    call[a].step \in {"track", "resize"} =>
      \A p \in owed : p[1] \notin torn => ~Holds(Head(call[a].todo), p[1], p[2])

OwedInv ==
    /\ \A p \in owed : p[1] \notin torn => Kept(p)
    /\ \A a \in Actors : Settled(a)

\* Who has stored a region of a file and not yet tracked it.
Busy(a, file) == call[a].step \in {"track", "resize"} /\ Head(call[a].todo).file = file

Resizing(a, file) == call[a].step = "resize" /\ Head(call[a].todo).file = file

EndOf(r) == r.off + r.len

SizeOK(file) ==
    /\ \A b \in Bytes : store[file][b] # 0 =>
         \/ b + 1 <= meta[file].size
         \/ \E a \in Actors : Busy(a, file) /\ b + 1 <= EndOf(Head(call[a].todo))
    /\ meta[file].size # 0 => meta[file].exists /\ store[file][meta[file].size - 1] # 0
    /\ \A a \in Actors : Busy(a, file) =>
         \A b \in Extent(Head(call[a].todo).off, Head(call[a].todo).len) : store[file][b] # 0
    /\ \A a \in Actors : Resizing(a, file) =>
         /\ call[a].cur = meta[file].size /\ meta[file].exists
         /\ \A u \in Actors : Resizing(u, file) => u = a

SizeInv == \A file \in Files \ (torn \cup loose) : SizeOK(file)

\* Small writes at one offset have one length.  The cache replaces a region by
\* the next one at its offset, and loses the end of a longer one.
OneLength ==
    \A x, y \in Extents :
      x[1] = y[1] /\ x[2] < LabelMinSize /\ y[2] < LabelMinSize => x[2] = y[2]

-----------------------------------------------------------------------------
(* What the operations of the cache preserve *)

LEMMA Numbers ==
    /\ Size \in Nat /\ MaxOpens \in Nat /\ MaxWrites \in Nat /\ MaxFaults \in Nat
    /\ LabelMinSize \in Nat /\ LabelMinSize >= 1
    /\ Bytes \subseteq Nat /\ IsFiniteSet(Bytes)
<1>1. IsFiniteSet(0 .. Size - 1)
    BY PosixAssumption, FS_Interval
<1> QED BY <1>1, PosixAssumption DEF Bytes

LEMMA ExtentsOK ==
    ASSUME NEW off, NEW len, <<off, len>> \in Extents \cup ReadExtents
    PROVE  /\ off \in Nat /\ len \in 1 .. Size /\ off + len <= Size /\ off \in Bytes
           /\ Extent(off, len) \subseteq Bytes /\ off \in Extent(off, len)
<1>1. <<off, len>> \in (0 .. Size) \X (1 .. Size) /\ <<off, len>>[1] + <<off, len>>[2] <= Size
    BY PosixAssumption
<1>2. off \in 0 .. Size /\ len \in 1 .. Size /\ off + len <= Size
    BY <1>1
<1> QED BY <1>2, Numbers DEF Bytes, Extent

LEMMA ExtentEnd ==
    ASSUME NEW off \in Nat, NEW len \in Nat, NEW size \in Nat, len >= 1, off + len <= size
    PROVE  /\ off + len \in 1 .. size /\ off + len - 1 \in Extent(off, len)
           /\ \A b \in Extent(off, len) : b \in Nat /\ b + 1 <= off + len
<1>1. off + len \in 1 .. size
    OBVIOUS
<1>2. off + len - 1 \in Extent(off, len)
    BY DEF Extent
<1>3. \A b \in Extent(off, len) : b \in Nat /\ b + 1 <= off + len
    BY DEF Extent
<1> QED BY <1>1, <1>2, <1>3

LEMMA HoldsMeasured ==
    ASSUME NEW w, NEW c, HoldsOK(c, w)
    PROVE  /\ Measured(c.regions) /\ DOMAIN c.regions \in SUBSET Nat
           /\ IsFiniteSet(DOMAIN c.regions)
<1>1. IsFiniteSet(DOMAIN c.regions) /\ DOMAIN c.regions \in SUBSET Nat
    BY Numbers, FS_Subset DEF HoldsOK
<1>2. ASSUME NEW o \in DOMAIN c.regions PROVE c.regions[o].len \in Nat
    <2>1. CachedOK(o, c.regions[o], w)
        BY DEF HoldsOK
    <2> QED BY <2>1, Numbers DEF CachedOK
<1> QED BY <1>1, <1>2 DEF Measured

LEMMA HoldsMono ==
    ASSUME NEW w \in Nat, NEW v \in Nat, w <= v, NEW c, HoldsOK(c, w)
    PROVE  HoldsOK(c, v)
<1>1. ASSUME NEW o \in DOMAIN c.regions PROVE CachedOK(o, c.regions[o], v)
    <2>1. CachedOK(o, c.regions[o], w)
        BY DEF HoldsOK
    <2> QED BY <2>1 DEF CachedOK
<1> QED BY <1>1 DEF HoldsOK

LEMMA CacheMono ==
    ASSUME NEW w \in Nat, NEW v \in Nat, w <= v, NEW c, CacheOK(c, w)
    PROVE  CacheOK(c, v)
BY HoldsMono DEF CacheOK

\* Regions that a call may hold.
TodoOK(todo, w) == todo \in Seq(Regions) /\ \A r \in Range(todo) : Fits(r, w)

LEMMA HeldOK ==
    ASSUME NEW w \in 0 .. MaxWrites, NEW c, HoldsOK(c, w)
    PROVE  /\ TodoOK(FlushRegions(c), w)
           /\ Range(FlushRegions(c)) = Held(c)
           /\ FlushRegions(c) = <<>> <=> DOMAIN c.regions = {}
           /\ Held(c) \subseteq Regions
           /\ \A r \in Held(c) : Fits(r, w)
<1>1. ASSUME NEW r \in Held(c) PROVE r \in Regions /\ Fits(r, w)
    <2>1. PICK o \in DOMAIN c.regions : r = RegionAt(c, o)
        BY DEF Held
    <2>2. PICK x : x = c.regions[o]
        OBVIOUS
    <2>3. CachedOK(o, x, w) /\ c.filepath \in Files /\ o \in Bytes
        BY <2>2 DEF HoldsOK
    <2>4. r = [file |-> c.filepath, off |-> o, len |-> x.len, id |-> x.id]
        BY <2>1, <2>2 DEF RegionAt
    <2>5. x.len \in 1 .. Size /\ x.id \in 1 .. w /\ o + x.len <= Size
        BY <2>3, ExtentsOK DEF CachedOK
    <2>6. x.id \in 1 .. MaxWrites /\ x.id <= w
        BY <2>5, Numbers
    <2>7. r \in Regions
        BY <2>3, <2>4, <2>5, <2>6 DEF Regions
    <2>8. r.off = o /\ r.len = x.len /\ r.id = x.id
        BY <2>4
    <2> QED BY <2>5, <2>6, <2>7, <2>8 DEF Fits
<1>2. /\ FlushRegions(c) \in Seq(Held(c))
      /\ Range(FlushRegions(c)) = Held(c)
      /\ FlushRegions(c) = <<>> <=> DOMAIN c.regions = {}
    BY HoldsMeasured, FlushRegionsOf
<1>3. FlushRegions(c) \in Seq(Regions)
    <2>1. Held(c) \subseteq Regions
        BY <1>1
    <2> QED BY <1>2, <2>1
<1> QED BY <1>1, <1>2, <1>3 DEF TodoOK

LEMMA FlushedOK ==
    ASSUME NEW w, NEW c, HoldsOK(c, w)
    PROVE  /\ CacheOK(flush_locked(c), w)
           /\ flush_locked(c).filepath = c.filepath
           /\ DOMAIN flush_locked(c).regions = {}
<1>1. flush_locked(c) = [filepath |-> c.filepath, regions |-> NoRegions, total_bytes |-> 0]
    <2>1. PICK p, g, n : c = [filepath |-> p, regions |-> g, total_bytes |-> n]
        BY Zenon DEF HoldsOK
    <2>2. flush_locked(c) = [[filepath |-> p, regions |-> g, total_bytes |-> n]
                               EXCEPT !.regions = NoRegions, !.total_bytes = 0]
        BY <2>1, Zenon DEF flush_locked
    <2>3. c.filepath = p
        BY <2>1
    <2> QED BY <2>2, <2>3
<1>2. DOMAIN NoRegions = {} /\ Total(NoRegions) = 0
    <2>1. DOMAIN NoRegions = {}
        BY DEF NoRegions
    <2> QED BY <2>1, TotalEmpty
<1>3. PICK f : f = flush_locked(c)
    OBVIOUS
<1>4. f.filepath = c.filepath /\ f.regions = NoRegions /\ f.total_bytes = 0
      /\ f = [filepath |-> f.filepath, regions |-> f.regions, total_bytes |-> f.total_bytes]
    BY <1>1, <1>3
<1>5. CacheOK(f, w)
    BY <1>2, <1>4, Numbers DEF CacheOK, HoldsOK
<1> QED BY <1>2, <1>3, <1>4, <1>5

LEMMA AbsentOK ==
    ASSUME NEW w
    PROVE  CacheOK(Absent, w) /\ DOMAIN Absent.regions = {} /\ Absent.filepath = NoFile
<1>1. DOMAIN NoRegions = {} /\ Total(NoRegions) = 0
    <2>1. DOMAIN NoRegions = {}
        BY DEF NoRegions
    <2> QED BY <2>1, TotalEmpty
<1>2. PICK f : f = Absent
    OBVIOUS
<1>3. f.filepath = NoFile /\ f.regions = NoRegions /\ f.total_bytes = 0
      /\ f = [filepath |-> f.filepath, regions |-> f.regions, total_bytes |-> f.total_bytes]
    BY <1>2 DEF Absent
<1>4. CacheOK(f, w)
    BY <1>1, <1>3, Numbers DEF CacheOK, HoldsOK
<1> QED BY <1>1, <1>2, <1>3, <1>4

\* The cache s is the cache c with a region of that write.
Stores(s, c, file, off, len, id) ==
    /\ s.filepath = IF c.filepath = NoFile THEN file ELSE c.filepath
    /\ DOMAIN s.regions = DOMAIN c.regions \cup {off}
    /\ s.regions[off] = [len |-> len, id |-> id]
    /\ \A o \in DOMAIN c.regions \ {off} : s.regions[o] = c.regions[o]

LEMMA StoredOK ==
    ASSUME NEW w \in Nat, NEW c, HoldsOK(c, w), NEW file \in Files,
           NEW off, NEW len, <<off, len>> \in Extents, len < LabelMinSize,
           NEW s, s = stored_in(c, file, off, len, w + 1)
    PROVE  HoldsOK(s, w + 1) /\ Stores(s, c, file, off, len, w + 1)
<1> DEFINE new == [o \in DOMAIN c.regions \cup {off} |->
                     IF o = off THEN [len |-> len, id |-> w + 1] ELSE c.regions[o]]
           old == IF off \in DOMAIN c.regions THEN c.regions[off].len ELSE 0
<1>1. s = [filepath |-> IF c.filepath = NoFile THEN file ELSE c.filepath,
           regions |-> new, total_bytes |-> c.total_bytes - old + len]
    BY DEF stored_in
<1>2. /\ DOMAIN new = DOMAIN c.regions \cup {off}
      /\ new[off] = [len |-> len, id |-> w + 1]
      /\ \A o \in DOMAIN c.regions \ {off} : new[o] = c.regions[o]
    OBVIOUS
<1> HIDE DEF new, old
<1>3. /\ s = [filepath |-> s.filepath, regions |-> s.regions, total_bytes |-> s.total_bytes]
      /\ s.filepath = (IF c.filepath = NoFile THEN file ELSE c.filepath)
      /\ s.regions = new /\ s.total_bytes = c.total_bytes - old + len
    BY <1>1
<1>4. /\ off \in Bytes /\ len \in 1 .. Size /\ len \in Nat
    BY ExtentsOK, Numbers
<1>5. Total(new) = c.total_bytes - old + len
    <2>1. new[off].len = len /\ \A o \in DOMAIN c.regions \ {off} : new[o].len = c.regions[o].len
        BY <1>2
    <2>2. PICK rg : rg = c.regions
        OBVIOUS
    <2>3. Measured(rg)
        BY <2>2, HoldsMeasured
    <2>4. Total(new) = Total(rg) - (IF off \in DOMAIN rg THEN rg[off].len ELSE 0) + len
        <3>1. Puts(new, rg, off, len)
            BY <1>2, <2>1, <2>2 DEF Puts
        <3>2. len \in Nat
            BY <1>4
        <3> QED BY <2>3, <3>1, <3>2, TotalStored
    <2> QED BY <2>2, <2>4 DEF HoldsOK, old
<1>6. ASSUME NEW o \in DOMAIN new PROVE CachedOK(o, new[o], w + 1)
    <2>1. CASE o = off
        <3>1. new[o].len = len /\ new[o].id = w + 1
            BY <1>2, <2>1
        <3> QED BY <1>4, <2>1, <3>1 DEF CachedOK
    <2>2. CASE o # off
        <3>1. o \in DOMAIN c.regions /\ new[o] = c.regions[o]
            BY <1>2, <1>6, <2>2
        <3>2. CachedOK(o, c.regions[o], w + 1)
            BY <3>1, HoldsMono DEF HoldsOK
        <3> QED BY <3>1, <3>2
    <2> QED BY <2>1, <2>2
<1>7. s.filepath \in Files /\ s.filepath # NoFile
    BY <1>3, PosixAssumption DEF HoldsOK
<1>8. DOMAIN new \subseteq Bytes
    BY <1>2, <1>4 DEF HoldsOK
<1>9. HoldsOK(s, w + 1)
    BY <1>3, <1>5, <1>6, <1>7, <1>8 DEF HoldsOK
<1> QED BY <1>2, <1>3, <1>9 DEF Stores

\* What was cached and what is written stays cached, or is all handed over.
LEMMA WriteOK ==
    ASSUME NEW w \in Nat, w < MaxWrites, NEW c, CacheOK(c, w), NEW file \in Files,
           NEW off, NEW len, <<off, len>> \in Extents, len < LabelMinSize,
           NEW s, s = stored_in(c, file, off, len, w + 1),
           NEW x, x = cache_write(c, file, off, len, w + 1)
    PROVE  /\ CacheOK(x.cache, w + 1) /\ TodoOK(x.flushed, w + 1)
           /\ x.cache.filepath = s.filepath
           /\ \/ x.flushed = <<>> /\ x.cache = s
              \/ x.flushed # <<>> /\ DOMAIN x.cache.regions = {} /\ Range(x.flushed) = Held(s)
<1>1. HoldsOK(s, w + 1) /\ DOMAIN s.regions # {}
    <2>1. HoldsOK(c, w)
        BY DEF CacheOK
    <2>2. HoldsOK(s, w + 1) /\ Stores(s, c, file, off, len, w + 1)
        BY <2>1, StoredOK
    <2> QED BY <2>2 DEF Stores
<1>2. w + 1 \in 0 .. MaxWrites /\ w + 1 \in Nat
    BY Numbers
<1>3. x = IF s.total_bytes >= LabelMinSize
          THEN [cache |-> flush_locked(s), flushed |-> FlushRegions(s)]
          ELSE [cache |-> s, flushed |-> <<>>]
    BY DEF cache_write
<1>4. CASE s.total_bytes >= LabelMinSize
    <2>1. x.cache = flush_locked(s) /\ x.flushed = FlushRegions(s)
        BY <1>3, <1>4
    <2>2. CacheOK(flush_locked(s), w + 1) /\ flush_locked(s).filepath = s.filepath
          /\ DOMAIN flush_locked(s).regions = {}
        BY <1>1, FlushedOK
    <2>3. TodoOK(FlushRegions(s), w + 1) /\ Range(FlushRegions(s)) = Held(s)
          /\ FlushRegions(s) # <<>>
        BY <1>1, <1>2, HeldOK
    <2> QED BY <2>1, <2>2, <2>3
<1>5. CASE ~(s.total_bytes >= LabelMinSize)
    <2>1. x.cache = s /\ x.flushed = <<>>
        BY <1>3, <1>5
    <2>2. s.total_bytes < LabelMinSize
        <3>1. Total(s.regions) \in Nat
            BY <1>1, HoldsMeasured, TotalNat
        <3> QED BY <1>1, <1>5, <3>1, Numbers DEF HoldsOK
    <2>3. TodoOK(<<>>, w + 1)
        BY DEF TodoOK, Range
    <2> QED BY <1>1, <2>1, <2>2, <2>3 DEF CacheOK
<1> QED BY <1>4, <1>5

-----------------------------------------------------------------------------
(* Calls *)

LEMMA IdleOK ==
    ASSUME NEW w PROVE CallOK(IdleCall, w) /\ ShapeOK(IdleCall)
<1>1. IdleCall \in CallRecords
    BY Numbers DEF IdleCall, CallRecords, Ops, Steps, NoPut
<1>2. IdleCall.todo = <<>> /\ IdleCall.put.off + IdleCall.put.len = 0
    BY DEF IdleCall, NoPut
<1>3. Range(<<>>) = {}
    BY DEF Range
<1>4. ShapeOK(IdleCall)
    BY DEF IdleCall, ShapeOK
<1> QED BY <1>1, <1>2, <1>3, <1>4, Numbers DEF CallOK

LEMMA CallMono ==
    ASSUME NEW w \in Nat, NEW v \in Nat, w <= v, NEW c, CallOK(c, w)
    PROVE  CallOK(c, v)
<1>1. ASSUME NEW r \in Range(c.todo) PROVE Fits(r, v)
    <2>1. Fits(r, w) /\ r \in Regions
        BY DEF CallOK, CallRecords, Range
    <2> QED BY <2>1 DEF Fits, Regions
<1> QED BY <1>1 DEF CallOK

LEMMA TodoMono ==
    ASSUME NEW w \in Nat, NEW v \in Nat, w <= v, NEW todo, TodoOK(todo, w)
    PROVE  TodoOK(todo, v)
<1>1. ASSUME NEW r \in Range(todo) PROVE Fits(r, v)
    <2>1. Fits(r, w) /\ r \in Regions
        BY DEF TodoOK, Range
    <2> QED BY <2>1 DEF Fits, Regions
<1> QED BY <1>1 DEF TodoOK

CallWith(op, fd, fs, todo, off, len, id, move) ==
    [op |-> op, step |-> "publish", fd |-> fd, fs |-> fs, todo |-> todo,
     cur |-> 0, put |-> [off |-> off, len |-> len, id |-> id], move |-> move,
     next |-> "return", oldfd |-> 0]

\* A call that starts with these regions.
LEMMA NewCallOK ==
    ASSUME NEW w \in Nat, NEW todo, TodoOK(todo, w), NEW op \in Ops, op # "idle", NEW fd \in Fds,
           NEW fs \in Nat,
           NEW off \in Nat, NEW len \in Nat, NEW id \in Nat, off + len <= Size,
           NEW move \in BOOLEAN, NEW c,
           c = CallWith(op, fd, fs, todo, off, len, id, move)
    PROVE  /\ CallOK(c, w) /\ ShapeOK(c)
           /\ c.todo = todo /\ c.op = op /\ c.step = "publish"
           /\ c.move = move /\ c.fs = fs /\ c.put.off = off /\ c.put.len = len
<1> USE DEF CallWith
<1>1. c \in CallRecords
    BY Numbers DEF CallRecords, Steps, TodoOK
<1>2. c.todo = todo /\ c.put.off = off /\ c.put.len = len /\ c.op = op /\ c.step = "publish"
      /\ c.next = "return" /\ c.fd = fd
      /\ c.move = move /\ c.fs = fs
    OBVIOUS
<1>3. CallOK(c, w)
    BY <1>1, <1>2 DEF CallOK, TodoOK
<1>4. ShapeOK(c)
    BY <1>2 DEF ShapeOK
<1> QED BY <1>2, <1>3, <1>4

LEMMA BegunOK ==
    ASSUME NEW w, NEW c, CallOK(c, w), ShapeOK(c)
    PROVE  CallOK(Begun(c), w) /\ ShapeOK(Begun(c)) /\ Begun(c).todo = c.todo
           /\ Begun(c).op \in {"idle", c.op}
           /\ (c.todo # <<>> => Begun(c) = c) /\ (c.todo = <<>> => Begun(c) = IdleCall)
<1>1. IdleCall.todo = <<>> /\ IdleCall.op = "idle"
    BY DEF IdleCall
<1> QED BY <1>1, IdleOK DEF Begun

\* What is left of a sequence without its head.
LEMMA TailOf ==
    ASSUME NEW R, NEW s \in Seq(R), s # <<>>
    PROVE  /\ Tail(s) \in Seq(R) /\ Head(s) \in R /\ Head(s) \in Range(s)
           /\ Range(s) = {Head(s)} \cup Range(Tail(s))
           /\ Len(s) = 1 => Range(s) = {Head(s)}
<1>1. PICK n \in Nat : n = Len(s)
    OBVIOUS
<1>2. n >= 1
    BY <1>1, EmptySeq
<1>3. /\ Range(s) = {s[i] : i \in 1 .. n}
      /\ Tail(s) \in Seq(R) /\ Len(Tail(s)) = n - 1
      /\ \A i \in 1 .. n - 1 : Tail(s)[i] = s[i + 1]
      /\ Head(s) = s[1] /\ s[1] \in R
    BY <1>1, <1>2 DEF Range
<1>4. Range(Tail(s)) = {Tail(s)[i] : i \in 1 .. n - 1}
    BY <1>3 DEF Range
<1>5. \A i \in 1 .. n : i = 1 \/ (i - 1 \in 1 .. n - 1 /\ Tail(s)[i - 1] = s[i])
    <2> SUFFICES ASSUME NEW i \in 1 .. n, i # 1
                 PROVE  i - 1 \in 1 .. n - 1 /\ Tail(s)[i - 1] = s[i]
        OBVIOUS
    <2>1. i - 1 \in 1 .. n - 1 /\ (i - 1) + 1 = i
        OBVIOUS
    <2> QED BY <1>3, <2>1
<1>6. \A i \in 1 .. n - 1 : i + 1 \in 1 .. n
    OBVIOUS
<1>7. Range(s) \subseteq {Head(s)} \cup Range(Tail(s))
    <2> SUFFICES ASSUME NEW r \in Range(s) PROVE r = Head(s) \/ r \in Range(Tail(s))
        OBVIOUS
    <2>1. PICK i \in 1 .. n : r = s[i]
        BY <1>3
    <2>2. CASE i = 1
        BY <1>3, <2>1, <2>2
    <2>3. CASE i # 1
        <3>1. i - 1 \in 1 .. n - 1 /\ Tail(s)[i - 1] = s[i]
            BY <1>5, <2>3
        <3> QED BY <1>4, <2>1, <3>1
    <2> QED BY <2>2, <2>3
<1>8. Range(Tail(s)) \subseteq Range(s)
    <2> SUFFICES ASSUME NEW r \in Range(Tail(s)) PROVE r \in Range(s)
        OBVIOUS
    <2>1. PICK i \in 1 .. n - 1 : r = Tail(s)[i]
        BY <1>4
    <2> QED BY <1>3, <1>6, <2>1
<1>9. Head(s) \in Range(s)
    BY <1>2, <1>3
<1>10. n = 1 => Range(s) = {Head(s)}
    BY <1>3
<1> QED BY <1>1, <1>3, <1>7, <1>8, <1>9, <1>10

LEMMA AdvanceOK ==
    ASSUME NEW w, NEW c, CallOK(c, w), ShapeOK(c), c.todo # <<>>
    PROVE  /\ CallOK(Advance(c), w) /\ ShapeOK(Advance(c))
           /\ Advance(c).step = "publish"
           /\ Range(Advance(c).todo) \subseteq Range(c.todo)
           /\ \A r \in Range(c.todo) : r = Head(c.todo) \/ r \in Range(Advance(c).todo)
           /\ c.op = "exit" => Advance(c).op = "exit"
           /\ Advance(c).op \in {"idle", c.op} /\ (c.op = "close" => Advance(c).fd = c.fd)
<1>1. c \in CallRecords /\ c.todo \in Seq(Regions)
    BY DEF CallOK, CallRecords
<1>2. /\ Tail(c.todo) \in Seq(Regions)
      /\ Range(c.todo) = {Head(c.todo)} \cup Range(Tail(c.todo))
      /\ Len(c.todo) = 1 => Range(c.todo) = {Head(c.todo)}
    BY <1>1, TailOf
<1>3. IdleCall.step = "publish" /\ IdleCall.todo = <<>> /\ IdleCall.op = "idle"
    BY DEF IdleCall
<1>4. Range(<<>>) = {}
    BY DEF Range
<1>5. CASE Len(c.todo) = 1 /\ c.op \in {"timer", "fsync"}
    <2>1. Advance(c) = IdleCall
        BY <1>5 DEF Advance
    <2> QED BY <1>2, <1>3, <1>4, <1>5, <2>1, IdleOK
<1>6. CASE ~(Len(c.todo) = 1 /\ c.op \in {"timer", "fsync"})
    <2>1. PICK d : d = Advance(c)
        OBVIOUS
    <2>0. PICK rest \in Seq(Regions) : rest = Tail(c.todo)
        BY <1>2
    <2>2. d = [c EXCEPT !.step = "publish", !.cur = 0, !.todo = rest]
        <3>1. c.todo = c["todo"]
            OBVIOUS
        <3> QED BY <1>1, <1>6, <2>0, <2>1 DEF Advance, CallRecords
    <2>3. /\ d \in CallRecords
          /\ d.op = c.op /\ d.fd = c.fd /\ d.step = "publish" /\ d.todo = Tail(c.todo)
          /\ d.put = c.put /\ d.next = c.next /\ d.oldfd = c.oldfd
        <3>1. "publish" \in Steps /\ 0 \in 0 .. Size
            BY Numbers DEF Steps
        <3> QED BY <1>1, <2>0, <2>2, <3>1 DEF CallRecords
    <2>4. CallOK(d, w)
        BY <1>2, <2>3 DEF CallOK
    <2>5. c.op # "idle"
        BY <1>3 DEF ShapeOK
    <2>6. ShapeOK(d)
        BY <2>3, <2>5 DEF ShapeOK
    <2> QED BY <1>2, <2>1, <2>3, <2>4, <2>6
<1> QED BY <1>5, <1>6

LEMMA AbandonOK ==
    ASSUME NEW w, NEW c, CallOK(c, w), ShapeOK(c), c.todo # <<>>, c.step = "publish"
    PROVE  /\ CallOK(Abandon(c), w) /\ ShapeOK(Abandon(c))
           /\ Abandon(c).step = "publish"
           /\ Range(Abandon(c).todo) \subseteq Range(c.todo)
           /\ c.op = "exit" => Abandon(c).op = "exit"
           /\ Abandon(c).op \in {"idle", c.op} /\ (c.op = "close" => Abandon(c).fd = c.fd)
<1>1. c \in CallRecords /\ c.op \in Ops
    BY DEF CallOK, CallRecords
<1>2. IdleCall.step = "publish" /\ IdleCall.todo = <<>> /\ IdleCall.op = "idle"
    BY DEF IdleCall
<1>3. Range(<<>>) = {}
    BY DEF Range
<1>4. c.op # "idle"
    BY <1>2 DEF ShapeOK
<1>5. CASE c.op = "timer"
    <2>1. Abandon(c) = Advance(c)
        BY <1>5 DEF Abandon
    <2> QED BY <2>1, AdvanceOK
<1>6. CASE c.op \in {"write", "read", "fsync"}
    <2>1. Abandon(c) = IdleCall
        BY <1>6 DEF Abandon
    <2> QED BY <1>2, <1>3, <1>6, <2>1, IdleOK
<1>7. CASE c.op \in {"close", "exit"}
    <2>1. PICK d : d = Abandon(c)
        OBVIOUS
    <2>2. d = [c EXCEPT !.todo = <<>>]
        BY <1>7, <2>1 DEF Abandon
    <2>0. PICK none \in Seq(Regions) : none = <<>>
        <3>1. <<>> \in Seq(Regions)
            OBVIOUS
        <3> QED BY <3>1
    <2>3. /\ d \in CallRecords
          /\ d.op = c.op /\ d.fd = c.fd /\ d.step = c.step /\ d.todo = <<>>
          /\ d.put = c.put /\ d.next = c.next /\ d.oldfd = c.oldfd
        BY <1>1, <2>0, <2>2 DEF CallRecords
    <2>4. CallOK(d, w)
        BY <1>3, <2>3 DEF CallOK
    <2>5. ShapeOK(d)
        BY <1>4, <2>3 DEF ShapeOK
    <2> QED BY <1>3, <2>1, <2>3, <2>4, <2>5
<1> QED BY <1>1, <1>4, <1>5, <1>6, <1>7 DEF Ops

-----------------------------------------------------------------------------
(* Steps of one part of the state *)

LEMMA CallsStep ==
    ASSUME CallsInv, NEW a \in Actors, NEW c, writes \in Nat, writes' \in Nat, writes <= writes',
           CallOK(c, writes'), ShapeOK(c), call' = [call EXCEPT ![a] = c]
    PROVE  /\ CallsInv' /\ call'[a] = c /\ \A u \in Actors \ {a} : call'[u] = call[u]
<1>1. DOMAIN call' = Actors /\ call'[a] = c /\ \A u \in Actors \ {a} : call'[u] = call[u]
    BY DEF CallsInv
<1>2. ASSUME NEW u \in Actors PROVE CallOK(call'[u], writes') /\ ShapeOK(call'[u])
    <2>1. CASE u = a
        BY <1>1, <2>1
    <2>2. CASE u # a
        <3>1. CallOK(call[u], writes) /\ ShapeOK(call[u])
            BY DEF CallsInv
        <3>2. CallOK(call[u], writes')
            BY <3>1, CallMono
        <3> QED BY <1>1, <2>2, <3>1, <3>2
    <2> QED BY <2>1, <2>2
<1> QED BY <1>1, <1>2 DEF CallsInv

LEMMA CallsKept ==
    ASSUME CallsInv, writes \in Nat, writes' \in Nat, writes <= writes', call' = call
    PROVE  CallsInv'
<1>1. ASSUME NEW u \in Actors PROVE CallOK(call[u], writes') /\ ShapeOK(call[u])
    <2>1. CallOK(call[u], writes) /\ ShapeOK(call[u])
        BY DEF CallsInv
    <2> QED BY <2>1, CallMono
<1> QED BY <1>1 DEF CallsInv

LEMMA CachesStep ==
    ASSUME CachesInv, NEW fd \in Fds, NEW c, writes \in Nat, writes' \in Nat, writes <= writes',
           CacheOK(c, writes'), caches' = [caches EXCEPT ![fd] = c]
    PROVE  /\ CachesInv' /\ caches'[fd] = c /\ \A e \in Fds \ {fd} : caches'[e] = caches[e]
<1>1. DOMAIN caches' = Fds /\ caches'[fd] = c /\ \A e \in Fds \ {fd} : caches'[e] = caches[e]
    BY DEF CachesInv
<1>2. ASSUME NEW e \in Fds PROVE CacheOK(caches'[e], writes')
    <2>1. CASE e = fd
        BY <1>1, <2>1
    <2>2. CASE e # fd
        <3>1. CacheOK(caches[e], writes)
            BY DEF CachesInv
        <3> QED BY <1>1, <2>2, <3>1, CacheMono
    <2> QED BY <2>1, <2>2
<1> QED BY <1>1, <1>2 DEF CachesInv

LEMMA CachesKept ==
    ASSUME CachesInv, writes \in Nat, writes' \in Nat, writes <= writes', caches' = caches
    PROVE  CachesInv'
<1>1. ASSUME NEW e \in Fds PROVE CacheOK(caches[e], writes')
    <2>1. CacheOK(caches[e], writes)
        BY DEF CachesInv
    <2> QED BY <2>1, CacheMono
<1> QED BY <1>1 DEF CachesInv

\* How many descriptors lead to a FileState.
Tabled(tb, s) == {fd \in Fds : tb[fd] = s}

LEMMA TabledOK ==
    ASSUME NEW tb, NEW s
    PROVE  IsFiniteSet(Tabled(tb, s)) /\ Cardinality(Tabled(tb, s)) \in Nat
<1>1. IsFiniteSet(Tabled(tb, s))
    BY PosixAssumption, FS_Subset DEF Tabled
<1> QED BY <1>1, FS_CardinalityType

LEMMA RefsOf ==
    ASSUME RefInv, NEW s \in 1 .. MaxOpens
    PROVE  Cardinality(Tabled(table, s)) <= states[s].refs
BY DEF RefInv, Tabled

LEMMA FdState ==
    ASSUME TableInv, RefInv, NEW fd \in Fds, table[fd] # 0
    PROVE  /\ table[fd] \in 1 .. MaxOpens /\ states[table[fd]].refs \in Nat
           /\ states[table[fd]].refs >= 1 /\ FileOf(fd) \in Files /\ FileOf(fd) # NoFile
<1>1. PICK s : s = table[fd]
    OBVIOUS
<1>2. s \in 1 .. MaxOpens
    BY <1>1, Numbers DEF TableInv
<1>3. states[s].refs \in Nat
    BY <1>2 DEF TableInv, States
<1>4. fd \in Tabled(table, s)
    BY <1>1 DEF Tabled
<1>5. Cardinality(Tabled(table, s)) # 0
    BY <1>4, TabledOK, FS_EmptySet
<1>6. states[s].refs >= 1
    BY <1>2, <1>3, <1>5, RefsOf, TabledOK
<1>7. states[s].file \in Files
    BY <1>2, <1>6, <1>3 DEF TableInv
<1> QED BY <1>1, <1>2, <1>3, <1>6, <1>7, PosixAssumption DEF FileOf

LEMMA TableKept ==
    ASSUME TableInv, RefInv, table' = table, states' = states, kernel' \subseteq Fds
    PROVE  TableInv' /\ RefInv'
BY DEF TableInv, RefInv

\* Only the position of a FileState changes.
Moves(s) == \E pos \in 0 .. Size : states' = [states EXCEPT ![s].offset = pos]

LEMMA MovesOK ==
    ASSUME TableInv, RefInv, NEW s, Moves(s), table' = table, kernel' = kernel
    PROVE  /\ TableInv' /\ RefInv'
           /\ \A u \in 1 .. MaxOpens : states'[u].file = states[u].file
<1>1. PICK pos \in 0 .. Size : states' = [states EXCEPT ![s].offset = pos]
    BY DEF Moves
<1>2. states' \in [1 .. MaxOpens -> States]
    BY <1>1 DEF TableInv, States
<1>3. ASSUME NEW u \in 1 .. MaxOpens
      PROVE  states'[u].file = states[u].file /\ states'[u].refs = states[u].refs
    <2>1. states[u] \in States
        BY DEF TableInv
    <2>2. CASE u = s
        <3>1. states'[u] = [states[u] EXCEPT !.offset = pos]
            BY <1>1, <2>2 DEF TableInv
        <3> QED BY <2>1, <3>1 DEF States
    <2>3. CASE u # s
        BY <1>1, <2>3 DEF TableInv
    <2> QED BY <2>2, <2>3
<1>4. TableInv'
    BY <1>2, <1>3 DEF TableInv
<1>5. RefInv'
    BY <1>3 DEF RefInv
<1> QED BY <1>3, <1>4, <1>5

\* A descriptor that comes to lead to s adds at most one to the count of s.
LEMMA PointTo ==
    ASSUME TableInv, NEW fd \in Fds, NEW s, NEW tb, tb = [table EXCEPT ![fd] = s]
    PROVE  /\ Cardinality(Tabled(tb, s)) <= Cardinality(Tabled(table, s)) + 1
           /\ \A u : u # s => Cardinality(Tabled(tb, u)) <= Cardinality(Tabled(table, u))
<1>1. tb[fd] = s /\ \A e \in Fds \ {fd} : tb[e] = table[e]
    BY DEF TableInv
<1>2. Tabled(tb, s) \subseteq Tabled(table, s) \cup {fd}
    BY <1>1 DEF Tabled
<1>3. \A u : u # s => Tabled(tb, u) \subseteq Tabled(table, u)
    BY <1>1 DEF Tabled
<1>4. Cardinality(Tabled(tb, s)) <= Cardinality(Tabled(table, s)) + 1
    <2>1. PICK T : T = Tabled(table, s) \cup {fd}
        OBVIOUS
    <2>2. IsFiniteSet(T) /\ Cardinality(T) \in Nat /\ Cardinality(T) <= Cardinality(Tabled(table, s)) + 1
        <3>1. IsFiniteSet(T)
            BY <2>1, TabledOK, FS_AddElement
        <3>2. Cardinality(T) = IF fd \in Tabled(table, s) THEN Cardinality(Tabled(table, s))
                               ELSE Cardinality(Tabled(table, s)) + 1
            BY <2>1, TabledOK, FS_AddElement
        <3> QED BY <3>1, <3>2, TabledOK
    <2>3. Cardinality(Tabled(tb, s)) <= Cardinality(T)
        BY <1>2, <2>1, <2>2, FS_Subset
    <2> QED BY <2>2, <2>3, TabledOK
<1>5. ASSUME NEW u, u # s PROVE Cardinality(Tabled(tb, u)) <= Cardinality(Tabled(table, u))
    BY <1>3, <1>5, TabledOK, FS_Subset
<1> QED BY <1>4, <1>5

\* A descriptor that leads nowhere any more takes one from its count.
LEMMA PointAway ==
    ASSUME TableInv, NEW fd \in Fds, NEW tb, tb = [table EXCEPT ![fd] = 0], table[fd] # 0
    PROVE  /\ Cardinality(Tabled(tb, table[fd])) = Cardinality(Tabled(table, table[fd])) - 1
           /\ \A u : u # table[fd] /\ u # 0 => Tabled(tb, u) = Tabled(table, u)
<1>1. tb[fd] = 0 /\ \A e \in Fds \ {fd} : tb[e] = table[e]
    BY DEF TableInv
<1>2. Tabled(tb, table[fd]) = Tabled(table, table[fd]) \ {fd} /\ fd \in Tabled(table, table[fd])
    BY <1>1 DEF Tabled
<1>3. \A u : u # table[fd] /\ u # 0 => Tabled(tb, u) = Tabled(table, u)
    BY <1>1 DEF Tabled
<1> QED BY <1>2, <1>3, TabledOK, FS_RemoveElement

\* Every descriptor but one leads where it led.
Others(fd) ==
    \A e \in Fds \ {fd} :
      table'[e] = table[e] /\ (table[e] # 0 => FileOf(e)' = FileOf(e))

\* The descriptor now leads to the file.
Leads(fd, file) == table'[fd] # 0 /\ FileOf(fd)' = file

LEMMA NewFdOK ==
    ASSUME TableInv, Fds \ kernel # {}
    PROVE  NewFd \in Fds /\ kernel \cup {NewFd} \subseteq Fds
<1>1. Fds \ kernel \in SUBSET Nat
    BY PosixAssumption
<1>2. NewFd \in Fds \ kernel
    BY <1>1, LeastOf DEF NewFd
<1> QED BY <1>2 DEF TableInv

LEMMA OpenTable ==
    ASSUME TableInv, RefInv, Fds \ kernel # {}, \E s \in DOMAIN states : states[s] = Free,
           NEW file \in Files, NEW sync \in BOOLEAN,
           states' = [states EXCEPT ![NewState] =
                        [file |-> file, sync |-> sync, offset |-> 0, refs |-> 1]],
           table' = [table EXCEPT ![NewFd] = NewState],
           kernel' = kernel \cup {NewFd}
    PROVE  TableInv' /\ RefInv' /\ Others(NewFd) /\ Leads(NewFd, file) /\ NewFd \in Fds
<1>1. PICK fd \in Fds : fd = NewFd /\ kernel' \subseteq Fds
    BY NewFdOK
<1>2. DOMAIN states = 1 .. MaxOpens
    BY DEF TableInv
<1>3. PICK s \in 1 .. MaxOpens : s = NewState /\ states[s] = Free
    <2>1. {u \in DOMAIN states : states[u] = Free} \in SUBSET Nat
          /\ {u \in DOMAIN states : states[u] = Free} # {}
        BY <1>2, Numbers
    <2>2. NewState \in {u \in DOMAIN states : states[u] = Free}
        BY <2>1, LeastOf DEF NewState
    <2> QED BY <1>2, <2>2
<1>4. PICK new : new = [file |-> file, sync |-> sync, offset |-> 0, refs |-> 1]
    OBVIOUS
<1>5. states' = [states EXCEPT ![s] = new] /\ table' = [table EXCEPT ![fd] = s]
    BY <1>1, <1>3, <1>4
<1>6. new \in States /\ new.refs = 1 /\ new.file = file
    BY <1>4, Numbers DEF States
<1>7. states' \in [1 .. MaxOpens -> States] /\ states'[s] = new
      /\ \A u \in 1 .. MaxOpens : u # s => states'[u] = states[u]
    BY <1>5, <1>6 DEF TableInv
<1>8. table' \in [Fds -> 0 .. MaxOpens] /\ table'[fd] = s
      /\ \A e \in Fds \ {fd} : table'[e] = table[e]
    <2>1. s \in 0 .. MaxOpens
        OBVIOUS
    <2>2. table' = [table EXCEPT ![fd] = s]
        BY <1>5, Zenon
    <2> QED BY <2>1, <2>2 DEF TableInv
<1>9. TableInv'
    <2>1. \A u \in 1 .. MaxOpens : states'[u].refs # 0 => states'[u].file \in Files
        BY <1>6, <1>7 DEF TableInv
    <2> QED BY <1>1, <1>7, <1>8, <2>1 DEF TableInv
<1>10. states[s].refs = 0
    BY <1>3 DEF Free
<1>11. RefInv'
    <2> SUFFICES ASSUME NEW u \in 1 .. MaxOpens
                 PROVE  Cardinality(Tabled(table', u)) <= states'[u].refs
        BY DEF RefInv, Tabled
    <2>p. \A v : v # s => Cardinality(Tabled(table', v)) <= Cardinality(Tabled(table, v))
        <3>1. PICK tb : tb = table' /\ tb = [table EXCEPT ![fd] = s]
            BY <1>5
        <3>2. \A v : v # s => Cardinality(Tabled(tb, v)) <= Cardinality(Tabled(table, v))
            BY <3>1, PointTo
        <3> QED BY <3>1, <3>2
    <2>1. CASE u = s
        <3>1. Cardinality(Tabled(table, s)) <= 0
            BY <1>10, RefsOf
        <3>2. Cardinality(Tabled(table', s)) <= Cardinality(Tabled(table, s)) + 1
            BY <1>5, PointTo
        <3> QED BY <1>6, <1>7, <2>1, <3>1, <3>2, TabledOK
    <2>2. CASE u # s
        <3>1. Cardinality(Tabled(table, u)) <= states[u].refs
            BY RefsOf
        <3>2. Cardinality(Tabled(table', u)) <= Cardinality(Tabled(table, u))
            BY <2>p, <2>2
        <3>3. states'[u].refs = states[u].refs /\ states[u].refs \in Nat
            BY <1>7, <2>2 DEF TableInv, States
        <3> QED BY <3>1, <3>2, <3>3, TabledOK
    <2> QED BY <2>1, <2>2
<1>12. Leads(fd, file)
    <2>1. s # 0
        BY <1>3
    <2> QED BY <1>6, <1>7, <1>8, <2>1 DEF Leads, FileOf
<1>13. Others(fd)
    <2> SUFFICES ASSUME NEW e \in Fds \ {fd}, table[e] # 0 PROVE FileOf(e)' = FileOf(e)
        BY <1>8 DEF Others
    <2>1. table[e] \in 1 .. MaxOpens /\ states[table[e]].refs >= 1
        BY FdState
    <2>2. table[e] # s
        BY <1>10, <2>1
    <2> QED BY <1>7, <1>8, <2>1, <2>2 DEF FileOf
<1> QED BY <1>1, <1>9, <1>11, <1>12, <1>13

LEMMA DuplicateTable ==
    ASSUME TableInv, RefInv, Fds \ kernel # {}, NEW oldfd \in Fds, table[oldfd] # 0,
           table' = [table EXCEPT ![NewFd] = table[oldfd]],
           kernel' = kernel \cup {NewFd},
           states' = [states EXCEPT ![table[oldfd]].refs = @ + 1]
    PROVE  TableInv' /\ RefInv' /\ Others(NewFd) /\ Leads(NewFd, FileOf(oldfd)) /\ NewFd \in Fds
<1>1. PICK fd \in Fds : fd = NewFd /\ kernel' \subseteq Fds
    BY NewFdOK
<1>2. PICK s \in 1 .. MaxOpens : s = table[oldfd]
    BY FdState
<1>3. states[s] \in States
    BY DEF TableInv
<1>4. PICK new : new = [states[s] EXCEPT !.refs = @ + 1]
    OBVIOUS
<1>5. states' = [states EXCEPT ![s] = new] /\ table' = [table EXCEPT ![fd] = s]
    BY <1>1, <1>2, <1>4
<1>6. new \in States /\ new.refs = states[s].refs + 1 /\ new.file = states[s].file
    BY <1>3, <1>4 DEF States
<1>7. states' \in [1 .. MaxOpens -> States] /\ states'[s] = new
      /\ \A u \in 1 .. MaxOpens : u # s => states'[u] = states[u]
    BY <1>5, <1>6 DEF TableInv
<1>8. table' \in [Fds -> 0 .. MaxOpens] /\ table'[fd] = s
      /\ \A e \in Fds \ {fd} : table'[e] = table[e]
    BY <1>2, <1>5, Numbers DEF TableInv
<1>9. states[s].file \in Files
    BY <1>2, FdState DEF FileOf
<1>10. TableInv'
    <2>1. \A u \in 1 .. MaxOpens : states'[u].refs # 0 => states'[u].file \in Files
        BY <1>6, <1>7, <1>9 DEF TableInv
    <2> QED BY <1>1, <1>7, <1>8, <2>1 DEF TableInv
<1>11. RefInv'
    <2> SUFFICES ASSUME NEW u \in 1 .. MaxOpens
                 PROVE  Cardinality(Tabled(table', u)) <= states'[u].refs
        BY DEF RefInv, Tabled
    <2>p. \A v : v # s => Cardinality(Tabled(table', v)) <= Cardinality(Tabled(table, v))
        <3>1. PICK tb : tb = table' /\ tb = [table EXCEPT ![fd] = s]
            BY <1>5
        <3>2. \A v : v # s => Cardinality(Tabled(tb, v)) <= Cardinality(Tabled(table, v))
            BY <3>1, PointTo
        <3> QED BY <3>1, <3>2
    <2>0. Cardinality(Tabled(table, u)) <= states[u].refs /\ states[u].refs \in Nat
        BY RefsOf DEF TableInv, States
    <2>1. CASE u = s
        <3>1. Cardinality(Tabled(table', s)) <= Cardinality(Tabled(table, s)) + 1
            BY <1>5, PointTo
        <3> QED BY <1>6, <1>7, <2>0, <2>1, <3>1, TabledOK
    <2>2. CASE u # s
        <3>1. Cardinality(Tabled(table', u)) <= Cardinality(Tabled(table, u))
            BY <2>p, <2>2
        <3> QED BY <1>7, <2>0, <2>2, <3>1, TabledOK
    <2> QED BY <2>1, <2>2
<1>12. \A u \in 1 .. MaxOpens : states'[u].file = states[u].file
    BY <1>6, <1>7
<1>13. Leads(fd, FileOf(oldfd))
    <2>1. s # 0
        BY <1>2
    <2> QED BY <1>2, <1>12, <1>8, <2>1 DEF Leads, FileOf
<1>14. Others(fd)
    <2> SUFFICES ASSUME NEW e \in Fds \ {fd}, table[e] # 0 PROVE FileOf(e)' = FileOf(e)
        BY <1>8 DEF Others
    <2>1. table[e] \in 1 .. MaxOpens
        BY FdState
    <2> QED BY <1>8, <1>12, <2>1 DEF FileOf
<1> QED BY <1>1, <1>10, <1>11, <1>13, <1>14

LEMMA CloseTable ==
    ASSUME TableInv, RefInv, NEW fd \in Fds, table[fd] # 0,
           table' = [table EXCEPT ![fd] = 0], kernel' = kernel \ {fd},
           states' = [states EXCEPT ![table[fd]] =
                        IF states[table[fd]].refs = 1 THEN Free
                        ELSE [states[table[fd]] EXCEPT !.refs = @ - 1]]
    PROVE  TableInv' /\ RefInv' /\ Others(fd) /\ table'[fd] = 0
<1>2. PICK s \in 1 .. MaxOpens : s = table[fd]
    BY FdState
<1>3. states[s] \in States /\ states[s].refs \in Nat /\ states[s].refs >= 1
      /\ states[s].file \in Files
    BY <1>2, FdState DEF TableInv, FileOf
<1>4. PICK new : new = IF states[s].refs = 1 THEN Free ELSE [states[s] EXCEPT !.refs = @ - 1]
    OBVIOUS
<1>5. states' = [states EXCEPT ![s] = new]
    <2>1. states[s] = states[table[fd]]
        BY <1>2
    <2>2. new = IF states[table[fd]].refs = 1 THEN Free
                ELSE [states[table[fd]] EXCEPT !.refs = @ - 1]
        BY <1>2, <1>4
    <2>3. states' = [states EXCEPT ![table[fd]] = new]
        BY <2>2, Zenon
    <2> QED BY <1>2, <2>3
<1>6. /\ new \in States /\ new.refs = states[s].refs - 1 /\ new.refs \in Nat
      /\ new.refs # 0 => new.file = states[s].file
    <2>1. CASE states[s].refs = 1
        <3>1. new = Free
            BY <1>4, <2>1
        <3> QED BY <2>1, <3>1, Numbers DEF Free, States
    <2>2. CASE states[s].refs # 1
        <3>1. new = [states[s] EXCEPT !.refs = @ - 1]
            BY <1>4, <2>2
        <3> QED BY <1>3, <2>2, <3>1 DEF States
    <2> QED BY <2>1, <2>2
<1>7. states' \in [1 .. MaxOpens -> States] /\ states'[s] = new
      /\ \A u \in 1 .. MaxOpens : u # s => states'[u] = states[u]
    BY <1>5, <1>6 DEF TableInv
<1>8. table' \in [Fds -> 0 .. MaxOpens] /\ table'[fd] = 0
      /\ \A e \in Fds \ {fd} : table'[e] = table[e]
    BY Numbers DEF TableInv
<1>9. TableInv'
    <2>1. \A u \in 1 .. MaxOpens : states'[u].refs # 0 => states'[u].file \in Files
        BY <1>3, <1>6, <1>7 DEF TableInv
    <2>2. kernel' \subseteq Fds
        BY DEF TableInv
    <2> QED BY <2>2, <1>7, <1>8, <2>1 DEF TableInv
<1>10. Cardinality(Tabled(table', s)) = Cardinality(Tabled(table, s)) - 1
       /\ \A u : u # s /\ u # 0 => Tabled(table', u) = Tabled(table, u)
    BY <1>2, PointAway
<1>11. RefInv'
    <2> SUFFICES ASSUME NEW u \in 1 .. MaxOpens
                 PROVE  Cardinality(Tabled(table', u)) <= states'[u].refs
        BY DEF RefInv, Tabled
    <2>0. Cardinality(Tabled(table, u)) <= states[u].refs /\ states[u].refs \in Nat
        BY RefsOf DEF TableInv, States
    <2>1. CASE u = s
        <3>1. Cardinality(Tabled(table', s)) = Cardinality(Tabled(table, s)) - 1
            BY <1>10
        <3>2. states'[s].refs = states[s].refs - 1
            BY <1>6, <1>7
        <3> QED BY <2>0, <2>1, <3>1, <3>2, TabledOK
    <2>2. CASE u # s
        <3>0. u # 0
            OBVIOUS
        <3>1. Tabled(table', u) = Tabled(table, u)
            BY <1>10, <2>2, <3>0, Zenon
        <3>2. states'[u] = states[u]
            BY <1>7, <2>2
        <3> QED BY <2>0, <3>1, <3>2
    <2> QED BY <2>1, <2>2
<1>12. Others(fd)
    <2> SUFFICES ASSUME NEW e \in Fds \ {fd}, table[e] # 0 PROVE FileOf(e)' = FileOf(e)
        BY <1>8 DEF Others
    <2>1. table[e] \in 1 .. MaxOpens
        BY FdState
    <2>2. CASE table[e] = s
        <3>1. e \in Tabled(table', s)
            BY <1>8, <2>2 DEF Tabled
        <3>2. Cardinality(Tabled(table', s)) # 0
            BY <3>1, TabledOK, FS_EmptySet
        <3>3. Cardinality(Tabled(table', s)) <= states'[s].refs
            BY <1>11 DEF RefInv, Tabled
        <3>4. new.refs # 0
            BY <1>6, <1>7, <3>2, <3>3, TabledOK
        <3> QED BY <1>6, <1>7, <1>8, <2>2, <3>4 DEF FileOf
    <2>3. CASE table[e] # s
        BY <1>7, <1>8, <2>1, <2>3 DEF FileOf
    <2> QED BY <2>2, <2>3
<1> QED BY <1>8, <1>9, <1>11, <1>12

-----------------------------------------------------------------------------
(* Types *)

LEMMA DataKept ==
    ASSUME DataInv, UNCHANGED <<meta, store, latest, owed, torn, writes, faults>>
    PROVE  DataInv' /\ writes \in Nat /\ writes' \in Nat /\ writes <= writes'
BY Numbers DEF DataInv

LEMMA OverlayOK ==
    ASSUME NEW f \in [Bytes -> 0 .. MaxWrites], NEW put, put.id \in 0 .. MaxWrites
    PROVE  /\ Overlay(f, put) \in [Bytes -> 0 .. MaxWrites]
           /\ \A b \in Bytes : Overlay(f, put)[b] =
                IF b \in Extent(put.off, put.len) THEN put.id ELSE f[b]
BY DEF Overlay

\* A read or write of those bytes.
Transfer(op, fd, todo, off, len, id, move) ==
    [CallOf(op, fd, todo) EXCEPT !.put = [off |-> off, len |-> len, id |-> id], !.move = move]

LEMMA CallOfOK ==
    ASSUME NEW w \in Nat, NEW todo, TodoOK(todo, w), NEW op \in {"write", "read", "fsync"},
           NEW fd \in Fds, TableInv,
           NEW off \in Nat, NEW len \in Nat, NEW id \in Nat, off + len <= Size,
           NEW move \in BOOLEAN,
           NEW c, c = Transfer(op, fd, todo, off, len, id, move)
    PROVE  /\ CallOK(c, w) /\ ShapeOK(c)
           /\ c.todo = todo /\ c.op = op /\ c.step = "publish"
           /\ c.move = move /\ c.fs = table[fd] /\ c.put.off = off /\ c.put.len = len
<1>1. table[fd] \in Nat
    BY Numbers DEF TableInv
<1>2. op \in Ops /\ op # "idle"
    BY DEF Ops
<1>3. c = CallWith(op, fd, table[fd], todo, off, len, id, move)
    BY DEF Transfer, CallOf, IdleCall, CallWith
<1>4. PICK d : d = CallWith(op, fd, table[fd], todo, off, len, id, move)
    OBVIOUS
<1>5. /\ CallOK(d, w) /\ ShapeOK(d)
      /\ d.todo = todo /\ d.op = op /\ d.step = "publish"
      /\ d.move = move /\ d.fs = table[fd] /\ d.put.off = off /\ d.put.len = len
    BY <1>1, <1>2, <1>4, NewCallOK
<1>6. c = d
    BY <1>3, <1>4
<1> QED BY <1>5, <1>6, Zenon

LEMMA FsyncCallOK ==
    ASSUME NEW w \in Nat, NEW todo, TodoOK(todo, w), NEW fd \in Fds, TableInv,
           NEW c, c = CallOf("fsync", fd, todo)
    PROVE  /\ CallOK(c, w) /\ ShapeOK(c)
           /\ c.todo = todo /\ c.op = "fsync" /\ c.step = "publish"
<1>1. table[fd] \in Nat
    BY Numbers DEF TableInv
<1>2. PICK op \in Ops : op = "fsync" /\ op # "idle"
    BY DEF Ops
<1>5. PICK z \in Nat, move \in BOOLEAN : z = 0 /\ move = FALSE
    OBVIOUS
<1>6. z + z <= Size
    BY <1>5, Numbers
<1>3. c = CallWith(op, fd, table[fd], todo, z, z, z, move)
    BY <1>2, <1>5 DEF CallOf, IdleCall, NoPut, CallWith
<1>7. PICK d : d = CallWith(op, fd, table[fd], todo, z, z, z, move)
    OBVIOUS
<1>8. /\ CallOK(d, w) /\ ShapeOK(d)
      /\ d.todo = todo /\ d.op = op /\ d.step = "publish"
    BY <1>1, <1>2, <1>6, <1>7, NewCallOK
<1>9. c = d
    BY <1>3, <1>7
<1> QED BY <1>2, <1>8, <1>9, Zenon

\* Moving the position by a call whose bytes lie inside the file.
LEMMA MovedOK ==
    ASSUME TableInv, NEW c, c.put.off \in Nat, c.put.len \in Nat, c.put.off + c.put.len <= Size,
           states' = Moved(c) \/ states' = states
    PROVE  states' = states \/ Moves(c.fs)
<1>1. c.put.off + c.put.len \in 0 .. Size
    BY Numbers
<1> QED BY <1>1 DEF Moved, Moves

\* The descriptors stay as they are, whatever happens to positions.
Stays ==
    /\ table' = table
    /\ \A e \in Fds : table[e] # 0 => FileOf(e)' = FileOf(e)

LEMMA PositionOK ==
    ASSUME TableInv, RefInv, table' = table, kernel' = kernel,
           states' = states \/ \E s : Moves(s)
    PROVE  TableInv' /\ RefInv' /\ Stays
<1>1. CASE states' = states
    BY <1>1, TableKept DEF TableInv, Stays, FileOf
<1>2. CASE \E s : Moves(s)
    <2>1. TableInv' /\ RefInv' /\ \A u \in 1 .. MaxOpens : states'[u].file = states[u].file
        BY <1>2, MovesOK
    <2>2. Stays
        <3> SUFFICES ASSUME NEW e \in Fds, table[e] # 0 PROVE FileOf(e)' = FileOf(e)
            BY DEF Stays
        <3>1. table[e] \in 1 .. MaxOpens
            BY FdState
        <3> QED BY <2>1, <3>1 DEF FileOf
    <2> QED BY <2>1, <2>2
<1> QED BY <1>1, <1>2

\* The call of one actor is replaced.
Goes(a, c) == call'[a] = c /\ \A u \in Actors \ {a} : call'[u] = call[u]

\* Nothing the application sees of its data changes.
DataSame == UNCHANGED <<caches, meta, store, owed, writes, faults, latest, torn, loose>>

LEMMA ThreadIsActor == ASSUME NEW t \in Threads PROVE t \in Actors
BY DEF Actors

LEMMA OfCall ==
    ASSUME CallsInv, NEW a \in Actors, NEW c, c = call[a]
    PROVE  /\ CallOK(c, writes) /\ ShapeOK(c)
           /\ TodoOK(c.todo, writes) /\ c.todo \in Seq(Regions)
           /\ c.put.off \in Nat /\ c.put.len \in Nat /\ c.put.off + c.put.len <= Size
           /\ c.op = "idle" => c = IdleCall /\ c.todo = <<>> /\ c.step = "publish"
           /\ c.op \in Ops /\ c.step \in Steps /\ c.fs \in Nat
<1>1. CallOK(c, writes) /\ ShapeOK(c)
    BY DEF CallsInv
<1>2. c \in CallRecords
    BY <1>1 DEF CallOK
<1>3. /\ c.todo \in Seq(Regions) /\ c.put.off \in Nat /\ c.put.len \in Nat /\ c.op \in Ops
      /\ c.step \in Steps /\ c.fs \in Nat
    BY <1>2 DEF CallRecords
<1>4. c.op = "idle" => c = IdleCall
    BY <1>1 DEF ShapeOK
<1>5. IdleCall.todo = <<>> /\ IdleCall.step = "publish"
    BY DEF IdleCall
<1> QED BY <1>1, <1>3, <1>4, <1>5 DEF CallOK, TodoOK

\* A step of one call that leaves the data alone.
LEMMA CallOnlyType ==
    ASSUME TypeInv, NEW a \in Actors, NEW c, CallOK(c, writes), ShapeOK(c),
           call' = [call EXCEPT ![a] = c], DataSame, TableInv', RefInv'
    PROVE  TypeInv' /\ Goes(a, c)
<1>1. DataInv' /\ writes \in Nat /\ writes' \in Nat /\ writes <= writes' /\ writes' = writes
    BY DataKept DEF TypeInv, DataSame
<1>2. CachesInv'
    BY <1>1, CachesKept DEF TypeInv, DataSame
<1>3. CallOK(c, writes')
    BY <1>1
<1>4. CallsInv' /\ Goes(a, c)
    BY <1>1, <1>3, CallsStep DEF TypeInv, Goes
<1> QED BY <1>1, <1>2, <1>4 DEF TypeInv

LEMMA WriteReturnType ==
    ASSUME TypeInv, NEW t \in Threads, WriteReturn(t)
    PROVE  TypeInv' /\ Goes(t, IdleCall) /\ DataSame /\ Stays
<1>1. PICK c : c = call[t]
    OBVIOUS
<1>2. c.put.off \in Nat /\ c.put.len \in Nat /\ c.put.off + c.put.len <= Size
    BY <1>1, OfCall, ThreadIsActor DEF TypeInv
<1>3. states' = Moved(c) /\ table' = table /\ kernel' = kernel
      /\ call' = [call EXCEPT ![t] = IdleCall] /\ DataSame
    BY <1>1 DEF WriteReturn, dataVars, DataSame
<1>4. TableInv' /\ RefInv' /\ Stays
    BY <1>2, <1>3, MovedOK, PositionOK DEF TypeInv
<1> QED BY <1>3, <1>4, IdleOK, CallOnlyType, ThreadIsActor

LEMMA ReadLabelType ==
    ASSUME TypeInv, NEW t \in Threads, ReadLabel(t)
    PROVE  TypeInv' /\ Goes(t, IdleCall) /\ DataSame /\ Stays
<1>1. PICK c : c = call[t]
    OBVIOUS
<1>2. c.put.off \in Nat /\ c.put.len \in Nat /\ c.put.off + c.put.len <= Size
    BY <1>1, OfCall, ThreadIsActor DEF TypeInv
<1>3. states' = Moved(c) /\ table' = table /\ kernel' = kernel
      /\ call' = [call EXCEPT ![t] = IdleCall] /\ DataSame
    BY <1>1 DEF ReadLabel, dataVars, DataSame
<1>4. TableInv' /\ RefInv' /\ Stays
    BY <1>2, <1>3, MovedOK, PositionOK DEF TypeInv
<1> QED BY <1>3, <1>4, IdleOK, CallOnlyType, ThreadIsActor

LEMMA LseekType ==
    ASSUME TypeInv, NEW t \in Threads, NEW fd \in Fds, Lseek(t, fd)
    PROVE  TypeInv' /\ call' = call /\ DataSame /\ Stays
<1>1. table[fd] # 0
    BY DEF Lseek, Enters
<1>2. FileOf(fd) \in Files
    BY <1>1, FdState DEF TypeInv
<1>3. \A pos \in {0, get_file_info(FileOf(fd)).size} : pos \in 0 .. Size
    BY <1>2, Numbers DEF get_file_info, TypeInv, DataInv
<1>4. Moves(table[fd]) /\ table' = table /\ kernel' = kernel /\ call' = call /\ DataSame
    BY <1>3 DEF Lseek, Moves, dataVars, DataSame
<1>5. TableInv' /\ RefInv' /\ Stays
    BY <1>4, PositionOK DEF TypeInv
<1>6. DataInv' /\ writes \in Nat /\ writes' \in Nat /\ writes <= writes'
    BY <1>4, DataKept DEF TypeInv, DataSame
<1>7. CachesInv' /\ CallsInv'
    BY <1>4, <1>6, CachesKept, CallsKept DEF TypeInv, DataSame
<1> QED BY <1>4, <1>5, <1>6, <1>7 DEF TypeInv

\* What is known of a file whose size nobody set does not get less.
MetaKept ==
    \A f \in Files \ loose' :
      meta'[f].size = meta[f].size /\ (meta[f].exists => meta'[f].exists)

PathOf(fd) == caches[fd].filepath

LEMMA PathType ==
    ASSUME CachesInv, NEW fd \in Fds
    PROVE  PathOf(fd) \in Files \cup {NoFile} /\ HoldsOK(caches[fd], writes)
BY DEF CachesInv, CacheOK, HoldsOK, PathOf

\* A number that is handed out damages the file it is for, and the one its
\* cache is for, if it is still in use.
Hands(fd, file) ==
    torn' = IF Reuses(fd, file) THEN torn \cup {file, PathOf(fd)} ELSE torn

LEMMA OpenType ==
    ASSUME TypeInv, NEW t \in Threads, NEW file \in Files, NEW creat \in BOOLEAN,
           NEW trunc \in BOOLEAN, NEW sync \in BOOLEAN, Open(t, file, creat, trunc, sync)
    PROVE  /\ TypeInv' /\ UNCHANGED <<call, caches, store, owed, latest, writes>>
           /\ NewFd \in Fds /\ Others(NewFd) /\ Leads(NewFd, file) /\ Hands(NewFd, file)
           /\ MetaKept /\ loose \subseteq loose'
<1>1. TableInv' /\ RefInv' /\ Others(NewFd) /\ Leads(NewFd, file) /\ NewFd \in Fds
    BY OpenTable DEF Open, TypeInv
<1>2. PICK new : new = track_open(meta[file], creat, trunc)
    OBVIOUS
<1>3. meta' = [meta EXCEPT ![file] = new]
    BY <1>2 DEF Open
<1>4. meta \in [Files -> [exists : BOOLEAN, size : 0 .. Size]]
    BY DEF TypeInv, DataInv
<1>5. /\ new \in [exists : BOOLEAN, size : 0 .. Size]
      /\ meta[file].exists => new.exists
      /\ ~trunc => new.size = meta[file].size
    BY <1>2, <1>4, Numbers DEF track_open
<1>6. meta' \in [Files -> [exists : BOOLEAN, size : 0 .. Size]]
    BY <1>3, <1>4, <1>5
<1>7. loose' = IF trunc THEN loose \cup {file} ELSE loose
    BY DEF Open
<1>8. MetaKept
    <2> SUFFICES ASSUME NEW f \in Files, f \notin loose'
                 PROVE  meta'[f].size = meta[f].size /\ (meta[f].exists => meta'[f].exists)
        BY DEF MetaKept
    <2>1. CASE f = file
        <3>1. ~trunc
            BY <1>7, <2>1
        <3>2. meta'[f] = new
            BY <1>3, <1>4, <2>1
        <3> QED BY <1>5, <2>1, <3>1, <3>2
    <2>2. CASE f # file
        <3>1. meta'[f] = meta[f]
            BY <1>3, <1>4, <2>2
        <3> QED BY <3>1
    <2> QED BY <2>1, <2>2
<1>9. Hands(NewFd, file)
    BY DEF Open, Hands, PathOf
<1>10. torn' \subseteq Files \cup {NoFile}
    BY <1>1, <1>9, PathType DEF Hands, TypeInv, DataInv
<1>11. UNCHANGED <<call, caches, store, owed, latest, writes, faults>>
    BY DEF Open
<1>12. DataInv' /\ writes \in Nat /\ writes' \in Nat /\ writes <= writes'
    BY <1>6, <1>10, <1>11, Numbers DEF TypeInv, DataInv
<1>13. CachesInv' /\ CallsInv'
    BY <1>11, <1>12, CachesKept, CallsKept DEF TypeInv
<1> QED BY <1>1, <1>7, <1>8, <1>9, <1>11, <1>12, <1>13 DEF TypeInv

\* A call that writes.  s is the cache with the region in it, and n the
\* number of the write.
Writes(t, fd, off, len, file, n) ==
    /\ table[fd] # 0 /\ file = FileOf(fd)
    /\ call[t].op = "idle" /\ ~Exiting
    /\ n = writes + 1 /\ writes' = n
    /\ latest' = [latest EXCEPT ![file] = Overlay(@, [off |-> off, len |-> len, id |-> n])]
    /\ owed' = owed \cup ({file} \X Extent(off, len))
    /\ UNCHANGED <<meta, store, torn, loose>>

\* A write of at least the threshold, and one below it.
LargeWrite(t, fd, off, len, file, n) ==
    /\ caches' = caches
    /\ call'[t].todo = <<[file |-> file, off |-> off, len |-> len, id |-> n]>>

SmallWrite(t, fd, off, len, file, n) ==
    LET s == stored_in(caches[fd], file, off, len, n)
        x == cache_write(caches[fd], file, off, len, n)
    IN  /\ len < LabelMinSize
        /\ caches' = [caches EXCEPT ![fd] = x.cache]
        /\ call'[t].todo = x.flushed

LEMMA DoWriteType ==
    ASSUME TypeInv, NEW t \in Threads, NEW fd \in Fds, NEW off, NEW len,
           <<off, len>> \in Extents, NEW move \in BOOLEAN, DoWrite(t, fd, off, len, move)
    PROVE  /\ TypeInv' /\ Stays
           /\ \E file \in Files : \E n \in Nat :
                /\ Writes(t, fd, off, len, file, n)
                /\ \/ LargeWrite(t, fd, off, len, file, n)
                   \/ SmallWrite(t, fd, off, len, file, n)
           /\ \E c : Goes(t, c) /\ c.step = "publish" /\ c.op \in {"idle", "write"}
<1>1. table[fd] # 0 /\ writes < MaxWrites /\ call[t].op = "idle" /\ ~Exiting
    BY DEF DoWrite, Enters, Starts
<1>2. PICK file \in Files : file = FileOf(fd)
    BY <1>1, FdState DEF TypeInv
<1>3. PICK n \in Nat : n = writes + 1
    BY Numbers DEF TypeInv, DataInv
<1>4. n \in 1 .. MaxWrites /\ writes \in Nat /\ writes <= n
    BY <1>1, <1>3, Numbers DEF TypeInv, DataInv
<1>5. /\ off \in Nat /\ len \in 1 .. Size /\ off + len <= Size /\ off \in Bytes
      /\ Extent(off, len) \subseteq Bytes /\ len \in Nat
    BY ExtentsOK, Numbers
<1>6. PICK put : put = [off |-> off, len |-> len, id |-> n]
    OBVIOUS
<1>7. PICK x : x = cache_write(caches[fd], file, off, len, n)
    OBVIOUS
<1>8. PICK direct : direct = <<[file |-> file, off |-> off, len |-> len, id |-> n]>>
    OBVIOUS
<1>9. PICK todo : todo = IF len < LabelMinSize THEN x.flushed ELSE direct
    OBVIOUS
<1>10. PICK c : c = [CallOf("write", fd, todo) EXCEPT !.put = put, !.move = move]
    OBVIOUS
<1>11. /\ writes' = n /\ table' = table /\ kernel' = kernel
       /\ caches' = IF len < LabelMinSize THEN [caches EXCEPT ![fd] = x.cache] ELSE caches
       /\ call' = [call EXCEPT ![t] = Begun(c)]
       /\ states' = IF c.todo = <<>> THEN Moved(c) ELSE states
       /\ latest' = [latest EXCEPT ![file] = Overlay(@, put)]
       /\ owed' = owed \cup ({file} \X Extent(off, len))
       /\ UNCHANGED <<meta, store, faults, torn, loose>>
    BY <1>2, <1>3, <1>6, <1>7, <1>8, <1>9, <1>10 DEF DoWrite
<1>12. CacheOK(caches[fd], writes)
    BY DEF TypeInv, CachesInv
<1>13. ASSUME len < LabelMinSize PROVE CacheOK(x.cache, n) /\ TodoOK(x.flushed, n)
    <2>1. PICK s : s = stored_in(caches[fd], file, off, len, writes + 1)
        OBVIOUS
    <2> QED BY <1>1, <1>3, <1>4, <1>7, <1>12, <1>13, <2>1, WriteOK
<1>14. TodoOK(direct, n)
    <2>1. PICK r : r = [file |-> file, off |-> off, len |-> len, id |-> n]
        OBVIOUS
    <2>2. r \in Regions /\ r.off + r.len <= Size /\ r.id <= n
        BY <1>4, <1>5, <2>1 DEF Regions
    <2>3. direct = <<r>> /\ direct \in Seq(Regions) /\ Range(direct) = {r}
        BY <1>8, <2>1, <2>2 DEF Range
    <2> QED BY <2>2, <2>3 DEF TodoOK, Fits
<1>15. TodoOK(todo, n)
    BY <1>9, <1>13, <1>14
<1>16. /\ CallOK(c, n) /\ ShapeOK(c) /\ c.todo = todo /\ c.op = "write" /\ c.step = "publish"
       /\ c.put.off = off /\ c.put.len = len
    <2>1. PICK op \in {"write", "read", "fsync"} : op = "write"
        OBVIOUS
    <2>2. c = Transfer(op, fd, todo, off, len, n, move)
        BY <1>6, <1>10, <2>1 DEF Transfer
    <2>3. TableInv
        BY DEF TypeInv
    <2>4. off \in Nat /\ len \in Nat /\ n \in Nat /\ off + len <= Size
        BY <1>4, <1>5
    <2>5. /\ CallOK(c, n) /\ ShapeOK(c)
          /\ c.todo = todo /\ c.op = op /\ c.step = "publish"
          /\ c.move = move /\ c.fs = table[fd] /\ c.put.off = off /\ c.put.len = len
        BY <1>15, <2>2, <2>3, <2>4, CallOfOK
    <2> QED BY <2>1, <2>5
<1>17. TableInv' /\ RefInv' /\ Stays
    <2>1. states' = states \/ Moves(c.fs)
        BY <1>5, <1>11, <1>16, MovedOK DEF TypeInv
    <2> QED BY <1>11, <2>1, PositionOK DEF TypeInv
<1>18. /\ CallOK(Begun(c), n) /\ ShapeOK(Begun(c)) /\ Begun(c).todo = todo
       /\ Begun(c).op \in {"idle", "write"} /\ Begun(c).step = "publish"
    <2>1. IdleCall.step = "publish"
        BY DEF IdleCall
    <2> QED BY <1>16, <2>1, BegunOK
<1>19. CallsInv' /\ Goes(t, Begun(c))
    BY <1>4, <1>11, <1>18, CallsStep, ThreadIsActor DEF TypeInv, Goes
<1>20. CachesInv'
    <2>1. CASE len < LabelMinSize
        BY <1>4, <1>11, <1>13, <2>1, CachesStep DEF TypeInv
    <2>2. CASE ~(len < LabelMinSize)
        BY <1>4, <1>11, <2>2, CachesKept DEF TypeInv
    <2> QED BY <2>1, <2>2
<1>21. DataInv'
    <2>1. latest \in [Files -> [Bytes -> 0 .. MaxWrites]]
        BY DEF TypeInv, DataInv
    <2>2. Overlay(latest[file], put) \in [Bytes -> 0 .. MaxWrites]
        <3>1. latest[file] \in [Bytes -> 0 .. MaxWrites]
            BY <2>1
        <3>2. put.id \in 0 .. MaxWrites
            BY <1>4, <1>6
        <3> QED BY <3>1, <3>2, OverlayOK
    <2>3. latest' \in [Files -> [Bytes -> 0 .. MaxWrites]]
        BY <1>11, <2>1, <2>2
    <2>4. owed' \subseteq Files \X Bytes
        BY <1>5, <1>11 DEF TypeInv, DataInv
    <2> QED BY <1>4, <1>11, <2>3, <2>4 DEF TypeInv, DataInv
<1>22. Writes(t, fd, off, len, file, n)
    BY <1>1, <1>2, <1>3, <1>6, <1>11 DEF Writes
<1>23. call'[t].todo = todo
    BY <1>18, <1>19 DEF Goes
<1>24. LargeWrite(t, fd, off, len, file, n) \/ SmallWrite(t, fd, off, len, file, n)
    BY <1>7, <1>8, <1>9, <1>11, <1>23 DEF LargeWrite, SmallWrite
<1> QED BY <1>4, <1>17, <1>18, <1>19, <1>20, <1>21, <1>22, <1>24 DEF TypeInv

RestSame == UNCHANGED <<meta, store, owed, writes, faults, latest, torn, loose>>

LEMMA RestType ==
    ASSUME DataInv, RestSame
    PROVE  DataInv' /\ writes \in Nat /\ writes' \in Nat /\ writes <= writes' /\ writes' = writes
BY DataKept DEF RestSame

\* The regions of one cache move into the hands of a call.
Takes(a, fd, c) ==
    /\ caches' = [caches EXCEPT ![fd] = flush_locked(caches[fd])]
    /\ call' = [call EXCEPT ![a] = c]
    /\ c.todo = FlushRegions(caches[fd])

LEMMA CacheRegions ==
    ASSUME CachesInv, DataInv, NEW fd \in Fds
    PROVE  /\ TodoOK(FlushRegions(caches[fd]), writes)
           /\ Range(FlushRegions(caches[fd])) = Held(caches[fd])
           /\ FlushRegions(caches[fd]) = <<>> <=> DOMAIN caches[fd].regions = {}
<1>1. PICK w \in 0 .. MaxWrites : w = writes
    BY DEF DataInv
<1>2. PICK c : c = caches[fd]
    OBVIOUS
<1>3. HoldsOK(c, w)
    BY <1>1, <1>2, PathType
<1>4. /\ TodoOK(FlushRegions(c), w) /\ Range(FlushRegions(c)) = Held(c)
      /\ FlushRegions(c) = <<>> <=> DOMAIN c.regions = {}
    BY <1>3, HeldOK
<1> QED BY <1>1, <1>2, <1>4

\* What the flush of a cache leaves.
Flushed(fd) == DOMAIN caches'[fd].regions = {} /\ PathOf(fd)' = PathOf(fd)

OtherCaches(fd) == \A e \in Fds \ {fd} : caches'[e] = caches[e]

LEMMA TakesType ==
    ASSUME TypeInv, NEW a \in Actors, NEW fd \in Fds, NEW c, CallOK(c, writes), ShapeOK(c),
           Takes(a, fd, c), RestSame, TableInv', RefInv'
    PROVE  TypeInv' /\ Goes(a, c) /\ Flushed(fd) /\ OtherCaches(fd)
<1>1. DataInv' /\ writes \in Nat /\ writes' \in Nat /\ writes <= writes' /\ writes' = writes
    BY RestType DEF TypeInv
<1>2. PICK f : f = flush_locked(caches[fd])
    OBVIOUS
<1>3. CacheOK(f, writes) /\ f.filepath = caches[fd].filepath /\ DOMAIN f.regions = {}
    BY <1>2, PathType, FlushedOK DEF TypeInv
<1>4. CachesInv' /\ caches'[fd] = f /\ \A e \in Fds \ {fd} : caches'[e] = caches[e]
    <2>1. caches' = [caches EXCEPT ![fd] = f] /\ CacheOK(f, writes')
        BY <1>1, <1>2, <1>3 DEF Takes
    <2> QED BY <1>1, <2>1, CachesStep DEF TypeInv
<1>5. CallsInv' /\ Goes(a, c)
    <2>1. call' = [call EXCEPT ![a] = c] /\ CallOK(c, writes')
        BY <1>1 DEF Takes
    <2> QED BY <1>1, <2>1, CallsStep DEF TypeInv, Goes
<1> QED BY <1>1, <1>3, <1>4, <1>5 DEF TypeInv, Flushed, OtherCaches, PathOf

LEMMA DoReadType ==
    ASSUME TypeInv, NEW t \in Threads, NEW fd \in Fds, NEW off, NEW len,
           <<off, len>> \in ReadExtents, NEW move \in BOOLEAN, DoRead(t, fd, off, len, move)
    PROVE  /\ TypeInv' /\ Stays /\ RestSame
           /\ \/ UNCHANGED <<caches, call>>
              \/ \E c : /\ c.op = "read" /\ c.step = "publish"
                        /\ Takes(t, fd, c) /\ Goes(t, c) /\ Flushed(fd) /\ OtherCaches(fd)
           /\ call[t].op = "idle" /\ ~Exiting
<1>1. table[fd] # 0 /\ call[t].op = "idle" /\ ~Exiting
    BY DEF DoRead, Enters, Starts
<1>2. off \in Nat /\ len \in Nat /\ off + len <= Size
    BY ExtentsOK, Numbers
<1>3. PICK o \in Nat, l \in Nat : o = off /\ l = len /\ o + l <= Size
    BY <1>2
<1>4. PICK todo : todo = FlushRegions(caches[fd])
    OBVIOUS
<1>5. PICK c : c = Transfer("read", fd, todo, o, l, 0, move)
    OBVIOUS
<1>6. /\ table' = table /\ kernel' = kernel /\ RestSame
      /\ states' = Moved(c) \/ states' = states
      /\ UNCHANGED <<caches, call>> \/ Takes(t, fd, c)
    <2>1. PICK d : d = [CallOf("read", fd, FlushRegions(caches[fd]))
                          EXCEPT !.put = [off |-> off, len |-> len, id |-> 0], !.move = move]
        OBVIOUS
    <2>2. /\ table' = table /\ kernel' = kernel /\ RestSame
          /\ states' = Moved(d) \/ states' = states
          /\ UNCHANGED <<caches, call>>
             \/ (/\ caches' = [caches EXCEPT ![fd] = flush_locked(@)]
                 /\ call' = [call EXCEPT ![t] = d])
        BY <2>1 DEF DoRead, RestSame
    <2>3. d = c
        BY <1>3, <1>4, <1>5, <2>1 DEF Transfer
    <2>4. caches' = [caches EXCEPT ![fd] = flush_locked(@)]
          => caches' = [caches EXCEPT ![fd] = flush_locked(caches[fd])]
        OBVIOUS
    <2>5. c.todo = FlushRegions(caches[fd])
        BY <1>4, <1>5 DEF Transfer, CallOf, IdleCall
    <2> HIDE <1>5
    <2> QED BY <2>2, <2>3, <2>4, <2>5 DEF Takes
<1>7. /\ CallOK(c, writes) /\ ShapeOK(c) /\ c.op = "read" /\ c.step = "publish"
      /\ c.put.off = o /\ c.put.len = l
    <2>1. PICK w \in Nat : w = writes
        BY Numbers DEF TypeInv, DataInv
    <2>2. PICK op \in {"write", "read", "fsync"} : op = "read"
        OBVIOUS
    <2>3. PICK id \in Nat : id = 0
        OBVIOUS
    <2>4. TodoOK(todo, w) /\ TableInv
        BY <1>4, <2>1, CacheRegions DEF TypeInv
    <2>5. c = Transfer(op, fd, todo, o, l, id, move)
        BY <1>5, <2>2, <2>3
    <2>6. /\ CallOK(c, w) /\ ShapeOK(c) /\ c.op = op /\ c.step = "publish"
          /\ c.put.off = o /\ c.put.len = l
        BY <1>3, <2>4, <2>5, CallOfOK
    <2> QED BY <2>1, <2>2, <2>6
<1>8. TableInv' /\ RefInv' /\ Stays
    <2>1. states' = states \/ Moves(c.fs)
        BY <1>3, <1>6, <1>7, MovedOK DEF TypeInv
    <2> QED BY <1>6, <2>1, PositionOK DEF TypeInv
<1>9. CASE UNCHANGED <<caches, call>>
    <2>1. DataInv' /\ writes \in Nat /\ writes' \in Nat /\ writes <= writes'
        BY <1>6, RestType DEF TypeInv
    <2>2. CachesInv' /\ CallsInv'
        BY <1>9, <2>1, CachesKept, CallsKept DEF TypeInv
    <2> QED BY <1>1, <1>6, <1>8, <1>9, <2>1, <2>2 DEF TypeInv
<1>10. CASE Takes(t, fd, c)
    <2>1. TypeInv' /\ Goes(t, c) /\ Flushed(fd) /\ OtherCaches(fd)
        BY <1>6, <1>7, <1>8, <1>10, TakesType, ThreadIsActor
    <2> QED BY <1>1, <1>6, <1>7, <1>8, <1>10, <2>1
<1> QED BY <1>6, <1>9, <1>10

LEMMA FsyncType ==
    ASSUME TypeInv, NEW t \in Threads, NEW fd \in Fds, Fsync(t, fd)
    PROVE  /\ TypeInv' /\ Stays /\ RestSame
           /\ \E c : /\ c.op \in {"idle", "fsync"} /\ c.step = "publish"
                     /\ Takes(t, fd, c) /\ Goes(t, c) /\ Flushed(fd) /\ OtherCaches(fd)
           /\ call[t].op = "idle" /\ ~Exiting
<1>1. call[t].op = "idle" /\ ~Exiting
    BY DEF Fsync, Enters, Starts
<1>2. PICK todo : todo = FlushRegions(caches[fd])
    OBVIOUS
<1>3. PICK c : c = CallOf("fsync", fd, todo)
    OBVIOUS
<1>4. /\ CallOK(c, writes) /\ ShapeOK(c) /\ c.todo = todo /\ c.op = "fsync" /\ c.step = "publish"
    <2>1. PICK w \in Nat : w = writes
        BY Numbers DEF TypeInv, DataInv
    <2>2. TodoOK(todo, w) /\ TableInv
        BY <1>2, <2>1, CacheRegions DEF TypeInv
    <2>3. CallOK(c, w) /\ ShapeOK(c) /\ c.todo = todo /\ c.op = "fsync" /\ c.step = "publish"
        BY <1>3, <2>2, FsyncCallOK
    <2> QED BY <2>1, <2>3
<1>5. PICK d : d = Begun(c)
    OBVIOUS
<1>6. /\ CallOK(d, writes) /\ ShapeOK(d) /\ d.todo = todo /\ d.op \in {"idle", "fsync"}
      /\ d.step = "publish"
    <2>1. IdleCall.step = "publish"
        BY DEF IdleCall
    <2> QED BY <1>4, <1>5, <2>1, BegunOK
<1>7. Takes(t, fd, d) /\ RestSame /\ table' = table /\ states' = states /\ kernel' = kernel
    <2>1. /\ caches' = [caches EXCEPT ![fd] = flush_locked(@)]
          /\ call' = [call EXCEPT ![t] = d]
          /\ RestSame /\ table' = table /\ states' = states /\ kernel' = kernel
        BY <1>2, <1>3, <1>5 DEF Fsync, RestSame, fdVars
    <2>2. caches' = [caches EXCEPT ![fd] = flush_locked(caches[fd])]
        BY <2>1
    <2> QED BY <1>2, <1>6, <2>1, <2>2 DEF Takes
<1>8. TableInv' /\ RefInv' /\ Stays
    BY <1>7, PositionOK DEF TypeInv
<1>9. TypeInv' /\ Goes(t, d) /\ Flushed(fd) /\ OtherCaches(fd)
    BY <1>6, <1>7, <1>8, TakesType, ThreadIsActor
<1> QED BY <1>1, <1>6, <1>7, <1>8, <1>9

LEMMA CloseType ==
    ASSUME TypeInv, NEW t \in Threads, NEW fd \in Fds, NEW next \in {"return", "fclose", "dup2"},
           NEW oldfd \in Fds \cup {0}, next = "dup2" => oldfd \in Fds, Close(t, fd, next, oldfd)
    PROVE  /\ TypeInv' /\ DataSame /\ Others(fd) /\ table'[fd] = 0
           /\ \E c : /\ Goes(t, c) /\ c.todo = <<>> /\ c.op \in {"idle", "close"}
                     /\ c.step \in {"publish", "flush", "closed"}
                     /\ c.op = "close" => c.fd = fd /\ c.step # "publish"
           /\ call[t].op = "idle" /\ ~Exiting
<1>1. table[fd] # 0 /\ call[t].op = "idle" /\ ~Exiting
    BY DEF Close, Starts
<1>2. PICK last \in BOOLEAN : last = (states[table[fd]].refs = 1)
    OBVIOUS
<1>3. PICK step \in {"flush", "closed"} : step = IF last THEN "flush" ELSE "closed"
    OBVIOUS
<1>4. PICK c : c = [IdleCall EXCEPT !.op = "close", !.fd = fd, !.step = step,
                                    !.next = next, !.oldfd = oldfd]
    OBVIOUS
<1>5. PICK d : d = IF last \/ next # "return" THEN c ELSE IdleCall
    OBVIOUS
<1>6. /\ table' = [table EXCEPT ![fd] = 0] /\ kernel' = kernel \ {fd}
      /\ call' = [call EXCEPT ![t] = d] /\ DataSame
      /\ states' = [states EXCEPT ![table[fd]] =
                      IF states[table[fd]].refs = 1 THEN Free
                      ELSE [states[table[fd]] EXCEPT !.refs = @ - 1]]
    <2>1. /\ table' = [table EXCEPT ![fd] = 0] /\ kernel' = kernel \ {fd} /\ DataSame
          /\ states' = [states EXCEPT ![table[fd]] =
                          IF states[table[fd]].refs = 1 THEN Free
                          ELSE [states[table[fd]] EXCEPT !.refs = @ - 1]]
        BY DEF Close, DataSame, dataVars
    <2>2. call' = [call EXCEPT ![t] = d]
        BY <1>2, <1>3, <1>4, <1>5 DEF Close
    <2> QED BY <2>1, <2>2
<1>7. TableInv' /\ RefInv' /\ Others(fd) /\ table'[fd] = 0
    BY <1>1, <1>6, CloseTable DEF TypeInv
<1>8. c = [op |-> "close", step |-> step, fd |-> fd, fs |-> 0, todo |-> <<>>, cur |-> 0,
           put |-> NoPut, move |-> FALSE, next |-> next, oldfd |-> oldfd]
    BY <1>4 DEF IdleCall
<1>9. /\ c.op = "close" /\ c.step = step /\ c.fd = fd /\ c.todo = <<>> /\ c.next = next
      /\ c.oldfd = oldfd /\ c.put = NoPut
    BY <1>8
<1>10. CallOK(c, writes) /\ ShapeOK(c)
    <2>1. c \in CallRecords
        <3>1. <<>> \in Seq(Regions) /\ 0 \in 0 .. Size /\ NoPut \in [off : Nat, len : Nat, id : Nat]
              /\ "close" \in Ops /\ step \in Steps
            BY Numbers DEF NoPut, Ops, Steps
        <3> QED BY <1>8, <3>1 DEF CallRecords
    <2>2. Range(<<>>) = {} /\ NoPut.off + NoPut.len = 0
        BY DEF Range, NoPut
    <2> QED BY <1>9, <2>1, <2>2, Numbers DEF CallOK, ShapeOK
<1>11. IdleCall.op = "idle" /\ IdleCall.step = "publish" /\ IdleCall.todo = <<>>
    BY DEF IdleCall
<1>12. /\ CallOK(d, writes) /\ ShapeOK(d) /\ d.todo = <<>> /\ d.op \in {"idle", "close"}
       /\ d.step \in {"publish", "flush", "closed"}
       /\ d.op = "close" => d.fd = fd /\ d.step # "publish"
    BY <1>5, <1>9, <1>10, <1>11, IdleOK
<1>13. TypeInv' /\ Goes(t, d)
    BY <1>6, <1>7, <1>12, CallOnlyType, ThreadIsActor
<1> QED BY <1>1, <1>6, <1>7, <1>12, <1>13

LEMMA CloseFlushType ==
    ASSUME TypeInv, NEW t \in Threads, CloseFlush(t)
    PROVE  /\ TypeInv' /\ Stays /\ RestSame
           /\ call[t].op = "close" /\ call[t].step = "flush" /\ call[t].todo = <<>>
           /\ call[t].fd \in Fds
           /\ \E c : /\ c.op = "close" /\ c.step = "publish" /\ c.fd = call[t].fd
                     /\ Takes(t, c.fd, c) /\ Goes(t, c) /\ Flushed(c.fd) /\ OtherCaches(c.fd)
<1>1. PICK b : b = call[t]
    OBVIOUS
<1>2. /\ b.op = "close" /\ b.step = "flush" /\ b.todo = <<>> /\ b.fd \in Fds
      /\ CallOK(b, writes) /\ ShapeOK(b) /\ b \in CallRecords
    <2>1. b.op = "close" /\ b.step = "flush"
        BY <1>1 DEF CloseFlush
    <2>2. CallOK(b, writes) /\ ShapeOK(b)
        BY <1>1, OfCall, ThreadIsActor DEF TypeInv
    <2> QED BY <2>1, <2>2 DEF ShapeOK, CallOK
<1>3. PICK fd \in Fds : fd = b.fd
    BY <1>2
<1>4. PICK todo : todo = FlushRegions(caches[fd])
    OBVIOUS
<1>5. TodoOK(todo, writes)
    BY <1>4, CacheRegions DEF TypeInv
<1>6. PICK c : c = [b EXCEPT !.step = "publish", !.todo = todo]
    OBVIOUS
<1>7. /\ c \in CallRecords /\ c.op = "close" /\ c.step = "publish" /\ c.fd = fd /\ c.todo = todo
      /\ c.put = b.put /\ c.next = b.next /\ c.oldfd = b.oldfd
    <2>1. "publish" \in Steps /\ todo \in Seq(Regions)
        BY <1>5 DEF Steps, TodoOK
    <2> QED BY <1>2, <1>3, <1>6, <2>1 DEF CallRecords
<1>8. CallOK(c, writes) /\ ShapeOK(c)
    BY <1>2, <1>5, <1>7 DEF CallOK, ShapeOK, TodoOK
<1>9. Takes(t, fd, c) /\ RestSame /\ table' = table /\ states' = states /\ kernel' = kernel
    <2>1. call' = [call EXCEPT ![t].step = "publish", ![t].todo = todo]
          /\ caches' = [caches EXCEPT ![fd] = flush_locked(caches[fd])]
          /\ RestSame /\ table' = table /\ states' = states /\ kernel' = kernel
        BY <1>1, <1>3, <1>4 DEF CloseFlush, RestSame, fdVars
    <2>2. call' = [call EXCEPT ![t] = c]
        BY <1>1, <1>6, <2>1
    <2> QED BY <1>4, <1>7, <2>1, <2>2 DEF Takes
<1>10. TableInv' /\ RefInv' /\ Stays
    BY <1>9, PositionOK DEF TypeInv
<1>11. TypeInv' /\ Goes(t, c) /\ Flushed(fd) /\ OtherCaches(fd)
    BY <1>8, <1>9, <1>10, TakesType, ThreadIsActor
<1> QED BY <1>1, <1>2, <1>3, <1>7, <1>9, <1>10, <1>11

LEMMA CloseEvictType ==
    ASSUME TypeInv, NEW t \in Threads, CloseEvict(t)
    PROVE  /\ TypeInv' /\ Stays /\ RestSame
           /\ call[t].op = "close" /\ call[t].step = "publish" /\ call[t].todo = <<>>
           /\ call[t].fd \in Fds
           /\ caches'[call[t].fd] = Absent /\ OtherCaches(call[t].fd)
           /\ \E c : Goes(t, c) /\ c.todo = <<>> /\ c.step \in {"publish", "closed"}
                     /\ c.op \in {"idle", "close"} /\ (c.op = "close" => c.step = "closed")
<1>1. PICK b : b = call[t]
    OBVIOUS
<1>2. /\ b.op = "close" /\ b.step = "publish" /\ b.todo = <<>> /\ b.fd \in Fds
      /\ CallOK(b, writes) /\ ShapeOK(b) /\ b \in CallRecords
    <2>1. b.op = "close" /\ b.step = "publish" /\ b.todo = <<>>
        BY <1>1 DEF CloseEvict
    <2>2. CallOK(b, writes) /\ ShapeOK(b)
        BY <1>1, OfCall, ThreadIsActor DEF TypeInv
    <2> QED BY <2>1, <2>2 DEF ShapeOK, CallOK
<1>3. PICK c : c = IF b.next = "return" THEN IdleCall ELSE [b EXCEPT !.step = "closed"]
    OBVIOUS
<1>4. /\ CallOK(c, writes) /\ ShapeOK(c) /\ c.todo = <<>> /\ c.step \in {"publish", "closed"}
      /\ c.op \in {"idle", "close"} /\ (c.op = "close" => c.step = "closed")
    <2>1. CASE b.next = "return"
        <3>1. IdleCall.op = "idle" /\ IdleCall.step = "publish" /\ IdleCall.todo = <<>>
            BY DEF IdleCall
        <3> QED BY <1>3, <2>1, <3>1, IdleOK
    <2>2. CASE b.next # "return"
        <3>1. c = [b EXCEPT !.step = "closed"]
            BY <1>3, <2>2
        <3>2. /\ c \in CallRecords /\ c.op = "close" /\ c.step = "closed" /\ c.fd = b.fd
              /\ c.todo = b.todo /\ c.put = b.put /\ c.next = b.next /\ c.oldfd = b.oldfd
            <4>1. "closed" \in Steps
                BY DEF Steps
            <4> QED BY <1>2, <3>1, <4>1 DEF CallRecords
        <3> QED BY <1>2, <3>2 DEF CallOK, ShapeOK
    <2> QED BY <2>1, <2>2
<1>5. /\ caches' = [caches EXCEPT ![b.fd] = Absent] /\ call' = [call EXCEPT ![t] = c]
      /\ RestSame /\ table' = table /\ states' = states /\ kernel' = kernel
    BY <1>1, <1>3 DEF CloseEvict, RestSame, fdVars
<1>6. DataInv' /\ writes \in Nat /\ writes' \in Nat /\ writes <= writes' /\ writes' = writes
    BY <1>5, RestType DEF TypeInv
<1>7. CachesInv' /\ caches'[b.fd] = Absent /\ OtherCaches(b.fd)
    <2>1. CacheOK(Absent, writes')
        BY AbsentOK
    <2> QED BY <1>2, <1>5, <1>6, <2>1, CachesStep DEF TypeInv, OtherCaches
<1>8. CallsInv' /\ Goes(t, c)
    <2>1. CallOK(c, writes')
        BY <1>4, <1>6
    <2> QED BY <1>4, <1>5, <1>6, <2>1, CallsStep, ThreadIsActor DEF TypeInv, Goes
<1>9. TableInv' /\ RefInv' /\ Stays
    BY <1>5, PositionOK DEF TypeInv
<1> QED BY <1>1, <1>2, <1>4, <1>5, <1>6, <1>7, <1>8, <1>9 DEF TypeInv

LEMMA FcloseType ==
    ASSUME TypeInv, NEW t \in Threads, Fclose(t)
    PROVE  /\ TypeInv' /\ Stays /\ UNCHANGED <<caches, meta, store, owed, latest, writes, loose>>
           /\ torn \subseteq torn' /\ Goes(t, IdleCall)
           /\ call[t].op = "close" /\ call[t].step = "closed" /\ call[t].todo = <<>>
<1>1. PICK b : b = call[t]
    OBVIOUS
<1>2. b.op = "close" /\ b.step = "closed" /\ b.todo = <<>> /\ b.fd \in Fds
    <2>1. b.op = "close" /\ b.step = "closed"
        BY <1>1 DEF Fclose
    <2>2. ShapeOK(b)
        BY <1>1, OfCall, ThreadIsActor DEF TypeInv
    <2> QED BY <2>1, <2>2 DEF ShapeOK
<1>3. /\ kernel' = kernel \ {b.fd} /\ call' = [call EXCEPT ![t] = IdleCall]
      /\ torn' = IF table[b.fd] # 0 THEN torn \cup {FileOf(b.fd)} ELSE torn
      /\ UNCHANGED <<table, states, caches, meta, store, owed, latest, writes, faults, loose>>
    BY <1>1 DEF Fclose, dataVars
<1>4. torn' \subseteq Files \cup {NoFile}
    <2>1. table[b.fd] # 0 => FileOf(b.fd) \in Files
        BY <1>2, FdState DEF TypeInv
    <2> QED BY <1>3, <2>1 DEF TypeInv, DataInv
<1>5. DataInv' /\ writes \in Nat /\ writes' \in Nat /\ writes <= writes'
    BY <1>3, <1>4, Numbers DEF TypeInv, DataInv
<1>6. TableInv' /\ RefInv' /\ Stays
    <2>1. kernel' \subseteq Fds
        BY <1>3 DEF TypeInv, TableInv
    <2> QED BY <1>3, <2>1, TableKept DEF TypeInv, Stays, FileOf
<1>7. CachesInv' /\ CallsInv' /\ Goes(t, IdleCall)
    BY <1>3, <1>5, IdleOK, CachesKept, CallsStep, ThreadIsActor DEF TypeInv, Goes
<1> QED BY <1>1, <1>2, <1>3, <1>5, <1>6, <1>7 DEF TypeInv

LEMMA DuplicateType ==
    ASSUME TypeInv, NEW t \in Threads, NEW oldfd \in Fds, Duplicate(t, oldfd)
    PROVE  /\ TypeInv' /\ Goes(t, IdleCall)
           /\ UNCHANGED <<caches, meta, store, owed, latest, writes, loose>>
           /\ \/ Stays /\ torn' = torn
              \/ \E fd \in Fds : \E file \in Files :
                   Others(fd) /\ Leads(fd, file) /\ Hands(fd, file)
<1>1. /\ call' = [call EXCEPT ![t] = IdleCall]
      /\ UNCHANGED <<caches, meta, store, owed, latest, writes, faults, loose>>
    BY DEF Duplicate, dataVars
<1>2. CASE table[oldfd] = 0 \/ Fds \ kernel = {}
    <2>1. UNCHANGED <<table, states, kernel, torn>>
        BY <1>2 DEF Duplicate, fdVars
    <2>2. TableInv' /\ RefInv' /\ Stays
        BY <2>1, PositionOK DEF TypeInv
    <2>3. DataInv' /\ writes \in Nat /\ writes' \in Nat /\ writes <= writes'
        BY <1>1, <2>1, DataKept DEF TypeInv
    <2>4. CachesInv' /\ CallsInv' /\ Goes(t, IdleCall)
        BY <1>1, <2>3, IdleOK, CachesKept, CallsStep, ThreadIsActor DEF TypeInv, Goes
    <2> QED BY <1>1, <2>1, <2>2, <2>3, <2>4 DEF TypeInv
<1>3. CASE ~(table[oldfd] = 0 \/ Fds \ kernel = {})
    <2>1. /\ table' = [table EXCEPT ![NewFd] = table[oldfd]]
          /\ kernel' = kernel \cup {NewFd}
          /\ states' = [states EXCEPT ![table[oldfd]].refs = @ + 1]
        BY <1>3 DEF Duplicate
    <2>2. PICK file \in Files : file = FileOf(oldfd)
        BY <1>3, FdState DEF TypeInv
    <2>3. TableInv' /\ RefInv' /\ Others(NewFd) /\ Leads(NewFd, file) /\ NewFd \in Fds
        BY <1>3, <2>1, <2>2, DuplicateTable DEF TypeInv
    <2>4. Hands(NewFd, file)
        BY <1>3, <2>2 DEF Duplicate, Hands, PathOf
    <2>5. torn' \subseteq Files \cup {NoFile}
        BY <2>3, <2>4, PathType DEF Hands, TypeInv, DataInv
    <2>6. DataInv' /\ writes \in Nat /\ writes' \in Nat /\ writes <= writes'
        BY <1>1, <2>5, Numbers DEF TypeInv, DataInv
    <2>7. CachesInv' /\ CallsInv' /\ Goes(t, IdleCall)
        BY <1>1, <2>6, IdleOK, CachesKept, CallsStep, ThreadIsActor DEF TypeInv, Goes
    <2> QED BY <1>1, <2>3, <2>4, <2>6, <2>7 DEF TypeInv
<1> QED BY <1>2, <1>3

\* The store takes a region, and nobody owes its latest bytes any more.
Lands(r) ==
    /\ store' = [store EXCEPT ![r.file] = Overlay(@, r)]
    /\ owed' = {p \in owed : ~ /\ p[1] = r.file
                               /\ p[2] \in Extent(r.off, r.len)
                               /\ latest[p[1]][p[2]] = r.id}

\* The call goes on to track its first region, or gives regions up.
Tracks(d, c) == d.todo = c.todo /\ d.step = "track" /\ d.op = c.op /\ d.fd = c.fd

GivesUp(d, c) ==
    /\ d.step = "publish" /\ Range(d.todo) \subseteq Range(c.todo)
    /\ c.op = "exit" => d.op = "exit"
    /\ d.op \in {"idle", c.op}
    /\ c.op = "close" => d.fd = c.fd

\* A published region lands and is tracked, or damages what the call holds.
Publishes(c, d) ==
    \/ torn' = torn /\ Lands(Head(c.todo)) /\ Tracks(d, c)
    \/ /\ torn' = torn \cup {x.file : x \in Range(c.todo)}
       /\ Lands(Head(c.todo)) \/ UNCHANGED <<store, owed>>
       /\ Tracks(d, c) \/ GivesUp(d, c)

LEMMA HeadOK ==
    ASSUME NEW w, NEW todo, TodoOK(todo, w), todo # <<>>
    PROVE  /\ Head(todo) \in Regions /\ Head(todo) \in Range(todo) /\ Fits(Head(todo), w)
           /\ Head(todo).off + Head(todo).len <= Size
           /\ Extent(Head(todo).off, Head(todo).len) \subseteq Bytes
<1>1. PICK r : r = Head(todo)
    OBVIOUS
<1>2. r \in Regions /\ r \in Range(todo)
    BY <1>1, TailOf DEF TodoOK
<1>3. Fits(r, w) /\ r.off + r.len <= Size
    BY <1>2 DEF TodoOK, Fits
<1>4. r.off \in Bytes /\ r.len \in 1 .. Size
    BY <1>2 DEF Regions
<1>5. Extent(r.off, r.len) \subseteq Bytes
    BY <1>3, <1>4, Numbers DEF Bytes, Extent
<1> QED BY <1>1, <1>2, <1>3, <1>5

LEMMA PublishType ==
    ASSUME TypeInv, NEW a \in Actors, Publish(a)
    PROVE  /\ TypeInv' /\ Stays /\ UNCHANGED <<caches, meta, writes, latest, loose>>
           /\ call[a].step = "publish" /\ call[a].todo # <<>>
           /\ \E d : Goes(a, d) /\ Publishes(call[a], d)
<1>1. PICK c : c = call[a]
    OBVIOUS
<1>2. PICK r : r = Head(c.todo)
    OBVIOUS
<1>3. /\ CallOK(c, writes) /\ ShapeOK(c) /\ c \in CallRecords
      /\ TodoOK(c.todo, writes) /\ c.step = "publish" /\ c.todo # <<>>
    BY <1>1, OfCall DEF TypeInv, CallOK, Publish
<1>4. r \in Regions /\ r \in Range(c.todo) /\ Extent(r.off, r.len) \subseteq Bytes
    BY <1>2, <1>3, HeadOK
<1>5. PICK o \in Outcomes :
        /\ o # "ok" => faults < MaxFaults
        /\ faults' = IF o = "ok" THEN faults ELSE faults + 1
        /\ IF o \in {"ok", "late"} THEN Lands(r) ELSE UNCHANGED <<store, owed>>
        /\ LET throws == o = "refused" \/ (o # "ok" /\ Waits(c))
           IN  call' = [call EXCEPT ![a] = IF throws THEN Abandon(c)
                                           ELSE [c EXCEPT !.step = "track"]]
        /\ torn' = IF o = "ok" THEN torn ELSE torn \cup {x.file : x \in Range(c.todo)}
    BY <1>1, <1>2 DEF Publish, Lands
<1>6. UNCHANGED <<table, states, kernel, caches, meta, writes, latest, loose>>
    BY DEF Publish, fdVars
<1>7. TableInv' /\ RefInv' /\ Stays
    BY <1>6, PositionOK DEF TypeInv
<1>8. PICK d : d = IF o = "refused" \/ (o # "ok" /\ Waits(c)) THEN Abandon(c)
                   ELSE [c EXCEPT !.step = "track"]
    OBVIOUS
<1>9. /\ CallOK(d, writes) /\ ShapeOK(d)
      /\ Tracks(d, c) \/ (o # "ok" /\ GivesUp(d, c))
    <2>1. CASE o = "refused" \/ (o # "ok" /\ Waits(c))
        <3>1. d = Abandon(c) /\ o # "ok"
            BY <1>8, <2>1
        <3> QED BY <1>3, <3>1, AbandonOK DEF GivesUp
    <2>2. CASE ~(o = "refused" \/ (o # "ok" /\ Waits(c)))
        <3>1. d = [c EXCEPT !.step = "track"]
            BY <1>8, <2>2
        <3>2. /\ d \in CallRecords /\ d.op = c.op /\ d.step = "track" /\ d.fd = c.fd
              /\ d.todo = c.todo /\ d.put = c.put /\ d.next = c.next /\ d.oldfd = c.oldfd
            <4>1. "track" \in Steps
                BY DEF Steps
            <4> QED BY <1>3, <3>1, <4>1 DEF CallRecords
        <3>3. c.op # "idle"
            <4>1. IdleCall.todo = <<>>
                BY DEF IdleCall
            <4> QED BY <1>3, <4>1 DEF ShapeOK
        <3> QED BY <1>3, <3>2, <3>3 DEF CallOK, ShapeOK, Tracks
    <2> QED BY <2>1, <2>2
<1>10. writes \in Nat /\ writes' = writes /\ writes' \in Nat /\ writes <= writes'
    BY <1>6, Numbers DEF TypeInv, DataInv
<1>11. CachesInv' /\ CallsInv' /\ Goes(a, d)
    <2>1. call' = [call EXCEPT ![a] = d] /\ CallOK(d, writes')
        BY <1>5, <1>8, <1>9, <1>10
    <2> QED BY <1>6, <1>9, <1>10, <2>1, CachesKept, CallsStep DEF TypeInv, Goes
<1>12. Publishes(c, d)
    <2>1. CASE o = "ok"
        BY <1>2, <1>5, <1>9, <2>1 DEF Publishes
    <2>2. CASE o # "ok"
        <3>1. torn' = torn \cup {x.file : x \in Range(c.todo)}
            BY <1>5, <2>2
        <3>2. Lands(r) \/ UNCHANGED <<store, owed>>
            BY <1>5
        <3> QED BY <1>2, <1>9, <3>1, <3>2 DEF Publishes
    <2> QED BY <2>1, <2>2
<1>13. DataInv'
    <2>1. store' \in [Files -> [Bytes -> 0 .. MaxWrites]] /\ owed' \subseteq owed
        <3>1. CASE Lands(r)
            <4>1. r.file \in Files /\ r.id \in 0 .. MaxWrites
                BY <1>4, Numbers DEF Regions
            <4>2. store \in [Files -> [Bytes -> 0 .. MaxWrites]]
                BY DEF TypeInv, DataInv
            <4>3. store[r.file] \in [Bytes -> 0 .. MaxWrites]
                BY <4>1, <4>2
            <4>4. Overlay(store[r.file], r) \in [Bytes -> 0 .. MaxWrites]
                BY <4>1, <4>3, OverlayOK
            <4> QED BY <3>1, <4>1, <4>2, <4>4 DEF Lands
        <3>2. CASE UNCHANGED <<store, owed>>
            BY <3>2 DEF TypeInv, DataInv
        <3> QED BY <1>5, <3>1, <3>2
    <2>2. torn' \subseteq Files \cup {NoFile}
        <3>1. \A x \in Range(c.todo) : x.file \in Files
            <4>1. Range(c.todo) \subseteq Regions
                BY <1>3 DEF TodoOK, Range
            <4> QED BY <4>1 DEF Regions
        <3> QED BY <1>5, <3>1 DEF TypeInv, DataInv
    <2>3. faults' \in 0 .. MaxFaults
        BY <1>5, Numbers DEF TypeInv, DataInv
    <2> QED BY <1>6, <2>1, <2>2, <2>3 DEF TypeInv, DataInv
<1> QED BY <1>1, <1>3, <1>6, <1>7, <1>11, <1>12, <1>13 DEF TypeInv

LEMMA TrackReadType ==
    ASSUME TypeInv, NEW a \in Actors, TrackRead(a)
    PROVE  /\ TypeInv' /\ Stays /\ UNCHANGED <<caches, store, owed, writes, latest, torn>>
           /\ call[a].step = "track" /\ call[a].todo # <<>>
           /\ meta' = [meta EXCEPT ![Head(call[a].todo).file].exists = TRUE]
           /\ loose' = IF Tracking(Head(call[a].todo).file)
                       THEN loose \cup {Head(call[a].todo).file} ELSE loose
           /\ \E d : /\ Goes(a, d) /\ d.step = "resize" /\ d.todo = call[a].todo
                     /\ d.op = call[a].op /\ d.fd = call[a].fd
                     /\ d.cur = meta[Head(call[a].todo).file].size
<1>1. PICK c : c = call[a]
    OBVIOUS
<1>2. PICK file : file = Head(c.todo).file
    OBVIOUS
<1>3. /\ CallOK(c, writes) /\ ShapeOK(c) /\ c \in CallRecords
      /\ TodoOK(c.todo, writes) /\ c.step = "track" /\ c.todo # <<>>
    BY <1>1, OfCall DEF TypeInv, CallOK, TrackRead, ShapeOK
<1>4. file \in Files
    BY <1>2, <1>3, HeadOK DEF Regions
<1>5. PICK size \in 0 .. Size : size = meta[file].size
    BY <1>4 DEF TypeInv, DataInv
<1>6. PICK d : d = [c EXCEPT !.step = "resize", !.cur = size]
    OBVIOUS
<1>7. /\ d \in CallRecords /\ d.op = c.op /\ d.step = "resize" /\ d.fd = c.fd /\ d.cur = size
      /\ d.todo = c.todo /\ d.put = c.put /\ d.next = c.next /\ d.oldfd = c.oldfd
    <2>1. "resize" \in Steps
        BY DEF Steps
    <2> QED BY <1>3, <1>6, <2>1 DEF CallRecords
<1>8. CallOK(d, writes) /\ ShapeOK(d)
    <2>1. IdleCall.todo = <<>>
        BY DEF IdleCall
    <2> QED BY <1>3, <1>7, <2>1 DEF CallOK, ShapeOK
<1>9. /\ meta' = [meta EXCEPT ![file].exists = TRUE]
      /\ call' = [call EXCEPT ![a].step = "resize", ![a].cur = size]
      /\ loose' = IF Tracking(file) THEN loose \cup {file} ELSE loose
      /\ UNCHANGED <<table, states, kernel, caches, store, owed, writes, faults, latest, torn>>
    BY <1>1, <1>2, <1>5 DEF TrackRead, fdVars
<1>10. call' = [call EXCEPT ![a] = d]
    BY <1>1, <1>6, <1>9
<1>11. DataInv' /\ writes \in Nat /\ writes' \in Nat /\ writes <= writes' /\ writes' = writes
    <2>1. meta' \in [Files -> [exists : BOOLEAN, size : 0 .. Size]]
        BY <1>4, <1>9 DEF TypeInv, DataInv
    <2> QED BY <1>9, <2>1, Numbers DEF TypeInv, DataInv
<1>12. CachesInv' /\ CallsInv' /\ Goes(a, d)
    <2>1. CallOK(d, writes')
        BY <1>8, <1>11
    <2> QED BY <1>8, <1>9, <1>10, <1>11, <2>1, CachesKept, CallsStep DEF TypeInv, Goes
<1>13. TableInv' /\ RefInv' /\ Stays
    BY <1>9, PositionOK DEF TypeInv
<1> QED BY <1>1, <1>2, <1>3, <1>5, <1>7, <1>9, <1>11, <1>12, <1>13 DEF TypeInv

LEMMA TrackResizeType ==
    ASSUME TypeInv, NEW a \in Actors, TrackResize(a)
    PROVE  /\ TypeInv' /\ Stays
           /\ UNCHANGED <<caches, store, owed, writes, latest, torn, loose>>
           /\ call[a].step = "resize" /\ call[a].todo # <<>>
           /\ meta' = IF EndOf(Head(call[a].todo)) > call[a].cur
                      THEN [meta EXCEPT ![Head(call[a].todo).file].size =
                              EndOf(Head(call[a].todo))]
                      ELSE meta
           /\ Goes(a, Advance(call[a]))
<1>1. PICK c : c = call[a]
    OBVIOUS
<1>2. PICK r : r = Head(c.todo)
    OBVIOUS
<1>3. /\ CallOK(c, writes) /\ ShapeOK(c) /\ TodoOK(c.todo, writes)
      /\ c.step = "resize" /\ c.todo # <<>>
    BY <1>1, OfCall DEF TypeInv, TrackResize, ShapeOK
<1>4. r \in Regions /\ Fits(r, writes)
    BY <1>2, <1>3, HeadOK
<1>5. PICK end : end = EndOf(r)
    OBVIOUS
<1>6. r.file \in Files /\ end \in 0 .. Size
    BY <1>4, <1>5, Numbers DEF Regions, Fits, EndOf, Bytes
<1>7. /\ meta' = IF end > c.cur THEN [meta EXCEPT ![r.file].size = end] ELSE meta
      /\ call' = [call EXCEPT ![a] = Advance(c)]
      /\ UNCHANGED <<table, states, kernel, caches, store, owed, writes, faults, latest,
                     torn, loose>>
    BY <1>1, <1>2, <1>5 DEF TrackResize, fdVars, EndOf
<1>8. meta' \in [Files -> [exists : BOOLEAN, size : 0 .. Size]]
    BY <1>6, <1>7 DEF TypeInv, DataInv
<1>9. DataInv' /\ writes \in Nat /\ writes' \in Nat /\ writes <= writes' /\ writes' = writes
    BY <1>7, <1>8, Numbers DEF TypeInv, DataInv
<1>10. CachesInv' /\ CallsInv' /\ Goes(a, Advance(c))
    <2>1. CallOK(Advance(c), writes') /\ ShapeOK(Advance(c))
        BY <1>3, <1>9, AdvanceOK
    <2> QED BY <1>7, <1>9, <2>1, CachesKept, CallsStep DEF TypeInv, Goes
<1>11. TableInv' /\ RefInv' /\ Stays
    BY <1>7, PositionOK DEF TypeInv
<1> QED BY <1>1, <1>2, <1>3, <1>5, <1>7, <1>9, <1>10, <1>11 DEF TypeInv

\* Every cache is emptied into the hands of a call.
TakesAll(a, c) ==
    /\ Goes(a, c) /\ c.step = "publish"
    /\ \A fd \in Fds : Flushed(fd)
    /\ \A fd \in Fds : Held(caches[fd]) \subseteq Range(c.todo)

LEMMA AllRegionsOK ==
    ASSUME CachesInv, DataInv
    PROVE  /\ TodoOK(AllRegions, writes)
           /\ \A fd \in Fds : Held(caches[fd]) \subseteq Range(AllRegions)
<1>1. PICK n \in Nat : n = Cardinality(Fds)
    BY PosixAssumption, FS_CardinalityType
<1>2. PICK order : order = FdOrder
    OBVIOUS
<1>3. PICK seqs : seqs = [i \in 1 .. n |-> FlushRegions(caches[order[i]])]
    OBVIOUS
<1>4. AllRegions = FlattenSeq(seqs)
    BY <1>1, <1>2, <1>3 DEF AllRegions
<1>5. /\ order \in [1 .. n -> Fds]
      /\ \A fd \in Fds : \E i \in 1 .. n : order[i] = fd
    <2>1. Fds \in SUBSET Nat /\ IsFiniteSet(Fds)
        BY PosixAssumption
    <2> QED BY <1>1, <1>2, <2>1, AscendingOf DEF FdOrder
<1>6. \A i \in 1 .. n : order[i] \in Fds /\ seqs[i] = FlushRegions(caches[order[i]])
    BY <1>3, <1>5
<1>7. \A i \in 1 .. n : TodoOK(seqs[i], writes) /\ Range(seqs[i]) = Held(caches[order[i]])
    <2> SUFFICES ASSUME NEW i \in 1 .. n
                 PROVE  TodoOK(seqs[i], writes) /\ Range(seqs[i]) = Held(caches[order[i]])
        OBVIOUS
    <2>1. PICK fd \in Fds : fd = order[i]
        BY <1>6
    <2>2. seqs[i] = FlushRegions(caches[fd])
        BY <1>6, <2>1
    <2> QED BY <2>1, <2>2, CacheRegions
<1>8. Len(seqs) = n /\ (n = 0 => seqs = <<>>)
    BY <1>3
<1>9. /\ AllRegions \in Seq(Regions)
      /\ Range(AllRegions) = UNION {Range(seqs[i]) : i \in 1 .. n}
    <2>1. \A i \in 1 .. n : seqs[i] \in Seq(Regions)
        BY <1>7 DEF TodoOK
    <2> HIDE <1>3
    <2> QED BY <1>4, <1>8, <2>1, FlattenOf
<1>10. ASSUME NEW r \in Range(AllRegions) PROVE Fits(r, writes)
    <2>1. PICK i \in 1 .. n : r \in Range(seqs[i])
        BY <1>9
    <2> QED BY <1>7, <2>1 DEF TodoOK
<1>11. ASSUME NEW fd \in Fds, NEW r \in Held(caches[fd]) PROVE r \in Range(AllRegions)
    <2>1. PICK i \in 1 .. n : order[i] = fd
        BY <1>5
    <2>2. r \in Range(seqs[i])
        BY <1>7, <2>1
    <2> QED BY <1>9, <2>2
<1> QED BY <1>9, <1>10, <1>11 DEF TodoOK

LEMMA TakeAllType ==
    ASSUME TypeInv, NEW a \in Actors, NEW op \in {"timer", "exit"}, TakeAll(a, op)
    PROVE  /\ TypeInv' /\ Stays /\ RestSame
           /\ \E c : TakesAll(a, c) /\ c.op = op
<1>1. TodoOK(AllRegions, writes) /\ \A fd \in Fds : Held(caches[fd]) \subseteq Range(AllRegions)
    BY AllRegionsOK DEF TypeInv
<1>2. PICK todo : todo = AllRegions
    OBVIOUS
<1>3. PICK c : c = [IdleCall EXCEPT !.op = op, !.todo = todo]
    OBVIOUS
<1>4. c = [op |-> op, step |-> "publish", fd |-> 0, fs |-> 0, todo |-> todo, cur |-> 0,
           put |-> NoPut, move |-> FALSE, next |-> "return", oldfd |-> 0]
    BY <1>3 DEF IdleCall
<1>5. /\ c.op = op /\ c.step = "publish" /\ c.todo = todo /\ c.put = NoPut /\ c.next = "return"
    BY <1>4
<1>6. CallOK(c, writes) /\ ShapeOK(c)
    <2>1. c \in CallRecords
        <3>1. todo \in Seq(Regions) /\ 0 \in 0 .. Size /\ NoPut \in [off : Nat, len : Nat, id : Nat]
              /\ op \in Ops /\ "publish" \in Steps
            BY <1>1, <1>2, Numbers DEF NoPut, Ops, Steps, TodoOK
        <3> QED BY <1>4, <3>1 DEF CallRecords
    <2>2. NoPut.off + NoPut.len = 0
        BY DEF NoPut
    <2> QED BY <1>1, <1>2, <1>5, <2>1, <2>2, Numbers DEF CallOK, ShapeOK, TodoOK
<1>7. /\ caches' = [fd \in Fds |-> IF caches[fd].total_bytes > 0
                                   THEN flush_locked(caches[fd]) ELSE caches[fd]]
      /\ call' = [call EXCEPT ![a] = c]
      /\ RestSame /\ table' = table /\ states' = states /\ kernel' = kernel
    BY <1>2, <1>3 DEF TakeAll, RestSame, fdVars
<1>8. DataInv' /\ writes \in Nat /\ writes' \in Nat /\ writes <= writes' /\ writes' = writes
    BY <1>7, RestType DEF TypeInv
<1>9. CallsInv' /\ Goes(a, c)
    <2>1. CallOK(c, writes')
        BY <1>6, <1>8
    <2> QED BY <1>6, <1>7, <1>8, <2>1, CallsStep DEF TypeInv, Goes
<1>10. ASSUME NEW fd \in Fds PROVE CacheOK(caches'[fd], writes') /\ Flushed(fd)
    <2>1. PICK b : b = caches[fd]
        OBVIOUS
    <2>2. HoldsOK(b, writes) /\ CacheOK(b, writes)
        BY <2>1, PathType DEF TypeInv, CachesInv
    <2>3. CASE b.total_bytes > 0
        <3>1. PICK f : f = flush_locked(b)
            OBVIOUS
        <3>2. CacheOK(f, writes) /\ f.filepath = b.filepath /\ DOMAIN f.regions = {}
            BY <2>2, <3>1, FlushedOK
        <3>3. caches'[fd] = f
            BY <1>7, <2>1, <2>3, <3>1
        <3> QED BY <1>8, <2>1, <3>2, <3>3 DEF Flushed, PathOf
    <2>4. CASE ~(b.total_bytes > 0)
        <3>1. caches'[fd] = b
            BY <1>7, <2>1, <2>4
        <3>2. DOMAIN b.regions = {}
            <4> SUFFICES ASSUME NEW o \in DOMAIN b.regions PROVE FALSE
                OBVIOUS
            <4>1. CachedOK(o, b.regions[o], writes)
                BY <2>2 DEF HoldsOK
            <4>2. Total(b.regions) >= 1 /\ Total(b.regions) \in Nat
                <5>1. PICK rg : rg = b.regions
                    OBVIOUS
                <5>2. rg[o].len >= 1
                    BY <4>1, <5>1, Numbers DEF CachedOK
                <5>3. Measured(rg) /\ o \in DOMAIN rg
                    BY <2>2, <5>1, HoldsMeasured
                <5>4. Total(rg) >= 1 /\ Total(rg) \in Nat
                    BY <5>2, <5>3, TotalPositive, TotalNat
                <5> QED BY <5>1, <5>4
            <4> QED BY <2>2, <2>4, <4>2 DEF HoldsOK
        <3> QED BY <1>8, <2>1, <2>2, <3>1, <3>2 DEF Flushed, PathOf
    <2> QED BY <2>3, <2>4
<1>11. CachesInv'
    BY <1>7, <1>10 DEF CachesInv
<1>12. TableInv' /\ RefInv' /\ Stays
    BY <1>7, PositionOK DEF TypeInv
<1>13. TakesAll(a, c)
    BY <1>1, <1>2, <1>5, <1>9, <1>10 DEF TakesAll
<1> QED BY <1>5, <1>7, <1>8, <1>9, <1>11, <1>12, <1>13 DEF TypeInv

\* Only what is known of the metadata changes, for files that become loose.
LEMMA SetMetaType ==
    ASSUME TypeInv, NEW t \in Threads, NEW files, NEW m, SetMeta(t, files, m),
           m \in [Files -> [exists : BOOLEAN, size : 0 .. Size]],
           \A f \in Files \ files : m[f] = meta[f]
    PROVE  /\ TypeInv' /\ Stays /\ MetaKept /\ loose \subseteq loose'
           /\ UNCHANGED <<call, caches, store, owed, writes, latest, torn>>
<1>1. /\ meta' = m /\ loose' = loose \cup files
      /\ UNCHANGED <<table, states, kernel, caches, store, owed, call, writes, faults, latest, torn>>
    BY DEF SetMeta, fdVars
<1>2. DataInv' /\ writes \in Nat /\ writes' \in Nat /\ writes <= writes'
    BY <1>1, Numbers DEF TypeInv, DataInv
<1>3. CachesInv' /\ CallsInv'
    BY <1>1, <1>2, CachesKept, CallsKept DEF TypeInv
<1>4. TableInv' /\ RefInv' /\ Stays
    BY <1>1, PositionOK DEF TypeInv
<1>5. MetaKept
    BY <1>1 DEF MetaKept
<1> QED BY <1>1, <1>2, <1>3, <1>4, <1>5 DEF TypeInv

\* What a step that only sets metadata leaves alone.
SetsMeta ==
    /\ Stays /\ MetaKept /\ loose \subseteq loose'
    /\ UNCHANGED <<call, caches, store, owed, writes, latest, torn>>

LEMMA FtruncateType ==
    ASSUME TypeInv, NEW t \in Threads, NEW fd \in Fds, NEW len \in Lengths, Ftruncate(t, fd, len)
    PROVE  TypeInv' /\ SetsMeta
<1>1. PICK file \in Files : file = FileOf(fd)
    BY FdState DEF Ftruncate, TypeInv
<1>2. PICK m : m = track_truncate(file, len)
    OBVIOUS
<1>3. SetMeta(t, {file}, m)
    BY <1>1, <1>2 DEF Ftruncate
<1>4. len \in 0 .. Size
    BY PosixAssumption
<1>5. m \in [Files -> [exists : BOOLEAN, size : 0 .. Size]] /\ \A f \in Files \ {file} : m[f] = meta[f]
    BY <1>2, <1>4 DEF track_truncate, TypeInv, DataInv
<1> QED BY <1>3, <1>5, SetMetaType DEF SetsMeta

LEMMA UnlinkType ==
    ASSUME TypeInv, NEW t \in Threads, NEW file \in Files, Unlink(t, file)
    PROVE  TypeInv' /\ SetsMeta
<1>1. PICK m : m = track_unlink(meta, file)
    OBVIOUS
<1>2. SetMeta(t, {file}, m)
    BY <1>1 DEF Unlink
<1>3. m \in [Files -> [exists : BOOLEAN, size : 0 .. Size]] /\ \A f \in Files \ {file} : m[f] = meta[f]
    BY <1>1, Numbers DEF track_unlink, TypeInv, DataInv
<1> QED BY <1>2, <1>3, SetMetaType DEF SetsMeta

LEMMA RenameType ==
    ASSUME TypeInv, NEW t \in Threads, NEW old \in Files, NEW new \in Files, Rename(t, old, new)
    PROVE  TypeInv' /\ SetsMeta
<1>1. PICK s \in 0 .. Size : s = meta[old].size
    BY DEF TypeInv, DataInv
<1>2. PICK x : x = [exists |-> TRUE, size |-> IF s > meta[new].size THEN s ELSE meta[new].size]
    OBVIOUS
<1>3. PICK g : g = [meta EXCEPT ![new] = x]
    OBVIOUS
<1>4. PICK m : m = track_unlink(g, old)
    OBVIOUS
<1>5. SetMeta(t, {old, new}, m)
    BY <1>1, <1>2, <1>3, <1>4 DEF Rename, get_file_info
<1>6. x \in [exists : BOOLEAN, size : 0 .. Size]
    BY <1>2 DEF TypeInv, DataInv
<1>7. g \in [Files -> [exists : BOOLEAN, size : 0 .. Size]] /\ \A f \in Files \ {new} : g[f] = meta[f]
    BY <1>3, <1>6 DEF TypeInv, DataInv
<1>8. m \in [Files -> [exists : BOOLEAN, size : 0 .. Size]]
      /\ \A f \in Files \ {old, new} : m[f] = meta[f]
    BY <1>4, <1>7, Numbers DEF track_unlink
<1> QED BY <1>5, <1>8, SetMetaType DEF SetsMeta

LEMMA TeardownType ==
    ASSUME TypeInv, NEW t \in Threads, Teardown(t)
    PROVE  /\ TypeInv' /\ Stays
           /\ UNCHANGED <<meta, store, owed, writes, latest, loose>>
           /\ call[t].op = "exit" /\ call[t].todo = <<>>
           /\ torn' = torn \cup {r.file : r \in Range(call[Timer].todo)}
           /\ \A fd \in Fds : caches'[fd] = Absent
           /\ \A a \in Actors : call'[a] = IdleCall
<1>1. /\ call[t].op = "exit" /\ call[t].todo = <<>>
      /\ torn' = torn \cup {r.file : r \in Range(call[Timer].todo)}
      /\ caches' = [fd \in Fds |-> Absent]
      /\ call' = [a \in Actors |-> IdleCall]
      /\ UNCHANGED <<table, states, kernel, meta, store, owed, writes, faults, latest, loose>>
    BY DEF Teardown, fdVars
<1>2. torn' \subseteq Files \cup {NoFile}
    <2>1. Timer \in Actors
        BY DEF Actors
    <2>2. PICK c : c = call[Timer]
        OBVIOUS
    <2>3. Range(c.todo) \subseteq Regions
        BY <2>1, <2>2, OfCall DEF TypeInv, Range
    <2>4. \A r \in Range(c.todo) : r.file \in Files
        BY <2>3 DEF Regions
    <2> QED BY <1>1, <2>2, <2>4 DEF TypeInv, DataInv
<1>3. DataInv' /\ writes \in Nat /\ writes' \in Nat /\ writes <= writes'
    BY <1>1, <1>2, Numbers DEF TypeInv, DataInv
<1>4. CachesInv'
    BY <1>1, AbsentOK DEF CachesInv
<1>5. CallsInv'
    BY <1>1, IdleOK DEF CallsInv
<1>6. TableInv' /\ RefInv' /\ Stays
    BY <1>1, PositionOK DEF TypeInv
<1> QED BY <1>1, <1>3, <1>4, <1>5, <1>6 DEF TypeInv

-----------------------------------------------------------------------------
(* What a step of the driver can do *)

\* A call ends that had nothing left to publish.
Idles(t) ==
    Goes(t, IdleCall) /\ call[t].todo = <<>> /\ call[t].step \in {"publish", "closed"}

Returns(t) ==
    /\ Idles(t) /\ Stays /\ torn \subseteq torn'
    /\ UNCHANGED <<caches, meta, store, owed, latest, loose>>

\* A descriptor comes to lead to a file.
Opens(t) ==
    /\ \E fd \in Fds : \E file \in Files : Others(fd) /\ Leads(fd, file) /\ Hands(fd, file)
    /\ MetaKept /\ loose \subseteq loose'
    /\ UNCHANGED <<caches, store, owed, latest>>
    /\ call' = call \/ Idles(t)

\* A write is issued: it is cached, or in the hands of its call.
Stages(t) ==
    /\ Stays
    /\ \E fd \in Fds : \E x \in Extents : \E file \in Files : \E n \in Nat :
         /\ Writes(t, fd, x[1], x[2], file, n)
         /\ \/ LargeWrite(t, fd, x[1], x[2], file, n)
            \/ SmallWrite(t, fd, x[1], x[2], file, n)
    /\ \E c : Goes(t, c) /\ c.step = "publish" /\ c.op \in {"idle", "write"}

\* One cache is emptied into the hands of a call.
Empties(t) ==
    /\ Stays /\ RestSame /\ call[t].todo = <<>>
    /\ \E fd \in Fds : \E c :
         /\ Takes(t, fd, c) /\ Goes(t, c) /\ Flushed(fd) /\ OtherCaches(fd)
         /\ c.step = "publish"
         /\ \/ call[t].op = "idle" /\ ~Exiting /\ c.op \in {"idle", "read", "fsync"}
            \/ /\ call[t].op = "close" /\ call[t].step = "flush" /\ call[t].fd = fd
               /\ c.op = "close" /\ c.fd = fd

Closes(t) ==
    /\ DataSame /\ call[t].op = "idle" /\ ~Exiting
    /\ \E fd \in Fds : \E c :
         /\ Others(fd) /\ table'[fd] = 0
         /\ Goes(t, c) /\ c.todo = <<>> /\ c.op \in {"idle", "close"}
         /\ c.step \in {"publish", "flush", "closed"}
         /\ c.op = "close" => c.fd = fd /\ c.step # "publish"

Evicts(t) ==
    /\ Stays /\ RestSame
    /\ call[t].op = "close" /\ call[t].step = "publish" /\ call[t].todo = <<>>
    /\ call[t].fd \in Fds
    /\ caches'[call[t].fd] = Absent /\ OtherCaches(call[t].fd)
    /\ \E c : Goes(t, c) /\ c.todo = <<>> /\ c.step \in {"publish", "closed"}
              /\ c.op \in {"idle", "close"} /\ (c.op = "close" => c.step = "closed")

PutsOut(a) ==
    /\ Stays /\ UNCHANGED <<caches, meta, writes, latest, loose>>
    /\ call[a].step = "publish" /\ call[a].todo # <<>>
    /\ \E d : Goes(a, d) /\ Publishes(call[a], d)

ReadsSize(a) ==
    /\ Stays /\ UNCHANGED <<caches, store, owed, writes, latest, torn>>
    /\ call[a].step = "track" /\ call[a].todo # <<>>
    /\ meta' = [meta EXCEPT ![Head(call[a].todo).file].exists = TRUE]
    /\ loose' = IF Tracking(Head(call[a].todo).file)
                THEN loose \cup {Head(call[a].todo).file} ELSE loose
    /\ \E d : /\ Goes(a, d) /\ d.step = "resize" /\ d.todo = call[a].todo
              /\ d.op = call[a].op /\ d.fd = call[a].fd
              /\ d.cur = meta[Head(call[a].todo).file].size

WritesSize(a) ==
    /\ Stays /\ UNCHANGED <<caches, store, owed, writes, latest, torn, loose>>
    /\ call[a].step = "resize" /\ call[a].todo # <<>>
    /\ meta' = IF EndOf(Head(call[a].todo)) > call[a].cur
               THEN [meta EXCEPT ![Head(call[a].todo).file].size = EndOf(Head(call[a].todo))]
               ELSE meta
    /\ Goes(a, Advance(call[a]))

\* Everything cached is taken, by the timer or at exit.
Collects(a) ==
    /\ Stays /\ RestSame /\ call[a].op = "idle"
    /\ \E c : /\ TakesAll(a, c)
              /\ \/ a = Timer /\ c.op = "timer"
                 \/ c.op = "exit" /\ \A u \in Threads : call[u].op = "idle"

Leaves(t) ==
    /\ Stays /\ UNCHANGED <<meta, store, owed, writes, latest, loose>>
    /\ call[t].op = "exit" /\ call[t].todo = <<>>
    /\ torn' = torn \cup {r.file : r \in Range(call[Timer].todo)}
    /\ \A fd \in Fds : caches'[fd] = Absent
    /\ \A a \in Actors : call'[a] = IdleCall

Effects(a) ==
    \/ PutsOut(a) \/ ReadsSize(a) \/ WritesSize(a) \/ Collects(a)
    \/ /\ a \in Threads
       /\ \/ Returns(a) \/ Opens(a) \/ Stages(a) \/ Empties(a) \/ Closes(a) \/ Evicts(a)
          \/ Leaves(a)

\* A step of the model has one of these effects.
Does == SetsMeta \/ \E a \in Actors : Effects(a)

LEMMA StutterDoes == ASSUME TypeInv, UNCHANGED posixVars PROVE TypeInv' /\ SetsMeta
<1> USE DEF posixVars, fdVars, dataVars
<1>1. TypeInv'
    <2>1. DataInv' /\ writes \in Nat /\ writes' \in Nat /\ writes <= writes'
        BY DataKept DEF TypeInv
    <2>2. TableInv' /\ RefInv'
        BY PositionOK DEF TypeInv
    <2> QED BY <2>1, <2>2, CachesKept, CallsKept DEF TypeInv
<1>2. SetsMeta
    BY PositionOK DEF TypeInv, SetsMeta, Stays, FileOf, MetaKept
<1> QED BY <1>1, <1>2

\* The steps that threads and the timer share.
LEMMA LabelDoes ==
    ASSUME TypeInv, NEW a \in Actors, Publish(a) \/ TrackRead(a) \/ TrackResize(a)
    PROVE  TypeInv' /\ Does
<1>1. CASE Publish(a)
    <2>1. TypeInv' /\ PutsOut(a)
        BY <1>1, PublishType DEF PutsOut
    <2> QED BY <2>1 DEF Does, Effects
<1>2. CASE TrackRead(a)
    <2>1. TypeInv' /\ ReadsSize(a)
        BY <1>2, TrackReadType DEF ReadsSize
    <2> QED BY <2>1 DEF Does, Effects
<1>3. CASE TrackResize(a)
    <2>1. TypeInv' /\ WritesSize(a)
        BY <1>3, TrackResizeType DEF WritesSize
    <2> QED BY <2>1 DEF Does, Effects
<1> QED BY <1>1, <1>2, <1>3

LEMMA InternalDoes ==
    ASSUME TypeInv, NEW t \in Threads, Internal(t)
    PROVE  TypeInv' /\ Does
<1>0. t \in Actors
    BY ThreadIsActor
<1>1. CASE ReadLabel(t)
    <2>1. TypeInv' /\ Returns(t)
        BY <1>1, ReadLabelType DEF Returns, Idles, DataSame, ReadLabel
    <2> QED BY <1>0, <2>1 DEF Does, Effects
<1>2. CASE WriteReturn(t)
    <2>1. TypeInv' /\ Returns(t)
        BY <1>2, WriteReturnType DEF Returns, Idles, DataSame, WriteReturn
    <2> QED BY <1>0, <2>1 DEF Does, Effects
<1>3. CASE CloseFlush(t)
    <2>1. TypeInv' /\ Empties(t)
        BY <1>3, CloseFlushType DEF Empties
    <2> QED BY <1>0, <2>1 DEF Does, Effects
<1>4. CASE CloseEvict(t)
    <2>1. TypeInv' /\ Evicts(t)
        BY <1>4, CloseEvictType DEF Evicts
    <2> QED BY <1>0, <2>1 DEF Does, Effects
<1>5. CASE Fclose(t)
    <2>1. TypeInv' /\ Returns(t)
        BY <1>5, FcloseType DEF Returns, Idles
    <2> QED BY <1>0, <2>1 DEF Does, Effects
<1>6. CASE Dup2Duplicate(t)
    <2>1. PICK b : b = call[t]
        OBVIOUS
    <2>2. b.op = "close" /\ b.step = "closed" /\ b.next = "dup2" /\ Duplicate(t, b.oldfd)
        BY <1>6, <2>1 DEF Dup2Duplicate
    <2>3. ShapeOK(b)
        BY <1>0, <2>1, OfCall DEF TypeInv
    <2>4. b.oldfd \in Fds /\ b.todo = <<>>
        BY <2>2, <2>3 DEF ShapeOK
    <2>5. TypeInv' /\ (Returns(t) \/ Opens(t))
        BY <2>1, <2>2, <2>4, DuplicateType DEF Returns, Opens, Idles, MetaKept
    <2> QED BY <1>0, <2>5 DEF Does, Effects
<1> QED BY <1>0, <1>1, <1>2, <1>3, <1>4, <1>5, <1>6, LabelDoes DEF Internal, Silent

LEMMA OpenDoes ==
    ASSUME TypeInv, NEW t \in Threads, NEW file \in Files, NEW creat \in BOOLEAN,
           NEW trunc \in BOOLEAN, NEW sync \in BOOLEAN, Open(t, file, creat, trunc, sync)
    PROVE  TypeInv' /\ Does
<1>1. TypeInv' /\ Opens(t)
    BY OpenType DEF Opens
<1> QED BY <1>1, ThreadIsActor DEF Does, Effects

LEMMA CloseDoes ==
    ASSUME TypeInv, NEW t \in Threads, NEW fd \in Fds, NEW next \in {"return", "fclose", "dup2"},
           NEW oldfd \in Fds \cup {0}, next = "dup2" => oldfd \in Fds, Close(t, fd, next, oldfd)
    PROVE  TypeInv' /\ Does
<1>1. TypeInv' /\ Closes(t)
    BY CloseType DEF Closes
<1> QED BY <1>1, ThreadIsActor DEF Does, Effects

LEMMA WriteDoes ==
    ASSUME TypeInv, NEW t \in Threads, NEW fd \in Fds, Write(t, fd) \/ Pwrite(t, fd)
    PROVE  TypeInv' /\ Does
<1>1. PICK x \in Extents : \E move \in BOOLEAN : DoWrite(t, fd, x[1], x[2], move)
    <2>1. CASE Pwrite(t, fd)
        BY <2>1 DEF Pwrite
    <2>2. CASE Write(t, fd)
        <3>1. PICK y \in Extents : /\ y[1] = states[table[fd]].offset
                                   /\ DoWrite(t, fd, states[table[fd]].offset, y[2], TRUE)
            BY <2>2 DEF Write
        <3> QED BY <3>1
    <2> QED BY <2>1, <2>2
<1>2. x = <<x[1], x[2]>>
    BY PosixAssumption
<1>3. TypeInv' /\ Stages(t)
    BY <1>1, <1>2, DoWriteType DEF Stages
<1> QED BY <1>3, ThreadIsActor DEF Does, Effects

LEMMA ReadDoes ==
    ASSUME TypeInv, NEW t \in Threads, NEW fd \in Fds, Read(t, fd) \/ Pread(t, fd)
    PROVE  TypeInv' /\ Does
<1>1. PICK x \in ReadExtents : \E move \in BOOLEAN : DoRead(t, fd, x[1], x[2], move)
    <2>1. CASE Pread(t, fd)
        BY <2>1 DEF Pread
    <2>2. CASE Read(t, fd)
        <3>1. PICK y \in ReadExtents : /\ y[1] = states[table[fd]].offset
                                       /\ DoRead(t, fd, states[table[fd]].offset, y[2], TRUE)
            BY <2>2 DEF Read
        <3> QED BY <3>1
    <2> QED BY <2>1, <2>2
<1>2. x = <<x[1], x[2]>>
    BY PosixAssumption
<1>3. PICK off, len : off = x[1] /\ len = x[2] /\ <<off, len>> \in ReadExtents
    BY <1>2
<1>4. /\ TypeInv' /\ Stays /\ RestSame
      /\ \/ UNCHANGED <<caches, call>>
         \/ \E c : /\ c.op = "read" /\ c.step = "publish"
                   /\ Takes(t, fd, c) /\ Goes(t, c) /\ Flushed(fd) /\ OtherCaches(fd)
      /\ call[t].op = "idle" /\ ~Exiting
    BY <1>1, <1>3, DoReadType
<1>5. call[t].todo = <<>>
    BY <1>4, OfCall, ThreadIsActor DEF TypeInv
<1>6. CASE UNCHANGED <<caches, call>>
    BY <1>4, <1>6 DEF Does, SetsMeta, RestSame, MetaKept
<1>7. CASE ~UNCHANGED <<caches, call>>
    <2>1. Empties(t)
        BY <1>4, <1>5, <1>7 DEF Empties
    <2> QED BY <1>4, <2>1, ThreadIsActor DEF Does, Effects
<1> QED BY <1>6, <1>7

LEMMA TransferDoes ==
    ASSUME TypeInv, NEW t \in Threads, NEW fd \in Fds, Lseek(t, fd) \/ Fsync(t, fd)
    PROVE  TypeInv' /\ Does
<1>1. CASE Lseek(t, fd)
    <2>1. TypeInv' /\ SetsMeta
        BY <1>1, LseekType DEF SetsMeta, DataSame, MetaKept
    <2> QED BY <2>1 DEF Does
<1>2. CASE Fsync(t, fd)
    <2>1. call[t].op = "idle"
        BY <1>2, FsyncType
    <2>2. call[t].todo = <<>>
        BY <2>1, OfCall, ThreadIsActor DEF TypeInv
    <2>3. TypeInv' /\ Empties(t)
        BY <1>2, <2>2, FsyncType DEF Empties
    <2> QED BY <2>3, ThreadIsActor DEF Does, Effects
<1> QED BY <1>1, <1>2

LEMMA CallsDoes ==
    ASSUME TypeInv, NEW t \in Threads, Calls(t)
    PROVE  TypeInv' /\ Does
<1>1. CASE OpenCalls(t)
    <2>1. PICK file \in Files, m \in OpenModes :
            Open(t, file, "creat" \in m, "trunc" \in m, "sync" \in m)
        BY <1>1 DEF OpenCalls, Silent
    <2>2. PICK creat \in BOOLEAN, trunc \in BOOLEAN, sync \in BOOLEAN :
            creat = ("creat" \in m) /\ trunc = ("trunc" \in m) /\ sync = ("sync" \in m)
        <3>1. ("creat" \in m) \in BOOLEAN /\ ("trunc" \in m) \in BOOLEAN /\ ("sync" \in m) \in BOOLEAN
            OBVIOUS
        <3> QED BY <3>1, Zenon
    <2> QED BY <2>1, <2>2, OpenDoes
<1>2. CASE TransferCalls(t)
    <2>1. PICK fd \in Fds : \/ Read(t, fd) \/ Pread(t, fd)
                            \/ Close(t, fd, "return", 0) \/ Write(t, fd) \/ Pwrite(t, fd)
                            \/ Lseek(t, fd) \/ Fsync(t, fd)
        BY <1>2 DEF TransferCalls, Silent
    <2>2. CASE Close(t, fd, "return", 0)
        BY <2>2, CloseDoes
    <2> QED BY <2>1, <2>2, ReadDoes, WriteDoes, TransferDoes
<1>3. CASE UnlinkCall(t)
    <2>1. PICK file \in Files : Unlink(t, file)
        BY <1>3 DEF UnlinkCall, Silent
    <2> QED BY <2>1, UnlinkType DEF Does
<1>4. CASE FtruncateCall(t)
    <2>1. PICK fd \in Fds, len \in Lengths : Ftruncate(t, fd, len)
        BY <1>4 DEF FtruncateCall, Silent
    <2> QED BY <2>1, FtruncateType DEF Does
<1>5. CASE DupCalls(t)
    <2>1. PICK fd \in Fds : Dup(t, fd) \/ \E newfd \in Fds : Dup2(t, fd, newfd)
        BY <1>5 DEF DupCalls, Silent
    <2>2. CASE Dup(t, fd)
        <3>1. call[t].op = "idle" /\ Duplicate(t, fd)
            BY <2>2 DEF Dup, Starts
        <3>2. call[t].todo = <<>> /\ call[t].step = "publish"
            <4>1. PICK b : b = call[t]
                OBVIOUS
            <4>2. b = IdleCall
                BY <3>1, <4>1, OfCall, ThreadIsActor DEF TypeInv
            <4> QED BY <4>1, <4>2 DEF IdleCall
        <3>3. TypeInv' /\ (Returns(t) \/ Opens(t))
            BY <3>1, <3>2, DuplicateType DEF Returns, Opens, Idles, MetaKept
        <3> QED BY <3>3, ThreadIsActor DEF Does, Effects
    <2>3. CASE \E newfd \in Fds : Dup2(t, fd, newfd)
        <3>1. PICK newfd \in Fds : Close(t, newfd, "dup2", fd)
            BY <2>3 DEF Dup2
        <3> QED BY <3>1, CloseDoes
    <2> QED BY <2>1, <2>2, <2>3
<1>6. CASE RenameCall(t)
    <2>1. PICK old \in Files, new \in Files : Rename(t, old, new)
        BY <1>6 DEF RenameCall, Silent
    <2> QED BY <2>1, RenameType DEF Does
<1>7. CASE FopenCall(t)
    <2>1. PICK file \in Files, mode \in {"r", "w", "a"} :
            Open(t, file, mode # "r", mode = "w", FALSE)
        BY <1>7 DEF FopenCall, Silent
    <2>2. PICK creat \in BOOLEAN, trunc \in BOOLEAN, sync \in BOOLEAN :
            creat = (mode # "r") /\ trunc = (mode = "w") /\ sync = FALSE
        <3>1. (mode # "r") \in BOOLEAN /\ (mode = "w") \in BOOLEAN /\ FALSE \in BOOLEAN
            OBVIOUS
        <3> QED BY <3>1, Zenon
    <2> QED BY <2>1, <2>2, OpenDoes
<1>8. CASE FreadFwriteCalls(t)
    <2>1. PICK fd \in Fds : Read(t, fd) \/ Write(t, fd)
        BY <1>8 DEF FreadFwriteCalls, Silent
    <2> QED BY <2>1, ReadDoes, WriteDoes
<1>9. CASE FcloseCall(t)
    <2>1. PICK fd \in Fds : Close(t, fd, "fclose", 0)
        BY <1>9 DEF FcloseCall, Silent
    <2> QED BY <2>1, CloseDoes
<1> QED BY <1>1, <1>2, <1>3, <1>4, <1>5, <1>6, <1>7, <1>8, <1>9 DEF Calls

LEMMA StepDoes ==
    ASSUME TypeInv, [Next]_vars
    PROVE  TypeInv' /\ Does
<1>1. CASE UNCHANGED posixVars
    BY <1>1, StutterDoes DEF Does
<1>2. CASE TimerRuns
    <2>1. Timer \in Actors
        BY DEF Actors
    <2>2. CASE TimerFlush
        <3>1. call[Timer].op = "idle" /\ TakeAll(Timer, "timer")
            BY <2>2 DEF TimerFlush
        <3>2. PICK op \in {"timer", "exit"} : op = "timer"
            OBVIOUS
        <3>3. TypeInv' /\ Collects(Timer)
            BY <2>1, <3>1, <3>2, TakeAllType DEF Collects
        <3> QED BY <2>1, <3>3 DEF Does, Effects
    <2> QED BY <1>2, <2>1, <2>2, LabelDoes DEF TimerRuns, TimerStep, Silent
<1>3. ASSUME NEW t \in Threads, Fini(t) PROVE TypeInv' /\ Does
    <2>1. (\A u \in Threads : call[u].op = "idle") /\ TakeAll(t, "exit")
        BY <1>3 DEF Fini, Silent
    <2>2. PICK op \in {"timer", "exit"} : op = "exit"
        OBVIOUS
    <2>3. TypeInv' /\ Collects(t)
        BY <2>1, <2>2, TakeAllType, ThreadIsActor DEF Collects
    <2> QED BY <2>3, ThreadIsActor DEF Does, Effects
<1>4. ASSUME NEW t \in Threads, Teardown(t) PROVE TypeInv' /\ Does
    <2>1. TypeInv' /\ Leaves(t)
        BY <1>4, TeardownType DEF Leaves
    <2> QED BY <2>1, ThreadIsActor DEF Does, Effects
<1>5. Next \/ UNCHANGED vars
    OBVIOUS
<1>6. SessionUp \/ SessionFails \/ UNCHANGED vars => UNCHANGED posixVars
    BY DEF SessionUp, SessionFails, vars
<1>7. ASSUME NEW t \in Threads, ThreadRuns(t) PROVE TypeInv' /\ Does
    BY <1>7, InternalDoes DEF ThreadRuns
<1> QED BY <1>1, <1>2, <1>3, <1>4, <1>5, <1>6, <1>7, CallsDoes DEF Next

-----------------------------------------------------------------------------
(* Types, and the counter of the cache *)

LEMMA InitType == ASSUME Init PROVE TypeInv
<1> USE DEF Init, PosixInit
<1>1. TableInv
    <2>1. Free \in States /\ Free.refs = 0
        BY Numbers DEF Free, States
    <2> QED BY <2>1, Numbers DEF TableInv
<1>2. RefInv
    <2> SUFFICES ASSUME NEW s \in 1 .. MaxOpens
                 PROVE  Cardinality({fd \in Fds : table[fd] = s}) <= states[s].refs
        BY DEF RefInv
    <2>1. {fd \in Fds : table[fd] = s} = {}
        OBVIOUS
    <2>2. Cardinality({fd \in Fds : table[fd] = s}) = 0
        BY <2>1, FS_EmptySet
    <2> QED BY <2>2 DEF Free
<1>3. DataInv
    BY Numbers DEF DataInv
<1>4. CachesInv
    BY AbsentOK DEF CachesInv
<1>5. CallsInv
    BY IdleOK DEF CallsInv
<1> QED BY <1>1, <1>2, <1>3, <1>4, <1>5 DEF TypeInv

LEMMA TypeOf == ASSUME TypeInv PROVE PosixTypeOK
<1>1. ASSUME NEW a \in Actors PROVE Range(call[a].todo) \subseteq Regions
    <2>1. call[a].todo \in Seq(Regions)
        BY OfCall DEF TypeInv
    <2> QED BY <2>1 DEF Range
<1> QED BY <1>1 DEF PosixTypeOK, TypeInv, TableInv, DataInv, States

LEMMA BoundedOf == ASSUME TypeInv PROVE CacheBounded
<1> SUFFICES ASSUME NEW fd \in Fds
             PROVE  /\ caches[fd].total_bytes < LabelMinSize
                    /\ caches[fd].total_bytes = Total(caches[fd].regions)
    BY DEF CacheBounded, Total
<1> QED BY DEF TypeInv, CachesInv, CacheOK, HoldsOK

\* The inductive invariant behind the next two theorems: types, a FileState counts
\* the descriptors that lead to it (FdTable), every cache is sound, and a call is
\* somewhere its code can be.
THEOREM TypeCorrect == Spec => []TypeInv
<1>1. Init => TypeInv
    BY InitType
<1>2. TypeInv /\ [Next]_vars => TypeInv'
    BY StepDoes
<1> QED BY <1>1, <1>2, PTL DEF Spec

\* The variables of the adapter, the table, the cache and the catalog keep their
\* types: offsets and sizes stay inside the file, and regions are of writes made.
THEOREM PosixTypes == Spec => []PosixTypeOK
<1>1. TypeInv => PosixTypeOK
    BY TypeOf
<1> QED BY <1>1, TypeCorrect, PTL

\* The byte counter of every cache is the sum of what it holds, and below the
\* threshold: cache_write subtracts what it replaces, and hands a full cache over.
THEOREM CachesBounded == Spec => []CacheBounded
<1>1. TypeInv => CacheBounded
    BY BoundedOf
<1> QED BY <1>1, TypeCorrect, PTL

-----------------------------------------------------------------------------
(* Whose cache is under a descriptor *)

\* A cache loses regions, or is evicted, or takes a write to its descriptor.
PathKept(fd) ==
    \/ DOMAIN caches'[fd].regions \subseteq DOMAIN caches[fd].regions /\ PathOf(fd)' = PathOf(fd)
    \/ DOMAIN caches'[fd].regions = {} /\ PathOf(fd)' = NoFile
    \/ /\ table[fd] # 0 /\ ~Exiting
       /\ PathOf(fd)' = IF PathOf(fd) = NoFile THEN FileOf(fd) ELSE PathOf(fd)

\* A descriptor is closed, or leads where it led, or is handed out.
LeadsOn(fd) ==
    \/ table'[fd] = 0
    \/ table[fd] # 0 /\ FileOf(fd)' = FileOf(fd)
    \/ \E file \in Files : Leads(fd, file) /\ Hands(fd, file) /\ caches'[fd] = caches[fd]

Closing(t) == call[t].op = "close" /\ call[t].step # "closed"

ExitKept(t) ==
    call'[t].op = "exit" =>
      \/ call[t].op = "exit"
      \/ /\ \A u \in Threads \ {t} : call'[u].op = "idle"
         /\ \A fd \in Fds : DOMAIN caches'[fd].regions = {}

CloseKept(t) ==
    call'[t].op = "close" /\ call'[t].step # "closed" =>
      \/ call'[t].step = "flush" /\ table'[call'[t].fd] = 0
      \/ /\ Closing(t) /\ call'[t].fd = call[t].fd
         /\ call'[t].step # "flush" =>
              call[t].step # "flush" \/ DOMAIN caches'[call[t].fd].regions = {}

CallKept(t) ==
    ExitKept(t) /\ CloseKept(t) /\ (Exiting => call'[t].op \in {"idle", call[t].op})

PathStep ==
    /\ torn \subseteq torn'
    /\ \A fd \in Fds : PathKept(fd) /\ LeadsOn(fd)
    /\ \A t \in Threads : CallKept(t)

LEMMA PathOKStep ==
    ASSUME PathInv, PathStep, NEW fd \in Fds
    PROVE  PathOK(fd)'
<1> SUFFICES ASSUME table'[fd] # 0
             PROVE  \/ PathOf(fd)' \in {NoFile, FileOf(fd)'}
                    \/ PathOf(fd)' \in torn' /\ FileOf(fd)' \in torn'
    BY DEF PathOK, PathOf
<1>1. torn \subseteq torn' /\ PathKept(fd)
    BY DEF PathStep
<1>2. CASE table[fd] # 0 /\ FileOf(fd)' = FileOf(fd)
    <2>1. \/ PathOf(fd) \in {NoFile, FileOf(fd)}
          \/ PathOf(fd) \in torn /\ FileOf(fd) \in torn
        BY <1>2 DEF PathInv, PathOK, PathOf
    <2> QED BY <1>1, <1>2, <2>1 DEF PathKept
<1>3. ASSUME NEW file \in Files, Leads(fd, file), Hands(fd, file), caches'[fd] = caches[fd]
      PROVE  \/ PathOf(fd)' \in {NoFile, FileOf(fd)'}
             \/ PathOf(fd)' \in torn' /\ FileOf(fd)' \in torn'
    <2>1. FileOf(fd)' = file /\ PathOf(fd)' = PathOf(fd)
        BY <1>3 DEF Leads, PathOf
    <2>2. CASE Reuses(fd, file)
        BY <1>3, <2>1, <2>2 DEF Hands
    <2>3. CASE ~Reuses(fd, file)
        <3>1. PathOf(fd) \in {NoFile, file}
            BY <2>3 DEF Reuses, PathOf
        <3> QED BY <2>1, <3>1
    <2> QED BY <2>2, <2>3
<1> QED BY <1>2, <1>3 DEF PathStep, LeadsOn

LEMMA CloseOKStep ==
    ASSUME TypeInv', PathInv, PathStep, NEW t \in Threads
    PROVE  CloseOK(t)'
<1> SUFFICES ASSUME call'[t].op = "close", call'[t].step # "closed",
                    NEW fd, fd = call'[t].fd
             PROVE  /\ table'[fd] # 0 => FileOf(fd)' \in torn' /\ PathOf(fd)' \in torn' \cup {NoFile}
                    /\ call'[t].step # "flush" =>
                         DOMAIN caches'[fd].regions = {} \/ PathOf(fd)' \in torn'
    BY DEF CloseOK, PathOf, FileOf
<1>1. fd \in Fds
    BY ThreadIsActor DEF TypeInv, CallsInv, ShapeOK
<1>2. torn \subseteq torn' /\ PathKept(fd) /\ LeadsOn(fd) /\ CloseKept(t)
    BY <1>1 DEF PathStep, CallKept
<1>3. CASE call'[t].step = "flush" /\ table'[fd] = 0
    BY <1>3
<1>4. CASE /\ Closing(t) /\ fd = call[t].fd
           /\ call'[t].step # "flush" =>
                call[t].step # "flush" \/ DOMAIN caches'[fd].regions = {}
    <2>1. /\ table[fd] # 0 => FileOf(fd) \in torn /\ PathOf(fd) \in torn \cup {NoFile}
          /\ call[t].step # "flush" => DOMAIN caches[fd].regions = {} \/ PathOf(fd) \in torn
        BY <1>4 DEF Closing, PathInv, CloseOK, PathOf
    <2>2. ASSUME table'[fd] # 0 PROVE FileOf(fd)' \in torn' /\ PathOf(fd)' \in torn' \cup {NoFile}
        <3>1. CASE table[fd] # 0 /\ FileOf(fd)' = FileOf(fd)
            BY <1>2, <2>1, <3>1 DEF PathKept
        <3>2. ASSUME NEW file \in Files, Leads(fd, file), Hands(fd, file), caches'[fd] = caches[fd]
              PROVE  FileOf(fd)' \in torn' /\ PathOf(fd)' \in torn' \cup {NoFile}
            <4>1. Reuses(fd, file)
                BY <1>4 DEF Reuses, Closing
            <4>2. FileOf(fd)' = file /\ PathOf(fd)' = PathOf(fd)
                BY <3>2 DEF Leads, PathOf
            <4> QED BY <3>2, <4>1, <4>2 DEF Hands
        <3> QED BY <1>2, <2>2, <3>1, <3>2 DEF LeadsOn
    <2>3. ASSUME call'[t].step # "flush"
          PROVE  DOMAIN caches'[fd].regions = {} \/ PathOf(fd)' \in torn'
        <3>1. CASE DOMAIN caches'[fd].regions = {}
            BY <3>1
        <3>2. CASE call[t].step # "flush"
            BY <1>2, <2>1, <3>2 DEF PathKept
        <3> QED BY <1>4, <2>3, <3>1, <3>2
    <2> QED BY <2>2, <2>3
<1> QED BY <1>2, <1>3, <1>4 DEF CloseKept

LEMMA ExitOKStep ==
    ASSUME PathInv, PathStep, NEW t \in Threads
    PROVE  ExitOK(t)'
<1> SUFFICES ASSUME call'[t].op = "exit"
             PROVE  /\ \A u \in Threads \ {t} : call'[u].op = "idle"
                    /\ \A fd \in Fds : DOMAIN caches'[fd].regions = {}
    BY DEF ExitOK
<1>1. CASE call[t].op = "exit"
    <2>1. /\ \A u \in Threads \ {t} : call[u].op = "idle"
          /\ \A fd \in Fds : DOMAIN caches[fd].regions = {}
        BY <1>1 DEF PathInv, ExitOK
    <2>2. Exiting
        BY <1>1 DEF Exiting
    <2>3. \A u \in Threads \ {t} : call'[u].op = "idle"
        BY <2>1, <2>2 DEF PathStep, CallKept
    <2>4. ASSUME NEW fd \in Fds PROVE DOMAIN caches'[fd].regions = {}
        <3>1. PathKept(fd)
            BY DEF PathStep
        <3>2. DOMAIN caches[fd].regions = {}
            BY <2>1
        <3> QED BY <2>2, <3>1, <3>2 DEF PathKept
    <2> QED BY <2>3, <2>4
<1>2. CASE call[t].op # "exit"
    BY <1>2 DEF PathStep, CallKept, ExitKept
<1> QED BY <1>1, <1>2

LEMMA PathFrame ==
    ASSUME TypeInv', PathInv, PathStep
    PROVE  PathInv'
<1>1. \A t \in Threads : ExitOK(t)' /\ CloseOK(t)'
    BY ExitOKStep, CloseOKStep
<1>2. \A fd \in Fds : PathOK(fd)'
    BY PathOKStep
<1> QED BY <1>1, <1>2 DEF PathInv

\* The parts of a step that leave something as it was.
LEMMA StaysLeads ==
    ASSUME Stays, NEW fd \in Fds PROVE LeadsOn(fd)
BY DEF Stays, LeadsOn

LEMMA SamePath ==
    ASSUME NEW fd \in Fds, caches'[fd] = caches[fd] PROVE PathKept(fd)
BY DEF PathKept, PathOf

LEMMA SameCall ==
    ASSUME NEW t \in Threads, call'[t] = call[t] PROVE CallKept(t)
BY DEF CallKept, ExitKept, CloseKept, Closing

\* A call that ends, or goes on as what it was without closing.
LEMMA EndedCall ==
    ASSUME NEW t \in Threads, call'[t].op \in {"idle", call[t].op},
           call'[t].op = "close" /\ call'[t].step # "closed" =>
             call[t].step \in {"publish", "track", "resize"} /\ call'[t].fd = call[t].fd
    PROVE  CallKept(t)
BY DEF CallKept, ExitKept, CloseKept, Closing

LEMMA IdleFields ==
    IdleCall.op = "idle" /\ IdleCall.step = "publish" /\ IdleCall.todo = <<>>
BY DEF IdleCall

\* The calls, when one actor steps.
LEMMA OneCall ==
    ASSUME NEW a \in Actors, NEW c, Goes(a, c), a \in Threads => CallKept(a)
    PROVE  \A t \in Threads : CallKept(t)
<1> SUFFICES ASSUME NEW t \in Threads, t # a PROVE CallKept(t)
    OBVIOUS
<1>1. call'[t] = call[t]
    BY ThreadIsActor DEF Goes
<1> QED BY <1>1, SameCall

LEMMA LabelPath ==
    ASSUME TypeInv, NEW a \in Actors, PutsOut(a) \/ ReadsSize(a) \/ WritesSize(a)
    PROVE  PathStep
<1>1. Stays /\ caches' = caches /\ call[a].step \in {"publish", "track", "resize"}
    BY DEF PutsOut, ReadsSize, WritesSize
<1>2. torn \subseteq torn'
    BY DEF PutsOut, ReadsSize, WritesSize, Publishes
<1>3. \E d : /\ Goes(a, d) /\ d.op \in {"idle", call[a].op}
             /\ d.op = "close" => d.fd = call[a].fd
    <2>1. CASE PutsOut(a)
        <3>1. PICK c : c = call[a]
            OBVIOUS
        <3>2. PICK d : Goes(a, d) /\ Publishes(c, d)
            BY <2>1, <3>1 DEF PutsOut
        <3>3. Tracks(d, c) \/ GivesUp(d, c)
            BY <3>2 DEF Publishes
        <3> QED BY <3>1, <3>2, <3>3 DEF Tracks, GivesUp
    <2>2. CASE ReadsSize(a)
        BY <2>2 DEF ReadsSize
    <2>3. CASE WritesSize(a)
        <3>1. PICK c : c = call[a]
            OBVIOUS
        <3>2. CallOK(c, writes) /\ ShapeOK(c) /\ c.todo # <<>>
            BY <2>3, <3>1, OfCall DEF TypeInv, WritesSize
        <3>3. Advance(c).op \in {"idle", c.op} /\ (c.op = "close" => Advance(c).fd = c.fd)
            BY <3>2, AdvanceOK
        <3>4. Goes(a, Advance(c))
            BY <2>3, <3>1 DEF WritesSize
        <3> QED BY <3>1, <3>3, <3>4, IdleFields
    <2> QED BY <2>1, <2>2, <2>3
<1>4. a \in Threads => CallKept(a)
    BY <1>1, <1>3, EndedCall DEF Goes
<1> QED BY <1>1, <1>2, <1>3, <1>4, OneCall, StaysLeads, SamePath DEF PathStep

LEMMA CollectsPath ==
    ASSUME TypeInv, NEW a \in Actors, Collects(a)
    PROVE  PathStep
<1>1. Stays /\ torn' = torn /\ call[a].op = "idle"
    BY DEF Collects, RestSame
<1>2. PICK c : /\ TakesAll(a, c)
               /\ \/ a = Timer /\ c.op = "timer"
                  \/ c.op = "exit" /\ \A u \in Threads : call[u].op = "idle"
    BY DEF Collects
<1>3. Goes(a, c) /\ \A fd \in Fds : Flushed(fd)
    BY <1>2 DEF TakesAll
<1>4. \A fd \in Fds : PathKept(fd) /\ DOMAIN caches'[fd].regions = {}
    BY <1>3 DEF Flushed, PathKept
<1>5. ASSUME a \in Threads PROVE CallKept(a)
    <2>1. c.op = "exit" /\ \A u \in Threads : call[u].op = "idle"
        BY <1>2, <1>5, PosixAssumption
    <2>2. \A u \in Threads \ {a} : call'[u].op = "idle"
        BY <1>3, <2>1, ThreadIsActor DEF Goes
    <2>3. ~Exiting
        BY <2>1 DEF Exiting
    <2> QED BY <1>3, <1>4, <2>1, <2>2, <2>3 DEF CallKept, ExitKept, CloseKept, Goes
<1> QED BY <1>1, <1>3, <1>4, <1>5, OneCall, StaysLeads DEF PathStep

LEMMA ReturnsPath ==
    ASSUME TypeInv, NEW t \in Threads, Returns(t) \/ Opens(t)
    PROVE  PathStep
<1>1. caches' = caches
    BY DEF Returns, Opens
<1>2. torn \subseteq torn' /\ \A fd \in Fds : LeadsOn(fd)
    <2>1. CASE Returns(t)
        BY <2>1, StaysLeads DEF Returns
    <2>2. CASE Opens(t)
        <3>1. PICK fd \in Fds, file \in Files : Others(fd) /\ Leads(fd, file) /\ Hands(fd, file)
            BY <2>2 DEF Opens
        <3>2. LeadsOn(fd)
            BY <1>1, <3>1 DEF LeadsOn
        <3>3. \A e \in Fds \ {fd} : LeadsOn(e)
            BY <3>1 DEF Others, LeadsOn
        <3> QED BY <3>1, <3>2, <3>3 DEF Hands
    <2> QED BY <2>1, <2>2
<1>3. \A u \in Threads : CallKept(u)
    <2>1. CASE call' = call
        BY <2>1, SameCall
    <2>2. CASE Idles(t)
        <3>1. Goes(t, IdleCall)
            BY <2>2 DEF Idles
        <3>2. CallKept(t)
            BY <3>1, EndedCall, IdleFields DEF Goes
        <3> QED BY <3>1, <3>2, OneCall, ThreadIsActor
    <2> QED BY <2>1, <2>2 DEF Returns, Opens
<1> QED BY <1>1, <1>2, <1>3, SamePath DEF PathStep

\* What a small write does to the cache.
LEMMA SmallWriteOK ==
    ASSUME TypeInv, TypeInv', NEW t \in Threads, NEW fd \in Fds, NEW x \in Extents,
           NEW file \in Files, NEW n \in Nat,
           Writes(t, fd, x[1], x[2], file, n), SmallWrite(t, fd, x[1], x[2], file, n)
    PROVE  /\ OtherCaches(fd)
           /\ PathOf(fd)' = IF PathOf(fd) = NoFile THEN file ELSE PathOf(fd)
           /\ \E s : /\ Stores(s, caches[fd], file, x[1], x[2], n)
                     /\ \/ caches'[fd] = s
                        \/ Range(call'[t].todo) = Held(s)
<1>1. PICK w \in Nat : w = writes /\ n = w + 1 /\ w < MaxWrites
    <2>1. writes \in Nat /\ n = writes + 1 /\ n \in 0 .. MaxWrites
        BY DEF TypeInv, DataInv, Writes
    <2> QED BY <2>1, Numbers
<1>2. PICK off, len : off = x[1] /\ len = x[2] /\ <<off, len>> \in Extents
    <2>1. x = <<x[1], x[2]>>
        BY PosixAssumption
    <2> QED BY <2>1
<1>3. PICK c : c = caches[fd]
    OBVIOUS
<1>4. PICK s : s = stored_in(c, file, off, len, w + 1)
    OBVIOUS
<1>5. PICK y : y = cache_write(c, file, off, len, w + 1)
    OBVIOUS
<1>6. len < LabelMinSize /\ caches' = [caches EXCEPT ![fd] = y.cache] /\ call'[t].todo = y.flushed
    BY <1>1, <1>2, <1>3, <1>5 DEF SmallWrite
<1>7. CacheOK(c, w) /\ HoldsOK(c, w)
    BY <1>1, <1>3, PathType DEF TypeInv, CachesInv
<1>8. Stores(s, c, file, off, len, w + 1)
    BY <1>2, <1>4, <1>6, <1>7, StoredOK
<1>9. /\ y.cache.filepath = s.filepath
      /\ \/ y.flushed = <<>> /\ y.cache = s
         \/ Range(y.flushed) = Held(s)
    BY <1>1, <1>2, <1>4, <1>5, <1>6, <1>7, WriteOK
<1>10. caches'[fd] = y.cache /\ OtherCaches(fd)
    BY <1>6 DEF TypeInv, CachesInv, OtherCaches
<1>11. s.filepath = IF c.filepath = NoFile THEN file ELSE c.filepath
    BY <1>8 DEF Stores
<1>12. PathOf(fd)' = IF PathOf(fd) = NoFile THEN file ELSE PathOf(fd)
    BY <1>3, <1>9, <1>10, <1>11 DEF PathOf
<1>13. Stores(s, caches[fd], file, x[1], x[2], n)
    BY <1>1, <1>2, <1>3, <1>8
<1> QED BY <1>6, <1>9, <1>10, <1>12, <1>13

LEMMA StagesPath ==
    ASSUME TypeInv, TypeInv', NEW t \in Threads, Stages(t)
    PROVE  PathStep
<1>1. PICK fd \in Fds, x \in Extents, file \in Files, n \in Nat :
        /\ Writes(t, fd, x[1], x[2], file, n)
        /\ \/ LargeWrite(t, fd, x[1], x[2], file, n)
           \/ SmallWrite(t, fd, x[1], x[2], file, n)
    BY DEF Stages
<1>2. /\ table[fd] # 0 /\ file = FileOf(fd) /\ call[t].op = "idle" /\ ~Exiting /\ torn' = torn
    BY <1>1 DEF Writes
<1>3. \A e \in Fds : PathKept(e)
    <2>1. CASE LargeWrite(t, fd, x[1], x[2], file, n)
        BY <2>1, SamePath DEF LargeWrite
    <2>2. CASE SmallWrite(t, fd, x[1], x[2], file, n)
        <3>1. /\ OtherCaches(fd)
              /\ PathOf(fd)' = IF PathOf(fd) = NoFile THEN file ELSE PathOf(fd)
            BY <1>1, <2>2, SmallWriteOK
        <3>2. PathKept(fd)
            BY <1>2, <3>1 DEF PathKept
        <3> QED BY <3>1, <3>2, SamePath DEF OtherCaches
    <2> QED BY <1>1, <2>1, <2>2
<1>4. PICK c : Goes(t, c) /\ c.step = "publish" /\ c.op \in {"idle", "write"}
    BY DEF Stages
<1>5. CallKept(t)
    BY <1>2, <1>4 DEF CallKept, ExitKept, CloseKept, Goes
<1>6. Stays
    BY DEF Stages
<1> QED BY <1>2, <1>3, <1>4, <1>5, <1>6, OneCall, ThreadIsActor, StaysLeads DEF PathStep

LEMMA EmptiesPath ==
    ASSUME TypeInv, NEW t \in Threads, Empties(t)
    PROVE  PathStep
<1>1. Stays /\ torn' = torn
    BY DEF Empties, RestSame
<1>2. PICK fd, c :
        /\ fd \in Fds
        /\ Goes(t, c) /\ Flushed(fd) /\ OtherCaches(fd) /\ c.step = "publish"
        /\ \/ call[t].op = "idle" /\ ~Exiting /\ c.op \in {"idle", "read", "fsync"}
           \/ /\ call[t].op = "close" /\ call[t].step = "flush" /\ call[t].fd = fd
              /\ c.op = "close" /\ c.fd = fd
    BY DEF Empties
<1>3. \A e \in Fds : PathKept(e)
    <2>1. PathKept(fd)
        BY <1>2 DEF Flushed, PathKept
    <2> QED BY <1>2, <2>1, SamePath DEF OtherCaches
<1>4. CallKept(t)
    <2>1. CASE call[t].op = "idle" /\ ~Exiting /\ c.op \in {"idle", "read", "fsync"}
        BY <1>2, <2>1 DEF CallKept, ExitKept, CloseKept, Goes
    <2>2. CASE /\ call[t].op = "close" /\ call[t].step = "flush" /\ call[t].fd = fd
               /\ c.op = "close" /\ c.fd = fd
        BY <1>2, <2>2 DEF CallKept, ExitKept, CloseKept, Closing, Goes, Flushed
    <2> QED BY <1>2, <2>1, <2>2
<1> QED BY <1>1, <1>2, <1>3, <1>4, OneCall, ThreadIsActor, StaysLeads DEF PathStep

LEMMA ClosesPath ==
    ASSUME TypeInv, NEW t \in Threads, Closes(t)
    PROVE  PathStep
<1>1. caches' = caches /\ torn' = torn /\ call[t].op = "idle" /\ ~Exiting
    BY DEF Closes, DataSame
<1>2. PICK fd, c :
        /\ fd \in Fds
        /\ Others(fd) /\ table'[fd] = 0 /\ Goes(t, c) /\ c.op \in {"idle", "close"}
        /\ c.step \in {"publish", "flush", "closed"}
        /\ c.op = "close" => c.fd = fd /\ c.step # "publish"
    BY DEF Closes
<1>3. CallKept(t)
    BY <1>1, <1>2 DEF CallKept, ExitKept, CloseKept, Goes
<1>4. \A e \in Fds : LeadsOn(e)
    BY <1>2 DEF Others, LeadsOn
<1> QED BY <1>1, <1>2, <1>3, <1>4, OneCall, ThreadIsActor, SamePath DEF PathStep

LEMMA EvictsPath ==
    ASSUME TypeInv, NEW t \in Threads, Evicts(t)
    PROVE  PathStep
<1>1. Stays /\ torn' = torn /\ call[t].op = "close"
    BY DEF Evicts, RestSame
<1>2. PICK fd \in Fds : fd = call[t].fd /\ caches'[fd] = Absent /\ OtherCaches(fd)
    BY DEF Evicts
<1>3. PICK c : Goes(t, c) /\ c.op \in {"idle", "close"} /\ (c.op = "close" => c.step = "closed")
    BY DEF Evicts
<1>4. CallKept(t)
    BY <1>1, <1>3 DEF CallKept, ExitKept, CloseKept, Goes
<1>5. \A e \in Fds : PathKept(e)
    <2>1. PathKept(fd)
        BY <1>2, AbsentOK DEF PathKept, PathOf
    <2> QED BY <1>2, <2>1, SamePath DEF OtherCaches
<1> QED BY <1>1, <1>3, <1>4, <1>5, OneCall, ThreadIsActor, StaysLeads DEF PathStep

LEMMA LeavesPath ==
    ASSUME TypeInv, NEW t \in Threads, Leaves(t)
    PROVE  PathStep
<1>1. Stays /\ torn \subseteq torn'
    BY DEF Leaves
<1>2. \A u \in Threads : CallKept(u)
    <2>1. \A u \in Threads : call'[u] = IdleCall
        BY ThreadIsActor DEF Leaves
    <2> QED BY <2>1, IdleFields, EndedCall
<1>3. \A e \in Fds : PathKept(e)
    BY AbsentOK DEF PathKept, PathOf, Leaves
<1> QED BY <1>1, <1>2, <1>3, StaysLeads DEF PathStep

LEMMA MetaPath ==
    ASSUME SetsMeta PROVE PathStep
BY StaysLeads, SamePath, SameCall DEF PathStep, SetsMeta

LEMMA DoesPath ==
    ASSUME TypeInv, TypeInv', Does PROVE PathStep
BY LabelPath, CollectsPath, ReturnsPath, StagesPath, EmptiesPath, ClosesPath, EvictsPath,
   LeavesPath, MetaPath DEF Does, Effects

LEMMA InitPath == ASSUME Init PROVE PathInv
BY IdleFields, ThreadIsActor DEF Init, PosixInit, PathInv, ExitOK, CloseOK, PathOK

-----------------------------------------------------------------------------
(* The size in the catalog *)

\* Nobody comes to be, or ceases to be, between storing a region and tracking it.
Calm(a) ==
    \/ call'[a] = call[a]
    \/ call[a].step \notin {"track", "resize"} /\ call'[a].step \notin {"track", "resize"}

SizeStep ==
    /\ store' = store /\ MetaKept /\ torn \subseteq torn' /\ loose \subseteq loose'
    /\ \A a \in Actors : Calm(a)

\* A file is stored, tracked and sized by the others as before.
Unmoved(file) ==
    /\ store'[file] = store[file]
    /\ meta'[file].size = meta[file].size
    /\ meta[file].exists => meta'[file].exists
    /\ \A a \in Actors : Busy(a, file)' => Busy(a, file) /\ call'[a] = call[a]
    /\ \A a \in Actors : Busy(a, file) => call'[a] = call[a]

LEMMA UnmovedSize ==
    ASSUME NEW file \in Files, SizeOK(file), Unmoved(file)
    PROVE  SizeOK(file)'
<1>1. \A a \in Actors : Busy(a, file) => Busy(a, file)'
    BY DEF Unmoved, Busy
<1>2. \A a \in Actors : Resizing(a, file)' => Resizing(a, file) /\ call'[a] = call[a]
    BY DEF Unmoved, Busy, Resizing
<1>3. ASSUME NEW b \in Bytes, store'[file][b] # 0
      PROVE  \/ b + 1 <= meta'[file].size
             \/ \E a \in Actors : Busy(a, file)' /\ b + 1 <= EndOf(Head(call'[a].todo))
    <2>1. \/ b + 1 <= meta[file].size
          \/ \E a \in Actors : Busy(a, file) /\ b + 1 <= EndOf(Head(call[a].todo))
        BY <1>3 DEF SizeOK, Unmoved
    <2>2. CASE b + 1 <= meta[file].size
        BY <2>2 DEF Unmoved
    <2>3. ASSUME NEW a \in Actors, Busy(a, file), b + 1 <= EndOf(Head(call[a].todo))
          PROVE  Busy(a, file)' /\ b + 1 <= EndOf(Head(call'[a].todo))
        <3>1. call'[a] = call[a]
            BY <2>3 DEF Unmoved
        <3> QED BY <1>1, <2>3, <3>1
    <2> QED BY <2>1, <2>2, <2>3
<1>4. meta'[file].size # 0 => meta'[file].exists /\ store'[file][meta'[file].size - 1] # 0
    BY DEF SizeOK, Unmoved
<1>5. ASSUME NEW a \in Actors, Busy(a, file)',
             NEW b \in Extent(Head(call'[a].todo).off, Head(call'[a].todo).len)
      PROVE  store'[file][b] # 0
    <2>1. Busy(a, file) /\ call'[a] = call[a]
        BY <1>5 DEF Unmoved
    <2> QED BY <1>5, <2>1 DEF SizeOK, Unmoved
<1>6. ASSUME NEW a \in Actors, Resizing(a, file)'
      PROVE  /\ call'[a].cur = meta'[file].size /\ meta'[file].exists
             /\ \A u \in Actors : Resizing(u, file)' => u = a
    <2>1. Resizing(a, file) /\ call'[a] = call[a]
        BY <1>2, <1>6
    <2>2. /\ call[a].cur = meta[file].size /\ meta[file].exists
          /\ \A u \in Actors : Resizing(u, file) => u = a
        BY <2>1 DEF SizeOK
    <2> QED BY <1>2, <2>1, <2>2 DEF Unmoved
<1> QED BY <1>3, <1>4, <1>5, <1>6 DEF SizeOK

LEMMA SizeFrame ==
    ASSUME SizeInv, SizeStep
    PROVE  SizeInv'
<1> SUFFICES ASSUME NEW file \in Files, file \notin torn', file \notin loose'
             PROVE  SizeOK(file)'
    BY DEF SizeInv
<1>1. SizeOK(file)
    BY DEF SizeInv, SizeStep
<1>2. Unmoved(file)
    <2>1. meta'[file].size = meta[file].size /\ (meta[file].exists => meta'[file].exists)
        BY DEF SizeStep, MetaKept
    <2>2. \A a \in Actors : Calm(a)
        BY DEF SizeStep
    <2> QED BY <2>1, <2>2 DEF SizeStep, Unmoved, Calm, Busy
<1> QED BY <1>1, <1>2, UnmovedSize

\* The calls that are neither tracking before nor after.
LEMMA CalmCall ==
    ASSUME NEW a \in Actors, NEW c, Goes(a, c),
           call[a].step \notin {"track", "resize"}, c.step \notin {"track", "resize"}
    PROVE  \A u \in Actors : Calm(u)
BY DEF Goes, Calm

LEMMA IdleStep ==
    ASSUME TypeInv, NEW a \in Actors, call[a].op = "idle"
    PROVE  call[a].step = "publish" /\ call[a].todo = <<>>
BY OfCall DEF TypeInv

LEMMA DoesSize ==
    ASSUME TypeInv, Does
    PROVE  \/ SizeStep
           \/ \E a \in Actors : PutsOut(a) \/ ReadsSize(a) \/ WritesSize(a)
           \/ \E t \in Threads : Leaves(t)
<1>1. CASE SetsMeta
    <2>1. SizeStep
        BY <1>1 DEF SetsMeta, SizeStep, Calm
    <2> QED BY <2>1
<1>2. ASSUME NEW t \in Threads, Returns(t) PROVE SizeStep
    <2>1. \A u \in Actors : Calm(u)
        BY <1>2, CalmCall, IdleFields, ThreadIsActor DEF Returns, Idles
    <2> QED BY <1>2, <2>1 DEF Returns, SizeStep, MetaKept
<1>3. ASSUME NEW t \in Threads, Opens(t) PROVE SizeStep
    <2>1. \A u \in Actors : Calm(u)
        <3>1. CASE call' = call
            BY <3>1 DEF Calm
        <3>2. CASE Idles(t)
            BY <3>2, CalmCall, IdleFields, ThreadIsActor DEF Idles
        <3> QED BY <1>3, <3>1, <3>2 DEF Opens
    <2>2. torn \subseteq torn'
        BY <1>3 DEF Opens, Hands
    <2> QED BY <1>3, <2>1, <2>2 DEF Opens, SizeStep
<1>4. ASSUME NEW t \in Threads, Stages(t) PROVE SizeStep
    <2>1. PICK fd \in Fds, x \in Extents, file \in Files, n \in Nat :
            Writes(t, fd, x[1], x[2], file, n)
        BY <1>4 DEF Stages
    <2>2. UNCHANGED <<meta, store, torn, loose>> /\ call[t].step = "publish"
        BY <2>1, IdleStep, ThreadIsActor DEF Writes
    <2>3. \A u \in Actors : Calm(u)
        BY <1>4, <2>2, CalmCall, ThreadIsActor DEF Stages
    <2> QED BY <2>2, <2>3 DEF SizeStep, MetaKept
<1>5. ASSUME NEW t \in Threads, Empties(t) PROVE SizeStep
    <2>1. RestSame
        BY <1>5 DEF Empties
    <2>2. PICK c : Goes(t, c) /\ c.step = "publish"
        BY <1>5 DEF Empties
    <2>3. call[t].step \in {"publish", "flush"}
        BY <1>5, IdleStep, ThreadIsActor DEF Empties
    <2>4. \A u \in Actors : Calm(u)
        BY <2>2, <2>3, CalmCall, ThreadIsActor
    <2> QED BY <2>1, <2>4 DEF SizeStep, MetaKept, RestSame
<1>6. ASSUME NEW t \in Threads, Closes(t) PROVE SizeStep
    <2>1. DataSame /\ call[t].step = "publish"
        BY <1>6, IdleStep, ThreadIsActor DEF Closes
    <2>2. \A u \in Actors : Calm(u)
        BY <1>6, <2>1, CalmCall, ThreadIsActor DEF Closes
    <2> QED BY <2>1, <2>2 DEF SizeStep, MetaKept, DataSame
<1>7. ASSUME NEW t \in Threads, Evicts(t) PROVE SizeStep
    <2>1. RestSame
        BY <1>7 DEF Evicts
    <2>2. \A u \in Actors : Calm(u)
        BY <1>7, CalmCall, ThreadIsActor DEF Evicts
    <2> QED BY <2>1, <2>2 DEF SizeStep, MetaKept, RestSame
<1>8. ASSUME NEW a \in Actors, Collects(a) PROVE SizeStep
    <2>1. RestSame /\ call[a].step = "publish"
        BY <1>8, IdleStep DEF Collects
    <2>2. \A u \in Actors : Calm(u)
        BY <1>8, <2>1, CalmCall DEF Collects, TakesAll
    <2> QED BY <2>1, <2>2 DEF SizeStep, MetaKept, RestSame
<1> QED BY <1>1, <1>2, <1>3, <1>4, <1>5, <1>6, <1>7, <1>8 DEF Does, Effects

\* What is known of the region a busy call is about.
LEMMA BusyRegion ==
    ASSUME TypeInv, NEW a \in Actors, call[a].todo # <<>>, NEW r, r = Head(call[a].todo)
    PROVE  /\ r \in Regions /\ r \in Range(call[a].todo) /\ r.file \in Files
           /\ Extent(r.off, r.len) \subseteq Bytes /\ r.id \in 1 .. MaxWrites
           /\ EndOf(r) \in 1 .. Size /\ EndOf(r) - 1 \in Extent(r.off, r.len)
           /\ \A b \in Extent(r.off, r.len) : b \in Nat /\ b + 1 <= EndOf(r)
<1>1. PICK todo : todo = call[a].todo
    OBVIOUS
<1>2. TodoOK(todo, writes) /\ todo # <<>>
    BY <1>1, OfCall DEF TypeInv
<1>3. r \in Regions /\ r \in Range(todo) /\ r.off + r.len <= Size
      /\ Extent(r.off, r.len) \subseteq Bytes
    BY <1>1, <1>2, HeadOK
<1>4. r.file \in Files /\ r.off \in Bytes /\ r.len \in 1 .. Size /\ r.id \in 1 .. MaxWrites
    BY <1>3 DEF Regions
<1>5. EndOf(r) \in 1 .. Size /\ EndOf(r) - 1 \in Extent(r.off, r.len)
      /\ \A b \in Extent(r.off, r.len) : b \in Nat /\ b + 1 <= EndOf(r)
    <2>1. r.off \in Nat /\ r.len \in Nat /\ r.len >= 1 /\ r.off + r.len <= Size /\ Size \in Nat
        <3>1. r.off \in Nat
            BY <1>4, Numbers
        <3>2. Size \in Nat
            BY Numbers
        <3>3. r.len \in Nat /\ r.len >= 1
            BY <1>4, <3>2
        <3> QED BY <1>3, <3>1, <3>2, <3>3
    <2>2. PICK off \in Nat, len \in Nat, size \in Nat : off = r.off /\ len = r.len /\ size = Size
        BY <2>1
    <2>3. len >= 1 /\ off + len <= size
        BY <2>1, <2>2
    <2>4. off + len \in 1 .. size /\ off + len - 1 \in Extent(off, len)
          /\ \A b \in Extent(off, len) : b \in Nat /\ b + 1 <= off + len
        BY <2>3, ExtentEnd
    <2>5. PICK e \in Nat : e = off + len
        OBVIOUS
    <2>6. PICK ext : ext = Extent(off, len)
        OBVIOUS
    <2>7. e \in 1 .. size /\ e - 1 \in ext /\ \A b \in ext : b \in Nat /\ b + 1 <= e
        BY <2>4, <2>5, <2>6
    <2>8. EndOf(r) = e /\ Extent(r.off, r.len) = ext
        BY <2>2, <2>5, <2>6 DEF EndOf
    <2> QED BY <2>2, <2>7, <2>8, Zenon
<1> QED BY <1>1, <1>3, <1>4, <1>5

\* A step about one file leaves the others.
LEMMA OtherFile ==
    ASSUME NEW a \in Actors, NEW d, Goes(a, d), NEW file \in Files, SizeOK(file),
           ~Busy(a, file), ~(d.step \in {"track", "resize"} /\ Head(d.todo).file = file),
           store'[file] = store[file], meta'[file] = meta[file]
    PROVE  SizeOK(file)'
<1>1. Unmoved(file)
    BY DEF Unmoved, Busy, Goes
<1> QED BY <1>1, UnmovedSize

LEMMA PutsOutSize ==
    ASSUME TypeInv, SizeInv, NEW a \in Actors, PutsOut(a)
    PROVE  SizeInv'
<1>1. PICK c : c = call[a]
    OBVIOUS
<1>2. PICK r : r = Head(c.todo)
    OBVIOUS
<1>3. PICK d : Goes(a, d) /\ Publishes(c, d)
    BY <1>1 DEF PutsOut
<1>4. c.step = "publish" /\ c.todo # <<>> /\ meta' = meta /\ loose' = loose
    BY <1>1 DEF PutsOut
<1>5. /\ r \in Range(c.todo) /\ r.file \in Files
      /\ Extent(r.off, r.len) \subseteq Bytes /\ r.id \in 1 .. MaxWrites
      /\ EndOf(r) \in 1 .. Size
      /\ \A b \in Extent(r.off, r.len) : b \in Nat /\ b + 1 <= EndOf(r)
    BY <1>1, <1>2, <1>4, BusyRegion
<1>6. store \in [Files -> [Bytes -> 0 .. MaxWrites]] /\ meta \in [Files -> [exists : BOOLEAN, size : 0 .. Size]]
    BY DEF TypeInv, DataInv
<1>7. torn \subseteq torn' /\ (Lands(r) \/ store' = store)
    BY <1>2, <1>3 DEF Publishes
<1>8. \A f \in Files \ {r.file} : store'[f] = store[f]
    BY <1>6, <1>7 DEF Lands
<1> SUFFICES ASSUME NEW file \in Files, file \notin torn', file \notin loose'
             PROVE  SizeOK(file)'
    BY DEF SizeInv
<1>9. SizeOK(file)
    BY <1>4, <1>7 DEF SizeInv
<1>10. \/ Tracks(d, c)
       \/ d.step = "publish"
    BY <1>3 DEF Publishes, GivesUp
<1>11. CASE file # r.file
    <2>1. ~(d.step \in {"track", "resize"} /\ Head(d.todo).file = file)
        BY <1>2, <1>10, <1>11 DEF Tracks
    <2>2. ~Busy(a, file)
        BY <1>1, <1>4 DEF Busy
    <2> QED BY <1>3, <1>4, <1>8, <1>9, <1>11, <2>1, <2>2, OtherFile
<1>12. CASE file = r.file
    <2>1. torn' = torn /\ Lands(r) /\ Tracks(d, c)
        <3>1. torn' # torn \cup {x.file : x \in Range(c.todo)}
            BY <1>5, <1>12
        <3> QED BY <1>2, <1>3, <3>1 DEF Publishes
    <2>2. \A b \in Bytes : store'[file][b] = IF b \in Extent(r.off, r.len) THEN r.id ELSE store[file][b]
        <3>1. store'[file] = Overlay(store[file], r)
            BY <1>6, <1>12, <2>1 DEF Lands
        <3> QED BY <3>1 DEF Overlay
    <2>3. \A b \in Bytes : store[file][b] # 0 => store'[file][b] # 0
        BY <1>5, <2>2
    <2>4. call'[a] = d /\ \A u \in Actors \ {a} : call'[u] = call[u]
        BY <1>3 DEF Goes
    <2>5. d.step = "track" /\ Head(d.todo) = r
        BY <1>2, <2>1 DEF Tracks
    <2>6. \A u \in Actors : u # a /\ Busy(u, file)' => Busy(u, file) /\ call'[u] = call[u]
        BY <2>4 DEF Busy
    <2>7. \A u \in Actors : Busy(u, file) => Busy(u, file)' /\ call'[u] = call[u]
        <3>1. ~Busy(a, file)
            BY <1>1, <1>4 DEF Busy
        <3> QED BY <2>4, <3>1 DEF Busy
    <2>8. \A u \in Actors : Resizing(u, file)' => Resizing(u, file) /\ call'[u] = call[u]
        BY <2>4, <2>5 DEF Resizing
    <2>9. ASSUME NEW b \in Bytes, store'[file][b] # 0
          PROVE  \/ b + 1 <= meta'[file].size
                 \/ \E u \in Actors : Busy(u, file)' /\ b + 1 <= EndOf(Head(call'[u].todo))
        <3>1. CASE b \in Extent(r.off, r.len)
            <4>1. Busy(a, file)' /\ b + 1 <= EndOf(Head(call'[a].todo))
                BY <1>5, <1>12, <2>4, <2>5, <3>1 DEF Busy
            <4> QED BY <4>1
        <3>2. CASE b \notin Extent(r.off, r.len)
            <4>1. store[file][b] # 0
                BY <2>2, <2>9, <3>2
            <4>2. \/ b + 1 <= meta[file].size
                  \/ \E u \in Actors : Busy(u, file) /\ b + 1 <= EndOf(Head(call[u].todo))
                BY <1>9, <4>1 DEF SizeOK
            <4>3. ASSUME NEW u \in Actors, Busy(u, file), b + 1 <= EndOf(Head(call[u].todo))
                  PROVE  Busy(u, file)' /\ b + 1 <= EndOf(Head(call'[u].todo))
                <5>1. call'[u] = call[u] /\ Busy(u, file)'
                    BY <2>7, <4>3
                <5> QED BY <4>3, <5>1
            <4> QED BY <1>4, <4>2, <4>3
        <3> QED BY <3>1, <3>2
    <2>10. ASSUME meta'[file].size # 0
           PROVE  meta'[file].exists /\ store'[file][meta'[file].size - 1] # 0
        <3>1. meta[file].size - 1 \in Bytes
            BY <1>4, <1>6, <2>10, Numbers DEF Bytes
        <3> QED BY <1>4, <1>9, <2>3, <2>10, <3>1 DEF SizeOK
    <2>11. ASSUME NEW u \in Actors, Busy(u, file)',
                  NEW b \in Extent(Head(call'[u].todo).off, Head(call'[u].todo).len)
           PROVE  store'[file][b] # 0
        <3>1. CASE u = a
            BY <1>5, <2>2, <2>4, <2>5, <2>11, <3>1
        <3>2. CASE u # a
            <4>1. Busy(u, file) /\ call'[u] = call[u]
                BY <2>6, <2>11, <3>2
            <4>2. store[file][b] # 0
                BY <1>9, <2>11, <4>1 DEF SizeOK
            <4>3. b \in Bytes
                <5>1. call[u].todo # <<>>
                    BY <4>1 DEF Busy, TypeInv, CallsInv, ShapeOK
                <5>2. PICK x : x = Head(call[u].todo)
                    OBVIOUS
                <5>3. Extent(x.off, x.len) \subseteq Bytes
                    BY <5>1, <5>2, BusyRegion
                <5> QED BY <2>11, <4>1, <5>2, <5>3
            <4> QED BY <2>3, <4>2, <4>3
        <3> QED BY <3>1, <3>2
    <2>12. ASSUME NEW u \in Actors, Resizing(u, file)'
           PROVE  /\ call'[u].cur = meta'[file].size /\ meta'[file].exists
                  /\ \A v \in Actors : Resizing(v, file)' => v = u
        <3>1. Resizing(u, file) /\ call'[u] = call[u]
            BY <2>8, <2>12
        <3>2. /\ call[u].cur = meta[file].size /\ meta[file].exists
              /\ \A v \in Actors : Resizing(v, file) => v = u
            BY <1>9, <3>1 DEF SizeOK
        <3> QED BY <1>4, <2>8, <3>1, <3>2
    <2> QED BY <2>9, <2>10, <2>11, <2>12 DEF SizeOK
<1> QED BY <1>11, <1>12

LEMMA ReadsSizeSize ==
    ASSUME TypeInv, SizeInv, NEW a \in Actors, ReadsSize(a)
    PROVE  SizeInv'
<1>1. PICK c : c = call[a]
    OBVIOUS
<1>2. PICK r : r = Head(c.todo)
    OBVIOUS
<1>3. /\ store' = store /\ torn' = torn /\ c.step = "track" /\ c.todo # <<>>
      /\ meta' = [meta EXCEPT ![r.file].exists = TRUE]
      /\ loose' = IF Tracking(r.file) THEN loose \cup {r.file} ELSE loose
    BY <1>1, <1>2 DEF ReadsSize
<1>4. PICK d : Goes(a, d) /\ d.step = "resize" /\ d.todo = c.todo /\ d.cur = meta[r.file].size
    BY <1>1, <1>2 DEF ReadsSize
<1>5. r.file \in Files /\ meta \in [Files -> [exists : BOOLEAN, size : 0 .. Size]]
    BY <1>1, <1>2, <1>3, BusyRegion DEF TypeInv, DataInv
<1> SUFFICES ASSUME NEW file \in Files, file \notin torn', file \notin loose'
             PROVE  SizeOK(file)'
    BY DEF SizeInv
<1>6. SizeOK(file)
    BY <1>3 DEF SizeInv
<1>7. CASE file # r.file
    <2>1. ~(d.step \in {"track", "resize"} /\ Head(d.todo).file = file) /\ ~Busy(a, file)
        BY <1>1, <1>2, <1>4, <1>7 DEF Busy
    <2>2. meta'[file] = meta[file] /\ store'[file] = store[file]
        BY <1>3, <1>5, <1>7
    <2> QED BY <1>4, <1>6, <2>1, <2>2, OtherFile
<1>8. CASE file = r.file
    <2>1. \A u \in Actors : ~Resizing(u, file)
        BY <1>3, <1>8 DEF Tracking, Resizing
    <2>2. meta'[file].size = meta[file].size /\ meta'[file].exists
        BY <1>3, <1>5, <1>8
    <2>3. call'[a] = d /\ \A u \in Actors \ {a} : call'[u] = call[u]
        BY <1>4 DEF Goes
    <2>4. \A u \in Actors : Busy(u, file)' <=> Busy(u, file)
        BY <1>1, <1>3, <1>4, <2>3 DEF Busy
    <2>5. \A u \in Actors : call'[u].todo = call[u].todo
        BY <1>1, <1>4, <2>3
    <2>6. ASSUME NEW b \in Bytes, store'[file][b] # 0
          PROVE  \/ b + 1 <= meta'[file].size
                 \/ \E u \in Actors : Busy(u, file)' /\ b + 1 <= EndOf(Head(call'[u].todo))
        <3>1. \/ b + 1 <= meta[file].size
              \/ \E u \in Actors : Busy(u, file) /\ b + 1 <= EndOf(Head(call[u].todo))
            BY <1>3, <1>6, <2>6 DEF SizeOK
        <3> QED BY <2>2, <2>4, <2>5, <3>1
    <2>7. meta'[file].size # 0 => meta'[file].exists /\ store'[file][meta'[file].size - 1] # 0
        BY <1>3, <1>6, <2>2 DEF SizeOK
    <2>8. ASSUME NEW u \in Actors, Busy(u, file)',
                 NEW b \in Extent(Head(call'[u].todo).off, Head(call'[u].todo).len)
          PROVE  store'[file][b] # 0
        <3>1. b \in Extent(Head(call[u].todo).off, Head(call[u].todo).len)
            BY <2>5, <2>8
        <3> QED BY <1>3, <1>6, <2>4, <2>8, <3>1 DEF SizeOK
    <2>9. \A u \in Actors : Resizing(u, file)' => u = a
        BY <2>1, <2>3 DEF Resizing
    <2>10. call'[a].cur = meta'[file].size
        BY <1>4, <1>8, <2>2, <2>3
    <2> QED BY <2>2, <2>6, <2>7, <2>8, <2>9, <2>10 DEF SizeOK
<1> QED BY <1>7, <1>8

LEMMA WritesSizeSize ==
    ASSUME TypeInv, SizeInv, NEW a \in Actors, WritesSize(a)
    PROVE  SizeInv'
<1>1. PICK c : c = call[a]
    OBVIOUS
<1>2. PICK r : r = Head(c.todo)
    OBVIOUS
<1>3. /\ store' = store /\ torn' = torn /\ loose' = loose /\ c.step = "resize" /\ c.todo # <<>>
      /\ meta' = IF EndOf(r) > c.cur THEN [meta EXCEPT ![r.file].size = EndOf(r)] ELSE meta
      /\ Goes(a, Advance(c))
    BY <1>1, <1>2 DEF WritesSize
<1>4. PICK d : d = Advance(c)
    OBVIOUS
<1>5. d.step = "publish" /\ Goes(a, d)
    <2>1. CallOK(c, writes) /\ ShapeOK(c)
        BY <1>1, OfCall DEF TypeInv
    <2> QED BY <1>3, <1>4, <2>1, AdvanceOK
<1>6. /\ r.file \in Files /\ EndOf(r) \in 1 .. Size /\ EndOf(r) - 1 \in Extent(r.off, r.len)
    BY <1>1, <1>2, <1>3, BusyRegion
<1>7. meta \in [Files -> [exists : BOOLEAN, size : 0 .. Size]]
    BY DEF TypeInv, DataInv
<1> SUFFICES ASSUME NEW file \in Files, file \notin torn', file \notin loose'
             PROVE  SizeOK(file)'
    BY DEF SizeInv
<1>8. SizeOK(file)
    BY <1>3 DEF SizeInv
<1>9. CASE file # r.file
    <2>1. ~(d.step \in {"track", "resize"} /\ Head(d.todo).file = file) /\ ~Busy(a, file)
        BY <1>1, <1>2, <1>5, <1>9 DEF Busy
    <2>2. meta'[file] = meta[file] /\ store'[file] = store[file]
        BY <1>3, <1>6, <1>7, <1>9
    <2> QED BY <1>5, <1>8, <2>1, <2>2, OtherFile
<1>10. CASE file = r.file
    <2>1. Resizing(a, file) /\ Busy(a, file)
        BY <1>1, <1>2, <1>3, <1>10 DEF Resizing, Busy
    <2>2. /\ c.cur = meta[file].size /\ meta[file].exists
          /\ \A u \in Actors : Resizing(u, file) => u = a
        BY <1>1, <1>8, <2>1 DEF SizeOK
    <2>3. PICK old \in 0 .. Size : old = meta[file].size
        BY <1>7
    <2>4. PICK end \in 1 .. Size : end = EndOf(r)
        BY <1>6
    <2>5. meta'[file].exists /\ meta'[file].size = IF end > old THEN end ELSE old
        BY <1>3, <1>7, <1>10, <2>2, <2>3, <2>4
    <2>6. call'[a] = d /\ \A u \in Actors \ {a} : call'[u] = call[u]
        BY <1>5 DEF Goes
    <2>7. \A u \in Actors : Busy(u, file)' => Busy(u, file) /\ call'[u] = call[u]
        BY <1>5, <2>6 DEF Busy
    <2>8. \A u \in Actors \ {a} : Busy(u, file) => Busy(u, file)' /\ call'[u] = call[u]
        BY <2>6 DEF Busy
    <2>9. \A u \in Actors : ~Resizing(u, file)'
        <3> SUFFICES ASSUME NEW u \in Actors, Resizing(u, file)' PROVE FALSE
            OBVIOUS
        <3>1. u # a
            BY <1>5, <2>6 DEF Resizing
        <3>2. Resizing(u, file)
            BY <2>6, <3>1 DEF Resizing
        <3> QED BY <2>2, <3>1, <3>2
    <2>10. ASSUME NEW b \in Bytes, store'[file][b] # 0
           PROVE  \/ b + 1 <= meta'[file].size
                  \/ \E u \in Actors : Busy(u, file)' /\ b + 1 <= EndOf(Head(call'[u].todo))
        <3>0. b \in Nat
            BY Numbers
        <3>1. \/ b + 1 <= meta[file].size
              \/ \E u \in Actors : Busy(u, file) /\ b + 1 <= EndOf(Head(call[u].todo))
            BY <1>3, <1>8, <2>10 DEF SizeOK
        <3>2. CASE b + 1 <= meta[file].size
            BY <2>3, <2>4, <2>5, <3>0, <3>2
        <3>3. CASE b + 1 <= EndOf(Head(call[a].todo))
            <4>1. b + 1 <= end
                BY <1>1, <1>2, <2>4, <3>3
            <4> QED BY <2>3, <2>4, <2>5, <3>0, <4>1
        <3>4. ASSUME NEW u \in Actors, u # a, Busy(u, file), b + 1 <= EndOf(Head(call[u].todo))
              PROVE  Busy(u, file)' /\ b + 1 <= EndOf(Head(call'[u].todo))
            <4>1. Busy(u, file)' /\ call'[u] = call[u]
                BY <2>8, <3>4
            <4> QED BY <3>4, <4>1
        <3> QED BY <3>1, <3>2, <3>3, <3>4
    <2>11. ASSUME meta'[file].size # 0
           PROVE  meta'[file].exists /\ store'[file][meta'[file].size - 1] # 0
        <3>1. CASE end > old
            <4>1. store[file][EndOf(r) - 1] # 0
                BY <1>1, <1>2, <1>6, <1>8, <2>1 DEF SizeOK
            <4> QED BY <1>3, <2>4, <2>5, <3>1, <4>1
        <3>2. CASE ~(end > old)
            <4>1. meta'[file].size = meta[file].size
                BY <2>3, <2>5, <3>2
            <4> QED BY <1>3, <1>8, <2>5, <2>11, <4>1 DEF SizeOK
        <3> QED BY <3>1, <3>2
    <2>12. ASSUME NEW u \in Actors, Busy(u, file)',
                  NEW b \in Extent(Head(call'[u].todo).off, Head(call'[u].todo).len)
           PROVE  store'[file][b] # 0
        <3>1. Busy(u, file) /\ call'[u] = call[u]
            BY <2>7, <2>12
        <3> QED BY <1>3, <1>8, <2>12, <3>1 DEF SizeOK
    <2> QED BY <2>9, <2>10, <2>11, <2>12 DEF SizeOK
<1> QED BY <1>9, <1>10

LEMMA LeavesSize ==
    ASSUME TypeInv, PathInv, SizeInv, NEW t \in Threads, Leaves(t)
    PROVE  SizeInv'
<1>1. /\ meta' = meta /\ store' = store /\ loose' = loose
      /\ call[t].op = "exit" /\ call[t].todo = <<>>
      /\ torn' = torn \cup {r.file : r \in Range(call[Timer].todo)}
      /\ \A a \in Actors : call'[a] = IdleCall
    BY DEF Leaves
<1> SUFFICES ASSUME NEW file \in Files, file \notin torn', file \notin loose'
             PROVE  SizeOK(file)'
    BY DEF SizeInv
<1>2. SizeOK(file)
    BY <1>1 DEF SizeInv
<1>3. ASSUME NEW a \in Actors, Busy(a, file) PROVE FALSE
    <2>1. call[a].todo # <<>> /\ call[a].step \in {"track", "resize"}
        BY <1>3 DEF Busy, TypeInv, CallsInv, ShapeOK
    <2>2. CASE a = Timer
        <3>1. PICK r : r = Head(call[a].todo)
            OBVIOUS
        <3>2. r \in Range(call[Timer].todo) /\ r.file = file
            BY <1>3, <2>1, <2>2, <3>1, BusyRegion DEF Busy
        <3> QED BY <1>1, <3>2
    <2>3. CASE a # Timer
        <3>1. a \in Threads \ {t}
            BY <1>1, <2>1, <2>3 DEF Actors
        <3>2. call[a].op = "idle"
            BY <1>1, <3>1 DEF PathInv, ExitOK
        <3> QED BY <2>1, <3>2, IdleStep
    <2> QED BY <2>2, <2>3
<1>4. \A a \in Actors : ~Busy(a, file)'
    BY <1>1, IdleFields DEF Busy
<1>5. Unmoved(file)
    BY <1>1, <1>3, <1>4 DEF Unmoved
<1> QED BY <1>2, <1>5, UnmovedSize

LEMMA SizeStays ==
    ASSUME TypeInv, PathInv, SizeInv, Does PROVE SizeInv'
BY DoesSize, SizeFrame, PutsOutSize, ReadsSizeSize, WritesSizeSize, LeavesSize

LEMMA InitSize == ASSUME Init PROVE SizeInv
<1> SUFFICES ASSUME NEW file \in Files PROVE SizeOK(file)
    BY DEF SizeInv
<1>1. \A a \in Actors : ~Busy(a, file) /\ ~Resizing(a, file)
    BY IdleFields DEF Init, PosixInit, Busy, Resizing
<1>2. meta[file].size = 0 /\ \A b \in Bytes : store[file][b] = 0
    BY DEF Init, PosixInit
<1> QED BY <1>1, <1>2 DEF SizeOK

LEMMA SizeOf == ASSUME TypeInv, SizeInv PROVE SizeTracksStore
<1> SUFFICES ASSUME NEW file \in Files \ (torn \cup loose), \A a \in Actors : ~Busy(a, file),
                    NEW ends, ends = {b + 1 : b \in {x \in Bytes : store[file][x] # 0}}
             PROVE  populate_stat(file) \in IF ends = {} THEN {-1, 0} ELSE {Max(ends)}
    BY DEF SizeTracksStore, Busy
<1>1. SizeOK(file)
    BY DEF SizeInv
<1>2. PICK size \in 0 .. Size : size = meta[file].size
    BY DEF TypeInv, DataInv
<1>3. \A e \in ends : e \in 1 .. Size /\ e <= size
    <2> SUFFICES ASSUME NEW b \in Bytes, store[file][b] # 0
                 PROVE  b + 1 \in 1 .. Size /\ b + 1 <= size
        OBVIOUS
    <2> QED BY <1>1, <1>2, Numbers DEF SizeOK, Bytes
<1>4. size # 0 => size \in ends /\ meta[file].exists
    <2> SUFFICES ASSUME size # 0 PROVE size \in ends /\ meta[file].exists
        OBVIOUS
    <2>1. meta[file].exists /\ store[file][size - 1] # 0
        BY <1>1, <1>2 DEF SizeOK
    <2>2. size - 1 \in Bytes /\ (size - 1) + 1 = size
        BY Numbers DEF Bytes
    <2> QED BY <2>1, <2>2
<1>5. populate_stat(file) = IF meta[file].exists THEN size ELSE -1
    BY <1>2 DEF populate_stat, get_file_info
<1>6. CASE ends = {}
    <2>1. size = 0
        BY <1>4, <1>6
    <2> QED BY <1>5, <1>6, <2>1
<1>7. CASE ends # {}
    <2>1. PICK n \in Nat : n = Size
        BY Numbers
    <2>2. ends \subseteq 0 .. n
        BY <1>3, <2>1
    <2>3. Max(ends) \in ends /\ \A y \in ends : Max(ends) >= y
        BY <1>7, <2>2, GreatestOf
    <2>4. size # 0
        BY <1>3, <1>7
    <2>5. Max(ends) = size
        <3>1. PICK m : m = Max(ends)
            OBVIOUS
        <3>2. m \in ends /\ m >= size
            BY <1>4, <2>3, <2>4, <3>1
        <3>3. m \in 1 .. Size /\ m <= size
            BY <1>3, <3>2
        <3> QED BY <2>1, <3>1, <3>2, <3>3
    <2> QED BY <1>4, <1>5, <1>7, <2>4, <2>5
<1> QED BY <1>6, <1>7

\* The size in the catalog is the end of what is stored, for every file that
\* no failed label, truncation, rename or concurrent tracking has touched:
\* track_write reads the size and writes it in two commands, and still never
\* loses a write that is alone between them.
THEOREM SizeCorrect == Spec => []SizeTracksStore
<1> DEFINE IInv == TypeInv /\ PathInv /\ SizeInv
<1>1. Init => IInv
    BY InitType, InitPath, InitSize
<1>2. IInv /\ [Next]_vars => IInv'
    <2> SUFFICES ASSUME IInv, [Next]_vars PROVE IInv'
        OBVIOUS
    <2>1. TypeInv' /\ Does
        BY StepDoes
    <2>2. PathInv'
        BY <2>1, DoesPath, PathFrame
    <2> QED BY <2>1, <2>2, SizeStays
<1>3. IInv => SizeTracksStore
    BY SizeOf
<1> QED BY <1>1, <1>2, <1>3, PTL DEF Spec

-----------------------------------------------------------------------------
(* Nothing written vanishes *)

InHand(r) ==
    \/ \E fd \in Fds : r \in Held(caches[fd])
    \/ \E a \in Actors : r \in Range(call[a].todo)

\* Nobody waits for a byte of this region.
Paid(r) == \A p \in owed : p[1] \notin torn => ~Holds(r, p[1], p[2])

Settles(a) ==
    call'[a].step \in {"track", "resize"} =>
      \/ call[a].step \in {"track", "resize"} /\ Head(call'[a].todo) = Head(call[a].todo)
      \/ \E r : r = Head(call'[a].todo) /\ Paid(r)'

\* A region leaves the hands of all only if that costs nothing.
Stands(r) == InHand(r) => InHand(r)' \/ r.file \in torn' \/ Paid(r)

OwedStep ==
    /\ owed' \subseteq owed /\ latest' = latest /\ torn \subseteq torn'
    /\ \A a \in Actors : Settles(a)
    /\ \A r : Stands(r)

LEMMA KeptInHand == ASSUME NEW p PROVE Kept(p) <=> \E r : InHand(r) /\ Holds(r, p[1], p[2])
BY DEF Kept, InHand

LEMMA KeptInHandNext ==
    ASSUME NEW p, NEW r, InHand(r)', Holds(r, p[1], p[2])' PROVE Kept(p)'
BY DEF Kept, InHand

LEMMA OwedFrame ==
    ASSUME OwedInv, OwedStep
    PROVE  OwedInv'
<1>1. \A r, f, b : Holds(r, f, b)' <=> Holds(r, f, b)
    BY DEF Holds, OwedStep
<1>2. ASSUME NEW p \in owed', p[1] \notin torn' PROVE Kept(p)'
    <2>1. p \in owed /\ p[1] \notin torn
        BY <1>2 DEF OwedStep
    <2>2. PICK r : InHand(r) /\ Holds(r, p[1], p[2])
        BY <2>1, KeptInHand DEF OwedInv
    <2>3. r.file = p[1]
        BY <2>2 DEF Holds
    <2>4. ~Paid(r)
        BY <2>1, <2>2 DEF Paid
    <2>5. Stands(r)
        BY DEF OwedStep
    <2>6. InHand(r)'
        BY <1>2, <2>2, <2>3, <2>4, <2>5 DEF Stands
    <2> QED BY <1>1, <2>2, <2>6, KeptInHandNext
<1>3. ASSUME NEW a \in Actors PROVE Settled(a)'
    <2> SUFFICES ASSUME call'[a].step \in {"track", "resize"},
                        NEW r, r = Head(call'[a].todo),
                        NEW p \in owed', p[1] \notin torn'
                 PROVE  ~Holds(r, p[1], p[2])'
        BY DEF Settled, Holds
    <2>1. p \in owed /\ p[1] \notin torn
        BY DEF OwedStep
    <2>2. CASE call[a].step \in {"track", "resize"} /\ r = Head(call[a].todo)
        <3>1. ~Holds(r, p[1], p[2])
            BY <2>1, <2>2 DEF OwedInv, Settled
        <3> QED BY <1>1, <3>1
    <2>3. CASE Paid(r)'
        BY <2>3 DEF Paid
    <2> QED BY <2>2, <2>3 DEF OwedStep, Settles
<1> QED BY <1>2, <1>3 DEF OwedInv

LEMMA NoneLeft == Range(<<>>) = {}
BY DEF Range

\* Where a region can be that is no longer in anyone's hands.
LEMMA Dropped ==
    ASSUME NEW a \in Actors, NEW d, Goes(a, d), NEW r, InHand(r), ~InHand(r)'
    PROVE  \/ r \in Range(call[a].todo) /\ r \notin Range(d.todo)
           \/ \E fd \in Fds : r \in Held(caches[fd]) /\ caches'[fd] # caches[fd]
<1>1. CASE \E fd \in Fds : r \in Held(caches[fd])
    BY <1>1 DEF InHand
<1>2. ASSUME NEW u \in Actors, r \in Range(call[u].todo)
      PROVE  r \in Range(call[a].todo) /\ r \notin Range(d.todo)
    <2>1. u = a
        <3>1. u # a => call'[u] = call[u]
            BY DEF Goes
        <3> QED BY <1>2, <3>1 DEF InHand
    <2>2. call'[a] = d
        BY DEF Goes
    <2> QED BY <1>2, <2>1, <2>2 DEF InHand
<1> QED BY <1>1, <1>2 DEF InHand

LEMMA SettleOne ==
    ASSUME NEW a \in Actors, NEW d, Goes(a, d), Settles(a)
    PROVE  \A u \in Actors : Settles(u)
BY DEF Goes, Settles

LEMMA PublishSettles ==
    ASSUME NEW a \in Actors, NEW d, Goes(a, d), d.step \notin {"track", "resize"}
    PROVE  \A u \in Actors : Settles(u)
BY DEF Goes, Settles

LEMMA MetaOwed == ASSUME SetsMeta PROVE OwedStep
<1>1. \A r : Stands(r)
    BY DEF SetsMeta, Stands, InHand
<1>2. \A a \in Actors : Settles(a)
    BY DEF SetsMeta, Settles
<1> QED BY <1>1, <1>2 DEF SetsMeta, OwedStep

LEMMA ReturnsOwed ==
    ASSUME NEW t \in Threads, Returns(t) \/ Opens(t) \/ Closes(t), TypeInv
    PROVE  OwedStep
<1>1. caches' = caches /\ owed' = owed /\ latest' = latest
    BY DEF Returns, Opens, Closes, DataSame
<1>2. torn \subseteq torn'
    BY DEF Returns, Opens, Closes, DataSame, Hands
<1>3. CASE call' = call
    <2>1. \A r : Stands(r)
        BY <1>1, <1>3 DEF Stands, InHand
    <2>2. \A a \in Actors : Settles(a)
        BY <1>3 DEF Settles
    <2> QED BY <1>1, <1>2, <2>1, <2>2 DEF OwedStep
<1>4. CASE \E d : Goes(t, d) /\ d.step \notin {"track", "resize"} /\ call[t].todo = <<>>
    <2>1. PICK d : Goes(t, d) /\ d.step \notin {"track", "resize"} /\ call[t].todo = <<>>
        BY <1>4
    <2>2. \A r : Stands(r)
        <3> SUFFICES ASSUME NEW r, InHand(r), ~InHand(r)' PROVE FALSE
            BY DEF Stands
        <3> QED BY <1>1, <2>1, Dropped, NoneLeft, ThreadIsActor
    <2>3. \A a \in Actors : Settles(a)
        BY <2>1, PublishSettles, ThreadIsActor
    <2> QED BY <1>1, <1>2, <2>2, <2>3 DEF OwedStep
<1>5. Idles(t) => \E d : Goes(t, d) /\ d.step \notin {"track", "resize"} /\ call[t].todo = <<>>
    BY IdleFields DEF Idles
<1>6. Closes(t) => \E d : Goes(t, d) /\ d.step \notin {"track", "resize"} /\ call[t].todo = <<>>
    BY IdleStep, ThreadIsActor DEF Closes
<1> QED BY <1>3, <1>4, <1>5, <1>6 DEF Returns, Opens

LEMMA EmptiesOwed ==
    ASSUME TypeInv, NEW t \in Threads, Empties(t)
    PROVE  OwedStep
<1>1. owed' = owed /\ latest' = latest /\ torn' = torn /\ call[t].todo = <<>>
    BY DEF Empties, RestSame
<1>2. PICK fd, c : fd \in Fds /\ Takes(t, fd, c) /\ Goes(t, c) /\ OtherCaches(fd) /\ c.step = "publish"
    BY DEF Empties
<1>3. Range(c.todo) = Held(caches[fd])
    BY <1>2, CacheRegions DEF Takes, TypeInv
<1>4. \A r : Stands(r)
    <2> SUFFICES ASSUME NEW r, InHand(r), ~InHand(r)' PROVE FALSE
        BY DEF Stands
    <2>1. PICK e \in Fds : r \in Held(caches[e]) /\ caches'[e] # caches[e]
        BY <1>1, <1>2, Dropped, NoneLeft, ThreadIsActor
    <2>2. e = fd
        BY <1>2, <2>1 DEF OtherCaches
    <2>3. r \in Range(call'[t].todo)
        BY <1>2, <1>3, <2>1, <2>2 DEF Goes
    <2> QED BY <2>3, ThreadIsActor DEF InHand
<1>5. \A a \in Actors : Settles(a)
    BY <1>2, PublishSettles, ThreadIsActor
<1> QED BY <1>1, <1>4, <1>5 DEF OwedStep

LEMMA CollectsOwed ==
    ASSUME TypeInv, NEW a \in Actors, Collects(a)
    PROVE  OwedStep
<1>1. owed' = owed /\ latest' = latest /\ torn' = torn /\ call[a].todo = <<>>
    BY IdleStep DEF Collects, RestSame
<1>2. PICK c : TakesAll(a, c)
    BY DEF Collects
<1>3. /\ Goes(a, c) /\ c.step = "publish"
      /\ \A fd \in Fds : Held(caches[fd]) \subseteq Range(c.todo)
    BY <1>2 DEF TakesAll
<1>4. \A r : Stands(r)
    <2> SUFFICES ASSUME NEW r, InHand(r), ~InHand(r)' PROVE FALSE
        BY DEF Stands
    <2>1. PICK e \in Fds : r \in Held(caches[e])
        BY <1>1, <1>3, Dropped, NoneLeft
    <2>2. r \in Range(call'[a].todo)
        BY <1>3, <2>1 DEF Goes
    <2> QED BY <2>2 DEF InHand
<1>5. \A u \in Actors : Settles(u)
    BY <1>3, PublishSettles
<1> QED BY <1>1, <1>4, <1>5 DEF OwedStep

LEMMA HeldFile ==
    ASSUME NEW c, NEW r \in Held(c) PROVE r.file = c.filepath /\ DOMAIN c.regions # {}
BY DEF Held, RegionAt

LEMMA EvictsOwed ==
    ASSUME TypeInv, PathInv, NEW t \in Threads, Evicts(t)
    PROVE  OwedStep
<1>1. /\ owed' = owed /\ latest' = latest /\ torn' = torn
      /\ call[t].op = "close" /\ call[t].step = "publish" /\ call[t].todo = <<>>
    BY DEF Evicts, RestSame
<1>2. PICK fd \in Fds : fd = call[t].fd /\ OtherCaches(fd)
    BY DEF Evicts
<1>3. PICK c : Goes(t, c) /\ c.step \in {"publish", "closed"}
    BY DEF Evicts
<1>4. DOMAIN caches[fd].regions = {} \/ caches[fd].filepath \in torn
    BY <1>1, <1>2 DEF PathInv, CloseOK
<1>5. \A r : Stands(r)
    <2> SUFFICES ASSUME NEW r, InHand(r), ~InHand(r)' PROVE r.file \in torn'
        BY DEF Stands
    <2>1. PICK e \in Fds : r \in Held(caches[e]) /\ caches'[e] # caches[e]
        BY <1>1, <1>3, Dropped, NoneLeft, ThreadIsActor
    <2>2. e = fd
        BY <1>2, <2>1 DEF OtherCaches
    <2> QED BY <1>1, <1>4, <2>1, <2>2, HeldFile
<1>6. \A a \in Actors : Settles(a)
    BY <1>3, PublishSettles, ThreadIsActor
<1> QED BY <1>1, <1>5, <1>6 DEF OwedStep

LEMMA LeavesOwed ==
    ASSUME TypeInv, PathInv, NEW t \in Threads, Leaves(t)
    PROVE  OwedStep
<1>1. /\ owed' = owed /\ latest' = latest
      /\ call[t].op = "exit" /\ call[t].todo = <<>>
      /\ torn' = torn \cup {r.file : r \in Range(call[Timer].todo)}
      /\ \A a \in Actors : call'[a] = IdleCall
    BY DEF Leaves
<1>2. /\ \A u \in Threads \ {t} : call[u].op = "idle"
      /\ \A fd \in Fds : DOMAIN caches[fd].regions = {}
    BY <1>1 DEF PathInv, ExitOK
<1>3. \A r : Stands(r)
    <2> SUFFICES ASSUME NEW r, InHand(r) PROVE r.file \in torn'
        BY DEF Stands
    <2>1. \A fd \in Fds : r \notin Held(caches[fd])
        BY <1>2, HeldFile
    <2>2. PICK a \in Actors : r \in Range(call[a].todo)
        BY <2>1 DEF InHand
    <2>3. a = Timer
        <3> SUFFICES ASSUME a # Timer PROVE FALSE
            OBVIOUS
        <3>1. a \in Threads
            BY DEF Actors
        <3>2. call[a].todo = <<>>
            BY <1>1, <1>2, <3>1, IdleStep
        <3> QED BY <2>2, <3>2, NoneLeft
    <2> QED BY <1>1, <2>2, <2>3
<1>4. \A a \in Actors : Settles(a)
    BY <1>1, IdleFields DEF Settles
<1> QED BY <1>1, <1>3, <1>4 DEF OwedStep

LEMMA ReadsSizeOwed ==
    ASSUME NEW a \in Actors, ReadsSize(a)
    PROVE  OwedStep
<1>1. owed' = owed /\ latest' = latest /\ torn' = torn /\ caches' = caches /\ call[a].step = "track"
    BY DEF ReadsSize
<1>2. PICK d : Goes(a, d) /\ d.todo = call[a].todo
    BY DEF ReadsSize
<1>3. \A r : Stands(r)
    <2> SUFFICES ASSUME NEW r, InHand(r), ~InHand(r)' PROVE FALSE
        BY DEF Stands
    <2> QED BY <1>1, <1>2, Dropped
<1>4. Settles(a)
    BY <1>1, <1>2 DEF Settles, Goes
<1> QED BY <1>1, <1>2, <1>3, <1>4, SettleOne DEF OwedStep

LEMMA WritesSizeOwed ==
    ASSUME TypeInv, OwedInv, NEW a \in Actors, WritesSize(a)
    PROVE  OwedStep
<1>1. PICK c : c = call[a]
    OBVIOUS
<1>2. /\ owed' = owed /\ latest' = latest /\ torn' = torn /\ caches' = caches
      /\ c.step = "resize" /\ c.todo # <<>> /\ Goes(a, Advance(c))
    BY <1>1 DEF WritesSize
<1>3. PICK d : d = Advance(c)
    OBVIOUS
<1>4. d.step = "publish" /\ \A r \in Range(c.todo) : r = Head(c.todo) \/ r \in Range(d.todo)
    <2>1. CallOK(c, writes) /\ ShapeOK(c)
        BY <1>1, OfCall DEF TypeInv
    <2> QED BY <1>2, <1>3, <2>1, AdvanceOK
<1>5. \A r : Stands(r)
    <2> SUFFICES ASSUME NEW r, InHand(r), ~InHand(r)' PROVE Paid(r)
        BY DEF Stands
    <2>1. r \in Range(c.todo) /\ r \notin Range(d.todo)
        BY <1>1, <1>2, <1>3, Dropped
    <2>2. r = Head(c.todo)
        BY <1>4, <2>1
    <2> QED BY <1>1, <1>2, <2>2 DEF OwedInv, Settled, Paid
<1>6. \A u \in Actors : Settles(u)
    BY <1>2, <1>3, <1>4, PublishSettles
<1> QED BY <1>2, <1>5, <1>6 DEF OwedStep

LEMMA PutsOutOwed ==
    ASSUME TypeInv, NEW a \in Actors, PutsOut(a)
    PROVE  OwedStep
<1>1. PICK c : c = call[a]
    OBVIOUS
<1>2. PICK d : Goes(a, d) /\ Publishes(c, d)
    BY <1>1 DEF PutsOut
<1>3. latest' = latest /\ caches' = caches /\ c.todo # <<>>
    BY <1>1 DEF PutsOut
<1>4. PICK h : h = Head(c.todo)
    OBVIOUS
<1>5. h \in Range(c.todo)
    BY <1>1, <1>3, <1>4, BusyRegion
<1>6. owed' \subseteq owed /\ torn \subseteq torn'
    BY <1>2 DEF Publishes, Lands
<1>7. \A r : Stands(r)
    <2> SUFFICES ASSUME NEW r, InHand(r), ~InHand(r)' PROVE r.file \in torn'
        BY DEF Stands
    <2>1. r \in Range(c.todo) /\ r \notin Range(d.todo)
        BY <1>1, <1>2, <1>3, Dropped
    <2>2. ~Tracks(d, c)
        BY <2>1 DEF Tracks
    <2> QED BY <1>2, <2>1, <2>2 DEF Publishes
<1>8. Settles(a)
    <2> SUFFICES ASSUME d.step \in {"track", "resize"}
                 PROVE  Head(d.todo) = h /\ Paid(h)'
        BY <1>2 DEF Settles, Goes
    <2>1. Tracks(d, c)
        BY <1>2 DEF Publishes, GivesUp
    <2>2. Head(d.todo) = h
        BY <1>4, <2>1 DEF Tracks
    <2>3. ASSUME NEW p \in owed', p[1] \notin torn', Holds(h, p[1], p[2])' PROVE FALSE
        <3>1. h.file = p[1] /\ p[2] \in Extent(h.off, h.len) /\ h.id = latest[p[1]][p[2]]
            BY <1>3, <2>3 DEF Holds
        <3>2. CASE torn' = torn \cup {x.file : x \in Range(c.todo)}
            BY <1>5, <2>3, <3>1, <3>2
        <3>3. CASE Lands(h)
            BY <2>3, <3>1, <3>3 DEF Lands
        <3> QED BY <1>2, <1>4, <3>2, <3>3 DEF Publishes
    <2> QED BY <2>2, <2>3 DEF Paid
<1> QED BY <1>2, <1>3, <1>6, <1>7, <1>8, SettleOne DEF OwedStep

\* The last write of every byte, after one more write.
Covers(p, file, off, len) == p[1] = file /\ p[2] \in Extent(off, len)

LEMMA LatestAfter ==
    ASSUME TypeInv, NEW t, NEW fd, NEW off, NEW len, NEW file \in Files, NEW n,
           Writes(t, fd, off, len, file, n), NEW p \in Files \X Bytes
    PROVE  latest'[p[1]][p[2]] = IF Covers(p, file, off, len) THEN n ELSE latest[p[1]][p[2]]
<1>1. PICK f, b : f = p[1] /\ b = p[2] /\ f \in Files /\ b \in Bytes
    OBVIOUS
<1>2. PICK put : put = [off |-> off, len |-> len, id |-> n]
    OBVIOUS
<1>3. latest' = [latest EXCEPT ![file] = Overlay(@, put)]
    BY <1>2 DEF Writes
<1>4. latest \in [Files -> [Bytes -> 0 .. MaxWrites]]
    BY DEF TypeInv, DataInv
<1>5. latest'[f] = IF f = file THEN Overlay(latest[file], put) ELSE latest[f]
    BY <1>1, <1>3, <1>4
<1>6. Overlay(latest[file], put)[b] = IF b \in Extent(off, len) THEN n ELSE latest[file][b]
    BY <1>1, <1>2 DEF Overlay
<1>7. latest'[f][b] = IF f = file /\ b \in Extent(off, len) THEN n ELSE latest[f][b]
    BY <1>5, <1>6
<1> QED BY <1>1, <1>7 DEF Covers

\* No region in hand is of a write still to come.
LEMMA OldRegion ==
    ASSUME TypeInv, NEW r, InHand(r), NEW n, n = writes + 1
    PROVE  r.id # n
<1>1. PICK w \in Nat : w = writes
    BY DEF TypeInv, DataInv
<1>2. r.id \in Nat /\ r.id <= w
    <2>1. ASSUME NEW todo, TodoOK(todo, writes), r \in Range(todo)
          PROVE  r.id \in Nat /\ r.id <= w
        <3>1. r \in Regions
            BY <2>1 DEF TodoOK, Range
        <3> QED BY <1>1, <2>1, <3>1 DEF TodoOK, Fits, Regions
    <2>2. CASE \E fd \in Fds : r \in Held(caches[fd])
        BY <2>1, <2>2, CacheRegions DEF TypeInv
    <2>3. CASE \E a \in Actors : r \in Range(call[a].todo)
        BY <2>1, <2>3, OfCall DEF TypeInv
    <2> QED BY <2>2, <2>3 DEF InHand
<1>3. w + 1 \in Nat /\ ~(w + 1 <= w)
    OBVIOUS
<1> QED BY <1>1, <1>2, <1>3

\* A cache keeps what it holds, but for a region at the offset of the write,
\* and that one had the length of the write.
LEMMA StoredHolds ==
    ASSUME OneLength, NEW w, NEW c, HoldsOK(c, w), NEW s, NEW file, NEW off, NEW len, NEW n,
           <<off, len>> \in Extents, len < LabelMinSize,
           Stores(s, c, file, off, len, n), NEW r \in Held(c)
    PROVE  r \in Held(s) \/ (r.off = off /\ r.len = len)
<1>1. PICK o \in DOMAIN c.regions : r = RegionAt(c, o)
    BY DEF Held
<1>2. s.filepath = c.filepath /\ o \in DOMAIN s.regions
    BY <1>1 DEF Stores, HoldsOK
<1>3. CASE o # off
    <2>1. s.regions[o] = c.regions[o]
        BY <1>1, <1>3 DEF Stores
    <2>2. RegionAt(s, o) = r
        BY <1>1, <1>2, <2>1 DEF RegionAt
    <2> QED BY <1>2, <2>2 DEF Held
<1>4. CASE o = off
    <2>1. PICK l : l = c.regions[o].len
        OBVIOUS
    <2>2. <<off, l>> \in Extents /\ l < LabelMinSize
        BY <1>1, <1>4, <2>1 DEF HoldsOK, CachedOK
    <2>3. l = len
        BY <2>2 DEF OneLength
    <2>4. r.off = o /\ r.len = l
        BY <1>1, <2>1 DEF RegionAt
    <2> QED BY <1>4, <2>3, <2>4
<1> QED BY <1>3, <1>4

LEMMA StoredNew ==
    ASSUME NEW s, NEW c, NEW file, NEW off, NEW len, NEW n, Stores(s, c, file, off, len, n),
           NEW r, r = RegionAt(s, off)
    PROVE  /\ r \in Held(s) /\ r.off = off /\ r.len = len /\ r.id = n
           /\ r.file = s.filepath
<1>1. off \in DOMAIN s.regions /\ s.regions[off] = [len |-> len, id |-> n]
    BY DEF Stores
<1>2. s.regions[off].len = len /\ s.regions[off].id = n
    BY <1>1
<1>3. r.off = off /\ r.len = s.regions[off].len /\ r.id = s.regions[off].id /\ r.file = s.filepath
    BY DEF RegionAt
<1> QED BY <1>1, <1>2, <1>3 DEF Held

\* Where the regions go when one is staged.
LEMMA StagesHands ==
    ASSUME OneLength, TypeInv, TypeInv', PathInv, NEW t \in Threads, NEW fd \in Fds,
           NEW x \in Extents, NEW file \in Files, NEW n \in Nat,
           Writes(t, fd, x[1], x[2], file, n),
           \/ LargeWrite(t, fd, x[1], x[2], file, n)
           \/ SmallWrite(t, fd, x[1], x[2], file, n),
           NEW d, Goes(t, d)
    PROVE  /\ \A r : InHand(r) => \/ InHand(r)' \/ r.file \in torn
                                  \/ r.file = file /\ r.off = x[1] /\ r.len = x[2]
           /\ \E r : /\ InHand(r)' /\ r.off = x[1] /\ r.len = x[2] /\ r.id = n
                     /\ r.file = file \/ file \in torn
<1>1. call[t].todo = <<>> /\ t \in Actors
    BY IdleStep, ThreadIsActor DEF Writes
<1>2. CASE LargeWrite(t, fd, x[1], x[2], file, n)
    <2>1. PICK r : r = [file |-> file, off |-> x[1], len |-> x[2], id |-> n]
        OBVIOUS
    <2>2. r.file = file /\ r.off = x[1] /\ r.len = x[2] /\ r.id = n
        BY <2>1
    <2>3. r \in Range(call'[t].todo)
        <3>1. PICK todo : todo = call'[t].todo
            OBVIOUS
        <3>2. todo = <<r>>
            BY <1>2, <2>1, <3>1 DEF LargeWrite
        <3>3. 1 \in DOMAIN todo /\ todo[1] = r
            BY <3>2
        <3> QED BY <3>1, <3>3 DEF Range
    <2>4. InHand(r)'
        BY <1>1, <2>3 DEF InHand
    <2>5. \A q : InHand(q) => InHand(q)'
        <3> SUFFICES ASSUME NEW q, InHand(q), ~InHand(q)' PROVE FALSE
            OBVIOUS
        <3>1. caches' = caches
            BY <1>2 DEF LargeWrite
        <3> QED BY <1>1, <3>1, Dropped, NoneLeft
    <2> QED BY <2>2, <2>4, <2>5
<1>3. CASE SmallWrite(t, fd, x[1], x[2], file, n)
    <2>1. PICK off, len : off = x[1] /\ len = x[2] /\ <<off, len>> \in Extents /\ len < LabelMinSize
        <3>1. x = <<x[1], x[2]>>
            BY PosixAssumption
        <3> QED BY <1>3, <3>1 DEF SmallWrite
    <2>2. PICK s : /\ Stores(s, caches[fd], file, off, len, n)
                   /\ caches'[fd] = s \/ Range(call'[t].todo) = Held(s)
        BY <1>3, <2>1, SmallWriteOK
    <2>3. OtherCaches(fd)
        BY <1>3, SmallWriteOK
    <2>4. HoldsOK(caches[fd], writes) /\ PathOf(fd) \in Files \cup {NoFile}
        BY PathType DEF TypeInv
    <2>5. \A r \in Held(s) : InHand(r)'
        BY <1>1, <2>2 DEF InHand
    <2>6. PathOf(fd) \in {NoFile, file} \/ (PathOf(fd) \in torn /\ file \in torn)
        BY DEF PathInv, PathOK, Writes, PathOf
    <2>7. s.filepath = IF PathOf(fd) = NoFile THEN file ELSE PathOf(fd)
        BY <2>2 DEF Stores, PathOf
    <2>8. ASSUME NEW r, InHand(r), ~InHand(r)'
          PROVE  r.file \in torn \/ (r.file = file /\ r.off = off /\ r.len = len)
        <3>1. PICK e \in Fds : r \in Held(caches[e]) /\ caches'[e] # caches[e]
            BY <1>1, <2>8, Dropped, NoneLeft
        <3>2. e = fd
            BY <2>3, <3>1 DEF OtherCaches
        <3>3. r.off = off /\ r.len = len
            BY <2>1, <2>2, <2>4, <2>5, <2>8, <3>1, <3>2, StoredHolds
        <3>4. r.file = PathOf(fd) /\ PathOf(fd) # NoFile
            BY <2>4, <3>1, <3>2, HeldFile DEF HoldsOK, PathOf
        <3> QED BY <2>6, <3>3, <3>4
    <2>9. PICK r : r = RegionAt(s, off)
        OBVIOUS
    <2>10. r \in Held(s) /\ r.off = off /\ r.len = len /\ r.id = n /\ r.file = s.filepath
        BY <2>2, <2>9, StoredNew
    <2>11. r.file = file \/ file \in torn
        BY <2>6, <2>7, <2>10
    <2> QED BY <2>1, <2>5, <2>8, <2>10, <2>11
<1> QED BY <1>2, <1>3

LEMMA StagesOwed ==
    ASSUME OneLength, TypeInv, TypeInv', PathInv, OwedInv, NEW t \in Threads, Stages(t)
    PROVE  OwedInv'
<1>1. PICK fd \in Fds, x \in Extents, file \in Files, n \in Nat :
        /\ Writes(t, fd, x[1], x[2], file, n)
        /\ \/ LargeWrite(t, fd, x[1], x[2], file, n)
           \/ SmallWrite(t, fd, x[1], x[2], file, n)
    BY DEF Stages
<1>2. PICK d : Goes(t, d) /\ d.step = "publish"
    BY DEF Stages
<1>3. PICK off, len : off = x[1] /\ len = x[2]
    OBVIOUS
<1>4. /\ \A r : InHand(r) => \/ InHand(r)' \/ r.file \in torn
                             \/ r.file = file /\ r.off = off /\ r.len = len
      /\ \E r : /\ InHand(r)' /\ r.off = off /\ r.len = len /\ r.id = n
                /\ r.file = file \/ file \in torn
    BY <1>1, <1>2, <1>3, StagesHands
<1>5. torn' = torn /\ n = writes + 1 /\ owed' = owed \cup ({file} \X Extent(off, len))
    BY <1>1, <1>3 DEF Writes
<1>6. \A p \in Files \X Bytes :
        latest'[p[1]][p[2]] = IF Covers(p, file, off, len) THEN n ELSE latest[p[1]][p[2]]
    BY <1>1, <1>3, LatestAfter
<1>7. owed' \subseteq Files \X Bytes
    BY DEF TypeInv, DataInv
<1>8. ASSUME NEW p \in owed', ~Covers(p, file, off, len) PROVE p \in owed
    BY <1>5, <1>8 DEF Covers
<1>9. ASSUME NEW p \in owed', p[1] \notin torn PROVE Kept(p)'
    <2>1. CASE Covers(p, file, off, len)
        <3>1. PICK r : InHand(r)' /\ r.off = off /\ r.len = len /\ r.id = n /\ r.file = file
            BY <1>4, <1>9, <2>1 DEF Covers
        <3>2. latest'[p[1]][p[2]] = n
            BY <1>6, <1>7, <2>1
        <3>3. Holds(r, p[1], p[2])'
            BY <2>1, <3>1, <3>2 DEF Holds, Covers
        <3> QED BY <3>1, <3>3, KeptInHandNext
    <2>2. CASE ~Covers(p, file, off, len)
        <3>1. Kept(p)
            BY <1>8, <1>9, <2>2 DEF OwedInv
        <3>2. PICK r : InHand(r) /\ Holds(r, p[1], p[2])
            BY <3>1, KeptInHand
        <3>3. latest'[p[1]][p[2]] = latest[p[1]][p[2]]
            BY <1>6, <1>7, <2>2
        <3>4. Holds(r, p[1], p[2])'
            BY <3>2, <3>3 DEF Holds
        <3>5. InHand(r)'
            BY <1>4, <1>9, <2>2, <3>2 DEF Holds, Covers
        <3> QED BY <3>4, <3>5, KeptInHandNext
    <2> QED BY <2>1, <2>2
<1>10. ASSUME NEW a \in Actors PROVE Settled(a)'
    <2> SUFFICES ASSUME call'[a].step \in {"track", "resize"},
                        NEW r, r = Head(call'[a].todo),
                        NEW p \in owed', p[1] \notin torn, Holds(r, p[1], p[2])'
                 PROVE  FALSE
        BY <1>5 DEF Settled, Holds
    <2>1. a # t
        BY <1>2 DEF Goes
    <2>2. call'[a] = call[a]
        BY <1>2, <2>1 DEF Goes
    <2>3. r \in Range(call[a].todo)
        BY <2>2, BusyRegion, OfCall DEF TypeInv, ShapeOK
    <2>4. r.id # n
        BY <1>5, <2>3, OldRegion DEF InHand
    <2>5. r.id = latest'[p[1]][p[2]]
        BY DEF Holds
    <2>6. ~Covers(p, file, off, len) /\ p \in owed
        BY <1>6, <1>7, <1>8, <2>4, <2>5
    <2>7. Holds(r, p[1], p[2])
        BY <1>6, <1>7, <2>6 DEF Holds
    <2> QED BY <2>2, <2>6, <2>7 DEF OwedInv, Settled
<1> QED BY <1>5, <1>9, <1>10 DEF OwedInv

LEMMA OwedStays ==
    ASSUME OneLength, TypeInv, TypeInv', PathInv, OwedInv, Does PROVE OwedInv'
<1>1. OwedStep \/ \E t \in Threads : Stages(t)
    BY MetaOwed, ReturnsOwed, EmptiesOwed, CollectsOwed, EvictsOwed, LeavesOwed,
       ReadsSizeOwed, WritesSizeOwed, PutsOutOwed DEF Does, Effects
<1> QED BY <1>1, OwedFrame, StagesOwed

LEMMA InitOwed == ASSUME Init PROVE OwedInv
BY IdleFields DEF Init, PosixInit, OwedInv, Settled

LEMMA VanishesOf == ASSUME TypeInv, OwedInv PROVE NothingVanishes
<1> SUFFICES ASSUME NEW p \in owed, p[1] \notin torn
             PROVE  \/ \E fd \in Fds : \E r \in Range(FlushRegions(caches[fd])) : Holds(r, p[1], p[2])
                    \/ \E a \in Actors : \E r \in Range(call[a].todo) : Holds(r, p[1], p[2])
    BY DEF NothingVanishes
<1>1. Kept(p)
    BY DEF OwedInv
<1> QED BY <1>1, CacheRegions DEF Kept, TypeInv

\* The latest bytes of every file are stored, cached or with a thread that will
\* publish them, whatever writes, fsync, close, exit and the timer do at the
\* same time, unless a label failed or a descriptor number was reused.  The
\* hypothesis is needed: cache_write replaces a longer region at the same offset
\* as a whole, and the end of it is lost.
THEOREM NothingLost == ASSUME OneLength PROVE Spec => []NothingVanishes
<1> DEFINE IInv == TypeInv /\ PathInv /\ OwedInv
<1>1. Init => IInv
    BY InitType, InitPath, InitOwed
<1>2. IInv /\ [Next]_vars => IInv'
    <2> SUFFICES ASSUME IInv, [Next]_vars PROVE IInv'
        OBVIOUS
    <2>1. TypeInv' /\ Does
        BY StepDoes
    <2>2. PathInv'
        BY <2>1, DoesPath, PathFrame
    <2> QED BY <2>1, <2>2, OwedStays
<1>3. IInv => NothingVanishes
    BY VanishesOf
<1> QED BY <1>1, <1>2, <1>3, PTL DEF Spec
=============================================================================
