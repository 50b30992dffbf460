-------------------------- MODULE SchedulingProofs --------------------------
(***************************************************************************)
(* The label as data, for any registry, labels, weights and bounds: what   *)
(* the client wrote survives every encoding and every mark, an answered    *)
(* label carries its whole history, round robin is fair over batches and   *)
(* single labels, the buckets follow the scores, and a batch goes to the   *)
(* workers that are available, no more of it to one than to a better one.  *)
(***************************************************************************)
EXTENDS Scheduling, SequenceTheorems, FiniteSetTheorems, TLAPS

-----------------------------------------------------------------------------
(* Numbers *)

\* A nonempty set of natural numbers below n has a least element: the intervals
\* 0 .. x are well founded under strict inclusion.
LEMMA MinBounded ==
    ASSUME NEW n \in Nat, NEW S, S \subseteq 0 .. n, S # {}
    PROVE  \E x \in S : \A y \in S : x <= y
<1> DEFINE T == {0 .. x : x \in S}
           R == StrictSubsetOrdering(0 .. n)
<1>1. IsFiniteSet(0 .. n)
    BY FS_Interval
<1>2. \A t \in T : t \subseteq 0 .. n
    OBVIOUS
<1>3. T \subseteq FiniteSubsetsOf(0 .. n)
    BY <1>1, <1>2, FS_Subset DEF FiniteSubsetsOf
<1>4. IsWellFoundedOn(R, FiniteSubsetsOf(0 .. n))
    BY FS_StrictSubsetOrderingWellFounded
<1>5. T # {}
    OBVIOUS
<1> HIDE DEF R
<1>6. PICK t \in T : \A s \in T : ~(<<s, t>> \in R)
    BY <1>3, <1>4, <1>5, WFMin
<1>7. PICK x \in S : t = 0 .. x
    OBVIOUS
<1>8. ASSUME NEW y \in S PROVE x <= y
    <2>1. <<0 .. y, 0 .. x>> \notin R
        BY <1>6, <1>7
    <2>2. ASSUME y < x PROVE FALSE
        <3>1. 0 .. y \subseteq 0 .. x /\ 0 .. x # 0 .. y
            <4>1. x \in 0 .. x /\ x \notin 0 .. y
                BY <2>2
            <4> QED BY <4>1, <2>2
        <3>2. 0 .. y \in SUBSET (0 .. n) /\ 0 .. x \in SUBSET (0 .. n)
            BY <1>2
        <3> QED BY <3>1, <3>2, <2>1 DEF R, StrictSubsetOrdering
    <2> QED BY <2>2
<1> QED BY <1>8

\* What holds of 0 and passes from each number to the next holds up to n.
LEMMA Reaches ==
    ASSUME NEW n \in Nat, NEW S, 0 \in S,
           \A k \in 0 .. n : k + 1 \in 0 .. n /\ k \in S => k + 1 \in S
    PROVE  \A k \in 0 .. n : k \in S
<1> SUFFICES ASSUME (0 .. n) \ S # {} PROVE FALSE
    OBVIOUS
<1>1. PICK m \in (0 .. n) \ S : \A y \in (0 .. n) \ S : m <= y
    <2>1. (0 .. n) \ S \subseteq 0 .. n
        OBVIOUS
    <2> QED BY <2>1, MinBounded
<1>2. m # 0 /\ m - 1 \in 0 .. n /\ m - 1 \in S
    BY <1>1
<1> QED BY <1>1, <1>2

LEMMA LeastOf ==
    ASSUME NEW n \in Nat, NEW S, S \subseteq 0 .. n, S # {}
    PROVE  Min(S) \in S /\ \A y \in S : Min(S) <= y
BY MinBounded DEF Min

LEMMA OfTwo ==
    ASSUME NEW a \in Int, NEW b \in Int
    PROVE  /\ Min({a, b}) = IF a <= b THEN a ELSE b
           /\ Max({a, b}) = IF a <= b THEN b ELSE a
<1>1. Min({a, b}) = IF a <= b THEN a ELSE b
    <2> DEFINE m == IF a <= b THEN a ELSE b
    <2>1. \A x \in {a, b} : (\A y \in {a, b} : x <= y) <=> x = m
        OBVIOUS
    <2>2. m \in {a, b}
        OBVIOUS
    <2> HIDE DEF m
    <2> QED BY <2>1, <2>2 DEF Min, m
<1>2. Max({a, b}) = IF a <= b THEN b ELSE a
    <2> DEFINE m == IF a <= b THEN b ELSE a
    <2>1. \A x \in {a, b} : (\A y \in {a, b} : x >= y) <=> x = m
        OBVIOUS
    <2>2. m \in {a, b}
        OBVIOUS
    <2> HIDE DEF m
    <2> QED BY <2>1, <2>2 DEF Max, m
<1> QED BY <1>1, <1>2

LEMMA Remainder ==
    ASSUME NEW n \in Nat \ {0}, NEW r \in 0 .. n - 1
    PROVE  r % n = r
OBVIOUS

\* A cursor that advances by one goes round.
LEMMA NextPosition ==
    ASSUME NEW a \in Nat, NEW n \in Nat \ {0}
    PROVE  /\ a % n \in 0 .. n - 1
           /\ (a + 1) % n = IF a % n = n - 1 THEN 0 ELSE (a % n) + 1
<1> DEFINE q == a \div n
           r == a % n
<1>1. q \in Nat /\ r \in 0 .. n - 1 /\ a = n * q + r
    BY SMT
<1> HIDE DEF q, r
<1>2. CASE r = n - 1
    <2>1. a + 1 = n * (q + 1)
        BY <1>1, <1>2, SMT
    <2>2. (n * (q + 1)) % n = 0
        BY <1>1, SMT
    <2> QED BY <1>1, <2>1, <2>2, <1>2 DEF r
<1>3. CASE r # n - 1
    <2>1. a + 1 = n * q + (r + 1) /\ r + 1 \in 0 .. n - 1
        BY <1>1, <1>3, SMT
    <2>2. (n * q + (r + 1)) % n = r + 1
        BY <1>1, <2>1, SMT
    <2> QED BY <1>1, <2>1, <2>2, <1>3 DEF r
<1> QED BY <1>2, <1>3

-----------------------------------------------------------------------------
(* Lists of workers *)

\* A list of workers as the dispatcher has it: no id twice.
Listed(list) ==
    /\ list \in Seq(ToSet(list))
    /\ \A w \in ToSet(list) : w.id \in WorkerIds
    /\ \A j, k \in DOMAIN list : list[j].id = list[k].id => j = k

\* The loop that filters has a value at every position of the list.
LEMMA FilterDefined ==
    ASSUME NEW list, NEW n \in Nat
    PROVE  \E f : f = [k \in 0 .. n |->
                         IF k = 0 THEN <<>>
                         ELSE IF list[k].available THEN Append(f[k - 1], list[k])
                         ELSE f[k - 1]]
<1> DEFINE Upto(m, f) ==
             f = [k \in 0 .. m |->
                    IF k = 0 THEN <<>>
                    ELSE IF list[k].available THEN Append(f[k - 1], list[k])
                    ELSE f[k - 1]]
           S == {m \in 0 .. n : \E f : Upto(m, f)}
<1>1. 0 \in S
    <2> DEFINE f == [k \in 0 .. 0 |-> <<>>]
    <2>1. Upto(0, f)
        OBVIOUS
    <2> HIDE DEF f
    <2> QED BY <2>1
<1>2. ASSUME NEW m \in 0 .. n, m + 1 \in 0 .. n, m \in S
      PROVE  m + 1 \in S
    <2>1. PICK f : Upto(m, f)
        BY <1>2
    <2> DEFINE g == [k \in 0 .. m + 1 |->
                       IF k = m + 1
                       THEN IF list[k].available THEN Append(f[k - 1], list[k])
                            ELSE f[k - 1]
                       ELSE f[k]]
    <2>2. \A k \in 0 .. m : g[k] = f[k]
        OBVIOUS
    <2>3. \A k \in 0 .. m :
            f[k] = IF k = 0 THEN <<>>
                   ELSE IF list[k].available THEN Append(f[k - 1], list[k])
                   ELSE f[k - 1]
        BY <2>1
    <2>4. \A k \in 0 .. m + 1 :
            g[k] = IF k = 0 THEN <<>>
                   ELSE IF list[k].available THEN Append(g[k - 1], list[k])
                   ELSE g[k - 1]
        <3> SUFFICES ASSUME NEW k \in 0 .. m + 1
                     PROVE g[k] = IF k = 0 THEN <<>>
                                  ELSE IF list[k].available THEN Append(g[k - 1], list[k])
                                  ELSE g[k - 1]
            OBVIOUS
        <3>1. CASE k = m + 1
            <4>1. k # 0 /\ k - 1 \in 0 .. m
                BY <3>1
            <4>2. g[k - 1] = f[k - 1]
                BY <4>1, <2>2
            <4> QED BY <3>1, <4>1, <4>2
        <3>2. CASE k = 0
            <4>1. k \in 0 .. m
                BY <3>2
            <4> QED BY <3>2, <4>1, <2>2, <2>3
        <3>3. CASE k # m + 1 /\ k # 0
            <4>1. k \in 0 .. m /\ k - 1 \in 0 .. m
                BY <3>3
            <4>2. g[k] = f[k] /\ g[k - 1] = f[k - 1]
                BY <4>1, <2>2
            <4> QED BY <3>3, <4>1, <4>2, <2>3
        <3> QED BY <3>1, <3>2, <3>3
    <2>5. g = [k \in 0 .. m + 1 |-> g[k]]
        OBVIOUS
    <2> HIDE DEF g
    <2>6. Upto(m + 1, g)
        BY <2>4, <2>5
    <2> QED BY <2>6, <1>2
<1> HIDE DEF S
<1>3. n \in S
    BY <1>1, <1>2, Reaches
<1> QED BY <1>3 DEF S

\* What the filter keeps: the available workers of the list, each once.
LEMMA AvailableOnes ==
    ASSUME NEW list, Listed(list)
    PROVE  /\ Listed(Available(list))
           /\ ToSet(Available(list)) = {w \in ToSet(list) : w.available}
<1> DEFINE n == Len(list)
           Loop(f) == f = [k \in 0 .. n |->
                             IF k = 0 THEN <<>>
                             ELSE IF list[k].available THEN Append(f[k - 1], list[k])
                             ELSE f[k - 1]]
           upTo == CHOOSE f : Loop(f)
           Kept(k) == {list[j] : j \in {j \in 1 .. k : list[j].available}}
           Good(k) == /\ upTo[k] \in Seq(ToSet(list))
                      /\ ToSet(upTo[k]) = Kept(k)
                      /\ \A i, j \in DOMAIN upTo[k] : upTo[k][i].id = upTo[k][j].id => i = j
           S == {k \in 0 .. n : Good(k)}
<1>1. n \in Nat /\ DOMAIN list = 1 .. n
    BY DEF Listed
<1>2. Loop(upTo)
    <2>1. \E f : Loop(f)
        BY <1>1, FilterDefined
    <2> HIDE DEF Loop
    <2> QED BY <2>1
<1>3. Available(list) = upTo[n]
    BY DEF Available
<1>4. \A k \in 0 .. n :
        upTo[k] = IF k = 0 THEN <<>>
                  ELSE IF list[k].available THEN Append(upTo[k - 1], list[k])
                  ELSE upTo[k - 1]
    BY <1>2
<1> HIDE DEF upTo
<1>5. 0 \in S
    <2>1. upTo[0] = <<>>
        BY <1>1, <1>4
    <2>2. Kept(0) = {} /\ ToSet(upTo[0]) = {} /\ DOMAIN upTo[0] = {}
        BY <2>1 DEF ToSet
    <2>3. upTo[0] \in Seq(ToSet(list))
        BY <2>1
    <2> QED BY <1>1, <2>2, <2>3
<1>6. ASSUME NEW m \in 0 .. n, m + 1 \in 0 .. n, m \in S
      PROVE  m + 1 \in S
    <2> DEFINE w == list[m + 1]
    <2>1. m + 1 \in DOMAIN list /\ w \in ToSet(list)
        BY <1>1, <1>6 DEF ToSet
    <2>2. Good(m)
        BY <1>6
    <2>3. upTo[m + 1] = IF w.available THEN Append(upTo[m], w) ELSE upTo[m]
        BY <1>4, <1>6
    <2>4. CASE ~ w.available
        <3>1. upTo[m + 1] = upTo[m]
            BY <2>3, <2>4
        <3>2. Kept(m + 1) = Kept(m)
            BY <2>4
        <3> QED BY <2>2, <3>1, <3>2, <1>6
    <2>5. CASE w.available
        <3>1. upTo[m + 1] = Append(upTo[m], w)
            BY <2>3, <2>5
        <3>2. Kept(m + 1) = Kept(m) \cup {w}
            BY <2>5
        <3> DEFINE s == upTo[m]
                   t == Append(s, w)
        <3> HIDE DEF w
        <3>3. /\ t \in Seq(ToSet(list)) /\ Len(t) = Len(s) + 1
              /\ \A i \in 1 .. Len(s) : t[i] = s[i]
              /\ t[Len(s) + 1] = w
            BY <2>1, <2>2
        <3>4. DOMAIN s = 1 .. Len(s) /\ DOMAIN t = 1 .. Len(s) + 1 /\ Len(s) \in Nat
            BY <2>2, <3>3
        <3>5. ToSet(t) = ToSet(s) \cup {w}
            <4>1. ToSet(t) \subseteq ToSet(s) \cup {w}
                BY <3>3, <3>4 DEF ToSet
            <4>2. \A i \in DOMAIN s : s[i] \in ToSet(t)
                BY <3>3, <3>4 DEF ToSet
            <4>3. w \in ToSet(t)
                BY <3>3, <3>4 DEF ToSet
            <4> QED BY <4>1, <4>2, <4>3 DEF ToSet
        <3>6. \A i \in DOMAIN s : s[i].id # w.id
            <4> SUFFICES ASSUME NEW i \in DOMAIN s, s[i].id = w.id PROVE FALSE
                OBVIOUS
            <4>1. s[i] \in Kept(m)
                BY <2>2 DEF ToSet
            <4>2. PICK j \in 1 .. m : s[i] = list[j]
                BY <4>1
            <4>3. j \in DOMAIN list /\ j # m + 1
                BY <1>1, <1>6
            <4> QED BY <4>2, <4>3, <2>1 DEF Listed, w
        <3>7. \A i, j \in DOMAIN t : t[i].id = t[j].id => i = j
            <4> SUFFICES ASSUME NEW i \in DOMAIN t, NEW j \in DOMAIN t, t[i].id = t[j].id
                         PROVE  i = j
                OBVIOUS
            <4>1. CASE i \in DOMAIN s /\ j \in DOMAIN s
                BY <4>1, <2>2, <3>3, <3>4
            <4>2. CASE i \notin DOMAIN s /\ j \notin DOMAIN s
                BY <4>2, <3>4
            <4>3. CASE i \in DOMAIN s /\ j \notin DOMAIN s
                BY <4>3, <3>3, <3>4, <3>6
            <4>4. CASE i \notin DOMAIN s /\ j \in DOMAIN s
                BY <4>4, <3>3, <3>4, <3>6
            <4> QED BY <4>1, <4>2, <4>3, <4>4
        <3>8. ToSet(t) = Kept(m + 1)
            BY <2>2, <3>2, <3>5
        <3> QED BY <3>1, <3>3, <3>7, <3>8, <1>6
    <2> QED BY <2>4, <2>5
<1> HIDE DEF S, n
<1>7. n \in S
    <2>1. \A k \in 0 .. n : k + 1 \in 0 .. n /\ k \in S => k + 1 \in S
        BY <1>6
    <2>2. n \in Nat /\ n \in 0 .. n
        BY <1>1
    <2>3. \A k \in 0 .. n : k \in S
        BY <2>1, <2>2, <1>5, Reaches
    <2> QED BY <2>2, <2>3
<1> USE DEF n
<1>8. Good(n)
    BY <1>7 DEF S
<1>9. Kept(n) = {w \in ToSet(list) : w.available}
    BY <1>1 DEF ToSet
<1>10. Available(list) \in Seq(ToSet(Available(list)))
    BY <1>3, <1>8 DEF ToSet
<1>11. \A w \in ToSet(Available(list)) : w.id \in WorkerIds
    BY <1>3, <1>8, <1>9 DEF Listed
<1> QED BY <1>3, <1>8, <1>9, <1>10, <1>11 DEF Listed

-----------------------------------------------------------------------------
(* The inductive invariants *)

\* Manager: the workers are registered under their ids, and once there is a
\* profile, scores and buckets are those of the workers.
RegistryInv ==
    /\ DOMAIN workers_ \subseteq WorkerIds
    /\ \A i \in DOMAIN workers_ : workers_[i].id = i
    /\ buckets_ = [b \in 0 .. kNumBuckets - 1 |-> buckets_[b]]
    /\ last_profile_ # "" =>
         /\ scores_ = [i \in DOMAIN workers_ |->
                         compute_score(workers_[i], Weights[last_profile_])]
         /\ \A b \in 0 .. kNumBuckets - 1 :
              buckets_[b] = {i \in DOMAIN scores_ : bucket_index(scores_[i]) = b}

\* Dispatcher: from the cursor on, round the pool, the counts of the positions
\* grow, and none is two more than another.
Rank(p, start, n) == IF p > start THEN p - start ELSE p - start + n

Steady(f, start, n) ==
    \A p, q \in 1 .. n :
      Rank(p, start, n) <= Rank(q, start, n) => f[p] <= f[q] /\ f[q] <= f[p] + 1

Start(next, n) == IF next >= n THEN 0 ELSE next

Walk(count, pool, next) ==
    Steady([p \in DOMAIN pool |-> count[pool[p]]], Start(next, Len(pool)), Len(pool))

DispatcherInv ==
    /\ policy \in Policies
    /\ Listed(cached)
    /\ next_ \in Nat
    /\ given \in [WorkerIds -> Nat]
    /\ policy # "round-robin" => given = [i \in WorkerIds |-> 0]
    /\ policy = "round-robin" => Walk(given, Ids(Available(cached)), next_)

\* The label: a value that the encoding can carry ...
Sound(l) ==
    /\ l = [f \in DOMAIN LabelData |-> l[f]]
    /\ l.continuation.kind = "None" => l.continuation = NoContinuation
    /\ l.routing.worker_id = 0 /\ l.routing.policy = "" => l.routing = NoRouting
    /\ l.aggregation.original_ids = <<>> => l.aggregation = NoAggregation

\* ... that is on the wire as it was written, and has been given what its stage
\* says.
Named(x) == x # ""
Hop(component, ts) == [component |-> component, timestamp_us |-> ts]

Published == {"queued", "shuffled", "routed", "executing", "finished", "done"}
Shuffled == Published \ {"queued"}
Routed == Shuffled \ {"shuffled"}
Executed == Routed \ {"routed"}
Finished == Executed \ {"executing"}

OriginInv ==
    /\ stage \in {"none", "created", "sent"} \cup Published
    /\ Sound(label)
    /\ stage # "none" => \A f \in Origin : label[f] = sent[f]
    /\ stage \in {"sent", "routed"} => wire = serialize_label(label)

HopsInv ==
    /\ stage \in {"created", "sent", "queued"} => label.hops = <<>>
    /\ stage = "shuffled" => label.hops = <<Hop("shuffler", label.hops[1].timestamp_us)>>
    /\ stage = "routed" =>
         label.hops = <<Hop("shuffler", label.hops[1].timestamp_us),
                        Hop("scheduler", label.hops[2].timestamp_us)>>
    /\ stage \in Executed =>
         label.hops = <<Hop("shuffler", label.hops[1].timestamp_us),
                        Hop("scheduler", label.hops[2].timestamp_us),
                        Hop(WorkerName[runner], label.hops[3].timestamp_us)>>

TimesInv ==
    /\ clock \in Nat \ {0}
    /\ stage # "none" => label.created_us \in 1 .. clock
    /\ stage \in Published => label.queued_us \in label.created_us .. clock
    /\ stage \in Shuffled => label.hops[1].timestamp_us \in label.queued_us .. clock
    /\ stage \in Routed => label.dispatched_us \in label.hops[1].timestamp_us .. clock
    /\ stage \in Executed => label.started_us \in label.dispatched_us .. clock
    /\ stage \in Finished => label.completed_us \in label.started_us .. clock

MarksInv ==
    /\ stage \in Published => "Queued" \in label.flags
    /\ stage \in Routed =>
         /\ "Scheduled" \in label.flags
         /\ runner \in WorkerIds
         /\ label.routing.worker_id = runner /\ Named(label.routing.policy)
    /\ stage \in Executed => "Pending" \in label.flags

Told(comp) ==
    /\ comp.label_id = label.id
    /\ comp.error = label.result.error
    /\ comp.status = "Complete" <=> label.status = "Complete"

AnswerInv ==
    /\ stage = "finished" => Told(deserialize_completion(wire))
    /\ stage = "done" => Told(answer)

-----------------------------------------------------------------------------
(* The lists the dispatcher gets *)

\* The manager's answer has every registered worker once.
LEMMA AllListed ==
    ASSUME RegistryInv
    PROVE  /\ Listed(all_workers)
           /\ \A w \in ToSet(all_workers) : \E i \in DOMAIN workers_ : w = workers_[i]
<1> DEFINE D == DOMAIN workers_
           ids == SetToSeq(D)
           n == Cardinality(D)
<1>1. IsFiniteSet(D)
    BY FS_Subset, SchedulingAssumption DEF RegistryInv
<1>2. n \in Nat /\ ExistsBijection(1 .. n, D)
    BY <1>1, FS_CardinalityType
<1>3. \E f \in [1 .. n -> D] : IsInjective(f)
    BY <1>2 DEF ExistsBijection, Bijection, Injection
<1>4. ids \in [1 .. n -> D] /\ IsInjective(ids)
    BY <1>3 DEF SetToSeq
<1> HIDE DEF ids, n
<1>5. all_workers = [k \in 1 .. n |-> workers_[ids[k]]]
    BY <1>4 DEF all_workers, ids
<1>6. \A k \in 1 .. n : all_workers[k].id = ids[k] /\ ids[k] \in WorkerIds
    BY <1>4, <1>5 DEF RegistryInv
<1>7. DOMAIN all_workers = 1 .. n
    BY <1>5
<1>8. all_workers \in Seq(ToSet(all_workers))
    BY <1>2, <1>5, <1>7 DEF ToSet
<1>9. \A j, k \in 1 .. n : all_workers[j].id = all_workers[k].id => j = k
    BY <1>4, <1>6 DEF IsInjective
<1>10. \A w \in ToSet(all_workers) : \E i \in D : w = workers_[i]
    BY <1>4, <1>5, <1>7 DEF ToSet
<1>11. Listed(all_workers)
    BY <1>6, <1>7, <1>8, <1>9 DEF Listed, ToSet
<1> QED BY <1>10, <1>11

LEMMA NoneListed == Listed(<<>>)
BY DEF Listed, ToSet

\* The ids that round robin goes through.
LEMMA PoolIds ==
    ASSUME NEW list, Listed(list)
    PROVE  LET pool == Ids(Available(list))
           IN  /\ pool \in Seq(WorkerIds)
               /\ \A j, k \in DOMAIN pool : pool[j] = pool[k] => j = k
               /\ ToSet(pool) = {w.id : w \in {w \in ToSet(list) : w.available}}
<1> DEFINE a == Available(list)
           pool == Ids(a)
<1>1. Listed(a) /\ ToSet(a) = {w \in ToSet(list) : w.available}
    BY AvailableOnes
<1> HIDE DEF a
<1>2. DOMAIN pool = DOMAIN a /\ \A k \in DOMAIN a : pool[k] = a[k].id
    BY DEF Ids
<1>3. DOMAIN a = 1 .. Len(a) /\ Len(a) \in Nat
    BY <1>1 DEF Listed
<1>4. pool = [k \in 1 .. Len(a) |-> a[k].id]
    BY <1>3 DEF Ids
<1>5. \A k \in 1 .. Len(a) : a[k].id \in WorkerIds
    BY <1>1, <1>3 DEF Listed, ToSet
<1>6. pool \in Seq(WorkerIds)
    BY <1>3, <1>4, <1>5
<1>7. \A j, k \in DOMAIN pool : pool[j] = pool[k] => j = k
    BY <1>1, <1>2 DEF Listed
<1>8. ToSet(pool) = {w.id : w \in ToSet(a)}
    BY <1>2 DEF ToSet
<1> QED BY <1>1, <1>6, <1>7, <1>8 DEF a

-----------------------------------------------------------------------------
(* Round robin *)

\* The position at the cursor gets a label, and the cursor moves on.
LEMMA Serve ==
    ASSUME NEW n \in Nat \ {0}, NEW c \in 0 .. n - 1,
           NEW f \in [1 .. n -> Nat], Steady(f, c, n),
           NEW g \in [1 .. n -> Nat],
           \A p \in 1 .. n : g[p] = f[p] + (IF p = c + 1 THEN 1 ELSE 0)
    PROVE  Steady(g, IF c = n - 1 THEN 0 ELSE c + 1, n)
<1> DEFINE d == IF c = n - 1 THEN 0 ELSE c + 1
<1>1. d \in 0 .. n - 1 /\ c + 1 \in 1 .. n
    OBVIOUS
<1>2. \A p \in 1 .. n : Rank(c + 1, c, n) <= Rank(p, c, n)
    BY DEF Rank
<1>3. \A p, q \in 1 .. n :
        p # c + 1 /\ q # c + 1 /\ Rank(p, d, n) <= Rank(q, d, n) => Rank(p, c, n) <= Rank(q, c, n)
    BY DEF Rank
<1>4. \A p \in 1 .. n : Rank(c + 1, d, n) <= Rank(p, d, n) => p = c + 1
    BY DEF Rank
<1> HIDE DEF d
<1> SUFFICES ASSUME NEW p \in 1 .. n, NEW q \in 1 .. n, Rank(p, d, n) <= Rank(q, d, n)
             PROVE  g[p] <= g[q] /\ g[q] <= g[p] + 1
    BY DEF Steady, d
<1>5. CASE p # c + 1 /\ q # c + 1
    <2>1. f[p] <= f[q] /\ f[q] <= f[p] + 1
        BY <1>3, <1>5 DEF Steady
    <2> QED BY <1>5, <2>1
<1>6. CASE p # c + 1 /\ q = c + 1
    <2>1. f[c + 1] <= f[p] /\ f[p] <= f[c + 1] + 1
        BY <1>1, <1>2 DEF Steady
    <2> QED BY <1>1, <1>6, <2>1
<1>7. CASE p = c + 1
    <2>1. q = c + 1
        BY <1>4, <1>7
    <2> QED BY <1>1, <1>7, <2>1
<1> QED BY <1>5, <1>6, <1>7

\* A batch is as many labels one after the other: the position of each, how many
\* of them are at p, and what that makes of the counts.
Turns(at, start, size, n) == \A k \in 1 .. size : at[k] = ((start + k - 1) % n) + 1

Hits(at, size, p) == {k \in 1 .. size : at[k] = p}

Served(g, f, at, size, n) ==
    \A p \in 1 .. n : g[p] = f[p] + Cardinality(Hits(at, size, p))

LEMMA ServeBatch ==
    ASSUME NEW n \in Nat \ {0}, NEW start \in 0 .. n - 1,
           NEW f \in [1 .. n -> Nat], Steady(f, start, n), NEW size \in Nat, NEW at,
           Turns(at, start, size, n),
           NEW g \in [1 .. n -> Nat], Served(g, f, at, size, n)
    PROVE  Steady(g, (start + size) % n, n)
<1> DEFINE Had(m, p) == {k \in 1 .. m : at[k] = p}
           G(m) == [p \in 1 .. n |-> f[p] + Cardinality(Had(m, p))]
           S == {m \in 0 .. size : Steady(G(m), (start + m) % n, n)}
<1>1. \A m \in Nat : (start + m) % n \in 0 .. n - 1
    <2>1. \A m \in Nat : start + m \in Nat
        OBVIOUS
    <2> QED BY <2>1, NextPosition
<1>2. \A m \in Nat, p \in 1 .. n : IsFiniteSet(Had(m, p)) /\ Cardinality(Had(m, p)) \in Nat
    <2> SUFFICES ASSUME NEW m \in Nat, NEW p \in 1 .. n
                 PROVE  IsFiniteSet(Had(m, p)) /\ Cardinality(Had(m, p)) \in Nat
        OBVIOUS
    <2>1. IsFiniteSet(1 .. m)
        BY FS_Interval
    <2>2. Had(m, p) \in SUBSET (1 .. m)
        OBVIOUS
    <2> HIDE DEF Had
    <2> QED BY <2>1, <2>2, FS_Subset, FS_CardinalityType
<1>3. \A m \in Nat : G(m) \in [1 .. n -> Nat]
    <2>1. \A m \in Nat, p \in 1 .. n : f[p] + Cardinality(Had(m, p)) \in Nat
        <3> SUFFICES ASSUME NEW m \in Nat, NEW p \in 1 .. n
                     PROVE  f[p] + Cardinality(Had(m, p)) \in Nat
            OBVIOUS
        <3> DEFINE x == Cardinality(Had(m, p))
        <3>1. x \in Nat
            BY <1>2
        <3> HIDE DEF x
        <3>2. f[p] + x \in Nat
            BY <3>1
        <3> QED BY <3>2 DEF x
    <2> HIDE DEF Had
    <2> QED BY <2>1, Zenon
<1>4. 0 \in S
    <2>1. \A p \in 1 .. n : Had(0, p) = {}
        OBVIOUS
    <2>2. \A p \in 1 .. n : f[p] + Cardinality(Had(0, p)) = f[p]
        <3>1. \A p \in 1 .. n : Cardinality(Had(0, p)) = 0
            <4> HIDE DEF Had
            <4> QED BY <2>1, FS_EmptySet, Zenon
        <3> HIDE DEF Had
        <3> QED BY <3>1
    <2> HIDE DEF Had
    <2>3. G(0) = f
        BY <2>2
    <2>4. (start + 0) % n = start
        <3>1. start % n = start
            BY Remainder
        <3> QED BY <3>1
    <2> HIDE DEF G
    <2> QED BY <2>3, <2>4
<1>5. ASSUME NEW m \in 0 .. size, m + 1 \in 0 .. size, m \in S
      PROVE  m + 1 \in S
    <2> DEFINE c == (start + m) % n
    <2>1. c \in 0 .. n - 1 /\ (start + (m + 1)) % n = IF c = n - 1 THEN 0 ELSE c + 1
        <3>1. start + m \in Nat /\ start + (m + 1) = (start + m) + 1
            OBVIOUS
        <3> QED BY <3>1, NextPosition
    <2>2. at[m + 1] = c + 1
        <3>1. start + (m + 1) - 1 = start + m /\ m + 1 \in 1 .. size
            BY <1>5
        <3> QED BY <3>1 DEF Turns
    <2> HIDE DEF c
    <2>0. m \in Nat /\ 1 .. m + 1 = (1 .. m) \cup {m + 1} /\ m + 1 \notin 1 .. m
        OBVIOUS
    <2>3. \A p \in 1 .. n :
            Cardinality(Had(m + 1, p)) = Cardinality(Had(m, p)) + (IF p = c + 1 THEN 1 ELSE 0)
        <3> SUFFICES ASSUME NEW p \in 1 .. n
                     PROVE  Cardinality(Had(m + 1, p))
                              = Cardinality(Had(m, p)) + (IF p = c + 1 THEN 1 ELSE 0)
            OBVIOUS
        <3>1. IsFiniteSet(Had(m, p)) /\ Cardinality(Had(m, p)) \in Nat
            <4>1. m \in Nat
                OBVIOUS
            <4> HIDE DEF Had
            <4> QED BY <1>2, <4>1
        <3>2. CASE p = c + 1
            <4>1. Had(m + 1, p) = Had(m, p) \cup {m + 1} /\ m + 1 \notin Had(m, p)
                BY <2>0, <2>2, <3>2
            <4> DEFINE H == Had(m, p)
            <4> HIDE DEF H
            <4>2. IsFiniteSet(H) /\ m + 1 \notin H
                BY <3>1, <4>1 DEF H
            <4>3. Cardinality(H \cup {m + 1}) = Cardinality(H) + 1
                BY <4>2, FS_AddElement
            <4>4. Cardinality(Had(m + 1, p)) = Cardinality(H) + 1
                BY <4>1, <4>3 DEF H
            <4> QED BY <3>2, <4>4 DEF H
        <3>3. CASE p # c + 1
            <4>1. Had(m + 1, p) = Had(m, p)
                BY <2>0, <2>2, <3>3
            <4> HIDE DEF Had
            <4> QED BY <3>1, <3>3, <4>1
        <3> HIDE DEF Had
        <3> QED BY <3>2, <3>3
    <2>4. Steady(G(m), c, n)
        BY <1>5 DEF c
    <2>5. m \in Nat /\ m + 1 \in Nat
        OBVIOUS
    <2>6. G(m) \in [1 .. n -> Nat] /\ G(m + 1) \in [1 .. n -> Nat]
        <3> HIDE DEF G
        <3> QED BY <1>3, <2>5
    <2>7. \A p \in 1 .. n : G(m + 1)[p] = G(m)[p] + (IF p = c + 1 THEN 1 ELSE 0)
        <3> DEFINE a(p) == Cardinality(Had(m, p))
                   b(p) == Cardinality(Had(m + 1, p))
        <3>1. \A p \in 1 .. n : b(p) = a(p) + (IF p = c + 1 THEN 1 ELSE 0)
            BY <2>3
        <3>2. \A p \in 1 .. n : a(p) \in Nat
            BY <1>2, <2>5
        <3>3. \A p \in 1 .. n : G(m + 1)[p] = f[p] + b(p) /\ G(m)[p] = f[p] + a(p)
            <4> HIDE DEF Had
            <4> QED OBVIOUS
        <3> HIDE DEF a, b, G
        <3> QED BY <3>1, <3>2, <3>3
    <2> HIDE DEF G
    <2>8. Steady(G(m + 1), IF c = n - 1 THEN 0 ELSE c + 1, n)
        BY <2>1, <2>4, <2>6, <2>7, Serve
    <2> QED BY <1>5, <2>1, <2>8
<1> HIDE DEF S
<1>6. size \in S
    <2>1. \A k \in 0 .. size : k + 1 \in 0 .. size /\ k \in S => k + 1 \in S
        BY <1>5
    <2>2. \A k \in 0 .. size : k \in S
        BY <2>1, <1>4, Reaches
    <2> QED BY <2>2
<1>7. Steady(G(size), (start + size) % n, n)
    <2> HIDE DEF G
    <2> QED BY <1>6 DEF S
<1>8. G(size) \in [1 .. n -> Nat]
    <2> HIDE DEF G
    <2> QED BY <1>3
<1>9. \A p \in 1 .. n : g[p] = G(size)[p]
    BY DEF Hits, Served
<1> HIDE DEF G
<1>10. g = G(size)
    BY <1>8, <1>9
<1> QED BY <1>7, <1>10

\* Round robin keeps the walk, ...
LEMMA RoundRobinServes ==
    ASSUME NEW list, Listed(list), NEW size \in Nat, NEW next \in Nat, NEW to, to # Nobody,
           to = round_robin(size, list, next).to,
           NEW count \in [WorkerIds -> Nat], Walk(count, Ids(Available(list)), next)
    PROVE  LET total == [i \in WorkerIds |-> count[i] + CountOf(to)[i]]
               after == round_robin(size, list, next).next
           IN  /\ after \in Nat
               /\ total \in [WorkerIds -> Nat]
               /\ Walk(total, Ids(Available(list)), after)
<1> DEFINE pool == Ids(Available(list))
           n == Len(pool)
           start == Start(next, n)
           at == [k \in 1 .. size |-> ((start + k - 1) % n) + 1]
           total == [i \in WorkerIds |-> count[i] + CountOf(to)[i]]
           after == (start + size) % n
           f == [p \in DOMAIN pool |-> count[pool[p]]]
           g == [p \in DOMAIN pool |-> total[pool[p]]]
<1>1. /\ pool \in Seq(WorkerIds)
      /\ \A j, k \in DOMAIN pool : pool[j] = pool[k] => j = k
    BY PoolIds
<1>2. pool # <<>>
    BY DEF round_robin, Nobody
<1>3. to = [k \in 1 .. size |-> pool[((start + k - 1) % n) + 1]]
      /\ round_robin(size, list, next).next = after
    BY <1>2 DEF round_robin, Start
<1>4. Steady(f, start, n)
    BY DEF Walk
<1> HIDE DEF pool
<1>5. n \in Nat \ {0} /\ DOMAIN pool = 1 .. n /\ \A p \in 1 .. n : pool[p] \in WorkerIds
    BY <1>1, <1>2
<1> HIDE DEF n
<1>6. start \in 0 .. n - 1
    BY <1>5 DEF Start
<1> HIDE DEF start
<1>7. f \in [1 .. n -> Nat] /\ \A p \in 1 .. n : f[p] = count[pool[p]]
    BY <1>5
<1> HIDE DEF f
<1>8. \A k \in 1 .. size : at[k] = ((start + k - 1) % n) + 1
    OBVIOUS
<1> HIDE DEF at
<1>9. after \in 0 .. n - 1
    <2>1. start + size \in Nat
        BY <1>6
    <2> QED BY <1>5, <2>1, NextPosition
<1>10. \A k \in 1 .. size : at[k] \in 1 .. n /\ to[k] = pool[at[k]]
    <2> SUFFICES ASSUME NEW k \in 1 .. size
                 PROVE  at[k] \in 1 .. n /\ to[k] = pool[at[k]]
        OBVIOUS
    <2>1. start + k - 1 \in Nat
        BY <1>6
    <2>2. (start + k - 1) % n \in 0 .. n - 1
        BY <1>5, <2>1, NextPosition
    <2>3. at[k] = ((start + k - 1) % n) + 1
        BY <1>8
    <2>4. to[k] = pool[((start + k - 1) % n) + 1]
        BY <1>3
    <2> QED BY <1>5, <2>2, <2>3, <2>4
<1>11. DOMAIN to = 1 .. size
    BY <1>3
<1>12. \A i \in WorkerIds : CountOf(to)[i] = Cardinality(Hits(to, size, i))
    BY <1>11 DEF CountOf, Hits
<1>13. \A i \in WorkerIds : Cardinality(Hits(to, size, i)) \in Nat
    <2> SUFFICES ASSUME NEW i \in WorkerIds PROVE Cardinality(Hits(to, size, i)) \in Nat
        OBVIOUS
    <2>1. Hits(to, size, i) \in SUBSET (1 .. size)
        BY DEF Hits
    <2>2. IsFiniteSet(1 .. size)
        BY FS_Interval
    <2> QED BY <2>1, <2>2, FS_Subset, FS_CardinalityType
<1>14. total \in [WorkerIds -> Nat]
    <2>1. \A i \in WorkerIds : CountOf(to)[i] \in Nat
        BY <1>12, <1>13
    <2> QED BY <2>1
<1>15. \A p \in 1 .. n : g[p] = f[p] + Cardinality(Hits(at, size, p))
    <2> SUFFICES ASSUME NEW p \in 1 .. n
                 PROVE  g[p] = f[p] + Cardinality(Hits(at, size, p))
        OBVIOUS
    <2>1. Hits(to, size, pool[p]) = Hits(at, size, p)
        <3>1. ASSUME NEW k \in 1 .. size PROVE to[k] = pool[p] <=> at[k] = p
            <4> HIDE DEF at
            <4>1. at[k] \in DOMAIN pool /\ p \in DOMAIN pool /\ to[k] = pool[at[k]]
                BY <1>5, <1>10
            <4>2. pool[at[k]] = pool[p] => at[k] = p
                BY <1>1, <4>1
            <4> QED BY <4>1, <4>2
        <3> QED BY <3>1 DEF Hits
    <2>2. CountOf(to)[pool[p]] = Cardinality(Hits(at, size, p))
        BY <1>5, <1>12, <2>1
    <2>3. total[pool[p]] = count[pool[p]] + CountOf(to)[pool[p]]
        BY <1>5
    <2>4. g[p] = total[pool[p]]
        BY <1>5
    <2> HIDE DEF total, g
    <2> QED BY <1>7, <2>2, <2>3, <2>4
<1>16. g \in [1 .. n -> Nat]
    <2> HIDE DEF total
    <2> QED BY <1>5, <1>14
<1>17. Steady(g, after, n)
    <2> HIDE DEF g
    <2>1. n \in Nat \ {0}
        BY <1>5
    <2>2. Turns(at, start, size, n) /\ Served(g, f, at, size, n)
        BY <1>8, <1>15 DEF Turns, Served
    <2> QED BY <2>1, <2>2, <1>4, <1>6, <1>7, <1>16, ServeBatch
<1> HIDE DEF total, after
<1>18. Start(after, n) = after /\ after \in Nat
    BY <1>5, <1>9 DEF Start
<1>19. Walk(total, pool, after)
    BY <1>17, <1>18 DEF Walk, n
<1> QED BY <1>3, <1>14, <1>18, <1>19 DEF total, pool

\* ... and so does taking away what all of the pool have had.
LEMMA LevelPool ==
    ASSUME NEW pool \in Seq(WorkerIds), NEW next \in Nat,
           NEW total \in [WorkerIds -> Nat], Walk(total, pool, next)
    PROVE  LET P == ToSet(pool)
               least == IF P = {} THEN 0 ELSE Min({total[i] : i \in P})
               level == [i \in WorkerIds |-> IF i \in P THEN total[i] - least ELSE total[i]]
           IN  level \in [WorkerIds -> Nat] /\ Walk(level, pool, next)
<1> DEFINE n == Len(pool)
           P == ToSet(pool)
           least == IF P = {} THEN 0 ELSE Min({total[i] : i \in P})
           level == [i \in WorkerIds |-> IF i \in P THEN total[i] - least ELSE total[i]]
           start == Start(next, n)
           f == [p \in DOMAIN pool |-> total[pool[p]]]
           g == [p \in DOMAIN pool |-> level[pool[p]]]
<1>1. n \in Nat /\ DOMAIN pool = 1 .. n /\ \A p \in 1 .. n : pool[p] \in WorkerIds
    OBVIOUS
<1>2. P = {pool[p] : p \in 1 .. n} /\ P \subseteq WorkerIds
    BY <1>1 DEF ToSet
<1>3. start \in Int /\ Steady(f, start, n)
    BY <1>1 DEF Walk, Start
<1> HIDE DEF P, n, start
<1>4. \A p \in 1 .. n : f[p] = total[pool[p]] /\ f[p] \in Nat
    BY <1>1
<1> HIDE DEF f
<1>5. \A p, q \in 1 .. n : f[q] <= f[p] + 1
    <2> SUFFICES ASSUME NEW p \in 1 .. n, NEW q \in 1 .. n PROVE f[q] <= f[p] + 1
        OBVIOUS
    <2>1. Rank(p, start, n) \in Int /\ Rank(q, start, n) \in Int
        BY <1>1, <1>3 DEF Rank
    <2>2. CASE Rank(p, start, n) <= Rank(q, start, n)
        BY <1>3, <2>2 DEF Steady
    <2>3. CASE Rank(q, start, n) <= Rank(p, start, n)
        <3>1. f[q] <= f[p]
            BY <1>3, <2>3 DEF Steady
        <3> QED BY <1>4, <3>1
    <2> QED BY <2>1, <2>2, <2>3
<1>6. least \in Nat /\ \A p \in 1 .. n : least <= f[p]
    <2>1. CASE P = {}
        BY <1>2, <2>1
    <2>2. CASE P # {}
        <3> DEFINE T == {total[i] : i \in P}
        <3>1. 1 \in 1 .. n
            BY <1>1, <1>2, <2>2
        <3>2. f[1] + 1 \in Nat
            BY <1>4, <3>1
        <3>3. T \subseteq 0 .. f[1] + 1
            <4>1. \A p \in 1 .. n : f[p] \in 0 .. f[1] + 1
                BY <1>4, <1>5, <3>1, <3>2
            <4>2. \A i \in P : \E p \in 1 .. n : total[i] = f[p]
                BY <1>2, <1>4
            <4> QED BY <4>1, <4>2
        <3>4. \A p \in 1 .. n : f[p] \in T
            BY <1>2, <1>4
        <3>5. least = Min(T)
            BY <2>2
        <3> HIDE DEF T, least
        <3>6. T # {}
            BY <3>1, <3>4
        <3>7. Min(T) \in T /\ \A y \in T : Min(T) <= y
            BY <3>2, <3>3, <3>6, LeastOf
        <3>8. Min(T) \in Nat
            <4> DEFINE m == Min(T)
            <4>1. m \in T
                BY <3>7
            <4> HIDE DEF m
            <4>2. m \in 0 .. f[1] + 1
                BY <3>3, <4>1
            <4>3. m \in Nat
                BY <3>2, <4>2
            <4> QED BY <4>3 DEF m
        <3>9. \A p \in 1 .. n : least <= f[p]
            BY <3>4, <3>5, <3>7
        <3> QED BY <3>5, <3>8, <3>9
    <2> QED BY <2>1, <2>2
<1> HIDE DEF least
<1>7. \A p \in 1 .. n : level[pool[p]] = f[p] - least
    BY <1>1, <1>2, <1>4
<1>8. level \in [WorkerIds -> Nat]
    <2>1. \A i \in P : total[i] - least \in Nat
        <3> SUFFICES ASSUME NEW i \in P PROVE total[i] - least \in Nat
            OBVIOUS
        <3>1. PICK p \in 1 .. n : i = pool[p]
            BY <1>2
        <3> QED BY <1>4, <1>6, <3>1
    <2> QED BY <2>1
<1> HIDE DEF level
<1>9. \A p \in 1 .. n : g[p] = f[p] - least
    BY <1>1, <1>7
<1> HIDE DEF g
<1>10. Steady(g, start, n)
    <2> SUFFICES ASSUME NEW p \in 1 .. n, NEW q \in 1 .. n,
                        Rank(p, start, n) <= Rank(q, start, n)
                 PROVE  g[p] <= g[q] /\ g[q] <= g[p] + 1
        BY DEF Steady
    <2>1. f[p] <= f[q] /\ f[q] <= f[p] + 1
        BY <1>3 DEF Steady
    <2> QED BY <1>4, <1>6, <1>9, <2>1
<1>11. Walk(level, pool, next)
    BY <1>10 DEF Walk, g, start, n
<1> QED BY <1>8, <1>11 DEF level, least, P

-----------------------------------------------------------------------------
(* The other policies *)

\* A list of workers, in some order, has a worker at every position.
LEMMA SomeOrder ==
    ASSUME NEW list, Listed(list), list # <<>>, NEW s \in SetToSeqs(ToSet(list))
    PROVE  /\ Len(s) \in Nat \ {0}
           /\ \A k \in 1 .. Len(s) : s[k].id \in WorkerIds
<1> DEFINE W == ToSet(list)
           n == Cardinality(W)
<1>1. DOMAIN list = 1 .. Len(list) /\ Len(list) \in Nat /\ W # {}
    BY DEF Listed, ToSet
<1>2. IsFiniteSet(W)
    <2>1. list \in [1 .. Len(list) -> W]
        BY <1>1 DEF Listed
    <2>2. list \in Surjection(1 .. Len(list), W)
        BY <1>1, <2>1 DEF Surjection, ToSet
    <2>3. IsFiniteSet(1 .. Len(list))
        BY <1>1, FS_Interval
    <2> HIDE DEF W
    <2> QED BY <2>2, <2>3, FS_Surjection
<1>3. n \in Nat \ {0}
    <2> HIDE DEF W
    <2> QED BY <1>1, <1>2, FS_CardinalityType, FS_EmptySet
<1>4. \A w \in W : w.id \in WorkerIds
    BY DEF Listed
<1>5. s \in [1 .. n -> W]
    BY DEF SetToSeqs
<1> HIDE DEF W, n
<1>6. s \in Seq(W) /\ Len(s) = n
    BY <1>3, <1>5
<1> QED BY <1>3, <1>4, <1>5, <1>6

\* Whoever a policy gives a single label to is a worker of the list.
LEMMA SolveOne ==
    ASSUME NEW list, Listed(list), NEW by, NEW weights, NEW intent, NEW next \in Nat,
           NEW r \in solve(by, 1, list, weights, intent, next), r.to # Nobody
    PROVE  r.to[1] \in WorkerIds
<1> DEFINE a == Available(list)
<1>1. Listed(a)
    BY AvailableOnes
<1>2. CASE by = "random"
    <2>1. r.to \in random(1, list)
        BY <1>2 DEF solve
    <2>2. r.to \in [1 .. 1 -> ToSet(Ids(list))]
        BY <2>1 DEF random
    <2>3. r.to[1] \in ToSet(Ids(list))
        BY <2>2
    <2> QED BY <2>3 DEF Listed, ToSet, Ids
<1>3. CASE by = "constraint"
    <2> DEFINE w == profile_for_intent(weights, intent)
               key == [v \in ToSet(a) |-> compute_score(v, w)]
               n_workers == Min({Len(a), Max({1, (1 + labels_per_worker - 1)
                                                   \div labels_per_worker})})
    <2>1. r.to \in constraint(1, list, w)
        BY <1>3 DEF solve
    <2> HIDE DEF w
    <2>2. a # <<>> /\ \E s \in Descending(a, key) :
                        r.to = [k \in 1 .. 1 |-> s[((k - 1) % n_workers) + 1].id]
        BY <2>1 DEF constraint, Nobody
    <2> HIDE DEF key, a
    <2>3. PICK s \in Descending(a, key) :
            r.to = [k \in 1 .. 1 |-> s[((k - 1) % n_workers) + 1].id]
        BY <2>2
    <2>4. s \in SetToSeqs(ToSet(a))
        BY DEF Descending
    <2>5. Len(s) \in Nat \ {0} /\ \A k \in 1 .. Len(s) : s[k].id \in WorkerIds
        BY <1>1, <2>2, <2>4, SomeOrder
    <2>6. n_workers = 1
        <3>1. Len(a) \in Nat \ {0}
            BY <1>1, <2>2 DEF Listed
        <3>2. (1 + labels_per_worker - 1) \div labels_per_worker = 1
            BY DEF labels_per_worker
        <3>3. n_workers = Min({Len(a), Max({1, 1})})
            BY <3>2
        <3>4. Max({1, 1}) = 1
            BY OfTwo
        <3>5. Min({Len(a), 1}) = 1
            BY <3>1, OfTwo
        <3> QED BY <3>3, <3>4, <3>5
    <2> HIDE DEF n_workers
    <2>7. r.to[1] = s[((1 - 1) % n_workers) + 1].id
        BY <2>3
    <2>8. (1 - 1) % n_workers = 0
        BY <2>6
    <2> QED BY <2>5, <2>7, <2>8
<1>4. CASE by = "minmax"
    <2>1. r.to \in minmax(1, list)
        BY <1>4 DEF solve
    <2> DEFINE key == [w \in ToSet(a) |-> Profit(w)]
    <2>2. a # <<>> /\ \E s \in Descending(a, key) :
                        \E reach \in SUBSET (1 .. Len(s)) :
                          r.to[1] = IF reach = {} THEN s[1].id ELSE s[Min(reach)].id
        <3>1. a # <<>>
            BY <2>1 DEF minmax, Nobody
        <3> DEFINE Reach(s, u, l) == {k \in 1 .. Len(s) : u[k] >= l}
        <3>2. PICK s \in Descending(a, key) :
                \E u : r.to = [l \in 1 .. 1 |->
                                IF Reach(s, u, l) = {} THEN s[1].id
                                ELSE s[Min(Reach(s, u, l))].id]
            BY <2>1, <3>1, Zenon DEF minmax
        <3>3. PICK u : r.to = [l \in 1 .. 1 |->
                                IF Reach(s, u, l) = {} THEN s[1].id
                                ELSE s[Min(Reach(s, u, l))].id]
            BY <3>2
        <3>4. Reach(s, u, 1) \in SUBSET (1 .. Len(s))
            OBVIOUS
        <3> HIDE DEF Reach
        <3>5. r.to[1] = IF Reach(s, u, 1) = {} THEN s[1].id ELSE s[Min(Reach(s, u, 1))].id
            BY <3>3
        <3> HIDE DEF key, a
        <3> QED BY <3>1, <3>4, <3>5
    <2> HIDE DEF key, a
    <2>3. PICK s \in Descending(a, key) :
            \E reach \in SUBSET (1 .. Len(s)) :
              r.to[1] = IF reach = {} THEN s[1].id ELSE s[Min(reach)].id
        BY <2>2
    <2>4. PICK reach \in SUBSET (1 .. Len(s)) :
            r.to[1] = IF reach = {} THEN s[1].id ELSE s[Min(reach)].id
        BY <2>3
    <2>5. s \in SetToSeqs(ToSet(a))
        BY DEF Descending
    <2>6. Len(s) \in Nat \ {0} /\ \A k \in 1 .. Len(s) : s[k].id \in WorkerIds
        BY <1>1, <2>2, <2>5, SomeOrder
    <2>7. CASE reach = {}
        BY <2>4, <2>6, <2>7
    <2>8. CASE reach # {}
        <3>1. reach \subseteq 0 .. Len(s) /\ Len(s) \in Nat
            BY <2>4, <2>6
        <3>2. Min(reach) \in reach
            BY <2>8, <3>1, LeastOf
        <3>3. Min(reach) \in 1 .. Len(s)
            BY <2>4, <3>2
        <3> QED BY <2>4, <2>6, <2>8, <3>3
    <2> QED BY <2>7, <2>8
<1>5. CASE by \notin {"random", "constraint", "minmax"}
    <2> DEFINE pool == Ids(a)
               n == Len(pool)
               start == IF next >= n THEN 0 ELSE next
    <2>1. r = round_robin(1, list, next)
        BY <1>5 DEF solve
    <2>2. pool # <<>> /\ r.to = [k \in 1 .. 1 |-> pool[((start + k - 1) % n) + 1]]
        BY <2>1 DEF round_robin, Nobody
    <2>3. pool \in Seq(WorkerIds)
        BY PoolIds
    <2> HIDE DEF pool
    <2>4. n \in Nat \ {0} /\ start \in Nat
        BY <2>2, <2>3
    <2>5. r.to[1] = pool[((start + 1 - 1) % n) + 1] /\ start + 1 - 1 = start
        BY <2>2, <2>4
    <2>6. start % n \in 0 .. n - 1
        BY <2>4, NextPosition
    <2>7. (start % n) + 1 \in 1 .. n
        BY <2>4, <2>6
    <2> QED BY <2>3, <2>5, <2>7
<1> QED BY <1>2, <1>3, <1>4, <1>5

LEMMA SolveCursor ==
    ASSUME NEW list, Listed(list), NEW by, NEW weights, NEW intent, NEW next \in Nat,
           NEW size \in Nat, NEW r \in solve(by, size, list, weights, intent, next)
    PROVE  r.next \in Nat
<1>1. CASE by \in {"random", "constraint", "minmax"}
    BY <1>1 DEF solve
<1>2. CASE by \notin {"random", "constraint", "minmax"}
    <2> DEFINE pool == Ids(Available(list))
               n == Len(pool)
               start == IF next >= n THEN 0 ELSE next
    <2>1. r = round_robin(size, list, next)
        BY <1>2 DEF solve
    <2>2. CASE pool = <<>>
        BY <2>1, <2>2 DEF round_robin
    <2>3. CASE pool # <<>>
        <3>1. pool \in Seq(WorkerIds)
            BY PoolIds
        <3>2. r.next = (start + size) % n
            BY <2>1, <2>3 DEF round_robin
        <3> HIDE DEF pool
        <3>3. n \in Nat \ {0} /\ start + size \in Nat
            BY <2>3, <3>1
        <3>4. (start + size) % n \in 0 .. n - 1
            BY <3>3, NextPosition
        <3> QED BY <3>2, <3>4
    <2> QED BY <2>2, <2>3
<1> QED BY <1>1, <1>2

-----------------------------------------------------------------------------
(* The manager *)

LEMMA RegistryInit == Init => RegistryInv
<1> SUFFICES ASSUME Init PROVE RegistryInv
    OBVIOUS
<1>1. DOMAIN workers_ = WorkerIds /\ \A i \in WorkerIds : workers_[i].id = i
    BY DEF Init, WorkerInfo
<1>2. buckets_ = [b \in 0 .. kNumBuckets - 1 |-> buckets_[b]] /\ last_profile_ = ""
    BY DEF Init
<1> QED BY <1>1, <1>2 DEF RegistryInv

\* A worker without a score is in no bucket after remove_from_buckets, and the
\* others stay where they were.
Others(i, b) == {j \in DOMAIN scores_ : j # i /\ bucket_index(scores_[j]) = b}

LEMMA RemovedFromBuckets ==
    ASSUME RegistryInv, last_profile_ # "", NEW i
    PROVE  /\ remove_from_buckets(i) = [b \in 0 .. kNumBuckets - 1 |-> remove_from_buckets(i)[b]]
           /\ \A b \in 0 .. kNumBuckets - 1 :
                remove_from_buckets(i)[b] = Others(i, b)
<1> DEFINE B == 0 .. kNumBuckets - 1
           at(j) == bucket_index(scores_[j])
<1>1. DOMAIN buckets_ = B
    BY DEF RegistryInv
<1>2. \A b \in B : buckets_[b] = {j \in DOMAIN scores_ : at(j) = b}
    BY DEF RegistryInv
<1>3. CASE i \in DOMAIN scores_
    <2>1. remove_from_buckets(i) = [buckets_ EXCEPT ![at(i)] = @ \ {i}]
        BY <1>3 DEF remove_from_buckets
    <2> HIDE DEF B, at
    <2>2. \A b \in B : remove_from_buckets(i)[b]
                         = IF b = at(i) THEN buckets_[b] \ {i} ELSE buckets_[b]
        BY <1>1, <2>1
    <2>3. \A b \in B : remove_from_buckets(i)[b] = {j \in DOMAIN scores_ : j # i /\ at(j) = b}
        BY <1>2, <2>2
    <2>4. remove_from_buckets(i) = [b \in B |-> remove_from_buckets(i)[b]]
        BY <1>1, <2>1
    <2> QED BY <2>3, <2>4 DEF B, at, Others
<1>4. CASE i \notin DOMAIN scores_
    <2>1. remove_from_buckets(i) = buckets_
        BY <1>4 DEF remove_from_buckets
    <2> HIDE DEF B, at
    <2>2. \A b \in B : buckets_[b] = {j \in DOMAIN scores_ : j # i /\ at(j) = b}
        BY <1>2, <1>4
    <2>3. buckets_ = [b \in B |-> buckets_[b]]
        BY DEF RegistryInv, B
    <2> QED BY <2>1, <2>2, <2>3 DEF B, at, Others
<1> QED BY <1>3, <1>4

\* A new or changed worker.
LEMMA Rebucketed ==
    ASSUME RegistryInv, NEW i \in WorkerIds, NEW info, info.id = i, Rebucket(info),
           DOMAIN workers_' = DOMAIN workers_ \cup {i},
           workers_'[i] = info, \A j \in DOMAIN workers_ \ {i} : workers_'[j] = workers_[j],
           last_profile_' = last_profile_
    PROVE  RegistryInv'
<1>1. DOMAIN workers_' \subseteq WorkerIds /\ \A j \in DOMAIN workers_' : workers_'[j].id = j
    BY DEF RegistryInv
<1>2. CASE last_profile_ = ""
    BY <1>1, <1>2 DEF RegistryInv, Rebucket
<1>3. CASE last_profile_ # ""
    <2> DEFINE B == 0 .. kNumBuckets - 1
               score == compute_score(info, Weights[last_profile_])
               rest == remove_from_buckets(i)
    <2>1. scores_' = Put(scores_, i, score)
          /\ buckets_' = [rest EXCEPT ![bucket_index(score)] = @ \cup {i}]
        BY <1>3 DEF Rebucket, place_in_bucket
    <2>2. DOMAIN scores_ = DOMAIN workers_
          /\ \A j \in DOMAIN workers_ :
               scores_[j] = compute_score(workers_[j], Weights[last_profile_])
        BY <1>3 DEF RegistryInv
    <2>3. DOMAIN scores_' = DOMAIN workers_' /\ scores_'[i] = score
          /\ \A j \in DOMAIN workers_ \ {i} : scores_'[j] = scores_[j]
        <3> HIDE DEF score
        <3> QED BY <2>1, <2>2 DEF Put
    <2>4. scores_' = [j \in DOMAIN workers_' |->
                        compute_score(workers_'[j], Weights[last_profile_])]
        <3>1. \A j \in DOMAIN workers_' :
                scores_'[j] = compute_score(workers_'[j], Weights[last_profile_])
            BY <2>2, <2>3
        <3>2. scores_' = [j \in DOMAIN scores_' |-> scores_'[j]]
            BY <2>1 DEF Put
        <3> QED BY <2>3, <3>1, <3>2
    <2>5. rest = [b \in B |-> rest[b]]
          /\ \A b \in B : rest[b] = Others(i, b)
        BY <1>3, RemovedFromBuckets
    <2> HIDE DEF rest, B, score
    <2>6. buckets_' = [b \in B |-> buckets_'[b]]
          /\ \A b \in B : buckets_'[b] = IF b = bucket_index(score) THEN rest[b] \cup {i} ELSE rest[b]
        BY <2>1, <2>5
    <2>7. \A b \in B : buckets_'[b] = {j \in DOMAIN scores_' : bucket_index(scores_'[j]) = b}
        <3> SUFFICES ASSUME NEW b \in B
                     PROVE  buckets_'[b] = {j \in DOMAIN scores_' : bucket_index(scores_'[j]) = b}
            OBVIOUS
        <3>1. rest[b] = {j \in DOMAIN scores_' \ {i} : bucket_index(scores_'[j]) = b}
            BY <2>2, <2>3, <2>5 DEF Others
        <3> QED BY <2>3, <2>6, <3>1
    <2> QED BY <1>1, <2>4, <2>6, <2>7 DEF RegistryInv, B
<1> QED BY <1>2, <1>3

LEMMA RegisterInv ==
    ASSUME RegistryInv, NEW i \in WorkerIds, register_worker(i)
    PROVE  RegistryInv'
<1> DEFINE info == WorkerInfo(i, TRUE, 0, Traits[i])
<1>1. workers_' = Put(workers_, i, info) /\ Rebucket(info) /\ last_profile_' = last_profile_
    BY DEF register_worker, ChangeRegistry
<1>2. info.id = i
    BY DEF WorkerInfo
<1> HIDE DEF info
<1>3. DOMAIN workers_' = DOMAIN workers_ \cup {i} /\ workers_'[i] = info
      /\ \A j \in DOMAIN workers_ \ {i} : workers_'[j] = workers_[j]
    BY <1>1 DEF Put
<1> QED BY <1>1, <1>2, <1>3, Rebucketed

LEMMA UpdateInv ==
    ASSUME RegistryInv, NEW i \in WorkerIds, NEW available, NEW load,
           update_score(i, available, load)
    PROVE  RegistryInv'
<1> DEFINE info == WorkerInfo(i, available, load, Traits[i])
<1>1. i \in DOMAIN workers_ /\ workers_' = [workers_ EXCEPT ![i] = info]
      /\ Rebucket(info) /\ last_profile_' = last_profile_
    BY DEF update_score, ChangeRegistry
<1>2. info.id = i
    BY DEF WorkerInfo
<1> HIDE DEF info
<1>3. DOMAIN workers_' = DOMAIN workers_ \cup {i} /\ workers_'[i] = info
      /\ \A j \in DOMAIN workers_ \ {i} : workers_'[j] = workers_[j]
    BY <1>1
<1> QED BY <1>1, <1>2, <1>3, Rebucketed

LEMMA DeregisterInv ==
    ASSUME RegistryInv, NEW i \in WorkerIds, deregister_worker(i)
    PROVE  RegistryInv'
<1>1. workers_' = [j \in DOMAIN workers_ \ {i} |-> workers_[j]]
      /\ scores_' = [j \in DOMAIN scores_ \ {i} |-> scores_[j]]
      /\ buckets_' = remove_from_buckets(i) /\ last_profile_' = last_profile_
    BY DEF deregister_worker, ChangeRegistry, Restrict
<1>2. DOMAIN workers_' \subseteq WorkerIds /\ \A j \in DOMAIN workers_' : workers_'[j].id = j
    BY <1>1 DEF RegistryInv
<1>3. CASE last_profile_ = ""
    <2> DEFINE B == 0 .. kNumBuckets - 1
    <2>1. buckets_ = [b \in B |-> buckets_[b]]
        BY DEF RegistryInv
    <2> HIDE DEF B
    <2>2. buckets_' = [b \in B |-> buckets_'[b]]
        BY <1>1, <2>1 DEF remove_from_buckets
    <2> QED BY <1>1, <1>2, <1>3, <2>2 DEF RegistryInv, B
<1>4. CASE last_profile_ # ""
    <2> DEFINE B == 0 .. kNumBuckets - 1
    <2>1. buckets_' = [b \in B |-> buckets_'[b]]
          /\ \A b \in B :
               buckets_'[b] = Others(i, b)
        BY <1>1, <1>4, RemovedFromBuckets
    <2>2. scores_ = [j \in DOMAIN workers_ |->
                       compute_score(workers_[j], Weights[last_profile_])]
        BY <1>4 DEF RegistryInv
    <2>3. scores_' = [j \in DOMAIN workers_' |->
                        compute_score(workers_'[j], Weights[last_profile_])]
        <3>1. DOMAIN scores_ = DOMAIN workers_ /\ DOMAIN workers_' = DOMAIN workers_ \ {i}
            BY <1>1, <2>2
        <3>2. \A j \in DOMAIN workers_' :
                scores_[j] = compute_score(workers_'[j], Weights[last_profile_])
            BY <1>1, <2>2
        <3> QED BY <1>1, <3>1, <3>2
    <2> HIDE DEF B
    <2>4. \A b \in B : buckets_'[b] = {j \in DOMAIN scores_' : bucket_index(scores_'[j]) = b}
        BY <1>1, <2>1 DEF Others
    <2> QED BY <1>1, <1>2, <2>1, <2>3, <2>4 DEF RegistryInv, B
<1> QED BY <1>3, <1>4

LEMMA QueryInv ==
    ASSUME RegistryInv, NEW profile \in DOMAIN Weights, top_n_workers(profile)
    PROVE  RegistryInv'
<1> DEFINE B == 0 .. kNumBuckets - 1
           score == [i \in DOMAIN workers_ |-> compute_score(workers_[i], Weights[profile])]
<1>1. scores_' = score
      /\ buckets_' = [b \in DOMAIN buckets_ |-> {i \in DOMAIN score : bucket_index(score[i]) = b}]
      /\ last_profile_' = profile /\ workers_' = workers_
    BY DEF top_n_workers
<1>2. DOMAIN buckets_ = B
    BY DEF RegistryInv
<1>3. scores_' = [i \in DOMAIN workers_' |-> compute_score(workers_'[i], Weights[last_profile_'])]
    BY <1>1
<1> HIDE DEF score, B
<1>4. \A b \in B : buckets_'[b] = {i \in DOMAIN scores_' : bucket_index(scores_'[i]) = b}
    BY <1>1, <1>2
<1>5. buckets_' = [b \in B |-> buckets_'[b]]
    BY <1>1, <1>2
<1> QED BY <1>1, <1>3, <1>4, <1>5 DEF RegistryInv, B

\* Everyone else leaves the registry alone.
LEMMA RegistryKept ==
    ASSUME RegistryInv, UNCHANGED managerVars
    PROVE  RegistryInv'
<1>1. workers_' = workers_ /\ scores_' = scores_ /\ buckets_' = buckets_
      /\ last_profile_' = last_profile_
    BY DEF managerVars
<1> QED BY <1>1 DEF RegistryInv

LEMMA RegistryNext == RegistryInv /\ [Next]_schedvars => RegistryInv'
<1> SUFFICES ASSUME RegistryInv, [Next]_schedvars PROVE RegistryInv'
    OBVIOUS
<1>1. ASSUME NEW i \in WorkerIds, register_worker(i) PROVE RegistryInv'
    BY <1>1, RegisterInv
<1>2. ASSUME NEW i \in WorkerIds, NEW available \in BOOLEAN, NEW load \in Loads,
             update_score(i, available, load)
      PROVE  RegistryInv'
    BY <1>2, UpdateInv
<1>3. ASSUME NEW i \in WorkerIds, deregister_worker(i) PROVE RegistryInv'
    BY <1>3, DeregisterInv
<1>4. ASSUME NEW p \in DOMAIN Weights, top_n_workers(p) PROVE RegistryInv'
    BY <1>4, QueryInv
<1>5. ASSUME NEW i \in WorkerIds, ScheduleByLocality(i) PROVE RegistryInv'
    BY <1>5, RegistryKept DEF ScheduleByLocality, PublishTo
<1>6. CASE RefreshWorkers
    BY <1>6, RegistryKept DEF RefreshWorkers
<1>7. ASSUME NEW n \in Batches, NEW intent \in Intents, SolveBatch(n, intent) PROVE RegistryInv'
    BY <1>7, RegistryKept DEF SolveBatch
<1>8. ASSUME NEW p \in Params, create_label(p) PROVE RegistryInv'
    BY <1>8, RegistryKept DEF create_label
<1>9. CASE publish \/ ReceiveLabel \/ Shuffle \/ DropLabel \/ ExecuteLabel
    BY <1>9, RegistryKept DEF publish, ReceiveLabel, Shuffle, DropLabel, ExecuteLabel
<1>10. CASE ScheduleLabel
    BY <1>10, RegistryKept DEF ScheduleLabel, PublishTo
<1>11. ASSUME NEW ok \in BOOLEAN, FinishLabel(ok) PROVE RegistryInv'
    BY <1>11, RegistryKept DEF FinishLabel
<1>12. CASE ReceiveCompletion \/ Tick
    BY <1>12, RegistryKept DEF ReceiveCompletion, Tick
<1>13. CASE UNCHANGED schedvars
    BY <1>13, RegistryKept DEF schedvars
<1> QED BY <1>1, <1>2, <1>3, <1>4, <1>5, <1>6, <1>7, <1>8, <1>9, <1>10, <1>11, <1>12, <1>13 DEF Next

LEMMA InBuckets == RegistryInv => BucketsCurrent
<1> SUFFICES ASSUME RegistryInv, last_profile_ # "" PROVE BucketsCurrent
    BY DEF BucketsCurrent
<1> DEFINE B == 0 .. kNumBuckets - 1
           place == [i \in DOMAIN workers_ |->
                       bucket_index(compute_score(workers_[i], Weights[last_profile_]))]
<1>1. DOMAIN buckets_ = B
      /\ \A b \in B : buckets_[b] = {i \in DOMAIN scores_ : bucket_index(scores_[i]) = b}
    BY DEF RegistryInv
<1>2. DOMAIN scores_ = DOMAIN workers_
      /\ \A i \in DOMAIN workers_ : bucket_index(scores_[i]) = place[i]
    BY DEF RegistryInv
<1> HIDE DEF B, place
<1>3. \A b \in B : buckets_[b] = {i \in DOMAIN workers_ : place[i] = b}
    BY <1>1, <1>2
<1> QED BY <1>1, <1>3 DEF BucketsCurrent, place

\* A registered worker is in the bucket of its score, and in no other.
THEOREM BucketsFollowScores == Spec => []BucketsCurrent
<1>1. Spec => []RegistryInv
    BY RegistryInit, RegistryNext, PTL DEF Spec
<1> QED BY <1>1, InBuckets, PTL

-----------------------------------------------------------------------------
(* The dispatcher *)

LEMMA NobodyServed ==
    ASSUME NEW list, Listed(list), NEW next
    PROVE  Walk([i \in WorkerIds |-> 0], Ids(Available(list)), next)
<1> DEFINE pool == Ids(Available(list))
<1>1. pool \in Seq(WorkerIds)
    BY PoolIds
<1> HIDE DEF pool
<1>2. DOMAIN pool = 1 .. Len(pool) /\ \A p \in 1 .. Len(pool) : pool[p] \in WorkerIds
    BY <1>1
<1>3. \A p \in 1 .. Len(pool) : [i \in WorkerIds |-> 0][pool[p]] = 0
    BY <1>2
<1> QED BY <1>2, <1>3 DEF Walk, Steady, pool

LEMMA DispatcherInit == Init => DispatcherInv
<1> SUFFICES ASSUME Init PROVE DispatcherInv
    OBVIOUS
<1>1. cached = <<>> /\ next_ = 0 /\ policy \in Policies /\ given = [i \in WorkerIds |-> 0]
    BY DEF Init
<1>2. Listed(cached)
    BY <1>1, NoneListed
<1>3. Walk([i \in WorkerIds |-> 0], Ids(Available(cached)), next_)
    BY <1>2, NobodyServed
<1>4. given \in [WorkerIds -> Nat]
    BY <1>1
<1> QED BY <1>1, <1>2, <1>3, <1>4 DEF DispatcherInv

\* A solver's answer for a batch is noted.
LEMMA Assigned ==
    ASSUME DispatcherInv, NEW n \in Nat, NEW intent,
           NEW r \in solve(policy, n, cached, Weights[Profile], intent, next_),
           r.to # Nobody, Assign(n, intent, r), policy' = policy, cached' = cached
    PROVE  DispatcherInv'
<1>1. Listed(cached) /\ next_ \in Nat /\ next_' = r.next /\ given' = Tally(r.to)
    BY DEF DispatcherInv, Assign
<1>2. r.next \in Nat
    BY <1>1, SolveCursor
<1>3. CASE policy # "round-robin"
    <2>1. given' = given
        BY <1>1, <1>3 DEF Tally
    <2> QED BY <1>1, <1>2, <1>3, <2>1 DEF DispatcherInv
<1>4. CASE policy = "round-robin"
    <2> DEFINE to == r.to
               pool == Ids(Available(cached))
               P == ToSet(pool)
               total == [i \in WorkerIds |-> given[i] + CountOf(to)[i]]
               least == IF P = {} THEN 0 ELSE Min({total[i] : i \in P})
               level == [i \in WorkerIds |-> IF i \in P THEN total[i] - least ELSE total[i]]
    <2>1. r = round_robin(n, cached, next_)
        BY <1>4 DEF solve
    <2>2. given \in [WorkerIds -> Nat] /\ Walk(given, pool, next_)
        BY <1>4 DEF DispatcherInv
    <2>3. pool \in Seq(WorkerIds)
        BY <1>1, PoolIds
    <2>4. total \in [WorkerIds -> Nat] /\ Walk(total, pool, r.next)
        BY <1>1, <2>1, <2>2, RoundRobinServes
    <2>5. given' = level
        BY <1>1, <1>4 DEF Tally
    <2> HIDE DEF total, pool
    <2>6. level \in [WorkerIds -> Nat] /\ Walk(level, pool, r.next)
        BY <1>2, <2>3, <2>4, LevelPool
    <2> HIDE DEF level
    <2>7. Walk(given', Ids(Available(cached')), next_')
        BY <1>1, <2>5, <2>6 DEF pool
    <2> QED BY <1>1, <1>2, <1>4, <2>5, <2>6, <2>7 DEF DispatcherInv
<1> QED BY <1>3, <1>4

\* A new list of workers starts a new count.
LEMMA RefreshedList ==
    ASSUME RegistryInv, DispatcherInv, RefreshWorkers
    PROVE  DispatcherInv'
<1>1. Listed(cached')
    BY NoneListed, AllListed DEF RefreshWorkers
<1>2. given' = [i \in WorkerIds |-> 0] /\ policy' = policy /\ next_' = next_
    BY DEF RefreshWorkers
<1>3. Walk([i \in WorkerIds |-> 0], Ids(Available(cached')), next_)
    BY <1>1, NobodyServed
<1>4. [i \in WorkerIds |-> 0] \in [WorkerIds -> Nat]
    OBVIOUS
<1> QED BY <1>1, <1>2, <1>3, <1>4 DEF DispatcherInv

LEMMA DispatcherKept ==
    ASSUME DispatcherInv, UNCHANGED <<policy, cached, next_, given>>
    PROVE  DispatcherInv'
<1>1. policy' = policy /\ cached' = cached /\ next_' = next_ /\ given' = given
    OBVIOUS
<1> QED BY <1>1 DEF DispatcherInv

LEMMA DispatcherNext == RegistryInv /\ DispatcherInv /\ [Next]_schedvars => DispatcherInv'
<1> SUFFICES ASSUME RegistryInv, DispatcherInv, [Next]_schedvars PROVE DispatcherInv'
    OBVIOUS
<1> USE DispatcherKept DEF solverVars
<1>1. ASSUME NEW i \in WorkerIds, register_worker(i) PROVE DispatcherInv'
    BY <1>1 DEF register_worker, ChangeRegistry
<1>2. ASSUME NEW i \in WorkerIds, NEW available \in BOOLEAN, NEW load \in Loads,
             update_score(i, available, load)
      PROVE  DispatcherInv'
    BY <1>2 DEF update_score, ChangeRegistry
<1>3. ASSUME NEW i \in WorkerIds, deregister_worker(i) PROVE DispatcherInv'
    BY <1>3 DEF deregister_worker, ChangeRegistry
<1>4. ASSUME NEW p \in DOMAIN Weights, top_n_workers(p) PROVE DispatcherInv'
    BY <1>4 DEF top_n_workers
<1>5. ASSUME NEW i \in WorkerIds, ScheduleByLocality(i) PROVE DispatcherInv'
    BY <1>5 DEF ScheduleByLocality, PublishTo
<1>6. CASE RefreshWorkers
    BY <1>6, RefreshedList
<1>7. ASSUME NEW n \in Batches, NEW intent \in Intents, SolveBatch(n, intent)
      PROVE  DispatcherInv'
    <2>1. PICK r \in solve(policy, n, cached, Weights[Profile], intent, next_) :
            r.to # Nobody /\ Assign(n, intent, r)
        BY <1>7 DEF SolveBatch
    <2>2. policy' = policy /\ cached' = cached
        BY <1>7 DEF SolveBatch
    <2>3. n \in Nat
        BY SchedulingAssumption
    <2> QED BY <2>1, <2>2, <2>3, Assigned
<1>8. ASSUME NEW p \in Params, create_label(p) PROVE DispatcherInv'
    BY <1>8 DEF create_label
<1>9. CASE publish \/ ReceiveLabel \/ Shuffle \/ DropLabel \/ ExecuteLabel
    BY <1>9 DEF publish, ReceiveLabel, Shuffle, DropLabel, ExecuteLabel
<1>10. CASE ScheduleLabel
    <2>1. PICK r \in solve(policy, 1, cached, Weights[Profile], label.intent, next_) :
            /\ r.to # Nobody
            /\ Assign(1, label.intent, r)
            /\ PublishTo(r.to[1], policy)
        BY <1>10 DEF ScheduleLabel
    <2>2. policy' = policy /\ cached' = cached
        BY <2>1 DEF PublishTo
    <2> QED BY <2>1, <2>2, Assigned
<1>11. ASSUME NEW ok \in BOOLEAN, FinishLabel(ok) PROVE DispatcherInv'
    BY <1>11 DEF FinishLabel
<1>12. CASE ReceiveCompletion \/ Tick
    BY <1>12 DEF ReceiveCompletion, Tick
<1>13. CASE UNCHANGED schedvars
    BY <1>13 DEF schedvars
<1> QED BY <1>1, <1>2, <1>3, <1>4, <1>5, <1>6, <1>7, <1>8, <1>9, <1>10, <1>11, <1>12, <1>13 DEF Next

LEMMA NobodyFavoured == DispatcherInv => RoundRobinFair
<1> SUFFICES ASSUME DispatcherInv PROVE RoundRobinFair
    OBVIOUS
<1> DEFINE P == {w.id : w \in {w \in ToSet(cached) : w.available}}
           pool == Ids(Available(cached))
           n == Len(pool)
           start == Start(next_, n)
<1>1. pool \in Seq(WorkerIds) /\ ToSet(pool) = P
    BY PoolIds DEF DispatcherInv
<1> SUFFICES ASSUME NEW i \in P, NEW j \in P PROVE given[i] <= given[j] + 1
    BY DEF RoundRobinFair
<1>2. i \in WorkerIds /\ j \in WorkerIds
    BY DEF DispatcherInv, Listed
<1>3. CASE policy # "round-robin"
    <2>1. given[i] = 0 /\ given[j] = 0
        BY <1>2, <1>3 DEF DispatcherInv
    <2> QED BY <2>1
<1>4. CASE policy = "round-robin"
    <2>1. Walk(given, pool, next_) /\ next_ \in Nat /\ given \in [WorkerIds -> Nat]
        BY <1>4 DEF DispatcherInv
    <2> HIDE DEF pool, P
    <2>2. n \in Nat /\ DOMAIN pool = 1 .. n
        BY <1>1
    <2>3. PICK p \in 1 .. n, q \in 1 .. n : i = pool[p] /\ j = pool[q]
        BY <1>1, <2>2 DEF ToSet
    <2> DEFINE f == [k \in DOMAIN pool |-> given[pool[k]]]
    <2>4. Steady(f, start, n)
        BY <2>1 DEF Walk
    <2>5. f[p] = given[i] /\ f[q] = given[j]
        BY <2>2, <2>3
    <2> HIDE DEF n, f
    <2>6. start \in Int
        BY <2>1, <2>2 DEF Start
    <2> HIDE DEF start
    <2>7. Rank(p, start, n) \in Int /\ Rank(q, start, n) \in Int
        BY <2>2, <2>6 DEF Rank
    <2>8. CASE Rank(q, start, n) <= Rank(p, start, n)
        BY <2>4, <2>5, <2>8 DEF Steady
    <2>9. CASE Rank(p, start, n) <= Rank(q, start, n)
        <3>1. f[p] <= f[q]
            BY <2>4, <2>9 DEF Steady
        <3>2. given[i] \in Nat /\ given[j] \in Nat
            BY <1>2, <2>1
        <3> QED BY <2>5, <3>1, <3>2
    <2> QED BY <2>7, <2>8, <2>9
<1> QED BY <1>3, <1>4

\* Round robin is fair among the available workers of the list, over batches and
\* single labels.
THEOREM RoundRobinIsFair == Spec => []RoundRobinFair
<1>1. Spec => [](RegistryInv /\ DispatcherInv)
    BY RegistryInit, RegistryNext, DispatcherInit, DispatcherNext, PTL DEF Spec
<1> QED BY <1>1, NobodyFavoured, PTL

-----------------------------------------------------------------------------
(* The label over the wire *)

LEMMA FieldNames ==
    DOMAIN LabelData =
      {"id", "type", "source", "destination", "operation", "flags", "data_size", "intent",
       "reply_to", "file_key", "source_uri", "dest_uri", "pipeline", "continuation",
       "dependencies", "children", "routing", "supertask_id", "aggregation",
       "score_snapshot", "hops", "status", "created_us", "queued_us", "dispatched_us",
       "started_us", "completed_us", "result"}
BY DEF LabelData

\* What is not written has the value that the reader puts in its place.
LEMMA RoundTrip ==
    ASSUME NEW l, Sound(l)
    PROVE  deserialize_label(serialize_label(l)) = l
<1> DEFINE F == DOMAIN LabelData
           buf == serialize_label(l)
           d == deserialize_label(buf)
<1>1. l = [f \in F |-> l[f]]
    BY DEF Sound
<1>2. DOMAIN buf = Written(l) /\ \A f \in Written(l) : buf[f] = l[f]
    BY DEF serialize_label
<1> HIDE DEF buf
<1>3. d = [f \in F |-> IF f \in DOMAIN buf THEN buf[f] ELSE SchemaDefault[f]]
    BY DEF deserialize_label
<1> HIDE DEF d
<1>4. \A f \in F : f \notin Written(l) => SchemaDefault[f] = l[f]
    <2> SUFFICES ASSUME NEW f \in F, f \notin Written(l) PROVE SchemaDefault[f] = l[f]
        OBVIOUS
    <2>1. CASE f \in Plain
        BY <2>1 DEF Written
    <2>2. CASE f \notin Plain
        <3>1. f \in {"source", "destination", "continuation", "routing", "aggregation",
                     "score_snapshot", "result"}
            BY <2>2 DEF Plain
        <3>2. f \notin {"source", "destination"}
            BY DEF Written
        <3>3. SchemaDefault.continuation = NoContinuation
              /\ SchemaDefault.routing = NoRouting
              /\ SchemaDefault.aggregation = NoAggregation
              /\ SchemaDefault.score_snapshot = NoSnapshot
              /\ SchemaDefault.result = NoResult
            BY DEF SchemaDefault, LabelData
        <3>4. CASE f = "continuation"
            <4>1. l.continuation.kind = "None"
                BY <3>4 DEF Written
            <4> QED BY <3>3, <3>4, <4>1 DEF Sound
        <3>5. CASE f = "routing"
            <4>1. l.routing.worker_id = 0 /\ l.routing.policy = ""
                BY <3>5 DEF Written
            <4> QED BY <3>3, <3>5, <4>1 DEF Sound
        <3>6. CASE f = "aggregation"
            <4>1. l.aggregation.original_ids = <<>>
                BY <3>6 DEF Written
            <4> QED BY <3>3, <3>6, <4>1 DEF Sound
        <3>7. CASE f = "score_snapshot"
            <4>1. l.score_snapshot = NoSnapshot
                BY <3>7 DEF Written
            <4> QED BY <3>3, <3>7, <4>1
        <3>8. CASE f = "result"
            <4>1. l.result = NoResult
                BY <3>8 DEF Written
            <4> QED BY <3>3, <3>8, <4>1
        <3> QED BY <3>1, <3>2, <3>4, <3>5, <3>6, <3>7, <3>8
    <2> QED BY <2>1, <2>2
<1>5. \A f \in F : d[f] = l[f]
    BY <1>2, <1>3, <1>4
<1>6. d = [f \in F |-> d[f]]
    BY <1>3
<1>7. d = l
    <2> HIDE DEF F
    <2> QED BY <1>1, <1>5, <1>6
<1> QED BY <1>7 DEF d, buf

LEMMA CompletionRoundTrip ==
    ASSUME NEW id, NEW status, NEW error, NEW data_key
    PROVE  LET comp == [label_id |-> id, status |-> status, error |-> error,
                        data_key |-> data_key]
           IN  deserialize_completion(serialize_completion(comp)) = comp
<1> DEFINE comp == [label_id |-> id, status |-> status, error |-> error,
                    data_key |-> data_key]
           buf == serialize_completion(comp)
           d == deserialize_completion(buf)
           F == DOMAIN comp
<1>1. DOMAIN CompletionDefault = F /\ comp = [f \in F |-> comp[f]]
    BY DEF CompletionDefault
<1> HIDE DEF comp, F
<1>2. DOMAIN buf = {f \in F : comp[f] # CompletionDefault[f]}
      /\ \A f \in DOMAIN buf : buf[f] = comp[f]
    BY DEF serialize_completion, F
<1> HIDE DEF buf
<1>3. d = [f \in F |-> IF f \in DOMAIN buf THEN buf[f] ELSE CompletionDefault[f]]
    BY <1>1 DEF deserialize_completion
<1> HIDE DEF d
<1>4. \A f \in F : d[f] = comp[f]
    BY <1>2, <1>3
<1>5. d = comp
    BY <1>1, <1>3, <1>4
<1> QED BY <1>5 DEF d, buf, comp

-----------------------------------------------------------------------------
(* The marks on the label *)

\* All but these fields are as before.
Same(m, l, changed) ==
    /\ m = [f \in DOMAIN LabelData |-> m[f]]
    /\ \A f \in DOMAIN LabelData \ changed : m[f] = l[f]

LEMMA SoundKept ==
    ASSUME NEW l, Sound(l), NEW m, NEW changed, Same(m, l, changed),
           {"continuation", "routing", "aggregation"} \cap changed = {}
    PROVE  Sound(m)
<1>1. {"continuation", "routing", "aggregation"} \subseteq DOMAIN LabelData
    BY FieldNames
<1>2. m.continuation = l.continuation /\ m.routing = l.routing /\ m.aggregation = l.aggregation
    BY <1>1 DEF Same
<1> QED BY <1>2 DEF Sound, Same

LEMMA CreatedOnce ==
    ASSUME NEW l, Sound(l), l.created_us # 0, NEW ts
    PROVE  Created(l, ts) = l
<1> DEFINE F == DOMAIN LabelData
<1>1. l = [f \in F |-> l[f]]
    BY DEF Sound
<1> HIDE DEF F
<1> QED BY <1>1 DEF Created

LEMMA QueuedMark ==
    ASSUME NEW l, Sound(l), l.created_us # 0, NEW ts
    PROVE  LET m == mark_label_queued([l EXCEPT !.reply_to = "inbox"], ts)
           IN  /\ Same(m, l, {"reply_to", "flags", "queued_us", "status"})
               /\ m.flags = l.flags \cup {"Queued"}
               /\ m.queued_us = ts
<1> DEFINE F == DOMAIN LabelData
           m == mark_label_queued([l EXCEPT !.reply_to = "inbox"], ts)
<1>1. l = [f \in F |-> l[f]]
    BY DEF Sound
<1>2. {"reply_to", "flags", "queued_us", "status", "created_us"} \subseteq F
    BY FieldNames
<1> HIDE DEF F
<1>3. m = [l EXCEPT !.reply_to = "inbox", !.flags = @ \cup {"Queued"}, !.queued_us = ts,
                    !.status = "Queued"]
    BY <1>1, <1>2 DEF mark_label_queued, Created
<1> HIDE DEF m
<1>4. Same(m, l, {"reply_to", "flags", "queued_us", "status"})
    BY <1>1, <1>2, <1>3 DEF Same, F
<1>5. m.flags = l.flags \cup {"Queued"} /\ m.queued_us = ts
    BY <1>1, <1>2, <1>3
<1> QED BY <1>4, <1>5 DEF m

LEMMA ShuffledMark ==
    ASSUME NEW l, Sound(l), l.created_us # 0, NEW ts
    PROVE  LET m == mark_label_shuffled(l, ts)
           IN  /\ Same(m, l, {"status", "hops"})
               /\ m.hops = Append(l.hops, Hop("shuffler", ts))
<1> DEFINE F == DOMAIN LabelData
           m == mark_label_shuffled(l, ts)
<1>1. l = [f \in F |-> l[f]]
    BY DEF Sound
<1>2. {"status", "hops"} \subseteq F
    BY FieldNames
<1> HIDE DEF F
<1>3. m = [[l EXCEPT !.status = "Shuffled"] EXCEPT !.hops = Append(@, Hop("shuffler", ts))]
    BY CreatedOnce DEF mark_label_shuffled, append_label_hop, Hop
<1> HIDE DEF m
<1>4. Same(m, l, {"status", "hops"})
    BY <1>1, <1>2, <1>3 DEF Same, F
<1>5. m.hops = Append(l.hops, Hop("shuffler", ts))
    BY <1>1, <1>2, <1>3
<1> QED BY <1>4, <1>5 DEF m

LEMMA ScheduledMark ==
    ASSUME NEW l, Sound(l), l.created_us # 0, NEW i, NEW why, NEW snapshot, NEW ts
    PROVE  LET m == mark_label_scheduled(l, i, why, snapshot, ts)
           IN  /\ Same(m, l, {"flags", "routing", "score_snapshot", "dispatched_us",
                              "status", "hops"})
               /\ m.flags = l.flags \cup {"Scheduled"}
               /\ m.routing = [worker_id |-> i, policy |-> why]
               /\ m.dispatched_us = ts
               /\ m.hops = Append(l.hops, Hop("scheduler", ts))
<1> DEFINE F == DOMAIN LabelData
           m == mark_label_scheduled(l, i, why, snapshot, ts)
           changed == {"flags", "routing", "score_snapshot", "dispatched_us", "status", "hops"}
<1>1. l = [f \in F |-> l[f]]
    BY DEF Sound
<1>2. changed \subseteq F
    BY FieldNames
<1> HIDE DEF F
<1>3. m = [[l EXCEPT !.flags = @ \cup {"Scheduled"},
                     !.routing = [worker_id |-> i, policy |-> why],
                     !.score_snapshot = snapshot, !.dispatched_us = ts,
                     !.status = "Scheduled"]
             EXCEPT !.hops = Append(@, Hop("scheduler", ts))]
    BY CreatedOnce DEF mark_label_scheduled, append_label_hop, Hop
<1> HIDE DEF m
<1>4. Same(m, l, changed)
    BY <1>1, <1>2, <1>3 DEF Same, F
<1>5. m.flags = l.flags \cup {"Scheduled"} /\ m.routing = [worker_id |-> i, policy |-> why]
      /\ m.dispatched_us = ts /\ m.hops = Append(l.hops, Hop("scheduler", ts))
    BY <1>1, <1>2, <1>3
<1> QED BY <1>4, <1>5 DEF m

LEMMA ExecutingMark ==
    ASSUME NEW l, Sound(l), l.created_us # 0, NEW name, Named(name), NEW ts
    PROVE  LET m == mark_label_executing(l, name, ts)
           IN  /\ Same(m, l, {"flags", "started_us", "status", "hops"})
               /\ m.flags = l.flags \cup {"Pending"}
               /\ m.started_us = ts
               /\ m.hops = Append(l.hops, Hop(name, ts))
<1> DEFINE F == DOMAIN LabelData
           m == mark_label_executing(l, name, ts)
           changed == {"flags", "started_us", "status", "hops"}
<1>1. l = [f \in F |-> l[f]]
    BY DEF Sound
<1>2. changed \subseteq F
    BY FieldNames
<1> HIDE DEF F
<1>3. m = [[l EXCEPT !.flags = @ \cup {"Pending"}, !.started_us = ts, !.status = "Executing"]
             EXCEPT !.hops = Append(@, Hop(name, ts))]
    BY CreatedOnce DEF mark_label_executing, append_label_hop, Hop, Named
<1> HIDE DEF m
<1>4. Same(m, l, changed)
    BY <1>1, <1>2, <1>3 DEF Same, F
<1>5. m.flags = l.flags \cup {"Pending"} /\ m.started_us = ts
      /\ m.hops = Append(l.hops, Hop(name, ts))
    BY <1>1, <1>2, <1>3
<1> QED BY <1>4, <1>5 DEF m

LEMMA FinishedMark ==
    ASSUME NEW l, Sound(l), l.created_us # 0, NEW status, NEW where, NEW bytes, NEW error, NEW ts
    PROVE  LET m == mark_label_finished(l, status, where, bytes, error, ts)
           IN  /\ Same(m, l, {"completed_us", "result", "status"})
               /\ m.completed_us = ts
               /\ m.result.error = error
               /\ m.status = IF status = "Complete" THEN "Complete" ELSE "Failed"
<1> DEFINE F == DOMAIN LabelData
           m == mark_label_finished(l, status, where, bytes, error, ts)
           changed == {"completed_us", "result", "status"}
           result == [data_location |-> where, error |-> error, bytes_transferred |-> bytes]
<1>1. l = [f \in F |-> l[f]]
    BY DEF Sound
<1>2. changed \subseteq F
    BY FieldNames
<1>3. result.error = error
    OBVIOUS
<1> HIDE DEF F, result
<1>4. m = [l EXCEPT !.completed_us = ts, !.result = result,
                    !.status = IF status = "Complete" THEN "Complete" ELSE "Failed"]
    BY CreatedOnce DEF mark_label_finished, result
<1> HIDE DEF m
<1>5. Same(m, l, changed)
    BY <1>1, <1>2, <1>4 DEF Same, F
<1>6. m.completed_us = ts /\ m.result = result
      /\ m.status = IF status = "Complete" THEN "Complete" ELSE "Failed"
    BY <1>1, <1>2, <1>4
<1> QED BY <1>3, <1>5, <1>6 DEF m

\* A new label: what the client asked for, and the creation time.
LEMMA CreatedMark ==
    ASSUME NEW p \in Params, NEW id, NEW ts \in Nat \ {0}
    PROVE  LET m == mark_label_created(Filled(p, id), ts)
           IN  Sound(m) /\ m.hops = <<>> /\ m.created_us = ts
<1> DEFINE F == DOMAIN LabelData
           l == Filled(p, id)
           m == mark_label_created(l, ts)
<1>1. /\ DOMAIN p \subseteq LabelParams
      /\ p.continuation.kind = "None" => p.continuation = NoContinuation
    BY SchedulingAssumption
<1>2. l = [f \in F |-> l[f]]
    BY DEF Filled
<1>3. {"continuation", "routing", "aggregation", "hops", "created_us", "status"} \subseteq F
    BY FieldNames
<1>4. \A f \in {"routing", "aggregation", "hops", "created_us", "status"} :
        f \in F /\ f \notin DOMAIN p /\ f # "id"
    BY <1>1, <1>3 DEF LabelParams
<1>5. \A f \in {"routing", "aggregation", "hops", "created_us", "status"} :
        l[f] = LabelData[f]
    BY <1>4 DEF Filled
<1>6. l.routing = NoRouting /\ l.aggregation = NoAggregation /\ l.hops = <<>> /\ l.created_us = 0
    BY <1>5 DEF LabelData
<1>7. l.continuation.kind = "None" => l.continuation = NoContinuation
    <2>1. CASE "continuation" \in DOMAIN p
        <3>1. l.continuation = p.continuation
            BY <1>3, <2>1 DEF Filled
        <3> QED BY <1>1, <3>1
    <2>2. CASE "continuation" \notin DOMAIN p
        <3>1. l["continuation"] = LabelData["continuation"]
            BY <1>3, <2>2 DEF Filled
        <3> QED BY <3>1 DEF LabelData
    <2> QED BY <2>1, <2>2
<1> HIDE DEF F, l
<1>8. m = [[l EXCEPT !.created_us = ts] EXCEPT !.status = "Created"]
    BY <1>2, <1>3, <1>6 DEF mark_label_created, Created
<1> HIDE DEF m
<1>9. m = [f \in F |-> m[f]]
    BY <1>2, <1>8
<1>10. m.routing = NoRouting /\ m.aggregation = NoAggregation /\ m.hops = <<>>
       /\ m.continuation = l.continuation /\ m.created_us = ts
    BY <1>2, <1>3, <1>6, <1>8
<1>11. Sound(m)
    BY <1>7, <1>9, <1>10 DEF Sound, F
<1> QED BY <1>10, <1>11 DEF m, l

-----------------------------------------------------------------------------
(* The label's way *)

LabelInv == OriginInv /\ HopsInv /\ TimesInv /\ MarksInv /\ AnswerInv

LEMMA LabelInit == Init => LabelInv
<1> SUFFICES ASSUME Init PROVE LabelInv
    OBVIOUS
<1>1. stage = "none" /\ label = LabelData /\ clock = 1
    BY DEF Init
<1>2. Sound(label)
    BY <1>1 DEF Sound, LabelData
<1> QED BY <1>1, <1>2 DEF LabelInv, OriginInv, HopsInv, TimesInv, MarksInv, AnswerInv,
       Published, Shuffled, Routed, Executed, Finished

LEMMA OriginSame ==
    ASSUME NEW l, NEW m, NEW changed, Same(m, l, changed), Origin \cap changed = {}
    PROVE  \A f \in Origin : m[f] = l[f]
<1>1. Origin \subseteq DOMAIN LabelData
    BY FieldNames DEF Origin
<1> QED BY <1>1 DEF Same

LEMMA CreateInv ==
    ASSUME LabelInv, NEW p \in Params, create_label(p)
    PROVE  LabelInv'
<1>1. clock \in Nat \ {0} /\ clock' = clock
    BY DEF LabelInv, TimesInv, create_label
<1>2. Sound(label') /\ label'.hops = <<>> /\ label'.created_us = clock
    BY <1>1, CreatedMark DEF create_label
<1>3. stage' = "created" /\ sent' = label'
    BY DEF create_label
<1>4. OriginInv'
    BY <1>2, <1>3 DEF OriginInv
<1>5. HopsInv'
    BY <1>2, <1>3 DEF HopsInv, Published, Shuffled, Routed, Executed
<1>6. TimesInv'
    BY <1>1, <1>2, <1>3 DEF TimesInv, Published, Shuffled, Routed, Executed, Finished
<1>7. MarksInv' /\ AnswerInv'
    BY <1>3 DEF MarksInv, AnswerInv, Published, Shuffled, Routed, Executed
<1> QED BY <1>4, <1>5, <1>6, <1>7 DEF LabelInv

LEMMA PublishInv ==
    ASSUME LabelInv, publish
    PROVE  LabelInv'
<1>1. stage = "created" /\ stage' = "sent"
    BY DEF publish
<1>2. label' = label /\ sent' = sent /\ clock' = clock /\ runner' = runner /\ answer' = answer
    BY DEF publish
<1>3. label.created_us # 0
    BY <1>1 DEF LabelInv, TimesInv
<1>4. wire' = serialize_label(label')
    BY <1>2, <1>3 DEF publish
<1>5. OriginInv'
    BY <1>1, <1>2, <1>4 DEF LabelInv, OriginInv
<1>6. HopsInv'
    BY <1>1, <1>2 DEF LabelInv, HopsInv, Published, Shuffled, Routed, Executed
<1>7. TimesInv'
    BY <1>1, <1>2 DEF LabelInv, TimesInv, Published, Shuffled, Routed, Executed, Finished
<1>8. MarksInv' /\ AnswerInv'
    BY <1>1 DEF MarksInv, AnswerInv, Published, Shuffled, Routed, Executed
<1> QED BY <1>5, <1>6, <1>7, <1>8 DEF LabelInv

LEMMA ReceiveInv ==
    ASSUME LabelInv, ReceiveLabel
    PROVE  LabelInv'
<1> DEFINE changed == {"reply_to", "flags", "queued_us", "status"}
<1>1. stage = "sent" /\ stage' = "queued" /\ clock' = clock /\ sent' = sent
    BY DEF ReceiveLabel
<1>2. Sound(label) /\ wire = serialize_label(label) /\ \A f \in Origin : label[f] = sent[f]
    BY <1>1 DEF LabelInv, OriginInv
<1>3. label.hops = <<>> /\ clock \in Nat \ {0} /\ label.created_us \in 1 .. clock
    BY <1>1 DEF LabelInv, HopsInv, TimesInv
<1>4. label' = mark_label_queued([label EXCEPT !.reply_to = "inbox"], clock)
    BY <1>2, RoundTrip DEF ReceiveLabel
<1>5. label.created_us # 0
    BY <1>3
<1>6. /\ Same(label', label, changed)
      /\ label'.flags = label.flags \cup {"Queued"}
      /\ label'.queued_us = clock
    BY <1>2, <1>4, <1>5, QueuedMark
<1>7. \A f \in Origin : label'[f] = label[f]
    BY <1>6, OriginSame DEF Origin
<1>8. Sound(label')
    BY <1>2, <1>6, SoundKept
<1>9. label'.hops = label.hops /\ label'.created_us = label.created_us
    BY <1>6, FieldNames DEF Same
<1>10. OriginInv'
    BY <1>1, <1>2, <1>7, <1>8 DEF OriginInv, Published
<1>11. HopsInv'
    BY <1>1, <1>3, <1>9 DEF HopsInv, Published, Shuffled, Routed, Executed
<1>12. TimesInv'
    BY <1>1, <1>3, <1>6, <1>9 DEF TimesInv, Published, Shuffled, Routed, Executed, Finished
<1>13. MarksInv' /\ AnswerInv'
    BY <1>1, <1>6 DEF MarksInv, AnswerInv, Published, Shuffled, Routed, Executed
<1> QED BY <1>10, <1>11, <1>12, <1>13 DEF LabelInv

LEMMA ShuffleInv ==
    ASSUME LabelInv, Shuffle
    PROVE  LabelInv'
<1> DEFINE changed == {"status", "hops"}
<1>1. stage = "queued" /\ stage' = "shuffled" /\ clock' = clock /\ sent' = sent
      /\ label' = mark_label_shuffled(label, clock)
    BY DEF Shuffle
<1>2. Sound(label) /\ \A f \in Origin : label[f] = sent[f]
    BY <1>1 DEF LabelInv, OriginInv
<1>3. /\ label.hops = <<>> /\ clock \in Nat \ {0} /\ label.created_us \in 1 .. clock
      /\ label.queued_us \in label.created_us .. clock /\ "Queued" \in label.flags
    BY <1>1 DEF LabelInv, HopsInv, TimesInv, MarksInv, Published
<1>4. label.created_us # 0
    BY <1>3
<1>5. Same(label', label, changed) /\ label'.hops = Append(label.hops, Hop("shuffler", clock))
    BY <1>1, <1>2, <1>4, ShuffledMark
<1>6. \A f \in Origin : label'[f] = label[f]
    BY <1>5, OriginSame DEF Origin
<1>7. Sound(label')
    BY <1>2, <1>5, SoundKept
<1>8. label'.created_us = label.created_us /\ label'.queued_us = label.queued_us
      /\ label'.flags = label.flags
    BY <1>5, FieldNames DEF Same
<1>9. label'.hops = <<Hop("shuffler", clock)>> /\ label'.hops[1].timestamp_us = clock
    BY <1>3, <1>5 DEF Hop
<1>10. OriginInv'
    BY <1>1, <1>2, <1>6, <1>7 DEF OriginInv, Published
<1>11. HopsInv'
    BY <1>1, <1>9 DEF HopsInv, Published, Shuffled, Routed, Executed
<1>12. TimesInv'
    BY <1>1, <1>3, <1>8, <1>9 DEF TimesInv, Published, Shuffled, Routed, Executed, Finished
<1>13. MarksInv' /\ AnswerInv'
    BY <1>1, <1>3, <1>8 DEF MarksInv, AnswerInv, Published, Shuffled, Routed, Executed
<1> QED BY <1>10, <1>11, <1>12, <1>13 DEF LabelInv

LEMMA HopAdded ==
    ASSUME NEW a, NEW b, NEW c
    PROVE  Append(<<a>>, b) = <<a, b>> /\ Append(<<a, b>>, c) = <<a, b, c>>
<1> DEFINE S == {a, b, c}
           s == Append(<<a>>, b)
           t == Append(<<a, b>>, c)
<1>1. a \in S /\ b \in S /\ c \in S
    OBVIOUS
<1> HIDE DEF S
<1>2. <<a>> \in Seq(S) /\ Len(<<a>>) = 1 /\ <<a, b>> \in Seq(S) /\ Len(<<a, b>>) = 2
    BY <1>1
<1>3. s \in Seq(S) /\ Len(s) = 2 /\ s[1] = a /\ s[2] = b
    BY <1>1, <1>2, AppendProperties
<1>4. t \in Seq(S) /\ Len(t) = 3 /\ t[1] = a /\ t[2] = b /\ t[3] = c
    BY <1>1, <1>2, AppendProperties
<1> HIDE DEF s, t
<1>5. s = [k \in 1 .. 2 |-> s[k]] /\ t = [k \in 1 .. 3 |-> t[k]]
    BY <1>3, <1>4
<1>6. s = <<a, b>> /\ t = <<a, b, c>>
    BY <1>3, <1>4, <1>5
<1> QED BY <1>6 DEF s, t

\* Routed by a solver or by locality.
LEMMA PublishToInv ==
    ASSUME LabelInv, stage = "shuffled", NEW i \in WorkerIds, NEW why, Named(why),
           PublishTo(i, why)
    PROVE  LabelInv'
<1> DEFINE changed == {"flags", "routing", "score_snapshot", "dispatched_us", "status", "hops"}
<1>1. stage' = "routed" /\ clock' = clock /\ sent' = sent /\ runner' = i
      /\ wire' = serialize_label(label')
    BY DEF PublishTo
<1>2. Sound(label) /\ \A f \in Origin : label[f] = sent[f]
    BY DEF LabelInv, OriginInv
<1>3. PICK t : t = label.hops[1].timestamp_us
    OBVIOUS
<1>4. label.hops = <<Hop("shuffler", t)>>
    BY <1>3 DEF LabelInv, HopsInv
<1>5. /\ clock \in Nat \ {0} /\ label.created_us \in 1 .. clock
      /\ label.queued_us \in label.created_us .. clock /\ t \in label.queued_us .. clock
    BY <1>3 DEF LabelInv, TimesInv, Published, Shuffled
<1>6. "Queued" \in label.flags
    BY DEF LabelInv, MarksInv, Published
<1>7. label.created_us # 0
    BY <1>5
<1>8. label' = mark_label_scheduled(label, i, why, snapshot_worker(i), clock)
    BY DEF PublishTo
<1>9. /\ Same(label', label, changed)
      /\ label'.flags = label.flags \cup {"Scheduled"}
      /\ label'.routing = [worker_id |-> i, policy |-> why]
      /\ label'.dispatched_us = clock
      /\ label'.hops = Append(label.hops, Hop("scheduler", clock))
    BY <1>2, <1>7, <1>8, ScheduledMark
<1>10. \A f \in Origin : label'[f] = label[f]
    BY <1>9, OriginSame DEF Origin
<1>11. label'.created_us = label.created_us /\ label'.queued_us = label.queued_us
    BY <1>9, FieldNames DEF Same
<1>12. label'.continuation = label.continuation /\ label'.aggregation = label.aggregation
    BY <1>9, FieldNames DEF Same
<1>13. label'.routing.worker_id = i /\ label'.routing.policy = why
    BY <1>9
<1>14. Sound(label')
    <2>1. label' = [f \in DOMAIN LabelData |-> label'[f]]
        BY <1>9 DEF Same
    <2>2. label'.continuation.kind = "None" => label'.continuation = NoContinuation
        BY <1>2, <1>12 DEF Sound
    <2>3. label'.aggregation.original_ids = <<>> => label'.aggregation = NoAggregation
        BY <1>2, <1>12 DEF Sound
    <2>4. label'.routing.policy # ""
        BY <1>13 DEF Named
    <2> QED BY <2>1, <2>2, <2>3, <2>4 DEF Sound
<1>15. label'.hops = <<Hop("shuffler", t), Hop("scheduler", clock)>>
    BY <1>4, <1>9, HopAdded
<1>16. label'.hops[1].timestamp_us = t /\ label'.hops[2].timestamp_us = clock
    BY <1>15 DEF Hop
<1>17. OriginInv'
    BY <1>1, <1>2, <1>10, <1>14 DEF OriginInv, Published
<1>18. HopsInv'
    BY <1>1, <1>15, <1>16 DEF HopsInv, Published, Shuffled, Routed, Executed
<1>19. label'.dispatched_us = clock
    BY <1>9
<1>20. TimesInv'
    BY <1>1, <1>5, <1>11, <1>16, <1>19
       DEF TimesInv, Published, Shuffled, Routed, Executed, Finished
<1>21. "Queued" \in label'.flags /\ "Scheduled" \in label'.flags
    BY <1>6, <1>9
<1>22. MarksInv' /\ AnswerInv'
    BY <1>1, <1>13, <1>21 DEF MarksInv, AnswerInv, Published, Shuffled, Routed, Executed
<1> QED BY <1>17, <1>18, <1>20, <1>22 DEF LabelInv

LEMMA ScheduleInv ==
    ASSUME LabelInv, DispatcherInv, ScheduleLabel
    PROVE  LabelInv'
<1>1. PICK r \in solve(policy, 1, cached, Weights[Profile], label.intent, next_) :
        r.to # Nobody /\ PublishTo(r.to[1], policy)
    BY DEF ScheduleLabel
<1>2. r.to[1] \in WorkerIds
    BY <1>1, SolveOne DEF DispatcherInv
<1>3. Named(policy) /\ stage = "shuffled"
    BY SchedulingAssumption DEF DispatcherInv, ScheduleLabel, Named
<1> QED BY <1>1, <1>2, <1>3, PublishToInv

LEMMA LocalityInv ==
    ASSUME LabelInv, NEW i \in WorkerIds, ScheduleByLocality(i)
    PROVE  LabelInv'
<1>1. Named("write-locality")
    BY DEF Named
<1> QED BY <1>1, PublishToInv DEF ScheduleByLocality

LEMMA ExecuteInv ==
    ASSUME LabelInv, ExecuteLabel
    PROVE  LabelInv'
<1> DEFINE changed == {"flags", "started_us", "status", "hops"}
<1>1. stage = "routed" /\ stage' = "executing" /\ clock' = clock /\ sent' = sent
      /\ runner' = runner
    BY DEF ExecuteLabel
<1>2. Sound(label) /\ wire = serialize_label(label) /\ \A f \in Origin : label[f] = sent[f]
    BY <1>1 DEF LabelInv, OriginInv
<1>3. PICK s, t, name : /\ s = label.hops[1].timestamp_us
                        /\ t = label.hops[2].timestamp_us
                        /\ name = WorkerName[runner]
    OBVIOUS
<1>4. label.hops = <<Hop("shuffler", s), Hop("scheduler", t)>>
    BY <1>1, <1>3 DEF LabelInv, HopsInv
<1>5. /\ clock \in Nat \ {0} /\ label.created_us \in 1 .. clock
      /\ label.queued_us \in label.created_us .. clock /\ s \in label.queued_us .. clock
      /\ label.dispatched_us \in s .. clock
    BY <1>1, <1>3 DEF LabelInv, TimesInv, Published, Shuffled, Routed
<1>6. /\ {"Queued", "Scheduled"} \subseteq label.flags /\ runner \in WorkerIds
      /\ label.routing.worker_id = runner /\ Named(label.routing.policy)
    BY <1>1 DEF LabelInv, MarksInv, Published, Shuffled, Routed
<1>7. label.created_us # 0
    BY <1>5
<1>8. Named(name)
    BY <1>3, <1>6, SchedulingAssumption DEF Named
<1>9. label' = mark_label_executing(deserialize_label(wire), name, clock)
    BY <1>3 DEF ExecuteLabel
<1>10. label' = mark_label_executing(label, name, clock)
    BY <1>2, <1>9, RoundTrip
<1>11. /\ Same(label', label, changed)
       /\ label'.flags = label.flags \cup {"Pending"}
       /\ label'.started_us = clock
       /\ label'.hops = Append(label.hops, Hop(name, clock))
    BY <1>2, <1>7, <1>8, <1>10, ExecutingMark
<1>12. \A f \in Origin : label'[f] = label[f]
    BY <1>11, OriginSame DEF Origin
<1>13. Sound(label')
    BY <1>2, <1>11, SoundKept
<1>14. /\ label'.created_us = label.created_us /\ label'.queued_us = label.queued_us
       /\ label'.dispatched_us = label.dispatched_us /\ label'.routing = label.routing
    BY <1>11, FieldNames DEF Same
<1>15. label'.hops = <<Hop("shuffler", s), Hop("scheduler", t), Hop(name, clock)>>
    BY <1>4, <1>11, HopAdded
<1>16. /\ label'.hops[1].timestamp_us = s /\ label'.hops[2].timestamp_us = t
       /\ label'.hops[3].timestamp_us = clock
    BY <1>15 DEF Hop
<1>17. OriginInv'
    BY <1>1, <1>2, <1>12, <1>13 DEF OriginInv, Published
<1>18. HopsInv'
    BY <1>1, <1>3, <1>15, <1>16 DEF HopsInv, Published, Shuffled, Routed, Executed
<1>19. label'.started_us = clock
    BY <1>11
<1>20. TimesInv'
    BY <1>1, <1>5, <1>14, <1>16, <1>19
       DEF TimesInv, Published, Shuffled, Routed, Executed, Finished
<1>21. {"Queued", "Scheduled", "Pending"} \subseteq label'.flags
    BY <1>6, <1>11
<1>22. MarksInv' /\ AnswerInv'
    BY <1>1, <1>6, <1>14, <1>21 DEF MarksInv, AnswerInv, Published, Shuffled, Routed, Executed
<1> QED BY <1>17, <1>18, <1>20, <1>22 DEF LabelInv

LEMMA FinishInv ==
    ASSUME LabelInv, NEW ok \in BOOLEAN, FinishLabel(ok)
    PROVE  LabelInv'
<1> DEFINE changed == {"completed_us", "result", "status"}
           status == IF ok THEN "Complete" ELSE "Error"
           where == IF ok THEN "location" ELSE ""
           error == IF ok THEN "" ELSE "what"
           data_key == IF ok /\ label.type = "Read" THEN "key" ELSE ""
           bytes == IF ok THEN label.data_size ELSE 0
           comp == [label_id |-> label.id, status |-> status, error |-> error,
                    data_key |-> data_key]
<1>1. stage = "executing" /\ stage' = "finished" /\ clock' = clock /\ sent' = sent
      /\ runner' = runner
    BY DEF FinishLabel
<1>2. label' = mark_label_finished(label, status, where, bytes, error, clock)
      /\ wire' = serialize_completion(comp)
    BY DEF FinishLabel
<1>3. Sound(label) /\ \A f \in Origin : label[f] = sent[f]
    BY <1>1 DEF LabelInv, OriginInv
<1>4. label.created_us # 0 /\ clock \in Nat \ {0}
    BY <1>1 DEF LabelInv, TimesInv
<1>5. status = "Complete" \/ status = "Error"
    OBVIOUS
<1> HIDE DEF status, where, error, data_key, bytes
<1>6. /\ Same(label', label, changed)
      /\ label'.completed_us = clock
      /\ label'.result.error = error
      /\ label'.status = IF status = "Complete" THEN "Complete" ELSE "Failed"
    BY <1>2, <1>3, <1>4, FinishedMark
<1>7. \A f \in Origin : label'[f] = label[f]
    BY <1>6, OriginSame DEF Origin
<1>8. Sound(label')
    BY <1>3, <1>6, SoundKept
<1>9. /\ label'.created_us = label.created_us /\ label'.queued_us = label.queued_us
      /\ label'.dispatched_us = label.dispatched_us /\ label'.started_us = label.started_us
      /\ label'.hops = label.hops /\ label'.flags = label.flags
      /\ label'.routing = label.routing /\ label'.id = label.id
    BY <1>6, FieldNames DEF Same
<1>10. deserialize_completion(wire') = comp
    BY <1>2, CompletionRoundTrip
<1>11. Told(deserialize_completion(wire))'
    <2> DEFINE d == deserialize_completion(wire')
    <2>1. d.label_id = label.id /\ d.error = error /\ d.status = status
        BY <1>10
    <2> HIDE DEF d
    <2>2. d.status = "Complete" <=> label'.status = "Complete"
        BY <1>6, <2>1
    <2>3. d.label_id = label'.id /\ d.error = label'.result.error
        BY <1>6, <1>9, <2>1
    <2> QED BY <2>2, <2>3 DEF Told, d
<1>12. OriginInv'
    BY <1>1, <1>3, <1>7, <1>8 DEF OriginInv, Published
<1>13. HopsInv'
    BY <1>1, <1>9 DEF LabelInv, HopsInv, Published, Shuffled, Routed, Executed
<1>14. TimesInv'
    BY <1>1, <1>6, <1>9 DEF LabelInv, TimesInv, Published, Shuffled, Routed, Executed, Finished
<1>15. MarksInv'
    <2>1. /\ {"Queued", "Scheduled", "Pending"} \subseteq label.flags /\ runner \in WorkerIds
          /\ label.routing.worker_id = runner /\ Named(label.routing.policy)
        BY <1>1 DEF LabelInv, MarksInv, Published, Shuffled, Routed, Executed
    <2>2. label'.flags = label.flags /\ label'.routing = label.routing
        BY <1>9
    <2> QED BY <1>1, <2>1, <2>2 DEF MarksInv, Published, Shuffled, Routed, Executed
<1>16. AnswerInv'
    BY <1>1, <1>11 DEF AnswerInv
<1> QED BY <1>12, <1>13, <1>14, <1>15, <1>16 DEF LabelInv

LEMMA CompletionInv ==
    ASSUME LabelInv, ReceiveCompletion
    PROVE  LabelInv'
<1>1. stage = "finished" /\ stage' = "done" /\ clock' = clock /\ sent' = sent
      /\ runner' = runner /\ label' = label /\ answer' = deserialize_completion(wire)
    BY DEF ReceiveCompletion
<1>2. OriginInv'
    BY <1>1 DEF LabelInv, OriginInv, Published
<1>3. HopsInv'
    BY <1>1 DEF LabelInv, HopsInv, Published, Shuffled, Routed, Executed
<1>4. TimesInv'
    BY <1>1 DEF LabelInv, TimesInv, Published, Shuffled, Routed, Executed, Finished
<1>5. MarksInv'
    BY <1>1 DEF LabelInv, MarksInv, Published, Shuffled, Routed, Executed
<1>6. Told(answer')
    BY <1>1 DEF LabelInv, AnswerInv
<1>7. AnswerInv'
    BY <1>1, <1>6 DEF AnswerInv, Told
<1> QED BY <1>2, <1>3, <1>4, <1>5, <1>7 DEF LabelInv

LEMMA DropInv ==
    ASSUME LabelInv, DropLabel
    PROVE  LabelInv'
<1>1. stage' = "none" /\ label' = label /\ clock' = clock
    BY DEF DropLabel
<1> QED BY <1>1 DEF LabelInv, OriginInv, HopsInv, TimesInv, MarksInv, AnswerInv,
       Published, Shuffled, Routed, Executed, Finished

LEMMA TickInv ==
    ASSUME LabelInv, Tick
    PROVE  LabelInv'
<1>1. clock' = clock + 1 /\ stage' = stage /\ label' = label /\ wire' = wire
      /\ runner' = runner /\ answer' = answer /\ sent' = sent
    BY DEF Tick, labelVars
<1>2. OriginInv' /\ HopsInv' /\ MarksInv' /\ AnswerInv'
    BY <1>1 DEF LabelInv, OriginInv, HopsInv, MarksInv, AnswerInv, Told
<1>3. TimesInv'
    BY <1>1 DEF LabelInv, TimesInv, Published, Shuffled, Routed, Executed, Finished
<1> QED BY <1>2, <1>3 DEF LabelInv

LEMMA LabelKept ==
    ASSUME LabelInv, UNCHANGED <<labelVars, clock>>
    PROVE  LabelInv'
<1>1. clock' = clock /\ stage' = stage /\ label' = label /\ wire' = wire
      /\ runner' = runner /\ answer' = answer /\ sent' = sent
    BY DEF labelVars
<1>2. OriginInv' /\ HopsInv'
    BY <1>1 DEF LabelInv, OriginInv, HopsInv
<1>3. TimesInv'
    BY <1>1 DEF LabelInv, TimesInv
<1>4. MarksInv'
    BY <1>1 DEF LabelInv, MarksInv
<1>5. AnswerInv'
    BY <1>1 DEF LabelInv, AnswerInv, Told
<1> QED BY <1>2, <1>3, <1>4, <1>5 DEF LabelInv

LEMMA LabelNext == DispatcherInv /\ LabelInv /\ [Next]_schedvars => LabelInv'
<1> SUFFICES ASSUME DispatcherInv, LabelInv, [Next]_schedvars PROVE LabelInv'
    OBVIOUS
<1>1. ASSUME NEW i \in WorkerIds, register_worker(i) PROVE LabelInv'
    BY <1>1, LabelKept DEF register_worker, ChangeRegistry
<1>2. ASSUME NEW i \in WorkerIds, NEW available \in BOOLEAN, NEW load \in Loads,
             update_score(i, available, load)
      PROVE  LabelInv'
    BY <1>2, LabelKept DEF update_score, ChangeRegistry
<1>3. ASSUME NEW i \in WorkerIds, deregister_worker(i) PROVE LabelInv'
    BY <1>3, LabelKept DEF deregister_worker, ChangeRegistry
<1>4. ASSUME NEW p \in DOMAIN Weights, top_n_workers(p) PROVE LabelInv'
    BY <1>4, LabelKept DEF top_n_workers
<1>5. ASSUME NEW i \in WorkerIds, ScheduleByLocality(i) PROVE LabelInv'
    BY <1>5, LocalityInv
<1>6. CASE RefreshWorkers
    BY <1>6, LabelKept DEF RefreshWorkers
<1>7. ASSUME NEW n \in Batches, NEW intent \in Intents, SolveBatch(n, intent) PROVE LabelInv'
    BY <1>7, LabelKept DEF SolveBatch
<1>8. ASSUME NEW p \in Params, create_label(p) PROVE LabelInv'
    BY <1>8, CreateInv
<1>9. CASE publish
    BY <1>9, PublishInv
<1>10. CASE ReceiveLabel
    BY <1>10, ReceiveInv
<1>11. CASE Shuffle
    BY <1>11, ShuffleInv
<1>12. CASE ScheduleLabel
    BY <1>12, ScheduleInv
<1>13. CASE DropLabel
    BY <1>13, DropInv
<1>14. CASE ExecuteLabel
    BY <1>14, ExecuteInv
<1>15. ASSUME NEW ok \in BOOLEAN, FinishLabel(ok) PROVE LabelInv'
    BY <1>15, FinishInv
<1>16. CASE ReceiveCompletion
    BY <1>16, CompletionInv
<1>17. CASE Tick
    BY <1>17, TickInv
<1>18. CASE UNCHANGED schedvars
    BY <1>18, LabelKept DEF schedvars
<1> QED BY <1>1, <1>2, <1>3, <1>4, <1>5, <1>6, <1>7, <1>8, <1>9, <1>10, <1>11, <1>12, <1>13,
       <1>14, <1>15, <1>16, <1>17, <1>18 DEF Next

LEMMA OriginFromInv == LabelInv => OriginKept
BY DEF LabelInv, OriginInv, OriginKept

LEMMA TrailFromInv == LabelInv => TrailComplete
<1> SUFFICES ASSUME LabelInv, stage = "done" PROVE TrailComplete
    BY DEF TrailComplete
<1>1. PICK s, t, u, name : /\ s = label.hops[1].timestamp_us
                           /\ t = label.hops[2].timestamp_us
                           /\ u = label.hops[3].timestamp_us
                           /\ name = WorkerName[runner]
    OBVIOUS
<1>2. label.hops = <<Hop("shuffler", s), Hop("scheduler", t), Hop(name, u)>>
    BY <1>1 DEF LabelInv, HopsInv, Published, Shuffled, Routed, Executed
<1>3. [k \in DOMAIN label.hops |-> label.hops[k].component]
        = <<"shuffler", "scheduler", name>>
    BY <1>2 DEF Hop
<1>4. {"Queued", "Scheduled", "Pending"} \subseteq label.flags
    BY DEF LabelInv, MarksInv, Published, Shuffled, Routed, Executed
<1>5. label.routing.worker_id = runner
    BY DEF LabelInv, MarksInv, Published, Shuffled, Routed
<1>6. label.routing.policy # ""
    BY DEF LabelInv, MarksInv, Published, Shuffled, Routed, Named
<1>7. /\ 0 < label.created_us /\ label.created_us <= label.queued_us
      /\ label.queued_us <= label.hops[1].timestamp_us
      /\ label.hops[1].timestamp_us <= label.dispatched_us
      /\ label.dispatched_us <= label.started_us
      /\ label.started_us <= label.completed_us
    BY DEF LabelInv, TimesInv, Published, Shuffled, Routed, Executed, Finished
<1>8. Told(answer)
    BY DEF LabelInv, AnswerInv
<1> QED BY <1>1, <1>3, <1>4, <1>5, <1>6, <1>7, <1>8 DEF TrailComplete, Told

\* The registry, the dispatcher's list and the label, as they are in every
\* state.
LEMMA Invariant == Spec => [](RegistryInv /\ DispatcherInv /\ LabelInv)
<1>1. Init => RegistryInv /\ DispatcherInv /\ LabelInv
    BY RegistryInit, DispatcherInit, LabelInit
<1>2. RegistryInv /\ DispatcherInv /\ LabelInv /\ [Next]_schedvars
        => (RegistryInv /\ DispatcherInv /\ LabelInv)'
    BY RegistryNext, DispatcherNext, LabelNext
<1> QED BY <1>1, <1>2, PTL DEF Spec

\* What the client wrote on a label is what the dispatcher and the worker read:
\* through two encodings (serialize_label, deserialize_label) and every mark of
\* the pipeline (mark_label_*), for all parameters a client may set.
THEOREM OriginIsKept == Spec => []OriginKept
BY Invariant, OriginFromInv, PTL

\* An answered label has the hops of shuffler, scheduler and the worker it was
\* routed to, in this order, the flags of the stages it went through, times
\* that do not go back, and the outcome the completion told the client
\* (append_label_hop, mark_label_*, serialize_completion).
THEOREM TrailIsComplete == Spec => []TrailComplete
BY Invariant, TrailFromInv, PTL

-----------------------------------------------------------------------------
(* How many labels the workers of a pool have *)

\* A family of sets that, with all sets that lack one of its elements, has a set
\* itself, has every finite set.
Grows(G, D) ==
    \A s \in SUBSET D : (\A x \in s : s \ {x} \in G) => s \in G

LEMMA SubsetInduction ==
    ASSUME NEW D, IsFiniteSet(D), NEW G, Grows(G, D)
    PROVE  \A s \in SUBSET D : s \in G
<1> DEFINE T == (SUBSET D) \ G
           R == StrictSubsetOrdering(D)
<1> SUFFICES ASSUME T # {} PROVE FALSE
    OBVIOUS
<1>1. T \subseteq FiniteSubsetsOf(D)
    BY FS_Subset DEF FiniteSubsetsOf
<1>2. IsWellFoundedOn(R, FiniteSubsetsOf(D))
    BY FS_StrictSubsetOrderingWellFounded
<1> HIDE DEF R
<1>3. PICK t \in T : \A s \in T : ~(<<s, t>> \in R)
    BY <1>1, <1>2, WFMin
<1>4. ASSUME NEW x \in t PROVE t \ {x} \in G
    <2>1. t \ {x} \in SUBSET D /\ t \in SUBSET D /\ t \ {x} \subseteq t /\ t \ {x} # t
        BY <1>3
    <2>2. <<t \ {x}, t>> \in R
        BY <2>1 DEF R, StrictSubsetOrdering
    <2> QED BY <1>3, <2>1, <2>2
<1> QED BY <1>3, <1>4 DEF Grows

\* The loop that MapThenSumSet runs over the workers of a pool.
Adds(f, g, pool) ==
    f = [s \in SUBSET pool |->
           IF s = {} THEN 0
           ELSE LET x == CHOOSE x \in s : TRUE IN g[x.id] + f[s \ {x}]]

Sums(g, pool) == CHOOSE f : Adds(f, g, pool)

Some(s) == CHOOSE x \in s : TRUE

LEMMA SomeOf == ASSUME NEW s, s # {} PROVE Some(s) \in s
BY DEF Some

Unfolds(f, g, pool) ==
    \A s \in SUBSET pool : f[s] = IF s = {} THEN 0 ELSE g[Some(s).id] + f[s \ {Some(s)}]

LEMMA SumUnfolds ==
    ASSUME NEW g, NEW pool, IsFiniteSet(pool)
    PROVE  Unfolds(Sums(g, pool), g, pool)
<1> DEFINE D == pool
           Value(f, s) == IF s = {} THEN 0 ELSE g[Some(s).id] + f[s \ {Some(s)}]
           Small(n) == {s \in SUBSET D : Cardinality(s) <= n}
           Good(n, f) == \A s \in Small(n) : f[s] = Value(f, s)
           N == Cardinality(D)
           S == {n \in 0 .. N : \E f : Good(n, f)}
<1>1. N \in Nat /\ \A s \in SUBSET D : IsFiniteSet(s) /\ Cardinality(s) \in 0 .. N
    BY FS_Subset, FS_CardinalityType
<1>2. \A s \in SUBSET D : s # {} =>
        /\ s \ {Some(s)} \in SUBSET D
        /\ Cardinality(s \ {Some(s)}) = Cardinality(s) - 1
    BY <1>1, SomeOf, FS_RemoveElement
<1>3. 0 \in S
    <2> DEFINE f == [s \in SUBSET D |-> 0]
    <2>1. Good(0, f)
        <3> SUFFICES ASSUME NEW s \in Small(0) PROVE f[s] = Value(f, s)
            OBVIOUS
        <3>1. s = {}
            BY <1>1, FS_EmptySet
        <3> QED BY <3>1
    <2> HIDE DEF f, Good
    <2> QED BY <1>1, <2>1
<1>4. ASSUME NEW n \in 0 .. N, n + 1 \in 0 .. N, n \in S PROVE n + 1 \in S
    <2>1. PICK f : Good(n, f)
        BY <1>4
    <2> DEFINE h == [s \in SUBSET D |-> IF Cardinality(s) = n + 1 THEN Value(f, s) ELSE f[s]]
    <2>2. Good(n + 1, h)
        <3> SUFFICES ASSUME NEW s \in Small(n + 1) PROVE h[s] = Value(h, s)
            OBVIOUS
        <3>1. s \in SUBSET D /\ Cardinality(s) \in 0 .. n + 1
            BY <1>1
        <3>2. h[s] = Value(f, s)
            <4>1. CASE Cardinality(s) = n + 1
                BY <3>1, <4>1
            <4>2. CASE Cardinality(s) # n + 1
                <5>1. s \in Small(n)
                    BY <3>1, <4>2
                <5> QED BY <2>1, <3>1, <4>2, <5>1
            <4> QED BY <4>1, <4>2
        <3>3. CASE s = {}
            BY <3>2, <3>3
        <3>4. CASE s # {}
            <4>1. h[s \ {Some(s)}] = f[s \ {Some(s)}]
                BY <1>2, <3>1, <3>4
            <4> QED BY <3>2, <3>4, <4>1
        <3> QED BY <3>3, <3>4
    <2> HIDE DEF h, Good
    <2> QED BY <1>4, <2>2
<1> HIDE DEF S
<1>5. N \in S
    <2>1. \A k \in 0 .. N : k \in S
        BY <1>1, <1>3, <1>4, Reaches
    <2> QED BY <1>1, <2>1
<1>6. PICK f : Good(N, f)
    BY <1>5 DEF S
<1> DEFINE h == [s \in SUBSET D |-> f[s]]
<1>7. \A s \in SUBSET D : h[s] = Value(h, s)
    <2> SUFFICES ASSUME NEW s \in SUBSET D PROVE h[s] = Value(h, s)
        OBVIOUS
    <2>1. s \in Small(N)
        BY <1>1
    <2>2. h[s] = Value(f, s)
        BY <1>6, <2>1
    <2> QED BY <1>2, <2>2
<1>8. h = [s \in SUBSET D |-> h[s]]
    OBVIOUS
<1> HIDE DEF h
<1>9. Adds(h, g, pool)
    BY <1>7, <1>8 DEF Adds, Some
<1>10. Adds(Sums(g, pool), g, pool)
    BY <1>9, Zenon DEF Sums
<1> QED BY <1>10 DEF Adds, Unfolds, Some

\* The labels, of n, that p has.
At(pos, p, n) == {k \in 1 .. n : pos[k] = p}

Counts(g, to, n, pool) == \A w \in pool : g[w.id] = Cardinality(At(to, w.id, n))

\* All n labels have workers of the pool.
Assigns(to, n, pool) ==
    DOMAIN to = 1 .. n /\ \A k \in 1 .. n : \E w \in pool : to[k] = w.id

Distinct(pool) == \A v, w \in pool : v.id = w.id => v = w

\* A batch that is given to the workers of a pool: the counts add up to it.
LEMMA CountsAddUp ==
    ASSUME NEW pool, IsFiniteSet(pool), Distinct(pool), NEW n \in Nat,
           NEW to, Assigns(to, n, pool), NEW g, Counts(g, to, n, pool)
    PROVE  Sums(g, pool)[pool] = n
<1> USE DEF Distinct, Assigns, Counts
<1> DEFINE f == Sums(g, pool)
           Had(s) == {k \in 1 .. n : \E w \in s : to[k] = w.id}
           G == {s \in SUBSET pool : f[s] = Cardinality(Had(s))}
<1> HIDE DEF f
<1>1. \A s \in SUBSET pool : f[s] = IF s = {} THEN 0 ELSE g[Some(s).id] + f[s \ {Some(s)}]
    <2>1. Unfolds(f, g, pool)
        BY SumUnfolds DEF f
    <2> QED BY <2>1 DEF Unfolds
<1>2. IsFiniteSet(1 .. n) /\ Cardinality(1 .. n) = n
    BY FS_Interval
<1>3. ASSUME NEW s \in SUBSET pool, \A x \in s : s \ {x} \in G
      PROVE  f[s] = Cardinality(Had(s))
    <2>1. CASE s = {}
        <3>1. Had(s) = {} /\ f[s] = 0
            BY <1>1, <2>1
        <3> QED BY <3>1, FS_EmptySet
    <2>2. CASE s # {}
        <3>1. PICK x \in s : x = Some(s)
            BY <2>2, SomeOf
        <3> DEFINE A == Had(s \ {x})
                   B == {k \in 1 .. n : to[k] = x.id}
        <3>2. f[s] = Cardinality(B) + Cardinality(A)
            <4>1. f[s \ {x}] = Cardinality(A)
                BY <1>3, <3>1
            <4>2. g[x.id] = Cardinality(B)
                BY <3>1 DEF At
            <4> HIDE DEF A, B
            <4>3. f[s] = g[x.id] + f[s \ {x}]
                BY <1>1, <2>2, <3>1
            <4> QED BY <4>1, <4>2, <4>3
        <3>3. Had(s) = B \cup A
            OBVIOUS
        <3>4. B \cap A = {}
            OBVIOUS
        <3>5. A \in SUBSET (1 .. n) /\ B \in SUBSET (1 .. n)
            OBVIOUS
        <3> HIDE DEF A, B, Had
        <3>6. IsFiniteSet(A) /\ IsFiniteSet(B)
            BY <1>2, <3>5, FS_Subset
        <3>7. Cardinality(B \cup A) = Cardinality(B) + Cardinality(A) - Cardinality(B \cap A)
            BY <3>6, FS_Union
        <3>8. Cardinality(B \cap A) = 0 /\ Cardinality(A) \in Nat /\ Cardinality(B) \in Nat
            BY <3>4, <3>6, FS_EmptySet, FS_CardinalityType
        <3> QED BY <3>2, <3>3, <3>7, <3>8
    <2> QED BY <2>1, <2>2
<1>4. Grows(G, pool)
    BY <1>3 DEF Grows
<1>5. f[pool] = Cardinality(Had(pool))
    <2> HIDE DEF Had
    <2>1. G = {s \in SUBSET pool : f[s] = Cardinality(Had(s))}
        OBVIOUS
    <2> HIDE DEF G
    <2>2. \A s \in SUBSET pool : s \in G
        BY <1>4, SubsetInduction
    <2> QED BY <2>1, <2>2
<1>6. Had(pool) = 1 .. n
    OBVIOUS
<1> QED BY <1>2, <1>5, <1>6 DEF f

-----------------------------------------------------------------------------
(* Workers in the order of a key *)

\* s has every worker of the pool once.
Enumerates(s, pool) ==
    /\ Len(s) \in Nat \ {0} /\ DOMAIN s = 1 .. Len(s)
    /\ \A p \in 1 .. Len(s) : s[p] \in pool /\ s[p].id \in WorkerIds
    /\ \A w \in pool : \E p \in 1 .. Len(s) : s[p] = w
    /\ \A p, q \in 1 .. Len(s) : s[p].id = s[q].id => p = q

LEMMA PoolFinite ==
    ASSUME NEW list, Listed(list)
    PROVE  /\ IsFiniteSet(ToSet(list)) /\ Cardinality(ToSet(list)) = Len(list)
           /\ \A v, w \in ToSet(list) : v.id = w.id => v = w
<1> DEFINE W == ToSet(list)
<1>1. DOMAIN list = 1 .. Len(list) /\ Len(list) \in Nat
    BY DEF Listed
<1>2. list \in Surjection(1 .. Len(list), W)
    BY <1>1 DEF Surjection, ToSet, Listed
<1>3. IsFiniteSet(1 .. Len(list)) /\ Cardinality(1 .. Len(list)) = Len(list)
    <2>1. PICK n \in Nat : n = Len(list)
        BY <1>1
    <2>2. IsFiniteSet(1 .. n) /\ Cardinality(1 .. n) = n
        BY FS_Interval
    <2> QED BY <2>1, <2>2
<1>4. IsFiniteSet(W) /\ Cardinality(W) = Len(list)
    <2>1. list \in Injection(1 .. Len(list), W)
        BY <1>1, <1>2 DEF Injection, IsInjective, Surjection, Listed
    <2> HIDE DEF W
    <2>2. IsFiniteSet(W)
        BY <1>2, <1>3, FS_Surjection
    <2>3. Cardinality(1 .. Len(list)) = Cardinality(W)
        BY <1>2, <1>3, <2>1, <2>2, FS_Injection
    <2> QED BY <1>3, <2>2, <2>3
<1>5. \A v, w \in W : v.id = w.id => v = w
    BY DEF Listed, ToSet
<1> QED BY <1>4, <1>5

LEMMA OrderEnumerates ==
    ASSUME NEW list, Listed(list), list # <<>>, NEW s \in SetToSeqs(ToSet(list))
    PROVE  Enumerates(s, ToSet(list)) /\ Len(s) = Len(list)
<1> DEFINE W == ToSet(list)
           n == Cardinality(W)
<1>1. W # {}
    <2>1. DOMAIN list = 1 .. Len(list) /\ Len(list) \in Nat
        BY DEF Listed
    <2>2. Len(list) # 0
        BY DEF Listed
    <2>3. 1 \in DOMAIN list
        BY <2>1, <2>2
    <2>4. list[1] \in W
        BY <2>3 DEF ToSet
    <2> HIDE DEF W
    <2> QED BY <2>4
<1>2. IsFiniteSet(W) /\ n = Len(list) /\ \A v, w \in W : v.id = w.id => v = w
    BY PoolFinite
<1>3. s \in [1 .. n -> W] /\ \A i, j \in 1 .. n : i # j => s[i] # s[j]
    BY DEF SetToSeqs
<1> HIDE DEF W
<1>4. n \in Nat \ {0}
    BY <1>1, <1>2, FS_CardinalityType, FS_EmptySet
<1>5. IsFiniteSet(1 .. n) /\ Cardinality(1 .. n) = n
    BY <1>4, FS_Interval
<1>6. s \in Injection(1 .. n, W)
    BY <1>3 DEF Injection, IsInjective
<1>7. s \in Surjection(1 .. n, W)
    <2> HIDE DEF n
    <2>1. Cardinality(W) = n
        BY DEF n
    <2> QED BY <1>2, <1>5, <1>6, <2>1, FS_Injection
<1>8. \A w \in W : \E p \in 1 .. n : s[p] = w
    BY <1>7 DEF Surjection
<1> HIDE DEF n
<1>9. Len(s) = n /\ DOMAIN s = 1 .. n
    BY <1>3, <1>4
<1>10. \A p, q \in 1 .. n : s[p].id = s[q].id => p = q
    BY <1>2, <1>3
<1>11. \A p \in 1 .. n : s[p].id \in WorkerIds
    BY <1>3 DEF Listed, W
<1> QED BY <1>2, <1>3, <1>4, <1>8, <1>9, <1>10, <1>11 DEF Enumerates, W

\* Who ranks above another comes before him, and has no less if what comes
\* first has no less.
LEMMA RankedCounts ==
    ASSUME NEW list, Listed(list), list # <<>>,
           NEW key, \A w \in ToSet(list) : key[w] \in Int,
           NEW s \in Descending(list, key), NEW g,
           \A p, q \in 1 .. Len(s) : p < q => g[s[p].id] >= g[s[q].id]
    PROVE  \A v, w \in ToSet(list) : key[v] > key[w] => g[v.id] >= g[w.id]
<1> SUFFICES ASSUME NEW v \in ToSet(list), NEW w \in ToSet(list), key[v] > key[w]
             PROVE  g[v.id] >= g[w.id]
    OBVIOUS
<1>1. s \in SetToSeqs(ToSet(list)) /\ \A j, k \in DOMAIN s : j < k => key[s[j]] >= key[s[k]]
    BY DEF Descending
<1>2. Enumerates(s, ToSet(list))
    BY <1>1, OrderEnumerates
<1>3. PICK p \in 1 .. Len(s), q \in 1 .. Len(s) : s[p] = v /\ s[q] = w
    BY <1>2 DEF Enumerates
<1>4. Len(s) \in Nat /\ DOMAIN s = 1 .. Len(s)
    BY <1>2 DEF Enumerates
<1>5. p # q
    BY <1>3
<1>6. ~(q < p)
    BY <1>1, <1>3, <1>4
<1>7. p < q
    BY <1>4, <1>5, <1>6
<1> QED BY <1>3, <1>7

\* The labels are at positions of s, and go to the workers there.
Placed(to, pos, n, s) ==
    /\ \A k \in 1 .. n : pos[k] \in 1 .. Len(s)
    /\ to = [k \in 1 .. n |-> s[pos[k]].id]

\* The labels of a worker are those at its position.
LEMMA OfPosition ==
    ASSUME NEW s, NEW pool, Enumerates(s, pool), NEW n, NEW pos, NEW to, Placed(to, pos, n, s),
           NEW p \in 1 .. Len(s)
    PROVE  CountOf(to)[s[p].id] = Cardinality(At(pos, p, n))
<1>1. DOMAIN to = 1 .. n /\ \A k \in 1 .. n : to[k] = s[p].id <=> pos[k] = p
    BY DEF Enumerates, Placed
<1>2. {k \in DOMAIN to : to[k] = s[p].id} = {k \in 1 .. n : pos[k] = p}
    BY <1>1
<1>3. s[p].id \in WorkerIds
    BY DEF Enumerates
<1> QED BY <1>2, <1>3 DEF CountOf, At

-----------------------------------------------------------------------------
(* The constraint policy *)

LEMMA Fewer ==
    ASSUME NEW A, NEW B, IsFiniteSet(B), NEW f, \A k \in A : f[k] \in B,
           \A j, k \in A : f[j] = f[k] => j = k
    PROVE  Cardinality(A) <= Cardinality(B)
<1> DEFINE g == [k \in A |-> f[k]]
<1>1. g \in Injection(A, B)
    BY DEF Injection, IsInjective
<1> HIDE DEF g
<1> QED BY <1>1, FS_Injection

\* The label that is as far into its round as p, in the round of the label a.
LEMMA SameRound ==
    ASSUME NEW m \in Nat \ {0}, NEW a \in Nat, NEW p \in 0 .. m - 1, NEW q \in 0 .. m - 1,
           p < q, a % m = q
    PROVE  a - (q - p) \in Nat /\ (a - (q - p)) % m = p
<1>1. PICK c \in Nat : c = a \div m
    BY SMT
<1>2. a = m * c + q
    BY <1>1, SMT
<1>3. a - (q - p) = m * c + p
    BY <1>2, SMT
<1>4. m * c \in Nat
    BY SMT
<1>5. (m * c + p) % m = p
    BY SMT
<1> QED BY <1>3, <1>4, <1>5

\* In rounds over m positions, the earlier position gets no less.
Falling(pos, n, s) ==
    \A p, q \in 1 .. Len(s) : p < q =>
      Cardinality(At(pos, p, n)) >= Cardinality(At(pos, q, n))

LEMMA Rounds ==
    ASSUME NEW m \in Nat \ {0}, NEW n \in Nat,
           NEW pos, pos = [k \in 1 .. n |-> ((k - 1) % m) + 1],
           NEW p \in Nat \ {0}, NEW q \in Nat, p < q
    PROVE  Cardinality(At(pos, p, n)) >= Cardinality(At(pos, q, n))
<1> DEFINE A == {k \in 1 .. n : pos[k] = q}
           B == {k \in 1 .. n : pos[k] = p}
           f == [k \in A |-> k - (q - p)]
<1>1. IsFiniteSet(A) /\ IsFiniteSet(B)
    <2>1. IsFiniteSet(1 .. n)
        BY FS_Interval
    <2> QED BY <2>1, FS_Subset
<1>2. \A k \in A : f[k] \in B
    <2> SUFFICES ASSUME NEW k \in A PROVE f[k] \in B
        OBVIOUS
    <2>1. k \in 1 .. n /\ k - 1 \in Nat /\ (k - 1) % m = q - 1
        <3>1. pos[k] = ((k - 1) % m) + 1 /\ k - 1 \in Nat
            OBVIOUS
        <3>2. (k - 1) % m \in 0 .. m - 1
            BY <3>1, NextPosition
        <3>3. PICK r \in 0 .. m - 1 : r = (k - 1) % m
            BY <3>2
        <3>4. pos[k] = r + 1 /\ pos[k] = q /\ k \in 1 .. n
            BY <3>1, <3>3
        <3>5. r = q - 1
            BY <3>4
        <3> QED BY <3>1, <3>3, <3>4, <3>5
    <2>2. (k - 1) % m \in 0 .. m - 1
        BY <2>1, NextPosition
    <2>3. PICK x \in 0 .. m - 1, y \in 0 .. m - 1, a \in Nat :
            x = p - 1 /\ y = q - 1 /\ a = k - 1 /\ x < y /\ a % m = y
        <3>1. PICK r \in 0 .. m - 1 : r = (k - 1) % m
            BY <2>2
        <3>2. r = q - 1 /\ p - 1 \in 0 .. m - 1 /\ p - 1 < r
            BY <2>1, <3>1
        <3> QED BY <2>1, <3>1, <3>2
    <2>4. a - (y - x) \in Nat /\ (a - (y - x)) % m = x
        BY <2>3, SameRound
    <2>5. PICK b \in Nat : b = a - (y - x) /\ b % m = x
        BY <2>4
    <2>6. b + 1 \in 1 .. n /\ (b + 1) - 1 = b /\ f[k] = b + 1
        BY <2>1, <2>3, <2>5
    <2>7. pos[b + 1] = (b % m) + 1
        BY <2>6
    <2>8. pos[b + 1] = p
        BY <2>3, <2>5, <2>7
    <2> QED BY <2>6, <2>8
<1>3. \A j, k \in A : f[j] = f[k] => j = k
    OBVIOUS
<1> HIDE DEF A, B, f
<1>4. Cardinality(A) <= Cardinality(B)
    BY <1>1, <1>2, <1>3, Fewer
<1>5. Cardinality(A) \in Nat /\ Cardinality(B) \in Nat
    BY <1>1, FS_CardinalityType
<1> QED BY <1>4, <1>5 DEF A, B, At

\* An assignment that gives no worker more labels than one that ranks above it.
Ranks(to, pool, key) ==
    \A v, w \in pool : key[v] > key[w] => CountOf(to)[v.id] >= CountOf(to)[w.id]

\* A policy that puts the workers in an order and the labels at positions of it.
LEMMA Positioned ==
    ASSUME NEW list, Listed(list), list # <<>>,
           NEW key, \A w \in ToSet(list) : key[w] \in Int,
           NEW s \in Descending(list, key), NEW n, NEW pos, Falling(pos, n, s),
           NEW to, Placed(to, pos, n, s)
    PROVE  Assigns(to, n, ToSet(list)) /\ Ranks(to, ToSet(list), key)
<1>1. Enumerates(s, ToSet(list))
    BY OrderEnumerates DEF Descending
<1>3. Assigns(to, n, ToSet(list))
    BY <1>1 DEF Assigns, Enumerates, Placed
<1>4. \A p \in 1 .. Len(s) : CountOf(to)[s[p].id] = Cardinality(At(pos, p, n))
    BY <1>1, OfPosition, Zenon
<1>5. \A p, q \in 1 .. Len(s) : p < q => CountOf(to)[s[p].id] >= CountOf(to)[s[q].id]
    BY <1>4 DEF Falling
<1>6. Ranks(to, ToSet(list), key)
    BY <1>5, RankedCounts DEF Ranks
<1> QED BY <1>3, <1>6

LEMMA AtLeastOne == ASSUME NEW d \in Int PROVE Max({1, d}) \in Nat \ {0}
<1>1. Max({1, d}) = IF 1 <= d THEN d ELSE 1
    BY OfTwo
<1> QED BY <1>1

LEMMA AtLeastMonotone ==
    ASSUME NEW x \in Int, NEW y \in Int, y <= x PROVE Max({1, y}) <= Max({1, x})
<1>1. Max({1, x}) = IF 1 <= x THEN x ELSE 1
    BY OfTwo
<1>2. Max({1, y}) = IF 1 <= y THEN y ELSE 1
    BY OfTwo
<1> QED BY <1>1, <1>2

\* The constraint policy.
LEMMA ConstraintRanks ==
    ASSUME NEW list, Listed(list), NEW weights, NEW n \in Nat,
           NEW key, key = [w \in ToSet(Available(list)) |-> compute_score(w, weights)],
           \A w \in ToSet(Available(list)) : key[w] \in Int,
           NEW to \in constraint(n, list, weights), to # Nobody
    PROVE  /\ Assigns(to, n, ToSet(Available(list)))
           /\ Ranks(to, ToSet(Available(list)), key)
<1> DEFINE a == Available(list)
           d == (n + labels_per_worker - 1) \div labels_per_worker
           m == Min({Len(a), Max({1, d})})
           Position(k) == ((k - 1) % m) + 1
<1>1. Listed(a)
    BY AvailableOnes
<1>2. a # <<>> /\ \E s \in Descending(a, key) : to = [k \in 1 .. n |-> s[Position(k)].id]
    BY DEF constraint, Nobody
<1>3. PICK s \in Descending(a, key) : to = [k \in 1 .. n |-> s[Position(k)].id]
    BY <1>2
<1>4. d \in Int
    BY DEF labels_per_worker
<1> HIDE DEF d, a
<1>5. Len(a) \in Nat \ {0}
    BY <1>1, <1>2 DEF Listed
<1>6. m \in 1 .. Len(a)
    <2>1. PICK least \in Nat \ {0} : least = Max({1, d})
        BY <1>4, AtLeastOne
    <2>2. PICK size \in Nat \ {0} : size = Len(a)
        BY <1>5
    <2>3. Min({size, least}) = IF size <= least THEN size ELSE least
        BY OfTwo
    <2>4. Min({size, least}) \in 1 .. size
        BY <2>3
    <2> QED BY <2>1, <2>2, <2>4, Zenon
<1>7. Len(s) = Len(a)
    BY <1>1, <1>2, OrderEnumerates DEF Descending
<1> DEFINE pos == [k \in 1 .. n |-> Position(k)]
<1>8. to = [k \in 1 .. n |-> s[pos[k]].id]
    BY <1>3
<1> HIDE DEF m
<1>9. m \in Nat \ {0}
    BY <1>5, <1>6
<1>10. \A k \in 1 .. n : pos[k] \in 1 .. Len(s)
    <2> SUFFICES ASSUME NEW k \in 1 .. n PROVE pos[k] \in 1 .. Len(s)
        OBVIOUS
    <2>1. (k - 1) % m \in 0 .. m - 1
        BY <1>9, NextPosition
    <2>2. PICK r \in 0 .. m - 1 : r = (k - 1) % m
        BY <2>1
    <2>3. pos[k] = r + 1
        BY <2>2
    <2> QED BY <1>5, <1>6, <1>7, <2>2, <2>3
<1>11. Falling(pos, n, s)
    <2> SUFFICES ASSUME NEW p \in 1 .. Len(s), NEW q \in 1 .. Len(s), p < q
                 PROVE  Cardinality(At(pos, p, n)) >= Cardinality(At(pos, q, n))
        BY DEF Falling
    <2>1. p \in Nat \ {0} /\ q \in Nat
        BY <1>5, <1>7
    <2>2. pos = [k \in 1 .. n |-> ((k - 1) % m) + 1]
        OBVIOUS
    <2> HIDE DEF pos
    <2> QED BY <1>9, <2>1, <2>2, Rounds, Zenon
<1> HIDE DEF pos
<1>12. Placed(to, pos, n, s)
    BY <1>8, <1>10 DEF Placed
<1>13. \A w \in ToSet(a) : key[w] \in Int
    BY DEF a
<1>14. Assigns(to, n, ToSet(a)) /\ Ranks(to, ToSet(a), key)
    BY <1>1, <1>2, <1>11, <1>12, <1>13, Positioned, Zenon
<1> QED BY <1>14 DEF a

-----------------------------------------------------------------------------
(* The minmax policy *)

\* A loop over 1 .. m that stays in D has a value after each step.
Stays(h, m, D) == \A k \in 1 .. m : \A d \in D : h[k][d] \in D

Loops(f, first, h, m, D) ==
    f \in [0 .. m -> D] /\ f[0] = first /\ \A k \in 1 .. m : f[k] = h[k][f[k - 1]]

LEMMA LoopDefined ==
    ASSUME NEW m \in Nat, NEW D, NEW first \in D, NEW h, Stays(h, m, D)
    PROVE  \E f : Loops(f, first, h, m, D)
<1> USE DEF Stays, Loops
<1> DEFINE Upto(j, f) == f[0] = first /\ \A k \in 1 .. j : f[k] = h[k][f[k - 1]]
           S == {j \in 0 .. m : \E f \in [0 .. j -> D] : Upto(j, f)}
<1>1. 0 \in S
    <2> DEFINE f == [k \in 0 .. 0 |-> first]
    <2>1. f \in [0 .. 0 -> D] /\ Upto(0, f)
        OBVIOUS
    <2> HIDE DEF f, Upto
    <2> QED BY <2>1
<1>2. ASSUME NEW j \in 0 .. m, j + 1 \in 0 .. m, j \in S PROVE j + 1 \in S
    <2>1. PICK f \in [0 .. j -> D] : Upto(j, f)
        BY <1>2
    <2> DEFINE x == h[j + 1][f[j]]
               g == [k \in 0 .. j + 1 |-> IF k = j + 1 THEN x ELSE f[k]]
    <2>2. f[j] \in D /\ j + 1 \in 1 .. m
        BY <1>2, <2>1
    <2>3. x \in D
        BY <2>2
    <2>4. g \in [0 .. j + 1 -> D]
        <3> HIDE DEF x
        <3> QED BY <2>1, <2>3
    <2>5. \A k \in 0 .. j : g[k] = f[k]
        BY <1>2
    <2>6. g[0] = first /\ g[j + 1] = h[j + 1][g[j]]
        BY <2>1, <2>5
    <2>7. \A k \in 1 .. j + 1 : g[k] = h[k][g[k - 1]]
        <3> SUFFICES ASSUME NEW k \in 1 .. j + 1 PROVE g[k] = h[k][g[k - 1]]
            OBVIOUS
        <3> HIDE DEF g
        <3>1. CASE k = j + 1
            BY <2>6, <3>1
        <3>2. CASE k # j + 1
            <4>1. k \in 1 .. j /\ k - 1 \in 0 .. j /\ k \in 0 .. j
                BY <3>2
            <4> QED BY <2>1, <2>5, <4>1
        <3> QED BY <3>1, <3>2
    <2> HIDE DEF g
    <2> QED BY <1>2, <2>4, <2>6, <2>7
<1>3. m \in S
    <2> HIDE DEF S
    <2> QED BY <1>1, <1>2, Reaches
<1> QED BY <1>3

LEMMA DivMonotone ==
    ASSUME NEW a \in Int, NEW b \in Int, a <= b, NEW d \in Nat \ {0}
    PROVE  a \div d \in Int /\ b \div d \in Int /\ a \div d <= b \div d
<1>1. PICK x \in Int, r \in 0 .. d - 1 : x = a \div d /\ a = d * x + r
    BY SMT
<1>2. PICK y \in Int, t \in 0 .. d - 1 : y = b \div d /\ b = d * y + t
    BY SMT
<1>3. x <= y
    <2> SUFFICES ASSUME y + 1 <= x PROVE FALSE
        OBVIOUS
    <2>1. d * (y + 1) <= d * x
        BY SMT
    <2>2. d * (y + 1) = d * y + d
        BY SMT
    <2>3. d * y \in Int /\ d * x \in Int
        BY SMT
    <2> QED BY <1>1, <1>2, <2>1, <2>2, <2>3
<1> QED BY <1>1, <1>2, <1>3

LEMMA TotalProfit ==
    ASSUME NEW list, Listed(list), \A w \in ToSet(list) : Profit(w) \in Int
    PROVE  total_profit(list) \in Int
<1>1. PICK m \in Nat : m = Len(list) /\ \A k \in 1 .. m : Profit(list[k]) \in Int
    BY DEF Listed, ToSet
<1> DEFINE Summed(f) == f = [k \in 0 .. m |-> IF k = 0 THEN 0
                                            ELSE f[k - 1] + Profit(list[k])]
           h == [k \in 1 .. m |-> [d \in Int |-> d + Profit(list[k])]]
<1>2. \A k \in 1 .. m : \A d \in Int : h[k][d] = d + Profit(list[k]) /\ h[k][d] \in Int
    BY <1>1
<1>3. PICK f \in [0 .. m -> Int] : f[0] = 0 /\ \A k \in 1 .. m : f[k] = h[k][f[k - 1]]
    <2> HIDE DEF h
    <2>1. 0 \in Int /\ Stays(h, m, Int)
        BY <1>2 DEF Stays
    <2>2. \E f : Loops(f, 0, h, m, Int)
        BY <2>1, LoopDefined, Zenon
    <2> QED BY <2>2 DEF Loops
<1>4. \A k \in 0 .. m : f[k] = IF k = 0 THEN 0 ELSE f[k - 1] + Profit(list[k])
    <2> SUFFICES ASSUME NEW k \in 0 .. m, k # 0 PROVE f[k] = f[k - 1] + Profit(list[k])
        BY <1>3
    <2>1. k \in 1 .. m /\ k - 1 \in 0 .. m
        BY <1>1
    <2>2. f[k - 1] \in Int
        BY <1>3, <2>1
    <2> HIDE DEF h
    <2> QED BY <1>2, <1>3, <2>1, <2>2
<1>5. Summed(f)
    BY <1>3, <1>4
<1> DEFINE g == CHOOSE g : Summed(g)
<1>6. Summed(g)
    <2> HIDE DEF Summed
    <2> QED BY <1>5
<1>7. total_profit(list) = g[m]
    BY <1>1 DEF total_profit
<1> HIDE DEF g
<1>8. \A k \in 0 .. m : g[k] = IF k = 0 THEN 0 ELSE g[k - 1] + Profit(list[k])
    BY <1>6
<1> DEFINE S == {k \in 0 .. m : g[k] \in Int}
<1>9. 0 \in S
    BY <1>1, <1>8
<1>10. ASSUME NEW k \in 0 .. m, k + 1 \in 0 .. m, k \in S PROVE k + 1 \in S
    <2>1. PICK j \in 1 .. m : j = k + 1 /\ j - 1 = k /\ j # 0 /\ j \in 0 .. m
        BY <1>10
    <2>2. g[j] = g[k] + Profit(list[j])
        BY <1>8, <2>1
    <2>3. Profit(list[j]) \in Int /\ g[k] \in Int
        BY <1>1, <1>10
    <2>4. g[j] \in Int
        BY <2>2, <2>3
    <2> QED BY <2>1, <2>4
<1>11. m \in S
    <2> HIDE DEF S
    <2>1. \A k \in 0 .. m : k \in S
        BY <1>9, <1>10, Reaches
    <2> QED BY <2>1
<1> QED BY <1>7, <1>11

\* The workers take labels in turn, each his share of what is left: c[k] of
\* them, so that u[k] are taken after k workers.
Takes(u, least, n, m) ==
    /\ u \in [0 .. m -> 0 .. n] /\ least \in [1 .. m -> Nat \ {0}] /\ u[0] = 0
    /\ \A k \in 1 .. m :
         u[k] = u[k - 1] + (IF n - u[k - 1] <= least[k] THEN n - u[k - 1] ELSE least[k])

\* The positions whose workers have been served when the label l is.
Reach(u, l, m) == {k \in 1 .. m : u[k] >= l}

Turn(u, l, m) == IF Reach(u, l, m) = {} THEN 1 ELSE Min(Reach(u, l, m))

LEMMA TakesMore ==
    ASSUME NEW m \in Nat \ {0}, NEW n \in Nat, NEW u, NEW least, Takes(u, least, n, m),
           NEW j \in 0 .. m
    PROVE  \A k \in 0 .. m : j <= k => u[j] <= u[k]
<1> DEFINE S == {k \in 0 .. m : j <= k => u[j] <= u[k]}
<1>1. \A k \in 0 .. m : u[k] \in 0 .. n
    BY DEF Takes
<1>2. 0 \in S
    BY <1>1
<1>3. ASSUME NEW k \in 0 .. m, k + 1 \in 0 .. m, k \in S PROVE k + 1 \in S
    <2>1. PICK i \in 1 .. m : i = k + 1 /\ i - 1 = k /\ i \in 0 .. m
        BY <1>3
    <2>2. u[i] = u[k] + (IF n - u[k] <= least[i] THEN n - u[k] ELSE least[i])
        BY <2>1 DEF Takes
    <2>3. least[i] \in Nat \ {0} /\ u[k] \in 0 .. n /\ u[i] \in 0 .. n /\ u[j] \in 0 .. n
        BY <1>1, <2>1 DEF Takes
    <2>4. u[k] <= u[i]
        BY <2>2, <2>3
    <2>5. j <= i => u[j] <= u[i]
        BY <1>3, <2>1, <2>3, <2>4
    <2> QED BY <2>1, <2>5
<1> HIDE DEF S
<1>4. \A k \in 0 .. m : k \in S
    BY <1>2, <1>3, Reaches
<1> QED BY <1>4 DEF S

LEMMA TurnIn ==
    ASSUME NEW m \in Nat \ {0}, NEW u, NEW l
    PROVE  /\ Turn(u, l, m) \in 1 .. m
           /\ Reach(u, l, m) # {} => /\ Turn(u, l, m) \in Reach(u, l, m)
                                     /\ \A k \in Reach(u, l, m) : Turn(u, l, m) <= k
           /\ Reach(u, l, m) = {} => Turn(u, l, m) = 1
<1>1. CASE Reach(u, l, m) = {}
    BY <1>1 DEF Turn
<1>2. CASE Reach(u, l, m) # {}
    <2>1. Reach(u, l, m) \subseteq 0 .. m /\ Reach(u, l, m) \subseteq 1 .. m
        BY DEF Reach
    <2>2. /\ Min(Reach(u, l, m)) \in Reach(u, l, m)
          /\ \A k \in Reach(u, l, m) : Min(Reach(u, l, m)) <= k
        BY <1>2, <2>1, LeastOf
    <2> QED BY <1>2, <2>1, <2>2 DEF Turn
<1> QED BY <1>1, <1>2

\* The labels at a position but the first; at the first, no less than these.
LEMMA TakenAt ==
    ASSUME NEW m \in Nat \ {0}, NEW n \in Nat, NEW u, NEW least, Takes(u, least, n, m),
           NEW pos, pos = [l \in 1 .. n |-> Turn(u, l, m)], NEW p \in 1 .. m
    PROVE  /\ u[p - 1] + 1 .. u[p] \subseteq At(pos, p, n)
           /\ p # 1 => At(pos, p, n) = u[p - 1] + 1 .. u[p]
<1>1. p \in 0 .. m /\ p - 1 \in 0 .. m /\ u[p] \in 0 .. n /\ u[p - 1] \in 0 .. n
    BY DEF Takes
<1>2. \A k \in 1 .. m : k \in 0 .. m /\ u[k] \in 0 .. n
    BY DEF Takes
<1>3. ASSUME NEW l \in u[p - 1] + 1 .. u[p] PROVE l \in At(pos, p, n)
    <2>1. l \in 1 .. n /\ u[p - 1] < l /\ l <= u[p]
        BY <1>1
    <2>2. p \in Reach(u, l, m)
        BY <1>1, <2>1 DEF Reach
    <2>3. PICK t \in 1 .. m : t = Turn(u, l, m) /\ t \in Reach(u, l, m) /\ t <= p
        BY <2>2, TurnIn
    <2>4. t \in 0 .. m /\ u[t] >= l /\ u[t] \in 0 .. n
        BY <1>2, <2>3 DEF Reach
    <2>5. ~(t <= p - 1)
        <3> SUFFICES ASSUME t <= p - 1 PROVE FALSE
            OBVIOUS
        <3>1. u[t] <= u[p - 1]
            BY <1>1, <2>4, TakesMore
        <3> QED BY <1>1, <2>1, <2>4, <3>1
    <2>6. t = p
        BY <2>3, <2>5
    <2> QED BY <2>1, <2>3, <2>6 DEF At
<1>4. ASSUME p # 1, NEW l \in At(pos, p, n) PROVE l \in u[p - 1] + 1 .. u[p]
    <2>1. l \in 1 .. n /\ p = Turn(u, l, m)
        BY DEF At
    <2>2. Reach(u, l, m) # {}
        BY <1>4, <2>1, TurnIn
    <2>3. p \in Reach(u, l, m) /\ \A k \in Reach(u, l, m) : p <= k
        BY <2>1, <2>2, TurnIn
    <2>4. u[p] >= l
        BY <2>3 DEF Reach
    <2>5. p - 1 \in 1 .. m /\ ~(p <= p - 1)
        BY <1>4
    <2>6. ~(u[p - 1] >= l)
        BY <2>3, <2>5 DEF Reach
    <2> QED BY <1>1, <2>1, <2>4, <2>6
<1> QED BY <1>3, <1>4

LEMMA MoreForFirst ==
    ASSUME NEW n \in Nat, NEW a \in 0 .. n, NEW b \in 0 .. n, a <= b,
           NEW x \in Nat, NEW y \in Nat, y <= x
    PROVE  (IF n - b <= y THEN n - b ELSE y) <= (IF n - a <= x THEN n - a ELSE x)
OBVIOUS

LEMMA IntervalSize ==
    ASSUME NEW a \in Int, NEW c \in Int, a <= c
    PROVE  Cardinality(a + 1 .. c) = c - a
<1>1. PICK i \in Int : i = a + 1
    OBVIOUS
<1>2. Cardinality(i .. c) = IF i > c THEN 0 ELSE c - i + 1
    BY FS_Interval
<1> QED BY <1>1, <1>2

\* If the shares fall, so do the counts.
LEMMA TakesFall ==
    ASSUME NEW m \in Nat \ {0}, NEW n \in Nat, NEW u, NEW least, Takes(u, least, n, m),
           \A j, k \in 1 .. m : j < k => least[k] <= least[j],
           NEW pos, pos = [l \in 1 .. n |-> Turn(u, l, m)],
           NEW p \in 1 .. m, NEW q \in 1 .. m, p < q
    PROVE  Cardinality(At(pos, p, n)) >= Cardinality(At(pos, q, n))
<1>1. PICK a \in 0 .. n, b \in 0 .. n, c \in 0 .. n, d \in 0 .. n :
        a = u[p - 1] /\ b = u[q - 1] /\ c = u[p] /\ d = u[q]
    <2>1. p - 1 \in 0 .. m /\ q - 1 \in 0 .. m /\ p \in 0 .. m /\ q \in 0 .. m
        OBVIOUS
    <2> QED BY <2>1 DEF Takes
<1>2. PICK x \in Nat \ {0}, y \in Nat \ {0} : x = least[p] /\ y = least[q] /\ y <= x
    BY DEF Takes
<1>3. a <= b /\ c <= b
    <2>1. p - 1 \in 0 .. m /\ q - 1 \in 0 .. m /\ p \in 0 .. m /\ p - 1 <= q - 1 /\ p <= q - 1
        OBVIOUS
    <2>2. u[p - 1] <= u[q - 1] /\ u[p] <= u[q - 1]
        BY <2>1, TakesMore
    <2> QED BY <1>1, <2>2
<1>4. /\ c = a + (IF n - a <= x THEN n - a ELSE x)
      /\ d = b + (IF n - b <= y THEN n - b ELSE y)
    BY <1>1, <1>2 DEF Takes
<1>5. d - b <= c - a /\ a <= c /\ b <= d
    <2>1. (IF n - b <= y THEN n - b ELSE y) <= (IF n - a <= x THEN n - a ELSE x)
        BY <1>2, <1>3, MoreForFirst
    <2> QED BY <1>4, <2>1
<1>6. a + 1 .. c \subseteq At(pos, p, n)
    BY <1>1, TakenAt
<1>7. At(pos, q, n) = b + 1 .. d
    <2>1. q # 1
        OBVIOUS
    <2> QED BY <1>1, <2>1, TakenAt
<1>8. IsFiniteSet(At(pos, p, n))
    <2>1. IsFiniteSet(1 .. n)
        BY FS_Interval
    <2>2. At(pos, p, n) \in SUBSET (1 .. n)
        BY DEF At
    <2> QED BY <2>1, <2>2, FS_Subset
<1>9. Cardinality(a + 1 .. c) <= Cardinality(At(pos, p, n))
    <2>1. a + 1 .. c \in SUBSET At(pos, p, n)
        BY <1>6
    <2> QED BY <1>8, <2>1, FS_Subset
<1>10. Cardinality(a + 1 .. c) = c - a /\ Cardinality(b + 1 .. d) = d - b
    <2>1. a \in Int /\ b \in Int /\ c \in Int /\ d \in Int
        OBVIOUS
    <2> QED BY <1>5, <2>1, IntervalSize, Zenon
<1>11. Cardinality(At(pos, p, n)) \in Nat
    BY <1>8, FS_CardinalityType
<1> QED BY <1>5, <1>7, <1>9, <1>10, <1>11

LEMMA ShareFalls ==
    ASSUME NEW v, NEW w, Profit(v) \in Int, Profit(w) \in Int, Profit(w) <= Profit(v),
           NEW n \in Nat, NEW size \in Nat \ {0}, NEW total \in Int
    PROVE  /\ Share(v, n, size, total) \in Int /\ Share(w, n, size, total) \in Int
           /\ Share(w, n, size, total) <= Share(v, n, size, total)
<1>1. PICK x \in Int, y \in Int : x = Profit(v) /\ y = Profit(w) /\ y <= x
    OBVIOUS
<1>2. CASE total > 0
    <2>1. PICK a \in Int, b \in Int, d \in Nat \ {0} :
            /\ a = 2 * x * n + total /\ b = 2 * y * n + total /\ d = 2 * total /\ b <= a
        <3>1. PICK e \in Nat : x = y + e
            <4>1. x - y \in Nat /\ x = y + (x - y)
                BY <1>1
            <4> QED BY <4>1
        <3>2. 2 * x * n = 2 * y * n + 2 * (e * n) /\ e * n \in Nat /\ 2 * y * n \in Int
            BY <3>1, SMT
        <3> QED BY <1>2, <3>2
    <2>2. a \div d \in Int /\ b \div d \in Int /\ b \div d <= a \div d
        BY <2>1, DivMonotone
    <2>3. Share(v, n, size, total) = a \div d /\ Share(w, n, size, total) = b \div d
        BY <1>1, <1>2, <2>1 DEF Share
    <2> QED BY <2>2, <2>3
<1>3. CASE ~(total > 0)
    <2>1. Share(v, n, size, total) = (2 * n + size) \div (2 * size)
          /\ Share(w, n, size, total) = (2 * n + size) \div (2 * size)
        BY <1>3 DEF Share
    <2>2. PICK a \in Int, d \in Nat \ {0} : a = 2 * n + size /\ d = 2 * size
        OBVIOUS
    <2>3. a \div d \in Int /\ a \div d <= a \div d
        OBVIOUS
    <2> QED BY <2>1, <2>2, <2>3
<1> QED BY <1>2, <1>3

LEMMA TakesStep ==
    ASSUME NEW n \in Nat, NEW d \in 0 .. n, NEW x \in Int
    PROVE  LET least == Max({1, x})
           IN  /\ d + Min({n - d, least})
                    = d + (IF n - d <= least THEN n - d ELSE least)
               /\ d + (IF n - d <= least THEN n - d ELSE least) \in 0 .. n
<1>1. PICK least \in Nat \ {0} : least = Max({1, x})
    BY AtLeastOne
<1>2. PICK left \in Nat : left = n - d
    OBVIOUS
<1>3. Min({left, least}) = IF left <= least THEN left ELSE least
    BY OfTwo
<1>4. d + (IF left <= least THEN left ELSE least) \in 0 .. n
    BY <1>2
<1> QED BY <1>1, <1>2, <1>3, <1>4

\* What minmax counts for the workers of an order.
LEMMA AssignedTakes ==
    ASSUME NEW s, NEW m \in Nat \ {0}, Len(s) = m, NEW n \in Nat, NEW total,
           NEW share, \A k \in 1 .. m : share[k] \in Int /\ share[k] = Share(s[k], n, m, total)
    PROVE  Takes(assigned(s, n, total), [k \in 1 .. m |-> Max({1, share[k]})], n, m)
<1> DEFINE least == [k \in 1 .. m |-> Max({1, share[k]})]
           Step(k, d) == d + Min({n - d, Max({1, Share(s[k], n, Len(s), total)})})
           Counted(f) == f = [k \in 0 .. Len(s) |-> IF k = 0 THEN 0 ELSE Step(k, f[k - 1])]
           h == [k \in 1 .. m |-> [d \in 0 .. n |-> Step(k, d)]]
<1>1. least \in [1 .. m -> Nat \ {0}]
    BY AtLeastOne
<1>2. \A k \in 1 .. m : \A d \in 0 .. n :
        /\ Step(k, d) = d + (IF n - d <= least[k] THEN n - d ELSE least[k])
        /\ Step(k, d) \in 0 .. n
    <2> SUFFICES ASSUME NEW k \in 1 .. m, NEW d \in 0 .. n
                 PROVE  /\ Step(k, d) = d + (IF n - d <= least[k] THEN n - d ELSE least[k])
                        /\ Step(k, d) \in 0 .. n
        OBVIOUS
    <2>1. PICK x \in Int : x = share[k] /\ x = Share(s[k], n, Len(s), total)
        OBVIOUS
    <2>2. least[k] = Max({1, x})
        BY <2>1
    <2>3. /\ d + Min({n - d, Max({1, x})})
               = d + (IF n - d <= Max({1, x}) THEN n - d ELSE Max({1, x}))
          /\ d + (IF n - d <= Max({1, x}) THEN n - d ELSE Max({1, x})) \in 0 .. n
        BY TakesStep
    <2>4. Step(k, d) = d + Min({n - d, Max({1, x})})
        BY <2>1
    <2> HIDE DEF least, Step
    <2> QED BY <2>2, <2>3, <2>4, Zenon
<1>3. assigned(s, n, total) = CHOOSE f : Counted(f)
    BY DEF assigned
<1>4. \A k \in 1 .. m : \A d \in 0 .. n : h[k][d] = Step(k, d)
    OBVIOUS
<1> HIDE DEF Step, h, least
<1>5. Stays(h, m, 0 .. n)
    BY <1>2, <1>4 DEF Stays
<1>6. PICK f : Loops(f, 0, h, m, 0 .. n)
    <2>1. 0 \in 0 .. n /\ m \in Nat
        OBVIOUS
    <2> QED BY <1>5, <2>1, LoopDefined, Zenon
<1>7. \A k \in 0 .. m : f[k] = IF k = 0 THEN 0 ELSE Step(k, f[k - 1])
    <2> SUFFICES ASSUME NEW k \in 0 .. m, k # 0 PROVE f[k] = Step(k, f[k - 1])
        BY <1>6 DEF Loops
    <2>1. k \in 1 .. m /\ k - 1 \in 0 .. m
        OBVIOUS
    <2> QED BY <1>4, <1>6, <2>1 DEF Loops
<1>8. f = [k \in 0 .. m |-> f[k]]
    BY <1>6 DEF Loops
<1>9. Counted(f)
    BY <1>7, <1>8
<1>10. Counted(assigned(s, n, total))
    <2> HIDE DEF Counted
    <2> QED BY <1>3, <1>9
<1>11. PICK u : u = assigned(s, n, total)
    OBVIOUS
<1>12. u = [k \in 0 .. m |-> IF k = 0 THEN 0 ELSE Step(k, u[k - 1])]
    BY <1>10, <1>11
<1>13. \A k \in 0 .. m : u[k] = IF k = 0 THEN 0 ELSE Step(k, u[k - 1])
    BY <1>12
<1> DEFINE S == {k \in 0 .. m : u[k] \in 0 .. n}
<1>14. 0 \in S
    BY <1>13
<1>15. ASSUME NEW k \in 0 .. m, k + 1 \in 0 .. m, k \in S PROVE k + 1 \in S
    <2>1. PICK j \in 1 .. m : j = k + 1 /\ j - 1 = k /\ j # 0 /\ j \in 0 .. m
        BY <1>15
    <2>2. u[j] = Step(j, u[k])
        BY <1>13, <2>1
    <2>3. u[j] \in 0 .. n
        BY <1>2, <1>15, <2>2
    <2> QED BY <2>1, <2>3
<1>16. \A k \in 0 .. m : u[k] \in 0 .. n
    <2> HIDE DEF S
    <2>1. \A k \in 0 .. m : k \in S
        BY <1>14, <1>15, Reaches
    <2> QED BY <2>1 DEF S
<1>17. u \in [0 .. m -> 0 .. n] /\ u[0] = 0
    BY <1>12, <1>13, <1>16
<1>18. ASSUME NEW k \in 1 .. m
       PROVE  u[k] = u[k - 1] + (IF n - u[k - 1] <= least[k] THEN n - u[k - 1] ELSE least[k])
    <2>1. k \in 0 .. m /\ k # 0 /\ k - 1 \in 0 .. m
        OBVIOUS
    <2>2. u[k] = Step(k, u[k - 1]) /\ u[k - 1] \in 0 .. n
        BY <1>13, <1>16, <2>1
    <2> QED BY <1>2, <2>2
<1>19. Takes(u, least, n, m)
    BY <1>1, <1>17, <1>18 DEF Takes
<1> QED BY <1>11, <1>19 DEF least

Spreads(to, n, s, u) == to = [l \in 1 .. n |-> s[Turn(u, l, Len(s))].id]

\* What minmax gives, for an order of the workers.
LEMMA SpreadRanks ==
    ASSUME NEW list, Listed(list), list # <<>>, NEW n \in Nat, NEW total \in Int,
           NEW key, \A w \in ToSet(list) : key[w] = Profit(w) /\ key[w] \in Int,
           NEW s \in Descending(list, key), NEW u, u = assigned(s, n, total),
           NEW to, Spreads(to, n, s, u)
    PROVE  Assigns(to, n, ToSet(list)) /\ Ranks(to, ToSet(list), key)
<1>0. PICK m : m = Len(s)
    OBVIOUS
<1>1. Enumerates(s, ToSet(list)) /\ \A j, k \in DOMAIN s : j < k => key[s[j]] >= key[s[k]]
    BY OrderEnumerates DEF Descending
<1>2. m \in Nat \ {0} /\ DOMAIN s = 1 .. m /\ \A k \in 1 .. m : s[k] \in ToSet(list)
    BY <1>0, <1>1 DEF Enumerates
<1>3. \A k \in 1 .. m : key[s[k]] = Profit(s[k]) /\ Profit(s[k]) \in Int
    BY <1>2
<1> DEFINE share == [k \in 1 .. m |-> Share(s[k], n, m, total)]
           least == [k \in 1 .. m |-> Max({1, share[k]})]
           pos == [l \in 1 .. n |-> Turn(u, l, m)]
<1>4. \A j, k \in 1 .. m : j <= k => /\ share[j] \in Int /\ share[k] \in Int
                                     /\ share[k] <= share[j]
    <2> SUFFICES ASSUME NEW j \in 1 .. m, NEW k \in 1 .. m, j <= k
                 PROVE  share[j] \in Int /\ share[k] \in Int /\ share[k] <= share[j]
        OBVIOUS
    <2>1. Profit(s[k]) <= Profit(s[j])
        <3>1. CASE j = k
            BY <1>3, <3>1
        <3>2. CASE j # k
            BY <1>1, <1>2, <1>3, <3>2
        <3> QED BY <3>1, <3>2
    <2>2. share[j] = Share(s[j], n, m, total) /\ share[k] = Share(s[k], n, m, total)
        OBVIOUS
    <2> HIDE DEF share
    <2> QED BY <1>2, <1>3, <2>1, <2>2, ShareFalls
<1>5. \A k \in 1 .. m : share[k] \in Int /\ share[k] = Share(s[k], n, m, total)
    BY <1>2, <1>4
<1> HIDE DEF share
<1>6. Takes(u, least, n, m)
    <2>1. Takes(assigned(s, n, total), [k \in 1 .. m |-> Max({1, share[k]})], n, m)
        BY <1>0, <1>2, <1>5, AssignedTakes
    <2> QED BY <2>1
<1>7. \A j, k \in 1 .. m : j < k => least[k] <= least[j]
    <2> SUFFICES ASSUME NEW j \in 1 .. m, NEW k \in 1 .. m, j < k PROVE least[k] <= least[j]
        OBVIOUS
    <2>1. PICK x \in Int, y \in Int : x = share[j] /\ y = share[k] /\ y <= x
        BY <1>2, <1>4
    <2>2. least[j] = Max({1, x}) /\ least[k] = Max({1, y})
        BY <2>1
    <2>3. Max({1, y}) <= Max({1, x})
        BY <2>1, AtLeastMonotone
    <2> HIDE DEF least
    <2> QED BY <2>2, <2>3
<1>8. pos = [l \in 1 .. n |-> Turn(u, l, m)] /\ \A l \in 1 .. n : pos[l] = Turn(u, l, m)
    OBVIOUS
<1> HIDE DEF least, pos
<1>9. Falling(pos, n, s)
    <2>1. \A p \in 1 .. m, q \in 1 .. m :
            p < q => Cardinality(At(pos, p, n)) >= Cardinality(At(pos, q, n))
        BY <1>2, <1>6, <1>7, <1>8, TakesFall
    <2> QED BY <1>0, <2>1 DEF Falling
<1>10. Placed(to, pos, n, s)
    <2>1. \A l \in 1 .. n : pos[l] \in 1 .. m
        BY <1>2, <1>8, TurnIn
    <2>2. to = [l \in 1 .. n |-> s[pos[l]].id]
        BY <1>0, <1>8 DEF Spreads
    <2> QED BY <1>0, <2>1, <2>2 DEF Placed
<1>11. \A w \in ToSet(list) : key[w] \in Int
    OBVIOUS
<1> QED BY <1>9, <1>10, <1>11, Positioned, Zenon

LEMMA MinmaxRanks ==
    ASSUME NEW list, Listed(list), NEW n \in Nat,
           NEW key, key = [w \in ToSet(Available(list)) |-> Profit(w)],
           \A w \in ToSet(Available(list)) : key[w] \in Int,
           NEW to \in minmax(n, list), to # Nobody
    PROVE  /\ Assigns(to, n, ToSet(Available(list)))
           /\ Ranks(to, ToSet(Available(list)), key)
<1> DEFINE a == Available(list)
           total == total_profit(a)
           Label(s, l) == IF {k \in 1 .. Len(s) : assigned(s, n, total)[k] >= l} = {}
                          THEN s[1].id
                          ELSE s[Min({k \in 1 .. Len(s) : assigned(s, n, total)[k] >= l})].id
<1>1. Listed(a)
    BY AvailableOnes
<1>2. \A w \in ToSet(a) : key[w] = Profit(w) /\ key[w] \in Int
    OBVIOUS
<1>3. a # <<>> /\ \E s \in Descending(a, key) : to = [l \in 1 .. n |-> Label(s, l)]
    BY DEF minmax, Nobody
<1>4. PICK s \in Descending(a, key) : to = [l \in 1 .. n |-> Label(s, l)]
    BY <1>3
<1>5. total \in Int
    <2> HIDE DEF a
    <2> QED BY <1>1, <1>2, TotalProfit
<1> HIDE DEF total, a
<1>6. PICK u : u = assigned(s, n, total)
    OBVIOUS
<1>7. \A l \in 1 .. n : Label(s, l) = s[Turn(u, l, Len(s))].id
    BY <1>6 DEF Turn, Reach
<1> HIDE DEF Label
<1>8. Spreads(to, n, s, u)
    BY <1>4, <1>7 DEF Spreads
<1>9. Assigns(to, n, ToSet(a)) /\ Ranks(to, ToSet(a), key)
    BY <1>1, <1>2, <1>3, <1>5, <1>6, <1>8, SpreadRanks, Zenon
<1> QED BY <1>9 DEF a

-----------------------------------------------------------------------------
(* Any policy but the random one *)

LEMMA RoundRobinAssigns ==
    ASSUME NEW list, Listed(list), NEW n \in Nat, NEW next \in Nat,
           NEW to, to = round_robin(n, list, next).to, to # Nobody
    PROVE  Assigns(to, n, ToSet(Available(list)))
<1> DEFINE a == Available(list)
           pool == Ids(a)
           size == Len(pool)
           start == IF next >= size THEN 0 ELSE next
<1>1. pool # <<>> /\ to = [k \in 1 .. n |-> pool[((start + k - 1) % size) + 1]]
    BY DEF round_robin, Nobody
<1>2. pool \in Seq(WorkerIds)
    BY PoolIds
<1>3. \A k \in DOMAIN pool : \E w \in ToSet(a) : pool[k] = w.id
    BY DEF Ids, ToSet
<1> HIDE DEF pool
<1>4. size \in Nat \ {0} /\ DOMAIN pool = 1 .. size
    BY <1>1, <1>2
<1> HIDE DEF size
<1>5. start \in Nat
    BY <1>4
<1> HIDE DEF start, a
<1>6. ASSUME NEW k \in 1 .. n PROVE \E w \in ToSet(a) : to[k] = w.id
    <2>1. PICK j \in Nat : j = start + k - 1
        BY <1>5
    <2>2. PICK r \in 0 .. size - 1 : r = j % size
        BY <1>4, NextPosition
    <2>3. to[k] = pool[r + 1] /\ r + 1 \in 1 .. size
        BY <1>1, <1>4, <2>1, <2>2
    <2> QED BY <1>3, <1>4, <2>3
<1> QED BY <1>1, <1>6 DEF Assigns, a

\* What a worker is ranked by.
Score(by, pool, weights) ==
    [w \in pool |-> IF by = "minmax" THEN Profit(w) ELSE compute_score(w, weights)]

Solved(to, n, by, pool, weights) ==
    /\ Assigns(to, n, pool)
    /\ by \in {"constraint", "minmax"} => Ranks(to, pool, Score(by, pool, weights))

LEMMA SolveRanks ==
    ASSUME NEW list, Listed(list), NEW by, by # "random", NEW weights, NEW intent,
           \A w \in ToSet(Available(list)) :
             Profit(w) \in Int /\ compute_score(w, profile_for_intent(weights, intent)) \in Int,
           NEW n \in Nat, NEW next \in Nat,
           NEW r \in solve(by, n, list, weights, intent, next), r.to # Nobody
    PROVE  Solved(r.to, n, by, ToSet(Available(list)), profile_for_intent(weights, intent))
<1> DEFINE P == ToSet(Available(list))
<1>1. PICK v : v = profile_for_intent(weights, intent)
    OBVIOUS
<1>2. PICK key : key = Score(by, P, v)
    OBVIOUS
<1>3. CASE by = "constraint"
    <2>1. r.to \in constraint(n, list, v)
        BY <1>1, <1>3 DEF solve
    <2>2. key = [w \in P |-> compute_score(w, v)]
        BY <1>2, <1>3 DEF Score
    <2>3. \A w \in P : key[w] \in Int
        BY <1>1, <2>2
    <2>4. Assigns(r.to, n, P) /\ Ranks(r.to, P, key)
        BY <2>1, <2>2, <2>3, ConstraintRanks
    <2> QED BY <1>1, <1>2, <2>4 DEF Solved
<1>4. CASE by = "minmax"
    <2>1. r.to \in minmax(n, list)
        BY <1>4 DEF solve
    <2>2. key = [w \in P |-> Profit(w)]
        BY <1>2, <1>4 DEF Score
    <2>3. \A w \in P : key[w] \in Int
        BY <2>2
    <2>4. Assigns(r.to, n, P) /\ Ranks(r.to, P, key)
        BY <2>1, <2>2, <2>3, MinmaxRanks
    <2> QED BY <1>1, <1>2, <2>4 DEF Solved
<1>5. CASE by \notin {"constraint", "minmax"}
    <2>1. r = round_robin(n, list, next)
        BY <1>5 DEF solve
    <2>2. Assigns(r.to, n, P)
        BY <2>1, RoundRobinAssigns
    <2> QED BY <1>5, <2>2 DEF Solved
<1> QED BY <1>3, <1>4, <1>5

-----------------------------------------------------------------------------
(* The scores of workers are numbers *)

\* A worker as the manager has it: what it reported, and its fixed traits.
Reported(w) ==
    \E i \in WorkerIds, available \in BOOLEAN, load \in 0 .. 10 :
      w = WorkerInfo(i, available, load, Traits[i])

LEMMA TermsAddUp ==
    ASSUME NEW a \in Int, NEW b \in Int, NEW c \in Int, NEW d \in Int, NEW e \in Int,
           NEW f \in Int, NEW g \in Int, NEW h \in Int, NEW i \in Int
    PROVE  a + b + c + d + e + f + g + h + i \in Int
OBVIOUS

LEMMA ScoreIsNumber ==
    ASSUME NEW w, Reported(w), NEW weights \in [ScoreVariables -> Int]
    PROVE  compute_score(w, weights) \in Int
<1>1. PICK i \in WorkerIds, available \in BOOLEAN, load \in 0 .. 10 :
        w = WorkerInfo(i, available, load, Traits[i])
    BY DEF Reported
<1>2. /\ w.available \in BOOLEAN /\ w.load \in 0 .. 10 /\ w.capacity \in Nat
      /\ w.speed \in Nat /\ w.energy \in Nat /\ w.tier \in Nat /\ w.skills \in Nat
      /\ w.compute \in Nat /\ w.reasoning \in Nat
    BY <1>1, SchedulingAssumption DEF WorkerInfo
<1>3. PICK v : v = Normalised(w)
    OBVIOUS
<1>4. /\ v.availability \in Int /\ v.capacity \in Int /\ v.load \in Int /\ v.speed \in Int
      /\ v.energy \in Int /\ v.tier \in Int /\ v.skills \in Int /\ v.compute \in Int
      /\ v.reasoning \in Int
    BY <1>2, <1>3 DEF Normalised
<1>5. \A x \in ScoreVariables : weights[x] \in Int
    OBVIOUS
<1>6. /\ weights.availability \in Int /\ weights.capacity \in Int /\ weights.load \in Int
      /\ weights.speed \in Int /\ weights.energy \in Int /\ weights.tier \in Int
      /\ weights.skills \in Int /\ weights.compute \in Int /\ weights.reasoning \in Int
    BY <1>5 DEF ScoreVariables
<1>7. \A x, y \in Int : x * y \in Int
    OBVIOUS
<1>8. PICK a \in Int, b \in Int, c \in Int, d \in Int, e \in Int, f \in Int, g \in Int,
           h \in Int, j \in Int :
        /\ a = weights.availability * v.availability /\ b = weights.capacity * v.capacity
        /\ c = weights.load * v.load /\ d = weights.speed * v.speed
        /\ e = weights.energy * v.energy /\ f = weights.tier * v.tier
        /\ g = weights.skills * v.skills /\ h = weights.compute * v.compute
        /\ j = weights.reasoning * v.reasoning
    BY <1>4, <1>6, <1>7, Zenon
<1>9. compute_score(w, weights) = a + b + c + d + e + f + g + h + j
    BY <1>3, <1>8, Zenon DEF compute_score
<1> QED BY <1>9, TermsAddUp

LEMMA ProfitIsNumber ==
    ASSUME NEW w, Reported(w)
    PROVE  Profit(w) \in Int
<1>1. PICK i \in WorkerIds, available \in BOOLEAN, load \in 0 .. 10 :
        w = WorkerInfo(i, available, load, Traits[i])
    BY DEF Reported
<1>2. w.load \in 0 .. 10 /\ w.capacity \in Nat /\ w.speed \in Nat /\ w.energy \in Nat
    BY <1>1, SchedulingAssumption DEF WorkerInfo
<1>3. PICK e \in Int : e = IF w.energy = 0 THEN 1200 ELSE 120 \div (2 * w.energy)
    <2>1. CASE w.energy = 0
        BY <2>1
    <2>2. CASE w.energy # 0
        <3>1. PICK d \in Nat \ {0} : d = 2 * w.energy
            BY <1>2, <2>2
        <3>2. 120 \div d \in Int
            OBVIOUS
        <3> QED BY <2>2, <3>1, <3>2
    <2> QED BY <2>1, <2>2
<1>4. PICK s \in Int, c \in Int, l \in Int : s = 2 * w.speed /\ c = w.capacity /\ l = 10 - w.load
    BY <1>2
<1>5. Profit(w) = s * c * l * e
    BY <1>3, <1>4 DEF Profit
<1>6. s * c * l * e \in Int
    OBVIOUS
<1> QED BY <1>5, <1>6

LEMMA RaisedProfile ==
    ASSUME NEW weights \in [ScoreVariables -> Int], NEW least,
           \A v \in DOMAIN least : least[v] \in Int
    PROVE  Raised(weights, least) \in [ScoreVariables -> Int]
<1>1. ASSUME NEW v \in ScoreVariables
      PROVE  (IF v \in DOMAIN least THEN Max({weights[v], least[v]}) ELSE weights[v]) \in Int
    <2>1. weights[v] \in Int
        OBVIOUS
    <2>2. CASE v \in DOMAIN least
        <3>1. PICK a \in Int, b \in Int : a = weights[v] /\ b = least[v]
            BY <2>1, <2>2
        <3>2. Max({a, b}) = IF a <= b THEN b ELSE a
            BY OfTwo
        <3> QED BY <2>2, <3>1, <3>2
    <2> QED BY <2>1, <2>2
<1> QED BY <1>1 DEF Raised

LEMMA IntentProfile ==
    ASSUME NEW weights \in [ScoreVariables -> Int], NEW intent
    PROVE  profile_for_intent(weights, intent) \in [ScoreVariables -> Int]
<1>1. /\ Raised(weights, [capacity |-> 40, speed |-> 40]) \in [ScoreVariables -> Int]
      /\ Raised(weights, [tier |-> 40, speed |-> 30]) \in [ScoreVariables -> Int]
      /\ Raised(weights, [tier |-> 50]) \in [ScoreVariables -> Int]
      /\ Raised(weights, [speed |-> 40, load |-> 30]) \in [ScoreVariables -> Int]
      /\ Raised(weights, [load |-> 20, availability |-> 50]) \in [ScoreVariables -> Int]
    BY RaisedProfile
<1>2. [Raised(weights, [capacity |-> 40, speed |-> 40]) EXCEPT !.tier = 0]
        \in [ScoreVariables -> Int]
    <2>1. PICK f \in [ScoreVariables -> Int] : f = Raised(weights, [capacity |-> 40, speed |-> 40])
        BY <1>1
    <2>2. [f EXCEPT !.tier = 0] \in [ScoreVariables -> Int]
        OBVIOUS
    <2> QED BY <2>1, <2>2
<1> QED BY <1>1, <1>2 DEF profile_for_intent

-----------------------------------------------------------------------------
(* The last batch *)

ReportedInv ==
    /\ \A i \in DOMAIN workers_ : Reported(workers_[i])
    /\ \A w \in ToSet(cached) : Reported(w)

\* The counts of the plan are those of an assignment that the policy may give
\* for the dispatcher's list.
PlanInv ==
    plan.n > 0 /\ policy # "random" =>
      /\ plan.n \in Nat
      /\ \E to : /\ plan.count = CountOf(to)
                 /\ Solved(to, plan.n, policy, ToSet(Available(cached)),
                           profile_for_intent(Weights[Profile], plan.intent))

LEMMA ReportedInit == Init => ReportedInv
<1> SUFFICES ASSUME Init PROVE ReportedInv
    OBVIOUS
<1>1. ASSUME NEW i \in DOMAIN workers_ PROVE Reported(workers_[i])
    <2>1. i \in WorkerIds /\ workers_[i] = WorkerInfo(i, TRUE, 0, Traits[i])
        BY DEF Init
    <2>2. TRUE \in BOOLEAN /\ 0 \in 0 .. 10
        OBVIOUS
    <2> QED BY <2>1, <2>2, Zenon DEF Reported
<1>2. ToSet(cached) = {}
    <2>1. cached = <<>>
        BY DEF Init
    <2> QED BY <2>1 DEF ToSet
<1> QED BY <1>1, <1>2 DEF ReportedInv

LEMMA ReportedNext == RegistryInv /\ ReportedInv /\ [Next]_schedvars => ReportedInv'
<1> SUFFICES ASSUME RegistryInv, ReportedInv, [Next]_schedvars PROVE ReportedInv'
    OBVIOUS
<1>1. \A i \in DOMAIN workers_ : Reported(workers_[i])
    BY DEF ReportedInv
<1>2. ASSUME UNCHANGED <<workers_, cached>> PROVE ReportedInv'
    <2>1. workers_' = workers_ /\ cached' = cached
        BY <1>2
    <2> QED BY <2>1 DEF ReportedInv
<1>3. ASSUME UNCHANGED <<managerVars, cached>> PROVE ReportedInv'
    BY <1>2, <1>3 DEF managerVars
<1>4. ASSUME cached' = cached, \A i \in DOMAIN workers_' : Reported(workers_'[i])
      PROVE  ReportedInv'
    BY <1>4 DEF ReportedInv
<1>5. ASSUME NEW i \in WorkerIds, register_worker(i) PROVE ReportedInv'
    <2>1. workers_' = Put(workers_, i, WorkerInfo(i, TRUE, 0, Traits[i])) /\ cached' = cached
        BY <1>5 DEF register_worker, ChangeRegistry
    <2>2. TRUE \in BOOLEAN /\ 0 \in 0 .. 10
        OBVIOUS
    <2>3. Reported(WorkerInfo(i, TRUE, 0, Traits[i]))
        BY <2>2, Zenon DEF Reported
    <2>4. \A j \in DOMAIN workers_' : Reported(workers_'[j])
        BY <1>1, <2>1, <2>3 DEF Put
    <2> QED BY <1>4, <2>1, <2>4
<1>6. ASSUME NEW i \in WorkerIds, NEW available \in BOOLEAN, NEW load \in Loads,
             update_score(i, available, load)
      PROVE  ReportedInv'
    <2>1. /\ workers_' = [workers_ EXCEPT ![i] = WorkerInfo(i, available, load, Traits[i])]
          /\ cached' = cached
        BY <1>6 DEF update_score, ChangeRegistry
    <2>2. load \in 0 .. 10
        BY SchedulingAssumption
    <2>3. Reported(WorkerInfo(i, available, load, Traits[i]))
        BY <2>2, Zenon DEF Reported
    <2>4. \A j \in DOMAIN workers_' : Reported(workers_'[j])
        BY <1>1, <2>1, <2>3
    <2> QED BY <1>4, <2>1, <2>4
<1>7. ASSUME NEW i \in WorkerIds, deregister_worker(i) PROVE ReportedInv'
    <2>1. workers_' = [j \in DOMAIN workers_ \ {i} |-> workers_[j]] /\ cached' = cached
        BY <1>7 DEF deregister_worker, ChangeRegistry, Restrict
    <2>2. \A j \in DOMAIN workers_' : Reported(workers_'[j])
        BY <1>1, <2>1
    <2> QED BY <1>4, <2>1, <2>2
<1>8. ASSUME NEW p \in DOMAIN Weights, top_n_workers(p) PROVE ReportedInv'
    BY <1>2, <1>8 DEF top_n_workers
<1>9. CASE RefreshWorkers
    <2>1. workers_' = workers_ /\ cached' \in {<<>>, all_workers}
        BY <1>9 DEF RefreshWorkers, managerVars
    <2>2. \A w \in ToSet(cached') : Reported(w)
        <3>1. CASE cached' = <<>>
            BY <3>1 DEF ToSet
        <3>2. CASE cached' = all_workers
            <4>1. \A w \in ToSet(all_workers) : \E i \in DOMAIN workers_ : w = workers_[i]
                BY AllListed
            <4> QED BY <1>1, <3>2, <4>1
        <3> QED BY <2>1, <3>1, <3>2
    <2>3. \A i \in DOMAIN workers_' : Reported(workers_'[i])
        BY <1>1, <2>1
    <2> QED BY <2>2, <2>3 DEF ReportedInv
<1>10. ASSUME NEW i \in WorkerIds, ScheduleByLocality(i) PROVE ReportedInv'
    BY <1>3, <1>10 DEF ScheduleByLocality, PublishTo
<1>11. ASSUME NEW n \in Batches, NEW intent \in Intents, SolveBatch(n, intent) PROVE ReportedInv'
    BY <1>3, <1>11 DEF SolveBatch
<1>12. ASSUME NEW p \in Params, create_label(p) PROVE ReportedInv'
    BY <1>3, <1>12 DEF create_label
<1>13. CASE publish \/ ReceiveLabel \/ Shuffle \/ DropLabel \/ ExecuteLabel
    BY <1>3, <1>13 DEF publish, ReceiveLabel, Shuffle, DropLabel, ExecuteLabel
<1>14. CASE ScheduleLabel
    BY <1>3, <1>14 DEF ScheduleLabel, PublishTo
<1>15. ASSUME NEW ok \in BOOLEAN, FinishLabel(ok) PROVE ReportedInv'
    BY <1>3, <1>15 DEF FinishLabel
<1>16. CASE ReceiveCompletion \/ Tick
    BY <1>3, <1>16 DEF ReceiveCompletion, Tick
<1>17. CASE UNCHANGED schedvars
    BY <1>3, <1>17 DEF schedvars
<1> QED BY <1>5, <1>6, <1>7, <1>8, <1>9, <1>10, <1>11, <1>12, <1>13, <1>14, <1>15, <1>16, <1>17
        DEF Next

LEMMA PlanInit == Init => PlanInv
<1> SUFFICES ASSUME Init PROVE PlanInv
    OBVIOUS
<1>1. plan = NoPlan
    BY DEF Init
<1>2. plan.n = 0
    BY <1>1 DEF NoPlan
<1> QED BY <1>2 DEF PlanInv

LEMMA PlanKept ==
    ASSUME PlanInv, UNCHANGED <<plan, policy, cached>>
    PROVE  PlanInv'
<1>1. plan' = plan /\ policy' = policy /\ cached' = cached
    OBVIOUS
<1> QED BY <1>1 DEF PlanInv

LEMMA PlanDropped ==
    ASSUME plan' = NoPlan
    PROVE  PlanInv'
BY DEF NoPlan, PlanInv

LEMMA PlanSolved ==
    ASSUME DispatcherInv, ReportedInv, NEW n \in Nat, NEW intent,
           NEW r \in solve(policy, n, cached, Weights[Profile], intent, next_),
           r.to # Nobody, Assign(n, intent, r), policy' = policy, cached' = cached
    PROVE  PlanInv'
<1>1. plan' = [n |-> n, intent |-> intent, count |-> CountOf(r.to)]
    BY DEF Assign
<1>2. CASE policy = "random"
    BY <1>2 DEF PlanInv
<1>3. CASE policy # "random"
    <2>1. Listed(cached) /\ next_ \in Nat
        BY DEF DispatcherInv
    <2>2. Weights[Profile] \in [ScoreVariables -> Int]
        BY SchedulingAssumption
    <2>3. profile_for_intent(Weights[Profile], intent) \in [ScoreVariables -> Int]
        BY <2>2, IntentProfile
    <2>4. \A w \in ToSet(Available(cached)) : Reported(w)
        BY <2>1, AvailableOnes DEF ReportedInv
    <2>5. \A w \in ToSet(Available(cached)) :
            /\ Profit(w) \in Int
            /\ compute_score(w, profile_for_intent(Weights[Profile], intent)) \in Int
        BY <2>3, <2>4, ScoreIsNumber, ProfitIsNumber
    <2>6. Solved(r.to, n, policy, ToSet(Available(cached)),
                 profile_for_intent(Weights[Profile], intent))
        BY <1>3, <2>1, <2>5, SolveRanks
    <2>7. plan'.n = n /\ plan'.intent = intent /\ plan'.count = CountOf(r.to)
        BY <1>1
    <2> QED BY <2>6, <2>7 DEF PlanInv
<1> QED BY <1>2, <1>3

LEMMA PlanNext ==
    DispatcherInv /\ ReportedInv /\ PlanInv /\ [Next]_schedvars => PlanInv'
<1> SUFFICES ASSUME DispatcherInv, ReportedInv, PlanInv, [Next]_schedvars PROVE PlanInv'
    OBVIOUS
<1> USE DEF solverVars
<1>1. ASSUME NEW i \in WorkerIds, register_worker(i) PROVE PlanInv'
    BY <1>1, PlanKept DEF register_worker, ChangeRegistry
<1>2. ASSUME NEW i \in WorkerIds, NEW available \in BOOLEAN, NEW load \in Loads,
             update_score(i, available, load)
      PROVE  PlanInv'
    BY <1>2, PlanKept DEF update_score, ChangeRegistry
<1>3. ASSUME NEW i \in WorkerIds, deregister_worker(i) PROVE PlanInv'
    BY <1>3, PlanKept DEF deregister_worker, ChangeRegistry
<1>4. ASSUME NEW p \in DOMAIN Weights, top_n_workers(p) PROVE PlanInv'
    BY <1>4, PlanKept DEF top_n_workers
<1>5. ASSUME NEW i \in WorkerIds, ScheduleByLocality(i) PROVE PlanInv'
    BY <1>5, PlanKept DEF ScheduleByLocality, PublishTo
<1>6. CASE RefreshWorkers
    BY <1>6, PlanDropped DEF RefreshWorkers
<1>7. ASSUME NEW n \in Batches, NEW intent \in Intents, SolveBatch(n, intent)
      PROVE  PlanInv'
    <2>1. PICK r \in solve(policy, n, cached, Weights[Profile], intent, next_) :
            r.to # Nobody /\ Assign(n, intent, r)
        BY <1>7 DEF SolveBatch
    <2>2. policy' = policy /\ cached' = cached
        BY <1>7 DEF SolveBatch
    <2>3. n \in Nat
        BY SchedulingAssumption
    <2> QED BY <2>1, <2>2, <2>3, PlanSolved
<1>8. ASSUME NEW p \in Params, create_label(p) PROVE PlanInv'
    BY <1>8, PlanDropped DEF create_label
<1>9. CASE publish \/ ReceiveLabel \/ Shuffle \/ DropLabel \/ ExecuteLabel
    BY <1>9, PlanKept DEF publish, ReceiveLabel, Shuffle, DropLabel, ExecuteLabel
<1>10. CASE ScheduleLabel
    <2>1. PICK r \in solve(policy, 1, cached, Weights[Profile], label.intent, next_) :
            /\ r.to # Nobody
            /\ Assign(1, label.intent, r)
            /\ PublishTo(r.to[1], policy)
        BY <1>10 DEF ScheduleLabel
    <2>2. policy' = policy /\ cached' = cached
        BY <2>1 DEF PublishTo
    <2> QED BY <2>1, <2>2, PlanSolved
<1>11. ASSUME NEW ok \in BOOLEAN, FinishLabel(ok) PROVE PlanInv'
    BY <1>11, PlanKept DEF FinishLabel
<1>12. CASE ReceiveCompletion \/ Tick
    BY <1>12, PlanKept DEF ReceiveCompletion, Tick
<1>13. CASE UNCHANGED schedvars
    BY <1>13, PlanKept DEF schedvars
<1> QED BY <1>1, <1>2, <1>3, <1>4, <1>5, <1>6, <1>7, <1>8, <1>9, <1>10, <1>11, <1>12, <1>13 DEF Next

LEMMA BestFromPlan == DispatcherInv /\ PlanInv => BestAvailable
<1> SUFFICES ASSUME DispatcherInv, PlanInv, plan.n > 0, policy # "random" PROVE BestAvailable
    BY DEF BestAvailable
<1> DEFINE pool == {w \in ToSet(cached) : w.available}
           weights == profile_for_intent(Weights[Profile], plan.intent)
           rank == [w \in pool |-> IF policy = "minmax" THEN Profit(w)
                                   ELSE compute_score(w, weights)]
<1>1. Listed(Available(cached)) /\ ToSet(Available(cached)) = pool
    BY AvailableOnes DEF DispatcherInv
<1>2. PICK to : plan.count = CountOf(to) /\ Solved(to, plan.n, policy, pool, weights)
    BY <1>1 DEF PlanInv
<1>3. PICK n \in Nat : n = plan.n
    BY DEF PlanInv
<1>4. PICK g : g = plan.count
    OBVIOUS
<1>5. IsFiniteSet(pool) /\ Distinct(pool)
    BY <1>1, PoolFinite DEF Distinct
<1>6. \A w \in pool : w.id \in WorkerIds
    BY <1>1 DEF Listed
<1>7. MapThenSumSet(LAMBDA w : plan.count[w.id], pool) = plan.n
    <2> HIDE DEF pool, weights
    <2>1. Assigns(to, n, pool)
        BY <1>2, <1>3 DEF Solved
    <2>2. Counts(g, to, n, pool)
        BY <1>2, <1>4, <1>6, <2>1 DEF CountOf, At, Counts, Assigns
    <2>3. Sums(g, pool)[pool] = n
        BY <1>5, <2>1, <2>2, CountsAddUp
    <2>4. MapThenSumSet(LAMBDA w : plan.count[w.id], pool) = Sums(plan.count, pool)[pool]
        BY DEF Sums, Adds, MapThenSumSet, MapThenFoldSet
    <2> QED BY <1>3, <1>4, <2>3, <2>4
<1>8. ASSUME policy \in {"constraint", "minmax"}
      PROVE  \A v, w \in pool : rank[v] > rank[w] => plan.count[v.id] >= plan.count[w.id]
    <2>1. rank = Score(policy, pool, weights)
        BY DEF Score
    <2> HIDE DEF rank, pool, weights
    <2> QED BY <1>2, <1>8, <2>1 DEF Solved, Ranks
<1> QED BY <1>7, <1>8 DEF BestAvailable

\* Apart from the random one, a solver gives every label of a batch to an
\* available worker; by constraint and minmax no worker gets more labels than one
\* that ranks above it (ConstraintSolver::solve, MinMaxSolver::solve): for any
\* list of workers, any weights and traits, and batches of any size.
THEOREM BestIsAvailable == Spec => []BestAvailable
<1>1. Spec => [](RegistryInv /\ DispatcherInv)
    BY RegistryInit, RegistryNext, DispatcherInit, DispatcherNext, PTL DEF Spec
<1>2. Spec => []ReportedInv
    BY <1>1, ReportedInit, ReportedNext, PTL DEF Spec
<1>3. Spec => []PlanInv
    BY <1>1, <1>2, PlanInit, PlanNext, PTL DEF Spec
<1> QED BY <1>1, <1>3, BestFromPlan, PTL
=============================================================================
