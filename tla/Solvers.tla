------------------------------- MODULE Solvers -------------------------------
(***************************************************************************)
(* The scheduling policies (src/src/labios/solver) and the worker score    *)
(* they share (src/src/labios/worker_manager.cpp).                         *)
(*                                                                         *)
(* Fractions are integers: a normalised variable counts in tenths, a       *)
(* weight in hundredths, so a score of 1.0 is 1000.  An assignment gives   *)
(* each label of a batch, by its position, the id of a worker; the empty   *)
(* one stands for the empty AssignmentMap.  Where the code leaves a choice *)
(* open (a random number, the order of equal scores), the operator is the  *)
(* set of the assignments it may return.                                   *)
(***************************************************************************)
EXTENDS Integers, Sequences, SequencesExt

(* A worker as the manager describes it. *)
WorkerInfo(id, available, load, traits) ==
    [id |-> id, available |-> available, load |-> load,
     capacity |-> traits.capacity, speed |-> traits.speed,
     energy |-> traits.energy, tier |-> traits.tier, skills |-> traits.skills,
     compute |-> traits.compute, reasoning |-> traits.reasoning]

ScoreVariables ==
    {"availability", "capacity", "load", "speed", "energy", "tier", "skills", "compute",
     "reasoning"}

(* The variables of a score, in [0, 1]. *)
Normalised(w) ==
    [availability |-> IF w.available THEN 10 ELSE 0,
     capacity |-> w.capacity,
     load |-> 10 - w.load,
     speed |-> 2 * w.speed,
     energy |-> 2 * w.energy,
     tier |-> 5 * w.tier,
     skills |-> w.skills,
     compute |-> w.compute,
     reasoning |-> 2 * w.reasoning]

compute_score(w, weights) ==
    LET v == Normalised(w)
    IN  weights.availability * v.availability
          + weights.capacity * v.capacity
          + weights.load * v.load
          + weights.speed * v.speed
          + weights.energy * v.energy
          + weights.tier * v.tier
          + weights.skills * v.skills
          + weights.compute * v.compute
          + weights.reasoning * v.reasoning

(* An intent raises some weights of the profile to a minimum. *)
Raised(weights, least) ==
    [v \in DOMAIN weights |->
       IF v \in DOMAIN least THEN Max({weights[v], least[v]}) ELSE weights[v]]

profile_for_intent(weights, intent) ==
    CASE intent = "Checkpoint" ->
           [Raised(weights, [capacity |-> 40, speed |-> 40]) EXCEPT !.tier = 0]
      [] intent \in {"Embedding", "ModelWeight"} ->
           Raised(weights, [tier |-> 40, speed |-> 30])
      [] intent \in {"ReasoningTrace", "KVCache"} -> Raised(weights, [tier |-> 50])
      [] intent = "Cache" -> Raised(weights, [speed |-> 40, load |-> 30])
      [] intent = "Intermediate" -> Raised(weights, [load |-> 20, availability |-> 50])
      [] OTHER -> weights

-----------------------------------------------------------------------------
Ids(workers) == [k \in DOMAIN workers |-> workers[k].id]

(* Seeded fault: suspended workers are not filtered out. *)
EveryWorker(workers) == workers

Available(workers) ==
    LET upTo[k \in 0 .. Len(workers)] ==
          IF k = 0 THEN <<>>
          ELSE IF workers[k].available THEN Append(upTo[k - 1], workers[k])
          ELSE upTo[k - 1]
    IN  upTo[Len(workers)]

Nobody == <<>>

(* Round robin: the assignment, and next_ after it. *)
round_robin(n, workers, next) ==
    LET pool == Ids(Available(workers))
        start == IF next >= Len(pool) THEN 0 ELSE next
    IN  IF pool = <<>> THEN [to |-> Nobody, next |-> next]
        ELSE [to |-> [k \in 1 .. n |-> pool[((start + k - 1) % Len(pool)) + 1]],
              next |-> (start + n) % Len(pool)]

(* Random: any worker for each label, suspended or not. *)
random(n, workers) ==
    IF workers = <<>> THEN {Nobody} ELSE [1 .. n -> ToSet(Ids(workers))]

(* The orders that std::sort may give, the highest key first. *)
Descending(workers, key) ==
    {s \in SetToSeqs(ToSet(workers)) :
       \A j, k \in DOMAIN s : j < k => key[s[j]] >= key[s[k]]}

labels_per_worker == 50

(* Constraint: the labels in turn to the best workers, one for every 50. *)
constraint(n, workers, weights) ==
    LET scored == Available(workers)
        needed == Max({1, (n + labels_per_worker - 1) \div labels_per_worker})
        n_workers == Min({Len(scored), needed})
    IN  IF n = 0 \/ scored = <<>> THEN {Nobody}
        ELSE {[k \in 1 .. n |-> s[((k - 1) % n_workers) + 1].id] :
                s \in Descending(scored, [w \in ToSet(scored) |->
                                              compute_score(w, weights)])}

(* speed * capacity * (1 - load) / energy, over a common denominator for   *)
(* the energy classes 1 to 5; class 0 counts as 0.01.                      *)
Profit(w) ==
    (2 * w.speed) * w.capacity * (10 - w.load)
      * (IF w.energy = 0 THEN 1200 ELSE 120 \div (2 * w.energy))

total_profit(scored) ==
    LET sum[k \in 0 .. Len(scored)] ==
          IF k = 0 THEN 0 ELSE sum[k - 1] + Profit(scored[k])
    IN  sum[Len(scored)]

(* MinMax: each worker gets its share of the total profit, rounded, and at *)
(* least one label as long as there are any.                               *)
Share(w, n, size, total) ==
    IF total > 0 THEN (2 * Profit(w) * n + total) \div (2 * total)
                 ELSE (2 * n + size) \div (2 * size)

(* How many labels the first k workers of the order s take together. *)
assigned(s, n, total) ==
    LET Count(w, left) == Min({left, Max({1, Share(w, n, Len(s), total)})})
        upTo[k \in 0 .. Len(s)] ==
          IF k = 0 THEN 0 ELSE upTo[k - 1] + Count(s[k], n - upTo[k - 1])
    IN  upTo

(* The labels in turn to the workers; what is left goes to the first. *)
minmax(n, workers) ==
    LET scored == Available(workers)
        Spread(s) ==
            LET upTo == assigned(s, n, total_profit(scored))
                Taker(label) ==
                  LET reach == {k \in 1 .. Len(s) : upTo[k] >= label}
                  IN  IF reach = {} THEN s[1].id ELSE s[Min(reach)].id
            IN  [label \in 1 .. n |-> Taker(label)]
    IN  IF n = 0 \/ scored = <<>> THEN {Nobody}
        ELSE {Spread(s) : s \in Descending(scored, [w \in ToSet(scored) |-> Profit(w)])}

-----------------------------------------------------------------------------
(* solve of the dispatcher: the assignment by the configured policy, with  *)
(* the cursor of the round-robin solver.                                   *)
solve(policy, n, workers, weights, intent, next) ==
    LET Stay(A) == {[to |-> a, next |-> next] : a \in A}
    IN  CASE policy = "random" -> Stay(random(n, workers))
          [] policy = "constraint" ->
               Stay(constraint(n, workers, profile_for_intent(weights, intent)))
          [] policy = "minmax" -> Stay(minmax(n, workers))
          [] OTHER -> {round_robin(n, workers, next)}
=============================================================================
