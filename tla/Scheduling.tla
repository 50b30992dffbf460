------------------------------ MODULE Scheduling ------------------------------
(***************************************************************************)
(* A label on its way through the system, seen as data: the client makes   *)
(* it, the dispatcher picks a worker for it by a solver, the worker runs   *)
(* it, and each of them notes on it what it did; twice the label goes over *)
(* the wire, and the completion once.  The manager's registry with its     *)
(* score buckets is where the dispatcher's list of workers comes from.     *)
(*                                                                         *)
(* LabelFlow has the interleavings of many labels; here one label is under *)
(* way at a time, with all that is written on it.                          *)
(***************************************************************************)
EXTENDS Solvers, LabelRecord

CONSTANTS
    WorkerIds,
    WorkerName,  \* [WorkerIds -> STRING]: the name a worker signs hops with
    Traits,      \* [WorkerIds -> the fixed part of WorkerInfo]
    Loads,       \* loads that workers report, in tenths
    Weights,     \* weight profiles by name
    Profile,     \* the dispatcher's
    Policies,    \* cfg.scheduler_policy
    Params,      \* LabelParams of the labels that clients make
    Intents,
    Batches,     \* sizes of the batches that solvers are given
    MaxLabels,   \* bound: labels
    MaxChanges,  \* bound: changes of the registry
    MaxClock     \* bound: label_timestamp_now_us

ASSUME SchedulingAssumption ==
    /\ WorkerIds \subseteq Nat \ {0} /\ IsFiniteSet(WorkerIds)
    /\ DOMAIN WorkerName = WorkerIds /\ DOMAIN Traits = WorkerIds
    /\ \A i \in WorkerIds : WorkerName[i] # ""
    /\ \A i \in WorkerIds : Traits[i] \in
         [capacity : Nat, speed : Nat, energy : Nat, tier : Nat, skills : Nat, compute : Nat,
          reasoning : Nat]
    /\ Loads \subseteq 0 .. 10
    /\ \A p \in DOMAIN Weights : Weights[p] \in [ScoreVariables -> Int]
    /\ Profile \in DOMAIN Weights /\ "" \notin DOMAIN Weights
    /\ "" \notin Policies
    /\ \A p \in Params :
         /\ DOMAIN p \subseteq LabelParams
         /\ p.continuation.kind = "None" => p.continuation = NoContinuation
    /\ Batches \subseteq Nat
    /\ MaxLabels \in Nat /\ MaxChanges \in Nat /\ MaxClock \in Nat \ {0}

kNumBuckets == 5

VARIABLES
    (* manager *)
    workers_,    \* WorkerInfo of the registered workers, by id
    scores_, buckets_,
    last_profile_,   \* "" before the first query
    (* dispatcher *)
    policy,
    cached,      \* g_cached_workers
    next_,       \* cursor of the round-robin solver
    (* the label *)
    stage,
    label,       \* as whoever has it sees it
    wire,        \* the encoded label, or completion
    runner,      \* the worker it was published to
    answer,      \* the completion the client decoded
    labels, changes, clock,
    (* history *)
    sent,        \* the label as the client made it
    plan,        \* the last batch that was solved: labels per worker
    given        \* labels per worker since the list of workers came

managerVars == <<workers_, scores_, buckets_, last_profile_, changes>>
solverVars == <<next_, plan, given>>
labelVars == <<stage, label, wire, runner, answer, labels, sent>>
schedvars == <<managerVars, policy, cached, solverVars, labelVars, clock>>

NoPlan == [n |-> 0, intent |-> "None", count |-> [i \in WorkerIds |-> 0]]

Init ==
    /\ workers_ = [i \in WorkerIds |-> WorkerInfo(i, TRUE, 0, Traits[i])]
    /\ scores_ = <<>>
    /\ buckets_ = [b \in 0 .. kNumBuckets - 1 |-> {}]
    /\ last_profile_ = ""
    /\ policy \in Policies
    /\ cached = <<>>
    /\ next_ = 0
    /\ stage = "none" /\ label = LabelData /\ wire = <<>> /\ runner = 0
    /\ answer = CompletionDefault
    /\ labels = 0 /\ changes = 0 /\ clock = 1
    /\ sent = LabelData
    /\ plan = NoPlan
    /\ given = [i \in WorkerIds |-> 0]

-----------------------------------------------------------------------------
(* The manager: InMemoryWorkerManager. *)

bucket_index(score) ==
    Max({0, Min({(score * kNumBuckets) \div 1000, kNumBuckets - 1})})

place_in_bucket(id, score, buckets) ==
    [buckets EXCEPT ![bucket_index(score)] = @ \cup {id}]

Put(f, i, x) == [j \in DOMAIN f \cup {i} |-> IF j = i THEN x ELSE f[j]]

remove_from_buckets(id) ==
    IF id \in DOMAIN scores_
    THEN [buckets_ EXCEPT ![bucket_index(scores_[id])] = @ \ {id}]
    ELSE buckets_

(* Seeded fault: the worker is not taken out of the bucket it was in. *)
RebucketAdd(info) ==
    IF last_profile_ = "" THEN UNCHANGED <<scores_, buckets_>>
    ELSE LET score == compute_score(info, Weights[last_profile_])
         IN  /\ scores_' = Put(scores_, info.id, score)
             /\ buckets_' = place_in_bucket(info.id, score, buckets_)

(* Once there is a profile, a worker moves to the bucket of its new score. *)
Rebucket(info) ==
    IF last_profile_ = "" THEN UNCHANGED <<scores_, buckets_>>
    ELSE LET score == compute_score(info, Weights[last_profile_])
         IN  /\ scores_' = Put(scores_, info.id, score)
             /\ buckets_' = place_in_bucket(info.id, score, remove_from_buckets(info.id))

(* The registry is a hash map, whose order is as good as any. *)
all_workers ==
    LET ids == SetToSeq(DOMAIN workers_)
    IN  [k \in DOMAIN ids |-> workers_[ids[k]]]

ChangeRegistry ==
    /\ changes < MaxChanges
    /\ changes' = changes + 1
    /\ UNCHANGED <<last_profile_, policy, cached, solverVars, labelVars, clock>>

register_worker(i) ==
    LET info == WorkerInfo(i, TRUE, 0, Traits[i])
    IN  /\ workers_' = Put(workers_, i, info)
        /\ Rebucket(info)
        /\ ChangeRegistry

update_score(i, available, load) ==
    LET info == WorkerInfo(i, available, load, Traits[i])
    IN  /\ i \in DOMAIN workers_
        /\ workers_' = [workers_ EXCEPT ![i] = info]
        /\ Rebucket(info)
        /\ ChangeRegistry

deregister_worker(i) ==
    /\ i \in DOMAIN workers_
    /\ workers_' = Restrict(workers_, DOMAIN workers_ \ {i})
    /\ scores_' = Restrict(scores_, DOMAIN scores_ \ {i})
    /\ buckets_' = remove_from_buckets(i)
    /\ ChangeRegistry

(* A query with another profile than the last scores all workers anew; the *)
(* answer, the first n workers from the highest bucket down, changes       *)
(* nothing.                                                                *)
top_n_workers(profile) ==
    LET score == [i \in DOMAIN workers_ |-> compute_score(workers_[i], Weights[profile])]
    IN  /\ profile # last_profile_
        /\ scores_' = score
        /\ buckets_' = [b \in DOMAIN buckets_ |->
                          {i \in DOMAIN score : bucket_index(score[i]) = b}]
        /\ last_profile_' = profile
        /\ UNCHANGED <<workers_, changes, policy, cached, solverVars, labelVars, clock>>

-----------------------------------------------------------------------------
(* The dispatcher. *)

(* An answer that does not come leaves the list empty. *)
RefreshWorkers ==
    /\ cached' \in {<<>>, all_workers}
    /\ plan' = NoPlan
    /\ given' = [i \in WorkerIds |-> 0]
    /\ UNCHANGED <<managerVars, policy, next_, labelVars, clock>>

CountOf(to) == [i \in WorkerIds |-> Cardinality({k \in DOMAIN to : to[k] = i})]

(* Labels per worker, over what each of the available ones has had. *)
Tally(to) ==
    LET count == CountOf(to)
        total == [i \in WorkerIds |-> given[i] + count[i]]
        pool == ToSet(Ids(Available(cached)))
        least == IF pool = {} THEN 0 ELSE Min({total[i] : i \in pool})
    IN  IF policy = "round-robin"
        THEN [i \in WorkerIds |-> IF i \in pool THEN total[i] - least ELSE total[i]]
        ELSE given

(* Seeded fault: the cursor of the solver is lost. *)
AssignAfresh(n, intent, r) ==
    /\ next_' = 0
    /\ plan' = [n |-> n, intent |-> intent, count |-> CountOf(r.to)]
    /\ given' = Tally(r.to)

Assign(n, intent, r) ==
    /\ next_' = r.next
    /\ plan' = [n |-> n, intent |-> intent, count |-> CountOf(r.to)]
    /\ given' = Tally(r.to)

(* A batch of several labels, as the solvers are made for; the dispatcher  *)
(* gives them one at a time.  Of random batches there is nothing to say,   *)
(* and only the constraint solver looks at the intent.                     *)
SolveBatch(n, intent) ==
    /\ stage = "none" /\ policy # "random"
    /\ policy = "constraint" \/ intent = "None"
    /\ \E r \in solve(policy, n, cached, Weights[Profile], intent, next_) :
         r.to # Nobody /\ Assign(n, intent, r)
    /\ UNCHANGED <<managerVars, policy, cached, labelVars, clock>>

ReceiveLabel ==
    /\ stage = "sent"
    /\ label' = mark_label_queued([deserialize_label(wire) EXCEPT !.reply_to = "inbox"],
                                  clock)
    /\ stage' = "queued"
    /\ UNCHANGED <<managerVars, policy, cached, solverVars, wire, runner, answer,
                   labels, sent, clock>>

Shuffle ==
    /\ stage = "queued"
    /\ label' = mark_label_shuffled(label, clock)
    /\ stage' = "shuffled"
    /\ UNCHANGED <<managerVars, policy, cached, solverVars, wire, runner, answer,
                   labels, sent, clock>>

snapshot_worker(i) ==
    LET found == {w \in ToSet(cached) : w.id = i}
    IN  IF found = {} THEN NoSnapshot
        ELSE LET w == CHOOSE w \in found : TRUE
             IN  [availability |-> IF w.available THEN 1 ELSE 0,
                  capacity |-> w.capacity, load |-> w.load, speed |-> w.speed,
                  energy |-> w.energy, tier |-> w.tier]

PublishTo(i, why) ==
    /\ label' = mark_label_scheduled(label, i, why, snapshot_worker(i), clock)
    /\ wire' = serialize_label(label')
    /\ runner' = i
    /\ stage' = "routed"
    /\ UNCHANGED <<managerVars, policy, cached, answer, labels, sent, clock>>

(* select_worker: a batch of one label. *)
ScheduleLabel ==
    /\ stage = "shuffled"
    /\ \E r \in solve(policy, 1, cached, Weights[Profile], label.intent, next_) :
         /\ r.to # Nobody
         /\ Assign(1, label.intent, r)
         /\ PublishTo(r.to[1], policy)

(* The file has a worker already: the solver is not asked. *)
ScheduleByLocality(i) ==
    /\ stage = "shuffled" /\ cached # <<>>
    /\ label.type = "Write" /\ label.destination.kind = "file"
    /\ PublishTo(i, "write-locality")
    /\ UNCHANGED solverVars

(* No workers are known, or none is available: the label is skipped. *)
DropLabel ==
    /\ stage = "shuffled"
    /\ \/ cached = <<>>
       \/ policy # "random" /\ Available(cached) = <<>>
    /\ stage' = "none"
    /\ UNCHANGED <<managerVars, policy, cached, solverVars, label, wire, runner,
                   answer, labels, sent, clock>>

-----------------------------------------------------------------------------
(* The worker. *)

ExecuteLabel ==
    /\ stage = "routed"
    /\ label' = mark_label_executing(deserialize_label(wire), WorkerName[runner], clock)
    /\ stage' = "executing"
    /\ UNCHANGED <<managerVars, policy, cached, solverVars, wire, runner, answer,
                   labels, sent, clock>>

(* It works, or an exception ends it, as for a type it does not know. *)
FinishLabel(ok) ==
    LET status == IF ok THEN "Complete" ELSE "Error"
        where == IF ok THEN "location" ELSE ""
        error == IF ok THEN "" ELSE "what"
        data_key == IF ok /\ label.type = "Read" THEN "key" ELSE ""
    IN  /\ stage = "executing"
        /\ ok => label.type \in {"Read", "Write"}
        /\ label' = mark_label_finished(label, status, where,
                                        IF ok THEN label.data_size ELSE 0, error, clock)
        /\ wire' = serialize_completion([label_id |-> label.id, status |-> status,
                                         error |-> error, data_key |-> data_key])
        /\ stage' = "finished"
        /\ UNCHANGED <<managerVars, policy, cached, solverVars, runner, answer,
                       labels, sent, clock>>

-----------------------------------------------------------------------------
(* The client. *)

Filled(params, id) ==
    [f \in DOMAIN LabelData |->
       IF f \in DOMAIN params THEN params[f] ELSE IF f = "id" THEN id ELSE LabelData[f]]

create_label(params) ==
    /\ stage \in {"none", "done"} /\ labels < MaxLabels
    /\ labels' = labels + 1
    /\ label' = mark_label_created(Filled(params, labels + 1), clock)
    /\ sent' = label'
    /\ stage' = "created"
    /\ answer' = CompletionDefault
    /\ plan' = NoPlan
    /\ UNCHANGED <<managerVars, policy, cached, next_, given, wire, runner, clock>>

publish ==
    /\ stage = "created"
    /\ wire' = serialize_label(IF label.created_us = 0
                               THEN mark_label_created(label, clock) ELSE label)
    /\ stage' = "sent"
    /\ UNCHANGED <<managerVars, policy, cached, solverVars, label, runner, answer,
                   labels, sent, clock>>

ReceiveCompletion ==
    /\ stage = "finished"
    /\ answer' = deserialize_completion(wire)
    /\ stage' = "done"
    /\ UNCHANGED <<managerVars, policy, cached, solverVars, label, wire, runner,
                   labels, sent, clock>>

Tick ==
    /\ clock < MaxClock
    /\ clock' = clock + 1
    /\ UNCHANGED <<managerVars, policy, cached, solverVars, labelVars>>

-----------------------------------------------------------------------------
Next ==
    \/ \E i \in WorkerIds :
         \/ register_worker(i)
         \/ \E available \in BOOLEAN, load \in Loads : update_score(i, available, load)
         \/ deregister_worker(i)
         \/ ScheduleByLocality(i)
    \/ \E p \in DOMAIN Weights : top_n_workers(p)
    \/ RefreshWorkers
    \/ \E n \in Batches, intent \in Intents : SolveBatch(n, intent)
    \/ \E p \in Params : create_label(p)
    \/ publish \/ ReceiveLabel \/ Shuffle
    \/ ScheduleLabel \/ DropLabel
    \/ ExecuteLabel \/ \E ok \in BOOLEAN : FinishLabel(ok)
    \/ ReceiveCompletion
    \/ Tick

Spec == Init /\ [][Next]_schedvars

-----------------------------------------------------------------------------
Origin == {"id", "type", "source", "destination", "operation", "data_size", "intent",
           "source_uri", "dest_uri", "pipeline", "continuation", "dependencies",
           "created_us"}

(* What the client wrote on a label is what everyone after it reads: no    *)
(* encoding drops a part of it or puts a default in its place, and no mark *)
(* overwrites it.                                                          *)
OriginKept ==
    stage \notin {"none", "created"} => \A f \in Origin : label[f] = sent[f]

(* A label that has been answered tells its history: who had it, in order, *)
(* the worker that ran it as the one it was routed to, times that do not   *)
(* go back, and the outcome the client was told.                           *)
TrailComplete ==
    stage = "done" =>
      /\ [k \in DOMAIN label.hops |-> label.hops[k].component]
           = <<"shuffler", "scheduler", WorkerName[runner]>>
      /\ label.routing.worker_id = runner /\ label.routing.policy # ""
      /\ {"Queued", "Scheduled", "Pending"} \subseteq label.flags
      /\ 0 < label.created_us /\ label.created_us <= label.queued_us
      /\ label.queued_us <= label.hops[1].timestamp_us
      /\ label.hops[1].timestamp_us <= label.dispatched_us
      /\ label.dispatched_us <= label.started_us
      /\ label.started_us <= label.completed_us
      /\ answer.label_id = label.id
      /\ answer.error = label.result.error
      /\ answer.status = "Complete" <=> label.status = "Complete"

(* Apart from the random one, a solver gives every label of a batch to an  *)
(* available worker, and by constraint and minmax no worker gets more than *)
(* one that ranks above it: through the filter, the rounding of the shares *)
(* and the limit of 50 labels per worker.                                  *)
BestAvailable ==
    LET pool == {w \in ToSet(cached) : w.available}
        weights == profile_for_intent(Weights[Profile], plan.intent)
        rank == [w \in pool |-> IF policy = "minmax" THEN Profit(w)
                                ELSE compute_score(w, weights)]
    IN  plan.n > 0 /\ policy # "random" =>
          /\ MapThenSumSet(LAMBDA w : plan.count[w.id], pool) = plan.n
          /\ policy \in {"constraint", "minmax"} =>
               \A v, w \in pool : rank[v] > rank[w] => plan.count[v.id] >= plan.count[w.id]

(* As long as the dispatcher has the same list of workers, round robin     *)
(* gives no available worker two labels more than another: over batches    *)
(* and single labels, and wherever the cursor stood when the list came.    *)
RoundRobinFair ==
    LET pool == {w.id : w \in {w \in ToSet(cached) : w.available}}
    IN  \A i, j \in pool : given[i] <= given[j] + 1

(* Every registered worker is in the bucket of the score it has by the     *)
(* last profile and in no other, through updates, re-registrations and     *)
(* changes of the profile.                                                 *)
BucketsCurrent ==
    last_profile_ # "" =>
      LET place == [i \in DOMAIN workers_ |->
                      bucket_index(compute_score(workers_[i], Weights[last_profile_]))]
      IN  \A b \in DOMAIN buckets_ :
            buckets_[b] = {i \in DOMAIN workers_ : place[i] = b}
=============================================================================
