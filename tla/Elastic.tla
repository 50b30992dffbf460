------------------------------- MODULE Elastic -------------------------------
(***************************************************************************)
(* The manager service: the worker registry (InMemoryWorkerManager), the   *)
(* NATS handlers that feed it, and the elastic Orchestrator that           *)
(* commissions and decommissions worker containers; with the part of a     *)
(* worker process that talks to them.                                      *)
(*                                                                         *)
(* Each NATS subscription of the manager runs on a thread of its own, and  *)
(* so does the orchestrator: messages of one subject keep their order,     *)
(* messages of different subjects do not.  Time is abstracted to whether a *)
(* timeout has passed.                                                     *)
(***************************************************************************)
EXTENDS Integers, FiniteSets, Sequences

CONSTANTS
    Static,            \* ids of the workers started outside the orchestrator
    FirstElasticId,    \* next_elastic_id_ starts here
    MaxCommissions,    \* bound: ids the orchestrator hands out
    MinWorkers,        \* elastic.min_workers
    MaxWorkers,        \* elastic.max_workers
    PressureThreshold, \* elastic.pressure_threshold
    MaxMessages,       \* bound: score updates on their way or half handled
    MaxChurn           \* bound: worker exits, crashes and restarts

Elastics == FirstElasticId .. (FirstElasticId + MaxCommissions - 1)
Ids == Static \cup Elastics

ASSUME ElasticAssumption ==
    /\ FirstElasticId \in Nat \ {0}
    /\ MaxCommissions \in Nat
    /\ MinWorkers \in Nat
    /\ MaxWorkers \in Nat
    /\ PressureThreshold \in Nat \ {0}
    /\ MaxMessages \in Nat
    /\ MaxChurn \in Nat
    /\ Static \subseteq 1 .. (FirstElasticId - 1)

VARIABLES
    (* InMemoryWorkerManager *)
    workers,          \* workers_: "absent", "available" or "suspended"
    suspended_since,  \* suspended_since_: "none", "recent", or "expired" beyond the timeout
    next_elastic_id,
    (* score_update handler *)
    score_copy,       \* the worker's entry copied out of all_workers(), with the update
    (* Orchestrator *)
    evaluation,       \* where evaluate_once is
    idle,             \* snapshot: decommissionable workers
    suspended,        \* snapshot: suspended workers
    target,           \* worker being decommissioned
    pressure_count,
    cooling,          \* commission_cooldown_ms since the last commission has not passed
    commissioned,     \* commissioned_
    pending_resume_id,
    stopping,         \* the elastic thread has been asked to stop
    (* worker processes *)
    process,          \* "off", "booting", "awake", or "asleep" (g_suspended)
    (* messages *)
    registrations,    \* labios.worker.register
    deregistrations,  \* labios.worker.deregister
    score_updates,    \* labios.worker.score_update
    resumes,          \* labios.worker.resume.<id>
    (* history, and bounds *)
    removed,          \* workers the orchestrator has decommissioned
    left,             \* workers that have exited or crashed on their own
    unavailable_for,  \* how long the registry has called a worker suspended
    churn

registryVars == <<workers, suspended_since, next_elastic_id, unavailable_for>>
evalVars == <<evaluation, idle, suspended, target>>
orchVars == <<evalVars, pressure_count, cooling, commissioned, pending_resume_id, stopping,
              removed>>
processVars == <<process, left>>
messageVars == <<registrations, deregistrations, score_updates, resumes>>
evars == <<registryVars, score_copy, orchVars, processVars, messageVars, churn>>

NoCopy == [id |-> 0, available |-> FALSE]
Registered == {w \in Ids : workers[w] # "absent"}
Running == {w \in Ids : process[w] \in {"awake", "asleep"}}

InFlight == Len(score_updates) + (IF score_copy = NoCopy THEN 0 ELSE 1)

-----------------------------------------------------------------------------
(* InMemoryWorkerManager: one locked method each *)

\* Seeded fault: every idle report restarts the clock of the suspension.
TimerRestarted(status, since, available) == IF available THEN "none" ELSE "recent"

\* What update_score does with suspended_since_.
SuspensionTimer(status, since, available) ==
    IF status = "available" /\ ~available THEN "recent"
    ELSE IF status = "suspended" /\ available THEN "none"
    ELSE since

Status(available) == IF available THEN "available" ELSE "suspended"

\* Seeded fault: an update for an unknown worker enters it.
UpdateScoreInserts(w, available) ==
    /\ workers' = [workers EXCEPT ![w] = Status(available)]
    /\ suspended_since' = [suspended_since EXCEPT
                             ![w] = SuspensionTimer(workers[w], @, available)]
    /\ unavailable_for' = [unavailable_for EXCEPT
                             ![w] = IF available THEN "none"
                                    ELSE IF @ = "none" THEN "recent" ELSE @]

\* Seeded fault: a worker that reports itself unavailable is erased.
UpdateScoreErases(w, available) ==
    IF available
    THEN UNCHANGED <<workers, suspended_since, unavailable_for>>
    ELSE /\ workers' = [workers EXCEPT ![w] = "absent"]
         /\ UNCHANGED <<suspended_since, unavailable_for>>

\* update_score: ignored for an unknown worker.
UpdateScore(w, available) ==
    IF workers[w] = "absent"
    THEN UNCHANGED <<workers, suspended_since, unavailable_for>>
    ELSE /\ workers' = [workers EXCEPT ![w] = Status(available)]
         /\ suspended_since' = [suspended_since EXCEPT
                                  ![w] = SuspensionTimer(workers[w], @, available)]
         /\ unavailable_for' = [unavailable_for EXCEPT
                                  ![w] = IF available THEN "none"
                                         ELSE IF @ = "none" THEN "recent" ELSE @]

\* register_worker: the entry is replaced, its suspension timer is left alone.
RegisterWorker(w) ==
    /\ workers' = [workers EXCEPT ![w] = "available"]
    /\ unavailable_for' = [unavailable_for EXCEPT ![w] = "none"]
    /\ UNCHANGED suspended_since

DeregisterWorker(w) ==
    /\ workers' = [workers EXCEPT ![w] = "absent"]
    /\ suspended_since' = [suspended_since EXCEPT ![w] = "none"]
    /\ unavailable_for' = [unavailable_for EXCEPT ![w] = "none"]

SuspendedWorkers == {w \in Ids : workers[w] = "suspended"}

\* decommissionable_workers: an expired entry of a worker that is still suspended.
DecommissionableWorkers ==
    {w \in Ids : suspended_since[w] = "expired" /\ workers[w] = "suspended"}

\* decommission_timeout_ms passes for a worker's entry.
TimeoutPasses(w) ==
    /\ \/ suspended_since[w] = "recent"
       \/ unavailable_for[w] = "recent"
    /\ suspended_since' = [suspended_since EXCEPT ![w] = IF @ = "recent" THEN "expired" ELSE @]
    /\ unavailable_for' = [unavailable_for EXCEPT ![w] = IF @ = "recent" THEN "expired" ELSE @]
    /\ UNCHANGED <<workers, next_elastic_id, score_copy, orchVars, processVars, messageVars,
                   churn>>

-----------------------------------------------------------------------------
(* The manager's handlers *)

HandleRegister(w) ==
    /\ w \in registrations
    /\ registrations' = registrations \ {w}
    /\ RegisterWorker(w)
    /\ UNCHANGED <<next_elastic_id, score_copy, orchVars, processVars, deregistrations,
                   score_updates, resumes, churn>>

HandleDeregister(w) ==
    /\ w \in deregistrations
    /\ deregistrations' = deregistrations \ {w}
    /\ DeregisterWorker(w)
    /\ UNCHANGED <<next_elastic_id, score_copy, orchVars, processVars, registrations,
                   score_updates, resumes, churn>>

\* The score_update handler looks the worker up in a copy of the registry; an
\* update of an unknown worker ends here.
CopyScore ==
    /\ score_copy = NoCopy
    /\ score_updates # <<>>
    /\ score_updates' = Tail(score_updates)
    /\ score_copy' = IF workers[Head(score_updates).id] = "absent"
                     THEN NoCopy ELSE Head(score_updates)
    /\ UNCHANGED <<registryVars, orchVars, processVars, registrations, deregistrations,
                   resumes, churn>>

\* ... and writes the changed entry back under a second lock.
WriteScore ==
    /\ score_copy # NoCopy
    /\ UpdateScore(score_copy.id, score_copy.available)
    /\ score_copy' = NoCopy
    /\ UNCHANGED <<next_elastic_id, orchVars, processVars, messageVars, churn>>

\* The counter after one report; beyond the threshold its value makes no difference.
Pressure(full) ==
    IF full THEN IF pressure_count < PressureThreshold THEN pressure_count + 1
                 ELSE pressure_count
    ELSE 0

\* update_queue_depth: the dispatcher reports the size of each batch.
UpdateQueueDepth(full) ==
    /\ pressure_count' = Pressure(full)
    /\ UNCHANGED <<registryVars, score_copy, evalVars, cooling, commissioned,
                   pending_resume_id, stopping, removed, processVars, messageVars, churn>>

-----------------------------------------------------------------------------
(* Orchestrator::evaluate_once, on the elastic thread *)

\* Each query of the registry takes the lock on its own.
ReadIdle ==
    /\ evaluation = "sleep"
    /\ ~stopping
    /\ idle' = DecommissionableWorkers
    /\ evaluation' = "read"
    /\ UNCHANGED <<registryVars, score_copy, suspended, target, pressure_count, cooling,
                   commissioned, pending_resume_id, stopping, removed, processVars,
                   messageVars, churn>>

ReadSuspended ==
    /\ evaluation = "read"
    /\ suspended' = SuspendedWorkers
    /\ evaluation' = "decide"
    /\ UNCHANGED <<registryVars, score_copy, idle, target, pressure_count, cooling,
                   commissioned, pending_resume_id, stopping, removed, processVars,
                   messageVars, churn>>

\* evaluate: workers are asked for when pressure lasts and there is room for one.
WantsWorker ==
    /\ pressure_count >= PressureThreshold
    /\ Cardinality(Registered) < MaxWorkers
    /\ ~cooling

\* Seeded fault: one worker too many may go.
MayShrinkAtMinimum == Cardinality(Registered) >= MinWorkers /\ pressure_count = 0

MayShrink == Cardinality(Registered) > MinWorkers /\ pressure_count = 0

Decide(decision) ==
    /\ evaluation = "decide"
    /\ evaluation' = decision
    /\ idle' = {}
    /\ suspended' = {}
    /\ UNCHANGED <<registryVars, score_copy, pressure_count, cooling, commissioned,
                   stopping, removed, processVars, messageVars, churn>>

DecideResume ==
    /\ WantsWorker
    /\ \E w \in suspended : pending_resume_id' = w
    /\ UNCHANGED target
    /\ Decide("sleep")

DecideCommission ==
    /\ WantsWorker
    /\ suspended = {}
    /\ UNCHANGED <<target, pending_resume_id>>
    /\ Decide("commission")

DecideDecommission ==
    /\ ~WantsWorker
    /\ MayShrink
    /\ \E w \in idle \cap commissioned : target' = w
    /\ UNCHANGED pending_resume_id
    /\ Decide("decommission")

DecideNothing ==
    /\ ~WantsWorker
    /\ MayShrink => idle \cap commissioned = {}
    /\ UNCHANGED <<target, pending_resume_id>>
    /\ Decide("sleep")

\* commission_worker: a fresh id and create_and_start, which may throw (and does
\* when the bound on ids is reached).
Commission(starts) ==
    /\ evaluation = "commission"
    /\ evaluation' = "sleep"
    /\ next_elastic_id' = IF next_elastic_id \in Elastics THEN next_elastic_id + 1
                          ELSE next_elastic_id
    /\ IF starts
       THEN /\ next_elastic_id \in Elastics
            /\ process' = [process EXCEPT ![next_elastic_id] = "booting"]
            /\ commissioned' = commissioned \cup {next_elastic_id}
            /\ cooling' = TRUE
            /\ pressure_count' = 0
       ELSE UNCHANGED <<process, commissioned, cooling, pressure_count>>
    /\ UNCHANGED <<workers, suspended_since, unavailable_for, score_copy, idle, suspended,
                   target, pending_resume_id, stopping, removed, left, messageVars, churn>>

CooldownPasses ==
    /\ cooling
    /\ cooling' = FALSE
    /\ UNCHANGED <<registryVars, score_copy, evalVars, pressure_count, commissioned,
                   pending_resume_id, stopping, removed, processVars, messageVars, churn>>

\* decommission_worker: forget the container, deregister the worker, stop the
\* container (which may fail: it then keeps running, forgotten).
Forget ==
    /\ evaluation = "decommission"
    /\ commissioned' = commissioned \ {target}
    /\ evaluation' = IF target \in commissioned THEN "deregister" ELSE "sleep"
    /\ UNCHANGED <<registryVars, score_copy, idle, suspended, target, pressure_count, cooling,
                   pending_resume_id, stopping, removed, processVars, messageVars, churn>>

DeregisterTarget ==
    /\ evaluation = "deregister"
    /\ DeregisterWorker(target)
    /\ removed' = removed \cup {target}
    /\ evaluation' = "stop"
    /\ UNCHANGED <<next_elastic_id, score_copy, idle, suspended, target, pressure_count,
                   cooling, commissioned, pending_resume_id, stopping, processVars,
                   messageVars, churn>>

StopOutcome(stops) ==
    IF stops
    THEN /\ process' = [process EXCEPT ![target] = "off"]
         /\ deregistrations' = IF process[target] \in {"awake", "asleep"}
                               THEN deregistrations \cup {target} ELSE deregistrations
         /\ resumes' = resumes \ {target}
    ELSE UNCHANGED <<process, deregistrations, resumes>>

\* The stopped worker deregisters itself on its way out.
StopContainer(stops) ==
    /\ evaluation = "stop"
    /\ evaluation' = "sleep"
    /\ target' = 0
    /\ StopOutcome(stops)
    /\ UNCHANGED <<registryVars, score_copy, idle, suspended, pressure_count, cooling,
                   commissioned, pending_resume_id, stopping, removed, left, registrations,
                   score_updates, churn>>

\* The manager is asked to stop.
RequestStop ==
    /\ ~stopping
    /\ churn < MaxChurn
    /\ churn' = churn + 1
    /\ stopping' = TRUE
    /\ UNCHANGED <<registryVars, score_copy, evalVars, pressure_count, cooling, commissioned,
                   pending_resume_id, removed, processVars, messageVars>>

\* run() returns only then, and a resume that is still pending is published.
SendPendingResume ==
    /\ stopping
    /\ evaluation = "sleep"
    /\ pending_resume_id # 0
    /\ resumes' = resumes \cup ({pending_resume_id} \cap Running)
    /\ pending_resume_id' = 0
    /\ UNCHANGED <<registryVars, score_copy, evalVars, pressure_count, cooling, commissioned,
                   stopping, removed, processVars, registrations, deregistrations,
                   score_updates, churn>>

-----------------------------------------------------------------------------
(* Worker processes *)

\* The process is up: subscribed, and its registration published.
WorkerBoots(w) ==
    /\ process[w] = "booting"
    /\ process' = [process EXCEPT ![w] = "awake"]
    /\ registrations' = registrations \cup {w}
    /\ UNCHANGED <<registryVars, score_copy, orchVars, left, deregistrations, score_updates,
                   resumes, churn>>

\* The score thread: an idle worker may suspend itself; what it is gets reported.
ReportScore(w) ==
    /\ w \in Running
    /\ InFlight < MaxMessages
    /\ \E p \in {process[w], "asleep"} :
          /\ process' = [process EXCEPT ![w] = p]
          /\ score_updates' = Append(score_updates, [id |-> w, available |-> p = "awake"])
    /\ UNCHANGED <<registryVars, score_copy, orchVars, left, registrations, deregistrations,
                   resumes, churn>>

\* A label wakes the worker, and so does a resume command of the dispatcher, which
\* finds every worker suspended; its report is then the next ReportScore.
WorkerWakes(w) ==
    /\ process[w] = "asleep"
    /\ process' = [process EXCEPT ![w] = "awake"]
    /\ UNCHANGED <<registryVars, score_copy, orchVars, left, messageVars, churn>>

\* The orchestrator's resume command wakes it, and it says so.
ResumeArrives(w) ==
    /\ w \in resumes \cap Running
    /\ InFlight < MaxMessages
    /\ resumes' = resumes \ {w}
    /\ process' = [process EXCEPT ![w] = "awake"]
    /\ score_updates' = Append(score_updates, [id |-> w, available |-> TRUE])
    /\ UNCHANGED <<registryVars, score_copy, orchVars, left, registrations, deregistrations,
                   churn>>

Leaves(w) ==
    /\ w \in Running
    /\ churn < MaxChurn
    /\ churn' = churn + 1
    /\ process' = [process EXCEPT ![w] = "off"]
    /\ left' = left \cup {w}
    /\ resumes' = resumes \ {w}
    /\ UNCHANGED <<registryVars, score_copy, orchVars, registrations, score_updates>>

\* SIGTERM: the worker deregisters.
WorkerExits(w) == Leaves(w) /\ deregistrations' = deregistrations \cup {w}

\* Nobody is told.
WorkerCrashes(w) == Leaves(w) /\ UNCHANGED deregistrations

\* A static worker is started again.
WorkerRestarts(w) ==
    /\ w \in Static
    /\ process[w] = "off"
    /\ churn < MaxChurn
    /\ churn' = churn + 1
    /\ process' = [process EXCEPT ![w] = "booting"]
    /\ UNCHANGED <<registryVars, score_copy, orchVars, left, messageVars>>

-----------------------------------------------------------------------------
ElasticInit ==
    /\ workers = [w \in Ids |-> "absent"]
    /\ suspended_since = [w \in Ids |-> "none"]
    /\ next_elastic_id = FirstElasticId
    /\ score_copy = NoCopy
    /\ evaluation = "sleep"
    /\ idle = {}
    /\ suspended = {}
    /\ target = 0
    /\ pressure_count = 0
    /\ cooling = FALSE
    /\ commissioned = {}
    /\ pending_resume_id = 0
    /\ stopping = FALSE
    /\ process = [w \in Ids |-> IF w \in Static THEN "booting" ELSE "off"]
    /\ registrations = {}
    /\ deregistrations = {}
    /\ score_updates = <<>>
    /\ resumes = {}
    /\ removed = {}
    /\ left = {}
    /\ unavailable_for = [w \in Ids |-> "none"]
    /\ churn = 0

HandlerStep ==
    \/ \E w \in Ids : HandleRegister(w) \/ HandleDeregister(w)
    \/ CopyScore
    \/ WriteScore

OrchestratorStep ==
    \/ ReadIdle
    \/ ReadSuspended
    \/ DecideResume
    \/ DecideCommission
    \/ DecideDecommission
    \/ DecideNothing
    \/ \E b \in BOOLEAN : Commission(b) \/ StopContainer(b)
    \/ Forget
    \/ DeregisterTarget
    \/ SendPendingResume

WorkerStep(w) ==
    \/ WorkerBoots(w)
    \/ ReportScore(w)
    \/ WorkerWakes(w)
    \/ ResumeArrives(w)
    \/ WorkerExits(w)
    \/ WorkerCrashes(w)
    \/ WorkerRestarts(w)

ElasticNext ==
    \/ HandlerStep
    \/ OrchestratorStep
    \/ \E w \in Ids : WorkerStep(w) \/ TimeoutPasses(w)
    \/ \E full \in BOOLEAN : UpdateQueueDepth(full)
    \/ CooldownPasses
    \/ RequestStop

ElasticSpec == ElasticInit /\ [][ElasticNext]_evars

\* The threads of the manager keep running, and the elastic thread, once it has
\* decided to commission or to stop a container, gets an answer.
ElasticFairSpec ==
    /\ ElasticSpec
    /\ WF_evars(OrchestratorStep)
    /\ WF_evars(HandlerStep)

-----------------------------------------------------------------------------
(* Properties *)

Statuses == {"absent", "available", "suspended"}
Timers == {"none", "recent", "expired"}
Updates == [id : Ids, available : BOOLEAN]

\* Type correctness.
ElasticTypeOK ==
    /\ workers \in [Ids -> Statuses]
    /\ suspended_since \in [Ids -> Timers]
    /\ next_elastic_id \in FirstElasticId .. (FirstElasticId + MaxCommissions)
    /\ score_copy \in Updates \cup {NoCopy}
    /\ evaluation \in {"sleep", "read", "decide", "commission", "decommission",
                       "deregister", "stop"}
    /\ idle \subseteq Ids
    /\ suspended \subseteq Ids
    /\ target \in Ids \cup {0}
    /\ pressure_count \in 0 .. PressureThreshold
    /\ cooling \in BOOLEAN
    /\ commissioned \subseteq Ids
    /\ pending_resume_id \in Ids \cup {0}
    /\ stopping \in BOOLEAN
    /\ process \in [Ids -> {"off", "booting", "awake", "asleep"}]
    /\ registrations \subseteq Ids
    /\ deregistrations \subseteq Ids
    /\ score_updates \in Seq(Updates)
    /\ resumes \subseteq Ids
    /\ removed \subseteq Ids
    /\ left \subseteq Ids
    /\ unavailable_for \in [Ids -> Timers]
    /\ churn \in 0 .. MaxChurn

\* A worker the orchestrator has decommissioned never comes back into the
\* registry: not by a score update that was on its way or half handled, nor
\* because its container could not be stopped.
RemovedStaysOut == \A w \in removed : workers[w] = "absent"

\* The timer of a suspended worker is the time for which the registry has called
\* it suspended: repeated idle reports do not restart it, and the timer left over
\* from before a re-registration is not taken for it.
TimerIsSuspension ==
    \A w \in Ids : workers[w] = "suspended" => suspended_since[w] = unavailable_for[w]

\* A worker that runs and has never left is in the registry once its registration
\* has been handled, unless the orchestrator decommissioned it: nothing else
\* removes it, and no static worker is ever decommissioned.
RegistryComplete ==
    \A w \in Ids :
        (w \in Running /\ w \notin left /\ w \notin registrations)
        => \/ workers[w] # "absent"
           \/ w \in removed \cap Elastics

\* While no worker leaves on its own, decommissioning never takes the registry
\* below min_workers, although the decision rests on an older count.
MinimumKept ==
    left = {} /\ removed # {} => Cardinality(Registered) >= MinWorkers

\* A worker the orchestrator decided to resume is sent the resume command, or wakes
\* up or goes away by itself.
ResumeSent ==
    \A w \in Ids : pending_resume_id = w ~> (w \in resumes \/ process[w] # "asleep")
=============================================================================
