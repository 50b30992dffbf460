---------------------------- MODULE ServiceProofs ----------------------------
(***************************************************************************)
(* Proofs about two small services that share no state.  Elastic, for      *)
(* every set of static workers, every number of commissions and all        *)
(* limits.  Snowflake, for any number of threads, ids and numbers in a     *)
(* millisecond, and however far the clock runs ahead.                      *)
(***************************************************************************)
EXTENDS Elastic, Snowflake, FiniteSetTheorems, TLAPS

-----------------------------------------------------------------------------
(* Manager and orchestrator: the inductive invariant *)

\* An elastic worker's only registration lies behind it: it has been commissioned,
\* has come up, and the manager has handled its message.  It stays so for ever.
Past(w) ==
    /\ w < next_elastic_id
    /\ process[w] # "booting"
    /\ w \notin registrations

\* Where elastic workers are known, and how far they have come by then.
ElasticKnown ==
    /\ commissioned \subseteq Elastics
    /\ \A w \in Elastics :
          /\ process[w] # "off" \/ w \in registrations => w < next_elastic_id
          /\ w \in registrations => process[w] # "booting"
          /\ workers[w] # "absent" \/ w \in idle \/ w \in removed => Past(w)

\* What the steps of a decommission know of its target.
TargetKnown ==
    /\ evaluation \in {"decommission", "deregister", "stop"} => target \in Elastics /\ Past(target)
    /\ evaluation = "stop" => target \in removed

\* The registry's idea of how long a worker has been suspended.
TimerShape ==
    \A w \in Ids :
        /\ workers[w] = "available" => unavailable_for[w] = "none"
        /\ workers[w] = "suspended" => unavailable_for[w] # "none"

\* Who sends a deregistration.
DeregistrationCause == deregistrations \subseteq left \cup removed

RemovedAreElastic == removed \subseteq Elastics

\* The count a decommission rests on is still good when it is carried out.
RoomToShrink ==
    left = {} /\ evaluation \in {"decommission", "deregister"}
    => Cardinality(Registered) > MinWorkers

ElasticInv ==
    /\ ElasticTypeOK
    /\ ElasticKnown
    /\ TargetKnown
    /\ TimerShape
    /\ DeregistrationCause
    /\ RemovedAreElastic
    /\ RemovedStaysOut
    /\ TimerIsSuspension
    /\ RegistryComplete
    /\ RoomToShrink
    /\ MinimumKept

USE ElasticAssumption

-----------------------------------------------------------------------------
(* Type correctness.  The type of "removed" needs to know that a worker being  *)
(* decommissioned is one of the orchestrator's.                                *)

\* Every step keeps the types.
LEMMA TypeStep ==
    ASSUME ElasticTypeOK, TargetKnown, [ElasticNext]_evars
    PROVE  ElasticTypeOK'
<1> USE DEF ElasticTypeOK, Statuses, Timers, evars, registryVars, evalVars, orchVars,
        processVars, messageVars
<1>1. CASE \E w \in Ids : HandleRegister(w)
    BY <1>1 DEF HandleRegister, RegisterWorker
<1>2. CASE \E w \in Ids : HandleDeregister(w)
    BY <1>2 DEF HandleDeregister, DeregisterWorker
<1>3. CASE CopyScore
    <2>1. Head(score_updates) \in Updates /\ Tail(score_updates) \in Seq(Updates)
        BY <1>3 DEF CopyScore
    <2> QED
        BY <1>3, <2>1 DEF CopyScore
<1>4. CASE WriteScore
    BY <1>4 DEF WriteScore, UpdateScore, Status, SuspensionTimer, NoCopy, Updates
<1>5. CASE ReadIdle
    BY <1>5 DEF ReadIdle, DecommissionableWorkers
<1>6. CASE ReadSuspended
    BY <1>6 DEF ReadSuspended, SuspendedWorkers
<1>7. CASE DecideResume
    BY <1>7 DEF DecideResume, Decide
<1>8. CASE DecideCommission
    BY <1>8 DEF DecideCommission, Decide
<1>9. CASE DecideDecommission
    BY <1>9 DEF DecideDecommission, Decide
<1>10. CASE DecideNothing
    BY <1>10 DEF DecideNothing, Decide
<1>11. CASE Commission(TRUE)
    <2>1. next_elastic_id' \in FirstElasticId .. (FirstElasticId + MaxCommissions)
        BY <1>11 DEF Commission, Elastics
    <2>2. next_elastic_id \in Ids
        BY <1>11 DEF Commission, Ids
    <2>3. pressure_count' \in 0 .. PressureThreshold /\ cooling' \in BOOLEAN
        BY <1>11 DEF Commission
    <2>4. process' \in [Ids -> {"off", "booting", "awake", "asleep"}]
        BY <1>11, <2>2 DEF Commission
    <2>5. commissioned' = commissioned \cup {next_elastic_id} /\ evaluation' = "sleep"
        BY <1>11 DEF Commission
    <2> QED
        BY <1>11, <2>1, <2>2, <2>3, <2>4, <2>5 DEF Commission
<1>12. CASE Commission(FALSE)
    <2>1. next_elastic_id' \in FirstElasticId .. (FirstElasticId + MaxCommissions)
        BY <1>12 DEF Commission, Elastics
    <2>2. cooling' \in BOOLEAN
        BY <1>12 DEF Commission
    <2> QED
        BY <1>12, <2>1, <2>2 DEF Commission
<1>13. CASE StopContainer(TRUE)
    <2>1. target \in Ids
        BY <1>13 DEF StopContainer, TargetKnown, Ids
    <2> QED
        BY <1>13, <2>1 DEF StopContainer, StopOutcome
<1>14. CASE StopContainer(FALSE)
    BY <1>14 DEF StopContainer, StopOutcome, TargetKnown, Ids
<1>15. CASE Forget
    BY <1>15 DEF Forget
<1>16. CASE DeregisterTarget
    BY <1>16 DEF DeregisterTarget, DeregisterWorker, TargetKnown, Ids
<1>17. CASE SendPendingResume
    BY <1>17 DEF SendPendingResume, Running
<1>18. CASE \E w \in Ids : WorkerBoots(w)
    BY <1>18 DEF WorkerBoots
<1>19. CASE \E w \in Ids : ReportScore(w)
    BY <1>19 DEF ReportScore, Running, Updates
<1>20. CASE \E w \in Ids : WorkerWakes(w)
    BY <1>20 DEF WorkerWakes
<1>21. CASE \E w \in Ids : ResumeArrives(w)
    BY <1>21 DEF ResumeArrives, Updates
<1>22. CASE \E w \in Ids : WorkerExits(w) \/ WorkerCrashes(w)
    BY <1>22 DEF WorkerExits, WorkerCrashes, Leaves
<1>23. CASE \E w \in Ids : WorkerRestarts(w)
    BY <1>23 DEF WorkerRestarts
<1>24. CASE \E w \in Ids : TimeoutPasses(w)
    BY <1>24 DEF TimeoutPasses
<1>25. CASE \E full \in BOOLEAN : UpdateQueueDepth(full)
    BY <1>25 DEF UpdateQueueDepth, Pressure
<1>26. CASE CooldownPasses
    BY <1>26 DEF CooldownPasses
<1>27. CASE RequestStop
    BY <1>27 DEF RequestStop
<1>28. CASE UNCHANGED evars
    BY <1>28
<1> QED
    BY <1>1, <1>2, <1>3, <1>4, <1>5, <1>6, <1>7, <1>8, <1>9, <1>10, <1>11, <1>12,
       <1>13, <1>14, <1>15, <1>16, <1>17, <1>18, <1>19, <1>20, <1>21, <1>22, <1>23,
       <1>24, <1>25, <1>26, <1>27, <1>28
       DEF ElasticNext, HandlerStep, OrchestratorStep, WorkerStep

-----------------------------------------------------------------------------
(* Suspension timers *)

\* Every step keeps a worker's timer in line with its suspension.
LEMMA TimerStep ==
    ASSUME ElasticTypeOK, TimerShape, TimerIsSuspension, [ElasticNext]_evars
    PROVE  TimerShape' /\ TimerIsSuspension'
<1> USE DEF ElasticTypeOK, Statuses, Timers, TimerShape, TimerIsSuspension, evars, registryVars, evalVars, orchVars,
        processVars, messageVars
<1>1. CASE \E w \in Ids : HandleRegister(w)
    BY <1>1 DEF HandleRegister, RegisterWorker
<1>2. CASE \E w \in Ids : HandleDeregister(w)
    BY <1>2 DEF HandleDeregister, DeregisterWorker
<1>3. CASE WriteScore
    BY <1>3 DEF WriteScore, UpdateScore, Status, SuspensionTimer, NoCopy, Updates
<1>4. CASE DeregisterTarget
    BY <1>4 DEF DeregisterTarget, DeregisterWorker
<1>5. CASE \E w \in Ids : TimeoutPasses(w)
    BY <1>5 DEF TimeoutPasses
<1>6. CASE UNCHANGED <<workers, suspended_since, unavailable_for>>
    BY <1>6
<1> QED
    BY <1>1, <1>2, <1>3, <1>4, <1>5, <1>6
       DEF ElasticNext, HandlerStep, OrchestratorStep, WorkerStep, HandleRegister,
       HandleDeregister, CopyScore, WriteScore, ReadIdle, ReadSuspended, DecideResume,
       DecideCommission, DecideDecommission, DecideNothing, Decide, Commission, StopContainer,
       Forget, DeregisterTarget, SendPendingResume, WorkerBoots, ReportScore, WorkerWakes,
       ResumeArrives, WorkerExits, WorkerCrashes, Leaves, WorkerRestarts, TimeoutPasses,
       UpdateQueueDepth, CooldownPasses, RequestStop

-----------------------------------------------------------------------------
(* Elastic workers register once, and one that was decommissioned has done so *)

\* Every step keeps what is known of elastic workers; in particular a
\* decommissioned worker has no registration to come.
LEMMA KnownStep ==
    ASSUME ElasticTypeOK, ElasticKnown, TargetKnown, RemovedAreElastic, RemovedStaysOut,
           [ElasticNext]_evars
    PROVE  ElasticKnown' /\ TargetKnown' /\ RemovedAreElastic' /\ RemovedStaysOut'
<1> USE DEF ElasticTypeOK, ElasticKnown, TargetKnown, RemovedAreElastic, RemovedStaysOut, Past,
        Ids, Running, evars, registryVars, evalVars, orchVars,
        processVars, messageVars
<1>1. CASE \E w \in Ids : HandleRegister(w)
    BY <1>1 DEF HandleRegister, RegisterWorker
<1>2. CASE \E w \in Ids : HandleDeregister(w)
    BY <1>2 DEF HandleDeregister, DeregisterWorker
<1>3. CASE CopyScore
    BY <1>3 DEF CopyScore
<1>4. CASE WriteScore
    BY <1>4 DEF WriteScore, UpdateScore, Status
<1>5. CASE ReadIdle
    BY <1>5 DEF ReadIdle, DecommissionableWorkers
<1>6. CASE ReadSuspended
    BY <1>6 DEF ReadSuspended, SuspendedWorkers
<1>7. CASE DecideResume
    BY <1>7 DEF DecideResume, Decide
<1>8. CASE DecideCommission
    BY <1>8 DEF DecideCommission, Decide
<1>9. CASE DecideDecommission
    BY <1>9 DEF DecideDecommission, Decide
<1>10. CASE DecideNothing
    BY <1>10 DEF DecideNothing, Decide
<1>11. CASE Commission(TRUE)
    <2>1. next_elastic_id \in Elastics /\ next_elastic_id' = next_elastic_id + 1
        BY <1>11 DEF Commission
    <2>2. next_elastic_id \in Int /\ Elastics \subseteq Int
        BY DEF Elastics
    <2>3. ~Past(next_elastic_id) /\ next_elastic_id \notin registrations
        BY <2>1, <2>2
    <2>4. \A w \in Elastics : w < next_elastic_id' <=> w < next_elastic_id \/ w = next_elastic_id
        BY <2>1, <2>2
    <2>5. \A w \in Elastics : Past(w) => Past(w)'
        BY <1>11, <2>1, <2>2, <2>4 DEF Commission
    <2> QED
        BY <1>11, <2>1, <2>2, <2>3, <2>4, <2>5 DEF Commission
<1>12. CASE Commission(FALSE)
    <2>1. \A w \in Elastics : w < next_elastic_id => w < next_elastic_id'
        BY <1>12 DEF Commission, Elastics
    <2> QED
        BY <1>12, <2>1 DEF Commission
<1>13. CASE StopContainer(TRUE)
    BY <1>13 DEF StopContainer, StopOutcome
<1>14. CASE StopContainer(FALSE)
    BY <1>14 DEF StopContainer, StopOutcome
<1>15. CASE Forget
    BY <1>15 DEF Forget
<1>16. CASE DeregisterTarget
    BY <1>16 DEF DeregisterTarget, DeregisterWorker
<1>17. CASE SendPendingResume
    BY <1>17 DEF SendPendingResume
<1>18. CASE \E w \in Ids : WorkerBoots(w)
    BY <1>18 DEF WorkerBoots
<1>19. CASE \E w \in Ids : ReportScore(w)
    BY <1>19 DEF ReportScore
<1>20. CASE \E w \in Ids : WorkerWakes(w)
    BY <1>20 DEF WorkerWakes
<1>21. CASE \E w \in Ids : ResumeArrives(w)
    BY <1>21 DEF ResumeArrives
<1>22. CASE \E w \in Ids : WorkerExits(w) \/ WorkerCrashes(w)
    <2>1. PICK x \in Ids : Leaves(x)
        BY <1>22 DEF WorkerExits, WorkerCrashes
    <2>2. process[x] # "off" /\ process[x] # "booting"
        BY <2>1 DEF Leaves
    <2>3. process' = [process EXCEPT ![x] = "off"]
        BY <2>1 DEF Leaves
    <2> QED
        BY <2>1, <2>2, <2>3 DEF Leaves
<1>23. CASE \E w \in Ids : WorkerRestarts(w)
    BY <1>23 DEF WorkerRestarts, Elastics
<1>24. CASE \E w \in Ids : TimeoutPasses(w)
    BY <1>24 DEF TimeoutPasses
<1>25. CASE \E full \in BOOLEAN : UpdateQueueDepth(full)
    BY <1>25 DEF UpdateQueueDepth
<1>26. CASE CooldownPasses
    BY <1>26 DEF CooldownPasses
<1>27. CASE RequestStop
    BY <1>27 DEF RequestStop
<1>28. CASE UNCHANGED evars
    BY <1>28
<1> QED
    BY <1>1, <1>2, <1>3, <1>4, <1>5, <1>6, <1>7, <1>8, <1>9, <1>10, <1>11, <1>12,
       <1>13, <1>14, <1>15, <1>16, <1>17, <1>18, <1>19, <1>20, <1>21, <1>22, <1>23,
       <1>24, <1>25, <1>26, <1>27, <1>28
       DEF ElasticNext, HandlerStep, OrchestratorStep, WorkerStep

-----------------------------------------------------------------------------
(* A running worker stays registered *)

\* Every step keeps running workers registered.
LEMMA CompleteStep ==
    ASSUME ElasticTypeOK, ElasticKnown, TargetKnown, RemovedAreElastic, RemovedStaysOut,
           DeregistrationCause, RegistryComplete, [ElasticNext]_evars
    PROVE  DeregistrationCause' /\ RegistryComplete'
<1> USE DEF ElasticTypeOK, Statuses, TargetKnown, RemovedAreElastic, DeregistrationCause,
        RegistryComplete, Running, evars, registryVars, evalVars, orchVars,
        processVars, messageVars
<1>1. CASE \E w \in Ids : HandleRegister(w)
    BY <1>1 DEF HandleRegister, RegisterWorker
<1>2. CASE \E w \in Ids : HandleDeregister(w)
    BY <1>2 DEF HandleDeregister, DeregisterWorker
<1>3. CASE CopyScore
    BY <1>3 DEF CopyScore
<1>4. CASE WriteScore
    BY <1>4 DEF WriteScore, UpdateScore, Status
<1>5. CASE ReadIdle
    BY <1>5 DEF ReadIdle, DecommissionableWorkers
<1>6. CASE ReadSuspended
    BY <1>6 DEF ReadSuspended, SuspendedWorkers
<1>7. CASE DecideResume
    BY <1>7 DEF DecideResume, Decide
<1>8. CASE DecideCommission
    BY <1>8 DEF DecideCommission, Decide
<1>9. CASE DecideDecommission
    BY <1>9 DEF DecideDecommission, Decide
<1>10. CASE DecideNothing
    BY <1>10 DEF DecideNothing, Decide
<1>11. CASE Commission(TRUE)
    BY <1>11 DEF Commission
<1>12. CASE Commission(FALSE)
    BY <1>12 DEF Commission
<1>13. CASE StopContainer(TRUE)
    BY <1>13 DEF StopContainer, StopOutcome
<1>14. CASE StopContainer(FALSE)
    BY <1>14 DEF StopContainer, StopOutcome
<1>15. CASE Forget
    BY <1>15 DEF Forget
<1>16. CASE DeregisterTarget
    BY <1>16 DEF DeregisterTarget, DeregisterWorker
<1>17. CASE SendPendingResume
    BY <1>17 DEF SendPendingResume
<1>18. CASE \E w \in Ids : WorkerBoots(w)
    BY <1>18 DEF WorkerBoots
<1>19. CASE \E w \in Ids : ReportScore(w)
    BY <1>19 DEF ReportScore
<1>20. CASE \E w \in Ids : WorkerWakes(w)
    BY <1>20 DEF WorkerWakes
<1>21. CASE \E w \in Ids : ResumeArrives(w)
    BY <1>21 DEF ResumeArrives
<1>22. CASE \E w \in Ids : WorkerExits(w) \/ WorkerCrashes(w)
    BY <1>22 DEF WorkerExits, WorkerCrashes, Leaves
<1>23. CASE \E w \in Ids : WorkerRestarts(w)
    BY <1>23 DEF WorkerRestarts
<1>24. CASE \E w \in Ids : TimeoutPasses(w)
    BY <1>24 DEF TimeoutPasses
<1>25. CASE \E full \in BOOLEAN : UpdateQueueDepth(full)
    BY <1>25 DEF UpdateQueueDepth
<1>26. CASE CooldownPasses
    BY <1>26 DEF CooldownPasses
<1>27. CASE RequestStop
    BY <1>27 DEF RequestStop
<1>28. CASE UNCHANGED evars
    BY <1>28
<1> QED
    BY <1>1, <1>2, <1>3, <1>4, <1>5, <1>6, <1>7, <1>8, <1>9, <1>10, <1>11, <1>12,
       <1>13, <1>14, <1>15, <1>16, <1>17, <1>18, <1>19, <1>20, <1>21, <1>22, <1>23,
       <1>24, <1>25, <1>26, <1>27, <1>28
       DEF ElasticNext, HandlerStep, OrchestratorStep, WorkerStep

-----------------------------------------------------------------------------
(* The registry and its minimum *)

\* The registry is finite.
LEMMA RegisteredFinite == IsFiniteSet(Registered)
<1>1. IsFiniteSet(1 .. (FirstElasticId - 1)) /\ IsFiniteSet(Elastics)
    BY FS_Interval DEF Elastics
<1>2. IsFiniteSet(Static)
    BY <1>1, FS_Subset
<1>3. IsFiniteSet(Ids)
    BY <1>1, <1>2, FS_Union DEF Ids
<1> QED
    BY <1>3, FS_Subset DEF Registered

\* While no worker leaves on its own the registry shrinks only where the
\* orchestrator deregisters its target.
LEMMA ShrinkStep ==
    ASSUME ElasticTypeOK, TargetKnown, RemovedStaysOut, DeregistrationCause,
           [ElasticNext]_evars, left' = {}
    PROVE  \/ Registered \subseteq Registered' /\ removed' = removed
           \/ /\ evaluation = "deregister"
              /\ evaluation' = "stop"
              /\ Registered \ {target} \subseteq Registered'
<1> USE DEF ElasticTypeOK, Statuses, Registered, RemovedStaysOut, DeregistrationCause, evars, registryVars, evalVars, orchVars,
        processVars, messageVars
<1>1. CASE \E w \in Ids : HandleRegister(w)
    BY <1>1 DEF HandleRegister, RegisterWorker
<1>2. CASE \E w \in Ids : HandleDeregister(w)
    BY <1>2 DEF HandleDeregister, DeregisterWorker
<1>3. CASE WriteScore
    BY <1>3 DEF WriteScore, UpdateScore, Status
<1>4. CASE DeregisterTarget
    BY <1>4 DEF DeregisterTarget, DeregisterWorker
<1>5. CASE UNCHANGED <<workers, removed>>
    BY <1>5
<1> QED
    BY <1>1, <1>2, <1>3, <1>4, <1>5
       DEF ElasticNext, HandlerStep, OrchestratorStep, WorkerStep, HandleRegister,
       HandleDeregister, CopyScore, WriteScore, ReadIdle, ReadSuspended, DecideResume,
       DecideCommission, DecideDecommission, DecideNothing, Decide, Commission, StopContainer,
       Forget, DeregisterTarget, SendPendingResume, WorkerBoots, ReportScore, WorkerWakes,
       ResumeArrives, WorkerExits, WorkerCrashes, Leaves, WorkerRestarts, TimeoutPasses,
       UpdateQueueDepth, CooldownPasses, RequestStop

\* A decommission is under way only if evaluate() has just allowed it.
LEMMA DecommissionStep ==
    ASSUME [ElasticNext]_evars, evaluation' \in {"decommission", "deregister"}
    PROVE  \/ evaluation \in {"decommission", "deregister"}
           \/ MayShrink /\ UNCHANGED workers
    BY DEF ElasticNext, HandlerStep, OrchestratorStep, WorkerStep, HandleRegister,
       HandleDeregister, CopyScore, WriteScore, ReadIdle, ReadSuspended, DecideResume,
       DecideCommission, DecideDecommission, DecideNothing, Decide, Commission, StopContainer,
       Forget, DeregisterTarget, SendPendingResume, WorkerBoots, ReportScore, WorkerWakes,
       ResumeArrives, WorkerExits, WorkerCrashes, Leaves, WorkerRestarts, TimeoutPasses,
       UpdateQueueDepth, CooldownPasses, RequestStop, evars, registryVars, evalVars, orchVars,
       processVars, messageVars

\* A worker that has left is remembered.
LEMMA LeftGrows ==
    ASSUME [ElasticNext]_evars
    PROVE  left \subseteq left'
    BY DEF ElasticNext, HandlerStep, OrchestratorStep, WorkerStep, HandleRegister,
       HandleDeregister, CopyScore, WriteScore, ReadIdle, ReadSuspended, DecideResume,
       DecideCommission, DecideDecommission, DecideNothing, Decide, Commission, StopContainer,
       Forget, DeregisterTarget, SendPendingResume, WorkerBoots, ReportScore, WorkerWakes,
       ResumeArrives, WorkerExits, WorkerCrashes, Leaves, WorkerRestarts, TimeoutPasses,
       UpdateQueueDepth, CooldownPasses, RequestStop, evars, registryVars, evalVars, orchVars,
       processVars, messageVars

\* Every step keeps the registry at or above its minimum.
LEMMA CountStep ==
    ASSUME ElasticTypeOK, TargetKnown, RemovedStaysOut, DeregistrationCause, RoomToShrink,
           MinimumKept, left \subseteq left', [ElasticNext]_evars
    PROVE  RoomToShrink' /\ MinimumKept'
<1> SUFFICES ASSUME left' = {}
             PROVE  RoomToShrink' /\ MinimumKept'
    BY DEF RoomToShrink, MinimumKept
<1>1. left = {}
    OBVIOUS
<1>2. IsFiniteSet(Registered) /\ IsFiniteSet(Registered')
    <2>1. IsFiniteSet(Registered)
        BY RegisteredFinite
    <2>2. IsFiniteSet(Registered)'
        BY RegisteredFinite, PTL
    <2> QED
        BY <2>1, <2>2
<1>3. Cardinality(Registered) \in Nat /\ Cardinality(Registered') \in Nat
    BY <1>2, FS_CardinalityType
<1>4. CASE Registered \subseteq Registered' /\ removed' = removed
    <2>1. Cardinality(Registered) <= Cardinality(Registered')
        BY <1>2, <1>4, FS_Subset
    <2>2. RoomToShrink'
        <3>1. CASE evaluation \in {"decommission", "deregister"}
            BY <1>1, <1>3, <2>1, <3>1 DEF RoomToShrink
        <3>2. CASE MayShrink /\ UNCHANGED workers
            BY <1>3, <2>1, <3>2 DEF RoomToShrink, MayShrink
        <3> QED
            BY <3>1, <3>2, DecommissionStep DEF RoomToShrink
    <2>3. MinimumKept'
        BY <1>1, <1>3, <1>4, <2>1 DEF MinimumKept
    <2> QED
        BY <2>2, <2>3
<1>5. CASE /\ evaluation = "deregister"
           /\ evaluation' = "stop"
           /\ Registered \ {target} \subseteq Registered'
    <2>1. Cardinality(Registered) > MinWorkers
        BY <1>1, <1>5 DEF RoomToShrink
    <2>2. /\ Cardinality(Registered \ {target}) \in Nat
          /\ Cardinality(Registered \ {target}) >= Cardinality(Registered) - 1
        <3>1. /\ IsFiniteSet(Registered \ {target})
              /\ \/ Cardinality(Registered \ {target}) = Cardinality(Registered) - 1
                 \/ Cardinality(Registered \ {target}) = Cardinality(Registered)
            BY <1>2, FS_RemoveElement
        <3>2. Cardinality(Registered \ {target}) \in Nat
            BY <3>1, FS_CardinalityType
        <3> QED
            BY <1>3, <3>1, <3>2
    <2>3. Cardinality(Registered \ {target}) <= Cardinality(Registered')
        BY <1>2, <1>5, FS_Subset
    <2> QED
        BY <1>3, <1>5, <2>1, <2>2, <2>3 DEF RoomToShrink, MinimumKept
<1> QED
    BY <1>4, <1>5, ShrinkStep

-----------------------------------------------------------------------------
(* The invariant *)

\* The invariant holds initially.
LEMMA InvInit == ElasticInit => ElasticInv
<1> SUFFICES ASSUME ElasticInit
             PROVE  ElasticInv
    OBVIOUS
<1> USE DEF ElasticInit
<1>1. ElasticTypeOK
    <2>1. next_elastic_id \in FirstElasticId .. (FirstElasticId + MaxCommissions)
        OBVIOUS
    <2>2. score_updates \in Seq(Updates) /\ score_copy \in Updates \cup {NoCopy}
        OBVIOUS
    <2>3. pressure_count \in 0 .. PressureThreshold /\ churn \in 0 .. MaxChurn
        OBVIOUS
    <2>4. process \in [Ids -> {"off", "booting", "awake", "asleep"}]
        OBVIOUS
    <2> QED
        BY <2>1, <2>2, <2>3, <2>4 DEF ElasticTypeOK, Statuses, Timers
<1>2. ElasticKnown /\ TargetKnown /\ RemovedAreElastic /\ RemovedStaysOut
    BY DEF ElasticKnown, TargetKnown, RemovedAreElastic, RemovedStaysOut, Elastics, Ids
<1>3. TimerShape /\ TimerIsSuspension
    BY DEF TimerShape, TimerIsSuspension
<1>4. DeregistrationCause /\ RegistryComplete
    BY DEF DeregistrationCause, RegistryComplete, Running
<1>5. RoomToShrink /\ MinimumKept
    BY DEF RoomToShrink, MinimumKept
<1> QED
    BY <1>1, <1>2, <1>3, <1>4, <1>5 DEF ElasticInv

\* The invariant is inductive.
LEMMA InvStep == ElasticInv /\ [ElasticNext]_evars => ElasticInv'
<1> SUFFICES ASSUME ElasticInv, [ElasticNext]_evars
             PROVE  ElasticInv'
    OBVIOUS
<1>1. ElasticTypeOK'
    BY TypeStep DEF ElasticInv
<1>2. ElasticKnown' /\ TargetKnown' /\ RemovedAreElastic' /\ RemovedStaysOut'
    BY KnownStep DEF ElasticInv
<1>3. TimerShape' /\ TimerIsSuspension'
    BY TimerStep DEF ElasticInv
<1>4. DeregistrationCause' /\ RegistryComplete'
    BY CompleteStep DEF ElasticInv
<1>5. RoomToShrink' /\ MinimumKept'
    BY CountStep, LeftGrows DEF ElasticInv
<1> QED
    BY <1>1, <1>2, <1>3, <1>4, <1>5 DEF ElasticInv

\* The inductive invariant holds in every reachable state.
THEOREM ElasticInvariant == ElasticSpec => []ElasticInv
BY InvInit, InvStep, PTL DEF ElasticSpec

\* A decommissioned worker never comes back into the registry, whatever score
\* updates and registrations are on their way (orchestrator.h decommission_worker,
\* worker_manager.cpp update_score).
THEOREM DecommissionIsFinal == ElasticSpec => []RemovedStaysOut
BY ElasticInvariant, PTL DEF ElasticInv

\* decommissionable_workers judges a worker by the length of its present suspension
\* (worker_manager.cpp update_score, register_worker).
THEOREM TimersAreSound == ElasticSpec => []TimerIsSuspension
BY ElasticInvariant, PTL DEF ElasticInv

\* A worker that keeps running keeps its registry entry unless it was decommissioned,
\* which never happens to a static worker.
THEOREM RegistryIsComplete == ElasticSpec => []RegistryComplete
BY ElasticInvariant, PTL DEF ElasticInv

\* Decommissioning respects min_workers as long as no worker leaves on its own.
THEOREM MinimumIsKept == ElasticSpec => []MinimumKept
BY ElasticInvariant, PTL DEF ElasticInv

-----------------------------------------------------------------------------
(* Label ids: the inductive invariant *)

Phases == {"idle", "load", "claim", "reset", "retry", "spin"}

Types ==
    /\ clock \in Nat
    /\ last_ms \in Nat
    /\ sequence \in 0 .. kMaxSequence
    /\ pc \in [Threads -> Phases]
    /\ now_ms \in [Threads -> Nat]
    /\ prev_ms \in [Threads -> Nat]
    /\ ids \in [Threads -> Seq(Nat \X Nat)]
    /\ raced \in BOOLEAN

Positions(t) == 1 .. Len(ids[t])

Resetting(t) == pc[t] = "reset"

(* No millisecond is ahead of last_ms, and a thread that claimed one found *)
(* it unused.                                                              *)
Claimed ==
    /\ \A t \in Threads : \A k \in Positions(t) : ids[t][k][1] <= last_ms
    /\ \A t \in Threads : Resetting(t) =>
         /\ now_ms[t] <= last_ms
         /\ \A u \in Threads : \A k \in Positions(u) : ids[u][k][1] # now_ms[t]
         /\ \A k \in Positions(t) : ids[t][k][1] < now_ms[t]
    /\ \A t, u \in Threads :
         Resetting(t) /\ Resetting(u) /\ now_ms[t] = now_ms[u] => t = u

(* The counter is ahead of every number drawn in the last millisecond; as  *)
(* long as somebody is about to reset it, only the first has been drawn.   *)
Counted ==
    /\ (\A t \in Threads : ~Resetting(t)) =>
         \A t \in Threads : \A k \in Positions(t) :
           ids[t][k][1] = last_ms => ids[t][k][2] < sequence
    /\ (\E t \in Threads : Resetting(t)) =>
         \A t \in Threads : \A k \in Positions(t) :
           ids[t][k][1] = last_ms => ids[t][k][2] = 0

(* The property, over positions. *)
Unique ==
    \A t, u \in Threads : \A j \in Positions(t), k \in Positions(u) :
      ids[t][j] = ids[u][k] => t = u /\ j = k

Ascending ==
    \A t \in Threads : \A k \in 1 .. Len(ids[t]) - 1 : Before(ids[t][k], ids[t][k + 1])

IdInv ==
    /\ Types
    /\ ~raced => Claimed /\ Counted /\ Unique /\ Ascending
-----------------------------------------------------------------------------
(* Label ids: types *)

LEMMA InitInv == Init => IdInv
<1> SUFFICES ASSUME Init PROVE IdInv
    OBVIOUS
<1>1. Types
    <2>1. ids \in [Threads -> Seq(Nat \X Nat)]
        BY DEF Init
    <2>2. pc \in [Threads -> Phases]
        BY DEF Init, Phases
    <2>3. now_ms \in [Threads -> Nat] /\ prev_ms \in [Threads -> Nat]
        BY DEF Init
    <2>4. clock \in Nat /\ last_ms \in Nat /\ sequence \in 0 .. kMaxSequence
        BY SnowflakeAssumption DEF Init
    <2>5. raced \in BOOLEAN
        BY DEF Init
    <2> QED BY <2>1, <2>2, <2>3, <2>4, <2>5 DEF Types
<1>2. \A t \in Threads : Len(ids[t]) = 0 /\ ~Resetting(t)
    BY DEF Init, Resetting
<1>3. ASSUME NEW t \in Threads PROVE Positions(t) = {}
    <2>1. Len(ids[t]) = 0
        BY <1>2
    <2> QED BY <2>1 DEF Positions
<1>4. Claimed /\ Counted /\ Unique
    BY <1>2, <1>3 DEF Claimed, Counted, Unique
<1>5. Ascending
    BY <1>2 DEF Ascending
<1> QED BY <1>1, <1>4, <1>5 DEF IdInv

\* The ids of a thread are pairs of numbers.
LEMMA IdType ==
    ASSUME Types, NEW u \in Threads, NEW k \in Positions(u)
    PROVE  ids[u][k] \in Nat \X Nat /\ ids[u][k][1] \in Nat /\ ids[u][k][2] \in Nat
<1>1. ids[u] \in Seq(Nat \X Nat)
    BY DEF Types
<1>2. ids[u][k] \in Nat \X Nat
    BY <1>1 DEF Positions
<1> QED BY <1>2

\* Giving an id puts it behind those the thread already has.
LEMMA Given ==
    ASSUME Types, NEW t \in Threads, NEW ms \in Nat, NEW seq \in Nat, Give(t, ms, seq)
    PROVE  /\ ids' \in [Threads -> Seq(Nat \X Nat)]
           /\ Len(ids'[t]) = Len(ids[t]) + 1 /\ Len(ids[t]) \in Nat
           /\ ids'[t][Len(ids[t]) + 1] = <<ms, seq>>
           /\ \A k \in Positions(t) : ids'[t][k] = ids[t][k]
           /\ \A u \in Threads \ {t} : ids'[u] = ids[u]
           /\ pc' \in [Threads -> Phases] /\ pc'[t] = "idle"
           /\ \A u \in Threads \ {t} : pc'[u] = pc[u] /\ now_ms'[u] = now_ms[u]
           /\ now_ms' \in [Threads -> Nat] /\ prev_ms' \in [Threads -> Nat]
<1> DEFINE id == <<ms, seq>>
<1>1. id \in Nat \X Nat
    OBVIOUS
<1>2. ids \in [Threads -> Seq(Nat \X Nat)] /\ ids' = [ids EXCEPT ![t] = Append(ids[t], id)]
    BY DEF Types, Give
<1> HIDE DEF id
<1>3. ids[t] \in Seq(Nat \X Nat)
    BY <1>2
<1>4. /\ Append(ids[t], id) \in Seq(Nat \X Nat)
      /\ Len(Append(ids[t], id)) = Len(ids[t]) + 1 /\ Len(ids[t]) \in Nat
      /\ Append(ids[t], id)[Len(ids[t]) + 1] = id
      /\ \A k \in 1 .. Len(ids[t]) : Append(ids[t], id)[k] = ids[t][k]
    BY <1>1, <1>3
<1>5. /\ ids' \in [Threads -> Seq(Nat \X Nat)]
      /\ ids'[t] = Append(ids[t], id)
      /\ \A u \in Threads \ {t} : ids'[u] = ids[u]
    BY <1>2, <1>4
<1>6. /\ pc' \in [Threads -> Phases] /\ pc'[t] = "idle"
      /\ \A u \in Threads \ {t} : pc'[u] = pc[u] /\ now_ms'[u] = now_ms[u]
      /\ now_ms' \in [Threads -> Nat] /\ prev_ms' \in [Threads -> Nat]
    BY DEF Give, Types, Phases
<1> QED BY <1>4, <1>5, <1>6 DEF Positions, id

\* Every step keeps the types.
LEMMA StepTypes == Types /\ [Next]_idvars => Types'
<1> SUFFICES ASSUME Types, [Next]_idvars PROVE Types'
    OBVIOUS
<1> USE SnowflakeAssumption
<1>1. CASE Tick
    BY <1>1 DEF Tick, Types
<1>2. ASSUME NEW t \in Threads, Call(t) \/ Spin(t) \/ Retry(t) PROVE Types'
    BY <1>2 DEF Call, Spin, Retry, ReadClock, Goto, Types, Phases
<1>3. ASSUME NEW t \in Threads, Load(t) PROVE Types'
    BY <1>3 DEF Load, Goto, Types, Phases
<1>4. ASSUME NEW t \in Threads, Claim(t) PROVE Types'
    <2>1. pc' \in [Threads -> Phases]
        BY <1>4 DEF Claim, Goto, Types, Phases
    <2>2. last_ms' \in Nat /\ prev_ms' \in [Threads -> Nat]
        BY <1>4 DEF Claim, Types
    <2>3. UNCHANGED <<clock, sequence, now_ms, ids, raced>>
        BY <1>4 DEF Claim
    <2> QED BY <2>1, <2>2, <2>3 DEF Types
<1>5. ASSUME NEW t \in Threads, Reset(t) PROVE Types'
    <2>1. Give(t, now_ms[t], 0) /\ now_ms[t] \in Nat
        BY <1>5 DEF Reset, Types
    <2>2. sequence' = 1 /\ UNCHANGED <<clock, last_ms, raced>>
        BY <1>5 DEF Reset
    <2> QED BY <2>1, <2>2, Given DEF Types
<1>6. ASSUME NEW t \in Threads, FetchAdd(t) PROVE Types'
    <2>1. sequence' \in 0 .. kMaxSequence
        BY <1>6 DEF FetchAdd, Count, Types
    <2>2. raced' \in BOOLEAN /\ UNCHANGED <<clock, last_ms>>
        BY <1>6 DEF FetchAdd, Types
    <2>3. CASE Give(t, prev_ms[t], sequence)
        BY <2>1, <2>2, <2>3, Given DEF Types
    <2>4. CASE Goto(t, "claim", "spin") /\ UNCHANGED <<now_ms, prev_ms, ids>>
        BY <2>1, <2>2, <2>4 DEF Goto, Types, Phases
    <2> QED BY <1>6, <2>3, <2>4 DEF FetchAdd
<1>7. CASE UNCHANGED idvars
    BY <1>7 DEF idvars, Types
<1> QED BY <1>1, <1>2, <1>3, <1>4, <1>5, <1>6, <1>7 DEF Next, Step

-----------------------------------------------------------------------------
(* Label ids: steps *)

Orderly == Claimed /\ Counted /\ Unique /\ Ascending

\* A step that gives no id, claims nothing and resets nothing.
LEMMA QuietStep ==
    ASSUME Orderly, UNCHANGED <<ids, last_ms, sequence>>,
           \A t \in Threads : /\ Resetting(t)' <=> Resetting(t)
                              /\ Resetting(t) => now_ms'[t] = now_ms[t]
    PROVE  Orderly'
<1>1. \A t \in Threads : Positions(t)' = Positions(t)
    BY DEF Positions
<1>2. Claimed'
    BY <1>1 DEF Orderly, Claimed
<1>3. Counted'
    BY <1>1 DEF Orderly, Counted
<1>4. Unique'
    BY <1>1 DEF Orderly, Unique
<1>5. Ascending'
    BY DEF Orderly, Ascending
<1> QED BY <1>2, <1>3, <1>4, <1>5 DEF Orderly

\* A claim starts a millisecond in which nothing has been drawn.
LEMMA ClaimStep ==
    ASSUME Types, Types', Orderly, NEW t \in Threads, Claim(t), last_ms = prev_ms[t]
    PROVE  Orderly'
<1>1. /\ last_ms' = now_ms[t] /\ last_ms < last_ms'
      /\ UNCHANGED <<sequence, now_ms, ids>>
      /\ Resetting(t)' /\ ~Resetting(t)
      /\ \A u \in Threads \ {t} : Resetting(u)' <=> Resetting(u)
    BY DEF Claim, Goto, Types, Resetting
<1>2. \A u \in Threads : Positions(u)' = Positions(u)
    BY <1>1 DEF Positions
<1>3. \A u \in Threads : \A k \in Positions(u) :
        ids[u][k][1] \in Nat /\ ids[u][k][1] <= last_ms /\ ids[u][k][1] < last_ms'
    <2>1. last_ms \in Nat /\ last_ms' \in Nat
        BY DEF Types
    <2> QED BY <1>1, <2>1, IdType DEF Orderly, Claimed
<1>4. \A u \in Threads \ {t} : Resetting(u)' => now_ms[u] <= last_ms /\ now_ms[u] < now_ms[t]
    BY <1>1 DEF Orderly, Claimed, Types
<1>5. Claimed'
    <2>1. ASSUME NEW u \in Threads, NEW k \in Positions(u)'
          PROVE  ids'[u][k][1] <= last_ms'
        <3>1. k \in Positions(u) /\ ids'[u][k][1] = ids[u][k][1]
            BY <1>1, <1>2
        <3>2. ids[u][k][1] \in Nat /\ ids[u][k][1] < last_ms'
            BY <1>3, <3>1
        <3>3. last_ms' \in Nat
            BY DEF Types
        <3> QED BY <3>1, <3>2, <3>3
    <2>2. ASSUME NEW u \in Threads, Resetting(u)'
          PROVE  /\ now_ms'[u] <= last_ms'
                 /\ \A w \in Threads : \A k \in Positions(w)' : ids'[w][k][1] # now_ms'[u]
                 /\ \A k \in Positions(u)' : ids'[u][k][1] < now_ms'[u]
        <3>1. CASE u = t
            <4>1. now_ms'[u] = last_ms' /\ last_ms' \in Nat
                BY <1>1, <3>1 DEF Types
            <4>2. ASSUME NEW w \in Threads, NEW k \in Positions(w)'
                  PROVE  ids'[w][k][1] \in Nat /\ ids'[w][k][1] < last_ms'
                <5>1. k \in Positions(w) /\ ids'[w][k][1] = ids[w][k][1]
                    BY <1>1, <1>2
                <5> QED BY <1>3, <5>1
            <4>3. ASSUME NEW w \in Threads, NEW k \in Positions(w)'
                  PROVE  ids'[w][k][1] # now_ms'[u]
                BY <4>1, <4>2
            <4> QED BY <4>1, <4>2, <4>3
        <3>2. CASE u # t
            BY <1>1, <1>2, <1>4, <2>2, <3>2 DEF Orderly, Claimed, Types
        <3> QED BY <3>1, <3>2
    <2>3. ASSUME NEW u \in Threads, NEW w \in Threads,
                 Resetting(u)', Resetting(w)', now_ms'[u] = now_ms'[w]
          PROVE  u = w
        <3>1. now_ms[u] \in Nat /\ now_ms[w] \in Nat /\ now_ms[u] = now_ms[w]
            BY <1>1, <2>3 DEF Types
        <3>2. CASE u = t \/ w = t
            BY <1>4, <2>3, <3>1, <3>2
        <3>3. CASE u # t /\ w # t
            BY <1>1, <2>3, <3>1, <3>3 DEF Orderly, Claimed
        <3> QED BY <3>2, <3>3
    <2> QED BY <2>1, <2>2, <2>3 DEF Claimed
<1>6. Counted'
    <2>1. \A u \in Threads : \A k \in Positions(u)' : ids'[u][k][1] # last_ms'
        <3>1. last_ms' \in Nat
            BY DEF Types
        <3> QED BY <1>1, <1>2, <1>3, <3>1
    <2> QED BY <2>1 DEF Counted
<1>7. Unique'
    BY <1>1, <1>2 DEF Orderly, Unique
<1>8. Ascending'
    BY <1>1 DEF Orderly, Ascending
<1> QED BY <1>5, <1>6, <1>7, <1>8 DEF Orderly

\* A new id that is after all those of its thread, and that nobody else has,
\* keeps the ids distinct and ascending.
LEMMA NewId ==
    ASSUME Types, Unique, Ascending, NEW t \in Threads, NEW ms \in Nat, NEW seq \in Nat,
           Give(t, ms, seq),
           \A u \in Threads : \A k \in Positions(u) : ids[u][k] # <<ms, seq>>,
           \A k \in Positions(t) : Before(ids[t][k], <<ms, seq>>)
    PROVE  Unique' /\ Ascending'
<1> DEFINE n == Len(ids[t])
           id == <<ms, seq>>
<1>1. /\ Len(ids'[t]) = n + 1 /\ n \in Nat /\ ids'[t][n + 1] = id
      /\ \A k \in 1 .. n : ids'[t][k] = ids[t][k]
      /\ \A u \in Threads \ {t} : ids'[u] = ids[u]
    BY Given DEF Positions
<1>a. /\ \A u \in Threads : \A k \in Positions(u) : ids[u][k] # id
      /\ \A k \in 1 .. n : Before(ids[t][k], id)
    BY DEF Positions
<1> HIDE DEF id
<1>2. ASSUME NEW u \in Threads, NEW k \in Positions(u)'
      PROVE  \/ k \in Positions(u) /\ ids'[u][k] = ids[u][k] /\ ids'[u][k] # id
             \/ u = t /\ k = n + 1 /\ ids'[u][k] = id
    <2>1. CASE u = t
        BY <1>1, <1>2, <1>a, <2>1 DEF Positions
    <2>2. CASE u # t
        BY <1>1, <1>2, <1>a, <2>2 DEF Positions
    <2> QED BY <2>1, <2>2
<1>3. Unique'
    <2> SUFFICES ASSUME NEW u \in Threads, NEW w \in Threads,
                        NEW j \in Positions(u)', NEW k \in Positions(w)',
                        ids'[u][j] = ids'[w][k]
                 PROVE  u = w /\ j = k
        BY DEF Unique
    <2>1. CASE j \in Positions(u) /\ k \in Positions(w) /\ ids'[u][j] # id
        BY <1>2, <2>1 DEF Unique
    <2>2. CASE ids'[u][j] = id
        BY <1>2, <2>2
    <2> QED BY <1>2, <2>1, <2>2
<1>4. Ascending'
    <2>1. ASSUME NEW u \in Threads \ {t}
          PROVE  \A k \in 1 .. Len(ids'[u]) - 1 : Before(ids'[u][k], ids'[u][k + 1])
        BY <1>1 DEF Ascending
    <2>2. ASSUME NEW k \in 1 .. Len(ids'[t]) - 1
          PROVE  Before(ids'[t][k], ids'[t][k + 1])
        <3>1. k \in 1 .. n
            BY <1>1
        <3>2. CASE k = n
            BY <1>1, <1>a, <3>1, <3>2
        <3>3. CASE k # n
            <4>1. k \in 1 .. n - 1 /\ k + 1 \in 1 .. n
                BY <1>1, <3>1, <3>3
            <4>2. Before(ids[t][k], ids[t][k + 1])
                BY <4>1 DEF Ascending
            <4> QED BY <1>1, <3>1, <4>1, <4>2
        <3> QED BY <3>2, <3>3
    <2> QED BY <2>1, <2>2 DEF Ascending
<1> QED BY <1>3, <1>4

\* A reset gives the first id of the millisecond its thread has claimed.
LEMMA ResetStep ==
    ASSUME Types, Types', Orderly, NEW t \in Threads, Reset(t)
    PROVE  Orderly'
<1> DEFINE n == Len(ids[t])
           ms == now_ms[t]
<1>1. ms \in Nat /\ Give(t, ms, 0) /\ Resetting(t) /\ sequence' = 1 /\ last_ms' = last_ms
    BY DEF Reset, Types, Resetting
<1>2. /\ Len(ids'[t]) = n + 1 /\ n \in Nat /\ ids'[t][n + 1] = <<ms, 0>>
      /\ \A k \in 1 .. n : ids'[t][k] = ids[t][k]
      /\ \A u \in Threads \ {t} : ids'[u] = ids[u]
      /\ ~Resetting(t)'
      /\ \A u \in Threads \ {t} : /\ Resetting(u)' <=> Resetting(u)
                                  /\ now_ms'[u] = now_ms[u]
    BY <1>1, Given DEF Positions, Resetting
<1>3. /\ ms <= last_ms
      /\ \A u \in Threads : \A k \in Positions(u) : ids[u][k][1] # ms
      /\ \A k \in Positions(t) : ids[t][k][1] < ms
    BY <1>1 DEF Orderly, Claimed
<1> HIDE DEF ms
<1>4. Unique' /\ Ascending'
    <2>1. \A u \in Threads : \A k \in Positions(u) : ids[u][k] # <<ms, 0>>
        BY <1>3
    <2>2. \A k \in Positions(t) : Before(ids[t][k], <<ms, 0>>)
        BY <1>3 DEF Before
    <2> QED BY <1>1, <2>1, <2>2, NewId DEF Orderly
<1>5. ASSUME NEW u \in Threads, NEW k \in Positions(u)'
      PROVE  \/ k \in Positions(u) /\ ids'[u][k] = ids[u][k]
             \/ u = t /\ k = n + 1 /\ ids'[u][k] = <<ms, 0>>
    <2>1. CASE u = t
        BY <1>2, <1>5, <2>1 DEF Positions
    <2>2. CASE u # t
        BY <1>2, <1>5, <2>2 DEF Positions
    <2> QED BY <2>1, <2>2
<1>6. Claimed'
    <2>1. \A u \in Threads : \A k \in Positions(u)' : ids'[u][k][1] <= last_ms'
        BY <1>1, <1>3, <1>5 DEF Orderly, Claimed
    <2>2. ASSUME NEW u \in Threads, Resetting(u)'
          PROVE  /\ now_ms'[u] <= last_ms'
                 /\ \A w \in Threads : \A k \in Positions(w)' : ids'[w][k][1] # now_ms'[u]
                 /\ \A k \in Positions(u)' : ids'[u][k][1] < now_ms'[u]
        <3>1. u # t /\ Resetting(u) /\ now_ms'[u] = now_ms[u] /\ Positions(u)' = Positions(u)
            BY <1>2, <2>2 DEF Positions
        <3>2. now_ms[u] # ms
            BY <1>1, <3>1 DEF Orderly, Claimed, ms
        <3> QED BY <1>1, <1>2, <1>5, <3>1, <3>2 DEF Orderly, Claimed
    <2>3. \A u, w \in Threads :
            Resetting(u)' /\ Resetting(w)' /\ now_ms'[u] = now_ms'[w] => u = w
        BY <1>2 DEF Orderly, Claimed
    <2> QED BY <2>1, <2>2, <2>3 DEF Claimed
<1>7. \A u \in Threads : \A k \in Positions(u)' : ids'[u][k][1] = last_ms' => ids'[u][k][2] = 0
    BY <1>1, <1>5 DEF Orderly, Counted
<1>8. Counted'
    BY <1>1, <1>7 DEF Counted
<1> QED BY <1>4, <1>6, <1>8 DEF Orderly

\* A number drawn while last_ms and sequence match is the next one.
LEMMA FetchAddStep ==
    ASSUME Types, Types', Orderly, NEW t \in Threads, FetchAdd(t), ~raced'
    PROVE  Orderly'
<1> DEFINE n == Len(ids[t])
<1>1. /\ \A u \in Threads : ~Resetting(u)
      /\ prev_ms[t] = last_ms /\ last_ms' = last_ms
    BY DEF FetchAdd, Mismatch, Resetting
<1>2. CASE sequence < kMaxSequence
    <2>1. /\ Give(t, last_ms, sequence) /\ sequence' = sequence + 1
          /\ last_ms \in Nat /\ sequence \in Nat
        BY <1>1, <1>2 DEF FetchAdd, Count, Types
    <2>2. /\ Len(ids'[t]) = n + 1 /\ n \in Nat /\ ids'[t][n + 1] = <<last_ms, sequence>>
          /\ \A k \in 1 .. n : ids'[t][k] = ids[t][k]
          /\ \A u \in Threads \ {t} : ids'[u] = ids[u]
          /\ \A u \in Threads : ~Resetting(u)'
        BY <1>1, <2>1, Given DEF Positions, Resetting
    <2>3. \A u \in Threads : \A k \in Positions(u) :
            /\ ids[u][k][1] \in Nat /\ ids[u][k][2] \in Nat
            /\ ids[u][k][1] <= last_ms
            /\ ids[u][k][1] = last_ms => ids[u][k][2] < sequence
        BY <1>1, IdType DEF Orderly, Claimed, Counted
    <2>4. Unique' /\ Ascending'
        <3>1. \A u \in Threads : \A k \in Positions(u) : ids[u][k] # <<last_ms, sequence>>
            BY <2>1, <2>3
        <3>2. \A k \in Positions(t) : Before(ids[t][k], <<last_ms, sequence>>)
            BY <2>1, <2>3 DEF Before
        <3> QED BY <2>1, <3>1, <3>2, NewId DEF Orderly
    <2>5. ASSUME NEW u \in Threads, NEW k \in Positions(u)'
          PROVE  \/ k \in Positions(u) /\ ids'[u][k] = ids[u][k]
                 \/ u = t /\ k = n + 1 /\ ids'[u][k] = <<last_ms, sequence>>
        <3>1. CASE u = t
            BY <2>2, <2>5, <3>1 DEF Positions
        <3>2. CASE u # t
            BY <2>2, <2>5, <3>2 DEF Positions
        <3> QED BY <3>1, <3>2
    <2>6. Claimed'
        BY <1>1, <2>1, <2>2, <2>3, <2>5 DEF Claimed
    <2>7. \A u \in Threads : \A k \in Positions(u)' :
            ids'[u][k][1] = last_ms' => ids'[u][k][2] < sequence'
        BY <1>1, <2>1, <2>3, <2>5
    <2>8. Counted'
        BY <2>2, <2>7 DEF Counted
    <2> QED BY <2>4, <2>6, <2>8 DEF Orderly
<1>3. CASE ~(sequence < kMaxSequence)
    <2>1. sequence' = sequence
        BY <1>3, SnowflakeAssumption DEF FetchAdd, Count, Types
    <2>2. Goto(t, "claim", "spin") /\ UNCHANGED <<now_ms, ids>>
        BY <1>3 DEF FetchAdd
    <2>3. \A u \in Threads : Resetting(u)' <=> Resetting(u)
        BY <2>2 DEF Goto, Resetting, Types
    <2> QED BY <1>1, <2>1, <2>2, <2>3, QuietStep
<1> QED BY <1>2, <1>3

-----------------------------------------------------------------------------
(* Label ids: theorems *)

\* The inductive invariant of the generator: for any number of threads, ids
\* and numbers in a millisecond.
THEOREM IdInvariant == Spec => []IdInv
<1>1. IdInv /\ [Next]_idvars => IdInv'
    <2> SUFFICES ASSUME Types, ~raced => Orderly, [Next]_idvars, ~raced'
                 PROVE  Types' /\ Orderly'
        BY StepTypes DEF IdInv, Orderly
    <2>1. Types'
        BY StepTypes
    <2>2. ~raced /\ Orderly
        <3>1. ASSUME NEW t \in Threads, Call(t) \/ Step(t) PROVE raced => raced'
            <4>1. CASE FetchAdd(t)
                BY <4>1 DEF FetchAdd
            <4>2. CASE ~FetchAdd(t)
                BY <3>1, <4>2 DEF Call, Step, Spin, Retry, ReadClock, Load, Claim, Reset
            <4> QED BY <4>1, <4>2
        <3>2. CASE Tick \/ UNCHANGED idvars
            BY <3>2 DEF Tick, idvars
        <3> QED BY <3>1, <3>2 DEF Next
    <2>3. CASE Tick
        <3>1. UNCHANGED <<pc, now_ms, ids, last_ms, sequence>>
            BY <2>3 DEF Tick
        <3> QED BY <2>1, <2>2, <3>1, QuietStep DEF Resetting
    <2>4. ASSUME NEW t \in Threads, Call(t) \/ Spin(t) \/ Retry(t) \/ Load(t)
          PROVE  Orderly'
        <3>1. \A u \in Threads : /\ Resetting(u)' <=> Resetting(u)
                                 /\ Resetting(u) => now_ms'[u] = now_ms[u]
            BY <2>4 DEF Call, Spin, Retry, Load, ReadClock, Goto, Resetting, Types
        <3>2. UNCHANGED <<ids, last_ms, sequence>>
            BY <2>4 DEF Call, Spin, Retry, Load, ReadClock
        <3> QED BY <2>2, <3>1, <3>2, QuietStep
    <2>5. ASSUME NEW t \in Threads, Claim(t) PROVE Orderly'
        <3>1. CASE last_ms = prev_ms[t]
            BY <2>1, <2>2, <2>5, <3>1, ClaimStep
        <3>2. CASE last_ms # prev_ms[t]
            <4>1. Goto(t, "claim", "retry") /\ UNCHANGED <<now_ms, ids, last_ms, sequence>>
                BY <2>5, <3>2 DEF Claim
            <4>2. \A u \in Threads : Resetting(u)' <=> Resetting(u)
                BY <4>1 DEF Goto, Resetting, Types
            <4> QED BY <2>2, <4>1, <4>2, QuietStep
        <3> QED BY <3>1, <3>2
    <2>6. ASSUME NEW t \in Threads, Reset(t) \/ FetchAdd(t) PROVE Orderly'
        BY <2>1, <2>2, <2>6, ResetStep, FetchAddStep
    <2>7. CASE UNCHANGED idvars
        <3>1. UNCHANGED <<pc, now_ms, ids, last_ms, sequence>>
            BY <2>7 DEF idvars
        <3> QED BY <2>1, <2>2, <3>1, QuietStep DEF Resetting
    <2> QED BY <2>1, <2>3, <2>4, <2>5, <2>6, <2>7 DEF Next, Step
<1> QED BY <1>1, InitInv, PTL DEF Spec

\* Ids are unique over all threads, and ascend in every thread, as long as no
\* number is drawn between a claim and its reset (generate_label_id).
THEOREM IdsAscendUnlessRaced == Spec => []AscendUnlessRaced
<1>1. IdInv => AscendUnlessRaced
    <2> SUFFICES ASSUME IdInv, ~raced PROVE UniqueIds /\ Ascending
        BY DEF AscendUnlessRaced, Ascending
    <2>1. Unique /\ Ascending
        BY DEF IdInv
    <2>2. ASSUME NEW d \in Drawn
          PROVE  d[1] \in Threads /\ d[2] \in Positions(d[1]) /\ d = <<d[1], d[2]>>
        BY SnowflakeAssumption DEF Drawn, Positions, IdInv, Types
    <2>3. UniqueIds
        BY <2>1, <2>2 DEF UniqueIds, Unique, IdAt
    <2> QED BY <2>1, <2>3
<1> QED BY <1>1, IdInvariant, PTL
=============================================================================
