--------------------------- MODULE LabelFlowProofs ---------------------------
(***************************************************************************)
(* Proofs about LabelFlow, for any number of labels, workers and files.    *)
(*                                                                         *)
(* First type correctness.  Then where a label is: a published label is in *)
(* one place at a time: in the dispatcher's buffer, on one of its three    *)
(* routing lists, in a message to a worker, among the children a worker    *)
(* has before it, in its handler, or nowhere any more.  From this follow   *)
(* that no label is executed or answered twice, what the catalog says of   *)
(* it, and that the pipeline implements LabelService.                      *)
(***************************************************************************)
EXTENDS LabelFlow, ShufflerProofs

-----------------------------------------------------------------------------
(* What a unit's first and last label are *)

\* A label's offset and length.
LEMMA LabelRange ==
    ASSUME req \in [Ids -> Requests], NEW l \in Ids
    PROVE  /\ req[l] \in Requests
           /\ req[l].off \in 0 .. FileSize
           /\ req[l].len \in Nat
           /\ req[l].file \in Files
           /\ End(req[l]) \in 0 .. FileSize
BY LabelFlowAssumption DEF Request, End

\* A unit is a batch of labels to the shuffler.
LEMMA UnitRanged ==
    ASSUME req \in [Ids -> Requests], NEW u, u \subseteq Ids
    PROVE  Ranged(req, u)
<1>1. IsFiniteSet(Ids) /\ Ids \subseteq Nat
    BY FS_Interval, LabelFlowAssumption DEF Ids
<1>2. IsFiniteSet(u)
    BY <1>1, FS_Subset
<1>3. \A l \in u : req[l].off \in Nat /\ req[l].len \in Nat
    BY LabelRange, LabelFlowAssumption
<1> QED BY <1>1, <1>2, <1>3 DEF Ranged

\* The first label of a unit is one of its labels.
LEMMA LeadIn ==
    ASSUME req \in [Ids -> Requests], NEW u, u \subseteq Ids, u # {}
    PROVE  Lead(u) \in u
BY UnitRanged, FirstLabel DEF Lead

\* The last label of a unit is one of its labels, so the unit ends inside the file.
LEMMA EndInFile ==
    ASSUME req \in [Ids -> Requests], NEW u, u \subseteq Ids, u # {}
    PROVE  UnitEnd(req, u) \in Nat
<1>1. Ranged(req, u)
    BY UnitRanged
<1>2. LastId(req, u) \in u
    BY <1>1, LastLabel
<1>3. req[LastId(req, u)].off \in Nat /\ req[LastId(req, u)].len \in Nat
    BY <1>1, <1>2 DEF Ranged
<1>4. End(req[LastId(req, u)]) \in Nat
    BY <1>3 DEF End
<1> QED BY <1>4 DEF UnitEnd, LastId

-----------------------------------------------------------------------------
(* What the operators on units return *)

\* The units the dispatcher and the workers handle: never empty.
Filled == Units \ {{}}

\* The range and the file of a unit.
LEMMA SpanTyped ==
    ASSUME req \in [Ids -> Requests], NEW u \in Filled
    PROVE  /\ Lead(u) \in Ids
           /\ UnitFile(req, u) \in Files
           /\ Span(u).off \in Nat
           /\ End(Span(u)) \in Nat
<1>1. u \subseteq Ids /\ u # {}
    BY DEF Filled, Units
<1>2. Lead(u) \in Ids
    BY <1>1, LeadIn
<1>3. req[Lead(u)].off \in Nat /\ req[Lead(u)].file \in Files
    BY <1>2, LabelRange, LabelFlowAssumption
<1>4. UnitEnd(req, u) \in Nat
    BY <1>1, EndInFile
<1>5. Span(u) = [off |-> req[Lead(u)].off, len |-> UnitEnd(req, u) - req[Lead(u)].off]
    BY DEF Span, UnitRange, Lead
<1> QED
    BY <1>2, <1>3, <1>4, <1>5 DEF End, UnitFile, Lead

\* The child a worker executes first is one of the children.
LEMMA FirstChildIn ==
    ASSUME req \in [Ids -> Requests], NEW us, us \subseteq Filled, us # {}
    PROVE  FirstChild(req, us) \in us /\ CompositeId(req, us) \in Ids
<1> DEFINE heads == {Lead(u) : u \in us}
<1>1. heads \subseteq Nat /\ heads # {}
    BY SpanTyped, LabelFlowAssumption DEF Ids
<1>2. PICK m \in heads : \A n \in heads : m <= n
    BY <1>1, MinNat
<1>3. \E u \in us : \A v \in us : UnitId(req, u) <= UnitId(req, v)
    BY <1>2 DEF Lead
<1>4. FirstChild(req, us) \in us
    BY <1>3 DEF FirstChild
<1> QED
    BY <1>4, SpanTyped DEF CompositeId, Lead

\* get_location returns a worker or none.
LEMMA LocationTyped ==
    ASSUME req \in [Ids -> Requests],
           location \in [Files -> Workers \cup {0}],
           olocation \in [Files -> SUBSET Entries],
           NEW u \in Filled
    PROVE  GetLocation(u) \in Workers \cup {0}
<1> DEFINE hits == {e \in olocation[UnitFile(req, u)] :
                      e.start <= Span(u).off /\ End(Span(u)) <= e.end}
<1>1. UnitFile(req, u) \in Files
    BY SpanTyped
<1>2. hits \subseteq Entries
    BY <1>1
<1> HIDE DEF hits
<1>w. Workers \subseteq Nat
    BY LabelFlowAssumption
<1>3. CASE hits # {}
    <2> DEFINE A == {e.start : e \in hits}
    <2>1. A \subseteq Nat /\ A # {}
        BY <1>2, <1>3 DEF Entries
    <2>2. PICK a \in A : \A x \in A : a <= x
        BY <2>1, MinNat
    <2> DEFINE B == {e.wid : e \in {d \in hits : d.start = a}}
    <2>3. B \subseteq Nat /\ B # {}
        BY <1>2, <1>w, <2>2 DEF Entries
    <2>4. PICK b \in B : \A x \in B : b <= x
        BY <2>3, MinNat
    <2> DEFINE C == {e.end : e \in {d \in hits : d.start = a /\ d.wid = b}}
    <2>5. C \subseteq Nat /\ C # {}
        BY <1>2, <2>4 DEF Entries
    <2>6. PICK c \in C : \A x \in C : c <= x
        BY <2>5, MinNat
    <2>7. PICK e \in hits : e.start = a /\ e.wid = b /\ e.end = c
        BY <2>6
    <2>8. ASSUME NEW d \in hits PROVE ZBefore(e, d)
        <3>1. d.start \in Nat /\ d.wid \in Nat /\ d.end \in Nat
            BY <1>2, <1>w DEF Entries
        <3>2. a <= d.start
            BY <2>2
        <3>3. d.start = a => b <= d.wid
            BY <2>4
        <3>4. d.start = a /\ d.wid = b => c <= d.end
            BY <2>6
        <3>5. a \in Nat /\ b \in Nat /\ c \in Nat
            BY <2>1, <2>2, <2>3, <2>4, <2>5, <2>6
        <3> QED
            BY <2>7, <3>1, <3>2, <3>3, <3>4, <3>5 DEF ZBefore
    <2> DEFINE first == CHOOSE g \in hits : \A d \in hits : ZBefore(g, d)
    <2>9. first \in hits
        BY <2>8
    <2>10. first.wid \in Workers
        BY <2>9, <1>2 DEF Entries
    <2> QED
        BY <1>1, <1>3, <2>10 DEF GetLocation, hits
<1>4. CASE hits = {}
    BY <1>4, <1>1 DEF GetLocation, hits
<1> QED
    BY <1>3, <1>4

\* set_location records a worker for ranges of the file.
LEMMA LocationsKept ==
    ASSUME req \in [Ids -> Requests],
           location \in [Files -> Workers \cup {0}],
           olocation \in [Files -> SUBSET Entries],
           NEW us, us \subseteq Filled, NEW w \in Workers, SetLocations(us, w)
    PROVE  /\ location' \in [Files -> Workers \cup {0}]
           /\ olocation' \in [Files -> SUBSET Entries]
<1> DEFINE new(f) == {[start |-> Span(u).off, wid |-> w, end |-> End(Span(u))] :
                        u \in {v \in us : UnitFile(req, v) = f}}
           kept(f) == {e \in olocation[f] :
                         \A n \in new(f) : e.wid # n.wid \/ e.end # n.end}
<1>1. ASSUME NEW f PROVE new(f) \subseteq Entries
    BY SpanTyped DEF Entries
<1>2. /\ olocation' = [f \in Files |-> kept(f) \cup new(f)]
      /\ location' = [f \in Files |-> IF new(f) # {} THEN w ELSE location[f]]
    BY DEF SetLocations
<1> HIDE DEF new
<1> QED
    BY <1>1, <1>2

\* Aggregation never makes an empty unit: a run holds the write it starts at.
LEMMA AggregateFilled ==
    ASSUME req \in [Ids -> Requests], NEW batch, batch \subseteq Ids
    PROVE  Aggregate(req, batch) \subseteq Filled
BY UnitRanged, UnitsWithin DEF Filled, Units

\* A supertask has a child, and its children are units.
LEMMA SupertasksFilled ==
    ASSUME NEW units, units \subseteq Filled
    PROVE  BuildSupertasks(req, units) \subseteq (SUBSET Filled) \ {{}}
BY DEF BuildSupertasks, Involved

-----------------------------------------------------------------------------
(* The inductive invariant *)

\* A label on its own stands for at least one published label.
FilledMessages == {m \in Messages : ~m.composite => m.unit \in Filled}

\* A handler's children are not empty, nor is the unit it is about to perform.
FilledHandlers ==
    {h \in Handlers : /\ h.todo \subseteq Filled
                      /\ h.phase = "begun" => h.unit \in Filled}

\* TypeOK alone is not inductive: the id, the range and the worker of an empty unit
\* would be arbitrary, so no empty unit may ever be routed, packed or queued.
FlowInv ==
    /\ req \in [Ids -> Requests]
    /\ client \in [Ids -> {"new", "waiting", "complete", "error", "timeout"}]
    /\ staged \in [Ids -> Units]
    /\ pack \in [Ids -> SUBSET Filled]
    /\ status \in [Ids -> Statuses]
    /\ location \in [Files -> Workers \cup {0}]
    /\ olocation \in [Files -> SUBSET Entries]
    /\ batch_buffer \in SUBSET Ids
    /\ dpc \in {"collect", "resume", "direct", "solve"}
    /\ direct_route \in SUBSET (Filled \X Workers)
    /\ supertasks \in SUBSET ((SUBSET Filled) \ {{}})
    /\ independent \in SUBSET Filled
    /\ sched \in SUBSET Ids
    /\ workers \in SUBSET Workers
    /\ cached \in [Workers -> Views]
    /\ fanout \in [Ids -> Units]
    /\ fanbox \in [Ids -> Outcomes \cup {"none"}]
    /\ queue \in [Workers -> Seq(FilledMessages)]
    /\ exec \in [Workers -> FilledHandlers]
    /\ disk \in [Workers -> [Files -> [Cells -> Ids \cup {0}]]]
    /\ stored \in SUBSET Ids
    /\ alive \in SUBSET Workers
    /\ suspended \in SUBSET Workers
    /\ resume \in SUBSET Workers
    /\ registry \in [Workers -> Views]
    /\ sent \in [Ids -> Seq(Outcomes)]
    /\ churn \in 0 .. MaxChurn
    /\ failures \in 0 .. MaxFailures

\* The strengthened invariant implies type correctness.
LEMMA FlowInvTyped == FlowInv => TypeOK
<1> SUFFICES ASSUME FlowInv PROVE TypeOK
    OBVIOUS
<1>1. Filled \subseteq Units
    BY DEF Filled
<1>2. pack \in [Ids -> SUBSET Units]
    BY <1>1 DEF FlowInv
<1>3. direct_route \subseteq Units \X Workers
    BY <1>1 DEF FlowInv
<1>4. supertasks \subseteq SUBSET Units /\ independent \subseteq Units
    BY <1>1 DEF FlowInv
<1>5. Seq(FilledMessages) \subseteq Seq(Messages)
    BY DEF FilledMessages
<1>6. queue \in [Workers -> Seq(Messages)]
    BY <1>5 DEF FlowInv
<1>7. exec \in [Workers -> Handlers]
    BY DEF FlowInv, FilledHandlers
<1> QED
    BY <1>2, <1>3, <1>4, <1>6, <1>7 DEF FlowInv, TypeOK

\* A handler between two labels.
LEMMA IdleTyped == Idle \in FilledHandlers
BY DEF Idle, FilledHandlers, Handlers, Units, Filled

\* The initial states satisfy the invariant.
LEMMA FlowInvInit == Init => FlowInv
<1> SUFFICES ASSUME Init PROVE FlowInv
    OBVIOUS
<1>1. MaxChurn \in Nat /\ MaxFailures \in Nat
    BY LabelFlowAssumption
<1>2. exec \in [Workers -> FilledHandlers]
    BY IdleTyped DEF Init
<1>3. disk \in [Workers -> [Files -> [Cells -> Ids \cup {0}]]]
    BY DEF Init
<1>4. queue \in [Workers -> Seq(FilledMessages)] /\ sent \in [Ids -> Seq(Outcomes)]
    BY DEF Init
<1> QED
    BY <1>1, <1>2, <1>3, <1>4
    DEF Init, FlowInv, Units, Statuses, Views, Outcomes

\* nats.publish keeps the queues typed.
LEMMA SendTyped ==
    ASSUME queue \in [Workers -> Seq(FilledMessages)],
           NEW w \in Workers, NEW m \in FilledMessages, Send(w, m)
    PROVE  queue' \in [Workers -> Seq(FilledMessages)]
BY DEF Send

\* A completion is complete or error.
LEMMA AppendTyped ==
    ASSUME sent \in [Ids -> Seq(Outcomes)], NEW S, NEW outcome \in Outcomes,
           sent' = [l \in Ids |-> IF l \in S THEN Append(sent[l], outcome) ELSE sent[l]]
    PROVE  sent' \in [Ids -> Seq(Outcomes)]
OBVIOUS

-----------------------------------------------------------------------------
(* Every action keeps it *)

\* LabelManager::publish_write and publish_read.
LEMMA PublishTyped ==
    ASSUME FlowInv, NEW l \in Ids, Publish(l)
    PROVE  FlowInv'
<1>1. client' \in [Ids -> {"new", "waiting", "complete", "error", "timeout"}]
    BY DEF FlowInv, Publish
<1>2. staged' \in [Ids -> Units]
    BY DEF FlowInv, Publish, Units
<1>3. status' \in [Ids -> Statuses]
    BY DEF FlowInv, Publish, Statuses
<1> QED
    BY <1>1, <1>2, <1>3
    DEF FlowInv, Publish, catalogVars, batchVars, fanVars, workerVars, fleetVars

\* wait and wait_read.
LEMMA ReceiveTyped ==
    ASSUME FlowInv, NEW l \in Ids, Receive(l)
    PROVE  FlowInv'
<1>1. Head(sent[l]) \in Outcomes
    BY DEF FlowInv, Receive
<1>2. client' \in [Ids -> {"new", "waiting", "complete", "error", "timeout"}]
    BY <1>1 DEF FlowInv, Receive, Outcomes
<1>3. staged' \in [Ids -> Units]
    BY DEF FlowInv, Receive, Units
<1> QED
    BY <1>1, <1>2, <1>3
    DEF FlowInv, Receive, catalogVars, batchVars, fanVars, workerVars, fleetVars

\* A client that gives up.
LEMMA ReplyTimeoutTyped ==
    ASSUME FlowInv, NEW l \in Ids, ReplyTimeout(l)
    PROVE  FlowInv'
<1>1. client' \in [Ids -> {"new", "waiting", "complete", "error", "timeout"}]
    BY DEF FlowInv, ReplyTimeout
<1>2. churn' \in 0 .. MaxChurn
    BY LabelFlowAssumption DEF FlowInv, ReplyTimeout
<1> QED
    BY <1>1, <1>2
    DEF FlowInv, ReplyTimeout, catalogVars, batchVars, fanVars, workerVars, fleetVars

\* A batch without work or without workers.
LEMMA DropBatchTyped ==
    ASSUME FlowInv, DropBatch
    PROVE  FlowInv'
<1>1. PICK outcome \in Outcomes : AnswerObserve(Observes(batch_buffer), outcome)
    BY DEF DropBatch, Outcomes
<1>2. sent' \in [Ids -> Seq(Outcomes)]
    BY <1>1, AppendTyped DEF FlowInv, AnswerObserve
<1> QED
    BY <1>1, <1>2
    DEF FlowInv, DropBatch, catalogVars, batchVars, fanVars, workerVars, fleetVars

\* One batch is shuffled.
LEMMA CollectBatchTyped ==
    ASSUME FlowInv, CollectBatch
    PROVE  FlowInv'
<1>1. PICK outcome \in Outcomes : AnswerObserve(Observes(batch_buffer), outcome)
    BY DEF CollectBatch, Outcomes
<1>2. sent' \in [Ids -> Seq(Outcomes)]
    BY <1>1, AppendTyped DEF FlowInv, AnswerObserve
<1>3. batch_buffer \ Observes(batch_buffer) \subseteq Ids
    BY DEF FlowInv
<1>4. Aggregate(req, batch_buffer \ Observes(batch_buffer)) \subseteq Filled
    BY <1>3, AggregateFilled DEF FlowInv
<1>5. BuildSupertasks(req, Aggregate(req, batch_buffer \ Observes(batch_buffer)))
        \subseteq (SUBSET Filled) \ {{}}
    BY <1>4, SupertasksFilled
<1>6. supertasks' \in SUBSET ((SUBSET Filled) \ {{}})
    BY <1>5 DEF CollectBatch
<1>7. \A u \in Filled : HasLocation(u) => GetLocation(u) \in Workers
    BY LocationTyped DEF FlowInv, HasLocation
<1>8. \A p \in direct_route' : \E u \in Filled : HasLocation(u) /\ p = <<u, GetLocation(u)>>
    BY <1>4 DEF CollectBatch, FreeUnits
<1>9. direct_route' \in SUBSET (Filled \X Workers)
    BY <1>7, <1>8
<1>10. independent' \in SUBSET Filled
    BY <1>4 DEF CollectBatch, FreeUnits
<1>11. workers' \in SUBSET Workers /\ resume' \in SUBSET Workers
    BY DEF FlowInv, CollectBatch, Available
<1> QED
    BY <1>1, <1>2, <1>3, <1>4, <1>5, <1>6, <1>7, <1>8, <1>9, <1>10, <1>11
    DEF FlowInv, CollectBatch, catalogVars, batchVars, fanVars, workerVars, fleetVars

\* The worker list is queried again.
LEMMA RequeryTyped ==
    ASSUME FlowInv, Requery
    PROVE  FlowInv'
<1>1. cached' \in [Workers -> Views]
    BY DEF FlowInv, Requery, NoWorkers, Views
<1>2. workers' \in SUBSET Workers
    BY DEF Requery, Available
<1>3. churn' \in 0 .. MaxChurn
    BY LabelFlowAssumption DEF FlowInv, Requery, QueryWorkers
<1> QED
    BY <1>1, <1>2, <1>3
    DEF FlowInv, Requery, catalogVars, batchVars, fanVars, workerVars, fleetVars

\* The refresh thread.
LEMMA RefreshTyped ==
    ASSUME FlowInv, RefreshWorkers
    PROVE  FlowInv'
<1>1. cached' \in [Workers -> Views]
    BY DEF FlowInv, RefreshWorkers, NoWorkers, Views
<1>2. churn' \in 0 .. MaxChurn
    BY LabelFlowAssumption DEF FlowInv, RefreshWorkers, QueryWorkers
<1> QED
    BY <1>1, <1>2
    DEF FlowInv, RefreshWorkers, catalogVars, batchVars, fanVars, workerVars, fleetVars

\* (A) a read is sent to the holder of its range.
LEMMA RouteDirectTyped ==
    ASSUME FlowInv, NEW p \in direct_route, RouteDirect(p)
    PROVE  FlowInv'
<1>1. p[1] \in Filled /\ p[2] \in Workers
    BY DEF FlowInv
<1>2. Lead(p[1]) \in Ids
    BY <1>1, SpanTyped DEF FlowInv
<1>3. [id |-> Lead(p[1]), composite |-> FALSE, unit |-> p[1]] \in FilledMessages
    BY <1>1, <1>2 DEF FilledMessages, Messages, Filled
<1>4. queue' \in [Workers -> Seq(FilledMessages)]
    BY <1>1, <1>3, SendTyped DEF FlowInv, RouteDirect
<1>5. sched' \in SUBSET Ids
    BY <1>2 DEF FlowInv, RouteDirect
<1> QED
    BY <1>1, <1>2, <1>3, <1>4, <1>5
    DEF FlowInv, RouteDirect, catalogVars, batchVars, fanVars, workerVars, fleetVars

\* The catalog learns of the direct routes.
LEMMA ScheduleDirectTyped ==
    ASSUME FlowInv, ScheduleDirect
    PROVE  FlowInv'
<1>1. status' \in [Ids -> Statuses]
    BY DEF FlowInv, ScheduleDirect, Scheduled, Statuses
<1> QED
    BY <1>1
    DEF FlowInv, ScheduleDirect, catalogVars, batchVars, fanVars, workerVars, fleetVars

\* (B) a supertask.
LEMMA RouteSupertaskTyped ==
    ASSUME FlowInv, NEW st \in supertasks, NEW w \in Workers, RouteSupertask(st, w)
    PROVE  FlowInv'
<1>1. st \subseteq Filled /\ st # {}
    BY DEF FlowInv
<1>2. CompositeId(req, st) \in Ids
    BY <1>1, FirstChildIn DEF FlowInv
<1>3. [id |-> CompositeId(req, st), composite |-> TRUE, unit |-> {}] \in FilledMessages
    BY <1>2 DEF FilledMessages, Messages, Units
<1>4. queue' \in [Workers -> Seq(FilledMessages)]
    BY <1>3, SendTyped DEF FlowInv, RouteSupertask
<1>5. pack' \in [Ids -> SUBSET Filled]
    BY <1>1 DEF FlowInv, RouteSupertask, PackChildren
<1>6. status' \in [Ids -> Statuses]
    BY DEF FlowInv, RouteSupertask, Scheduled, Statuses
<1>7. WritesOf(st) \subseteq Filled
    BY <1>1 DEF WritesOf
<1>8. location' \in [Files -> Workers \cup {0}]
        /\ olocation' \in [Files -> SUBSET Entries]
    BY <1>7, LocationsKept DEF FlowInv, RouteSupertask
<1> QED
    BY <1>1, <1>2, <1>3, <1>4, <1>5, <1>6, <1>7, <1>8
    DEF FlowInv, RouteSupertask, catalogVars, batchVars, fanVars, workerVars, fleetVars

\* The chunks of a merged write are combined.
LEMMA CombineTyped ==
    ASSUME FlowInv, NEW u \in Filled, CombineUnit(u)
    PROVE  staged' \in [Ids -> Units] /\ fanout' \in [Ids -> Units]
<1>1. u \in Units /\ \A i \in u : staged[i] \in Units
    BY DEF FlowInv, Filled, Units
<1>2. UNION {staged[i] : i \in u} \in Units
    BY <1>1 DEF Units
<1>3. {} \in Units
    BY DEF Units
<1>4. CASE Merged(u)
    <2>1. staged' = Combined(u) /\ fanout' = [fanout EXCEPT ![Lead(u)] = u]
        BY <1>4 DEF CombineUnit
    <2>2. staged' \in [Ids -> Units]
        BY <1>2, <1>3, <2>1 DEF FlowInv, Combined
    <2>3. fanout' \in [Ids -> Units]
        BY <1>1, <2>1 DEF FlowInv
    <2> QED
        BY <2>2, <2>3
<1>5. CASE ~Merged(u)
    BY <1>5 DEF FlowInv, CombineUnit
<1> QED
    BY <1>4, <1>5

\* (C) an independent unit.
LEMMA RouteIndependentTyped ==
    ASSUME FlowInv, NEW u \in independent, NEW w \in Workers, RouteIndependent(u, w)
    PROVE  FlowInv'
<1>1. u \in Filled
    BY DEF FlowInv
<1>2. Lead(u) \in Ids
    BY <1>1, SpanTyped DEF FlowInv
<1>3. [id |-> Lead(u), composite |-> FALSE, unit |-> u] \in FilledMessages
    BY <1>1, <1>2 DEF FilledMessages, Messages, Filled
<1>4. queue' \in [Workers -> Seq(FilledMessages)]
    BY <1>3, SendTyped DEF FlowInv, RouteIndependent
<1>5. sched' \in SUBSET Ids
    BY <1>2 DEF FlowInv, RouteIndependent
<1>6. WritesOf({u}) \subseteq Filled
    BY <1>1 DEF WritesOf
<1>7. location' \in [Files -> Workers \cup {0}]
        /\ olocation' \in [Files -> SUBSET Entries]
    BY <1>6, LocationsKept DEF FlowInv, RouteIndependent
<1>8. staged' \in [Ids -> Units] /\ fanout' \in [Ids -> Units]
    BY <1>1, CombineTyped DEF RouteIndependent
<1> QED
    BY <1>1, <1>2, <1>3, <1>4, <1>5, <1>6, <1>7, <1>8
    DEF FlowInv, RouteIndependent, catalogVars, batchVars, fanVars, workerVars, fleetVars

\* A unit or a supertask no worker can take.
LEMMA NoWorkerTyped ==
    ASSUME FlowInv, NoWorkerFor
    PROVE  FlowInv'
<1>1. staged' \in [Ids -> Units] /\ fanout' \in [Ids -> Units]
    BY CombineTyped DEF FlowInv, NoWorkerFor
<1>2. supertasks' \in SUBSET ((SUBSET Filled) \ {{}})
        /\ independent' \in SUBSET Filled
    BY DEF FlowInv, NoWorkerFor
<1> QED
    BY <1>1, <1>2
    DEF FlowInv, NoWorkerFor, catalogVars, batchVars, fanVars, workerVars, fleetVars

\* The catalog learns of the independent units.
LEMMA ScheduleIndependentTyped ==
    ASSUME FlowInv, ScheduleIndependent
    PROVE  FlowInv'
<1>1. status' \in [Ids -> Statuses]
    BY DEF FlowInv, ScheduleIndependent, Scheduled, Statuses
<1> QED
    BY <1>1
    DEF FlowInv, ScheduleIndependent, catalogVars, batchVars, fanVars, workerVars, fleetVars

\* The fanout thread answers the merged labels.
LEMMA FanOutTyped ==
    ASSUME FlowInv, NEW l \in Ids, FanOut(l)
    PROVE  FlowInv'
<1>1. fanbox[l] \in Outcomes
    BY DEF FlowInv, FanOut
<1>2. sent' \in [Ids -> Seq(Outcomes)]
    BY <1>1, AppendTyped DEF FlowInv, FanOut
<1>3. fanout' \in [Ids -> Units] /\ fanbox' \in [Ids -> Outcomes \cup {"none"}]
    BY DEF FlowInv, FanOut, Units
<1> QED
    BY <1>1, <1>2, <1>3
    DEF FlowInv, FanOut, catalogVars, batchVars, fanVars, workerVars, fleetVars

\* The fanout thread gives up.
LEMMA FanOutTimeoutTyped ==
    ASSUME FlowInv, NEW l \in Ids, FanOutTimeout(l)
    PROVE  FlowInv'
<1>1. fanout' \in [Ids -> Units]
    BY DEF FlowInv, FanOutTimeout, Units
<1>2. churn' \in 0 .. MaxChurn
    BY LabelFlowAssumption DEF FlowInv, FanOutTimeout
<1> QED
    BY <1>1, <1>2
    DEF FlowInv, FanOutTimeout, catalogVars, batchVars, fanVars, workerVars, fleetVars

\* The worker takes a label.
LEMMA TakeTyped ==
    ASSUME FlowInv, NEW w \in Workers, Take(w)
    PROVE  FlowInv'
<1>1. Head(queue[w]) \in FilledMessages /\ Tail(queue[w]) \in Seq(FilledMessages)
    BY DEF FlowInv, Take
<1>2. queue' \in [Workers -> Seq(FilledMessages)]
    BY <1>1 DEF FlowInv, Take
<1>3. pack[Head(queue[w]).id] \subseteq Filled /\ Filled \subseteq Units
    BY <1>1 DEF FlowInv, FilledMessages, Messages, Filled
<1>4. exec'[w] \in FilledHandlers
    <2> DEFINE m == Head(queue[w])
    <2>1. m \in Messages /\ (~m.composite => m.unit \in Filled)
        BY <1>1 DEF FilledMessages
    <2>2. CASE m.composite
        <3>1. exec'[w] = [phase |-> "next", id |-> m.id, composite |-> TRUE,
                          todo |-> pack[m.id], unit |-> {}, ok |-> TRUE]
            BY <2>2 DEF FlowInv, Take, Idle
        <3>2. pack[m.id] \in SUBSET Units /\ {} \in Units
            BY <1>3 DEF Units
        <3> HIDE DEF m
        <3> QED
            BY <1>3, <2>1, <3>1, <3>2 DEF FilledHandlers, Handlers, Messages, m
    <2>3. CASE ~m.composite
        <3>1. exec'[w] = [phase |-> "begun", id |-> m.id, composite |-> FALSE,
                          todo |-> {}, unit |-> m.unit, ok |-> TRUE]
            BY <2>3 DEF FlowInv, Take, Idle
        <3> HIDE DEF m
        <3> QED
            BY <2>1, <2>3, <3>1 DEF FilledHandlers, Handlers, Messages
    <2> QED
        BY <2>2, <2>3
<1>5. exec' \in [Workers -> FilledHandlers]
    BY <1>4 DEF FlowInv, Take
<1>6. status' \in [Ids -> Statuses]
    BY DEF FlowInv, Take, Statuses
<1> QED
    BY <1>1, <1>2, <1>3, <1>4, <1>5, <1>6
    DEF FlowInv, Take, catalogVars, batchVars, fanVars, workerVars, fleetVars

\* The worker starts the next child.
LEMMA NextChildTyped ==
    ASSUME FlowInv, NEW w \in Workers, NextChild(w)
    PROVE  FlowInv'
<1>1. exec[w] \in Handlers /\ exec[w].todo \subseteq Filled
    BY DEF FlowInv, FilledHandlers
<1>2. FirstChild(req, exec[w].todo) \in Filled
    BY <1>1, FirstChildIn DEF FlowInv, NextChild
<1>3. exec'[w] \in FilledHandlers
    BY <1>1, <1>2 DEF FlowInv, NextChild, FilledHandlers, Handlers, Filled
<1>4. exec' \in [Workers -> FilledHandlers]
    BY <1>3 DEF FlowInv, NextChild
<1>5. status' \in [Ids -> Statuses]
    BY DEF FlowInv, NextChild, Statuses
<1> QED
    BY <1>1, <1>2, <1>3, <1>4, <1>5
    DEF FlowInv, NextChild, catalogVars, batchVars, fanVars, workerVars, fleetVars

\* A handler that has performed its label, well or not.
LEMMA PerformedTyped ==
    ASSUME NEW h \in FilledHandlers, NEW b \in BOOLEAN
    PROVE  [h EXCEPT !.phase = "performed", !.ok = b] \in FilledHandlers
    BY DEF FilledHandlers, Handlers

\* execute_write.
LEMMA PerformWriteTyped ==
    ASSUME FlowInv, NEW w \in Workers, PerformWrite(w)
    PROVE  FlowInv'
<1>1. exec[w] \in FilledHandlers /\ exec[w].unit \in Filled
    BY DEF FlowInv, PerformWrite, FilledHandlers
<1>2. Lead(exec[w].unit) \in Ids /\ UnitFile(req, exec[w].unit) \in Files
    BY <1>1, SpanTyped DEF FlowInv
<1>3. staged[Lead(exec[w].unit)] \subseteq Ids
    BY <1>2 DEF FlowInv, Units
<1>4. PutBlob(w, UnitFile(req, exec[w].unit), Span(exec[w].unit).off, staged[Lead(exec[w].unit)])
        \in [Cells -> Ids \cup {0}]
    BY <1>2, <1>3 DEF FlowInv, PutBlob
<1>5. disk' \in [Workers -> [Files -> [Cells -> Ids \cup {0}]]]
    BY <1>2, <1>4 DEF FlowInv, PerformWrite
<1>6. stored' \in SUBSET Ids /\ staged' \in [Ids -> Units]
    BY <1>3 DEF FlowInv, PerformWrite, Units
<1>7. location' \in [Files -> Workers \cup {0}]
        /\ olocation' \in [Files -> SUBSET Entries]
    BY <1>1, LocationsKept DEF FlowInv, PerformWrite
<1>8. exec'[w] \in FilledHandlers
    <2>1. exec'[w] = [exec[w] EXCEPT !.phase = "performed", !.ok = TRUE]
        BY DEF FlowInv, PerformWrite
    <2> QED
        BY <1>1, <2>1, PerformedTyped
<1>9. exec' \in [Workers -> FilledHandlers]
    BY <1>8 DEF FlowInv, PerformWrite
<1> QED
    BY <1>1, <1>2, <1>3, <1>4, <1>5, <1>6, <1>7, <1>8, <1>9
    DEF FlowInv, PerformWrite, catalogVars, batchVars, fanVars, workerVars, fleetVars

\* execute_read.
LEMMA PerformReadTyped ==
    ASSUME FlowInv, NEW w \in Workers, PerformRead(w)
    PROVE  FlowInv'
<1>1. exec[w] \in FilledHandlers /\ exec[w].unit \in Filled
    BY DEF FlowInv, PerformRead, FilledHandlers
<1>2. UnitFile(req, exec[w].unit) \in Files
    BY <1>1, SpanTyped DEF FlowInv
<1>3. GetBlob(w, UnitFile(req, exec[w].unit), Span(exec[w].unit)) \in Units
    BY <1>2 DEF FlowInv, GetBlob, Units
<1>4. staged' \in [Ids -> Units]
    BY <1>3 DEF FlowInv, PerformRead
<1>5. exec'[w] \in FilledHandlers
    <2>1. exec'[w] = [exec[w] EXCEPT !.phase = "performed", !.ok = TRUE]
        BY DEF FlowInv, PerformRead
    <2> QED
        BY <1>1, <2>1, PerformedTyped
<1>6. exec' \in [Workers -> FilledHandlers]
    BY <1>5 DEF FlowInv, PerformRead
<1> QED
    BY <1>1, <1>2, <1>3, <1>4, <1>5, <1>6
    DEF FlowInv, PerformRead, catalogVars, batchVars, fanVars, workerVars, fleetVars

\* An exception in the handler.
LEMMA PerformFailsTyped ==
    ASSUME FlowInv, NEW w \in Workers, PerformFails(w)
    PROVE  FlowInv'
<1>1. exec[w] \in FilledHandlers
    BY DEF FlowInv, PerformFails
<1>2. exec'[w] \in FilledHandlers
    <2>1. exec'[w] = [exec[w] EXCEPT !.phase = "performed", !.ok = FALSE]
        BY DEF FlowInv, PerformFails
    <2> QED
        BY <1>1, <2>1, PerformedTyped
<1>3. exec' \in [Workers -> FilledHandlers]
    BY <1>2 DEF FlowInv, PerformFails
<1>4. failures' \in 0 .. MaxFailures
    BY LabelFlowAssumption DEF FlowInv, PerformFails
<1> QED
    BY <1>1, <1>2, <1>3, <1>4
    DEF FlowInv, PerformFails, catalogVars, batchVars, fanVars, workerVars, fleetVars

\* The catalog learns the outcome.
LEMMA SettleTyped ==
    ASSUME FlowInv, NEW w \in Workers, Settle(w)
    PROVE  FlowInv'
<1>1. exec[w] \in FilledHandlers
    BY DEF FlowInv
<1>2. exec'[w] = [exec[w] EXCEPT !.phase = "settled"]
    BY DEF FlowInv, Settle
<1>3. exec'[w] \in FilledHandlers
    BY <1>1, <1>2 DEF FilledHandlers, Handlers
<1>4. exec' \in [Workers -> FilledHandlers]
    BY <1>3 DEF FlowInv, Settle
<1>5. status' \in [Ids -> Statuses]
    BY DEF FlowInv, Settle, Outcome, Statuses
<1> QED
    BY <1>1, <1>2, <1>3, <1>4, <1>5
    DEF FlowInv, Settle, catalogVars, batchVars, fanVars, workerVars, fleetVars

\* The client learns the outcome.
LEMMA AnswerTyped ==
    ASSUME FlowInv, NEW w \in Workers, Answer(w)
    PROVE  FlowInv'
<1>1. exec[w] \in FilledHandlers
    BY DEF FlowInv, Answer
<1>2. exec'[w] \in FilledHandlers
    <2>1. exec'[w] = IF exec[w].composite /\ exec[w].ok
                     THEN [exec[w] EXCEPT !.phase = "next"] ELSE Idle
        BY DEF FlowInv, Answer
    <2>2. [exec[w] EXCEPT !.phase = "next"] \in FilledHandlers
        BY <1>1 DEF FilledHandlers, Handlers
    <2> QED
        BY <2>1, <2>2, IdleTyped
<1>3. exec' \in [Workers -> FilledHandlers]
    BY <1>2 DEF FlowInv, Answer
<1>4. status' \in [Ids -> Statuses]
    BY DEF FlowInv, Answer, Statuses
<1>5. Outcome(w) \in Outcomes
    BY DEF Outcome, Outcomes
<1>6. fanbox' \in [Ids -> Outcomes \cup {"none"}]
    <2>1. \/ fanbox' = fanbox
          \/ fanbox' = [fanbox EXCEPT ![Lead(exec[w].unit)] =
                            IF fanout[Lead(exec[w].unit)] = {} THEN @ ELSE Outcome(w)]
        BY DEF Answer, PublishCompletion
    <2>2. fanbox \in [Ids -> Outcomes \cup {"none"}]
        BY DEF FlowInv
    <2> QED
        BY <1>5, <2>1, <2>2
<1>7. sent' \in [Ids -> Seq(Outcomes)]
    <2>1. CASE sent' = sent
        BY <2>1 DEF FlowInv
    <2>2. CASE sent' = [sent EXCEPT ![Lead(exec[w].unit)] = Append(@, Outcome(w))]
        <3>1. sent' = [l \in Ids |-> IF l \in {Lead(exec[w].unit)}
                                     THEN Append(sent[l], Outcome(w)) ELSE sent[l]]
            BY <2>2 DEF FlowInv
        <3> QED
            BY <1>5, <3>1, AppendTyped DEF FlowInv
    <2> QED
        BY <2>1, <2>2 DEF Answer, PublishCompletion
<1> QED
    BY <1>1, <1>2, <1>3, <1>4, <1>5, <1>6, <1>7
    DEF FlowInv, Answer, catalogVars, batchVars, fanVars, workerVars, fleetVars

\* The composite is complete.
LEMMA CloseCompositeTyped ==
    ASSUME FlowInv, NEW w \in Workers, CloseComposite(w)
    PROVE  FlowInv'
<1>1. exec' \in [Workers -> FilledHandlers]
    BY IdleTyped DEF FlowInv, CloseComposite
<1>2. pack' \in [Ids -> SUBSET Filled]
    BY DEF FlowInv, CloseComposite
<1>3. status' \in [Ids -> Statuses]
    BY DEF FlowInv, CloseComposite, Statuses
<1> QED
    BY <1>1, <1>2, <1>3
    DEF FlowInv, CloseComposite, catalogVars, batchVars, fanVars, workerVars, fleetVars

\* A worker crashes or stops.
LEMMA GoneTyped ==
    ASSUME FlowInv, NEW w \in Workers, Crash(w) \/ Stop(w)
    PROVE  FlowInv'
<1>1. Gone(w)
    BY DEF Crash, Stop
<1>2. exec' \in [Workers -> FilledHandlers]
    BY <1>1, IdleTyped DEF FlowInv, Gone
<1>3. queue' \in [Workers -> Seq(FilledMessages)]
    BY <1>1 DEF FlowInv, Gone
<1>4. registry' \in [Workers -> Views]
    BY DEF FlowInv, Crash, Stop, Views
<1>5. churn' \in 0 .. MaxChurn
    BY <1>1, LabelFlowAssumption DEF FlowInv, Gone
<1> QED
    BY <1>1, <1>2, <1>3, <1>4, <1>5
    DEF FlowInv, Gone, catalogVars, batchVars, fanVars, workerVars, fleetVars

\* A worker starts.
LEMMA StartTyped ==
    ASSUME FlowInv, NEW w \in Workers, Start(w)
    PROVE  FlowInv'
<1>1. registry' \in [Workers -> Views]
    BY DEF FlowInv, Start, Views
<1>2. churn' \in 0 .. MaxChurn
    BY LabelFlowAssumption DEF FlowInv, Start
<1> QED
    BY <1>1, <1>2
    DEF FlowInv, Start, catalogVars, batchVars, fanVars, workerVars, fleetVars

\* A worker suspends itself.
LEMMA SuspendTyped ==
    ASSUME FlowInv, NEW w \in Workers, Suspend(w)
    PROVE  FlowInv'
<1>1. registry' \in [Workers -> Views]
    BY DEF FlowInv, Suspend, ScoreUpdate, Views
<1>2. churn' \in 0 .. MaxChurn
    BY LabelFlowAssumption DEF FlowInv, Suspend
<1> QED
    BY <1>1, <1>2
    DEF FlowInv, Suspend, catalogVars, batchVars, fanVars, workerVars, fleetVars

\* A worker reports its state.
LEMMA ReportTyped ==
    ASSUME FlowInv, NEW w \in Workers, Report(w)
    PROVE  FlowInv'
<1>1. registry' \in [Workers -> Views]
    BY DEF FlowInv, Report, ScoreUpdate, Views
<1> QED
    BY <1>1
    DEF FlowInv, Report, catalogVars, batchVars, fanVars, workerVars, fleetVars

\* A worker is resumed.
LEMMA ResumeTyped ==
    ASSUME FlowInv, NEW w \in Workers, Resume(w)
    PROVE  FlowInv'
<1>1. registry' \in [Workers -> Views]
    BY DEF FlowInv, Resume, ScoreUpdate, Views
<1> QED
    BY <1>1
    DEF FlowInv, Resume, catalogVars, batchVars, fanVars, workerVars, fleetVars

\* A step that changes nothing.
LEMMA StutterTyped ==
    ASSUME FlowInv, UNCHANGED vars
    PROVE  FlowInv'
BY DEF FlowInv, vars, catalogVars, batchVars, fanVars, workerVars, fleetVars

\* Every step of the pipeline keeps the invariant.
LEMMA FlowInvStep == FlowInv /\ [Next]_vars => FlowInv'
<1> SUFFICES ASSUME FlowInv, [Next]_vars PROVE FlowInv'
    OBVIOUS
<1>1. CASE ClientStep
    BY <1>1, PublishTyped, ReceiveTyped, ReplyTimeoutTyped DEF ClientStep
<1>2. CASE DispatcherStep
    <2>1. CASE RouteStep
        BY <2>1, RouteDirectTyped, RouteSupertaskTyped, RouteIndependentTyped, NoWorkerTyped,
           ScheduleDirectTyped, ScheduleIndependentTyped DEF RouteStep
    <2> QED
        BY <1>2, <2>1, DropBatchTyped, CollectBatchTyped, RequeryTyped DEF DispatcherStep
<1>3. CASE RefreshWorkers
    BY <1>3, RefreshTyped
<1>4. CASE \E l \in Ids : FanOut(l) \/ FanOutTimeout(l)
    BY <1>4, FanOutTyped, FanOutTimeoutTyped
<1>5. CASE \E w \in Workers : WorkerStep(w)
    BY <1>5, TakeTyped, NextChildTyped, PerformWriteTyped, PerformReadTyped, PerformFailsTyped,
       SettleTyped, AnswerTyped, CloseCompositeTyped DEF WorkerStep
<1>6. CASE FleetStep
    BY <1>6, GoneTyped, StartTyped, SuspendTyped, ReportTyped, ResumeTyped DEF FleetStep
<1>7. CASE UNCHANGED vars
    BY <1>7, StutterTyped
<1> QED
    BY <1>1, <1>2, <1>3, <1>4, <1>5, <1>6, <1>7 DEF Next

-----------------------------------------------------------------------------
(* Theorem *)

\* Type correctness of the label pipeline, for any number of labels, workers and
\* files and any mix of requests: in particular the dispatcher never routes to a
\* worker that does not exist, no supertask is empty, and no message names a label
\* nobody published.
THEOREM FlowTypeCorrect == Spec => []TypeOK
<1>1. Init => FlowInv
    BY FlowInvInit
<1>2. FlowInv /\ [Next]_vars => FlowInv'
    BY FlowInvStep
<1>3. FlowInv => TypeOK
    BY FlowInvTyped
<1> QED
    BY <1>1, <1>2, <1>3, PTL DEF Spec

-----------------------------------------------------------------------------
(* The place of a label, given by four functions on Ids: at, the place; on, *)
(* the worker it is at or on its way to; unit, the unit it was collected    *)
(* in; team, the supertask that unit is a child of, {} if it is none.       *)

Waiting == {"buffer", "direct", "super", "free"}
Sent == {"queued", "todo", "exec"}
Places == {"new", "ran", "done"} \cup Waiting \cup Sent

\* The labels of unit u are at one place, and u is their unit.
Stand(u, place, at, unit) == \A l \in u : at[l] = place /\ unit[l] = u

Ghosts(at, on, unit, team) ==
    /\ at \in [Ids -> Places]
    /\ on \in [Ids -> Workers \cup {0}]
    /\ unit \in [Ids -> Units]
    /\ team \in [Ids -> SUBSET Units]

\* A label has a place once it is published.
Published(at) == \A l \in Ids : client[l] = "new" <=> at[l] = "new"

InBuffer(at) == \A l \in batch_buffer : at[l] = "buffer"

InDirect(at, on, unit, team) ==
    \A p \in direct_route : /\ Stand(p[1], "direct", at, unit)
                            /\ \A l \in p[1] : /\ on[l] = p[2] /\ team[l] = {}
                                               /\ req[l].type = "Read"

InIndependent(at, unit, team) ==
    \A u \in independent : Stand(u, "free", at, unit) /\ \A l \in u : team[l] = {}

InSupertasks(at, unit, team) ==
    \A st \in supertasks : \A u \in st :
        Stand(u, "super", at, unit) /\ \A l \in u : team[l] = st

\* The units a message carries.
Carried(m) == IF m.composite THEN pack[m.id] ELSE {m.unit}

\* A single label is under its own id; a composite one is under the id of its
\* first child and finds its children packed.
InMessage(m, w, at, on, unit, team) ==
    /\ \A u \in Carried(m) : Stand(u, "queued", at, unit) /\ \A l \in u : on[l] = w
    /\ IF m.composite
       THEN /\ pack[m.id] # {}
            /\ CompositeId(req, pack[m.id]) = m.id
            /\ \A u \in pack[m.id] : \A l \in u : team[l] = pack[m.id]
       ELSE /\ m.id = Lead(m.unit)
            /\ \A l \in m.unit : team[l] = {}

InQueues(at, on, unit, team) ==
    \A w \in Workers : \A i \in DOMAIN queue[w] :
        InMessage(queue[w][i], w, at, on, unit, team)

\* Two messages of one queue carry different labels.
Apart ==
    \A w \in Workers : \A i, j \in DOMAIN queue[w] :
        i # j => \A u \in Carried(queue[w][i]), v \in Carried(queue[w][j]) : u \cap v = {}

Current(h) == h.phase \in {"begun", "performed", "settled"}

\* What a handler has before it, and what it is doing.
InHandler(h, w, at, on, unit, team) ==
    /\ h.phase = "idle" => h = Idle
    /\ ~h.composite => h.todo = {} /\ h.phase # "next"
    /\ \A u \in h.todo : /\ Stand(u, "todo", at, unit)
                         /\ \A l \in u : on[l] = w /\ team[l] # {}
    /\ Current(h) =>
         /\ h.unit # {}
         /\ Stand(h.unit, IF h.phase = "begun" THEN "exec" ELSE "ran", at, unit)
         /\ \A l \in h.unit : on[l] = w /\ (team[l] # {} <=> h.composite)
         /\ ~h.composite => h.id = Lead(h.unit)
    /\ h.phase # "idle" /\ h.composite =>
         h.id \in Ids /\ at[h.id] \in {"todo", "exec", "ran", "done"}

InHands(at, on, unit, team) == \A w \in Workers : InHandler(exec[w], w, at, on, unit, team)

\* A merged unit holds writes only.
Alike(at, unit) ==
    \A l \in Ids : at[l] \notin {"new", "buffer"} =>
        /\ l \in unit[l]
        /\ \A m \in unit[l] : /\ unit[m] = unit[l] /\ at[m] \notin {"new", "buffer"}
                              /\ req[m].type = req[l].type
                              /\ m # l => req[m].type = "Write"

\* Until it is performed, the payload of a write is under its own id, or under
\* that of its unit when it was sent on its own.
PayloadOf(l, place, u, supertask) ==
    req[l].type = "Write" =>
        /\ place \in Waiting => l \in staged[l]
        /\ place \in Sent /\ supertask # {} => l \in staged[l]
        /\ place \in Sent /\ supertask = {} => l \in staged[Lead(u)]

Payload(at, unit, team) == \A l \in Ids : PayloadOf(l, at[l], unit[l], team[l])

Unanswered(at) == \A l \in Ids : at[l] # "done" => sent[l] = <<>>

\* A fanout thread waits for the answer to a unit that was sent on its own, and
\* gets it when the handler is through with the unit.
InFanout(at, unit, team) ==
    \A k \in Ids : fanout[k] # {} =>
        /\ k \in fanout[k] /\ k = Lead(fanout[k])
        /\ Merged(fanout[k])
        /\ \A l \in fanout[k] : /\ unit[l] = fanout[k] /\ team[l] = {} /\ sent[l] = <<>>
                                /\ at[l] \in Sent \cup {"ran", "done"}
                                /\ fanbox[k] # "none" => at[l] = "done"

Placed(at, on, unit, team) ==
    /\ Ghosts(at, on, unit, team)
    /\ Published(at)
    /\ InBuffer(at)
    /\ InDirect(at, on, unit, team)
    /\ InIndependent(at, unit, team)
    /\ InSupertasks(at, unit, team)
    /\ InQueues(at, on, unit, team)
    /\ InHands(at, on, unit, team)
    /\ Alike(at, unit)
    /\ Payload(at, unit, team)
    /\ Unanswered(at)
    /\ InFanout(at, unit, team)

-----------------------------------------------------------------------------
(* What follows from it about data, answers and the catalog *)

IsWrite(l) == req[l].type = "Write"

\* Nothing is staged for a label nobody published; only published writes are stored.
FreshUnstaged == \A k \in Ids : client[k] = "new" => staged[k] = {}
StoredWrites == \A l \in stored : IsWrite(l) /\ client[l] # "new"

\* The key of a write holds payloads of writes not stored yet, ...
StagedWrites ==
    \A k \in Ids : IsWrite(k) =>
        \A l \in staged[k] : IsWrite(l) /\ client[l] # "new" /\ l \notin stored

\* ... no two keys hold the same one, ...
StagedOnce ==
    \A k, n \in Ids : IsWrite(k) /\ IsWrite(n) /\ staged[k] \cap staged[n] # {} => k = n

\* ... and every payload is under one of them until it is stored.
StagedSomewhere ==
    \A l \in Ids : IsWrite(l) /\ client[l] # "new" /\ l \notin stored =>
        \E k \in Ids : IsWrite(k) /\ l \in staged[k]

PayloadOnce ==
    FreshUnstaged /\ StoredWrites /\ StagedWrites /\ StagedOnce /\ StagedSomewhere

\* A handler whose write succeeded has stored it.
Performed(h) ==
    h.phase \in {"performed", "settled"} /\ h.ok /\ UnitType(req, h.unit) = "Write" =>
        /\ Lead(h.unit) \in stored
        /\ ~h.composite => h.unit \subseteq stored

\* A composite bears the id of a child that is stored or still to come.
ChildFirst(h) ==
    h.phase # "idle" /\ h.composite /\ IsWrite(h.id) =>
        \/ h.id \in stored
        \/ \E u \in h.todo : Lead(u) = h.id
        \/ Current(h) /\ Lead(h.unit) = h.id

HandlersTruthful == \A w \in Workers : Performed(exec[w]) /\ ChildFirst(exec[w])

\* A fanout thread was told "complete" of stored writes only, and it is there.
FanoutTruthful ==
    \A k \in Ids : /\ fanbox[k] # "none" => fanout[k] # {}
                   /\ fanbox[k] = "complete" => \A l \in fanout[k] : IsWrite(l) => l \in stored

Truthful == PayloadOnce /\ HandlersTruthful /\ FanoutTruthful /\ CatalogTruthful

Somewhere == \E at, on, unit, team : Placed(at, on, unit, team)

\* The inductive invariant.
PlaceInv == FlowInv /\ Apart /\ Truthful /\ Somewhere

-----------------------------------------------------------------------------
(* Lemmas on the shuffler *)

\* aggregate() keeps the labels of a batch apart and merges only writes.
LEMMA AggregateApart ==
    ASSUME req \in [Ids -> Requests], NEW batch, batch \subseteq Ids
    PROVE  /\ \A u \in Aggregate(req, batch) :
                /\ u \subseteq batch
                /\ \A l, m \in u : l # m => req[l].type = "Write" /\ req[m].type = "Write"
           /\ \A u, v \in Aggregate(req, batch) : u \cap v # {} => u = v
BY UnitRanged, UnitsWithin, UnitsDisjoint

\* A merged unit has two labels.
LEMMA MergedHasTwo ==
    ASSUME NEW u, Merged(u), NEW l \in u
    PROVE  \E m \in u : m # l
<1> SUFFICES ASSUME u = {l} PROVE FALSE
    OBVIOUS
<1>1. Cardinality(u) = 1
    BY FS_Singleton
<1> QED BY <1>1 DEF Merged

-----------------------------------------------------------------------------
(* Steps that leave the labels where they are *)

placeVars == <<req, staged, pack, batch_buffer, direct_route, supertasks, independent,
               queue, exec, fanout, fanbox, sent>>

\* The initial states satisfy the invariant.
LEMMA PlacesInit == Init => PlaceInv
<1> SUFFICES ASSUME Init PROVE PlaceInv
    OBVIOUS
<1>1. FlowInv
    BY FlowInvInit
<1>2. PICK at : at = [l \in Ids |-> "new"]
    OBVIOUS
<1>3. PICK on : on = [l \in Ids |-> 0]
    OBVIOUS
<1>4. PICK unit : unit = [l \in Ids |-> {}]
    OBVIOUS
<1>5. PICK team : team = [l \in Ids |-> {}]
    OBVIOUS
<1>6. Ghosts(at, on, unit, team)
    BY <1>2, <1>3, <1>4, <1>5 DEF Ghosts, Places, Units
<1>7. \A w \in Workers : exec[w] = Idle /\ DOMAIN queue[w] = {}
    BY DEF Init
<1>8. /\ Published(at) /\ InBuffer(at) /\ InDirect(at, on, unit, team)
      /\ InIndependent(at, unit, team) /\ InSupertasks(at, unit, team)
    BY <1>2 DEF Init, Published, InBuffer, InDirect, InIndependent, InSupertasks
<1>9. InQueues(at, on, unit, team) /\ Apart
    BY <1>7 DEF InQueues, Apart
<1>10. InHands(at, on, unit, team)
    BY <1>7 DEF InHands, InHandler, Idle, Current
<1>11. /\ Alike(at, unit) /\ Payload(at, unit, team) /\ Unanswered(at)
       /\ InFanout(at, unit, team)
    BY <1>2 DEF Init, Alike, Payload, PayloadOf, Unanswered, InFanout, Waiting, Sent
<1>12. PayloadOnce /\ CatalogTruthful
    BY DEF Init, PayloadOnce, FreshUnstaged, StoredWrites, StagedWrites, StagedOnce,
           StagedSomewhere, CatalogTruthful
<1>13. HandlersTruthful
    BY <1>7 DEF HandlersTruthful, Performed, ChildFirst, Idle
<1>14. FanoutTruthful
    BY DEF Init, FanoutTruthful
<1>15. Placed(at, on, unit, team)
    BY <1>6, <1>8, <1>9, <1>10, <1>11 DEF Placed
<1> QED BY <1>1, <1>9, <1>12, <1>13, <1>14, <1>15 DEF PlaceInv, Truthful, Somewhere

\* A step that only touches what the places do not depend on.
LEMMA AtRest ==
    ASSUME FlowInv, Apart, Truthful, Somewhere, UNCHANGED placeVars, UNCHANGED stored,
           \A l \in Ids : client'[l] = "new" <=> client[l] = "new", CatalogTruthful'
    PROVE  Apart' /\ Truthful' /\ Somewhere'
<1>1. /\ UNCHANGED <<req, staged, pack, batch_buffer, direct_route, supertasks, independent>>
      /\ UNCHANGED <<queue, exec, fanout, fanbox, sent>>
    BY DEF placeVars
<1>2. PICK at, on, unit, team : Placed(at, on, unit, team)
    BY DEF Somewhere
<1>3. Placed(at, on, unit, team)'
    <2>1. Ghosts(at, on, unit, team)' /\ Published(at)' /\ InBuffer(at)'
        BY <1>1, <1>2 DEF Placed, Ghosts, Published, InBuffer
    <2>2. /\ InDirect(at, on, unit, team)' /\ InIndependent(at, unit, team)'
          /\ InSupertasks(at, unit, team)'
        BY <1>1, <1>2 DEF Placed, InDirect, InIndependent, InSupertasks, Stand
    <2>3. InQueues(at, on, unit, team)'
        BY <1>1, <1>2 DEF Placed, InQueues, InMessage, Carried, Stand, Lead
    <2>4. InHands(at, on, unit, team)'
        BY <1>1, <1>2 DEF Placed, InHands, InHandler, Current, Stand, Lead
    <2>5. Alike(at, unit)' /\ Unanswered(at)'
        BY <1>1, <1>2 DEF Placed, Alike, Unanswered
    <2>6. Payload(at, unit, team)'
        BY <1>1, <1>2 DEF Placed, Payload, PayloadOf, Lead
    <2>7. InFanout(at, unit, team)'
        BY <1>1, <1>2 DEF Placed, InFanout, Merged, Lead
    <2> QED BY <2>1, <2>2, <2>3, <2>4, <2>5, <2>6, <2>7 DEF Placed
<1>4. Apart'
    BY <1>1 DEF Apart, Carried
<1>5. PayloadOnce'
    <2>1. /\ \A k \in Ids : \A l \in staged[k] : l \in Ids
          /\ \A l \in stored : l \in Ids
        BY DEF FlowInv, Units
    <2>2. FreshUnstaged' /\ StoredWrites'
        BY <1>1, <2>1 DEF Truthful, PayloadOnce, FreshUnstaged, StoredWrites, IsWrite
    <2>3. StagedWrites'
        BY <1>1, <2>1 DEF Truthful, PayloadOnce, StagedWrites, IsWrite
    <2>4. StagedOnce'
        BY <1>1 DEF Truthful, PayloadOnce, StagedOnce, IsWrite
    <2>5. StagedSomewhere'
        BY <1>1 DEF Truthful, PayloadOnce, StagedSomewhere, IsWrite
    <2> QED BY <2>2, <2>3, <2>4, <2>5 DEF PayloadOnce
<1>6. HandlersTruthful'
    <2>1. ASSUME NEW w \in Workers PROVE Performed(exec[w])'
        BY <1>1 DEF Truthful, HandlersTruthful, Performed, Lead
    <2>2. ASSUME NEW w \in Workers PROVE ChildFirst(exec[w])'
        BY <1>1 DEF Truthful, HandlersTruthful, ChildFirst, Current, IsWrite, Lead
    <2> QED BY <2>1, <2>2 DEF HandlersTruthful
<1>7. FanoutTruthful'
    BY <1>1 DEF Truthful, FanoutTruthful, IsWrite
<1> QED BY <1>3, <1>4, <1>5, <1>6, <1>7 DEF Truthful, Somewhere

-----------------------------------------------------------------------------
(* Steps that move labels *)

\* The labels S go from one place to another, at worker w; the others stay.
Moved(S, from, to, w, at, on, at2, on2) ==
    /\ S \subseteq Ids
    /\ \A l \in S : at[l] = from /\ at2[l] = to /\ on2[l] = w
    /\ \A l \in Ids \ S : at2[l] = at[l] /\ on2[l] = on[l]

\* There are functions that say so.
LEMMA MoveExists ==
    ASSUME NEW at, NEW on, NEW unit, NEW team, Ghosts(at, on, unit, team),
           NEW S, S \subseteq Ids, NEW from, NEW to \in Places, NEW w \in Workers \cup {0},
           \A l \in S : at[l] = from
    PROVE  \E at2, on2 : /\ Ghosts(at2, on2, unit, team)
                         /\ Moved(S, from, to, w, at, on, at2, on2)
<1> DEFINE at2 == [l \in Ids |-> IF l \in S THEN to ELSE at[l]]
           on2 == [l \in Ids |-> IF l \in S THEN w ELSE on[l]]
<1>1. Ghosts(at2, on2, unit, team)
    BY DEF Ghosts
<1>2. Moved(S, from, to, w, at, on, at2, on2)
    BY DEF Moved
<1> QED BY <1>1, <1>2

\* The places that the labels neither leave nor enter stay as they were.
LEMMA ListsMoved ==
    ASSUME FlowInv, NEW at, NEW on, NEW unit, NEW team, Placed(at, on, unit, team),
           NEW S, NEW from, NEW to, NEW w, NEW at2, NEW on2,
           Moved(S, from, to, w, at, on, at2, on2), UNCHANGED req
    PROVE  /\ from # "buffer" /\ UNCHANGED batch_buffer => InBuffer(at2)'
           /\ from # "direct" /\ UNCHANGED direct_route => InDirect(at2, on2, unit, team)'
           /\ from # "free" /\ UNCHANGED independent => InIndependent(at2, unit, team)'
           /\ from # "super" /\ UNCHANGED supertasks => InSupertasks(at2, unit, team)'
<1>1. ASSUME from # "buffer", UNCHANGED batch_buffer PROVE InBuffer(at2)'
    BY <1>1 DEF FlowInv, Placed, Moved, InBuffer
<1>2. ASSUME from # "direct", UNCHANGED direct_route PROVE InDirect(at2, on2, unit, team)'
    <2>1. \A p \in direct_route : p[1] \subseteq Ids
        BY DEF FlowInv, Filled, Units
    <2> QED BY <1>2, <2>1 DEF Placed, Moved, InDirect, Stand
<1>3. ASSUME from # "free", UNCHANGED independent PROVE InIndependent(at2, unit, team)'
    <2>1. \A u \in independent : u \subseteq Ids
        BY DEF FlowInv, Filled, Units
    <2> QED BY <1>3, <2>1 DEF Placed, Moved, InIndependent, Stand
<1>4. ASSUME from # "super", UNCHANGED supertasks PROVE InSupertasks(at2, unit, team)'
    <2>1. \A st \in supertasks : \A u \in st : u \subseteq Ids
        BY DEF FlowInv, Filled, Units
    <2> QED BY <1>4, <2>1 DEF Placed, Moved, InSupertasks, Stand
<1> QED BY <1>1, <1>2, <1>3, <1>4

\* The labels of a message are published labels.
LEMMA CarriedIds ==
    ASSUME FlowInv, NEW w \in Workers, NEW i \in DOMAIN queue[w]
    PROVE  /\ queue[w][i] \in FilledMessages /\ queue[w][i].id \in Ids
           /\ Carried(queue[w][i]) \subseteq Filled
           /\ \A u \in Carried(queue[w][i]) : u \subseteq Ids /\ u # {}
<1>1. queue[w] \in Seq(FilledMessages)
    BY DEF FlowInv
<1>2. queue[w][i] \in FilledMessages
    BY <1>1
<1>3. queue[w][i].id \in Ids /\ queue[w][i] \in Messages
    BY <1>2 DEF FilledMessages, Messages
<1>4. Carried(queue[w][i]) \subseteq Filled
    BY <1>2, <1>3 DEF FlowInv, FilledMessages, Carried
<1>5. \A u \in Filled : u \subseteq Ids /\ u # {}
    BY DEF Filled, Units
<1> QED BY <1>2, <1>3, <1>4, <1>5

\* A message whose labels do not move stays sound.
LEMMA MessageMoved ==
    ASSUME FlowInv, NEW at, NEW on, NEW unit, NEW team, Placed(at, on, unit, team),
           NEW S, NEW from, NEW to, NEW w, NEW at2, NEW on2,
           Moved(S, from, to, w, at, on, at2, on2), UNCHANGED req,
           NEW v \in Workers, NEW i \in DOMAIN queue[v], NEW m, m = queue[v][i],
           \A u \in Carried(m) : u \cap S = {},
           m.composite => pack'[m.id] = pack[m.id]
    PROVE  InMessage(m, v, at2, on2, unit, team)' /\ Carried(m)' = Carried(m)
<1>1. InMessage(m, v, at, on, unit, team)
    BY DEF Placed, InQueues
<1>2. Carried(m)' = Carried(m)
    BY DEF Carried
<1>3. ASSUME NEW u \in Carried(m)
      PROVE  Stand(u, "queued", at2, unit) /\ \A l \in u : on2[l] = v
    <2>1. u \subseteq Ids /\ u \cap S = {}
        BY CarriedIds
    <2> QED BY <1>1, <2>1 DEF InMessage, Moved, Stand
<1>4. CASE m.composite
    BY <1>1, <1>2, <1>3, <1>4 DEF InMessage, Carried
<1>5. CASE ~m.composite
    BY <1>1, <1>2, <1>3, <1>5 DEF InMessage, Carried, Lead
<1> QED BY <1>2, <1>4, <1>5

\* The queues when nothing that is queued moves.
LEMMA QueuesMoved ==
    ASSUME FlowInv, NEW at, NEW on, NEW unit, NEW team, Placed(at, on, unit, team), Apart,
           NEW S, NEW from, NEW to, NEW w, NEW at2, NEW on2,
           Moved(S, from, to, w, at, on, at2, on2), UNCHANGED <<req, queue, pack>>,
           from # "queued"
    PROVE  InQueues(at2, on2, unit, team)' /\ Apart'
<1>1. ASSUME NEW v \in Workers, NEW i \in DOMAIN queue[v]
      PROVE  InMessage(queue[v][i], v, at2, on2, unit, team)'
    <2>1. PICK m : m = queue[v][i]
        OBVIOUS
    <2>2. \A u \in Carried(m) : u \cap S = {}
        BY <2>1 DEF Placed, InQueues, InMessage, Stand, Moved
    <2>3. InMessage(m, v, at2, on2, unit, team)'
        BY <2>1, <2>2, MessageMoved
    <2>4. m = queue'[v][i]
        BY <2>1
    <2> QED BY <2>3, <2>4
<1>2. Apart'
    BY DEF Apart, Carried
<1> QED BY <1>1, <1>2 DEF InQueues

\* A message gets behind those its worker has.
LEMMA QueuesSent ==
    ASSUME FlowInv, NEW at, NEW on, NEW unit, NEW team, Placed(at, on, unit, team), Apart,
           NEW S, NEW from, NEW w \in Workers, NEW at2, NEW on2,
           Moved(S, from, "queued", w, at, on, at2, on2), UNCHANGED req, from # "queued",
           NEW n, Send(w, n), InMessage(n, w, at2, on2, unit, team)',
           \A u \in Carried(n)' : u \subseteq S,
           \A v \in Workers : \A i \in DOMAIN queue[v] :
              queue[v][i].composite => pack'[queue[v][i].id] = pack[queue[v][i].id]
    PROVE  InQueues(at2, on2, unit, team)' /\ Apart'
<1>1. ASSUME NEW v \in Workers, NEW i \in DOMAIN queue[v], NEW m, m = queue[v][i]
      PROVE  /\ InMessage(m, v, at2, on2, unit, team)'
             /\ Carried(m)' = Carried(m)
             /\ \A u \in Carried(m) : u \cap S = {}
    <2>1. \A u \in Carried(m) : u \cap S = {}
        BY <1>1 DEF Placed, InQueues, InMessage, Stand, Moved
    <2>2. m.composite => pack'[m.id] = pack[m.id]
        BY <1>1
    <2> QED BY <1>1, <2>1, <2>2, MessageMoved
<1>2. \A v \in Workers : queue[v] \in Seq(FilledMessages)
    BY DEF FlowInv
<1>3. ASSUME NEW v \in Workers, NEW j \in DOMAIN queue'[v]
      PROVE  (j \in DOMAIN queue[v] /\ queue'[v][j] = queue[v][j])
             \/ (v = w /\ j = Len(queue[w]) + 1 /\ queue'[v][j] = n)
    <2>1. CASE w \in alive
        <3>1. queue'[w] = Append(queue[w], n) /\ \A x \in Workers \ {w} : queue'[x] = queue[x]
            BY <2>1 DEF Send, FlowInv
        <3>2. queue[w] \in Seq(FilledMessages)
            BY <1>2
        <3>3. CASE v = w
            BY <3>1, <3>2, <3>3
        <3> QED BY <3>1, <3>3
    <2>2. CASE w \notin alive
        BY <2>2 DEF Send
    <2> QED BY <2>1, <2>2
<1>4. ASSUME NEW v \in Workers, NEW j \in DOMAIN queue'[v]
      PROVE  InMessage(queue[v][j], v, at2, on2, unit, team)'
    <2>1. CASE j \in DOMAIN queue[v] /\ queue'[v][j] = queue[v][j]
        <3>1. PICK m : m = queue[v][j]
            OBVIOUS
        <3>2. InMessage(m, v, at2, on2, unit, team)' /\ m = queue'[v][j]
            BY <1>1, <2>1, <3>1
        <3> QED BY <3>2
    <2>2. CASE v = w /\ queue'[v][j] = n
        BY <2>2
    <2> QED BY <1>3, <2>1, <2>2
<1>5. ASSUME NEW v \in Workers, NEW i \in DOMAIN queue'[v], NEW j \in DOMAIN queue'[v],
             i # j, NEW u \in Carried(queue[v][i])', NEW x \in Carried(queue[v][j])'
      PROVE  u \cap x = {}
    <2>1. CASE i \in DOMAIN queue[v] /\ j \in DOMAIN queue[v]
               /\ queue'[v][i] = queue[v][i] /\ queue'[v][j] = queue[v][j]
        <3>1. PICK m, k : m = queue[v][i] /\ k = queue[v][j]
            OBVIOUS
        <3>2. Carried(m)' = Carried(m) /\ Carried(k)' = Carried(k)
            BY <1>1, <2>1, <3>1
        <3>3. m = queue'[v][i] /\ k = queue'[v][j]
            BY <2>1, <3>1
        <3>4. u \in Carried(m)' /\ x \in Carried(k)'
            BY <1>5, <3>3
        <3>5. u \in Carried(m) /\ x \in Carried(k)
            BY <3>2, <3>4
        <3> QED BY <1>5, <2>1, <3>1, <3>5 DEF Apart
    <2>2. ASSUME NEW k, k = queue[v][j], j \in DOMAIN queue[v], queue'[v][j] = queue[v][j],
                 queue'[v][i] = n
          PROVE  u \cap x = {}
        <3>1. Carried(k)' = Carried(k) /\ \A y \in Carried(k) : y \cap S = {}
            BY <1>1, <2>2
        <3>2. k = queue'[v][j] /\ n = queue'[v][i]
            BY <2>2
        <3>3. x \in Carried(k)' /\ u \in Carried(n)'
            BY <1>5, <3>2
        <3> QED BY <3>1, <3>3
    <2>3. ASSUME NEW k, k = queue[v][i], i \in DOMAIN queue[v], queue'[v][i] = queue[v][i],
                 queue'[v][j] = n
          PROVE  u \cap x = {}
        <3>1. Carried(k)' = Carried(k) /\ \A y \in Carried(k) : y \cap S = {}
            BY <1>1, <2>3
        <3>2. k = queue'[v][i] /\ n = queue'[v][j]
            BY <2>3
        <3>3. u \in Carried(k)' /\ x \in Carried(n)'
            BY <1>5, <3>2
        <3> QED BY <3>1, <3>3
    <2> QED BY <1>3, <1>5, <2>1, <2>2, <2>3
<1>6. Apart'
    BY <1>5 DEF Apart
<1> QED BY <1>4, <1>6 DEF InQueues

\* The labels a handler has before it or in hand are published labels.
LEMMA HandlerIds ==
    ASSUME FlowInv, NEW w \in Workers
    PROVE  /\ exec[w] \in Handlers
           /\ exec[w].unit \subseteq Ids
           /\ \A u \in exec[w].todo : u \subseteq Ids /\ u # {}
<1>1. exec[w] \in FilledHandlers
    BY DEF FlowInv
<1> QED BY <1>1 DEF FilledHandlers, Handlers, Filled, Units

\* The handler of a worker that has none of the labels that move.
LEMMA HandlerMoved ==
    ASSUME FlowInv, NEW at, NEW on, NEW unit, NEW team, Placed(at, on, unit, team),
           NEW S, NEW from, NEW to, NEW w, NEW at2, NEW on2,
           Moved(S, from, to, w, at, on, at2, on2), UNCHANGED req,
           NEW v \in Workers, NEW h, h = exec[v],
           \/ from \notin {"todo", "exec", "ran", "done"}
           \/ v # w /\ to \in {"exec", "ran", "done"} /\ \A l \in S : on[l] = w
    PROVE  InHandler(h, v, at2, on2, unit, team)'
<1>1. InHandler(h, v, at, on, unit, team)
    BY DEF Placed, InHands
<1>2. h.unit \subseteq Ids /\ (\A u \in h.todo : u \subseteq Ids)
    BY HandlerIds
<1>3. \A u \in h.todo : Stand(u, "todo", at2, unit) /\ \A l \in u : on2[l] = v
    BY <1>1, <1>2 DEF InHandler, Moved, Stand
<1>4. Current(h) => /\ Stand(h.unit, IF h.phase = "begun" THEN "exec" ELSE "ran", at2, unit)
                    /\ \A l \in h.unit : on2[l] = v
    BY <1>1, <1>2 DEF InHandler, Moved, Stand
<1>5. h.phase # "idle" /\ h.composite => at2[h.id] \in {"todo", "exec", "ran", "done"}
    <2> SUFFICES ASSUME h.phase # "idle", h.composite
                 PROVE  at2[h.id] \in {"todo", "exec", "ran", "done"}
        OBVIOUS
    <2>1. at[h.id] \in {"todo", "exec", "ran", "done"}
        BY <1>1 DEF InHandler
    <2>2. h.id \in Ids
        BY <1>1 DEF InHandler
    <2> QED BY <2>1, <2>2 DEF Moved
<1> QED BY <1>1, <1>3, <1>4, <1>5 DEF InHandler, Lead, Current

\* All handlers, when nobody changes.
LEMMA HandsMoved ==
    ASSUME FlowInv, NEW at, NEW on, NEW unit, NEW team, Placed(at, on, unit, team),
           NEW S, NEW from, NEW to, NEW w, NEW at2, NEW on2,
           Moved(S, from, to, w, at, on, at2, on2), UNCHANGED <<req, exec>>,
           from \notin {"todo", "exec", "ran", "done"}
    PROVE  InHands(at2, on2, unit, team)'
<1>1. ASSUME NEW v \in Workers PROVE InHandler(exec[v], v, at2, on2, unit, team)'
    <2>1. PICK h : h = exec[v]
        OBVIOUS
    <2>2. InHandler(h, v, at2, on2, unit, team)' /\ h = exec'[v]
        BY <2>1, HandlerMoved
    <2> QED BY <2>2
<1> QED BY <1>1 DEF InHands

\* All handlers, when worker w takes a step with the labels S.
LEMMA HandsStep ==
    ASSUME FlowInv, NEW at, NEW on, NEW unit, NEW team, Placed(at, on, unit, team),
           NEW S, NEW from, NEW to, NEW w \in Workers, NEW at2, NEW on2,
           Moved(S, from, to, w, at, on, at2, on2), UNCHANGED req,
           \/ from \notin {"todo", "exec", "ran", "done"}
           \/ to \in {"exec", "ran", "done"} /\ \A l \in S : on[l] = w,
           \A v \in Workers \ {w} : exec'[v] = exec[v],
           NEW g, g = exec'[w], InHandler(g, w, at2, on2, unit, team)'
    PROVE  InHands(at2, on2, unit, team)'
<1>1. ASSUME NEW v \in Workers PROVE InHandler(exec[v], v, at2, on2, unit, team)'
    <2>1. CASE v = w
        BY <2>1
    <2>2. CASE v # w
        <3>1. PICK h : h = exec[v]
            OBVIOUS
        <3>2. InHandler(h, v, at2, on2, unit, team)' /\ h = exec'[v]
            BY <2>2, <3>1, HandlerMoved
        <3> QED BY <3>2
    <2> QED BY <2>1, <2>2
<1> QED BY <1>1 DEF InHands

\* What is said of single labels.
LEMMA LabelsMoved ==
    ASSUME FlowInv, NEW at, NEW on, NEW unit, NEW team, Placed(at, on, unit, team),
           NEW S, NEW from, NEW to, NEW w, NEW at2, NEW on2,
           Moved(S, from, to, w, at, on, at2, on2), UNCHANGED req,
           from \notin {"new", "buffer", "done"}, to \notin {"new", "buffer"}
    PROVE  /\ (\A l \in Ids : client'[l] = "new" <=> client[l] = "new") => Published(at2)'
           /\ Alike(at2, unit)'
           /\ UNCHANGED sent => Unanswered(at2)'
           /\ /\ UNCHANGED <<fanout, fanbox, sent>>
              /\ to \in Sent \cup {"ran", "done"}
              => InFanout(at2, unit, team)'
           /\ UNCHANGED staged /\ (\A l \in S : PayloadOf(l, to, unit[l], team[l]))
              => Payload(at2, unit, team)'
<1>1. ASSUME \A l \in Ids : client'[l] = "new" <=> client[l] = "new" PROVE Published(at2)'
    BY <1>1 DEF Placed, Published, Moved
<1>2. Alike(at2, unit)'
    <2> SUFFICES ASSUME NEW l \in Ids, at2[l] \notin {"new", "buffer"}
                 PROVE  /\ l \in unit[l]
                        /\ \A m \in unit[l] : /\ unit[m] = unit[l]
                                              /\ at2[m] \notin {"new", "buffer"}
                                              /\ req[m].type = req[l].type
                                              /\ m # l => req[m].type = "Write"
        BY DEF Alike
    <2>1. at[l] \notin {"new", "buffer"}
        BY DEF Moved
    <2>2. unit[l] \subseteq Ids
        BY DEF Placed, Ghosts, Units
    <2> QED BY <2>1, <2>2 DEF Placed, Alike, Moved
<1>3. ASSUME UNCHANGED sent PROVE Unanswered(at2)'
    BY <1>3 DEF Placed, Unanswered, Moved
<1>4. ASSUME UNCHANGED <<fanout, fanbox, sent>>, to \in Sent \cup {"ran", "done"}
      PROVE  InFanout(at2, unit, team)'
    <2>1. \A k \in Ids : fanout[k] \subseteq Ids
        BY DEF FlowInv, Units
    <2>2. ASSUME NEW k \in Ids, fanout[k] # {}, NEW l \in fanout[k]
          PROVE  /\ at2[l] \in Sent \cup {"ran", "done"}
                 /\ fanbox[k] # "none" => at2[l] = "done"
        BY <1>4, <2>1, <2>2 DEF Placed, InFanout, Moved
    <2> QED BY <1>4, <2>2 DEF Placed, InFanout, Lead
<1>5. ASSUME UNCHANGED staged, \A l \in S : PayloadOf(l, to, unit[l], team[l])
      PROVE  Payload(at2, unit, team)'
    <2>1. ASSUME NEW l \in Ids PROVE PayloadOf(l, at2[l], unit[l], team[l])
        BY <1>5 DEF Placed, Payload, Moved
    <2>2. ASSUME NEW l \in Ids PROVE PayloadOf(l, at2[l], unit[l], team[l])'
        BY <1>5, <2>1 DEF PayloadOf, Lead
    <2> QED BY <2>2 DEF Payload
<1> QED BY <1>1, <1>2, <1>3, <1>4, <1>5

-----------------------------------------------------------------------------
(* The routing phases *)

\* A unit is a set of labels and has its first label.
LEMMA UnitIds ==
    ASSUME FlowInv, NEW u \in Filled
    PROVE  u \subseteq Ids /\ u # {} /\ Lead(u) \in u /\ Lead(u) \in Ids
<1>1. u \subseteq Ids /\ u # {}
    BY DEF Filled, Units
<1> QED BY <1>1, LeadIn DEF FlowInv

\* (A) a read goes to the holder of its range.
LEMMA RouteDirectPlaces ==
    ASSUME FlowInv, Apart, Somewhere, NEW p \in direct_route, RouteDirect(p)
    PROVE  Apart' /\ Somewhere'
<1>1. PICK at, on, unit, team : Placed(at, on, unit, team)
    BY DEF Somewhere
<1>2. p[1] \in Filled /\ p[2] \in Workers /\ p = <<p[1], p[2]>>
    BY DEF FlowInv
<1>3. p[1] \subseteq Ids /\ p[1] # {}
    BY <1>2, UnitIds
<1>4. /\ Stand(p[1], "direct", at, unit)
      /\ \A l \in p[1] : on[l] = p[2] /\ team[l] = {} /\ req[l].type = "Read"
    BY <1>1 DEF Placed, InDirect
<1>5. PICK at2, on2 : /\ Ghosts(at2, on2, unit, team)
                      /\ Moved(p[1], "direct", "queued", p[2], at, on, at2, on2)
    <2>1. \A l \in p[1] : at[l] = "direct"
        BY <1>4 DEF Stand
    <2>2. "queued" \in Places
        BY DEF Places, Sent
    <2> QED BY <1>1, <1>2, <1>3, <2>1, <2>2, MoveExists DEF Placed
<1>6. PICK n : n = [id |-> Lead(p[1]), composite |-> FALSE, unit |-> p[1]]
    OBVIOUS
<1>7. /\ Send(p[2], n)
      /\ direct_route' = direct_route \ {p}
      /\ UNCHANGED <<req, client, staged, pack, batch_buffer, supertasks, independent>>
      /\ UNCHANGED <<exec, fanout, fanbox, sent>>
    BY <1>6 DEF RouteDirect, fanVars
<1>8. InMessage(n, p[2], at2, on2, unit, team)' /\ Carried(n)' = {p[1]}
    <2>1. Stand(p[1], "queued", at2, unit) /\ \A l \in p[1] : on2[l] = p[2]
        BY <1>4, <1>5 DEF Moved, Stand
    <2>2. n.unit = p[1] /\ ~n.composite /\ n.id = Lead(n.unit)
        BY <1>6
    <2>3. n.id = Lead(n.unit)'
        BY <1>7, <2>2 DEF Lead
    <2> QED BY <1>4, <2>1, <2>2, <2>3 DEF InMessage, Carried
<1>9. InQueues(at2, on2, unit, team)' /\ Apart'
    BY <1>1, <1>2, <1>5, <1>7, <1>8, QueuesSent
<1>10. InDirect(at2, on2, unit, team)'
    <2>1. ASSUME NEW q \in direct_route' PROVE q[1] \cap p[1] = {} /\ q[1] \subseteq Ids
        <3>1. q \in direct_route /\ q # p
            BY <1>7
        <3>2. q[1] \in Filled /\ q = <<q[1], q[2]>>
            BY <3>1 DEF FlowInv
        <3>3. Stand(q[1], "direct", at, unit) /\ \A l \in q[1] : on[l] = q[2]
            BY <1>1, <3>1 DEF Placed, InDirect
        <3>4. ASSUME NEW l \in q[1], l \in p[1] PROVE FALSE
            <4>1. q[1] = p[1] /\ q[2] = p[2]
                BY <1>4, <3>3, <3>4 DEF Stand
            <4> QED BY <1>2, <3>1, <3>2, <4>1
        <3> QED BY <3>2, <3>4, UnitIds
    <2> QED BY <1>1, <1>5, <1>7, <2>1 DEF Placed, InDirect, Moved, Stand
<1>11. /\ InBuffer(at2)' /\ InIndependent(at2, unit, team)' /\ InSupertasks(at2, unit, team)'
    BY <1>1, <1>5, <1>7, ListsMoved
<1>12. InHands(at2, on2, unit, team)'
    BY <1>1, <1>5, <1>7, HandsMoved
<1>13. \A l \in p[1] : PayloadOf(l, "queued", unit[l], team[l])
    BY <1>4 DEF PayloadOf
<1>14. /\ Published(at2)' /\ Alike(at2, unit)' /\ Unanswered(at2)'
       /\ InFanout(at2, unit, team)' /\ Payload(at2, unit, team)'
    BY <1>1, <1>5, <1>7, <1>13, LabelsMoved DEF Sent
<1>15. Ghosts(at2, on2, unit, team)'
    BY <1>5 DEF Ghosts
<1>16. Placed(at2, on2, unit, team)'
    BY <1>9, <1>10, <1>11, <1>12, <1>14, <1>15 DEF Placed
<1> QED BY <1>9, <1>16 DEF Somewhere

\* A composite bears the id of its first child, which is one of its labels.
LEMMA CompositeLead ==
    ASSUME FlowInv, NEW st, st \subseteq Filled, st # {}
    PROVE  /\ FirstChild(req, st) \in st
           /\ CompositeId(req, st) = Lead(FirstChild(req, st))
           /\ CompositeId(req, st) \in FirstChild(req, st)
           /\ CompositeId(req, st) \in Ids
<1>1. FirstChild(req, st) \in st
    BY FirstChildIn DEF FlowInv
<1>2. CompositeId(req, st) = Lead(FirstChild(req, st))
    BY DEF CompositeId, Lead
<1> QED BY <1>1, <1>2, UnitIds

\* The label whose id a queued composite bears is queued.
LEMMA CompositeQueued ==
    ASSUME FlowInv, NEW at, NEW on, NEW unit, NEW team, Placed(at, on, unit, team),
           NEW v \in Workers, NEW i \in DOMAIN queue[v], queue[v][i].composite
    PROVE  at[queue[v][i].id] = "queued" /\ team[queue[v][i].id] = pack[queue[v][i].id]
<1> DEFINE m == queue[v][i]
<1>1. InMessage(m, v, at, on, unit, team)
    BY DEF Placed, InQueues
<1>2. pack[m.id] \subseteq Filled
    BY CarriedIds DEF Carried
<1> HIDE DEF m
<1>3. CompositeId(req, pack[m.id]) = m.id /\ pack[m.id] # {}
    BY <1>1 DEF InMessage, m
<1>4. \E u \in pack[m.id] : m.id \in u
    BY <1>2, <1>3, CompositeLead
<1>5. \A u \in pack[m.id] : Stand(u, "queued", at, unit) /\ \A l \in u : team[l] = pack[m.id]
    BY <1>1 DEF InMessage, Carried, m
<1>6. at[m.id] = "queued" /\ team[m.id] = pack[m.id]
    BY <1>4, <1>5 DEF Stand
<1> QED BY <1>6 DEF m

\* (B) a supertask is packed and sent.
LEMMA RouteSupertaskPlaces ==
    ASSUME FlowInv, Apart, Somewhere,
           NEW st \in supertasks, NEW w \in Workers, RouteSupertask(st, w)
    PROVE  Apart' /\ Somewhere'
<1>1. PICK at, on, unit, team : Placed(at, on, unit, team)
    BY DEF Somewhere
<1>2. st \subseteq Filled /\ st # {}
    BY DEF FlowInv
<1>3. \A u \in st : u \subseteq Ids /\ u # {}
    BY <1>2, UnitIds
<1>4. \A u \in st : Stand(u, "super", at, unit) /\ \A l \in u : team[l] = st
    BY <1>1 DEF Placed, InSupertasks
<1>5. PICK S : S = UNION st
    OBVIOUS
<1>6. S \subseteq Ids /\ \A l \in S : at[l] = "super" /\ team[l] = st
    BY <1>3, <1>4, <1>5 DEF Stand
<1>7. PICK at2, on2 : /\ Ghosts(at2, on2, unit, team)
                      /\ Moved(S, "super", "queued", w, at, on, at2, on2)
    <2>1. "queued" \in Places
        BY DEF Places, Sent
    <2> QED BY <1>1, <1>6, <2>1, MoveExists DEF Placed
<1>8. PICK cid : cid = CompositeId(req, st)
    OBVIOUS
<1>9. PICK n : n = [id |-> cid, composite |-> TRUE, unit |-> {}]
    OBVIOUS
<1>10. /\ Send(w, n)
       /\ pack' = [pack EXCEPT ![cid] = st]
       /\ supertasks' = supertasks \ {st}
       /\ UNCHANGED <<req, client, staged, batch_buffer, direct_route, independent>>
       /\ UNCHANGED <<exec, fanout, fanbox, sent>>
    BY <1>8, <1>9 DEF RouteSupertask, PackChildren, fanVars
<1>11. cid \in Ids /\ cid \in S
    BY <1>2, <1>5, <1>8, CompositeLead
<1>12. pack'[cid] = st /\ \A k \in Ids \ {cid} : pack'[k] = pack[k]
    BY <1>10, <1>11 DEF FlowInv
<1>13. InMessage(n, w, at2, on2, unit, team)' /\ Carried(n)' = st
    <2>1. Carried(n)' = st
        BY <1>9, <1>12 DEF Carried
    <2>2. \A u \in st : Stand(u, "queued", at2, unit) /\ \A l \in u : on2[l] = w
        BY <1>4, <1>5, <1>7 DEF Moved, Stand
    <2>3. CompositeId(req', st) = cid
        BY <1>8, <1>10
    <2>4. n.composite /\ n.id = cid
        BY <1>9
    <2> QED BY <1>2, <1>4, <1>12, <2>1, <2>2, <2>3, <2>4 DEF InMessage
<1>14. ASSUME NEW v \in Workers, NEW i \in DOMAIN queue[v], queue[v][i].composite
       PROVE  pack'[queue[v][i].id] = pack[queue[v][i].id]
    <2>1. at[queue[v][i].id] = "queued" /\ queue[v][i].id \in Ids
        BY <1>1, <1>14, CompositeQueued, CarriedIds
    <2>2. at[cid] = "super"
        BY <1>6, <1>11
    <2> QED BY <1>12, <2>1, <2>2
<1>15. InQueues(at2, on2, unit, team)' /\ Apart'
    <2>1. \A u \in Carried(n)' : u \subseteq S
        BY <1>5, <1>13
    <2> QED BY <1>1, <1>7, <1>10, <1>13, <1>14, <2>1, QueuesSent
<1>16. InSupertasks(at2, unit, team)'
    <2>1. ASSUME NEW t \in supertasks', NEW u \in t PROVE u \cap S = {} /\ u \subseteq Ids
        <3>1. t \in supertasks /\ t # st
            BY <1>10
        <3>2. \A l \in u : team[l] = t
            BY <1>1, <3>1 DEF Placed, InSupertasks
        <3>3. u \subseteq Ids
            BY <3>1 DEF FlowInv, Filled, Units
        <3> QED BY <1>6, <3>1, <3>2, <3>3
    <2> QED BY <1>1, <1>7, <1>10, <2>1 DEF Placed, InSupertasks, Moved, Stand
<1>17. InBuffer(at2)' /\ InDirect(at2, on2, unit, team)' /\ InIndependent(at2, unit, team)'
    BY <1>1, <1>7, <1>10, ListsMoved
<1>18. InHands(at2, on2, unit, team)'
    BY <1>1, <1>7, <1>10, HandsMoved
<1>19. ASSUME NEW l \in S PROVE PayloadOf(l, "queued", unit[l], team[l])
    <2>1. PayloadOf(l, "super", unit[l], team[l])
        BY <1>1, <1>6 DEF Placed, Payload
    <2> QED BY <1>2, <1>6, <2>1 DEF PayloadOf, Waiting, Sent
<1>20. /\ Published(at2)' /\ Alike(at2, unit)' /\ Unanswered(at2)'
       /\ InFanout(at2, unit, team)' /\ Payload(at2, unit, team)'
    BY <1>1, <1>7, <1>10, <1>19, LabelsMoved DEF Sent
<1>21. Ghosts(at2, on2, unit, team)'
    BY <1>7 DEF Ghosts
<1>22. Placed(at2, on2, unit, team)'
    BY <1>15, <1>16, <1>17, <1>18, <1>20, <1>21 DEF Placed
<1> QED BY <1>15, <1>22 DEF Somewhere

\* A unit that is not merged is one label.
LEMMA SingleOrMerged ==
    ASSUME NEW u \in Filled, ~Merged(u)
    PROVE  \E l \in u : u = {l}
<1>1. IsFiniteSet(u)
    <2>1. 1 \in Int /\ MaxLabels \in Int
        BY LabelFlowAssumption
    <2>2. IsFiniteSet(Ids)
        BY <2>1, FS_Interval DEF Ids
    <2>3. u \subseteq Ids
        BY DEF Filled, Units
    <2> QED BY <2>2, <2>3, FS_Subset
<1>2. Cardinality(u) \in Nat /\ Cardinality(u) # 0
    BY <1>1, FS_CardinalityType, FS_EmptySet DEF Filled
<1>3. Cardinality(u) = 1
    BY <1>2 DEF Merged
<1> QED BY <1>1, <1>3, FS_Singleton

\* Combining the chunks of a unit keeps the payloads where they are looked for,
\* and starts the fanout thread of a merged unit.
LEMMA CombinePlaces ==
    ASSUME FlowInv, FanoutTruthful,
           NEW at, NEW on, NEW unit, NEW team, Placed(at, on, unit, team),
           NEW u \in independent, NEW to \in {"queued", "done"}, NEW w, NEW at2, NEW on2,
           Moved(u, "free", to, w, at, on, at2, on2),
           CombineUnit(u), UNCHANGED <<req, sent, fanbox>>
    PROVE  Payload(at2, unit, team)' /\ InFanout(at2, unit, team)'
<1>1. u \in Filled
    BY DEF FlowInv
<1>2. u \subseteq Ids /\ u # {} /\ Lead(u) \in u /\ Lead(u) \in Ids
    BY <1>1, UnitIds
<1>3. Stand(u, "free", at, unit) /\ \A l \in u : team[l] = {}
    BY DEF Placed, InIndependent
<1>4. \/ Merged(u) /\ staged' = Combined(u) /\ fanout' = [fanout EXCEPT ![Lead(u)] = u]
      \/ ~Merged(u) /\ UNCHANGED <<staged, fanout>>
    BY DEF CombineUnit
<1>5. \A k \in Ids \ u : staged'[k] = staged[k]
    BY <1>2, <1>4 DEF Combined, FlowInv
<1>6. ASSUME NEW l \in u, req[l].type = "Write" PROVE l \in staged'[Lead(u)]
    <2>1. l \in staged[l]
        BY <1>2, <1>3, <1>6 DEF Placed, Payload, PayloadOf, Waiting, Stand
    <2>2. CASE Merged(u)
        BY <1>2, <1>4, <2>1, <2>2 DEF Combined
    <2>3. CASE ~Merged(u)
        <3>1. l = Lead(u)
            BY <1>1, <1>2, <2>3, SingleOrMerged
        <3> QED BY <1>4, <2>1, <2>3, <3>1
    <2> QED BY <2>2, <2>3
<1>7. ASSUME NEW l \in Ids, req[l].type = "Write"
      PROVE  /\ at2[l] \in Waiting => l \in staged'[l]
             /\ at2[l] \in Sent /\ team[l] # {} => l \in staged'[l]
             /\ at2[l] \in Sent /\ team[l] = {} => l \in staged'[Lead(unit[l])]
    <2>1. CASE l \in u
        <3>1. at2[l] = to /\ unit[l] = u /\ team[l] = {}
            BY <1>3, <2>1 DEF Moved, Stand
        <3> QED BY <1>6, <1>7, <2>1, <3>1 DEF Waiting
    <2>2. CASE l \notin u
        <3>1. at2[l] = at[l]
            BY <2>2 DEF Moved
        <3>2. /\ at[l] \in Waiting => l \in staged[l]
              /\ at[l] \in Sent /\ team[l] # {} => l \in staged[l]
              /\ at[l] \in Sent /\ team[l] = {} => l \in staged[Lead(unit[l])]
            BY <1>7 DEF Placed, Payload, PayloadOf
        <3>3. staged'[l] = staged[l]
            BY <1>5, <2>2
        <3>4. ASSUME at[l] \in Sent PROVE staged'[Lead(unit[l])] = staged[Lead(unit[l])]
            <4>1. l \in unit[l] /\ \A m \in unit[l] : unit[m] = unit[l]
                BY <3>4 DEF Placed, Alike, Sent
            <4>2. unit[l] \in Filled
                BY <4>1 DEF Placed, Ghosts, Filled
            <4>3. Lead(unit[l]) \in unit[l] /\ Lead(unit[l]) \in Ids
                BY <4>2, UnitIds
            <4>4. Lead(unit[l]) \notin u
                BY <1>3, <2>2, <4>1, <4>3 DEF Stand
            <4> QED BY <1>5, <4>3, <4>4
        <3> QED BY <3>1, <3>2, <3>3, <3>4
    <2> QED BY <2>1, <2>2
<1>8. Payload(at2, unit, team)'
    BY <1>7 DEF Payload, PayloadOf, Lead
<1>9. ASSUME NEW k \in Ids, fanout'[k] # {}
      PROVE  /\ k \in fanout'[k] /\ k = Lead(fanout'[k]) /\ Merged(fanout'[k])
             /\ \A l \in fanout'[k] :
                  /\ unit[l] = fanout'[k] /\ team[l] = {} /\ sent[l] = <<>>
                  /\ at2[l] \in Sent \cup {"ran", "done"}
                  /\ fanbox[k] # "none" => at2[l] = "done"
    <2>1. CASE Merged(u) /\ k = Lead(u)
        <3>1. fanout'[k] = u
            BY <1>2, <1>4, <2>1 DEF FlowInv
        <3>2. fanout[k] = {}
            <4>1. at[k] = "free"
                BY <1>2, <1>3, <2>1 DEF Stand
            <4> QED BY <4>1 DEF Placed, InFanout, Sent
        <3>3. fanbox[k] = "none"
            BY <3>2 DEF FanoutTruthful
        <3>4. \A l \in u : sent[l] = <<>>
            BY <1>2, <1>3 DEF Placed, Unanswered, Stand
        <3>5. \A l \in u : at2[l] \in Sent \cup {"ran", "done"} /\ unit[l] = u
            BY <1>3 DEF Moved, Stand, Sent
        <3> QED BY <1>2, <1>3, <2>1, <3>1, <3>3, <3>4, <3>5
    <2>2. CASE ~(Merged(u) /\ k = Lead(u))
        <3>1. fanout'[k] = fanout[k]
            BY <1>4, <2>2 DEF FlowInv
        <3>2. fanout[k] \subseteq Ids
            BY DEF FlowInv, Units
        <3>3. ASSUME NEW l \in fanout[k] PROVE at2[l] = at[l]
            <4>1. at[l] # "free"
                BY <1>9, <3>1 DEF Placed, InFanout, Sent
            <4> QED BY <3>2, <4>1 DEF Moved
        <3> QED BY <1>9, <3>1, <3>3 DEF Placed, InFanout
    <2> QED BY <2>1, <2>2
<1>10. InFanout(at2, unit, team)'
    BY <1>9 DEF InFanout, Lead
<1> QED BY <1>8, <1>10

\* The unit u leaves the independent ones.
LEMMA LeavesIndependent ==
    ASSUME FlowInv, NEW at, NEW on, NEW unit, NEW team, Placed(at, on, unit, team),
           NEW u \in independent, NEW to, NEW w, NEW at2, NEW on2,
           Moved(u, "free", to, w, at, on, at2, on2),
           independent' = independent \ {u}
    PROVE  InIndependent(at2, unit, team)'
<1>1. ASSUME NEW v \in independent' PROVE v \cap u = {} /\ v \subseteq Ids
    <2>1. v \in independent /\ v # u
        OBVIOUS
    <2>2. \A l \in v : unit[l] = v
        BY <2>1 DEF Placed, InIndependent, Stand
    <2>3. \A l \in u : unit[l] = u
        BY DEF Placed, InIndependent, Stand
    <2>4. v \subseteq Ids
        BY <2>1 DEF FlowInv, Filled, Units
    <2> QED BY <2>1, <2>2, <2>3, <2>4
<1> QED BY <1>1 DEF Placed, InIndependent, Moved, Stand

\* (C) an independent unit is combined and sent.
LEMMA RouteIndependentPlaces ==
    ASSUME FlowInv, Apart, FanoutTruthful, Somewhere,
           NEW u \in independent, NEW w \in Workers, RouteIndependent(u, w)
    PROVE  Apart' /\ Somewhere'
<1>1. PICK at, on, unit, team : Placed(at, on, unit, team)
    BY DEF Somewhere
<1>2. u \in Filled /\ u \subseteq Ids
    BY UnitIds DEF FlowInv
<1>3. Stand(u, "free", at, unit) /\ \A l \in u : team[l] = {}
    BY <1>1 DEF Placed, InIndependent
<1>4. PICK at2, on2 : /\ Ghosts(at2, on2, unit, team)
                      /\ Moved(u, "free", "queued", w, at, on, at2, on2)
    <2>1. \A l \in u : at[l] = "free"
        BY <1>3 DEF Stand
    <2>2. "queued" \in Places
        BY DEF Places, Sent
    <2> QED BY <1>1, <1>2, <2>1, <2>2, MoveExists DEF Placed
<1>5. PICK n : n = [id |-> Lead(u), composite |-> FALSE, unit |-> u]
    OBVIOUS
<1>6. /\ Send(w, n)
      /\ CombineUnit(u)
      /\ independent' = independent \ {u}
      /\ UNCHANGED <<req, client, pack, batch_buffer, direct_route, supertasks>>
      /\ UNCHANGED <<exec, fanbox, sent>>
    BY <1>5 DEF RouteIndependent
<1>7. InMessage(n, w, at2, on2, unit, team)' /\ Carried(n)' = {u}
    <2>1. Stand(u, "queued", at2, unit) /\ \A l \in u : on2[l] = w
        BY <1>3, <1>4 DEF Moved, Stand
    <2>2. n.unit = u /\ ~n.composite /\ n.id = Lead(n.unit)
        BY <1>5
    <2>3. n.id = Lead(n.unit)'
        BY <1>6, <2>2 DEF Lead
    <2> QED BY <1>3, <2>1, <2>2, <2>3 DEF InMessage, Carried
<1>8. InQueues(at2, on2, unit, team)' /\ Apart'
    BY <1>1, <1>4, <1>6, <1>7, QueuesSent
<1>9. InIndependent(at2, unit, team)'
    BY <1>1, <1>4, <1>6, LeavesIndependent
<1>10. InBuffer(at2)' /\ InDirect(at2, on2, unit, team)' /\ InSupertasks(at2, unit, team)'
    BY <1>1, <1>4, <1>6, ListsMoved
<1>11. InHands(at2, on2, unit, team)'
    BY <1>1, <1>4, <1>6, HandsMoved
<1>12. Published(at2)' /\ Alike(at2, unit)' /\ Unanswered(at2)'
    BY <1>1, <1>4, <1>6, LabelsMoved DEF Sent
<1>13. Payload(at2, unit, team)' /\ InFanout(at2, unit, team)'
    BY <1>1, <1>4, <1>6, CombinePlaces
<1>14. Ghosts(at2, on2, unit, team)'
    BY <1>4 DEF Ghosts
<1>15. Placed(at2, on2, unit, team)'
    BY <1>8, <1>9, <1>10, <1>11, <1>12, <1>13, <1>14 DEF Placed
<1> QED BY <1>8, <1>15 DEF Somewhere

\* A supertask or a unit is given up.
LEMMA NoWorkerPlaces ==
    ASSUME FlowInv, Apart, FanoutTruthful, Somewhere, NoWorkerFor
    PROVE  Apart' /\ Somewhere'
<1>1. PICK at, on, unit, team : Placed(at, on, unit, team)
    BY DEF Somewhere
<1>2. /\ UNCHANGED <<req, client, pack, batch_buffer, direct_route, queue, exec>>
      /\ UNCHANGED <<fanbox, sent>>
    BY DEF NoWorkerFor, workerVars
<1>3. CASE /\ supertasks' \subseteq supertasks
           /\ UNCHANGED <<independent, staged, fanout>>
    <2>1. Moved({}, "nowhere", "done", 0, at, on, at, on)
        BY DEF Moved
    <2>2. Ghosts(at, on, unit, team)'
        BY <1>1 DEF Placed, Ghosts
    <2>3. InSupertasks(at, unit, team)'
        BY <1>1, <1>3 DEF Placed, InSupertasks, Stand
    <2>4. InBuffer(at)' /\ InDirect(at, on, unit, team)' /\ InIndependent(at, unit, team)'
        BY <1>1, <1>2, <1>3, <2>1, ListsMoved
    <2>5. InQueues(at, on, unit, team)' /\ Apart'
        BY <1>1, <1>2, <2>1, QueuesMoved
    <2>6. InHands(at, on, unit, team)'
        BY <1>1, <1>2, <2>1, HandsMoved
    <2>7. /\ Published(at)' /\ Alike(at, unit)' /\ Unanswered(at)'
          /\ InFanout(at, unit, team)' /\ Payload(at, unit, team)'
        BY <1>1, <1>2, <1>3, <2>1, LabelsMoved
    <2>8. Placed(at, on, unit, team)'
        BY <2>2, <2>3, <2>4, <2>5, <2>6, <2>7 DEF Placed
    <2> QED BY <2>5, <2>8 DEF Somewhere
<1>4. ASSUME NEW u \in independent, independent' = independent \ {u}, CombineUnit(u),
             UNCHANGED supertasks
      PROVE  Apart' /\ Somewhere'
    <2>1. u \in Filled /\ u \subseteq Ids
        BY UnitIds DEF FlowInv
    <2>2. \A l \in u : at[l] = "free"
        BY <1>1 DEF Placed, InIndependent, Stand
    <2>3. PICK at2, on2 : /\ Ghosts(at2, on2, unit, team)
                          /\ Moved(u, "free", "done", 0, at, on, at2, on2)
        <3>1. "done" \in Places
            BY DEF Places
        <3> QED BY <1>1, <2>1, <2>2, <3>1, MoveExists DEF Placed
    <2>4. InIndependent(at2, unit, team)'
        BY <1>1, <1>4, <2>3, LeavesIndependent
    <2>5. InBuffer(at2)' /\ InDirect(at2, on2, unit, team)' /\ InSupertasks(at2, unit, team)'
        BY <1>1, <1>2, <1>4, <2>3, ListsMoved
    <2>6. InQueues(at2, on2, unit, team)' /\ Apart'
        BY <1>1, <1>2, <2>3, QueuesMoved
    <2>7. InHands(at2, on2, unit, team)'
        BY <1>1, <1>2, <2>3, HandsMoved
    <2>8. Published(at2)' /\ Alike(at2, unit)' /\ Unanswered(at2)'
        BY <1>1, <1>2, <2>3, LabelsMoved
    <2>9. Payload(at2, unit, team)' /\ InFanout(at2, unit, team)'
        BY <1>1, <1>2, <1>4, <2>3, CombinePlaces
    <2>10. Ghosts(at2, on2, unit, team)'
        BY <2>3 DEF Ghosts
    <2>11. Placed(at2, on2, unit, team)'
        BY <2>4, <2>5, <2>6, <2>7, <2>8, <2>9, <2>10 DEF Placed
    <2> QED BY <2>6, <2>11 DEF Somewhere
<1> QED BY <1>3, <1>4 DEF NoWorkerFor

-----------------------------------------------------------------------------
(* The client and the batch *)

\* A published label enters the buffer.
LEMMA PublishPlaces ==
    ASSUME FlowInv, Apart, Somewhere, NEW k \in Ids, Publish(k)
    PROVE  Apart' /\ Somewhere'
<1>1. PICK at, on, unit, team : Placed(at, on, unit, team)
    BY DEF Somewhere
<1>2. /\ client[k] = "new" /\ client' = [client EXCEPT ![k] = "waiting"]
      /\ batch_buffer' = batch_buffer \cup {k}
      /\ staged' = [staged EXCEPT ![k] = IF req[k].type = "Write" THEN {k} ELSE {}]
      /\ UNCHANGED <<req, pack, direct_route, supertasks, independent, queue, exec>>
      /\ UNCHANGED <<fanout, fanbox, sent>>
    BY DEF Publish, workerVars, fanVars
<1>3. at[k] = "new"
    BY <1>1, <1>2 DEF Placed, Published
<1>4. PICK at2, on2 : /\ Ghosts(at2, on2, unit, team)
                      /\ Moved({k}, "new", "buffer", 0, at, on, at2, on2)
    <2>1. "buffer" \in Places
        BY DEF Places, Waiting
    <2> QED BY <1>1, <1>3, <2>1, MoveExists DEF Placed
<1>5. at2[k] = "buffer" /\ \A l \in Ids \ {k} : at2[l] = at[l]
    BY <1>4 DEF Moved
<1>6. /\ InDirect(at2, on2, unit, team)' /\ InIndependent(at2, unit, team)'
      /\ InSupertasks(at2, unit, team)'
    BY <1>1, <1>2, <1>4, ListsMoved
<1>7. InBuffer(at2)'
    BY <1>1, <1>2, <1>5 DEF Placed, FlowInv, InBuffer
<1>8. InQueues(at2, on2, unit, team)' /\ Apart'
    BY <1>1, <1>2, <1>4, QueuesMoved
<1>9. InHands(at2, on2, unit, team)'
    BY <1>1, <1>2, <1>4, HandsMoved
<1>10. Published(at2)'
    BY <1>1, <1>2, <1>5 DEF Placed, Published, FlowInv
<1>11. Alike(at2, unit)'
    <2>1. ASSUME NEW l \in Ids, at2[l] \notin {"new", "buffer"}
          PROVE  /\ l \in unit[l]
                 /\ \A m \in unit[l] : /\ unit[m] = unit[l]
                                       /\ at2[m] \notin {"new", "buffer"}
                                       /\ req[m].type = req[l].type
                                       /\ m # l => req[m].type = "Write"
        <3>1. at[l] \notin {"new", "buffer"} /\ unit[l] \subseteq Ids
            BY <1>1, <1>5, <2>1 DEF Placed, Ghosts, Units
        <3> QED BY <1>1, <1>3, <1>5, <3>1 DEF Placed, Alike
    <2> QED BY <1>2, <2>1 DEF Alike
<1>12. Unanswered(at2)'
    BY <1>1, <1>2, <1>3, <1>5 DEF Placed, Unanswered
<1>13. InFanout(at2, unit, team)'
    <2>1. \A l \in Ids : fanout[l] \subseteq Ids
        BY DEF FlowInv, Units
    <2>2. ASSUME NEW l \in Ids, fanout[l] # {}, NEW m \in fanout[l] PROVE at2[m] = at[m]
        BY <1>1, <1>3, <1>5, <2>1, <2>2 DEF Placed, InFanout, Sent
    <2> QED BY <1>1, <1>2, <2>2 DEF Placed, InFanout, Lead
<1>14. Payload(at2, unit, team)'
    <2>1. \A l \in Ids \ {k} : staged'[l] = staged[l]
        BY <1>2 DEF FlowInv
    <2>2. ASSUME NEW l \in Ids, req[l].type = "Write"
          PROVE  /\ at2[l] \in Waiting => l \in staged'[l]
                 /\ at2[l] \in Sent /\ team[l] # {} => l \in staged'[l]
                 /\ at2[l] \in Sent /\ team[l] = {} => l \in staged'[Lead(unit[l])]
        <3>1. CASE l = k
            BY <1>2, <1>5, <2>2, <3>1 DEF FlowInv, Sent
        <3>2. CASE l # k
            <4>1. at2[l] = at[l] /\ PayloadOf(l, at[l], unit[l], team[l])
                BY <1>1, <1>5, <3>2 DEF Placed, Payload
            <4>2. ASSUME at[l] \in Sent PROVE staged'[Lead(unit[l])] = staged[Lead(unit[l])]
                <5>1. l \in unit[l] /\ \A m \in unit[l] : at[m] # "new"
                    BY <1>1, <4>2 DEF Placed, Alike, Sent
                <5>2. unit[l] \in Filled
                    BY <1>1, <5>1 DEF Placed, Ghosts, Filled
                <5> QED BY <1>3, <2>1, <5>1, <5>2, UnitIds
            <4> QED BY <2>1, <2>2, <3>2, <4>1, <4>2 DEF PayloadOf
        <3> QED BY <3>1, <3>2
    <2> QED BY <1>2, <2>2 DEF Payload, PayloadOf, Lead
<1>15. Ghosts(at2, on2, unit, team)'
    BY <1>4 DEF Ghosts
<1>16. Placed(at2, on2, unit, team)'
    BY <1>6, <1>7, <1>8, <1>9, <1>10, <1>11, <1>12, <1>13, <1>14, <1>15 DEF Placed
<1> QED BY <1>8, <1>16 DEF Somewhere

\* A received read is taken out of the warehouse; no write is.
LEMMA ReceivePlaces ==
    ASSUME FlowInv, Apart, Somewhere, NEW k \in Ids, Receive(k)
    PROVE  Apart' /\ Somewhere'
<1>1. PICK at, on, unit, team : Placed(at, on, unit, team)
    BY DEF Somewhere
<1>2. /\ client[k] = "waiting" /\ client' = [client EXCEPT ![k] = Head(sent[k])]
      /\ UNCHANGED <<req, pack, batch_buffer, direct_route, supertasks, independent>>
      /\ UNCHANGED <<queue, exec, fanout, fanbox, sent>>
    BY DEF Receive, batchVars, workerVars, fanVars
<1>3. \A l \in Ids : client'[l] = "new" <=> client[l] = "new"
    <2>1. Head(sent[k]) \in Outcomes
        BY DEF FlowInv, Receive
    <2> QED BY <1>2, <2>1 DEF FlowInv, Outcomes
<1>4. \A l \in Ids : req[l].type = "Write" => staged'[l] = staged[l]
    BY DEF Receive, FlowInv
<1>5. Moved({}, "nowhere", "done", 0, at, on, at, on)
    BY DEF Moved
<1>6. /\ InBuffer(at)' /\ InDirect(at, on, unit, team)' /\ InIndependent(at, unit, team)'
      /\ InSupertasks(at, unit, team)'
    BY <1>1, <1>2, <1>5, ListsMoved
<1>7. InQueues(at, on, unit, team)' /\ Apart'
    BY <1>1, <1>2, <1>5, QueuesMoved
<1>8. InHands(at, on, unit, team)'
    BY <1>1, <1>2, <1>5, HandsMoved
<1>9. /\ Published(at)' /\ Alike(at, unit)' /\ Unanswered(at)' /\ InFanout(at, unit, team)'
    BY <1>1, <1>2, <1>3, <1>5, LabelsMoved
<1>10. Payload(at, unit, team)'
    <2>1. ASSUME NEW l \in Ids, req[l].type = "Write", at[l] \in Sent
          PROVE  staged'[Lead(unit[l])] = staged[Lead(unit[l])]
        <3>1. l \in unit[l] /\ \A m \in unit[l] : req[m].type = req[l].type
            BY <1>1, <2>1 DEF Placed, Alike, Sent
        <3>2. unit[l] \in Filled
            BY <1>1, <3>1 DEF Placed, Ghosts, Filled
        <3> QED BY <1>4, <2>1, <3>1, <3>2, UnitIds
    <2> QED BY <1>1, <1>2, <1>4, <2>1 DEF Placed, Payload, PayloadOf, Lead
<1>11. Ghosts(at, on, unit, team)'
    BY <1>1 DEF Placed, Ghosts
<1>12. Placed(at, on, unit, team)'
    BY <1>6, <1>7, <1>8, <1>9, <1>10, <1>11 DEF Placed
<1> QED BY <1>7, <1>12 DEF Somewhere

\* The labels of a batch get new places; all others stay where they are.
Taken(at, on, unit, team, at2, on2, unit2, team2) ==
    /\ \A l \in Ids \ batch_buffer :
         at2[l] = at[l] /\ on2[l] = on[l] /\ unit2[l] = unit[l] /\ team2[l] = team[l]
    /\ \A l \in batch_buffer :
         /\ at2[l] \in (IF l \in Observes(batch_buffer) THEN {"done"} ELSE Waiting)
         /\ at2[l] # "buffer" =>
              /\ l \in unit2[l]
              /\ \A m \in unit2[l] : /\ unit2[m] = unit2[l] /\ at2[m] \notin {"new", "buffer"}
                                     /\ req[m].type = req[l].type
                                     /\ m # l => req[m].type = "Write"

\* What does not depend on the routing lists when a batch is taken.
LEMMA BatchTaken ==
    ASSUME FlowInv, Apart, NEW at, NEW on, NEW unit, NEW team, Placed(at, on, unit, team),
           NEW at2, NEW on2, NEW unit2, NEW team2, Ghosts(at2, on2, unit2, team2),
           Taken(at, on, unit, team, at2, on2, unit2, team2),
           NEW outcome \in Outcomes, AnswerObserve(Observes(batch_buffer), outcome),
           batch_buffer' = {},
           UNCHANGED <<req, client, staged, pack, queue, exec, fanout, fanbox>>
    PROVE  /\ Ghosts(at2, on2, unit2, team2)' /\ Published(at2)' /\ InBuffer(at2)'
           /\ InQueues(at2, on2, unit2, team2)' /\ Apart'
           /\ InHands(at2, on2, unit2, team2)'
           /\ Alike(at2, unit2)' /\ Payload(at2, unit2, team2)'
           /\ Unanswered(at2)' /\ InFanout(at2, unit2, team2)'
<1>1. \A l \in batch_buffer : l \in Ids /\ at[l] = "buffer"
    BY DEF Placed, InBuffer, FlowInv
<1>2. ASSUME NEW l \in Ids, at[l] # "buffer"
      PROVE  at2[l] = at[l] /\ on2[l] = on[l] /\ unit2[l] = unit[l] /\ team2[l] = team[l]
    BY <1>1, <1>2 DEF Taken
<1>3. Ghosts(at2, on2, unit2, team2)'
    BY DEF Ghosts
<1>4. Published(at2)'
    <2>1. ASSUME NEW l \in Ids PROVE client[l] = "new" <=> at2[l] = "new"
        <3>1. CASE l \in batch_buffer
            BY <1>1, <3>1 DEF Placed, Published, Taken, Waiting
        <3>2. CASE l \notin batch_buffer
            BY <3>2 DEF Placed, Published, Taken
        <3> QED BY <3>1, <3>2
    <2> QED BY <2>1 DEF Published
<1>5. InBuffer(at2)'
    BY DEF InBuffer
<1>6. ASSUME NEW v \in Workers, NEW i \in DOMAIN queue[v]
      PROVE  InMessage(queue[v][i], v, at2, on2, unit2, team2)'
    <2>1. PICK m : m = queue[v][i]
        OBVIOUS
    <2>2. InMessage(m, v, at, on, unit, team)
        BY <2>1 DEF Placed, InQueues
    <2>3. Carried(m)' = Carried(m)
        BY DEF Carried
    <2>4. ASSUME NEW u \in Carried(m)
          PROVE  /\ u \subseteq Ids
                 /\ Stand(u, "queued", at2, unit2) /\ \A l \in u : on2[l] = v
                 /\ \A l \in u : team2[l] = team[l]
        <3>1. u \subseteq Ids
            BY <2>1, CarriedIds
        <3> QED BY <1>2, <2>2, <3>1 DEF InMessage, Stand
    <2>5. InMessage(m, v, at2, on2, unit2, team2)'
        <3>1. CASE m.composite
            BY <2>2, <2>3, <2>4, <3>1 DEF InMessage, Carried
        <3>2. CASE ~m.composite
            BY <2>2, <2>3, <2>4, <3>2 DEF InMessage, Carried, Lead
        <3> QED BY <3>1, <3>2
    <2>6. m = queue'[v][i]
        BY <2>1
    <2> QED BY <2>5, <2>6
<1>7. InQueues(at2, on2, unit2, team2)' /\ Apart'
    BY <1>6 DEF InQueues, Apart, Carried
<1>8. ASSUME NEW v \in Workers PROVE InHandler(exec[v], v, at2, on2, unit2, team2)'
    <2>1. PICK h : h = exec[v]
        OBVIOUS
    <2>2. InHandler(h, v, at, on, unit, team)
        BY <2>1 DEF Placed, InHands
    <2>3. h.unit \subseteq Ids /\ (\A u \in h.todo : u \subseteq Ids)
        BY <2>1, HandlerIds
    <2>4. \A u \in h.todo : Stand(u, "todo", at2, unit2) /\ \A l \in u : on2[l] = v /\ team2[l] # {}
        BY <1>2, <2>2, <2>3 DEF InHandler, Stand
    <2>5. Current(h) =>
            /\ Stand(h.unit, IF h.phase = "begun" THEN "exec" ELSE "ran", at2, unit2)
            /\ \A l \in h.unit : on2[l] = v /\ (team2[l] # {} <=> h.composite)
        BY <1>2, <2>2, <2>3 DEF InHandler, Stand
    <2>6. h.phase # "idle" /\ h.composite =>
            h.id \in Ids /\ at2[h.id] \in {"todo", "exec", "ran", "done"}
        BY <1>2, <2>2 DEF InHandler
    <2>7. InHandler(h, v, at2, on2, unit2, team2)'
        BY <2>2, <2>4, <2>5, <2>6 DEF InHandler, Lead, Current
    <2>8. h = exec'[v]
        BY <2>1
    <2> QED BY <2>7, <2>8
<1>9. InHands(at2, on2, unit2, team2)'
    BY <1>8 DEF InHands
<1>10. Alike(at2, unit2)'
    <2>1. ASSUME NEW l \in Ids, at2[l] \notin {"new", "buffer"}
          PROVE  /\ l \in unit2[l]
                 /\ \A m \in unit2[l] : /\ unit2[m] = unit2[l]
                                        /\ at2[m] \notin {"new", "buffer"}
                                        /\ req[m].type = req[l].type
                                        /\ m # l => req[m].type = "Write"
        <3>1. CASE l \in batch_buffer
            BY <2>1, <3>1 DEF Taken
        <3>2. CASE l \notin batch_buffer
            <4>1. at[l] = at2[l] /\ unit2[l] = unit[l] /\ unit[l] \subseteq Ids
                BY <3>2 DEF Taken, Placed, Ghosts, Units
            <4>2. \A m \in unit[l] : at[m] \notin {"new", "buffer"}
                BY <2>1, <4>1 DEF Placed, Alike
            <4> QED BY <1>2, <2>1, <4>1, <4>2 DEF Placed, Alike
        <3> QED BY <3>1, <3>2
    <2> QED BY <2>1 DEF Alike
<1>11. Payload(at2, unit2, team2)'
    <2>1. ASSUME NEW l \in Ids PROVE PayloadOf(l, at2[l], unit2[l], team2[l])
        <3>1. CASE l \in batch_buffer
            <4>1. req[l].type = "Write" => l \in staged[l]
                BY <1>1, <3>1 DEF Placed, Payload, PayloadOf, Waiting
            <4>2. at2[l] \notin Sent
                BY <3>1 DEF Taken, Waiting, Sent
            <4> QED BY <4>1, <4>2 DEF PayloadOf
        <3>2. CASE l \notin batch_buffer
            BY <3>2 DEF Taken, Placed, Payload
        <3> QED BY <3>1, <3>2
    <2>2. ASSUME NEW l \in Ids PROVE PayloadOf(l, at2[l], unit2[l], team2[l])'
        BY <2>1 DEF PayloadOf, Lead
    <2> QED BY <2>2 DEF Payload
<1>12. Unanswered(at2)'
    <2>1. ASSUME NEW l \in Ids, at2[l] # "done" PROVE sent'[l] = <<>>
        <3>1. l \notin Observes(batch_buffer)
            BY <2>1 DEF Taken, Observes
        <3>2. sent'[l] = sent[l]
            BY <3>1 DEF AnswerObserve
        <3>3. at[l] # "done"
            BY <1>1, <2>1 DEF Taken
        <3> QED BY <3>2, <3>3 DEF Placed, Unanswered
    <2> QED BY <2>1 DEF Unanswered
<1>13. InFanout(at2, unit2, team2)'
    <2>1. ASSUME NEW k \in Ids, fanout[k] # {}, NEW l \in fanout[k]
          PROVE  /\ unit2[l] = fanout[k] /\ team2[l] = {} /\ sent'[l] = <<>>
                 /\ at2[l] \in Sent \cup {"ran", "done"}
                 /\ fanbox[k] # "none" => at2[l] = "done"
        <3>1. l \in Ids
            BY DEF FlowInv, Units
        <3>2. at[l] # "buffer"
            BY <2>1 DEF Placed, InFanout, Sent
        <3>3. l \notin Observes(batch_buffer)
            BY <1>1, <3>2 DEF Observes
        <3>4. sent'[l] = sent[l]
            BY <3>1, <3>3 DEF AnswerObserve
        <3> QED BY <1>2, <2>1, <3>1, <3>2, <3>4 DEF Placed, InFanout
    <2> QED BY <2>1 DEF Placed, InFanout, Lead
<1> QED BY <1>3, <1>4, <1>5, <1>7, <1>9, <1>10, <1>11, <1>12, <1>13

\* A batch without work or without workers is dropped.
LEMMA DropBatchPlaces ==
    ASSUME FlowInv, Apart, Somewhere, DropBatch
    PROVE  Apart' /\ Somewhere'
<1>1. PICK at, on, unit, team : Placed(at, on, unit, team)
    BY DEF Somewhere
<1>2. PICK outcome \in Outcomes : AnswerObserve(Observes(batch_buffer), outcome)
    BY DEF DropBatch, Outcomes
<1>3. /\ batch_buffer' = {}
      /\ UNCHANGED <<req, client, staged, pack, queue, exec, fanout, fanbox>>
      /\ UNCHANGED <<direct_route, independent, supertasks>>
    BY DEF DropBatch, workerVars, fanVars
<1>4. PICK at2 : at2 = [l \in Ids |-> IF l \in Observes(batch_buffer) THEN "done" ELSE at[l]]
    OBVIOUS
<1>5. PICK unit2 : unit2 = [l \in Ids |-> IF l \in Observes(batch_buffer) THEN {l} ELSE unit[l]]
    OBVIOUS
<1>6. Ghosts(at2, on, unit2, team)
    BY <1>1, <1>4, <1>5 DEF Placed, Ghosts, Places, Units
<1>7. Taken(at, on, unit, team, at2, on, unit2, team)
    <2>1. \A l \in batch_buffer : at[l] = "buffer" /\ l \in Ids
        BY <1>1 DEF Placed, InBuffer, FlowInv
    <2>2. \A l \in Ids \ batch_buffer : at2[l] = at[l] /\ unit2[l] = unit[l]
        BY <1>4, <1>5 DEF Observes
    <2>3. ASSUME NEW l \in batch_buffer
          PROVE  /\ at2[l] \in (IF l \in Observes(batch_buffer) THEN {"done"} ELSE Waiting)
                 /\ at2[l] # "buffer" => unit2[l] = {l}
        BY <1>4, <1>5, <2>1 DEF Waiting
    <2>4. ASSUME NEW l \in batch_buffer, at2[l] # "buffer"
          PROVE  at2[l] \notin {"new", "buffer"}
        BY <1>4, <2>1, <2>4
    <2> QED BY <2>2, <2>3, <2>4 DEF Taken
<1>8. /\ Ghosts(at2, on, unit2, team)' /\ Published(at2)' /\ InBuffer(at2)'
      /\ InQueues(at2, on, unit2, team)' /\ Apart' /\ InHands(at2, on, unit2, team)'
      /\ Alike(at2, unit2)' /\ Payload(at2, unit2, team)'
      /\ Unanswered(at2)' /\ InFanout(at2, unit2, team)'
    BY <1>1, <1>2, <1>3, <1>6, <1>7, BatchTaken
<1>9. ASSUME NEW l \in Ids, at[l] # "buffer" PROVE at2[l] = at[l] /\ unit2[l] = unit[l]
    BY <1>1, <1>4, <1>5, <1>9 DEF Placed, InBuffer, Observes
<1>10. InDirect(at2, on, unit2, team)'
    <2>1. \A p \in direct_route : p[1] \subseteq Ids
        BY DEF FlowInv, Filled, Units
    <2> QED BY <1>1, <1>3, <1>9, <2>1 DEF Placed, InDirect, Stand
<1>11. InIndependent(at2, unit2, team)'
    <2>1. \A u \in independent : u \subseteq Ids
        BY DEF FlowInv, Filled, Units
    <2> QED BY <1>1, <1>3, <1>9, <2>1 DEF Placed, InIndependent, Stand
<1>12. InSupertasks(at2, unit2, team)'
    <2>1. \A st \in supertasks : \A u \in st : u \subseteq Ids
        BY DEF FlowInv, Filled, Units
    <2> QED BY <1>1, <1>3, <1>9, <2>1 DEF Placed, InSupertasks, Stand
<1>13. Placed(at2, on, unit2, team)'
    BY <1>8, <1>10, <1>11, <1>12 DEF Placed
<1> QED BY <1>8, <1>13 DEF Somewhere

\* A batch is shuffled: its labels go to the routing lists with their units.
LEMMA CollectBatchPlaces ==
    ASSUME FlowInv, Apart, Somewhere, CollectBatch
    PROVE  Apart' /\ Somewhere'
<1>1. PICK at, on, unit, team : Placed(at, on, unit, team)
    BY DEF Somewhere
<1>2. PICK outcome \in Outcomes : AnswerObserve(Observes(batch_buffer), outcome)
    BY DEF CollectBatch, Outcomes
<1>3. PICK rest, units, supers : /\ rest = batch_buffer \ Observes(batch_buffer)
                                 /\ units = Aggregate(req, rest)
                                 /\ supers = BuildSupertasks(req, units)
    OBVIOUS
<1>4. PICK held : held = {u \in units \ UNION supers : UnitType(req, u) = "Read" /\ HasLocation(u)}
    OBVIOUS
<1>5. /\ batch_buffer' = {}
      /\ supertasks' = supers
      /\ direct_route' = {<<u, GetLocation(u)>> : u \in held}
      /\ independent' = (units \ UNION supers) \ held
      /\ UNCHANGED <<req, client, staged, pack, queue, exec, fanout, fanbox>>
    BY <1>3, <1>4 DEF CollectBatch, FreeUnits, workerVars, fanVars
<1>6. rest \subseteq Ids /\ rest \subseteq batch_buffer
    BY <1>3 DEF FlowInv
<1>7. /\ units \subseteq Filled
      /\ \A u \in units : /\ u \subseteq rest
                          /\ \A l, m \in u : l # m => req[l].type = "Write" /\ req[m].type = "Write"
      /\ \A u, v \in units : u \cap v # {} => u = v
    <2>1. req \in [Ids -> Requests]
        BY DEF FlowInv
    <2>2. units \subseteq Filled
        BY <1>3, <1>6, <2>1, AggregateFilled
    <2>3. /\ \A u \in Aggregate(req, rest) :
               /\ u \subseteq rest
               /\ \A l, m \in u : l # m => req[l].type = "Write" /\ req[m].type = "Write"
          /\ \A u, v \in Aggregate(req, rest) : u \cap v # {} => u = v
        BY <1>6, <2>1, AggregateApart
    <2> QED BY <1>3, <2>2, <2>3
<1>8. \A s, t \in supers : s \subseteq units /\ (s \cap t # {} => s = t)
    BY <1>3, SupertasksDisjoint
<1>9. PICK unit2 :
        unit2 = [l \in Ids |-> IF l \in rest /\ \E u \in units : l \in u
                               THEN CHOOSE u \in units : l \in u
                               ELSE IF l \in Observes(batch_buffer) THEN {l} ELSE unit[l]]
    OBVIOUS
<1>10. ASSUME NEW u \in units, NEW l \in u PROVE unit2[l] = u /\ l \in rest /\ l \in Ids
    <2>1. l \in rest /\ l \in Ids
        BY <1>6, <1>7
    <2>2. (CHOOSE v \in units : l \in v) = u
        BY <1>7
    <2> QED BY <1>9, <2>1, <2>2
<1>11. PICK team2 :
         team2 = [l \in Ids |-> IF l \in rest
                                THEN IF \E s \in supers : \E u \in s : l \in u
                                     THEN CHOOSE s \in supers : \E u \in s : l \in u
                                     ELSE {}
                                ELSE team[l]]
    OBVIOUS
<1>12. ASSUME NEW s \in supers, NEW u \in s, NEW l \in u PROVE team2[l] = s
    <2>1. u \in units /\ l \in rest /\ l \in Ids
        BY <1>8, <1>10
    <2>2. \A t \in supers : \A v \in t : l \in v => t = s
        BY <1>7, <1>8, <2>1
    <2>3. (CHOOSE t \in supers : \E v \in t : l \in v) = s
        BY <2>2
    <2> QED BY <1>11, <2>1, <2>3
<1>13. ASSUME NEW u \in units \ UNION supers, NEW l \in u
       PROVE  team2[l] = {} /\ ~\E s \in supers : \E v \in s : l \in v
    <2>1. l \in rest /\ l \in Ids
        BY <1>10
    <2>2. ~\E s \in supers : \E v \in s : l \in v
        BY <1>7, <1>8
    <2> QED BY <1>11, <2>1, <2>2
<1>14. PICK on2 :
         on2 = [l \in Ids |-> IF l \in rest /\ unit2[l] \in held THEN GetLocation(unit2[l]) ELSE on[l]]
    OBVIOUS
<1>15. PICK at2 :
         at2 = [l \in Ids |-> IF l \in Observes(batch_buffer) THEN "done"
                              ELSE IF l \in rest /\ \E u \in units : l \in u
                              THEN IF unit2[l] \in held THEN "direct"
                                   ELSE IF unit2[l] \in UNION supers THEN "super" ELSE "free"
                              ELSE at[l]]
    OBVIOUS
<1>16. ASSUME NEW u \in units, NEW l \in u
       PROVE  at2[l] = IF u \in held THEN "direct" ELSE IF u \in UNION supers THEN "super" ELSE "free"
    <2>1. unit2[l] = u /\ l \in rest /\ l \in Ids
        BY <1>10
    <2>2. l \notin Observes(batch_buffer)
        BY <1>3, <2>1
    <2> QED BY <1>15, <2>1, <2>2
<1>17. Ghosts(at2, on2, unit2, team2)
    <2>1. at2 \in [Ids -> Places]
        BY <1>1, <1>15 DEF Placed, Ghosts, Places, Waiting
    <2>2. \A u \in held : GetLocation(u) \in Workers \cup {0}
        BY <1>4, <1>7, LocationTyped DEF FlowInv
    <2>3. on2 \in [Ids -> Workers \cup {0}]
        BY <1>1, <1>14, <2>2 DEF Placed, Ghosts
    <2>4. unit2 \in [Ids -> Units]
        BY <1>1, <1>7, <1>9 DEF Placed, Ghosts, Units, Filled
    <2>5. \A s \in supers : s \in SUBSET Units
        BY <1>7, <1>8 DEF Filled
    <2>6. team2 \in [Ids -> SUBSET Units]
        BY <1>1, <1>11, <2>5 DEF Placed, Ghosts
    <2> QED BY <2>1, <2>3, <2>4, <2>6 DEF Ghosts
<1>18. Taken(at, on, unit, team, at2, on2, unit2, team2)
    <2>1. \A l \in batch_buffer : at[l] = "buffer" /\ l \in Ids
        BY <1>1 DEF Placed, InBuffer, FlowInv
    <2>2. ASSUME NEW l \in Ids \ batch_buffer
          PROVE  at2[l] = at[l] /\ on2[l] = on[l] /\ unit2[l] = unit[l] /\ team2[l] = team[l]
        <3>1. l \notin rest /\ l \notin Observes(batch_buffer)
            BY <1>6 DEF Observes
        <3> QED BY <1>9, <1>11, <1>14, <1>15, <3>1
    <2>3. ASSUME NEW l \in batch_buffer
          PROVE  /\ at2[l] \in (IF l \in Observes(batch_buffer) THEN {"done"} ELSE Waiting)
                 /\ at2[l] # "buffer" =>
                      /\ l \in unit2[l]
                      /\ \A m \in unit2[l] : /\ unit2[m] = unit2[l] /\ at2[m] \notin {"new", "buffer"}
                                             /\ req[m].type = req[l].type
                                             /\ m # l => req[m].type = "Write"
        <3>1. CASE l \in Observes(batch_buffer)
            <4>1. l \notin rest
                BY <1>3, <3>1
            <4>2. at2[l] = "done" /\ unit2[l] = {l}
                BY <1>9, <1>15, <2>1, <3>1, <4>1
            <4> QED BY <3>1, <4>2
        <3>2. CASE l \in rest /\ \E u \in units : l \in u
            <4>1. PICK u \in units : l \in u
                BY <3>2
            <4>2. unit2[l] = u /\ \A m \in u : unit2[m] = u /\ at2[m] = at2[l]
                BY <1>10, <1>16, <4>1
            <4>3. at2[l] \in {"direct", "super", "free"}
                BY <1>16, <4>1
            <4>4. \A m \in u : req[m].type = req[l].type /\ (m # l => req[m].type = "Write")
                BY <1>7, <4>1
            <4>5. l \notin Observes(batch_buffer)
                BY <1>3, <3>2
            <4> QED BY <4>1, <4>2, <4>3, <4>4, <4>5 DEF Waiting
        <3>3. CASE l \in rest /\ ~\E u \in units : l \in u
            <4>1. l \notin Observes(batch_buffer)
                BY <1>3, <3>3
            <4>2. at2[l] = "buffer"
                BY <1>15, <2>1, <3>3, <4>1
            <4> QED BY <4>1, <4>2 DEF Waiting
        <3> QED BY <1>3, <3>1, <3>2, <3>3
    <2> QED BY <2>2, <2>3 DEF Taken
<1>19. /\ Ghosts(at2, on2, unit2, team2)' /\ Published(at2)' /\ InBuffer(at2)'
       /\ InQueues(at2, on2, unit2, team2)' /\ Apart' /\ InHands(at2, on2, unit2, team2)'
       /\ Alike(at2, unit2)' /\ Payload(at2, unit2, team2)'
       /\ Unanswered(at2)' /\ InFanout(at2, unit2, team2)'
    BY <1>1, <1>2, <1>5, <1>17, <1>18, BatchTaken
<1>20. InDirect(at2, on2, unit2, team2)'
    <2>1. ASSUME NEW u \in held, NEW l \in u
          PROVE  /\ at2[l] = "direct" /\ unit2[l] = u /\ on2[l] = GetLocation(u)
                 /\ team2[l] = {} /\ req[l].type = "Read"
        <3>1. u \in units \ UNION supers /\ UnitType(req, u) = "Read"
            BY <1>4
        <3>2. unit2[l] = u /\ l \in rest /\ l \in Ids
            BY <1>10, <3>1
        <3>3. Lead(u) \in u /\ req[Lead(u)].type = "Read"
            BY <1>7, <3>1, UnitIds DEF UnitType, Lead
        <3>4. req[l].type = "Read"
            BY <1>7, <3>1, <3>3
        <3> QED BY <1>13, <1>14, <1>16, <3>1, <3>2, <3>4
    <2>2. ASSUME NEW p \in direct_route'
          PROVE  /\ Stand(p[1], "direct", at2, unit2)
                 /\ \A l \in p[1] : on2[l] = p[2] /\ team2[l] = {} /\ req[l].type = "Read"
        <3>1. PICK u \in held : p = <<u, GetLocation(u)>>
            BY <1>5
        <3> QED BY <2>1, <3>1 DEF Stand
    <2> QED BY <1>5, <2>2 DEF InDirect
<1>21. InIndependent(at2, unit2, team2)'
    <2>1. ASSUME NEW u \in independent'
          PROVE  Stand(u, "free", at2, unit2) /\ \A l \in u : team2[l] = {}
        <3>1. u \in units \ UNION supers /\ u \notin held
            BY <1>5
        <3> QED BY <1>10, <1>13, <1>16, <3>1 DEF Stand
    <2> QED BY <2>1 DEF InIndependent
<1>22. InSupertasks(at2, unit2, team2)'
    <2>1. ASSUME NEW s \in supers, NEW u \in s
          PROVE  Stand(u, "super", at2, unit2) /\ \A l \in u : team2[l] = s
        <3>1. u \in units /\ u \in UNION supers /\ u \notin held
            BY <1>4, <1>8
        <3> QED BY <1>10, <1>12, <1>16, <3>1 DEF Stand
    <2> QED BY <1>5, <2>1 DEF InSupertasks
<1>23. Placed(at2, on2, unit2, team2)'
    BY <1>19, <1>20, <1>21, <1>22 DEF Placed
<1> QED BY <1>19, <1>23 DEF Somewhere

-----------------------------------------------------------------------------
(* The fanout threads *)

\* The labels a fanout thread forwards an answer to.
LEMMA ForwardedDone ==
    ASSUME FlowInv, FanoutTruthful,
           NEW at, NEW on, NEW unit, NEW team, Placed(at, on, unit, team),
           NEW k \in Ids, fanbox[k] # "none"
    PROVE  /\ fanout[k] \subseteq Ids /\ fanout[k] # {}
           /\ \A l \in fanout[k] : at[l] = "done" /\ sent[l] = <<>> /\ unit[l] = fanout[k]
<1>1. fanout[k] \subseteq Ids
    BY DEF FlowInv, Units
<1>2. fanout[k] # {}
    BY DEF FanoutTruthful
<1> QED BY <1>1, <1>2 DEF Placed, InFanout

\* The completion is forwarded, and nobody else waits for it.
LEMMA FanOutPlaces ==
    ASSUME FlowInv, Apart, FanoutTruthful, Somewhere, NEW k \in Ids, FanOut(k)
    PROVE  Apart' /\ Somewhere'
<1>1. PICK at, on, unit, team : Placed(at, on, unit, team)
    BY DEF Somewhere
<1>2. /\ fanout' = [fanout EXCEPT ![k] = {}]
      /\ fanbox' = [fanbox EXCEPT ![k] = "none"]
      /\ fanbox[k] # "none"
      /\ UNCHANGED <<req, client, staged, pack, queue, exec, batch_buffer>>
      /\ UNCHANGED <<direct_route, supertasks, independent>>
    BY DEF FanOut, batchVars, workerVars
<1>3. /\ fanout[k] \subseteq Ids
      /\ \A l \in fanout[k] : at[l] = "done" /\ unit[l] = fanout[k]
    BY <1>1, <1>2, ForwardedDone
<1>4. \A l \in Ids \ fanout[k] : sent'[l] = sent[l]
    BY DEF FanOut
<1>5. Moved({}, "nowhere", "done", 0, at, on, at, on)
    BY DEF Moved
<1>6. /\ InBuffer(at)' /\ InDirect(at, on, unit, team)' /\ InIndependent(at, unit, team)'
      /\ InSupertasks(at, unit, team)'
    BY <1>1, <1>2, <1>5, ListsMoved
<1>7. InQueues(at, on, unit, team)' /\ Apart'
    BY <1>1, <1>2, <1>5, QueuesMoved
<1>8. InHands(at, on, unit, team)'
    BY <1>1, <1>2, <1>5, HandsMoved
<1>9. Published(at)' /\ Alike(at, unit)' /\ Payload(at, unit, team)'
    BY <1>1, <1>2, <1>5, LabelsMoved
<1>10. Unanswered(at)'
    BY <1>1, <1>3, <1>4 DEF Placed, Unanswered
<1>11. ASSUME NEW n \in Ids, fanout'[n] # {}
       PROVE  /\ fanout'[n] = fanout[n] /\ fanbox'[n] = fanbox[n]
              /\ \A l \in fanout[n] : sent'[l] = sent[l]
    <2>1. n # k /\ fanout'[n] = fanout[n] /\ fanbox'[n] = fanbox[n]
        BY <1>2, <1>11 DEF FlowInv
    <2>2. ASSUME NEW l \in fanout[n] PROVE sent'[l] = sent[l]
        <3>1. unit[l] = fanout[n] /\ n = Lead(fanout[n]) /\ l \in Ids
            BY <1>1 DEF Placed, InFanout, FlowInv, Units
        <3>2. k = Lead(fanout[k])
            BY <1>1, <1>2 DEF Placed, InFanout, FanoutTruthful
        <3>3. l \notin fanout[k]
            BY <1>3, <2>1, <3>1, <3>2
        <3> QED BY <1>4, <3>1, <3>3
    <2> QED BY <2>1, <2>2
<1>12. InFanout(at, unit, team)'
    <2>1. ASSUME NEW n \in Ids, fanout'[n] # {}
          PROVE  /\ n \in fanout'[n] /\ n = Lead(fanout'[n]) /\ Merged(fanout'[n])
                 /\ \A l \in fanout'[n] :
                      /\ unit[l] = fanout'[n] /\ team[l] = {} /\ sent'[l] = <<>>
                      /\ at[l] \in Sent \cup {"ran", "done"}
                      /\ fanbox'[n] # "none" => at[l] = "done"
        BY <1>1, <1>11, <2>1 DEF Placed, InFanout
    <2> QED BY <1>2, <2>1 DEF InFanout, Lead
<1>13. Ghosts(at, on, unit, team)'
    BY <1>1 DEF Placed, Ghosts
<1>14. Placed(at, on, unit, team)'
    BY <1>6, <1>7, <1>8, <1>9, <1>10, <1>12, <1>13 DEF Placed
<1> QED BY <1>7, <1>14 DEF Somewhere

\* The fanout thread gives up.
LEMMA FanOutTimeoutPlaces ==
    ASSUME FlowInv, Apart, Somewhere, NEW k \in Ids, FanOutTimeout(k)
    PROVE  Apart' /\ Somewhere'
<1>1. PICK at, on, unit, team : Placed(at, on, unit, team)
    BY DEF Somewhere
<1>2. /\ fanout' = [fanout EXCEPT ![k] = {}]
      /\ UNCHANGED <<req, client, staged, pack, queue, exec, batch_buffer, fanbox, sent>>
      /\ UNCHANGED <<direct_route, supertasks, independent>>
    BY DEF FanOutTimeout, batchVars, workerVars
<1>3. Moved({}, "nowhere", "done", 0, at, on, at, on)
    BY DEF Moved
<1>4. /\ InBuffer(at)' /\ InDirect(at, on, unit, team)' /\ InIndependent(at, unit, team)'
      /\ InSupertasks(at, unit, team)'
    BY <1>1, <1>2, <1>3, ListsMoved
<1>5. InQueues(at, on, unit, team)' /\ Apart'
    BY <1>1, <1>2, <1>3, QueuesMoved
<1>6. InHands(at, on, unit, team)'
    BY <1>1, <1>2, <1>3, HandsMoved
<1>7. /\ Published(at)' /\ Alike(at, unit)' /\ Payload(at, unit, team)'
      /\ Unanswered(at)'
    BY <1>1, <1>2, <1>3, LabelsMoved
<1>8. InFanout(at, unit, team)'
    <2>1. \A n \in Ids : fanout'[n] = {} \/ fanout'[n] = fanout[n]
        BY <1>2 DEF FlowInv
    <2>2. ASSUME NEW n \in Ids, fanout'[n] # {}
          PROVE  /\ n \in fanout'[n] /\ n = Lead(fanout'[n]) /\ Merged(fanout'[n])
                 /\ \A l \in fanout'[n] :
                      /\ unit[l] = fanout'[n] /\ team[l] = {} /\ sent[l] = <<>>
                      /\ at[l] \in Sent \cup {"ran", "done"}
                      /\ fanbox[n] # "none" => at[l] = "done"
        BY <1>1, <2>1, <2>2 DEF Placed, InFanout
    <2> QED BY <1>2, <2>2 DEF InFanout, Lead
<1>9. Ghosts(at, on, unit, team)'
    BY <1>1 DEF Placed, Ghosts
<1>10. Placed(at, on, unit, team)'
    BY <1>4, <1>5, <1>6, <1>7, <1>8, <1>9 DEF Placed
<1> QED BY <1>5, <1>10 DEF Somewhere

-----------------------------------------------------------------------------
(* The workers *)

\* The first message of a queue is taken out; its labels are those that move.
LEMMA QueueTaken ==
    ASSUME FlowInv, Apart, NEW at, NEW on, NEW unit, NEW team, Placed(at, on, unit, team),
           NEW w \in Workers, queue[w] # <<>>, queue' = [queue EXCEPT ![w] = Tail(@)],
           UNCHANGED <<req, pack>>,
           NEW S, S = UNION Carried(queue[w][1]), NEW to, NEW at2, NEW on2,
           Moved(S, "queued", to, w, at, on, at2, on2)
    PROVE  InQueues(at2, on2, unit, team)' /\ Apart'
<1>1. queue[w] \in Seq(FilledMessages) /\ 1 \in DOMAIN queue[w]
    BY DEF FlowInv
<1>2. queue'[w] = Tail(queue[w]) /\ \A v \in Workers \ {w} : queue'[v] = queue[v]
    BY DEF FlowInv
<1>3. ASSUME NEW v \in Workers, NEW j \in DOMAIN queue'[v]
      PROVE  IF v = w THEN j + 1 \in DOMAIN queue[v] /\ j + 1 # 1 /\ queue'[v][j] = queue[v][j + 1]
                      ELSE j \in DOMAIN queue[v] /\ queue'[v][j] = queue[v][j]
    <2>1. CASE v = w
        <3>1. j \in DOMAIN Tail(queue[w])
            BY <1>2, <2>1
        <3>2. j \in 1 .. (Len(queue[w]) - 1)
            BY <1>1, <3>1
        <3>3. j + 1 \in DOMAIN queue[w] /\ j + 1 # 1
            BY <1>1, <3>2
        <3>4. Tail(queue[w])[j] = queue[w][j + 1]
            BY <1>1, <3>2
        <3> QED BY <1>2, <2>1, <3>3, <3>4
    <2>2. CASE v # w
        BY <1>2, <2>2
    <2> QED BY <2>1, <2>2
<1>4. ASSUME NEW v \in Workers, NEW i \in DOMAIN queue[v], NEW m, m = queue[v][i],
             v # w \/ i # 1
      PROVE  InMessage(m, v, at2, on2, unit, team)' /\ Carried(m)' = Carried(m)
    <2>1. ASSUME NEW u \in Carried(m) PROVE u \cap S = {}
        <3>1. CASE v = w
            BY <1>1, <1>4, <2>1, <3>1 DEF Apart
        <3>2. CASE v # w
            <4>1. \A l \in u : on[l] = v
                BY <1>4 DEF Placed, InQueues, InMessage
            <4>2. InMessage(queue[w][1], w, at, on, unit, team)
                BY <1>1 DEF Placed, InQueues
            <4>3. \A l \in S : on[l] = w
                BY <4>2 DEF InMessage
            <4> QED BY <3>2, <4>1, <4>3
        <3> QED BY <3>1, <3>2
    <2> QED BY <1>4, <2>1, MessageMoved
<1>5. ASSUME NEW v \in Workers, NEW j \in DOMAIN queue'[v]
      PROVE  \E i \in DOMAIN queue[v] :
                /\ i = (IF v = w THEN j + 1 ELSE j)
                /\ queue'[v][j] = queue[v][i]
                /\ Carried(queue[v][j])' = Carried(queue[v][i])
                /\ InMessage(queue[v][j], v, at2, on2, unit, team)'
    <2>1. PICK i \in DOMAIN queue[v] : /\ i = (IF v = w THEN j + 1 ELSE j)
                                       /\ queue'[v][j] = queue[v][i]
                                       /\ v # w \/ i # 1
        BY <1>3
    <2>2. PICK m : m = queue[v][i]
        OBVIOUS
    <2>3. InMessage(m, v, at2, on2, unit, team)' /\ Carried(m)' = Carried(m)
        BY <1>4, <2>1, <2>2
    <2>4. m = queue'[v][j]
        BY <2>1, <2>2
    <2>5. InMessage(queue[v][j], v, at2, on2, unit, team)'
        BY <2>3, <2>4
    <2>6. Carried(queue[v][j])' = Carried(queue[v][i])
        BY <2>2, <2>3, <2>4
    <2> QED BY <2>1, <2>5, <2>6
<1>6. Apart'
    <2>1. ASSUME NEW v \in Workers, NEW i \in DOMAIN queue'[v], NEW j \in DOMAIN queue'[v],
                 i # j, NEW u \in Carried(queue[v][i])', NEW x \in Carried(queue[v][j])'
          PROVE  u \cap x = {}
        <3>1. i \in Int /\ j \in Int
            <4>1. queue' \in [Workers -> Seq(FilledMessages)]
                <5>1. Tail(queue[w]) \in Seq(FilledMessages)
                    BY <1>1
                <5> QED BY <5>1 DEF FlowInv
            <4>2. queue'[v] \in Seq(FilledMessages)
                BY <4>1
            <4> QED BY <4>2
        <3>2. PICK a \in DOMAIN queue[v] : /\ a = (IF v = w THEN i + 1 ELSE i)
                                           /\ Carried(queue[v][i])' = Carried(queue[v][a])
            BY <1>5
        <3>3. PICK b \in DOMAIN queue[v] : /\ b = (IF v = w THEN j + 1 ELSE j)
                                           /\ Carried(queue[v][j])' = Carried(queue[v][b])
            BY <1>5
        <3>4. a # b
            BY <2>1, <3>1, <3>2, <3>3
        <3>5. u \in Carried(queue[v][a]) /\ x \in Carried(queue[v][b])
            BY <2>1, <3>2, <3>3
        <3> QED BY <3>4, <3>5 DEF Apart
    <2> QED BY <2>1 DEF Apart
<1>7. InQueues(at2, on2, unit, team)'
    BY <1>5 DEF InQueues
<1> QED BY <1>6, <1>7

\* What the handler holds after it took message m.
TakenHandler(m) ==
    IF m.composite
    THEN [phase |-> "next", id |-> m.id, composite |-> TRUE, todo |-> pack[m.id],
          unit |-> {}, ok |-> TRUE]
    ELSE [phase |-> "begun", id |-> m.id, composite |-> FALSE, todo |-> {},
          unit |-> m.unit, ok |-> TRUE]

LEMMA TakeOwn ==
    ASSUME FlowInv, NEW w \in Workers, Take(w), NEW m, m = Head(queue[w])
    PROVE  exec'[w] = TakenHandler(m) /\ \A v \in Workers \ {w} : exec'[v] = exec[v]
<1>1. exec' = [exec EXCEPT ![w] =
                 IF m.composite
                 THEN [Idle EXCEPT !.phase = "next", !.id = m.id, !.composite = TRUE,
                                   !.todo = pack[m.id]]
                 ELSE [Idle EXCEPT !.phase = "begun", !.id = m.id, !.unit = m.unit]]
    BY DEF Take
<1>2. TakenHandler(m) =
        IF m.composite
        THEN [Idle EXCEPT !.phase = "next", !.id = m.id, !.composite = TRUE,
                          !.todo = pack[m.id]]
        ELSE [Idle EXCEPT !.phase = "begun", !.id = m.id, !.unit = m.unit]
    BY DEF TakenHandler, Idle
<1> QED BY <1>1, <1>2 DEF FlowInv

\* The worker takes a label or a composite.
LEMMA TakePlaces ==
    ASSUME FlowInv, Apart, Somewhere, NEW w \in Workers, Take(w)
    PROVE  Apart' /\ Somewhere'
<1>1. PICK at, on, unit, team : Placed(at, on, unit, team)
    BY DEF Somewhere
<1>2. PICK m : m = queue[w][1]
    OBVIOUS
<1>3. queue[w] \in Seq(FilledMessages) /\ 1 \in DOMAIN queue[w] /\ Head(queue[w]) = m
    BY <1>2 DEF FlowInv, Take
<1>4. /\ queue[w] # <<>>
      /\ queue' = [queue EXCEPT ![w] = Tail(@)]
      /\ UNCHANGED <<req, client, staged, pack, batch_buffer>>
      /\ UNCHANGED <<direct_route, supertasks, independent, fanout, fanbox, sent>>
    BY DEF Take, batchVars, fanVars
<1>5. exec'[w] = TakenHandler(m) /\ \A v \in Workers \ {w} : exec'[v] = exec[v]
    BY <1>3, TakeOwn
<1>6. PICK S : S = UNION Carried(m)
    OBVIOUS
<1>7. InMessage(m, w, at, on, unit, team)
    BY <1>1, <1>2, <1>3 DEF Placed, InQueues
<1>8. m.id \in Ids /\ \A u \in Carried(m) : u \subseteq Ids /\ u # {}
    BY <1>2, <1>3, CarriedIds
<1>9. S \subseteq Ids /\ \A l \in S : at[l] = "queued" /\ on[l] = w
    BY <1>6, <1>7, <1>8 DEF InMessage, Stand
<1>10. PICK to : to = IF m.composite THEN "todo" ELSE "exec"
    OBVIOUS
<1>11. PICK at2, on2 : /\ Ghosts(at2, on2, unit, team)
                       /\ Moved(S, "queued", to, w, at, on, at2, on2)
    <2>1. to \in Places
        BY <1>10 DEF Places, Sent
    <2> QED BY <1>1, <1>9, <2>1, MoveExists DEF Placed
<1>12. InQueues(at2, on2, unit, team)' /\ Apart'
    BY <1>1, <1>2, <1>4, <1>6, <1>11, QueueTaken
<1>13. ASSUME NEW u \in Carried(m) PROVE Stand(u, to, at2, unit) /\ \A l \in u : on2[l] = w
    BY <1>6, <1>7, <1>11 DEF InMessage, Stand, Moved
<1>14. PICK g : g = TakenHandler(m)
    OBVIOUS
<1>15. InHandler(g, w, at2, on2, unit, team)'
    <2>1. CASE m.composite
        <3>1. /\ g.phase = "next" /\ g.composite /\ g.todo = pack[m.id] /\ g.id = m.id
            BY <1>14, <2>1 DEF TakenHandler
        <3>2. Carried(m) = pack[m.id] /\ \A u \in pack[m.id] : \A l \in u : team[l] # {}
            BY <1>7, <2>1 DEF Carried, InMessage
        <3>3. \A u \in g.todo : Stand(u, "todo", at2, unit) /\ \A l \in u : on2[l] = w /\ team[l] # {}
            BY <1>10, <1>13, <2>1, <3>1, <3>2
        <3>4. at[m.id] = "queued" /\ m.id \in S
            <4>1. pack[m.id] \subseteq Filled /\ pack[m.id] # {} /\ CompositeId(req, pack[m.id]) = m.id
                BY <1>7, <1>8, <2>1 DEF InMessage, FlowInv
            <4>2. \E u \in pack[m.id] : m.id \in u
                BY <4>1, CompositeLead
            <4> QED BY <1>6, <1>9, <3>2, <4>2
        <3>5. at2[g.id] = "todo"
            BY <1>10, <1>11, <2>1, <3>1, <3>4 DEF Moved
        <3> QED BY <1>8, <3>1, <3>3, <3>5 DEF InHandler, Current
    <2>2. CASE ~m.composite
        <3>1. /\ g.phase = "begun" /\ ~g.composite /\ g.todo = {} /\ g.id = m.id
              /\ g.unit = m.unit
            BY <1>14, <2>2 DEF TakenHandler
        <3>2. m.unit \in Carried(m) /\ m.id = Lead(m.unit) /\ \A l \in m.unit : team[l] = {}
            BY <1>7, <2>2 DEF Carried, InMessage
        <3>3. Stand(m.unit, "exec", at2, unit) /\ \A l \in m.unit : on2[l] = w
            BY <1>10, <1>13, <2>2, <3>2
        <3>4. m.unit # {}
            BY <1>8, <3>2
        <3>5. g.id = Lead(g.unit)'
            BY <1>4, <3>1, <3>2 DEF Lead
        <3> QED BY <3>1, <3>2, <3>3, <3>4, <3>5 DEF InHandler, Current
    <2> QED BY <2>1, <2>2
<1>16. InHands(at2, on2, unit, team)'
    <2>1. g = exec'[w]
        BY <1>5, <1>14
    <2>2. UNCHANGED req
        BY <1>4
    <2> QED BY <1>1, <1>5, <1>11, <1>15, <2>1, <2>2, HandsStep
<1>17. /\ InBuffer(at2)' /\ InDirect(at2, on2, unit, team)' /\ InIndependent(at2, unit, team)'
       /\ InSupertasks(at2, unit, team)'
    BY <1>1, <1>4, <1>11, ListsMoved
<1>18. ASSUME NEW l \in S PROVE PayloadOf(l, to, unit[l], team[l])
    <2>1. PayloadOf(l, "queued", unit[l], team[l])
        BY <1>1, <1>9 DEF Placed, Payload
    <2> QED BY <1>10, <2>1 DEF PayloadOf, Waiting, Sent
<1>19. /\ Published(at2)' /\ Alike(at2, unit)' /\ Unanswered(at2)'
       /\ InFanout(at2, unit, team)' /\ Payload(at2, unit, team)'
    BY <1>1, <1>4, <1>10, <1>11, <1>18, LabelsMoved DEF Sent
<1>20. Ghosts(at2, on2, unit, team)'
    BY <1>11 DEF Ghosts
<1>21. Placed(at2, on2, unit, team)'
    BY <1>12, <1>16, <1>17, <1>19, <1>20 DEF Placed
<1> QED BY <1>12, <1>21 DEF Somewhere

\* What the handler holds with the next child in hand.
LEMMA NextChildOwn ==
    ASSUME FlowInv, NEW w \in Workers, NextChild(w), NEW u, u = FirstChild(req, exec[w].todo)
    PROVE  /\ exec'[w].phase = "begun" /\ exec'[w].unit = u
           /\ exec'[w].todo = exec[w].todo \ {u}
           /\ exec'[w].id = exec[w].id /\ exec'[w].composite = exec[w].composite
           /\ \A v \in Workers \ {w} : exec'[v] = exec[v]
<1>1. exec[w] \in Handlers
    BY DEF FlowInv, FilledHandlers
<1> QED BY <1>1 DEF NextChild, FlowInv, Handlers

\* The worker starts the next child.
LEMMA NextChildPlaces ==
    ASSUME FlowInv, Apart, Somewhere, NEW w \in Workers, NextChild(w)
    PROVE  Apart' /\ Somewhere'
<1>1. PICK at, on, unit, team : Placed(at, on, unit, team)
    BY DEF Somewhere
<1>2. PICK h : h = exec[w]
    OBVIOUS
<1>3. PICK u : u = FirstChild(req, h.todo)
    OBVIOUS
<1>4. /\ h.phase = "next" /\ h.todo # {}
      /\ UNCHANGED <<req, client, staged, pack, batch_buffer, queue>>
      /\ UNCHANGED <<direct_route, supertasks, independent, fanout, fanbox, sent>>
    BY <1>2 DEF NextChild, batchVars, fanVars
<1>5. h \in Handlers /\ h.todo \subseteq Filled
    BY <1>2 DEF FlowInv, FilledHandlers
<1>6. u \in h.todo
    BY <1>3, <1>4, <1>5, FirstChildIn DEF FlowInv
<1>7. u \subseteq Ids /\ u # {}
    BY <1>5, <1>6, UnitIds
<1>8. PICK g : g = exec'[w]
    OBVIOUS
<1>9. /\ g.phase = "begun" /\ g.unit = u /\ g.todo = h.todo \ {u}
      /\ g.id = h.id /\ g.composite = h.composite
      /\ \A v \in Workers \ {w} : exec'[v] = exec[v]
    BY <1>2, <1>3, <1>8, NextChildOwn
<1>10. InHandler(h, w, at, on, unit, team)
    BY <1>1, <1>2 DEF Placed, InHands
<1>11. Stand(u, "todo", at, unit) /\ \A l \in u : on[l] = w /\ team[l] # {}
    BY <1>6, <1>10 DEF InHandler
<1>12. PICK at2, on2 : /\ Ghosts(at2, on2, unit, team)
                       /\ Moved(u, "todo", "exec", w, at, on, at2, on2)
    <2>1. \A l \in u : at[l] = "todo"
        BY <1>11 DEF Stand
    <2>2. "exec" \in Places
        BY DEF Places, Sent
    <2> QED BY <1>1, <1>7, <2>1, <2>2, MoveExists DEF Placed
<1>13. InHandler(g, w, at2, on2, unit, team)'
    <2>1. g.composite
        BY <1>4, <1>9, <1>10 DEF InHandler
    <2>2. Stand(u, "exec", at2, unit) /\ \A l \in u : on2[l] = w
        BY <1>11, <1>12 DEF Moved, Stand
    <2>3. ASSUME NEW v \in h.todo, v # u
          PROVE  Stand(v, "todo", at2, unit) /\ \A l \in v : on2[l] = w /\ team[l] # {}
        <3>1. Stand(v, "todo", at, unit) /\ \A l \in v : on[l] = w /\ team[l] # {}
            BY <1>10, <2>3 DEF InHandler
        <3>2. v \subseteq Ids \ u
            BY <1>2, <1>11, <2>3, <3>1, HandlerIds DEF Stand
        <3> QED BY <1>12, <3>1, <3>2 DEF Moved, Stand
    <2>4. h.id \in Ids /\ at[h.id] \in {"todo", "exec", "ran", "done"}
        BY <1>4, <1>9, <1>10, <2>1 DEF InHandler
    <2>5. at2[g.id] \in {"todo", "exec", "ran", "done"}
        BY <1>9, <1>12, <2>4 DEF Moved
    <2>6. \A v \in g.todo : Stand(v, "todo", at2, unit) /\ \A l \in v : on2[l] = w /\ team[l] # {}
        BY <1>9, <2>3
    <2>7. /\ g.unit # {}
          /\ Stand(g.unit, "exec", at2, unit)
          /\ \A l \in g.unit : on2[l] = w /\ team[l] # {}
        BY <1>7, <1>9, <1>11, <2>2
    <2> QED BY <1>9, <2>1, <2>4, <2>5, <2>6, <2>7 DEF InHandler
<1>14. InHands(at2, on2, unit, team)'
    <2>1. \A l \in u : on[l] = w
        BY <1>11
    <2>2. UNCHANGED req
        BY <1>4
    <2> QED BY <1>1, <1>8, <1>9, <1>12, <1>13, <2>1, <2>2, HandsStep
<1>15. InQueues(at2, on2, unit, team)' /\ Apart'
    BY <1>1, <1>4, <1>12, QueuesMoved
<1>16. /\ InBuffer(at2)' /\ InDirect(at2, on2, unit, team)' /\ InIndependent(at2, unit, team)'
       /\ InSupertasks(at2, unit, team)'
    BY <1>1, <1>4, <1>12, ListsMoved
<1>17. ASSUME NEW l \in u PROVE PayloadOf(l, "exec", unit[l], team[l])
    <2>1. PayloadOf(l, "todo", unit[l], team[l])
        BY <1>1, <1>7, <1>11 DEF Placed, Payload, Stand
    <2> QED BY <2>1 DEF PayloadOf, Waiting, Sent
<1>18. /\ Published(at2)' /\ Alike(at2, unit)' /\ Unanswered(at2)'
       /\ InFanout(at2, unit, team)' /\ Payload(at2, unit, team)'
    BY <1>1, <1>4, <1>12, <1>17, LabelsMoved DEF Sent
<1>19. Ghosts(at2, on2, unit, team)'
    BY <1>12 DEF Ghosts
<1>20. Placed(at2, on2, unit, team)'
    BY <1>14, <1>15, <1>16, <1>18, <1>19 DEF Placed
<1> QED BY <1>15, <1>20 DEF Somewhere

\* The handler of worker w goes on with its unit, in another phase.
Advanced(w, from, to) ==
    /\ exec[w].phase = from
    /\ exec'[w].phase = to
    /\ exec'[w].id = exec[w].id /\ exec'[w].unit = exec[w].unit
    /\ exec'[w].todo = exec[w].todo /\ exec'[w].composite = exec[w].composite
    /\ \A v \in Workers \ {w} : exec'[v] = exec[v]

\* A performed unit: only its own key in the warehouse may have changed.
LEMMA PerformedPlaces ==
    ASSUME FlowInv, Apart, Somewhere, NEW w \in Workers, Advanced(w, "begun", "performed"),
           staged' \in [Ids -> Units],
           \A l \in Ids : l # Lead(exec[w].unit) => staged'[l] = staged[l],
           UNCHANGED <<req, client, pack, batch_buffer, queue>>,
           UNCHANGED <<direct_route, supertasks, independent, fanout, fanbox, sent>>
    PROVE  Apart' /\ Somewhere'
<1>1. PICK at, on, unit, team : Placed(at, on, unit, team)
    BY DEF Somewhere
<1>2. PICK h, g : h = exec[w] /\ g = exec'[w]
    OBVIOUS
<1>3. /\ h.phase = "begun" /\ g.phase = "performed" /\ g.id = h.id /\ g.unit = h.unit
      /\ g.todo = h.todo /\ g.composite = h.composite
    BY <1>2 DEF Advanced
<1>4. h.unit \in Filled
    BY <1>2, <1>3 DEF FlowInv, FilledHandlers
<1>5. h.unit \subseteq Ids /\ h.unit # {} /\ Lead(h.unit) \in h.unit
    BY <1>4, UnitIds
<1>6. InHandler(h, w, at, on, unit, team)
    BY <1>1, <1>2 DEF Placed, InHands
<1>7. Stand(h.unit, "exec", at, unit) /\ \A l \in h.unit : on[l] = w /\ (team[l] # {} <=> h.composite)
    BY <1>3, <1>6 DEF InHandler, Current
<1>8. PICK at2, on2 : /\ Ghosts(at2, on2, unit, team)
                      /\ Moved(h.unit, "exec", "ran", w, at, on, at2, on2)
    <2>1. \A l \in h.unit : at[l] = "exec"
        BY <1>7 DEF Stand
    <2>2. "ran" \in Places
        BY DEF Places
    <2> QED BY <1>1, <1>5, <2>1, <2>2, MoveExists DEF Placed
<1>9. InHandler(g, w, at2, on2, unit, team)'
    <2>1. Stand(h.unit, "ran", at2, unit) /\ \A l \in h.unit : on2[l] = w
        BY <1>7, <1>8 DEF Moved, Stand
    <2>2. ASSUME NEW v \in h.todo
          PROVE  Stand(v, "todo", at2, unit) /\ \A l \in v : on2[l] = w /\ team[l] # {}
        <3>1. Stand(v, "todo", at, unit) /\ \A l \in v : on[l] = w /\ team[l] # {}
            BY <1>6, <2>2 DEF InHandler
        <3>2. v \subseteq Ids \ h.unit
            BY <1>2, <1>7, <2>2, <3>1, HandlerIds DEF Stand
        <3> QED BY <1>8, <3>1, <3>2 DEF Moved, Stand
    <2>3. ASSUME h.composite PROVE h.id \in Ids /\ at2[h.id] \in {"todo", "exec", "ran", "done"}
        <3>1. h.id \in Ids /\ at[h.id] \in {"todo", "exec", "ran", "done"}
            BY <1>3, <1>6, <2>3 DEF InHandler
        <3> QED BY <1>8, <3>1 DEF Moved
    <2>4. ~h.composite => h.todo = {} /\ h.id = Lead(h.unit)
        BY <1>3, <1>6 DEF InHandler, Current
    <2>5. ~g.composite => g.id = Lead(g.unit)'
        BY <1>3, <2>4 DEF Lead
    <2>6. /\ Stand(g.unit, "ran", at2, unit)
          /\ \A l \in g.unit : on2[l] = w /\ (team[l] # {} <=> g.composite)
        BY <1>3, <1>7, <2>1
    <2>7. \A v \in g.todo : Stand(v, "todo", at2, unit) /\ \A l \in v : on2[l] = w /\ team[l] # {}
        BY <1>3, <2>2
    <2> QED BY <1>3, <1>5, <2>3, <2>4, <2>5, <2>6, <2>7 DEF InHandler
<1>10. InHands(at2, on2, unit, team)'
    <2>1. \A l \in h.unit : on[l] = w
        BY <1>7
    <2>2. \A v \in Workers \ {w} : exec'[v] = exec[v]
        BY DEF Advanced
    <2> QED BY <1>1, <1>2, <1>8, <1>9, <2>1, <2>2, HandsStep
<1>11. InQueues(at2, on2, unit, team)' /\ Apart'
    BY <1>1, <1>8, QueuesMoved
<1>12. /\ InBuffer(at2)' /\ InDirect(at2, on2, unit, team)' /\ InIndependent(at2, unit, team)'
       /\ InSupertasks(at2, unit, team)'
    BY <1>1, <1>8, ListsMoved
<1>13. /\ Published(at2)' /\ Alike(at2, unit)' /\ Unanswered(at2)'
       /\ InFanout(at2, unit, team)'
    BY <1>1, <1>8, LabelsMoved DEF Sent
<1>14. Payload(at2, unit, team)'
    <2>1. ASSUME NEW l \in Ids, req[l].type = "Write"
          PROVE  /\ at2[l] \in Waiting => l \in staged'[l]
                 /\ at2[l] \in Sent /\ team[l] # {} => l \in staged'[l]
                 /\ at2[l] \in Sent /\ team[l] = {} => l \in staged'[Lead(unit[l])]
        <3>1. CASE l \in h.unit
            <4>1. at2[l] = "ran"
                BY <1>8, <3>1 DEF Moved
            <4> QED BY <4>1 DEF Waiting, Sent
        <3>2. CASE l \notin h.unit
            <4>1. at2[l] = at[l] /\ PayloadOf(l, at[l], unit[l], team[l])
                BY <1>1, <1>8, <3>2 DEF Placed, Payload, Moved
            <4>2. staged'[l] = staged[l]
                BY <1>2, <1>5, <3>2
            <4>3. ASSUME at[l] \in Sent PROVE staged'[Lead(unit[l])] = staged[Lead(unit[l])]
                <5>1. l \in unit[l] /\ \A n \in unit[l] : unit[n] = unit[l]
                    BY <1>1, <4>3 DEF Placed, Alike, Sent
                <5>2. unit[l] \in Filled
                    BY <1>1, <5>1 DEF Placed, Ghosts, Filled
                <5>3. Lead(unit[l]) \in unit[l] /\ Lead(unit[l]) \in Ids
                    BY <5>2, UnitIds
                <5>4. Lead(unit[l]) \notin h.unit
                    BY <1>7, <3>2, <5>1, <5>3 DEF Stand
                <5> QED BY <1>2, <1>5, <5>3, <5>4
            <4> QED BY <2>1, <4>1, <4>2, <4>3 DEF PayloadOf
        <3> QED BY <3>1, <3>2
    <2> QED BY <2>1 DEF Payload, PayloadOf, Lead
<1>15. Ghosts(at2, on2, unit, team)'
    BY <1>8 DEF Ghosts
<1>16. Placed(at2, on2, unit, team)'
    BY <1>10, <1>11, <1>12, <1>13, <1>14, <1>15 DEF Placed
<1> QED BY <1>11, <1>16 DEF Somewhere

Performs(w) == PerformWrite(w) \/ PerformRead(w) \/ PerformFails(w)

\* Performing a unit, well or not, touches no key but that of the unit.
LEMMA PerformsOwn ==
    ASSUME FlowInv, NEW w \in Workers, Performs(w)
    PROVE  /\ Advanced(w, "begun", "performed")
           /\ \A l \in Ids : l # Lead(exec[w].unit) => staged'[l] = staged[l]
           /\ UNCHANGED <<req, client, pack, batch_buffer, queue>>
           /\ UNCHANGED <<direct_route, supertasks, independent, fanout, fanbox, sent>>
<1>1. exec[w] \in Handlers
    BY DEF FlowInv, FilledHandlers
<1>2. \E b \in BOOLEAN : exec' = [exec EXCEPT ![w].phase = "performed", ![w].ok = b]
    BY DEF Performs, PerformWrite, PerformRead, PerformFails
<1>3. /\ exec[w].phase = "begun"
      /\ \/ staged' = staged
         \/ \E b : staged' = [staged EXCEPT ![Lead(exec[w].unit)] = b]
      /\ UNCHANGED <<req, client, pack, batch_buffer, queue>>
      /\ UNCHANGED <<direct_route, supertasks, independent, fanout, fanbox, sent>>
    BY DEF Performs, PerformWrite, PerformRead, PerformFails, batchVars, fanVars
<1>4. \A l \in Ids : l # Lead(exec[w].unit) => staged'[l] = staged[l]
    BY <1>3 DEF FlowInv
<1>5. PICK b \in BOOLEAN : exec' = [exec EXCEPT ![w].phase = "performed", ![w].ok = b]
    BY <1>2
<1>6. /\ exec'[w] = [exec[w] EXCEPT !.phase = "performed", !.ok = b]
      /\ \A v \in Workers \ {w} : exec'[v] = exec[v]
    BY <1>5 DEF FlowInv
<1>7. Advanced(w, "begun", "performed")
    BY <1>1, <1>3, <1>6 DEF Advanced, Handlers
<1> QED BY <1>3, <1>4, <1>7

LEMMA PerformsPlaces ==
    ASSUME FlowInv, Apart, Somewhere, FlowInv', NEW w \in Workers, Performs(w)
    PROVE  Apart' /\ Somewhere'
<1>1. staged' \in [Ids -> Units]
    BY DEF FlowInv
<1> QED BY <1>1, PerformsOwn, PerformedPlaces

\* The catalog is told: nothing moves.
LEMMA SettlePlaces ==
    ASSUME FlowInv, Apart, Somewhere, NEW w \in Workers, Settle(w)
    PROVE  Apart' /\ Somewhere' /\ Advanced(w, "performed", "settled")
           /\ exec'[w].ok = exec[w].ok
<1>1. PICK at, on, unit, team : Placed(at, on, unit, team)
    BY DEF Somewhere
<1>2. PICK h, g : h = exec[w] /\ g = exec'[w]
    OBVIOUS
<1>3. /\ exec[w].phase = "performed" /\ exec[w] \in Handlers
      /\ exec'[w] = [exec[w] EXCEPT !.phase = "settled"]
      /\ \A v \in Workers \ {w} : exec'[v] = exec[v]
      /\ UNCHANGED <<req, client, staged, pack, batch_buffer, queue>>
      /\ UNCHANGED <<direct_route, supertasks, independent, fanout, fanbox, sent>>
    BY DEF Settle, batchVars, fanVars, FlowInv, FilledHandlers
<1>4. Advanced(w, "performed", "settled") /\ exec'[w].ok = exec[w].ok
    BY <1>3 DEF Advanced, Handlers
<1>5. /\ h.phase = "performed" /\ g.phase = "settled" /\ g.id = h.id /\ g.unit = h.unit
      /\ g.todo = h.todo /\ g.composite = h.composite
    BY <1>2, <1>4 DEF Advanced
<1>6. Moved({}, "nowhere", "done", w, at, on, at, on)
    BY DEF Moved
<1>7. InHandler(h, w, at, on, unit, team)
    BY <1>1, <1>2 DEF Placed, InHands
<1>8. InHandler(g, w, at, on, unit, team)'
    <2>1. Lead(g.unit)' = Lead(h.unit)
        BY <1>3, <1>5 DEF Lead
    <2> QED BY <1>5, <1>7, <2>1 DEF InHandler, Current
<1>9. InHands(at, on, unit, team)'
    BY <1>1, <1>2, <1>3, <1>6, <1>8, HandsStep
<1>10. InQueues(at, on, unit, team)' /\ Apart'
    BY <1>1, <1>3, <1>6, QueuesMoved
<1>11. /\ InBuffer(at)' /\ InDirect(at, on, unit, team)' /\ InIndependent(at, unit, team)'
       /\ InSupertasks(at, unit, team)'
    BY <1>1, <1>3, <1>6, ListsMoved
<1>12. /\ Published(at)' /\ Alike(at, unit)' /\ Unanswered(at)'
       /\ InFanout(at, unit, team)' /\ Payload(at, unit, team)'
    BY <1>1, <1>3, <1>6, LabelsMoved
<1>13. Ghosts(at, on, unit, team)'
    BY <1>1 DEF Placed, Ghosts
<1>14. Placed(at, on, unit, team)'
    BY <1>9, <1>10, <1>11, <1>12, <1>13 DEF Placed
<1> QED BY <1>4, <1>10, <1>14 DEF Somewhere

\* What the handler holds after it answered for its unit.
LEMMA AnswerOwn ==
    ASSUME FlowInv, NEW w \in Workers, Answer(w)
    PROVE  /\ exec[w].phase = "settled"
           /\ \A v \in Workers \ {w} : exec'[v] = exec[v]
           /\ \/ exec'[w] = Idle
              \/ /\ exec[w].composite /\ exec[w].ok
                 /\ exec'[w].phase = "next" /\ exec'[w].composite
                 /\ exec'[w].id = exec[w].id /\ exec'[w].todo = exec[w].todo
           /\ UNCHANGED <<req, client, staged, pack, batch_buffer, queue>>
           /\ UNCHANGED <<direct_route, supertasks, independent, fanout, stored>>
<1>1. exec[w] \in Handlers
    BY DEF FlowInv, FilledHandlers
<1>2. exec'[w] = IF exec[w].composite /\ exec[w].ok
                 THEN [exec[w] EXCEPT !.phase = "next"] ELSE Idle
    BY DEF Answer, FlowInv
<1>3. CASE exec[w].composite /\ exec[w].ok
    <2>1. /\ exec'[w].phase = "next" /\ exec'[w].composite = exec[w].composite
          /\ exec'[w].id = exec[w].id /\ exec'[w].todo = exec[w].todo
        BY <1>1, <1>2, <1>3 DEF Handlers
    <2> QED BY <1>3, <2>1 DEF Answer, FlowInv, batchVars
<1>4. CASE ~(exec[w].composite /\ exec[w].ok)
    BY <1>2, <1>4 DEF Answer, FlowInv, batchVars
<1> QED BY <1>3, <1>4

\* The completion of a unit is published: to its fanout thread if it was merged
\* and sent on its own, else to the inbox of its only or first client.
LEMMA Completed ==
    ASSUME FlowInv, NEW w \in Workers, Answer(w), NEW u, u = exec[w].unit, NEW k, k = Lead(u)
    PROVE  \/ /\ Merged(u) /\ ~exec[w].composite
              /\ fanbox' = [fanbox EXCEPT ![k] = IF fanout[k] = {} THEN @ ELSE Outcome(w)]
              /\ sent' = sent
           \/ /\ ~(Merged(u) /\ ~exec[w].composite)
              /\ sent' = [sent EXCEPT ![k] = Append(@, Outcome(w))]
              /\ fanbox' = fanbox
BY DEF Answer, PublishCompletion

\* The client is told.
LEMMA AnswerPlaces ==
    ASSUME FlowInv, Apart, Somewhere, NEW w \in Workers, Answer(w)
    PROVE  Apart' /\ Somewhere'
<1>1. PICK at, on, unit, team : Placed(at, on, unit, team)
    BY DEF Somewhere
<1>2. PICK h, g : h = exec[w] /\ g = exec'[w]
    OBVIOUS
<1>3. /\ h.phase = "settled"
      /\ \A v \in Workers \ {w} : exec'[v] = exec[v]
      /\ \/ g = Idle
         \/ g.phase = "next" /\ g.composite /\ h.composite /\ g.id = h.id /\ g.todo = h.todo
      /\ UNCHANGED <<req, client, staged, pack, batch_buffer, queue>>
      /\ UNCHANGED <<direct_route, supertasks, independent, fanout>>
    BY <1>2, AnswerOwn
<1>4. InHandler(h, w, at, on, unit, team)
    BY <1>1, <1>2 DEF Placed, InHands
<1>5. /\ h.unit # {} /\ h.unit \subseteq Ids
      /\ Stand(h.unit, "ran", at, unit)
      /\ \A l \in h.unit : on[l] = w /\ (team[l] # {} <=> h.composite)
    BY <1>2, <1>3, <1>4, HandlerIds DEF InHandler, Current
<1>6. PICK k : k = Lead(h.unit)
    OBVIOUS
<1>7. k \in h.unit /\ k \in Ids
    BY <1>5, <1>6, UnitIds DEF Filled, Units
<1>8. PICK at2, on2 : /\ Ghosts(at2, on2, unit, team)
                      /\ Moved(h.unit, "ran", "done", w, at, on, at2, on2)
    <2>1. \A l \in h.unit : at[l] = "ran"
        BY <1>5 DEF Stand
    <2>2. "done" \in Places
        BY DEF Places
    <2> QED BY <1>1, <1>5, <2>1, <2>2, MoveExists DEF Placed
<1>9. InHandler(g, w, at2, on2, unit, team)'
    <2>1. CASE g = Idle
        BY <2>1 DEF InHandler, Idle, Current
    <2>2. CASE g.phase = "next" /\ g.composite /\ h.composite /\ g.id = h.id /\ g.todo = h.todo
        <3>1. ASSUME NEW v \in h.todo
              PROVE  Stand(v, "todo", at2, unit) /\ \A l \in v : on2[l] = w /\ team[l] # {}
            <4>1. Stand(v, "todo", at, unit) /\ \A l \in v : on[l] = w /\ team[l] # {}
                BY <1>4, <3>1 DEF InHandler
            <4>2. v \subseteq Ids \ h.unit
                BY <1>2, <1>5, <3>1, <4>1, HandlerIds DEF Stand
            <4> QED BY <1>8, <4>1, <4>2 DEF Moved, Stand
        <3>2. h.id \in Ids /\ at[h.id] \in {"todo", "exec", "ran", "done"}
            BY <1>3, <1>4, <2>2 DEF InHandler
        <3>3. at2[h.id] \in {"todo", "exec", "ran", "done"}
            BY <1>8, <3>2 DEF Moved
        <3> QED BY <2>2, <3>1, <3>2, <3>3 DEF InHandler, Current
    <2> QED BY <1>3, <2>1, <2>2
<1>10. InHands(at2, on2, unit, team)'
    <2>1. \A l \in h.unit : on[l] = w
        BY <1>5
    <2>2. UNCHANGED req
        BY <1>3
    <2> QED BY <1>1, <1>2, <1>3, <1>8, <1>9, <2>1, <2>2, HandsStep
<1>11. InQueues(at2, on2, unit, team)' /\ Apart'
    BY <1>1, <1>3, <1>8, QueuesMoved
<1>12. /\ InBuffer(at2)' /\ InDirect(at2, on2, unit, team)' /\ InIndependent(at2, unit, team)'
       /\ InSupertasks(at2, unit, team)'
    BY <1>1, <1>3, <1>8, ListsMoved
<1>13. \A l \in h.unit : PayloadOf(l, "done", unit[l], team[l])
    BY DEF PayloadOf, Waiting, Sent
<1>14. Published(at2)' /\ Alike(at2, unit)' /\ Payload(at2, unit, team)'
    BY <1>1, <1>3, <1>8, <1>13, LabelsMoved
<1>15. /\ \A l \in Ids : at2[l] # "done" => at[l] # "done" /\ l \notin h.unit
       /\ \A l \in h.unit : at2[l] = "done"
       /\ \A l \in Ids : at[l] = "done" => at2[l] = "done"
       /\ \A l \in Ids \ h.unit : at2[l] = at[l]
    BY <1>5, <1>8 DEF Moved, Stand
<1>16. \/ /\ Merged(h.unit) /\ ~h.composite
          /\ fanbox' = [fanbox EXCEPT ![k] = IF fanout[k] = {} THEN @ ELSE Outcome(w)]
          /\ sent' = sent
       \/ /\ ~(Merged(h.unit) /\ ~h.composite)
          /\ sent' = [sent EXCEPT ![k] = Append(@, Outcome(w))]
          /\ fanbox' = fanbox
    BY <1>2, <1>6, Completed
<1>17. \A l \in Ids \ {k} : sent'[l] = sent[l] /\ fanbox'[l] = fanbox[l]
    BY <1>16 DEF FlowInv
<1>18. Unanswered(at2)'
    <2>1. ASSUME NEW l \in Ids, at2[l] # "done" PROVE sent'[l] = <<>>
        BY <1>1, <1>7, <1>15, <1>17, <2>1 DEF Placed, Unanswered
    <2> QED BY <2>1 DEF Unanswered
<1>19. InFanout(at2, unit, team)'
    <2>1. ASSUME NEW n \in Ids, fanout[n] # {}, NEW l \in fanout[n]
          PROVE  /\ sent'[l] = <<>>
                 /\ at2[l] \in Sent \cup {"ran", "done"}
                 /\ fanbox'[n] # "none" => at2[l] = "done"
        <3>1. /\ l \in Ids /\ unit[l] = fanout[n] /\ team[l] = {} /\ n = Lead(fanout[n])
              /\ Merged(fanout[n]) /\ sent[l] = <<>> /\ at[l] \in Sent \cup {"ran", "done"}
              /\ fanbox[n] # "none" => at[l] = "done"
            BY <1>1, <2>1 DEF Placed, InFanout, FlowInv, Units
        <3>2. CASE l \in h.unit
            <4>1. h.unit = fanout[n] /\ ~h.composite /\ Merged(h.unit)
                BY <1>5, <3>1, <3>2 DEF Stand
            <4>2. sent' = sent
                BY <1>16, <4>1
            <4> QED BY <1>15, <3>1, <3>2, <4>2
        <3>3. CASE l \notin h.unit
            <4>1. k \notin fanout[n]
                <5>1. \A m \in fanout[n] : unit[m] = fanout[n]
                    BY <1>1, <2>1 DEF Placed, InFanout
                <5> QED BY <1>5, <1>7, <3>3, <5>1, <2>1 DEF Stand
            <4>2. n \in fanout[n]
                BY <1>1, <2>1 DEF Placed, InFanout
            <4> QED BY <1>15, <1>17, <2>1, <3>1, <3>3, <4>1, <4>2
        <3> QED BY <3>2, <3>3
    <2>2. ASSUME NEW n \in Ids, fanout[n] # {}
          PROVE  n \in fanout[n] /\ n = Lead(fanout[n]) /\ Merged(fanout[n])
                 /\ \A l \in fanout[n] : unit[l] = fanout[n] /\ team[l] = {}
        BY <1>1, <2>2 DEF Placed, InFanout
    <2> QED BY <1>3, <2>1, <2>2 DEF InFanout, Lead
<1>20. Ghosts(at2, on2, unit, team)'
    BY <1>8 DEF Ghosts
<1>21. Placed(at2, on2, unit, team)'
    BY <1>10, <1>11, <1>12, <1>14, <1>18, <1>19, <1>20 DEF Placed
<1> QED BY <1>11, <1>21 DEF Somewhere

\* An idle handler has nothing.
LEMMA IdleHandler ==
    ASSUME NEW w, NEW at, NEW on, NEW unit, NEW team
    PROVE  InHandler(Idle, w, at, on, unit, team)'
BY DEF InHandler, Idle, Current

\* The composite is complete; no composite on its way bears its id.
LEMMA CloseCompositePlaces ==
    ASSUME FlowInv, Apart, Somewhere, NEW w \in Workers, CloseComposite(w)
    PROVE  Apart' /\ Somewhere'
<1>1. PICK at, on, unit, team : Placed(at, on, unit, team)
    BY DEF Somewhere
<1>2. PICK h, g : h = exec[w] /\ g = exec'[w]
    OBVIOUS
<1>3. /\ h.phase = "next"
      /\ pack' = [pack EXCEPT ![h.id] = {}]
      /\ g = Idle /\ \A v \in Workers \ {w} : exec'[v] = exec[v]
      /\ UNCHANGED <<req, client, staged, batch_buffer, queue>>
      /\ UNCHANGED <<direct_route, supertasks, independent, fanout, fanbox, sent>>
    BY <1>2 DEF CloseComposite, FlowInv, batchVars, fanVars
<1>4. InHandler(h, w, at, on, unit, team)
    BY <1>1, <1>2 DEF Placed, InHands
<1>5. h.id \in Ids /\ at[h.id] \in {"todo", "exec", "ran", "done"}
    BY <1>3, <1>4 DEF InHandler
<1>6. Moved({}, "nowhere", "done", w, at, on, at, on)
    BY DEF Moved
<1>7. ASSUME NEW v \in Workers, NEW i \in DOMAIN queue[v], NEW m, m = queue[v][i]
      PROVE  InMessage(m, v, at, on, unit, team)' /\ Carried(m)' = Carried(m)
    <2>1. ASSUME m.composite PROVE pack'[m.id] = pack[m.id]
        <3>1. at[m.id] = "queued" /\ m.id \in Ids
            BY <1>1, <1>7, <2>1, CompositeQueued, CarriedIds
        <3> QED BY <1>3, <1>5, <3>1 DEF FlowInv
    <2>2. \A u \in Carried(m) : u \cap {} = {}
        OBVIOUS
    <2> QED BY <1>1, <1>3, <1>6, <1>7, <2>1, <2>2, MessageMoved
<1>8. ASSUME NEW v \in Workers, NEW i \in DOMAIN queue[v]
      PROVE  /\ InMessage(queue[v][i], v, at, on, unit, team)'
             /\ Carried(queue[v][i])' = Carried(queue[v][i])
    <2>1. PICK m : m = queue[v][i]
        OBVIOUS
    <2>2. InMessage(m, v, at, on, unit, team)' /\ Carried(m)' = Carried(m)
        BY <1>7, <2>1
    <2>3. m = queue'[v][i]
        BY <1>3, <2>1
    <2>4. InMessage(queue[v][i], v, at, on, unit, team)'
        BY <2>2, <2>3
    <2>5. Carried(queue[v][i])' = Carried(queue[v][i])
        BY <2>1, <2>2, <2>3
    <2> QED BY <2>4, <2>5
<1>9. InQueues(at, on, unit, team)'
    BY <1>3, <1>8 DEF InQueues
<1>10. Apart'
    <2>1. ASSUME NEW v \in Workers, NEW i \in DOMAIN queue[v], NEW j \in DOMAIN queue[v],
                 i # j, NEW u \in Carried(queue[v][i])', NEW x \in Carried(queue[v][j])'
          PROVE  u \cap x = {}
        BY <1>8, <2>1 DEF Apart
    <2> QED BY <1>3, <2>1 DEF Apart
<1>11. InHands(at, on, unit, team)'
    BY <1>1, <1>2, <1>3, <1>6, IdleHandler, HandsStep
<1>12. /\ InBuffer(at)' /\ InDirect(at, on, unit, team)' /\ InIndependent(at, unit, team)'
       /\ InSupertasks(at, unit, team)'
    BY <1>1, <1>3, <1>6, ListsMoved
<1>13. /\ Published(at)' /\ Alike(at, unit)' /\ Unanswered(at)'
       /\ InFanout(at, unit, team)' /\ Payload(at, unit, team)'
    BY <1>1, <1>3, <1>6, LabelsMoved
<1>14. Ghosts(at, on, unit, team)'
    BY <1>1 DEF Placed, Ghosts
<1>15. Placed(at, on, unit, team)'
    BY <1>9, <1>11, <1>12, <1>13, <1>14 DEF Placed
<1> QED BY <1>10, <1>15 DEF Somewhere

\* A worker leaves: what it had is lost where it was.
LEMMA GonePlaces ==
    ASSUME FlowInv, Apart, Somewhere, NEW w \in Workers, Gone(w)
    PROVE  Apart' /\ Somewhere'
<1>1. PICK at, on, unit, team : Placed(at, on, unit, team)
    BY DEF Somewhere
<1>2. PICK g : g = exec'[w]
    OBVIOUS
<1>3. /\ g = Idle /\ \A v \in Workers \ {w} : exec'[v] = exec[v]
      /\ queue'[w] = <<>> /\ \A v \in Workers \ {w} : queue'[v] = queue[v]
      /\ UNCHANGED <<req, client, staged, pack, batch_buffer>>
      /\ UNCHANGED <<direct_route, supertasks, independent, fanout, fanbox, sent>>
    BY <1>2 DEF Gone, FlowInv, batchVars, fanVars
<1>4. Moved({}, "nowhere", "done", w, at, on, at, on)
    BY DEF Moved
<1>5. ASSUME NEW v \in Workers, NEW i \in DOMAIN queue'[v]
      PROVE  /\ v # w /\ i \in DOMAIN queue[v]
             /\ InMessage(queue[v][i], v, at, on, unit, team)'
             /\ Carried(queue[v][i])' = Carried(queue[v][i])
    <2>1. v # w /\ i \in DOMAIN queue[v]
        BY <1>3, <1>5
    <2>2. PICK m : m = queue[v][i]
        OBVIOUS
    <2>3. \A u \in Carried(m) : u \cap {} = {}
        OBVIOUS
    <2>4. InMessage(m, v, at, on, unit, team)' /\ Carried(m)' = Carried(m)
        BY <1>1, <1>3, <1>4, <2>1, <2>2, <2>3, MessageMoved
    <2>5. m = queue'[v][i]
        BY <1>3, <2>1, <2>2
    <2>6. InMessage(queue[v][i], v, at, on, unit, team)'
        BY <2>4, <2>5
    <2>7. Carried(queue[v][i])' = Carried(queue[v][i])
        BY <2>2, <2>4, <2>5
    <2> QED BY <2>1, <2>6, <2>7
<1>6. InQueues(at, on, unit, team)'
    BY <1>5 DEF InQueues
<1>7. Apart'
    <2>1. ASSUME NEW v \in Workers, NEW i \in DOMAIN queue'[v], NEW j \in DOMAIN queue'[v],
                 i # j, NEW u \in Carried(queue[v][i])', NEW x \in Carried(queue[v][j])'
          PROVE  u \cap x = {}
        BY <1>5, <2>1 DEF Apart
    <2> QED BY <2>1 DEF Apart
<1>8. InHands(at, on, unit, team)'
    BY <1>1, <1>2, <1>3, <1>4, IdleHandler, HandsStep
<1>9. /\ InBuffer(at)' /\ InDirect(at, on, unit, team)' /\ InIndependent(at, unit, team)'
      /\ InSupertasks(at, unit, team)'
    BY <1>1, <1>3, <1>4, ListsMoved
<1>10. /\ Published(at)' /\ Alike(at, unit)' /\ Unanswered(at)'
       /\ InFanout(at, unit, team)' /\ Payload(at, unit, team)'
    BY <1>1, <1>3, <1>4, LabelsMoved
<1>11. Ghosts(at, on, unit, team)'
    BY <1>1 DEF Placed, Ghosts
<1>12. Placed(at, on, unit, team)'
    BY <1>6, <1>8, <1>9, <1>10, <1>11 DEF Placed
<1> QED BY <1>7, <1>12 DEF Somewhere

-----------------------------------------------------------------------------
(* Payloads, handlers, fanout threads and the catalog *)

\* What a step leaves alone stays true.
LEMMA PayloadSame ==
    ASSUME FlowInv, PayloadOnce, UNCHANGED <<req, staged, stored>>,
           \A l \in Ids : client'[l] = "new" <=> client[l] = "new"
    PROVE  PayloadOnce'
<1>1. (\A k \in Ids : staged[k] \subseteq Ids) /\ stored \subseteq Ids
    BY DEF FlowInv, Units
<1>2. FreshUnstaged' /\ StoredWrites'
    BY <1>1 DEF PayloadOnce, FreshUnstaged, StoredWrites, IsWrite
<1>3. StagedWrites'
    BY <1>1 DEF PayloadOnce, StagedWrites, IsWrite
<1>4. StagedOnce'
    BY DEF PayloadOnce, StagedOnce, IsWrite
<1>5. StagedSomewhere'
    BY DEF PayloadOnce, StagedSomewhere, IsWrite
<1> QED BY <1>2, <1>3, <1>4, <1>5 DEF PayloadOnce

LEMMA HandlerSame ==
    ASSUME UNCHANGED req, stored \subseteq stored', NEW h, Performed(h) /\ ChildFirst(h)
    PROVE  Performed(h)' /\ ChildFirst(h)'
<1>1. Performed(h)'
    BY DEF Performed, Lead
<1>2. ChildFirst(h)'
    BY DEF ChildFirst, IsWrite, Lead, Current
<1> QED BY <1>1, <1>2

LEMMA HandlersSame ==
    ASSUME UNCHANGED <<req, exec>>, stored \subseteq stored', HandlersTruthful
    PROVE  HandlersTruthful'
<1>1. ASSUME NEW w \in Workers PROVE Performed(exec[w])' /\ ChildFirst(exec[w])'
    <2>1. PICK h : h = exec[w]
        OBVIOUS
    <2>2. Performed(h)' /\ ChildFirst(h)'
        BY <2>1, HandlerSame DEF HandlersTruthful
    <2>3. h = exec'[w]
        BY <2>1
    <2> QED BY <2>2, <2>3
<1> QED BY <1>1 DEF HandlersTruthful

LEMMA HandlersStep ==
    ASSUME UNCHANGED req, stored \subseteq stored', HandlersTruthful, NEW w \in Workers,
           \A v \in Workers \ {w} : exec'[v] = exec[v],
           NEW g, g = exec'[w], Performed(g)' /\ ChildFirst(g)'
    PROVE  HandlersTruthful'
<1>1. ASSUME NEW v \in Workers PROVE Performed(exec[v])' /\ ChildFirst(exec[v])'
    <2>1. CASE v = w
        BY <2>1
    <2>2. CASE v # w
        <3>1. PICK h : h = exec[v]
            OBVIOUS
        <3>2. Performed(h)' /\ ChildFirst(h)'
            BY <3>1, HandlerSame DEF HandlersTruthful
        <3>3. h = exec'[v]
            BY <2>2, <3>1
        <3> QED BY <3>2, <3>3
    <2> QED BY <2>1, <2>2
<1> QED BY <1>1 DEF HandlersTruthful

LEMMA IdleTruthful == Performed(Idle)' /\ ChildFirst(Idle)'
BY DEF Performed, ChildFirst, Idle

LEMMA FanoutSame ==
    ASSUME UNCHANGED <<req, fanout, fanbox>>, stored \subseteq stored', FanoutTruthful
    PROVE  FanoutTruthful'
BY DEF FanoutTruthful, IsWrite

LEMMA CatalogSame ==
    ASSUME UNCHANGED req, stored \subseteq stored', CatalogTruthful,
           \A l \in Ids : status'[l] = "complete" => status[l] = "complete"
    PROVE  CatalogTruthful'
BY DEF CatalogTruthful

\* A published label is staged under its own id.
LEMMA PublishTruthful ==
    ASSUME FlowInv, Truthful, NEW k \in Ids, Publish(k)
    PROVE  Truthful'
<1>1. /\ client[k] = "new" /\ client' = [client EXCEPT ![k] = "waiting"]
      /\ staged' = [staged EXCEPT ![k] = IF req[k].type = "Write" THEN {k} ELSE {}]
      /\ UNCHANGED <<req, exec, stored, fanout, fanbox>>
    BY DEF Publish, workerVars, fanVars
<1>2. /\ client'[k] = "waiting" /\ \A l \in Ids \ {k} : client'[l] = client[l]
      /\ staged'[k] = (IF req[k].type = "Write" THEN {k} ELSE {})
      /\ \A l \in Ids \ {k} : staged'[l] = staged[l]
    BY <1>1 DEF FlowInv
<1>3. /\ (\A n \in Ids : staged[n] \subseteq Ids) /\ stored \subseteq Ids
      /\ k \notin stored
      /\ \A n \in Ids : IsWrite(n) => k \notin staged[n]
    <2>1. (\A n \in Ids : staged[n] \subseteq Ids) /\ stored \subseteq Ids
        BY DEF FlowInv, Units
    <2>2. k \notin stored
        BY <1>1 DEF Truthful, PayloadOnce, StoredWrites
    <2> QED BY <1>1, <2>1, <2>2 DEF Truthful, PayloadOnce, StagedWrites
<1>4. PayloadOnce'
    <2>1. FreshUnstaged' /\ StoredWrites'
        BY <1>1, <1>2, <1>3 DEF Truthful, PayloadOnce, FreshUnstaged, StoredWrites, IsWrite
    <2>2. ASSUME NEW n \in Ids, IsWrite(n), NEW l \in staged'[n]
          PROVE  IsWrite(l) /\ client'[l] # "new" /\ l \notin stored
        <3>1. CASE n = k
            BY <1>2, <1>3, <2>2, <3>1 DEF IsWrite
        <3>2. CASE n # k
            <4>1. l \in staged[n]
                BY <1>2, <2>2, <3>2
            <4>2. l \in Ids /\ l # k
                BY <1>3, <2>2, <4>1
            <4> QED BY <1>2, <2>2, <4>1, <4>2 DEF Truthful, PayloadOnce, StagedWrites
        <3> QED BY <3>1, <3>2
    <2>3. StagedWrites'
        BY <1>1, <2>2 DEF StagedWrites, IsWrite
    <2>4. ASSUME NEW n \in Ids, NEW m \in Ids, IsWrite(n), IsWrite(m),
                 staged'[n] \cap staged'[m] # {}
          PROVE  n = m
        <3>1. CASE n = k
            BY <1>2, <1>3, <2>4, <3>1
        <3>2. CASE m = k
            BY <1>2, <1>3, <2>4, <3>2
        <3>3. CASE n # k /\ m # k
            BY <1>2, <2>4, <3>3 DEF Truthful, PayloadOnce, StagedOnce
        <3> QED BY <3>1, <3>2, <3>3
    <2>5. StagedOnce'
        BY <1>1, <2>4 DEF StagedOnce, IsWrite
    <2>6. ASSUME NEW l \in Ids, IsWrite(l), client'[l] # "new", l \notin stored
          PROVE  \E n \in Ids : IsWrite(n) /\ l \in staged'[n]
        <3>1. CASE l = k
            BY <1>2, <2>6, <3>1 DEF IsWrite
        <3>2. CASE l # k
            <4>1. PICK n \in Ids : IsWrite(n) /\ l \in staged[n]
                BY <1>2, <2>6, <3>2 DEF Truthful, PayloadOnce, StagedSomewhere
            <4>2. n # k
                BY <1>1, <4>1 DEF Truthful, PayloadOnce, FreshUnstaged
            <4> QED BY <1>2, <4>1, <4>2
        <3> QED BY <3>1, <3>2
    <2>7. StagedSomewhere'
        BY <1>1, <2>6 DEF StagedSomewhere, IsWrite
    <2> QED BY <2>1, <2>3, <2>5, <2>7 DEF PayloadOnce
<1>5. HandlersTruthful' /\ FanoutTruthful'
    BY <1>1, HandlersSame, FanoutSame DEF Truthful
<1>6. \A l \in Ids : status'[l] = "complete" => status[l] = "complete"
    BY DEF Publish, FlowInv
<1>7. CatalogTruthful'
    BY <1>1, <1>6, CatalogSame DEF Truthful
<1> QED BY <1>4, <1>5, <1>7 DEF Truthful

\* Only the key of a read changes.
LEMMA ReadKey ==
    ASSUME FlowInv, PayloadOnce, UNCHANGED <<req, stored>>,
           \A l \in Ids : client'[l] = "new" <=> client[l] = "new",
           \A l \in Ids : staged'[l] = staged[l] \/ (~IsWrite(l) /\ client[l] # "new")
    PROVE  PayloadOnce'
<1>1. /\ \A k \in Ids : staged[k] \subseteq Ids
      /\ stored \subseteq Ids
      /\ \A k \in Ids : IsWrite(k) => staged'[k] = staged[k]
    BY DEF FlowInv, Units
<1>2. FreshUnstaged' /\ StoredWrites'
    BY <1>1 DEF PayloadOnce, FreshUnstaged, StoredWrites, IsWrite
<1>3. ASSUME NEW k \in Ids, IsWrite(k), NEW l \in staged'[k]
      PROVE  IsWrite(l) /\ client'[l] # "new" /\ l \notin stored
    <2>1. l \in staged[k] /\ l \in Ids
        BY <1>1, <1>3
    <2> QED BY <1>3, <2>1 DEF PayloadOnce, StagedWrites
<1>4. StagedWrites'
    BY <1>3 DEF StagedWrites, IsWrite
<1>5. ASSUME NEW k \in Ids, NEW n \in Ids, IsWrite(k), IsWrite(n),
             staged'[k] \cap staged'[n] # {}
      PROVE  k = n
    BY <1>1, <1>5 DEF PayloadOnce, StagedOnce
<1>6. StagedOnce'
    BY <1>5 DEF StagedOnce, IsWrite
<1>7. ASSUME NEW l \in Ids, IsWrite(l), client'[l] # "new", l \notin stored
      PROVE  \E k \in Ids : IsWrite(k) /\ l \in staged'[k]
    BY <1>1, <1>7 DEF PayloadOnce, StagedSomewhere
<1>8. StagedSomewhere'
    BY <1>7 DEF StagedSomewhere, IsWrite
<1> QED BY <1>2, <1>4, <1>6, <1>8 DEF PayloadOnce

LEMMA ReceiveTruthful ==
    ASSUME FlowInv, Truthful, NEW k \in Ids, Receive(k)
    PROVE  Truthful'
<1>1. /\ client[k] = "waiting" /\ client' = [client EXCEPT ![k] = Head(sent[k])]
      /\ UNCHANGED <<req, exec, stored, fanout, fanbox, status>>
    BY DEF Receive, workerVars, fanVars, catalogVars
<1>2. \A l \in Ids : client'[l] = "new" <=> client[l] = "new"
    <2>1. Head(sent[k]) \in Outcomes
        BY DEF FlowInv, Receive
    <2> QED BY <1>1, <2>1 DEF FlowInv, Outcomes
<1>3. \A l \in Ids : staged'[l] = staged[l] \/ (~IsWrite(l) /\ client[l] # "new")
    BY <1>1 DEF Receive, FlowInv, IsWrite
<1>4. PayloadOnce'
    BY <1>1, <1>2, <1>3, ReadKey DEF Truthful
<1>5. HandlersTruthful' /\ FanoutTruthful' /\ CatalogTruthful'
    BY <1>1, HandlersSame, FanoutSame, CatalogSame DEF Truthful
<1> QED BY <1>4, <1>5 DEF Truthful

\* The dispatcher decides where labels go; it says "complete" of none.
LEMMA RoutedTruthful ==
    ASSUME FlowInv, Truthful, UNCHANGED <<req, client, staged, stored, exec, fanout, fanbox>>,
           \A l \in Ids : status'[l] = "complete" => status[l] = "complete"
    PROVE  Truthful'
<1>1. PayloadOnce'
    BY PayloadSame DEF Truthful
<1>2. HandlersTruthful' /\ FanoutTruthful' /\ CatalogTruthful'
    BY HandlersSame, FanoutSame, CatalogSame DEF Truthful
<1> QED BY <1>1, <1>2 DEF Truthful

\* A merged unit holds published writes.
LEMMA MergedWrites ==
    ASSUME FlowInv, NEW at, NEW on, NEW unit, NEW team, Placed(at, on, unit, team),
           NEW u \in Filled, Merged(u), NEW place \in Places \ {"new", "buffer"},
           Stand(u, place, at, unit)
    PROVE  \A l \in u : IsWrite(l) /\ client[l] # "new"
<1>1. u \subseteq Ids
    BY UnitIds
<1>2. ASSUME NEW l \in u PROVE IsWrite(l) /\ client[l] # "new"
    <2>1. PICK m \in u : m # l
        BY MergedHasTwo
    <2>2. at[m] = place /\ unit[m] = u /\ m \in Ids /\ at[l] = place /\ l \in Ids
        BY <1>1 DEF Stand
    <2>3. req[l].type = "Write"
        BY <2>1, <2>2 DEF Placed, Alike
    <2>4. client[l] # "new"
        BY <2>2 DEF Placed, Published
    <2> QED BY <2>3, <2>4 DEF IsWrite
<1> QED BY <1>2

\* Combining chunks moves payloads and loses none.
LEMMA CombineTruthful ==
    ASSUME FlowInv, Truthful, Somewhere, NEW u \in independent, CombineUnit(u),
           UNCHANGED <<req, client, stored, exec, fanbox, status>>
    PROVE  Truthful'
<1>1. CASE ~Merged(u)
    BY <1>1, RoutedTruthful DEF CombineUnit
<1>2. CASE Merged(u)
    <2>1. PICK at, on, unit, team : Placed(at, on, unit, team)
        BY DEF Somewhere
    <2>2. u \in Filled
        BY DEF FlowInv
    <2>3. PICK k : k = Lead(u)
        OBVIOUS
    <2>4. u \subseteq Ids /\ k \in u /\ k \in Ids
        BY <2>2, <2>3, UnitIds
    <2>5. \A l \in u : IsWrite(l) /\ client[l] # "new"
        <3>1. Stand(u, "free", at, unit)
            BY <2>1 DEF Placed, InIndependent
        <3>2. "free" \in Places \ {"new", "buffer"}
            BY DEF Places, Waiting
        <3> QED BY <1>2, <2>1, <2>2, <3>1, <3>2, MergedWrites
    <2>6. /\ staged'[k] = UNION {staged[i] : i \in u}
          /\ \A l \in u \ {k} : staged'[l] = {}
          /\ \A l \in Ids \ u : staged'[l] = staged[l]
          /\ fanout' = [fanout EXCEPT ![k] = u]
        BY <1>2, <2>3, <2>4 DEF CombineUnit, Combined
    <2>7. \A l \in Ids : \A x \in staged'[l] :
            \E i \in Ids : /\ x \in staged[i]
                           /\ i \notin u => i = l
                           /\ i \in u => l = k
        <3>1. ASSUME NEW l \in Ids, NEW x \in staged'[l]
              PROVE  \E i \in Ids : /\ x \in staged[i]
                                    /\ i \notin u => i = l
                                    /\ i \in u => l = k
            <4>1. CASE l = k
                <5>1. PICK i \in u : x \in staged[i]
                    BY <2>6, <3>1, <4>1
                <5> QED BY <2>4, <4>1, <5>1
            <4>2. CASE l # k
                BY <2>6, <3>1, <4>2
            <4> QED BY <4>1, <4>2
        <3> QED BY <3>1
    <2>8. (\A l \in Ids : staged[l] \subseteq Ids) /\ stored \subseteq Ids
        BY DEF FlowInv, Units
    <2>9. FreshUnstaged' /\ StoredWrites'
        <3>1. ASSUME NEW l \in Ids, client[l] = "new" PROVE staged'[l] = {}
            BY <2>5, <2>6, <3>1 DEF Truthful, PayloadOnce, FreshUnstaged
        <3>2. StoredWrites'
            BY <2>8 DEF Truthful, PayloadOnce, StoredWrites, IsWrite
        <3> QED BY <3>1, <3>2 DEF FreshUnstaged
    <2>10. ASSUME NEW l \in Ids, IsWrite(l), NEW x \in staged'[l]
           PROVE  IsWrite(x) /\ client[x] # "new" /\ x \notin stored
        <3>1. PICK i \in Ids : x \in staged[i] /\ (i \notin u => i = l)
            BY <2>7
        <3>2. IsWrite(i)
            BY <2>5, <2>10, <3>1
        <3> QED BY <3>1, <3>2 DEF Truthful, PayloadOnce, StagedWrites
    <2>11. StagedWrites'
        BY <2>10 DEF StagedWrites, IsWrite
    <2>12. ASSUME NEW l \in Ids, NEW n \in Ids, IsWrite(l), IsWrite(n), NEW x,
                  x \in staged'[l], x \in staged'[n]
           PROVE  l = n
        <3>1. PICK i \in Ids : /\ x \in staged[i]
                               /\ i \notin u => i = l
                               /\ i \in u => l = k
            BY <2>7, <2>12
        <3>2. PICK j \in Ids : /\ x \in staged[j]
                               /\ j \notin u => j = n
                               /\ j \in u => n = k
            BY <2>7, <2>12
        <3>3. IsWrite(i) /\ IsWrite(j)
            BY <2>5, <2>12, <3>1, <3>2
        <3>4. i = j
            BY <3>1, <3>2, <3>3 DEF Truthful, PayloadOnce, StagedOnce
        <3> QED BY <3>1, <3>2, <3>4
    <2>13. StagedOnce'
        <3>1. ASSUME NEW l \in Ids, NEW n \in Ids, IsWrite(l), IsWrite(n),
                     staged'[l] \cap staged'[n] # {}
              PROVE  l = n
            <4>1. PICK x : x \in staged'[l] /\ x \in staged'[n]
                BY <3>1
            <4> QED BY <2>12, <3>1, <4>1
        <3> QED BY <3>1 DEF StagedOnce, IsWrite
    <2>14. ASSUME NEW x \in Ids, IsWrite(x), client[x] # "new", x \notin stored
           PROVE  \E l \in Ids : IsWrite(l) /\ x \in staged'[l]
        <3>1. PICK l \in Ids : IsWrite(l) /\ x \in staged[l]
            BY <2>14 DEF Truthful, PayloadOnce, StagedSomewhere
        <3>2. CASE l \in u
            <4>1. x \in staged'[k]
                BY <2>6, <3>1, <3>2
            <4> QED BY <2>4, <2>5, <4>1
        <3>3. CASE l \notin u
            BY <2>6, <3>1, <3>3
        <3> QED BY <3>2, <3>3
    <2>15. StagedSomewhere'
        BY <2>14 DEF StagedSomewhere, IsWrite
    <2>16. PayloadOnce'
        BY <2>9, <2>11, <2>13, <2>15 DEF PayloadOnce
    <2>17. HandlersTruthful' /\ CatalogTruthful'
        BY HandlersSame, CatalogSame DEF Truthful
    <2>18. FanoutTruthful'
        <3>1. fanbox[k] = "none"
            <4>1. at[k] = "free"
                BY <2>1, <2>4 DEF Placed, InIndependent, Stand
            <4>2. fanout[k] = {}
                BY <2>1, <2>4, <4>1 DEF Placed, InFanout, Sent
            <4> QED BY <2>4, <4>2 DEF Truthful, FanoutTruthful
        <3>2. \A n \in Ids \ {k} : fanout'[n] = fanout[n]
            BY <2>6 DEF FlowInv
        <3>3. ASSUME NEW n \in Ids
              PROVE  /\ fanbox[n] # "none" => fanout'[n] # {}
                     /\ fanbox[n] = "complete" => \A l \in fanout'[n] : IsWrite(l) => l \in stored
            <4>1. CASE n = k
                BY <3>1, <4>1
            <4>2. CASE n # k
                BY <3>2, <4>2 DEF Truthful, FanoutTruthful
            <4> QED BY <4>1, <4>2
        <3> QED BY <3>3 DEF FanoutTruthful, IsWrite
    <2> QED BY <2>16, <2>17, <2>18 DEF Truthful
<1> QED BY <1>1, <1>2

\* A fanout thread is through with its answer, or gives up without one.
LEMMA FanOutTruthful ==
    ASSUME FlowInv, Truthful, NEW k \in Ids, FanOut(k) \/ FanOutTimeout(k)
    PROVE  Truthful'
<1>1. /\ UNCHANGED <<req, client, staged, stored, exec, status>>
      /\ fanout' = [fanout EXCEPT ![k] = {}]
      /\ fanbox' = [fanbox EXCEPT ![k] = "none"]
    <2>1. CASE FanOut(k)
        BY <2>1 DEF FanOut, workerVars, catalogVars
    <2>2. CASE FanOutTimeout(k)
        BY <2>2 DEF FanOutTimeout, workerVars, catalogVars, FlowInv
    <2> QED BY <2>1, <2>2
<1>2. PayloadOnce'
    BY <1>1, PayloadSame DEF Truthful
<1>3. HandlersTruthful' /\ CatalogTruthful'
    BY <1>1, HandlersSame, CatalogSame DEF Truthful
<1>4. fanbox'[k] = "none" /\ \A n \in Ids \ {k} : fanout'[n] = fanout[n] /\ fanbox'[n] = fanbox[n]
    BY <1>1 DEF FlowInv
<1>5. FanoutTruthful'
    <2>1. ASSUME NEW n \in Ids
          PROVE  /\ fanbox'[n] # "none" => fanout'[n] # {}
                 /\ fanbox'[n] = "complete" => \A l \in fanout'[n] : IsWrite(l) => l \in stored
        BY <1>4 DEF Truthful, FanoutTruthful
    <2> QED BY <1>1, <2>1 DEF FanoutTruthful, IsWrite
<1> QED BY <1>2, <1>3, <1>5 DEF Truthful

\* A handler that changes while the warehouse, the disks and the threads do not.
LEMMA HandlerTruthful ==
    ASSUME FlowInv, Truthful, UNCHANGED <<req, client, staged, stored, fanout, fanbox>>,
           NEW w \in Workers, \A v \in Workers \ {w} : exec'[v] = exec[v],
           NEW g, g = exec'[w], Performed(g)', ChildFirst(g)', CatalogTruthful'
    PROVE  Truthful'
<1>1. PayloadOnce'
    BY PayloadSame DEF Truthful
<1>2. FanoutTruthful'
    BY FanoutSame DEF Truthful
<1>3. HandlersTruthful'
    BY HandlersStep DEF Truthful
<1> QED BY <1>1, <1>2, <1>3 DEF Truthful

LEMMA TakeTruthful ==
    ASSUME FlowInv, Truthful, Somewhere, NEW w \in Workers, Take(w)
    PROVE  Truthful'
<1>1. PICK at, on, unit, team : Placed(at, on, unit, team)
    BY DEF Somewhere
<1>2. PICK m : m = queue[w][1]
    OBVIOUS
<1>3. queue[w] \in Seq(FilledMessages) /\ 1 \in DOMAIN queue[w] /\ Head(queue[w]) = m
    BY <1>2 DEF FlowInv, Take
<1>4. /\ UNCHANGED <<req, client, staged, stored, fanout, fanbox>>
      /\ status' = [status EXCEPT ![m.id] = "executing"]
    BY <1>3 DEF Take, fanVars
<1>5. exec'[w] = TakenHandler(m) /\ \A v \in Workers \ {w} : exec'[v] = exec[v]
    BY <1>3, TakeOwn
<1>6. PICK g : g = TakenHandler(m)
    OBVIOUS
<1>7. InMessage(m, w, at, on, unit, team)
    BY <1>1, <1>2, <1>3 DEF Placed, InQueues
<1>8. CatalogTruthful'
    BY <1>4, CatalogSame DEF Truthful, FlowInv
<1>9. Performed(g)' /\ ChildFirst(g)'
    <2>1. CASE m.composite
        <3>1. g.phase = "next" /\ g.id = m.id /\ g.todo = pack[m.id]
            BY <1>6, <2>1 DEF TakenHandler
        <3>2. pack[m.id] \subseteq Filled /\ pack[m.id] # {} /\ CompositeId(req, pack[m.id]) = m.id
            <4>1. m.id \in Ids
                BY <1>2, <1>3, CarriedIds
            <4> QED BY <1>7, <2>1, <4>1 DEF InMessage, FlowInv
        <3>3. \E u \in g.todo : Lead(u) = g.id
            BY <3>1, <3>2, CompositeLead
        <3>4. \E u \in g.todo : Lead(u)' = g.id
            BY <1>4, <3>3 DEF Lead
        <3> QED BY <3>1, <3>4 DEF Performed, ChildFirst
    <2>2. CASE ~m.composite
        <3>1. g.phase = "begun" /\ ~g.composite
            BY <1>6, <2>2 DEF TakenHandler
        <3> QED BY <3>1 DEF Performed, ChildFirst
    <2> QED BY <2>1, <2>2
<1> QED BY <1>4, <1>5, <1>6, <1>8, <1>9, HandlerTruthful

LEMMA NextChildTruthful ==
    ASSUME FlowInv, Truthful, NEW w \in Workers, NextChild(w)
    PROVE  Truthful'
<1>1. PICK h, g : h = exec[w] /\ g = exec'[w]
    OBVIOUS
<1>2. PICK u : u = FirstChild(req, h.todo)
    OBVIOUS
<1>3. /\ g.phase = "begun" /\ g.unit = u /\ g.todo = h.todo \ {u}
      /\ g.id = h.id /\ g.composite = h.composite
      /\ \A v \in Workers \ {w} : exec'[v] = exec[v]
    BY <1>1, <1>2, NextChildOwn
<1>4. /\ h.phase = "next"
      /\ UNCHANGED <<req, client, staged, stored, fanout, fanbox>>
      /\ status' = [status EXCEPT ![Lead(u)] = "executing"]
    BY <1>1, <1>2 DEF NextChild, fanVars
<1>5. CatalogTruthful'
    BY <1>4, CatalogSame DEF Truthful, FlowInv
<1>6. Performed(g)'
    BY <1>3 DEF Performed
<1>7. ChildFirst(h)
    BY <1>1 DEF Truthful, HandlersTruthful
<1>8. ChildFirst(g)'
    <2>1. ASSUME h.composite, IsWrite(h.id), h.id \notin stored
          PROVE  \/ \E v \in g.todo : Lead(v) = g.id
                 \/ Current(g) /\ Lead(g.unit) = g.id
        <3>1. PICK v \in h.todo : Lead(v) = h.id
            BY <1>4, <1>7, <2>1 DEF ChildFirst, Current
        <3> QED BY <1>3, <3>1 DEF Current
    <2> QED BY <1>3, <1>4, <2>1 DEF ChildFirst, Current, IsWrite, Lead
<1> QED BY <1>1, <1>3, <1>4, <1>5, <1>6, <1>8, HandlerTruthful

\* The unit in hand is published, and its payloads are under its key.
LEMMA BegunPayload ==
    ASSUME FlowInv, Somewhere, NEW w \in Workers, exec[w].phase = "begun",
           NEW u, u = exec[w].unit
    PROVE  /\ u \subseteq Ids /\ Lead(u) \in u
           /\ \A l \in u : client[l] # "new"
           /\ UnitType(req, u) = "Write" =>
                /\ Lead(u) \in staged[Lead(u)]
                /\ ~exec[w].composite => u \subseteq staged[Lead(u)]
<1>1. PICK at, on, unit, team : Placed(at, on, unit, team)
    BY DEF Somewhere
<1>2. u \in Filled
    BY DEF FlowInv, FilledHandlers
<1>3. u \subseteq Ids /\ Lead(u) \in u
    BY <1>2, UnitIds
<1>4. /\ Stand(u, "exec", at, unit)
      /\ \A l \in u : team[l] # {} <=> exec[w].composite
    BY <1>1 DEF Placed, InHands, InHandler, Current
<1>5. \A l \in u : client[l] # "new"
    BY <1>1, <1>3, <1>4 DEF Placed, Published, Stand
<1>6. ASSUME UnitType(req, u) = "Write" PROVE \A l \in u : req[l].type = "Write"
    BY <1>1, <1>3, <1>4, <1>6 DEF Placed, Alike, Stand, UnitType, Lead
<1>7. ASSUME UnitType(req, u) = "Write", NEW l \in u
      PROVE  IF exec[w].composite THEN l \in staged[l] ELSE l \in staged[Lead(u)]
    <2>1. PayloadOf(l, "exec", u, team[l])
        BY <1>1, <1>3, <1>4 DEF Placed, Payload, Stand
    <2> QED BY <1>4, <1>6, <1>7, <2>1 DEF PayloadOf, Sent
<1> QED BY <1>3, <1>5, <1>7

\* A stored write takes its payloads out of the warehouse.
LEMMA PerformWriteTruthful ==
    ASSUME FlowInv, Truthful, Somewhere, NEW w \in Workers, PerformWrite(w)
    PROVE  Truthful'
<1>1. PICK h, g : h = exec[w] /\ g = exec'[w]
    OBVIOUS
<1>2. PICK k, blob : k = Lead(h.unit) /\ blob = staged[Lead(h.unit)]
    OBVIOUS
<1>3. /\ h.phase = "begun"
      /\ UnitType(req, h.unit) = "Write"
      /\ stored' = stored \cup blob
      /\ staged' = [staged EXCEPT ![k] = {}]
      /\ UNCHANGED <<req, client, status, fanout, fanbox>>
    BY <1>1, <1>2 DEF PerformWrite, fanVars
<1>4. /\ g.phase = "performed" /\ g.id = h.id /\ g.unit = h.unit
      /\ g.todo = h.todo /\ g.composite = h.composite
      /\ \A v \in Workers \ {w} : exec'[v] = exec[v]
    BY <1>1, PerformsOwn DEF Performs, Advanced
<1>5. /\ h.unit \subseteq Ids /\ k \in h.unit /\ k \in Ids /\ IsWrite(k)
      /\ k \in blob /\ (~h.composite => h.unit \subseteq blob)
    BY <1>1, <1>2, <1>3, BegunPayload DEF UnitType, IsWrite, Lead
<1>6. /\ staged'[k] = {} /\ \A l \in Ids \ {k} : staged'[l] = staged[l]
      /\ (\A l \in Ids : staged[l] \subseteq Ids) /\ stored \subseteq Ids /\ blob \subseteq Ids
    BY <1>2, <1>3, <1>5 DEF FlowInv, Units
<1>7. \A l \in blob : IsWrite(l) /\ client[l] # "new" /\ l \notin stored
    BY <1>2, <1>5 DEF Truthful, PayloadOnce, StagedWrites
<1>8. FreshUnstaged' /\ StoredWrites'
    <2>1. \A l \in Ids : client[l] = "new" => staged'[l] = {}
        BY <1>6 DEF Truthful, PayloadOnce, FreshUnstaged
    <2>2. \A l \in stored' : IsWrite(l) /\ client[l] # "new"
        BY <1>3, <1>7 DEF Truthful, PayloadOnce, StoredWrites
    <2> QED BY <1>3, <2>1, <2>2 DEF FreshUnstaged, StoredWrites, IsWrite
<1>9. ASSUME NEW n \in Ids, IsWrite(n), NEW l \in staged'[n]
      PROVE  IsWrite(l) /\ client[l] # "new" /\ l \notin stored'
    <2>1. n # k /\ l \in staged[n]
        BY <1>6, <1>9
    <2>2. l \notin blob
        BY <1>2, <1>5, <1>9, <2>1 DEF Truthful, PayloadOnce, StagedOnce
    <2> QED BY <1>3, <1>9, <2>1, <2>2 DEF Truthful, PayloadOnce, StagedWrites
<1>10. StagedWrites'
    BY <1>3, <1>9 DEF StagedWrites, IsWrite
<1>11. ASSUME NEW n \in Ids, NEW m \in Ids, IsWrite(n), IsWrite(m), staged'[n] \cap staged'[m] # {}
       PROVE  n = m
    <2>1. n # k /\ m # k
        BY <1>6, <1>11
    <2> QED BY <1>6, <1>11, <2>1 DEF Truthful, PayloadOnce, StagedOnce
<1>12. StagedOnce'
    BY <1>3, <1>11 DEF StagedOnce, IsWrite
<1>13. ASSUME NEW l \in Ids, IsWrite(l), client[l] # "new", l \notin stored'
       PROVE  \E n \in Ids : IsWrite(n) /\ l \in staged'[n]
    <2>1. l \notin stored /\ l \notin blob
        BY <1>3, <1>13
    <2>2. PICK n \in Ids : IsWrite(n) /\ l \in staged[n]
        BY <1>13, <2>1 DEF Truthful, PayloadOnce, StagedSomewhere
    <2> QED BY <1>2, <1>6, <2>1, <2>2
<1>14. StagedSomewhere'
    BY <1>3, <1>13 DEF StagedSomewhere, IsWrite
<1>15. PayloadOnce'
    BY <1>8, <1>10, <1>12, <1>14 DEF PayloadOnce
<1>16. Performed(g)'
    BY <1>2, <1>3, <1>4, <1>5 DEF Performed, Lead
<1>17. ChildFirst(g)'
    <2>1. ChildFirst(h)
        BY <1>1 DEF Truthful, HandlersTruthful
    <2> QED BY <1>3, <1>4, <2>1 DEF ChildFirst, Current, IsWrite, Lead
<1>18. HandlersTruthful'
    BY <1>1, <1>3, <1>4, <1>16, <1>17, HandlersStep DEF Truthful
<1>19. FanoutTruthful' /\ CatalogTruthful'
    BY <1>3, FanoutSame, CatalogSame DEF Truthful
<1> QED BY <1>15, <1>18, <1>19 DEF Truthful

\* A read, and a label that failed.
LEMMA PerformOtherTruthful ==
    ASSUME FlowInv, Truthful, Somewhere, NEW w \in Workers, PerformRead(w) \/ PerformFails(w)
    PROVE  Truthful'
<1>1. PICK h, g : h = exec[w] /\ g = exec'[w]
    OBVIOUS
<1>2. /\ h.phase = "begun"
      /\ UNCHANGED <<req, client, status, stored, fanout, fanbox>>
    BY <1>1 DEF PerformRead, PerformFails, fanVars, catalogVars
<1>3. /\ g.phase = "performed" /\ g.id = h.id /\ g.unit = h.unit
      /\ g.todo = h.todo /\ g.composite = h.composite
      /\ \A v \in Workers \ {w} : exec'[v] = exec[v]
    BY <1>1, PerformsOwn DEF Performs, Advanced
<1>4. \A l \in Ids : staged'[l] = staged[l] \/ (~IsWrite(l) /\ client[l] # "new")
    <2>1. CASE PerformFails(w)
        BY <2>1 DEF PerformFails
    <2>2. CASE PerformRead(w)
        <3>1. UnitType(req, h.unit) = "Read"
            BY <1>1, <2>2 DEF PerformRead
        <3>2. Lead(h.unit) \in h.unit /\ client[Lead(h.unit)] # "new"
            BY <1>1, <1>2, BegunPayload
        <3>3. ~IsWrite(Lead(h.unit))
            BY <3>1 DEF UnitType, IsWrite, Lead
        <3>4. \A l \in Ids : l # Lead(h.unit) => staged'[l] = staged[l]
            BY <1>1, PerformsOwn DEF Performs
        <3> QED BY <3>2, <3>3, <3>4
    <2> QED BY <2>1, <2>2
<1>5. PayloadOnce'
    BY <1>2, <1>4, ReadKey DEF Truthful
<1>6. Performed(g)'
    <2>1. CASE PerformRead(w)
        <3>1. UnitType(req, g.unit)' = "Read"
            BY <1>1, <1>2, <1>3, <2>1 DEF PerformRead
        <3> QED BY <3>1 DEF Performed
    <2>2. CASE PerformFails(w)
        <3>1. exec[w] \in Handlers
            BY DEF FlowInv, FilledHandlers
        <3>2. exec'[w] = [exec[w] EXCEPT !.phase = "performed", !.ok = FALSE]
            BY <2>2 DEF PerformFails, FlowInv
        <3>3. g.ok = FALSE
            BY <1>1, <3>1, <3>2 DEF Handlers
        <3> QED BY <3>3 DEF Performed
    <2> QED BY <2>1, <2>2
<1>7. ChildFirst(g)'
    <2>1. ChildFirst(h)
        BY <1>1 DEF Truthful, HandlersTruthful
    <2> QED BY <1>2, <1>3, <2>1 DEF ChildFirst, Current, IsWrite, Lead
<1>8. HandlersTruthful'
    BY <1>1, <1>2, <1>3, <1>6, <1>7, HandlersStep DEF Truthful
<1>9. FanoutTruthful' /\ CatalogTruthful'
    BY <1>2, FanoutSame, CatalogSame DEF Truthful
<1> QED BY <1>5, <1>8, <1>9 DEF Truthful

\* The catalog is told "complete" of a write that is stored.
LEMMA SettleTruthful ==
    ASSUME FlowInv, Truthful, Apart, Somewhere, NEW w \in Workers, Settle(w)
    PROVE  Truthful'
<1>1. PICK h, g : h = exec[w] /\ g = exec'[w]
    OBVIOUS
<1>2. /\ h.phase = "performed" /\ g.phase = "settled" /\ g.id = h.id /\ g.unit = h.unit
      /\ g.todo = h.todo /\ g.composite = h.composite /\ g.ok = h.ok
      /\ \A v \in Workers \ {w} : exec'[v] = exec[v]
    BY <1>1, SettlePlaces DEF Advanced
<1>3. /\ UNCHANGED <<req, client, staged, stored, fanout, fanbox>>
      /\ status' = [status EXCEPT ![Lead(h.unit)] = IF h.ok THEN "complete" ELSE "error"]
    BY <1>1 DEF Settle, Outcome, fanVars
<1>4. Performed(h) /\ ChildFirst(h)
    BY <1>1 DEF Truthful, HandlersTruthful
<1>5. Performed(g)'
    BY <1>2, <1>3, <1>4 DEF Performed, Lead
<1>6. ChildFirst(g)'
    BY <1>2, <1>3, <1>4 DEF ChildFirst, Current, IsWrite, Lead
<1>7. CatalogTruthful'
    <2>1. ASSUME NEW l \in Ids, status'[l] = "complete", req[l].type = "Write"
          PROVE  l \in stored
        <3>1. CASE l = Lead(h.unit)
            <4>1. h.ok
                BY <1>3, <2>1, <3>1 DEF FlowInv
            <4>2. UnitType(req, h.unit) = "Write"
                BY <2>1, <3>1 DEF UnitType, Lead
            <4> QED BY <1>2, <1>4, <3>1, <4>1, <4>2 DEF Performed
        <3>2. CASE l # Lead(h.unit)
            BY <1>3, <2>1, <3>2 DEF Truthful, CatalogTruthful, FlowInv
        <3> QED BY <3>1, <3>2
    <2> QED BY <1>3, <2>1 DEF CatalogTruthful
<1> QED BY <1>1, <1>2, <1>3, <1>5, <1>6, <1>7, HandlerTruthful

\* A write that was performed well is stored, with all it was merged with when it
\* was sent on its own.
LEMMA SettledStored ==
    ASSUME FlowInv, Truthful, Somewhere, NEW w \in Workers, exec[w].phase = "settled",
           exec[w].ok, NEW u, u = exec[w].unit
    PROVE  /\ u \subseteq Ids /\ Lead(u) \in u
           /\ IsWrite(Lead(u)) => Lead(u) \in stored
           /\ ~exec[w].composite => \A l \in u : IsWrite(l) => l \in stored
<1>1. PICK at, on, unit, team : Placed(at, on, unit, team)
    BY DEF Somewhere
<1>2. Stand(u, "ran", at, unit) /\ u # {}
    BY <1>1 DEF Placed, InHands, InHandler, Current
<1>3. u \subseteq Ids
    BY HandlerIds
<1>4. Lead(u) \in u
    BY <1>2, <1>3, UnitIds DEF Filled, Units
<1>5. Performed(exec[w])
    BY DEF Truthful, HandlersTruthful
<1>6. IsWrite(Lead(u)) => UnitType(req, u) = "Write"
    BY DEF UnitType, IsWrite, Lead
<1>7. ASSUME NEW l \in u, IsWrite(l) PROVE IsWrite(Lead(u))
    BY <1>1, <1>2, <1>3, <1>4, <1>7 DEF Placed, Alike, Stand, IsWrite
<1>8. IsWrite(Lead(u)) => Lead(u) \in stored /\ (~exec[w].composite => u \subseteq stored)
    BY <1>5, <1>6 DEF Performed
<1> QED BY <1>3, <1>4, <1>7, <1>8

\* The client is told "complete" of a write that is stored.
LEMMA AnswerTruthful ==
    ASSUME FlowInv, Truthful, Somewhere, NEW w \in Workers, Answer(w)
    PROVE  Truthful'
<1>1. PICK h, g : h = exec[w] /\ g = exec'[w]
    OBVIOUS
<1>2. /\ h.phase = "settled"
      /\ \A v \in Workers \ {w} : exec'[v] = exec[v]
      /\ \/ g = Idle
         \/ /\ g.phase = "next" /\ g.composite /\ h.composite /\ h.ok
            /\ g.id = h.id /\ g.todo = h.todo
      /\ UNCHANGED <<req, client, staged, stored, fanout>>
    BY <1>1, AnswerOwn
<1>3. Performed(g)'
    BY <1>2, IdleTruthful DEF Performed
<1>4. ChildFirst(g)'
    <2>1. CASE g = Idle
        BY <2>1, IdleTruthful
    <2>2. CASE /\ g.phase = "next" /\ g.composite /\ h.composite /\ h.ok
               /\ g.id = h.id /\ g.todo = h.todo
        <3>1. ASSUME IsWrite(h.id), h.id \notin stored
              PROVE  \E u \in h.todo : Lead(u) = h.id
            <4>1. \/ \E u \in h.todo : Lead(u) = h.id
                  \/ Lead(h.unit) = h.id
                BY <1>1, <1>2, <2>2, <3>1 DEF Truthful, HandlersTruthful, ChildFirst
            <4>2. Lead(h.unit) # h.id
                BY <1>1, <1>2, <2>2, <3>1, SettledStored
            <4> QED BY <4>1, <4>2
        <3> QED BY <1>2, <2>2, <3>1 DEF ChildFirst, IsWrite, Lead
    <2> QED BY <1>2, <2>1, <2>2
<1>5. HandlersTruthful'
    BY <1>1, <1>2, <1>3, <1>4, HandlersStep DEF Truthful
<1>6. PayloadOnce'
    BY <1>2, PayloadSame DEF Truthful
<1>7. CatalogTruthful'
    <2>1. \A l \in Ids : status'[l] = "complete" => status[l] = "complete"
        BY DEF Answer, FlowInv
    <2> QED BY <1>2, <2>1, CatalogSame DEF Truthful
<1>8. FanoutTruthful'
    <2>1. CASE fanbox' = fanbox
        BY <1>2, <2>1, FanoutSame DEF Truthful
    <2>2. ASSUME NEW k, k = Lead(h.unit), ~h.composite,
                 fanbox' = [fanbox EXCEPT ![k] = IF fanout[k] = {} THEN @ ELSE Outcome(w)]
          PROVE  FanoutTruthful'
        <3>1. ASSUME NEW n \in Ids
              PROVE  /\ fanbox'[n] # "none" => fanout[n] # {}
                     /\ fanbox'[n] = "complete" => \A l \in fanout[n] : IsWrite(l) => l \in stored
            <4>1. CASE n = k /\ fanout[k] # {}
                <5>1. PICK at, on, unit, team : Placed(at, on, unit, team)
                    BY DEF Somewhere
                <5>2. Stand(h.unit, "ran", at, unit) /\ h.unit # {} /\ h.unit \subseteq Ids
                    BY <1>1, <1>2, <5>1, HandlerIds DEF Placed, InHands, InHandler, Current
                <5>3. k \in h.unit
                    BY <2>2, <5>2, UnitIds DEF Filled, Units
                <5>4. fanout[k] = h.unit
                    BY <4>1, <5>1, <5>2, <5>3 DEF Placed, InFanout, Stand
                <5>5. fanbox'[k] = IF h.ok THEN "complete" ELSE "error"
                    BY <1>1, <2>2, <4>1 DEF Outcome, FlowInv
                <5>6. h.ok => \A l \in h.unit : IsWrite(l) => l \in stored
                    BY <1>1, <1>2, <2>2, SettledStored
                <5> QED BY <4>1, <5>4, <5>5, <5>6
            <4>2. CASE ~(n = k /\ fanout[k] # {})
                <5>1. fanbox'[n] = fanbox[n]
                    BY <2>2, <4>2 DEF FlowInv
                <5> QED BY <5>1 DEF Truthful, FanoutTruthful
            <4> QED BY <4>1, <4>2
        <3> QED BY <1>2, <3>1 DEF FanoutTruthful, IsWrite
    <2> QED BY <1>1, <2>1, <2>2, Completed
<1> QED BY <1>5, <1>6, <1>7, <1>8 DEF Truthful

\* The catalog is told "complete" of a composite: of the write whose id it bears.
LEMMA CloseCompositeTruthful ==
    ASSUME FlowInv, Truthful, Somewhere, NEW w \in Workers, CloseComposite(w)
    PROVE  Truthful'
<1>1. PICK h, g : h = exec[w] /\ g = exec'[w]
    OBVIOUS
<1>2. /\ h.phase = "next" /\ h.todo = {}
      /\ status' = [status EXCEPT ![h.id] = "complete"]
      /\ g = Idle /\ \A v \in Workers \ {w} : exec'[v] = exec[v]
      /\ UNCHANGED <<req, client, staged, stored, fanout, fanbox>>
    BY <1>1 DEF CloseComposite, FlowInv, fanVars
<1>3. h.composite
    <2>1. PICK at, on, unit, team : Placed(at, on, unit, team)
        BY DEF Somewhere
    <2> QED BY <1>1, <1>2, <2>1 DEF Placed, InHands, InHandler
<1>4. IsWrite(h.id) => h.id \in stored
    BY <1>1, <1>2, <1>3 DEF Truthful, HandlersTruthful, ChildFirst, Current
<1>5. CatalogTruthful'
    <2>1. ASSUME NEW l \in Ids, status'[l] = "complete", req[l].type = "Write"
          PROVE  l \in stored
        <3>1. CASE l = h.id
            BY <1>4, <2>1, <3>1 DEF IsWrite
        <3>2. CASE l # h.id
            BY <1>2, <2>1, <3>2 DEF Truthful, CatalogTruthful, FlowInv
        <3> QED BY <3>1, <3>2
    <2> QED BY <1>2, <2>1 DEF CatalogTruthful
<1> QED BY <1>1, <1>2, <1>5, IdleTruthful, HandlerTruthful

LEMMA GoneTruthful ==
    ASSUME FlowInv, Truthful, NEW w \in Workers, Gone(w)
    PROVE  Truthful'
<1>1. PICK g : g = exec'[w]
    OBVIOUS
<1>2. /\ g = Idle /\ \A v \in Workers \ {w} : exec'[v] = exec[v]
      /\ UNCHANGED <<req, client, staged, stored, fanout, fanbox, status>>
    BY <1>1 DEF Gone, FlowInv, fanVars, catalogVars
<1>3. CatalogTruthful'
    BY <1>2, CatalogSame DEF Truthful
<1> QED BY <1>1, <1>2, <1>3, IdleTruthful, HandlerTruthful

-----------------------------------------------------------------------------
(* The invariant *)

\* The steps that move no label.
RestStep ==
    \/ \E l \in Ids : ReplyTimeout(l)
    \/ Requery
    \/ RefreshWorkers
    \/ ScheduleDirect
    \/ ScheduleIndependent
    \/ \E w \in Workers : Start(w) \/ Suspend(w) \/ Report(w) \/ Resume(w)
    \/ UNCHANGED vars

LEMMA RestUntouched ==
    ASSUME FlowInv, RestStep
    PROVE  /\ UNCHANGED <<req, staged, pack, batch_buffer, direct_route, supertasks, independent>>
           /\ UNCHANGED <<queue, exec, fanout, fanbox, sent, stored>>
           /\ \A l \in Ids : client'[l] = "new" <=> client[l] = "new"
           /\ \A l \in Ids : status'[l] = "complete" => status[l] = "complete"
<1>1. CASE \E l \in Ids : ReplyTimeout(l)
    BY <1>1 DEF ReplyTimeout, FlowInv, catalogVars, batchVars, fanVars, workerVars
<1>2. CASE Requery
    BY <1>2 DEF Requery, catalogVars, fanVars, workerVars
<1>3. CASE RefreshWorkers
    BY <1>3 DEF RefreshWorkers, catalogVars, batchVars, fanVars, workerVars
<1>4. CASE ScheduleDirect
    BY <1>4 DEF ScheduleDirect, Scheduled, fanVars, workerVars
<1>5. CASE ScheduleIndependent
    BY <1>5 DEF ScheduleIndependent, Scheduled, fanVars, workerVars
<1>6. CASE \E w \in Workers : Start(w) \/ Suspend(w) \/ Report(w) \/ Resume(w)
    BY <1>6 DEF Start, Suspend, Report, Resume, catalogVars, batchVars, fanVars, workerVars
<1>7. CASE UNCHANGED vars
    BY <1>7 DEF vars, catalogVars, batchVars, fanVars, workerVars
<1> QED BY <1>1, <1>2, <1>3, <1>4, <1>5, <1>6, <1>7 DEF RestStep

LEMMA RestKeeps ==
    ASSUME FlowInv, Apart, Truthful, Somewhere, RestStep
    PROVE  Apart' /\ Truthful' /\ Somewhere'
<1>1. /\ UNCHANGED <<req, staged, pack, batch_buffer, direct_route, supertasks, independent>>
      /\ UNCHANGED <<queue, exec, fanout, fanbox, sent, stored>>
      /\ \A l \in Ids : client'[l] = "new" <=> client[l] = "new"
      /\ \A l \in Ids : status'[l] = "complete" => status[l] = "complete"
    BY RestUntouched
<1>2. UNCHANGED placeVars
    BY <1>1 DEF placeVars
<1>3. CatalogTruthful'
    BY <1>1, CatalogSame DEF Truthful
<1> QED BY <1>1, <1>2, <1>3, AtRest

\* The dispatcher.
LEMMA DispatcherKeeps ==
    ASSUME FlowInv, Apart, Truthful, Somewhere,
           DropBatch \/ CollectBatch \/ RouteStep
    PROVE  Apart' /\ Truthful' /\ Somewhere'
<1>1. CASE DropBatch
    <2>1. /\ UNCHANGED <<req, client, staged, stored, exec, fanout, fanbox>>
          /\ \A l \in Ids : status'[l] = "complete" => status[l] = "complete"
        BY <1>1 DEF DropBatch, catalogVars, fanVars, workerVars
    <2> QED BY <1>1, <2>1, DropBatchPlaces, RoutedTruthful
<1>2. CASE CollectBatch
    <2>1. /\ UNCHANGED <<req, client, staged, stored, exec, fanout, fanbox>>
          /\ \A l \in Ids : status'[l] = "complete" => status[l] = "complete"
        BY <1>2 DEF CollectBatch, catalogVars, fanVars, workerVars
    <2> QED BY <1>2, <2>1, CollectBatchPlaces, RoutedTruthful
<1>3. ASSUME NEW p \in direct_route, RouteDirect(p) PROVE Apart' /\ Truthful' /\ Somewhere'
    <2>1. /\ UNCHANGED <<req, client, staged, stored, exec, fanout, fanbox>>
          /\ \A l \in Ids : status'[l] = "complete" => status[l] = "complete"
        BY <1>3 DEF RouteDirect, catalogVars, fanVars
    <2> QED BY <1>3, <2>1, RouteDirectPlaces, RoutedTruthful
<1>4. ASSUME NEW st \in supertasks, NEW w \in Workers, RouteSupertask(st, w)
      PROVE  Apart' /\ Truthful' /\ Somewhere'
    <2>1. /\ UNCHANGED <<req, client, staged, stored, exec, fanout, fanbox>>
          /\ \A l \in Ids : status'[l] = "complete" => status[l] = "complete"
        BY <1>4 DEF RouteSupertask, Scheduled, fanVars
    <2> QED BY <1>4, <2>1, RouteSupertaskPlaces, RoutedTruthful
<1>5. ASSUME NEW u \in independent, NEW w \in Workers, RouteIndependent(u, w)
      PROVE  Apart' /\ Truthful' /\ Somewhere'
    <2>1. CombineUnit(u) /\ UNCHANGED <<req, client, stored, exec, fanbox, status>>
        BY <1>5 DEF RouteIndependent
    <2> QED BY <1>5, <2>1, RouteIndependentPlaces, CombineTruthful DEF Truthful
<1>6. CASE NoWorkerFor
    <2>1. UNCHANGED <<req, client, stored, exec, fanbox, status>>
        BY <1>6 DEF NoWorkerFor, workerVars, catalogVars
    <2>2. CASE UNCHANGED <<staged, fanout>>
        BY <2>1, <2>2, RoutedTruthful, <1>6, NoWorkerPlaces DEF Truthful
    <2>3. CASE \E u \in independent : CombineUnit(u)
        BY <2>1, <2>3, CombineTruthful, <1>6, NoWorkerPlaces DEF Truthful
    <2> QED BY <1>6, <2>2, <2>3 DEF NoWorkerFor
<1>7. CASE ScheduleDirect \/ ScheduleIndependent
    BY <1>7, RestKeeps DEF RestStep
<1> QED BY <1>1, <1>2, <1>3, <1>4, <1>5, <1>6, <1>7 DEF RouteStep

\* A worker.
LEMMA WorkerKeeps ==
    ASSUME FlowInv, Apart, Truthful, Somewhere, FlowInv', NEW w \in Workers,
           WorkerStep(w) \/ Crash(w) \/ Stop(w)
    PROVE  Apart' /\ Truthful' /\ Somewhere'
<1>1. CASE Take(w)
    BY <1>1, TakePlaces, TakeTruthful
<1>2. CASE NextChild(w)
    BY <1>2, NextChildPlaces, NextChildTruthful
<1>3. CASE PerformWrite(w)
    BY <1>3, PerformsPlaces, PerformWriteTruthful DEF Performs
<1>4. CASE PerformRead(w) \/ PerformFails(w)
    BY <1>4, PerformsPlaces, PerformOtherTruthful DEF Performs
<1>5. CASE Settle(w)
    BY <1>5, SettlePlaces, SettleTruthful
<1>6. CASE Answer(w)
    BY <1>6, AnswerPlaces, AnswerTruthful
<1>7. CASE CloseComposite(w)
    BY <1>7, CloseCompositePlaces, CloseCompositeTruthful
<1>8. CASE Crash(w) \/ Stop(w)
    BY <1>8, GonePlaces, GoneTruthful DEF Crash, Stop
<1> QED BY <1>1, <1>2, <1>3, <1>4, <1>5, <1>6, <1>7, <1>8 DEF WorkerStep

\* Every step of the pipeline keeps the invariant.
LEMMA PlaceInvStep == PlaceInv /\ [Next]_vars => PlaceInv'
<1> SUFFICES ASSUME PlaceInv, [Next]_vars PROVE PlaceInv'
    OBVIOUS
<1>1. FlowInv /\ Apart /\ Truthful /\ Somewhere
    BY DEF PlaceInv
<1>2. FlowInv'
    BY <1>1, FlowInvStep
<1>3. CASE RestStep
    BY <1>1, <1>2, <1>3, RestKeeps DEF PlaceInv
<1>4. CASE ClientStep
    <2>1. ASSUME NEW l \in Ids, Publish(l) PROVE PlaceInv'
        BY <1>1, <1>2, <2>1, PublishPlaces, PublishTruthful DEF PlaceInv
    <2>2. ASSUME NEW l \in Ids, Receive(l) PROVE PlaceInv'
        BY <1>1, <1>2, <2>2, ReceivePlaces, ReceiveTruthful DEF PlaceInv
    <2> QED BY <1>3, <1>4, <2>1, <2>2 DEF ClientStep, RestStep
<1>5. CASE DispatcherStep
    <2>1. CASE DropBatch \/ CollectBatch \/ RouteStep
        BY <1>1, <1>2, <2>1, DispatcherKeeps DEF PlaceInv
    <2> QED BY <1>3, <1>5, <2>1 DEF DispatcherStep, RestStep
<1>6. CASE \E l \in Ids : FanOut(l) \/ FanOutTimeout(l)
    <2>1. ASSUME NEW l \in Ids, FanOut(l) PROVE PlaceInv'
        BY <1>1, <1>2, <2>1, FanOutPlaces, FanOutTruthful DEF PlaceInv, Truthful
    <2>2. ASSUME NEW l \in Ids, FanOutTimeout(l) PROVE PlaceInv'
        BY <1>1, <1>2, <2>2, FanOutTimeoutPlaces, FanOutTruthful DEF PlaceInv
    <2> QED BY <1>6, <2>1, <2>2
<1>7. CASE \E w \in Workers : WorkerStep(w)
    BY <1>1, <1>2, <1>7, WorkerKeeps DEF PlaceInv
<1>8. CASE FleetStep
    <2>1. ASSUME NEW w \in Workers, Crash(w) \/ Stop(w) PROVE PlaceInv'
        BY <1>1, <1>2, <2>1, WorkerKeeps DEF PlaceInv
    <2> QED BY <1>3, <1>8, <2>1 DEF FleetStep, RestStep
<1> QED BY <1>3, <1>4, <1>5, <1>6, <1>7, <1>8 DEF Next, RestStep

-----------------------------------------------------------------------------
(* Theorems *)

\* At any time every published label is in one place of the pipeline, at one
\* worker, in one unit; payloads are where the next step looks for them, and
\* nothing is called complete that is not stored.
THEOREM PlaceInvariant == Spec => []PlaceInv
<1>1. Init => PlaceInv
    BY PlacesInit
<1>2. PlaceInv /\ [Next]_vars => PlaceInv'
    BY PlaceInvStep
<1> QED BY <1>1, <1>2, PTL DEF Spec

\* execute_write always finds its payload: however batches are merged, packed,
\* dropped or lost with a worker, no label is executed a second time.
THEOREM BlobIsPresent == Spec => []BlobPresent
<1>1. PlaceInv => BlobPresent
    <2> SUFFICES ASSUME PlaceInv, NEW w \in Workers, exec[w].phase = "begun",
                        UnitType(req, exec[w].unit) = "Write"
                 PROVE  Lead(exec[w].unit) \in staged[Lead(exec[w].unit)]
        BY DEF BlobPresent
    <2> QED BY BegunPayload DEF PlaceInv
<1> QED BY <1>1, PlaceInvariant, PTL

\* A merged write on its way to a worker has all its chunks under the id that the
\* worker retrieves.
THEOREM MergedIsKeptWhole == Spec => []MergedIsWhole
<1>1. PlaceInv => MergedIsWhole
    <2> SUFFICES ASSUME PlaceInv, NEW w \in Workers, NEW i \in DOMAIN queue[w],
                        NEW m, m = queue[w][i], ~m.composite, Merged(m.unit)
                 PROVE  m.unit \subseteq staged[m.id]
        BY DEF MergedIsWhole
    <2>1. FlowInv
        BY DEF PlaceInv
    <2>2. PICK at, on, unit, team : Placed(at, on, unit, team)
        BY DEF PlaceInv, Somewhere
    <2>3. /\ Stand(m.unit, "queued", at, unit) /\ m.id = Lead(m.unit)
          /\ \A l \in m.unit : team[l] = {}
        BY <2>2 DEF Placed, InQueues, InMessage, Carried
    <2>4. m.unit \in Filled /\ m.unit \subseteq Ids
        BY <2>1, CarriedIds DEF Carried
    <2>5. "queued" \in Places \ {"new", "buffer"}
        BY DEF Places, Sent
    <2>6. \A l \in m.unit : IsWrite(l)
        BY <2>1, <2>2, <2>3, <2>4, <2>5, MergedWrites
    <2>7. ASSUME NEW l \in m.unit PROVE l \in staged[m.id]
        <3>1. PayloadOf(l, "queued", m.unit, {})
            BY <2>2, <2>3, <2>4 DEF Placed, Payload, Stand
        <3> QED BY <2>3, <2>6, <3>1 DEF PayloadOf, Sent, IsWrite
    <2> QED BY <2>7
<1> QED BY <1>1, PlaceInvariant, PTL

\* A composite on its way to a worker has its children in the warehouse: another
\* composite of the same id is neither packed over it nor closed before it.
THEOREM PackIsPresent == Spec => []PackPresent
<1>1. PlaceInv => PackPresent
    BY DEF PlaceInv, Somewhere, Placed, InQueues, InMessage, PackPresent
<1> QED BY <1>1, PlaceInvariant, PTL

\* catalog.set_status says "complete" of a write after a worker has put its
\* payload, for merged writes, children of composites and the composites too.
THEOREM CatalogIsTruthful == Spec => []CatalogTruthful
<1>1. PlaceInv => CatalogTruthful
    BY DEF PlaceInv, Truthful
<1> QED BY <1>1, PlaceInvariant, PTL

\* The staged payload of a published write outlives everything but its execution:
\* batches dropped without workers, crashes, failed executions, merges.
THEOREM PayloadIsKept == Spec => []PayloadKept
<1>1. PlaceInv => PayloadKept
    BY DEF PlaceInv, Truthful, PayloadOnce, StagedSomewhere, IsWrite, PayloadKept
<1> QED BY <1>1, PlaceInvariant, PTL

-----------------------------------------------------------------------------
(* The pipeline implements LabelService *)

\* A step the clients of the service do not see.
LEMMA ServiceStutter ==
    ASSUME UNCHANGED <<req, stored, sent>>,
           \A l \in Ids : client'[l] = "new" <=> client[l] = "new"
    PROVE  UNCHANGED Service!svars
<1>1. {l \in Ids : client'[l] # "new"} = {l \in Ids : client[l] # "new"}
    OBVIOUS
<1> QED BY <1>1 DEF Service!svars

\* One completion goes out to the clients of the labels S.
LEMMA ServiceReply ==
    ASSUME FlowInv, UNCHANGED <<req, client, stored>>,
           NEW S, S \subseteq Ids, NEW outcome \in Outcomes,
           \A l \in S : client[l] # "new" /\ sent[l] = <<>>,
           outcome = "complete" => \A l \in S : IsWrite(l) => l \in stored,
           \A l \in S : sent'[l] = Append(sent[l], outcome),
           \A l \in Ids \ S : sent'[l] = sent[l]
    PROVE  Service!Next
<1> DEFINE Answers(s) == [l \in Ids |-> IF s[l] = <<>> THEN "none"
                                       ELSE IF Len(s[l]) = 1 THEN s[l][1] ELSE "several"]
<1>1. S \subseteq {l \in {m \in Ids : client[m] # "new"} : Answers(sent)[l] = "none"}
    OBVIOUS
<1>2. outcome = "complete" => S \cap {l \in Ids : req[l].type = "Write"} \subseteq stored
    BY DEF IsWrite
<1>3. ASSUME NEW l \in S PROVE Answers(sent')[l] = outcome
    <2>1. sent'[l] = <<outcome>>
        BY <1>3
    <2>2. <<outcome>> # <<>> /\ Len(<<outcome>>) = 1 /\ <<outcome>>[1] = outcome
        OBVIOUS
    <2>3. l \in Ids
        OBVIOUS
    <2> QED BY <2>1, <2>2, <2>3
<1>4. ASSUME NEW l \in Ids \ S PROVE Answers(sent')[l] = Answers(sent)[l]
    BY <1>4
<1>5. Answers(sent') = [l \in Ids |-> IF l \in S THEN outcome ELSE Answers(sent)[l]]
    <2> HIDE DEF Answers
    <2>1. \A l \in Ids : Answers(sent')[l] = IF l \in S THEN outcome ELSE Answers(sent)[l]
        BY <1>3, <1>4
    <2>2. Answers(sent') = [l \in Ids |-> Answers(sent')[l]]
        BY DEF Answers
    <2> QED BY <2>1, <2>2
<1>6. Service!Reply(S, outcome)
    BY <1>1, <1>2, <1>5 DEF Service!Reply
<1> QED BY <1>6 DEF Service!Next, Outcomes

\* The initial states are those of the service.
LEMMA ServiceInit == Init => Service!Init
BY DEF Init, Service!Init

\* OBSERVE labels of a batch are answered inline.
LEMMA ServiceBatch ==
    ASSUME PlaceInv, DropBatch \/ CollectBatch
    PROVE  Service!Next
<1>1. FlowInv
    BY DEF PlaceInv
<1>2. PICK at, on, unit, team : Placed(at, on, unit, team)
    BY DEF PlaceInv, Somewhere
<1>3. PICK outcome \in Outcomes : AnswerObserve(Observes(batch_buffer), outcome)
    BY DEF DropBatch, CollectBatch, Outcomes
<1>4. PICK S : S = Observes(batch_buffer)
    OBVIOUS
<1>5. S \subseteq Ids /\ \A l \in S : at[l] = "buffer" /\ ~IsWrite(l)
    BY <1>1, <1>2, <1>4 DEF FlowInv, Placed, InBuffer, Observes, IsWrite
<1>6. \A l \in S : client[l] # "new" /\ sent[l] = <<>>
    BY <1>2, <1>5 DEF Placed, Published, Unanswered
<1>7. UNCHANGED <<req, client, stored>>
    BY DEF DropBatch, CollectBatch, workerVars
<1>8. /\ \A l \in S : sent'[l] = Append(sent[l], outcome)
      /\ \A l \in Ids \ S : sent'[l] = sent[l]
    BY <1>3, <1>4, <1>5 DEF AnswerObserve
<1> QED BY <1>1, <1>5, <1>6, <1>7, <1>8, ServiceReply

\* The fanout thread answers every client of a merged unit.
LEMMA ServiceFanOut ==
    ASSUME PlaceInv, NEW k \in Ids, FanOut(k)
    PROVE  Service!Next
<1>1. FlowInv /\ FanoutTruthful
    BY DEF PlaceInv, Truthful
<1>2. PICK at, on, unit, team : Placed(at, on, unit, team)
    BY DEF PlaceInv, Somewhere
<1>3. fanbox[k] # "none" /\ fanbox[k] \in Outcomes
    BY <1>1 DEF FanOut, FlowInv
<1>4. fanout[k] \subseteq Ids /\ \A l \in fanout[k] : at[l] = "done" /\ sent[l] = <<>>
    BY <1>1, <1>2, <1>3, ForwardedDone
<1>5. \A l \in fanout[k] : client[l] # "new" /\ sent[l] = <<>>
    BY <1>2, <1>4 DEF Placed, Published
<1>6. fanbox[k] = "complete" => \A l \in fanout[k] : IsWrite(l) => l \in stored
    BY <1>1 DEF FanoutTruthful
<1>7. UNCHANGED <<req, client, stored>>
    BY DEF FanOut, workerVars
<1>8. /\ \A l \in fanout[k] : sent'[l] = Append(sent[l], fanbox[k])
      /\ \A l \in Ids \ fanout[k] : sent'[l] = sent[l]
    BY <1>4 DEF FanOut
<1> QED BY <1>1, <1>3, <1>4, <1>5, <1>6, <1>7, <1>8, ServiceReply

\* The worker answers a client, or a fanout thread.
LEMMA ServiceAnswer ==
    ASSUME PlaceInv, NEW w \in Workers, Answer(w)
    PROVE  Service!Next \/ UNCHANGED Service!svars
<1>1. FlowInv /\ Truthful /\ Somewhere
    BY DEF PlaceInv
<1>2. PICK at, on, unit, team : Placed(at, on, unit, team)
    BY <1>1 DEF Somewhere
<1>3. PICK u, k : u = exec[w].unit /\ k = Lead(u)
    OBVIOUS
<1>4. exec[w].phase = "settled" /\ UNCHANGED <<req, client, stored>>
    BY <1>1, AnswerOwn
<1>5. CASE sent' = sent
    BY <1>4, <1>5, ServiceStutter
<1>6. CASE sent' = [sent EXCEPT ![k] = Append(@, Outcome(w))]
    <2>1. Stand(u, "ran", at, unit) /\ u # {} /\ u \subseteq Ids
        BY <1>1, <1>2, <1>3, <1>4, HandlerIds DEF Placed, InHands, InHandler, Current
    <2>2. k \in u /\ k \in Ids
        BY <1>1, <1>3, <2>1, UnitIds DEF Filled, Units
    <2>3. at[k] = "ran"
        BY <2>1, <2>2 DEF Stand
    <2>4. client[k] # "new" /\ sent[k] = <<>>
        BY <1>2, <2>2, <2>3 DEF Placed, Published, Unanswered
    <2>5. Outcome(w) \in Outcomes /\ (Outcome(w) = "complete" => exec[w].ok)
        BY DEF Outcome, Outcomes
    <2>6. Outcome(w) = "complete" /\ IsWrite(k) => k \in stored
        BY <1>1, <1>3, <1>4, <2>5, SettledStored
    <2>7. sent'[k] = Append(sent[k], Outcome(w)) /\ \A l \in Ids \ {k} : sent'[l] = sent[l]
        BY <1>1, <1>6, <2>2 DEF FlowInv
    <2>8. PICK S, outcome : S = {k} /\ outcome = Outcome(w)
        OBVIOUS
    <2>9. /\ S \subseteq Ids /\ outcome \in Outcomes
          /\ \A l \in S : client[l] # "new" /\ sent[l] = <<>>
          /\ outcome = "complete" => \A l \in S : IsWrite(l) => l \in stored
          /\ \A l \in S : sent'[l] = Append(sent[l], outcome)
          /\ \A l \in Ids \ S : sent'[l] = sent[l]
        BY <2>2, <2>4, <2>5, <2>6, <2>7, <2>8
    <2> QED BY <1>1, <1>4, <2>9, ServiceReply
<1> QED BY <1>1, <1>3, <1>5, <1>6, Completed

\* Storing a write applies the payloads it carries, none of them for the second time.
LEMMA ServiceWrite ==
    ASSUME PlaceInv, NEW w \in Workers, PerformWrite(w)
    PROVE  Service!Next
<1>1. FlowInv /\ Truthful /\ Somewhere
    BY DEF PlaceInv
<1>2. PICK u, blob : u = exec[w].unit /\ blob = staged[Lead(u)]
    OBVIOUS
<1>3. /\ exec[w].phase = "begun" /\ UnitType(req, u) = "Write"
      /\ stored' = stored \cup blob
      /\ UNCHANGED <<req, client, sent>>
    BY <1>2 DEF PerformWrite
<1>4. Lead(u) \in Ids /\ IsWrite(Lead(u))
    BY <1>1, <1>2, <1>3, BegunPayload DEF UnitType, IsWrite, Lead
<1>5. blob \subseteq Ids /\ \A l \in blob : IsWrite(l) /\ client[l] # "new" /\ l \notin stored
    BY <1>1, <1>2, <1>4 DEF Truthful, PayloadOnce, StagedWrites, FlowInv, Units
<1>6. Service!Apply(blob)
    BY <1>3, <1>5 DEF Service!Apply, IsWrite
<1> QED BY <1>5, <1>6 DEF Service!Next

\* Publishing opens a label.
LEMMA ServicePublish ==
    ASSUME FlowInv, NEW k \in Ids, Publish(k)
    PROVE  Service!Next
<1>1. /\ client[k] = "new" /\ client' = [client EXCEPT ![k] = "waiting"]
      /\ UNCHANGED <<req, stored, sent>>
    BY DEF Publish, workerVars
<1>2. {l \in Ids : client'[l] # "new"} = {l \in Ids : client[l] # "new"} \cup {k}
    BY <1>1 DEF FlowInv
<1>3. Service!Open(k)
    BY <1>1, <1>2 DEF Service!Open
<1> QED BY <1>3 DEF Service!Next

\* The steps the clients of the service do not see.
LEMMA ServiceHidden ==
    ASSUME FlowInv,
           \/ \E l \in Ids : Receive(l) \/ FanOutTimeout(l)
           \/ RouteStep
           \/ RestStep
           \/ \E w \in Workers : \/ Take(w) \/ NextChild(w) \/ PerformRead(w) \/ PerformFails(w)
                                 \/ Settle(w) \/ CloseComposite(w) \/ Crash(w) \/ Stop(w)
    PROVE  UNCHANGED Service!svars
<1>1. CASE \E l \in Ids : Receive(l)
    <2>1. PICK k \in Ids : Receive(k)
        BY <1>1
    <2>2. Head(sent[k]) \in Outcomes
        BY <2>1 DEF FlowInv, Receive
    <2>3. \A l \in Ids : client'[l] = "new" <=> client[l] = "new"
        BY <2>1, <2>2 DEF FlowInv, Outcomes, Receive
    <2>4. UNCHANGED <<req, stored, sent>>
        BY <2>1 DEF Receive, workerVars
    <2> QED BY <2>3, <2>4, ServiceStutter
<1>2. CASE \E l \in Ids : FanOutTimeout(l)
    BY <1>2, ServiceStutter DEF FanOutTimeout, workerVars
<1>3. CASE RouteStep
    <2>1. UNCHANGED <<req, client, stored, sent>>
        BY <1>3 DEF RouteStep, RouteDirect, RouteSupertask, RouteIndependent, NoWorkerFor,
                    ScheduleDirect, ScheduleIndependent, workerVars
    <2> QED BY <2>1, ServiceStutter
<1>4. CASE RestStep
    <2>1. /\ UNCHANGED <<req, stored, sent>>
          /\ \A l \in Ids : client'[l] = "new" <=> client[l] = "new"
        BY <1>4, RestUntouched
    <2> QED BY <2>1, ServiceStutter
<1>5. CASE \E w \in Workers : \/ Take(w) \/ NextChild(w) \/ PerformRead(w) \/ PerformFails(w)
                              \/ Settle(w) \/ CloseComposite(w) \/ Crash(w) \/ Stop(w)
    <2>1. UNCHANGED <<req, client, stored, sent>>
        BY <1>5 DEF Take, NextChild, PerformRead, PerformFails, Settle, CloseComposite,
                    Crash, Stop, Gone
    <2> QED BY <2>1, ServiceStutter
<1> QED BY <1>1, <1>2, <1>3, <1>4, <1>5

\* The pipeline implements LabelService: every client gets at most one answer, no
\* payload is stored twice, and "complete" is said of a write only when its payload
\* is stored, whatever is merged, packed, dropped, timed out or lost on the way.
THEOREM PipelineImplementsService == Spec => ImplementsService
<1>1. Init => Service!Init
    BY ServiceInit
<1>2. PlaceInv /\ [Next]_vars => [Service!Next]_Service!svars
    <2> SUFFICES ASSUME PlaceInv, [Next]_vars
                 PROVE  Service!Next \/ UNCHANGED Service!svars
        OBVIOUS
    <2>1. FlowInv
        BY DEF PlaceInv
    <2>2. CASE ClientStep
        BY <2>1, <2>2, ServicePublish, ServiceHidden DEF ClientStep, RestStep
    <2>3. CASE DispatcherStep
        BY <2>1, <2>3, ServiceBatch, ServiceHidden DEF DispatcherStep, RestStep
    <2>4. CASE RefreshWorkers \/ UNCHANGED vars
        BY <2>1, <2>4, ServiceHidden DEF RestStep
    <2>5. CASE \E l \in Ids : FanOut(l) \/ FanOutTimeout(l)
        BY <2>1, <2>5, ServiceFanOut, ServiceHidden
    <2>6. CASE \E w \in Workers : WorkerStep(w)
        BY <2>1, <2>6, ServiceAnswer, ServiceWrite, ServiceHidden DEF WorkerStep
    <2>7. CASE FleetStep
        BY <2>1, <2>7, ServiceHidden DEF FleetStep, RestStep
    <2> QED BY <2>2, <2>3, <2>4, <2>5, <2>6, <2>7 DEF Next
<1> QED BY <1>1, <1>2, PlaceInvariant, PTL DEF Spec, ImplementsService, Service!Spec

-----------------------------------------------------------------------------
(***************************************************************************)
(* The undisturbed pipeline.  While no worker leaves, nothing times out    *)
(* and nothing fails, no unit is dropped between the dispatcher and its    *)
(* answer: the locations of the catalog are backed by files or by writes   *)
(* on their way, and a pipeline at rest has answered everybody.            *)
(***************************************************************************)
-----------------------------------------------------------------------------
(* What a worker holds *)

\* The units of queue q with packs pk, and of handler h.
Holding(u, q, pk, h) ==
    \/ \E i \in DOMAIN q : u \in (IF q[i].composite THEN pk[q[i].id] ELSE {q[i].unit})
    \/ u \in h.todo
    \/ Current(h) /\ u = h.unit

Hands(q, pk, h) ==
    {q[i].unit : i \in {j \in DOMAIN q : ~q[j].composite}}
      \cup (UNION {pk[q[i].id] : i \in {j \in DOMAIN q : q[j].composite}})
      \cup h.todo
      \cup IF h.phase \in {"begun", "performed", "settled"} THEN {h.unit} ELSE {}

LEMMA HandsHolding ==
    ASSUME NEW u, NEW q, NEW pk, NEW h
    PROVE  u \in Hands(q, pk, h) <=> Holding(u, q, pk, h)
<1> DEFINE singles == {q[i].unit : i \in {j \in DOMAIN q : ~q[j].composite}}
           packed == UNION {pk[q[i].id] : i \in {j \in DOMAIN q : q[j].composite}}
           own == IF h.phase \in {"begun", "performed", "settled"} THEN {h.unit} ELSE {}
<1>1. u \in singles <=> \E i \in DOMAIN q : ~q[i].composite /\ u = q[i].unit
    OBVIOUS
<1>2. u \in packed <=> \E i \in DOMAIN q : q[i].composite /\ u \in pk[q[i].id]
    OBVIOUS
<1>3. u \in own <=> Current(h) /\ u = h.unit
    BY DEF Current
<1>4. Holding(u, q, pk, h) <=>
        \/ \E i \in DOMAIN q : ~q[i].composite /\ u = q[i].unit
        \/ \E i \in DOMAIN q : q[i].composite /\ u \in pk[q[i].id]
        \/ u \in h.todo
        \/ Current(h) /\ u = h.unit
    <2>1. \A i \in DOMAIN q : u \in (IF q[i].composite THEN pk[q[i].id] ELSE {q[i].unit})
                                <=> \/ ~q[i].composite /\ u = q[i].unit
                                    \/ q[i].composite /\ u \in pk[q[i].id]
        <3> TAKE i \in DOMAIN q
        <3>1. CASE q[i].composite
            BY <3>1
        <3>2. CASE ~q[i].composite
            BY <3>2
        <3> QED BY <3>1, <3>2
    <2> QED BY <2>1, Zenon DEF Holding
<1>5. Hands(q, pk, h) = singles \cup packed \cup h.todo \cup own
    BY DEF Hands
<1> HIDE DEF singles, packed, own
<1>6. u \in Hands(q, pk, h) <=> u \in singles \/ u \in packed \/ u \in h.todo \/ u \in own
    BY <1>5
<1> QED BY <1>1, <1>2, <1>3, <1>4, <1>6, Zenon

LEMMA HeldHolding ==
    ASSUME NEW w, NEW u
    PROVE  /\ u \in Held(w) <=> Holding(u, queue[w], pack, exec[w])
           /\ (u \in Held(w))' <=> Holding(u, queue'[w], pack', exec'[w])
<1>1. Held(w) = Hands(queue[w], pack, exec[w])
    BY DEF Held, Hands
<1>2. Held(w)' = Hands(queue'[w], pack', exec'[w])
    BY DEF Held, Hands
<1> QED BY <1>1, <1>2, HandsHolding

\* The units that travel on their own.
Alone(u, q, h) ==
    \/ \E i \in DOMAIN q : ~q[i].composite /\ u = q[i].unit
    \/ Current(h) /\ ~h.composite /\ u = h.unit

\* While nobody left or timed out, every worker runs, ...
AllAlive == churn = 0 => alive = Workers

\* ... and a fanout thread waits for every merged unit that travels on its own.
FanoutWaits ==
    churn = 0 =>
        \A w \in Workers : \A u \in Filled :
            Alone(u, queue[w], exec[w]) /\ Merged(u) => fanout[Lead(u)] = u

SteadyInv == AllAlive /\ FanoutWaits

-----------------------------------------------------------------------------
(* A disturbance is never undone *)

LEMMA AppendOnce ==
    ASSUME NEW s \in Seq(Outcomes), NEW x \in Outcomes, Append(s, x) \in {<<>>, <<"complete">>}
    PROVE  s = <<>> /\ x = "complete"
<1>1. Len(Append(s, x)) = Len(s) + 1 /\ Len(s) \in Nat /\ Append(s, x)[Len(s) + 1] = x
    OBVIOUS
<1>2. Append(s, x) = <<"complete">>
    <2> SUFFICES ASSUME Append(s, x) = <<>> PROVE FALSE
        OBVIOUS
    <2>1. Len(Append(s, x)) = 0
        OBVIOUS
    <2> QED BY <1>1, <2>1
<1>3. Len(s) = 0
    <2>1. Len(<<"complete">>) = 1
        OBVIOUS
    <2> QED BY <1>1, <1>2, <2>1
<1>4. x = "complete"
    <2>1. <<"complete">>[1] = "complete"
        OBVIOUS
    <2> QED BY <1>1, <1>2, <1>3, <2>1
<1>5. s = <<>>
    BY <1>3
<1> QED BY <1>4, <1>5

\* What a step does to the counters, the answers and the fanout inboxes.
Grown ==
    /\ churn' \in {churn, churn + 1}
    /\ \A l \in Ids : \/ sent'[l] = sent[l]
                      \/ \E x \in Outcomes : sent'[l] = Append(sent[l], x)
    /\ \A l \in Ids : \/ fanbox'[l] = fanbox[l]
                      \/ fanbox[l] = "none"
                      \/ fanout[l] # {} /\ \A m \in fanout[l] : sent'[m] = Append(sent[m], fanbox[l])

LEMMA StepGrown ==
    ASSUME PlaceInv, [Next]_vars
    PROVE  Grown
<1>1. FlowInv /\ Truthful
    BY DEF PlaceInv
<1>2. CASE UNCHANGED <<sent, fanbox>> /\ churn' \in {churn, churn + 1}
    BY <1>2 DEF Grown
<1>3. CASE ClientStep
    BY <1>2, <1>3 DEF ClientStep, Publish, Receive, ReplyTimeout, fanVars
<1>4. CASE DropBatch \/ CollectBatch
    <2>1. /\ \E outcome \in Outcomes : AnswerObserve(Observes(batch_buffer), outcome)
          /\ UNCHANGED <<fanbox, churn>>
        BY <1>4 DEF DropBatch, CollectBatch, fanVars, Outcomes
    <2> QED BY <1>1, <2>1 DEF Grown, AnswerObserve, FlowInv
<1>5. CASE Requery \/ RefreshWorkers
    BY <1>2, <1>5 DEF Requery, RefreshWorkers, QueryWorkers, fanVars
<1>6. CASE RouteStep
    BY <1>2, <1>6 DEF RouteStep, RouteDirect, RouteSupertask, RouteIndependent, NoWorkerFor,
                      ScheduleDirect, ScheduleIndependent, fanVars
<1>7. ASSUME NEW l \in Ids, FanOut(l) PROVE Grown
    <2>1. /\ fanbox[l] # "none" /\ fanbox[l] \in Outcomes
          /\ \A m \in Ids : sent'[m] = IF m \in fanout[l] THEN Append(sent[m], fanbox[l]) ELSE sent[m]
          /\ \A m \in Ids \ {l} : fanbox'[m] = fanbox[m]
          /\ UNCHANGED churn
        BY <1>1, <1>7 DEF FanOut, FlowInv
    <2>2. fanout[l] # {} /\ fanout[l] \subseteq Ids
        BY <1>1, <2>1 DEF Truthful, FanoutTruthful, FlowInv, Units
    <2> QED BY <2>1, <2>2 DEF Grown
<1>8. ASSUME NEW l \in Ids, FanOutTimeout(l) PROVE Grown
    BY <1>2, <1>8 DEF FanOutTimeout
<1>9. ASSUME NEW w \in Workers, WorkerStep(w) PROVE Grown
    <2>1. CASE ~Answer(w)
        BY <1>2, <1>9, <2>1 DEF WorkerStep, Take, NextChild, PerformWrite, PerformRead, PerformFails,
                                Settle, CloseComposite, fanVars
    <2>2. CASE Answer(w)
        <3>1. PICK at, on, unit, team : Placed(at, on, unit, team)
            BY DEF PlaceInv, Somewhere
        <3>2. PICK h, k : h = exec[w] /\ k = Lead(h.unit)
            OBVIOUS
        <3>3. h.phase = "settled" /\ InHandler(h, w, at, on, unit, team)
            BY <2>2, <3>1, <3>2 DEF Answer, Placed, InHands
        <3>4. h.unit # {} /\ h.unit \subseteq Ids /\ Stand(h.unit, "ran", at, unit)
            BY <1>1, <3>2, <3>3, HandlerIds DEF InHandler, Current
        <3>5. k \in h.unit /\ k \in Ids
            BY <1>1, <3>2, <3>4, UnitIds DEF Filled, Units
        <3>6. fanout[k] # {} => fanbox[k] = "none"
            BY <3>1, <3>4, <3>5 DEF Placed, InFanout, Stand
        <3>7. /\ \A l \in Ids \ {k} : sent'[l] = sent[l] /\ fanbox'[l] = fanbox[l]
              /\ \/ sent'[k] = sent[k]
                 \/ sent'[k] = Append(sent[k], Outcome(w)) /\ fanbox'[k] = fanbox[k]
              /\ fanbox'[k] = fanbox[k] \/ fanbox[k] = "none"
              /\ UNCHANGED churn
            BY <1>1, <2>2, <3>2, <3>5, <3>6 DEF Answer, PublishCompletion, FlowInv
        <3>8. Outcome(w) \in Outcomes
            BY DEF Outcome, Outcomes
        <3> QED BY <3>7, <3>8 DEF Grown
    <2> QED BY <2>1, <2>2
<1>10. CASE FleetStep
    BY <1>2, <1>10 DEF FleetStep, Crash, Stop, Gone, Start, Suspend, Report, Resume, fanVars
<1>11. CASE UNCHANGED vars
    BY <1>2, <1>11 DEF vars, fanVars
<1> QED BY <1>3, <1>4, <1>5, <1>6, <1>7, <1>8, <1>9, <1>10, <1>11 DEF Next, DispatcherStep

LEMMA UndisturbedBefore ==
    ASSUME PlaceInv, PlaceInv', [Next]_vars, Undisturbed'
    PROVE  /\ Undisturbed
           /\ churn' = 0
           /\ \A l \in Ids : sent[l] # <<>> => sent'[l] = sent[l]
<1>1. FlowInv /\ FlowInv' /\ Grown
    BY StepGrown DEF PlaceInv
<1>2. churn \in Nat /\ churn' \in Nat
    BY <1>1, LabelFlowAssumption DEF FlowInv
<1>3. churn' = 0
    BY DEF Undisturbed
<1>4. churn = 0
    BY <1>1, <1>2, <1>3 DEF Grown
<1>5. ASSUME NEW l \in Ids
      PROVE  sent[l] \in {<<>>, <<"complete">>} /\ (sent[l] # <<>> => sent'[l] = sent[l])
    <2>1. sent'[l] \in {<<>>, <<"complete">>}
        BY DEF Undisturbed
    <2>2. CASE sent'[l] = sent[l]
        BY <2>1, <2>2
    <2>3. ASSUME NEW x \in Outcomes, sent'[l] = Append(sent[l], x) PROVE sent[l] = <<>>
        BY <1>1, <2>1, <2>3, AppendOnce DEF FlowInv
    <2> QED BY <1>1, <2>2, <2>3 DEF Grown
<1>6. ASSUME NEW l \in Ids, fanbox[l] = "error" PROVE FALSE
    <2>1. fanbox'[l] # "error"
        BY DEF Undisturbed
    <2>2. fanout[l] # {} /\ \A m \in fanout[l] : sent'[m] = Append(sent[m], "error")
        BY <1>1, <1>6, <2>1 DEF Grown
    <2>3. PICK m \in fanout[l] : m \in Ids
        BY <1>1, <2>2 DEF FlowInv, Units
    <2>4. Append(sent[m], "error") \in {<<>>, <<"complete">>}
        BY <2>2, <2>3 DEF Undisturbed
    <2> QED BY <1>1, <2>3, <2>4, AppendOnce DEF FlowInv, Outcomes
<1> QED BY <1>3, <1>4, <1>5, <1>6 DEF Undisturbed

-----------------------------------------------------------------------------
(* What a step does to the units a worker holds *)

\* A message is added to what its worker holds.
LEMMA SendHolds ==
    ASSUME FlowInv, NEW w \in Workers, NEW m, Send(w, m), UNCHANGED exec,
           \A v \in Workers : \A i \in DOMAIN queue[v] :
               queue[v][i].composite => pack'[queue[v][i].id] = pack[queue[v][i].id]
    PROVE  /\ \A v \in Workers : \A u : Holding(u, queue[v], pack, exec[v]) =>
                                        Holding(u, queue'[v], pack', exec'[v])
           /\ w \in alive => \A u \in (IF m.composite THEN pack'[m.id] ELSE {m.unit}) :
                                Holding(u, queue'[w], pack', exec'[w])
           /\ \A v \in Workers : \A u : Alone(u, queue'[v], exec'[v]) =>
                    Alone(u, queue[v], exec[v]) \/ (v = w /\ ~m.composite /\ u = m.unit)
<1>1. queue \in [Workers -> Seq(FilledMessages)]
    BY DEF FlowInv
<1>2. CASE queue' = queue
    <2>1. w \notin alive
        <3> SUFFICES ASSUME w \in alive, queue' = [queue EXCEPT ![w] = Append(@, m)] PROVE FALSE
            BY DEF Send
        <3>1. Len(Append(queue[w], m)) = Len(queue[w]) + 1 /\ Len(queue[w]) \in Nat
            BY <1>1
        <3>2. queue[w] = Append(queue[w], m)
            BY <1>1, <1>2
        <3> QED BY <3>1, <3>2
    <2> QED BY <1>2, <2>1 DEF Holding, Alone
<1>3. CASE queue' # queue
    <2>1. queue' = [queue EXCEPT ![w] = Append(@, m)]
        BY <1>3 DEF Send
    <2> DEFINE q == queue[w]
    <2>2. /\ queue'[w] = Append(q, m) /\ q \in Seq(FilledMessages)
          /\ \A v \in Workers \ {w} : queue'[v] = queue[v]
        BY <1>1, <2>1
    <2>3. /\ DOMAIN q = 1 .. Len(q) /\ Len(q) \in Nat
          /\ DOMAIN Append(q, m) = 1 .. (Len(q) + 1)
          /\ Append(q, m)[Len(q) + 1] = m
          /\ \A i \in DOMAIN q : Append(q, m)[i] = q[i]
        BY <2>2
    <2> HIDE DEF q
    <2>4. ASSUME NEW v \in Workers, NEW i \in DOMAIN queue[v]
          PROVE  i \in DOMAIN queue'[v] /\ queue'[v][i] = queue[v][i]
        <3>1. CASE v = w
            BY <2>2, <2>3, <2>4, <3>1 DEF q
        <3>2. CASE v # w
            BY <2>2, <2>4, <3>2
        <3> QED BY <3>1, <3>2
    <2>5. ASSUME NEW v \in Workers, NEW i \in DOMAIN queue'[v]
          PROVE  (i \in DOMAIN queue[v] /\ queue'[v][i] = queue[v][i]) \/ (v = w /\ queue'[v][i] = m)
        <3>1. CASE v = w
            <4>1. i \in 1 .. (Len(q) + 1)
                BY <2>2, <2>3, <2>5, <3>1
            <4>2. i \in DOMAIN q \/ i = Len(q) + 1
                BY <2>3, <4>1
            <4> QED BY <2>2, <2>3, <3>1, <4>2 DEF q
        <3>2. CASE v # w
            BY <2>2, <2>5, <3>2
        <3> QED BY <3>1, <3>2
    <2>6. Len(q) + 1 \in DOMAIN queue'[w] /\ queue'[w][Len(q) + 1] = m
        BY <2>2, <2>3
    <2>7. ASSUME NEW v \in Workers, NEW u, Holding(u, queue[v], pack, exec[v])
          PROVE  Holding(u, queue'[v], pack', exec'[v])
        <3>1. CASE u \in exec[v].todo \/ (Current(exec[v]) /\ u = exec[v].unit)
            BY <3>1 DEF Holding
        <3>2. ASSUME NEW i \in DOMAIN queue[v],
                     u \in (IF queue[v][i].composite THEN pack[queue[v][i].id] ELSE {queue[v][i].unit})
              PROVE  Holding(u, queue'[v], pack', exec'[v])
            <4>1. u \in (IF queue'[v][i].composite THEN pack'[queue'[v][i].id] ELSE {queue'[v][i].unit})
                BY <2>4, <3>2
            <4> QED BY <2>4, <3>2, <4>1 DEF Holding
        <3> QED BY <2>7, <3>1, <3>2 DEF Holding
    <2>8. \A u \in (IF m.composite THEN pack'[m.id] ELSE {m.unit}) :
              Holding(u, queue'[w], pack', exec'[w])
        BY <2>6 DEF Holding
    <2>9. ASSUME NEW v \in Workers, NEW u, Alone(u, queue'[v], exec'[v])
          PROVE  Alone(u, queue[v], exec[v]) \/ (v = w /\ ~m.composite /\ u = m.unit)
        BY <2>5, <2>9 DEF Alone
    <2> QED BY <2>7, <2>8, <2>9
<1> QED BY <1>2, <1>3

\* The composite of a supertask still to be sent bears an id of its own.
LEMMA NewComposite ==
    ASSUME PlaceInv, NEW st \in supertasks,
           NEW v \in Workers, NEW i \in DOMAIN queue[v], queue[v][i].composite
    PROVE  queue[v][i].id # CompositeId(req, st)
<1>1. FlowInv
    BY DEF PlaceInv
<1>2. PICK at, on, unit, team : Placed(at, on, unit, team)
    BY DEF PlaceInv, Somewhere
<1>3. st \subseteq Filled /\ st # {}
    BY <1>1 DEF FlowInv
<1>4. at[CompositeId(req, st)] = "super"
    BY <1>1, <1>2, <1>3, CompositeLead DEF Placed, InSupertasks, Stand
<1>5. at[queue[v][i].id] = "queued"
    BY <1>1, <1>2, CompositeQueued
<1> QED BY <1>4, <1>5

\* So does one that is closed.
LEMMA ClosedComposite ==
    ASSUME PlaceInv, NEW w \in Workers, exec[w].phase = "next",
           NEW v \in Workers, NEW i \in DOMAIN queue[v], queue[v][i].composite
    PROVE  queue[v][i].id # exec[w].id
<1>1. PICK at, on, unit, team : Placed(at, on, unit, team)
    BY DEF PlaceInv, Somewhere
<1>2. InHandler(exec[w], w, at, on, unit, team)
    BY <1>1 DEF Placed, InHands
<1>3. at[exec[w].id] \in {"todo", "exec", "ran", "done"}
    BY <1>2 DEF InHandler
<1>4. at[queue[v][i].id] = "queued"
    BY <1>1, CompositeQueued DEF PlaceInv
<1> QED BY <1>3, <1>4

\* The first message moves from the queue to the handler.
LEMMA TakeHolds ==
    ASSUME PlaceInv, NEW w \in Workers, Take(w)
    PROVE  /\ \A v \in Workers : \A u : Holding(u, queue[v], pack, exec[v]) =>
                                        Holding(u, queue'[v], pack', exec'[v])
           /\ \A v \in Workers : \A u : Alone(u, queue'[v], exec'[v]) =>
                                        Alone(u, queue[v], exec[v])
<1>1. FlowInv
    BY DEF PlaceInv
<1>2. PICK at, on, unit, team : Placed(at, on, unit, team)
    BY DEF PlaceInv, Somewhere
<1>3. PICK q, m : q = queue[w] /\ m = q[1]
    OBVIOUS
<1>4. q \in Seq(FilledMessages) /\ 1 \in DOMAIN q /\ Head(q) = m
    BY <1>1, <1>3 DEF FlowInv, Take
<1>5. exec[w].phase = "idle" /\ InHandler(exec[w], w, at, on, unit, team)
    BY <1>2 DEF Take, Placed, InHands
<1>6. exec[w].todo = {} /\ ~Current(exec[w])
    BY <1>5 DEF InHandler, Idle, Current
<1>7. exec'[w] = TakenHandler(m) /\ \A v \in Workers \ {w} : exec'[v] = exec[v]
    BY <1>1, <1>3, <1>4, TakeOwn
<1>8. /\ queue'[w] = Tail(q) /\ \A v \in Workers \ {w} : queue'[v] = queue[v]
      /\ pack' = pack
    BY <1>1, <1>3 DEF FlowInv, Take
<1>9. /\ DOMAIN q = 1 .. Len(q) /\ Len(q) \in Nat
      /\ DOMAIN Tail(q) = 1 .. (Len(q) - 1)
      /\ \A j \in DOMAIN Tail(q) : Tail(q)[j] = q[j + 1]
    BY <1>4
<1>10. ASSUME NEW i \in DOMAIN q, i # 1
       PROVE  \E j \in DOMAIN Tail(q) : Tail(q)[j] = q[i]
    <2>1. i - 1 \in DOMAIN Tail(q) /\ i - 1 + 1 = i
        BY <1>9, <1>10
    <2> QED BY <1>9, <2>1
<1>11. ASSUME NEW j \in DOMAIN Tail(q)
       PROVE  \E i \in DOMAIN q : Tail(q)[j] = q[i]
    <2>1. j + 1 \in DOMAIN q
        BY <1>9, <1>11
    <2> QED BY <1>9, <2>1
<1>12. PICK g : g = exec'[w]
    OBVIOUS
<1>13. IF m.composite THEN g.todo = pack[m.id] /\ ~Current(g)
                      ELSE Current(g) /\ ~g.composite /\ g.unit = m.unit
    BY <1>7, <1>12 DEF TakenHandler, Current
<1>14. ASSUME NEW u, Holding(u, q, pack, exec[w])
       PROVE  Holding(u, Tail(q), pack, g)
    <2>1. PICK i \in DOMAIN q : u \in (IF q[i].composite THEN pack[q[i].id] ELSE {q[i].unit})
        BY <1>6, <1>14 DEF Holding
    <2>2. CASE i = 1
        BY <1>3, <1>13, <2>1, <2>2 DEF Holding
    <2>3. CASE i # 1
        BY <1>10, <2>1, <2>3 DEF Holding
    <2> QED BY <2>2, <2>3
<1>15. ASSUME NEW u, Alone(u, Tail(q), g)
       PROVE  Alone(u, q, exec[w])
    <2>1. CASE \E j \in DOMAIN Tail(q) : ~Tail(q)[j].composite /\ u = Tail(q)[j].unit
        BY <1>11, <2>1 DEF Alone
    <2>2. CASE Current(g) /\ ~g.composite /\ u = g.unit
        BY <1>3, <1>4, <1>13, <2>2 DEF Alone
    <2> QED BY <1>15, <2>1, <2>2 DEF Alone
<1>16. ASSUME NEW v \in Workers, NEW u, Holding(u, queue[v], pack, exec[v])
       PROVE  Holding(u, queue'[v], pack', exec'[v])
    <2>1. CASE v = w
        BY <1>3, <1>8, <1>12, <1>14, <1>16, <2>1
    <2>2. CASE v # w
        BY <1>7, <1>8, <1>16, <2>2
    <2> QED BY <2>1, <2>2
<1>17. ASSUME NEW v \in Workers, NEW u, Alone(u, queue'[v], exec'[v])
       PROVE  Alone(u, queue[v], exec[v])
    <2>1. CASE v = w
        BY <1>3, <1>8, <1>12, <1>15, <1>17, <2>1
    <2>2. CASE v # w
        BY <1>7, <1>8, <1>17, <2>2
    <2> QED BY <2>1, <2>2
<1> QED BY <1>16, <1>17

\* A worker lets go of a unit when it has answered for it, and of all children of a
\* composite when it has answered "error" for one.
Released(w, u) ==
    Answer(w) /\ (u = exec[w].unit \/ (exec[w].composite /\ ~exec[w].ok))

LEMMA WorkerHolds ==
    ASSUME PlaceInv, NEW w \in Workers, WorkerStep(w)
    PROVE  /\ \A v \in Workers : \A u : Holding(u, queue[v], pack, exec[v]) =>
                  Holding(u, queue'[v], pack', exec'[v]) \/ (v = w /\ Released(w, u))
           /\ \A v \in Workers : \A u : Alone(u, queue'[v], exec'[v]) =>
                                        Alone(u, queue[v], exec[v])
<1>1. FlowInv
    BY DEF PlaceInv
<1>2. PICK at, on, unit, team : Placed(at, on, unit, team)
    BY DEF PlaceInv, Somewhere
<1>3. InHandler(exec[w], w, at, on, unit, team)
    BY <1>2 DEF Placed, InHands
<1>4. PICK h, g : h = exec[w] /\ g = exec'[w]
    OBVIOUS
<1> DEFINE Kept == /\ UNCHANGED queue
                   /\ \A v \in Workers \ {w} : exec'[v] = exec[v]
                   /\ \A v \in Workers : \A i \in DOMAIN queue[v] :
                          queue[v][i].composite => pack'[queue[v][i].id] = pack[queue[v][i].id]
                   /\ \A u : u \in h.todo \/ (Current(h) /\ u = h.unit) =>
                          u \in g.todo \/ (Current(g) /\ u = g.unit) \/ Released(w, u)
                   /\ Current(g) /\ ~g.composite =>
                          Current(h) /\ ~h.composite /\ g.unit = h.unit
<1>5. ASSUME Kept
      PROVE  /\ \A v \in Workers : \A u : Holding(u, queue[v], pack, exec[v]) =>
                    Holding(u, queue'[v], pack', exec'[v]) \/ (v = w /\ Released(w, u))
             /\ \A v \in Workers : \A u : Alone(u, queue'[v], exec'[v]) =>
                                          Alone(u, queue[v], exec[v])
    <2>1. ASSUME NEW v \in Workers, NEW u, Holding(u, queue[v], pack, exec[v]),
                 ~(v = w /\ Released(w, u))
          PROVE  Holding(u, queue'[v], pack', exec'[v])
        <3>1. CASE \E i \in DOMAIN queue[v] :
                      u \in (IF queue[v][i].composite THEN pack[queue[v][i].id] ELSE {queue[v][i].unit})
            <4>1. PICK i \in DOMAIN queue[v] :
                      u \in (IF queue[v][i].composite THEN pack[queue[v][i].id] ELSE {queue[v][i].unit})
                BY <3>1
            <4>2. /\ i \in DOMAIN queue'[v]
                  /\ u \in (IF queue'[v][i].composite THEN pack'[queue'[v][i].id] ELSE {queue'[v][i].unit})
                BY <1>5, <4>1
            <4> QED BY <4>2 DEF Holding
        <3>2. CASE u \in exec[v].todo \/ (Current(exec[v]) /\ u = exec[v].unit)
            <4>1. CASE v = w
                BY <1>4, <1>5, <2>1, <3>2, <4>1 DEF Holding
            <4>2. CASE v # w
                BY <1>5, <3>2, <4>2 DEF Holding
            <4> QED BY <4>1, <4>2
        <3> QED BY <2>1, <3>1, <3>2 DEF Holding
    <2>2. ASSUME NEW v \in Workers, NEW u, Alone(u, queue'[v], exec'[v])
          PROVE  Alone(u, queue[v], exec[v])
        <3>1. CASE v = w
            BY <1>4, <1>5, <2>2, <3>1 DEF Alone
        <3>2. CASE v # w
            BY <1>5, <2>2, <3>2 DEF Alone
        <3> QED BY <3>1, <3>2
    <2> QED BY <2>1, <2>2
<1>6. CASE Take(w)
    BY <1>6, TakeHolds
<1>7. CASE NextChild(w)
    <2>1. PICK u : u = FirstChild(req, h.todo)
        OBVIOUS
    <2>2. /\ h.phase = "next" /\ UNCHANGED <<queue, pack>>
        BY <1>4, <1>7 DEF NextChild
    <2>3. /\ g.phase = "begun" /\ g.unit = u /\ g.todo = h.todo \ {u}
          /\ g.composite = h.composite
          /\ \A v \in Workers \ {w} : exec'[v] = exec[v]
        BY <1>1, <1>4, <1>7, <2>1, NextChildOwn
    <2>4. h.composite
        BY <1>3, <1>4, <2>2 DEF InHandler
    <2>5. Kept
        BY <2>2, <2>3, <2>4 DEF Current
    <2> QED BY <1>5, <2>5
<1>8. CASE Performs(w) \/ Settle(w)
    <2>1. /\ UNCHANGED <<queue, pack>>
          /\ Advanced(w, "begun", "performed") \/ Advanced(w, "performed", "settled")
        <3>1. CASE Performs(w)
            BY <1>1, <3>1, PerformsOwn
        <3>2. CASE Settle(w)
            BY <1>1, <3>2, HandlerIds DEF Settle, Advanced, FlowInv, Handlers
        <3> QED BY <1>8, <3>1, <3>2
    <2>2. Kept
        BY <1>4, <2>1 DEF Advanced, Current
    <2> QED BY <1>5, <2>2
<1>9. CASE Answer(w)
    <2>1. /\ h.phase = "settled" /\ UNCHANGED <<queue, pack>>
          /\ \A v \in Workers \ {w} : exec'[v] = exec[v]
          /\ \/ g = Idle
             \/ h.composite /\ h.ok /\ g.phase = "next" /\ g.todo = h.todo
        BY <1>1, <1>4, <1>9, AnswerOwn
    <2>2. ASSUME ~(h.composite /\ h.ok)
          PROVE  h.todo = {} \/ (h.composite /\ ~h.ok)
        BY <1>3, <1>4, <2>2 DEF InHandler
    <2>3. g = Idle => ~(h.composite /\ h.ok)
        BY <1>4, <1>1, <1>9, HandlerIds DEF Answer, FlowInv, Handlers, Idle
    <2>4. Kept
        BY <1>4, <1>9, <2>1, <2>2, <2>3 DEF Current, Idle, Released
    <2> QED BY <1>5, <2>4
<1>10. CASE CloseComposite(w)
    <2>1. /\ h.phase = "next" /\ h.todo = {} /\ UNCHANGED queue
          /\ pack' = [pack EXCEPT ![h.id] = {}]
          /\ g = Idle /\ \A v \in Workers \ {w} : exec'[v] = exec[v]
        BY <1>1, <1>4, <1>10 DEF CloseComposite, FlowInv
    <2>2. \A v \in Workers : \A i \in DOMAIN queue[v] :
              queue[v][i].composite => pack'[queue[v][i].id] = pack[queue[v][i].id]
        <3> TAKE v \in Workers
        <3> TAKE i \in DOMAIN queue[v]
        <3> HAVE queue[v][i].composite
        <3>1. queue[v][i].id # h.id
            BY <1>4, <2>1, ClosedComposite
        <3> QED BY <1>1, <2>1, <3>1 DEF FlowInv
    <2>3. Kept
        BY <2>1, <2>2 DEF Current, Idle
    <2> QED BY <1>5, <2>3
<1> QED BY <1>6, <1>7, <1>8, <1>9, <1>10 DEF WorkerStep, Performs

-----------------------------------------------------------------------------
(* A fanout thread waits for every merged unit *)

\* The labels of a unit on its own are with its worker.
LEMMA AlonePlace ==
    ASSUME FlowInv, NEW at, NEW on, NEW unit, NEW team, Placed(at, on, unit, team),
           NEW w \in Workers, NEW u \in Filled, Alone(u, queue[w], exec[w])
    PROVE  Lead(u) \in Ids /\ at[Lead(u)] \in {"queued", "exec", "ran"}
<1>1. Lead(u) \in u /\ u \subseteq Ids
    BY UnitIds
<1>2. CASE \E i \in DOMAIN queue[w] : ~queue[w][i].composite /\ u = queue[w][i].unit
    <2>1. PICK i \in DOMAIN queue[w] : ~queue[w][i].composite /\ u = queue[w][i].unit
        BY <1>2
    <2>2. InMessage(queue[w][i], w, at, on, unit, team)
        BY <2>1 DEF Placed, InQueues
    <2>3. Stand(u, "queued", at, unit)
        BY <2>1, <2>2 DEF InMessage, Carried
    <2> QED BY <1>1, <2>3 DEF Stand
<1>3. CASE Current(exec[w]) /\ u = exec[w].unit
    <2>1. InHandler(exec[w], w, at, on, unit, team)
        BY DEF Placed, InHands
    <2>2. Stand(u, IF exec[w].phase = "begun" THEN "exec" ELSE "ran", at, unit)
        BY <1>3, <2>1 DEF InHandler
    <2> QED BY <1>1, <2>2 DEF Stand
<1> QED BY <1>2, <1>3 DEF Alone

\* Combining a unit starts its own fanout thread and touches no other.
LEMMA CombineFanout ==
    ASSUME PlaceInv, NEW u \in independent, CombineUnit(u)
    PROVE  /\ Merged(u) => fanout'[Lead(u)] = u
           /\ \A w \in Workers : \A x \in Filled :
                  Alone(x, queue[w], exec[w]) => fanout'[Lead(x)] = fanout[Lead(x)]
<1>1. FlowInv
    BY DEF PlaceInv
<1>2. PICK at, on, unit, team : Placed(at, on, unit, team)
    BY DEF PlaceInv, Somewhere
<1>3. u \in Filled
    BY <1>1 DEF FlowInv
<1>4. Lead(u) \in u /\ Lead(u) \in Ids /\ at[Lead(u)] = "free"
    BY <1>1, <1>2, <1>3, UnitIds DEF Placed, InIndependent, Stand
<1>5. fanout' = fanout \/ (Merged(u) /\ fanout' = [fanout EXCEPT ![Lead(u)] = u])
    BY DEF CombineUnit
<1>6. Merged(u) => fanout'[Lead(u)] = u
    BY <1>1, <1>4 DEF CombineUnit, FlowInv
<1>7. ASSUME NEW w \in Workers, NEW x \in Filled, Alone(x, queue[w], exec[w])
      PROVE  fanout'[Lead(x)] = fanout[Lead(x)]
    <2>1. Lead(x) \in Ids /\ at[Lead(x)] \in {"queued", "exec", "ran"}
        BY <1>1, <1>2, <1>7, AlonePlace
    <2> QED BY <1>1, <1>4, <1>5, <2>1 DEF FlowInv
<1> QED BY <1>6, <1>7

LEMMA SteadyInit == Init => SteadyInv
<1> SUFFICES ASSUME Init PROVE SteadyInv
    OBVIOUS
<1>1. AllAlive
    BY DEF Init, AllAlive
<1>2. \A w \in Workers : queue[w] = <<>> /\ ~Current(exec[w])
    BY DEF Init, Idle, Current
<1>3. \A w \in Workers : \A u : ~Alone(u, queue[w], exec[w])
    BY <1>2 DEF Alone
<1> QED BY <1>1, <1>3 DEF SteadyInv, FanoutWaits

\* No step but a disturbance breaks it.
LEMMA SteadyStep ==
    ASSUME PlaceInv, SteadyInv, [Next]_vars
    PROVE  SteadyInv'
<1>1. FlowInv /\ Truthful
    BY DEF PlaceInv
<1>2. PICK at, on, unit, team : Placed(at, on, unit, team)
    BY DEF PlaceInv, Somewhere
<1>3. churn' # 0 => SteadyInv'
    BY DEF SteadyInv, AllAlive, FanoutWaits
<1>4. CASE churn' = churn + 1
    BY <1>1, <1>3, <1>4, LabelFlowAssumption DEF FlowInv
<1>5. ASSUME churn' = churn, UNCHANGED <<alive, req>>,
             churn = 0 => \A w \in Workers : \A u \in Filled :
                 Alone(u, queue'[w], exec'[w]) /\ Merged(u) => fanout'[Lead(u)] = u
      PROVE  SteadyInv'
    <2>1. AllAlive'
        BY <1>5 DEF SteadyInv, AllAlive
    <2>2. Workers' = Workers /\ Filled' = Filled /\ \A u : Lead(u)' = Lead(u)
        BY <1>5 DEF Lead, Filled, Units, Ids
    <2>3. FanoutWaits'
        BY <1>5, <2>2 DEF FanoutWaits
    <2> QED BY <2>1, <2>3 DEF SteadyInv
<1>6. CASE UNCHANGED <<churn, alive, req, queue, exec, fanout>>
    BY <1>5, <1>6 DEF SteadyInv, FanoutWaits
<1>7. CASE ClientStep
    BY <1>4, <1>6, <1>7 DEF ClientStep, Publish, Receive, ReplyTimeout, fanVars, workerVars, fleetVars
<1>8. CASE DropBatch \/ CollectBatch
    BY <1>6, <1>8 DEF DropBatch, CollectBatch, fanVars, workerVars, fleetVars
<1>9. CASE Requery \/ RefreshWorkers
    BY <1>4, <1>6, <1>9 DEF Requery, RefreshWorkers, QueryWorkers, fanVars, workerVars, fleetVars
<1>10. ASSUME NEW p \in direct_route, RouteDirect(p) PROVE SteadyInv'
    <2>1. PICK m : m = [id |-> Lead(p[1]), composite |-> FALSE, unit |-> p[1]]
        OBVIOUS
    <2>2. /\ Send(p[2], m) /\ UNCHANGED <<churn, alive, req, exec, pack, fanout>>
        BY <1>10, <2>1 DEF RouteDirect, fanVars, fleetVars
    <2>3. p[1] \in Filled /\ p[2] \in Workers
        BY <1>1 DEF FlowInv
    <2>4. ~Merged(p[1])
        <3> SUFFICES ASSUME Merged(p[1]) PROVE FALSE
            OBVIOUS
        <3>1. /\ Stand(p[1], "direct", at, unit)
              /\ \A l \in p[1] : req[l].type = "Read"
            BY <1>2 DEF Placed, InDirect
        <3>2. "direct" \in Places \ {"new", "buffer"}
            BY DEF Places, Waiting
        <3>3. \A l \in p[1] : req[l].type = "Write"
            BY <1>1, <1>2, <2>3, <3>1, <3>2, MergedWrites DEF IsWrite
        <3> QED BY <2>3, <3>1, <3>3 DEF Filled
    <2>5. \A v \in Workers : \A u : Alone(u, queue'[v], exec'[v]) =>
              Alone(u, queue[v], exec[v]) \/ u = p[1]
        BY <1>1, <2>1, <2>2, <2>3, SendHolds
    <2> QED BY <1>5, <2>2, <2>4, <2>5 DEF SteadyInv, FanoutWaits
<1>11. ASSUME NEW st \in supertasks, NEW w \in Workers, RouteSupertask(st, w) PROVE SteadyInv'
    <2>1. PICK m : m = [id |-> CompositeId(req, st), composite |-> TRUE, unit |-> {}]
        OBVIOUS
    <2>2. /\ Send(w, m) /\ UNCHANGED <<churn, alive, req, exec, fanout>>
          /\ pack' = [pack EXCEPT ![CompositeId(req, st)] = st]
        BY <1>11, <2>1 DEF RouteSupertask, PackChildren, fanVars, fleetVars
    <2>3. \A v \in Workers : \A i \in DOMAIN queue[v] :
              queue[v][i].composite => pack'[queue[v][i].id] = pack[queue[v][i].id]
        BY <1>1, <2>2, NewComposite DEF FlowInv
    <2>4. \A v \in Workers : \A u : Alone(u, queue'[v], exec'[v]) => Alone(u, queue[v], exec[v])
        BY <1>1, <2>1, <2>2, <2>3, SendHolds
    <2> QED BY <1>5, <2>2, <2>4 DEF SteadyInv, FanoutWaits
<1>12. ASSUME NEW x \in independent, NEW w \in Workers, RouteIndependent(x, w) PROVE SteadyInv'
    <2>1. PICK m : m = [id |-> Lead(x), composite |-> FALSE, unit |-> x]
        OBVIOUS
    <2>2. /\ Send(w, m) /\ UNCHANGED <<churn, alive, req, exec, pack>> /\ CombineUnit(x)
        BY <1>12, <2>1 DEF RouteIndependent, fleetVars
    <2>3. \A v \in Workers : \A u : Alone(u, queue'[v], exec'[v]) =>
              Alone(u, queue[v], exec[v]) \/ u = x
        BY <1>1, <2>1, <2>2, SendHolds
    <2>4. /\ Merged(x) => fanout'[Lead(x)] = x
          /\ \A v \in Workers : \A u \in Filled :
                  Alone(u, queue[v], exec[v]) => fanout'[Lead(u)] = fanout[Lead(u)]
        BY <2>2, CombineFanout
    <2> QED BY <1>5, <2>2, <2>3, <2>4 DEF SteadyInv, FanoutWaits
<1>13. CASE NoWorkerFor
    <2>1. UNCHANGED <<churn, alive, req, queue, exec>>
        BY <1>13 DEF NoWorkerFor, workerVars, fleetVars
    <2>2. CASE UNCHANGED fanout
        BY <1>6, <2>1, <2>2
    <2>3. ASSUME NEW x \in independent, CombineUnit(x) PROVE SteadyInv'
        <3>1. \A v \in Workers : \A u \in Filled :
                  Alone(u, queue[v], exec[v]) => fanout'[Lead(u)] = fanout[Lead(u)]
            BY <2>3, CombineFanout
        <3> QED BY <1>5, <2>1, <3>1 DEF SteadyInv, FanoutWaits
    <2> QED BY <1>13, <2>2, <2>3 DEF NoWorkerFor
<1>14. CASE ScheduleDirect \/ ScheduleIndependent
    BY <1>6, <1>14 DEF ScheduleDirect, ScheduleIndependent, fanVars, workerVars, fleetVars
<1>15. ASSUME NEW l \in Ids, FanOut(l) PROVE SteadyInv'
    <2>1. /\ fanbox[l] # "none" /\ fanout' = [fanout EXCEPT ![l] = {}]
          /\ UNCHANGED <<churn, alive, req, queue, exec>>
        BY <1>15 DEF FanOut, workerVars, fleetVars
    <2>2. fanout[l] # {}
        BY <1>1, <2>1 DEF Truthful, FanoutTruthful
    <2>3. at[l] = "done"
        BY <1>2, <2>1, <2>2 DEF Placed, InFanout
    <2>4. ASSUME NEW v \in Workers, NEW u \in Filled, Alone(u, queue[v], exec[v])
          PROVE  fanout'[Lead(u)] = fanout[Lead(u)]
        <3>1. Lead(u) \in Ids /\ Lead(u) # l
            BY <1>1, <1>2, <2>3, <2>4, AlonePlace
        <3> QED BY <1>1, <2>1, <3>1 DEF FlowInv
    <2> QED BY <1>5, <2>1, <2>4 DEF SteadyInv, FanoutWaits
<1>16. ASSUME NEW l \in Ids, FanOutTimeout(l) PROVE SteadyInv'
    BY <1>4, <1>16 DEF FanOutTimeout
<1>17. ASSUME NEW w \in Workers, WorkerStep(w) PROVE SteadyInv'
    <2>1. UNCHANGED <<churn, alive, req, fanout>>
        BY <1>17 DEF WorkerStep, Take, NextChild, PerformWrite, PerformRead, PerformFails,
                     Settle, Answer, CloseComposite, fanVars, fleetVars
    <2>2. \A v \in Workers : \A u : Alone(u, queue'[v], exec'[v]) => Alone(u, queue[v], exec[v])
        BY <1>17, WorkerHolds
    <2> QED BY <1>5, <2>1, <2>2 DEF SteadyInv, FanoutWaits
<1>18. CASE FleetStep
    BY <1>4, <1>6, <1>18 DEF FleetStep, Crash, Stop, Gone, Start, Suspend, Report, Resume,
                             fanVars, workerVars
<1>19. CASE UNCHANGED vars
    BY <1>6, <1>19 DEF vars, fanVars, workerVars, fleetVars
<1> QED BY <1>7, <1>8, <1>9, <1>10, <1>11, <1>12, <1>13, <1>14, <1>15, <1>16, <1>17, <1>18, <1>19
        DEF Next, DispatcherStep, RouteStep

-----------------------------------------------------------------------------
(* Nothing is dropped *)

\* A handler that failed says so to somebody.
LEMMA ErrorIsTold ==
    ASSUME PlaceInv, PlaceInv', SteadyInv, NEW w \in Workers, Answer(w), Undisturbed'
    PROVE  exec[w].ok
<1>1. FlowInv /\ FlowInv'
    BY DEF PlaceInv
<1>2. PICK u, k : u = exec[w].unit /\ k = Lead(u)
    OBVIOUS
<1>3. PICK at, on, unit, team : Placed(at, on, unit, team)
    BY DEF PlaceInv, Somewhere
<1>4. /\ exec[w].phase = "settled" /\ churn = 0
      /\ InHandler(exec[w], w, at, on, unit, team)
    BY <1>3 DEF Answer, Undisturbed, Placed, InHands
<1>5. u \in Filled /\ k \in Ids
    <2>1. u # {} /\ u \subseteq Ids
        BY <1>1, <1>2, <1>4, HandlerIds DEF InHandler, Current
    <2>2. u \in Filled
        BY <2>1 DEF Filled, Units
    <2> QED BY <1>1, <1>2, <2>2, UnitIds
<1>6. Outcome(w) \in Outcomes /\ (Outcome(w) = "complete" => exec[w].ok)
    BY DEF Outcome, Outcomes
<1>7. CASE sent' = [sent EXCEPT ![k] = Append(@, Outcome(w))]
    <2>1. Append(sent[k], Outcome(w)) \in {<<>>, <<"complete">>}
        BY <1>1, <1>5, <1>7 DEF Undisturbed, FlowInv
    <2> QED BY <1>1, <1>5, <1>6, <2>1, AppendOnce DEF FlowInv
<1>8. CASE /\ Merged(u) /\ ~exec[w].composite
           /\ fanbox' = [fanbox EXCEPT ![k] = IF fanout[k] = {} THEN @ ELSE Outcome(w)]
    <2>1. Alone(u, queue[w], exec[w])
        BY <1>2, <1>4, <1>8 DEF Alone, Current
    <2>2. fanout[k] = u
        BY <1>2, <1>4, <1>5, <1>8, <2>1 DEF SteadyInv, FanoutWaits
    <2>3. fanbox'[k] = Outcome(w)
        BY <1>1, <1>5, <1>8, <2>2 DEF FlowInv, Filled
    <2>4. Outcome(w) # "error"
        BY <1>5, <2>3 DEF Undisturbed
    <2> QED BY <1>6, <2>4 DEF Outcomes
<1> QED BY <1>1, <1>2, <1>7, <1>8, Completed

\* What a worker holds it holds until it has answered for it without an error.
LEMMA NothingDropped ==
    ASSUME PlaceInv, PlaceInv', SteadyInv, [Next]_vars, Undisturbed'
    PROVE  \A w \in Workers : \A u : Holding(u, queue[w], pack, exec[w]) =>
               \/ Holding(u, queue'[w], pack', exec'[w])
               \/ Answer(w) /\ u = exec[w].unit /\ exec[w].ok
<1> DEFINE Kept == \A w \in Workers : \A u : Holding(u, queue[w], pack, exec[w]) =>
                       \/ Holding(u, queue'[w], pack', exec'[w])
                       \/ Answer(w) /\ u = exec[w].unit /\ exec[w].ok
<1>1. FlowInv
    BY DEF PlaceInv
<1>2. churn = 0 /\ churn' = 0
    BY UndisturbedBefore DEF Undisturbed
<1>3. CASE churn' = churn + 1
    BY <1>2, <1>3
<1>4. CASE UNCHANGED <<queue, pack, exec>>
    BY <1>4
<1>5. CASE ClientStep
    BY <1>4, <1>5 DEF ClientStep, Publish, Receive, ReplyTimeout, workerVars
<1>6. CASE DropBatch \/ CollectBatch \/ Requery \/ RefreshWorkers
    BY <1>4, <1>6 DEF DropBatch, CollectBatch, Requery, RefreshWorkers, workerVars
<1>7. ASSUME NEW p \in direct_route, RouteDirect(p) PROVE Kept
    <2>1. PICK m : m = [id |-> Lead(p[1]), composite |-> FALSE, unit |-> p[1]]
        OBVIOUS
    <2>2. p[2] \in Workers /\ Send(p[2], m) /\ UNCHANGED <<exec, pack>>
        BY <1>1, <1>7, <2>1 DEF RouteDirect, FlowInv
    <2> QED BY <1>1, <2>2, SendHolds
<1>8. ASSUME NEW st \in supertasks, NEW w \in Workers, RouteSupertask(st, w) PROVE Kept
    <2>1. PICK m : m = [id |-> CompositeId(req, st), composite |-> TRUE, unit |-> {}]
        OBVIOUS
    <2>2. /\ Send(w, m) /\ UNCHANGED exec
          /\ pack' = [pack EXCEPT ![CompositeId(req, st)] = st]
        BY <1>8, <2>1 DEF RouteSupertask, PackChildren
    <2>3. \A v \in Workers : \A i \in DOMAIN queue[v] :
              queue[v][i].composite => pack'[queue[v][i].id] = pack[queue[v][i].id]
        BY <1>1, <2>2, NewComposite DEF FlowInv
    <2> QED BY <1>1, <2>2, <2>3, SendHolds
<1>9. ASSUME NEW x \in independent, NEW w \in Workers, RouteIndependent(x, w) PROVE Kept
    <2>1. PICK m : m = [id |-> Lead(x), composite |-> FALSE, unit |-> x]
        OBVIOUS
    <2>2. Send(w, m) /\ UNCHANGED <<exec, pack>>
        BY <1>9, <2>1 DEF RouteIndependent
    <2> QED BY <1>1, <2>2, SendHolds
<1>10. CASE NoWorkerFor \/ ScheduleDirect \/ ScheduleIndependent
    BY <1>4, <1>10 DEF NoWorkerFor, ScheduleDirect, ScheduleIndependent, workerVars
<1>11. ASSUME NEW l \in Ids, FanOut(l) \/ FanOutTimeout(l) PROVE Kept
    BY <1>4, <1>11 DEF FanOut, FanOutTimeout, workerVars
<1>12. ASSUME NEW w \in Workers, WorkerStep(w) PROVE Kept
    <2>1. ASSUME NEW u, Released(w, u) PROVE Answer(w) /\ u = exec[w].unit /\ exec[w].ok
        <3>1. exec[w].ok
            BY <2>1, ErrorIsTold DEF Released
        <3> QED BY <2>1, <3>1 DEF Released
    <2> QED BY <1>12, <2>1, WorkerHolds
<1>13. CASE FleetStep
    BY <1>3, <1>4, <1>13 DEF FleetStep, Crash, Stop, Gone, Start, Suspend, Report, Resume, workerVars
<1>14. CASE UNCHANGED vars
    BY <1>4, <1>14 DEF vars, workerVars
<1> QED BY <1>5, <1>6, <1>7, <1>8, <1>9, <1>10, <1>11, <1>12, <1>13, <1>14
        DEF Next, DispatcherStep, RouteStep

-----------------------------------------------------------------------------
(* Locations are backed *)

\* A file that was written has a byte: the model knows no empty files.
BytesWritten == \A q \in Requests : q.type = "Write" => q.len > 0

\* A write leaves a file behind.
LEMMA WriteMakesFile ==
    ASSUME BytesWritten, PlaceInv, NEW w \in Workers, PerformWrite(w),
           NEW f, f = UnitFile(req, exec[w].unit)
    PROVE  /\ f \in Files
           /\ \E c \in Cells : disk'[w][f][c] # 0
           /\ \A v \in Workers, g \in Files : v # w \/ g # f => disk'[v][g] = disk[v][g]
<1>1. FlowInv /\ Somewhere
    BY DEF PlaceInv
<1>2. PICK u, k, blob : u = exec[w].unit /\ k = Lead(u) /\ blob = staged[k]
    OBVIOUS
<1>3. /\ u \subseteq Ids /\ k \in u /\ k \in Ids /\ req[k].type = "Write" /\ k \in blob
      /\ blob \subseteq Ids
    BY <1>1, <1>2, BegunPayload DEF PerformWrite, UnitType, Lead, FlowInv, Units
<1>4. f \in Files
    BY <1>1, <1>2, <1>3, LabelRange DEF UnitFile, Lead, FlowInv
<1>5. disk' = [disk EXCEPT ![w][f] = PutBlob(w, f, Span(u).off, blob)]
    BY <1>2 DEF PerformWrite
<1>6. /\ disk'[w][f] = PutBlob(w, f, Span(u).off, blob)
      /\ \A v \in Workers, g \in Files : v # w \/ g # f => disk'[v][g] = disk[v][g]
    BY <1>1, <1>4, <1>5 DEF FlowInv
<1>7. PICK c : c = req[k].off
    OBVIOUS
<1>8. c \in Cells /\ c \in req[k].off .. (End(req[k]) - 1)
    <2>1. /\ req[k] \in Requests /\ req[k].off \in Nat /\ req[k].len \in Nat
          /\ req[k].len > 0 /\ End(req[k]) \in 0 .. FileSize /\ FileSize \in Nat
        BY <1>1, <1>3, LabelRange, LabelFlowAssumption DEF BytesWritten, FlowInv
    <2>2. req[k].off + 1 <= End(req[k])
        BY <2>1 DEF End
    <2> QED BY <1>7, <2>1, <2>2 DEF Cells
<1>9. PutBlob(w, f, Span(u).off, blob)[c] \in blob
    <2> DEFINE cell == {p \in blob : c \in req[p].off .. (End(req[p]) - 1)}
    <2>1. k \in cell
        BY <1>3, <1>8
    <2>2. PutBlob(w, f, Span(u).off, blob)[c] = CHOOSE p \in cell : TRUE
        BY <1>8, <2>1 DEF PutBlob
    <2>3. (CHOOSE p \in cell : TRUE) \in cell
        BY <2>1
    <2> QED BY <2>2, <2>3
<1>10. 0 \notin Ids
    BY LabelFlowAssumption DEF Ids
<1> QED BY <1>3, <1>4, <1>6, <1>8, <1>9, <1>10

\* Which steps touch files and handlers.
LEMMA OnlyWorkers ==
    ASSUME FlowInv, [Next]_vars
    PROVE  /\ UNCHANGED req
           /\ UNCHANGED disk \/ \E w \in Workers : PerformWrite(w)
           /\ \A w \in Workers : exec'[w] = exec[w] \/ exec'[w] = Idle \/ WorkerStep(w)
<1> DEFINE Goal == /\ UNCHANGED req
                   /\ UNCHANGED disk \/ \E w \in Workers : PerformWrite(w)
                   /\ \A w \in Workers : exec'[w] = exec[w] \/ exec'[w] = Idle \/ WorkerStep(w)
<1>1. CASE UNCHANGED <<req, disk, exec>>
    BY <1>1
<1>2. CASE ClientStep
    BY <1>1, <1>2 DEF ClientStep, Publish, Receive, ReplyTimeout, workerVars
<1>3. CASE DropBatch \/ CollectBatch \/ Requery \/ RefreshWorkers
    BY <1>1, <1>3 DEF DropBatch, CollectBatch, Requery, RefreshWorkers, workerVars
<1>4. CASE RouteStep
    BY <1>1, <1>4 DEF RouteStep, RouteDirect, RouteSupertask, RouteIndependent, NoWorkerFor,
                      ScheduleDirect, ScheduleIndependent, workerVars
<1>5. ASSUME NEW l \in Ids, FanOut(l) \/ FanOutTimeout(l) PROVE Goal
    BY <1>1, <1>5 DEF FanOut, FanOutTimeout, workerVars
<1>6. ASSUME NEW w \in Workers, WorkerStep(w) PROVE Goal
    <2>1. UNCHANGED req /\ (UNCHANGED disk \/ PerformWrite(w))
        BY <1>6 DEF WorkerStep, Take, NextChild, PerformRead, PerformFails, PerformWrite,
                    Settle, Answer, CloseComposite
    <2>2. \A v \in Workers \ {w} : exec'[v] = exec[v]
        BY <1>6 DEF FlowInv, WorkerStep, Take, NextChild, PerformRead, PerformFails, PerformWrite,
                    Settle, Answer, CloseComposite
    <2> QED BY <1>6, <2>1, <2>2
<1>7. CASE FleetStep
    <2>1. ASSUME NEW w \in Workers, Gone(w) PROVE Goal
        BY <2>1 DEF Gone, FlowInv
    <2> QED BY <1>1, <1>7, <2>1 DEF FleetStep, Crash, Stop, Start, Suspend, Report, Resume, workerVars
<1>8. CASE UNCHANGED vars
    BY <1>1, <1>8 DEF vars, workerVars
<1> QED BY <1>2, <1>3, <1>4, <1>5, <1>6, <1>7, <1>8 DEF Next, DispatcherStep

\* No file is ever lost.
LEMMA FilesStay ==
    ASSUME BytesWritten, PlaceInv, [Next]_vars, NEW w \in Workers, NEW f \in Files,
           FileExists(w, f)
    PROVE  FileExists(w, f)'
<1>1. UNCHANGED disk \/ \E v \in Workers : PerformWrite(v)
    BY OnlyWorkers DEF PlaceInv
<1>2. CASE UNCHANGED disk
    BY <1>2 DEF FileExists
<1>3. ASSUME NEW v \in Workers, PerformWrite(v) PROVE FileExists(w, f)'
    BY <1>3, WriteMakesFile DEF FileExists
<1> QED BY <1>1, <1>2, <1>3

\* The file of a write that succeeded is there.
FilesWritten ==
    \A w \in Workers :
        /\ exec[w].phase \in {"performed", "settled"}
        /\ exec[w].ok
        /\ UnitType(req, exec[w].unit) = "Write"
        => FileExists(w, UnitFile(req, exec[w].unit))

LEMMA FilesWrittenStep ==
    ASSUME BytesWritten, PlaceInv, FilesWritten, [Next]_vars
    PROVE  FilesWritten'
<1>1. FlowInv
    BY DEF PlaceInv
<1>2. UNCHANGED req
    BY <1>1, OnlyWorkers
<1> SUFFICES ASSUME NEW w \in Workers, exec'[w].phase \in {"performed", "settled"}, exec'[w].ok,
                    UnitType(req, exec'[w].unit) = "Write",
                    NEW f, f = UnitFile(req, exec'[w].unit)
             PROVE  FileExists(w, f)'
    BY <1>2 DEF FilesWritten
<1>4. ASSUME exec[w].phase \in {"performed", "settled"}, exec[w].ok, exec[w].unit = exec'[w].unit
      PROVE  FileExists(w, f)'
    <2>1. FileExists(w, f)
        BY <1>4 DEF FilesWritten
    <2>2. f \in Files
        <3>1. exec[w].unit \in Filled
            <4>1. PICK at, on, unit, team : Placed(at, on, unit, team)
                BY DEF PlaceInv, Somewhere
            <4>2. exec[w].unit # {} /\ exec[w].unit \subseteq Ids
                BY <1>1, <1>4, <4>1, HandlerIds DEF Placed, InHands, InHandler, Current
            <4> QED BY <4>2 DEF Filled, Units
        <3> QED BY <1>1, <1>4, <3>1, SpanTyped DEF FlowInv
    <2> QED BY <2>1, <2>2, FilesStay
<1>5. CASE exec'[w] = exec[w]
    BY <1>4, <1>5
<1>6. exec'[w] # Idle
    BY DEF Idle
<1>7. CASE WorkerStep(w)
    <2>1. CASE Take(w)
        <3>1. exec'[w] = TakenHandler(Head(queue[w]))
            BY <1>1, <2>1, TakeOwn
        <3> QED BY <3>1 DEF TakenHandler
    <2>2. CASE NextChild(w)
        BY <1>1, <2>2, NextChildOwn
    <2>3. CASE PerformWrite(w)
        <3>1. exec'[w].unit = exec[w].unit
            BY <1>1, <2>3, PerformsOwn DEF Performs, Advanced
        <3> QED BY <2>3, <3>1, WriteMakesFile DEF FileExists
    <2>4. CASE PerformRead(w)
        <3>1. exec'[w].unit = exec[w].unit
            BY <1>1, <2>4, PerformsOwn DEF Performs, Advanced
        <3> QED BY <2>4, <3>1 DEF PerformRead
    <2>5. CASE PerformFails(w)
        <3>1. exec'[w].ok = FALSE
            BY <1>1, <2>5, HandlerIds DEF PerformFails, FlowInv, Handlers
        <3> QED BY <3>1
    <2>6. CASE Settle(w)
        <3>1. /\ exec[w].phase = "performed" /\ exec'[w].unit = exec[w].unit
              /\ exec'[w].ok = exec[w].ok
            BY <1>1, <2>6, HandlerIds DEF Settle, FlowInv, Handlers
        <3> QED BY <1>4, <3>1
    <2>7. CASE Answer(w)
        BY <1>1, <1>6, <2>7, AnswerOwn
    <2>8. CASE CloseComposite(w)
        BY <1>1, <1>6, <2>8 DEF CloseComposite, FlowInv
    <2> QED BY <1>7, <2>1, <2>2, <2>3, <2>4, <2>5, <2>6, <2>7, <2>8 DEF WorkerStep
<1> QED BY <1>1, <1>5, <1>6, <1>7, OnlyWorkers

Records(f, w, loc, oloc) == loc[f] = w \/ \E e \in oloc[f] : e.wid = w

\* A location is recorded for the worker and the files of the units given.
LEMMA NewLocation ==
    ASSUME FlowInv, NEW us, NEW x, SetLocations(us, x), NEW f \in Files, NEW w,
           Records(f, w, location', olocation')
    PROVE  \/ Records(f, w, location, olocation)
           \/ w = x /\ \E u \in us : UnitFile(req, u) = f
<1> DEFINE new(g) == {[start |-> Span(u).off, wid |-> x, end |-> End(Span(u))] :
                        u \in {v \in us : UnitFile(req, v) = g}}
           kept(g) == {e \in olocation[g] :
                         \A n \in new(g) : e.wid # n.wid \/ e.end # n.end}
<1>1. /\ olocation' = [g \in Files |-> kept(g) \cup new(g)]
      /\ location' = [g \in Files |-> IF new(g) # {} THEN x ELSE location[g]]
    BY DEF SetLocations
<1>2. new(f) # {} => \E u \in us : UnitFile(req, u) = f
    OBVIOUS
<1>3. \A e \in new(f) : e.wid = x
    OBVIOUS
<1>4. \A e \in kept(f) : e \in olocation[f]
    OBVIOUS
<1>5. olocation'[f] = kept(f) \cup new(f) /\ location'[f] = IF new(f) # {} THEN x ELSE location[f]
    BY <1>1
<1> HIDE DEF new, kept
<1>6. CASE location'[f] = w
    BY <1>2, <1>5, <1>6 DEF Records
<1>7. CASE \E e \in olocation'[f] : e.wid = w
    <2>1. PICK e \in kept(f) \cup new(f) : e.wid = w
        BY <1>5, <1>7
    <2> QED BY <1>2, <1>3, <1>4, <2>1 DEF Records
<1> QED BY <1>6, <1>7 DEF Records

\* The file is there, or a write to it is on its way to the worker.
Backed(f, w) ==
    \/ FileExists(w, f)
    \/ \E u \in Held(w) : UnitType(req, u) = "Write" /\ UnitFile(req, u) = f

LEMMA BackedByHolding ==
    ASSUME NEW f, NEW w, UNCHANGED req,
           NEW u, Holding(u, queue'[w], pack', exec'[w]),
           UnitType(req, u) = "Write", UnitFile(req, u) = f
    PROVE  Backed(f, w)'
<1>1. u \in Held(w)'
    BY HeldHolding
<1> QED BY <1>1 DEF Backed

\* What was backed stays so.
LEMMA BackedStays ==
    ASSUME BytesWritten, PlaceInv, PlaceInv', SteadyInv, FilesWritten, [Next]_vars, Undisturbed',
           NEW f \in Files, NEW w \in Workers, Backed(f, w)
    PROVE  Backed(f, w)'
<1>1. UNCHANGED req
    BY OnlyWorkers DEF PlaceInv
<1>2. CASE FileExists(w, f)
    BY <1>2, FilesStay DEF Backed
<1>3. ASSUME NEW u \in Held(w), UnitType(req, u) = "Write", UnitFile(req, u) = f
      PROVE  Backed(f, w)'
    <2>1. Holding(u, queue[w], pack, exec[w])
        BY <1>3, HeldHolding
    <2>2. CASE Holding(u, queue'[w], pack', exec'[w])
        BY <1>1, <1>3, <2>2, BackedByHolding
    <2>3. CASE Answer(w) /\ u = exec[w].unit /\ exec[w].ok
        <3>1. FileExists(w, f)
            BY <1>3, <2>3 DEF FilesWritten, Answer
        <3> QED BY <3>1, FilesStay DEF Backed
    <2> QED BY <2>1, <2>2, <2>3, NothingDropped
<1> QED BY <1>2, <1>3 DEF Backed

\* A worker is recorded when a write is sent to it, or when it has performed one.
LEMMA NewlyBacked ==
    ASSUME BytesWritten, PlaceInv, PlaceInv', SteadyInv, [Next]_vars, Undisturbed',
           NEW f \in Files, NEW w \in Workers, Records(f, w, location', olocation')
    PROVE  Records(f, w, location, olocation) \/ Backed(f, w)'
<1> DEFINE Goal == Records(f, w, location, olocation) \/ Backed(f, w)'
<1>1. FlowInv /\ UNCHANGED req
    BY OnlyWorkers DEF PlaceInv
<1>2. alive = Workers
    BY UndisturbedBefore DEF SteadyInv, AllAlive, Undisturbed
<1>3. CASE UNCHANGED <<location, olocation>>
    BY <1>3 DEF Records
<1>4. ASSUME NEW us, UNCHANGED exec, SetLocations(WritesOf(us), w), NEW m,
             Send(w, m), us = IF m.composite THEN pack'[m.id] ELSE {m.unit},
             \A v \in Workers : \A i \in DOMAIN queue[v] :
                 queue[v][i].composite => pack'[queue[v][i].id] = pack[queue[v][i].id]
      PROVE  Goal
    <2>1. CASE \E u \in WritesOf(us) : UnitFile(req, u) = f
        <3>1. PICK u \in us : UnitType(req, u) = "Write" /\ UnitFile(req, u) = f
            BY <2>1 DEF WritesOf
        <3>2. Holding(u, queue'[w], pack', exec'[w])
            BY <1>1, <1>2, <1>4, <3>1, SendHolds
        <3> QED BY <1>1, <3>1, <3>2, BackedByHolding
    <2>2. CASE ~\E u \in WritesOf(us) : UnitFile(req, u) = f
        BY <1>1, <1>4, <2>2, NewLocation
    <2> QED BY <2>1, <2>2
<1>5. ASSUME NEW us, NEW x, x # w, SetLocations(us, x) PROVE Goal
    BY <1>1, <1>5, NewLocation
<1>6. CASE ClientStep \/ DropBatch \/ CollectBatch \/ Requery \/ RefreshWorkers
    BY <1>3, <1>6 DEF ClientStep, Publish, Receive, ReplyTimeout, DropBatch, CollectBatch,
                      Requery, RefreshWorkers, catalogVars
<1>7. ASSUME NEW p \in direct_route, RouteDirect(p) PROVE Goal
    BY <1>3, <1>7 DEF RouteDirect, catalogVars
<1>8. ASSUME NEW st \in supertasks, NEW x \in Workers, RouteSupertask(st, x) PROVE Goal
    <2>1. PICK m : m = [id |-> CompositeId(req, st), composite |-> TRUE, unit |-> {}]
        OBVIOUS
    <2>2. /\ Send(x, m) /\ UNCHANGED exec /\ SetLocations(WritesOf(st), x)
          /\ pack' = [pack EXCEPT ![CompositeId(req, st)] = st]
        BY <1>8, <2>1 DEF RouteSupertask, PackChildren
    <2>3. \A v \in Workers : \A i \in DOMAIN queue[v] :
              queue[v][i].composite => pack'[queue[v][i].id] = pack[queue[v][i].id]
        BY <1>1, <2>2, NewComposite DEF FlowInv
    <2>4. CompositeId(req, st) \in Ids
        <3>1. st \subseteq Filled /\ st # {}
            BY <1>1 DEF FlowInv
        <3>2. \E u \in st : CompositeId(req, st) \in u
            BY <1>1, <3>1, CompositeLead
        <3> QED BY <3>1, <3>2 DEF Filled, Units
    <2>5. st = IF m.composite THEN pack'[m.id] ELSE {m.unit}
        BY <1>1, <2>1, <2>2, <2>4 DEF FlowInv
    <2> QED BY <1>4, <1>5, <2>2, <2>3, <2>5
<1>9. ASSUME NEW y \in independent, NEW x \in Workers, RouteIndependent(y, x) PROVE Goal
    <2>1. PICK m : m = [id |-> Lead(y), composite |-> FALSE, unit |-> y]
        OBVIOUS
    <2>2. Send(x, m) /\ UNCHANGED <<exec, pack>>
        BY <1>9, <2>1 DEF RouteIndependent
    <2>3. UNCHANGED <<location, olocation>> \/ SetLocations(WritesOf({y}), x)
        BY <1>9 DEF RouteIndependent
    <2>4. {y} = IF m.composite THEN pack'[m.id] ELSE {m.unit}
        BY <2>1
    <2> QED BY <1>3, <1>4, <1>5, <2>2, <2>3, <2>4
<1>10. CASE NoWorkerFor \/ ScheduleDirect \/ ScheduleIndependent
    BY <1>3, <1>10 DEF NoWorkerFor, ScheduleDirect, ScheduleIndependent, catalogVars
<1>11. ASSUME NEW l \in Ids, FanOut(l) \/ FanOutTimeout(l) PROVE Goal
    BY <1>3, <1>11 DEF FanOut, FanOutTimeout, catalogVars
<1>12. ASSUME NEW x \in Workers, PerformWrite(x) PROVE Goal
    <2>1. PICK g : g = UnitFile(req, exec[x].unit)
        OBVIOUS
    <2>2. SetLocations({exec[x].unit}, x)
        BY <1>12 DEF PerformWrite
    <2>3. CASE w = x /\ g = f
        <3>1. \E c \in Cells : disk'[x][g][c] # 0
            BY <1>12, <2>1, WriteMakesFile
        <3> QED BY <2>3, <3>1 DEF Backed, FileExists
    <2>4. CASE w # x \/ g # f
        BY <1>1, <2>1, <2>2, <2>4, NewLocation
    <2> QED BY <2>3, <2>4
<1>13. ASSUME NEW x \in Workers, WorkerStep(x), ~PerformWrite(x) PROVE Goal
    BY <1>3, <1>13 DEF WorkerStep, Take, NextChild, PerformRead, PerformFails, Settle, Answer,
                       CloseComposite, catalogVars
<1>14. CASE FleetStep
    BY <1>3, <1>14 DEF FleetStep, Crash, Stop, Gone, Start, Suspend, Report, Resume, catalogVars
<1>15. CASE UNCHANGED vars
    BY <1>3, <1>15 DEF vars, catalogVars
<1> QED BY <1>6, <1>7, <1>8, <1>9, <1>10, <1>11, <1>12, <1>13, <1>14, <1>15
        DEF Next, DispatcherStep, RouteStep

FileInv == FilesWritten /\ LocationBacked

LEMMA FileInit == Init => FileInv
<1> SUFFICES ASSUME Init PROVE FileInv
    OBVIOUS
<1>1. FilesWritten
    BY DEF Init, Idle, FilesWritten
<1>2. ASSUME NEW f \in Files, NEW w \in Workers
      PROVE  ~Records(f, w, location, olocation)
    BY LabelFlowAssumption DEF Init, Records
<1>3. LocationBacked
    BY <1>2 DEF LocationBacked, Records
<1> QED BY <1>1, <1>3 DEF FileInv

LEMMA FileStep ==
    ASSUME BytesWritten, PlaceInv, PlaceInv', SteadyInv, FileInv, [Next]_vars
    PROVE  FileInv'
<1>1. FilesWritten'
    BY FilesWrittenStep DEF FileInv
<1>2. ASSUME Undisturbed', NEW f \in Files, NEW w \in Workers,
             Records(f, w, location', olocation')
      PROVE  Backed(f, w)'
    <2>1. CASE Records(f, w, location, olocation)
        <3>1. Backed(f, w)
            BY <1>2, <2>1, UndisturbedBefore DEF FileInv, LocationBacked, Records, Backed
        <3> QED BY <1>2, <3>1, BackedStays DEF FileInv
    <2> QED BY <1>2, <2>1, NewlyBacked
<1>3. LocationBacked'
    BY <1>2 DEF LocationBacked, Records, Backed
<1> QED BY <1>1, <1>3 DEF FileInv

LEMMA SteadyInvariant == Spec => []SteadyInv
<1>1. PlaceInv /\ SteadyInv /\ [Next]_vars => SteadyInv'
    BY SteadyStep
<1> QED BY <1>1, SteadyInit, PlaceInvariant, PTL DEF Spec

\* While no worker leaves and nothing fails, a worker that the catalog names for a
\* file has the file or a write to it before it: a read routed by locality in phase A
\* of the dispatcher finds its file.
THEOREM LocationsAreBacked ==
    ASSUME \A q \in Requests : q.type = "Write" => q.len > 0
    PROVE  Spec => []LocationBacked
<1>1. BytesWritten
    BY DEF BytesWritten
<1>2. PlaceInv /\ PlaceInv' /\ SteadyInv /\ FileInv /\ [Next]_vars => FileInv'
    BY <1>1, FileStep
<1>3. FileInv => LocationBacked
    BY DEF FileInv
<1> QED BY <1>2, <1>3, FileInit, SteadyInvariant, PlaceInvariant, PTL DEF Spec

-----------------------------------------------------------------------------
(* Rest means answered *)

Ready == [w \in Workers |-> "available"]

\* Undisturbed, every worker can be chosen, ...
FleetReady ==
    churn = 0 => /\ suspended = {} /\ registry = Ready /\ cached = Ready
                 /\ dpc # "resume"
                 /\ dpc # "collect" => workers = Workers

\* ... and the batch thread takes a batch when it is through with the last.
RouteOrder ==
    /\ dpc = "collect" => direct_route = {} /\ supertasks = {} /\ independent = {}
    /\ dpc = "solve" => direct_route = {}

LEMMA AllReady ==
    ASSUME Workers # {}
    PROVE  /\ Available(Ready) = Workers /\ Ready # NoWorkers
           /\ \A w \in Workers : [Ready EXCEPT ![w] = "available"] = Ready
<1>1. \A w \in Workers : Ready[w] = "available" /\ NoWorkers[w] = "absent"
    BY DEF Ready, NoWorkers
<1>2. Available(Ready) = Workers
    BY <1>1 DEF Available
<1>3. Ready # NoWorkers
    <2>1. PICK w \in Workers : TRUE
        OBVIOUS
    <2> QED BY <1>1, <2>1
<1>4. ASSUME NEW w \in Workers PROVE [Ready EXCEPT ![w] = "available"] = Ready
    BY DEF Ready
<1> QED BY <1>2, <1>3, <1>4

LEMMA FleetReadyStep ==
    ASSUME Workers # {}, FlowInv, AllAlive, FleetReady, [Next]_vars
    PROVE  FleetReady'
<1> USE DEF FleetReady
<1>1. churn \in Nat
    BY LabelFlowAssumption DEF FlowInv
<1>2. CASE churn' = churn + 1
    BY <1>1, <1>2
<1>3. CASE UNCHANGED <<churn, suspended, registry, cached, dpc, workers>>
    BY <1>3
<1>4. CASE ClientStep
    BY <1>2, <1>3, <1>4 DEF ClientStep, Publish, Receive, ReplyTimeout, batchVars, fleetVars
<1>5. CASE DropBatch
    BY <1>3, <1>5 DEF DropBatch, fleetVars
<1>6. CASE CollectBatch
    <2>1. /\ UNCHANGED <<churn, suspended, registry, cached>>
          /\ workers' = Available(cached)
          /\ Available(cached) # {} => dpc' = "direct"
        BY <1>6 DEF CollectBatch
    <2> QED BY <2>1, AllReady
<1>7. CASE Requery
    <2>1. \/ churn' = churn + 1
          \/ /\ churn' = churn /\ cached' = registry /\ workers' = Available(registry)
             /\ dpc' = "direct" /\ UNCHANGED <<suspended, registry>>
        BY <1>7 DEF Requery, QueryWorkers, fleetVars
    <2> QED BY <1>2, <2>1, AllReady
<1>8. CASE RefreshWorkers
    <2>1. \/ churn' = churn + 1
          \/ churn' = churn /\ cached' = registry /\ UNCHANGED <<suspended, registry, dpc, workers>>
        BY <1>8 DEF RefreshWorkers, QueryWorkers, fleetVars, batchVars
    <2> QED BY <1>2, <2>1
<1>9. CASE RouteStep
    <2>1. CASE ScheduleDirect
        BY <2>1 DEF ScheduleDirect, fleetVars
    <2>2. CASE ScheduleIndependent
        BY <2>2 DEF ScheduleIndependent, fleetVars
    <2>3. CASE ~ScheduleDirect /\ ~ScheduleIndependent
        BY <1>3, <1>9, <2>3 DEF RouteStep, RouteDirect, RouteSupertask, RouteIndependent, NoWorkerFor,
                               fleetVars
    <2> QED BY <2>1, <2>2, <2>3
<1>10. ASSUME NEW l \in Ids, FanOut(l) \/ FanOutTimeout(l) PROVE FleetReady'
    BY <1>2, <1>3, <1>10 DEF FanOut, FanOutTimeout, batchVars, fleetVars
<1>11. ASSUME NEW w \in Workers, WorkerStep(w) PROVE FleetReady'
    <2>1. /\ UNCHANGED <<churn, registry, cached, dpc, workers>>
          /\ suspended' = suspended \/ suspended' = suspended \ {w}
        BY <1>11 DEF WorkerStep, Take, NextChild, PerformRead, PerformFails, PerformWrite,
                     Settle, Answer, CloseComposite, batchVars, fleetVars
    <2> QED BY <2>1
<1>12. ASSUME NEW w \in Workers, Report(w) \/ Resume(w) PROVE FleetReady'
    <2>1. /\ UNCHANGED <<churn, cached, dpc, workers>>
          /\ suspended' = suspended \/ suspended' = suspended \ {w}
          /\ \E view : /\ registry' = [registry EXCEPT ![w] = IF @ = "absent" THEN @ ELSE view]
                       /\ suspended = {} => view = "available"
        <3>1. CASE Report(w)
            BY <3>1 DEF Report, ScoreUpdate, batchVars
        <3>2. CASE Resume(w)
            BY <3>2 DEF Resume, ScoreUpdate, batchVars
        <3> QED BY <1>12, <3>1, <3>2
    <2>2. ASSUME churn = 0 PROVE registry' = Ready
        <3>1. registry = Ready /\ Ready[w] = "available"
            BY <2>2 DEF Ready
        <3>2. registry' = [Ready EXCEPT ![w] = "available"]
            BY <2>1, <2>2, <3>1
        <3> QED BY <3>2, AllReady
    <2> QED BY <2>1, <2>2
<1>13. CASE FleetStep
    BY <1>2, <1>12, <1>13 DEF FleetStep, Crash, Stop, Gone, Start, Suspend
<1>14. CASE UNCHANGED vars
    BY <1>3, <1>14 DEF vars, batchVars, fleetVars
<1> QED BY <1>4, <1>5, <1>6, <1>7, <1>8, <1>9, <1>10, <1>11, <1>13, <1>14 DEF Next, DispatcherStep

LEMMA RouteOrderStep ==
    ASSUME RouteOrder, [Next]_vars
    PROVE  RouteOrder'
<1> USE DEF RouteOrder
<1>1. CASE UNCHANGED <<dpc, direct_route, supertasks, independent>>
    BY <1>1
<1>2. CASE ClientStep
    BY <1>1, <1>2 DEF ClientStep, Publish, Receive, ReplyTimeout, batchVars
<1>3. CASE DropBatch \/ RefreshWorkers
    BY <1>1, <1>3 DEF DropBatch, RefreshWorkers, batchVars
<1>4. CASE CollectBatch \/ Requery
    <2>1. dpc' \in {"resume", "direct"}
        BY <1>4 DEF CollectBatch, Requery
    <2> QED BY <2>1
<1>5. CASE RouteStep
    BY <1>5 DEF RouteStep, RouteDirect, RouteSupertask, RouteIndependent, NoWorkerFor,
                ScheduleDirect, ScheduleIndependent
<1>6. ASSUME NEW l \in Ids, FanOut(l) \/ FanOutTimeout(l) PROVE RouteOrder'
    BY <1>1, <1>6 DEF FanOut, FanOutTimeout, batchVars
<1>7. ASSUME NEW w \in Workers, WorkerStep(w) PROVE RouteOrder'
    BY <1>1, <1>7 DEF WorkerStep, Take, NextChild, PerformRead, PerformFails, PerformWrite,
                      Settle, Answer, CloseComposite, batchVars
<1>8. CASE FleetStep
    BY <1>1, <1>8 DEF FleetStep, Crash, Stop, Gone, Start, Suspend, Report, Resume, batchVars
<1>9. CASE UNCHANGED vars
    BY <1>1, <1>9 DEF vars, batchVars
<1> QED BY <1>2, <1>3, <1>4, <1>5, <1>6, <1>7, <1>8, <1>9 DEF Next, DispatcherStep

\* Without aggregation every unit is one label.
Solo == {{l} : l \in Ids}

SoloMessages == {m \in FilledMessages : ~m.composite => m.unit \in Solo}

SoloHandlers ==
    {h \in FilledHandlers : h.todo \subseteq Solo /\ (Current(h) => h.unit \in Solo)}

SoloInv ==
    /\ pack \in [Ids -> SUBSET Solo]
    /\ direct_route \in SUBSET (Solo \X Workers)
    /\ supertasks \in SUBSET (SUBSET Solo)
    /\ independent \in SUBSET Solo
    /\ queue \in [Workers -> Seq(SoloMessages)]
    /\ exec \in [Workers -> SoloHandlers]

LEMMA SoloInit == Init => SoloInv
<1> SUFFICES ASSUME Init PROVE SoloInv
    OBVIOUS
<1>1. Idle \in SoloHandlers
    BY IdleTyped DEF SoloHandlers, Idle, Current
<1>2. exec \in [Workers -> SoloHandlers]
    BY <1>1 DEF Init
<1>3. pack \in [Ids -> SUBSET Solo]
    BY DEF Init
<1>4. queue \in [Workers -> Seq(SoloMessages)]
    BY DEF Init
<1> QED BY <1>2, <1>3, <1>4 DEF Init, SoloInv

LEMMA SoloSent ==
    ASSUME queue \in [Workers -> Seq(SoloMessages)],
           NEW w \in Workers, NEW m \in SoloMessages, Send(w, m)
    PROVE  queue' \in [Workers -> Seq(SoloMessages)]
BY DEF Send

LEMMA SoloStep ==
    ASSUME ~AggregationEnabled, PlaceInv, PlaceInv', SoloInv, [Next]_vars
    PROVE  SoloInv'
<1> USE DEF SoloInv
<1>1. FlowInv /\ FlowInv'
    BY DEF PlaceInv
<1>2. CASE UNCHANGED <<pack, direct_route, supertasks, independent, queue, exec>>
    BY <1>2
<1>3. CASE ClientStep
    BY <1>2, <1>3 DEF ClientStep, Publish, Receive, ReplyTimeout, batchVars, workerVars
<1>4. CASE DropBatch \/ Requery \/ RefreshWorkers
    BY <1>2, <1>4 DEF DropBatch, Requery, RefreshWorkers, batchVars, workerVars
<1>5. CASE CollectBatch
    <2>1. PICK rest, units, supers : /\ rest = batch_buffer \ Observes(batch_buffer)
                                     /\ units = Aggregate(req, rest)
                                     /\ supers = BuildSupertasks(req, units)
        OBVIOUS
    <2>2. units \subseteq Solo
        BY <1>1, <2>1 DEF Aggregate, Solo, FlowInv
    <2>3. \A s \in supers : s \subseteq units
        BY <2>1, SupertasksDisjoint
    <2>4. /\ supertasks' = supers
          /\ \A p \in direct_route' : p[1] \in units
          /\ independent' \subseteq units
          /\ UNCHANGED <<pack, queue, exec>>
        BY <1>5, <2>1 DEF CollectBatch, FreeUnits, workerVars
    <2>5. direct_route' \in SUBSET (Solo \X Workers)
        BY <1>1, <2>2, <2>4 DEF FlowInv
    <2> QED BY <2>2, <2>3, <2>4, <2>5
<1>6. ASSUME NEW p \in direct_route, RouteDirect(p) PROVE SoloInv'
    <2>1. PICK m : m = [id |-> Lead(p[1]), composite |-> FALSE, unit |-> p[1]]
        OBVIOUS
    <2>2. p[1] \in Solo /\ p[1] \in Filled /\ p[2] \in Workers
        BY <1>1 DEF FlowInv
    <2>3. m \in SoloMessages
        BY <1>1, <2>1, <2>2, UnitIds DEF SoloMessages, FilledMessages, Messages, Filled
    <2>4. /\ Send(p[2], m) /\ direct_route' \subseteq direct_route
          /\ UNCHANGED <<pack, supertasks, independent, exec>>
        BY <1>6, <2>1 DEF RouteDirect
    <2>5. queue' \in [Workers -> Seq(SoloMessages)]
        BY <2>2, <2>3, <2>4, SoloSent
    <2> QED BY <2>4, <2>5
<1>7. ASSUME NEW st \in supertasks, NEW w \in Workers, RouteSupertask(st, w) PROVE SoloInv'
    <2>1. PICK m : m = [id |-> CompositeId(req, st), composite |-> TRUE, unit |-> {}]
        OBVIOUS
    <2>2. CompositeId(req, st) \in Ids
        <3>1. st \subseteq Filled /\ st # {}
            BY <1>1 DEF FlowInv
        <3>2. \E u \in st : CompositeId(req, st) \in u
            BY <1>1, <3>1, CompositeLead
        <3> QED BY <3>1, <3>2 DEF Filled, Units
    <2>3. m \in SoloMessages
        BY <2>1, <2>2 DEF SoloMessages, FilledMessages, Messages, Units
    <2>4. /\ Send(w, m) /\ supertasks' \subseteq supertasks
          /\ pack' = [pack EXCEPT ![CompositeId(req, st)] = st]
          /\ UNCHANGED <<direct_route, independent, exec>>
        BY <1>7, <2>1 DEF RouteSupertask, PackChildren
    <2>5. queue' \in [Workers -> Seq(SoloMessages)]
        BY <2>3, <2>4, SoloSent
    <2>6. pack' \in [Ids -> SUBSET Solo]
        BY <2>4
    <2> QED BY <2>4, <2>5, <2>6
<1>8. ASSUME NEW x \in independent, NEW w \in Workers, RouteIndependent(x, w) PROVE SoloInv'
    <2>1. PICK m : m = [id |-> Lead(x), composite |-> FALSE, unit |-> x]
        OBVIOUS
    <2>2. x \in Solo /\ x \in Filled
        BY <1>1 DEF FlowInv
    <2>3. m \in SoloMessages
        BY <1>1, <2>1, <2>2, UnitIds DEF SoloMessages, FilledMessages, Messages, Filled
    <2>4. /\ Send(w, m) /\ independent' \subseteq independent
          /\ UNCHANGED <<pack, direct_route, supertasks, exec>>
        BY <1>8, <2>1 DEF RouteIndependent
    <2>5. queue' \in [Workers -> Seq(SoloMessages)]
        BY <2>3, <2>4, SoloSent
    <2> QED BY <2>4, <2>5
<1>9. CASE NoWorkerFor
    <2>1. /\ UNCHANGED <<pack, direct_route, queue, exec>>
          /\ supertasks' \subseteq supertasks /\ independent' \subseteq independent
        BY <1>9 DEF NoWorkerFor, workerVars
    <2> QED BY <2>1
<1>10. CASE ScheduleDirect \/ ScheduleIndependent
    BY <1>2, <1>10 DEF ScheduleDirect, ScheduleIndependent, workerVars
<1>11. ASSUME NEW l \in Ids, FanOut(l) \/ FanOutTimeout(l) PROVE SoloInv'
    BY <1>2, <1>11 DEF FanOut, FanOutTimeout, batchVars, workerVars
<1>12. ASSUME NEW w \in Workers, WorkerStep(w) PROVE SoloInv'
    <2>1. UNCHANGED <<direct_route, supertasks, independent>>
        BY <1>12 DEF WorkerStep, Take, NextChild, PerformRead, PerformFails, PerformWrite,
                     Settle, Answer, CloseComposite, batchVars
    <2>2. exec[w] \in SoloHandlers /\ exec'[w] \in FilledHandlers
        BY <1>1 DEF FlowInv
    <2>3. Idle.todo = {} /\ ~Current(Idle)
        BY DEF Idle, Current
    <2>4. ASSUME UNCHANGED <<pack, queue>>, \A v \in Workers \ {w} : exec'[v] = exec[v],
                 exec'[w].todo \subseteq Solo, Current(exec'[w]) => exec'[w].unit \in Solo
          PROVE  SoloInv'
        <3>1. exec'[w] \in SoloHandlers
            BY <2>2, <2>4 DEF SoloHandlers
        <3>2. exec' \in [Workers -> SoloHandlers]
            BY <1>1, <2>4, <3>1 DEF FlowInv
        <3> QED BY <2>1, <2>4, <3>2
    <2>5. CASE Take(w)
        <3>1. PICK m : m = Head(queue[w])
            OBVIOUS
        <3>2. m \in SoloMessages /\ m.id \in Ids /\ queue' = [queue EXCEPT ![w] = Tail(@)]
            <4>1. queue[w] # <<>> /\ queue' = [queue EXCEPT ![w] = Tail(@)]
                BY <2>5 DEF Take
            <4>2. m \in SoloMessages
                BY <3>1, <4>1
            <4> QED BY <4>1, <4>2 DEF SoloMessages, FilledMessages, Messages
        <3>3. exec'[w] = TakenHandler(m) /\ \A v \in Workers \ {w} : exec'[v] = exec[v]
            BY <1>1, <2>5, <3>1, TakeOwn
        <3>4. exec'[w].todo \subseteq Solo /\ (Current(exec'[w]) => exec'[w].unit \in Solo)
            BY <3>2, <3>3 DEF TakenHandler, Current, SoloMessages
        <3>5. exec'[w] \in SoloHandlers
            BY <2>2, <3>4 DEF SoloHandlers
        <3>6. exec' \in [Workers -> SoloHandlers]
            BY <1>1, <3>3, <3>5 DEF FlowInv
        <3>7. queue' \in [Workers -> Seq(SoloMessages)]
            BY <2>5, <3>2 DEF Take
        <3>8. UNCHANGED pack
            BY <2>5 DEF Take
        <3> QED BY <2>1, <3>6, <3>7, <3>8
    <2>6. CASE NextChild(w)
        <3>1. PICK u : u = FirstChild(req, exec[w].todo)
            OBVIOUS
        <3>2. exec[w].todo \subseteq Filled /\ exec[w].todo # {}
            BY <1>1, <2>6 DEF NextChild, FlowInv, FilledHandlers
        <3>3. u \in exec[w].todo
            BY <1>1, <3>1, <3>2, FirstChildIn DEF FlowInv
        <3>4. /\ exec'[w].unit = u /\ exec'[w].todo = exec[w].todo \ {u}
              /\ \A v \in Workers \ {w} : exec'[v] = exec[v]
            BY <1>1, <2>6, <3>1, NextChildOwn
        <3> QED BY <2>2, <2>4, <2>6, <3>3, <3>4 DEF NextChild, SoloHandlers
    <2>7. CASE Performs(w)
        BY <1>1, <2>2, <2>4, <2>7, PerformsOwn DEF Advanced, Current, SoloHandlers
    <2>8. CASE Settle(w)
        <3>1. Advanced(w, "performed", "settled") /\ UNCHANGED <<pack, queue>>
            BY <1>1, <2>8, HandlerIds DEF Settle, Advanced, FlowInv, Handlers
        <3> QED BY <2>2, <2>4, <3>1 DEF Advanced, Current, SoloHandlers
    <2>9. CASE Answer(w)
        BY <1>1, <2>2, <2>3, <2>4, <2>9, AnswerOwn DEF Current, SoloHandlers
    <2>10. CASE CloseComposite(w)
        <3>1. /\ pack' = [pack EXCEPT ![exec[w].id] = {}] /\ UNCHANGED queue
              /\ exec' = [exec EXCEPT ![w] = Idle]
            BY <2>10 DEF CloseComposite
        <3>2. pack' \in [Ids -> SUBSET Solo]
            BY <3>1
        <3>3. Idle \in SoloHandlers
            BY <2>3, IdleTyped DEF SoloHandlers
        <3> QED BY <2>1, <3>1, <3>2, <3>3
    <2> QED BY <1>12, <2>5, <2>6, <2>7, <2>8, <2>9, <2>10 DEF WorkerStep, Performs
<1>13. CASE FleetStep
    <2>1. ASSUME NEW w \in Workers, Gone(w) PROVE SoloInv'
        <3>1. Idle \in SoloHandlers
            BY IdleTyped DEF SoloHandlers, Idle, Current
        <3>2. exec' \in [Workers -> SoloHandlers]
            BY <2>1, <3>1 DEF Gone
        <3>3. queue' \in [Workers -> Seq(SoloMessages)]
            BY <2>1 DEF Gone
        <3> QED BY <2>1, <3>2, <3>3 DEF Gone, batchVars
    <2> QED BY <1>2, <1>13, <2>1 DEF FleetStep, Crash, Stop, Start, Suspend, Report, Resume,
                                     workerVars, batchVars
<1>14. CASE UNCHANGED vars
    BY <1>2, <1>14 DEF vars, batchVars, workerVars
<1> QED BY <1>3, <1>4, <1>5, <1>6, <1>7, <1>8, <1>9, <1>10, <1>11, <1>12, <1>13, <1>14
        DEF Next, DispatcherStep, RouteStep

\* Where a label that waits for its answer is.
Pending(l) ==
    \/ l \in batch_buffer
    \/ \E p \in direct_route : p[1] = {l}
    \/ \E st \in supertasks : {l} \in st
    \/ {l} \in independent
    \/ \E w \in Workers : Holding({l}, queue[w], pack, exec[w])

Accounted ==
    Undisturbed => \A l \in Ids : client[l] # "new" /\ sent[l] = <<>> => Pending(l)

\* A label in a batch is answered or sent on.
LEMMA BatchPending ==
    ASSUME ~AggregationEnabled, FlowInv, CollectBatch, NEW l \in batch_buffer
    PROVE  sent'[l] # <<>> \/ Pending(l)'
<1>1. l \in Ids /\ sent[l] \in Seq(Outcomes)
    BY DEF FlowInv
<1>2. CASE l \in Observes(batch_buffer)
    <2>1. PICK outcome \in Outcomes : AnswerObserve(Observes(batch_buffer), outcome)
        BY DEF CollectBatch, Outcomes
    <2>2. sent'[l] = Append(sent[l], outcome)
        BY <1>1, <1>2, <2>1 DEF AnswerObserve
    <2>3. Append(sent[l], outcome) # <<>>
        BY <1>1
    <2> QED BY <2>2, <2>3
<1>3. CASE l \notin Observes(batch_buffer)
    <2>1. PICK rest, units, supers : /\ rest = batch_buffer \ Observes(batch_buffer)
                                     /\ units = Aggregate(req, rest)
                                     /\ supers = BuildSupertasks(req, units)
        OBVIOUS
    <2>2. PICK held : held = {u \in units \ UNION supers : UnitType(req, u) = "Read" /\ HasLocation(u)}
        OBVIOUS
    <2>3. /\ supertasks' = supers
          /\ direct_route' = {<<u, GetLocation(u)>> : u \in held}
          /\ independent' = (units \ UNION supers) \ held
        BY <2>1, <2>2 DEF CollectBatch, FreeUnits
    <2>4. {l} \in units
        BY <1>3, <2>1 DEF Aggregate
    <2>5. CASE {l} \in UNION supers
        BY <2>3, <2>5 DEF Pending
    <2>6. CASE {l} \in held
        <3>1. <<{l}, GetLocation({l})>> \in direct_route'
            BY <2>3, <2>6
        <3>2. \E p \in direct_route' : p[1] = {l}
            BY <3>1
        <3> QED BY <3>2 DEF Pending
    <2>7. CASE {l} \notin UNION supers /\ {l} \notin held
        BY <2>3, <2>4, <2>7 DEF Pending
    <2> QED BY <2>5, <2>6, <2>7
<1> QED BY <1>2, <1>3

\* The answer to a unit of one label reaches its client.
LEMMA SoloAnswered ==
    ASSUME FlowInv, NEW w \in Workers, Answer(w), NEW l \in Ids, exec[w].unit = {l}
    PROVE  sent'[l] # <<>>
<1>1. Lead({l}) = l
    <2>1. {l} \in Filled
        BY DEF Filled, Units
    <2> QED BY <2>1, UnitIds
<1>2. ~Merged({l})
    <2>1. Cardinality({l}) = 1
        BY FS_Singleton
    <2> QED BY <2>1 DEF Merged
<1>3. sent' = [sent EXCEPT ![l] = Append(@, Outcome(w))]
    BY <1>1, <1>2, Completed
<1>4. sent[l] \in Seq(Outcomes) /\ sent'[l] = Append(sent[l], Outcome(w))
    BY <1>3 DEF FlowInv
<1>5. Outcome(w) \in Outcomes
    BY DEF Outcome, Outcomes
<1> QED BY <1>4, <1>5

RestInv == RouteOrder /\ FleetReady /\ SoloInv /\ Accounted

\* A label that waits is pending after every step.
LEMMA PendingStep ==
    ASSUME ~AggregationEnabled, Workers # {}, PlaceInv, PlaceInv', SteadyInv, RestInv,
           [Next]_vars, Undisturbed', NEW l \in Ids, Pending(l), sent'[l] = <<>>
    PROVE  Pending(l)'
<1>1. FlowInv
    BY DEF PlaceInv
<1>2. /\ churn = 0 /\ churn' = 0
      /\ alive = Workers /\ cached = Ready /\ (dpc = "solve" => workers = Workers)
    BY UndisturbedBefore DEF Undisturbed, SteadyInv, AllAlive, RestInv, FleetReady
<1>3. ASSUME NEW w \in Workers, Holding({l}, queue[w], pack, exec[w])
      PROVE  Pending(l)'
    <2>1. CASE Holding({l}, queue'[w], pack', exec'[w])
        BY <2>1 DEF Pending
    <2>2. CASE Answer(w) /\ {l} = exec[w].unit
        BY <1>1, <2>2, SoloAnswered
    <2> QED BY <1>3, <2>1, <2>2, NothingDropped
<1>4. CASE UNCHANGED <<direct_route, supertasks, independent>> /\ batch_buffer \subseteq batch_buffer'
    BY <1>3, <1>4 DEF Pending
<1>5. CASE ClientStep
    BY <1>4, <1>5 DEF ClientStep, Publish, Receive, ReplyTimeout, batchVars
<1>6. CASE DropBatch
    <2>1. UNCHANGED <<direct_route, supertasks, independent>>
        BY <1>6 DEF DropBatch
    <2>2. CASE l \in batch_buffer
        <3>1. l \in Observes(batch_buffer)
            BY <1>2, <1>6, <2>2, AllReady DEF DropBatch
        <3>2. PICK outcome \in Outcomes : AnswerObserve(Observes(batch_buffer), outcome)
            BY <1>6 DEF DropBatch, Outcomes
        <3>3. sent[l] \in Seq(Outcomes) /\ sent'[l] = Append(sent[l], outcome)
            BY <1>1, <3>1, <3>2 DEF AnswerObserve, FlowInv
        <3>4. Append(sent[l], outcome) # <<>>
            BY <3>3
        <3> QED BY <3>3, <3>4
    <2> QED BY <1>3, <2>1, <2>2 DEF Pending
<1>7. CASE CollectBatch
    <2>1. direct_route = {} /\ supertasks = {} /\ independent = {}
        BY <1>7 DEF CollectBatch, RestInv, RouteOrder
    <2>2. CASE l \in batch_buffer
        BY <1>1, <1>7, <2>2, BatchPending
    <2> QED BY <1>3, <2>1, <2>2 DEF Pending
<1>8. CASE Requery \/ RefreshWorkers
    BY <1>4, <1>8 DEF Requery, RefreshWorkers, batchVars
<1>9. ASSUME NEW p \in direct_route, RouteDirect(p) PROVE Pending(l)'
    <2>1. PICK m : m = [id |-> Lead(p[1]), composite |-> FALSE, unit |-> p[1]]
        OBVIOUS
    <2>2. /\ p[2] \in Workers /\ Send(p[2], m) /\ UNCHANGED <<exec, pack>>
          /\ direct_route' = direct_route \ {p}
          /\ UNCHANGED <<batch_buffer, supertasks, independent>>
        BY <1>1, <1>9, <2>1 DEF RouteDirect, FlowInv
    <2>3. Holding(p[1], queue'[p[2]], pack', exec'[p[2]])
        BY <1>1, <1>2, <2>1, <2>2, SendHolds
    <2>4. p[1] = {l} => Pending(l)'
        BY <2>2, <2>3 DEF Pending
    <2> QED BY <1>3, <2>2, <2>4 DEF Pending
<1>10. ASSUME NEW st \in supertasks, NEW w \in Workers, RouteSupertask(st, w) PROVE Pending(l)'
    <2>1. PICK m : m = [id |-> CompositeId(req, st), composite |-> TRUE, unit |-> {}]
        OBVIOUS
    <2>2. /\ Send(w, m) /\ UNCHANGED exec
          /\ pack' = [pack EXCEPT ![CompositeId(req, st)] = st]
          /\ supertasks' = supertasks \ {st}
          /\ UNCHANGED <<batch_buffer, direct_route, independent>>
        BY <1>10, <2>1 DEF RouteSupertask, PackChildren
    <2>3. \A v \in Workers : \A i \in DOMAIN queue[v] :
              queue[v][i].composite => pack'[queue[v][i].id] = pack[queue[v][i].id]
        BY <1>1, <2>2, NewComposite DEF FlowInv
    <2>4. CompositeId(req, st) \in Ids
        <3>1. st \subseteq Filled /\ st # {}
            BY <1>1 DEF FlowInv
        <3>2. \E u \in st : CompositeId(req, st) \in u
            BY <1>1, <3>1, CompositeLead
        <3> QED BY <3>1, <3>2 DEF Filled, Units
    <2>5. \A u \in st : Holding(u, queue'[w], pack', exec'[w])
        <3>1. pack'[m.id] = st /\ m.composite
            BY <1>1, <2>1, <2>2, <2>4 DEF FlowInv
        <3> QED BY <1>1, <1>2, <2>2, <2>3, <3>1, SendHolds
    <2>6. {l} \in st => Pending(l)'
        BY <2>5 DEF Pending
    <2> QED BY <1>3, <2>2, <2>6 DEF Pending
<1>11. ASSUME NEW x \in independent, NEW w \in Workers, RouteIndependent(x, w) PROVE Pending(l)'
    <2>1. PICK m : m = [id |-> Lead(x), composite |-> FALSE, unit |-> x]
        OBVIOUS
    <2>2. /\ Send(w, m) /\ UNCHANGED <<exec, pack>> /\ independent' = independent \ {x}
          /\ UNCHANGED <<batch_buffer, direct_route, supertasks>>
        BY <1>11, <2>1 DEF RouteIndependent
    <2>3. Holding(x, queue'[w], pack', exec'[w])
        BY <1>1, <1>2, <2>1, <2>2, SendHolds
    <2>4. x = {l} => Pending(l)'
        BY <2>3 DEF Pending
    <2> QED BY <1>3, <2>2, <2>4 DEF Pending
<1>12. ~NoWorkerFor
    BY <1>2 DEF NoWorkerFor
<1>13. CASE ScheduleDirect \/ ScheduleIndependent
    BY <1>4, <1>13 DEF ScheduleDirect, ScheduleIndependent
<1>14. ASSUME NEW k \in Ids, FanOut(k) \/ FanOutTimeout(k) PROVE Pending(l)'
    BY <1>4, <1>14 DEF FanOut, FanOutTimeout, batchVars
<1>15. ASSUME NEW w \in Workers, WorkerStep(w) PROVE Pending(l)'
    BY <1>4, <1>15 DEF WorkerStep, Take, NextChild, PerformRead, PerformFails, PerformWrite,
                       Settle, Answer, CloseComposite, batchVars
<1>16. CASE FleetStep
    BY <1>4, <1>16 DEF FleetStep, Crash, Stop, Gone, Start, Suspend, Report, Resume, batchVars
<1>17. CASE UNCHANGED vars
    BY <1>4, <1>17 DEF vars, batchVars
<1> QED BY <1>5, <1>6, <1>7, <1>8, <1>9, <1>10, <1>11, <1>12, <1>13, <1>14, <1>15, <1>16, <1>17
        DEF Next, DispatcherStep, RouteStep

\* A label that was just published is in the buffer.
LEMMA NewlyPublished ==
    ASSUME FlowInv, [Next]_vars, NEW l \in Ids, client[l] = "new", client'[l] # "new"
    PROVE  l \in batch_buffer'
<1>1. client' # client
    OBVIOUS
<1>2. CASE ClientStep
    <2>1. ASSUME NEW m \in Ids, Publish(m) PROVE l \in batch_buffer'
        <3>1. l = m
            BY <2>1 DEF Publish, FlowInv
        <3> QED BY <2>1, <3>1 DEF Publish
    <2>2. ASSUME NEW m \in Ids, Receive(m) \/ ReplyTimeout(m) PROVE FALSE
        <3>1. client[m] = "waiting" /\ \E x : client' = [client EXCEPT ![m] = x]
            BY <2>2 DEF Receive, ReplyTimeout
        <3> QED BY <3>1 DEF FlowInv
    <2> QED BY <1>2, <2>1, <2>2 DEF ClientStep
<1>3. CASE DispatcherStep
    BY <1>1, <1>3 DEF DispatcherStep, DropBatch, CollectBatch, Requery, RouteStep, RouteDirect,
                      RouteSupertask, RouteIndependent, NoWorkerFor, ScheduleDirect, ScheduleIndependent
<1>4. CASE RefreshWorkers
    BY <1>1, <1>4 DEF RefreshWorkers
<1>5. ASSUME NEW k \in Ids, FanOut(k) \/ FanOutTimeout(k) PROVE FALSE
    BY <1>1, <1>5 DEF FanOut, FanOutTimeout
<1>6. ASSUME NEW w \in Workers, WorkerStep(w) PROVE FALSE
    BY <1>1, <1>6 DEF WorkerStep, Take, NextChild, PerformRead, PerformFails, PerformWrite,
                      Settle, Answer, CloseComposite
<1>7. CASE FleetStep
    BY <1>1, <1>7 DEF FleetStep, Crash, Stop, Gone, Start, Suspend, Report, Resume
<1>8. CASE UNCHANGED vars
    BY <1>1, <1>8 DEF vars
<1> QED BY <1>2, <1>3, <1>4, <1>5, <1>6, <1>7, <1>8 DEF Next

LEMMA RestInit == Init => RestInv
<1> SUFFICES ASSUME Init PROVE RestInv
    OBVIOUS
<1>1. RouteOrder /\ FleetReady
    BY DEF Init, RouteOrder, FleetReady, Ready
<1>2. Accounted
    BY DEF Init, Accounted
<1> QED BY <1>1, <1>2, SoloInit DEF RestInv

LEMMA RestInvStep ==
    ASSUME ~AggregationEnabled, Workers # {}, PlaceInv, PlaceInv', SteadyInv, RestInv, [Next]_vars
    PROVE  RestInv'
<1>1. FlowInv
    BY DEF PlaceInv
<1>2. RouteOrder'
    BY RouteOrderStep DEF RestInv
<1>3. FleetReady'
    BY <1>1, FleetReadyStep DEF RestInv, SteadyInv
<1>4. SoloInv'
    BY SoloStep DEF RestInv
<1>5. ASSUME Undisturbed', NEW l \in Ids, client'[l] # "new", sent'[l] = <<>>
      PROVE  Pending(l)'
    <2>1. Undisturbed /\ sent[l] = <<>>
        BY <1>5, UndisturbedBefore
    <2>2. CASE client[l] = "new"
        BY <1>1, <1>5, <2>2, NewlyPublished DEF Pending
    <2>3. CASE client[l] # "new"
        <3>1. Pending(l)
            BY <2>1, <2>3 DEF RestInv, Accounted
        <3> QED BY <1>5, <3>1, PendingStep
    <2> QED BY <2>2, <2>3
<1>6. Accounted'
    BY <1>5 DEF Accounted
<1> QED BY <1>2, <1>3, <1>4, <1>6 DEF RestInv

\* Without aggregation, a pipeline that has come to rest while no worker left, nothing
\* timed out and nothing failed has answered every client: no label is lost between the
\* dispatcher's batch buffer and the worker's completion.
THEOREM RestMeansAnswered ==
    ASSUME ~AggregationEnabled, Workers # {}
    PROVE  Spec => []QuietMeansAnswered
<1>1. PlaceInv /\ PlaceInv' /\ SteadyInv /\ RestInv /\ [Next]_vars => RestInv'
    BY RestInvStep
<1>2. PlaceInv /\ RestInv => QuietMeansAnswered
    <2> SUFFICES ASSUME PlaceInv, RestInv, Quiet, Undisturbed, NEW l \in Ids, client[l] # "new",
                        sent[l] = <<>>
                 PROVE  FALSE
        BY DEF QuietMeansAnswered
    <2>1. Pending(l)
        BY DEF RestInv, Accounted
    <2>2. batch_buffer = {} /\ direct_route = {} /\ supertasks = {} /\ independent = {}
        BY DEF Quiet, RestInv, RouteOrder
    <2>3. PICK w \in Workers : Holding({l}, queue[w], pack, exec[w])
        BY <2>1, <2>2 DEF Pending
    <2>4. PICK at, on, unit, team : Placed(at, on, unit, team)
        BY DEF PlaceInv, Somewhere
    <2>5. queue[w] = <<>> /\ exec[w] = Idle
        BY <2>4 DEF Quiet, Placed, InHands, InHandler
    <2> QED BY <2>3, <2>5 DEF Holding, Idle, Current
<1> QED BY <1>1, <1>2, RestInit, SteadyInvariant, PlaceInvariant, PTL DEF Spec
=============================================================================
