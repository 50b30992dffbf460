------------------------------ MODULE LabelFlow ------------------------------
(***************************************************************************)
(* The life of a label, from a client's publish to its completion:         *)
(*   client      LabelManager::publish_write/publish_read/wait             *)
(*   dispatcher  labios-dispatcher.cpp: batch buffer, shuffle, routing,    *)
(*               catalog scheduling, reply fanout                          *)
(*   worker      labios-worker.cpp: the label handler, execute_write,      *)
(*               execute_read, supertasks; start, stop, crash, suspension  *)
(*   shared      Redis (staged data, supertask packs, catalog) and NATS    *)
(*               (subjects without persistence).                           *)
(*                                                                         *)
(* The data of a write is the id of the label that carries it, so a blob   *)
(* is the set of the ids whose bytes it holds; {} is a missing or empty    *)
(* key (get_binary returns the same for both).                             *)
(***************************************************************************)
EXTENDS Shuffler, Sequences

CONSTANTS
    MaxLabels,   \* bound: labels the clients publish
    Workers,     \* worker ids
    Files,       \* file keys
    FileSize,    \* bound: bytes of a file
    Requests,    \* the labels clients may ask for: records of Request
    MaxChurn,    \* bound: crashes, stops, starts, suspensions, failed queries
    MaxFailures  \* bound: backend errors

Ids == 1 .. MaxLabels

Cells == 0 .. (FileSize - 1)

Request == [type : {"Write", "Read", "Delete", "Observe"},
            file : Files, app : Nat, off : Nat, len : Nat]

ASSUME LabelFlowAssumption ==
    /\ MaxLabels \in Nat
    /\ MaxChurn \in Nat
    /\ MaxFailures \in Nat
    /\ Workers \subseteq Nat \ {0}
    /\ FileSize \in Nat
    /\ Requests \subseteq Request
    /\ \A q \in Requests : End(q) <= FileSize

VARIABLES
    req,            \* the label behind each id
    (* client *)
    client,         \* what the caller of wait() knows of each label
    (* warehouse: Redis *)
    staged,         \* blob under data_key(id)
    pack,           \* labios:supertask:<id>: the packed children
    (* catalog: Redis *)
    status,         \* labios:catalog:<id> status
    location,       \* labios:location:<file>, 0 when absent
    olocation,      \* labios:olocation:<file>, the sorted set
    (* dispatcher *)
    batch_buffer,   \* labels published and not yet taken into a batch
    dpc,            \* where the batch thread is
    direct_route,   \* unit and worker pairs left to publish
    supertasks,     \* supertasks left to publish
    independent,    \* independent units left to publish
    sched,          \* ids for the next catalog.schedule_batch
    workers,        \* this batch's snapshot: ids the solver may choose
    cached,         \* g_cached_workers
    fanout,         \* reply_fanout[id] of a waiting fanout thread
    fanbox,         \* what reached that thread's reply inbox
    (* workers and manager *)
    queue,          \* messages of labios.worker.<id>
    exec,           \* the label handler
    disk,           \* the worker's storage root
    alive,          \* running worker processes
    suspended,      \* g_suspended
    resume,         \* resume commands on their way
    registry,       \* the manager's view of the workers
    (* transport *)
    sent,           \* completions published to each client's reply inbox
    (* history, and bounds *)
    stored,         \* payloads some worker has put
    churn,
    failures

catalogVars == <<status, location, olocation>>
batchVars == <<batch_buffer, dpc, direct_route, supertasks, independent, sched, workers>>
fanVars == <<fanout, fanbox>>
workerVars == <<queue, exec, disk, stored>>
fleetVars == <<alive, suspended, resume, registry>>
vars == <<req, client, staged, pack, catalogVars, batchVars, cached, fanVars,
          workerVars, fleetVars, sent, churn, failures>>

NoWorkers == [w \in Workers |-> "absent"]
Available(view) == {w \in Workers : view[w] = "available"}
Idle == [phase |-> "idle", id |-> 0, composite |-> FALSE, todo |-> {}, unit |-> {}, ok |-> TRUE]

Span(u) == UnitRange(req, u)
Lead(u) == UnitId(req, u)

-----------------------------------------------------------------------------
(* Catalog locations *)

\* set_location(file, off, len, wid): ZADD of member "wid:end" with score off,
\* which replaces that member's score, and the whole-file key.
SetLocations(us, w) ==
    LET new(f) == {[start |-> Span(u).off, wid |-> w, end |-> End(Span(u))] :
                     u \in {v \in us : UnitFile(req, v) = f}}
        kept(f) == {e \in olocation[f] :
                      \A n \in new(f) : e.wid # n.wid \/ e.end # n.end}
    IN  /\ olocation' = [f \in Files |-> kept(f) \cup new(f)]
        /\ location' = [f \in Files |-> IF new(f) # {} THEN w ELSE location[f]]

\* The order of ZRANGEBYSCORE: by score, then by member (ids of one digit).
ZBefore(a, b) ==
    \/ a.start < b.start
    \/ a.start = b.start /\ a.wid < b.wid
    \/ a.start = b.start /\ a.wid = b.wid /\ a.end <= b.end

\* get_location(file, off, len): the first entry that contains the range, else
\* the whole-file location, which is also asked for by the range 0, 0; 0 for none.
GetLocation(u) ==
    LET hits == {e \in olocation[UnitFile(req, u)] :
                   e.start <= Span(u).off /\ End(Span(u)) <= e.end}
    IN  IF End(Span(u)) = 0 \/ hits = {}
        THEN location[UnitFile(req, u)]
        ELSE (CHOOSE e \in hits : \A d \in hits : ZBefore(e, d)).wid

-----------------------------------------------------------------------------
(* Client: LabelManager *)

\* publish_write stages the chunk, creates the catalog entry and publishes the
\* label with a fresh reply inbox; publish_read stages nothing; labels of the
\* other types come from Client::publish and observe, which create no entry.
\* Nobody else sees the label before it is published: the steps are one.
Publish(l) ==
    /\ client[l] = "new"
    /\ \A m \in Ids : m < l => client[m] # "new"
    /\ client' = [client EXCEPT ![l] = "waiting"]
    /\ staged' = [staged EXCEPT ![l] = IF req[l].type = "Write" THEN {l} ELSE {}]
    /\ status' = [status EXCEPT ![l] = IF req[l].type \in {"Write", "Read"}
                                       THEN "queued" ELSE @]
    /\ batch_buffer' = batch_buffer \cup {l}
    /\ UNCHANGED <<req, pack, location, olocation, dpc, direct_route, supertasks,
                   independent, sched, workers, cached, fanVars, workerVars, fleetVars,
                   sent, churn, failures>>

\* wait / wait_read with the first completion of the inbox: an error throws, a
\* completed read takes its data out of the warehouse.
Receive(l) ==
    /\ client[l] = "waiting"
    /\ sent[l] # <<>>
    /\ client' = [client EXCEPT ![l] = Head(sent[l])]
    /\ IF req[l].type = "Read" /\ Head(sent[l]) = "complete"
       THEN staged' = [staged EXCEPT ![l] = {}]
       ELSE UNCHANGED staged
    /\ UNCHANGED <<req, pack, catalogVars, batchVars, cached, fanVars, workerVars,
                   fleetVars, sent, churn, failures>>

\* AsyncReply::wait gives up after reply_timeout_ms and throws.
ReplyTimeout(l) ==
    /\ client[l] = "waiting"
    /\ churn < MaxChurn
    /\ churn' = churn + 1
    /\ client' = [client EXCEPT ![l] = "timeout"]
    /\ UNCHANGED <<req, staged, pack, catalogVars, batchVars, cached, fanVars,
                   workerVars, fleetVars, sent, failures>>

-----------------------------------------------------------------------------
(* Dispatcher: the batch thread *)

\* nats.publish to labios.worker.<w>: lost when no process subscribes.
Send(w, m) ==
    queue' = IF w \in alive THEN [queue EXCEPT ![w] = Append(@, m)] ELSE queue

\* Seeded fault: the children of a supertask stay among the independent units.
FreeUnitsKeepingInvolved(units, supers) == units

\* Units that no supertask took.
FreeUnits(units, supers) == units \ UNION supers

\* Seeded fault: reads record a location too.
WritesOfUnfiltered(us) == us

\* Only a write records a location.
WritesOf(us) == {u \in us : UnitType(req, u) = "Write"}

\* Seeded fault: the "no location" result is taken for a worker id.
HasLocationUnchecked(u) == TRUE

HasLocation(u) == GetLocation(u) # 0

\* OBSERVE labels of the batch are answered inline.
AnswerObserve(obs, outcome) ==
    sent' = [l \in Ids |-> IF l \in obs THEN Append(sent[l], outcome) ELSE sent[l]]

Observes(batch) == {l \in batch : req[l].type = "Observe"}

\* The batch holds nothing but OBSERVE labels, or no worker is cached and the
\* rest of the batch is skipped.
DropBatch ==
    /\ dpc = "collect"
    /\ batch_buffer # {}
    /\ \/ batch_buffer = Observes(batch_buffer)
       \/ cached = NoWorkers
    /\ \E outcome \in {"complete", "error"} :
          AnswerObserve(Observes(batch_buffer), outcome)
    /\ batch_buffer' = {}
    /\ UNCHANGED <<req, client, staged, pack, catalogVars, dpc, direct_route, supertasks,
                   independent, sched, workers, cached, fanVars, workerVars, fleetVars,
                   churn, failures>>

\* Take the whole buffer, shuffle it, and resume the workers when the cache
\* shows every one of them suspended.
CollectBatch ==
    LET rest == batch_buffer \ Observes(batch_buffer)
        units == Aggregate(req, rest)
        supers == BuildSupertasks(req, units)
        free == FreeUnits(units, supers)
        held == {u \in free : UnitType(req, u) = "Read" /\ HasLocation(u)}
    IN  /\ dpc = "collect"
        /\ rest # {}
        /\ cached # NoWorkers
        /\ \E outcome \in {"complete", "error"} :
              AnswerObserve(Observes(batch_buffer), outcome)
        /\ batch_buffer' = {}
        /\ supertasks' = supers
        /\ direct_route' = {<<u, GetLocation(u)>> : u \in held}
        /\ independent' = free \ held
        /\ workers' = Available(cached)
        /\ IF Available(cached) = {}
           THEN /\ dpc' = "resume"
                /\ resume' = resume \cup {w \in alive : cached[w] # "absent"}
           ELSE /\ dpc' = "direct"
                /\ UNCHANGED resume
        /\ UNCHANGED <<req, client, staged, pack, catalogVars, sched, cached, fanVars,
                       workerVars, alive, suspended, registry, churn, failures>>

\* query_workers: the manager's registry, or nothing when the request times out.
QueryWorkers(view) ==
    \/ view = registry /\ UNCHANGED churn
    \/ view = NoWorkers /\ churn < MaxChurn /\ churn' = churn + 1

\* One second after the resume commands the worker list is queried again.
Requery ==
    /\ dpc = "resume"
    /\ \E view \in {registry, NoWorkers} :
          /\ QueryWorkers(view)
          /\ cached' = view
          /\ workers' = Available(view)
    /\ dpc' = "direct"
    /\ UNCHANGED <<req, client, staged, pack, catalogVars, batch_buffer, direct_route,
                   supertasks, independent, sched, fanVars, workerVars, fleetVars, sent,
                   failures>>

\* The background thread that refreshes the cached worker list.
RefreshWorkers ==
    /\ \E view \in {registry, NoWorkers} : QueryWorkers(view) /\ cached' = view
    /\ UNCHANGED <<req, client, staged, pack, catalogVars, batchVars, fanVars,
                   workerVars, fleetVars, sent, failures>>

\* (A) a read goes to the worker that holds its range.
RouteDirect(p) ==
    /\ dpc = "direct"
    /\ p \in direct_route
    /\ direct_route' = direct_route \ {p}
    /\ sched' = sched \cup {Lead(p[1])}
    /\ Send(p[2], [id |-> Lead(p[1]), composite |-> FALSE, unit |-> p[1]])
    /\ UNCHANGED <<req, client, staged, pack, catalogVars, batch_buffer, dpc, supertasks,
                   independent, workers, cached, fanVars, exec, disk, stored, fleetVars, sent,
                   churn, failures>>

Scheduled(ids) == [l \in Ids |-> IF l \in ids THEN "scheduled" ELSE status[l]]

\* catalog.schedule_batch after the last direct route has been published.
ScheduleDirect ==
    /\ dpc = "direct"
    /\ direct_route = {}
    /\ status' = Scheduled(sched)
    /\ sched' = {}
    /\ dpc' = "solve"
    /\ UNCHANGED <<req, client, staged, pack, location, olocation, batch_buffer,
                   direct_route, supertasks, independent, workers, cached, fanVars,
                   workerVars, fleetVars, sent, churn, failures>>

\* Seeded fault: the composite is published without its pack.
PackChildrenLater(cid, st) == UNCHANGED pack

PackChildren(cid, st) == pack' = [pack EXCEPT ![cid] = st]

\* (B) a supertask: pack the children, set the locations of its writes, mark
\* everything scheduled and only then publish the composite.
RouteSupertask(st, w) ==
    LET cid == CompositeId(req, st)
    IN  /\ dpc = "solve"
        /\ st \in supertasks
        /\ w \in workers
        /\ supertasks' = supertasks \ {st}
        /\ PackChildren(cid, st)
        /\ SetLocations(WritesOf(st), w)
        /\ status' = Scheduled({Lead(u) : u \in st})
        /\ Send(w, [id |-> cid, composite |-> TRUE, unit |-> {}])
        /\ UNCHANGED <<req, client, staged, batch_buffer, dpc, direct_route, independent,
                       sched, workers, cached, fanVars, exec, disk, stored, fleetVars, sent,
                       churn, failures>>

\* (C) an independent unit.  The chunks of a merged write are combined under the
\* id of its first label and a fanout thread takes over its reply inbox.
Merged(u) == Cardinality(u) > 1

\* Seeded fault: only the first chunk is put under the merged id.
CombinedFirstOnly(u) == [l \in Ids |-> IF l \in u \ {Lead(u)} THEN {} ELSE staged[l]]

\* Seeded fault: the chunks are deleted after the combined blob is set.
CombinedThenDeleted(u) == [l \in Ids |-> IF l \in u THEN {} ELSE staged[l]]

Combined(u) ==
    [l \in Ids |-> IF l = Lead(u) THEN UNION {staged[i] : i \in u}
                   ELSE IF l \in u THEN {} ELSE staged[l]]

CombineUnit(u) ==
    IF Merged(u)
    THEN /\ staged' = Combined(u)
         /\ fanout' = [fanout EXCEPT ![Lead(u)] = u]
    ELSE UNCHANGED <<staged, fanout>>

\* Where write locality sends a unit; 0 when the solver decides.
WriteLocality(u) == IF UnitType(req, u) = "Write" THEN location[UnitFile(req, u)] ELSE 0

RouteIndependent(u, w) ==
    /\ dpc = "solve"
    /\ supertasks = {}
    /\ u \in independent
    /\ independent' = independent \ {u}
    /\ CombineUnit(u)
    /\ \/ w = WriteLocality(u) /\ UNCHANGED <<location, olocation>>
       \/ /\ WriteLocality(u) = 0
          /\ w \in workers
          /\ SetLocations(WritesOf({u}), w)
    /\ sched' = sched \cup {Lead(u)}
    /\ Send(w, [id |-> Lead(u), composite |-> FALSE, unit |-> u])
    /\ UNCHANGED <<req, client, pack, status, batch_buffer, dpc, direct_route, supertasks,
                   workers, cached, fanbox, exec, disk, stored, fleetVars, sent, churn, failures>>

\* The solver finds no available worker: the supertask or the unit is given up.
NoWorkerFor ==
    /\ dpc = "solve"
    /\ workers = {}
    /\ \/ /\ \E st \in supertasks : supertasks' = supertasks \ {st}
          /\ UNCHANGED <<independent, staged, fanout>>
       \/ /\ supertasks = {}
          /\ \E u \in independent : /\ WriteLocality(u) = 0
                                    /\ independent' = independent \ {u}
                                    /\ CombineUnit(u)
          /\ UNCHANGED supertasks
    /\ UNCHANGED <<req, client, pack, catalogVars, batch_buffer, dpc, direct_route, sched,
                   workers, cached, fanbox, workerVars, fleetVars, sent, churn, failures>>

\* catalog.schedule_batch after the last independent label has been published.
ScheduleIndependent ==
    /\ dpc = "solve"
    /\ supertasks = {}
    /\ independent = {}
    /\ status' = Scheduled(sched)
    /\ sched' = {}
    /\ dpc' = "collect"
    /\ UNCHANGED <<req, client, staged, pack, location, olocation, batch_buffer,
                   direct_route, supertasks, independent, workers, cached, fanVars,
                   workerVars, fleetVars, sent, churn, failures>>

\* The fanout thread forwards the completion to every original client.
FanOut(l) ==
    /\ fanbox[l] # "none"
    /\ sent' = [m \in Ids |-> IF m \in fanout[l] THEN Append(sent[m], fanbox[l]) ELSE sent[m]]
    /\ fanout' = [fanout EXCEPT ![l] = {}]
    /\ fanbox' = [fanbox EXCEPT ![l] = "none"]
    /\ UNCHANGED <<req, client, staged, pack, catalogVars, batchVars, cached, workerVars,
                   fleetVars, churn, failures>>

\* Seeded fault: the fanout thread reports success when it gives up.
FanOutTimeoutAnswers(l) ==
    /\ fanout[l] # {}
    /\ fanbox[l] = "none"
    /\ churn < MaxChurn
    /\ churn' = churn + 1
    /\ fanbox' = [fanbox EXCEPT ![l] = "complete"]
    /\ UNCHANGED <<req, client, staged, pack, catalogVars, batchVars, cached, fanout,
                   workerVars, fleetVars, sent, failures>>

\* It gives up after 60 seconds.
FanOutTimeout(l) ==
    /\ fanout[l] # {}
    /\ fanbox[l] = "none"
    /\ churn < MaxChurn
    /\ churn' = churn + 1
    /\ fanout' = [fanout EXCEPT ![l] = {}]
    /\ UNCHANGED <<req, client, staged, pack, catalogVars, batchVars, cached, fanbox,
                   workerVars, fleetVars, sent, failures>>

-----------------------------------------------------------------------------
(* Worker: the label handler, one label at a time *)

\* A label wakes a suspended worker; the handler marks it executing.  The
\* children of a composite come out of its pack.
Take(w) ==
    /\ w \in alive
    /\ exec[w].phase = "idle"
    /\ queue[w] # <<>>
    /\ LET m == Head(queue[w])
       IN  /\ exec' = [exec EXCEPT ![w] =
                 IF m.composite
                 THEN [Idle EXCEPT !.phase = "next", !.id = m.id, !.composite = TRUE,
                                   !.todo = pack[m.id]]
                 ELSE [Idle EXCEPT !.phase = "begun", !.id = m.id, !.unit = m.unit]]
           /\ status' = [status EXCEPT ![m.id] = "executing"]
    /\ queue' = [queue EXCEPT ![w] = Tail(@)]
    /\ suspended' = suspended \ {w}
    /\ UNCHANGED <<req, client, staged, pack, location, olocation, batchVars, cached,
                   fanVars, disk, stored, alive, resume, registry, sent, churn, failures>>

\* The next child of a composite.
NextChild(w) ==
    /\ exec[w].phase = "next"
    /\ exec[w].todo # {}
    /\ LET u == FirstChild(req, exec[w].todo)
       IN  /\ exec' = [exec EXCEPT ![w].phase = "begun", ![w].unit = u,
                                   ![w].todo = @ \ {u}]
           /\ status' = [status EXCEPT ![Lead(u)] = "executing"]
    /\ UNCHANGED <<req, client, staged, pack, location, olocation, batchVars, cached,
                   fanVars, queue, disk, stored, fleetVars, sent, churn, failures>>

FileExists(w, f) == \E c \in Cells : disk[w][f][c] # 0

\* PosixBackend::put of a blob at off: the file is opened without truncation only
\* for off > 0 on an existing file.
PutBlob(w, f, off, blob) ==
    LET kept(c) == IF off > 0 THEN disk[w][f][c] ELSE 0
        cell(c) == {p \in blob : c \in req[p].off .. (End(req[p]) - 1)}
    IN  [c \in Cells |-> IF cell(c) # {} THEN CHOOSE p \in cell(c) : TRUE ELSE kept(c)]

\* PosixBackend::get: the bytes of the range that the file has.
GetBlob(w, f, rng) ==
    {disk[w][f][c] : c \in {x \in Cells : rng.off <= x /\ x < End(rng)}} \ {0}

\* execute_write: retrieve, put, remove the staged blob, record the location.
PerformWrite(w) ==
    LET u == exec[w].unit
        f == UnitFile(req, u)
        blob == staged[Lead(u)]
    IN  /\ exec[w].phase = "begun"
        /\ UnitType(req, u) = "Write"
        /\ disk' = [disk EXCEPT ![w][f] = PutBlob(w, f, Span(u).off, blob)]
        /\ stored' = stored \cup blob
        /\ staged' = [staged EXCEPT ![Lead(u)] = {}]
        /\ SetLocations({u}, w)
        /\ exec' = [exec EXCEPT ![w].phase = "performed", ![w].ok = TRUE]
        /\ UNCHANGED <<req, client, pack, status, batchVars, cached, fanVars, queue,
                       fleetVars, sent, churn, failures>>

\* execute_read: get, stage the bytes under the label's own key.
PerformRead(w) ==
    LET u == exec[w].unit
        f == UnitFile(req, u)
    IN  /\ exec[w].phase = "begun"
        /\ UnitType(req, u) = "Read"
        /\ FileExists(w, f)
        /\ staged' = [staged EXCEPT ![Lead(u)] = GetBlob(w, f, Span(u))]
        /\ exec' = [exec EXCEPT ![w].phase = "performed", ![w].ok = TRUE]
        /\ UNCHANGED <<req, client, pack, catalogVars, batchVars, cached, fanVars, queue,
                       disk, stored, fleetVars, sent, churn, failures>>

\* An exception before anything is changed: an unsupported type, a file this
\* worker does not have, or (bounded) a backend that fails.
PerformFails(w) ==
    LET u == exec[w].unit
    IN  /\ exec[w].phase = "begun"
        /\ \/ UnitType(req, u) = "Delete" /\ UNCHANGED failures
           \/ /\ UnitType(req, u) = "Read"
              /\ ~FileExists(w, UnitFile(req, u))
              /\ UNCHANGED failures
           \/ failures < MaxFailures /\ failures' = failures + 1
        /\ exec' = [exec EXCEPT ![w].phase = "performed", ![w].ok = FALSE]
        /\ UNCHANGED <<req, client, staged, pack, catalogVars, batchVars, cached, fanVars,
                       queue, disk, stored, fleetVars, sent, churn>>

\* Seeded fault: the error path forgets to set the status.
OutcomeIgnoringError(w) == "complete"

Outcome(w) == IF exec[w].ok THEN "complete" ELSE "error"

\* The catalog is told before the client.
Settle(w) ==
    /\ exec[w].phase = "performed"
    /\ status' = [status EXCEPT ![Lead(exec[w].unit)] = Outcome(w)]
    /\ exec' = [exec EXCEPT ![w].phase = "settled"]
    /\ UNCHANGED <<req, client, staged, pack, location, olocation, batchVars, cached,
                   fanVars, queue, disk, stored, fleetVars, sent, churn, failures>>

\* Seeded fault: a merged label also answers its first client directly.
PublishCompletionTwice(w) ==
    LET l == Lead(exec[w].unit)
    IN  /\ fanbox' = [fanbox EXCEPT ![l] = IF fanout[l] = {} THEN @ ELSE Outcome(w)]
        /\ sent' = [sent EXCEPT ![l] = Append(@, Outcome(w))]

\* Seeded fault: the children of a composite are not answered.
PublishCompletionSingly(w) ==
    LET l == Lead(exec[w].unit)
    IN  /\ fanbox' = [fanbox EXCEPT ![l] = IF fanout[l] = {} THEN @ ELSE Outcome(w)]
        /\ sent' = IF exec[w].composite THEN sent ELSE [sent EXCEPT ![l] = Append(@, Outcome(w))]

\* publish_completion to the label's reply_to: the fanout inbox for a merged
\* label on its own, else the inbox of the (first) client.
PublishCompletion(w) ==
    LET l == Lead(exec[w].unit)
    IN  IF Merged(exec[w].unit) /\ ~exec[w].composite
        THEN /\ fanbox' = [fanbox EXCEPT ![l] = IF fanout[l] = {} THEN @ ELSE Outcome(w)]
             /\ UNCHANGED sent
        ELSE /\ sent' = [sent EXCEPT ![l] = Append(@, Outcome(w))]
             /\ UNCHANGED fanbox

\* Seeded fault for AnsweredOrAbandoned: the error path never leaves the handler.
AnswerWedged(w) ==
    /\ exec[w].phase = "settled"
    /\ PublishCompletion(w)
    /\ exec' = [exec EXCEPT ![w] = IF ~@.ok THEN [@ EXCEPT !.phase = "wedged"]
                                   ELSE IF @.composite THEN [@ EXCEPT !.phase = "next"]
                                   ELSE Idle]
    /\ UNCHANGED <<req, client, staged, pack, catalogVars, batchVars, cached,
                   fanout, queue, disk, stored, fleetVars, churn, failures>>

\* After an error in a child the composite fails too and the rest of its
\* children is abandoned; the composite itself has no reply inbox.
Answer(w) ==
    /\ exec[w].phase = "settled"
    /\ PublishCompletion(w)
    /\ exec' = [exec EXCEPT ![w] = IF @.composite /\ @.ok THEN [@ EXCEPT !.phase = "next"]
                                   ELSE Idle]
    /\ status' = IF exec[w].composite /\ ~exec[w].ok
                 THEN [status EXCEPT ![exec[w].id] = "error"] ELSE status
    /\ UNCHANGED <<req, client, staged, pack, location, olocation, batchVars, cached,
                   fanout, queue, disk, stored, fleetVars, churn, failures>>

\* All children done: the pack is deleted and the composite is complete.
CloseComposite(w) ==
    /\ exec[w].phase = "next"
    /\ exec[w].todo = {}
    /\ pack' = [pack EXCEPT ![exec[w].id] = {}]
    /\ status' = [status EXCEPT ![exec[w].id] = "complete"]
    /\ exec' = [exec EXCEPT ![w] = Idle]
    /\ UNCHANGED <<req, client, staged, location, olocation, batchVars, cached, fanVars,
                   queue, disk, stored, fleetVars, sent, churn, failures>>

-----------------------------------------------------------------------------
(* Workers come and go *)

Gone(w) ==
    /\ w \in alive
    /\ alive' = alive \ {w}
    /\ suspended' = suspended \ {w}
    /\ resume' = resume \ {w}
    /\ queue' = [queue EXCEPT ![w] = <<>>]
    /\ exec' = [exec EXCEPT ![w] = Idle]
    /\ churn < MaxChurn
    /\ churn' = churn + 1
    /\ UNCHANGED <<req, client, staged, pack, catalogVars, batchVars, cached, fanVars,
                   disk, stored, sent, failures>>

\* A crash leaves the manager's entry behind.
Crash(w) == Gone(w) /\ UNCHANGED registry

\* SIGTERM: the worker deregisters.
Stop(w) == Gone(w) /\ registry' = [registry EXCEPT ![w] = "absent"]

\* Subscribe, then register.
Start(w) ==
    /\ w \notin alive
    /\ alive' = alive \cup {w}
    /\ registry' = [registry EXCEPT ![w] = "available"]
    /\ churn < MaxChurn
    /\ churn' = churn + 1
    /\ UNCHANGED <<req, client, staged, pack, catalogVars, batchVars, cached, fanVars,
                   workerVars, suspended, resume, sent, failures>>

\* The manager ignores an update for a worker it does not know.
ScoreUpdate(w, view) ==
    registry' = [registry EXCEPT ![w] = IF @ = "absent" THEN @ ELSE view]

\* The score thread: an idle worker suspends itself and says so.
Suspend(w) ==
    /\ w \in alive \ suspended
    /\ exec[w].phase = "idle"
    /\ suspended' = suspended \cup {w}
    /\ ScoreUpdate(w, "suspended")
    /\ churn < MaxChurn
    /\ churn' = churn + 1
    /\ UNCHANGED <<req, client, staged, pack, catalogVars, batchVars, cached, fanVars,
                   workerVars, alive, resume, sent, failures>>

\* The score thread's periodic report.
Report(w) ==
    /\ w \in alive
    /\ ScoreUpdate(w, IF w \in suspended THEN "suspended" ELSE "available")
    /\ UNCHANGED <<req, client, staged, pack, catalogVars, batchVars, cached, fanVars,
                   workerVars, alive, suspended, resume, sent, churn, failures>>

\* A resume command arrives.
Resume(w) ==
    /\ w \in resume \cap alive
    /\ resume' = resume \ {w}
    /\ suspended' = suspended \ {w}
    /\ ScoreUpdate(w, "available")
    /\ UNCHANGED <<req, client, staged, pack, catalogVars, batchVars, cached, fanVars,
                   workerVars, alive, sent, churn, failures>>

-----------------------------------------------------------------------------
Init ==
    /\ req \in [Ids -> Requests]
    /\ client = [l \in Ids |-> "new"]
    /\ staged = [l \in Ids |-> {}]
    /\ pack = [l \in Ids |-> {}]
    /\ status = [l \in Ids |-> "none"]
    /\ location = [f \in Files |-> 0]
    /\ olocation = [f \in Files |-> {}]
    /\ batch_buffer = {}
    /\ dpc = "collect"
    /\ direct_route = {}
    /\ supertasks = {}
    /\ independent = {}
    /\ sched = {}
    /\ workers = {}
    /\ cached = [w \in Workers |-> "available"]
    /\ fanout = [l \in Ids |-> {}]
    /\ fanbox = [l \in Ids |-> "none"]
    /\ queue = [w \in Workers |-> <<>>]
    /\ exec = [w \in Workers |-> Idle]
    /\ disk = [w \in Workers |-> [f \in Files |-> [c \in Cells |-> 0]]]
    /\ stored = {}
    /\ alive = Workers
    /\ suspended = {}
    /\ resume = {}
    /\ registry = [w \in Workers |-> "available"]
    /\ sent = [l \in Ids |-> <<>>]
    /\ churn = 0
    /\ failures = 0

ClientStep == \E l \in Ids : Publish(l) \/ Receive(l) \/ ReplyTimeout(l)

RouteStep ==
    \/ \E p \in direct_route : RouteDirect(p)
    \/ \E st \in supertasks, w \in Workers : RouteSupertask(st, w)
    \/ \E u \in independent, w \in Workers : RouteIndependent(u, w)
    \/ NoWorkerFor
    \/ ScheduleDirect
    \/ ScheduleIndependent

DispatcherStep ==
    \/ DropBatch
    \/ CollectBatch
    \/ Requery
    \/ RouteStep

WorkerStep(w) ==
    \/ Take(w) \/ NextChild(w) \/ PerformWrite(w) \/ PerformRead(w) \/ PerformFails(w)
    \/ Settle(w) \/ Answer(w) \/ CloseComposite(w)

FleetStep ==
    \E w \in Workers : Crash(w) \/ Stop(w) \/ Start(w) \/ Suspend(w) \/ Report(w) \/ Resume(w)

Next ==
    \/ ClientStep
    \/ DispatcherStep
    \/ RefreshWorkers
    \/ \E l \in Ids : FanOut(l) \/ FanOutTimeout(l)
    \/ \E w \in Workers : WorkerStep(w)
    \/ FleetStep

Spec == Init /\ [][Next]_vars
\* The batch thread, the fanout threads and the workers keep running.  Nothing is
\* assumed of clients, of failures or of workers coming and going.
Fairness ==
    /\ WF_vars(DispatcherStep)
    /\ \A l \in Ids : WF_vars(FanOut(l))
    /\ \A w \in Workers : WF_vars(WorkerStep(w))

FairSpec == Spec /\ Fairness

-----------------------------------------------------------------------------
(* Properties *)

Statuses == {"none", "queued", "scheduled", "executing", "complete", "error"}
Outcomes == {"complete", "error"}
Views == {"absent", "suspended", "available"}
Units == SUBSET Ids
Messages == [id : Ids, composite : BOOLEAN, unit : Units]
Handlers == [phase : {"idle", "next", "begun", "performed", "settled"},
             id : Ids \cup {0}, composite : BOOLEAN, todo : SUBSET Units,
             unit : Units, ok : BOOLEAN]
Entries == [start : Nat, wid : Workers, end : Nat]

\* Type correctness of the whole pipeline state.
TypeOK ==
    /\ req \in [Ids -> Requests]
    /\ client \in [Ids -> {"new", "waiting", "complete", "error", "timeout"}]
    /\ staged \in [Ids -> Units]
    /\ pack \in [Ids -> SUBSET Units]
    /\ status \in [Ids -> Statuses]
    /\ location \in [Files -> Workers \cup {0}]
    /\ olocation \in [Files -> SUBSET Entries]
    /\ batch_buffer \subseteq Ids
    /\ dpc \in {"collect", "resume", "direct", "solve"}
    /\ direct_route \subseteq Units \X Workers
    /\ supertasks \subseteq SUBSET Units
    /\ independent \subseteq Units
    /\ sched \subseteq Ids
    /\ workers \subseteq Workers
    /\ cached \in [Workers -> Views]
    /\ fanout \in [Ids -> Units]
    /\ fanbox \in [Ids -> Outcomes \cup {"none"}]
    /\ queue \in [Workers -> Seq(Messages)]
    /\ exec \in [Workers -> Handlers]
    /\ disk \in [Workers -> [Files -> [Cells -> Ids \cup {0}]]]
    /\ stored \subseteq Ids
    /\ alive \subseteq Workers
    /\ suspended \subseteq Workers
    /\ resume \subseteq Workers
    /\ registry \in [Workers -> Views]
    /\ sent \in [Ids -> Seq(Outcomes)]
    /\ churn \in 0 .. MaxChurn
    /\ failures \in 0 .. MaxFailures

\* The units a worker has been sent and has not answered yet.
Held(w) ==
    {queue[w][i].unit : i \in {j \in DOMAIN queue[w] : ~queue[w][j].composite}}
      \cup (UNION {pack[queue[w][i].id] : i \in {j \in DOMAIN queue[w] : queue[w][j].composite}})
      \cup exec[w].todo
      \cup IF exec[w].phase \in {"begun", "performed", "settled"} THEN {exec[w].unit} ELSE {}

\* The pipeline implements LabelService.
Service == INSTANCE LabelService WITH
    Labels <- Ids,
    writes <- {l \in Ids : req[l].type = "Write"},
    open <- {l \in Ids : client[l] # "new"},
    applied <- stored,
    answer <- [l \in Ids |-> IF sent[l] = <<>> THEN "none"
                             ELSE IF Len(sent[l]) = 1 THEN sent[l][1] ELSE "several"]

\* Every client gets at most one answer, no payload is stored twice, and "complete"
\* is only ever said of a write whose payload a worker has put: also when it was
\* merged with other writes and answered through the fanout thread, or was a child
\* of a supertask.
ImplementsService == Service!Spec

\* A worker about to store a write finds the payload in the warehouse.  A label
\* executed a second time, by this or another worker, would find its blob gone and
\* truncate the file to nothing.
BlobPresent ==
    \A w \in Workers :
        LET u == exec[w].unit
        IN  exec[w].phase = "begun" /\ UnitType(req, u) = "Write" => Lead(u) \in staged[Lead(u)]

\* The payload of a write stays in the warehouse until a worker has stored it,
\* also when its batch was dropped, its worker crashed, or its execution failed.
PayloadKept ==
    \A l \in Ids : (client[l] # "new" /\ req[l].type = "Write" /\ l \notin stored)
                   => \E k \in Ids : l \in staged[k]

\* A worker that takes a composite finds its children under the pack key: the
\* "supertask children not found" exception is never raised.
PackPresent ==
    \A w \in Workers : \A i \in DOMAIN queue[w] :
        queue[w][i].composite => pack[queue[w][i].id] # {}

\* A merged label that is on its way to a worker on its own carries the payloads
\* of all the labels it stands for.
MergedIsWhole ==
    \A w \in Workers : \A i \in DOMAIN queue[w] :
        ~queue[w][i].composite /\ Merged(queue[w][i].unit)
        => queue[w][i].unit \subseteq staged[queue[w][i].id]

\* The catalog calls a write complete only when its payload has been stored.
CatalogTruthful ==
    \A l \in Ids : status[l] = "complete" /\ req[l].type = "Write" => l \in stored

\* No worker left, no query or wait timed out, no label was answered "error".
Undisturbed ==
    /\ churn = 0
    /\ \A l \in Ids : sent[l] \in {<<>>, <<"complete">>} /\ fanbox[l] # "error"

\* While nothing fails and no worker leaves, a file's recorded location is a
\* worker that has the file or has a write to it ahead of any later message, so
\* a read routed by locality never fails to find its file.
LocationBacked ==
    Undisturbed =>
        \A f \in Files, w \in Workers :
            (location[f] = w \/ \E e \in olocation[f] : e.wid = w)
            => \/ FileExists(w, f)
               \/ \E u \in Held(w) : UnitType(req, u) = "Write" /\ UnitFile(req, u) = f

\* Nothing is on its way: no label buffered, routed, queued or in execution.
Quiet ==
    /\ batch_buffer = {}
    /\ dpc = "collect"
    /\ \A w \in Workers : queue[w] = <<>> /\ exec[w].phase = "idle"
    /\ \A l \in Ids : fanbox[l] = "none"

\* When the pipeline has come to rest undisturbed, every client has been answered.
QuietMeansAnswered ==
    Quiet /\ Undisturbed
    => \A l \in Ids : client[l] # "new" => sent[l] # <<>>

\* A catalog entry that is complete or failed is not scheduled again.
FinalNotRescheduled ==
    [][\A l \in Ids : status[l] \in {"complete", "error"} => status'[l] # "scheduled"]_status

\* The worker gave up l's supertask because an earlier child m of it failed; the
\* pack is then still there.
Abandoned(l) ==
    \E k, m \in Ids : /\ m < l
                      /\ \E u, v \in pack[k] : l \in u /\ m \in v
                      /\ sent[m] = <<"error">>

\* Without aggregation and while workers stay, every published label is answered
\* in the end, unless an earlier child of its supertask failed.
AnsweredOrAbandoned ==
    \A l \in Ids : client[l] = "waiting" ~> (sent[l] # <<>> \/ Abandoned(l))
=============================================================================
