----------------------------- MODULE LabelRecord -----------------------------
(***************************************************************************)
(* A label as data: what the components write on it as it passes, and what *)
(* of it the FlatBuffers encoding carries (src/src/labios/label.cpp).      *)
(*                                                                         *)
(* Strings and pipelines are empty or not; microseconds are the readings   *)
(* of a small clock, from 1 on, and 0 means "not set".  Priority, version, *)
(* ttl, isolation, durability and app_id travel like data_size, and are    *)
(* left out.                                                               *)
(***************************************************************************)
EXTENDS Integers, Sequences

(* Pointers: std::variant of nothing, memory, a part of a file, an         *)
(* endpoint.                                                               *)
NoPointer == [kind |-> "none"]
memory_ptr(addr, size) == [kind |-> "memory", address |-> addr, size |-> size]
file_path(path, offset, length) ==
    [kind |-> "file", path |-> path, offset |-> offset, length |-> length]
network_endpoint(host, port) == [kind |-> "endpoint", host |-> host, port |-> port]

NoContinuation == [kind |-> "None", target_channel |-> "", chain_params |-> "",
                   condition |-> ""]
NoRouting == [worker_id |-> 0, policy |-> ""]
NoAggregation == [original_ids |-> <<>>, merged_offset |-> 0, merged_length |-> 0]
NoSnapshot == [availability |-> 0, capacity |-> 0, load |-> 0, speed |-> 0,
               energy |-> 0, tier |-> 0]
NoResult == [data_location |-> "", error |-> "", bytes_transferred |-> 0]

(* LabelData{} *)
LabelData ==
    [id |-> 0, type |-> "Write", source |-> NoPointer, destination |-> NoPointer,
     operation |-> "", flags |-> {}, data_size |-> 0, intent |-> "None",
     reply_to |-> "", file_key |-> "", source_uri |-> "", dest_uri |-> "",
     pipeline |-> "", continuation |-> NoContinuation,
     dependencies |-> <<>>, children |-> <<>>, routing |-> NoRouting,
     supertask_id |-> 0, aggregation |-> NoAggregation,
     score_snapshot |-> NoSnapshot, hops |-> <<>>, status |-> "Created",
     created_us |-> 0, queued_us |-> 0, dispatched_us |-> 0, started_us |-> 0,
     completed_us |-> 0, result |-> NoResult]

(* What a client may set on a label: LabelParams, and data_size afterwards.  *)
LabelParams ==
    {"type", "source", "destination", "operation", "flags", "data_size", "intent",
     "source_uri", "dest_uri", "pipeline", "continuation", "dependencies"}

-----------------------------------------------------------------------------
(* What the components note on a label. *)

(* Whoever finds no creation time sets it. *)
Created(label, ts) == [label EXCEPT !.created_us = IF @ = 0 THEN ts ELSE @]

append_label_hop(label, component, ts) ==
    IF component = "" THEN label
    ELSE [label EXCEPT !.hops = Append(@, [component |-> component,
                                           timestamp_us |-> ts])]

mark_label_created(label, ts) == [Created(label, ts) EXCEPT !.status = "Created"]

mark_label_queued(label, ts) ==
    [Created(label, ts) EXCEPT !.flags = @ \cup {"Queued"}, !.queued_us = ts,
                               !.status = "Queued"]

mark_label_shuffled(label, ts) ==
    append_label_hop([Created(label, ts) EXCEPT !.status = "Shuffled"], "shuffler", ts)

(* Seeded fault: the hop is noted by a caller that has the label before    *)
(* the decision only.                                                      *)
mark_label_scheduled_bare(label, worker_id, policy, snapshot, ts) ==
    [Created(label, ts) EXCEPT
       !.flags = @ \cup {"Scheduled"},
       !.routing = [worker_id |-> worker_id, policy |-> policy],
       !.score_snapshot = snapshot,
       !.dispatched_us = ts,
       !.status = "Scheduled"]

mark_label_scheduled(label, worker_id, policy, snapshot, ts) ==
    append_label_hop(
      [Created(label, ts) EXCEPT
         !.flags = @ \cup {"Scheduled"},
         !.routing = [worker_id |-> worker_id, policy |-> policy],
         !.score_snapshot = snapshot,
         !.dispatched_us = ts,
         !.status = "Scheduled"],
      "scheduler", ts)

mark_label_executing(label, worker_component, ts) ==
    append_label_hop(
      [Created(label, ts) EXCEPT !.flags = @ \cup {"Pending"}, !.started_us = ts,
                                 !.status = "Executing"],
      worker_component, ts)

mark_label_finished(label, status, data_location, bytes, error, ts) ==
    [Created(label, ts) EXCEPT
       !.completed_us = ts,
       !.result = [data_location |-> data_location, error |-> error,
                   bytes_transferred |-> bytes],
       !.status = IF status = "Complete" THEN "Complete" ELSE "Failed"]

-----------------------------------------------------------------------------
(* The encoding: a table holds the fields that are worth writing.          *)

(* What the accessor of a field gives when the table does not hold it: the *)
(* default of the schema, which for the type is not that of LabelData.     *)
SchemaDefault == [LabelData EXCEPT !.type = "Read"]

(* maybe_string, empty vectors, and scalars that have their default.       *)
Plain == DOMAIN LabelData \ {"source", "destination", "continuation", "routing",
                             "aggregation", "score_snapshot", "result"}

Written(label) ==
    {f \in Plain : label[f] # SchemaDefault[f]}
      \cup {"source", "destination"}
      \cup {f \in {"continuation"} : label.continuation.kind # "None"}
      \cup {f \in {"routing"} : label.routing.worker_id # 0 \/ label.routing.policy # ""}
      \cup {f \in {"aggregation"} : label.aggregation.original_ids # <<>>}
      \cup {f \in {"score_snapshot"} : label.score_snapshot # NoSnapshot}
      \cup {f \in {"result"} : label.result # NoResult}

serialize_label(label) == [f \in Written(label) |-> label[f]]

(* Seeded fault: a field that was not written keeps its value in LabelData. *)
deserialize_label_over(buf) ==
    [f \in DOMAIN LabelData |-> IF f \in DOMAIN buf THEN buf[f] ELSE LabelData[f]]

deserialize_label(buf) ==
    [f \in DOMAIN LabelData |-> IF f \in DOMAIN buf THEN buf[f] ELSE SchemaDefault[f]]

CompletionDefault == [label_id |-> 0, status |-> "Complete", error |-> "",
                      data_key |-> ""]

serialize_completion(comp) ==
    [f \in {f \in DOMAIN comp : comp[f] # CompletionDefault[f]} |-> comp[f]]

deserialize_completion(buf) ==
    [f \in DOMAIN CompletionDefault |->
       IF f \in DOMAIN buf THEN buf[f] ELSE CompletionDefault[f]]
=============================================================================
