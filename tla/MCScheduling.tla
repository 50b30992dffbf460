---------------------------- MODULE MCScheduling ----------------------------
(* Scheduling for TLC: a fast, a large and an able worker. *)
EXTENDS Scheduling

Names == 1 :> "worker-1" @@ 2 :> "worker-2" @@ 3 :> "worker-3"

Trait(capacity, speed, energy, tier, reasoning) ==
    [capacity |-> capacity, speed |-> speed, energy |-> energy, tier |-> tier,
     skills |-> 0, compute |-> 10, reasoning |-> reasoning]

ThreeTraits ==
    1 :> Trait(4, 5, 5, 0, 0) @@ 2 :> Trait(10, 2, 1, 1, 0) @@ 3 :> Trait(6, 2, 3, 2, 5)

Weight(availability, capacity, load, speed, tier) ==
    [availability |-> availability, capacity |-> capacity, load |-> load,
     speed |-> speed, energy |-> 0, tier |-> tier, skills |-> 0, compute |-> 0,
     reasoning |-> 0]

(* The default of the dispatcher, and one of the tests. *)
Profiles ==
    [default |-> Weight(50, 0, 35, 15, 0),
     agentic |-> Weight(30, 10, 10, 10, 40)]

(* A write of a part of a file; a read into memory that depends on another *)
(* label and goes on with a continuation that has only parameters.         *)
Shapes ==
    {[type |-> "Write", destination |-> file_path("/f", 0, 2), data_size |-> 2,
      intent |-> "Checkpoint", pipeline |-> "stages", continuation |-> NoContinuation],
     [type |-> "Read", source |-> file_path("/f", 1, 1), destination |-> memory_ptr(1, 1),
      source_uri |-> "file:///f", operation |-> "op", intent |-> "KVCache",
      continuation |-> [NoContinuation EXCEPT !.kind = "Chain", !.chain_params = "params"],
      dependencies |-> <<[label_id |-> 7, hazard_type |-> "RAW"]>>]}
=============================================================================
