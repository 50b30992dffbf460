---------------------------- MODULE LabelService ----------------------------
(***************************************************************************)
(* What the label pipeline promises its clients, whatever the dispatcher   *)
(* and the workers do in between: a published label is answered at most    *)
(* once, the payload of a write reaches storage at most once, and a write  *)
(* is answered "complete" only after its payload has reached storage.      *)
(* Nothing is promised about labels that are never answered.               *)
(***************************************************************************)
EXTENDS Integers

CONSTANT Labels

VARIABLES
    writes,     \* which labels are writes
    open,       \* labels published so far
    applied,    \* writes whose payload is in storage
    answer      \* the answer published for each label

svars == <<writes, open, applied, answer>>

Init ==
    /\ writes \subseteq Labels
    /\ open = {}
    /\ applied = {}
    /\ answer = [l \in Labels |-> "none"]

Open(l) ==
    /\ l \notin open
    /\ open' = open \cup {l}
    /\ UNCHANGED <<writes, applied, answer>>

\* The payloads of several merged writes reach storage together.
Apply(S) ==
    /\ S \subseteq (open \cap writes) \ applied
    /\ applied' = applied \cup S
    /\ UNCHANGED <<writes, open, answer>>

\* One completion answers all the labels it stands for.
Reply(S, outcome) ==
    /\ S \subseteq {l \in open : answer[l] = "none"}
    /\ outcome = "complete" => S \cap writes \subseteq applied
    /\ answer' = [l \in Labels |-> IF l \in S THEN outcome ELSE answer[l]]
    /\ UNCHANGED <<writes, open, applied>>

Next ==
    \/ \E l \in Labels : Open(l)
    \/ \E S \in SUBSET Labels :
          Apply(S) \/ \E outcome \in {"complete", "error"} : Reply(S, outcome)

Spec == Init /\ [][Next]_svars
=============================================================================
