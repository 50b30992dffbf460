-------------------------- MODULE LabelFlowHistory --------------------------
(***************************************************************************)
(* LabelFlow with two history variables: what each client knew to be       *)
(* complete when it published a label, and the data each read returned.    *)
(***************************************************************************)
EXTENDS LabelFlow

VARIABLES
    known,   \* known[l]: labels already completed for their clients when l was published
    got      \* got[l]: what wait_read returned for l

HInit == Init /\ known = [l \in Ids |-> {}] /\ got = [l \in Ids |-> {}]

HNext ==
    /\ Next
    /\ known' = [l \in Ids |-> IF client[l] = "new" /\ client'[l] # "new"
                               THEN {m \in Ids : client[m] = "complete"} ELSE known[l]]
    /\ got' = [l \in Ids |-> IF /\ client[l] = "waiting" /\ client'[l] = "complete"
                                /\ req[l].type = "Read"
                             THEN staged[l] ELSE got[l]]

HSpec == HInit /\ [][HNext]_<<vars, known, got>>

Bytes(l) == req[l].off .. (End(req[l]) - 1)

\* A read never returns the payload p of a write for a byte that a later write w
\* has replaced, where p was complete before w was published and w was complete
\* before the read was published.
NoStaleRead ==
    \A l \in Ids : \A p \in got[l] : \A w \in known[l] :
        ~(/\ req[w].type = "Write"
          /\ p \in known[w]
          /\ Bytes(l) \cap Bytes(p) \cap Bytes(w) # {})
=============================================================================
