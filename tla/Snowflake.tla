------------------------------ MODULE Snowflake ------------------------------
(***************************************************************************)
(* generate_label_id (src/src/labios/label.cpp): the threads of a process  *)
(* draw label ids from two atomics, last_ms and sequence.  Each atomic     *)
(* operation and each reading of the clock is one step.                    *)
(*                                                                         *)
(* An id is <<millisecond, sequence number>>; the node id is the same for  *)
(* all ids of a process.  The counter stops at kMaxSequence: all larger    *)
(* values are treated alike, and 2^32 additions within a millisecond, when *)
(* it would wrap, are out of reach.                                        *)
(***************************************************************************)
EXTENDS Integers, Sequences

CONSTANTS
    Threads,
    kMaxSequence,
    MaxLead,     \* bound: milliseconds the clock is ahead of last_ms
    MaxIds       \* bound: ids a thread draws

ASSUME SnowflakeAssumption ==
    /\ kMaxSequence \in Nat \ {0}
    /\ MaxLead \in Nat \ {0} /\ MaxIds \in Nat

VARIABLES
    clock,       \* steady_clock, in milliseconds
    last_ms, sequence,
    pc,          \* where a thread is
    now_ms, prev_ms,
    ids,         \* the ids a thread was given, oldest first
    raced        \* a number was drawn while last_ms and sequence did not match

idvars == <<clock, last_ms, sequence, pc, now_ms, prev_ms, ids, raced>>

(* The process starts some time after the epoch of the clock. *)
Init ==
    /\ clock = 1
    /\ last_ms = 0
    /\ sequence = 0
    /\ pc = [t \in Threads |-> "idle"]
    /\ now_ms = [t \in Threads |-> 0]
    /\ prev_ms = [t \in Threads |-> 0]
    /\ ids = [t \in Threads |-> <<>>]
    /\ raced = FALSE

-----------------------------------------------------------------------------
Goto(t, from, to) ==
    /\ pc[t] = from
    /\ pc' = [pc EXCEPT ![t] = to]

(* A call, a lost race for the millisecond and a full one read the clock. *)
ReadClock(t, from, to) ==
    /\ Goto(t, from, to)
    /\ now_ms' = [now_ms EXCEPT ![t] = clock]
    /\ UNCHANGED <<clock, last_ms, sequence, prev_ms, ids, raced>>

Call(t) == Len(ids[t]) < MaxIds /\ ReadClock(t, "idle", "load")

(* Seeded fault: a thread that waits for the next millisecond keeps the    *)
(* time it had.                                                            *)
SpinStill(t) ==
    /\ Goto(t, "spin", "load")
    /\ UNCHANGED <<clock, last_ms, sequence, now_ms, prev_ms, ids, raced>>

Spin(t) == ReadClock(t, "spin", "load")

Retry(t) == ReadClock(t, "retry", "claim")

Load(t) ==
    /\ Goto(t, "load", "claim")
    /\ prev_ms' = [prev_ms EXCEPT ![t] = last_ms]
    /\ UNCHANGED <<clock, last_ms, sequence, now_ms, ids, raced>>

Give(t, ms, seq) ==
    /\ ids' = [ids EXCEPT ![t] = Append(@, <<ms, seq>>)]
    /\ pc' = [pc EXCEPT ![t] = "idle"]
    /\ now_ms' = [now_ms EXCEPT ![t] = 0]
    /\ prev_ms' = [prev_ms EXCEPT ![t] = 0]

(* A new millisecond: compare_exchange_strong, which loads prev_ms when it *)
(* fails.                                                                  *)
Claim(t) ==
    /\ now_ms[t] > prev_ms[t]
    /\ IF last_ms = prev_ms[t]
       THEN /\ Goto(t, "claim", "reset")
            /\ last_ms' = now_ms[t]
            /\ UNCHANGED prev_ms
       ELSE /\ Goto(t, "claim", "retry")
            /\ prev_ms' = [prev_ms EXCEPT ![t] = last_ms]
            /\ UNCHANGED last_ms
    /\ UNCHANGED <<clock, sequence, now_ms, ids, raced>>

Reset(t) ==
    /\ pc[t] = "reset"
    /\ sequence' = 1
    /\ Give(t, now_ms[t], 0)
    /\ UNCHANGED <<clock, last_ms, raced>>

(* Somebody has claimed a millisecond and not yet reset the counter, or    *)
(* the millisecond that t read is no longer the last one.                  *)
Mismatch(t) == (\E u \in Threads : pc[u] = "reset") \/ prev_ms[t] # last_ms

Count == sequence' = IF sequence = kMaxSequence THEN sequence ELSE sequence + 1

(* Seeded fault: one number too many, which the mask turns into 0. *)
FetchAddBeyond(t) ==
    /\ pc[t] = "claim" /\ now_ms[t] <= prev_ms[t]
    /\ sequence' = IF sequence > kMaxSequence THEN sequence ELSE sequence + 1
    /\ raced' = (raced \/ Mismatch(t))
    /\ IF sequence <= kMaxSequence
       THEN Give(t, prev_ms[t], sequence % kMaxSequence)
       ELSE Goto(t, "claim", "spin") /\ UNCHANGED <<now_ms, prev_ms, ids>>
    /\ UNCHANGED <<clock, last_ms>>

(* The same millisecond: fetch_add gives the number, unless the            *)
(* millisecond is full.                                                    *)
FetchAdd(t) ==
    /\ pc[t] = "claim" /\ now_ms[t] <= prev_ms[t]
    /\ Count
    /\ raced' = (raced \/ Mismatch(t))
    /\ IF sequence < kMaxSequence
       THEN Give(t, prev_ms[t], sequence)
       ELSE Goto(t, "claim", "spin") /\ UNCHANGED <<now_ms, prev_ms, ids>>
    /\ UNCHANGED <<clock, last_ms>>

(* Time goes on; milliseconds in which nobody draws an id are passed over. *)
Tick ==
    /\ clock < last_ms + MaxLead
    /\ clock' = clock + 1
    /\ UNCHANGED <<last_ms, sequence, pc, now_ms, prev_ms, ids, raced>>

Step(t) ==
    \/ Spin(t) \/ Retry(t) \/ Load(t)
    \/ Claim(t) \/ Reset(t) \/ FetchAdd(t)

Next == Tick \/ \E t \in Threads : Call(t) \/ Step(t)

(* Time goes on, and the scheduler runs every thread. *)
Fairness == WF_idvars(Tick) /\ \A t \in Threads : WF_idvars(Step(t))

Spec == Init /\ [][Next]_idvars /\ Fairness

-----------------------------------------------------------------------------
Drawn == {d \in Threads \X (1 .. MaxIds) : d[2] <= Len(ids[d[1]])}
IdAt(d) == ids[d[1]][d[2]]

Before(a, b) == a[1] < b[1] \/ (a[1] = b[1] /\ a[2] < b[2])

(* No two ids are equal, whichever threads drew them. *)
UniqueIds == \A d, e \in Drawn : IdAt(d) = IdAt(e) => d = e

(* Ids are unique, and those of one thread ascend, across milliseconds and *)
(* when one of them runs out of numbers: as long as nobody draws a number  *)
(* between another thread's claim of a millisecond and its reset of the    *)
(* counter, or with a millisecond that is no longer the last.              *)
AscendUnlessRaced ==
    ~raced => /\ UniqueIds
              /\ \A t \in Threads : \A k \in 1 .. Len(ids[t]) - 1 :
                   Before(ids[t][k], ids[t][k + 1])

(* A call returns: neither the compare-and-swap loop nor the wait for the  *)
(* next millisecond lasts for ever, as long as time goes on.               *)
CallReturns == \A t \in Threads : pc[t] # "idle" ~> pc[t] = "idle"
=============================================================================
