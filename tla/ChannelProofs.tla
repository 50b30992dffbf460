---------------------------- MODULE ChannelProofs ----------------------------
(***************************************************************************)
(* Proofs about Channel, for any number of threads, messages and           *)
(* subscribers.                                                            *)
(***************************************************************************)
EXTENDS Channel, FiniteSetTheorems, TLAPS

Places == {"idle", "claim", "stage", "notify", "insert", "count", "open", "drain",
           "destroy", "clear", "clean"}
Handlers == [phase : {"idle", "fetch", "copy", "call"}, seq : Nat, data : {"staged", "empty"},
             calls : SUBSET Nat]
Deliveries == [seq : Nat, data : {"staged", "empty"}]

\* Type correctness.
ChannelTypeOK ==
    /\ next_seq \in Nat \ {0}
    /\ subscribers \subseteq Nat
    /\ next_sub_id \in Nat
    /\ draining \in BOOLEAN
    /\ destroyed \in BOOLEAN
    /\ pc \in [Threads -> Places]
    /\ seq \in [Threads -> Nat]
    /\ sub_id \in [Threads -> Nat]
    /\ warehouse \subseteq Nat
    /\ opened \subseteq Nat
    /\ inbox \in [Subs -> Seq(Nat)]
    /\ handler \in [Subs -> Handlers]
    /\ delivered \in [Subs -> Seq(Deliveries)]
    /\ expired \subseteq Nat

\* The key of k was taken away, by its time to live or by destroy.
Gone(k) == destroyed \/ k \in expired

\* The key of k was set.
Kept(k) == Gone(k) \/ k \in warehouse

\* A thread that passed the backpressure test has its place reserved.
ClaimsBounded ==
    MaxPending > 0 => next_seq - 1 + Cardinality(Claiming) <= MaxPending - 1 + Cardinality(Threads)

\* Somebody is about to destroy a drained channel without subscribers.
DrainPending ==
    draining /\ subscribers = {} /\ ~destroyed
    => \E t \in Threads : pc[t] \in {"drain", "destroy"}

\* Only the thread that marked the channel clears and cleans it.
CleanersMarked == \A t \in Threads : pc[t] \in {"clear", "clean"} => destroyed

\* Data is staged before it is announced, all the way to the subscriber: when the
\* publisher notifies, in the queue, when the handler fetches, and what it found empty.
NotifyKept == \A t \in Threads : pc[t] = "notify" => Kept(seq[t])
InboxKept == \A n \in Subs : \A i \in DOMAIN inbox[n] : Kept(inbox[n][i])
FetchKept == \A n \in Subs : handler[n].phase = "fetch" => Kept(handler[n].seq)
CallGone ==
    \A n \in Subs : handler[n].phase \in {"copy", "call"} /\ handler[n].data = "empty"
                    => Gone(handler[n].seq)
StagedFirst == NotifyKept /\ InboxKept /\ FetchKept /\ CallGone

\* The inductive invariant.
ChannelInv ==
    /\ ChannelTypeOK
    /\ ClaimsBounded
    /\ DrainPending
    /\ CleanersMarked
    /\ StagedFirst
    /\ DataArrives

-----------------------------------------------------------------------------
(* Initially *)

\* A NATS thread between two messages is a typed handler.
LEMMA IdleTyped == Idle \in Handlers
    BY DEF Idle, Handlers

\* A fresh channel satisfies the invariant.
LEMMA ChannelInvInit == ChannelInit => ChannelInv
<1> SUFFICES ASSUME ChannelInit PROVE ChannelInv
    OBVIOUS
<1>1. ChannelTypeOK
    <2>1. draining \in BOOLEAN /\ destroyed \in BOOLEAN
        BY Zenon DEF ChannelInit
    <2>2. handler \in [Subs -> Handlers]
        BY IdleTyped DEF ChannelInit
    <2>3. pc \in [Threads -> Places] /\ inbox \in [Subs -> Seq(Nat)]
        BY DEF ChannelInit, Places
    <2>4. delivered \in [Subs -> Seq(Deliveries)]
        BY DEF ChannelInit
    <2> QED
        BY <2>1, <2>2, <2>3, <2>4 DEF ChannelInit, ChannelTypeOK
<1>2. ClaimsBounded
    <2>1. Claiming = {}
        BY DEF ChannelInit, Claiming
    <2>2. Cardinality(Claiming) = 0 /\ Cardinality(Threads) \in Nat
        BY <2>1, FS_EmptySet, FS_CardinalityType, ChannelAssumption
    <2> QED
        BY <2>2, ChannelAssumption DEF ChannelInit, ClaimsBounded
<1>3. DrainPending /\ CleanersMarked
    BY DEF ChannelInit, DrainPending, CleanersMarked
<1>4. StagedFirst
    BY DEF ChannelInit, StagedFirst, NotifyKept, InboxKept, FetchKept, CallGone, Idle
<1>5. DataArrives
    BY DEF ChannelInit, DataArrives
<1> QED
    BY <1>1, <1>2, <1>3, <1>4, <1>5 DEF ChannelInv

-----------------------------------------------------------------------------
(* Type correctness is kept *)

\* Moving a thread to a known place keeps pc typed.
LEMMA GotoTyped ==
    ASSUME pc \in [Threads -> Places], NEW t \in Threads, NEW a, NEW b \in Places, Goto(t, a, b)
    PROVE  pc' \in [Threads -> Places]
    BY DEF Goto

\* A step of a publishing thread.
LEMMA PublishTyped ==
    ASSUME ChannelTypeOK, NEW t \in Threads, PublishStep(t)
    PROVE  ChannelTypeOK'
<1> USE DEF chanVars, localVars, natsVars
<1>1. CASE PublishAdmitted(t)
    <2>1. pc' \in [Threads -> Places]
        BY <1>1, GotoTyped DEF PublishAdmitted, Places, ChannelTypeOK
    <2> QED
        BY <1>1, <2>1 DEF PublishAdmitted, ChannelTypeOK
<1>2. CASE PublishClaims(t)
    <2>1. pc' \in [Threads -> Places]
        BY <1>2, GotoTyped DEF PublishClaims, Places, ChannelTypeOK
    <2>2. seq' \in [Threads -> Nat] /\ next_seq' \in Nat \ {0}
        BY <1>2 DEF PublishClaims, ChannelTypeOK
    <2> QED
        BY <1>2, <2>1, <2>2 DEF PublishClaims, ChannelTypeOK
<1>3. CASE PublishStages(t)
    <2>1. pc' \in [Threads -> Places]
        BY <1>3, GotoTyped DEF PublishStages, Places, ChannelTypeOK
    <2>2. warehouse' \subseteq Nat
        BY <1>3 DEF PublishStages, WarehouseKey, ChannelTypeOK
    <2> QED
        BY <1>3, <2>1, <2>2 DEF PublishStages, ChannelTypeOK
<1>4. CASE PublishNotifies(t)
    <2>1. pc' \in [Threads -> Places]
        BY <1>4, GotoTyped DEF PublishNotifies, Places, ChannelTypeOK
    <2>2. seq' \in [Threads -> Nat]
        BY <1>4 DEF PublishNotifies, ChannelTypeOK
    <2>3. inbox' \in [Subs -> Seq(Nat)]
        <3>1. \A n \in Subs : Append(inbox[n], seq[t]) \in Seq(Nat)
            BY DEF ChannelTypeOK
        <3> QED
            BY <1>4, <3>1 DEF PublishNotifies, Notification, ChannelTypeOK
    <2> QED
        BY <1>4, <2>1, <2>2, <2>3 DEF PublishNotifies, ChannelTypeOK
<1>5. CASE PublishThrows(t)
    <2>1. pc' \in [Threads -> Places] /\ seq' \in [Threads -> Nat]
        BY <1>5 DEF PublishThrows, Places, ChannelTypeOK
    <2> QED
        BY <1>5, <2>1 DEF PublishThrows, ChannelTypeOK
<1> QED
    BY <1>1, <1>2, <1>3, <1>4, <1>5 DEF PublishStep

\* A step of a thread that subscribes or unsubscribes.
LEMMA SubscribeTyped ==
    ASSUME ChannelTypeOK, NEW t \in Threads, SubscribeStep(t)
    PROVE  ChannelTypeOK'
<1> USE DEF chanVars, localVars, natsVars
<1>1. CASE SubscribeChecks(t)
    <2>1. pc' \in [Threads -> Places]
        BY <1>1, GotoTyped DEF SubscribeChecks, Places, ChannelTypeOK
    <2> QED
        BY <1>1, <2>1 DEF SubscribeChecks, ChannelTypeOK
<1>2. CASE SubscribeInserts(t)
    <2>1. pc' \in [Threads -> Places]
        BY <1>2, GotoTyped DEF SubscribeInserts, Places, ChannelTypeOK
    <2>2. /\ sub_id' \in [Threads -> Nat]
          /\ subscribers' \subseteq Nat
          /\ next_sub_id' \in Nat
        BY <1>2 DEF SubscribeInserts, ChannelTypeOK
    <2> QED
        BY <1>2, <2>1, <2>2 DEF SubscribeInserts, ChannelTypeOK
<1>3. CASE SubscribeCounts(t)
    <2>1. pc' \in [Threads -> Places]
        BY <1>3 DEF SubscribeCounts, Goto, Places, ChannelTypeOK
    <2>2. sub_id' \in [Threads -> Nat]
        BY <1>3 DEF SubscribeCounts, ChannelTypeOK
    <2> QED
        BY <1>3, <2>1, <2>2 DEF SubscribeCounts, ChannelTypeOK
<1>4. CASE SubscribeOpens(t)
    <2>1. pc' \in [Threads -> Places]
        BY <1>4, GotoTyped DEF SubscribeOpens, Places, ChannelTypeOK
    <2>2. sub_id' \in [Threads -> Nat] /\ opened' \subseteq Nat
        BY <1>4 DEF SubscribeOpens, ChannelTypeOK
    <2> QED
        BY <1>4, <2>1, <2>2 DEF SubscribeOpens, ChannelTypeOK
<1>5. ASSUME NEW s \in Subs, Unsubscribe(t, s) PROVE ChannelTypeOK'
    <2>1. pc' \in [Threads -> Places]
        BY <1>5 DEF Unsubscribe, Goto, Places, ChannelTypeOK
    <2>2. subscribers' \subseteq Nat
        BY <1>5 DEF Unsubscribe, ChannelTypeOK
    <2> QED
        BY <1>5, <2>1, <2>2 DEF Unsubscribe, ChannelTypeOK
<1> QED
    BY <1>1, <1>2, <1>3, <1>4, <1>5 DEF SubscribeStep

\* A step of a thread that drains or destroys.
LEMMA DestroyTyped ==
    ASSUME ChannelTypeOK, NEW t \in Threads, DestroyStep(t)
    PROVE  ChannelTypeOK'
<1> USE DEF chanVars, localVars, natsVars
<1>1. CASE DrainStarts(t)
    <2>1. pc' \in [Threads -> Places]
        BY <1>1, GotoTyped DEF DrainStarts, Places, ChannelTypeOK
    <2>2. draining' \in BOOLEAN
        BY <1>1, Zenon DEF DrainStarts
    <2> QED
        BY <1>1, <2>1, <2>2 DEF DrainStarts, ChannelTypeOK
<1>2. CASE DrainLooks(t)
    <2>1. pc' \in [Threads -> Places]
        BY <1>2 DEF DrainLooks, Goto, Places, ChannelTypeOK
    <2> QED
        BY <1>2, <2>1 DEF DrainLooks, ChannelTypeOK
<1>3. CASE DestroyCalled(t)
    <2>1. pc' \in [Threads -> Places]
        BY <1>3, GotoTyped DEF DestroyCalled, Places, ChannelTypeOK
    <2> QED
        BY <1>3, <2>1 DEF DestroyCalled, ChannelTypeOK
<1>4. CASE DestroyMarks(t)
    <2>1. pc' \in [Threads -> Places]
        BY <1>4 DEF DestroyMarks, Goto, Places, ChannelTypeOK
    <2>2. destroyed' \in BOOLEAN
        BY <1>4, Zenon DEF DestroyMarks
    <2> QED
        BY <1>4, <2>1, <2>2 DEF DestroyMarks, ChannelTypeOK
<1>5. CASE DestroyClears(t)
    <2>1. pc' \in [Threads -> Places]
        BY <1>5, GotoTyped DEF DestroyClears, Places, ChannelTypeOK
    <2> QED
        BY <1>5, <2>1 DEF DestroyClears, ChannelTypeOK
<1>6. CASE DestroyCleans(t)
    <2>1. pc' \in [Threads -> Places]
        BY <1>6, GotoTyped DEF DestroyCleans, Places, ChannelTypeOK
    <2> QED
        BY <1>6, <2>1 DEF DestroyCleans, ChannelTypeOK
<1> QED
    BY <1>1, <1>2, <1>3, <1>4, <1>5, <1>6 DEF DestroyStep

\* A step of a NATS thread.
LEMMA HandlerTyped ==
    ASSUME ChannelTypeOK, NEW n \in Subs, HandlerStep(n)
    PROVE  ChannelTypeOK'
<1> USE DEF chanVars, localVars, natsVars
<1>1. handler[n] \in Handlers
    BY DEF ChannelTypeOK
<1>2. CASE HandlerBegins(n)
    <2>1. Head(inbox[n]) \in Nat /\ Tail(inbox[n]) \in Seq(Nat)
        BY <1>2 DEF HandlerBegins, ChannelTypeOK
    <2>2. [Idle EXCEPT !.phase = "fetch", !.seq = Head(inbox[n])] \in Handlers
        BY <2>1 DEF Idle, Handlers
    <2>3. handler' \in [Subs -> Handlers]
        BY <1>2, <2>2 DEF HandlerBegins, ChannelTypeOK
    <2>4. inbox' \in [Subs -> Seq(Nat)]
        BY <1>2, <2>1 DEF HandlerBegins, ChannelTypeOK
    <2> QED
        BY <1>2, <2>3, <2>4 DEF HandlerBegins, ChannelTypeOK
<1>3. CASE HandlerFetches(n)
    <2>1. PICK d \in {"staged", "empty"} :
              handler' = [handler EXCEPT ![n] = [@ EXCEPT !.phase = "copy", !.data = d]]
        BY <1>1, <1>3 DEF HandlerFetches, ChannelTypeOK
    <2>2. [handler[n] EXCEPT !.phase = "copy", !.data = d] \in Handlers
        BY <1>1 DEF Handlers
    <2>3. handler' \in [Subs -> Handlers]
        BY <1>3, <2>1, <2>2 DEF HandlerFetches, ChannelTypeOK
    <2> QED
        BY <1>3, <2>3 DEF HandlerFetches, ChannelTypeOK
<1>4. CASE HandlerCopies(n)
    <2>1. [handler[n] EXCEPT !.phase = "call", !.calls = subscribers] \in Handlers
        BY <1>1 DEF Handlers, ChannelTypeOK
    <2>2. handler' \in [Subs -> Handlers]
        BY <1>4, <2>1, IdleTyped DEF HandlerCopies, ChannelTypeOK
    <2> QED
        BY <1>4, <2>2 DEF HandlerCopies, ChannelTypeOK
<1>5. ASSUME NEW s \in Subs, HandlerCalls(n, s) PROVE ChannelTypeOK'
    <2>1. PICK rest \in {{}, handler[n].calls \ {s}} :
              handler' = [handler EXCEPT ![n] = IF rest = {} THEN Idle
                                                ELSE [@ EXCEPT !.calls = rest]]
        BY <1>5 DEF HandlerCalls
    <2>2. handler' \in [Subs -> Handlers]
        <3>1. [handler[n] EXCEPT !.calls = rest] \in Handlers
            BY <1>1 DEF Handlers
        <3> QED
            BY <2>1, <3>1, IdleTyped DEF ChannelTypeOK
    <2>3. [seq |-> handler[n].seq, data |-> handler[n].data] \in Deliveries
        BY <1>1 DEF Handlers, Deliveries
    <2>4. delivered' \in [Subs -> Seq(Deliveries)]
        BY <1>5, <2>3 DEF HandlerCalls, ChannelTypeOK
    <2> QED
        BY <1>5, <2>2, <2>4 DEF HandlerCalls, ChannelTypeOK
<1> QED
    BY <1>2, <1>3, <1>4, <1>5 DEF HandlerStep

\* Every step keeps the types.
LEMMA ChannelTypeStep ==
    ASSUME ChannelTypeOK, [ChannelNext]_chvars
    PROVE  ChannelTypeOK'
<1>1. CASE UNCHANGED chvars
    BY <1>1 DEF chvars, chanVars, localVars, natsVars, ChannelTypeOK
<1>2. ASSUME NEW k \in Seqs, Expire(k) PROVE ChannelTypeOK'
    BY <1>2 DEF Expire, Seqs, chanVars, localVars, natsVars, ChannelTypeOK
<1> QED
    BY <1>1, <1>2, PublishTyped, SubscribeTyped, DestroyTyped, HandlerTyped DEF ChannelNext

-----------------------------------------------------------------------------
(* Keys that were set stay set, unless their time is over or the channel is destroyed *)

\* destroyed_ and expiries are never undone, and nothing but they removes a key.
LEMMA KeysKept ==
    ASSUME CleanersMarked, [ChannelNext]_chvars
    PROVE  /\ destroyed => destroyed'
           /\ expired \subseteq expired'
           /\ ~destroyed => warehouse \subseteq warehouse' \cup expired'
<1> USE DEF chanVars, localVars, natsVars
<1>1. CASE UNCHANGED chvars
    BY <1>1 DEF chvars
<1>2. ASSUME NEW t \in Threads, PublishStep(t)
      PROVE  /\ destroyed' = destroyed /\ expired' = expired
             /\ warehouse \subseteq warehouse'
    BY <1>2 DEF PublishStep, PublishAdmitted, PublishClaims, PublishStages, PublishNotifies,
           PublishThrows
<1>3. ASSUME NEW t \in Threads, SubscribeStep(t)
      PROVE  destroyed' = destroyed /\ expired' = expired /\ warehouse' = warehouse
    BY <1>3 DEF SubscribeStep, SubscribeChecks, SubscribeInserts, SubscribeCounts,
           SubscribeOpens, Unsubscribe
<1>4. ASSUME NEW t \in Threads, DestroyStep(t)
      PROVE  /\ destroyed => destroyed'
             /\ expired' = expired
             /\ ~destroyed => warehouse' = warehouse
    BY <1>4 DEF DestroyStep, DrainStarts, DrainLooks, DestroyCalled, DestroyMarks,
           DestroyClears, DestroyCleans, Goto, CleanersMarked
<1>5. ASSUME NEW n \in Subs, HandlerStep(n)
      PROVE  destroyed' = destroyed /\ expired' = expired /\ warehouse' = warehouse
    BY <1>5 DEF HandlerStep, HandlerBegins, HandlerFetches, HandlerCopies, HandlerCalls
<1>6. ASSUME NEW k \in Seqs, Expire(k)
      PROVE  /\ destroyed' = destroyed
             /\ expired \subseteq expired'
             /\ warehouse \subseteq warehouse' \cup expired'
    BY <1>6 DEF Expire
<1> QED
    BY <1>1, <1>2, <1>3, <1>4, <1>5, <1>6 DEF ChannelNext

\* The flag is set before the subscribers and the keys are cleared.
LEMMA CleanersStep ==
    ASSUME ChannelTypeOK, CleanersMarked, [ChannelNext]_chvars
    PROVE  CleanersMarked'
<1> USE DEF chanVars, localVars, natsVars, CleanersMarked
<1>1. CASE UNCHANGED chvars
    BY <1>1 DEF chvars
<1>2. ASSUME NEW t \in Threads, PublishStep(t) PROVE CleanersMarked'
    BY <1>2
       DEF ChannelTypeOK, Goto, PublishStep, PublishAdmitted, PublishClaims, PublishStages,
           PublishNotifies,
           PublishThrows
<1>3. ASSUME NEW t \in Threads, SubscribeStep(t) PROVE CleanersMarked'
    BY <1>3
       DEF ChannelTypeOK, Goto, SubscribeStep, SubscribeChecks, SubscribeInserts, SubscribeCounts,
           SubscribeOpens, Unsubscribe
<1>4. ASSUME NEW t \in Threads, DestroyStep(t) PROVE CleanersMarked'
    BY <1>4
       DEF ChannelTypeOK, Goto, DestroyStep, DrainStarts, DrainLooks, DestroyCalled, DestroyMarks,
           DestroyClears, DestroyCleans
<1>5. ASSUME NEW n \in Subs, HandlerStep(n) PROVE CleanersMarked'
    BY <1>5 DEF HandlerStep, HandlerBegins, HandlerFetches, HandlerCopies, HandlerCalls
<1>6. ASSUME NEW k \in Seqs, Expire(k) PROVE CleanersMarked'
    BY <1>6 DEF Expire
<1> QED
    BY <1>1, <1>2, <1>3, <1>4, <1>5, <1>6 DEF ChannelNext

-----------------------------------------------------------------------------
(* Drain and destroy *)

\* Drain and the last unsubscribe never both leave the channel to the other.
LEMMA DrainStep ==
    ASSUME ChannelTypeOK, DrainPending, CleanersMarked, [ChannelNext]_chvars
    PROVE  DrainPending'
<1> USE DEF chanVars, localVars, natsVars, DrainPending
<1>1. CASE UNCHANGED chvars
    BY <1>1 DEF chvars
<1>2. ASSUME NEW t \in Threads, PublishStep(t) PROVE DrainPending'
    BY <1>2
       DEF ChannelTypeOK, Goto, PublishStep, PublishAdmitted, PublishClaims, PublishStages,
           PublishNotifies,
           PublishThrows
<1>3. ASSUME NEW t \in Threads, SubscribeStep(t) PROVE DrainPending'
    BY <1>3
       DEF ChannelTypeOK, Goto, LastToLeave, SubscribeStep, SubscribeChecks, SubscribeInserts,
           SubscribeCounts,
           SubscribeOpens, Unsubscribe
<1>4. ASSUME NEW t \in Threads, DestroyStep(t) PROVE DrainPending'
    BY <1>4
       DEF ChannelTypeOK, Goto, CleanersMarked, DestroyStep, DrainStarts, DrainLooks,
           DestroyCalled, DestroyMarks,
           DestroyClears, DestroyCleans
<1>5. ASSUME NEW n \in Subs, HandlerStep(n) PROVE DrainPending'
    BY <1>5 DEF HandlerStep, HandlerBegins, HandlerFetches, HandlerCopies, HandlerCalls
<1>6. ASSUME NEW k \in Seqs, Expire(k) PROVE DrainPending'
    BY <1>6 DEF Expire
<1> QED
    BY <1>1, <1>2, <1>3, <1>4, <1>5, <1>6 DEF ChannelNext

-----------------------------------------------------------------------------
(* Backpressure *)

\* Only two steps of publish change who is claiming, or the counter.
LEMMA ClaimingFrame ==
    ASSUME ChannelTypeOK, [ChannelNext]_chvars
    PROVE  \/ \E t \in Threads : PublishAdmitted(t) \/ PublishClaims(t)
           \/ Claiming' = Claiming /\ next_seq' = next_seq
<1> USE DEF chanVars, localVars, natsVars
<1>1. ASSUME NEW t \in Threads,
             PublishStages(t) \/ PublishNotifies(t) \/ PublishThrows(t)
      PROVE  Claiming' = Claiming /\ next_seq' = next_seq
    BY <1>1 DEF PublishStages, PublishNotifies, PublishThrows, Goto, Claiming, ChannelTypeOK
<1>2. ASSUME NEW t \in Threads, SubscribeStep(t)
      PROVE  Claiming' = Claiming /\ next_seq' = next_seq
    BY <1>2 DEF SubscribeStep, SubscribeChecks, SubscribeInserts, SubscribeCounts,
           SubscribeOpens, Unsubscribe, Goto, Claiming,
           ChannelTypeOK
<1>3. ASSUME NEW t \in Threads, DestroyStep(t)
      PROVE  Claiming' = Claiming /\ next_seq' = next_seq
    BY <1>3 DEF DestroyStep, DrainStarts, DrainLooks, DestroyCalled, DestroyMarks,
           DestroyClears, DestroyCleans, Goto, Claiming, ChannelTypeOK
<1>4. ASSUME NEW n \in Subs, HandlerStep(n)
      PROVE  Claiming' = Claiming /\ next_seq' = next_seq
    BY <1>4 DEF HandlerStep, HandlerBegins, HandlerFetches, HandlerCopies, HandlerCalls,
           Claiming
<1>5. ASSUME UNCHANGED chvars \/ \E k \in Seqs : Expire(k)
      PROVE  Claiming' = Claiming /\ next_seq' = next_seq
    BY <1>5 DEF chvars, Expire, Claiming
<1> QED
    BY <1>1, <1>2, <1>3, <1>4, <1>5 DEF ChannelNext, PublishStep

\* The threads between the backpressure test and fetch_add stay accounted for.
LEMMA ClaimsStep ==
    ASSUME ChannelTypeOK, ClaimsBounded, [ChannelNext]_chvars
    PROVE  ClaimsBounded'
<1> USE DEF chanVars, localVars, natsVars
<1>1. /\ IsFiniteSet(Claiming)
      /\ Cardinality(Claiming) \in Nat
      /\ Cardinality(Threads) \in Nat
    BY ChannelAssumption, FS_Subset, FS_CardinalityType DEF Claiming
<1>2. ASSUME Claiming' = Claiming, next_seq' = next_seq PROVE ClaimsBounded'
    BY <1>2 DEF ClaimsBounded
<1>3. ASSUME NEW t \in Threads, PublishAdmitted(t) PROVE ClaimsBounded'
    <2>1. Cardinality(Claiming') <= Cardinality(Threads) /\ Cardinality(Claiming') \in Nat
        BY ChannelAssumption, FS_Subset, FS_CardinalityType DEF Claiming
    <2>2. next_seq' = next_seq /\ HasRoom
        BY <1>3 DEF PublishAdmitted
    <2> QED
        BY <1>1, <2>1, <2>2, ChannelAssumption DEF ClaimsBounded, HasRoom, ChannelTypeOK
<1>4. ASSUME NEW t \in Threads, PublishClaims(t) PROVE ClaimsBounded'
    <2>1. Claiming' = Claiming \ {t} /\ t \in Claiming
        BY <1>4 DEF PublishClaims, Goto, Claiming, ChannelTypeOK
    <2>2. Cardinality(Claiming') = Cardinality(Claiming) - 1
        BY <1>1, <2>1, FS_RemoveElement
    <2>3. next_seq' = next_seq + 1
        BY <1>4 DEF PublishClaims
    <2> QED
        BY <1>1, <2>2, <2>3, ChannelAssumption DEF ClaimsBounded, ChannelTypeOK
<1> QED
    BY <1>2, <1>3, <1>4, ClaimingFrame

-----------------------------------------------------------------------------
(* Data before notifications *)

\* A notifying thread has staged its data.
LEMMA NotifyStep ==
    ASSUME ChannelTypeOK, CleanersMarked, NotifyKept, [ChannelNext]_chvars
    PROVE  NotifyKept'
<1> USE DEF chanVars, localVars, natsVars
<1> SUFFICES ASSUME NEW u \in Threads, pc'[u] = "notify" PROVE Kept(seq[u])'
    BY DEF NotifyKept
<1>1. CASE pc[u] = "notify" /\ seq'[u] = seq[u]
    BY <1>1, KeysKept DEF NotifyKept, Kept, Gone
<1>2. ASSUME PublishStages(u) PROVE Kept(seq[u])'
    BY <1>2 DEF PublishStages, WarehouseKey, Kept
<1>3. \/ PublishStages(u)
      \/ pc[u] = "notify" /\ seq'[u] = seq[u]
    <2>1. ASSUME NEW t \in Threads, PublishStep(t)
          PROVE  PublishStages(u) \/ (pc[u] = "notify" /\ seq'[u] = seq[u])
        BY <2>1
           DEF ChannelTypeOK, Goto, PublishStep, PublishAdmitted, PublishClaims, PublishStages,
               PublishNotifies,
           PublishThrows
    <2>2. ASSUME NEW t \in Threads, SubscribeStep(t) PROVE pc[u] = "notify" /\ seq'[u] = seq[u]
        BY <2>2
           DEF ChannelTypeOK, Goto, SubscribeStep, SubscribeChecks, SubscribeInserts,
               SubscribeCounts,
           SubscribeOpens, Unsubscribe
    <2>3. ASSUME NEW t \in Threads, DestroyStep(t) PROVE pc[u] = "notify" /\ seq'[u] = seq[u]
        BY <2>3
           DEF ChannelTypeOK, Goto, DestroyStep, DrainStarts, DrainLooks, DestroyCalled,
               DestroyMarks,
           DestroyClears, DestroyCleans
    <2>4. ASSUME NEW n \in Subs, HandlerStep(n) PROVE pc[u] = "notify" /\ seq'[u] = seq[u]
        BY <2>4 DEF HandlerStep, HandlerBegins, HandlerFetches, HandlerCopies, HandlerCalls
    <2>5. ASSUME UNCHANGED chvars \/ \E k \in Seqs : Expire(k) PROVE pc[u] = "notify" /\ seq'[u] = seq[u]
        BY <2>5 DEF chvars, Expire
    <2> QED
        BY <2>1, <2>2, <2>3, <2>4, <2>5 DEF ChannelNext
<1> QED
    BY <1>1, <1>2, <1>3

\* Whoever is not a publisher at its last step or a NATS thread leaves the inboxes,
\* the handlers and the deliveries alone.
LEMMA NatsFrame ==
    ASSUME [ChannelNext]_chvars
    PROVE  \/ \E t \in Threads : PublishNotifies(t)
           \/ \E n \in Subs : HandlerStep(n)
           \/ inbox' = inbox /\ handler' = handler /\ delivered' = delivered
<1> USE DEF chanVars, localVars, natsVars
<1>1. ASSUME NEW t \in Threads, PublishStep(t), ~PublishNotifies(t)
      PROVE  inbox' = inbox /\ handler' = handler /\ delivered' = delivered
    BY <1>1 DEF PublishStep, PublishAdmitted, PublishClaims, PublishStages, PublishThrows
<1>2. ASSUME NEW t \in Threads, SubscribeStep(t)
      PROVE  inbox' = inbox /\ handler' = handler /\ delivered' = delivered
    BY <1>2 DEF SubscribeStep, SubscribeChecks, SubscribeInserts, SubscribeCounts,
           SubscribeOpens, Unsubscribe
<1>3. ASSUME NEW t \in Threads, DestroyStep(t)
      PROVE  inbox' = inbox /\ handler' = handler /\ delivered' = delivered
    BY <1>3 DEF DestroyStep, DrainStarts, DrainLooks, DestroyCalled, DestroyMarks,
           DestroyClears, DestroyCleans
<1>4. ASSUME UNCHANGED chvars \/ \E k \in Seqs : Expire(k)
      PROVE  inbox' = inbox /\ handler' = handler /\ delivered' = delivered
    BY <1>4 DEF chvars, Expire
<1> QED
    BY <1>1, <1>2, <1>3, <1>4 DEF ChannelNext

\* What is announced in a queue was staged.
LEMMA InboxStep ==
    ASSUME ChannelTypeOK, CleanersMarked, NotifyKept, InboxKept, [ChannelNext]_chvars
    PROVE  InboxKept'
<1> USE DEF natsVars
<1> SUFFICES ASSUME NEW m \in Subs, NEW i \in DOMAIN inbox'[m] PROVE Kept(inbox[m][i])'
    BY DEF InboxKept
<1>1. inbox[m] \in Seq(Nat)
    BY DEF ChannelTypeOK
<1>2. CASE inbox'[m] = inbox[m]
    BY <1>2, KeysKept DEF InboxKept, Kept, Gone
<1>3. ASSUME NEW t \in Threads, PublishNotifies(t), inbox'[m] # inbox[m]
      PROVE  Kept(inbox[m][i])'
    <2>1. inbox'[m] = Append(inbox[m], seq[t])
        BY <1>3 DEF PublishNotifies, Notification
    <2>2. Kept(seq[t])
        BY <1>3 DEF PublishNotifies, Goto, NotifyKept
    <2>3. destroyed' = destroyed /\ warehouse' = warehouse /\ expired' = expired
        BY <1>3 DEF PublishNotifies, chanVars
    <2>4. seq[t] \in Nat
        BY DEF ChannelTypeOK
    <2>5. \/ i \in DOMAIN inbox[m] /\ inbox'[m][i] = inbox[m][i]
          \/ inbox'[m][i] = seq[t]
        BY <1>1, <2>1, <2>4
    <2> QED
        BY <2>2, <2>3, <2>5 DEF InboxKept, Kept, Gone
<1>4. ASSUME NEW n \in Subs, HandlerStep(n), inbox'[m] # inbox[m]
      PROVE  Kept(inbox[m][i])'
    <2>1. inbox[m] # <<>> /\ inbox'[m] = Tail(inbox[m])
        BY <1>4 DEF HandlerStep, HandlerBegins, HandlerFetches, HandlerCopies, HandlerCalls,
               ChannelTypeOK
    <2>2. i + 1 \in DOMAIN inbox[m] /\ inbox'[m][i] = inbox[m][i + 1]
        BY <1>1, <2>1
    <2> QED
        BY <2>2, KeysKept DEF InboxKept, Kept, Gone
<1> QED
    BY <1>2, <1>3, <1>4, NatsFrame

\* What a handler fetches was staged, and what it found empty is gone.
LEMMA HandlersStep ==
    ASSUME ChannelTypeOK, CleanersMarked, InboxKept, FetchKept, CallGone, [ChannelNext]_chvars
    PROVE  FetchKept' /\ CallGone'
<1> USE DEF natsVars
<1> SUFFICES ASSUME NEW m \in Subs
             PROVE  /\ handler'[m].phase = "fetch" => Kept(handler[m].seq)'
                    /\ handler'[m].phase \in {"copy", "call"} /\ handler'[m].data = "empty"
                       => Gone(handler[m].seq)'
    BY DEF FetchKept, CallGone
<1>1. handler[m] \in Handlers /\ inbox[m] \in Seq(Nat)
    BY DEF ChannelTypeOK
<1>2. CASE handler'[m] = handler[m]
    BY <1>2, KeysKept DEF FetchKept, CallGone, Kept, Gone
<1>3. CASE HandlerBegins(m) /\ handler'[m] # handler[m]
    <2>1. handler'[m] = [Idle EXCEPT !.phase = "fetch", !.seq = Head(inbox[m])]
        BY <1>3 DEF HandlerBegins, ChannelTypeOK
    <2>2. handler'[m].phase = "fetch" /\ handler'[m].seq = inbox[m][1]
        BY <1>1, <1>3, <2>1 DEF HandlerBegins, Idle
    <2>3. 1 \in DOMAIN inbox[m]
        BY <1>1, <1>3 DEF HandlerBegins
    <2> QED
        BY <2>2, <2>3, KeysKept DEF InboxKept, Kept, Gone
<1>4. CASE HandlerFetches(m)
    <2>1. /\ handler[m].phase = "fetch"
          /\ handler'[m].phase = "copy"
          /\ handler'[m].seq = handler[m].seq
          /\ handler'[m].data = "empty" => handler[m].seq \notin warehouse
        BY <1>1, <1>4 DEF HandlerFetches, ChannelTypeOK, Handlers
    <2> QED
        BY <2>1, KeysKept DEF FetchKept, Kept, Gone
<1>5. CASE HandlerCopies(m)
    <2>1. /\ handler[m].phase = "copy"
          /\ \/ handler'[m].phase = "idle"
             \/ /\ handler'[m].phase = "call"
                /\ handler'[m].seq = handler[m].seq
                /\ handler'[m].data = handler[m].data
        BY <1>1, <1>5 DEF HandlerCopies, ChannelTypeOK, Handlers, Idle
    <2> QED
        BY <2>1, KeysKept DEF CallGone, Gone
<1>6. ASSUME NEW s \in Subs, HandlerCalls(m, s)
      PROVE  /\ handler'[m].phase = "fetch" => Kept(handler[m].seq)'
             /\ handler'[m].phase \in {"copy", "call"} /\ handler'[m].data = "empty"
                => Gone(handler[m].seq)'
    <2>1. PICK rest \in {{}, handler[m].calls \ {s}} :
              handler' = [handler EXCEPT ![m] = IF rest = {} THEN Idle
                                                ELSE [@ EXCEPT !.calls = rest]]
        BY <1>6 DEF HandlerCalls
    <2>2. /\ handler[m].phase = "call"
          /\ \/ handler'[m].phase = "idle"
             \/ /\ handler'[m].phase = "call"
                /\ handler'[m].seq = handler[m].seq
                /\ handler'[m].data = handler[m].data
        BY <1>1, <1>6, <2>1 DEF HandlerCalls, ChannelTypeOK, Handlers, Idle
    <2> QED
        BY <2>2, KeysKept DEF CallGone, Gone
<1>7. ASSUME NEW n \in Subs, HandlerStep(n), n # m PROVE handler'[m] = handler[m]
    BY <1>7 DEF HandlerStep, HandlerBegins, HandlerFetches, HandlerCopies, HandlerCalls,
           ChannelTypeOK
<1>8. ASSUME NEW t \in Threads, PublishNotifies(t) PROVE handler'[m] = handler[m]
    BY <1>8 DEF PublishNotifies
<1> QED
    BY <1>2, <1>3, <1>4, <1>5, <1>6, <1>7, <1>8, NatsFrame DEF HandlerStep

\* What is delivered empty is gone.
LEMMA DeliveryStep ==
    ASSUME ChannelTypeOK, CleanersMarked, CallGone, DataArrives, [ChannelNext]_chvars
    PROVE  DataArrives'
<1> USE DEF natsVars
<1> SUFFICES ASSUME NEW r \in Subs, NEW i \in DOMAIN delivered'[r],
                    delivered'[r][i].data = "empty"
             PROVE  destroyed' \/ delivered'[r][i].seq \in expired'
    BY DEF DataArrives
<1>1. delivered[r] \in Seq(Deliveries)
    BY DEF ChannelTypeOK
<1>2. CASE delivered'[r] = delivered[r]
    BY <1>2, KeysKept DEF DataArrives
<1>3. ASSUME NEW n \in Subs, NEW s \in Subs, HandlerCalls(n, s), delivered'[r] # delivered[r]
      PROVE  destroyed' \/ delivered'[r][i].seq \in expired'
    <2> DEFINE d == [seq |-> handler[n].seq, data |-> handler[n].data]
    <2>1. delivered'[r] = Append(delivered[r], d)
        BY <1>3 DEF HandlerCalls, ChannelTypeOK
    <2>2. d \in Deliveries
        BY DEF ChannelTypeOK, Handlers, Deliveries
    <2>3. \/ i \in DOMAIN delivered[r] /\ delivered'[r][i] = delivered[r][i]
          \/ delivered'[r][i] = d
        <3> HIDE DEF d
        <3> QED
            BY <1>1, <2>1, <2>2
    <2>4. handler[n].data = "empty" => Gone(handler[n].seq)
        BY <1>3 DEF HandlerCalls, CallGone
    <2> QED
        BY <2>3, <2>4, KeysKept DEF DataArrives, Gone
<1>4. ASSUME NEW n \in Subs, HandlerStep(n), \A s \in Subs : ~HandlerCalls(n, s)
      PROVE  delivered'[r] = delivered[r]
    BY <1>4 DEF HandlerStep, HandlerBegins, HandlerFetches, HandlerCopies
<1>5. ASSUME NEW t \in Threads, PublishNotifies(t) PROVE delivered'[r] = delivered[r]
    BY <1>5 DEF PublishNotifies
<1> QED
    BY <1>2, <1>3, <1>4, <1>5, NatsFrame

-----------------------------------------------------------------------------
(* The order of messages *)

\* A thread that has a number and has not yet announced it.
Announcing(t) == pc[t] \in {"stage", "notify"}

Claimed == 1 .. next_seq - 1

Busy(n) == handler[n].phase # "idle"

\* If j and k have the same author, j is the older one.
Older(by, j, k) == by[j] = by[k] => j < k

\* No number is ever claimed past the bound.
NumbersReserved == next_seq + Cardinality(Claiming) <= MaxMessages + 1

\* Every number on its way was claimed, and a thread is the author of its own.
Authored ==
    /\ author \in [Seqs -> SUBSET Threads]
    /\ \A t \in Threads : Announcing(t) => seq[t] \in Claimed /\ author[seq[t]] = {t}
    /\ \A n \in Subs : \A i \in DOMAIN inbox[n] : inbox[n][i] \in Claimed
    /\ \A n \in Subs : Busy(n) => handler[n].seq \in Claimed
    /\ \A s \in Subs : \A i \in DOMAIN delivered[s] : delivered[s][i].seq \in Claimed

\* Nothing happens on a NATS subscription that was not opened.
OpenedOnly ==
    /\ IsFiniteSet(opened)
    /\ \A n \in Subs \ opened : inbox[n] = <<>> /\ ~Busy(n)

\* On each subscription, the numbers of one author ascend from the handler over the
\* queue to the one its author is about to announce.
QueueOrdered ==
    \A n \in Subs :
        /\ \A i, j \in DOMAIN inbox[n] : i < j => Older(author, inbox[n][i], inbox[n][j])
        /\ \A i \in DOMAIN inbox[n] : Busy(n) => Older(author, handler[n].seq, inbox[n][i])
        /\ \A t \in Threads, i \in DOMAIN inbox[n] :
             Announcing(t) => Older(author, inbox[n][i], seq[t])
        /\ \A t \in Threads : Announcing(t) /\ Busy(n) => Older(author, handler[n].seq, seq[t])

AlreadyCalled(n, s) == handler[n].phase = "call" /\ s \notin handler[n].calls

SingleOpened == \A m, n \in opened : m = n

\* What s was called with is older than what it was called with later, than what is
\* in a handler that has not called s yet, in a queue, or about to be announced.
CalledInOrder(s) ==
    \A i \in DOMAIN delivered[s] :
        /\ \A j \in DOMAIN delivered[s] : i < j => Older(author, delivered[s][i].seq, delivered[s][j].seq)
        /\ \A n \in Subs : Busy(n) /\ ~AlreadyCalled(n, s)
                           => Older(author, delivered[s][i].seq, handler[n].seq)
        /\ \A n \in Subs : \A j \in DOMAIN inbox[n] : Older(author, delivered[s][i].seq, inbox[n][j])
        /\ \A t \in Threads : Announcing(t) => Older(author, delivered[s][i].seq, seq[t])

DeliveriesOrdered == SingleOpened => \A s \in Subs : CalledInOrder(s)

\* The inductive invariant of the order of messages.
OrderInv ==
    /\ NumbersReserved
    /\ Authored
    /\ OpenedOnly
    /\ QueueOrdered
    /\ DeliveriesOrdered

\* A fresh channel has announced nothing.
LEMMA OrderInvInit == ChannelInit => OrderInv
<1> SUFFICES ASSUME ChannelInit PROVE OrderInv
    OBVIOUS
<1>1. NumbersReserved
    <2>1. Claiming = {}
        BY DEF ChannelInit, Claiming
    <2> QED
        BY <2>1, FS_EmptySet, ChannelAssumption DEF ChannelInit, NumbersReserved
<1>2. \A t \in Threads : ~Announcing(t)
    BY DEF ChannelInit, Announcing
<1>3. \A n \in Subs : inbox[n] = <<>> /\ ~Busy(n) /\ delivered[n] = <<>>
    BY DEF ChannelInit, Busy, Idle
<1>4. author \in [Seqs -> SUBSET Threads]
    BY DEF ChannelInit
<1>5. IsFiniteSet(opened)
    BY FS_EmptySet DEF ChannelInit
<1> QED
    BY <1>1, <1>2, <1>3, <1>4, <1>5
       DEF OrderInv, Authored, OpenedOnly, QueueOrdered, DeliveriesOrdered, CalledInOrder

\* The steps that the order of messages does not depend on: they claim, announce and
\* open nothing.
Unordered ==
    /\ UNCHANGED <<next_seq, author, opened, inbox, handler, delivered>>
    /\ \A u \in Threads : Announcing(u)' => Announcing(u) /\ seq'[u] = seq[u]

LEMMA OrderFrame ==
    ASSUME ChannelTypeOK, [ChannelNext]_chvars
    PROVE  \/ \E t \in Threads : PublishClaims(t) \/ PublishNotifies(t) \/ SubscribeOpens(t)
           \/ \E n \in Subs : HandlerStep(n)
           \/ Unordered
<1> USE DEF chanVars, localVars, natsVars
<1>1. ASSUME NEW t \in Threads, PublishStep(t), ~PublishClaims(t), ~PublishNotifies(t)
      PROVE  Unordered
    <2>1. UNCHANGED <<next_seq, author, opened, inbox, handler, delivered>>
        BY <1>1 DEF PublishStep, PublishAdmitted, PublishStages, PublishThrows
    <2>2. \A u \in Threads : Announcing(u)' => Announcing(u) /\ seq'[u] = seq[u]
        BY <1>1 DEF ChannelTypeOK, Goto, PublishStep, PublishAdmitted, PublishStages,
               PublishThrows, Announcing
    <2> QED
        BY <2>1, <2>2 DEF Unordered
<1>2. ASSUME NEW t \in Threads, SubscribeStep(t), ~SubscribeOpens(t)
      PROVE  Unordered
    <2>1. UNCHANGED <<next_seq, author, opened, inbox, handler, delivered, seq>>
        BY <1>2 DEF SubscribeStep, SubscribeChecks, SubscribeInserts, SubscribeCounts, Unsubscribe
    <2>2. \A u \in Threads : Announcing(u)' => Announcing(u)
        BY <1>2 DEF ChannelTypeOK, Goto, SubscribeStep, SubscribeChecks, SubscribeInserts,
               SubscribeCounts, Unsubscribe, Announcing
    <2> QED
        BY <2>1, <2>2 DEF Unordered
<1>3. ASSUME NEW t \in Threads, DestroyStep(t) PROVE Unordered
    <2>1. UNCHANGED <<next_seq, author, opened, inbox, handler, delivered, seq>>
        BY <1>3 DEF DestroyStep, DrainStarts, DrainLooks, DestroyCalled, DestroyMarks,
               DestroyClears, DestroyCleans
    <2>2. \A u \in Threads : Announcing(u)' => Announcing(u)
        BY <1>3 DEF ChannelTypeOK, Goto, DestroyStep, DrainStarts, DrainLooks, DestroyCalled,
               DestroyMarks, DestroyClears, DestroyCleans, Announcing
    <2> QED
        BY <2>1, <2>2 DEF Unordered
<1>4. ASSUME UNCHANGED chvars \/ \E k \in Seqs : Expire(k) PROVE Unordered
    BY <1>4 DEF chvars, Expire, Unordered, Announcing
<1> QED
    BY <1>1, <1>2, <1>3, <1>4 DEF ChannelNext

\* Numbers are claimed only by threads that were let in below the bound.
LEMMA NumbersStep ==
    ASSUME ChannelTypeOK, NumbersReserved, [ChannelNext]_chvars
    PROVE  NumbersReserved'
<1> USE DEF chanVars, localVars, natsVars
<1>1. IsFiniteSet(Claiming) /\ Cardinality(Claiming) \in Nat
    BY ChannelAssumption, FS_Subset, FS_CardinalityType DEF Claiming
<1>2. ASSUME Claiming' = Claiming, next_seq' = next_seq PROVE NumbersReserved'
    BY <1>2 DEF NumbersReserved
<1>3. ASSUME NEW t \in Threads, PublishAdmitted(t) PROVE NumbersReserved'
    <2>1. Claiming' = Claiming \cup {t}
        BY <1>3 DEF PublishAdmitted, Goto, Claiming, ChannelTypeOK
    <2>2. Cardinality(Claiming') \in {Cardinality(Claiming), Cardinality(Claiming) + 1}
        BY <1>1, <2>1, FS_AddElement
    <2> QED
        BY <1>1, <1>3, <2>2, ChannelAssumption DEF PublishAdmitted, NumbersReserved, ChannelTypeOK
<1>4. ASSUME NEW t \in Threads, PublishClaims(t) PROVE NumbersReserved'
    <2>1. Claiming' = Claiming \ {t} /\ t \in Claiming
        BY <1>4 DEF PublishClaims, Goto, Claiming, ChannelTypeOK
    <2>2. Cardinality(Claiming') = Cardinality(Claiming) - 1
        BY <1>1, <2>1, FS_RemoveElement
    <2> QED
        BY <1>1, <1>4, <2>2, ChannelAssumption DEF PublishClaims, NumbersReserved, ChannelTypeOK
<1> QED
    BY <1>2, <1>3, <1>4, ClaimingFrame

-----------------------------------------------------------------------------
(* One lemma for each kind of step *)

\* Where numbers are claimed, they are older than the next, and their authors stay.
LEMMA AuthorsKept ==
    ASSUME ChannelTypeOK, NumbersReserved, Authored, NEW t \in Threads, PublishClaims(t)
    PROVE  /\ next_seq \in Seqs /\ next_seq' = next_seq + 1
           /\ seq' = [seq EXCEPT ![t] = next_seq]
           /\ author' \in [Seqs -> SUBSET Threads]
           /\ author'[next_seq] = {t}
           /\ \A k \in Claimed : author'[k] = author[k]
<1>1. t \in Claiming /\ IsFiniteSet(Claiming)
    BY ChannelAssumption, FS_Subset DEF PublishClaims, Goto, Claiming
<1>2. Cardinality(Claiming) \in Nat /\ Cardinality(Claiming) # 0
    BY <1>1, FS_EmptySet, FS_CardinalityType
<1>3. next_seq \in Nat \ {0} /\ next_seq <= MaxMessages
    BY <1>2, ChannelAssumption DEF NumbersReserved, ChannelTypeOK
<1>4. next_seq \in Seqs /\ next_seq \notin Claimed
    BY <1>3, ChannelAssumption DEF Seqs, Claimed
<1>5. author' = [author EXCEPT ![next_seq] = {t}] /\ next_seq' = next_seq + 1
      /\ seq' = [seq EXCEPT ![t] = next_seq]
    BY DEF PublishClaims
<1>6. Claimed \subseteq Seqs
    BY <1>3, ChannelAssumption DEF Seqs, Claimed
<1> QED
    BY <1>4, <1>5, <1>6 DEF Authored

\* A step that the order does not depend on.
LEMMA UnorderedStep ==
    ASSUME ChannelTypeOK, OrderInv, Unordered
    PROVE  Authored' /\ OpenedOnly' /\ QueueOrdered' /\ DeliveriesOrdered'
<1> USE DEF Unordered
<1>1. Authored'
    BY DEF OrderInv, Authored, Claimed, Busy
<1>2. OpenedOnly'
    BY DEF OrderInv, OpenedOnly, Busy
<1>3. QueueOrdered'
    BY DEF OrderInv, QueueOrdered, Older, Busy
<1>4. DeliveriesOrdered'
    <2>1. SUFFICES ASSUME SingleOpened', NEW s \in Subs PROVE CalledInOrder(s)'
        BY DEF DeliveriesOrdered
    <2>2. CalledInOrder(s)
        BY <2>1 DEF OrderInv, DeliveriesOrdered, SingleOpened
    <2> QED
        BY <2>2 DEF CalledInOrder, AlreadyCalled, Older, Busy
<1> QED
    BY <1>1, <1>2, <1>3, <1>4

\* A number just claimed is younger than all others.
LEMMA ClaimOrderStep ==
    ASSUME ChannelTypeOK, OrderInv, NEW t \in Threads, PublishClaims(t)
    PROVE  Authored' /\ OpenedOnly' /\ QueueOrdered' /\ DeliveriesOrdered'
<1> USE DEF natsVars
<1>1. Authored /\ NumbersReserved /\ next_seq \in Nat
    BY DEF OrderInv, ChannelTypeOK
<1>2. UNCHANGED <<opened, inbox, handler, delivered>> /\ Goto(t, "claim", "stage")
    BY DEF PublishClaims
<1>3. \A u \in Threads : \/ u = t /\ seq'[u] = next_seq
                         \/ u # t /\ seq'[u] = seq[u] /\ (Announcing(u)' => Announcing(u))
    BY <1>1, <1>2, AuthorsKept DEF Goto, Announcing, ChannelTypeOK
<1>4. Claimed \subseteq Claimed' /\ next_seq \in Claimed' /\ \A k \in Claimed : k < next_seq
    BY <1>1, AuthorsKept DEF Claimed, Seqs
<1>5. \A k \in Claimed : author'[k] = author[k]
    BY <1>1, AuthorsKept
<1>6. \A j, k \in Claimed : Older(author, j, k) => Older(author', j, k)
    BY <1>5 DEF Older
<1>7. \A j \in Claimed : Older(author', j, next_seq)
    BY <1>4 DEF Older
<1>8. Authored'
    <2>1. author' \in [Seqs -> SUBSET Threads] /\ author'[next_seq] = {t}
        BY <1>1, AuthorsKept
    <2>2. \A u \in Threads : Announcing(u)' => seq'[u] \in Claimed' /\ author'[seq'[u]] = {u}
        BY <1>1, <1>3, <1>4, <1>5, <2>1 DEF Authored
    <2> QED
        BY <1>1, <1>2, <1>4, <2>1, <2>2 DEF Authored, Busy
<1>9. OpenedOnly'
    BY <1>2 DEF OrderInv, OpenedOnly, Busy
<1>10. QueueOrdered'
    BY <1>1, <1>2, <1>3, <1>6, <1>7 DEF OrderInv, QueueOrdered, Authored, Busy
<1>11. DeliveriesOrdered'
    <2>1. SUFFICES ASSUME SingleOpened', NEW s \in Subs PROVE CalledInOrder(s)'
        BY DEF DeliveriesOrdered
    <2>2. CalledInOrder(s)
        BY <1>2, <2>1 DEF OrderInv, DeliveriesOrdered, SingleOpened
    <2> QED
        BY <1>1, <1>2, <1>3, <1>6, <1>7, <2>2 DEF CalledInOrder, AlreadyCalled, Busy, Authored
<1> QED
    BY <1>8, <1>9, <1>10, <1>11

\* A number that is announced goes to the end of every queue; it is younger than what
\* its author announced before.
LEMMA NotifyOrderStep ==
    ASSUME ChannelTypeOK, OrderInv, NEW t \in Threads, PublishNotifies(t)
    PROVE  Authored' /\ OpenedOnly' /\ QueueOrdered' /\ DeliveriesOrdered'
<1> DEFINE k == seq[t]
<1>1. UNCHANGED <<next_seq, author, opened, handler, delivered>> /\ Goto(t, "notify", "idle")
    BY DEF PublishNotifies, chanVars
<1>2. Announcing(t) /\ ~Announcing(t)'
    BY <1>1 DEF Announcing, Goto, ChannelTypeOK
<1>3. \A u \in Threads : Announcing(u)' => u # t /\ Announcing(u) /\ seq'[u] = seq[u]
    BY <1>1, <1>2 DEF Announcing, Goto, ChannelTypeOK, PublishNotifies
<1>4. k \in Claimed /\ author[k] = {t} /\ k \in Nat
    BY <1>2 DEF OrderInv, Authored, ChannelTypeOK
<1>5. ASSUME NEW n \in Subs
      PROVE  /\ inbox[n] \in Seq(Nat)
             /\ \/ inbox'[n] = inbox[n]
                \/ n \in opened /\ inbox'[n] = Append(inbox[n], k)
    BY DEF PublishNotifies, Notification, ChannelTypeOK
<1>6. ASSUME NEW n \in Subs, NEW i \in DOMAIN inbox'[n]
      PROVE  \/ i \in DOMAIN inbox[n] /\ inbox'[n][i] = inbox[n][i]
             \/ i = Len(inbox[n]) + 1 /\ inbox'[n][i] = k
    <2> HIDE DEF k
    <2> QED
        BY <1>4, <1>5
<1>7. \A u \in Threads : Announcing(u)' => Older(author, k, seq[u])
    BY <1>3, <1>4 DEF Older, OrderInv, Authored
<1> HIDE DEF k
<1>8. Authored'
    <2>1. \A u \in Threads : Announcing(u)' => seq'[u] \in Claimed /\ author[seq'[u]] = {u}
        BY <1>3 DEF OrderInv, Authored
    <2>2. Claimed' = Claimed
        BY <1>1 DEF Claimed
    <2>3. \A n \in Subs : \A i \in DOMAIN inbox'[n] : inbox'[n][i] \in Claimed
        BY <1>4, <1>6 DEF OrderInv, Authored
    <2> QED
        BY <1>1, <2>1, <2>2, <2>3 DEF OrderInv, Authored, Busy
<1>9. OpenedOnly'
    BY <1>1, <1>5 DEF OrderInv, OpenedOnly, Busy
<1>10. QueueOrdered'
    <2> SUFFICES ASSUME NEW n \in Subs
                 PROVE  /\ \A i, j \in DOMAIN inbox'[n] :
                             i < j => Older(author, inbox'[n][i], inbox'[n][j])
                        /\ \A i \in DOMAIN inbox'[n] :
                             Busy(n) => Older(author, handler[n].seq, inbox'[n][i])
                        /\ \A u \in Threads, i \in DOMAIN inbox'[n] :
                             Announcing(u)' => Older(author, inbox'[n][i], seq[u])
                        /\ \A u \in Threads : Announcing(u)' /\ Busy(n)
                             => Older(author, handler[n].seq, seq[u])
        BY <1>1, <1>3 DEF QueueOrdered, Busy
    <2>1. \A i \in DOMAIN inbox[n] : i \in Nat /\ i <= Len(inbox[n]) /\ Older(author, inbox[n][i], k)
        BY <1>2, <1>5 DEF OrderInv, QueueOrdered, k
    <2>2. Busy(n) => Older(author, handler[n].seq, k)
        BY <1>2 DEF OrderInv, QueueOrdered, k
    <2>3. \A i, j \in DOMAIN inbox'[n] : i < j => Older(author, inbox'[n][i], inbox'[n][j])
        <3> SUFFICES ASSUME NEW i \in DOMAIN inbox'[n], NEW j \in DOMAIN inbox'[n], i < j
                     PROVE  Older(author, inbox'[n][i], inbox'[n][j])
            OBVIOUS
        <3>1. i \in DOMAIN inbox[n] /\ inbox'[n][i] = inbox[n][i]
            <4>1. j <= Len(inbox[n]) + 1
                BY <1>5, <1>6, <2>1
            <4> QED
                BY <1>5, <1>6, <4>1
        <3> QED
            BY <1>6, <2>1, <3>1 DEF OrderInv, QueueOrdered
    <2>4. \A i \in DOMAIN inbox'[n] : Busy(n) => Older(author, handler[n].seq, inbox'[n][i])
        BY <1>6, <2>2 DEF OrderInv, QueueOrdered
    <2>5. \A u \in Threads, i \in DOMAIN inbox'[n] :
            Announcing(u)' => Older(author, inbox'[n][i], seq[u])
        BY <1>3, <1>6, <1>7 DEF OrderInv, QueueOrdered
    <2>6. \A u \in Threads : Announcing(u)' /\ Busy(n) => Older(author, handler[n].seq, seq[u])
        BY <1>3 DEF OrderInv, QueueOrdered
    <2> QED
        BY <2>3, <2>4, <2>5, <2>6
<1>11. DeliveriesOrdered'
    <2> SUFFICES ASSUME SingleOpened', NEW s \in Subs PROVE CalledInOrder(s)'
        BY DEF DeliveriesOrdered
    <2>1. CalledInOrder(s)
        BY <1>1 DEF OrderInv, DeliveriesOrdered, SingleOpened
    <2>2. \A i \in DOMAIN delivered[s] : Older(author, delivered[s][i].seq, k)
        BY <1>2, <2>1 DEF CalledInOrder, k
    <2>3. \A i \in DOMAIN delivered[s], n \in Subs : \A j \in DOMAIN inbox'[n] :
            Older(author, delivered[s][i].seq, inbox'[n][j])
        BY <1>6, <2>1, <2>2 DEF CalledInOrder
    <2>4. \A i \in DOMAIN delivered[s], u \in Threads :
            Announcing(u)' => Older(author, delivered[s][i].seq, seq'[u])
        BY <1>3, <2>1 DEF CalledInOrder
    <2> QED
        BY <1>1, <2>1, <2>3, <2>4 DEF CalledInOrder, AlreadyCalled, Busy
<1> QED
    BY <1>8, <1>9, <1>10, <1>11

\* Opening a subscription announces nothing and delivers nothing.
LEMMA OpenOrderStep ==
    ASSUME ChannelTypeOK, OrderInv, NEW t \in Threads, SubscribeOpens(t)
    PROVE  Authored' /\ OpenedOnly' /\ QueueOrdered' /\ DeliveriesOrdered'
<1>1. UNCHANGED <<next_seq, author, inbox, handler, delivered, seq>>
      /\ opened' = opened \cup {sub_id[t]}
    BY DEF SubscribeOpens, chanVars
<1>2. \A u \in Threads : Announcing(u)' => Announcing(u)
    BY DEF SubscribeOpens, Announcing, Goto, ChannelTypeOK
<1>3. Authored'
    BY <1>1, <1>2 DEF OrderInv, Authored, Claimed, Busy
<1>4. OpenedOnly'
    <2>1. IsFiniteSet(opened')
        BY <1>1, FS_AddElement DEF OrderInv, OpenedOnly
    <2> QED
        BY <1>1, <2>1 DEF OrderInv, OpenedOnly, Busy
<1>5. QueueOrdered'
    BY <1>1, <1>2 DEF OrderInv, QueueOrdered, Busy
<1>6. DeliveriesOrdered'
    <2> SUFFICES ASSUME SingleOpened', NEW s \in Subs PROVE CalledInOrder(s)'
        BY DEF DeliveriesOrdered
    <2>1. SingleOpened
        BY <1>1 DEF SingleOpened
    <2>2. CalledInOrder(s)
        BY <2>1 DEF OrderInv, DeliveriesOrdered
    <2> QED
        BY <1>1, <1>2, <2>2 DEF CalledInOrder, AlreadyCalled, Busy
<1> QED
    BY <1>3, <1>4, <1>5, <1>6

\* A handler takes the oldest message of its queue, or drops it.
LEMMA BeginOrderStep ==
    ASSUME ChannelTypeOK, OrderInv, NEW n \in Subs, HandlerBegins(n)
    PROVE  Authored' /\ OpenedOnly' /\ QueueOrdered' /\ DeliveriesOrdered'
<1>1. UNCHANGED <<next_seq, author, opened, delivered, seq, pc>>
    BY DEF HandlerBegins, chanVars, localVars
<1>2. Claimed' = Claimed /\ \A u \in Threads : Announcing(u)' <=> Announcing(u)
    BY <1>1 DEF Claimed, Announcing
<1>3. n \in opened /\ ~Busy(n) /\ inbox[n] \in Seq(Nat) /\ inbox[n] # <<>> /\ 1 \in DOMAIN inbox[n]
    BY DEF HandlerBegins, Busy, Idle, ChannelTypeOK
<1>4. inbox'[n] = Tail(inbox[n])
    BY DEF HandlerBegins, ChannelTypeOK
<1>5. \A m \in Subs : m # n => inbox'[m] = inbox[m] /\ handler'[m] = handler[m]
    BY DEF HandlerBegins, ChannelTypeOK
<1>6. Busy(n)' => handler'[n].seq = inbox[n][1] /\ ~(handler'[n].phase = "call")
    <2>1. CASE handler' = handler
        BY <1>3, <2>1 DEF Busy
    <2>2. CASE handler'[n] = [Idle EXCEPT !.phase = "fetch", !.seq = Head(inbox[n])]
        BY <1>3, <2>2 DEF Idle
    <2> QED
        BY <2>1, <2>2 DEF HandlerBegins, ChannelTypeOK
<1>7. \A i \in DOMAIN inbox'[n] : /\ i \in Nat /\ i >= 1
                                  /\ i + 1 \in DOMAIN inbox[n] /\ inbox'[n][i] = inbox[n][i + 1]
    BY <1>3, <1>4
<1>8. Authored'
    <2>1. \A m \in Subs : \A i \in DOMAIN inbox'[m] : inbox'[m][i] \in Claimed
        BY <1>5, <1>7 DEF OrderInv, Authored
    <2>2. \A m \in Subs : Busy(m)' => handler'[m].seq \in Claimed
        BY <1>3, <1>5, <1>6 DEF OrderInv, Authored, Busy
    <2> QED
        BY <1>1, <1>2, <2>1, <2>2 DEF OrderInv, Authored
<1>9. OpenedOnly'
    BY <1>1, <1>3, <1>5 DEF OrderInv, OpenedOnly, Busy
<1>10. QueueOrdered'
    <2> SUFFICES ASSUME NEW m \in Subs
                 PROVE  /\ \A i, j \in DOMAIN inbox'[m] :
                             i < j => Older(author, inbox'[m][i], inbox'[m][j])
                        /\ \A i \in DOMAIN inbox'[m] :
                             Busy(m)' => Older(author, handler'[m].seq, inbox'[m][i])
                        /\ \A u \in Threads, i \in DOMAIN inbox'[m] :
                             Announcing(u) => Older(author, inbox'[m][i], seq[u])
                        /\ \A u \in Threads : Announcing(u) /\ Busy(m)'
                             => Older(author, handler'[m].seq, seq[u])
        BY <1>1, <1>2 DEF QueueOrdered
    <2>1. CASE m # n
        BY <1>5, <2>1 DEF OrderInv, QueueOrdered, Busy
    <2>2. CASE m = n
        <3>1. \A i, j \in DOMAIN inbox[n] : i < j => Older(author, inbox[n][i], inbox[n][j])
            BY DEF OrderInv, QueueOrdered
        <3>2. \A i, j \in DOMAIN inbox'[n] : i < j => Older(author, inbox'[n][i], inbox'[n][j])
            <4> SUFFICES ASSUME NEW i \in DOMAIN inbox'[n], NEW j \in DOMAIN inbox'[n], i < j
                         PROVE  Older(author, inbox'[n][i], inbox'[n][j])
                OBVIOUS
            <4>1. i + 1 < j + 1
                BY <1>7
            <4> QED
                BY <1>7, <3>1, <4>1
        <3>3. \A i \in DOMAIN inbox'[n] : Busy(n)' => Older(author, handler'[n].seq, inbox'[n][i])
            <4> SUFFICES ASSUME NEW i \in DOMAIN inbox'[n], Busy(n)'
                         PROVE  Older(author, handler'[n].seq, inbox'[n][i])
                OBVIOUS
            <4>1. 1 < i + 1
                BY <1>7
            <4> QED
                BY <1>3, <1>6, <1>7, <3>1, <4>1
        <3>4. \A u \in Threads, i \in DOMAIN inbox[n] : Announcing(u) => Older(author, inbox[n][i], seq[u])
            BY DEF OrderInv, QueueOrdered
        <3> QED
            BY <1>3, <1>6, <1>7, <2>2, <3>2, <3>3, <3>4
    <2> QED
        BY <2>1, <2>2
<1>11. DeliveriesOrdered'
    <2> SUFFICES ASSUME SingleOpened', NEW s \in Subs PROVE CalledInOrder(s)'
        BY DEF DeliveriesOrdered
    <2>1. CalledInOrder(s)
        BY <1>1 DEF OrderInv, DeliveriesOrdered, SingleOpened
    <2>2. \A i \in DOMAIN delivered[s] : \A m \in Subs :
            Busy(m)' /\ ~AlreadyCalled(m, s)' => Older(author, delivered[s][i].seq, handler'[m].seq)
        BY <1>3, <1>5, <1>6, <2>1 DEF CalledInOrder, Busy, AlreadyCalled
    <2>3. \A i \in DOMAIN delivered[s] : \A m \in Subs : \A j \in DOMAIN inbox'[m] :
            Older(author, delivered[s][i].seq, inbox'[m][j])
        BY <1>5, <1>7, <2>1 DEF CalledInOrder
    <2> QED
        BY <1>1, <1>2, <2>1, <2>2, <2>3 DEF CalledInOrder
<1> QED
    BY <1>8, <1>9, <1>10, <1>11

\* A handler that goes on with its message calls nobody.
LEMMA HandleOrderStep ==
    ASSUME ChannelTypeOK, OrderInv, NEW n \in Subs, HandlerFetches(n) \/ HandlerCopies(n)
    PROVE  Authored' /\ OpenedOnly' /\ QueueOrdered' /\ DeliveriesOrdered'
<1>1. UNCHANGED <<next_seq, author, opened, inbox, delivered, seq, pc>>
    BY DEF HandlerFetches, HandlerCopies, chanVars, localVars
<1>2. Claimed' = Claimed /\ \A u \in Threads : Announcing(u)' <=> Announcing(u)
    BY <1>1 DEF Claimed, Announcing
<1>3. handler[n] \in Handlers
    BY DEF ChannelTypeOK
<1>4. Busy(n) /\ ~(handler[n].phase = "call") /\ (Busy(n)' => handler'[n].seq = handler[n].seq)
    <2>1. CASE HandlerFetches(n)
        BY <1>3, <2>1 DEF HandlerFetches, Busy, ChannelTypeOK, Handlers
    <2>2. CASE HandlerCopies(n)
        BY <1>3, <2>2 DEF HandlerCopies, Busy, ChannelTypeOK, Handlers, Idle
    <2> QED
        BY <2>1, <2>2
<1>5. \A m \in Subs : m # n => handler'[m] = handler[m]
    BY DEF HandlerFetches, HandlerCopies, ChannelTypeOK
<1>6. \A m \in Subs : Busy(m)' => Busy(m) /\ handler'[m].seq = handler[m].seq
    BY <1>4, <1>5 DEF Busy
<1>7. Authored'
    BY <1>1, <1>2, <1>6 DEF OrderInv, Authored
<1>8. OpenedOnly'
    BY <1>1, <1>6 DEF OrderInv, OpenedOnly
<1>9. QueueOrdered'
    BY <1>1, <1>2, <1>6 DEF OrderInv, QueueOrdered
<1>10. DeliveriesOrdered'
    <2> SUFFICES ASSUME SingleOpened', NEW s \in Subs PROVE CalledInOrder(s)'
        BY DEF DeliveriesOrdered
    <2>1. CalledInOrder(s)
        BY <1>1 DEF OrderInv, DeliveriesOrdered, SingleOpened
    <2>2. \A m \in Subs : Busy(m)' /\ ~AlreadyCalled(m, s)' => Busy(m) /\ ~AlreadyCalled(m, s)
        BY <1>4, <1>5 DEF Busy, AlreadyCalled
    <2> QED
        BY <1>1, <1>2, <1>6, <2>1, <2>2 DEF CalledInOrder
<1> QED
    BY <1>7, <1>8, <1>9, <1>10

\* A handler calls a subscriber that has only had older messages of the same author,
\* and does not call it again with this one.
LEMMA CallOrderStep ==
    ASSUME ChannelTypeOK, OrderInv, NEW n \in Subs, NEW r \in Subs, HandlerCalls(n, r)
    PROVE  Authored' /\ OpenedOnly' /\ QueueOrdered' /\ DeliveriesOrdered'
<1> DEFINE d == [seq |-> handler[n].seq, data |-> handler[n].data]
<1>1. UNCHANGED <<next_seq, author, opened, inbox, seq, pc>>
    BY DEF HandlerCalls, chanVars, localVars
<1>2. Claimed' = Claimed /\ \A u \in Threads : Announcing(u)' <=> Announcing(u)
    BY <1>1 DEF Claimed, Announcing
<1>3. handler[n] \in Handlers /\ delivered[r] \in Seq(Deliveries) /\ d \in Deliveries
    BY DEF ChannelTypeOK, Handlers, Deliveries
<1>4. Busy(n) /\ n \in opened /\ ~AlreadyCalled(n, r)
    BY DEF HandlerCalls, Busy, AlreadyCalled, OrderInv, OpenedOnly
<1>5. /\ Busy(n)' => handler'[n].seq = handler[n].seq
      /\ \A s \in Subs : Busy(n)' /\ ~AlreadyCalled(n, s)' => s # r /\ ~AlreadyCalled(n, s)
    <2>1. PICK rest \in {{}, handler[n].calls \ {r}} :
              handler' = [handler EXCEPT ![n] = IF rest = {} THEN Idle
                                                ELSE [@ EXCEPT !.calls = rest]]
        BY DEF HandlerCalls
    <2>2. CASE rest = {}
        <3>1. handler'[n] = Idle
            BY <2>1, <2>2 DEF ChannelTypeOK
        <3> QED
            BY <3>1 DEF Busy, Idle
    <2>3. CASE rest = handler[n].calls \ {r} /\ rest # {}
        <3>1. /\ handler'[n].seq = handler[n].seq
              /\ handler'[n].phase = "call" /\ handler[n].phase = "call"
              /\ handler'[n].calls = handler[n].calls \ {r}
            BY <1>3, <2>1, <2>3 DEF ChannelTypeOK, Handlers, HandlerCalls
        <3> QED
            BY <3>1 DEF AlreadyCalled
    <2> QED
        BY <2>2, <2>3
<1>6. \A m \in Subs : m # n => handler'[m] = handler[m]
    BY DEF HandlerCalls, ChannelTypeOK
<1>7. \A m \in Subs : Busy(m)' => Busy(m) /\ handler'[m].seq = handler[m].seq
    BY <1>4, <1>5, <1>6 DEF Busy
<1>8. delivered'[r] = Append(delivered[r], d) /\ \A s \in Subs : s # r => delivered'[s] = delivered[s]
    BY DEF HandlerCalls, ChannelTypeOK
<1>9. d.seq = handler[n].seq /\ d.seq \in Claimed
    BY <1>4 DEF OrderInv, Authored
<1> HIDE DEF d
<1>10. \A i \in DOMAIN delivered'[r] :
          \/ i \in DOMAIN delivered[r] /\ delivered'[r][i] = delivered[r][i]
          \/ i = Len(delivered[r]) + 1 /\ delivered'[r][i] = d
    BY <1>3, <1>8
<1>11. Authored'
    <2>1. \A s \in Subs : \A i \in DOMAIN delivered'[s] : delivered'[s][i].seq \in Claimed
        BY <1>8, <1>9, <1>10 DEF OrderInv, Authored
    <2> QED
        BY <1>1, <1>2, <1>7, <2>1 DEF OrderInv, Authored
<1>12. OpenedOnly'
    BY <1>1, <1>7 DEF OrderInv, OpenedOnly
<1>13. QueueOrdered'
    BY <1>1, <1>2, <1>7 DEF OrderInv, QueueOrdered
<1>14. DeliveriesOrdered'
    <2> SUFFICES ASSUME SingleOpened', NEW s \in Subs PROVE CalledInOrder(s)'
        BY DEF DeliveriesOrdered
    <2>1. SingleOpened /\ \A q \in Subs : CalledInOrder(q)
        BY <1>1 DEF OrderInv, DeliveriesOrdered, SingleOpened
    <2>2. \A m \in Subs : Busy(m)' /\ ~AlreadyCalled(m, s)' => Busy(m) /\ ~AlreadyCalled(m, s)
        BY <1>4, <1>5, <1>6 DEF Busy, AlreadyCalled
    <2>3. CASE s # r
        BY <1>1, <1>2, <1>7, <1>8, <2>1, <2>2, <2>3 DEF CalledInOrder
    <2>4. CASE s = r
        <3>1. \A m \in Subs : m # n => inbox[m] = <<>> /\ ~Busy(m)
            BY <1>4, <2>1 DEF OrderInv, OpenedOnly, SingleOpened
        <3>2. ~(Busy(n)' /\ ~AlreadyCalled(n, r)')
            BY <1>5
        <3>3. \A i \in DOMAIN delivered[r] : i \in Nat /\ i <= Len(delivered[r])
                                            /\ Older(author, delivered[r][i].seq, d.seq)
            BY <1>3, <1>4, <1>9, <2>1 DEF CalledInOrder
        <3>4. \A i, j \in DOMAIN delivered'[r] :
                 i < j => Older(author, delivered'[r][i].seq, delivered'[r][j].seq)
            <4> SUFFICES ASSUME NEW i \in DOMAIN delivered'[r], NEW j \in DOMAIN delivered'[r], i < j
                         PROVE  Older(author, delivered'[r][i].seq, delivered'[r][j].seq)
                OBVIOUS
            <4>1. j <= Len(delivered[r]) + 1
                BY <1>3, <1>10, <3>3
            <4>2. i \in DOMAIN delivered[r] /\ delivered'[r][i] = delivered[r][i]
                BY <1>3, <1>10, <4>1
            <4>3. CASE j \in DOMAIN delivered[r] /\ delivered'[r][j] = delivered[r][j]
                BY <2>1, <4>2, <4>3 DEF CalledInOrder
            <4>4. CASE delivered'[r][j] = d
                BY <3>3, <4>2, <4>4
            <4> QED
                BY <1>10, <4>3, <4>4
        <3>5. \A i \in DOMAIN delivered'[r] : \A m \in Subs : \A j \in DOMAIN inbox[m] :
                 Older(author, delivered'[r][i].seq, inbox[m][j])
            <4> SUFFICES ASSUME NEW i \in DOMAIN delivered'[r], NEW m \in Subs, NEW j \in DOMAIN inbox[m]
                         PROVE  Older(author, delivered'[r][i].seq, inbox[m][j])
                OBVIOUS
            <4>1. m = n
                BY <3>1
            <4>2. Older(author, d.seq, inbox[n][j])
                BY <1>4, <1>9, <4>1 DEF OrderInv, QueueOrdered
            <4>3. i \in DOMAIN delivered[r] => Older(author, delivered[r][i].seq, inbox[n][j])
                BY <2>1, <4>1 DEF CalledInOrder
            <4> QED
                BY <1>10, <4>1, <4>2, <4>3
        <3>6. \A i \in DOMAIN delivered'[r] : \A u \in Threads :
                 Announcing(u) => Older(author, delivered'[r][i].seq, seq[u])
            <4>1. \A u \in Threads : Announcing(u) => Older(author, d.seq, seq[u])
                BY <1>4, <1>9 DEF OrderInv, QueueOrdered
            <4> QED
                BY <1>10, <2>1, <4>1 DEF CalledInOrder
        <3>7. \A m \in Subs : ~(Busy(m)' /\ ~AlreadyCalled(m, r)')
            BY <1>7, <3>1, <3>2
        <3> QED
            BY <1>1, <1>2, <2>4, <3>4, <3>5, <3>6, <3>7 DEF CalledInOrder
    <2> QED
        BY <2>3, <2>4
<1> QED
    BY <1>11, <1>12, <1>13, <1>14

\* Every step keeps the order of messages.
LEMMA OrderInvStep ==
    ASSUME ChannelTypeOK, OrderInv, [ChannelNext]_chvars
    PROVE  OrderInv'
<1>1. NumbersReserved'
    BY NumbersStep DEF OrderInv
<1>2. Authored' /\ OpenedOnly' /\ QueueOrdered' /\ DeliveriesOrdered'
    <2>1. CASE Unordered
        BY <2>1, UnorderedStep
    <2>2. ASSUME NEW t \in Threads, PublishClaims(t) \/ PublishNotifies(t) \/ SubscribeOpens(t)
          PROVE  Authored' /\ OpenedOnly' /\ QueueOrdered' /\ DeliveriesOrdered'
        BY <2>2, ClaimOrderStep, NotifyOrderStep, OpenOrderStep
    <2>3. ASSUME NEW n \in Subs, HandlerStep(n)
          PROVE  Authored' /\ OpenedOnly' /\ QueueOrdered' /\ DeliveriesOrdered'
        BY <2>3, BeginOrderStep, HandleOrderStep, CallOrderStep DEF HandlerStep
    <2> QED
        BY <2>1, <2>2, <2>3, OrderFrame
<1> QED
    BY <1>1, <1>2 DEF OrderInv

\* Two elements make a set of two.
LEMMA AtMostOne ==
    ASSUME NEW S, IsFiniteSet(S), Cardinality(S) <= 1, NEW m \in S, NEW n \in S
    PROVE  m = n
<1> SUFFICES ASSUME m # n PROVE FALSE
    OBVIOUS
<1>1. IsFiniteSet({m}) /\ Cardinality({m}) = 1
    BY FS_Singleton
<1>2. Cardinality({m} \cup {n}) = 2
    <2>1. n \notin {m}
        OBVIOUS
    <2>2. Cardinality({m} \cup {n}) = Cardinality({m}) + 1
        BY <1>1, <2>1, FS_AddElement
    <2> QED
        BY <1>1, <2>2
<1>3. Cardinality({m} \cup {n}) <= Cardinality(S) /\ Cardinality(S) \in Nat
    <2>1. {m} \cup {n} \subseteq S
        OBVIOUS
    <2> QED
        BY <2>1, FS_Subset, FS_CardinalityType
<1> QED
    BY <1>2, <1>3

-----------------------------------------------------------------------------
(* The theorems *)

\* The invariant is inductive.
LEMMA ChannelInvStep == ChannelInv /\ [ChannelNext]_chvars => ChannelInv'
<1> SUFFICES ASSUME ChannelInv, [ChannelNext]_chvars PROVE ChannelInv'
    OBVIOUS
<1>1. ChannelTypeOK' /\ ClaimsBounded'
    BY ChannelTypeStep, ClaimsStep DEF ChannelInv
<1>2. DrainPending' /\ CleanersMarked'
    BY DrainStep, CleanersStep DEF ChannelInv
<1>3. NotifyKept' /\ InboxKept' /\ FetchKept' /\ CallGone' /\ DataArrives'
    BY NotifyStep, InboxStep, HandlersStep, DeliveryStep DEF ChannelInv, StagedFirst
<1> QED
    BY <1>1, <1>2, <1>3 DEF ChannelInv, StagedFirst

\* The inductive invariant holds in every reachable state of the channel.
THEOREM ChannelInvariant == ChannelSpec => []ChannelInv
    BY ChannelInvInit, ChannelInvStep, PTL DEF ChannelSpec

\* The limit on pending messages is passed by fewer messages than there are threads,
\* although publish tests it before it claims a number.
THEOREM BackpressureIsBounded == ChannelSpec => []BackpressureBounded
<1>1. ChannelInv => BackpressureBounded
    <2>1. Cardinality(Claiming) \in Nat /\ Cardinality(Threads) \in Nat
        BY ChannelAssumption, FS_Subset, FS_CardinalityType DEF Claiming
    <2> QED
        BY <2>1, ChannelAssumption DEF ChannelInv, ChannelTypeOK, ClaimsBounded, BackpressureBounded
<1> QED
    BY <1>1, ChannelInvariant, PTL

\* However drain() and unsubscribe() interleave, a drained channel without
\* subscribers is destroyed once its callers have returned.
THEOREM DrainIsCompleted == ChannelSpec => []DrainCompletes
<1>1. ChannelInv => DrainCompletes
    BY DEF ChannelInv, DrainPending, DrainCompletes, Quiet
<1> QED
    BY <1>1, ChannelInvariant, PTL

\* A notification never overtakes its data: a callback gets an empty message only
\* after an expiry or a destroy.
THEOREM DataIsStagedFirst == ChannelSpec => []DataArrives
<1>1. ChannelInv => DataArrives
    BY DEF ChannelInv
<1> QED
    BY <1>1, ChannelInvariant, PTL

\* While one NATS subscription is open, a subscriber gets each message at most once
\* and the messages of one publishing thread in the order of their numbers.
THEOREM MessagesAreOrdered == ChannelSpec => []OrderedPerPublisher
<1>1. ChannelInv /\ OrderInv /\ [ChannelNext]_chvars => OrderInv'
    BY OrderInvStep DEF ChannelInv
<1>2. OrderInv => OrderedPerPublisher
    <2> SUFFICES ASSUME OrderInv, Cardinality(opened) <= 1, NEW s \in Subs,
                        NEW i \in DOMAIN delivered[s], NEW j \in DOMAIN delivered[s], i < j,
                        author[delivered[s][i].seq] = author[delivered[s][j].seq]
                 PROVE  delivered[s][i].seq < delivered[s][j].seq
        BY DEF OrderedPerPublisher
    <2>1. SingleOpened
        BY AtMostOne DEF OrderInv, OpenedOnly, SingleOpened
    <2>2. CalledInOrder(s)
        BY <2>1 DEF OrderInv, DeliveriesOrdered
    <2> QED
        BY <2>2 DEF CalledInOrder, Older
<1> QED
    BY <1>1, <1>2, OrderInvInit, ChannelInvariant, PTL DEF ChannelSpec

=============================================================================
