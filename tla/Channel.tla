------------------------------- MODULE Channel -------------------------------
(***************************************************************************)
(* One Channel object (src/src/labios/channel.cpp) used by several threads *)
(* of a process: publish, subscribe, unsubscribe, drain and destroy, and   *)
(* the NATS threads that hand notifications to the subscribers.            *)
(*                                                                         *)
(* Atomics and sections under mu_ are single steps, everything else is     *)
(* interleaved.  NATS gives each subscription its own queue and thread, so *)
(* subscribing a subject twice delivers its messages twice; a subscription *)
(* is named after the subscriber that opened it.                           *)
(***************************************************************************)
EXTENDS Integers, FiniteSets, Sequences

CONSTANTS
    Threads,           \* threads that use the channel
    MaxPending,        \* max_pending_, 0 for no limit
    MaxMessages,       \* bound: sequence numbers
    MaxSubscriptions   \* bound: subscriber ids

ASSUME ChannelAssumption ==
    /\ IsFiniteSet(Threads)
    /\ MaxPending \in Nat
    /\ MaxMessages \in Nat
    /\ MaxSubscriptions \in Nat

Seqs == 1 .. MaxMessages
Subs == 1 .. MaxSubscriptions

VARIABLES
    (* Channel *)
    next_seq,      \* next_seq_
    subscribers,   \* subscribers_
    next_sub_id,   \* next_sub_id_
    draining,      \* draining_
    destroyed,     \* destroyed_
    (* threads inside a method *)
    pc,            \* where the thread is
    seq,           \* its local seq, 0 outside publish
    sub_id,        \* its local sub_id, 0 outside subscribe
    (* Redis and NATS *)
    warehouse,     \* sequence numbers with a key
    opened,        \* NATS subscriptions
    inbox,         \* notifications queued for each of them
    handler,       \* its callback
    (* history *)
    delivered,     \* what each subscriber was called with
    author,        \* the thread behind a sequence number
    expired        \* keys whose time to live is over

chanVars == <<next_seq, subscribers, next_sub_id, draining, destroyed>>
localVars == <<seq, sub_id, author>>
natsVars == <<opened, inbox, handler, delivered>>
chvars == <<chanVars, pc, localVars, warehouse, natsVars, expired>>

Goto(t, from, to) == pc[t] = from /\ pc' = [pc EXCEPT ![t] = to]

Idle == [phase |-> "idle", seq |-> 0, data |-> "empty", calls |-> {}]

-----------------------------------------------------------------------------
(* publish *)

\* Seeded fault: one message too many is let in.
HasRoomOffByOne == MaxPending > 0 => next_seq - 1 <= MaxPending

\* The backpressure test; next_seq_ never goes back.
HasRoom == MaxPending > 0 => next_seq - 1 < MaxPending

Claiming == {t \in Threads : pc[t] = "claim"}

\* A publish that is turned away returns 0 and changes nothing.
PublishAdmitted(t) ==
    /\ Goto(t, "idle", "claim")
    /\ ~draining
    /\ ~destroyed
    /\ HasRoom
    /\ next_seq + Cardinality(Claiming) <= MaxMessages
    /\ UNCHANGED <<chanVars, localVars, warehouse, natsVars, expired>>

PublishClaims(t) ==
    /\ Goto(t, "claim", "stage")
    /\ seq' = [seq EXCEPT ![t] = next_seq]
    /\ author' = [author EXCEPT ![next_seq] = {t}]
    /\ next_seq' = next_seq + 1
    /\ UNCHANGED <<subscribers, next_sub_id, draining, destroyed, sub_id, warehouse,
                   natsVars, expired>>

\* Seeded fault: the key is made from the counter after the increment.
WarehouseKeyOfCounter(t) == next_seq

WarehouseKey(t) == seq[t]

PublishStages(t) ==
    /\ Goto(t, "stage", "notify")
    /\ warehouse' = warehouse \cup {WarehouseKey(t)}
    /\ UNCHANGED <<chanVars, localVars, natsVars, expired>>

\* Seeded fault: the notification names the newest sequence number.
NotificationOfCounter(t) == next_seq - 1

Notification(t) == seq[t]

PublishNotifies(t) ==
    /\ Goto(t, "notify", "idle")
    /\ inbox' = [n \in Subs |-> IF n \in opened THEN Append(inbox[n], Notification(t))
                                ELSE inbox[n]]
    /\ seq' = [seq EXCEPT ![t] = 0]
    /\ UNCHANGED <<chanVars, sub_id, author, warehouse, opened, handler, delivered, expired>>

\* Redis or NATS throws out of publish; the sequence number is lost.
PublishThrows(t) ==
    /\ pc[t] \in {"stage", "notify"}
    /\ pc' = [pc EXCEPT ![t] = "idle"]
    /\ seq' = [seq EXCEPT ![t] = 0]
    /\ UNCHANGED <<chanVars, sub_id, author, warehouse, natsVars, expired>>

\* ttl_seconds_ after it was staged, a key is gone.
Expire(k) ==
    /\ k \in warehouse
    /\ warehouse' = warehouse \ {k}
    /\ expired' = expired \cup {k}
    /\ UNCHANGED <<chanVars, pc, localVars, natsVars>>

-----------------------------------------------------------------------------
(* subscribe and unsubscribe *)

SubscribeChecks(t) ==
    /\ Goto(t, "idle", "insert")
    /\ ~destroyed
    /\ next_sub_id + Cardinality({u \in Threads : pc[u] = "insert"}) <= MaxSubscriptions
    /\ UNCHANGED <<chanVars, localVars, warehouse, natsVars, expired>>

SubscribeInserts(t) ==
    /\ Goto(t, "insert", "count")
    /\ sub_id' = [sub_id EXCEPT ![t] = next_sub_id]
    /\ subscribers' = subscribers \cup {next_sub_id}
    /\ next_sub_id' = next_sub_id + 1
    /\ UNCHANGED <<next_seq, draining, destroyed, seq, author, warehouse, natsVars, expired>>

\* subscriber_count() takes the lock again.
SubscribeCounts(t) ==
    /\ Goto(t, "count", IF Cardinality(subscribers) = 1 THEN "open" ELSE "idle")
    /\ sub_id' = [sub_id EXCEPT ![t] = IF Cardinality(subscribers) = 1 THEN @ ELSE 0]
    /\ UNCHANGED <<chanVars, seq, author, warehouse, natsVars, expired>>

\* NatsConnection::subscribe: one more subscription, whatever was open before.
SubscribeOpens(t) ==
    /\ Goto(t, "open", "idle")
    /\ opened' = opened \cup {sub_id[t]}
    /\ sub_id' = [sub_id EXCEPT ![t] = 0]
    /\ UNCHANGED <<chanVars, seq, author, warehouse, inbox, handler, delivered, expired>>

\* Seeded fault: the last subscriber is looked for before it is erased.
LastToLeaveBeforeErase(s) == subscribers = {} /\ draining

LastToLeave(s) == subscribers \ {s} = {} /\ draining

\* Erase and read draining_ under one lock.
Unsubscribe(t, s) ==
    /\ s < next_sub_id
    /\ Goto(t, "idle", IF LastToLeave(s) THEN "destroy" ELSE "idle")
    /\ subscribers' = subscribers \ {s}
    /\ UNCHANGED <<next_seq, next_sub_id, draining, destroyed, localVars, warehouse,
                   natsVars, expired>>

-----------------------------------------------------------------------------
(* drain and destroy *)

DrainStarts(t) ==
    /\ Goto(t, "idle", "drain")
    /\ draining' = TRUE
    /\ UNCHANGED <<next_seq, subscribers, next_sub_id, destroyed, localVars, warehouse,
                   natsVars, expired>>

DrainLooks(t) ==
    /\ Goto(t, "drain", IF subscribers = {} THEN "destroy" ELSE "idle")
    /\ UNCHANGED <<chanVars, localVars, warehouse, natsVars, expired>>

DestroyCalled(t) ==
    /\ Goto(t, "idle", "destroy")
    /\ UNCHANGED <<chanVars, localVars, warehouse, natsVars, expired>>

\* The exchange lets only the first caller go on.
DestroyMarks(t) ==
    /\ Goto(t, "destroy", IF destroyed THEN "idle" ELSE "clear")
    /\ destroyed' = TRUE
    /\ UNCHANGED <<next_seq, subscribers, next_sub_id, draining, localVars, warehouse,
                   natsVars, expired>>

DestroyClears(t) ==
    /\ Goto(t, "clear", "clean")
    /\ subscribers' = {}
    /\ UNCHANGED <<next_seq, next_sub_id, draining, destroyed, localVars, warehouse,
                   natsVars, expired>>

\* cleanup_warehouse: the keys the scan finds.
DestroyCleans(t) ==
    /\ Goto(t, "clean", "idle")
    /\ warehouse' = {}
    /\ UNCHANGED <<chanVars, localVars, natsVars, expired>>

-----------------------------------------------------------------------------
(* The callback of a NATS subscription *)

\* A notification that arrives after destroy is dropped.
HandlerBegins(n) ==
    /\ n \in opened
    /\ handler[n] = Idle
    /\ inbox[n] # <<>>
    /\ inbox' = [inbox EXCEPT ![n] = Tail(@)]
    /\ handler' = IF destroyed THEN handler
                  ELSE [handler EXCEPT ![n] = [Idle EXCEPT !.phase = "fetch",
                                                           !.seq = Head(inbox[n])]]
    /\ UNCHANGED <<chanVars, pc, localVars, warehouse, opened, delivered, expired>>

\* get_binary: empty when there is no key.
HandlerFetches(n) ==
    /\ handler[n].phase = "fetch"
    /\ handler' = [handler EXCEPT ![n].phase = "copy",
                                     ![n].data = IF handler[n].seq \in warehouse
                                                 THEN "staged" ELSE "empty"]
    /\ UNCHANGED <<chanVars, pc, localVars, warehouse, opened, inbox, delivered, expired>>

\* The callbacks are copied under the lock and called without it.
HandlerCopies(n) ==
    /\ handler[n].phase = "copy"
    /\ handler' = [handler EXCEPT ![n] = IF subscribers = {} THEN Idle
                                         ELSE [@ EXCEPT !.phase = "call", !.calls = subscribers]]
    /\ UNCHANGED <<chanVars, pc, localVars, warehouse, opened, inbox, delivered, expired>>

\* The callback of s returns and the rest is called, or throws and on_message
\* catches the exception.
HandlerCalls(n, s) ==
    /\ handler[n].phase = "call"
    /\ s \in handler[n].calls
    /\ delivered' = [delivered EXCEPT ![s] = Append(@, [seq |-> handler[n].seq,
                                                        data |-> handler[n].data])]
    /\ \E rest \in {{}, handler[n].calls \ {s}} :
          handler' = [handler EXCEPT ![n] = IF rest = {} THEN Idle
                                            ELSE [@ EXCEPT !.calls = rest]]
    /\ UNCHANGED <<chanVars, pc, localVars, warehouse, opened, inbox, expired>>

-----------------------------------------------------------------------------
ChannelInit ==
    /\ next_seq = 1
    /\ subscribers = {}
    /\ next_sub_id = 1
    /\ draining = FALSE
    /\ destroyed = FALSE
    /\ pc = [t \in Threads |-> "idle"]
    /\ seq = [t \in Threads |-> 0]
    /\ sub_id = [t \in Threads |-> 0]
    /\ warehouse = {}
    /\ opened = {}
    /\ inbox = [n \in Subs |-> <<>>]
    /\ handler = [n \in Subs |-> Idle]
    /\ delivered = [s \in Subs |-> <<>>]
    /\ author = [k \in Seqs |-> {}]
    /\ expired = {}

PublishStep(t) ==
    PublishAdmitted(t) \/ PublishClaims(t) \/ PublishStages(t) \/ PublishNotifies(t)
      \/ PublishThrows(t)

SubscribeStep(t) ==
    \/ SubscribeChecks(t) \/ SubscribeInserts(t) \/ SubscribeCounts(t) \/ SubscribeOpens(t)
    \/ \E s \in Subs : Unsubscribe(t, s)

DestroyStep(t) ==
    DrainStarts(t) \/ DrainLooks(t) \/ DestroyCalled(t) \/ DestroyMarks(t)
      \/ DestroyClears(t) \/ DestroyCleans(t)

HandlerStep(n) ==
    \/ HandlerBegins(n) \/ HandlerFetches(n) \/ HandlerCopies(n)
    \/ \E s \in Subs : HandlerCalls(n, s)

ChannelNext ==
    \/ \E t \in Threads : PublishStep(t) \/ SubscribeStep(t) \/ DestroyStep(t)
    \/ \E n \in Subs : HandlerStep(n)
    \/ \E k \in Seqs : Expire(k)

ChannelSpec == ChannelInit /\ [][ChannelNext]_chvars

-----------------------------------------------------------------------------
(* Properties *)

Quiet == \A t \in Threads : pc[t] = "idle"

\* The backpressure test and the claim of a number are two steps, so the limit can be
\* passed, but by fewer messages than there are threads.
BackpressureBounded ==
    MaxPending > 0 => next_seq - 1 <= MaxPending - 1 + Cardinality(Threads)

\* However drain and the last unsubscribe interleave, one of them destroys the
\* channel: it never stays drained, empty and alive.
DrainCompletes == Quiet /\ draining /\ subscribers = {} => destroyed

\* A subscriber is called without data only if the key's time was over or the
\* channel was being destroyed: a notification never overtakes its data.
DataArrives ==
    \A s \in Subs : \A i \in DOMAIN delivered[s] :
        delivered[s][i].data = "empty" => destroyed \/ delivered[s][i].seq \in expired

\* While one NATS subscription is open, a subscriber gets each message at most once
\* and the messages of one publishing thread in the order of their numbers.
OrderedPerPublisher ==
    Cardinality(opened) <= 1 =>
        \A s \in Subs : \A i, j \in DOMAIN delivered[s] :
            i < j /\ author[delivered[s][i].seq] = author[delivered[s][j].seq]
            => delivered[s][i].seq < delivered[s][j].seq

\* Once subscribe() has returned, a NATS subscription serves the subscriber: its
\* callback fires for each new message.
SubscribersServed == Quiet /\ ~destroyed /\ subscribers # {} => opened # {}
=============================================================================
