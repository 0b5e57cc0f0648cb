--------------------------- MODULE MailboxProofs ---------------------------
(***************************************************************************)
(* Invariants of Mailbox proved for every set of producers, every item     *)
(* size, every pair of limits and every bound on the number of calls.      *)
(***************************************************************************)
EXTENDS Mailbox, FiniteSetTheorems, TLAPS

(***************************************************************************)
(* What the types need to be inductive: a thread inside send holds an      *)
(* item, and a dropped receiver left an empty, closed mailbox behind and   *)
(* never sleeps again.                                                     *)
(***************************************************************************)
ThreadsOK ==
  /\ \A p \in Producers : pc[p] \in {"blocked", "woken"} => holding[p] \in Items
  /\ ~consumer_alive => /\ queue = <<>>
                        /\ queued_bytes = 0
                        /\ ~accepting
                        /\ rpc \in {"idle", "notify_space"}

TypeInv == TypeOK /\ ThreadsOK

-----------------------------------------------------------------------------
(***************************************************************************)
(* The counters after an enqueue, one by one.                              *)
(***************************************************************************)
LEMMA LargerBounds ==
  ASSUME NEW a \in Nat, NEW b \in Nat
  PROVE  /\ Larger(a, b) \in Nat
         /\ a <= Larger(a, b)
         /\ b <= Larger(a, b)
         /\ Larger(a, b) \in {a, b}
BY DEF Larger

LEMMA EnqueueCounters ==
  ASSUME TypeOK, NEW p \in Producers, NEW i \in Items, Enqueue(p, i)
  PROVE  /\ counters' \in [CounterNames -> Nat]
         /\ counters'["enqueued_items"] = counters["enqueued_items"] + 1
         /\ counters'["enqueued_bytes"] = counters["enqueued_bytes"] + retained_bytes[i]
         /\ counters'["high_water_items"] = Larger(counters["high_water_items"], Len(queue) + 1)
         /\ counters'["high_water_bytes"] =
              Larger(counters["high_water_bytes"], queued_bytes + retained_bytes[i])
         /\ \A c \in CounterNames \ {"enqueued_items", "enqueued_bytes",
                                     "high_water_items", "high_water_bytes"} :
              counters'[c] = counters[c]
<1>1. counters' = [counters EXCEPT
        !["high_water_items"] = Larger(counters["high_water_items"], Len(queue) + 1),
        !["high_water_bytes"] = Larger(counters["high_water_bytes"],
                                       queued_bytes + retained_bytes[i]),
        !["enqueued_items"] = counters["enqueued_items"] + 1,
        !["enqueued_bytes"] = counters["enqueued_bytes"] + retained_bytes[i]]
  BY Zenon DEF Enqueue, CounterNames, TypeOK
<1>2. /\ Larger(counters["high_water_items"], Len(queue) + 1) \in Nat
      /\ Larger(counters["high_water_bytes"], queued_bytes + retained_bytes[i]) \in Nat
      /\ counters["enqueued_items"] + 1 \in Nat
      /\ counters["enqueued_bytes"] + retained_bytes[i] \in Nat
  <2>1. /\ \A c \in CounterNames : counters[c] \in Nat
        /\ Len(queue) \in Nat
        /\ queued_bytes \in Nat
        /\ retained_bytes[i] \in Nat
    BY ItemsAssumption DEF TypeOK
  <2>2. /\ counters["high_water_items"] \in Nat
        /\ counters["high_water_bytes"] \in Nat
        /\ counters["enqueued_items"] \in Nat
        /\ counters["enqueued_bytes"] \in Nat
    BY <2>1, Zenon DEF CounterNames
  <2>3. Len(queue) + 1 \in Nat /\ queued_bytes + retained_bytes[i] \in Nat
    BY <2>1
  <2>4. Larger(counters["high_water_items"], Len(queue) + 1) \in Nat
    BY <2>2, <2>3, LargerBounds, Zenon
  <2>5. Larger(counters["high_water_bytes"], queued_bytes + retained_bytes[i]) \in Nat
    BY <2>2, <2>3, LargerBounds, Zenon
  <2>6. counters["enqueued_items"] + 1 \in Nat
    BY <2>2
  <2>7. counters["enqueued_bytes"] + retained_bytes[i] \in Nat
    BY <2>1, <2>2
  <2> QED BY <2>4, <2>5, <2>6, <2>7, Zenon
<1>3. ASSUME NEW f \in [CounterNames -> Nat],
             NEW w \in Nat, NEW x \in Nat, NEW y \in Nat, NEW z \in Nat
      PROVE  [f EXCEPT !["high_water_items"] = w, !["high_water_bytes"] = x,
                       !["enqueued_items"] = y, !["enqueued_bytes"] = z]
               \in [CounterNames -> Nat]
  BY Zenon
<1>4. counters' \in [CounterNames -> Nat]
  BY <1>1, <1>2, <1>3, Zenon DEF TypeOK
<1> QED BY <1>1, <1>4, Zenon DEF CounterNames, TypeOK

(***************************************************************************)
(* What enqueue and an error return leave behind is well typed.            *)
(***************************************************************************)
LEMMA EnqueueType ==
  ASSUME TypeOK, NEW p \in Producers, NEW i \in Items, Enqueue(p, i)
  PROVE  /\ queue' \in Seq(Entry)
         /\ queued_bytes' \in Nat
         /\ counters' \in [CounterNames -> Nat]
         /\ log' \in Seq(LogEntry)
         /\ pc' = [pc EXCEPT ![p] = "notify"]
<1>1. retained_bytes[i] \in Nat /\ counters["enqueued_bytes"] \in Nat
  BY ItemsAssumption, Zenon DEF TypeOK, CounterNames
<1>2. queue' \in Seq(Entry) /\ queued_bytes' \in Nat
  BY <1>1 DEF Enqueue, Pushed, Entry, TypeOK
<1>3. log' \in Seq(LogEntry)
  BY <1>1 DEF Enqueue, LogEntry, TypeOK
<1> QED BY <1>2, <1>3, EnqueueCounters, Zenon DEF Enqueue

(***************************************************************************)
(* An error return changes one counter and nothing else of the mailbox.    *)
(***************************************************************************)
LEMMA RejectType ==
  ASSUME TypeOK, NEW p \in Producers, NEW c \in CounterNames, Reject(p, c)
  PROVE  /\ queue' \in Seq(Entry)
         /\ queued_bytes' \in Nat
         /\ counters' \in [CounterNames -> Nat]
         /\ log' \in Seq(LogEntry)
         /\ pc' = [pc EXCEPT ![p] = "idle"]
BY DEF Reject, TypeOK

(***************************************************************************)
(* Each producer step keeps the types and the thread bookkeeping.          *)
(***************************************************************************)
LEMMA TypeProducer ==
  ASSUME TypeInv, NEW p \in Producers, ProducerNext(p)
  PROVE  TypeInv'
<1> DEFINE Core == /\ queue' \in Seq(Entry)
                   /\ queued_bytes' \in Nat
                   /\ counters' \in [CounterNames -> Nat]
                   /\ log' \in Seq(LogEntry)
           Refuse == \E c \in CounterNames : Reject(p, c)
<1> USE DEF TypeInv
<1>0. /\ "closed_rejections" \in CounterNames
      /\ "oversize_rejections" \in CounterNames
      /\ "full_rejections" \in CounterNames
      /\ "blocked_sends" \in CounterNames
  BY Zenon DEF CounterNames
<1>1. ASSUME NEW q \in Producers, Clone(p, q) PROVE TypeInv'
  BY <1>1 DEF Clone, TypeOK, ThreadsOK, history
<1>r. ASSUME Refuse
      PROVE  /\ Core
             /\ pc' = [pc EXCEPT ![p] = "idle"]
             /\ UNCHANGED <<queue, queued_bytes>>
  BY <1>r, RejectType, Zenon DEF Reject
<1>e. ASSUME NEW i \in Items, Enqueue(p, i)
      PROVE  Core /\ pc' = [pc EXCEPT ![p] = "notify"]
  BY <1>e, EnqueueType, Zenon
<1>2. ASSUME NEW i \in Items, TrySend(p, i) PROVE TypeInv'
  <2>1. Refuse \/ (Enqueue(p, i) /\ ~Closed)
    BY <1>0, <1>2, Zenon DEF TrySend
  <2>2. /\ calls' \in Nat
        /\ UNCHANGED <<accepting, sender_count, consumer_alive, waiting_producers,
                       consumer_waiting, handles, holding, rpc, received>>
    BY <1>2 DEF TrySend, Call, TypeOK
  <2>3. Core /\ pc' \in [Producers -> ProducerPlaces]
    BY <1>r, <1>e, <2>1, Zenon DEF TypeOK, ProducerPlaces
  <2>4. TypeOK'
    BY <2>2, <2>3, Zenon DEF TypeOK
  <2>5. ThreadsOK'
    BY <1>r, <1>e, <2>1, <2>2, Zenon DEF TypeOK, ThreadsOK, Closed
  <2> QED BY <2>4, <2>5, Zenon
<1>b. ASSUME NEW i \in Items, Send(p, i)
      PROVE  \/ Refuse /\ UNCHANGED <<waiting_producers, holding>>
             \/ Enqueue(p, i) /\ ~Closed /\ UNCHANGED <<waiting_producers, holding>>
             \/ /\ waiting_producers' = waiting_producers + 1
                /\ counters' = [counters EXCEPT !["blocked_sends"] = @ + 1]
                /\ holding' = [holding EXCEPT ![p] = i]
                /\ pc' = [pc EXCEPT ![p] = "blocked"]
                /\ UNCHANGED <<queue, queued_bytes, log>>
  BY <1>0, <1>b, Zenon DEF Send
<1>3. ASSUME NEW i \in Items, Send(p, i) PROVE TypeInv'
  <2>1. /\ calls' \in Nat
        /\ UNCHANGED <<accepting, sender_count, consumer_alive, consumer_waiting,
                       handles, rpc, received>>
    BY <1>3 DEF Send, Call, TypeOK
  <2>2. /\ Core
        /\ waiting_producers' \in Nat
        /\ holding' \in [Producers -> Items \cup {NoItem}]
        /\ pc' \in [Producers -> ProducerPlaces]
    <3>1. CASE Refuse /\ UNCHANGED <<waiting_producers, holding>>
      BY <3>1, <1>r, Zenon DEF TypeOK, ProducerPlaces
    <3>2. CASE Enqueue(p, i) /\ UNCHANGED <<waiting_producers, holding>>
      BY <3>2, <1>e, Zenon DEF TypeOK, ProducerPlaces
    <3>3. CASE /\ waiting_producers' = waiting_producers + 1
               /\ counters' = [counters EXCEPT !["blocked_sends"] = @ + 1]
               /\ holding' = [holding EXCEPT ![p] = i]
               /\ pc' = [pc EXCEPT ![p] = "blocked"]
               /\ UNCHANGED <<queue, queued_bytes, log>>
      <4>1. counters' \in [CounterNames -> Nat]
        BY <1>0, <3>3 DEF TypeOK
      <4> QED BY <3>3, <4>1 DEF TypeOK, ProducerPlaces
    <3> QED BY <1>3, <1>b, <3>1, <3>2, <3>3, Zenon
  <2>3. TypeOK'
    BY <2>1, <2>2, Zenon DEF TypeOK
  <2>4. ThreadsOK'
    BY <1>3, <1>b, <1>r, <1>e, <2>1, ZenonT(30) DEF TypeOK, ThreadsOK, Closed
  <2> QED BY <2>3, <2>4, Zenon
<1>4. ASSUME SendRetry(p) PROVE TypeInv'
  <2>0. holding[p] \in Items
    BY <1>4, Zenon DEF SendRetry, ThreadsOK
  <2>1. UNCHANGED <<accepting, sender_count, consumer_alive, consumer_waiting,
                    handles, rpc, received, calls>>
    BY <1>4, Zenon DEF SendRetry
  <2>2. \/ /\ FinishBlockedSend
           /\ holding' = [holding EXCEPT ![p] = NoItem]
           /\ Refuse \/ (Enqueue(p, holding[p]) /\ ~Closed)
        \/ /\ pc' = [pc EXCEPT ![p] = "blocked"]
           /\ UNCHANGED <<waiting_producers, holding, queue, queued_bytes, counters, log>>
    BY <1>0, <1>4, Zenon DEF SendRetry
  <2>3. waiting_producers' \in Nat
    BY <2>2 DEF FinishBlockedSend, SaturatingSub, TypeOK
  <2>4. /\ Core
        /\ holding' \in [Producers -> Items \cup {NoItem}]
        /\ pc' \in [Producers -> ProducerPlaces]
    <3>1. CASE Refuse
      BY <2>2, <3>1, <1>r, Zenon DEF TypeOK, ProducerPlaces
    <3>2. CASE Enqueue(p, holding[p])
      BY <2>0, <2>2, <3>2, <1>e, Zenon DEF TypeOK, ProducerPlaces
    <3>3. CASE /\ pc' = [pc EXCEPT ![p] = "blocked"]
               /\ UNCHANGED <<waiting_producers, holding, queue, queued_bytes, counters, log>>
      BY <3>3, Zenon DEF TypeOK, ProducerPlaces
    <3> QED BY <2>2, <3>1, <3>2, <3>3, Zenon
  <2>5. TypeOK'
    BY <2>1, <2>3, <2>4, Zenon DEF TypeOK
  <2>6. ThreadsOK'
    BY <2>0, <2>1, <2>2, <1>r, <1>e, Zenon DEF TypeOK, ThreadsOK, Closed
  <2> QED BY <2>5, <2>6, Zenon
<1>5. ASSUME CloseBySender(p) PROVE TypeInv'
  BY <1>5, Zenon DEF CloseBySender, OwedByClose, TypeOK, ThreadsOK, history, ProducerPlaces
<1>6. ASSUME DropSender(p) PROVE TypeInv'
  <2>1. sender_count' \in Nat
    BY <1>6 DEF DropSender, SaturatingSub, TypeOK
  <2>2. \/ accepting' = FALSE /\ pc' = [pc EXCEPT ![p] = "notify_all"]
        \/ UNCHANGED <<accepting, pc>>
    BY <1>6, Zenon DEF DropSender, OwedByClose
  <2>3. /\ handles' \in SUBSET Producers
        /\ UNCHANGED <<queue, queued_bytes, consumer_alive, waiting_producers,
                       consumer_waiting, counters, holding, rpc, log, received, calls>>
    BY <1>6, Zenon DEF DropSender, TypeOK, history
  <2>4. TypeOK'
    BY <2>1, <2>2, <2>3, Zenon DEF TypeOK, ProducerPlaces
  <2>5. ThreadsOK'
    BY <2>2, <2>3 DEF TypeOK, ThreadsOK
  <2> QED BY <2>4, <2>5, Zenon
<1>7. ASSUME NotifyNotEmpty(p) PROVE TypeInv'
  BY <1>7, Zenon DEF NotifyNotEmpty, Notified, TypeOK, ThreadsOK, mailbox, history,
              ProducerPlaces, ConsumerPlaces
<1>8. ASSUME NotifySpaceBySender(p) PROVE TypeInv'
  BY <1>8, Zenon DEF NotifySpaceBySender, WakeBlocked, TypeOK, ThreadsOK, mailbox, history,
              ProducerPlaces
<1>9. ASSUME SpuriousProducer(p) PROVE TypeInv'
  BY <1>9, Zenon DEF SpuriousProducer, TypeOK, ThreadsOK, mailbox, history, ProducerPlaces
<1> QED
  BY <1>1, <1>2, <1>3, <1>4, <1>5, <1>6, <1>7, <1>8, <1>9, Zenon DEF ProducerNext

(***************************************************************************)
(* So does each consumer step.                                             *)
(***************************************************************************)
LEMMA TakeType ==
  ASSUME TypeOK, Take
  PROVE  /\ queue' \in Seq(Entry)
         /\ queued_bytes' \in Nat
         /\ counters' \in [CounterNames -> Nat]
         /\ counters'["dequeued_items"] = counters["dequeued_items"] + 1
         /\ counters'["dequeued_bytes"] = counters["dequeued_bytes"] + queue[1].reserved_bytes
         /\ \A c \in CounterNames \ {"dequeued_items", "dequeued_bytes"} :
              counters'[c] = counters[c]
         /\ received' = Append(received, queue[1].value)
         /\ received' \in Seq(Items)
         /\ consumer_waiting' = FALSE
         /\ rpc' = "notify_space"
<1>1. queue[1] \in Entry /\ Head(queue) = queue[1]
  BY DEF Take, TypeOK
<1>2. counters["dequeued_items"] \in Nat /\ counters["dequeued_bytes"] \in Nat
  BY Zenon DEF TypeOK, CounterNames
<1>3. queue[1].reserved_bytes \in Nat /\ queue[1].value \in Items
  BY <1>1, Zenon DEF Entry
<1>4. counters' = [counters EXCEPT
        !["dequeued_items"] = counters["dequeued_items"] + 1,
        !["dequeued_bytes"] = counters["dequeued_bytes"] + queue[1].reserved_bytes]
  BY <1>1, Zenon DEF Take, TypeOK, CounterNames
<1>5. counters' \in [CounterNames -> Nat]
  <2>1. ASSUME NEW f \in [CounterNames -> Nat], NEW x \in Nat, NEW y \in Nat
        PROVE  [f EXCEPT !["dequeued_items"] = x, !["dequeued_bytes"] = y]
                 \in [CounterNames -> Nat]
    BY Zenon
  <2>2. /\ counters["dequeued_items"] + 1 \in Nat
        /\ counters["dequeued_bytes"] + queue[1].reserved_bytes \in Nat
    BY <1>2, <1>3
  <2> QED BY <1>4, <2>1, <2>2, Zenon DEF TypeOK
<1>6. queue' \in Seq(Entry) /\ queued_bytes' \in Nat
  BY <1>1, <1>3 DEF Take, Released, SaturatingSub, TypeOK
<1>7. received' = Append(received, queue[1].value) /\ received' \in Seq(Items)
  BY <1>1, <1>3 DEF Take, TypeOK
<1>8. consumer_waiting' = FALSE /\ rpc' = "notify_space"
  BY Zenon DEF Take, OwedByTake
<1> QED BY <1>4, <1>5, <1>6, <1>7, <1>8, Zenon DEF CounterNames, TypeOK

LEMMA TypeConsumer ==
  ASSUME TypeInv, ConsumerNext
  PROVE  TypeInv'
<1> USE DEF TypeInv
<1>1. ASSUME Take, ReceiverStep PROVE TypeInv'
  BY <1>1, TakeType, Zenon DEF ReceiverStep, TypeOK, ThreadsOK, ConsumerPlaces
<1>2. ASSUME ReturnNothing, ReceiverStep PROVE TypeInv'
  BY <1>2, Zenon DEF ReturnNothing, ReceiverStep, TypeOK, ThreadsOK, ConsumerPlaces
<1>3. ASSUME Park("blocked") \/ Park("timed"), ReceiverStep PROVE TypeInv'
  BY <1>3, Zenon DEF Park, ReceiverStep, TypeOK, ThreadsOK, ConsumerPlaces
<1>4. ASSUME TryRecv \/ Recv \/ RecvTimeout \/ DeadlinePasses PROVE TypeInv'
  BY <1>1, <1>2, <1>3, <1>4, Zenon DEF TryRecv, Recv, RecvTimeout, DeadlinePasses
<1>5. ASSUME CloseByReceiver PROVE TypeInv'
  BY <1>5, Zenon DEF CloseByReceiver, TypeOK, ThreadsOK, history, ConsumerPlaces
<1>6. ASSUME DropReceiver PROVE TypeInv'
  <2>1. counters["discarded_items"] \in Nat /\ counters["discarded_bytes"] \in Nat
    BY Zenon DEF TypeOK, CounterNames
  <2>2. counters' = [counters EXCEPT
          !["discarded_items"] = counters["discarded_items"] + Len(queue),
          !["discarded_bytes"] = counters["discarded_bytes"] + queued_bytes]
    BY <1>6, Zenon DEF DropReceiver, TypeOK, CounterNames
  <2>3. counters' \in [CounterNames -> Nat]
    <3>1. ASSUME NEW f \in [CounterNames -> Nat], NEW x \in Nat, NEW y \in Nat
          PROVE  [f EXCEPT !["discarded_items"] = x, !["discarded_bytes"] = y]
                   \in [CounterNames -> Nat]
      BY Zenon
    <3>2. /\ counters["discarded_items"] + Len(queue) \in Nat
          /\ counters["discarded_bytes"] + queued_bytes \in Nat
      BY <2>1 DEF TypeOK
    <3> QED BY <2>2, <3>1, <3>2, Zenon DEF TypeOK
  <2>4. <<>> \in Seq(Entry)
    OBVIOUS
  <2>5. TypeOK'
    BY <1>6, <2>3, <2>4, Zenon DEF DropReceiver, TypeOK, history, ConsumerPlaces
  <2>6. ThreadsOK'
    BY <1>6, Zenon DEF DropReceiver, TypeOK, ThreadsOK
  <2> QED BY <2>5, <2>6, Zenon
<1>7. ASSUME NotifySpaceByReceiver PROVE TypeInv'
  BY <1>7, Zenon DEF NotifySpaceByReceiver, WakeBlocked, TypeOK, ThreadsOK, mailbox, history,
              ProducerPlaces, ConsumerPlaces
<1>8. ASSUME SpuriousConsumer PROVE TypeInv'
  BY <1>8, Zenon
     DEF SpuriousConsumer, Notified, TypeOK, ThreadsOK, mailbox, history, ConsumerPlaces
<1> QED BY <1>4, <1>5, <1>6, <1>7, <1>8, Zenon DEF ConsumerNext

LEMMA TypeInvariant == Spec => []TypeInv
<1>1. Init => TypeInv
  <2> SUFFICES ASSUME Init PROVE TypeInv
    BY Zenon
  <2>1. <<>> \in Seq(Entry) /\ <<>> \in Seq(LogEntry) /\ <<>> \in Seq(Items)
    OBVIOUS
  <2>2. counters \in [CounterNames -> Nat] /\ handles \in SUBSET Producers
    BY Zenon DEF Init
  <2>3. TypeOK
    BY <2>1, <2>2, Zenon DEF Init, TypeOK, ProducerPlaces, ConsumerPlaces
  <2>4. ThreadsOK
    BY Zenon DEF Init, ThreadsOK
  <2> QED BY <2>3, <2>4, Zenon DEF TypeInv
<1>2. TypeInv /\ [Next]_vars => TypeInv'
  <2> SUFFICES ASSUME TypeInv, [Next]_vars PROVE TypeInv'
    BY Zenon
  <2>1. CASE UNCHANGED vars
    BY <2>1, Zenon DEF vars, mailbox, threads, history, TypeInv, TypeOK, ThreadsOK
  <2> QED BY <2>1, TypeProducer, TypeConsumer, Zenon DEF Next
<1> QED BY <1>1, <1>2, PTL DEF Spec

-----------------------------------------------------------------------------
(***************************************************************************)
(* What a step does to the items and bytes: it admits one item, hands one  *)
(* to the consumer, discards the queue, or leaves all of it alone.         *)
(***************************************************************************)
FlowCounters == {"enqueued_items", "enqueued_bytes", "dequeued_items",
                 "dequeued_bytes", "discarded_items", "discarded_bytes",
                 "high_water_items", "high_water_bytes"}

SameCounters(names) == \A c \in names : counters'[c] = counters[c]

FlowAdmit(i) ==
  /\ ~Closed
  /\ Admissible(retained_bytes[i])
  /\ queue' = Append(queue, [value |-> i, reserved_bytes |-> retained_bytes[i]])
  /\ queued_bytes' = queued_bytes + retained_bytes[i]
  /\ log' = Append(log, [value |-> i, reserved_bytes |-> retained_bytes[i],
                         start |-> counters["enqueued_bytes"]])
  /\ counters'["enqueued_items"] = counters["enqueued_items"] + 1
  /\ counters'["enqueued_bytes"] = counters["enqueued_bytes"] + retained_bytes[i]
  /\ counters'["high_water_items"] = Larger(counters["high_water_items"], Len(queue) + 1)
  /\ counters'["high_water_bytes"] =
       Larger(counters["high_water_bytes"], queued_bytes + retained_bytes[i])
  /\ SameCounters({"dequeued_items", "dequeued_bytes", "discarded_items",
                   "discarded_bytes"})
  /\ UNCHANGED <<received, consumer_alive, accepting>>

FlowTake ==
  /\ consumer_alive
  /\ queue # <<>>
  /\ queue' = Tail(queue)
  /\ queued_bytes' = SaturatingSub(queued_bytes, queue[1].reserved_bytes)
  /\ received' = Append(received, queue[1].value)
  /\ counters'["dequeued_items"] = counters["dequeued_items"] + 1
  /\ counters'["dequeued_bytes"] = counters["dequeued_bytes"] + queue[1].reserved_bytes
  /\ SameCounters(FlowCounters \ {"dequeued_items", "dequeued_bytes"})
  /\ UNCHANGED <<log, consumer_alive, accepting>>

FlowDiscard ==
  /\ consumer_alive
  /\ ~consumer_alive'
  /\ ~accepting'
  /\ queue' = <<>>
  /\ queued_bytes' = 0
  /\ counters'["discarded_items"] = counters["discarded_items"] + Len(queue)
  /\ counters'["discarded_bytes"] = counters["discarded_bytes"] + queued_bytes
  /\ SameCounters(FlowCounters \ {"discarded_items", "discarded_bytes"})
  /\ UNCHANGED <<log, received>>

FlowIdle ==
  /\ SameCounters(FlowCounters)
  /\ accepting' => accepting
  /\ UNCHANGED <<queue, queued_bytes, log, received, consumer_alive>>

(***************************************************************************)
(* Every step of the mailbox is one of the four.                           *)
(***************************************************************************)
LEMMA FlowCases ==
  ASSUME TypeInv, [Next]_vars
  PROVE  (\E i \in Items : FlowAdmit(i)) \/ FlowTake \/ FlowDiscard \/ FlowIdle
<1> USE DEF TypeInv
<1>0. FlowCounters \subseteq CounterNames
  BY Zenon DEF FlowCounters, CounterNames
<1>1. ASSUME NEW p \in Producers, NEW c \in CounterNames \ FlowCounters, Reject(p, c),
             UNCHANGED <<accepting, received, consumer_alive>>
      PROVE  FlowIdle
  BY <1>0, <1>1, Zenon DEF Reject, FlowIdle, SameCounters, TypeOK
<1>2. ASSUME NEW p \in Producers, NEW i \in Items, Enqueue(p, i),
             ~Closed, Admissible(retained_bytes[i]),
             UNCHANGED <<accepting, received, consumer_alive>>
      PROVE  FlowAdmit(i)
  BY <1>2, EnqueueCounters, Zenon DEF Enqueue, Pushed, FlowAdmit, SameCounters, CounterNames
<1>3. /\ "closed_rejections" \in CounterNames \ FlowCounters
      /\ "oversize_rejections" \in CounterNames \ FlowCounters
      /\ "full_rejections" \in CounterNames \ FlowCounters
      /\ "blocked_sends" \in CounterNames \ FlowCounters
  BY Zenon DEF CounterNames, FlowCounters
<1>4. ASSUME Take, ReceiverStep PROVE FlowTake
  <2>1. counters'["dequeued_items"] = counters["dequeued_items"] + 1
    BY <1>4, TakeType, Zenon
  <2>2. counters'["dequeued_bytes"] = counters["dequeued_bytes"] + queue[1].reserved_bytes
    BY <1>4, TakeType, Zenon
  <2>3. SameCounters(FlowCounters \ {"dequeued_items", "dequeued_bytes"})
    BY <1>0, <1>4, TakeType, Zenon DEF SameCounters
  <2>4. Head(queue) = queue[1]
    BY <1>4 DEF Take, TypeOK
  <2> QED BY <1>4, <2>1, <2>2, <2>3, <2>4, Zenon DEF Take, Released, ReceiverStep, FlowTake
<1>5. ASSUME NEW p \in Producers, ProducerNext(p)
      PROVE  FlowIdle \/ \E i \in Items : FlowAdmit(i)
  <2>1. ASSUME NEW i \in Items, TrySend(p, i)
        PROVE  FlowIdle \/ FlowAdmit(i)
    BY <1>1, <1>2, <1>3, <2>1, Zenon DEF TrySend
  <2>2. ASSUME NEW i \in Items, Send(p, i)
        PROVE  FlowIdle \/ FlowAdmit(i)
    <3>1. CASE counters' = [counters EXCEPT !["blocked_sends"] = @ + 1]
               /\ UNCHANGED <<queue, queued_bytes, log>>
      BY <1>0, <1>3, <2>2, <3>1, Zenon DEF Send, FlowIdle, SameCounters, TypeOK
    <3> QED BY <1>1, <1>2, <1>3, <2>2, <3>1, Zenon DEF Send
  <2>3. ASSUME SendRetry(p)
        PROVE  FlowIdle \/ \E i \in Items : FlowAdmit(i)
    <3>1. holding[p] \in Items
      BY <2>3, Zenon DEF SendRetry, ThreadsOK
    <3>2. CASE UNCHANGED <<queue, queued_bytes, counters, log>>
      BY <2>3, <3>2, Zenon DEF SendRetry, FlowIdle, SameCounters
    <3> QED BY <1>1, <1>2, <1>3, <2>3, <3>1, <3>2, Zenon DEF SendRetry
  <2>4. ASSUME \/ \E q \in Producers : Clone(p, q)
               \/ CloseBySender(p)
               \/ DropSender(p)
               \/ NotifyNotEmpty(p)
               \/ NotifySpaceBySender(p)
               \/ SpuriousProducer(p)
        PROVE  FlowIdle
    <3>1. UNCHANGED <<queue, queued_bytes, counters, log, received, consumer_alive>>
      BY <2>4, Zenon DEF Clone, CloseBySender, DropSender, NotifyNotEmpty, NotifySpaceBySender,
                  SpuriousProducer, mailbox, history
    <3>2. accepting' => accepting
      BY <2>4, Zenon DEF Clone, CloseBySender, DropSender, NotifyNotEmpty, NotifySpaceBySender,
                  SpuriousProducer, mailbox
    <3> QED BY <3>1, <3>2, Zenon DEF FlowIdle, SameCounters
  <2> QED BY <1>5, <2>1, <2>2, <2>3, <2>4, Zenon DEF ProducerNext
<1>6. ASSUME ConsumerNext
      PROVE  FlowTake \/ FlowDiscard \/ FlowIdle
  <2>1. ASSUME ReturnNothing \/ Park("blocked") \/ Park("timed"), ReceiverStep
        PROVE  FlowIdle
    BY <2>1, Zenon DEF ReturnNothing, Park, ReceiverStep, FlowIdle, SameCounters
  <2>2. ASSUME TryRecv \/ Recv \/ RecvTimeout \/ DeadlinePasses
        PROVE  FlowTake \/ FlowIdle
    BY <1>4, <2>1, <2>2, Zenon DEF TryRecv, Recv, RecvTimeout, DeadlinePasses
  <2>3. ASSUME DropReceiver PROVE FlowDiscard
    BY <2>3, Zenon DEF DropReceiver, FlowDiscard, FlowCounters, CounterNames, SameCounters,
                TypeOK, history
  <2>4. ASSUME CloseByReceiver \/ NotifySpaceByReceiver \/ SpuriousConsumer
        PROVE  FlowIdle
    BY <2>4 DEF CloseByReceiver, NotifySpaceByReceiver, SpuriousConsumer, mailbox, history,
                FlowIdle, SameCounters
  <2> QED BY <1>6, <2>2, <2>3, <2>4, Zenon DEF ConsumerNext
<1>7. CASE UNCHANGED vars
  BY <1>7, Zenon DEF vars, mailbox, history, FlowIdle, SameCounters
<1> QED BY <1>5, <1>6, <1>7, Zenon DEF Next

(***************************************************************************)
(* The inductive invariant behind the flow properties.  The log is a chain *)
(* of byte ranges: entry j starts where entry j - 1 ended.  While the      *)
(* receiver lives, the bytes handed out are exactly the start of the next  *)
(* entry to be handed out; so the bytes still queued cover that entry, and *)
(* the saturating subtraction of dequeue subtracts exactly.                *)
(***************************************************************************)
Offset(j) == IF j <= Len(log) THEN log[j].start ELSE counters["enqueued_bytes"]

Chain ==
  \A j \in 1..Len(log) :
    /\ Offset(j + 1) = log[j].start + log[j].reserved_bytes
    /\ log[j].start + log[j].reserved_bytes <= counters["enqueued_bytes"]

FlowInv ==
  /\ WithinBudget
  /\ Conservation
  /\ FifoDelivery
  /\ Chain
  /\ consumer_alive => /\ counters["dequeued_bytes"] = Offset(Len(received) + 1)
                       /\ counters["discarded_bytes"] = 0

LEMMA FlowTypes ==
  ASSUME TypeInv
  PROVE  /\ \A c \in FlowCounters : counters[c] \in Nat
         /\ queue \in Seq(Entry) /\ Len(queue) \in Nat
         /\ log \in Seq(LogEntry) /\ Len(log) \in Nat
         /\ received \in Seq(Items) /\ Len(received) \in Nat
         /\ queued_bytes \in Nat
BY SMTT(40) DEF TypeInv, TypeOK, FlowCounters, CounterNames

LEMMA AdmitKeepsFlow ==
  ASSUME TypeInv, FlowInv, NEW i \in Items, FlowAdmit(i)
  PROVE  FlowInv'
<1> DEFINE b == retained_bytes[i]
<1>1. b \in Nat
  BY ItemsAssumption, Zenon
<1>t. Len(queue) \in Nat /\ Len(log) \in Nat /\ Len(received) \in Nat /\ queued_bytes \in Nat
  BY FlowTypes, Zenon
<1>2. /\ counters["enqueued_items"] \in Nat /\ counters["enqueued_bytes"] \in Nat
      /\ counters["dequeued_items"] \in Nat /\ counters["dequeued_bytes"] \in Nat
      /\ counters["discarded_items"] \in Nat /\ counters["discarded_bytes"] \in Nat
      /\ counters["high_water_items"] \in Nat /\ counters["high_water_bytes"] \in Nat
  BY FlowTypes, Zenon DEF FlowCounters
<1>3. /\ counters'["dequeued_items"] = counters["dequeued_items"]
      /\ counters'["dequeued_bytes"] = counters["dequeued_bytes"]
      /\ counters'["discarded_items"] = counters["discarded_items"]
      /\ counters'["discarded_bytes"] = counters["discarded_bytes"]
      /\ counters'["enqueued_items"] = counters["enqueued_items"] + 1
      /\ counters'["enqueued_bytes"] = counters["enqueued_bytes"] + b
  BY Zenon DEF FlowAdmit, SameCounters
<1>4. /\ Len(queue') = Len(queue) + 1
      /\ Len(log') = Len(log) + 1
      /\ received' = received
      /\ queued_bytes' = queued_bytes + b
  BY FlowTypes DEF FlowAdmit
<1>5. /\ \A k \in 1..Len(queue) : queue'[k] = queue[k]
      /\ queue'[Len(queue) + 1] = [value |-> i, reserved_bytes |-> b]
  BY FlowTypes DEF FlowAdmit
<1>6. /\ \A k \in 1..Len(log) : log'[k] = log[k]
      /\ log'[Len(log) + 1] = [value |-> i, reserved_bytes |-> b,
                               start |-> counters["enqueued_bytes"]]
  BY FlowTypes DEF FlowAdmit
<1>7. consumer_alive /\ consumer_alive'
  BY Zenon DEF FlowAdmit, Closed
<1>8. WithinBudget'
  <2>1. Len(queue) + 1 <= MaxItems /\ queued_bytes + b <= MaxBytes
    BY FlowTypes, LimitsAssumption DEF FlowAdmit, Admissible
  <2>2. counters'["high_water_items"] = Larger(counters["high_water_items"], Len(queue) + 1)
    BY Zenon DEF FlowAdmit
  <2>3. counters'["high_water_bytes"] = Larger(counters["high_water_bytes"], queued_bytes + b)
    BY Zenon DEF FlowAdmit
  <2>4. counters["high_water_items"] <= MaxItems /\ counters["high_water_bytes"] <= MaxBytes
    BY Zenon DEF FlowInv, WithinBudget
  <2>5. /\ Len(queue) + 1 <= counters'["high_water_items"]
        /\ counters'["high_water_items"] <= MaxItems
    BY <1>2, <2>1, <2>2, <2>4, FlowTypes, LimitsAssumption DEF Larger
  <2>6. /\ queued_bytes + b <= counters'["high_water_bytes"]
        /\ counters'["high_water_bytes"] <= MaxBytes
    BY <1>1, <1>2, <2>1, <2>3, <2>4, FlowTypes, LimitsAssumption, SMTT(40) DEF Larger
  <2> QED BY <1>4, <2>1, <2>5, <2>6, Zenon DEF WithinBudget
<1>9. Conservation'
  <2> DEFINE ei == counters["enqueued_items"]
             di == counters["dequeued_items"]
             xi == counters["discarded_items"]
             eb == counters["enqueued_bytes"]
             db == counters["dequeued_bytes"]
             xb == counters["discarded_bytes"]
  <2>1. ei = di + xi + Len(queue) /\ eb = db + xb + queued_bytes
    BY Zenon DEF FlowInv, Conservation
  <2>2. /\ ei \in Nat /\ di \in Nat /\ xi \in Nat
        /\ eb \in Nat /\ db \in Nat /\ xb \in Nat
    BY <1>2, Zenon
  <2> HIDE DEF ei, di, xi, eb, db, xb
  <2>3. ei + 1 = di + xi + (Len(queue) + 1)
    BY <1>t, <2>1, <2>2
  <2>4. eb + b = db + xb + (queued_bytes + b)
    BY <1>1, <1>t, <2>1, <2>2
  <2> QED BY <1>3, <1>4, <2>3, <2>4, Zenon DEF Conservation, ei, di, xi, eb, db, xb
<1>10. FifoDelivery'
  <2>1. Len(received) + Len(queue) = Len(log)
    BY <1>7, Zenon DEF FlowInv, FifoDelivery
  <2>2. Len(received') + Len(queue') = Len(log')
    <3>1. Len(received) + (Len(queue) + 1) = Len(log) + 1
      BY <1>t, <2>1
    <3> QED BY <1>4, <3>1, Zenon
  <2>3. \A k \in 1..Len(received') : received'[k] = log'[k].value
    BY <1>4, <1>6, <2>1, FlowTypes DEF FlowInv, FifoDelivery
  <2>4. ASSUME NEW k \in 1..Len(queue')
        PROVE  /\ queue'[k].value = log'[Len(received') + k].value
               /\ queue'[k].reserved_bytes = log'[Len(received') + k].reserved_bytes
    <3>1. CASE k = Len(queue) + 1
      BY <1>4, <1>5, <1>6, <2>1, <3>1, FlowTypes
    <3>2. CASE k \in 1..Len(queue)
      <4>1. Len(received) + k \in 1..Len(log)
        BY <2>1, <3>2, FlowTypes
      <4> QED BY <1>4, <1>5, <1>6, <3>2, <4>1, ZenonT(30) DEF FlowInv, FifoDelivery
    <3> QED BY <1>4, <3>1, <3>2, FlowTypes
  <2>5. Len(received') + Len(queue') <= Len(log')
    BY <2>2, <1>4, <1>t
  <2> QED BY <2>2, <2>3, <2>4, <2>5, Zenon DEF FifoDelivery
<1>11. Chain'
  <2> SUFFICES ASSUME NEW j \in 1..Len(log')
               PROVE  /\ Offset(j + 1)' = log'[j].start + log'[j].reserved_bytes
                      /\ log'[j].start + log'[j].reserved_bytes <= counters'["enqueued_bytes"]
    BY Zenon DEF Chain
  <2>1. CASE j = Len(log) + 1
    <3>1. /\ log'[j].start = counters["enqueued_bytes"]
          /\ log'[j].reserved_bytes = b
      BY <1>6, <2>1
    <3>2. ~(j + 1 <= Len(log'))
      BY <1>4, <1>t, <2>1
    <3>3. Offset(j + 1)' = counters'["enqueued_bytes"]
      BY <3>2, Zenon DEF Offset
    <3> QED BY <1>1, <1>2, <1>3, <3>1, <3>3
  <2>2. CASE j \in 1..Len(log)
    <3>1. log[j] \in LogEntry
      BY <2>2, FlowTypes
    <3>2. log[j].start \in Nat /\ log[j].reserved_bytes \in Nat
      BY <3>1, Zenon DEF LogEntry
    <3>3. /\ Offset(j + 1) = log[j].start + log[j].reserved_bytes
          /\ log[j].start + log[j].reserved_bytes <= counters["enqueued_bytes"]
      BY <2>2, Zenon DEF FlowInv, Chain
    <3>4. Offset(j + 1)' = Offset(j + 1)
      <4>1. CASE j + 1 \in 1..Len(log)
        <5>1. log'[j + 1] = log[j + 1]
          BY <1>6, <4>1, Zenon
        <5>2. j + 1 <= Len(log) /\ j + 1 <= Len(log')
          BY <1>4, <1>t, <4>1
        <5> QED BY <5>1, <5>2, Zenon DEF Offset
      <4>2. CASE j = Len(log)
        <5>1. log'[j + 1].start = counters["enqueued_bytes"]
          BY <1>6, <4>2
        <5>2. ~(j + 1 <= Len(log)) /\ j + 1 <= Len(log')
          BY <1>4, <1>t, <4>2
        <5> QED BY <5>1, <5>2, Zenon DEF Offset
      <4> QED BY <1>t, <2>2, <4>1, <4>2
    <3>5. log[j].start + log[j].reserved_bytes <= counters["enqueued_bytes"] + b
      <4> DEFINE last == log[j].start + log[j].reserved_bytes
                 total == counters["enqueued_bytes"]
      <4>1. last \in Nat
        BY <3>2
      <4>2. total \in Nat
        BY <1>2, Zenon
      <4>3. last <= total
        BY <3>3, Zenon
      <4> HIDE DEF last, total, b
      <4>4. last <= total + b
        BY <1>1, <4>1, <4>2, <4>3
      <4> QED BY <4>4, Zenon DEF last, total, b
    <3> QED BY <1>3, <1>6, <2>2, <3>3, <3>4, <3>5, Zenon
  <2> QED BY <1>4, <2>1, <2>2, FlowTypes
<1>12. counters'["dequeued_bytes"] = Offset(Len(received) + 1)' /\ counters'["discarded_bytes"] = 0
  <2>1. counters["dequeued_bytes"] = Offset(Len(received) + 1) /\ counters["discarded_bytes"] = 0
    BY <1>7, Zenon DEF FlowInv
  <2>2. Len(received) <= Len(log)
    BY FlowTypes DEF FlowInv, FifoDelivery
  <2>3. Offset(Len(received) + 1)' = Offset(Len(received) + 1)
    BY <1>4, <1>6, <2>2, FlowTypes DEF Offset
  <2> QED BY <1>3, <2>1, <2>3, Zenon
<1> QED BY <1>8, <1>9, <1>10, <1>11, <1>12, Zenon DEF FlowInv

LEMMA TakeKeepsFlow ==
  ASSUME TypeInv, FlowInv, FlowTake
  PROVE  FlowInv'
<1> DEFINE n == Len(received) + 1
           b == queue[1].reserved_bytes
<1>t. Len(queue) \in Nat /\ Len(log) \in Nat /\ Len(received) \in Nat /\ queued_bytes \in Nat
  BY FlowTypes, Zenon
<1>1. Len(queue) > 0
  BY FlowTypes DEF FlowTake
<1>2. n \in 1..Len(log) /\ Len(received) + Len(queue) = Len(log)
  BY <1>1, FlowTypes DEF FlowInv, FifoDelivery, FlowTake
<1>3. queue[1].value = log[n].value /\ b = log[n].reserved_bytes
  BY <1>1 DEF FlowInv, FifoDelivery
<1>4. log[n].start \in Nat /\ b \in Nat
  <2>1. log[n] \in LogEntry
    BY <1>2, FlowTypes
  <2> QED BY <1>3, <2>1, Zenon DEF LogEntry
<1>5. /\ counters["enqueued_items"] \in Nat /\ counters["enqueued_bytes"] \in Nat
      /\ counters["dequeued_items"] \in Nat /\ counters["dequeued_bytes"] \in Nat
      /\ counters["discarded_items"] \in Nat /\ counters["discarded_bytes"] \in Nat
      /\ counters["high_water_items"] \in Nat /\ counters["high_water_bytes"] \in Nat
  BY FlowTypes, Zenon DEF FlowCounters
<1>6. /\ counters'["enqueued_items"] = counters["enqueued_items"]
      /\ counters'["enqueued_bytes"] = counters["enqueued_bytes"]
      /\ counters'["discarded_items"] = counters["discarded_items"]
      /\ counters'["discarded_bytes"] = counters["discarded_bytes"]
      /\ counters'["high_water_items"] = counters["high_water_items"]
      /\ counters'["high_water_bytes"] = counters["high_water_bytes"]
      /\ counters'["dequeued_items"] = counters["dequeued_items"] + 1
      /\ counters'["dequeued_bytes"] = counters["dequeued_bytes"] + b
  BY Zenon DEF FlowTake, SameCounters, FlowCounters
<1>7. counters["dequeued_bytes"] = log[n].start /\ counters["discarded_bytes"] = 0
  BY <1>2 DEF FlowInv, FlowTake, Offset
<1>8. queued_bytes' = queued_bytes - b /\ b <= queued_bytes
  <2>1. log[n].start + b <= counters["enqueued_bytes"]
    BY <1>2, <1>3, Zenon DEF FlowInv, Chain
  <2>2. counters["enqueued_bytes"] = counters["dequeued_bytes"] + counters["discarded_bytes"]
                                     + queued_bytes
    BY Zenon DEF FlowInv, Conservation
  <2>3. b <= queued_bytes
    <3>1. counters["dequeued_bytes"] + b <= counters["enqueued_bytes"]
      BY <1>7, <2>1, Zenon
    <3>2. counters["enqueued_bytes"] = counters["dequeued_bytes"] + queued_bytes
      <4>1. queued_bytes \in Nat
        BY FlowTypes, Zenon
      <4> QED BY <1>5, <1>7, <2>2, <4>1
    <3>3. b \in Nat /\ queued_bytes \in Nat
      BY <1>4, FlowTypes, Zenon
    <3> QED BY <1>5, <3>1, <3>2, <3>3
  <2> QED BY <1>4, <2>3, FlowTypes DEF FlowTake, SaturatingSub
<1>9. /\ Len(queue') = Len(queue) - 1
      /\ \A k \in 1..Len(queue') : queue'[k] = queue[k + 1]
      /\ Len(received') = n
      /\ \A k \in 1..Len(received) : received'[k] = received[k]
      /\ received'[n] = queue[1].value
      /\ log' = log
      /\ consumer_alive
  BY FlowTypes DEF FlowTake
<1>10. WithinBudget'
  <2>1. /\ Len(queue) <= MaxItems
        /\ queued_bytes <= MaxBytes
        /\ Len(queue) <= counters["high_water_items"]
        /\ queued_bytes <= counters["high_water_bytes"]
        /\ counters["high_water_items"] <= MaxItems
        /\ counters["high_water_bytes"] <= MaxBytes
    BY Zenon DEF FlowInv, WithinBudget
  <2>2. /\ Len(queue) - 1 <= MaxItems
        /\ queued_bytes - b <= MaxBytes
        /\ Len(queue) - 1 <= counters["high_water_items"]
        /\ queued_bytes - b <= counters["high_water_bytes"]
    <3>1. ASSUME NEW q \in Nat, NEW m \in Nat, NEW d \in Nat, q <= m PROVE q - d <= m
      BY <3>1
    <3> QED BY <1>t, <1>4, <1>5, <2>1, <3>1, LimitsAssumption, Zenon
  <2> QED BY <1>6, <1>8, <1>9, <2>1, <2>2, Zenon DEF WithinBudget
<1>11. Conservation'
  <2> DEFINE ei == counters["enqueued_items"]
             di == counters["dequeued_items"]
             xi == counters["discarded_items"]
             eb == counters["enqueued_bytes"]
             db == counters["dequeued_bytes"]
             xb == counters["discarded_bytes"]
  <2>1. ei = di + xi + Len(queue) /\ eb = db + xb + queued_bytes
    BY Zenon DEF FlowInv, Conservation
  <2>2. /\ ei \in Nat /\ di \in Nat /\ xi \in Nat
        /\ eb \in Nat /\ db \in Nat /\ xb \in Nat
    BY <1>5, Zenon
  <2> HIDE DEF ei, di, xi, eb, db, xb, b
  <2>3. ei = (di + 1) + xi + (Len(queue) - 1)
    BY <1>t, <2>1, <2>2
  <2>4. eb = (db + b) + xb + (queued_bytes - b)
    <3>1. b \in Nat /\ queued_bytes \in Nat
      BY <1>4, <1>t, Zenon
    <3> QED BY <2>1, <2>2, <3>1
  <2> QED BY <1>6, <1>8, <1>9, <2>3, <2>4, Zenon DEF Conservation, ei, di, xi, eb, db, xb, b
<1>12. FifoDelivery'
  <2>1. Len(received') + Len(queue') = Len(log')
    <3>1. n + (Len(queue) - 1) = Len(log)
      BY <1>t, <1>2
    <3> QED BY <1>9, <3>1, Zenon
  <2>2. ASSUME NEW k \in 1..Len(received') PROVE received'[k] = log'[k].value
    <3>1. k = n \/ k \in 1..Len(received)
      BY <1>9, FlowTypes
    <3> QED BY <1>3, <1>9, <3>1, Zenon DEF FlowInv, FifoDelivery
  <2>3. ASSUME NEW k \in 1..Len(queue')
        PROVE  /\ queue'[k].value = log'[Len(received') + k].value
               /\ queue'[k].reserved_bytes = log'[Len(received') + k].reserved_bytes
    <3>1. k + 1 \in 1..Len(queue) /\ Len(received') + k = Len(received) + (k + 1)
      BY <1>1, <1>9, FlowTypes
    <3> QED BY <1>9, <3>1, Zenon DEF FlowInv, FifoDelivery
  <2>4. Len(received') + Len(queue') <= Len(log')
    BY <2>1, <1>9, <1>t
  <2> QED BY <2>1, <2>2, <2>3, <2>4, Zenon DEF FifoDelivery
<1>13. \A j : Offset(j)' = Offset(j)
  BY <1>6, <1>9, Zenon DEF Offset
<1>14. Chain'
  BY <1>6, <1>9, <1>13, Zenon DEF FlowInv, Chain
<1>15. counters'["dequeued_bytes"] = Offset(Len(received) + 1)' /\ counters'["discarded_bytes"] = 0
  <2>1. Offset(n + 1) = log[n].start + b
    BY <1>2, <1>3, Zenon DEF FlowInv, Chain
  <2>2. Offset(Len(received) + 1)' = Offset(n + 1)
    BY <1>6, <1>9, Zenon DEF Offset
  <2> QED BY <1>6, <1>7, <2>1, <2>2, Zenon
<1> QED BY <1>10, <1>11, <1>12, <1>14, <1>15, Zenon DEF FlowInv

LEMMA DiscardKeepsFlow ==
  ASSUME TypeInv, FlowInv, FlowDiscard
  PROVE  FlowInv'
<1>1. /\ counters'["enqueued_items"] = counters["enqueued_items"]
      /\ counters'["enqueued_bytes"] = counters["enqueued_bytes"]
      /\ counters'["dequeued_items"] = counters["dequeued_items"]
      /\ counters'["dequeued_bytes"] = counters["dequeued_bytes"]
      /\ counters'["high_water_items"] = counters["high_water_items"]
      /\ counters'["high_water_bytes"] = counters["high_water_bytes"]
      /\ counters'["discarded_items"] = counters["discarded_items"] + Len(queue)
      /\ counters'["discarded_bytes"] = counters["discarded_bytes"] + queued_bytes
  BY Zenon DEF FlowDiscard, SameCounters, FlowCounters
<1>2. /\ counters["enqueued_items"] \in Nat /\ counters["enqueued_bytes"] \in Nat
      /\ counters["dequeued_items"] \in Nat /\ counters["dequeued_bytes"] \in Nat
      /\ counters["discarded_items"] \in Nat /\ counters["discarded_bytes"] \in Nat
      /\ counters["high_water_items"] \in Nat /\ counters["high_water_bytes"] \in Nat
  BY FlowTypes, Zenon DEF FlowCounters
<1>3. Len(queue) \in Nat /\ Len(log) \in Nat /\ Len(received) \in Nat /\ queued_bytes \in Nat
  BY FlowTypes, Zenon
<1>4. /\ queue' = <<>> /\ Len(queue') = 0 /\ queued_bytes' = 0
      /\ log' = log /\ received' = received /\ ~consumer_alive'
  BY Zenon DEF FlowDiscard
<1>5. WithinBudget'
  BY <1>1, <1>2, <1>4, LimitsAssumption DEF FlowInv, WithinBudget
<1>6. Conservation'
  <2> DEFINE ei == counters["enqueued_items"]
             di == counters["dequeued_items"]
             xi == counters["discarded_items"]
             eb == counters["enqueued_bytes"]
             db == counters["dequeued_bytes"]
             xb == counters["discarded_bytes"]
  <2>1. ei = di + xi + Len(queue) /\ eb = db + xb + queued_bytes
    BY Zenon DEF FlowInv, Conservation
  <2>2. /\ ei \in Nat /\ di \in Nat /\ xi \in Nat
        /\ eb \in Nat /\ db \in Nat /\ xb \in Nat
    BY <1>2, Zenon
  <2> HIDE DEF ei, di, xi, eb, db, xb
  <2>3. ei = di + (xi + Len(queue)) + 0
    BY <1>3, <2>1, <2>2
  <2>4. eb = db + (xb + queued_bytes) + 0
    BY <1>3, <2>1, <2>2
  <2> QED BY <1>1, <1>4, <2>3, <2>4, Zenon DEF Conservation, ei, di, xi, eb, db, xb
<1>7. FifoDelivery'
  <2>1. Len(received) + 0 <= Len(log)
    BY <1>3 DEF FlowInv, FifoDelivery
  <2> QED BY <1>4, <2>1 DEF FlowInv, FifoDelivery
<1>8. Chain'
  BY <1>1, <1>4, Zenon DEF FlowInv, Chain, Offset
<1> QED BY <1>4, <1>5, <1>6, <1>7, <1>8, Zenon DEF FlowInv

LEMMA IdleKeepsFlow ==
  ASSUME TypeInv, FlowInv, FlowIdle
  PROVE  FlowInv'
<1>1. /\ counters'["enqueued_items"] = counters["enqueued_items"]
      /\ counters'["enqueued_bytes"] = counters["enqueued_bytes"]
      /\ counters'["dequeued_items"] = counters["dequeued_items"]
      /\ counters'["dequeued_bytes"] = counters["dequeued_bytes"]
      /\ counters'["discarded_items"] = counters["discarded_items"]
      /\ counters'["discarded_bytes"] = counters["discarded_bytes"]
      /\ counters'["high_water_items"] = counters["high_water_items"]
      /\ counters'["high_water_bytes"] = counters["high_water_bytes"]
  BY Zenon DEF FlowIdle, SameCounters, FlowCounters
<1>2. UNCHANGED <<queue, queued_bytes, log, received, consumer_alive>>
  BY Zenon DEF FlowIdle
<1> QED BY <1>1, <1>2, Zenon
           DEF FlowInv, WithinBudget, Conservation, FifoDelivery, Chain, Offset

(***************************************************************************)
(* The inductive invariant holds of every behaviour.                       *)
(***************************************************************************)
LEMMA FlowInvariant == Spec => []FlowInv
<1>1. Init => FlowInv
  <2> SUFFICES ASSUME Init PROVE FlowInv
    BY Zenon
  <2>1. \A c \in CounterNames : counters[c] = 0
    BY Zenon DEF Init
  <2>2. /\ counters["enqueued_items"] = 0 /\ counters["enqueued_bytes"] = 0
        /\ counters["dequeued_items"] = 0 /\ counters["dequeued_bytes"] = 0
        /\ counters["discarded_items"] = 0 /\ counters["discarded_bytes"] = 0
        /\ counters["high_water_items"] = 0 /\ counters["high_water_bytes"] = 0
    BY <2>1, Zenon DEF CounterNames
  <2>3. Len(queue) = 0 /\ Len(log) = 0 /\ Len(received) = 0 /\ queued_bytes = 0
    BY Zenon DEF Init
  <2>4. WithinBudget
    BY <2>2, <2>3, LimitsAssumption DEF WithinBudget
  <2>5. Conservation /\ FifoDelivery /\ Chain
    BY <2>2, <2>3 DEF Conservation, FifoDelivery, Chain
  <2>6. counters["dequeued_bytes"] = Offset(Len(received) + 1) /\ counters["discarded_bytes"] = 0
    BY <2>2, <2>3 DEF Offset
  <2> QED BY <2>4, <2>5, <2>6, Zenon DEF FlowInv
<1>2. TypeInv /\ FlowInv /\ [Next]_vars => FlowInv'
  BY FlowCases, AdmitKeepsFlow, TakeKeepsFlow, DiscardKeepsFlow, IdleKeepsFlow, Zenon
<1> QED BY <1>1, <1>2, TypeInvariant, PTL DEF Spec

(***************************************************************************)
(* The state of the mailbox always has its type: in particular the byte    *)
(* gauge and the counters stay natural numbers through every subtraction   *)
(* in dequeue, finish_blocked_send and the drops.                          *)
(***************************************************************************)
THEOREM TypeCorrect == Spec => []TypeOK
<1>1. TypeInv => TypeOK
  BY Zenon DEF TypeInv
<1> QED BY <1>1, TypeInvariant, PTL

(***************************************************************************)
(* Neither the item nor the byte budget of MailboxLimits is ever exceeded, *)
(* for any number of senders and any item sizes.                           *)
(***************************************************************************)
THEOREM BudgetSafety == Spec => []WithinBudget
<1>1. FlowInv => WithinBudget
  BY Zenon DEF FlowInv
<1> QED BY <1>1, FlowInvariant, PTL

(***************************************************************************)
(* The mailbox loses and duplicates no item and no byte it admitted: each  *)
(* is delivered, discarded and counted at the receiver's drop, or queued.  *)
(***************************************************************************)
THEOREM NothingLost == Spec => []Conservation
<1>1. FlowInv => Conservation
  BY Zenon DEF FlowInv
<1> QED BY <1>1, FlowInvariant, PTL

(***************************************************************************)
(* Delivery is in admission order, whichever senders race and whichever of *)
(* the three receive calls takes the item.                                 *)
(***************************************************************************)
THEOREM DeliveryInOrder == Spec => []FifoDelivery
<1>1. FlowInv => FifoDelivery
  BY Zenon DEF FlowInv
<1> QED BY <1>1, FlowInvariant, PTL

(***************************************************************************)
(* A closed mailbox stays closed and admits nothing, not even the item of  *)
(* a sender that was blocked in send when it closed.                       *)
(***************************************************************************)
THEOREM ClosingIsFinal == Spec => CloseIsFinal
<1>1. TypeInv /\ [Next]_vars => [~accepting => ~accepting' /\ log' = log]_vars
  <2> SUFFICES ASSUME TypeInv, [Next]_vars, ~accepting
               PROVE  ~accepting' /\ log' = log
    BY Zenon
  <2>1. ~(\E i \in Items : FlowAdmit(i))
    BY Zenon DEF FlowAdmit, Closed
  <2>2. FlowTake \/ FlowDiscard \/ FlowIdle
    BY <2>1, FlowCases, Zenon
  <2> QED BY <2>2 DEF FlowTake, FlowDiscard, FlowIdle
<1> QED BY <1>1, TypeInvariant, PTL DEF Spec, CloseIsFinal

-----------------------------------------------------------------------------
(***************************************************************************)
(* The wake-up invariant, one condition variable at a time.  Whoever makes *)
(* a sleeping sender's item admissible, or closes the mailbox, leaves the  *)
(* lock owing space_available.notify_all; whoever queues an item, or       *)
(* closes through a sender, leaves it owing not_empty.  The debt is only   *)
(* paid by the step that wakes every sleeper it is owed to.                *)
(***************************************************************************)
SpaceOwed == \/ rpc = "notify_space"
             \/ \E q \in Producers : pc[q] \in {"notify_all", "notify_space"}

ItemOwed == \E q \in Producers : pc[q] \in {"notify", "notify_all"}

SpaceWake == \A p \in Producers :
  pc[p] = "blocked" /\ (Closed \/ Admissible(retained_bytes[holding[p]])) => SpaceOwed

ItemWake == rpc \in {"blocked", "timed"} /\ (queue # <<>> \/ ~accepting) => ItemOwed

LEMMA WakeSplit == (SpaceWake /\ ItemWake) => NoLostWakeup
BY Zenon DEF SpaceWake, ItemWake, SpaceOwed, ItemOwed, NoLostWakeup

(***************************************************************************)
(* An admission leaves no more room than there was.                        *)
(***************************************************************************)
LEMMA EnqueueLeavesLess ==
  ASSUME TypeInv, NEW p \in Producers, NEW i \in Items, Enqueue(p, i), NEW b \in Nat,
         Len(queue') < MaxItems, queued_bytes' + b <= MaxBytes
  PROVE  Admissible(b)
<1>1. /\ queue \in Seq(Entry) /\ queued_bytes \in Nat /\ retained_bytes[i] \in Nat
  BY ItemsAssumption, Zenon DEF TypeInv, TypeOK
<1>2. /\ queue' = Append(queue, [value |-> i, reserved_bytes |-> retained_bytes[i]])
      /\ queued_bytes' = queued_bytes + retained_bytes[i]
  BY Zenon DEF Enqueue, Pushed
<1>3. Len(queue') = Len(queue) + 1
  BY <1>1, <1>2
<1> QED BY <1>1, <1>2, <1>3, LimitsAssumption DEF Admissible

LEMMA HeldSize ==
  ASSUME TypeInv, NEW q \in Producers, pc[q] = "blocked"
  PROVE  retained_bytes[holding[q]] \in Nat
BY ItemsAssumption, Zenon DEF TypeInv, ThreadsOK

(***************************************************************************)
(* A call that returns, admits or goes to sleep keeps both debts.          *)
(***************************************************************************)
LEMMA SendWake ==
  ASSUME TypeInv, SpaceWake, ItemWake, NEW p \in Producers,
         (\E i \in Items : TrySend(p, i) \/ Send(p, i)) \/ SendRetry(p)
  PROVE  SpaceWake' /\ ItemWake'
<1> USE DEF TypeInv
<1>1. /\ pc[p] \in {"idle", "woken"}
      /\ UNCHANGED <<accepting, consumer_alive, rpc>>
      /\ pc \in [Producers -> ProducerPlaces]
  BY ZenonT(30) DEF TrySend, Send, SendRetry, Call, TypeOK
<1>2. \/ \E i \in Items : Enqueue(p, i)
      \/ UNCHANGED <<queue, queued_bytes>> /\ pc' = [pc EXCEPT ![p] = "idle"]
      \/ /\ UNCHANGED <<queue, queued_bytes>>
         /\ pc' = [pc EXCEPT ![p] = "blocked"]
         /\ ~Closed
         /\ ~Admissible(retained_bytes[holding'[p]])
  <2>1. ASSUME NEW i \in Items, TrySend(p, i) PROVE <1>2!:
    BY <2>1, Zenon DEF TrySend, Reject
  <2>2. ASSUME NEW i \in Items, Send(p, i) PROVE <1>2!:
    BY <2>2, Zenon DEF Send, Reject, TypeOK
  <2>3. ASSUME SendRetry(p) PROVE <1>2!:
    <3>1. holding[p] \in Items
      BY <2>3, Zenon DEF SendRetry, ThreadsOK
    <3> QED BY <2>3, <3>1, Zenon DEF SendRetry, Reject
  <2> QED BY <2>1, <2>2, <2>3, ZenonT(30)
<1>3. \A q \in Producers \ {p} : holding'[q] = holding[q]
  BY Zenon DEF TrySend, Send, SendRetry, TypeOK
<1>4. \E v \in {"idle", "notify", "blocked"} : pc' = [pc EXCEPT ![p] = v]
  BY <1>2, Zenon DEF Enqueue
<1>5. \A q \in Producers \ {p} : pc'[q] = pc[q]
  BY <1>1, <1>4, Zenon
<1>6. SpaceOwed => SpaceOwed'
  BY <1>1, <1>5, Zenon DEF SpaceOwed
<1>7. ItemOwed => ItemOwed'
  BY <1>1, <1>5, Zenon DEF ItemOwed
<1>8. ASSUME NEW q \in Producers, pc'[q] = "blocked",
             (Closed \/ Admissible(retained_bytes[holding[q]]))'
      PROVE  SpaceOwed'
  <2>1. Closed' <=> Closed
    BY <1>1, Zenon DEF Closed
  <2>2. CASE q = p
    <3>1. /\ UNCHANGED <<queue, queued_bytes>>
          /\ ~Closed
          /\ ~Admissible(retained_bytes[holding'[p]])
      BY <1>1, <1>2, <1>8, <2>2, Zenon DEF Enqueue
    <3> QED BY <1>8, <2>1, <2>2, <3>1, Zenon DEF Admissible
  <2>3. CASE q # p
    <3>1. pc[q] = "blocked" /\ holding'[q] = holding[q]
      BY <1>3, <1>5, <1>8, <2>3, Zenon
    <3>2. retained_bytes[holding[q]] \in Nat
      BY <3>1, HeldSize, Zenon
    <3> DEFINE b == retained_bytes[holding[q]]
    <3>3. Closed \/ (Len(queue') < MaxItems /\ queued_bytes' + b <= MaxBytes)
      BY <1>8, <2>1, <3>1, Zenon DEF Admissible
    <3> HIDE DEF b
    <3>4. Closed \/ Admissible(b)
      <4>1. CASE UNCHANGED <<queue, queued_bytes>>
        BY <3>3, <4>1, Zenon DEF Admissible
      <4>2. b \in Nat
        BY <3>2, Zenon DEF b
      <4> QED BY <1>2, <3>3, <4>1, <4>2, EnqueueLeavesLess, Zenon
    <3> QED BY <1>6, <3>1, <3>4, Zenon DEF SpaceWake, b
  <2> QED BY <2>2, <2>3, Zenon
<1>9. ItemWake'
  <2>1. CASE UNCHANGED queue
    BY <1>1, <1>7, <2>1, Zenon DEF ItemWake
  <2>2. CASE \E i \in Items : Enqueue(p, i)
    <3>1. pc'[p] = "notify"
      BY <1>1, <2>2, Zenon DEF Enqueue
    <3> QED BY <3>1, Zenon DEF ItemWake, ItemOwed
  <2> QED BY <1>2, <2>1, <2>2, Zenon
<1> QED BY <1>8, <1>9, Zenon DEF SpaceWake

(***************************************************************************)
(* Opening and closing handles, and the notifications themselves.          *)
(***************************************************************************)
LEMMA HandleWake ==
  ASSUME TypeInv, SpaceWake, ItemWake, NEW p \in Producers,
         (\E q \in Producers : Clone(p, q)) \/ CloseBySender(p) \/ DropSender(p)
  PROVE  SpaceWake' /\ ItemWake'
<1>1. /\ pc \in [Producers -> ProducerPlaces] /\ accepting \in BOOLEAN
      /\ UNCHANGED <<queue, queued_bytes, consumer_alive, holding, rpc>>
  BY Zenon DEF TypeInv, TypeOK, Clone, CloseBySender, DropSender
<1>2. CASE UNCHANGED <<accepting, pc>>
  BY <1>1, <1>2, Zenon DEF SpaceWake, ItemWake, SpaceOwed, ItemOwed, Closed, Admissible
<1>3. CASE pc' = [pc EXCEPT ![p] = OwedByClose]
  <2>1. pc'[p] = "notify_all"
    BY <1>1, <1>3, Zenon DEF OwedByClose
  <2> QED BY <2>1, Zenon DEF SpaceWake, ItemWake, SpaceOwed, ItemOwed
<1> QED BY <1>2, <1>3, Zenon DEF Clone, CloseBySender, DropSender

LEMMA NotifyWake ==
  ASSUME TypeInv, SpaceWake, ItemWake, NEW p \in Producers,
         NotifyNotEmpty(p) \/ NotifySpaceBySender(p) \/ SpuriousProducer(p)
  PROVE  SpaceWake' /\ ItemWake'
<1>1. /\ pc \in [Producers -> ProducerPlaces] /\ rpc \in ConsumerPlaces
      /\ UNCHANGED <<queue, queued_bytes, accepting, consumer_alive, holding>>
  BY Zenon DEF TypeInv, TypeOK, NotifyNotEmpty, NotifySpaceBySender, SpuriousProducer, mailbox
<1>2. CASE NotifyNotEmpty(p)
  <2>1. rpc' \notin {"blocked", "timed"} /\ (rpc = "notify_space" => rpc' = "notify_space")
    BY <1>1, <1>2, Zenon DEF NotifyNotEmpty, Notified, ConsumerPlaces
  <2>2. /\ \A q \in Producers : pc'[q] = "blocked" => pc[q] = "blocked"
        /\ \A q \in Producers : pc[q] \in {"notify_all", "notify_space"}
                                  => pc'[q] \in {"notify_all", "notify_space"}
    BY <1>1, <1>2, Zenon DEF NotifyNotEmpty
  <2> QED BY <1>1, <2>1, <2>2, Zenon DEF SpaceWake, ItemWake, SpaceOwed, Closed, Admissible
<1>3. CASE NotifySpaceBySender(p)
  <2>1. /\ \A q \in Producers : pc'[q] # "blocked"
        /\ \A q \in Producers : pc[q] \in {"notify", "notify_all"} => pc'[q] = pc[q]
        /\ rpc' = rpc
    BY <1>1, <1>3, Zenon DEF NotifySpaceBySender, WakeBlocked
  <2> QED BY <1>1, <2>1, Zenon DEF SpaceWake, ItemWake, ItemOwed
<1>4. CASE SpuriousProducer(p)
  <2>1. /\ \A q \in Producers : pc'[q] = "blocked" => pc[q] = "blocked"
        /\ \A q \in Producers : pc[q] \in {"notify", "notify_all", "notify_space"}
                                  => pc'[q] = pc[q]
        /\ rpc' = rpc
    BY <1>1, <1>4, Zenon DEF SpuriousProducer
  <2> QED BY <1>1, <2>1, Zenon DEF SpaceWake, ItemWake, SpaceOwed, ItemOwed, Closed, Admissible
<1> QED BY <1>2, <1>3, <1>4, Zenon

(***************************************************************************)
(* The receiver's side.                                                    *)
(***************************************************************************)
LEMMA ConsumerWake ==
  ASSUME TypeInv, SpaceWake, ItemWake, ConsumerNext
  PROVE  SpaceWake' /\ ItemWake'
<1>1. pc \in [Producers -> ProducerPlaces] /\ rpc \in ConsumerPlaces
  BY Zenon DEF TypeInv, TypeOK
<1>2. CASE rpc' = "notify_space"
  BY <1>2, Zenon DEF SpaceWake, ItemWake, SpaceOwed
<1>3. ASSUME TryRecv \/ Recv \/ RecvTimeout \/ DeadlinePasses, rpc' # "notify_space"
      PROVE  SpaceWake' /\ ItemWake'
  <2>1. /\ rpc # "notify_space"
        /\ UNCHANGED <<queue, queued_bytes, accepting, consumer_alive, pc, holding>>
        /\ rpc' \in {"blocked", "timed"} => queue' = <<>> /\ accepting'
    BY <1>3 DEF TryRecv, Recv, RecvTimeout, DeadlinePasses, Take, ReturnNothing, Park,
                ReceiverStep, OwedByTake
  <2> QED BY <2>1, Zenon DEF SpaceWake, ItemWake, SpaceOwed, Closed, Admissible
<1>4. CASE NotifySpaceByReceiver
  <2>1. (\A q \in Producers : pc'[q] # "blocked") /\ rpc' = "idle"
    BY <1>1, <1>4, Zenon DEF NotifySpaceByReceiver, WakeBlocked
  <2> QED BY <2>1, Zenon DEF SpaceWake, ItemWake
<1>5. CASE SpuriousConsumer
  <2>1. /\ rpc # "notify_space" /\ rpc' \notin {"blocked", "timed"}
        /\ UNCHANGED <<queue, queued_bytes, accepting, consumer_alive, pc, holding>>
    BY <1>5, Zenon DEF SpuriousConsumer, Notified, mailbox
  <2> QED BY <2>1, Zenon DEF SpaceWake, ItemWake, SpaceOwed, Closed, Admissible
<1>6. CASE CloseByReceiver \/ DropReceiver
  BY <1>2, <1>6, Zenon DEF CloseByReceiver, DropReceiver
<1> QED BY <1>2, <1>3, <1>4, <1>5, <1>6, Zenon DEF ConsumerNext

LEMMA WakeInvariant == Spec => [](SpaceWake /\ ItemWake)
<1>1. Init => SpaceWake /\ ItemWake
  BY Zenon DEF Init, SpaceWake, ItemWake
<1>2. TypeInv /\ SpaceWake /\ ItemWake /\ [Next]_vars => SpaceWake' /\ ItemWake'
  <2> SUFFICES ASSUME TypeInv, SpaceWake, ItemWake, [Next]_vars
               PROVE  SpaceWake' /\ ItemWake'
    BY Zenon
  <2>1. CASE UNCHANGED vars
    <3>1. UNCHANGED <<queue, queued_bytes, accepting, consumer_alive, pc, holding, rpc>>
      BY <2>1, Zenon DEF vars, mailbox, threads
    <3> QED BY <3>1, Zenon DEF SpaceWake, ItemWake, SpaceOwed, ItemOwed, Closed, Admissible
  <2>2. ASSUME NEW p \in Producers, ProducerNext(p) PROVE SpaceWake' /\ ItemWake'
    BY <2>2, SendWake, HandleWake, NotifyWake, Zenon DEF ProducerNext
  <2> QED BY <2>1, <2>2, ConsumerWake, Zenon DEF Next
<1> QED BY <1>1, <1>2, TypeInvariant, PTL DEF Spec

-----------------------------------------------------------------------------
(***************************************************************************)
(* The gauges.  Outcomes counts the calls that came to an end; the senders *)
(* inside send are the calls that did not.                                 *)
(***************************************************************************)
Outcomes == counters["enqueued_items"] + counters["full_rejections"]
            + counters["oversize_rejections"] + counters["closed_rejections"]

OutcomeNames == {"enqueued_items", "full_rejections", "oversize_rejections",
                 "closed_rejections"}

LEMMA OutcomesType ==
  ASSUME TypeOK PROVE Outcomes \in Nat
<1>1. /\ counters["enqueued_items"] \in Nat /\ counters["full_rejections"] \in Nat
      /\ counters["oversize_rejections"] \in Nat /\ counters["closed_rejections"] \in Nat
  BY Zenon DEF TypeOK, CounterNames
<1> QED BY <1>1 DEF Outcomes

LEMMA OutcomesSame ==
  ASSUME \A c \in OutcomeNames : counters'[c] = counters[c]
  PROVE  Outcomes' = Outcomes
BY Zenon DEF Outcomes, OutcomeNames

LEMMA EnqueueOutcome ==
  ASSUME TypeOK, NEW p \in Producers, NEW i \in Items, Enqueue(p, i)
  PROVE  Outcomes' = Outcomes + 1
<1>1. /\ counters["enqueued_items"] \in Nat /\ counters["full_rejections"] \in Nat
      /\ counters["oversize_rejections"] \in Nat /\ counters["closed_rejections"] \in Nat
  BY Zenon DEF TypeOK, CounterNames
<1>2. /\ counters'["enqueued_items"] = counters["enqueued_items"] + 1
      /\ counters'["full_rejections"] = counters["full_rejections"]
      /\ counters'["oversize_rejections"] = counters["oversize_rejections"]
      /\ counters'["closed_rejections"] = counters["closed_rejections"]
  BY EnqueueCounters, Zenon DEF CounterNames
<1> QED BY <1>1, <1>2 DEF Outcomes

LEMMA RejectOutcome ==
  ASSUME TypeOK, NEW p \in Producers, NEW c \in OutcomeNames \ {"enqueued_items"},
         Reject(p, c)
  PROVE  Outcomes' = Outcomes + 1
<1>1. /\ counters["enqueued_items"] \in Nat /\ counters["full_rejections"] \in Nat
      /\ counters["oversize_rejections"] \in Nat /\ counters["closed_rejections"] \in Nat
  BY Zenon DEF TypeOK, CounterNames
<1>2. /\ \A d \in OutcomeNames \ {c} : counters'[d] = counters[d]
      /\ counters'[c] = counters[c] + 1
  BY Zenon DEF Reject, TypeOK, CounterNames, OutcomeNames
<1>3. CASE c = "full_rejections"
  BY <1>1, <1>2, <1>3 DEF Outcomes, OutcomeNames
<1>4. CASE c = "oversize_rejections"
  BY <1>1, <1>2, <1>4 DEF Outcomes, OutcomeNames
<1>5. CASE c = "closed_rejections"
  BY <1>1, <1>2, <1>5 DEF Outcomes, OutcomeNames
<1> QED BY <1>3, <1>4, <1>5, Zenon DEF OutcomeNames

(***************************************************************************)
(* The senders inside send, before and after a step of one thread.         *)
(***************************************************************************)
LEMMA InSendFinite ==
  /\ IsFiniteSet(InSend) /\ Cardinality(InSend) \in Nat
BY ProducersAssumption, FS_Subset, FS_CardinalityType, Zenon DEF InSend

LEMMA InSendEnter ==
  ASSUME pc \in [Producers -> ProducerPlaces], NEW p \in Producers,
         pc[p] \notin {"blocked", "woken"}, pc' = [pc EXCEPT ![p] = "blocked"]
  PROVE  Cardinality(InSend)' = Cardinality(InSend) + 1
<1>1. InSend' = InSend \cup {p} /\ p \notin InSend
  BY Zenon DEF InSend
<1>2. Cardinality(InSend \cup {p}) = Cardinality(InSend) + 1
  BY <1>1, InSendFinite, FS_AddElement, Zenon
<1> QED BY <1>1, <1>2, Zenon

LEMMA InSendLeave ==
  ASSUME pc \in [Producers -> ProducerPlaces], NEW p \in Producers, pc[p] = "woken",
         NEW v \in {"idle", "notify"}, pc' = [pc EXCEPT ![p] = v]
  PROVE  /\ Cardinality(InSend)' = Cardinality(InSend) - 1
         /\ Cardinality(InSend) >= 1
<1>1. InSend' = InSend \ {p} /\ p \in InSend
  BY Zenon DEF InSend
<1>2. Cardinality(InSend \ {p}) = Cardinality(InSend) - 1
  BY <1>1, InSendFinite, FS_RemoveElement, Zenon
<1>3. Cardinality(InSend) # 0
  BY <1>1, InSendFinite, FS_EmptySet, Zenon
<1> QED BY <1>1, <1>2, <1>3, InSendFinite

LEMMA InSendSame ==
  ASSUME \A q \in Producers : pc'[q] \in {"blocked", "woken"} <=> pc[q] \in {"blocked", "woken"}
  PROVE  Cardinality(InSend)' = Cardinality(InSend)
<1>1. InSend' = InSend
  BY Zenon DEF InSend
<1> QED BY <1>1, Zenon

CallsCounted == /\ calls = Outcomes + Cardinality(InSend)
                /\ waiting_producers = Cardinality(InSend)

WaitingFlag == consumer_waiting <=> rpc \in {"blocked", "woken", "timed", "timed_woken"}

SendersCounted == /\ sender_count = Cardinality(handles)
                  /\ sender_count = 0 => ~accepting

(***************************************************************************)
(* A call: it ends, counted under one outcome, or it sleeps, counted in    *)
(* waiting_producers; a retry ends or sleeps again.                        *)
(***************************************************************************)
LEMMA CallsStepCall ==
  ASSUME TypeInv, CallsCounted, NEW p \in Producers,
         NEW i \in Items, TrySend(p, i) \/ Send(p, i)
  PROVE  CallsCounted'
<1> DEFINE n == Cardinality(InSend)
<1>1. /\ pc \in [Producers -> ProducerPlaces] /\ pc[p] = "idle" /\ calls' = calls + 1
  BY Zenon DEF TrySend, Send, Call, TypeInv, TypeOK
<1>2. n \in Nat /\ Outcomes \in Nat
  BY InSendFinite, OutcomesType, Zenon DEF TypeInv
<1>3. \/ /\ Enqueue(p, i) \/ \E c \in OutcomeNames \ {"enqueued_items"} : Reject(p, c)
         /\ waiting_producers' = waiting_producers
      \/ /\ waiting_producers' = waiting_producers + 1
         /\ counters' = [counters EXCEPT !["blocked_sends"] = @ + 1]
         /\ pc' = [pc EXCEPT ![p] = "blocked"]
  BY Zenon DEF TrySend, Send, OutcomeNames
<1>4. CASE /\ Enqueue(p, i) \/ \E c \in OutcomeNames \ {"enqueued_items"} : Reject(p, c)
           /\ waiting_producers' = waiting_producers
  <2>1. Outcomes' = Outcomes + 1
    BY <1>4, EnqueueOutcome, RejectOutcome, Zenon DEF TypeInv
  <2>2. \E v \in {"idle", "notify"} : pc' = [pc EXCEPT ![p] = v]
    BY <1>4, Zenon DEF Enqueue, Reject
  <2>3. n' = n
    BY <1>1, <2>2, InSendSame, Zenon
  <2> HIDE DEF n
  <2>4. calls = Outcomes + n /\ waiting_producers = n
    BY Zenon DEF CallsCounted, n
  <2>5. calls' = Outcomes' + n' /\ waiting_producers' = n'
    BY <1>1, <1>2, <1>4, <2>1, <2>3, <2>4
  <2> QED BY <2>5, Zenon DEF CallsCounted, n
<1>5. CASE /\ waiting_producers' = waiting_producers + 1
           /\ counters' = [counters EXCEPT !["blocked_sends"] = @ + 1]
           /\ pc' = [pc EXCEPT ![p] = "blocked"]
  <2>1. \A c \in OutcomeNames : counters'[c] = counters[c]
    BY <1>5, Zenon DEF TypeInv, TypeOK, CounterNames, OutcomeNames
  <2>2. Outcomes' = Outcomes
    BY <2>1, OutcomesSame, Zenon
  <2>3. n' = n + 1
    BY <1>1, <1>5, InSendEnter, Zenon
  <2> HIDE DEF n
  <2>4. calls = Outcomes + n /\ waiting_producers = n
    BY Zenon DEF CallsCounted, n
  <2>5. calls' = Outcomes' + n' /\ waiting_producers' = n'
    BY <1>1, <1>2, <1>5, <2>2, <2>3, <2>4
  <2> QED BY <2>5, Zenon DEF CallsCounted, n
<1> QED BY <1>3, <1>4, <1>5, Zenon

LEMMA CallsStepRetry ==
  ASSUME TypeInv, CallsCounted, NEW p \in Producers, SendRetry(p)
  PROVE  CallsCounted'
<1> DEFINE n == Cardinality(InSend)
<1>1. /\ pc \in [Producers -> ProducerPlaces] /\ pc[p] = "woken" /\ calls' = calls
      /\ holding[p] \in Items
  BY Zenon DEF SendRetry, TypeInv, TypeOK, ThreadsOK
<1>2. n \in Nat /\ Outcomes \in Nat
  BY InSendFinite, OutcomesType, Zenon DEF TypeInv
<1>3. calls = Outcomes + n /\ waiting_producers = n
  BY Zenon DEF CallsCounted
<1>4. CASE /\ Enqueue(p, holding[p]) \/ Reject(p, "closed_rejections")
           /\ FinishBlockedSend
  <2>1. Outcomes' = Outcomes + 1
    BY <1>1, <1>4, EnqueueOutcome, RejectOutcome, Zenon DEF TypeInv, OutcomeNames
  <2>2. \E v \in {"idle", "notify"} : pc' = [pc EXCEPT ![p] = v]
    BY <1>4, Zenon DEF Enqueue, Reject
  <2>3. n' = n - 1 /\ n >= 1
    BY <1>1, <2>2, InSendLeave, Zenon
  <2>4. waiting_producers' = SaturatingSub(n, 1)
    BY <1>3, <1>4, Zenon DEF FinishBlockedSend
  <2> HIDE DEF n
  <2>5. calls' = Outcomes' + n' /\ waiting_producers' = n'
    BY <1>1, <1>2, <1>3, <2>1, <2>3, <2>4 DEF SaturatingSub
  <2> QED BY <2>5, Zenon DEF CallsCounted, n
<1>5. CASE /\ pc' = [pc EXCEPT ![p] = "blocked"]
           /\ UNCHANGED <<waiting_producers, counters>>
  <2>1. n' = n
    BY <1>1, <1>5, InSendSame, Zenon
  <2>2. Outcomes' = Outcomes
    BY <1>5, OutcomesSame, Zenon
  <2> HIDE DEF n
  <2>3. calls' = Outcomes' + n' /\ waiting_producers' = n'
    BY <1>1, <1>3, <1>5, <2>1, <2>2, Zenon
  <2> QED BY <2>3, Zenon DEF CallsCounted, n
<1> QED BY <1>4, <1>5, Zenon DEF SendRetry

(***************************************************************************)
(* Every other step leaves the calls and the senders inside send alone.    *)
(***************************************************************************)
LEMMA CallsStepOther ==
  ASSUME CallsCounted, calls' = calls, waiting_producers' = waiting_producers,
         \A c \in OutcomeNames : counters'[c] = counters[c],
         \A q \in Producers : pc'[q] \in {"blocked", "woken"} <=> pc[q] \in {"blocked", "woken"}
  PROVE  CallsCounted'
BY OutcomesSame, InSendSame, Zenon DEF CallsCounted

LEMMA CallsStep ==
  ASSUME TypeInv, CallsCounted, [Next]_vars
  PROVE  CallsCounted'
<1>1. pc \in [Producers -> ProducerPlaces]
  BY Zenon DEF TypeInv, TypeOK
<1>2. CASE UNCHANGED vars
  BY <1>2, CallsStepOther, Zenon DEF vars, mailbox, threads, history
<1>3. ASSUME NEW p \in Producers, ProducerNext(p) PROVE CallsCounted'
  <2>1. CASE (\E q \in Producers : Clone(p, q)) \/ CloseBySender(p) \/ DropSender(p)
    <3>1. UNCHANGED <<calls, waiting_producers, counters>>
      BY <2>1, Zenon DEF Clone, CloseBySender, DropSender, history
    <3>2. \A q \in Producers : pc'[q] \in {"blocked", "woken"} <=> pc[q] \in {"blocked", "woken"}
      BY <1>1, <2>1, Zenon DEF Clone, CloseBySender, DropSender, OwedByClose
    <3> QED BY <3>1, <3>2, CallsStepOther, Zenon
  <2>2. CASE NotifyNotEmpty(p) \/ NotifySpaceBySender(p) \/ SpuriousProducer(p)
    <3>1. UNCHANGED <<calls, waiting_producers, counters>>
      BY <2>2, Zenon DEF NotifyNotEmpty, NotifySpaceBySender, SpuriousProducer, mailbox, history
    <3>2. \A q \in Producers : pc'[q] \in {"blocked", "woken"} <=> pc[q] \in {"blocked", "woken"}
      BY <1>1, <2>2, Zenon
         DEF NotifyNotEmpty, NotifySpaceBySender, SpuriousProducer, WakeBlocked
    <3> QED BY <3>1, <3>2, CallsStepOther, Zenon
  <2> QED BY <1>3, <2>1, <2>2, CallsStepCall, CallsStepRetry, Zenon DEF ProducerNext
<1>4. ASSUME ConsumerNext PROVE CallsCounted'
  <2>1. UNCHANGED <<calls, waiting_producers>>
    BY <1>4, Zenon DEF ConsumerNext, TryRecv, Recv, RecvTimeout, DeadlinePasses, ReceiverStep,
                CloseByReceiver, DropReceiver, NotifySpaceByReceiver, SpuriousConsumer,
                mailbox, history
  <2>2. \A q \in Producers : pc'[q] \in {"blocked", "woken"} <=> pc[q] \in {"blocked", "woken"}
    BY <1>1, <1>4, Zenon
       DEF ConsumerNext, TryRecv, Recv, RecvTimeout, DeadlinePasses, ReceiverStep,
                CloseByReceiver, DropReceiver, NotifySpaceByReceiver, SpuriousConsumer,
                WakeBlocked
  <2>3. \A c \in OutcomeNames : counters'[c] = counters[c]
    <3>1. ASSUME Take PROVE <2>3!:
      BY <3>1, TakeType, Zenon DEF TypeInv, OutcomeNames, CounterNames
    <3>2. ASSUME DropReceiver PROVE <2>3!:
      BY <3>2, Zenon DEF DropReceiver, TypeInv, TypeOK, OutcomeNames, CounterNames
    <3>3. Take \/ DropReceiver \/ counters' = counters
      BY <1>4, Zenon
         DEF ConsumerNext, TryRecv, Recv, RecvTimeout, DeadlinePasses, ReturnNothing,
                  Park, CloseByReceiver, NotifySpaceByReceiver, SpuriousConsumer, mailbox
    <3> QED BY <3>1, <3>2, <3>3, Zenon
  <2> QED BY <2>1, <2>2, <2>3, CallsStepOther, Zenon
<1> QED BY <1>2, <1>3, <1>4, Zenon DEF Next

(***************************************************************************)
(* consumer_waiting is set exactly while a receive call sleeps or is on    *)
(* its way out of the condition variable.                                  *)
(***************************************************************************)
LEMMA WaitingStep ==
  ASSUME TypeInv, WaitingFlag, [Next]_vars
  PROVE  WaitingFlag'
<1>1. rpc \in ConsumerPlaces
  BY Zenon DEF TypeInv, TypeOK
<1>2. CASE UNCHANGED <<consumer_waiting, rpc>>
  BY <1>2, Zenon DEF WaitingFlag
<1>3. ASSUME NEW p \in Producers, ProducerNext(p) PROVE WaitingFlag'
  <2>1. CASE NotifyNotEmpty(p)
    <3>1. consumer_waiting' = consumer_waiting /\ rpc' = Notified(rpc)
      BY <2>1, Zenon DEF NotifyNotEmpty, mailbox
    <3> QED BY <1>1, <3>1, Zenon DEF WaitingFlag, Notified, ConsumerPlaces
  <2>2. CASE ~NotifyNotEmpty(p)
    <3>1. UNCHANGED <<consumer_waiting, rpc>>
      BY <1>3, <2>2, Zenon DEF ProducerNext, Clone, TrySend, Send, SendRetry, CloseBySender,
                        DropSender, NotifySpaceBySender, SpuriousProducer, mailbox
    <3> QED BY <1>2, <3>1, Zenon
  <2> QED BY <2>1, <2>2, Zenon
<1>4. ASSUME ConsumerNext PROVE WaitingFlag'
  <2>1. CASE TryRecv \/ Recv \/ RecvTimeout \/ DeadlinePasses
    BY <2>1, Zenon DEF TryRecv, Recv, RecvTimeout, DeadlinePasses, Take, ReturnNothing, Park,
                OwedByTake, WaitingFlag
  <2>2. CASE CloseByReceiver \/ DropReceiver \/ NotifySpaceByReceiver
    BY <2>2 DEF CloseByReceiver, DropReceiver, NotifySpaceByReceiver, WaitingFlag, mailbox
  <2>3. CASE SpuriousConsumer
    <3>1. consumer_waiting' = consumer_waiting /\ rpc' = Notified(rpc)
      BY <2>3, Zenon DEF SpuriousConsumer, mailbox
    <3> QED BY <1>1, <3>1, Zenon DEF WaitingFlag, Notified, ConsumerPlaces
  <2> QED BY <1>4, <2>1, <2>2, <2>3, Zenon DEF ConsumerNext
<1>5. CASE UNCHANGED vars
  BY <1>2, <1>5, Zenon DEF vars, mailbox, threads
<1> QED BY <1>3, <1>4, <1>5, Zenon DEF Next

(***************************************************************************)
(* sender_count is the number of live senders, and the drop that brings it *)
(* to zero closes the mailbox.                                             *)
(***************************************************************************)
LEMMA HandlesFinite ==
  ASSUME TypeInv
  PROVE  IsFiniteSet(handles) /\ Cardinality(handles) \in Nat
BY ProducersAssumption, FS_Subset, FS_CardinalityType, Zenon DEF TypeInv, TypeOK

LEMMA SendersStep ==
  ASSUME TypeInv, SendersCounted, [Next]_vars
  PROVE  SendersCounted'
<1>1. CASE UNCHANGED <<sender_count, handles>> /\ (accepting' => accepting)
  BY <1>1, Zenon DEF SendersCounted, TypeInv, TypeOK
<1>2. ASSUME NEW p \in Producers, NEW q \in Producers, Clone(p, q)
      PROVE  SendersCounted'
  <2>1. Cardinality(handles \cup {q}) = Cardinality(handles) + 1
    BY <1>2, HandlesFinite, FS_AddElement, Zenon DEF Clone
  <2>2. sender_count' = sender_count + 1 /\ handles' = handles \cup {q}
    BY <1>2, Zenon DEF Clone
  <2>3. sender_count \in Nat /\ sender_count = Cardinality(handles)
    BY Zenon DEF SendersCounted, TypeInv, TypeOK
  <2>4. sender_count' = Cardinality(handles')
    BY <2>1, <2>2, <2>3, Zenon
  <2>5. sender_count' # 0
    BY <2>2, <2>3
  <2> QED BY <2>4, <2>5, Zenon DEF SendersCounted
<1>3. ASSUME NEW p \in Producers, DropSender(p)
      PROVE  SendersCounted'
  <2>1. Cardinality(handles \ {p}) = Cardinality(handles) - 1
    BY <1>3, HandlesFinite, FS_RemoveElement, Zenon DEF DropSender
  <2>2. Cardinality(handles) # 0
    BY <1>3, HandlesFinite, FS_EmptySet, Zenon DEF DropSender
  <2>3. /\ sender_count' = SaturatingSub(sender_count, 1) /\ handles' = handles \ {p}
        /\ accepting' => accepting /\ sender_count' # 0
    BY <1>3, Zenon DEF DropSender, TypeInv, TypeOK
  <2>4. sender_count \in Nat /\ sender_count = Cardinality(handles)
    BY Zenon DEF SendersCounted, TypeInv, TypeOK
  <2>5. sender_count' = sender_count - 1
    BY <2>2, <2>3, <2>4 DEF SaturatingSub
  <2>6. sender_count' = Cardinality(handles')
    BY <2>1, <2>3, <2>4, <2>5, Zenon
  <2> QED BY <2>3, <2>6, Zenon DEF SendersCounted
<1>4. ASSUME NEW p \in Producers, ProducerNext(p)
      PROVE  SendersCounted'
  <2>1. CASE ~DropSender(p) /\ ~\E q \in Producers : Clone(p, q)
    <3>1. UNCHANGED <<sender_count, handles>>
      BY <1>4, <2>1, Zenon DEF ProducerNext, TrySend, Send, SendRetry, CloseBySender,
                        NotifyNotEmpty, NotifySpaceBySender, SpuriousProducer, mailbox
    <3>2. accepting' => accepting
      BY <1>4, <2>1, Zenon DEF ProducerNext, TrySend, Send, SendRetry, CloseBySender,
                        NotifyNotEmpty, NotifySpaceBySender, SpuriousProducer, mailbox
    <3> QED BY <1>1, <3>1, <3>2, Zenon
  <2> QED BY <1>2, <1>3, <2>1, Zenon
<1>5. ASSUME ConsumerNext PROVE SendersCounted'
  <2>1. UNCHANGED <<sender_count, handles>>
    BY <1>5, Zenon DEF ConsumerNext, TryRecv, Recv, RecvTimeout, DeadlinePasses, ReceiverStep,
                CloseByReceiver, DropReceiver, NotifySpaceByReceiver, SpuriousConsumer,
                mailbox
  <2>2. accepting' => accepting
    BY <1>5, Zenon DEF ConsumerNext, TryRecv, Recv, RecvTimeout, DeadlinePasses, ReceiverStep,
                CloseByReceiver, DropReceiver, NotifySpaceByReceiver, SpuriousConsumer,
                mailbox
  <2> QED BY <1>1, <2>1, <2>2, Zenon
<1>6. CASE UNCHANGED vars
  BY <1>1, <1>6, Zenon DEF vars, mailbox, threads
<1> QED BY <1>4, <1>5, <1>6, Zenon DEF Next

LEMMA GaugesInvariant == Spec => [](CallsCounted /\ WaitingFlag /\ SendersCounted)
<1>1. Init => CallsCounted /\ WaitingFlag /\ SendersCounted
  <2> SUFFICES ASSUME Init PROVE CallsCounted /\ WaitingFlag /\ SendersCounted
    BY Zenon
  <2>1. InSend = {}
    BY Zenon DEF Init, InSend
  <2>2. Cardinality(InSend) = 0
    BY <2>1, FS_EmptySet, Zenon
  <2>3. Outcomes = 0
    BY DEF Init, Outcomes, CounterNames
  <2>4. CallsCounted
    BY <2>2, <2>3 DEF Init, CallsCounted
  <2>5. Cardinality(handles) = 1
    BY FS_Singleton, Zenon DEF Init
  <2>6. SendersCounted
    BY <2>5 DEF Init, SendersCounted
  <2>7. WaitingFlag
    BY Zenon DEF Init, WaitingFlag
  <2> QED BY <2>4, <2>6, <2>7, Zenon
<1> DEFINE I == CallsCounted /\ WaitingFlag /\ SendersCounted
<1>2. TypeInv /\ I /\ [Next]_vars => I'
  BY CallsStep, WaitingStep, SendersStep, Zenon
<1> QED BY <1>1, <1>2, TypeInvariant, PTL DEF Spec

(***************************************************************************)
(* What metrics() reports is exact, for any number of threads: no call is  *)
(* counted twice or not at all, no saturating decrement of                 *)
(* waiting_producers or sender_count ever saturates, and a mailbox without *)
(* senders is closed.                                                      *)
(***************************************************************************)
THEOREM MetricsExact == Spec => []GaugesExact
<1>1. CallsCounted /\ WaitingFlag /\ SendersCounted => GaugesExact
  BY Zenon DEF CallsCounted, WaitingFlag, SendersCounted, Outcomes, GaugesExact
<1> QED BY <1>1, GaugesInvariant, PTL

(***************************************************************************)
(* No wake-up is lost in the gap between the unlock and the notify, for    *)
(* any number of senders: a sleeper that could proceed is always owed the  *)
(* notification of its condition variable by a thread still running.       *)
(***************************************************************************)
THEOREM WakeupsNeverLost == Spec => []NoLostWakeup
BY WakeInvariant, WakeSplit, PTL

=============================================================================
