------------------------------ MODULE Mailbox ------------------------------
(***************************************************************************)
(* The byte- and item-budgeted bounded mailbox of rssh-runtime             *)
(* (mailbox.rs): any number of cloneable senders, one receiver, one mutex  *)
(* and two condition variables.  An action is one critical section of the  *)
(* mutex; a notification sent after the guard is dropped is a step of its  *)
(* own, so other threads run between the unlock and the notify.            *)
(***************************************************************************)
EXTENDS Integers, Sequences, FiniteSets

CONSTANTS
  Producers,       \* threads that may own a MailboxSender
  Items,           \* values sent, told apart by identity only
  NoItem,          \* what a producer outside send holds
  retained_bytes,  \* MailboxItem::retained_bytes of each item
  MaxItems,        \* MailboxLimits.max_items
  MaxBytes,        \* MailboxLimits.max_bytes
  MaxCalls         \* bound: calls of send and try_send in one behaviour

(***************************************************************************)
(* MailboxLimits::try_new rejects zero limits.                             *)
(***************************************************************************)
ASSUME LimitsAssumption ==
  /\ MaxItems \in Nat \ {0}
  /\ MaxBytes \in Nat \ {0}

ASSUME ItemsAssumption ==
  /\ retained_bytes \in [Items -> Nat]
  /\ NoItem \notin Items

ASSUME ProducersAssumption == IsFiniteSet(Producers)

ASSUME BoundAssumption == MaxCalls \in Nat

VARIABLES
  queue,              \* State.queue: entries with their byte reservation
  queued_bytes,       \* State.queued_bytes
  accepting,          \* State.accepting
  sender_count,       \* State.sender_count
  consumer_alive,     \* State.consumer_alive
  waiting_producers,  \* State.waiting_producers
  consumer_waiting,   \* State.consumer_waiting
  counters,           \* State.counters
  handles,            \* producers that own a live MailboxSender
  pc,                 \* where each producer is
  holding,            \* item of a producer inside send
  rpc,                \* where the consumer is
  log,                \* history: admitted entries with their byte offset
  received,           \* history: values handed to the consumer, in order
  calls               \* history: calls of send and try_send

mailbox == <<queue, queued_bytes, accepting, sender_count, consumer_alive,
             waiting_producers, consumer_waiting, counters>>
threads == <<handles, pc, holding, rpc>>
history == <<log, received, calls>>
vars == <<mailbox, threads, history>>

(***************************************************************************)
(* A producer at "notify" owes not_empty.notify_one; at "notify_all" it    *)
(* owes not_empty.notify_all and then space_available.notify_all; at       *)
(* "notify_space" only the latter.  "blocked" threads sleep in a condvar,  *)
(* "woken" ones have left it and contend for the mutex.  The consumer      *)
(* sleeps at "blocked" inside recv and at "timed" inside recv_timeout.     *)
(***************************************************************************)
ProducerPlaces == {"idle", "notify", "notify_all", "notify_space", "blocked", "woken"}
ConsumerPlaces == {"idle", "notify_space", "blocked", "woken", "timed", "timed_woken"}

InSend == {p \in Producers : pc[p] \in {"blocked", "woken"}}

Entry == [value : Items, reserved_bytes : Nat]
LogEntry == [value : Items, reserved_bytes : Nat, start : Nat]
CounterNames == {"enqueued_items", "enqueued_bytes", "dequeued_items",
                 "dequeued_bytes", "discarded_items", "discarded_bytes",
                 "high_water_items", "high_water_bytes", "full_rejections",
                 "oversize_rejections", "closed_rejections", "blocked_sends"}

Larger(a, b) == IF a < b THEN b ELSE a
SaturatingSub(a, b) == IF a < b THEN 0 ELSE a - b

-----------------------------------------------------------------------------
(***************************************************************************)
(* bounded_mailbox returns one sender, owned here by any one producer.     *)
(***************************************************************************)
Init ==
  /\ queue = <<>>
  /\ queued_bytes = 0
  /\ accepting = TRUE
  /\ sender_count = 1
  /\ consumer_alive = TRUE
  /\ waiting_producers = 0
  /\ consumer_waiting = FALSE
  /\ counters = [c \in CounterNames |-> 0]
  /\ \E p \in Producers : handles = {p}
  /\ pc = [p \in Producers |-> "idle"]
  /\ holding = [p \in Producers |-> NoItem]
  /\ rpc = "idle"
  /\ log = <<>>
  /\ received = <<>>
  /\ calls = 0

(***************************************************************************)
(* MailboxSender::clone.                                                   *)
(***************************************************************************)
Clone(p, q) ==
  /\ p \in handles
  /\ pc[p] = "idle"
  /\ q \notin handles
  /\ pc[q] = "idle"
  /\ sender_count' = sender_count + 1
  /\ handles' = handles \cup {q}
  /\ UNCHANGED <<queue, queued_bytes, accepting, consumer_alive,
                 waiting_producers, consumer_waiting, counters, pc, holding,
                 rpc, history>>

(***************************************************************************)
(* admission_bytes: room for one more entry of b bytes.                    *)
(***************************************************************************)
AdmissibleOffByOne(b) ==
  /\ Len(queue) <= MaxItems
  /\ queued_bytes + b <= MaxBytes

Admissible(b) ==
  /\ Len(queue) < MaxItems
  /\ queued_bytes + b <= MaxBytes

ClosedOnlyByReceiver == ~consumer_alive

Closed == ~accepting \/ ~consumer_alive

PushedFront(entry) == <<entry>> \o queue

Pushed(entry) == Append(queue, entry)

(***************************************************************************)
(* enqueue, under the lock; the caller owes a notify_one of not_empty.     *)
(***************************************************************************)
Enqueue(p, i) ==
  LET b == retained_bytes[i] IN
  /\ queue' = Pushed([value |-> i, reserved_bytes |-> b])
  /\ queued_bytes' = queued_bytes + b
  /\ counters' = [counters EXCEPT
       !["high_water_items"] = Larger(@, Len(queue) + 1),
       !["high_water_bytes"] = Larger(@, queued_bytes + b),
       !["enqueued_items"] = @ + 1,
       !["enqueued_bytes"] = @ + b]
  /\ log' = Append(log, [value |-> i, reserved_bytes |-> b,
                         start |-> counters["enqueued_bytes"]])
  /\ pc' = [pc EXCEPT ![p] = "notify"]

(***************************************************************************)
(* An error return, after its counter was incremented.                     *)
(***************************************************************************)
RejectSilently(p, counter) ==
  /\ pc' = [pc EXCEPT ![p] = "idle"]
  /\ UNCHANGED <<queue, queued_bytes, counters, log>>

Reject(p, counter) ==
  /\ counters' = [counters EXCEPT ![counter] = @ + 1]
  /\ pc' = [pc EXCEPT ![p] = "idle"]
  /\ UNCHANGED <<queue, queued_bytes, log>>

Call(p) ==
  /\ p \in handles
  /\ pc[p] = "idle"
  /\ calls < MaxCalls
  /\ calls' = calls + 1

(***************************************************************************)
(* try_send: closed, oversize, full or admitted, tested in that order.     *)
(***************************************************************************)
TrySend(p, i) ==
  /\ Call(p)
  /\ \/ /\ Closed
        /\ Reject(p, "closed_rejections")
     \/ /\ ~Closed
        /\ retained_bytes[i] > MaxBytes
        /\ Reject(p, "oversize_rejections")
     \/ /\ ~Closed
        /\ retained_bytes[i] <= MaxBytes
        /\ ~Admissible(retained_bytes[i])
        /\ Reject(p, "full_rejections")
     \/ /\ ~Closed
        /\ retained_bytes[i] <= MaxBytes
        /\ Admissible(retained_bytes[i])
        /\ Enqueue(p, i)
  /\ UNCHANGED <<accepting, sender_count, consumer_alive, waiting_producers,
                 consumer_waiting, handles, holding, rpc, received>>

(***************************************************************************)
(* send, from the call to its return or its first wait on space_available. *)
(***************************************************************************)
Send(p, i) ==
  /\ Call(p)
  /\ \/ /\ Closed
        /\ Reject(p, "closed_rejections")
        /\ UNCHANGED <<waiting_producers, holding>>
     \/ /\ ~Closed
        /\ retained_bytes[i] > MaxBytes
        /\ Reject(p, "oversize_rejections")
        /\ UNCHANGED <<waiting_producers, holding>>
     \/ /\ ~Closed
        /\ retained_bytes[i] <= MaxBytes
        /\ Admissible(retained_bytes[i])
        /\ Enqueue(p, i)
        /\ UNCHANGED <<waiting_producers, holding>>
     \/ /\ ~Closed
        /\ retained_bytes[i] <= MaxBytes
        /\ ~Admissible(retained_bytes[i])
        /\ waiting_producers' = waiting_producers + 1
        /\ counters' = [counters EXCEPT !["blocked_sends"] = @ + 1]
        /\ holding' = [holding EXCEPT ![p] = i]
        /\ pc' = [pc EXCEPT ![p] = "blocked"]
        /\ UNCHANGED <<queue, queued_bytes, log>>
  /\ UNCHANGED <<accepting, sender_count, consumer_alive, consumer_waiting,
                 handles, rpc, received>>

FinishBlockedSend == waiting_producers' = SaturatingSub(waiting_producers, 1)

(***************************************************************************)
(* The loop of send after space_available.wait returned: closed, admitted, *)
(* or waiting again.                                                       *)
(***************************************************************************)
SendRetry(p) ==
  /\ pc[p] = "woken"
  /\ \/ /\ Closed
        /\ FinishBlockedSend
        /\ holding' = [holding EXCEPT ![p] = NoItem]
        /\ Reject(p, "closed_rejections")
     \/ /\ ~Closed
        /\ Admissible(retained_bytes[holding[p]])
        /\ FinishBlockedSend
        /\ holding' = [holding EXCEPT ![p] = NoItem]
        /\ Enqueue(p, holding[p])
     \/ /\ ~Closed
        /\ ~Admissible(retained_bytes[holding[p]])
        /\ pc' = [pc EXCEPT ![p] = "blocked"]
        /\ UNCHANGED <<waiting_producers, holding, queue, queued_bytes,
                       counters, log>>
  /\ UNCHANGED <<accepting, sender_count, consumer_alive, consumer_waiting,
                 handles, rpc, received, calls>>

(***************************************************************************)
(* What a thread that closed the mailbox owes: both notify_all calls.      *)
(***************************************************************************)
OwedByClose == "notify_all"

(***************************************************************************)
(* Shared::close called through a sender; a repeated close owes nothing.   *)
(***************************************************************************)
CloseBySender(p) ==
  /\ p \in handles
  /\ pc[p] = "idle"
  /\ accepting
  /\ accepting' = FALSE
  /\ pc' = [pc EXCEPT ![p] = OwedByClose]
  /\ UNCHANGED <<queue, queued_bytes, sender_count, consumer_alive,
                 waiting_producers, consumer_waiting, counters, handles,
                 holding, rpc, history>>

(***************************************************************************)
(* Drop of a sender: the last one closes the mailbox.                      *)
(***************************************************************************)
DropSender(p) ==
  /\ p \in handles
  /\ pc[p] = "idle"
  /\ handles' = handles \ {p}
  /\ sender_count' = SaturatingSub(sender_count, 1)
  /\ IF sender_count' = 0 /\ accepting
     THEN /\ accepting' = FALSE
          /\ pc' = [pc EXCEPT ![p] = OwedByClose]
     ELSE UNCHANGED <<accepting, pc>>
  /\ UNCHANGED <<queue, queued_bytes, consumer_alive, waiting_producers,
                 consumer_waiting, counters, holding, rpc, history>>

-----------------------------------------------------------------------------
(***************************************************************************)
(* Notifications sent without the lock.                                    *)
(***************************************************************************)
NotifiedTimedOnly(place) == IF place = "timed" THEN "timed_woken" ELSE place

Notified(place) == CASE place = "blocked" -> "woken"
                     [] place = "timed" -> "timed_woken"
                     [] OTHER -> place

NotifyNotEmpty(p) ==
  /\ pc[p] \in {"notify", "notify_all"}
  /\ pc' = [pc EXCEPT ![p] = IF @ = "notify" THEN "idle" ELSE "notify_space"]
  /\ rpc' = Notified(rpc)
  /\ UNCHANGED <<mailbox, handles, holding, history>>

WakeBlocked(f) == [p \in Producers |-> IF f[p] = "blocked" THEN "woken" ELSE f[p]]

NotifySpaceBySender(p) ==
  /\ pc[p] = "notify_space"
  /\ pc' = WakeBlocked([pc EXCEPT ![p] = "idle"])
  /\ UNCHANGED <<mailbox, handles, holding, rpc, history>>

NotifySpaceByReceiver ==
  /\ rpc = "notify_space"
  /\ rpc' = "idle"
  /\ pc' = WakeBlocked(pc)
  /\ UNCHANGED <<mailbox, handles, holding, history>>

(***************************************************************************)
(* A condition variable may wake a sleeper without any notification.       *)
(***************************************************************************)
SpuriousProducer(p) ==
  /\ pc[p] = "blocked"
  /\ pc' = [pc EXCEPT ![p] = "woken"]
  /\ UNCHANGED <<mailbox, handles, holding, rpc, history>>

SpuriousConsumer ==
  /\ rpc \in {"blocked", "timed"}
  /\ rpc' = Notified(rpc)
  /\ UNCHANGED <<mailbox, handles, pc, holding, history>>

-----------------------------------------------------------------------------
ReleasedWithOverhead == queued_bytes - (Head(queue).reserved_bytes + 1)

ReleasedNothing == queued_bytes

Released == SaturatingSub(queued_bytes, Head(queue).reserved_bytes)

OwedWhenItemsWereFull == IF Len(queue) = MaxItems THEN "notify_space" ELSE "idle"

OwedByTake == "notify_space"

(***************************************************************************)
(* dequeue and the return of the entry; the consumer owes the notify_all   *)
(* of space_available.                                                     *)
(***************************************************************************)
Take ==
  /\ queue # <<>>
  /\ queue' = Tail(queue)
  /\ queued_bytes' = Released
  /\ counters' = [counters EXCEPT
       !["dequeued_items"] = @ + 1,
       !["dequeued_bytes"] = @ + Head(queue).reserved_bytes]
  /\ received' = Append(received, Head(queue).value)
  /\ consumer_waiting' = FALSE
  /\ rpc' = OwedByTake

(***************************************************************************)
(* Return without an item: Closed, or Timeout.                             *)
(***************************************************************************)
ReturnNothing ==
  /\ consumer_waiting' = FALSE
  /\ rpc' = "idle"
  /\ UNCHANGED <<queue, queued_bytes, counters, received>>

Park(place) ==
  /\ queue = <<>>
  /\ accepting
  /\ consumer_waiting' = TRUE
  /\ rpc' = place
  /\ UNCHANGED <<queue, queued_bytes, counters, received>>

ReceiverStep ==
  /\ consumer_alive
  /\ UNCHANGED <<accepting, sender_count, consumer_alive, waiting_producers,
                 handles, pc, holding, log, calls>>

(***************************************************************************)
(* try_recv; Empty and Closed change nothing.                              *)
(***************************************************************************)
TryRecv ==
  /\ rpc = "idle"
  /\ Take
  /\ ReceiverStep

(***************************************************************************)
(* recv, from the call or from a wake-up to its return or its next wait.   *)
(***************************************************************************)
Recv ==
  /\ rpc \in {"idle", "woken"}
  /\ \/ Take
     \/ queue = <<>> /\ ~accepting /\ ReturnNothing
     \/ Park("blocked")
  /\ ReceiverStep

(***************************************************************************)
(* recv_timeout, likewise: the deadline may have passed whenever it looks. *)
(***************************************************************************)
RecvTimeout ==
  /\ rpc \in {"idle", "timed_woken"}
  /\ \/ Take
     \/ queue = <<>> /\ ReturnNothing
     \/ Park("timed")
  /\ ReceiverStep

(***************************************************************************)
(* wait_timeout returned timed out: Timeout only if still open and empty.  *)
(***************************************************************************)
DeadlinePasses ==
  /\ rpc = "timed"
  /\ \/ Take
     \/ queue = <<>> /\ ReturnNothing
  /\ ReceiverStep

CloseByReceiver ==
  /\ consumer_alive
  /\ rpc = "idle"
  /\ accepting
  /\ accepting' = FALSE
  /\ rpc' = "notify_space"
  /\ UNCHANGED <<queue, queued_bytes, sender_count, consumer_alive,
                 waiting_producers, consumer_waiting, counters, handles, pc,
                 holding, history>>

(***************************************************************************)
(* Drop of the receiver discards, and counts, what is still queued.        *)
(***************************************************************************)
DropReceiver ==
  /\ consumer_alive
  /\ rpc = "idle"
  /\ consumer_alive' = FALSE
  /\ accepting' = FALSE
  /\ consumer_waiting' = FALSE
  /\ counters' = [counters EXCEPT
       !["discarded_items"] = @ + Len(queue),
       !["discarded_bytes"] = @ + queued_bytes]
  /\ queued_bytes' = 0
  /\ queue' = <<>>
  /\ rpc' = "notify_space"
  /\ UNCHANGED <<sender_count, waiting_producers, handles, pc, holding, history>>

-----------------------------------------------------------------------------
ProducerNext(p) ==
  \/ \E q \in Producers : Clone(p, q)
  \/ \E i \in Items : TrySend(p, i)
  \/ \E i \in Items : Send(p, i)
  \/ SendRetry(p)
  \/ CloseBySender(p)
  \/ DropSender(p)
  \/ NotifyNotEmpty(p)
  \/ NotifySpaceBySender(p)
  \/ SpuriousProducer(p)

ConsumerNext ==
  \/ TryRecv
  \/ Recv
  \/ RecvTimeout
  \/ DeadlinePasses
  \/ CloseByReceiver
  \/ DropReceiver
  \/ NotifySpaceByReceiver
  \/ SpuriousConsumer

Next == (\E p \in Producers : ProducerNext(p)) \/ ConsumerNext

Spec == Init /\ [][Next]_vars

(***************************************************************************)
(* A thread that owes a notification, or that was woken, runs again: the   *)
(* operating system schedules it and the mutex is held for finite time.    *)
(* No thread is obliged to start a new call.                               *)
(***************************************************************************)
Fairness ==
  /\ \A p \in Producers : /\ WF_vars(NotifyNotEmpty(p))
                          /\ WF_vars(NotifySpaceBySender(p))
                          /\ WF_vars(SendRetry(p))
  /\ WF_vars(NotifySpaceByReceiver)
  /\ WF_vars(rpc = "woken" /\ Recv)
  /\ WF_vars(rpc = "timed_woken" /\ RecvTimeout)
  /\ WF_vars(DeadlinePasses)

FairSpec == Spec /\ Fairness

-----------------------------------------------------------------------------
(***************************************************************************)
(* Types of the mailbox state, the threads and the history.                *)
(***************************************************************************)
TypeOK ==
  /\ queue \in Seq(Entry)
  /\ queued_bytes \in Nat
  /\ accepting \in BOOLEAN
  /\ sender_count \in Nat
  /\ consumer_alive \in BOOLEAN
  /\ waiting_producers \in Nat
  /\ consumer_waiting \in BOOLEAN
  /\ counters \in [CounterNames -> Nat]
  /\ handles \in SUBSET Producers
  /\ pc \in [Producers -> ProducerPlaces]
  /\ holding \in [Producers -> Items \cup {NoItem}]
  /\ rpc \in ConsumerPlaces
  /\ log \in Seq(LogEntry)
  /\ received \in Seq(Items)
  /\ calls \in Nat

(***************************************************************************)
(* Both budgets hold whatever mix of try_send, send, receive and drop ran, *)
(* and the high-water marks metrics() reports never exceed them either.    *)
(***************************************************************************)
WithinBudget ==
  /\ Len(queue) <= MaxItems
  /\ queued_bytes <= MaxBytes
  /\ Len(queue) <= counters["high_water_items"]
  /\ queued_bytes <= counters["high_water_bytes"]
  /\ counters["high_water_items"] <= MaxItems
  /\ counters["high_water_bytes"] <= MaxBytes

(***************************************************************************)
(* Every admitted item and byte is delivered, discarded by the receiver's  *)
(* drop, or still queued, and counted exactly once: the saturating         *)
(* subtraction of dequeue never hides a byte.                              *)
(***************************************************************************)
Conservation ==
  /\ counters["enqueued_items"] = counters["dequeued_items"]
                                  + counters["discarded_items"] + Len(queue)
  /\ counters["enqueued_bytes"] = counters["dequeued_bytes"]
                                  + counters["discarded_bytes"] + queued_bytes

(***************************************************************************)
(* Items come out in the order in which the lock admitted them, none       *)
(* skipped and none twice, across closes and interleaved senders: what was *)
(* received, followed by what is queued, is a prefix of what was admitted, *)
(* and all of it until the receiver is dropped.                            *)
(***************************************************************************)
FifoDelivery ==
  /\ Len(received) + Len(queue) <= Len(log)
  /\ \A k \in 1..Len(received) : received[k] = log[k].value
  /\ \A k \in 1..Len(queue) :
       /\ queue[k].value = log[Len(received) + k].value
       /\ queue[k].reserved_bytes = log[Len(received) + k].reserved_bytes
  /\ consumer_alive => Len(received) + Len(queue) = Len(log)

(***************************************************************************)
(* The counters and gauges, maintained by scattered increments and         *)
(* decrements, say what happened: each send or try_send was admitted, was  *)
(* refused under exactly one rejection counter, or is still blocked inside *)
(* send; waiting_producers, consumer_waiting and sender_count are what the *)
(* threads are doing; and a mailbox with no sender left is closed.         *)
(***************************************************************************)
GaugesExact ==
  /\ calls = counters["enqueued_items"] + counters["full_rejections"]
             + counters["oversize_rejections"] + counters["closed_rejections"]
             + Cardinality(InSend)
  /\ waiting_producers = Cardinality(InSend)
  /\ consumer_waiting <=> rpc \in {"blocked", "woken", "timed", "timed_woken"}
  /\ sender_count = Cardinality(handles)
  /\ sender_count = 0 => ~accepting

(***************************************************************************)
(* No lost wake-up.  While a sender sleeps in send although its item fits  *)
(* or the mailbox is closed, some thread still owes notify_all on          *)
(* space_available; while the receiver sleeps although an item is queued   *)
(* or the mailbox is closed, some sender still owes it a notify of         *)
(* not_empty.  (A close through the receiver owes it none: it is awake.)   *)
(***************************************************************************)
NoLostWakeup ==
  /\ (\E p \in Producers : /\ pc[p] = "blocked"
                           /\ Closed \/ Admissible(retained_bytes[holding[p]]))
       => \/ rpc = "notify_space"
          \/ \E q \in Producers : pc[q] \in {"notify_all", "notify_space"}
  /\ rpc \in {"blocked", "timed"} /\ (queue # <<>> \/ ~accepting)
       => \E q \in Producers : pc[q] \in {"notify", "notify_all"}

(***************************************************************************)
(* Closing is final and admits nothing more, not even from a sender that   *)
(* was already blocked inside send when the mailbox closed.                *)
(***************************************************************************)
CloseIsFinal == [][~accepting => ~accepting' /\ log' = log]_vars

(***************************************************************************)
(* Sleeping callers return.  After a close every blocked send returns and  *)
(* a waiting receive returns: the worker's receiver.close() releases the   *)
(* reader it then joins.  And a receive that is asleep while something is  *)
(* queued returns it, whoever queued it and through whichever of the two   *)
(* receive calls it waits.                                                 *)
(***************************************************************************)
CallersReturn ==
  /\ ~accepting ~> InSend = {}
  /\ ~accepting /\ rpc \in {"blocked", "timed"} ~> rpc \in {"idle", "notify_space"}
  /\ queue # <<>> /\ rpc \in {"blocked", "timed"} ~> rpc = "notify_space"

=============================================================================
