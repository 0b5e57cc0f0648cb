-------------------------- MODULE PublicationProofs --------------------------
(***************************************************************************)
(* What a publication guarantees for every capacity of the effect mailbox, *)
(* every size of a drain and of a batch, and any number of revisions.      *)
(***************************************************************************)
EXTENDS Publication, SequenceTheorems, FiniteSetTheorems, TLAPS

(***************************************************************************)
(* Types of what the proofs look at.                                       *)
(***************************************************************************)
PubType ==
  /\ effects \in Seq(Effect) /\ batch \in Seq(Effect) /\ drained \in Seq(Effect)
  /\ latest \in Frame \cup {NoFrame} /\ held \in Frame \cup {NoFrame}
  /\ revision \in Revisions
  /\ next_sequence \in Nat /\ delivered \in Nat /\ dropped \in Nat
  /\ host_meta \in Metadata /\ worker_meta \in Metadata
  /\ notices \in Seq({"wake", "closed"})
  /\ taken \in 0..MaxRevision /\ unseen \subseteq Revisions

(***************************************************************************)
(* Where worker and host are: outside a publication nothing is to be sent, *)
(* outside a drain nothing is being drained, a batch has a revision to     *)
(* spare for the next one, and a Closed is behind the worker's end.        *)
(***************************************************************************)
Publishing == {"effects", "frame", "send", "signal", "wake"}

PlaceInv ==
  /\ wpc = "wake" => resume \in {"effects", "send"}
  /\ wpc \in {"frame", "send"} \/ (wpc = "wake" /\ resume = "send") => batch # <<>>
  /\ wpc \notin Publishing => batch = <<>> /\ held = NoFrame
  /\ ~final /\ (wpc \in Publishing \cup {"failed"}) => revision < MaxRevision
  /\ wpc \in {"run", "leave"} => ~final
  /\ hpc \notin DrainPlaces => drained = <<>>
  /\ pending_closed \/ (\E i \in 1..Len(notices) : notices[i] = "closed") => wpc = "gone"
  /\ hpc = "closed" => wpc = "gone" /\ ~HasWork

(***************************************************************************)
(* A frame published covers what it replaced, and an empty slot means that *)
(* the host took the last one.                                             *)
(***************************************************************************)
CoverInv == SkippedFramesCovered /\ (latest = NoFrame => unseen = {})

(***************************************************************************)
(* The frame held is of the current revision, no frame is of a later one,  *)
(* and until a batch has published its frame none is of its revision: only *)
(* the teardown may follow a batch that did not advance it.                *)
(***************************************************************************)
RevInv ==
  /\ held # NoFrame => held.revision = revision
  /\ latest # NoFrame => latest.revision \in unseen
  /\ \A r \in unseen \cup {taken} : r <= revision
  /\ ~final /\ (wpc = "run" \/ held # NoFrame) =>
       \A r \in unseen \cup {taken} : r < revision

-----------------------------------------------------------------------------
LEMMA MetaFacts ==
  /\ \A m, n \in Metadata : Overlay(m, n) \in Metadata
  /\ \A m, n, o \in Metadata : Overlay(Overlay(m, n), o) = Overlay(m, Overlay(n, o))
BY DEF Overlay, Metadata

LEMMA CoalescedFacts ==
  ASSUME NEW new \in Frame, NEW old \in Frame
  PROVE  /\ Coalesced(new, old) \in Frame
         /\ Coalesced(new, old).revision = new.revision
         /\ Coalesced(new, old).meta = Overlay(new.meta, old.meta)
         /\ Coalesced(new, old).full_repaint = TRUE
<1>1. new.meta \in Metadata /\ old.meta \in Metadata
  BY Zenon DEF Frame
<1>2. Overlay(new.meta, old.meta) \in Metadata
  BY <1>1, MetaFacts, Zenon
<1> QED BY <1>2, Zenon DEF Coalesced, Frame

LEMMA NewFrameType ==
  ASSUME NEW keys \in SUBSET MetaKeys, revision \in Revisions
  PROVE  NewFrame(keys) \in Frame /\ NewFrame(keys).revision = revision
<1>1. revision \in 0..MaxRevision /\ 0 \in 0..MaxRevision
  BY PublicationAssumption DEF Revisions
<1>2. [k \in MetaKeys |-> IF k \in keys THEN revision ELSE 0] \in Metadata
  BY <1>1, Zenon DEF Metadata
<1> QED BY <1>2, Zenon DEF NewFrame, Frame

LEMMA BeginType ==
  ASSUME PubType, NEW n \in 0..MaxBatch, NEW keys \in SUBSET MetaKeys, Begin(n, keys)
  PROVE  /\ batch' \in Seq(Effect) /\ Len(batch') = n
         /\ \A k \in 1..n : batch'[k].sequence = next_sequence + k - 1
         /\ held' \in Frame /\ held'.revision = revision
         /\ next_sequence' = next_sequence + n /\ next_sequence' \in Nat
         /\ wpc' = "effects"
         /\ UNCHANGED <<slot, mailboxes, host, history, resume, revision>>
<1>1. \A k \in 1..n : [revision |-> revision, sequence |-> next_sequence + k - 1] \in Effect
  BY DEF PubType, Effect
<1>2. n \in Nat
  BY PublicationAssumption
<1>3. batch' = [k \in 1..n |-> [revision |-> revision, sequence |-> next_sequence + k - 1]]
  BY Zenon DEF Begin
<1>4. batch' \in Seq(Effect) /\ Len(batch') = n
  BY <1>1, <1>2, <1>3
<1>5. \A k \in 1..n : batch'[k].sequence = next_sequence + k - 1
  BY <1>3, Zenon
<1>6. held' \in Frame /\ held'.revision = revision
  BY NewFrameType, Zenon DEF Begin, PubType
<1>7. next_sequence' = next_sequence + n /\ next_sequence' \in Nat
  BY <1>2 DEF Begin, PubType
<1>8. wpc' = "effects" /\ UNCHANGED <<slot, mailboxes, host, history, resume, revision>>
  BY Zenon DEF Begin
<1> QED BY <1>4, <1>5, <1>6, <1>7, <1>8, Zenon

-----------------------------------------------------------------------------
(***************************************************************************)
(* What one step of the worker or of the host does to the effects: they    *)
(* stay, move on by one, are issued, dropped or delivered.                 *)
(***************************************************************************)
Issued ==
  \E n \in 0..MaxBatch, keys \in SUBSET MetaKeys :
    wpc \in {"run", "leave"} /\ Begin(n, keys) /\ final' \in {final, TRUE}
      /\ (wpc = "leave" => final')
Admitted ==
  /\ batch # <<>> /\ effects' = Enqueued /\ batch' = Tail(batch)
  /\ UNCHANGED <<drained, delivered, dropped, next_sequence>>
Dropped == Abandon /\ UNCHANGED <<effects, drained, delivered, next_sequence>>
Received ==
  /\ effects # <<>> /\ drained' = Append(drained, Head(effects)) /\ effects' = Tail(effects)
  /\ UNCHANGED <<batch, delivered, dropped, next_sequence>>
Delivered ==
  /\ delivered' = delivered + Len(drained) /\ drained' = <<>>
  /\ UNCHANGED <<effects, batch, dropped, next_sequence>>
EffectsKept == UNCHANGED <<effects, batch, drained, delivered, dropped, next_sequence>>

LEMMA EffectSteps ==
  ASSUME [Next]_vars, PubType, PlaceInv
  PROVE  Issued \/ Admitted \/ Dropped \/ Received \/ Delivered \/ EffectsKept
<1>1. ASSUME NEW n \in 0..MaxBatch, NEW keys \in SUBSET MetaKeys,
             StartBatch(n, keys) \/ StartFinal(n, keys)
      PROVE  Issued \/ EffectsKept
  BY <1>1, Zenon DEF StartBatch, StartFinal, Issued, EffectsKept, mailboxes, host, history, seen
<1>2. CASE TrySend \/ Send
  <2>1. CASE Abandon /\ UNCHANGED effects
    BY <1>2, <2>1, Zenon DEF TrySend, Send, Dropped, host, seen
  <2>2. CASE UNCHANGED <<effects, batch, dropped>>
    BY <1>2, <2>2, Zenon DEF TrySend, Send, EffectsKept, host, seen
  <2>3. CASE effects' = Enqueued /\ batch' = Tail(batch) /\ UNCHANGED dropped
    <3>1. batch # <<>>
      BY <1>2, <2>3, Zenon DEF TrySend, Send, PubType, PlaceInv, Publishing, Enqueued
    <3> QED BY <1>2, <2>3, <3>1, Zenon DEF TrySend, Send, Admitted, host, seen
  <2> QED BY <1>2, <2>1, <2>2, <2>3, Zenon DEF TrySend, Send
<1>3. CASE SendWake
  BY <1>3, Zenon DEF SendWake, Dropped, EffectsKept, host, seen
<1>4. CASE Receive
  BY <1>4, Zenon DEF Receive, Received, EffectsKept, worker, history, seen
<1>5. CASE FinishDrain
  BY <1>5, Zenon DEF FinishDrain, EndDrain, Delivered, mailboxes, worker
<1>6. CASE Signal \/ PublishFrame \/ EndBatch \/ EndFinal \/ SendClosed
  BY <1>6, Zenon DEF Signal, PublishFrame, EndBatch, EndFinal, SendClosed, EffectsKept,
     mailboxes, host, history, seen
<1>7. CASE \/ HostContinue \/ HostNotice \/ Measure \/ TakeFrame \/ Shutdown
           \/ Joined \/ Reap \/ DiscardStale \/ UNCHANGED vars
  BY <1>7, Zenon DEF HostContinue, HostNotice, Measure, TakeFrame, Shutdown, Joined, Reap,
     DiscardStale, vars, EffectsKept, mailboxes, worker, host, history, seen
<1> QED
  BY <1>1, <1>2, <1>3, <1>4, <1>5, <1>6, <1>7, Zenon
     DEF Next, WorkerNext, HostNext, PublishStep, DrainStep

(***************************************************************************)
(* Moving the head of a queue to the end of the one before it.             *)
(***************************************************************************)
LEMMA ShiftHead ==
  ASSUME NEW S, NEW a \in Seq(S), NEW b \in Seq(S), b # <<>>
  PROVE  Append(a, Head(b)) \o Tail(b) = a \o b
<1> DEFINE h == Head(b)
           t == Tail(b)
<1>1. /\ h \in S /\ t \in Seq(S) /\ Len(t) = Len(b) - 1
      /\ \A i \in 1..Len(t) : t[i] = b[i + 1]
      /\ h = b[1] /\ Len(b) \in Nat \ {0}
  BY HeadTailProperties, EmptySeq
<1> HIDE DEF h, t
<1>2. <<h>> \in Seq(S) /\ Len(<<h>>) = 1 /\ <<h>>[1] = h
  BY <1>1
<1>3. <<h>> \o t = b
  <2> DEFINE u == <<h>> \o t
  <2>1. /\ u \in Seq(S) /\ Len(u) = 1 + Len(t)
        /\ \A i \in 1..1 + Len(t) : u[i] = IF i <= 1 THEN <<h>>[i] ELSE t[i - 1]
    BY <1>1, <1>2, ConcatProperties
  <2> HIDE DEF u
  <2>2. Len(u) = Len(b)
    BY <1>1, <2>1
  <2>3. \A i \in 1..Len(u) : u[i] = b[i]
    <3> TAKE i \in 1..Len(u)
    <3>1. CASE i = 1
      BY <1>1, <1>2, <2>1, <3>1
    <3>2. CASE i # 1
      <4>1. i - 1 \in 1..Len(t) /\ u[i] = t[i - 1]
        BY <1>1, <2>1, <3>2
      <4> QED BY <1>1, <4>1
    <3> QED BY <3>1, <3>2, Zenon
  <2> QED BY <2>1, <2>2, <2>3, SeqEqual, Zenon DEF u
<1>4. Append(a, h) = a \o <<h>>
  BY <1>1, AppendIsConcat, Zenon
<1>5. (a \o <<h>>) \o t = a \o (<<h>> \o t)
  <2> DEFINE w == <<h>>
  <2>1. w \in Seq(S) /\ t \in Seq(S)
    BY <1>1, <1>2, Zenon
  <2> HIDE DEF w
  <2>2. (a \o w) \o t = a \o (w \o t)
    BY <2>1, ConcatAssociative, SMTT(40)
  <2> QED BY <2>2, Zenon DEF w
<1> QED BY <1>3, <1>4, <1>5, Zenon DEF h, t

LEMMA AppendInside ==
  ASSUME NEW S, NEW a \in Seq(S), NEW b \in Seq(S), NEW x \in S
  PROVE  a \o Append(b, x) = Append(a \o b, x)
<1>1. a \o b \in Seq(S) /\ <<x>> \in Seq(S)
  BY ConcatProperties
<1>2. Append(b, x) = b \o <<x>> /\ Append(a \o b, x) = (a \o b) \o <<x>>
  BY <1>1, AppendIsConcat, Zenon
<1> QED BY <1>1, <1>2, ConcatAssociative

(***************************************************************************)
(* The order, as a property of the queue in flight, of what was delivered  *)
(* and of what was dropped; and what the steps do to such a queue.         *)
(***************************************************************************)
InOrder(flight, d, x) ==
  \A i \in 1..Len(flight) :
    /\ i > 1 => flight[i].sequence > flight[i-1].sequence
    /\ flight[i].sequence \in (d + i)..(d + i + x)

LEMMA OrderPrefix ==
  ASSUME NEW S, NEW f \in Seq(S), NEW g \in Seq(S), NEW d \in Nat, NEW x \in Nat,
         NEW y \in Nat, x <= y, InOrder(f \o g, d, x)
  PROVE  InOrder(f, d, y)
<1> DEFINE u == f \o g
<1>1. /\ Len(u) = Len(f) + Len(g) /\ Len(f) \in Nat /\ Len(g) \in Nat
      /\ \A i \in 1..Len(f) : u[i] = f[i]
  BY ConcatProperties, LenProperties
<1>2. InOrder(u, d, x)
  BY Zenon
<1> HIDE DEF u
<1> SUFFICES ASSUME NEW i \in 1..Len(f)
             PROVE  /\ i > 1 => f[i].sequence > f[i-1].sequence
                    /\ f[i].sequence \in (d + i)..(d + i + y)
  BY Zenon DEF InOrder
<1>3. /\ i > 1 => u[i].sequence > u[i-1].sequence
      /\ u[i].sequence \in (d + i)..(d + i + x)
  <2>1. i \in 1..Len(u)
    BY <1>1
  <2> QED BY <1>2, <2>1, Zenon DEF InOrder
<1>4. u[i] = f[i] /\ (i > 1 => u[i-1] = f[i-1])
  BY <1>1
<1> QED BY <1>3, <1>4, SMTT(40)

LEMMA OrderSuffix ==
  ASSUME NEW S, NEW f \in Seq(S), NEW g \in Seq(S), NEW d \in Nat, NEW x \in Nat,
         InOrder(f \o g, d, x)
  PROVE  InOrder(g, d + Len(f), x)
<1> DEFINE u == f \o g
           n == Len(f)
<1>1. /\ Len(u) = n + Len(g) /\ n \in Nat /\ Len(g) \in Nat
      /\ \A i \in 1..Len(g) : u[n + i] = g[i]
  BY ConcatProperties, LenProperties
<1>2. InOrder(u, d, x)
  BY Zenon
<1> HIDE DEF u, n
<1> SUFFICES ASSUME NEW i \in 1..Len(g)
             PROVE  /\ i > 1 => g[i].sequence > g[i-1].sequence
                    /\ g[i].sequence \in (d + n + i)..(d + n + i + x)
  BY Zenon DEF InOrder, n
<1>3. PICK j \in 1..Len(u) : j = n + i
  BY <1>1
<1>4. /\ j > 1 => u[j].sequence > u[j - 1].sequence
      /\ u[j].sequence \in (d + j)..(d + j + x)
  BY <1>2, Zenon DEF InOrder
<1>5. u[j] = g[i]
  BY <1>1, <1>3, Zenon
<1>6. i > 1 => u[j - 1] = g[i - 1]
  <2> SUFFICES ASSUME i > 1 PROVE u[j - 1] = g[i - 1]
    BY Zenon
  <2>1. i - 1 \in 1..Len(g) /\ n + (i - 1) = j - 1
    BY <1>1, <1>3
  <2> QED BY <1>1, <2>1, Zenon
<1>7. d + j = d + n + i /\ (i > 1 => j > 1)
  BY <1>1, <1>3
<1> QED BY <1>4, <1>5, <1>6, <1>7, Zenon

LEMMA OrderAppend ==
  ASSUME NEW S, NEW f \in Seq(S), NEW g \in Seq(S), NEW d \in Nat, NEW x \in Nat,
         InOrder(f, d, x),
         \A k \in 1..Len(g) : g[k].sequence = d + Len(f) + x + k
  PROVE  InOrder(f \o g, d, x)
<1> DEFINE u == f \o g
           n == Len(f)
<1>1. /\ Len(u) = n + Len(g) /\ n \in Nat /\ Len(g) \in Nat
      /\ \A i \in 1..n : u[i] = f[i]
      /\ \A i \in 1..Len(g) : u[n + i] = g[i]
  BY ConcatProperties, LenProperties, SMTT(40)
<1>2. \A k \in 1..Len(g) : g[k].sequence = d + n + x + k
  BY Zenon
<1> HIDE DEF u, n
<1> SUFFICES ASSUME NEW i \in 1..Len(u)
             PROVE  /\ i > 1 => u[i].sequence > u[i-1].sequence
                    /\ u[i].sequence \in (d + i)..(d + i + x)
  BY Zenon DEF InOrder, u
<1>3. CASE i <= n
  <2>1. /\ i > 1 => f[i].sequence > f[i-1].sequence
        /\ f[i].sequence \in (d + i)..(d + i + x)
    BY <1>1, <1>3 DEF InOrder, n
  <2>2. u[i] = f[i] /\ (i > 1 => u[i-1] = f[i-1])
    BY <1>1, <1>3
  <2> QED BY <2>1, <2>2, Zenon
<1>4. CASE i > n
  <2> DEFINE k == i - n
  <2>1. k \in 1..Len(g) /\ i = n + k
    BY <1>1, <1>4
  <2>2. u[i].sequence = d + n + x + k
    BY <1>1, <1>2, <2>1, Zenon
  <2>3. CASE i = n + 1 /\ i > 1
    <3>1. n \in 1..Len(f) /\ u[i - 1] = f[n]
      BY <1>1, <2>3 DEF n
    <3>2. f[n].sequence \in (d + n)..(d + n + x)
      BY <3>1, Zenon DEF InOrder
    <3>3. u[i - 1].sequence \in (d + n)..(d + n + x)
      BY <3>1, <3>2, Zenon
    <3>4. k = 1 /\ d + n + x + k = d + i + x
      BY <1>1, <2>1, <2>3
    <3>5. \A b \in (d + n)..(d + n + x) : d + i + x > b
      BY <1>1, <2>3
    <3>6. d + i + x \in (d + i)..(d + i + x)
      BY <1>1, <2>3
    <3> QED BY <2>2, <3>3, <3>4, <3>5, <3>6, Zenon
  <2>4. CASE i > n + 1
    <3>1. k - 1 \in 1..Len(g) /\ i - 1 = n + (k - 1)
      BY <1>1, <2>1, <2>4
    <3>2. u[i - 1].sequence = d + n + x + (k - 1)
      BY <1>1, <1>2, <3>1, Zenon
    <3>3. u[i].sequence = u[i - 1].sequence + 1
      BY <1>1, <2>1, <2>2, <3>2
    <3>4. u[i].sequence = d + i + x
      BY <1>1, <2>1, <2>2
    <3> HIDE DEF k
    <3>5. u[i - 1].sequence \in Int
      BY <1>1, <2>1, <3>2
    <3> QED BY <1>1, <3>3, <3>4, <3>5, SMTT(30)
  <2>5. CASE i = 1
    BY <1>1, <2>1, <2>2, <2>5
  <2> QED BY <1>1, <1>4, <2>3, <2>4, <2>5
<1> QED BY <1>1, <1>3, <1>4

-----------------------------------------------------------------------------
(***************************************************************************)
(* Drained, queued and unsent effects, grouped either way.                 *)
(***************************************************************************)
LEMMA Regroup ==
  ASSUME PubType
  PROVE  InFlight = drained \o (effects \o batch)
<1>1. drained \in Seq(Effect) /\ effects \in Seq(Effect) /\ batch \in Seq(Effect)
  BY Zenon DEF PubType
<1>2. (drained \o effects) \o batch = drained \o (effects \o batch)
  BY <1>1, ConcatAssociative, SMTT(30)
<1> QED BY <1>2, Zenon DEF InFlight

(***************************************************************************)
(* Every step keeps the effects in order.                                  *)
(***************************************************************************)
LEMMA FlightType ==
  ASSUME PubType
  PROVE  /\ drained \o effects \in Seq(Effect)
         /\ InFlight \in Seq(Effect)
         /\ Len(drained \o effects) = Len(drained) + Len(effects)
         /\ Len(InFlight) = Len(drained) + Len(effects) + Len(batch)
         /\ Len(drained) \in Nat /\ Len(effects) \in Nat /\ Len(batch) \in Nat
<1>1. drained \in Seq(Effect) /\ effects \in Seq(Effect) /\ batch \in Seq(Effect)
  BY Zenon DEF PubType
<1>2. /\ drained \o effects \in Seq(Effect)
      /\ Len(drained \o effects) = Len(drained) + Len(effects)
  BY <1>1, ConcatProperties, Zenon
<1>3. InFlight \in Seq(Effect) /\ Len(InFlight) = Len(drained \o effects) + Len(batch)
  BY <1>1, <1>2, ConcatProperties, Zenon DEF InFlight
<1> QED BY <1>1, <1>2, <1>3, LenProperties, Zenon

LEMMA OrderStep ==
  ASSUME [Next]_vars, PubType, PubType', PlaceInv, EffectsInOrder
  PROVE  EffectsInOrder'
<1> DEFINE p == drained \o effects
<1>1. /\ delivered + Len(InFlight) + dropped = next_sequence - 1
      /\ InOrder(InFlight, delivered, dropped)
  BY Zenon DEF EffectsInOrder, InOrder
<1>2. SUFFICES /\ delivered' + Len(InFlight') + dropped' = next_sequence' - 1
               /\ InOrder(InFlight', delivered', dropped')
  BY Zenon DEF EffectsInOrder, InOrder
<1>3. /\ drained \in Seq(Effect) /\ effects \in Seq(Effect) /\ batch \in Seq(Effect)
      /\ delivered \in Nat /\ dropped \in Nat /\ next_sequence \in Nat
      /\ drained' \in Seq(Effect) /\ effects' \in Seq(Effect) /\ batch' \in Seq(Effect)
  BY Zenon DEF PubType
<1>4. /\ p \in Seq(Effect) /\ Len(p) = Len(drained) + Len(effects)
      /\ InFlight = p \o batch /\ Len(InFlight) = Len(p) + Len(batch)
      /\ Len(drained) \in Nat /\ Len(effects) \in Nat /\ Len(batch) \in Nat
  BY FlightType, Zenon DEF InFlight
<1>5. CASE EffectsKept
  BY <1>1, <1>5, Zenon DEF EffectsKept, InFlight
<1>6. CASE Admitted
  <2>1. Head(batch) \in Effect
    BY <1>3, <1>6, HeadTailProperties, Zenon DEF Admitted
  <2>2. drained \o Append(effects, Head(batch)) = Append(p, Head(batch))
    BY <1>3, <2>1, AppendInside
  <2>3. Append(p, Head(batch)) \o Tail(batch) = p \o batch
    BY <1>3, <1>4, <1>6, ShiftHead, Zenon DEF Admitted
  <2>4. InFlight' = InFlight
    BY <1>4, <1>6, <2>2, <2>3, Zenon DEF Admitted, Enqueued, InFlight
  <2> QED BY <1>1, <1>6, <2>4, Zenon DEF Admitted
<1>7. CASE Received
  <2>1. drained' \o effects' = drained \o effects
    BY <1>3, <1>7, ShiftHead, Zenon DEF Received
  <2>2. InFlight' = InFlight
    BY <1>7, <2>1, Zenon DEF Received, InFlight
  <2> QED BY <1>1, <1>7, <2>2, Zenon DEF Received
<1>8. CASE Dropped
  <2>1. batch' = <<>> /\ dropped' = dropped + Len(batch)
        /\ UNCHANGED <<effects, drained, delivered, next_sequence>>
    BY <1>8, Zenon DEF Dropped, Abandon
  <2>2. InFlight' = p
    <3>1. InFlight' = p \o <<>>
      BY <2>1, Zenon DEF InFlight
    <3> QED BY <1>4, <3>1, ConcatEmptySeq, Zenon
  <2>3. InOrder(p, delivered, dropped + Len(batch))
    <3>1. InOrder(p \o batch, delivered, dropped)
      BY <1>1, <1>4, Zenon
    <3>2. dropped + Len(batch) \in Nat /\ dropped <= dropped + Len(batch)
      BY <1>3, <1>4
    <3> HIDE DEF p
    <3> QED BY <1>3, <1>4, <3>1, <3>2, OrderPrefix, Zenon
  <2>4. delivered' + Len(InFlight') + dropped' = next_sequence' - 1
    BY <1>1, <1>3, <1>4, <2>1, <2>2
  <2> QED BY <2>1, <2>2, <2>3, <2>4, Zenon
<1>9. CASE Delivered
  <2>1. /\ delivered' = delivered + Len(drained) /\ drained' = <<>>
        /\ UNCHANGED <<effects, batch, dropped, next_sequence>>
    BY <1>9, Zenon DEF Delivered
  <2> DEFINE q == effects \o batch
  <2>2. q \in Seq(Effect) /\ Len(q) = Len(effects) + Len(batch)
    BY <1>3, ConcatProperties, Zenon
  <2>3. InFlight = drained \o q
    BY Regroup, Zenon
  <2>4. InFlight' = q
    <3>1. InFlight' = (<<>> \o effects) \o batch
      BY <2>1, Zenon DEF InFlight
    <3>2. <<>> \o effects = effects
      BY <1>3, ConcatEmptySeq, Zenon
    <3> QED BY <3>1, <3>2, Zenon
  <2> HIDE DEF q
  <2>5. InOrder(q, delivered + Len(drained), dropped)
    <3>1. InOrder(drained \o q, delivered, dropped)
      BY <1>1, <2>3, Zenon
    <3> QED BY <1>3, <2>2, <3>1, OrderSuffix, Zenon
  <2>6. delivered' + Len(InFlight') + dropped' = next_sequence' - 1
    BY <1>1, <1>3, <1>4, <2>1, <2>2, <2>4
  <2> QED BY <2>1, <2>4, <2>5, <2>6, Zenon
<1>10. CASE Issued
  <2>1. PICK n \in 0..MaxBatch, keys \in SUBSET MetaKeys :
          wpc \in {"run", "leave"} /\ Begin(n, keys)
    BY <1>10, Zenon DEF Issued
  <2>2. /\ Len(batch') = n /\ n \in Nat
        /\ \A k \in 1..n : batch'[k].sequence = next_sequence + k - 1
        /\ next_sequence' = next_sequence + n
        /\ UNCHANGED <<effects, drained, delivered, dropped>>
    BY <2>1, BeginType, PublicationAssumption DEF mailboxes, host, history, seen
  <2>3. batch = <<>>
    BY <2>1, Zenon DEF PlaceInv, Publishing
  <2>4. InFlight = p /\ Len(batch) = 0
    BY <1>4, <2>3, ConcatEmptySeq, Zenon
  <2>5. InFlight' = p \o batch' /\ Len(InFlight') = Len(p) + n
    <3>1. InFlight' = p \o batch'
      BY <2>2, Zenon DEF InFlight
    <3>2. Len(p \o batch') = Len(p) + n
      BY <1>3, <1>4, <2>2, ConcatProperties, Zenon
    <3> QED BY <3>1, <3>2, Zenon
  <2> HIDE DEF p
  <2>6. next_sequence = delivered + Len(p) + dropped + 1 /\ Len(p) \in Nat
    BY <1>1, <1>3, <1>4, <2>4
  <2>7. \A k \in 1..Len(batch') : batch'[k].sequence = delivered + Len(p) + dropped + k
    BY <1>3, <2>2, <2>6
  <2>8. InOrder(p, delivered, dropped)
    BY <1>1, <2>4, Zenon
  <2>9. InOrder(p \o batch', delivered, dropped)
    BY <1>3, <1>4, <2>7, <2>8, OrderAppend, Zenon
  <2>10. delivered' + Len(InFlight') + dropped' = next_sequence' - 1
    BY <1>3, <2>2, <2>5, <2>6
  <2> QED BY <2>2, <2>5, <2>9, <2>10, Zenon
<1> QED BY <1>5, <1>6, <1>7, <1>8, <1>9, <1>10, EffectSteps, Zenon

-----------------------------------------------------------------------------
(***************************************************************************)
(* Every step keeps the types.                                             *)
(***************************************************************************)
LEMMA EffectsTyped ==
  ASSUME [Next]_vars, PubType, PlaceInv
  PROVE  /\ effects' \in Seq(Effect) /\ batch' \in Seq(Effect) /\ drained' \in Seq(Effect)
         /\ next_sequence' \in Nat /\ delivered' \in Nat /\ dropped' \in Nat
<1>1. /\ drained \in Seq(Effect) /\ effects \in Seq(Effect) /\ batch \in Seq(Effect)
      /\ delivered \in Nat /\ dropped \in Nat /\ next_sequence \in Nat
  BY Zenon DEF PubType
<1>2. Len(drained) \in Nat /\ Len(batch) \in Nat /\ <<>> \in Seq(Effect)
  BY <1>1, LenProperties
<1>3. CASE EffectsKept
  BY <1>1, <1>3, Zenon DEF EffectsKept
<1>4. CASE Admitted
  <2>1. Head(batch) \in Effect /\ Tail(batch) \in Seq(Effect)
    BY <1>1, <1>4, HeadTailProperties, Zenon DEF Admitted
  <2>2. Append(effects, Head(batch)) \in Seq(Effect)
    BY <1>1, <2>1, AppendProperties, Zenon
  <2> QED BY <1>1, <1>4, <2>1, <2>2, Zenon DEF Admitted, Enqueued
<1>5. CASE Received
  <2>1. Head(effects) \in Effect /\ Tail(effects) \in Seq(Effect)
    BY <1>1, <1>5, HeadTailProperties, Zenon DEF Received
  <2>2. Append(drained, Head(effects)) \in Seq(Effect)
    BY <1>1, <2>1, AppendProperties, Zenon
  <2> QED BY <1>1, <1>5, <2>1, <2>2, Zenon DEF Received
<1>6. CASE Dropped
  BY <1>1, <1>2, <1>6 DEF Dropped, Abandon
<1>7. CASE Delivered
  BY <1>1, <1>2, <1>7 DEF Delivered
<1>8. CASE Issued
  <2>1. PICK n \in 0..MaxBatch, keys \in SUBSET MetaKeys : Begin(n, keys)
    BY <1>8, Zenon DEF Issued
  <2> QED BY <1>1, <2>1, BeginType, Zenon DEF mailboxes, host, history, seen
<1> QED BY <1>3, <1>4, <1>5, <1>6, <1>7, <1>8, EffectSteps, Zenon

LEMMA NoticesTyped ==
  ASSUME [Next]_vars, PubType
  PROVE  notices' \in Seq({"wake", "closed"})
<1> DEFINE N == {"wake", "closed"}
<1>1. notices \in Seq(N)
  BY Zenon DEF PubType
<1>2. Append(notices, "wake") \in Seq(N) /\ Append(notices, "closed") \in Seq(N)
  BY <1>1, AppendProperties, Zenon
<1>3. notices # <<>> => Tail(notices) \in Seq(N)
  BY <1>1, HeadTailProperties, Zenon
<1> HIDE DEF N
<1>4. notices' \in {notices, Append(notices, "wake"), Append(notices, "closed")}
        \/ (notices # <<>> /\ notices' = Tail(notices))
  BY Zenon
     DEF Next, WorkerNext, HostNext, PublishStep, DrainStep, StartBatch, StartFinal, Begin,
     TrySend, Send, Signal, PublishFrame, SendWake, EndBatch, EndFinal, SendClosed,
     HostContinue, HostNotice, Receive, Measure, TakeFrame, FinishDrain, EndDrain, Shutdown,
     Joined, Reap, DiscardStale, vars, mailboxes
<1> QED BY <1>1, <1>2, <1>3, <1>4, Zenon DEF N

(***************************************************************************)
(* What a step does to the frames: it publishes one, takes one or leaves   *)
(* them; and to the frame the worker holds.                                *)
(***************************************************************************)
FramePublished ==
  /\ held # NoFrame /\ held' = NoFrame
  /\ latest' = IF latest = NoFrame THEN held ELSE Coalesced(held, latest)
  /\ worker_meta' = Overlay(held.meta, worker_meta)
  /\ unseen' = unseen \cup {held.revision}
  /\ wpc \in {"effects", "frame"} /\ wpc' \in Publishing
  /\ UNCHANGED <<taken, host_meta, revision, final>>
FrameTaken ==
  /\ latest # NoFrame /\ latest' = NoFrame
  /\ taken' = latest.revision
  /\ host_meta' = Overlay(latest.meta, host_meta)
  /\ unseen' = {}
  /\ UNCHANGED <<worker_meta, wpc, held, revision, final>>
FramesKept == UNCHANGED <<latest, taken, host_meta, worker_meta, unseen>>

LEMMA FrameSteps ==
  ASSUME [Next]_vars
  PROVE  FramePublished \/ FrameTaken \/ FramesKept
<1>1. CASE PublishFrame
  BY <1>1, Zenon DEF PublishFrame, SignalWork, FramePublished, Publishing, host
<1>2. CASE TakeFrame
  BY <1>2, Zenon DEF TakeFrame, FrameTaken, FramesKept, worker
<1>3. ASSUME NEW n \in 0..MaxBatch, NEW keys \in SUBSET MetaKeys,
             StartBatch(n, keys) \/ StartFinal(n, keys)
      PROVE  FramesKept
  BY <1>3, Zenon DEF StartBatch, StartFinal, Begin, FramesKept, slot, history, seen
<1>4. CASE \/ TrySend \/ Send \/ Signal \/ SendWake \/ EndBatch \/ EndFinal \/ SendClosed
  BY <1>4, Zenon
     DEF TrySend, Send, Signal, SendWake, EndBatch, EndFinal, SendClosed, FramesKept,
     slot, history, seen
<1>5. CASE \/ HostContinue \/ HostNotice \/ Receive \/ Measure \/ FinishDrain \/ Shutdown
           \/ Joined \/ Reap \/ DiscardStale \/ UNCHANGED vars
  BY <1>5, Zenon
     DEF HostContinue, HostNotice, Receive, Measure, FinishDrain, EndDrain, Shutdown,
     Joined, Reap, DiscardStale, vars, FramesKept, slot, history, seen
<1> QED
  BY <1>1, <1>2, <1>3, <1>4, <1>5, Zenon DEF Next, WorkerNext, HostNext, PublishStep, DrainStep

LEMMA FramesTyped ==
  ASSUME [Next]_vars, PubType
  PROVE  /\ latest' \in Frame \cup {NoFrame}
         /\ host_meta' \in Metadata /\ worker_meta' \in Metadata
         /\ taken' \in 0..MaxRevision /\ unseen' \subseteq Revisions
<1>1. /\ latest \in Frame \cup {NoFrame} /\ held \in Frame \cup {NoFrame}
      /\ host_meta \in Metadata /\ worker_meta \in Metadata
      /\ taken \in 0..MaxRevision /\ unseen \subseteq Revisions
  BY Zenon DEF PubType
<1>2. \A f \in Frame : f.meta \in Metadata /\ f.revision \in Revisions
  BY Zenon DEF Frame
<1>3. Revisions \subseteq 0..MaxRevision
  BY PublicationAssumption DEF Revisions
<1>4. CASE FramePublished
  <2>1. held \in Frame /\ latest' \in Frame
    BY <1>1, <1>4, CoalescedFacts, Zenon DEF FramePublished
  <2> QED BY <1>1, <1>2, <1>4, <2>1, MetaFacts, Zenon DEF FramePublished
<1>5. CASE FrameTaken
  BY <1>1, <1>2, <1>3, <1>5, MetaFacts, Zenon DEF FrameTaken
<1>6. CASE FramesKept
  BY <1>1, <1>6, Zenon DEF FramesKept
<1> QED BY <1>4, <1>5, <1>6, FrameSteps, Zenon

-----------------------------------------------------------------------------
(***************************************************************************)
(* Every step keeps worker and host in their places, and the revision and  *)
(* the held frame typed.                                                   *)
(***************************************************************************)
ClosedSent == \E i \in 1..Len(notices) : notices[i] = "closed"

LEMMA NoticeFacts ==
  ASSUME PubType
  PROVE  /\ notices' = notices => (ClosedSent' <=> ClosedSent)
         /\ notices' = Append(notices, "wake") /\ ClosedSent' => ClosedSent
         /\ notices # <<>> /\ notices' = Tail(notices) /\ ClosedSent' => ClosedSent
         /\ notices # <<>> /\ Head(notices) # "wake" => Head(notices) = "closed" /\ ClosedSent
<1> DEFINE N == {"wake", "closed"}
<1>1. notices \in Seq(N)
  BY Zenon DEF PubType
<1>2. notices' = notices => (ClosedSent' <=> ClosedSent)
  BY Zenon DEF ClosedSent
<1>3. ASSUME notices' = Append(notices, "wake"), ClosedSent'
      PROVE  ClosedSent
  <2>1. /\ Len(notices') = Len(notices) + 1 /\ Len(notices) \in Nat
        /\ notices'[Len(notices) + 1] = "wake"
        /\ \A i \in 1..Len(notices) : notices'[i] = notices[i]
    BY <1>1, <1>3, AppendProperties, LenProperties
  <2>2. PICK i \in 1..Len(notices') : notices'[i] = "closed"
    BY <1>3, Zenon DEF ClosedSent
  <2>3. i \in 1..Len(notices)
    BY <2>1, <2>2
  <2> QED BY <2>1, <2>2, <2>3, Zenon DEF ClosedSent
<1>4. ASSUME notices # <<>>, notices' = Tail(notices), ClosedSent'
      PROVE  ClosedSent
  <2>1. /\ Len(notices') = Len(notices) - 1 /\ Len(notices) \in Nat
        /\ \A i \in 1..Len(notices') : notices'[i] = notices[i + 1]
    BY <1>1, <1>4, HeadTailProperties, LenProperties, Zenon
  <2>2. PICK i \in 1..Len(notices') : notices'[i] = "closed"
    BY <1>4, Zenon DEF ClosedSent
  <2>3. i + 1 \in 1..Len(notices) /\ notices[i + 1] = "closed"
    BY <2>1, <2>2
  <2> QED BY <2>3, Zenon DEF ClosedSent
<1>5. ASSUME notices # <<>>, Head(notices) # "wake"
      PROVE  Head(notices) = "closed" /\ ClosedSent
  <2>1. Head(notices) \in N /\ Head(notices) = notices[1] /\ 1 \in 1..Len(notices)
    BY <1>1, <1>5, HeadTailProperties, EmptySeq, LenProperties
  <2> QED BY <1>5, <2>1, Zenon DEF ClosedSent
<1> QED BY <1>2, <1>3, <1>4, <1>5, Zenon

LEMMA WorkerPlaced ==
  ASSUME [Next]_vars, PubType, PlaceInv
  PROVE  /\ wpc' = "wake" => resume' \in {"effects", "send"}
         /\ wpc' \in {"frame", "send"} \/ (wpc' = "wake" /\ resume' = "send") => batch' # <<>>
         /\ wpc' \notin Publishing => batch' = <<>> /\ held' = NoFrame
         /\ ~final' /\ (wpc' \in Publishing \cup {"failed"}) => revision' < MaxRevision
         /\ wpc' \in {"run", "leave"} => ~final'
         /\ revision' \in Revisions /\ held' \in Frame \cup {NoFrame}
<1> DEFINE Goal == /\ wpc' = "wake" => resume' \in {"effects", "send"}
                   /\ wpc' \in {"frame", "send"} \/ (wpc' = "wake" /\ resume' = "send")
                        => batch' # <<>>
                   /\ wpc' \notin Publishing => batch' = <<>> /\ held' = NoFrame
                   /\ ~final' /\ (wpc' \in Publishing \cup {"failed"}) => revision' < MaxRevision
                   /\ wpc' \in {"run", "leave"} => ~final'
                   /\ revision' \in Revisions /\ held' \in Frame \cup {NoFrame}
<1>t. revision \in Revisions /\ held \in Frame \cup {NoFrame}
  BY Zenon DEF PubType
<1>1. ASSUME NEW n \in 0..MaxBatch, NEW keys \in SUBSET MetaKeys,
             StartBatch(n, keys) \/ StartFinal(n, keys)
      PROVE  Goal
  <2>1. CASE Begin(n, keys)
    BY <1>1, <1>t, <2>1, BeginType, Zenon DEF StartBatch, StartFinal, PlaceInv, Publishing
  <2>2. CASE StartFinal(n, keys) /\ ~Begin(n, keys)
    BY <1>t, <2>2, Zenon DEF StartFinal, PlaceInv, Publishing
  <2> QED BY <1>1, <2>1, <2>2, Zenon DEF StartBatch
<1>2. CASE TrySend \/ Send
  BY <1>t, <1>2, Zenon DEF TrySend, Send, Abandon, PlaceInv, Publishing
<1>3. CASE Signal
  BY <1>t, <1>3, Zenon DEF Signal, SignalWork, PlaceInv, Publishing
<1>4. CASE PublishFrame
  BY <1>t, <1>4, Zenon DEF PublishFrame, SignalWork, PlaceInv, Publishing
<1>5. CASE SendWake
  BY <1>t, <1>5, Zenon DEF SendWake, Abandon, PlaceInv, Publishing
<1>6. CASE EndBatch
  <2>1. revision' \in Revisions
    BY <1>t, <1>6, PublicationAssumption
       DEF EndBatch, NextRevision, PlaceInv, Publishing, Revisions
  <2> QED BY <1>t, <1>6, <2>1, Zenon DEF EndBatch, PlaceInv, Publishing
<1>7. CASE EndFinal \/ SendClosed
  BY <1>t, <1>7, Zenon DEF EndFinal, SendClosed, PlaceInv, Publishing
<1>8. CASE HostNext \/ UNCHANGED vars
  <2>1. UNCHANGED <<wpc, resume, revision, batch, held, final>>
    BY <1>8, Zenon
       DEF HostNext, DrainStep, HostContinue, HostNotice, Receive, Measure, TakeFrame,
       FinishDrain, EndDrain, Shutdown, Joined, Reap, DiscardStale, vars, worker
  <2> QED BY <1>t, <2>1, Zenon DEF PlaceInv
<1> QED
  BY <1>1, <1>2, <1>3, <1>4, <1>5, <1>6, <1>7, <1>8, Zenon DEF Next, WorkerNext, PublishStep

LEMMA HostPlaced ==
  ASSUME [Next]_vars, PubType, PlaceInv
  PROVE  /\ hpc' \notin DrainPlaces => drained' = <<>>
         /\ pending_closed' \/ ClosedSent' => wpc' = "gone"
         /\ hpc' = "closed" => wpc' = "gone" /\ ~HasWork'
<1>p. /\ hpc \notin DrainPlaces => drained = <<>>
      /\ pending_closed \/ ClosedSent => wpc = "gone"
      /\ hpc = "closed" => wpc = "gone" /\ ~HasWork
  BY Zenon DEF PlaceInv, ClosedSent
<1>1. CASE WorkerNext
  <2>1. wpc # "gone" /\ UNCHANGED <<hpc, drained, pending_closed>>
    BY <1>1, Zenon
       DEF WorkerNext, PublishStep, StartBatch, StartFinal, Begin, TrySend, Send, Signal,
       PublishFrame, SendWake, EndBatch, EndFinal, SendClosed, host
  <2>2. ~pending_closed /\ ~ClosedSent /\ hpc # "closed"
    BY <1>p, <2>1, Zenon
  <2>3. CASE SendClosed
    BY <1>p, <2>1, <2>2, <2>3, Zenon DEF SendClosed
  <2>4. CASE ~SendClosed
    <3>1. notices' = notices \/ notices' = Append(notices, "wake")
      BY <1>1, <2>4, Zenon
         DEF WorkerNext, PublishStep, StartBatch, StartFinal, Begin, TrySend, Send,
         Signal, PublishFrame, SendWake, EndBatch, EndFinal, mailboxes
    <3>2. ~ClosedSent'
      BY <2>2, <3>1, NoticeFacts, Zenon
    <3> QED BY <1>p, <2>1, <2>2, <3>2, Zenon
  <2> QED BY <2>3, <2>4, Zenon
<1>2. CASE HostNotice
  <2>1. UNCHANGED <<wpc, drained, latest, effects>> /\ hpc = "idle"
        /\ (HasWork' <=> HasWork) /\ hpc' \in {"receive", "closed"}
    BY <1>2, Zenon DEF HostNotice, worker, slot, HasWork
  <2>2. ClosedSent' => ClosedSent
    BY <1>2, NoticeFacts, Zenon DEF HostNotice
  <2>3. pending_closed' => wpc' = "gone"
    BY <1>p, <1>2, <2>1, NoticeFacts, Zenon DEF HostNotice
  <2>4. hpc' = "closed" => wpc' = "gone" /\ ~HasWork'
    BY <1>p, <1>2, <2>1, NoticeFacts, Zenon DEF HostNotice
  <2> QED BY <1>p, <2>1, <2>2, <2>3, <2>4, Zenon DEF DrainPlaces
<1>3. CASE Receive \/ Measure \/ TakeFrame \/ FinishDrain
  <2>1. /\ UNCHANGED <<wpc, notices, pending_closed>> /\ hpc' # "closed"
        /\ (hpc' \notin DrainPlaces => drained' = <<>>)
    BY <1>3, Zenon
       DEF Receive, Measure, TakeFrame, FinishDrain, EndDrain, DrainPlaces, worker, mailboxes
  <2> QED BY <1>p, <2>1, NoticeFacts, Zenon
<1>4. CASE HostContinue \/ Shutdown \/ Joined \/ Reap
  <2>1. /\ UNCHANGED <<wpc, notices, pending_closed, drained>> /\ hpc' # "closed"
        /\ hpc \notin DrainPlaces
    BY <1>4, Zenon DEF HostContinue, Shutdown, Joined, Reap, DrainPlaces, worker, mailboxes
  <2> QED BY <1>p, <2>1, NoticeFacts, Zenon
<1>5. CASE DiscardStale
  <2>1. UNCHANGED <<wpc, hpc, drained, pending_closed>> /\ hpc = "reaped"
    BY <1>5, Zenon DEF DiscardStale, worker, host
  <2>2. ClosedSent' => ClosedSent
    BY <1>5, NoticeFacts, Zenon DEF DiscardStale
  <2> QED BY <1>p, <2>1, <2>2, Zenon
<1>6. CASE UNCHANGED vars
  <2>1. UNCHANGED <<wpc, hpc, drained, pending_closed, notices, latest, effects>>
    BY <1>6, Zenon DEF vars, worker, host, slot, mailboxes
  <2> QED BY <1>p, <2>1, NoticeFacts, Zenon DEF HasWork
<1> QED BY <1>1, <1>2, <1>3, <1>4, <1>5, <1>6, Zenon DEF Next, HostNext, DrainStep

-----------------------------------------------------------------------------
(***************************************************************************)
(* Every step keeps the waiting frame covering what it replaced.           *)
(***************************************************************************)
LEMMA CoverStep ==
  ASSUME [Next]_vars, PubType, CoverInv
  PROVE  CoverInv'
<1>1. /\ latest \in Frame \cup {NoFrame} /\ held \in Frame \cup {NoFrame}
      /\ host_meta \in Metadata /\ worker_meta \in Metadata
      /\ \A f \in Frame : f.meta \in Metadata /\ f # NoFrame
  BY NoFrameAssumption, Zenon DEF PubType, Frame
<1>2. CASE FramePublished
  <2>1. held \in Frame /\ UNCHANGED host_meta
    BY <1>1, <1>2, Zenon DEF FramePublished
  <2>2. CASE latest = NoFrame
    <3>1. latest' = held /\ unseen' = {held.revision} /\ worker_meta = host_meta
      BY <1>2, <2>2, Zenon DEF FramePublished, CoverInv, SkippedFramesCovered
    <3>2. latest' # NoFrame /\ worker_meta' = Overlay(latest'.meta, host_meta')
      BY <1>1, <1>2, <2>1, <3>1, Zenon DEF FramePublished
    <3> QED BY <3>1, <3>2, Zenon DEF CoverInv, SkippedFramesCovered
  <2>3. CASE latest # NoFrame
    <3>1. /\ latest' \in Frame /\ latest'.full_repaint = TRUE
          /\ latest'.meta = Overlay(held.meta, latest.meta)
      BY <1>1, <1>2, <2>1, <2>3, CoalescedFacts, Zenon DEF FramePublished
    <3>2. worker_meta = Overlay(latest.meta, host_meta)
      BY <2>3, Zenon DEF CoverInv, SkippedFramesCovered
    <3>3. worker_meta' = Overlay(held.meta, Overlay(latest.meta, host_meta))
      BY <1>2, <3>2, Zenon DEF FramePublished
    <3>4. held.meta \in Metadata /\ latest.meta \in Metadata
      BY <1>1, <2>1, <2>3, Zenon
    <3>5. Overlay(Overlay(held.meta, latest.meta), host_meta)
            = Overlay(held.meta, Overlay(latest.meta, host_meta))
      BY <1>1, <3>4, MetaFacts, ZenonT(30)
    <3>6. latest' # NoFrame /\ worker_meta' = Overlay(latest'.meta, host_meta')
      BY <1>1, <2>1, <3>1, <3>3, <3>5, Zenon
    <3> QED BY <3>1, <3>6, Zenon DEF CoverInv, SkippedFramesCovered
  <2> QED BY <2>2, <2>3, Zenon
<1>3. CASE FrameTaken
  BY <1>3, Zenon DEF FrameTaken, CoverInv, SkippedFramesCovered
<1>4. CASE FramesKept
  BY <1>4, Zenon DEF FramesKept, CoverInv, SkippedFramesCovered
<1> QED BY <1>2, <1>3, <1>4, FrameSteps, Zenon

(***************************************************************************)
(* Every step keeps the frames behind the worker's revision.               *)
(***************************************************************************)
LEMMA RevisionStep ==
  ASSUME [Next]_vars, PubType, PlaceInv, RevInv
  PROVE  RevInv'
<1>1. /\ revision \in Int /\ latest \in Frame \cup {NoFrame} /\ held \in Frame \cup {NoFrame}
      /\ \A r \in unseen \cup {taken} : r \in Int
  BY PublicationAssumption DEF PubType, Revisions
<1>2. CASE FramePublished
  <2>1. held \in Frame /\ held.revision = revision
    BY <1>1, <1>2, Zenon DEF FramePublished, RevInv
  <2>2. latest'.revision = revision
    BY <1>1, <1>2, <2>1, CoalescedFacts, Zenon DEF FramePublished
  <2>3. unseen' = unseen \cup {revision} /\ UNCHANGED <<taken, revision>> /\ held' = NoFrame
        /\ wpc' # "run"
    BY <1>2, <2>1, Zenon DEF FramePublished, Publishing
  <2> QED BY <1>1, <2>2, <2>3 DEF RevInv
<1>3. CASE FrameTaken
  BY <1>1, <1>3, Zenon DEF FrameTaken, RevInv
<1>4. CASE FramesKept
  <2>u. UNCHANGED <<latest, taken, unseen>>
    BY <1>4, Zenon DEF FramesKept
  <2>1. CASE UNCHANGED <<wpc, held, revision, final>>
    BY <2>u, <2>1, Zenon DEF RevInv
  <2>2. ASSUME NEW n \in 0..MaxBatch, NEW keys \in SUBSET MetaKeys,
               StartBatch(n, keys) \/ StartFinal(n, keys)
        PROVE  RevInv'
    <3>1. CASE Begin(n, keys)
      <4>1. held'.revision = revision' /\ revision' = revision /\ wpc' = "effects"
        BY <3>1, BeginType, Zenon
      <4>2. ~final' => ~final /\ wpc = "run"
        BY <2>2, Zenon DEF StartBatch, StartFinal
      <4> QED BY <2>u, <4>1, <4>2, Zenon DEF RevInv
    <3>2. CASE StartFinal(n, keys) /\ ~Begin(n, keys)
      BY <2>u, <3>2, Zenon DEF StartFinal, RevInv
    <3> QED BY <2>2, <3>1, <3>2, Zenon DEF StartBatch
  <2>3. CASE TrySend \/ Send \/ SendWake
    <3>1. held' \in {held, NoFrame} /\ UNCHANGED <<revision, final>> /\ wpc' # "run"
      BY <2>3, Zenon DEF TrySend, Send, SendWake, Abandon, PlaceInv
    <3> QED BY <2>u, <3>1, Zenon DEF RevInv
  <2>4. CASE Signal \/ EndFinal \/ SendClosed
    <3>1. UNCHANGED <<held, revision, final>> /\ wpc' # "run"
      BY <2>4, Zenon DEF Signal, SignalWork, EndFinal, SendClosed
    <3> QED BY <2>u, <3>1, Zenon DEF RevInv
  <2>5. CASE EndBatch
    <3>1. held' = NoFrame
      BY <2>5, Zenon DEF EndBatch, PlaceInv, Publishing
    <3>2. revision' = revision + 1 \/ (revision' = revision /\ wpc' # "run")
      BY <2>5, Zenon DEF EndBatch, NextRevision
    <3> QED BY <1>1, <2>u, <3>1, <3>2 DEF RevInv
  <2>6. CASE PublishFrame
    <3>1. held' = NoFrame /\ UNCHANGED <<revision, final>> /\ wpc' # "run"
      BY <2>6, Zenon DEF PublishFrame, SignalWork
    <3> QED BY <2>u, <3>1, Zenon DEF RevInv
  <2>7. CASE HostNext \/ UNCHANGED vars
    <3>1. UNCHANGED <<wpc, held, revision, final>>
      BY <2>7, Zenon
         DEF HostNext, DrainStep, HostContinue, HostNotice, Receive, Measure, TakeFrame,
         FinishDrain, EndDrain, Shutdown, Joined, Reap, DiscardStale, vars, worker
    <3> QED BY <2>1, <3>1, Zenon
  <2> QED BY <2>2, <2>3, <2>4, <2>5, <2>6, <2>7, Zenon DEF Next, WorkerNext, PublishStep
<1> QED BY <1>2, <1>3, <1>4, FrameSteps, Zenon

-----------------------------------------------------------------------------
PubInv == PubType /\ PlaceInv /\ EffectsInOrder /\ CoverInv /\ RevInv

LEMMA PubInit == Init => PubInv
<1> SUFFICES ASSUME Init PROVE PubInv
  BY Zenon
<1>1. /\ effects = <<>> /\ batch = <<>> /\ drained = <<>> /\ notices = <<>>
      /\ latest = NoFrame /\ held = NoFrame /\ revision = 1 /\ next_sequence = 1
      /\ delivered = 0 /\ dropped = 0 /\ taken = 0 /\ unseen = {}
      /\ wpc = "run" /\ hpc = "idle" /\ pending_closed = FALSE /\ final = FALSE
      /\ host_meta = [k \in MetaKeys |-> 0] /\ worker_meta = host_meta
  BY Zenon DEF Init
<1>2. host_meta \in Metadata
  BY <1>1, PublicationAssumption DEF Metadata
<1>3. PubType
  BY <1>1, <1>2, PublicationAssumption DEF PubType, Revisions
<1>4. PlaceInv
  BY <1>1 DEF PlaceInv, Publishing, DrainPlaces
<1>5. EffectsInOrder
  <2>1. Len(InFlight) = 0
    BY <1>1, <1>3, FlightType
  <2> QED BY <1>1, <2>1 DEF EffectsInOrder
<1>6. CoverInv
  BY <1>1, Zenon DEF CoverInv, SkippedFramesCovered
<1>7. RevInv
  BY <1>1 DEF RevInv
<1> QED BY <1>3, <1>4, <1>5, <1>6, <1>7, Zenon DEF PubInv

LEMMA PubStep == PubInv /\ [Next]_vars => PubInv'
<1> SUFFICES ASSUME PubType, PlaceInv, EffectsInOrder, CoverInv, RevInv, [Next]_vars
             PROVE  PubInv'
  BY Zenon DEF PubInv
<1>1. PubType'
  BY EffectsTyped, NoticesTyped, FramesTyped, WorkerPlaced, Zenon DEF PubType
<1>2. PlaceInv'
  BY WorkerPlaced, HostPlaced, Zenon DEF PlaceInv, ClosedSent
<1> QED BY <1>1, <1>2, OrderStep, CoverStep, RevisionStep, Zenon DEF PubInv

(***************************************************************************)
(* Host effects are neither lost, repeated nor reordered, whatever the     *)
(* mailbox's capacity and the sizes of batches and drains                  *)
(* (PanePublication::publish, drain).                                      *)
(***************************************************************************)
THEOREM EffectsNeverReordered == Spec => []EffectsInOrder
<1>1. PubInv => EffectsInOrder
  BY Zenon DEF PubInv
<1> QED BY <1>1, PubInit, PubStep, PTL DEF Spec

(***************************************************************************)
(* A frame the host never took is covered by the one that replaced it      *)
(* (PresentationFrame::coalesce_replaced).                                 *)
(***************************************************************************)
THEOREM ReplacedFramesCovered == Spec => []SkippedFramesCovered
<1>1. PubInv => SkippedFramesCovered
  BY Zenon DEF PubInv, CoverInv
<1> QED BY <1>1, PubInit, PubStep, PTL DEF Spec

(***************************************************************************)
(* The host hears Closed only after it drained everything the generation   *)
(* published (RuntimeHub::try_recv_notice).                                *)
(***************************************************************************)
THEOREM ClosedComesLast == Spec => []ClosedAfterDrain
<1>1. PubInv => ClosedAfterDrain
  <2> SUFFICES ASSUME PubInv, hpc = "closed"
               PROVE  /\ delivered + dropped = next_sequence - 1
                      /\ unseen = {} /\ host_meta = worker_meta
    BY Zenon DEF ClosedAfterDrain
  <2>1. batch = <<>> /\ drained = <<>> /\ effects = <<>> /\ latest = NoFrame
    BY Zenon DEF PubInv, PlaceInv, HasWork, Publishing, DrainPlaces
  <2>2. Len(InFlight) = 0
    BY <2>1, FlightType DEF PubInv
  <2>3. delivered + dropped = next_sequence - 1
    BY <2>2 DEF PubInv, PubType, EffectsInOrder
  <2> QED BY <2>1, <2>3, Zenon DEF PubInv, CoverInv, SkippedFramesCovered
<1> QED BY <1>1, PubInit, PubStep, PTL DEF Spec

(***************************************************************************)
(* Frames carry rising revisions, but for the one the teardown may publish *)
(* under the revision of a failed batch (run_worker).                      *)
(***************************************************************************)
THEOREM RevisionsNeverFallBack == Spec => RevisionsAdvance
<1> DEFINE Advance ==
      latest' \notin {NoFrame, latest} =>
        \A r \in unseen \cup {taken} :
          latest'.revision > r \/ (final /\ latest'.revision = r)
<1>1. PubInv /\ [Next]_vars => [Advance]_vars
  <2> SUFFICES ASSUME PubType, RevInv, [Next]_vars, latest' \notin {NoFrame, latest}
               PROVE  \A r \in unseen \cup {taken} :
                        latest'.revision > r \/ (final /\ latest'.revision = r)
    BY Zenon DEF PubInv
  <2>1. FramePublished
    BY FrameSteps, Zenon DEF FrameTaken, FramesKept
  <2>2. latest'.revision = revision /\ held # NoFrame
    BY <2>1, CoalescedFacts, Zenon DEF FramePublished, RevInv, PubType
  <2>3. revision \in Int /\ \A r \in unseen \cup {taken} : r \in Int
    BY PublicationAssumption DEF PubType, Revisions
  <2> QED BY <2>2, <2>3 DEF RevInv
<1> QED BY <1>1, PubInit, PubStep, PTL DEF Spec, RevisionsAdvance

-----------------------------------------------------------------------------
(***************************************************************************)
(* The flags and places that the token depends on, and the rest of the     *)
(* types.                                                                  *)
(***************************************************************************)
FlagType ==
  /\ effects_open \in BOOLEAN /\ wake_pending \in BOOLEAN
  /\ continuation_scheduled \in BOOLEAN /\ notices_open \in BOOLEAN
  /\ failed \in BOOLEAN /\ final \in BOOLEAN /\ work_remains \in BOOLEAN
  /\ continuation \in BOOLEAN /\ pending_closed \in BOOLEAN

PlaceType ==
  /\ wpc \in WorkerPlaces /\ hpc \in HostPlaces
  /\ resume \in {"run", "effects", "send"}
  /\ frame \in Frame \cup {NoFrame}
  /\ Len(effects) <= EffectCap /\ Len(drained) <= MaxEffects

LEMMA FlagStep ==
  ASSUME FlagType, [Next]_vars
  PROVE  FlagType'
<1>1. CASE WorkerNext
  <2>1. UNCHANGED <<continuation, pending_closed, work_remains, notices_open>>
    BY <1>1, Zenon
       DEF WorkerNext, PublishStep, StartBatch, StartFinal, Begin, TrySend, Send, Signal,
       PublishFrame, SendWake, EndBatch, EndFinal, SendClosed, mailboxes, host
  <2>2. /\ effects_open' \in {effects_open, FALSE} /\ failed' \in BOOLEAN
        /\ final' \in {final, TRUE} /\ wake_pending' \in {wake_pending, TRUE}
        /\ continuation_scheduled' \in {continuation_scheduled, FALSE}
    BY <1>1, Zenon
       DEF WorkerNext, PublishStep, StartBatch, StartFinal, Begin, TrySend, Send, Signal,
       PublishFrame, SendWake, EndBatch, EndFinal, SendClosed, SignalWork, FlagType, slot,
       mailboxes
  <2> QED BY <2>1, <2>2, ZenonT(30) DEF FlagType
<1>2. CASE HostNotice
  BY <1>2, Zenon DEF HostNotice, FlagType, slot, worker
<1>3. CASE DrainStep
  <2>1. CASE Receive \/ Measure \/ TakeFrame
    BY <2>1, ZenonT(30) DEF Receive, Measure, TakeFrame, FlagType, slot, mailboxes, worker
  <2>2. CASE FinishDrain
    <3>1. wake_pending' \in BOOLEAN /\ continuation_scheduled' \in BOOLEAN
      BY <2>2, Zenon DEF FinishDrain, EndDrain, CompleteWake
    <3> QED BY <2>2, <3>1, Zenon DEF FinishDrain, EndDrain, FlagType, mailboxes, worker
  <2> QED BY <1>3, <2>1, <2>2, Zenon DEF DrainStep
<1>4. CASE HostContinue \/ Shutdown \/ Joined \/ Reap \/ DiscardStale \/ UNCHANGED vars
  <2>1. CASE HostContinue \/ Shutdown
    BY <2>1, ZenonT(30) DEF HostContinue, Shutdown, FlagType, slot, mailboxes, worker
  <2>2. CASE Joined \/ Reap
    BY <2>2, ZenonT(30) DEF Joined, Reap, FlagType, slot, mailboxes, worker, host
  <2>3. CASE DiscardStale \/ UNCHANGED vars
    BY <2>3 DEF DiscardStale, vars, FlagType, slot, mailboxes, worker, host
  <2> QED BY <1>4, <2>1, <2>2, <2>3, Zenon
<1> QED BY <1>1, <1>2, <1>3, <1>4, Zenon DEF Next, HostNext

LEMMA PlaceStep ==
  ASSUME PubType, PlaceInv, PlaceType, [Next]_vars
  PROVE  PlaceType'
<1> USE DEF WorkerPlaces, HostPlaces, DrainPlaces
<1>1. ASSUME WorkerNext
      PROVE  wpc' \in WorkerPlaces /\ resume' \in {"run", "effects", "send"}
  BY <1>1, ZenonT(30)
     DEF WorkerNext, PublishStep, StartBatch, StartFinal, Begin, TrySend, Send, Signal,
     PublishFrame, SendWake, EndBatch, EndFinal, SendClosed, SignalWork, Abandon, PlaceType
<1>2. ASSUME WorkerNext
      PROVE  UNCHANGED <<hpc, drained, frame>>
  BY <1>2, ZenonT(30)
     DEF WorkerNext, PublishStep, StartBatch, StartFinal, Begin, TrySend, Send, Signal,
     PublishFrame, SendWake, EndBatch, EndFinal, SendClosed, host
<1>3. ASSUME HostNext \/ UNCHANGED vars
      PROVE  UNCHANGED <<wpc, resume>>
  BY <1>3, ZenonT(30)
     DEF HostNext, DrainStep, HostContinue, HostNotice, Receive, Measure, TakeFrame,
     FinishDrain, EndDrain, Shutdown, Joined, Reap, DiscardStale, vars, worker
<1>4. ASSUME HostNext \/ UNCHANGED vars
      PROVE  hpc' \in HostPlaces /\ frame' \in Frame \cup {NoFrame}
  BY <1>4, Zenon DEF HostNext, DrainStep, HostContinue, HostNotice, Receive, Measure, TakeFrame,
     FinishDrain, EndDrain, Shutdown, Joined, Reap, DiscardStale, vars, host, PlaceType, PubType
<1>5. Len(effects') <= EffectCap /\ Len(drained') <= MaxEffects
  <2>1. /\ effects \in Seq(Effect) /\ drained \in Seq(Effect) /\ batch \in Seq(Effect)
        /\ Len(effects) \in Nat /\ Len(drained) \in Nat /\ EffectCap \in Nat /\ MaxEffects \in Nat
        /\ Len(effects) <= EffectCap /\ Len(drained) <= MaxEffects
    BY PublicationAssumption, LenProperties, Zenon DEF PubType, PlaceType
  <2>2. CASE UNCHANGED <<effects, drained>>
    BY <2>1, <2>2, Zenon
  <2>3. CASE Receive
    <3>1. effects # <<>> => Len(Tail(effects)) = Len(effects) - 1
                              /\ Len(Append(drained, Head(effects))) = Len(drained) + 1
      BY <2>1, HeadTailProperties, AppendProperties
    <3> QED BY <2>1, <2>2, <2>3, <3>1 DEF Receive
  <2>4. CASE FinishDrain
    BY <2>1, <2>4 DEF FinishDrain, EndDrain, mailboxes
  <2>5. CASE TrySend \/ Send
    <3>1. UNCHANGED drained
      BY <2>5, Zenon DEF TrySend, Send, host
    <3>2. CASE UNCHANGED effects
      BY <2>2, <3>1, <3>2, Zenon
    <3>3. CASE HasSpace /\ effects' = Enqueued
      <4>1. batch # <<>>
        BY <2>5, <3>3, Zenon DEF TrySend, Send, PlaceInv
      <4>2. Len(effects') = Len(effects) + 1
        BY <2>1, <3>3, <4>1, HeadTailProperties, AppendProperties DEF Enqueued
      <4> QED BY <2>1, <3>1, <3>3, <4>2 DEF HasSpace
    <3> QED BY <2>5, <3>2, <3>3, Zenon DEF TrySend, Send
  <2>6. CASE ~(Receive \/ FinishDrain \/ TrySend \/ Send)
    <3>1. UNCHANGED <<effects, drained>>
      BY <2>6, Zenon
         DEF Next, WorkerNext, HostNext, PublishStep, DrainStep, StartBatch, StartFinal,
         Begin, Signal, PublishFrame, SendWake, EndBatch, EndFinal, SendClosed, HostContinue,
         HostNotice, Measure, TakeFrame, Shutdown, Joined, Reap, DiscardStale, vars,
         mailboxes, host
    <3> QED BY <2>2, <3>1, Zenon
  <2> QED BY <2>3, <2>4, <2>5, <2>6, Zenon
<1>6. CASE WorkerNext
  BY <1>1, <1>2, <1>5, <1>6, Zenon DEF PlaceType
<1>7. CASE HostNext \/ UNCHANGED vars
  BY <1>3, <1>4, <1>5, <1>7, Zenon DEF PlaceType
<1> QED BY <1>6, <1>7, Zenon DEF Next

(***************************************************************************)
(* Where the one wake token is.  The hub never holds more of the pane than *)
(* a Wake and the Closed behind it, which is why a Closed answered as a    *)
(* wake finds no other token; a drain whose token was returned before is   *)
(* such an answer, and its worker is gone.                                 *)
(***************************************************************************)
WakeQueued == notices \in {<<"wake">>, <<"wake", "closed">>}

TokenInv ==
  /\ notices \in {<<>>, <<"wake">>, <<"closed">>, <<"wake", "closed">>}
  /\ ~notices_open => hpc \in {"joining", "stopped"}
  /\ WakeQueued => wpc # "wake" /\ ~continuation /\ hpc \notin DrainPlaces
  /\ wpc = "wake" => ~continuation /\ hpc \notin DrainPlaces
  /\ continuation => hpc \notin DrainPlaces
  /\ WakeQueued \/ wpc = "wake" \/ continuation => wake_pending
  /\ hpc \in DrainPlaces => wake_pending \/ wpc = "gone"
  /\ hpc = "idle" /\ wake_pending => WakeQueued \/ wpc = "wake" \/ continuation

(***************************************************************************)
(* What sending and receiving a notice do to the four possible queues.     *)
(***************************************************************************)
LEMMA QueueFacts ==
  ASSUME TokenInv, PlaceInv
  PROVE  /\ wpc # "gone" /\ ~WakeQueued => notices = <<>>
         /\ wpc # "gone" => notices \in {<<>>, <<"wake">>}
         /\ notices = <<>> \/ WakeQueued \/ notices = <<"closed">>
         /\ WakeQueued => Head(notices) = "wake" /\ Tail(notices) \in {<<>>, <<"closed">>}
         /\ notices = <<"closed">> => Head(notices) = "closed" /\ Tail(notices) = <<>>
         /\ Append(<<>>, "wake") = <<"wake">>
         /\ Append(<<>>, "closed") = <<"closed">>
         /\ Append(<<"wake">>, "closed") = <<"wake", "closed">>
<1>1. /\ Head(<<"wake">>) = "wake" /\ Tail(<<"wake">>) = <<>>
      /\ Head(<<"closed">>) = "closed" /\ Tail(<<"closed">>) = <<>>
      /\ Head(<<"wake", "closed">>) = "wake" /\ Tail(<<"wake", "closed">>) = <<"closed">>
  OBVIOUS
<1>2. /\ Append(<<>>, "wake") = <<"wake">>
      /\ Append(<<>>, "closed") = <<"closed">>
  OBVIOUS
<1>4. Append(<<"wake">>, "closed") = <<"wake", "closed">>
  <2> DEFINE N == {"wake", "closed"}
  <2>1. <<"wake">> \in Seq(N) /\ Len(<<"wake">>) = 1 /\ <<"wake">>[1] = "wake"
    OBVIOUS
  <2>2. /\ Append(<<"wake">>, "closed") \in Seq(N) /\ Len(Append(<<"wake">>, "closed")) = 2
        /\ Append(<<"wake">>, "closed")[1] = "wake" /\ Append(<<"wake">>, "closed")[2] = "closed"
    BY <2>1, AppendProperties
  <2>3. <<"wake", "closed">> \in Seq(N) /\ Len(<<"wake", "closed">>) = 2
        /\ <<"wake", "closed">>[1] = "wake" /\ <<"wake", "closed">>[2] = "closed"
    OBVIOUS
  <2> HIDE DEF N
  <2>4. \A i \in 1..2 : Append(<<"wake">>, "closed")[i] = <<"wake", "closed">>[i]
    <3> TAKE i \in 1..2
    <3>1. i = 1 \/ i = 2
      OBVIOUS
    <3> QED BY <2>2, <2>3, <3>1, Zenon
  <2> DEFINE a == Append(<<"wake">>, "closed")
             b == <<"wake", "closed">>
  <2>5. a \in Seq(N) /\ b \in Seq(N) /\ Len(a) = 2 /\ Len(b) = 2 /\ \A i \in 1..2 : a[i] = b[i]
    BY <2>2, <2>3, <2>4, Zenon
  <2> HIDE DEF a, b
  <2>6. a = b
    BY <2>5, SeqEqual, Zenon
  <2> QED BY <2>6, Zenon DEF a, b
<1>3. wpc # "gone" => notices \notin {<<"closed">>, <<"wake", "closed">>}
  <2>1. ASSUME notices = <<"closed">> PROVE 1 \in 1..Len(notices) /\ notices[1] = "closed"
    BY <2>1
  <2>2. ASSUME notices = <<"wake", "closed">> PROVE 2 \in 1..Len(notices) /\ notices[2] = "closed"
    BY <2>2
  <2> QED BY <2>1, <2>2, Zenon DEF PlaceInv
<1> QED BY <1>1, <1>2, <1>3, <1>4, Zenon DEF TokenInv, WakeQueued

LEMMA TokenStep ==
  ASSUME PubType, PlaceInv, FlagType, TokenInv, [Next]_vars
  PROVE  TokenInv'
<1> USE DEF DrainPlaces
<1>d. <<"wake">> \notin {<<>>, <<"closed">>} /\ <<"wake", "closed">> \notin {<<>>, <<"closed">>}
  BY Zenon
<1>1. CASE UNCHANGED <<notices, notices_open, hpc, continuation, wake_pending>>
           /\ wpc # "wake" /\ wpc' # "wake" /\ wpc # "gone"
  BY <1>1, Zenon DEF TokenInv, WakeQueued
<1>2. ASSUME NEW n \in 0..MaxBatch, NEW keys \in SUBSET MetaKeys,
             StartBatch(n, keys) \/ StartFinal(n, keys)
      PROVE  TokenInv'
  BY <1>1, <1>2, Zenon DEF StartBatch, StartFinal, Begin, slot, mailboxes, host
<1>3. CASE TrySend \/ Send \/ EndBatch \/ EndFinal
  BY <1>1, <1>3, Zenon DEF TrySend, Send, Abandon, EndBatch, EndFinal, slot, mailboxes, host
<1>4. CASE Signal \/ PublishFrame
  <2>1. CASE wake_pending
    BY <1>1, <1>4, <2>1, Zenon DEF Signal, PublishFrame, SignalWork, mailboxes, host
  <2>2. CASE ~wake_pending
    <3>1. /\ wake_pending' /\ wpc' = "wake" /\ wpc # "gone"
          /\ UNCHANGED <<notices, notices_open, hpc, continuation>>
      BY <1>4, <2>2, Zenon DEF Signal, PublishFrame, SignalWork, mailboxes, host
    <3> QED BY <2>2, <3>1, Zenon DEF TokenInv, WakeQueued
  <2> QED BY <2>1, <2>2, Zenon
<1>5. CASE SendWake
  <2>1. UNCHANGED <<notices_open, hpc, continuation, wake_pending>> /\ wpc = "wake"
    BY <1>5, Zenon DEF SendWake, slot, host
  <2>2. CASE notices_open
    <3>1. notices' = <<"wake">> /\ wpc' \in {"effects", "send"}
      BY <1>5, <2>1, <2>2, QueueFacts, Zenon DEF SendWake, TokenInv, PlaceInv
    <3> QED BY <1>d, <2>1, <2>2, <3>1, Zenon DEF TokenInv, WakeQueued
  <2>3. CASE ~notices_open
    <3>1. notices' = notices /\ wpc' = "failed"
      BY <1>5, <2>3, Zenon DEF SendWake, Abandon
    <3> QED BY <2>1, <2>3, <3>1, Zenon DEF TokenInv, WakeQueued
  <2> QED BY <2>2, <2>3, Zenon
<1>6. CASE SendClosed
  <2>1. UNCHANGED <<notices_open, hpc, continuation, wake_pending>> /\ wpc = "joined" /\ wpc' = "gone"
    BY <1>6, Zenon DEF SendClosed, slot, host
  <2>2. notices' \in {<<>>, <<"wake">>, <<"closed">>, <<"wake", "closed">>}
        /\ (WakeQueued' <=> WakeQueued)
    BY <1>6, <1>d, <2>1, QueueFacts, Zenon DEF SendClosed, WakeQueued
  <2> QED BY <2>1, <2>2, Zenon DEF TokenInv
<1>7. CASE HostContinue
  <2>1. /\ UNCHANGED <<notices, notices_open, wpc, wake_pending>>
        /\ hpc = "idle" /\ hpc' = "receive" /\ continuation /\ ~continuation'
    BY <1>7, Zenon DEF HostContinue, slot, mailboxes, worker
  <2> QED BY <2>1, Zenon DEF TokenInv, WakeQueued
<1>8. CASE HostNotice
  <2>1. /\ UNCHANGED <<notices_open, wpc, wake_pending, continuation>>
        /\ hpc = "idle" /\ ~continuation
    BY <1>8, Zenon DEF HostNotice, slot, worker
  <2>2. CASE hpc' = "closed" /\ notices' = notices
    BY <2>1, <2>2, Zenon DEF TokenInv, WakeQueued
  <2>3. CASE WakeQueued /\ notices' = Tail(notices) /\ hpc' = "receive"
    <3>1. notices' \in {<<>>, <<"closed">>}
      BY <2>3, QueueFacts, Zenon
    <3> QED BY <1>d, <2>1, <2>3, <3>1, Zenon DEF TokenInv, WakeQueued
  <2>4. CASE notices = <<"closed">> /\ notices' = Tail(notices) /\ hpc' \in {"receive", "closed"}
    <3>1. notices' = <<>> /\ wpc = "gone" /\ ~WakeQueued
      BY <1>d, <2>4, QueueFacts, Zenon DEF WakeQueued
    <3> QED BY <1>d, <2>1, <2>4, <3>1, Zenon DEF TokenInv, WakeQueued
  <2> QED BY <1>8, <2>2, <2>3, <2>4, QueueFacts, Zenon DEF HostNotice
<1>9. CASE Receive \/ Measure \/ TakeFrame
  <2>1. /\ UNCHANGED <<notices, notices_open, wpc, wake_pending, continuation>>
        /\ hpc \in DrainPlaces /\ hpc' \in DrainPlaces
    BY <1>9, Zenon DEF Receive, Measure, TakeFrame, slot, mailboxes, worker
  <2> QED BY <2>1, Zenon DEF TokenInv, WakeQueued
<1>10. CASE FinishDrain
  <2>1. /\ UNCHANGED <<notices, notices_open, wpc>>
        /\ hpc = "complete" /\ hpc' = "idle" /\ (continuation' <=> wake_pending')
    BY <1>10, Zenon DEF FinishDrain, EndDrain, CompleteWake, mailboxes, worker
  <2> QED BY <2>1, Zenon DEF TokenInv, WakeQueued
<1>11. CASE Shutdown \/ Joined \/ Reap
  <2>1. /\ UNCHANGED <<notices, wpc, wake_pending>> /\ hpc' \in {"joining", "stopped", "reaped"}
        /\ (continuation' => continuation)
        /\ (notices_open' = notices_open \/ hpc' \in {"joining", "stopped"})
        /\ (hpc' = "reaped" => hpc = "idle" /\ UNCHANGED notices_open)
    BY <1>11 DEF Shutdown, Joined, Reap, slot, mailboxes, worker
  <2> QED BY <1>11, <2>1 DEF TokenInv, WakeQueued, Joined
<1>12. CASE DiscardStale
  <2>1. /\ UNCHANGED <<notices_open, wpc, wake_pending, continuation, hpc>> /\ hpc = "reaped"
        /\ notices # <<>> /\ notices' = Tail(notices)
    BY <1>12, Zenon DEF DiscardStale, slot, worker, host
  <2>2. notices' \in {<<>>, <<"closed">>}
    BY <2>1, QueueFacts, Zenon
  <2> QED BY <1>d, <2>1, <2>2, Zenon DEF TokenInv, WakeQueued
<1>13. CASE UNCHANGED vars
  BY <1>13, Zenon DEF vars, slot, mailboxes, worker, host, TokenInv, WakeQueued
<1> QED
  BY <1>2, <1>3, <1>4, <1>5, <1>6, <1>7, <1>8, <1>9, <1>10, <1>11, <1>12, <1>13, Zenon
     DEF Next, WorkerNext, HostNext, PublishStep, DrainStep

(***************************************************************************)
(* There is never more than one wake token of a generation, and a pending  *)
(* wake is one until the hub gives up on the pane (LatestSlot,             *)
(* PanePublication::drain, RuntimeHub::try_recv_notice).                   *)
(***************************************************************************)
THEOREM WakeTokenNeverDoubled == Spec => []WakeTokenExact
<1> DEFINE Inv == PubInv /\ FlagType /\ PlaceType /\ TokenInv
<1>1. Init => Inv
  <2> SUFFICES ASSUME Init PROVE Inv
    BY Zenon
  <2>1. FlagType /\ TokenInv
    BY Zenon DEF Init, FlagType, TokenInv, WakeQueued, DrainPlaces
  <2>2. PlaceType
    BY PublicationAssumption DEF Init, PlaceType, WorkerPlaces, HostPlaces
  <2> QED BY <2>1, <2>2, PubInit, Zenon
<1>2. Inv /\ [Next]_vars => Inv'
  BY PubStep, FlagStep, PlaceStep, TokenStep, Zenon DEF PubInv
<1>3. Inv => WakeTokenExact
  <2> SUFFICES ASSUME PubInv, FlagType, PlaceType, TokenInv PROVE WakeTokenExact
    BY Zenon
  <2>1. TypeOK
    BY DEF PubInv, PubType, FlagType, PlaceType, TypeOK
  <2> DEFINE W == {i \in DOMAIN notices : notices[i] = "wake"}
  <2>2. Cardinality(W) = Count(WakeQueued)
    <3>1. CASE WakeQueued
      <4>1. W = {1}
        BY <3>1 DEF WakeQueued
      <4> QED BY <3>1, <4>1, FS_Singleton, Zenon DEF Count
    <3>2. CASE ~WakeQueued
      <4>1. W = {}
        BY <3>2 DEF TokenInv, WakeQueued
      <4> QED BY <3>2, <4>1, FS_EmptySet, Zenon DEF Count
    <3> QED BY <3>1, <3>2, Zenon
  <2>3. Tokens = Count(WakeQueued) + Count(wpc = "wake") + Count(continuation)
                   + Count(hpc \in DrainPlaces)
    BY <2>2, Zenon DEF Tokens
  <2>4. /\ Tokens <= 1
        /\ Tokens = 1 <=> WakeQueued \/ wpc = "wake" \/ continuation \/ hpc \in DrainPlaces
    BY <2>3 DEF Count, TokenInv
  <2>5. hpc = "idle" => hpc \notin DrainPlaces
    BY Zenon DEF DrainPlaces
  <2> QED BY <2>1, <2>4, <2>5, Zenon DEF WakeTokenExact, TokenInv
<1> QED BY <1>1, <1>2, <1>3, PTL DEF Spec

=============================================================================
