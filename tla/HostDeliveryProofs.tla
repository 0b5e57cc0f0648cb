------------------------- MODULE HostDeliveryProofs -------------------------
(***************************************************************************)
(* What the window guarantees about the drains of a pane for every mailbox *)
(* capacity, turn budget, size of a batch and number of revisions: that    *)
(* its turns implement the publication, so that the theorems about the     *)
(* publication hold of it, and what the reducer finds.                     *)
(***************************************************************************)
EXTENDS HostDelivery, SequenceTheorems, FiniteSetTheorems, WellFoundedInduction, TLAPS

-----------------------------------------------------------------------------
(***************************************************************************)
(* Where the continuation of a turn is: a running drain owes none, and     *)
(* between turns left-over intents and an owed drain come with one.        *)
(***************************************************************************)
TurnInv ==
  /\ source_continuation \in BOOLEAN /\ continuation \in BOOLEAN
  /\ hpc \in DrainPlaces => ~source_continuation /\ ~continuation /\ intents = <<>>
  /\ hpc = "reduce" => ~continuation
  /\ hpc = "idle" /\ intents # <<>> => continuation
  /\ hpc = "idle" /\ source_continuation => intents # <<>>

LEMMA TurnInit == DInit => TurnInv
BY Zenon DEF DInit, Init, TurnInv, DrainPlaces

LEMMA TurnStep ==
  ASSUME TurnInv, [DNext]_dvars
  PROVE  TurnInv'
<1> USE DEF TurnInv, DrainPlaces
<1>1. CASE WorkerNext /\ UNCHANGED window
  <2>1. UNCHANGED <<hpc, continuation>>
    BY <1>1, Zenon
       DEF WorkerNext, PublishStep, StartBatch, StartFinal, Begin, TrySend, Send, Signal,
       PublishFrame, SendWake, EndBatch, EndFinal, SendClosed, host
  <2> QED BY <1>1, <2>1, Zenon DEF window
<1>2. CASE (Shutdown \/ Joined \/ DiscardStale) /\ UNCHANGED window
  <2>1. /\ UNCHANGED <<source_continuation, intents, continuation>>
        /\ hpc' \in {hpc, "joining", "stopped"}
    BY <1>2, Zenon DEF Shutdown, Joined, DiscardStale, host, window
  <2> QED BY <2>1, Zenon
<1>3. CASE TurnContinue
  <2>1. /\ UNCHANGED <<source_continuation, intents>> /\ continuation' = FALSE
        /\ hpc = "idle" /\ hpc' \in {"receive", "reduce"}
        /\ (hpc' = "receive" => intents = <<>>)
    BY <1>3, Zenon DEF TurnContinue, HostContinue, window
  <2> QED BY <2>1, Zenon
<1>4. CASE TurnNotice
  BY <1>4, Zenon DEF TurnNotice, HostNotice, window
<1>5. CASE DrainTurn
  BY <1>5 DEF DrainTurn, Receive, Measure, TakeFrame, window
<1>6. CASE DrainRuntime
  <2>1. /\ continuation_scheduled' \in BOOLEAN
        /\ hpc = "complete" /\ hpc' = "reduce" /\ UNCHANGED continuation
        /\ source_continuation' = (source_continuation \/ continuation_scheduled')
    BY <1>6, Zenon DEF DrainRuntime, EndDrain, CompleteWake
  <2> QED BY <2>1, Zenon
<1>7. CASE ReduceBatch
  BY <1>7, Zenon DEF ReduceBatch, vars, host
<1>8. CASE FinishTurn
  BY <1>8, Zenon DEF FinishTurn, EndTurn
<1>9. CASE Retire
  BY <1>9, Zenon DEF Retire, Reap
<1>10. CASE UNCHANGED dvars
  BY <1>10, Zenon DEF dvars, vars, host, window
<1> QED
  BY <1>1, <1>2, <1>3, <1>4, <1>5, <1>6, <1>7, <1>8, <1>9, <1>10, Zenon DEF DNext

-----------------------------------------------------------------------------
(***************************************************************************)
(* One step of the window is one step of the publication, or none.         *)
(***************************************************************************)
LEMMA WorkerMaps ==
  ASSUME WorkerNext, UNCHANGED window
  PROVE  Pub!WorkerNext
<1>1. /\ UNCHANGED <<hpc, drained, frame, work_remains, continuation, pending_closed>>
      /\ Owed' = Owed
  <2>1. UNCHANGED host
    BY Zenon DEF WorkerNext, PublishStep, StartBatch, StartFinal, Begin, TrySend, Send, Signal,
       PublishFrame, SendWake, EndBatch, EndFinal, SendClosed
  <2>2. UNCHANGED <<hpc, drained, frame, work_remains, continuation, pending_closed>>
    BY <2>1, Zenon DEF host
  <2>3. UNCHANGED <<source_continuation, intents>>
    BY Zenon DEF window
  <2> QED BY <2>2, <2>3, Zenon DEF Owed
<1>2. Pub!host' = Pub!host
  BY <1>1, Zenon DEF Pub!host
<1>3. UNCHANGED host
  BY <1>1, Zenon DEF host
<1> USE DEF slot, mailboxes, history, seen, Pub!slot, Pub!mailboxes, Pub!history, Pub!seen
<1>4. ASSUME NEW n \in 0..MaxBatch, NEW keys \in SUBSET MetaKeys,
             StartBatch(n, keys) \/ StartFinal(n, keys)
      PROVE  Pub!StartBatch(n, keys) \/ Pub!StartFinal(n, keys)
  BY <1>2, <1>4, Zenon
     DEF StartBatch, StartFinal, Begin, NewFrame, Pub!StartBatch, Pub!StartFinal,
     Pub!Begin, Pub!NewFrame
<1>5. CASE TrySend
  BY <1>2, <1>5, Zenon DEF TrySend, Abandon, HasSpace, Enqueued,
     Pub!TrySend, Pub!Abandon, Pub!HasSpace, Pub!Enqueued, Pub!WorkerNext, Pub!PublishStep
<1>6. CASE Send
  BY <1>2, <1>6, Zenon DEF Send, Abandon, HasSpace, Enqueued,
     Pub!Send, Pub!Abandon, Pub!HasSpace, Pub!Enqueued, Pub!WorkerNext, Pub!PublishStep
<1>7. CASE Signal
  BY <1>2, <1>7, Zenon
     DEF Signal, SignalWork, Pub!Signal, Pub!SignalWork, Pub!WorkerNext, Pub!PublishStep
<1>8. CASE PublishFrame
  BY <1>2, <1>8, Zenon DEF PublishFrame, SignalWork, Coalesced, Overlay, Pub!PublishFrame,
     Pub!SignalWork, Pub!Coalesced, Pub!Overlay, Pub!WorkerNext, Pub!PublishStep
<1>9. CASE SendWake
  BY <1>2, <1>9, Zenon
     DEF SendWake, Abandon, Pub!SendWake, Pub!Abandon, Pub!WorkerNext, Pub!PublishStep
<1>10. CASE EndBatch
  BY <1>2, <1>10, Zenon
     DEF EndBatch, NextRevision, Pub!EndBatch, Pub!NextRevision, Pub!WorkerNext
<1>11. CASE EndFinal \/ SendClosed
  BY <1>2, <1>11, Zenon DEF EndFinal, SendClosed, Pub!EndFinal, Pub!SendClosed, Pub!WorkerNext
<1> QED
  BY <1>4, <1>5, <1>6, <1>7, <1>8, <1>9, <1>10, <1>11, Zenon
     DEF WorkerNext, PublishStep, Pub!WorkerNext, Pub!PublishStep

LEMMA StepMaps ==
  ASSUME TurnInv, [DNext]_dvars
  PROVE  [Pub!Next]_Pub!vars
<1> USE DEF slot, mailboxes, worker, history, seen,
            Pub!slot, Pub!mailboxes, Pub!worker, Pub!history, Pub!seen
<1>1. CASE WorkerNext /\ UNCHANGED window
  BY <1>1, WorkerMaps, Zenon DEF Pub!Next
<1>2. CASE (Shutdown \/ Joined \/ DiscardStale) /\ UNCHANGED window
  <2>1. UNCHANGED <<continuation, source_continuation, intents>> /\ Owed' = Owed
    BY <1>2 DEF Shutdown, Joined, DiscardStale, host, window, Owed
  <2>2. Pub!Shutdown \/ Pub!Joined \/ Pub!DiscardStale
    BY <1>2, <2>1, Zenon DEF Shutdown, Joined, DiscardStale, host, Pub!Shutdown, Pub!Joined,
       Pub!DiscardStale, Pub!host
  <2> QED BY <2>2, Zenon DEF Pub!Next, Pub!HostNext
<1>3. CASE TurnContinue
  <2>1. CASE intents = <<>> /\ HostContinue /\ UNCHANGED window
    <3>1. Owed /\ ~Owed' /\ Owed' \in BOOLEAN
      BY <2>1, Zenon DEF HostContinue, Owed, window, TurnInv
    <3>2. Pub!HostContinue
      BY <2>1, <3>1, Zenon DEF HostContinue, Pub!HostContinue
    <3> QED BY <3>2, Zenon DEF Pub!Next, Pub!HostNext
  <2>2. CASE intents # <<>> /\ hpc = "idle" /\ hpc' = "reduce" /\ UNCHANGED window
    <3>1. Owed' = Owed
      BY <2>2, Zenon DEF Owed, window
    <3>2. UNCHANGED Pub!vars
      BY <1>3, <2>2, <3>1, Zenon DEF TurnContinue, Pub!vars, Pub!host
    <3> QED BY <3>2, Zenon
  <2> QED BY <1>3, <2>1, <2>2, Zenon DEF TurnContinue
<1>4. CASE TurnNotice
  <2>1. /\ UNCHANGED <<continuation, source_continuation, intents>>
        /\ hpc = "idle" /\ ~continuation
    BY <1>4, Zenon DEF TurnNotice, HostNotice, window
  <2>2. ~Owed /\ Owed' = Owed
    BY <2>1, Zenon DEF Owed, TurnInv
  <2>3. Pub!HostNotice
    BY <1>4, <2>2, Zenon DEF TurnNotice, HostNotice, HasWork, Pub!HostNotice, Pub!HasWork
  <2> QED BY <2>3, Zenon DEF Pub!Next, Pub!HostNext
<1>5. CASE DrainTurn
  <2>1. UNCHANGED <<continuation, source_continuation, intents>> /\ Owed' = Owed
    BY <1>5 DEF DrainTurn, Receive, Measure, TakeFrame, window, Owed
  <2>2. Pub!Receive \/ Pub!Measure \/ Pub!TakeFrame
    BY <1>5, <2>1 DEF DrainTurn, Receive, Measure, TakeFrame, Overlay, Pub!Receive,
       Pub!Measure, Pub!TakeFrame, Pub!Overlay
  <2> QED BY <2>2, Zenon DEF Pub!Next, Pub!HostNext, Pub!DrainStep
<1>6. CASE DrainRuntime
  <2>1. hpc = "complete" /\ hpc' = "reduce" /\ continuation_scheduled' \in BOOLEAN
        /\ UNCHANGED continuation
        /\ source_continuation' = (source_continuation \/ continuation_scheduled')
    BY <1>6, Zenon DEF DrainRuntime, EndDrain, CompleteWake
  <2>2. Owed' = continuation_scheduled'
    BY <2>1, Zenon DEF Owed, TurnInv, DrainPlaces
  <2>3. Pub!FinishDrain
    BY <1>6, <2>1, <2>2, Zenon DEF DrainRuntime, EndDrain, CompleteWake, Pub!FinishDrain,
       Pub!EndDrain, Pub!CompleteWake
  <2> QED BY <2>3, Zenon DEF Pub!Next, Pub!HostNext, Pub!DrainStep
<1>7. CASE ReduceBatch
  <2>1. UNCHANGED vars /\ UNCHANGED source_continuation /\ hpc = "reduce"
    BY <1>7, Zenon DEF ReduceBatch
  <2>2. Owed' = Owed
    BY <2>1, Zenon DEF vars, host, Owed, TurnInv
  <2>3. UNCHANGED Pub!vars
    BY <2>1, <2>2, Zenon DEF vars, host, Pub!vars, Pub!host
  <2> QED BY <2>3, Zenon
<1>8. CASE FinishTurn
  <2>1. Owed' = Owed
    BY <1>8, Zenon DEF FinishTurn, EndTurn, Owed, TurnInv
  <2>2. UNCHANGED Pub!vars
    BY <1>8, <2>1, Zenon DEF FinishTurn, Pub!vars, Pub!host
  <2> QED BY <2>2, Zenon
<1>9. CASE Retire
  <2>1. Owed' = FALSE
    BY <1>9, Zenon DEF Retire, Reap, Owed
  <2>2. Pub!Reap
    BY <1>9, <2>1, Zenon DEF Retire, Reap, Pub!Reap
  <2> QED BY <2>2, Zenon DEF Pub!Next, Pub!HostNext
<1>10. CASE UNCHANGED dvars
  BY <1>10, Zenon DEF dvars, vars, host, window, Owed, Pub!vars, Pub!host
<1> QED
  BY <1>1, <1>2, <1>3, <1>4, <1>5, <1>6, <1>7, <1>8, <1>9, <1>10, Zenon DEF DNext

LEMMA InitMaps == DInit => Pub!Init
BY Zenon DEF DInit, Init, Owed, Pub!Init

(***************************************************************************)
(* The window's turns implement the publication: a turn that only reduces  *)
(* left-over intents is invisible to the hub, and a drain the hub asked    *)
(* for stays owed (WinitHost::drain_runtime_turn, source_continuation).    *)
(***************************************************************************)
THEOREM TurnsImplementDrains == DSpec => PubSpec
<1>1. TurnInv /\ [DNext]_dvars => TurnInv'
  BY TurnStep, Zenon
<1>2. TurnInv /\ [DNext]_dvars => [Pub!Next]_Pub!vars
  BY StepMaps, Zenon
<1> QED BY <1>1, <1>2, TurnInit, InitMaps, PTL DEF DSpec, PubSpec, Pub!Spec

-----------------------------------------------------------------------------
(***************************************************************************)
(* Induction over the naturals for a set of them, from their least         *)
(* elements.                                                               *)
(***************************************************************************)
LEMMA SetInduction ==
  ASSUME NEW S, 0 \in S, \A n \in Nat : n \in S => n + 1 \in S
  PROVE  \A n \in Nat : n \in S
<1> SUFFICES ASSUME Nat \ S # {} PROVE FALSE
  BY Zenon
<1> DEFINE R == OpToRel(<, Nat)
<1>1. IsWellFoundedOn(R, Nat)
  BY NatLessThanWellFounded, Zenon
<1>2. PICK x \in Nat \ S : \A y \in Nat \ S : ~(<<y, x>> \in R)
  BY <1>1, WFMin, Zenon
<1>3. x # 0 /\ x - 1 \in Nat
  OBVIOUS
<1>4. <<x - 1, x>> \in R
  BY <1>3 DEF OpToRel
<1>5. x - 1 \in S
  BY <1>2, <1>3, <1>4, Zenon
<1>6. (x - 1) + 1 \in S
  BY <1>3, <1>5, Zenon
<1> QED BY <1>6

(***************************************************************************)
(* A set of revisions has an ascending enumeration, so the CHOOSE of       *)
(* Ascending finds one.                                                    *)
(***************************************************************************)
IsAscending(s, S) ==
  /\ s \in [1..Cardinality(S) -> S]
  /\ \A i, j \in 1..Cardinality(S) : i < j => s[i] < s[j]

LEMMA AscendingFacts ==
  ASSUME NEW m \in Nat, NEW T \in SUBSET (1..m)
  PROVE  IsFiniteSet(T) /\ Cardinality(T) \in Nat /\ IsAscending(Ascending(T), T)
<1>f. \A n \in Nat : \A S \in SUBSET (1..n) : IsFiniteSet(S) /\ Cardinality(S) \in Nat
  <2> SUFFICES ASSUME NEW n \in Nat, NEW S \in SUBSET (1..n)
               PROVE  IsFiniteSet(S) /\ Cardinality(S) \in Nat
    BY Zenon
  <2>1. S \in SUBSET Nat /\ \A s \in S : s <= n
    OBVIOUS
  <2>2. IsFiniteSet(S)
    BY <2>1, FS_BoundedSetOfNaturals, Zenon
  <2> QED BY <2>2, FS_CardinalityType, Zenon
<1> DEFINE E == {n \in Nat : \A S \in SUBSET (1..n) : \E s : IsAscending(s, S)}
<1>1. 0 \in E
  <2> SUFFICES ASSUME NEW S \in SUBSET (1..0) PROVE \E s : IsAscending(s, S)
    BY Zenon
  <2>0. S = {}
    OBVIOUS
  <2>1. S = {} /\ Cardinality(S) = 0
    BY <2>0, FS_EmptySet, Zenon
  <2>2. IsAscending([i \in 1..0 |-> 0], S)
    BY <2>1 DEF IsAscending
  <2> QED BY <2>2, Zenon
<1>2. ASSUME NEW n \in Nat, n \in E PROVE n + 1 \in E
  <2> SUFFICES ASSUME NEW S \in SUBSET (1..(n + 1)) PROVE \E s : IsAscending(s, S)
    OBVIOUS
  <2>1. CASE n + 1 \notin S
    <3>1. S \in SUBSET (1..n)
      BY <2>1
    <3> QED BY <1>2, <3>1, Zenon
  <2>2. CASE n + 1 \in S
    <3> DEFINE T0 == S \ {n + 1}
               c == Cardinality(T0)
    <3>1. T0 \in SUBSET (1..n)
      OBVIOUS
    <3>2. PICK t : IsAscending(t, T0)
      BY <1>2, <3>1, Zenon
    <3>3. c \in Nat /\ Cardinality(S) = c + 1
      <4>0. n + 1 \in Nat
        OBVIOUS
      <4>1. IsFiniteSet(S) /\ Cardinality(S) \in Nat /\ c \in Nat
        BY <1>f, <3>1, <4>0, Zenon
      <4>2. c = Cardinality(S) - 1
        BY <2>2, <4>1, FS_RemoveElement, Zenon
      <4> QED BY <4>1, <4>2
    <3> DEFINE s == [i \in 1..(c + 1) |-> IF i <= c THEN t[i] ELSE n + 1]
    <3>4. t \in [1..c -> T0] /\ \A i, j \in 1..c : i < j => t[i] < t[j]
      BY <3>2, Zenon DEF IsAscending
    <3> HIDE DEF c
    <3>5. s \in [1..(c + 1) -> S]
      BY <2>2, <3>3, <3>4
    <3>6. \A i, j \in 1..(c + 1) : i < j => s[i] < s[j]
      <4> SUFFICES ASSUME NEW i \in 1..(c + 1), NEW j \in 1..(c + 1), i < j PROVE s[i] < s[j]
        BY Zenon
      <4>0. i \in 1..c /\ s[i] = t[i]
        BY <3>3
      <4>1. i \in 1..c /\ s[i] = t[i] /\ t[i] \in 1..n
        BY <3>1, <3>4, <4>0, Zenon
      <4>2. CASE j <= c
        BY <3>3, <3>4, <4>1, <4>2
      <4>3. CASE ~(j <= c)
        BY <3>3, <4>1, <4>3
      <4> QED BY <4>2, <4>3, Zenon
    <3>7. IsAscending(s, S)
      BY <3>3, <3>5, <3>6, Zenon DEF IsAscending
    <3> QED BY <3>7, Zenon
  <2> QED BY <2>1, <2>2, Zenon
<1> HIDE DEF E
<1>3. \A n \in Nat : n \in E
  BY <1>1, <1>2, SetInduction, Zenon
<1>4. PICK s : IsAscending(s, T)
  BY <1>3, Zenon DEF E
<1>5. \E x \in [1..Cardinality(T) -> T] : \A i, j \in DOMAIN x : i < j => x[i] < x[j]
  BY <1>4, Zenon DEF IsAscending
<1>6. /\ Ascending(T) \in [1..Cardinality(T) -> T]
      /\ \A i, j \in DOMAIN Ascending(T) : i < j => Ascending(T)[i] < Ascending(T)[j]
  BY <1>5, Zenon DEF Ascending
<1> QED BY <1>f, <1>6, Zenon DEF IsAscending

(***************************************************************************)
(* The loop of drain_runtime keeps a batch of effects for every revision.  *)
(***************************************************************************)
Batches == [Revisions -> Seq(Effect)]

LEMMA GroupedType ==
  ASSUME drained \in Seq(Effect), batches \in Batches
  PROVE  Grouped \in Batches
<1> DEFINE N == Len(drained)
           Put(b, n) == [b EXCEPT ![drained[n].revision] = Append(@, drained[n])]
<1>a. N \in Nat /\ \A n \in 1..N : drained[n] \in Effect
  BY LenProperties, ElementOfSeq, Zenon
<1>0. N \in Nat /\ \A n \in 1..N : drained[n] \in Effect /\ drained[n].revision \in Revisions
  BY <1>a, Zenon DEF Effect
<1>1. \A b \in Batches : \A n \in 1..N : Put(b, n) \in Batches
  <2> TAKE b \in Batches
  <2> TAKE n \in 1..N
  <2>1. Append(b[drained[n].revision], drained[n]) \in Seq(Effect)
    BY <1>0, AppendProperties, Zenon DEF Batches
  <2> QED BY <1>0, <2>1, Zenon DEF Batches
<1> HIDE DEF N, Put
<1> DEFINE Gathers(g, k) ==
      g \in [0..k -> Batches] /\ g[0] = batches /\ \A n \in 1..k : g[n] = Put(g[n - 1], n)
<1> DEFINE E == {k \in Nat : k <= N => \E g : Gathers(g, k)}
<1>2. 0 \in E
  <2>1. 0..0 = {0} /\ 1..0 = {}
    OBVIOUS
  <2>2. Gathers([n \in 0..0 |-> batches], 0)
    BY <2>1, Zenon
  <2> QED BY <2>2, Zenon
<1>3. ASSUME NEW k \in Nat, k \in E PROVE k + 1 \in E
  <2> SUFFICES ASSUME k + 1 <= N PROVE \E g : Gathers(g, k + 1)
    OBVIOUS
  <2>1. PICK g : Gathers(g, k)
    BY <1>0, <1>3
  <2> DEFINE h == [n \in 0..(k + 1) |-> IF n <= k THEN g[n] ELSE Put(g[k], k + 1)]
  <2>2. g[k] \in Batches /\ Put(g[k], k + 1) \in Batches
    BY <1>0, <1>1, <2>1
  <2>3. h \in [0..(k + 1) -> Batches] /\ h[0] = batches
    BY <2>1, <2>2
  <2>4. \A n \in 1..(k + 1) : h[n] = Put(h[n - 1], n)
    <3> TAKE n \in 1..(k + 1)
    <3>1. CASE n <= k
      <4>1. n \in 1..k /\ h[n] = g[n] /\ h[n - 1] = g[n - 1]
        BY <3>1
      <4> QED BY <2>1, <4>1, Zenon
    <3>2. CASE ~(n <= k)
      <4>1. n = k + 1 /\ h[n] = Put(g[k], k + 1) /\ h[n - 1] = g[k]
        BY <3>2
      <4> QED BY <4>1, Zenon
    <3> QED BY <3>1, <3>2, Zenon
  <2>5. Gathers(h, k + 1)
    BY <2>3, <2>4, Zenon
  <2> QED BY <2>5, Zenon
<1>4. \A k \in Nat : k \in E
  <2> HIDE DEF E
  <2> QED BY <1>2, <1>3, SetInduction, Zenon
<1>b. N <= N
  BY <1>0
<1>c. \E g : Gathers(g, N)
  <2> HIDE DEF Gathers
  <2> QED BY <1>0, <1>4, <1>b, Zenon
<1>5. PICK g : Gathers(g, N)
  BY <1>c, Zenon
<1>6. g = [n \in 0..N |-> IF n = 0 THEN batches ELSE Put(g[n - 1], n)]
  BY <1>0, <1>5
<1>7. Gathered = [n \in 0..N |-> IF n = 0 THEN batches ELSE Put(Gathered[n - 1], n)]
  BY <1>6, Zenon DEF Gathered, N, Put
<1> DEFINE F == {k \in Nat : k <= N => Gathered[k] \in Batches}
<1>8. 0 \in F
  BY <1>0, <1>7
<1>9. ASSUME NEW k \in Nat, k \in F PROVE k + 1 \in F
  <2> SUFFICES ASSUME k + 1 <= N PROVE Gathered[k + 1] \in Batches
    OBVIOUS
  <2>1. Gathered[k] \in Batches /\ k + 1 \in 1..N
    BY <1>0, <1>9
  <2>2. Gathered[k + 1] = Put(Gathered[k], k + 1)
    BY <1>0, <1>7, <2>1
  <2> QED BY <1>1, <2>1, <2>2, Zenon
<1>10. \A k \in Nat : k \in F
  <2> HIDE DEF F
  <2> QED BY <1>8, <1>9, SetInduction, Zenon
<1> QED BY <1>0, <1>10 DEF Grouped, N

-----------------------------------------------------------------------------
(***************************************************************************)
(* The window's state: types, the effects executed so far, intents of      *)
(* pairwise different revisions and a pending frame for each that needs    *)
(* one.  Distinct revisions are what keeps the frame of a later intent     *)
(* when an earlier one is applied.                                         *)
(***************************************************************************)
IntentType == [revision : Revisions, frame : Frame \cup {NoFrame}, effects : Seq(Nat)]

ReducerInv ==
  /\ batches \in Batches
  /\ intents \in Seq(IntentType)
  /\ reduced \in 0..MaxEffects
  /\ pending_frames \in [Revisions -> Frame \cup {NoFrame}]
  /\ pane_revision \in 0..MaxRevision
  /\ expected \in Nat \ {0}
  /\ executed = [i \in 1..(expected - 1) |-> i]
  /\ \A i, j \in 1..Len(intents) : i # j => intents[i].revision # intents[j].revision
  /\ \A i \in 1..Len(intents) :
       intents[i].frame # NoFrame => pending_frames[intents[i].revision] = intents[i].frame

DrainTyped == drained \in Seq(Effect) /\ frame \in Frame \cup {NoFrame}

(***************************************************************************)
(* What drain_runtime hands to the reducer: intents of ascending           *)
(* revisions, of which only that of the taken frame carries it.            *)
(***************************************************************************)
LEMMA IntentsBuilt ==
  ASSUME drained \in Seq(Effect), frame \in Frame \cup {NoFrame}, batches \in Batches,
         pending_frames \in [Revisions -> Frame \cup {NoFrame}], DrainRuntime
  PROVE  /\ batches' \in Batches
         /\ pending_frames' \in [Revisions -> Frame \cup {NoFrame}]
         /\ intents' \in Seq(IntentType)
         /\ \A i, j \in 1..Len(intents') : i # j => intents'[i].revision # intents'[j].revision
         /\ \A i \in 1..Len(intents') :
              intents'[i].frame # NoFrame =>
                pending_frames'[intents'[i].revision] = intents'[i].frame
<1> DEFINE R == Released
           s == Ascending(R)
           c == Cardinality(R)
<1>1. Grouped \in Batches
  BY GroupedType, Zenon
<1>2. frame # NoFrame => frame \in Frame /\ frame.revision \in Revisions
  BY Zenon DEF Frame
<1>3. R \in SUBSET (1..MaxRevision) /\ R \in SUBSET Revisions /\ MaxRevision \in Nat
  BY <1>2, PublicationAssumption DEF Released, Revisions
<1>4. c \in Nat /\ s \in [1..c -> R] /\ \A i, j \in 1..c : i < j => s[i] < s[j]
  BY <1>3, AscendingFacts, Zenon DEF IsAscending
<1>5. batches' \in Batches
  BY <1>1 DEF DrainRuntime, Batches
<1>6. pending_frames' \in [Revisions -> Frame \cup {NoFrame}]
  BY <1>2, Zenon DEF DrainRuntime, FrameRemembered
<1>7. ASSUME NEW r \in Revisions
      PROVE  /\ Intent(r) \in IntentType /\ Intent(r).revision = r
             /\ Intent(r).frame # NoFrame =>
                  frame # NoFrame /\ r = frame.revision /\ Intent(r).frame = frame
  <2>1. Grouped[r] \in Seq(Effect)
    BY <1>1, Zenon DEF Batches
  <2> DEFINE e == [i \in DOMAIN Grouped[r] |-> Grouped[r][i].sequence]
  <2>2. DOMAIN Grouped[r] = 1..Len(Grouped[r]) /\ Len(Grouped[r]) \in Nat
        /\ \A i \in 1..Len(Grouped[r]) : Grouped[r][i] \in Effect
    BY <2>1, LenProperties, ElementOfSeq, Zenon
  <2>3. \A i \in 1..Len(Grouped[r]) : Grouped[r][i].sequence \in Nat
    BY <2>2, Zenon DEF Effect
  <2>4. e \in Seq(Nat)
    BY <2>2, <2>3, IsASeq
  <2> HIDE DEF e
  <2>5. Intent(r) = [revision |-> r,
                     frame |-> IF frame # NoFrame /\ r = frame.revision THEN frame ELSE NoFrame,
                     effects |-> e]
    BY Zenon DEF Intent, e
  <2> QED BY <2>4, <2>5 DEF IntentType
<1> HIDE DEF R, s, c
<1>8. intents' = [i \in 1..c |-> Intent(s[i])] /\ \A i \in 1..c : s[i] \in Revisions
  BY <1>3, <1>4, Zenon DEF DrainRuntime, R, s, c
<1>9. \A i \in 1..c : Intent(s[i]) \in IntentType
  BY <1>7, <1>8, Zenon
<1>10. intents' \in Seq(IntentType) /\ Len(intents') = c
  BY <1>4, <1>8, <1>9, IsASeq
<1>11. ASSUME NEW i \in 1..c, NEW j \in 1..c, i # j
       PROVE  intents'[i].revision # intents'[j].revision
  <2>1. s[i] \in Int /\ s[j] \in Int
    BY <1>8 DEF Revisions
  <2>2. s[i] # s[j]
    BY <1>4, <1>11, <2>1
  <2> QED BY <1>7, <1>8, <2>2, Zenon
<1>12. ASSUME NEW i \in 1..c, intents'[i].frame # NoFrame
       PROVE  pending_frames'[intents'[i].revision] = intents'[i].frame
  <2>1. intents'[i] = Intent(s[i]) /\ s[i] \in Revisions
    BY <1>8, Zenon
  <2>2. frame # NoFrame /\ s[i] = frame.revision /\ intents'[i].frame = frame
        /\ intents'[i].revision = s[i]
    BY <1>7, <1>12, <2>1, Zenon
  <2>3. pending_frames' = [pending_frames EXCEPT ![frame.revision] = frame]
    BY <2>2, Zenon DEF DrainRuntime, FrameRemembered
  <2> QED BY <1>2, <2>2, <2>3, Zenon
<1> QED BY <1>5, <1>6, <1>10, <1>11, <1>12, Zenon

(***************************************************************************)
(* Executing the effects of an accepted batch extends what was executed by *)
(* the next sequences.                                                     *)
(***************************************************************************)
LEMMA ExecutionExtends ==
  ASSUME NEW x \in Nat \ {0}, NEW q \in Seq(Nat), \A i \in DOMAIN q : q[i] = x + i - 1
  PROVE  [i \in 1..(x - 1) |-> i] \o q = [i \in 1..(x + Len(q) - 1) |-> i]
<1> DEFINE a == [i \in 1..(x - 1) |-> i]
           b == [i \in 1..(x + Len(q) - 1) |-> i]
           w == a \o q
<1>1. Len(q) \in Nat /\ DOMAIN q = 1..Len(q) /\ x - 1 \in Nat /\ x + Len(q) - 1 \in Nat
  BY LenProperties
<1>2. a \in Seq(Nat) /\ Len(a) = x - 1
  BY <1>1, IsASeq
<1>3. b \in Seq(Nat) /\ Len(b) = x + Len(q) - 1
  BY <1>1, IsASeq
<1>4. /\ w \in Seq(Nat) /\ Len(w) = (x - 1) + Len(q)
      /\ \A i \in 1..((x - 1) + Len(q)) : w[i] = IF i <= x - 1 THEN a[i] ELSE q[i - (x - 1)]
  <2> HIDE DEF a
  <2>1. /\ w \in Seq(Nat) /\ Len(w) = Len(a) + Len(q)
        /\ \A i \in 1..(Len(a) + Len(q)) : w[i] = IF i <= Len(a) THEN a[i] ELSE q[i - Len(a)]
    BY <1>2, ConcatProperties, Zenon
  <2> QED BY <1>2, <2>1, Zenon
<1>5. \A i \in 1..Len(w) : w[i] = b[i]
  <2> TAKE i \in 1..Len(w)
  <2>1. CASE i <= x - 1
    BY <1>1, <1>4, <2>1
  <2>2. CASE ~(i <= x - 1)
    <3>1. i - (x - 1) \in 1..Len(q) /\ w[i] = q[i - (x - 1)]
      BY <1>1, <1>4, <2>2
    <3>2. q[i - (x - 1)] = x + (i - (x - 1)) - 1
      BY <1>1, <3>1, Zenon
    <3>3. b[i] = i
      BY <1>1, <1>4
    <3> QED BY <3>1, <3>2, <3>3
  <2> QED BY <2>1, <2>2, Zenon
<1>6. Len(w) = Len(b)
  BY <1>1, <1>3, <1>4
<1> HIDE DEF a, b, w
<1>7. w = b
  BY <1>3, <1>4, <1>5, <1>6, SeqEqual, Zenon
<1> QED BY <1>7, Zenon DEF a, b, w

LEMMA ReduceStep ==
  ASSUME ReducerInv, ReduceBatch
  PROVE  ReducerInv'
<1> DEFINE head == Head(intents)
           tail == Tail(intents)
<1>1. /\ head \in IntentType /\ tail \in Seq(IntentType) /\ Len(tail) = Len(intents) - 1
      /\ \A i \in 1..Len(tail) : tail[i] = intents[i + 1]
      /\ head = intents[1] /\ Len(intents) \in Nat \ {0}
  BY HeadTailProperties, EmptySeq, LenProperties DEF ReducerInv, ReduceBatch
<1> HIDE DEF head, tail
<1>2. /\ intents' = tail /\ UNCHANGED batches
      /\ reduced' \in 0..MaxEffects
  BY PublicationAssumption DEF ReduceBatch, WithinTurnBudget, ReducerInv, tail
<1>3. /\ \A i, j \in 1..Len(tail) : i # j => tail[i].revision # tail[j].revision
      /\ \A i \in 1..Len(tail) : tail[i].revision # head.revision
      /\ \A i \in 1..Len(tail) : tail[i].frame # NoFrame =>
           pending_frames[tail[i].revision] = tail[i].frame
  <2>1. \A i \in 1..Len(tail) : i + 1 \in 1..Len(intents) /\ 1 \in 1..Len(intents) /\ i + 1 # 1
    BY <1>1
  <2>2. \A i, j \in 1..Len(tail) : i # j => i + 1 # j + 1
    OBVIOUS
  <2>3. /\ \A i, j \in 1..Len(intents) : i # j => intents[i].revision # intents[j].revision
        /\ \A i \in 1..Len(intents) : intents[i].frame # NoFrame =>
             pending_frames[intents[i].revision] = intents[i].frame
    BY Zenon DEF ReducerInv
  <2>4. ASSUME NEW i \in 1..Len(tail), NEW j \in 1..Len(tail), i # j
        PROVE  tail[i].revision # tail[j].revision
    BY <1>1, <2>1, <2>2, <2>3, <2>4, ZenonT(40)
  <2>5. ASSUME NEW i \in 1..Len(tail)
        PROVE  /\ tail[i].revision # head.revision
               /\ tail[i].frame # NoFrame => pending_frames[tail[i].revision] = tail[i].frame
    BY <1>1, <2>1, <2>3
  <2> QED BY <2>4, <2>5, Zenon
<1>t. \A i \in 1..Len(tail) : tail[i] \in IntentType
  BY <1>1, ElementOfSeq, Zenon
<1>4. \A i \in 1..Len(tail) : tail[i] \in IntentType /\ tail[i].revision \in Revisions
  BY <1>t, Zenon DEF IntentType
<1>5. head.revision \in Revisions /\ head.effects \in Seq(Nat) /\ Revisions \subseteq 0..MaxRevision
  BY <1>1, PublicationAssumption DEF IntentType, Revisions
<1>6. CASE Accepted(head)
  <2>1. /\ pane_revision' = head.revision
        /\ expected' = expected + Len(head.effects)
        /\ executed' = executed \o head.effects
        /\ pending_frames' \in {pending_frames,
                                [pending_frames EXCEPT ![head.revision] = NoFrame]}
    BY <1>6, Zenon DEF ReduceBatch, head
  <2>2. \A i \in DOMAIN head.effects : head.effects[i] = expected + i - 1
    BY <1>6, Zenon DEF Accepted, Validates
  <2>3. executed' = [i \in 1..(expected' - 1) |-> i]
    <3>1. expected \in Nat \ {0} /\ executed = [i \in 1..(expected - 1) |-> i]
      BY Zenon DEF ReducerInv
    <3>2. [i \in 1..(expected - 1) |-> i] \o head.effects
            = [i \in 1..(expected + Len(head.effects) - 1) |-> i]
      BY <1>5, <2>2, <3>1, ExecutionExtends, Zenon
    <3>3. expected' - 1 = expected + Len(head.effects) - 1
      <4>1. Len(head.effects) \in Nat /\ expected' = expected + Len(head.effects)
        BY <1>5, <2>1, LenProperties, Zenon
      <4> QED BY <3>1, <4>1
    <3> QED BY <2>1, <3>1, <3>2, <3>3, Zenon
  <2>4. expected' \in Nat \ {0}
    BY <1>5, <2>1, LenProperties DEF ReducerInv
  <2>5. pending_frames' \in [Revisions -> Frame \cup {NoFrame}]
    BY <1>5, <2>1, Zenon DEF ReducerInv
  <2>6. \A i \in 1..Len(tail) : pending_frames'[tail[i].revision] = pending_frames[tail[i].revision]
    BY <1>3, <1>4, <2>1, Zenon DEF ReducerInv
  <2>7. pane_revision' \in 0..MaxRevision
    BY <1>5, <2>1, Zenon
  <2>8. \A i \in 1..Len(intents') : intents'[i].frame # NoFrame =>
          pending_frames'[intents'[i].revision] = intents'[i].frame
    <3>1. ASSUME NEW i \in 1..Len(tail), tail[i].frame # NoFrame
          PROVE  pending_frames'[tail[i].revision] = tail[i].frame
      BY <1>3, <2>6, <3>1, Zenon
    <3> QED BY <1>2, <3>1, Zenon
  <2>9. /\ batches' \in Batches /\ intents' \in Seq(IntentType)
        /\ \A i, j \in 1..Len(intents') : i # j => intents'[i].revision # intents'[j].revision
    <3>1. batches' = batches /\ batches \in Batches
      BY <1>2, Zenon DEF ReducerInv
    <3> QED BY <1>1, <1>2, <1>3, <3>1, Zenon
  <2> QED BY <1>2, <2>3, <2>4, <2>5, <2>7, <2>8, <2>9, ZenonT(40) DEF ReducerInv
<1>7. CASE ~Accepted(head)
  <2>1. UNCHANGED <<pane_revision, expected, executed, pending_frames>>
    BY <1>7, Zenon DEF ReduceBatch, head
  <2> QED BY <1>1, <1>2, <1>3, <2>1, Zenon DEF ReducerInv
<1> QED BY <1>6, <1>7, Zenon

LEMMA ReducerStep ==
  ASSUME ReducerInv, DrainTyped, [DNext]_dvars
  PROVE  ReducerInv'
<1>1. CASE UNCHANGED <<batches, intents, pending_frames, pane_revision, expected, executed>>
           /\ reduced' \in {reduced, 0}
  BY <1>1, PublicationAssumption DEF ReducerInv
<1>2. CASE DrainRuntime
  <2>1. /\ batches' \in Batches
        /\ pending_frames' \in [Revisions -> Frame \cup {NoFrame}]
        /\ intents' \in Seq(IntentType)
        /\ \A i, j \in 1..Len(intents') : i # j => intents'[i].revision # intents'[j].revision
        /\ \A i \in 1..Len(intents') :
              intents'[i].frame # NoFrame =>
                pending_frames'[intents'[i].revision] = intents'[i].frame
    BY <1>2, IntentsBuilt, Zenon DEF ReducerInv, DrainTyped
  <2>2. UNCHANGED <<reduced, pane_revision, expected, executed>>
    BY <1>2, Zenon DEF DrainRuntime
  <2> QED BY <2>1, <2>2, Zenon DEF ReducerInv
<1>3. CASE ReduceBatch
  BY <1>3, ReduceStep, Zenon
<1>4. CASE Retire
  <2>1. /\ batches' = [r \in Revisions |-> <<>>] /\ intents' = <<>>
        /\ pending_frames' = [r \in Revisions |-> NoFrame]
        /\ UNCHANGED <<reduced, pane_revision, expected, executed>>
    BY <1>4, Zenon DEF Retire
  <2>2. batches' \in Batches
    BY <2>1 DEF Batches
  <2>3. intents' \in Seq(IntentType) /\ 1..Len(intents') = {}
    BY <2>1
  <2>4. /\ \A i, j \in 1..Len(intents') : i # j => intents'[i].revision # intents'[j].revision
        /\ \A i \in 1..Len(intents') :
              intents'[i].frame # NoFrame =>
                pending_frames'[intents'[i].revision] = intents'[i].frame
    BY <2>3, Zenon
  <2>5. pending_frames' \in [Revisions -> Frame \cup {NoFrame}]
    BY <2>1, Zenon
  <2>6. /\ reduced' \in 0..MaxEffects /\ pane_revision' \in 0..MaxRevision
        /\ expected' \in Nat \ {0} /\ executed' = [i \in 1..(expected' - 1) |-> i]
    BY <2>1, Zenon DEF ReducerInv
  <2> QED BY <2>2, <2>3, <2>4, <2>5, <2>6, Zenon DEF ReducerInv
<1>5. CASE FinishTurn
  BY <1>1, <1>5, Zenon DEF FinishTurn
<1>6. CASE UNCHANGED window
  BY <1>1, <1>6, Zenon DEF window
<1>7. CASE TurnContinue \/ TurnNotice \/ DrainTurn
  BY <1>6, <1>7, Zenon DEF TurnContinue, TurnNotice, DrainTurn
<1> QED BY <1>2, <1>3, <1>4, <1>5, <1>6, <1>7, Zenon DEF DNext, dvars

LEMMA ReducerInit == DInit => ReducerInv
<1> SUFFICES ASSUME DInit PROVE ReducerInv
  BY Zenon
<1>1. batches \in Batches
  BY DEF DInit, Batches
<1>2. intents \in Seq(IntentType) /\ Len(intents) = 0
  BY DEF DInit
<1> QED BY <1>1, <1>2, PublicationAssumption DEF DInit, ReducerInv

-----------------------------------------------------------------------------
(***************************************************************************)
(* The theorems about the publication, for the publication that the window *)
(* implements.                                                             *)
(***************************************************************************)
P == INSTANCE PublicationProofs WITH
       continuation <- Owed,
       hpc <- IF hpc = "reduce" THEN "idle" ELSE hpc

LEMMA SameAssumptions == NoFrame \notin P!Frame /\ P!IsFiniteSet(MetaKeys)
BY PublicationAssumption, NoFrameAssumption, SMTT(30)
   DEF P!Frame, P!Metadata, P!Revisions, Frame, Metadata, Revisions, IsFiniteSet, P!IsFiniteSet

LEMMA SameNext == [Pub!Next]_Pub!vars => [P!Next]_P!vars
BY Zenon DEF Pub!vars, P!vars, Pub!slot, P!slot, Pub!mailboxes, P!mailboxes,
   Pub!worker, P!worker, Pub!host, P!host, Pub!history, P!history, Pub!seen, P!seen,
   Pub!Next, P!Next, Pub!WorkerNext, P!WorkerNext, Pub!HostNext, P!HostNext,
   Pub!PublishStep, P!PublishStep, Pub!DrainStep, P!DrainStep, Pub!StartBatch,
   P!StartBatch, Pub!StartFinal, P!StartFinal, Pub!Begin, P!Begin, Pub!TrySend,
   P!TrySend, Pub!Send, P!Send, Pub!Signal, P!Signal, Pub!PublishFrame,
   P!PublishFrame, Pub!SendWake, P!SendWake, Pub!EndBatch, P!EndBatch, Pub!EndFinal,
   P!EndFinal, Pub!SendClosed, P!SendClosed, Pub!HostContinue, P!HostContinue,
   Pub!HostNotice, P!HostNotice, Pub!Receive, P!Receive, Pub!Measure, P!Measure,
   Pub!TakeFrame, P!TakeFrame, Pub!FinishDrain, P!FinishDrain, Pub!EndDrain,
   P!EndDrain, Pub!Shutdown, P!Shutdown, Pub!Joined, P!Joined, Pub!Reap, P!Reap,
   Pub!DiscardStale, P!DiscardStale, Pub!NewFrame, P!NewFrame, Pub!Abandon,
   P!Abandon, Pub!HasSpace, P!HasSpace, Pub!Enqueued, P!Enqueued, Pub!SignalWork,
   P!SignalWork, Pub!Coalesced, P!Coalesced, Pub!Overlay, P!Overlay,
   Pub!NextRevision, P!NextRevision, Pub!HasWork, P!HasWork, Pub!CompleteWake,
   P!CompleteWake

LEMMA SameInit == Pub!Init => P!Init
BY Zenon DEF Pub!Init, P!Init

(***************************************************************************)
(* Effects are neither lost nor reordered, a replaced frame is covered and *)
(* Closed comes last, also when a turn's budget leaves intents over and    *)
(* later turns reduce them first (RuntimePorts::drain_runtime,             *)
(* WinitHost::drain_runtime_turn).                                         *)
(***************************************************************************)
THEOREM TurnsKeepPromises == DSpec => [](EffectsInOrder /\ SkippedFramesCovered /\ ClosedAfterDrain)
<1>1. DSpec => P!Spec
  BY TurnsImplementDrains, SameInit, SameNext, PTL DEF PubSpec, Pub!Spec, P!Spec
<1>2. P!Spec => []P!EffectsInOrder
  BY PublicationAssumption, SameAssumptions, P!EffectsNeverReordered, PTL
<1>3. P!Spec => []P!SkippedFramesCovered
  BY PublicationAssumption, SameAssumptions, P!ReplacedFramesCovered, PTL
<1>4. P!Spec => []P!ClosedAfterDrain
  BY PublicationAssumption, SameAssumptions, P!ClosedComesLast, PTL
<1>5. P!EffectsInOrder => EffectsInOrder
  BY Zenon DEF P!EffectsInOrder, P!InFlight, EffectsInOrder, InFlight
<1>6. P!SkippedFramesCovered => SkippedFramesCovered
  BY Zenon DEF P!SkippedFramesCovered, P!Overlay, SkippedFramesCovered, Overlay
<1>7. P!ClosedAfterDrain => ClosedAfterDrain
  BY Zenon DEF P!ClosedAfterDrain, ClosedAfterDrain
<1> QED BY <1>1, <1>2, <1>3, <1>4, <1>5, <1>6, <1>7, PTL

Inherited == P!PubInv /\ P!PlaceType

LEMMA DrainTypes == Inherited => DrainTyped
BY Zenon
   DEF DrainTyped, Inherited, P!PubInv, P!PubType, P!PlaceType, P!Effect, P!Frame, P!Metadata, P!Revisions,
   Effect, Frame, Metadata, Revisions

LEMMA InheritedStep ==
  ASSUME Inherited, TurnInv, [DNext]_dvars
  PROVE  Inherited'
<1>1. [P!Next]_P!vars
  BY StepMaps, SameNext, Zenon
<1>2. P!PubInv'
  BY <1>1, PublicationAssumption, SameAssumptions, P!PubStep, Zenon DEF Inherited
<1>3. P!PlaceType'
  BY <1>1, PublicationAssumption, SameAssumptions, P!PlaceStep, Zenon DEF Inherited, P!PubInv
<1> QED BY <1>2, <1>3, Zenon DEF Inherited

LEMMA InheritedInit == DInit => Inherited
<1> SUFFICES ASSUME DInit PROVE Inherited
  BY Zenon
<1>1. P!Init
  BY InitMaps, SameInit, Zenon
<1>2. P!PubInv
  BY <1>1, PublicationAssumption, SameAssumptions, P!PubInit, Zenon
<1>3. P!PlaceType
  BY PublicationAssumption DEF DInit, Init, P!PlaceType, P!WorkerPlaces, P!HostPlaces
<1> QED BY <1>2, <1>3, Zenon DEF Inherited

LEMMA WindowInvariant == DSpec => [](TurnInv /\ Inherited /\ ReducerInv)
<1>1. TurnInv /\ Inherited /\ ReducerInv /\ [DNext]_dvars => (TurnInv /\ Inherited /\ ReducerInv)'
  BY TurnStep, InheritedStep, DrainTypes, ReducerStep, Zenon
<1> QED BY <1>1, TurnInit, InheritedInit, ReducerInit, PTL DEF DSpec

(***************************************************************************)
(* Effects are executed once, in sequence and without a gap, whatever      *)
(* drains, groups and turns they came in (reduce_runtime_batch,            *)
(* EffectSequenceCursor::validate_batch).                                  *)
(***************************************************************************)
THEOREM EffectsExecutedInSequence == DSpec => []ExecutedInSequence
<1>1. TurnInv /\ ReducerInv => ExecutedInSequence
  <2> SUFFICES ASSUME TurnInv, ReducerInv PROVE ExecutedInSequence
    BY Zenon
  <2>1. \A i \in DOMAIN intents : intents[i] \in IntentType
    BY LenProperties, ElementOfSeq, Zenon DEF ReducerInv
  <2> QED BY <2>1, Zenon
             DEF TurnInv, ReducerInv, ExecutedInSequence, WindowTypeOK, Batches, IntentType
<1> QED BY <1>1, WindowInvariant, PTL

(***************************************************************************)
(* The reducer finds the pending frame of every intent that carries one    *)
(* (RuntimePorts::renderer).                                               *)
(***************************************************************************)
THEOREM FramesNeverMissing == DSpec => []FrameAvailable
<1>1. ReducerInv => FrameAvailable
  <2> SUFFICES ASSUME ReducerInv PROVE FrameAvailable
    BY Zenon
  <2>1. DOMAIN intents = 1..Len(intents)
    BY LenProperties, Zenon DEF ReducerInv
  <2> QED BY <2>1, Zenon DEF ReducerInv, FrameAvailable
<1> QED BY <1>1, WindowInvariant, PTL

=============================================================================
