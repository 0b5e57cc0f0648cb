-------------------------- MODULE PaneWorkerProofs --------------------------
(***************************************************************************)
(* The last notice of a pane, and what becomes of its output and its       *)
(* input, for every capacity of its mailboxes and any number of chunks and *)
(* commands.                                                               *)
(***************************************************************************)
EXTENDS PaneWorker, SequenceTheorems, WellFoundedInduction, TLAPS

Notices == {"ready", "first_byte", "wake", "written", "closed"}

(***************************************************************************)
(* The worker sends Closed only after it has joined the reader, the other  *)
(* thread that sends notices.                                              *)
(***************************************************************************)
JoinedInv == wpc \in {"closed", "gone"} => rpc = "gone"

NoticesInv == notices \in Seq(Notices)

-----------------------------------------------------------------------------
LEMMA NoticesTyped == NoticesInv /\ [Next]_vars => NoticesInv'
<1> SUFFICES ASSUME NoticesInv, [Next]_vars PROVE NoticesInv'
  BY Zenon
<1>1. ASSUME NEW notice \in Notices, Notify(notice) PROVE NoticesInv'
  BY <1>1 DEF Notify, NoticesInv
<1>2. CASE notices # <<>> /\ notices' = Tail(notices)
  BY <1>2 DEF NoticesInv
<1>3. CASE UNCHANGED notices
  BY <1>3, Zenon DEF NoticesInv
<1>4. CASE ReaderStep
  BY <1>1, <1>3, <1>4, Zenon DEF ReaderStep, Read, Announce, ReaderSend, channels, Notices
<1>5. CASE WorkerStep \/ PollFails
  BY <1>1, <1>3, <1>5, Zenon DEF WorkerStep, SendReady, AbandonJoin, NextMessage, PollExit,
     Write, Report, Collect, Parse, Publish, CloseInbox, PublishFlushed,
     JoinReader, SendClosed, PollFails, channels, Notices
<1>6. CASE WindowStep \/ ChildExits \/ UNCHANGED vars
  BY <1>2, <1>3, <1>6, Zenon DEF WindowStep, Submit, Poll, FlushOne, FlushEnds,
     ReceiveNotice, PollDone, RequestClose, Reap, DrainEffects, Shutdown, ChildExits, vars, channels
<1> QED BY <1>4, <1>5, <1>6, Zenon DEF Next

LEMMA JoinedBeforeClosed == JoinedInv /\ [Next]_vars => JoinedInv'
<1> SUFFICES ASSUME JoinedInv, [Next]_vars PROVE JoinedInv'
  BY Zenon
<1>1. CASE ReaderStep
  BY <1>1, Zenon DEF JoinedInv, ReaderStep, Read, Announce, ReaderSend, worker
<1>2. CASE NextMessage
  <2>1. wpc' \notin {"closed", "gone"}
    BY <1>2, Zenon DEF NextMessage, Dispatch, Leave
  <2> QED BY <2>1, Zenon DEF JoinedInv
<1>3. CASE \/ SendReady \/ Write \/ Report \/ Collect \/ Parse \/ Publish
           \/ CloseInbox \/ PublishFlushed \/ PollFails
  <2>1. wpc' \notin {"closed", "gone"}
    BY <1>3, Zenon DEF SendReady, Write, Report, Collect, Parse, Publish, CloseInbox,
       PublishFlushed, PollFails, Leave
  <2> QED BY <2>1, Zenon DEF JoinedInv
<1>4. CASE AbandonJoin \/ JoinReader \/ SendClosed
  BY <1>4, Zenon DEF JoinedInv, AbandonJoin, JoinReader, SendClosed, ReaderJoined, reader
<1>5. CASE PollExit
  BY <1>5, Zenon DEF JoinedInv, PollExit, AfterExit, reader
<1>6. CASE DrainEffects
  BY <1>6, Zenon DEF JoinedInv, DrainEffects, reader
<1>7. CASE \/ Submit \/ Poll \/ FlushOne \/ FlushEnds \/ ReceiveNotice
           \/ PollDone \/ RequestClose \/ Reap \/ Shutdown \/ ChildExits \/ UNCHANGED vars
  <2>1. UNCHANGED <<wpc, rpc>>
    BY <1>7, Zenon DEF Submit, Poll, FlushOne, FlushEnds, ReceiveNotice, PollDone,
       RequestClose, Reap, Shutdown, ChildExits, vars, worker, reader
  <2> QED BY <2>1, Zenon DEF JoinedInv
<1> QED
  BY <1>1, <1>2, <1>3, <1>4, <1>5, <1>6, <1>7, Zenon DEF Next, WorkerStep, WindowStep

(***************************************************************************)
(* "The worker and its blocking reader have stopped" (PaneNotice::Closed): *)
(* no notice follows a pane's Closed, however the threads interleave.      *)
(***************************************************************************)
THEOREM NothingAfterClosed == Spec => ClosedIsLast
<1>1. Init => JoinedInv /\ NoticesInv
  BY DEF Init, JoinedInv, NoticesInv
<1>2. ASSUME JoinedInv, NoticesInv, [Next]_vars
      PROVE  [wpc = "gone" => Len(notices') <= Len(notices)]_vars
  <2> SUFFICES ASSUME wpc = "gone" PROVE Len(notices') <= Len(notices)
    BY Zenon
  <2>1. rpc = "gone" /\ notices \in Seq(Notices)
    BY <1>2, Zenon DEF JoinedInv, NoticesInv
  <2>2. CASE UNCHANGED notices
    BY <2>1, <2>2
  <2>3. CASE notices # <<>> /\ notices' = Tail(notices)
    BY <2>1, <2>3
  <2>4. ~ReaderStep
    BY <2>1, Zenon DEF ReaderStep, Read, Announce, ReaderSend
  <2>5. ~WorkerStep /\ ~PollFails
    BY Zenon DEF WorkerStep, SendReady, AbandonJoin, NextMessage, PollExit, Write, Report,
       Collect, Parse, Publish, CloseInbox, PublishFlushed, JoinReader, SendClosed,
       PollFails
  <2>6. CASE WindowStep \/ ChildExits \/ UNCHANGED vars
    BY <2>2, <2>3, <2>6, Zenon DEF WindowStep, Submit, Poll, FlushOne, FlushEnds,
       ReceiveNotice, PollDone, RequestClose, Reap, DrainEffects, Shutdown, ChildExits, vars, channels
  <2> QED BY <1>2, <2>4, <2>5, <2>6, Zenon DEF Next
<1> QED BY <1>1, <1>2, NoticesTyped, JoinedBeforeClosed, PTL DEF Spec, ClosedIsLast

-----------------------------------------------------------------------------
(***************************************************************************)
(* Induction over the natural numbers, on the set of numbers that have the *)
(* property.                                                               *)
(***************************************************************************)
LEMMA NatSetInduction ==
  ASSUME NEW S, 0 \in S, \A n \in Nat : n \in S => n + 1 \in S
  PROVE  \A n \in Nat : n \in S
<1> SUFFICES ASSUME Nat \ S # {} PROVE FALSE
  BY Zenon
<1> DEFINE R == OpToRel(<, Nat)
<1>1. IsWellFoundedOn(R, Nat)
  BY NatLessThanWellFounded, Zenon
<1>2. PICK x \in Nat \ S : \A y \in Nat \ S : ~(<<y, x>> \in R)
  BY <1>1, WFMin, Zenon
<1>3. x # 0 /\ x - 1 \in Nat
  OBVIOUS
<1>4. <<x - 1, x>> \in R
  BY <1>3 DEF OpToRel
<1>5. x - 1 \in S
  BY <1>2, <1>3, <1>4, Zenon
<1>6. (x - 1) + 1 \in S
  BY <1>3, <1>5, Zenon
<1> QED BY <1>6

(***************************************************************************)
(* What Of computes: f[n] holds the numbers among the first n messages.    *)
(***************************************************************************)
Picked(kind, m, ids) == IF m.kind = kind THEN Append(ids, m.id) ELSE ids

Selects(f, kind, s, k) ==
  /\ f \in [0..k -> Seq(Nat)]
  /\ f[0] = <<>>
  /\ \A n \in 1..k : f[n] = Picked(kind, s[n], f[n - 1])

LEMMA PickedType ==
  ASSUME NEW kind, NEW m \in Messages, NEW ids \in Seq(Nat)
  PROVE  Picked(kind, m, ids) \in Seq(Nat)
<1>1. m.id \in Nat
  BY Zenon DEF Messages
<1> QED BY <1>1, AppendProperties, Zenon DEF Picked

LEMMA SelectsExists ==
  ASSUME NEW kind, NEW s \in Seq(Messages)
  PROVE  \E f : Selects(f, kind, s, Len(s))
<1> DEFINE E == {k \in Nat : k <= Len(s) => \E f : Selects(f, kind, s, k)}
<1>0. Len(s) \in Nat /\ \A n \in 1..Len(s) : s[n] \in Messages
  BY LenProperties, ElementOfSeq, Zenon
<1>1. 0 \in E
  <2>1. Selects([n \in 0..0 |-> <<>>], kind, s, 0)
    BY DEF Selects
  <2> QED BY <2>1, Zenon
<1>2. ASSUME NEW k \in Nat, k \in E PROVE k + 1 \in E
  <2> SUFFICES ASSUME k + 1 <= Len(s) PROVE \E f : Selects(f, kind, s, k + 1)
    OBVIOUS
  <2>1. PICK f : Selects(f, kind, s, k)
    BY <1>0, <1>2
  <2> DEFINE last == Picked(kind, s[k + 1], f[k])
             g == [n \in 0..(k + 1) |-> IF n = k + 1 THEN last ELSE f[n]]
  <2>2. last \in Seq(Nat)
    <3>1. s[k + 1] \in Messages /\ f[k] \in Seq(Nat)
      BY <1>0, <2>1 DEF Selects
    <3> QED BY <3>1, PickedType, Zenon
  <2> HIDE DEF last
  <2>3. g \in [0..(k + 1) -> Seq(Nat)]
    BY <2>1, <2>2 DEF Selects
  <2>4. g[0] = <<>>
    BY <2>1 DEF Selects
  <2>5. ASSUME NEW n \in 1..(k + 1) PROVE g[n] = Picked(kind, s[n], g[n - 1])
    <3>1. n - 1 \in 0..(k + 1) /\ n - 1 # k + 1
      OBVIOUS
    <3>2. g[n - 1] = f[n - 1]
      BY <3>1, Zenon
    <3>3. CASE n = k + 1
      BY <3>2, <3>3 DEF last
    <3>4. CASE n \in 1..k
      BY <2>1, <3>2, <3>4 DEF Selects
    <3> QED BY <3>3, <3>4
  <2>6. Selects(g, kind, s, k + 1)
    <3> HIDE DEF g
    <3> QED BY <2>3, <2>4, <2>5, Zenon DEF Selects
  <2> QED BY <2>6, Zenon
<1>3. \A k \in Nat : k \in E
  <2> HIDE DEF E
  <2> QED BY <1>1, <1>2, NatSetInduction, Zenon
<1> QED BY <1>0, <1>3

(***************************************************************************)
(* It depends on the messages up to the place only.                        *)
(***************************************************************************)
LEMMA SelectsAgree ==
  ASSUME NEW kind, NEW s, NEW t, NEW f, NEW g, NEW k \in Nat, NEW l \in Nat, k <= l,
         Selects(f, kind, s, k), Selects(g, kind, t, l),
         \A n \in 1..k : s[n] = t[n]
  PROVE  f[k] = g[k]
<1> DEFINE E == {n \in Nat : n <= k => f[n] = g[n]}
<1>1. 0 \in E
  BY Zenon DEF Selects
<1>2. ASSUME NEW n \in Nat, n \in E PROVE n + 1 \in E
  <2> SUFFICES ASSUME n + 1 <= k PROVE f[n + 1] = g[n + 1]
    OBVIOUS
  <2>1. n + 1 \in 1..k /\ n + 1 \in 1..l /\ (n + 1) - 1 = n /\ f[n] = g[n]
    BY <1>2
  <2>2. f[n + 1] = Picked(kind, s[n + 1], f[n]) /\ g[n + 1] = Picked(kind, t[n + 1], g[n])
    BY <2>1, Zenon DEF Selects
  <2> QED BY <2>1, <2>2, Zenon
<1>3. \A n \in Nat : n \in E
  <2> HIDE DEF E
  <2> QED BY <1>1, <1>2, NatSetInduction, Zenon
<1> QED BY <1>3

LEMMA OfSelects ==
  ASSUME NEW kind, NEW s \in Seq(Messages), NEW f, Selects(f, kind, s, Len(s))
  PROVE  Of(kind, s) = f[Len(s)]
<1> DEFINE Eq(h) == h = [n \in 0..Len(s) |->
                       IF n = 0 THEN <<>>
                       ELSE IF s[n].kind = kind THEN Append(h[n - 1], s[n].id)
                       ELSE h[n - 1]]
           h == CHOOSE first : Eq(first)
<1>0. Len(s) \in Nat
  BY LenProperties, Zenon
<1>1. Eq(f)
  <2>1. ASSUME NEW n \in 0..Len(s)
        PROVE  f[n] = IF n = 0 THEN <<>>
                      ELSE IF s[n].kind = kind THEN Append(f[n - 1], s[n].id)
                      ELSE f[n - 1]
    <3>1. CASE n = 0
      BY <3>1, Zenon DEF Selects
    <3>2. CASE n # 0
      <4>1. n \in 1..Len(s)
        BY <1>0, <3>2
      <4> QED BY <3>2, <4>1, Zenon DEF Selects, Picked
    <3> QED BY <3>1, <3>2, Zenon
  <2>2. f = [n \in 0..Len(s) |-> f[n]]
    BY Zenon DEF Selects
  <2> QED BY <2>1, <2>2, Zenon
<1>2. Eq(h)
  BY <1>1, Zenon
<1>3. Of(kind, s) = h[Len(s)]
  BY Zenon DEF Of
<1> HIDE DEF h
<1> DEFINE E == {n \in Nat : n <= Len(s) => f[n] = h[n]}
<1>4. 0 \in E
  BY <1>0, <1>2 DEF Selects
<1>5. ASSUME NEW n \in Nat, n \in E PROVE n + 1 \in E
  <2> SUFFICES ASSUME n + 1 <= Len(s) PROVE f[n + 1] = h[n + 1]
    OBVIOUS
  <2>1. n + 1 \in 1..Len(s) /\ n + 1 # 0 /\ n + 1 \in 0..Len(s) /\ (n + 1) - 1 = n /\ f[n] = h[n]
    BY <1>0, <1>5
  <2>2. f[n + 1] = Picked(kind, s[n + 1], f[n])
    BY <2>1, Zenon DEF Selects
  <2>3. h[n + 1] = Picked(kind, s[n + 1], h[n])
    BY <1>2, <2>1, Zenon DEF Picked
  <2> QED BY <2>1, <2>2, <2>3, Zenon
<1>6. \A n \in Nat : n \in E
  <2> HIDE DEF E
  <2> QED BY <1>4, <1>5, NatSetInduction, Zenon
<1> QED BY <1>0, <1>3, <1>6

LEMMA OfType ==
  ASSUME NEW kind, NEW s \in Seq(Messages)
  PROVE  Of(kind, s) \in Seq(Nat)
<1>1. PICK f : Selects(f, kind, s, Len(s))
  BY SelectsExists, Zenon
<1>2. Of(kind, s) = f[Len(s)] /\ Len(s) \in Nat
  BY <1>1, OfSelects, LenProperties, Zenon
<1> QED BY <1>1, <1>2 DEF Selects

LEMMA OfEmpty ==
  ASSUME NEW kind
  PROVE  Of(kind, <<>>) = <<>>
<1>0. <<>> \in Seq(Messages) /\ Len(<<>>) = 0
  OBVIOUS
<1>1. PICK f : Selects(f, kind, <<>>, 0)
  BY <1>0, SelectsExists, Zenon
<1>2. Of(kind, <<>>) = f[0]
  BY <1>0, <1>1, OfSelects, Zenon
<1> QED BY <1>1, <1>2, Zenon DEF Selects

LEMMA OfAppend ==
  ASSUME NEW kind, NEW s \in Seq(Messages), NEW m \in Messages
  PROVE  Of(kind, Append(s, m)) = Picked(kind, m, Of(kind, s))
<1> DEFINE t == Append(s, m)
<1>0. /\ t \in Seq(Messages) /\ Len(s) \in Nat /\ Len(t) = Len(s) + 1
      /\ t[Len(s) + 1] = m /\ \A n \in 1..Len(s) : s[n] = t[n]
  BY AppendProperties, LenProperties
<1> HIDE DEF t
<1>1. PICK f : Selects(f, kind, s, Len(s))
  BY SelectsExists, Zenon
<1>2. PICK g : Selects(g, kind, t, Len(t))
  BY <1>0, SelectsExists, Zenon
<1>3. f[Len(s)] = g[Len(s)]
  <2>1. Len(t) \in Nat /\ Len(s) <= Len(t)
    BY <1>0
  <2> QED BY <1>0, <1>1, <1>2, <2>1, SelectsAgree
<1>4. g[Len(t)] = Picked(kind, m, g[Len(s)])
  <2>1. Len(t) \in 1..Len(t) /\ Len(t) - 1 = Len(s)
    BY <1>0
  <2> QED BY <1>0, <1>2, <2>1, Zenon DEF Selects
<1>5. Of(kind, s) = f[Len(s)] /\ Of(kind, t) = g[Len(t)]
  BY <1>0, <1>1, <1>2, OfSelects, Zenon
<1> QED BY <1>3, <1>4, <1>5, Zenon DEF t

(***************************************************************************)
(* Induction over sequences, on the set of sequences that have the         *)
(* property.                                                               *)
(***************************************************************************)
LEMMA SeqSetInduction ==
  ASSUME NEW T, NEW S, <<>> \in S,
         \A s \in Seq(T) : \A e \in T : s \in S => Append(s, e) \in S
  PROVE  \A s \in Seq(T) : s \in S
<1> DEFINE E == {n \in Nat : \A s \in Seq(T) : Len(s) = n => s \in S}
<1>1. 0 \in E
  <2>1. ASSUME NEW s \in Seq(T), Len(s) = 0 PROVE s = <<>>
    BY <2>1, EmptySeq, Zenon
  <2> QED BY <2>1, Zenon
<1>2. ASSUME NEW n \in Nat, n \in E PROVE n + 1 \in E
  <2> SUFFICES ASSUME NEW s \in Seq(T), Len(s) = n + 1 PROVE s \in S
    OBVIOUS
  <2>1. s # <<>>
    OBVIOUS
  <2>2. PICK u \in Seq(T), e \in T : s = Append(u, e)
    BY <2>1, SequenceEmptyOrAppend, Zenon
  <2>3. Len(u) = n
    BY <2>2, AppendProperties, LenProperties
  <2> QED BY <1>2, <2>2, <2>3, Zenon
<1>3. \A n \in Nat : n \in E
  <2> HIDE DEF E
  <2> QED BY <1>1, <1>2, NatSetInduction, Zenon
<1> QED BY <1>3, LenProperties, Zenon

LEMMA Regroup ==
  ASSUME NEW s \in Seq(Nat), NEW t \in Seq(Nat), NEW u \in Seq(Nat)
  PROVE  (s \o t) \o u = s \o (t \o u)
BY SMTT(40)

LEMMA AppendRegroup ==
  ASSUME NEW s \in Seq(Nat), NEW t \in Seq(Nat), NEW n \in Nat
  PROVE  s \o Append(t, n) = Append(s \o t, n)
<1>1. <<n>> \in Seq(Nat) /\ s \o t \in Seq(Nat)
  BY ConcatProperties
<1>2. Append(t, n) = t \o <<n>>
  BY AppendIsConcat, Zenon
<1>3. Append(s \o t, n) = (s \o t) \o <<n>>
  BY <1>1, AppendIsConcat, Zenon
<1>4. (s \o t) \o <<n>> = s \o (t \o <<n>>)
  BY <1>1, Regroup, ZenonT(30)
<1> QED BY <1>2, <1>3, <1>4, Zenon

LEMMA OfConcat ==
  ASSUME NEW kind, NEW s \in Seq(Messages), NEW t \in Seq(Messages)
  PROVE  Of(kind, s \o t) = Of(kind, s) \o Of(kind, t)
<1> DEFINE S == {u \in Seq(Messages) : Of(kind, s \o u) = Of(kind, s) \o Of(kind, u)}
<1>0. Of(kind, s) \in Seq(Nat)
  BY OfType, Zenon
<1>1. <<>> \in S
  BY <1>0, OfEmpty, ConcatEmptySeq, EmptySeq, Zenon
<1>2. ASSUME NEW u \in Seq(Messages), NEW m \in Messages, u \in S PROVE Append(u, m) \in S
  <2>1. /\ <<m>> \in Seq(Messages) /\ s \o u \in Seq(Messages)
        /\ Append(u, m) = u \o <<m>> /\ Append(u, m) \in Seq(Messages)
        /\ Append(s \o u, m) = (s \o u) \o <<m>>
    BY AppendIsConcat, AppendProperties, ConcatProperties
  <2>2. s \o Append(u, m) = Append(s \o u, m)
    BY <2>1
  <2>3. Of(kind, s \o Append(u, m)) = Picked(kind, m, Of(kind, s) \o Of(kind, u))
    BY <1>2, <2>1, <2>2, OfAppend, ZenonT(30)
  <2>4. Of(kind, Append(u, m)) = Picked(kind, m, Of(kind, u))
    BY OfAppend, Zenon
  <2>5. m.id \in Nat /\ Of(kind, u) \in Seq(Nat) /\ <<m.id>> \in Seq(Nat)
    BY OfType DEF Messages
  <2>6. Of(kind, s) \o Append(Of(kind, u), m.id) = Append(Of(kind, s) \o Of(kind, u), m.id)
    BY <1>0, <2>5, AppendRegroup, Zenon
  <2>7. Of(kind, s \o Append(u, m)) = Of(kind, s) \o Of(kind, Append(u, m))
    BY <2>3, <2>4, <2>6, Zenon DEF Picked
  <2> QED BY <2>1, <2>7, Zenon
<1>3. \A u \in Seq(Messages) : u \in S
  <2> HIDE DEF S
  <2> QED BY <1>1, <1>2, SeqSetInduction, Zenon
<1> QED BY <1>3, Zenon

LEMMA OfNone ==
  ASSUME NEW kind, NEW s \in Seq(Messages), \A i \in 1..Len(s) : s[i].kind # kind
  PROVE  Of(kind, s) = <<>>
<1> DEFINE S == {u \in Seq(Messages) : (\A i \in 1..Len(u) : u[i].kind # kind) => Of(kind, u) = <<>>}
<1>1. <<>> \in S
  BY OfEmpty, EmptySeq, Zenon
<1>2. ASSUME NEW u \in Seq(Messages), NEW m \in Messages, u \in S PROVE Append(u, m) \in S
  <2> DEFINE t == Append(u, m)
  <2>1. /\ t \in Seq(Messages) /\ Len(t) = Len(u) + 1 /\ Len(u) \in Nat
        /\ t[Len(u) + 1] = m /\ \A i \in 1..Len(u) : t[i] = u[i]
    BY AppendProperties, LenProperties
  <2>2. Of(kind, t) = Picked(kind, m, Of(kind, u))
    BY OfAppend, Zenon
  <2> HIDE DEF t
  <2> SUFFICES ASSUME \A i \in 1..Len(t) : t[i].kind # kind PROVE Of(kind, t) = <<>>
    BY <2>1, Zenon DEF t
  <2>3. m.kind # kind /\ \A i \in 1..Len(u) : u[i].kind # kind
    BY <2>1
  <2>4. Of(kind, u) = <<>>
    BY <1>2, <2>3, Zenon
  <2> QED BY <2>2, <2>3, <2>4, Zenon DEF Picked
<1>3. \A u \in Seq(Messages) : u \in S
  <2> HIDE DEF S
  <2> QED BY <1>1, <1>2, SeqSetInduction, Zenon
<1> QED BY <1>3, Zenon

(***************************************************************************)
(* A pipeline: what is done, then the message put back, the inbox and what *)
(* waits to enter it.  The steps of the threads move messages along it.    *)
(***************************************************************************)
Pipe(kind, done, p, i, r) == done \o Of(kind, p \o i \o r)

LEMMA QueueType ==
  ASSUME NEW p \in Seq(Messages), NEW i \in Seq(Messages), NEW r \in Seq(Messages)
  PROVE  p \o i \o r \in Seq(Messages)
BY ConcatProperties, Zenon

LEMMA OfOne ==
  ASSUME NEW kind, NEW m \in Messages
  PROVE  /\ <<m>> \in Seq(Messages)
         /\ Of(kind, <<m>>) = Picked(kind, m, <<>>)
<1>1. <<m>> = Append(<<>>, m) /\ <<>> \in Seq(Messages) /\ <<m>> \in Seq(Messages)
  OBVIOUS
<1>2. Of(kind, Append(<<>>, m)) = Picked(kind, m, Of(kind, <<>>))
  BY <1>1, OfAppend, Zenon
<1>3. Of(kind, <<>>) = <<>>
  BY OfEmpty, Zenon
<1> QED BY <1>1, <1>2, <1>3, Zenon

(***************************************************************************)
(* Taking a message of the kind moves its number to what is done.          *)
(***************************************************************************)
LEMMA PickFirst ==
  ASSUME NEW kind, NEW done \in Seq(Nat), NEW m \in Messages, NEW s \in Seq(Messages)
  PROVE  done \o Of(kind, <<m>> \o s) = Picked(kind, m, done) \o Of(kind, s)
<1>1. <<m>> \in Seq(Messages) /\ Of(kind, <<m>>) = Picked(kind, m, <<>>)
  BY OfOne, Zenon
<1>2. Of(kind, s) \in Seq(Nat) /\ m.id \in Nat /\ <<m.id>> \in Seq(Nat)
  BY OfType DEF Messages
<1>3. Of(kind, <<m>> \o s) = Picked(kind, m, <<>>) \o Of(kind, s)
  BY <1>1, OfConcat, ZenonT(40)
<1>4. CASE m.kind = kind
  <2>1. Picked(kind, m, <<>>) = <<m.id>> /\ Picked(kind, m, done) = done \o <<m.id>>
    <3>1. Append(<<>>, m.id) = <<m.id>> /\ Append(done, m.id) = done \o <<m.id>>
      BY <1>2, AppendIsConcat
    <3> QED BY <1>4, <3>1, Zenon DEF Picked
  <2>2. done \o (<<m.id>> \o Of(kind, s)) = (done \o <<m.id>>) \o Of(kind, s)
    BY <1>2, SMTT(40)
  <2> QED BY <1>3, <2>1, <2>2, Zenon
<1>5. CASE m.kind # kind
  BY <1>2, <1>3, <1>5, ConcatEmptySeq, Zenon DEF Picked
<1> QED BY <1>4, <1>5, Zenon

LEMMA HeadFirst ==
  ASSUME NEW T, NEW s \in Seq(T), s # <<>>
  PROVE  /\ Head(s) \in T /\ Tail(s) \in Seq(T) /\ <<Head(s)>> \in Seq(T)
         /\ s = <<Head(s)>> \o Tail(s)
<1>1. Head(s) \in T /\ Tail(s) \in Seq(T) /\ <<Head(s)>> \in Seq(T)
  BY HeadTailProperties
<1> DEFINE t == <<Head(s)>> \o Tail(s)
<1>2. Len(s) \in Nat \ {0}
  BY EmptySeq, Zenon
<1>3. Len(t) = Len(s) /\ t \in Seq(T)
  BY <1>1, <1>2, ConcatProperties, HeadTailProperties
<1>4. ASSUME NEW k \in 1..Len(s) PROVE s[k] = t[k]
  <2>1. CASE k = 1
    BY <1>1, <1>2, <2>1, ConcatProperties
  <2>2. CASE k # 1
    <3>1. Len(<<Head(s)>>) = 1 /\ Len(Tail(s)) = Len(s) - 1
      BY HeadTailProperties, Zenon
    <3>2. t[k] = Tail(s)[k - 1]
      BY <1>1, <1>2, <2>2, <3>1, ConcatProperties
    <3>3. k - 1 \in 1..Len(Tail(s)) /\ (k - 1) + 1 = k
      BY <1>2, <2>2, <3>1
    <3>4. Tail(s)[k - 1] = s[(k - 1) + 1]
      BY <3>3, HeadTailProperties, Zenon
    <3> QED BY <3>2, <3>3, <3>4, Zenon
  <2> QED BY <2>1, <2>2, Zenon
<1>5. s = t
  <2> HIDE DEF t
  <2> QED BY <1>3, <1>4, SeqEqual, Zenon
<1> QED BY <1>1, <1>5, Zenon

LEMMA TakePutBack ==
  ASSUME NEW kind, NEW done \in Seq(Nat), NEW m \in Messages,
         NEW i \in Seq(Messages), NEW r \in Seq(Messages)
  PROVE  Pipe(kind, done, <<m>>, i, r) = Pipe(kind, Picked(kind, m, done), <<>>, i, r)
<1>1. <<m>> \in Seq(Messages) /\ i \o r \in Seq(Messages) /\ <<>> \o i = i
  BY OfOne, ConcatProperties, ConcatEmptySeq, Zenon
<1>2. <<m>> \o i \o r = <<m>> \o (i \o r)
  BY <1>1, ConcatAssociative
<1>3. done \o Of(kind, <<m>> \o (i \o r)) = Picked(kind, m, done) \o Of(kind, i \o r)
  BY <1>1, PickFirst, Zenon
<1>4. Pipe(kind, done, <<m>>, i, r) = done \o Of(kind, <<m>> \o (i \o r))
  BY <1>2, Zenon DEF Pipe
<1>5. Pipe(kind, Picked(kind, m, done), <<>>, i, r) = Picked(kind, m, done) \o Of(kind, i \o r)
  BY <1>1, Zenon DEF Pipe
<1> QED BY <1>3, <1>4, <1>5, Zenon

LEMMA TakeHead ==
  ASSUME NEW kind, NEW done \in Seq(Nat), NEW i \in Seq(Messages), i # <<>>,
         NEW r \in Seq(Messages)
  PROVE  Pipe(kind, done, <<>>, i, r) = Pipe(kind, Picked(kind, Head(i), done), <<>>, Tail(i), r)
<1>1. /\ Head(i) \in Messages /\ Tail(i) \in Seq(Messages) /\ <<Head(i)>> \in Seq(Messages)
      /\ i = <<Head(i)>> \o Tail(i)
  BY HeadFirst, Zenon
<1>2. Tail(i) \o r \in Seq(Messages) /\ <<>> \o i = i /\ <<>> \o Tail(i) = Tail(i)
  BY <1>1, ConcatProperties, ConcatEmptySeq, Zenon
<1>3. i \o r = <<Head(i)>> \o (Tail(i) \o r)
  BY <1>1
<1>4. done \o Of(kind, <<Head(i)>> \o (Tail(i) \o r)) =
      Picked(kind, Head(i), done) \o Of(kind, Tail(i) \o r)
  BY <1>1, <1>2, PickFirst, Zenon
<1> QED BY <1>2, <1>3, <1>4, Zenon DEF Pipe

(***************************************************************************)
(* Putting the head of the inbox back in front of it, or moving the first  *)
(* of the waiting messages to its end, changes nothing.                    *)
(***************************************************************************)
LEMMA PutBackHead ==
  ASSUME NEW kind, NEW done, NEW i \in Seq(Messages), i # <<>>, NEW r \in Seq(Messages)
  PROVE  Pipe(kind, done, <<>>, i, r) = Pipe(kind, done, <<Head(i)>>, Tail(i), r)
BY HeadFirst, ConcatEmptySeq, Zenon DEF Pipe

LEMMA EnterInbox ==
  ASSUME NEW kind, NEW done, NEW p \in Seq(Messages), NEW i \in Seq(Messages),
         NEW r \in Seq(Messages), r # <<>>
  PROVE  Pipe(kind, done, p, i, r) = Pipe(kind, done, p, Append(i, Head(r)), Tail(r))
<1>1. /\ Head(r) \in Messages /\ Tail(r) \in Seq(Messages) /\ <<Head(r)>> \in Seq(Messages)
      /\ r = <<Head(r)>> \o Tail(r)
  BY HeadFirst, Zenon
<1>2. p \o i \in Seq(Messages)
  BY ConcatProperties, Zenon
<1>3. Append(i, Head(r)) = i \o <<Head(r)>>
  BY <1>1, AppendIsConcat, Zenon
<1>4. p \o (i \o <<Head(r)>>) = (p \o i) \o <<Head(r)>>
  BY <1>1
<1>5. ((p \o i) \o <<Head(r)>>) \o Tail(r) = (p \o i) \o (<<Head(r)>> \o Tail(r))
  BY <1>1, <1>2
<1> QED BY <1>1, <1>3, <1>4, <1>5, Zenon DEF Pipe

(***************************************************************************)
(* A message of another kind may enter the inbox unnoticed, and what is    *)
(* added at the end of the pipeline comes last.                            *)
(***************************************************************************)
LEMMA AddOther ==
  ASSUME NEW kind, NEW done, NEW p \in Seq(Messages), NEW i \in Seq(Messages),
         NEW r \in Seq(Messages), NEW m \in Messages, m.kind # kind
  PROVE  Pipe(kind, done, p, Append(i, m), r) = Pipe(kind, done, p, i, r)
<1>1. Append(i, m) \in Seq(Messages) /\ Of(kind, Append(i, m)) = Of(kind, i)
  BY AppendProperties, OfAppend, Zenon DEF Picked
<1>2. p \o i \in Seq(Messages) /\ p \o Append(i, m) \in Seq(Messages)
  BY <1>1, ConcatProperties, Zenon
<1>3. Of(kind, p \o Append(i, m)) = Of(kind, p \o i)
  <2>1. Of(kind, p \o Append(i, m)) = Of(kind, p) \o Of(kind, Append(i, m))
    BY <1>1, OfConcat, Zenon
  <2>2. Of(kind, p \o i) = Of(kind, p) \o Of(kind, i)
    BY OfConcat, Zenon
  <2> QED BY <1>1, <2>1, <2>2, Zenon
<1>4. Of(kind, p \o Append(i, m) \o r) = Of(kind, p \o i \o r)
  <2>1. Of(kind, p \o Append(i, m) \o r) = Of(kind, p \o Append(i, m)) \o Of(kind, r)
    BY <1>2, OfConcat, Zenon
  <2>2. Of(kind, p \o i \o r) = Of(kind, p \o i) \o Of(kind, r)
    BY <1>2, OfConcat, Zenon
  <2> QED BY <1>3, <2>1, <2>2, Zenon
<1> QED BY <1>4, Zenon DEF Pipe

Then(s, t) == s \o t

LEMMA AddLast ==
  ASSUME NEW kind, NEW done \in Seq(Nat), NEW p \in Seq(Messages), NEW i \in Seq(Messages),
         NEW r \in Seq(Messages), NEW u \in Seq(Messages), NEW new \in Seq(Nat),
         Of(kind, u) = Then(Of(kind, r), new)
  PROVE  Pipe(kind, done, p, i, u) = Then(Pipe(kind, done, p, i, r), new)
<1> DEFINE q == p \o i
           of_q == Of(kind, q)
           of_r == Of(kind, r)
<1>1. q \in Seq(Messages)
  BY ConcatProperties, Zenon
<1> HIDE DEF q
<1>2. Of(kind, q \o r) = of_q \o of_r /\ Of(kind, q \o u) = of_q \o (of_r \o new)
  <2>1. Of(kind, u) = of_r \o new
    BY Zenon DEF Then
  <2>2. Of(kind, q \o u) = of_q \o Of(kind, u) /\ Of(kind, q \o r) = of_q \o of_r
    BY <1>1, OfConcat, ZenonT(30)
  <2> QED BY <2>1, <2>2, Zenon
<1>3. of_q \in Seq(Nat) /\ of_r \in Seq(Nat)
  BY <1>1, OfType, Zenon
<1> HIDE DEF of_q, of_r
<1>4. done \o (of_q \o (of_r \o new)) = (done \o (of_q \o of_r)) \o new
  <2>1. of_q \o of_r \in Seq(Nat)
    BY <1>3, ConcatProperties, Zenon
  <2>2. (of_q \o of_r) \o new = of_q \o (of_r \o new)
    BY <1>3, Regroup, ZenonT(40)
  <2>3. (done \o (of_q \o of_r)) \o new = done \o ((of_q \o of_r) \o new)
    BY <2>1, Regroup, ZenonT(30)
  <2> QED BY <2>2, <2>3, Zenon
<1> QED BY <1>2, <1>4, Zenon DEF Pipe, Then, q

LEMMA SameLast ==
  ASSUME NEW kind, NEW done, NEW p \in Seq(Messages), NEW i \in Seq(Messages),
         NEW r \in Seq(Messages), NEW t \in Seq(Messages), Of(kind, r) = Of(kind, t)
  PROVE  Pipe(kind, done, p, i, r) = Pipe(kind, done, p, i, t)
<1>1. p \o i \in Seq(Messages)
  BY ConcatProperties, Zenon
<1>2. Of(kind, p \o i \o r) = Of(kind, p \o i) \o Of(kind, r)
  BY <1>1, OfConcat, Zenon
<1>3. Of(kind, p \o i \o t) = Of(kind, p \o i) \o Of(kind, t)
  BY <1>1, OfConcat, Zenon
<1> QED BY <1>2, <1>3, Zenon DEF Pipe

LEMMA PipeType ==
  ASSUME NEW kind, NEW done \in Seq(Nat), NEW p \in Seq(Messages), NEW i \in Seq(Messages),
         NEW r \in Seq(Messages)
  PROVE  Pipe(kind, done, p, i, r) \in Seq(Nat)
BY QueueType, OfType, ConcatProperties, Zenon DEF Pipe
-----------------------------------------------------------------------------
(***************************************************************************)
(* Types: TypeOK and the histories.  Commands of the window are inputs and *)
(* resizes.                                                                *)
(***************************************************************************)
Commands == [kind : {"input", "resize"}, id : Nat]

DataInv ==
  /\ TypeOK
  /\ produced \in Nat
  /\ parsed \in Seq(Nat) /\ written \in Seq(Nat) /\ batch_bytes \in Seq(Nat)
  /\ submitted \in Seq({"input", "resize"})
  /\ pending_commands \in Seq(Commands)
  /\ ~handles => pending_commands = <<>>

(***************************************************************************)
(* Where the threads are.  The inbox is closed only behind the loop; a     *)
(* batch is collected with no message put back; the reader holds the chunk *)
(* it read last, or the end of the stream, while it announces and sends.   *)
(***************************************************************************)
LoopPlaces == {"ready", "abandon", "next", "write", "report", "collect", "parse",
               "publish", "publish_full"}
TeardownPlaces == {"leave", "flush", "flush_full", "join", "closed"}
EndKinds == {"eof", "error"}

PlaceInv ==
  /\ wpc \in LoopPlaces => left = "no"
  /\ wpc \in TeardownPlaces => left # "no"
  /\ wpc \in LoopPlaces => inbox_open
  /\ wpc = "collect" => pending_message = <<>>
  /\ rpc \in {"read", "gone"} => reading = <<>>
  /\ rpc = "announce" => produced = 1 /\ reading = <<Message("output", 1)>>
  /\ rpc = "send" => \/ reading = <<Message("output", produced)>>
                     \/ \E message \in ReaderEnd : reading = <<message>>

(***************************************************************************)
(* The end of the stream is the reader's last message: the reader is gone  *)
(* when it is queued, and no output follows it.                            *)
(***************************************************************************)
Upto(n) == [i \in 1..n |-> i]
AtEnd(s) == \E i \in 1..Len(s) : s[i].kind \in EndKinds
NoOutput(s) == \A i \in 1..Len(s) : s[i].kind # "output"

EndInv ==
  /\ AtEnd(pending_message) \/ AtEnd(inbox) => rpc = "gone"
  /\ AtEnd(pending_message) => NoOutput(inbox)
  /\ \A i, j \in 1..Len(inbox) :
       i < j /\ inbox[i].kind \in EndKinds => inbox[j].kind # "output"

CompleteInv == left \in EndKinds => rpc = "gone" /\ parsed = Upto(produced)

(***************************************************************************)
(* Every chunk read is parsed or in the pipeline, in order, while the      *)
(* worker is in its loop.  The one that is dropped with a refused          *)
(* first-byte notice is the only one, and no end of the stream follows it. *)
(***************************************************************************)
Looping == wpc \in LoopPlaces
Coming == Pipe("output", parsed \o InHand({"collect", "parse"}), pending_message, inbox, reading)

OutputInv ==
  /\ Len(parsed) <= produced /\ parsed = Upto(Len(parsed))
  /\ Looping => \/ Coming = Upto(produced)
                \/ /\ Coming = <<>> /\ ~notices_open /\ rpc = "gone"
                   /\ ~AtEnd(pending_message) /\ ~AtEnd(inbox)

(***************************************************************************)
(* Every input submitted is written or in the pipeline, in order, while    *)
(* the worker is in its loop and the window has its handle; what the       *)
(* window forgot with the handle is the last part of what it submitted.    *)
(***************************************************************************)
Given == Of("input", [i \in DOMAIN submitted |-> Message(submitted[i], i)])
Going == Pipe("input", written \o InHand({"write"}), pending_message, inbox, pending_commands)

InputInv ==
  /\ \E rest \in Seq(Nat) : written \o rest = Given
  /\ Looping => IF handles THEN Going = Given
                ELSE \E rest \in Seq(Nat) : Going \o rest = Given

PaneInv == DataInv /\ PlaceInv /\ EndInv /\ CompleteInv /\ OutputInv /\ InputInv

-----------------------------------------------------------------------------
(***************************************************************************)
(* Types are kept.                                                         *)
(***************************************************************************)
Places == LoopPlaces \cup TeardownPlaces \cup {"gone"}
Lefts == {"no", "eof", "error", "close", "closed", "failure"}

FlagsInv ==
  {inbox_open, notices_open, accepting, handles, observed_exit, exited, interrupted,
   control_closed} \subseteq BOOLEAN

LEMMA FlagsStep ==
  ASSUME FlagsInv, [Next]_vars
  PROVE  FlagsInv'
<1> USE DEF FlagsInv
<1>1. CASE ReaderStep
  BY <1>1, Zenon DEF ReaderStep, Read, Announce, ReaderSend, channels, worker, transport, window
<1>2. CASE WorkerStep \/ PollFails
  <2>1. CASE SendReady \/ AbandonJoin \/ CloseInbox \/ PollExit \/ PollFails
    BY <2>1, Zenon DEF SendReady, AbandonJoin, CloseInbox, PollExit, PollFails, InboxClosed,
       ClosedOnExit, AfterExit, channels, worker, transport, window
  <2>2. CASE NextMessage
    BY <2>2, Zenon DEF NextMessage, transport, window
  <2>3. CASE \/ Write \/ Report \/ Collect \/ Parse \/ Publish \/ PublishFlushed
             \/ JoinReader \/ SendClosed
    BY <2>3, Zenon DEF Write, Report, Collect, Parse, Publish, PublishFlushed, JoinReader,
       SendClosed, channels, transport, window
  <2> QED BY <1>2, <2>1, <2>2, <2>3, Zenon DEF WorkerStep
<1>3. CASE WindowStep \/ ChildExits \/ UNCHANGED vars
  <2>1. CASE \/ ReceiveNotice \/ RequestClose \/ Reap \/ Shutdown \/ ChildExits
    BY <2>1, Zenon DEF ReceiveNotice, RequestClose, Reap, Shutdown, ChildExits,
       channels, worker, transport, window
  <2>2. CASE \/ Submit \/ Poll \/ FlushOne \/ FlushEnds \/ PollDone \/ DrainEffects
             \/ UNCHANGED vars
    BY <2>2, Zenon DEF Submit, Poll, FlushOne, FlushEnds, PollDone, DrainEffects, vars,
       channels, worker, transport, window
  <2> QED BY <1>3, <2>1, <2>2, Zenon DEF WindowStep
<1> QED BY <1>1, <1>2, <1>3, Zenon DEF Next

LEMMA NoticesBounded ==
  ASSUME NoticesInv, Len(notices) <= NoticeCap, [Next]_vars
  PROVE  Len(notices') <= NoticeCap
<1> USE PaneWorkerAssumption
<1>1. ASSUME NEW notice, Notify(notice) PROVE Len(notices') <= NoticeCap
  BY <1>1 DEF Notify, NoticesInv
<1>2. CASE notices # <<>> /\ notices' = Tail(notices)
  BY <1>2 DEF NoticesInv
<1>3. CASE UNCHANGED notices
  BY <1>3, Zenon DEF NoticesInv
<1>4. CASE ReaderStep
  BY <1>1, <1>3, <1>4, Zenon DEF ReaderStep, Read, Announce, ReaderSend, channels
<1>5. CASE WorkerStep \/ PollFails
  BY <1>1, <1>3, <1>5, Zenon DEF WorkerStep, SendReady, AbandonJoin, NextMessage, PollExit,
     Write, Report, Collect, Parse, Publish, CloseInbox, PublishFlushed,
     JoinReader, SendClosed, PollFails, channels
<1>6. CASE WindowStep \/ ChildExits \/ UNCHANGED vars
  BY <1>2, <1>3, <1>6, Zenon DEF WindowStep, Submit, Poll, FlushOne, FlushEnds,
     ReceiveNotice, PollDone, RequestClose, Reap, DrainEffects, Shutdown, ChildExits, vars, channels
<1> QED BY <1>4, <1>5, <1>6, Zenon DEF Next

LEMMA ReaderTypes ==
  ASSUME DataInv, [Next]_vars
  PROVE  /\ rpc' \in {"read", "announce", "send", "gone"}
         /\ reading' \in Seq(Messages) /\ Len(reading') <= 1
         /\ produced' \in Nat
<1> USE DEF DataInv, TypeOK
<1>0. \A message \in ReaderEnd : message \in Messages
  BY DEF ReaderEnd, Message, Messages
<1>1. ASSUME NEW m \in Messages, reading' = <<m>>
      PROVE  reading' \in Seq(Messages) /\ Len(reading') <= 1
  BY <1>1
<1>2. CASE Read
  <2>1. produced' \in Nat /\ rpc' \in {"read", "announce", "send", "gone"}
    BY <1>2 DEF Read
  <2>2. \E m \in Messages : reading' = <<m>>
    <3>1. Message("output", produced') \in Messages
      BY <2>1, Zenon DEF Message, Messages
    <3> QED BY <1>0, <1>2, <3>1, Zenon DEF Read
  <2> QED BY <1>1, <2>1, <2>2, Zenon
<1>3. CASE Announce \/ ReaderSend
  <2>1. reading' = reading \/ reading' = <<>>
    BY <1>3, Zenon DEF Announce, ReaderSend
  <2>2. reading \in Seq(Messages) /\ Len(reading) <= 1 /\ <<>> \in Seq(Messages) /\ Len(<<>>) <= 1
    BY EmptySeq
  <2>3. produced' \in Nat /\ rpc' \in {"read", "announce", "send", "gone"}
    BY <1>3, Zenon DEF Announce, ReaderSend
  <2> QED BY <2>1, <2>2, <2>3, Zenon
<1>4. CASE ~ReaderStep
  <2>1. UNCHANGED reader
    BY <1>4, Zenon
       DEF Next, WorkerStep, WindowStep, SendReady, AbandonJoin, NextMessage, PollExit,
     Write, Report, Collect, Parse, Publish, CloseInbox, PublishFlushed,
     JoinReader, SendClosed, PollFails, Submit, Poll, FlushOne, FlushEnds,
     ReceiveNotice, PollDone, RequestClose, Reap, DrainEffects, Shutdown, ChildExits, vars
  <2> QED BY <2>1, Zenon DEF reader
<1> QED BY <1>2, <1>3, <1>4, Zenon DEF ReaderStep

LEMMA InboxTypes ==
  ASSUME DataInv, [Next]_vars
  PROVE  inbox' \in Seq(Messages) /\ Len(inbox') <= InboxCap
<1> USE PaneWorkerAssumption DEF DataInv, TypeOK
<1>1. CASE inbox' = inbox
  BY <1>1, Zenon
<1>2. CASE inbox # <<>> /\ inbox' = Tail(inbox)
  BY <1>2
<1>3. CASE inbox' = <<>>
  BY <1>3
<1>4. CASE InboxFits /\ \E m \in Messages : inbox' = Append(inbox, m)
  BY <1>4 DEF InboxFits
<1>5. CASE InboxFits /\ inbox' = inbox \o reading
  <2>1. Len(inbox \o reading) = Len(inbox) + Len(reading) /\ inbox \o reading \in Seq(Messages)
    BY ConcatProperties
  <2> QED BY <1>5, <2>1, LenProperties DEF InboxFits
<1>6. CASE Read \/ Announce \/ ReaderSend
  BY <1>1, <1>5, <1>6, Zenon DEF Read, Announce, ReaderSend, channels
<1>7. CASE WorkerStep \/ PollFails
  BY <1>1, <1>2, <1>3, <1>7, Zenon
     DEF WorkerStep, SendReady, AbandonJoin, NextMessage, PollExit,
     Write, Report, Collect, Parse, Publish, CloseInbox, PublishFlushed,
     JoinReader, SendClosed, PollFails, channels
<1>8. CASE FlushOne
  <2>1. Head(pending_commands) \in Messages
    BY <1>8, HeadTailProperties, Zenon DEF FlushOne
  <2> QED BY <1>4, <1>8, <2>1, Zenon DEF FlushOne
<1>9. CASE RequestClose
  <2>1. Message("close", 0) \in Messages
    BY Zenon DEF Message, Messages
  <2> QED BY <1>1, <1>4, <1>9, <2>1, Zenon DEF RequestClose
<1>10. CASE \/ Submit \/ Poll \/ FlushEnds \/ ReceiveNotice \/ PollDone \/ Reap
            \/ DrainEffects \/ Shutdown \/ ChildExits \/ UNCHANGED vars
  BY <1>1, <1>10, Zenon DEF Submit, Poll, FlushEnds, ReceiveNotice, PollDone, Reap,
     DrainEffects, Shutdown, ChildExits, vars, channels
<1> QED BY <1>6, <1>7, <1>8, <1>9, <1>10, Zenon DEF Next, ReaderStep, WindowStep

WorkerTypesInv ==
  /\ wpc \in Places
  /\ left \in Lefts
  /\ pending_message \in Seq(Messages) /\ Len(pending_message) <= 1
  /\ parsed \in Seq(Nat) /\ written \in Seq(Nat) /\ batch_bytes \in Seq(Nat)

LEMMA DispatchTypes ==
  ASSUME WorkerTypesInv, NEW m \in Messages, Dispatch(m)
  PROVE  /\ wpc' \in Places /\ left' \in Lefts /\ batch_bytes' \in Seq(Nat)
<1>1. m.id \in Nat /\ <<m.id>> \in Seq(Nat)
  BY DEF Messages
<1> QED BY <1>1, Zenon
           DEF WorkerTypesInv, Dispatch, Leave, Places, Lefts, LoopPlaces, TeardownPlaces

LEMMA WorkerTypes ==
  ASSUME DataInv, [Next]_vars
  PROVE  WorkerTypesInv'
<1>1. inbox \in Seq(Messages) /\ WorkerTypesInv
  BY Zenon DEF DataInv, TypeOK, WorkerTypesInv, Places, LoopPlaces, TeardownPlaces, Lefts
<1>2. CASE NextMessage
  <2>1. UNCHANGED <<parsed, written>>
    BY <1>2, Zenon DEF NextMessage
  <2>2. CASE PendingFirst /\ Dispatch(pending_message[1]) /\ pending_message' = <<>>
    <3>1. pending_message[1] \in Messages
      BY <1>1, <2>2 DEF PendingFirst, WorkerTypesInv
    <3> QED BY <1>1, <2>1, <2>2, <3>1, DispatchTypes DEF WorkerTypesInv
  <2>3. CASE inbox # <<>> /\ Dispatch(Head(inbox)) /\ UNCHANGED pending_message
    <3>1. Head(inbox) \in Messages
      BY <1>1, <2>3
    <3> QED BY <1>1, <2>1, <2>3, <3>1, DispatchTypes, Zenon DEF WorkerTypesInv
  <2>4. CASE Leave("closed") /\ UNCHANGED <<inbox, pending_message, batch_bytes>>
    BY <1>1, <2>1, <2>4, Zenon DEF WorkerTypesInv, Leave, Places, Lefts, TeardownPlaces
  <2> QED BY <1>2, <2>2, <2>3, <2>4, Zenon DEF NextMessage
<1>3. CASE Collect
  <2>1. inbox # <<>> => Head(inbox) \in Messages /\ Head(inbox).id \in Nat
    <3>1. inbox # <<>> => Head(inbox) \in Messages
      BY <1>1, HeadTailProperties, Zenon
    <3> QED BY <3>1, Zenon DEF Messages
  <2>2. UNCHANGED <<parsed, written, left>>
    BY <1>3, Zenon DEF Collect
  <2>3. wpc' \in {"collect", "parse"}
    BY <1>3, Zenon DEF Collect
  <2>4. batch_bytes' \in Seq(Nat)
    <3>1. batch_bytes' = batch_bytes \/ (inbox # <<>> /\ batch_bytes' = Append(batch_bytes, Head(inbox).id))
      BY <1>3, Zenon DEF Collect, Joined
    <3>2. batch_bytes \in Seq(Nat)
      BY <1>1, Zenon DEF WorkerTypesInv
    <3>3. inbox # <<>> => Append(batch_bytes, Head(inbox).id) \in Seq(Nat)
      BY <2>1, <3>2, AppendProperties, Zenon
    <3> QED BY <3>1, <3>2, <3>3, Zenon
  <2>5. pending_message' \in Seq(Messages) /\ Len(pending_message') <= 1
    <3>1. pending_message' = pending_message \/ (inbox # <<>> /\ pending_message' = <<Head(inbox)>>)
      BY <1>3, Zenon DEF Collect, PutBack
    <3>2. pending_message \in Seq(Messages) /\ Len(pending_message) <= 1
      BY <1>1, Zenon DEF WorkerTypesInv
    <3>3. inbox # <<>> => <<Head(inbox)>> \in Seq(Messages) /\ Len(<<Head(inbox)>>) <= 1
      BY <2>1
    <3> QED BY <3>1, <3>2, <3>3, Zenon
  <2> QED BY <1>1, <2>2, <2>3, <2>4, <2>5, Zenon DEF WorkerTypesInv, Places, LoopPlaces
<1>4. CASE Write \/ Parse
  <2>1. /\ written' \in {written, written \o batch_bytes} /\ parsed' \in {parsed, parsed \o batch_bytes}
        /\ batch_bytes' = <<>> /\ UNCHANGED pending_message
    BY <1>4, Zenon DEF Write, Parse
  <2>2. wpc' \in Places /\ left' \in Lefts
    BY <1>1, <1>4, Zenon
       DEF WorkerTypesInv, Write, Parse, Leave, Places, Lefts, LoopPlaces, TeardownPlaces
  <2>3. /\ written \o batch_bytes \in Seq(Nat) /\ parsed \o batch_bytes \in Seq(Nat)
        /\ <<>> \in Seq(Nat)
    BY <1>1, ConcatProperties DEF WorkerTypesInv
  <2> QED BY <1>1, <2>1, <2>2, <2>3, Zenon DEF WorkerTypesInv
<1>5. CASE \/ SendReady \/ AbandonJoin \/ PollExit \/ Report \/ Publish \/ CloseInbox
           \/ PublishFlushed \/ JoinReader \/ SendClosed \/ PollFails \/ DrainEffects
  BY <1>1, <1>5, Zenon
     DEF WorkerTypesInv, SendReady, AbandonJoin, PollExit, AfterExit, Report, Publish,
     CloseInbox, PublishFlushed, JoinReader, SendClosed, PollFails, DrainEffects, Leave,
     Places, Lefts, LoopPlaces, TeardownPlaces
<1>6. CASE UNCHANGED worker
  BY <1>1, <1>6, Zenon DEF WorkerTypesInv, worker
<1>7. CASE \/ Read \/ Announce \/ ReaderSend \/ Submit \/ Poll \/ FlushOne \/ FlushEnds
           \/ ReceiveNotice \/ PollDone \/ RequestClose \/ Reap \/ Shutdown
           \/ ChildExits \/ UNCHANGED vars
  BY <1>6, <1>7, Zenon
     DEF Read, Announce, ReaderSend, Submit, Poll, FlushOne, FlushEnds, ReceiveNotice,
     PollDone, RequestClose, Reap, Shutdown, ChildExits, vars
<1> QED
  BY <1>2, <1>3, <1>4, <1>5, <1>7, Zenon DEF Next, ReaderStep, WorkerStep, WindowStep

LEMMA WindowTypes ==
  ASSUME DataInv, [Next]_vars
  PROVE  /\ host' \in {"idle", "submit", "retry", "receive", "failed"}
         /\ submitted' \in Seq({"input", "resize"})
         /\ pending_commands' \in Seq(Commands)
         /\ ~handles' => pending_commands' = <<>>
<1>1. /\ host \in {"idle", "submit", "retry", "receive", "failed"}
      /\ submitted \in Seq({"input", "resize"}) /\ Len(submitted) \in Nat
      /\ pending_commands \in Seq(Commands) /\ (~handles => pending_commands = <<>>)
  BY LenProperties, Zenon DEF DataInv, TypeOK
<1>e. <<>> \in Seq(Commands)
  OBVIOUS
<1>2. CASE Submit
  <2>1. handles /\ handles' = handles /\ host' \in {"idle", "submit"}
    BY <1>2, Zenon DEF Submit
  <2>2. CASE \E chunks \in 1..MaxInput - Len(submitted) :
               SubmitInput(chunks) /\ submitted' = submitted \o [i \in 1..chunks |-> "input"]
    <3>1. PICK chunks \in 1..MaxInput - Len(submitted) :
            SubmitInput(chunks) /\ submitted' = submitted \o [i \in 1..chunks |-> "input"]
      BY <2>2, Zenon
    <3>2. chunks \in Nat
      BY <1>1, <3>1, PaneWorkerAssumption
    <3>3. [i \in 1..chunks |-> "input"] \in Seq({"input", "resize"})
      BY <3>2
    <3>4. [i \in 1..chunks |-> Message("input", Len(submitted) + i)] \in Seq(Commands)
      <4>1. \A i \in 1..chunks : Message("input", Len(submitted) + i) \in Commands
        BY <1>1, <3>2 DEF Message, Commands
      <4> QED BY <3>2, <4>1
    <3> QED BY <1>1, <2>1, <3>1, <3>3, <3>4, ConcatProperties, Zenon DEF SubmitInput
  <2>3. CASE SubmitResize /\ submitted' = Append(submitted, "resize")
    <3>1. Message("resize", Len(submitted) + 1) \in Commands
      BY <1>1 DEF Message, Commands
    <3>2. pending_commands # <<>> => Front(pending_commands) \in Seq(Commands)
      BY <1>1 DEF Front
    <3>3. pending_commands' \in Seq(Commands)
      BY <1>1, <2>3, <3>1, <3>2 DEF SubmitResize
    <3> QED BY <1>1, <2>1, <2>3, <3>3
  <2> QED BY <1>2, <2>2, <2>3, Zenon DEF Submit
<1>3. CASE FlushOne
  BY <1>1, <1>3 DEF FlushOne, PopFront
<1>4. CASE ReceiveNotice
  <2>1. host' \in {"idle", "receive"} /\ submitted' = submitted
    BY <1>4, Zenon DEF ReceiveNotice
  <2>2. \/ handles' = handles /\ pending_commands' = pending_commands
        \/ pending_commands' = <<>>
    BY <1>4, Zenon DEF ReceiveNotice
  <2> QED BY <1>1, <1>e, <2>1, <2>2, Zenon
<1>5. CASE Poll \/ FlushEnds \/ PollDone
  BY <1>1, <1>5, Zenon DEF Poll, FlushEnds, PollDone
<1>8. CASE Reap
  BY <1>1, <1>e, <1>8, Zenon DEF Reap
<1>6. CASE UNCHANGED window
  BY <1>1, <1>6, Zenon DEF window
<1>7. CASE \/ ReaderStep \/ WorkerStep \/ PollFails \/ RequestClose \/ DrainEffects \/ Shutdown
           \/ ChildExits \/ UNCHANGED vars
  BY <1>6, <1>7, Zenon
     DEF ReaderStep, WorkerStep, Read, Announce, ReaderSend, SendReady, AbandonJoin,
     NextMessage, PollExit, Write, Report, Collect, Parse, Publish, CloseInbox,
     PublishFlushed, JoinReader, SendClosed, PollFails, RequestClose, DrainEffects, Shutdown,
     ChildExits, vars
<1> QED BY <1>2, <1>3, <1>4, <1>5, <1>7, <1>8, Zenon DEF Next, WindowStep

LEMMA DataStep ==
  ASSUME DataInv, [Next]_vars
  PROVE  DataInv'
<1>1. FlagsInv' /\ NoticesInv' /\ Len(notices') <= NoticeCap
  <2>1. FlagsInv /\ NoticesInv /\ Len(notices) <= NoticeCap
    BY Zenon DEF DataInv, TypeOK, FlagsInv, NoticesInv, Notices
  <2> QED BY <2>1, FlagsStep, NoticesTyped, NoticesBounded, Zenon
<1>2. WorkerTypesInv'
  BY WorkerTypes, Zenon
<1>3. /\ rpc' \in {"read", "announce", "send", "gone"} /\ produced' \in Nat
      /\ reading' \in Seq(Messages) /\ Len(reading') <= 1
      /\ inbox' \in Seq(Messages) /\ Len(inbox') <= InboxCap
  BY ReaderTypes, InboxTypes, Zenon
<1>4. /\ host' \in {"idle", "submit", "retry", "receive", "failed"}
      /\ submitted' \in Seq({"input", "resize"})
      /\ pending_commands' \in Seq(Commands)
      /\ ~handles' => pending_commands' = <<>>
  BY WindowTypes, Zenon
<1>5. pending_commands' \in Seq(Messages)
  <2>1. Commands \subseteq Messages
    BY Zenon DEF Commands, Messages
  <2> QED BY <1>4, <2>1, SeqMonotonic, Zenon
<1>6. TypeOK'
  BY <1>1, <1>2, <1>3, <1>4, <1>5, Zenon DEF TypeOK, FlagsInv, NoticesInv,
     Notices, WorkerTypesInv, Places, LoopPlaces, TeardownPlaces, Lefts
<1> QED BY <1>2, <1>3, <1>4, <1>6, Zenon DEF DataInv, WorkerTypesInv

-----------------------------------------------------------------------------
(***************************************************************************)
(* The places of the threads.                                              *)
(***************************************************************************)
LEMMA DispatchPlace ==
  ASSUME wpc = "next", left = "no", NEW m, Dispatch(m)
  PROVE  /\ wpc' \in LoopPlaces \cup TeardownPlaces
         /\ wpc' \in LoopPlaces => left' = "no"
         /\ wpc' \in TeardownPlaces => left' # "no"
         /\ wpc' = "collect" => m.kind = "output"
BY Zenon DEF Dispatch, Leave, LoopPlaces, TeardownPlaces

LEMMA PlaceStep ==
  ASSUME DataInv, PlaceInv, [Next]_vars
  PROVE  PlaceInv'
<1>1. CASE UNCHANGED <<wpc, left, inbox_open, pending_message>> /\ ReaderStep
  <2>1. ReaderEnd = {Message("eof", 0), Message("error", 0)} /\ produced \in Nat
    BY Zenon DEF ReaderEnd, DataInv
  <2>2. CASE Read
    BY <1>1, <2>1, <2>2 DEF PlaceInv, Read
  <2>3. CASE Announce
    <3>1. \/ rpc' = "send" /\ UNCHANGED <<reading, produced>>
          \/ rpc' = "gone" /\ reading' = <<>>
      BY <2>3, Zenon DEF Announce
    <3>2. rpc = "announce" /\ produced = 1 /\ reading = <<Message("output", 1)>>
      BY <2>3, Zenon DEF Announce, PlaceInv
    <3> QED BY <1>1, <3>1, <3>2, Zenon DEF PlaceInv
  <2>4. CASE ReaderSend
    BY <1>1, <2>4 DEF PlaceInv, ReaderSend
  <2> QED BY <1>1, <2>2, <2>3, <2>4, Zenon DEF ReaderStep
<1>2. ASSUME ReaderStep PROVE UNCHANGED <<wpc, left, inbox_open, pending_message>>
  BY <1>2, Zenon DEF ReaderStep, Read, Announce, ReaderSend, worker, channels
<1>3. ASSUME WorkerStep \/ PollFails \/ DrainEffects PROVE UNCHANGED reader
  BY <1>3, Zenon
     DEF WorkerStep, SendReady, AbandonJoin, NextMessage, PollExit, Write, Report, Collect,
     Parse, Publish, CloseInbox, PublishFlushed, JoinReader, SendClosed, PollFails, DrainEffects
<1>4. CASE NextMessage
  <2>1. wpc = "next" /\ left = "no" /\ inbox_open /\ UNCHANGED inbox_open
    BY <1>4, Zenon DEF NextMessage, PlaceInv, LoopPlaces
  <2>2. /\ wpc' \in LoopPlaces => left' = "no"
        /\ wpc' \in TeardownPlaces => left' # "no"
    <3>1. CASE Leave("closed")
      BY <3>1, Zenon DEF Leave, LoopPlaces, TeardownPlaces
    <3> QED BY <1>4, <2>1, <3>1, DispatchPlace, Zenon DEF NextMessage
  <2>3. wpc' = "collect" => pending_message' = <<>>
    BY <1>4, Zenon DEF NextMessage, Leave, PendingFirst
  <2>4. UNCHANGED reader
    BY <1>3, <1>4, Zenon DEF WorkerStep
  <2> QED BY <2>1, <2>2, <2>3, <2>4, Zenon DEF PlaceInv, reader
<1>5. CASE \/ SendReady \/ AbandonJoin \/ PollExit \/ Write \/ Report \/ Collect
           \/ Parse \/ Publish \/ PollFails
  <2>1. UNCHANGED reader
    BY <1>3, <1>5, Zenon DEF WorkerStep
  <2> QED BY <1>5, <2>1, ZenonT(30)
             DEF PlaceInv, SendReady, AbandonJoin, PollExit, AfterExit, Write, Report,
             Collect, Parse, Publish, PollFails, Leave, LoopPlaces, TeardownPlaces, reader, channels
<1>6. CASE CloseInbox \/ PublishFlushed \/ JoinReader \/ SendClosed \/ DrainEffects
  <2>1. UNCHANGED reader
    BY <1>3, <1>6, Zenon DEF WorkerStep
  <2> QED BY <1>6, <2>1, Zenon
             DEF PlaceInv, CloseInbox, PublishFlushed, JoinReader, SendClosed, DrainEffects,
             LoopPlaces, TeardownPlaces, reader, channels
<1>7. CASE \/ Submit \/ Poll \/ FlushOne \/ FlushEnds \/ ReceiveNotice \/ PollDone
           \/ RequestClose \/ Reap \/ Shutdown \/ ChildExits \/ UNCHANGED vars
  <2>1. UNCHANGED <<wpc, left, inbox_open, pending_message, rpc, reading, produced>>
    BY <1>7, ZenonT(30) DEF Submit, Poll, FlushOne, FlushEnds, ReceiveNotice, PollDone,
       RequestClose, Reap, Shutdown, ChildExits, vars, worker, reader, channels
  <2> QED BY <2>1, Zenon DEF PlaceInv
<1> QED
  BY <1>1, <1>2, <1>4, <1>5, <1>6, <1>7, Zenon DEF Next, WorkerStep, WindowStep

(***************************************************************************)
(* The end of the stream stays the reader's last message.                  *)
(***************************************************************************)
Ordered(s) == \A i, j \in 1..Len(s) : i < j /\ s[i].kind \in EndKinds => s[j].kind # "output"

LEMMA TailEnds ==
  ASSUME NEW s \in Seq(Messages), s # <<>>, Ordered(s)
  PROVE  /\ Ordered(Tail(s))
         /\ AtEnd(Tail(s)) => AtEnd(s)
         /\ NoOutput(s) => NoOutput(Tail(s))
         /\ s[1].kind \in EndKinds => AtEnd(s) /\ NoOutput(Tail(s))
<1>1. /\ Len(Tail(s)) = Len(s) - 1 /\ Len(s) \in Nat \ {0}
      /\ \A i \in 1..Len(Tail(s)) : Tail(s)[i] = s[i + 1]
  BY HeadTailProperties, EmptySeq, Zenon
<1>2. \A i \in 1..Len(Tail(s)) : i + 1 \in 1..Len(s) /\ 1 < i + 1
  BY <1>1
<1>3. 1 \in 1..Len(s)
  BY <1>1
<1>4. Ordered(Tail(s))
  <2>1. \A i, j \in 1..Len(Tail(s)) : i < j => i + 1 < j + 1
    BY <1>1
  <2> QED BY <1>1, <1>2, <2>1, Zenon DEF Ordered
<1> QED BY <1>1, <1>2, <1>3, <1>4, Zenon DEF Ordered, AtEnd, NoOutput

LEMMA AppendEnds ==
  ASSUME NEW s \in Seq(Messages), Ordered(s), NEW m \in Messages
  PROVE  /\ m.kind # "output" => Ordered(Append(s, m)) /\ (NoOutput(s) => NoOutput(Append(s, m)))
         /\ ~AtEnd(s) => Ordered(Append(s, m))
         /\ m.kind \notin EndKinds => (AtEnd(Append(s, m)) => AtEnd(s))
<1> DEFINE t == Append(s, m)
<1>1. /\ Len(t) = Len(s) + 1 /\ Len(s) \in Nat /\ t[Len(s) + 1] = m
      /\ \A i \in 1..Len(s) : t[i] = s[i]
  BY AppendProperties, LenProperties
<1> HIDE DEF t
<1>2. \A i \in 1..Len(t) : i \in 1..Len(s) \/ i = Len(t)
  BY <1>1
<1>3. \A i, j \in 1..Len(t) : i < j => i \in 1..Len(s)
  BY <1>1
<1>4. m.kind # "output" => Ordered(t) /\ (NoOutput(s) => NoOutput(t))
  BY <1>1, <1>2, <1>3, Zenon DEF Ordered, NoOutput
<1>5. ~AtEnd(s) => Ordered(t)
  BY <1>1, <1>3, Zenon DEF Ordered, AtEnd
<1>6. m.kind \notin EndKinds => (AtEnd(t) => AtEnd(s))
  BY <1>1, <1>2, Zenon DEF AtEnd
<1> QED BY <1>4, <1>5, <1>6, Zenon DEF t

LEMMA EndStep ==
  ASSUME DataInv, PlaceInv, EndInv, [Next]_vars
  PROVE  EndInv'
<1>0. inbox \in Seq(Messages) /\ pending_message \in Seq(Messages) /\ Ordered(inbox)
  BY Zenon DEF DataInv, TypeOK, EndInv, Ordered
<1>e. ~AtEnd(<<>>) /\ NoOutput(<<>>) /\ Ordered(<<>>)
  BY DEF AtEnd, NoOutput, Ordered
<1>g. rpc = "gone" => rpc' = "gone"
  BY Zenon
     DEF Next, ReaderStep, Read, Announce, ReaderSend, WorkerStep, WindowStep, SendReady, AbandonJoin,
     NextMessage, PollExit, Write, Report, Collect, Parse, Publish, CloseInbox, PublishFlushed,
     JoinReader, SendClosed, PollFails, Submit, Poll, FlushOne, FlushEnds, ReceiveNotice, PollDone,
     RequestClose, Reap, DrainEffects, Shutdown, ChildExits, vars, reader
<1> USE <1>g
<1>1. CASE UNCHANGED <<pending_message, inbox>>
  BY <1>1, Zenon DEF EndInv, AtEnd, NoOutput
<1>2. CASE UNCHANGED pending_message /\ inbox # <<>> /\ inbox' = Tail(inbox)
  BY <1>0, <1>2, TailEnds, Zenon DEF EndInv, Ordered
<1>3. CASE pending_message' = <<>> /\ inbox' = inbox
  BY <1>0, <1>e, <1>3, Zenon DEF EndInv, Ordered
<1>4. CASE inbox # <<>> /\ pending_message' = <<Head(inbox)>> /\ inbox' = Tail(inbox)
  <2>1. Head(inbox) = inbox[1] /\ AtEnd(pending_message') => inbox[1].kind \in EndKinds
    BY <1>0, <1>4 DEF AtEnd
  <2> QED BY <1>0, <1>4, <2>1, TailEnds DEF EndInv, Ordered
<1>5. ASSUME NEW m \in Messages, m.kind # "output", m.kind \notin EndKinds,
             UNCHANGED pending_message, inbox' = Append(inbox, m)
      PROVE  EndInv'
  BY <1>0, <1>5, AppendEnds, Zenon DEF EndInv, Ordered
<1>6. CASE inbox' = <<>> /\ UNCHANGED pending_message
  BY <1>0, <1>e, <1>6, Zenon DEF EndInv, Ordered
<1>7. CASE ReaderSend
  <2>1. CASE ~inbox_open
    BY <1>1, <1>7, <2>1, Zenon DEF ReaderSend, worker
  <2>2. CASE inbox_open
    <3>1. rpc = "send" /\ ~AtEnd(inbox) /\ ~AtEnd(pending_message)
      BY <1>7, Zenon DEF ReaderSend, EndInv
    <3>2. PICK m \in Messages : reading = <<m>> /\ (m \in ReaderEnd \/ m.kind = "output")
      <4>1. Message("output", produced) \in Messages /\ ReaderEnd \subseteq Messages
        BY DEF Message, Messages, ReaderEnd, DataInv
      <4>2. Message("output", produced).kind = "output"
        BY Zenon DEF Message
      <4> QED BY <3>1, <4>1, <4>2, Zenon DEF PlaceInv
    <3>3. inbox' = Append(inbox, m) /\ UNCHANGED pending_message
      BY <1>0, <1>7, <2>2, <3>2, AppendIsConcat, Zenon DEF ReaderSend, worker
    <3>4. Ordered(inbox')
      BY <1>0, <3>1, <3>3, AppendEnds, Zenon
    <3>5. CASE m \in ReaderEnd
      <4>1. rpc' = "gone"
        BY <1>7, <2>2, <3>2, <3>5, Zenon DEF ReaderSend
      <4> QED BY <3>1, <3>3, <3>4, <4>1, Zenon DEF EndInv, Ordered
    <3>6. CASE m.kind = "output"
      <4>1. m.kind \notin EndKinds
        BY <3>6, Zenon DEF EndKinds
      <4>2. ~AtEnd(inbox')
        BY <1>0, <3>1, <3>3, <4>1, AppendEnds, Zenon
      <4> QED BY <3>1, <3>3, <3>4, <4>2, Zenon DEF EndInv, Ordered
    <3> QED BY <3>2, <3>5, <3>6, Zenon
  <2> QED BY <2>1, <2>2, Zenon
<1>8. CASE NextMessage
  BY <1>1, <1>2, <1>3, <1>8, Zenon DEF NextMessage
<1>9. CASE Collect
  BY <1>1, <1>2, <1>4, <1>9, Zenon DEF Collect, PutBack
<1>10. CASE AbandonJoin \/ SendClosed
  BY <1>6, <1>10, Zenon DEF AbandonJoin, SendClosed
<1>11. CASE FlushOne
  <2>1. Head(pending_commands) \in Commands
    BY <1>11, HeadTailProperties, Zenon DEF FlushOne, DataInv
  <2>2. /\ Head(pending_commands) \in Messages /\ Head(pending_commands).kind # "output"
        /\ Head(pending_commands).kind \notin EndKinds
    BY <2>1, Zenon DEF Commands, Messages, EndKinds
  <2> QED BY <1>5, <1>11, <2>2, Zenon DEF FlushOne, worker
<1>12. CASE RequestClose
  <2>1. /\ Message("close", 0) \in Messages /\ Message("close", 0).kind # "output"
        /\ Message("close", 0).kind \notin EndKinds
    BY Zenon DEF Message, Messages, EndKinds
  <2> QED BY <1>1, <1>5, <1>12, <2>1, Zenon DEF RequestClose, worker
<1>13. CASE \/ Read \/ Announce \/ SendReady \/ PollExit \/ PollFails \/ Write \/ Report \/ Parse
            \/ Publish \/ CloseInbox \/ PublishFlushed \/ JoinReader
  BY <1>1, <1>13, ZenonT(30)
     DEF Read, Announce, SendReady, PollExit, PollFails, Write, Report, Parse, Publish,
     CloseInbox, PublishFlushed, JoinReader, worker, channels
<1>14. CASE \/ Submit \/ Poll \/ FlushEnds \/ ReceiveNotice \/ PollDone \/ Reap \/ DrainEffects
            \/ Shutdown \/ ChildExits \/ UNCHANGED vars
  BY <1>1, <1>14, Zenon
     DEF Submit, Poll, FlushEnds, ReceiveNotice, PollDone, Reap, DrainEffects, Shutdown,
     ChildExits, vars, worker, channels
<1> QED
  BY <1>7, <1>8, <1>9, <1>10, <1>11, <1>12, <1>13, <1>14, Zenon
     DEF Next, ReaderStep, WorkerStep, WindowStep

-----------------------------------------------------------------------------
(***************************************************************************)
(* The worker moves messages along both pipelines and loses none while it  *)
(* is in its loop.                                                         *)
(***************************************************************************)
OutDone == parsed \o InHand({"collect", "parse"})
InDone == written \o InHand({"write"})

LEMMA DoneTypes ==
  ASSUME DataInv
  PROVE  OutDone \in Seq(Nat) /\ InDone \in Seq(Nat) /\ InHand({"collect", "parse"}) \in Seq(Nat)
         /\ InHand({"write"}) \in Seq(Nat)
<1>1. <<>> \in Seq(Nat)
  OBVIOUS
<1>2. InHand({"collect", "parse"}) \in Seq(Nat) /\ InHand({"write"}) \in Seq(Nat)
  BY <1>1, Zenon DEF DataInv, InHand
<1> QED BY <1>2, ConcatProperties, Zenon DEF DataInv, OutDone, InDone

LEMMA QueueTypes ==
  ASSUME DataInv
  PROVE  /\ pending_message \in Seq(Messages) /\ inbox \in Seq(Messages)
         /\ reading \in Seq(Messages) /\ pending_commands \in Seq(Messages)
BY Zenon DEF DataInv, TypeOK

LEMMA OneMessage ==
  ASSUME NEW s \in Seq(Messages), Len(s) <= 1, s # <<>>
  PROVE  \E m \in Messages : s = <<m>> /\ s[1] = m
<1>1. Len(s) = 1 /\ s[1] \in Messages
  BY EmptySeq
<1>2. s = <<s[1]>>
  BY <1>1
<1> QED BY <1>1, <1>2, Zenon

LEMMA LoopNotReentered ==
  ASSUME [Next]_vars, Looping'
  PROVE  Looping
<1> USE DEF Looping, LoopPlaces
<1>1. CASE WorkerStep \/ PollFails \/ DrainEffects
  BY <1>1, Zenon
     DEF WorkerStep, SendReady, AbandonJoin, NextMessage, PollExit, Write, Report, Collect, Parse,
     Publish, CloseInbox, PublishFlushed, JoinReader, SendClosed, PollFails, DrainEffects
<1>2. CASE ~(WorkerStep \/ PollFails \/ DrainEffects)
  <2>1. wpc' = wpc
    BY <1>2, Zenon
       DEF Next, ReaderStep, Read, Announce, ReaderSend, WindowStep, Submit, Poll, FlushOne,
       FlushEnds, ReceiveNotice, PollDone, RequestClose, Reap, Shutdown, ChildExits, vars, worker
  <2> QED BY <2>1, Zenon
<1> QED BY <1>1, <1>2, Zenon

LEMMA DispatchDone ==
  ASSUME DataInv, wpc = "next", NEW m \in Messages, Dispatch(m), UNCHANGED <<parsed, written>>, Looping'
  PROVE  OutDone' = Picked("output", m, OutDone) /\ InDone' = Picked("input", m, InDone)
<1>1. parsed \in Seq(Nat) /\ written \in Seq(Nat) /\ m.id \in Nat
  BY Zenon DEF DataInv, Messages
<1>2. /\ parsed \o <<>> = parsed /\ written \o <<>> = written
      /\ Append(parsed, m.id) = parsed \o <<m.id>> /\ Append(written, m.id) = written \o <<m.id>>
  BY <1>1, ConcatEmptySeq, AppendIsConcat, Zenon
<1>3. OutDone = parsed /\ InDone = written
  BY <1>2, Zenon DEF OutDone, InDone, InHand
<1>4. CASE m.kind = "input"
  <2>1. wpc' = "write" /\ batch_bytes' = <<m.id>>
    BY <1>4, Zenon DEF Dispatch
  <2> QED BY <1>2, <1>3, <1>4, <2>1, Zenon DEF OutDone, InDone, InHand, Picked
<1>5. CASE m.kind = "output"
  <2>1. wpc' \in {"collect", "parse"} /\ batch_bytes' = <<m.id>>
    BY <1>5, Zenon DEF Dispatch
  <2> QED BY <1>2, <1>3, <1>5, <2>1, Zenon DEF OutDone, InDone, InHand, Picked
<1>6. CASE m.kind \notin {"input", "output"}
  <2>1. wpc' = "publish"
    BY <1>6, Zenon DEF Dispatch, Leave, Looping, LoopPlaces
  <2> QED BY <1>2, <1>3, <1>6, <2>1, Zenon DEF OutDone, InDone, InHand, Picked
<1> QED BY <1>4, <1>5, <1>6, Zenon

LEMMA WorkerMoves ==
  ASSUME DataInv, PlaceInv, WorkerStep \/ PollFails \/ DrainEffects, Looping'
  PROVE  Coming' = Coming /\ Going' = Going
<1> USE QueueTypes, DoneTypes
<1>0. UNCHANGED <<reading, pending_commands>>
  BY Zenon
     DEF WorkerStep, SendReady, AbandonJoin, NextMessage, PollExit, Write, Report, Collect, Parse,
     Publish, CloseInbox, PublishFlushed, JoinReader, SendClosed, PollFails, DrainEffects, reader, window
<1>1. CASE UNCHANGED <<inbox, pending_message>> /\ OutDone' = OutDone /\ InDone' = InDone
  BY <1>0, <1>1, Zenon DEF Coming, Going, OutDone, InDone
<1>2. CASE NextMessage
  <2>1. wpc = "next" /\ UNCHANGED <<parsed, written>>
    BY <1>2, Zenon DEF NextMessage
  <2>2. CASE PendingFirst /\ Dispatch(pending_message[1]) /\ pending_message' = <<>> /\ UNCHANGED inbox
    <3>1. PICK m \in Messages : pending_message = <<m>> /\ pending_message[1] = m
      BY <2>2, OneMessage, Zenon DEF DataInv, TypeOK, PendingFirst
    <3>2. OutDone' = Picked("output", m, OutDone) /\ InDone' = Picked("input", m, InDone)
      BY <2>1, <2>2, <3>1, DispatchDone, Zenon
    <3>3. /\ Pipe("output", OutDone, <<m>>, inbox, reading) =
               Pipe("output", Picked("output", m, OutDone), <<>>, inbox, reading)
          /\ Pipe("input", InDone, <<m>>, inbox, pending_commands) =
               Pipe("input", Picked("input", m, InDone), <<>>, inbox, pending_commands)
      BY TakePutBack
    <3> QED BY <1>0, <2>2, <3>1, <3>2, <3>3, Zenon DEF Coming, Going, OutDone, InDone
  <2>3. CASE ~PendingFirst /\ inbox # <<>> /\ Dispatch(Head(inbox)) /\ inbox' = Tail(inbox)
             /\ UNCHANGED pending_message
    <3>1. Head(inbox) \in Messages /\ pending_message = <<>> /\ pending_message' = <<>>
      BY <2>3, HeadFirst, Zenon DEF PendingFirst
    <3>2. OutDone' = Picked("output", Head(inbox), OutDone) /\ InDone' = Picked("input", Head(inbox), InDone)
      BY <2>1, <2>3, <3>1, DispatchDone, Zenon
    <3>3. /\ Pipe("output", OutDone, <<>>, inbox, reading) =
               Pipe("output", Picked("output", Head(inbox), OutDone), <<>>, Tail(inbox), reading)
          /\ Pipe("input", InDone, <<>>, inbox, pending_commands) =
               Pipe("input", Picked("input", Head(inbox), InDone), <<>>, Tail(inbox), pending_commands)
      BY <2>3, TakeHead
    <3> QED BY <1>0, <2>3, <3>1, <3>2, <3>3, Zenon DEF Coming, Going, OutDone, InDone
  <2>4. ~Leave("closed")
    BY Zenon DEF Leave, Looping, LoopPlaces
  <2> QED BY <1>2, <2>2, <2>3, <2>4, Zenon DEF NextMessage
<1>3. CASE Collect
  <2>1. wpc = "collect" /\ pending_message = <<>> /\ wpc' \in {"collect", "parse"} /\ UNCHANGED <<parsed, written>>
    BY <1>3, Zenon DEF Collect, PlaceInv
  <2>2. InDone' = InDone
    BY <2>1, Zenon DEF InDone, InHand
  <2>3. OutDone = parsed \o batch_bytes /\ OutDone' = parsed \o batch_bytes'
    BY <2>1, Zenon DEF OutDone, InHand
  <2>4. CASE UNCHANGED <<inbox, batch_bytes, pending_message>>
    BY <1>1, <2>2, <2>3, <2>4, Zenon
  <2>5. CASE inbox # <<>> /\ inbox' = Tail(inbox) /\ Head(inbox).kind = "output"
             /\ batch_bytes' = Joined(Head(inbox).id) /\ UNCHANGED pending_message
    <3>1. Head(inbox) \in Messages /\ Head(inbox).id \in Nat /\ parsed \in Seq(Nat) /\ batch_bytes \in Seq(Nat)
      <4>1. Head(inbox) \in Messages
        BY <2>5, HeadFirst, Zenon
      <4> QED BY <4>1, Zenon DEF DataInv, Messages
    <3>2. OutDone' = Picked("output", Head(inbox), OutDone)
      <4>1. parsed \o Append(batch_bytes, Head(inbox).id) = Append(parsed \o batch_bytes, Head(inbox).id)
        BY <3>1, AppendRegroup, ZenonT(30)
      <4> QED BY <2>3, <2>5, <4>1, Zenon DEF Joined, Picked
    <3>3. InDone' = Picked("input", Head(inbox), InDone)
      BY <2>2, <2>5, Zenon DEF Picked
    <3>4. /\ Pipe("output", OutDone, <<>>, inbox, reading) =
               Pipe("output", Picked("output", Head(inbox), OutDone), <<>>, Tail(inbox), reading)
          /\ Pipe("input", InDone, <<>>, inbox, pending_commands) =
               Pipe("input", Picked("input", Head(inbox), InDone), <<>>, Tail(inbox), pending_commands)
      BY <2>5, TakeHead
    <3> QED BY <1>0, <2>1, <2>5, <3>2, <3>3, <3>4, Zenon DEF Coming, Going, OutDone, InDone
  <2>6. CASE inbox # <<>> /\ inbox' = Tail(inbox) /\ pending_message' = PutBack(Head(inbox))
             /\ UNCHANGED batch_bytes
    <3>1. /\ Pipe("output", OutDone, <<>>, inbox, reading) =
               Pipe("output", OutDone, <<Head(inbox)>>, Tail(inbox), reading)
          /\ Pipe("input", InDone, <<>>, inbox, pending_commands) =
               Pipe("input", InDone, <<Head(inbox)>>, Tail(inbox), pending_commands)
      BY <2>6, PutBackHead
    <3>2. OutDone' = OutDone /\ InDone' = InDone
      BY <2>2, <2>3, <2>6, Zenon
    <3> QED BY <1>0, <2>1, <2>6, <3>1, <3>2, Zenon DEF Coming, Going, OutDone, InDone, PutBack
  <2> QED BY <1>3, <2>4, <2>5, <2>6, Zenon DEF Collect
<1>4. CASE Write \/ Parse
  <2>1. parsed \in Seq(Nat) /\ written \in Seq(Nat) /\ batch_bytes \in Seq(Nat)
    BY Zenon DEF DataInv
  <2>2. /\ parsed \o <<>> = parsed /\ written \o <<>> = written
        /\ (parsed \o batch_bytes) \o <<>> = parsed \o batch_bytes
        /\ (written \o batch_bytes) \o <<>> = written \o batch_bytes
    BY <2>1, ConcatEmptySeq, ConcatProperties
  <2>3. CASE Write
    <3>1. wpc = "write" /\ wpc' = "report" /\ written' = written \o batch_bytes /\ UNCHANGED parsed
      BY <2>3, Zenon DEF Write, Leave, Looping, LoopPlaces
    <3>2. UNCHANGED <<inbox, pending_message>>
      BY <2>3, Zenon DEF Write, channels
    <3> QED BY <1>1, <2>2, <3>1, <3>2, Zenon DEF OutDone, InDone, InHand
  <2>4. CASE Parse
    <3>1. wpc = "parse" /\ wpc' = "publish" /\ parsed' = parsed \o batch_bytes /\ UNCHANGED written
      BY <2>4, Zenon DEF Parse
    <3>2. UNCHANGED <<inbox, pending_message>>
      BY <2>4, Zenon DEF Parse, channels
    <3> QED BY <1>1, <2>2, <3>1, <3>2, Zenon DEF OutDone, InDone, InHand
  <2> QED BY <1>4, <2>3, <2>4, Zenon
<1>5. CASE SendReady \/ PollExit \/ Report \/ Publish \/ DrainEffects
  <2>1. /\ wpc \notin {"collect", "parse", "write"} /\ wpc' \notin {"collect", "parse", "write"}
        /\ UNCHANGED <<inbox, pending_message, parsed, written>>
    BY <1>5, Zenon
       DEF SendReady, PollExit, AfterExit, Report, Publish, DrainEffects, Leave, channels
  <2> QED BY <1>1, <2>1, Zenon DEF OutDone, InDone, InHand
<1>6. CASE AbandonJoin \/ CloseInbox \/ PublishFlushed \/ JoinReader \/ SendClosed \/ PollFails
  BY <1>6, Zenon
     DEF AbandonJoin, CloseInbox, PublishFlushed, JoinReader, SendClosed, PollFails, Leave,
     Looping, LoopPlaces
<1> QED BY <1>2, <1>3, <1>4, <1>5, <1>6, Zenon DEF WorkerStep

-----------------------------------------------------------------------------
(***************************************************************************)
(* Every chunk read is parsed or on its way.                               *)
(***************************************************************************)
LEMMA UptoFacts ==
  ASSUME NEW n \in Nat
  PROVE  /\ Upto(n) \in Seq(Nat) /\ Len(Upto(n)) = n
         /\ \A i \in 1..n : Upto(n)[i] = i
         /\ Upto(n) \o <<n + 1>> = Upto(n + 1)
<1>1. Upto(n) \in Seq(Nat) /\ Len(Upto(n)) = n /\ \A i \in 1..n : Upto(n)[i] = i
  BY DEF Upto
<1>2. Upto(n + 1) \in Seq(Nat) /\ Len(Upto(n + 1)) = n + 1 /\ \A i \in 1..(n + 1) : Upto(n + 1)[i] = i
  BY DEF Upto
<1> DEFINE s == Upto(n) \o <<n + 1>>
<1>3. s \in Seq(Nat) /\ Len(s) = n + 1 /\ \A i \in 1..(n + 1) : s[i] = i
  <2>1. <<n + 1>> \in Seq(Nat) /\ Len(<<n + 1>>) = 1 /\ <<n + 1>>[1] = n + 1
    OBVIOUS
  <2>2. /\ s \in Seq(Nat) /\ Len(s) = n + 1
        /\ \A i \in 1..(n + 1) : s[i] = IF i <= n THEN Upto(n)[i] ELSE <<n + 1>>[i - n]
    BY <1>1, <2>1, ConcatProperties
  <2>3. ASSUME NEW i \in 1..(n + 1) PROVE s[i] = i
    <3>1. CASE i <= n
      BY <1>1, <2>2, <3>1
    <3>2. CASE i = n + 1
      <4>1. i - n = 1
        BY <3>2
      <4> QED BY <2>1, <2>2, <3>2, <4>1
    <3>3. i <= n \/ i = n + 1
      OBVIOUS
    <3> QED BY <3>1, <3>2, <3>3, Zenon
  <2> QED BY <2>2, <2>3, Zenon
<1> HIDE DEF s
<1>4. s = Upto(n + 1)
  BY <1>2, <1>3, SeqEqual, Zenon
<1> QED BY <1>1, <1>4, Zenon DEF s

LEMMA FirstPart ==
  ASSUME NEW s \in Seq(Nat), NEW t \in Seq(Nat), NEW n \in Nat, s \o t = Upto(n)
  PROVE  Len(s) <= n /\ s = Upto(Len(s))
<1>1. Len(s) \in Nat /\ Len(t) \in Nat
  BY LenProperties, Zenon
<1>2. Len(s) <= n
  <2>1. Len(s \o t) = Len(s) + Len(t)
    OBVIOUS
  <2>2. Len(Upto(n)) = n
    BY UptoFacts, Zenon
  <2> QED BY <1>1, <2>1, <2>2
<1>3. ASSUME NEW i \in 1..Len(s) PROVE s[i] = Upto(Len(s))[i]
  <2>1. i \in 1..n /\ Upto(n)[i] = i /\ Upto(Len(s))[i] = i
    <3>1. i \in 1..n
      BY <1>1, <1>2
    <3> QED BY <1>1, <3>1, Zenon DEF Upto
  <2>2. (s \o t)[i] = s[i]
    BY <1>1, ConcatProperties
  <2> QED BY <2>1, <2>2, Zenon
<1>4. Upto(Len(s)) \in Seq(Nat) /\ Len(Upto(Len(s))) = Len(s)
  BY <1>1, UptoFacts, Zenon
<1> QED BY <1>2, <1>3, <1>4, SeqEqual, Zenon

LEMMA AddOnly ==
  ASSUME NEW kind, NEW done \in Seq(Nat), NEW p \in Seq(Messages), NEW i \in Seq(Messages),
         NEW t \in Seq(Messages)
  PROVE  Pipe(kind, done, p, i, t) = Then(Pipe(kind, done, p, i, <<>>), Of(kind, t))
<1> DEFINE none == <<>>
<1>1. /\ none \in Seq(Messages) /\ Of(kind, t) \in Seq(Nat)
      /\ Of(kind, t) = Then(Of(kind, none), Of(kind, t))
  BY OfType, OfEmpty, ConcatEmptySeq DEF Then
<1> HIDE DEF none
<1>2. Pipe(kind, done, p, i, t) = Then(Pipe(kind, done, p, i, none), Of(kind, t))
  BY <1>1, AddLast
<1> QED BY <1>2, Zenon DEF none

LEMMA ComingType ==
  ASSUME DataInv
  PROVE  Coming \in Seq(Nat)
BY QueueTypes, DoneTypes, PipeType, Zenon DEF Coming, OutDone

Dropped ==
  /\ Coming = <<>> /\ ~notices_open /\ rpc = "gone"
  /\ ~AtEnd(pending_message) /\ ~AtEnd(inbox)

LEMMA ReaderMoves ==
  ASSUME DataInv, PlaceInv, EndInv, ReaderStep, Looping,
         Coming = Upto(produced) \/ Dropped
  PROVE  (Coming = Upto(produced) \/ Dropped)'
<1>t. /\ pending_message \in Seq(Messages) /\ inbox \in Seq(Messages)
      /\ reading \in Seq(Messages) /\ OutDone \in Seq(Nat)
  BY QueueTypes, DoneTypes, Zenon
<1>0. rpc # "gone" /\ produced \in Nat /\ Coming = Upto(produced)
  BY Zenon DEF ReaderStep, Read, Announce, ReaderSend, DataInv, Dropped
<1>1. UNCHANGED <<parsed, wpc, batch_bytes, pending_message>> /\ OutDone' = OutDone
  BY Zenon DEF ReaderStep, Read, Announce, ReaderSend, worker, OutDone, InHand
<1>2. ASSUME NEW m \in Messages
      PROVE  Pipe("output", OutDone, pending_message, inbox, <<m>>) =
               Pipe("output", OutDone, pending_message, inbox, <<>>) \o Of("output", <<m>>)
  <2> DEFINE t == <<m>>
  <2>1. t \in Seq(Messages)
    OBVIOUS
  <2> HIDE DEF t
  <2>2. Pipe("output", OutDone, pending_message, inbox, t) =
          Then(Pipe("output", OutDone, pending_message, inbox, <<>>), Of("output", t))
    BY <1>t, <2>1, AddOnly
  <2> QED BY <2>2, Zenon DEF Then, t
<1>3. CASE Read
  <2>1. reading = <<>> /\ UNCHANGED inbox
    BY <1>3, Zenon DEF Read, PlaceInv, channels
  <2>2. CASE produced' = produced + 1 /\ reading' = <<Message("output", produced')>>
    <3> DEFINE m == Message("output", produced + 1)
    <3>1. m \in Messages /\ m.kind = "output" /\ m.id = produced + 1
      BY <1>0 DEF Message, Messages
    <3>2. Of("output", <<m>>) = <<produced + 1>>
      <4>1. Append(<<>>, produced + 1) = <<produced + 1>>
        BY <1>0
      <4> QED BY <3>1, <4>1, OfOne, Zenon DEF Picked
    <3> HIDE DEF m
    <3>3. Coming' = Coming \o <<produced + 1>>
      BY <1>1, <1>2, <2>1, <2>2, <3>1, <3>2, Zenon DEF Coming, OutDone, m
    <3> QED BY <1>0, <2>2, <3>3, UptoFacts, Zenon
  <2>3. CASE UNCHANGED produced /\ \E m \in ReaderEnd : reading' = <<m>>
    <3>1. PICK m \in ReaderEnd : reading' = <<m>>
      BY <2>3, Zenon
    <3>2. m \in Messages /\ m.kind # "output"
      BY DEF ReaderEnd, Message, Messages
    <3>3. Of("output", <<m>>) = <<>>
      BY <3>2, OfOne, Zenon DEF Picked
    <3>4. Coming' = Coming \o <<>>
      BY <1>1, <1>2, <2>1, <3>1, <3>2, <3>3, Zenon DEF Coming, OutDone
    <3> QED BY <1>0, <2>3, <3>4, ComingType, ConcatEmptySeq, Zenon
  <2> QED BY <1>3, <2>2, <2>3, Zenon DEF Read
<1>4. CASE Announce
  <2>1. UNCHANGED <<inbox, produced, notices_open>>
    BY <1>4, Zenon DEF Announce
  <2>2. CASE UNCHANGED reading
    BY <1>0, <1>1, <2>1, <2>2, Zenon DEF Coming, OutDone
  <2>3. CASE ~notices_open /\ rpc' = "gone" /\ reading' = <<>>
    <3> DEFINE m == Message("output", 1)
    <3>1. produced = 1 /\ reading = <<m>>
      BY <1>4, Zenon DEF Announce, PlaceInv
    <3>2. m \in Messages /\ m.kind = "output" /\ m.id = 1
      BY Zenon DEF Message, Messages
    <3>3. Of("output", <<m>>) = <<1>>
      <4>1. Append(<<>>, 1) = <<1>>
        OBVIOUS
      <4> QED BY <3>2, <4>1, OfOne, Zenon DEF Picked
    <3> HIDE DEF m
    <3>4. Coming = Coming' \o <<1>>
      BY <1>1, <1>2, <2>1, <2>3, <3>1, <3>2, <3>3, Zenon DEF Coming, OutDone
    <3>5. Coming' \in Seq(Nat) /\ Len(Coming) = 1
      <4>1. <<>> \in Seq(Messages)
        OBVIOUS
      <4>2. Coming' = Pipe("output", OutDone, pending_message, inbox, <<>>)
        BY <1>1, <2>1, <2>3, Zenon DEF Coming, OutDone
      <4> QED BY <1>t, <1>0, <3>1, <4>1, <4>2, PipeType, UptoFacts, Zenon
    <3>6. Coming' = <<>>
      <4>1. \A c \in Seq(Nat) : Len(c \o <<1>>) = 1 => c = <<>>
        OBVIOUS
      <4> QED BY <3>4, <3>5, <4>1, Zenon
    <3>7. ~AtEnd(pending_message) /\ ~AtEnd(inbox)
      BY <1>0, Zenon DEF EndInv
    <3> QED BY <1>1, <2>1, <2>3, <3>6, <3>7, Zenon DEF Dropped
  <2> QED BY <1>4, <2>2, <2>3, Zenon DEF Announce
<1>5. CASE ReaderSend
  <2>1. inbox_open /\ reading # <<>> /\ Len(reading) <= 1
    BY <1>5, SMTT(40) DEF ReaderSend, PlaceInv, Looping, DataInv, TypeOK
  <2>2. PICK m \in Messages : reading = <<m>>
    BY <1>t, <2>1, OneMessage, Zenon
  <2>3. Head(reading) = m /\ Tail(reading) = <<>>
    BY <2>2
  <2>4. inbox' = Append(inbox, m) /\ reading' = <<>> /\ UNCHANGED produced
    BY <1>t, <1>5, <2>1, <2>2, AppendIsConcat, Zenon DEF ReaderSend
  <2>5. Pipe("output", OutDone, pending_message, inbox, reading) =
          Pipe("output", OutDone, pending_message, Append(inbox, m), <<>>)
    <3>1. Pipe("output", OutDone, pending_message, inbox, reading) =
            Pipe("output", OutDone, pending_message, Append(inbox, Head(reading)), Tail(reading))
      BY <1>t, <2>1, EnterInbox
    <3> QED BY <2>3, <3>1, Zenon
  <2> QED BY <1>0, <1>1, <2>4, <2>5, Zenon DEF Coming, OutDone
<1> QED BY <1>3, <1>4, <1>5, Zenon DEF ReaderStep

LEMMA ComingStep ==
  ASSUME DataInv, PlaceInv, EndInv, [Next]_vars, Looping',
         Coming = Upto(produced) \/ Dropped
  PROVE  (Coming = Upto(produced) \/ Dropped)'
<1>0. Looping
  BY LoopNotReentered, Zenon
<1>1. CASE ReaderStep
  BY <1>0, <1>1, ReaderMoves, Zenon
<1> SUFFICES ASSUME ~ReaderStep PROVE (Coming = Upto(produced) \/ Dropped)'
  BY <1>1, Zenon
<1>2. /\ Coming' = Coming /\ UNCHANGED <<produced, rpc>>
      /\ ~notices_open => ~notices_open'
      /\ (AtEnd(pending_message') \/ AtEnd(inbox')) => (AtEnd(pending_message) \/ AtEnd(inbox) \/ rpc # "gone")
  <2>q. inbox \in Seq(Messages) /\ Ordered(inbox) /\ pending_message \in Seq(Messages)
    BY Zenon DEF DataInv, TypeOK, EndInv, Ordered
  <2>1. CASE WorkerStep \/ PollFails \/ DrainEffects
    <3>1. UNCHANGED reader /\ UNCHANGED notices_open
      BY <2>1, ZenonT(30)
         DEF WorkerStep, SendReady, AbandonJoin, NextMessage, PollExit, Write, Report, Collect,
         Parse, Publish, CloseInbox, PublishFlushed, JoinReader, SendClosed, PollFails, DrainEffects, channels
    <3>2. \/ UNCHANGED <<pending_message, inbox>>
          \/ UNCHANGED pending_message /\ inbox # <<>> /\ inbox' = Tail(inbox)
          \/ pending_message' = <<>> /\ inbox' = inbox
          \/ inbox # <<>> /\ pending_message' = <<Head(inbox)>> /\ inbox' = Tail(inbox)
          \/ UNCHANGED pending_message /\ inbox' = <<>>
      BY <2>1, Zenon
         DEF WorkerStep, SendReady, AbandonJoin, NextMessage, PollExit, Write, Report, Collect,
         Parse, Publish, CloseInbox, PublishFlushed, JoinReader, SendClosed, PollFails, DrainEffects,
         channels, PutBack
    <3>3. (AtEnd(pending_message') \/ AtEnd(inbox')) => (AtEnd(pending_message) \/ AtEnd(inbox))
      <4>1. ~AtEnd(<<>>)
        BY DEF AtEnd
      <4>2. inbox # <<>> /\ AtEnd(<<Head(inbox)>>) => inbox[1].kind \in EndKinds
        BY <2>q DEF AtEnd
      <4> QED BY <2>q, <3>2, <4>1, <4>2, TailEnds, ZenonT(30)
    <3> QED BY <2>1, <3>1, <3>3, WorkerMoves, Zenon DEF reader
  <2>2. CASE FlushOne \/ RequestClose
    <3>1. /\ UNCHANGED <<pending_message, reading, produced, rpc, notices_open, parsed, wpc, batch_bytes>>
          /\ \/ inbox' = inbox
             \/ \E m \in Messages : /\ m.kind \notin EndKinds /\ m.kind # "output"
                                    /\ inbox' = Append(inbox, m)
      <4>1. CASE FlushOne
        <5>1. Head(pending_commands) \in Commands
          BY <4>1, HeadTailProperties, Zenon DEF FlushOne, DataInv
        <5>2. /\ Head(pending_commands) \in Messages /\ Head(pending_commands).kind # "output"
              /\ Head(pending_commands).kind \notin EndKinds
          BY <5>1, Zenon DEF Commands, Messages, EndKinds
        <5> QED BY <4>1, <5>2, Zenon DEF FlushOne, worker, reader
      <4>2. CASE RequestClose
        <5>1. /\ Message("close", 0) \in Messages /\ Message("close", 0).kind # "output"
              /\ Message("close", 0).kind \notin EndKinds
          BY Zenon DEF Message, Messages, EndKinds
        <5> QED BY <4>2, <5>1, Zenon DEF RequestClose, worker, reader
      <4> QED BY <2>2, <4>1, <4>2, Zenon
    <3>2. OutDone' = OutDone
      BY <3>1, Zenon DEF OutDone, InHand
    <3>3. CASE inbox' = inbox
      BY <3>1, <3>2, <3>3, Zenon DEF Coming, OutDone
    <3>4. ASSUME NEW m \in Messages, m.kind \notin EndKinds, m.kind # "output", inbox' = Append(inbox, m)
          PROVE  Coming' = Coming /\ (AtEnd(inbox') => AtEnd(inbox))
      <4>1. Pipe("output", OutDone, pending_message, Append(inbox, m), reading) =
              Pipe("output", OutDone, pending_message, inbox, reading)
        BY <3>4, QueueTypes, AddOther
      <4>2. Coming' = Coming
        BY <3>1, <3>2, <3>4, <4>1, ZenonT(30) DEF Coming, OutDone
      <4> QED BY <2>q, <3>4, <4>2, AppendEnds, Zenon
    <3> QED BY <3>1, <3>3, <3>4, Zenon
  <2>3. CASE \/ Submit \/ Poll \/ FlushEnds \/ ReceiveNotice \/ PollDone \/ Reap
             \/ Shutdown \/ ChildExits \/ UNCHANGED vars
    <3>1. UNCHANGED <<pending_message, inbox, reading, produced, rpc, parsed, wpc, batch_bytes>>
      BY <2>3, ZenonT(30)
         DEF Submit, Poll, FlushEnds, ReceiveNotice, PollDone, Reap, Shutdown, ChildExits,
         vars, worker, reader, channels
    <3>2. ~notices_open => ~notices_open'
      BY <2>3, Zenon
         DEF Submit, Poll, FlushEnds, ReceiveNotice, PollDone, Reap, Shutdown, ChildExits,
         vars, channels
    <3> QED BY <3>1, <3>2, Zenon DEF Coming, InHand
  <2> QED BY <2>1, <2>2, <2>3, Zenon DEF Next, WindowStep
<1> QED BY <1>2, Zenon DEF Dropped

LEMMA OutputStep ==
  ASSUME DataInv, PlaceInv, EndInv, OutputInv, [Next]_vars
  PROVE  OutputInv'
<1>1. DataInv'
  BY DataStep, Zenon
<1>2. CASE Looping'
  <2>1. (Coming = Upto(produced) \/ Dropped)'
    BY <1>2, LoopNotReentered, ComingStep, Zenon DEF OutputInv, Dropped
  <2>2. PICK t \in Seq(Nat) : Coming' = parsed' \o t
    <3> DEFINE h == InHand({"collect", "parse"})'
               q == Of("output", pending_message \o inbox \o reading)'
    <3>1. h \in Seq(Nat) /\ parsed' \in Seq(Nat)
      BY <1>1 DEF DataInv, InHand
    <3>2. q \in Seq(Nat)
      <4>1. pending_message' \in Seq(Messages) /\ inbox' \in Seq(Messages) /\ reading' \in Seq(Messages)
        BY <1>1, Zenon DEF DataInv, TypeOK
      <4> QED BY <4>1, QueueType, OfType, Zenon
    <3>3. Coming' = (parsed' \o h) \o q
      BY Zenon DEF Coming, Pipe
    <3> HIDE DEF h, q
    <3>4. (parsed' \o h) \o q = parsed' \o (h \o q) /\ h \o q \in Seq(Nat)
      BY <3>1, <3>2, Regroup, ConcatProperties, Zenon
    <3> QED BY <3>3, <3>4, Zenon
  <2>3. parsed' \in Seq(Nat) /\ produced' \in Nat
    BY <1>1, Zenon DEF DataInv
  <2>4. CASE Coming' = Upto(produced')
    <3>1. Len(parsed') <= produced' /\ parsed' = Upto(Len(parsed'))
      BY <2>2, <2>3, <2>4, FirstPart, Zenon
    <3> QED BY <2>4, <3>1, Zenon DEF OutputInv
  <2>5. CASE Dropped'
    <3>1. parsed' = <<>>
      <4>1. \A a, b \in Seq(Nat) : a \o b = <<>> => a = <<>>
        BY ConcatEqualIffEmpty
      <4> QED BY <2>2, <2>3, <2>5, <4>1, Zenon DEF Dropped
    <3>2. Len(parsed') <= produced' /\ parsed' = Upto(Len(parsed'))
      BY <2>3, <3>1 DEF Upto
    <3> QED BY <2>5, <3>2, Zenon DEF OutputInv, Dropped
  <2> QED BY <2>1, <2>4, <2>5, Zenon
<1>3. CASE ~Looping'
  <2>1. parsed' = parsed
    <3>1. ~Parse
      BY <1>3, Zenon DEF Parse, Looping, LoopPlaces
    <3> QED BY <3>1, ZenonT(30)
               DEF Next, ReaderStep, Read, Announce, ReaderSend, WorkerStep, WindowStep, SendReady,
          AbandonJoin, NextMessage, PollExit, Write, Report, Collect, Publish, CloseInbox, PublishFlushed,
          JoinReader, SendClosed, PollFails, Submit, Poll, FlushOne, FlushEnds, ReceiveNotice, PollDone,
          RequestClose, Reap, DrainEffects, Shutdown, ChildExits, vars, worker
  <2>2. produced' \in {produced, produced + 1} /\ produced \in Nat
    <3>1. produced' \in {produced, produced + 1}
      BY Zenon
         DEF Next, ReaderStep, Read, Announce, ReaderSend, WorkerStep, WindowStep, SendReady,
          AbandonJoin, NextMessage, PollExit, Write, Report, Collect, Parse, Publish, CloseInbox,
          PublishFlushed, JoinReader, SendClosed, PollFails, Submit, Poll, FlushOne, FlushEnds,
          ReceiveNotice, PollDone, RequestClose, Reap, DrainEffects, Shutdown, ChildExits, vars, reader
    <3> QED BY <3>1, Zenon DEF DataInv
  <2>3. Len(parsed) \in Nat
    BY LenProperties, Zenon DEF DataInv
  <2> QED BY <1>3, <2>1, <2>2, <2>3 DEF OutputInv
<1> QED BY <1>2, <1>3, Zenon

(***************************************************************************)
(* A worker that leaves its loop at the end of the stream has parsed all.  *)
(***************************************************************************)
LEMMA CompleteStep ==
  ASSUME DataInv, PlaceInv, EndInv, OutputInv, CompleteInv, [Next]_vars
  PROVE  CompleteInv'
<1> SUFFICES ASSUME left' \in EndKinds PROVE rpc' = "gone" /\ parsed' = Upto(produced')
  BY Zenon DEF CompleteInv
<1>1. CASE left \in EndKinds
  <2>1. rpc = "gone" /\ parsed = Upto(produced) /\ wpc # "parse"
    BY <1>1, Zenon DEF CompleteInv, PlaceInv, LoopPlaces, EndKinds
  <2>2. UNCHANGED <<rpc, produced, parsed>>
    BY <2>1, ZenonT(30)
       DEF Next, ReaderStep, Read, Announce, ReaderSend, WorkerStep, WindowStep, SendReady,
       AbandonJoin, NextMessage, PollExit, Write, Report, Collect, Parse, Publish, CloseInbox,
       PublishFlushed, JoinReader, SendClosed, PollFails, Submit, Poll, FlushOne, FlushEnds,
       ReceiveNotice, PollDone, RequestClose, Reap, DrainEffects, Shutdown, ChildExits, vars, reader, worker
  <2> QED BY <2>1, <2>2, Zenon
<1>2. CASE left \notin EndKinds
  <2>1. NextMessage
    BY <1>2, ZenonT(30)
       DEF Next, ReaderStep, Read, Announce, ReaderSend, WorkerStep, WindowStep, SendReady,
       AbandonJoin, PollExit, AfterExit, Write, Report, Collect, Parse, Publish, CloseInbox,
       PublishFlushed, JoinReader, SendClosed, PollFails, Submit, Poll, FlushOne, FlushEnds,
       ReceiveNotice, PollDone, RequestClose, Reap, DrainEffects, Shutdown, ChildExits, vars, worker,
       Leave, EndKinds
  <2>2. wpc = "next" /\ Looping /\ UNCHANGED <<rpc, produced, parsed>>
    BY <2>1, Zenon DEF NextMessage, Looping, LoopPlaces, reader
  <2>3. ~Leave("closed")
    BY Zenon DEF Leave, EndKinds
  <2>t. /\ pending_message \in Seq(Messages) /\ Len(pending_message) <= 1 /\ inbox \in Seq(Messages)
        /\ parsed \in Seq(Nat) /\ OutDone = parsed
    <3>1. OutDone = parsed \o <<>> /\ parsed \in Seq(Nat)
      BY <2>2, Zenon DEF OutDone, InHand, DataInv
    <3> QED BY <3>1, ConcatEmptySeq, Zenon DEF DataInv, TypeOK
  <2>4. ASSUME NEW m, Dispatch(m) PROVE m.kind \in EndKinds
    BY <1>2, <2>4, Zenon DEF Dispatch, Leave, EndKinds
  <2>7. ASSUME NEW s \in Seq(Messages), NoOutput(s), Coming = Pipe("output", parsed, <<>>, s, <<>>)
        PROVE  Coming = parsed
    <3>1. <<>> \o s \o <<>> = s
      OBVIOUS
    <3>2. Of("output", s) = <<>>
      BY <2>7, OfNone, Zenon DEF NoOutput
    <3> QED BY <2>t, <2>7, <3>1, <3>2, ConcatEmptySeq, Zenon DEF Pipe
  <2>5. CASE PendingFirst /\ Dispatch(pending_message[1])
    <3>1. PICK m \in Messages : pending_message = <<m>> /\ pending_message[1] = m
      BY <2>t, <2>5, OneMessage, Zenon DEF PendingFirst
    <3>2. m.kind \in EndKinds /\ m.kind # "output"
      BY <2>4, <2>5, <3>1, Zenon DEF EndKinds
    <3>3. AtEnd(pending_message)
      BY <3>1, <3>2 DEF AtEnd
    <3>4. NoOutput(inbox) /\ rpc = "gone" /\ reading = <<>> /\ Coming = Upto(produced)
      BY <2>2, <3>3, Zenon DEF EndInv, PlaceInv, OutputInv
    <3>5. Pipe("output", parsed, <<m>>, inbox, reading) = Pipe("output", parsed, <<>>, inbox, reading)
      <4>1. Picked("output", m, parsed) = parsed
        BY <3>2, Zenon DEF Picked
      <4>2. Pipe("output", parsed, <<m>>, inbox, reading) =
              Pipe("output", Picked("output", m, parsed), <<>>, inbox, reading)
        BY <2>t, QueueTypes, TakePutBack
      <4> QED BY <4>1, <4>2, Zenon
    <3>6. Coming = Pipe("output", parsed, <<>>, inbox, <<>>)
      BY <2>t, <3>1, <3>4, <3>5, Zenon DEF Coming, OutDone
    <3> QED BY <2>t, <2>7, <2>2, <3>4, <3>6, Zenon
  <2>6. CASE ~PendingFirst /\ inbox # <<>> /\ Dispatch(Head(inbox))
    <3>1. Head(inbox) = inbox[1] /\ pending_message = <<>> /\ Tail(inbox) \in Seq(Messages)
      BY <2>t, <2>6 DEF PendingFirst
    <3>2. inbox[1].kind \in EndKinds /\ Head(inbox).kind # "output"
      BY <2>4, <2>6, <3>1, Zenon DEF EndKinds
    <3>3. AtEnd(inbox) /\ NoOutput(Tail(inbox))
      <4>1. Ordered(inbox)
        BY Zenon DEF EndInv, Ordered
      <4> QED BY <2>t, <2>6, <3>2, <4>1, TailEnds, Zenon
    <3>4. rpc = "gone" /\ reading = <<>> /\ Coming = Upto(produced)
      BY <2>2, <3>3, Zenon DEF EndInv, PlaceInv, OutputInv
    <3>5. Pipe("output", parsed, <<>>, inbox, reading) = Pipe("output", parsed, <<>>, Tail(inbox), reading)
      <4>1. Picked("output", Head(inbox), parsed) = parsed
        BY <3>2, Zenon DEF Picked
      <4>2. Pipe("output", parsed, <<>>, inbox, reading) =
              Pipe("output", Picked("output", Head(inbox), parsed), <<>>, Tail(inbox), reading)
        BY <2>t, <2>6, QueueTypes, TakeHead
      <4> QED BY <4>1, <4>2, Zenon
    <3>6. Coming = Pipe("output", parsed, <<>>, Tail(inbox), <<>>)
      BY <2>t, <3>1, <3>4, <3>5, Zenon DEF Coming, OutDone
    <3> QED BY <2>7, <2>2, <3>1, <3>3, <3>4, <3>6, Zenon
  <2> QED BY <2>1, <2>3, <2>5, <2>6, Zenon DEF NextMessage
<1> QED BY <1>1, <1>2, Zenon

-----------------------------------------------------------------------------
(***************************************************************************)
(* Every input submitted is written or on its way.                         *)
(***************************************************************************)
Kinds == {"input", "resize"}
Sent(kinds) == [i \in DOMAIN kinds |-> Message(kinds[i], i)]
Block(n, kinds) == [i \in 1..Len(kinds) |-> Message(kinds[i], n + i)]

LEMMA BlockType ==
  ASSUME NEW n \in Nat, NEW kinds \in Seq(Kinds)
  PROVE  /\ Block(n, kinds) \in Seq(Messages) /\ Len(Block(n, kinds)) = Len(kinds)
         /\ \A i \in 1..Len(kinds) : Block(n, kinds)[i] = Message(kinds[i], n + i)
<1>1. Len(kinds) \in Nat /\ \A i \in 1..Len(kinds) : kinds[i] \in Kinds
  BY LenProperties, ElementOfSeq, Zenon
<1>2. \A i \in 1..Len(kinds) : Message(kinds[i], n + i) \in Messages
  BY <1>1 DEF Message, Messages, Kinds
<1> QED BY <1>1, <1>2 DEF Block

LEMMA ConcatAt ==
  ASSUME NEW T, NEW a \in Seq(T), NEW b \in Seq(T), NEW m \in Nat, NEW n \in Nat,
         m = Len(a), n = Len(b), NEW i \in 1..(m + n)
  PROVE  /\ i <= m => (a \o b)[i] = a[i]
         /\ i > m => (a \o b)[i] = b[i - m]
BY ConcatProperties

LEMMA SentConcat ==
  ASSUME NEW s \in Seq(Kinds), NEW t \in Seq(Kinds)
  PROVE  /\ Sent(s) \in Seq(Messages)
         /\ Sent(s \o t) = Sent(s) \o Block(Len(s), t)
<1>0. Len(s) \in Nat /\ Len(t) \in Nat /\ s \o t \in Seq(Kinds) /\ Len(s \o t) = Len(s) + Len(t)
  BY LenProperties, ConcatProperties, Zenon
<1>1. ASSUME NEW u \in Seq(Kinds) PROVE Sent(u) = Block(0, u)
  <2>1. DOMAIN u = 1..Len(u) /\ Len(u) \in Nat /\ \A i \in 1..Len(u) : 0 + i = i
    BY LenProperties
  <2> QED BY <2>1, Zenon DEF Sent, Block
<1>2. /\ Sent(s) \in Seq(Messages) /\ Len(Sent(s)) = Len(s)
      /\ \A i \in 1..Len(s) : Sent(s)[i] = Message(s[i], 0 + i)
  BY <1>1, BlockType, Zenon
<1>3. /\ Block(Len(s), t) \in Seq(Messages) /\ Len(Block(Len(s), t)) = Len(t)
      /\ \A i \in 1..Len(t) : Block(Len(s), t)[i] = Message(t[i], Len(s) + i)
  BY <1>0, BlockType, Zenon
<1>4. /\ Sent(s \o t) \in Seq(Messages) /\ Len(Sent(s \o t)) = Len(s) + Len(t)
      /\ \A i \in 1..(Len(s) + Len(t)) : Sent(s \o t)[i] = Message((s \o t)[i], 0 + i)
  BY <1>0, <1>1, BlockType, ZenonT(40)
<1> DEFINE l == Sent(s \o t)
           r == Sent(s) \o Block(Len(s), t)
<1>5. r \in Seq(Messages) /\ Len(r) = Len(s) + Len(t)
  <2>1. ASSUME NEW a \in Seq(Messages), NEW b \in Seq(Messages)
        PROVE  a \o b \in Seq(Messages) /\ Len(a \o b) = Len(a) + Len(b)
    BY ConcatProperties, Zenon
  <2> QED BY <1>0, <1>2, <1>3, <2>1, Zenon
<1>6. ASSUME NEW i \in 1..(Len(s) + Len(t)) PROVE l[i] = r[i]
  <2>0. ASSUME NEW a \in Seq(Messages), NEW b \in Seq(Messages), Len(a) = Len(s), Len(b) = Len(t)
        PROVE  /\ i <= Len(s) => (a \o b)[i] = a[i]
               /\ i > Len(s) => (a \o b)[i] = b[i - Len(s)]
    BY <1>0, <2>0, ConcatAt
  <2>1. CASE i <= Len(s)
    <3>1. (s \o t)[i] = s[i]
      BY <1>0, <2>1, ConcatAt
    <3>2. r[i] = Sent(s)[i]
      BY <1>2, <1>3, <2>0, <2>1, Zenon
    <3> QED BY <1>0, <1>2, <1>4, <2>1, <3>1, <3>2
  <2>2. CASE i > Len(s)
    <3>1. i - Len(s) \in 1..Len(t) /\ Len(s) + (i - Len(s)) = 0 + i
      BY <1>0, <2>2
    <3>2. (s \o t)[i] = t[i - Len(s)]
      BY <1>0, <2>2, ConcatAt
    <3>3. r[i] = Block(Len(s), t)[i - Len(s)]
      BY <1>2, <1>3, <2>0, <2>2, Zenon
    <3>4. Block(Len(s), t)[i - Len(s)] = Message(t[i - Len(s)], 0 + i)
      BY <1>3, <3>1, Zenon
    <3> QED BY <1>4, <3>2, <3>3, <3>4, Zenon
  <2>3. i <= Len(s) \/ i > Len(s)
    BY <1>0
  <2> QED BY <2>1, <2>2, <2>3, Zenon
<1> HIDE DEF l, r
<1>7. l \in Seq(Messages) /\ Len(l) = Len(r)
  BY <1>4, <1>5, Zenon DEF l
<1>8. l = r
  BY <1>5, <1>6, <1>7, SeqEqual, Zenon
<1> QED BY <1>2, <1>8, Zenon DEF l, r

LEMMA GoingType ==
  ASSUME DataInv
  PROVE  Going \in Seq(Nat)
BY QueueTypes, DoneTypes, PipeType, Zenon DEF Going, InDone

LEMMA GivenIsSent == Given = Of("input", Sent(submitted))
BY Zenon DEF Given, Sent

LEMMA GivenExtends ==
  ASSUME DataInv, NEW t \in Seq(Kinds), submitted' = submitted \o t
  PROVE  Given' = Given \o Of("input", Block(Len(submitted), t))
<1>1. submitted \in Seq(Kinds) /\ Len(submitted) \in Nat
  BY LenProperties, Zenon DEF DataInv, Kinds
<1>2. /\ Sent(submitted) \in Seq(Messages) /\ Block(Len(submitted), t) \in Seq(Messages)
      /\ Sent(submitted \o t) = Sent(submitted) \o Block(Len(submitted), t)
  BY <1>1, SentConcat, BlockType, Zenon
<1>3. Given' = Of("input", Sent(submitted \o t))
  BY Zenon DEF Given, Sent
<1>4. Of("input", Sent(submitted) \o Block(Len(submitted), t)) =
        Of("input", Sent(submitted)) \o Of("input", Block(Len(submitted), t))
  BY <1>2, OfConcat, Zenon
<1> QED BY <1>2, <1>3, <1>4, GivenIsSent, Zenon

(***************************************************************************)
(* What the window submits goes to the end of both, a resize that replaces *)
(* another included.                                                       *)
(***************************************************************************)
LEMMA SubmitMoves ==
  ASSUME DataInv, Submit
  PROVE  \E t \in Seq(Nat) : Given' = Given \o t /\ Going' = Going \o t
<1>0. /\ UNCHANGED <<pending_message, inbox, written, wpc, batch_bytes>> /\ InDone' = InDone
      /\ Len(submitted) \in Nat
  BY LenProperties, Zenon DEF Submit, channels, worker, InDone, InHand, DataInv
<1>t. /\ pending_message \in Seq(Messages) /\ inbox \in Seq(Messages)
      /\ pending_commands \in Seq(Messages) /\ InDone \in Seq(Nat)
  BY QueueTypes, DoneTypes, Zenon
<1>1. ASSUME NEW chunks \in 1..MaxInput - Len(submitted), SubmitInput(chunks),
             submitted' = submitted \o [i \in 1..chunks |-> "input"]
      PROVE  \E t \in Seq(Nat) : Given' = Given \o t /\ Going' = Going \o t
  <2> DEFINE kinds == [i \in 1..chunks |-> "input"]
             b == Block(Len(submitted), kinds)
  <2>1. chunks \in Nat
    BY <1>0, <1>1, PaneWorkerAssumption
  <2>2. kinds \in Seq(Kinds) /\ Len(kinds) = chunks /\ \A i \in 1..chunks : kinds[i] = "input"
    BY <2>1 DEF Kinds
  <2>3. b = [i \in 1..chunks |-> Message("input", Len(submitted) + i)] /\ b \in Seq(Messages)
    <3> HIDE DEF kinds
    <3> QED BY <1>0, <2>2, BlockType, Zenon DEF Block
  <2> HIDE DEF b
  <2>4. pending_commands' = pending_commands \o b
    BY <1>1, <2>3, Zenon DEF SubmitInput
  <2>5. Given' = Given \o Of("input", b)
    BY <1>1, <2>2, GivenExtends, Zenon DEF b
  <2>6. Pipe("input", InDone, pending_message, inbox, pending_commands') =
          Pipe("input", InDone, pending_message, inbox, pending_commands) \o Of("input", b)
    <3>1. Of("input", pending_commands \o b) = Of("input", pending_commands) \o Of("input", b)
      BY <1>t, <2>3, OfConcat, Zenon
    <3>2. pending_commands \o b \in Seq(Messages) /\ Of("input", b) \in Seq(Nat)
      BY <1>t, <2>3, OfType, ConcatProperties, Zenon
    <3>3. /\ pending_commands' \in Seq(Messages)
          /\ Of("input", pending_commands') = Then(Of("input", pending_commands), Of("input", b))
      BY <2>4, <3>1, <3>2, Zenon DEF Then
    <3>4. Pipe("input", InDone, pending_message, inbox, pending_commands') =
            Then(Pipe("input", InDone, pending_message, inbox, pending_commands), Of("input", b))
      BY <1>t, <3>2, <3>3, AddLast
    <3> QED BY <3>4, Zenon DEF Then
  <2>7. Going' = Going \o Of("input", b)
    BY <1>0, <2>6, Zenon DEF Going, InDone
  <2>8. Of("input", b) \in Seq(Nat)
    BY <2>3, OfType, Zenon
  <2> QED BY <2>5, <2>7, <2>8, Zenon
<1>2. ASSUME SubmitResize, submitted' = Append(submitted, "resize")
      PROVE  \E t \in Seq(Nat) : Given' = Given \o t /\ Going' = Going \o t
  <2> DEFINE command == Message("resize", Len(submitted) + 1)
             kinds == <<"resize">>
  <2>1. command \in Messages /\ command.kind = "resize"
    BY <1>0 DEF Message, Messages
  <2>2. Given' = Given \o <<>>
    <3>1. kinds \in Seq(Kinds) /\ Len(kinds) = 1 /\ kinds[1] = "resize"
      BY DEF Kinds
    <3>2. submitted' = submitted \o kinds
      BY <1>2, AppendIsConcat, Zenon DEF DataInv
    <3>3. Block(Len(submitted), kinds) = <<command>>
      BY <1>0, <3>1 DEF Block
    <3>4. Of("input", <<command>>) = <<>>
      BY <2>1, OfOne, Zenon DEF Picked
    <3> HIDE DEF kinds, command
    <3> QED BY <3>1, <3>2, <3>3, <3>4, GivenExtends, Zenon
  <2> DEFINE kept == IF pending_commands # <<>> /\ Last(pending_commands).kind = "resize"
                     THEN Front(pending_commands) ELSE pending_commands
  <2>3. kept \in Seq(Messages) /\ Of("input", kept) = Of("input", pending_commands)
    <3>1. CASE pending_commands # <<>> /\ Last(pending_commands).kind = "resize"
      <4>1. PICK s \in Seq(Messages), m \in Messages : pending_commands = Append(s, m)
        BY <1>t, <3>1, SequenceEmptyOrAppend, Zenon
      <4>2. Front(pending_commands) = s /\ Last(pending_commands) = m
        BY <4>1 DEF Front, Last
      <4>3. Of("input", Append(s, m)) = Of("input", s)
        BY <3>1, <4>2, OfAppend, Zenon DEF Picked
      <4> QED BY <3>1, <4>1, <4>2, <4>3, Zenon
    <3> QED BY <1>t, <3>1, Zenon
  <2>4. pending_commands' = Append(kept, command)
    BY <1>2, Zenon DEF SubmitResize
  <2> HIDE DEF kept, command
  <2>5. Append(kept, command) \in Seq(Messages) /\ Of("input", Append(kept, command)) = Of("input", pending_commands)
    <3>1. Of("input", Append(kept, command)) = Picked("input", command, Of("input", kept))
      BY <2>1, <2>3, OfAppend, Zenon
    <3> QED BY <2>1, <2>3, <3>1, AppendProperties, Zenon DEF Picked
  <2>6. Pipe("input", InDone, pending_message, inbox, pending_commands') =
          Pipe("input", InDone, pending_message, inbox, pending_commands)
    <3>1. /\ pending_commands' \in Seq(Messages)
          /\ Of("input", pending_commands') = Of("input", pending_commands)
      BY <2>4, <2>5, Zenon
    <3> QED BY <1>t, <3>1, SameLast
  <2>7. Going' = Going
    BY <1>0, <2>6, Zenon DEF Going, InDone
  <2>8. Going \in Seq(Nat) /\ <<>> \in Seq(Nat)
    BY GoingType
  <2>9. Going' = Going \o <<>>
    BY <2>7, <2>8, ConcatEmptySeq, Zenon
  <2> QED BY <2>2, <2>8, <2>9, Zenon
<1> QED BY <1>1, <1>2, Zenon DEF Submit

(***************************************************************************)
(* Every other step keeps the inputs in the pipeline, unless the window    *)
(* gives up its handle.                                                    *)
(***************************************************************************)
LEMMA GoingStep ==
  ASSUME DataInv, PlaceInv, [Next]_vars, Looping', ~Submit, handles' = handles
  PROVE  Going' = Going
<1>t. /\ pending_message \in Seq(Messages) /\ inbox \in Seq(Messages)
      /\ pending_commands \in Seq(Messages) /\ InDone \in Seq(Nat)
  BY QueueTypes, DoneTypes, Zenon
<1>0. Looping
  BY LoopNotReentered, Zenon
<1>1. CASE WorkerStep \/ PollFails \/ DrainEffects
  BY <1>1, WorkerMoves, Zenon
<1>2. CASE UNCHANGED <<written, wpc, batch_bytes, pending_message, inbox, pending_commands>>
  BY <1>2, Zenon DEF Going, InHand
<1>3. ASSUME UNCHANGED <<written, wpc, batch_bytes, pending_message, pending_commands>>,
             NEW m \in Messages, m.kind # "input", inbox' = Append(inbox, m)
      PROVE  Going' = Going
  <2>1. InDone' = InDone
    BY <1>3, Zenon DEF InDone, InHand
  <2>2. Pipe("input", InDone, pending_message, Append(inbox, m), pending_commands) =
          Pipe("input", InDone, pending_message, inbox, pending_commands)
    BY <1>t, <1>3, AddOther
  <2> QED BY <1>3, <2>1, <2>2, Zenon DEF Going, InDone
<1>4. CASE ReaderSend
  <2>1. inbox_open /\ reading # <<>> /\ rpc = "send"
    BY <1>0, <1>4 DEF ReaderSend, PlaceInv, Looping
  <2>2. PICK m \in Messages : reading = <<m>> /\ m.kind # "input"
    <3>1. Message("output", produced) \in Messages /\ ReaderEnd \subseteq Messages
      BY DEF Message, Messages, ReaderEnd, DataInv
    <3>2. Message("output", produced).kind # "input" /\ \A m \in ReaderEnd : m.kind # "input"
      BY DEF Message, ReaderEnd
    <3> QED BY <2>1, <3>1, <3>2, Zenon DEF PlaceInv
  <2>3. inbox' = Append(inbox, m)
    BY <1>t, <1>4, <2>1, <2>2, AppendIsConcat, Zenon DEF ReaderSend
  <2>4. UNCHANGED <<written, wpc, batch_bytes, pending_message, pending_commands>>
    BY <1>4, Zenon DEF ReaderSend, worker, window
  <2> QED BY <1>3, <2>2, <2>3, <2>4, Zenon
<1>5. CASE FlushOne
  <2>1. /\ UNCHANGED <<written, wpc, batch_bytes, pending_message>> /\ pending_commands # <<>>
        /\ inbox' = Append(inbox, Head(pending_commands)) /\ pending_commands' = Tail(pending_commands)
    BY <1>5, Zenon DEF FlushOne, worker, PopFront
  <2>2. InDone' = InDone
    BY <2>1, Zenon DEF InDone, InHand
  <2>3. Pipe("input", InDone, pending_message, inbox, pending_commands) =
          Pipe("input", InDone, pending_message, Append(inbox, Head(pending_commands)), Tail(pending_commands))
    BY <1>t, <2>1, EnterInbox
  <2> QED BY <2>1, <2>2, <2>3, Zenon DEF Going, InDone
<1>6. CASE RequestClose
  <2>1. Message("close", 0) \in Messages /\ Message("close", 0).kind # "input"
    BY Zenon DEF Message, Messages
  <2>2. UNCHANGED <<written, wpc, batch_bytes, pending_message, pending_commands>>
    BY <1>6, Zenon DEF RequestClose, worker, window
  <2>3. inbox' = inbox \/ inbox' = Append(inbox, Message("close", 0))
    BY <1>6, Zenon DEF RequestClose
  <2> QED BY <1>2, <1>3, <2>1, <2>2, <2>3, Zenon
<1>7. CASE ReceiveNotice \/ Reap
  <2>1. /\ UNCHANGED <<written, wpc, batch_bytes, pending_message, inbox>>
        /\ UNCHANGED pending_commands \/ (~handles' /\ pending_commands' = <<>>)
    BY <1>7, Zenon DEF ReceiveNotice, Reap, worker, channels
  <2>2. ~handles => pending_commands = <<>>
    BY Zenon DEF DataInv
  <2> QED BY <1>2, <2>1, <2>2, Zenon
<1>8. CASE \/ Read \/ Announce \/ Poll \/ FlushEnds \/ PollDone \/ Shutdown \/ ChildExits
           \/ UNCHANGED vars
  BY <1>2, <1>8, Zenon
     DEF Read, Announce, Poll, FlushEnds, PollDone, Shutdown, ChildExits, vars,
     worker, channels, window
<1> QED
  BY <1>1, <1>4, <1>5, <1>6, <1>7, <1>8, Zenon DEF Next, ReaderStep, WindowStep

LEMMA HandlesGivenUp ==
  ASSUME DataInv, [Next]_vars, handles, ~handles'
  PROVE  Going = Then(Going', Of("input", pending_commands)) /\ UNCHANGED submitted
<1>1. ReceiveNotice \/ Reap
  BY Zenon DEF Next, ReaderStep, Read, Announce, ReaderSend, WorkerStep, WindowStep, SendReady,
     AbandonJoin, NextMessage, PollExit, Write, Report, Collect, Parse, Publish, CloseInbox,
     PublishFlushed, JoinReader, SendClosed, PollFails, Submit, Poll, FlushOne, FlushEnds,
     PollDone, RequestClose, DrainEffects, Shutdown, ChildExits, vars, window
<1>2. UNCHANGED <<written, wpc, batch_bytes, pending_message, inbox, submitted>> /\ pending_commands' = <<>>
  BY <1>1, Zenon DEF ReceiveNotice, Reap, worker, channels
<1>3. InDone' = InDone
  BY <1>2, Zenon DEF InDone, InHand
<1>4. Pipe("input", InDone, pending_message, inbox, pending_commands) =
        Then(Pipe("input", InDone, pending_message, inbox, <<>>), Of("input", pending_commands))
  BY QueueTypes, DoneTypes, AddOnly
<1> QED BY <1>2, <1>3, <1>4, Zenon DEF Going, InDone

LEMMA GivenStep ==
  ASSUME DataInv, [Next]_vars
  PROVE  Given \in Seq(Nat) /\ \E t \in Seq(Nat) : Given' = Given \o t /\ (~Submit => Given' = Given)
<1>1. Given \in Seq(Nat)
  <2>1. submitted \in Seq(Kinds)
    BY Zenon DEF DataInv, Kinds
  <2>2. Sent(submitted) \in Seq(Messages)
    BY <2>1, SentConcat, Zenon
  <2> QED BY <2>2, GivenIsSent, OfType, Zenon
<1>2. CASE Submit
  BY <1>1, <1>2, SubmitMoves, Zenon
<1>3. CASE ~Submit
  <2>1. submitted' = submitted
    BY <1>3, Zenon
       DEF Next, ReaderStep, Read, Announce, ReaderSend, WorkerStep, WindowStep, SendReady,
       AbandonJoin, NextMessage, PollExit, Write, Report, Collect, Parse, Publish, CloseInbox,
       PublishFlushed, JoinReader, SendClosed, PollFails, Poll, FlushOne, FlushEnds, ReceiveNotice,
       PollDone, RequestClose, Reap, DrainEffects, Shutdown, ChildExits, vars, window
  <2>2. Given' = Given
    BY <2>1, Zenon DEF Given
  <2>3. <<>> \in Seq(Nat) /\ Given = Given \o <<>>
    BY <1>1, ConcatEmptySeq
  <2> QED BY <1>1, <2>2, <2>3, Zenon
<1> QED BY <1>2, <1>3, Zenon

LEMMA InputStep ==
  ASSUME DataInv, PlaceInv, InputInv, [Next]_vars
  PROVE  InputInv'
<1>1. DataInv' /\ Given \in Seq(Nat)
  BY DataStep, GivenStep, Zenon
<1>2. PICK t \in Seq(Nat) : Given' = Given \o t /\ (~Submit => Given' = Given)
  BY GivenStep, Zenon
<1>3. ASSUME Looping'
      PROVE  IF handles' THEN Going' = Given' ELSE \E rest \in Seq(Nat) : Going' \o rest = Given'
  <2>0. Looping
    BY <1>3, LoopNotReentered, Zenon
  <2>h. handles \in BOOLEAN /\ handles' \in BOOLEAN
    BY <1>1, Zenon DEF DataInv, TypeOK
  <2>1. CASE handles' = handles
    <3>1. CASE Submit
      <4>1. handles /\ Going = Given
        BY <2>0, <3>1, Zenon DEF Submit, InputInv
      <4>2. PICK u \in Seq(Nat) : Given' = Given \o u /\ Going' = Going \o u
        BY <3>1, SubmitMoves, Zenon
      <4> QED BY <2>1, <4>1, <4>2, Zenon
    <3>2. CASE ~Submit
      <4>1. Going' = Going /\ Given' = Given
        BY <1>2, <1>3, <2>1, <3>2, GoingStep, Zenon
      <4>2. IF handles THEN Going = Given ELSE \E rest \in Seq(Nat) : Going \o rest = Given
        BY <2>0, Zenon DEF InputInv
      <4> QED BY <2>1, <4>1, <4>2, Zenon
    <3> QED BY <3>1, <3>2, Zenon
  <2>2. CASE handles' # handles
    <3>1. handles /\ ~handles'
      <4>1. ~handles => ~handles'
        BY Zenon
           DEF Next, ReaderStep, Read, Announce, ReaderSend, WorkerStep, WindowStep, SendReady,
           AbandonJoin, NextMessage, PollExit, Write, Report, Collect, Parse, Publish, CloseInbox,
           PublishFlushed, JoinReader, SendClosed, PollFails, Submit, Poll, FlushOne, FlushEnds,
           ReceiveNotice, PollDone, RequestClose, Reap, DrainEffects, Shutdown, ChildExits, vars, window
      <4> QED BY <2>2, <2>h, <4>1, Zenon
    <3>2. Going = Then(Going', Of("input", pending_commands)) /\ UNCHANGED submitted
      BY <3>1, HandlesGivenUp, Zenon
    <3>3. Of("input", pending_commands) \in Seq(Nat)
      BY QueueTypes, OfType, Zenon
    <3>4. Given' = Given /\ Going = Given
      BY <2>0, <3>1, <3>2, Zenon DEF Given, InputInv
    <3>5. Going' \o Of("input", pending_commands) = Given'
      BY <3>2, <3>4, Zenon DEF Then
    <3> QED BY <3>1, <3>3, <3>5, Zenon
  <2> QED BY <2>1, <2>2, Zenon
<1>4. \E rest \in Seq(Nat) : written' \o rest = Given'
  <2>1. CASE Looping'
    <3> DEFINE h == InHand({"write"})'
               q == Of("input", pending_message \o inbox \o pending_commands)'
    <3>1. h \in Seq(Nat) /\ written' \in Seq(Nat)
      BY <1>1 DEF DataInv, InHand
    <3>2. q \in Seq(Nat)
      <4>1. /\ pending_message' \in Seq(Messages) /\ inbox' \in Seq(Messages)
            /\ pending_commands' \in Seq(Messages)
        BY <1>1, Zenon DEF DataInv, TypeOK
      <4> QED BY <4>1, QueueType, OfType, Zenon
    <3>3. Going' = (written' \o h) \o q
      BY Zenon DEF Going, Pipe
    <3> HIDE DEF h, q
    <3>4. PICK rest \in Seq(Nat) : Going' \o rest = Given'
      <4>1. CASE handles'
        <5>1. Given' = Going' /\ Going' \in Seq(Nat)
          BY <1>3, <2>1, <3>1, <3>2, <3>3, <4>1, ConcatProperties, Zenon
        <5>2. <<>> \in Seq(Nat) /\ Going' \o <<>> = Going'
          BY <5>1, ConcatEmptySeq
        <5> QED BY <5>1, <5>2, Zenon
      <4>2. CASE ~handles'
        BY <1>3, <2>1, <4>2, Zenon
      <4> QED BY <4>1, <4>2, Zenon
    <3>5. (written' \o h) \o q = written' \o (h \o q) /\ h \o q \in Seq(Nat)
      BY <3>1, <3>2, Regroup, ConcatProperties, ZenonT(40)
    <3>6. (written' \o (h \o q)) \o rest = written' \o ((h \o q) \o rest)
      BY <3>1, <3>5, Regroup, ZenonT(30)
    <3>7. (h \o q) \o rest \in Seq(Nat)
      BY <3>5, ConcatProperties, Zenon
    <3> QED BY <3>3, <3>4, <3>5, <3>6, <3>7, Zenon
  <2>2. CASE ~Looping'
    <3>1. written' = written
      <4>1. CASE Write
        BY <2>2, <4>1, Zenon DEF Write, Looping, LoopPlaces
      <4>2. CASE ~Write
        BY <4>2, ZenonT(30)
           DEF Next, ReaderStep, Read, Announce, ReaderSend, WorkerStep, WindowStep, SendReady,
           AbandonJoin, NextMessage, PollExit, Report, Collect, Parse, Publish, CloseInbox,
           PublishFlushed, JoinReader, SendClosed, PollFails, Submit, Poll, FlushOne, FlushEnds,
           ReceiveNotice, PollDone, RequestClose, Reap, DrainEffects, Shutdown, ChildExits, vars, worker
      <4> QED BY <4>1, <4>2, Zenon
    <3>2. PICK rest \in Seq(Nat) : written \o rest = Given
      BY Zenon DEF InputInv
    <3>3. (written \o rest) \o t = written \o (rest \o t) /\ rest \o t \in Seq(Nat)
      BY <3>2, Regroup, ConcatProperties, ZenonT(40) DEF DataInv
    <3> QED BY <1>2, <3>1, <3>2, <3>3, ZenonT(30)
  <2> QED BY <2>1, <2>2, Zenon
<1> QED BY <1>3, <1>4, Zenon DEF InputInv

-----------------------------------------------------------------------------
LEMMA PaneInit == Init => PaneInv
<1> SUFFICES ASSUME Init PROVE PaneInv
  BY Zenon
<1>1. DataInv
  <2>1. /\ \A S : <<>> \in Seq(S)
        /\ Len(<<>>) <= 1 /\ Len(<<>>) <= InboxCap /\ Len(<<>>) <= NoticeCap
    BY PaneWorkerAssumption
  <2>2. {inbox_open, notices_open, accepting, handles, observed_exit, exited, interrupted,
         control_closed} \subseteq BOOLEAN
    BY Zenon DEF Init
  <2>3. TypeOK
    BY <2>1, <2>2, Zenon DEF Init, TypeOK
  <2> QED BY <2>1, <2>3, Zenon DEF Init, DataInv
<1>2. PlaceInv /\ EndInv /\ CompleteInv
  BY DEF Init, PlaceInv, EndInv, CompleteInv, AtEnd, NoOutput, LoopPlaces, TeardownPlaces, EndKinds
<1>3. <<>> \o <<>> = <<>> /\ <<>> \in Seq(Nat) /\ Len(<<>>) = 0
  OBVIOUS
<1>4. Upto(0) = <<>>
  BY DEF Upto
<1>5. OutputInv
  <2>1. Coming = <<>>
    BY <1>3, OfEmpty, Zenon DEF Init, Coming, Pipe, InHand
  <2> QED BY <1>3, <1>4, <2>1 DEF Init, OutputInv
<1>6. InputInv
  <2>1. Going = <<>>
    BY <1>3, OfEmpty, Zenon DEF Init, Going, Pipe, InHand
  <2>2. [i \in DOMAIN submitted |-> Message(submitted[i], i)] = <<>>
    BY DEF Init
  <2>3. Given = <<>>
    BY <2>2, OfEmpty, Zenon DEF Given
  <2> QED BY <1>3, <2>1, <2>3, Zenon DEF Init, InputInv
<1> QED BY <1>1, <1>2, <1>5, <1>6, Zenon DEF PaneInv

LEMMA PaneStep == PaneInv /\ [Next]_vars => PaneInv'
<1> SUFFICES ASSUME PaneInv, [Next]_vars PROVE PaneInv'
  BY Zenon
<1>1. DataInv /\ PlaceInv /\ EndInv /\ CompleteInv /\ OutputInv /\ InputInv
  BY Zenon DEF PaneInv
<1>2. DataInv' /\ PlaceInv' /\ EndInv' /\ CompleteInv'
  BY <1>1, DataStep, PlaceStep, EndStep, CompleteStep, Zenon
<1>3. OutputInv' /\ InputInv'
  BY <1>1, OutputStep, InputStep, Zenon
<1> QED BY <1>2, <1>3, Zenon DEF PaneInv

LEMMA PaneInvariant == Spec => []PaneInv
BY PaneInit, PaneStep, PTL DEF Spec

LEMMA IsPrefixOf ==
  ASSUME NEW s \in Seq(Nat), NEW r \in Seq(Nat), NEW t, t = s \o r
  PROVE  IsPrefix(s, t)
<1>1. Len(s) \in Nat /\ Len(r) \in Nat /\ Len(t) = Len(s) + Len(r) /\ t \in Seq(Nat)
  BY LenProperties, ConcatProperties, Zenon
<1>2. \A i \in 1..Len(s) : t[i] = s[i]
  BY <1>1, ConcatProperties
<1>3. SubSeq(s, 1, Len(s)) = SubSeq(t, 1, Len(s))
  BY <1>1, <1>2
<1> QED BY <1>1, <1>3 DEF IsPrefix

LEMMA UptoPrefix ==
  ASSUME NEW n \in Nat, NEW m \in Nat, m <= n
  PROVE  IsPrefix(Upto(m), Upto(n))
<1>1. /\ Upto(m) \in Seq(Nat) /\ Len(Upto(m)) = m /\ Upto(n) \in Seq(Nat) /\ Len(Upto(n)) = n
      /\ \A i \in 1..m : Upto(m)[i] = Upto(n)[i]
  BY DEF Upto
<1>2. SubSeq(Upto(m), 1, m) = SubSeq(Upto(n), 1, m)
  BY <1>1
<1> QED BY <1>1, <1>2, Zenon DEF IsPrefix

(***************************************************************************)
(* run_reader, collect_output_batch, next_worker_message: for every        *)
(* capacity of the mailboxes and any number of chunks and commands, output *)
(* is parsed in the order it was read, and none is lost while the worker   *)
(* is in its loop.                                                         *)
(***************************************************************************)
THEOREM OutputNeverReordered == Spec => []OutputInOrder
<1>1. PaneInv => OutputInOrder
  <2> SUFFICES ASSUME PaneInv PROVE OutputInOrder
    BY Zenon
  <2>1. TypeOK /\ produced \in Nat /\ parsed \in Seq(Nat) /\ Len(parsed) \in Nat
    BY LenProperties, Zenon DEF PaneInv, DataInv
  <2>2. IsPrefix(parsed, Upto(produced))
    BY <2>1, UptoPrefix, Zenon DEF PaneInv, OutputInv
  <2>3. ASSUME left = "no", wpc # "gone"
        PROVE  Coming = Upto(produced) \/ (~notices_open /\ rpc = "gone" /\ IsPrefix(Coming, Upto(produced)))
    <3>1. Looping
      BY <2>1, <2>3, Zenon DEF PaneInv, PlaceInv, TypeOK, Looping, LoopPlaces, TeardownPlaces
    <3>2. CASE Coming = <<>>
      <4>1. Upto(0) = <<>>
        BY DEF Upto
      <4>2. IsPrefix(<<>>, Upto(produced))
        BY <2>1, <4>1, UptoPrefix
      <4> QED BY <3>1, <3>2, <4>2, Zenon DEF PaneInv, OutputInv
    <3> QED BY <3>1, <3>2, Zenon DEF PaneInv, OutputInv
  <2> QED BY <2>1, <2>2, <2>3, Zenon DEF OutputInOrder, Coming, Pipe, Upto
<1> QED BY <1>1, PaneInvariant, PTL

(***************************************************************************)
(* "Keep consuming until ReaderEof/ReaderError arrives": a worker that     *)
(* leaves its loop at the end of the stream has parsed everything the      *)
(* transport delivered, for every capacity and any number of chunks.       *)
(***************************************************************************)
THEOREM OutputParsedToTheEnd == Spec => []OutputComplete
<1>1. PaneInv => OutputComplete
  BY Zenon DEF PaneInv, CompleteInv, OutputComplete, EndKinds, Upto
<1> QED BY <1>1, PaneInvariant, PTL

(***************************************************************************)
(* "Interactive key input is never silently dropped": for every capacity   *)
(* of the inbox and any number of commands, inputs are written in the      *)
(* order of submission, and none is lost while the pane runs               *)
(* (submit_input, flush, run_worker).                                      *)
(***************************************************************************)
THEOREM InputNeverReordered == Spec => []InputInOrder
<1>1. PaneInv => InputInOrder
  <2> SUFFICES ASSUME PaneInv PROVE InputInOrder
    BY Zenon
  <2>1. TypeOK /\ written \in Seq(Nat)
    BY Zenon DEF PaneInv, DataInv
  <2>2. IsPrefix(written, Given)
    <3>1. PICK rest \in Seq(Nat) : written \o rest = Given
      BY Zenon DEF PaneInv, InputInv
    <3> QED BY <2>1, <3>1, IsPrefixOf, Zenon
  <2>3. ASSUME left = "no", wpc # "gone", handles PROVE Going = Given
    <3>1. Looping
      BY <2>1, <2>3, Zenon DEF PaneInv, PlaceInv, TypeOK, Looping, LoopPlaces, TeardownPlaces
    <3> QED BY <2>3, <3>1, Zenon DEF PaneInv, InputInv
  <2> QED BY <2>2, <2>3, Zenon DEF InputInOrder, Going, Given, Pipe
<1> QED BY <1>1, PaneInvariant, PTL

=============================================================================
