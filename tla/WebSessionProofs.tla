-------------------------- MODULE WebSessionProofs --------------------------
(***************************************************************************)
(* ExitIsComplete of WebSession proved for every capacity of the queues,   *)
(* every amount of output and every number of messages.                    *)
(***************************************************************************)
EXTENDS WebSession, FiniteSetTheorems, TLAPS

(***************************************************************************)
(* What was sent and what waits to be sent, and a sequence of events whose *)
(* outputs are numbered from 1 on and whose Exit comes behind all of them  *)
(* or behind the reader's failure.                                         *)
(***************************************************************************)
OnTheWay == shown \o events

ReadFailed == Error("read_failed")

Numbered(s) == \A i \in 1..Len(s) : s[i].kind = "output" => s[i] = Output(Outputs(s, i))

ExitBehind(s, dead, total) ==
  \A i \in 1..Len(s) : s[i] = Exit =>
    dead /\ (Outputs(s, i) = total \/ \E j \in 1..i : s[j] = ReadFailed)

(***************************************************************************)
(* Before the session there is nothing; the reader's and the supervisor's  *)
(* places say how far the output and the child have come.                  *)
(***************************************************************************)
NotOpened ==
  socket = "opening" =>
    /\ shown = <<>> /\ events = <<>> /\ taken = 0 /\ produced = 0
    /\ reader = "none" /\ writer = "none" /\ supervisor = "none"
    /\ child = "none" /\ ~exit_status

ReaderPlace ==
  /\ reader = "send" => taken > 0
  /\ reader_done => reader = "gone"
  /\ socket = "open" /\ reader \in {"done", "gone"} =>
       (child = "gone" /\ taken = produced) \/ Contains(OnTheWay, ReadFailed)

SupervisorPlace ==
  /\ supervisor = "report" => reader_done
  /\ exit_status => child = "gone"

Held(place) == IF place = "send" THEN 1 ELSE 0

(***************************************************************************)
(* While the socket is open every chunk taken is on the way or in the      *)
(* reader's hand.  Once it is closed no more than what was taken was       *)
(* shown.                                                                  *)
(***************************************************************************)
WayKept ==
  /\ socket = "open" =>
       /\ Numbered(OnTheWay)
       /\ ExitBehind(OnTheWay, child = "gone", produced)
       /\ Outputs(OnTheWay, Len(OnTheWay)) + Held(reader) = taken
  /\ Numbered(shown) /\ ExitBehind(shown, child = "gone", produced)
  /\ Outputs(shown, Len(shown)) <= taken
  /\ socket # "open" => events = <<>>

DeliveryInv == TypeOK /\ NotOpened /\ ReaderPlace /\ SupervisorPlace /\ WayKept

-----------------------------------------------------------------------------
(***************************************************************************)
(* Counting the outputs among the first n events.                          *)
(***************************************************************************)
LEMMA OutputsCount ==
  ASSUME NEW s, NEW n \in Nat
  PROVE  /\ IsFiniteSet({i \in 1..n : s[i].kind = "output"})
         /\ Outputs(s, n) \in Nat
<1> DEFINE S == {i \in 1..n : s[i].kind = "output"}
<1>1. IsFiniteSet(1..n)
  BY FS_Interval
<1>2. IsFiniteSet(S)
  BY <1>1, FS_Subset, Zenon
<1> QED BY <1>2, FS_CardinalityType, Zenon DEF Outputs

LEMMA CountOf ==
  ASSUME NEW s \in Seq(Events)
  PROVE  Len(s) \in Nat /\ Outputs(s, Len(s)) \in Nat
<1>1. Len(s) \in Nat
  OBVIOUS
<1> QED BY <1>1, OutputsCount, Zenon

LEMMA OutputsNext ==
  ASSUME NEW s, NEW n \in Nat
  PROVE  Outputs(s, n + 1) = Outputs(s, n) + (IF s[n + 1].kind = "output" THEN 1 ELSE 0)
<1> DEFINE S == {i \in 1..n : s[i].kind = "output"}
           T == {i \in 1..(n + 1) : s[i].kind = "output"}
<1>1. IsFiniteSet(S) /\ Cardinality(S) \in Nat
  BY OutputsCount, Zenon DEF Outputs
<1>2. CASE s[n + 1].kind = "output"
  <2>1. T = S \cup {n + 1} /\ n + 1 \notin S
    BY <1>2
  <2>2. Cardinality(T) = Cardinality(S) + 1
    BY <1>1, <2>1, FS_AddElement, Zenon
  <2> QED BY <1>2, <2>2, Zenon DEF Outputs
<1>3. CASE s[n + 1].kind # "output"
  <2>1. T = S
    BY <1>3
  <2> QED BY <1>1, <1>3, <2>1 DEF Outputs
<1> QED BY <1>2, <1>3, Zenon

LEMMA OutputsGrow ==
  ASSUME NEW s, NEW m \in Nat, NEW n \in Nat, m <= n
  PROVE  Outputs(s, m) <= Outputs(s, n)
<1> DEFINE S == {i \in 1..m : s[i].kind = "output"}
           T == {i \in 1..n : s[i].kind = "output"}
<1>1. S \subseteq T
  OBVIOUS
<1>2. IsFiniteSet(T)
  BY OutputsCount, Zenon
<1> QED BY <1>1, <1>2, FS_Subset, Zenon DEF Outputs

LEMMA OutputsAgree ==
  ASSUME NEW s, NEW t, NEW n \in Nat, \A i \in 1..n : s[i] = t[i]
  PROVE  Outputs(s, n) = Outputs(t, n)
<1>1. {i \in 1..n : s[i].kind = "output"} = {i \in 1..n : t[i].kind = "output"}
  BY Zenon
<1> QED BY <1>1, Zenon DEF Outputs

LEMMA OutputsOfEmpty == \A s : Outputs(s, 0) = 0
<1>1. \A s : {i \in 1..0 : s[i].kind = "output"} = {}
  OBVIOUS
<1> QED BY <1>1, FS_EmptySet, Zenon DEF Outputs

(***************************************************************************)
(* A prefix is as good as the whole.                                       *)
(***************************************************************************)
Begins(s, t) == Len(s) <= Len(t) /\ \A i \in 1..Len(s) : s[i] = t[i]

LEMMA PrefixCount ==
  ASSUME NEW s \in Seq(Events), NEW t \in Seq(Events), Begins(s, t)
  PROVE  /\ Outputs(s, Len(s)) <= Outputs(t, Len(t))
         /\ \A i \in 1..Len(s) : Outputs(s, i) = Outputs(t, i)
<1>1. Len(s) \in Nat /\ Len(t) \in Nat /\ Len(s) <= Len(t) /\ \A i \in 1..Len(s) : s[i] = t[i]
  BY DEF Begins
<1>2. ASSUME NEW i \in 0..Len(s) PROVE Outputs(s, i) = Outputs(t, i)
  <2>1. i \in Nat /\ \A j \in 1..i : s[j] = t[j]
    BY <1>1
  <2> QED BY <2>1, OutputsAgree, Zenon
<1>3. Outputs(s, Len(s)) = Outputs(t, Len(s))
  BY <1>1, <1>2
<1> QED BY <1>1, <1>2, <1>3, OutputsGrow

LEMMA PrefixNumbered ==
  ASSUME NEW s \in Seq(Events), NEW t \in Seq(Events), Begins(s, t), Numbered(t)
  PROVE  Numbered(s)
<1>1. ASSUME NEW i \in 1..Len(s), s[i].kind = "output" PROVE s[i] = Output(Outputs(s, i))
  <2>1. i \in 1..Len(t) /\ s[i] = t[i]
    BY DEF Begins
  <2>2. Outputs(s, i) = Outputs(t, i)
    BY PrefixCount, Zenon
  <2> QED BY <1>1, <2>1, <2>2, Zenon DEF Numbered
<1> QED BY <1>1, Zenon DEF Numbered

LEMMA PrefixBehind ==
  ASSUME NEW s \in Seq(Events), NEW t \in Seq(Events), Begins(s, t),
         NEW dead, NEW total, ExitBehind(t, dead, total)
  PROVE  ExitBehind(s, dead, total)
<1>1. ASSUME NEW i \in 1..Len(s), s[i] = Exit
      PROVE  dead /\ (Outputs(s, i) = total \/ \E j \in 1..i : s[j] = ReadFailed)
  <2>1. i \in 1..Len(t) /\ \A j \in 1..i : s[j] = t[j]
    BY DEF Begins
  <2>2. Outputs(s, i) = Outputs(t, i)
    BY PrefixCount, Zenon
  <2>3. t[i] = Exit
    BY <1>1, <2>1
  <2>4. dead /\ (Outputs(t, i) = total \/ \E j \in 1..i : t[j] = ReadFailed)
    BY <2>1, <2>3, Zenon DEF ExitBehind
  <2> QED BY <2>1, <2>2, <2>4, Zenon
<1> QED BY <1>1, Zenon DEF ExitBehind

(***************************************************************************)
(* One more event behind the others.                                       *)
(***************************************************************************)
LEMMA AppendCount ==
  ASSUME NEW s \in Seq(Events), NEW e \in Events
  PROVE  /\ Begins(s, Append(s, e))
         /\ Outputs(Append(s, e), Len(s) + 1)
              = Outputs(s, Len(s)) + (IF e.kind = "output" THEN 1 ELSE 0)
         /\ Outputs(Append(s, e), Len(Append(s, e)))
              = Outputs(s, Len(s)) + (IF e.kind = "output" THEN 1 ELSE 0)
<1> DEFINE t == Append(s, e)
<1>1. /\ Len(s) \in Nat /\ Len(t) = Len(s) + 1 /\ t[Len(s) + 1] = e
      /\ \A i \in 1..Len(s) : s[i] = t[i]
  OBVIOUS
<1> HIDE DEF t
<1>2. Outputs(s, Len(s)) = Outputs(t, Len(s))
  BY <1>1, OutputsAgree, Zenon
<1>3. Outputs(t, Len(s) + 1) = Outputs(t, Len(s)) + (IF t[Len(s) + 1].kind = "output" THEN 1 ELSE 0)
  BY <1>1, OutputsNext, Zenon
<1>4. Begins(s, t)
  BY <1>1 DEF Begins
<1> QED BY <1>1, <1>2, <1>3, <1>4, Zenon DEF t

LEMMA AppendNumbered ==
  ASSUME NEW s \in Seq(Events), NEW e \in Events, Numbered(s),
         e.kind = "output" => e = Output(Outputs(s, Len(s)) + 1)
  PROVE  Numbered(Append(s, e))
<1> DEFINE t == Append(s, e)
<1>0. t \in Seq(Events) /\ Begins(s, t)
      /\ Outputs(t, Len(s) + 1) = Outputs(s, Len(s)) + (IF e.kind = "output" THEN 1 ELSE 0)
  BY AppendCount
<1>1. Len(s) \in Nat /\ Len(t) = Len(s) + 1 /\ t[Len(s) + 1] = e
  OBVIOUS
<1> HIDE DEF t
<1>2. ASSUME NEW i \in 1..Len(t), t[i].kind = "output" PROVE t[i] = Output(Outputs(t, i))
  <2>1. CASE i \in 1..Len(s)
    <3>1. s[i] = t[i] /\ Outputs(s, i) = Outputs(t, i)
      BY <1>0, <2>1, PrefixCount, Zenon DEF Begins
    <3> QED BY <1>2, <2>1, <3>1, Zenon DEF Numbered
  <2>2. CASE i = Len(s) + 1
    <3>1. e.kind = "output"
      BY <1>1, <1>2, <2>2, Zenon
    <3>2. Outputs(t, i) = Outputs(s, Len(s)) + 1
      BY <1>0, <2>2, <3>1, Zenon
    <3> QED BY <1>1, <2>2, <3>1, <3>2, Zenon
  <2> QED BY <1>1, <2>1, <2>2
<1>3. Numbered(t)
  BY <1>2, Zenon DEF Numbered
<1> QED BY <1>3, Zenon DEF t

LEMMA AppendBehind ==
  ASSUME NEW s \in Seq(Events), NEW e \in Events, NEW dead, NEW total,
         ExitBehind(s, dead, total),
         e = Exit => dead /\ (Outputs(s, Len(s)) = total \/ Contains(s, ReadFailed))
  PROVE  ExitBehind(Append(s, e), dead, total)
<1> DEFINE t == Append(s, e)
<1>0. t \in Seq(Events) /\ Begins(s, t)
      /\ Outputs(t, Len(s) + 1) = Outputs(s, Len(s)) + (IF e.kind = "output" THEN 1 ELSE 0)
  BY AppendCount
<1>1. /\ Len(s) \in Nat /\ Len(t) = Len(s) + 1 /\ t[Len(s) + 1] = e
      /\ \A i \in 1..Len(s) : s[i] = t[i]
  OBVIOUS
<1>2. Outputs(s, Len(s)) \in Nat
  BY <1>1, OutputsCount, Zenon
<1> HIDE DEF t
<1>3. ASSUME NEW i \in 1..Len(t), t[i] = Exit
      PROVE  dead /\ (Outputs(t, i) = total \/ \E j \in 1..i : t[j] = ReadFailed)
  <2>1. CASE i \in 1..Len(s)
    <3>1. s[i] = Exit /\ Outputs(s, i) = Outputs(t, i) /\ \A j \in 1..i : s[j] = t[j]
      BY <1>0, <1>1, <1>3, <2>1, PrefixCount
    <3>2. dead /\ (Outputs(s, i) = total \/ \E j \in 1..i : s[j] = ReadFailed)
      BY <2>1, <3>1, Zenon DEF ExitBehind
    <3> QED BY <3>1, <3>2, Zenon
  <2>2. CASE i = Len(s) + 1
    <3>1. e = Exit /\ e.kind # "output"
      BY <1>1, <1>3, <2>2 DEF Exit
    <3>2. Outputs(t, i) = Outputs(s, Len(s))
      BY <1>0, <1>2, <2>2, <3>1
    <3>3. Contains(s, ReadFailed) => \E j \in 1..i : t[j] = ReadFailed
      BY <1>1, <2>2 DEF Contains
    <3> QED BY <3>1, <3>2, <3>3, Zenon
  <2> QED BY <1>1, <2>1, <2>2
<1>4. ExitBehind(t, dead, total)
  BY <1>3, Zenon DEF ExitBehind
<1> QED BY <1>4, Zenon DEF t

LEMMA EmptyGood ==
  /\ Numbered(<<>>) /\ Outputs(<<>>, Len(<<>>)) = 0
  /\ \A dead, total : ExitBehind(<<>>, dead, total)
<1>1. Len(<<>>) = 0 /\ 1..0 = {}
  OBVIOUS
<1> QED BY <1>1, OutputsOfEmpty, Zenon DEF Numbered, ExitBehind

-----------------------------------------------------------------------------
(***************************************************************************)
(* The types of the queues.                                                *)
(***************************************************************************)
Controls == {"resize", "close", "reader_failed", "writer_failed"}

Errors == {"read_failed", "write_failed", "status_failed", "resize_failed",
           "drain_timeout", "exit_unknown"}

LEMMA EventTypes ==
  /\ Exit \in Events /\ \A code \in Errors : Error(code) \in Events
  /\ \A n \in 1..MaxOutput : Output(n) \in Events
BY Zenon DEF Events, Errors

LEMMA SendTypes ==
  ASSUME TypeOK, NEW e \in Events, Send(e)
  PROVE  events' \in Seq(Events) /\ Len(events') <= EventsCap
<1>1. events \in Seq(Events) /\ Len(events) <= EventsCap /\ EventsCap \in Nat
  BY WebSessionAssumption, Zenon DEF TypeOK
<1>2. CASE Len(events) < EventsCap /\ events' = Append(events, e)
  BY <1>1, <1>2
<1>3. CASE events' = events
  BY <1>1, <1>3, Zenon
<1> QED BY <1>2, <1>3, Zenon DEF Send

LEMMA EventsTypes ==
  ASSUME DeliveryInv, [Next]_vars
  PROVE  events' \in Seq(Events) /\ Len(events') <= EventsCap
<1>0. /\ TypeOK /\ events \in Seq(Events) /\ Len(events) <= EventsCap
      /\ EventsCap \in Nat \ {0} /\ MaxOutput \in Nat
      /\ produced \in 0..MaxOutput /\ taken \in 0..produced
      /\ reader = "send" => taken > 0
  BY WebSessionAssumption, Zenon DEF DeliveryInv, TypeOK, ReaderPlace
<1>1. CASE SendOutput
  <2>1. taken \in 1..MaxOutput
    BY <1>0, <1>1 DEF SendOutput
  <2> QED BY <1>0, <1>1, <2>1, EventTypes, SendTypes, Zenon DEF SendOutput
<1>2. CASE ReportReadFailed \/ ReportWriteFailed \/ ReportSupervised
  <2>1. \E code \in Errors : Send(Error(code))
    BY <1>2, Zenon DEF ReportReadFailed, ReportWriteFailed, ReportSupervised, Errors
  <2> QED BY <1>0, <2>1, EventTypes, SendTypes, Zenon
<1>3. CASE Report
  <2>1. Verdict \in Events
    BY EventTypes, Zenon DEF Verdict, Errors
  <2> QED BY <1>0, <1>3, <2>1, SendTypes, Zenon DEF Report
<1>4. CASE events' = <<>>
  BY <1>0, <1>4
<1>5. CASE events # <<>> /\ events' = Tail(events)
  BY <1>0, <1>5
<1>6. CASE events' = events
  BY <1>0, <1>6, Zenon
<1>7. CASE HandleEvent \/ EventsEnd \/ ClientMessage \/ Disconnect
  BY <1>4, <1>5, <1>6, <1>7, Zenon DEF HandleEvent, EventsEnd, ClientMessage, ClientInput,
     ClientResize, ClientClose, Disconnect, Leave
<1> QED
  BY <1>1, <1>2, <1>3, <1>6, <1>7, Zenon DEF Next, ReaderStep, WriterStep, SupervisorStep,
     SocketStep, Environment, Read, ReadEnd, ReaderDone, ReadFails, CheckStop, ReceiveInput,
     Write, WriteFails, Supervise, StatusFails, ReceiveControl, Terminate, StopWriter,
     CloseMaster, Drain, DrainTimeout, Open, ChildWrites, ChildExits, KilledDies, vars, queues

LEMMA TryControlTypes ==
  ASSUME TypeOK, NEW message \in Controls, TryControl(message)
  PROVE  control' \in Seq(Controls) /\ Len(control') <= ControlCap
<1>1. control \in Seq(Controls) /\ Len(control) <= ControlCap /\ ControlCap \in Nat
  BY WebSessionAssumption, Zenon DEF TypeOK, Controls
<1>2. CASE Len(control) < ControlCap /\ control' = Append(control, message)
  BY <1>1, <1>2
<1>3. CASE control' = control
  BY <1>1, <1>3, Zenon
<1> QED BY <1>2, <1>3, Zenon DEF TryControl

LEMMA ControlTypes ==
  ASSUME TypeOK, [Next]_vars
  PROVE  control' \in Seq(Controls) /\ Len(control') <= ControlCap
<1>0. control \in Seq(Controls) /\ Len(control) <= ControlCap /\ ControlCap \in Nat
  BY WebSessionAssumption, Zenon DEF TypeOK, Controls
<1>1. CASE \E message \in Controls : TryControl(message)
  BY <1>1, TryControlTypes, Zenon
<1>2. CASE control' = <<>>
  BY <1>0, <1>2
<1>3. CASE control # <<>> /\ control' = Tail(control)
  BY <1>0, <1>3
<1>4. CASE control' = control
  BY <1>0, <1>4, Zenon
<1>5. CASE ReportReadFailed \/ ReportWriteFailed
  BY <1>1, <1>5, Zenon DEF ReportReadFailed, ReportWriteFailed, Controls
<1>6. CASE HandleEvent \/ EventsEnd \/ ClientMessage \/ Disconnect
  BY <1>1, <1>4, <1>6, Zenon DEF HandleEvent, EventsEnd, ClientMessage, ClientInput,
     ClientResize, ClientClose, Disconnect, Leave, Stay, RequestClose, Controls
<1>7. CASE ReceiveControl
  BY <1>3, <1>4, <1>7, Zenon DEF ReceiveControl
<1>8. CASE Report
  BY <1>2, <1>8, Zenon DEF Report
<1> QED
  BY <1>4, <1>5, <1>6, <1>7, <1>8, Zenon DEF Next, ReaderStep, WriterStep, SupervisorStep,
     SocketStep, Environment, Read, SendOutput, ReadEnd, ReaderDone, ReadFails, CheckStop,
     ReceiveInput, Write, WriteFails, Supervise, StatusFails, ReportSupervised, Terminate,
     StopWriter, CloseMaster, Drain, DrainTimeout, Open, ChildWrites, ChildExits, KilledDies,
     vars, queues

LEMMA ShownTypes ==
  ASSUME TypeOK, [Next]_vars
  PROVE  shown' \in Seq(Events)
<1>0. shown \in Seq(Events) /\ events \in Seq(Events)
  BY Zenon DEF TypeOK
<1>1. CASE events # <<>> /\ shown' = Append(shown, Head(events))
  <2>1. Head(events) \in Events
    BY <1>0, <1>1
  <2> QED BY <1>0, <1>1, <2>1
<1>2. CASE shown' = shown
  BY <1>0, <1>2, Zenon
<1> QED
  BY <1>1, <1>2, Zenon DEF Next, ReaderStep, WriterStep, SupervisorStep,
     SocketStep, Environment, Read, SendOutput, ReadEnd, ReportReadFailed, ReaderDone,
     ReadFails, CheckStop, ReceiveInput, Write, WriteFails, ReportWriteFailed, Supervise,
     StatusFails, ReportSupervised, ReceiveControl, Terminate, StopWriter, CloseMaster, Drain,
     DrainTimeout, Report, HandleEvent, EventsEnd, ClientMessage, Disconnect, Open,
     ChildWrites, ChildExits, KilledDies, vars, client

(***************************************************************************)
(* The numbers.                                                            *)
(***************************************************************************)
LEMMA NumbersStep ==
  ASSUME TypeOK, [Next]_vars
  PROVE  /\ input' \in 0..InputCap
         /\ messages' \in 0..MaxMessages
         /\ produced' \in 0..MaxOutput /\ taken' \in 0..produced'
<1>0. /\ InputCap \in Nat \ {0} /\ MaxMessages \in Nat /\ MaxOutput \in Nat
      /\ input \in 0..InputCap /\ messages \in 0..MaxMessages
      /\ produced \in 0..MaxOutput /\ taken \in 0..produced
  BY WebSessionAssumption, Zenon DEF TypeOK
<1>1. \/ input' = input \/ input' = 0
      \/ input > 0 /\ input' = input - 1
      \/ input < InputCap /\ input' = input + 1
  BY ZenonT(30) DEF Next, ReaderStep, WriterStep, SupervisorStep, SocketStep, Environment, Read,
     SendOutput, ReadEnd, ReportReadFailed, ReaderDone, ReadFails, CheckStop, ReceiveInput,
     Write, WriteFails, ReportWriteFailed, Supervise, StatusFails, ReportSupervised,
     ReceiveControl, Terminate, StopWriter, CloseMaster, Drain, DrainTimeout, Report,
     HandleEvent, EventsEnd, ClientMessage, ClientInput, Disconnect, Open, ChildWrites,
     ChildExits, KilledDies, vars, queues
<1>2. messages' = messages \/ (messages < MaxMessages /\ messages' = messages + 1)
  BY ZenonT(30) DEF Next, ReaderStep, WriterStep, SupervisorStep, SocketStep, Environment, Read,
     SendOutput, ReadEnd, ReportReadFailed, ReaderDone, ReadFails, CheckStop, ReceiveInput,
     Write, WriteFails, ReportWriteFailed, Supervise, StatusFails, ReportSupervised,
     ReceiveControl, Terminate, StopWriter, CloseMaster, Drain, DrainTimeout, Report,
     HandleEvent, EventsEnd, ClientMessage, Disconnect, Open, ChildWrites,
     ChildExits, KilledDies, vars, client
<1>3. \/ produced' = produced /\ taken' = taken
      \/ produced' = produced /\ taken < produced /\ taken' = taken + 1
      \/ produced < MaxOutput /\ produced' = produced + 1 /\ taken' = taken
  BY Zenon DEF Next, ReaderStep, WriterStep, SupervisorStep, SocketStep, Environment, Read,
     SendOutput, ReadEnd, ReportReadFailed, ReaderDone, ReadFails, CheckStop, ReceiveInput,
     Write, WriteFails, ReportWriteFailed, Supervise, StatusFails, ReportSupervised,
     ReceiveControl, Terminate, StopWriter, CloseMaster, Drain, DrainTimeout, Report,
     HandleEvent, EventsEnd, ClientMessage, Disconnect, Open, ChildWrites,
     ChildExits, KilledDies, vars, readers, process
<1> QED BY <1>0, <1>1, <1>2, <1>3

(***************************************************************************)
(* The flags and the places of the threads.                                *)
(***************************************************************************)
LEMMA FlagsStep ==
  ASSUME TypeOK, [Next]_vars
  PROVE  {closing, close_requested, writer_stop, exit_status, reader_done,
          master_closed}' \subseteq BOOLEAN
<1>0. /\ closing \in BOOLEAN /\ close_requested \in BOOLEAN /\ writer_stop \in BOOLEAN
      /\ exit_status \in BOOLEAN /\ reader_done \in BOOLEAN /\ master_closed \in BOOLEAN
  BY Zenon DEF TypeOK
<1>1. /\ closing' = closing \/ closing' = TRUE
      /\ close_requested' = close_requested \/ close_requested' = TRUE
      /\ writer_stop' = writer_stop \/ writer_stop' = TRUE
  BY ZenonT(30) DEF Next, ReaderStep, WriterStep, SupervisorStep, SocketStep, Environment, Read,
     SendOutput, ReadEnd, ReportReadFailed, ReaderDone, ReadFails, CheckStop, ReceiveInput,
     Write, WriteFails, ReportWriteFailed, Supervise, StatusFails, ReportSupervised,
     ReceiveControl, Terminate, StopWriter, CloseMaster, Drain, DrainTimeout, Report,
     HandleEvent, EventsEnd, ClientMessage, ClientInput, ClientResize, ClientClose,
     Disconnect, Leave, Stay, RequestClose, Open, ChildWrites, ChildExits, KilledDies,
     vars, client, flags
<1>2. /\ exit_status' = exit_status \/ exit_status' = TRUE \/ exit_status' = FALSE
      /\ reader_done' = reader_done \/ reader_done' = TRUE
      /\ master_closed' = master_closed \/ master_closed' = TRUE
  BY Zenon DEF Next, ReaderStep, WriterStep, SupervisorStep, SocketStep, Environment, Read,
     SendOutput, ReadEnd, ReportReadFailed, ReaderDone, ReadFails, CheckStop, ReceiveInput,
     Write, WriteFails, ReportWriteFailed, Supervise, StatusFails, ReportSupervised,
     ReceiveControl, Terminate, StopWriter, CloseMaster, Drain, DrainTimeout, Report,
     HandleEvent, EventsEnd, ClientMessage, Disconnect, Open, ChildWrites, ChildExits,
     KilledDies, vars, readers, supervision
<1>3. /\ closing' \in BOOLEAN /\ close_requested' \in BOOLEAN /\ writer_stop' \in BOOLEAN
      /\ exit_status' \in BOOLEAN /\ reader_done' \in BOOLEAN /\ master_closed' \in BOOLEAN
  BY <1>0, <1>1, <1>2, Zenon
<1> QED BY <1>3, Zenon

LEMMA PlacesStep ==
  ASSUME TypeOK, [Next]_vars
  PROVE  /\ socket' \in {"opening", "open", "closed"}
         /\ reader' \in {"none", "read", "send", "failed", "done", "gone"}
         /\ writer' \in {"none", "check", "receive", "write", "failed", "gone"}
         /\ supervisor' \in {"none", "loop", "control", "status_failed", "resize_failed",
                             "terminate", "close", "close_master", "drain", "report",
                             "drain_failed", "gone"}
         /\ child' \in {"none", "running", "killed", "gone"}
<1>0. /\ socket \in {"opening", "open", "closed"}
      /\ reader \in {"none", "read", "send", "failed", "done", "gone"}
      /\ writer \in {"none", "check", "receive", "write", "failed", "gone"}
      /\ supervisor \in {"none", "loop", "control", "status_failed", "resize_failed",
                         "terminate", "close", "close_master", "drain", "report",
                         "drain_failed", "gone"}
      /\ child \in {"none", "running", "killed", "gone"}
  BY Zenon DEF TypeOK
<1>1. CASE ReaderStep \/ ReadFails
  BY <1>0, <1>1, Zenon DEF ReaderStep, Read, SendOutput, ReadEnd, ReportReadFailed, ReaderDone,
     ReadFails, client, supervision, process
<1>2. CASE WriterStep \/ Write \/ WriteFails
  BY <1>0, <1>2, Zenon DEF WriterStep, CheckStop, ReceiveInput, Write, WriteFails,
     ReportWriteFailed, client, readers, supervision, process
<1>3. CASE SupervisorStep \/ StatusFails
  BY <1>0, <1>3, Zenon DEF SupervisorStep, Supervise, StatusFails, ReportSupervised,
     ReceiveControl, Terminate, StopWriter, CloseMaster, Drain, DrainTimeout, Report,
     client, readers, process
<1>4. CASE SocketStep \/ Open \/ ClientMessage \/ Disconnect
  BY <1>0, <1>4, Zenon DEF SocketStep, HandleEvent, EventsEnd, Open, ClientMessage, ClientInput,
     ClientResize, ClientClose, Disconnect, Leave, Stay, readers, supervision, process
<1>5. CASE ChildWrites \/ ChildExits \/ KilledDies \/ UNCHANGED vars
  BY <1>0, <1>5, Zenon DEF ChildWrites, ChildExits, KilledDies, vars, client, readers,
     supervision, process
<1> QED BY <1>1, <1>2, <1>3, <1>4, <1>5, Zenon DEF Next, Environment

LEMMA TypesStep ==
  ASSUME DeliveryInv, [Next]_vars
  PROVE  TypeOK'
<1>1. TypeOK
  BY Zenon DEF DeliveryInv
<1>2. /\ control' \in Seq({"resize", "close", "reader_failed", "writer_failed"})
      /\ Len(control') <= ControlCap
  BY <1>1, ControlTypes, Zenon DEF Controls
<1>3. events' \in Seq(Events') /\ shown' \in Seq(Events') /\ Len(events') <= EventsCap
  <2>1. Events' = Events
    BY Zenon DEF Events
  <2> QED BY <1>1, <2>1, EventsTypes, ShownTypes, Zenon
<1> QED BY <1>1, <1>2, <1>3, NumbersStep, FlagsStep, PlacesStep, Zenon DEF TypeOK

-----------------------------------------------------------------------------
(***************************************************************************)
(* How the events move: one more behind the others, the first to the       *)
(* client, or all that wait dropped when the task returns.                 *)
(***************************************************************************)
LEMMA WayType ==
  ASSUME TypeOK
  PROVE  /\ OnTheWay \in Seq(Events) /\ Begins(shown, OnTheWay)
         /\ shown \in Seq(Events) /\ events \in Seq(Events)
<1>1. shown \in Seq(Events) /\ events \in Seq(Events)
  BY Zenon DEF TypeOK
<1>2. shown \o events \in Seq(Events)
  BY <1>1
<1>3. Begins(shown, shown \o events)
  BY <1>1 DEF Begins
<1> QED BY <1>1, <1>2, <1>3, Zenon DEF OnTheWay

LEMMA WayGrows ==
  ASSUME TypeOK, NEW e \in Events, events' = Append(events, e), shown' = shown
  PROVE  OnTheWay' = Append(OnTheWay, e)
<1>1. shown \in Seq(Events) /\ events \in Seq(Events)
  BY Zenon DEF TypeOK
<1>2. \A s, t \in Seq(Events) : s \o Append(t, e) = Append(s \o t, e)
  OBVIOUS
<1> QED BY <1>1, <1>2, Zenon DEF OnTheWay

LEMMA WayShown ==
  ASSUME TypeOK, events # <<>>, shown' = Append(shown, Head(events))
  PROVE  /\ shown' \in Seq(Events) /\ Begins(shown', OnTheWay)
         /\ events' = Tail(events) => OnTheWay' = OnTheWay
<1>1. shown \in Seq(Events) /\ events \in Seq(Events)
  BY Zenon DEF TypeOK
<1>2. Head(events) \in Events /\ Tail(events) \in Seq(Events)
  BY <1>1
<1>3. \A s, t \in Seq(Events) : t # <<>> => Append(s, Head(t)) \o Tail(t) = s \o t
  OBVIOUS
<1>4. shown' \in Seq(Events)
  BY <1>1, <1>2
<1>5. OnTheWay = shown' \o Tail(events)
  BY <1>1, <1>3, Zenon DEF OnTheWay
<1>6. \A s, t \in Seq(Events) : Begins(s, s \o t)
  BY DEF Begins
<1>7. Begins(shown', OnTheWay)
  BY <1>2, <1>4, <1>5, <1>6, Zenon
<1>8. events' = Tail(events) => OnTheWay' = OnTheWay
  BY <1>5, Zenon DEF OnTheWay
<1> QED BY <1>4, <1>7, <1>8, Zenon

LEMMA ContainsAppended ==
  ASSUME NEW s \in Seq(Events), NEW e \in Events
  PROVE  /\ Contains(Append(s, e), e)
         /\ \A x : Contains(s, x) => Contains(Append(s, e), x)
<1> DEFINE t == Append(s, e)
<1>1. /\ Len(s) \in Nat /\ Len(t) = Len(s) + 1 /\ t[Len(s) + 1] = e
      /\ \A i \in 1..Len(s) : t[i] = s[i]
  OBVIOUS
<1> HIDE DEF t
<1>2. Contains(t, e)
  BY <1>1 DEF Contains
<1>3. \A x : Contains(s, x) => Contains(t, x)
  BY <1>1 DEF Contains
<1> QED BY <1>2, <1>3, Zenon DEF t

(***************************************************************************)
(* Who changes what the events say: the senders while the socket is open,  *)
(* and the socket.                                                         *)
(***************************************************************************)
Sending(e) ==
  /\ socket = "open" /\ socket' = "open"
  /\ events' = Append(events, e) /\ shown' = shown

Showing == \* one event to the client, and on
  /\ socket = "open" /\ socket' = "open"
  /\ events # <<>> /\ shown' = Append(shown, Head(events)) /\ events' = Tail(events)

Leaving == \* the task returns
  /\ socket = "open" /\ socket' = "closed" /\ events' = <<>>
  /\ shown' = shown \/ (events # <<>> /\ shown' = Append(shown, Head(events)))

Resting == UNCHANGED <<socket, events, shown>>

LEMMA SocketMoves ==
  ASSUME TypeOK, SocketStep \/ ClientMessage \/ Disconnect
  PROVE  /\ Showing \/ Leaving \/ Resting
         /\ UNCHANGED <<readers, writer, supervision, process>>
<1>1. CASE HandleEvent
  <2>1. CASE Leave
    BY <1>1, <2>1, Zenon DEF HandleEvent, Leave, Leaving
  <2>2. CASE shown' = Append(shown, Head(events)) /\ Stay /\ events' = Tail(events)
    BY <1>1, <2>2, Zenon DEF HandleEvent, Stay, Showing
  <2> QED BY <1>1, <2>1, <2>2, Zenon DEF HandleEvent
<1>2. CASE EventsEnd \/ Disconnect
  BY <1>2, Zenon DEF EventsEnd, Disconnect, Leave, Leaving
<1>3. CASE ClientMessage
  BY <1>3, Zenon
     DEF ClientMessage, ClientInput, ClientResize, ClientClose, Leave, Stay, Leaving, Resting
<1> QED BY <1>1, <1>2, <1>3, Zenon DEF SocketStep

LEMMA NotOpenedStep ==
  ASSUME DeliveryInv, [Next]_vars
  PROVE  NotOpened'
<1> SUFFICES ASSUME socket' = "opening"
             PROVE  /\ shown' = <<>> /\ events' = <<>> /\ taken' = 0 /\ produced' = 0
                    /\ reader' = "none" /\ writer' = "none" /\ supervisor' = "none"
                    /\ child' = "none" /\ ~exit_status'
  BY Zenon DEF NotOpened
<1>1. socket = "opening"
  <2>1. CASE SocketStep \/ ClientMessage \/ Disconnect
    BY <2>1, SocketMoves, Zenon DEF DeliveryInv, Showing, Leaving, Resting
  <2>2. CASE Open
    BY <2>2, Zenon DEF Open
  <2>3. CASE ~(SocketStep \/ ClientMessage \/ Disconnect \/ Open)
    BY <2>3, Zenon DEF Next, ReaderStep, WriterStep, SupervisorStep, Environment, Read,
       SendOutput, ReadEnd, ReportReadFailed, ReaderDone, ReadFails, CheckStop, ReceiveInput,
       Write, WriteFails, ReportWriteFailed, Supervise, StatusFails, ReportSupervised,
       ReceiveControl, Terminate, StopWriter, CloseMaster, Drain, DrainTimeout, Report,
       ChildWrites, ChildExits, KilledDies, vars, client
  <2> QED BY <2>1, <2>2, <2>3, Zenon
<1>2. /\ shown = <<>> /\ events = <<>> /\ taken = 0 /\ produced = 0
      /\ reader = "none" /\ writer = "none" /\ supervisor = "none"
      /\ child = "none" /\ ~exit_status
  BY <1>1, Zenon DEF DeliveryInv, NotOpened
<1>3. UNCHANGED vars
  BY <1>1, <1>2, Zenon
     DEF Next, ReaderStep, WriterStep, SupervisorStep, SocketStep, Environment,
     Read, SendOutput, ReadEnd, ReportReadFailed, ReaderDone, ReadFails, CheckStop,
     ReceiveInput, Write, WriteFails, ReportWriteFailed, Supervise, StatusFails,
     ReportSupervised, ReceiveControl, Terminate, StopWriter, CloseMaster, Drain,
     DrainTimeout, Report, HandleEvent, EventsEnd, ClientMessage, Disconnect, Open,
     ChildWrites, ChildExits, KilledDies
<1> QED BY <1>2, <1>3, Zenon DEF vars, client, queues, readers, supervision, process

LEMMA SupervisorPlaceStep ==
  ASSUME DeliveryInv, [Next]_vars
  PROVE  SupervisorPlace'
<1>0. /\ supervisor = "report" => reader_done
      /\ exit_status => child = "gone"
      /\ reader_done \in BOOLEAN /\ exit_status \in BOOLEAN
      /\ socket = "opening" => ~exit_status
  BY Zenon DEF DeliveryInv, SupervisorPlace, TypeOK, NotOpened
<1>1. CASE ReaderStep \/ ReadFails
  BY <1>0, <1>1 DEF ReaderStep, Read, SendOutput, ReadEnd, ReportReadFailed, ReaderDone,
     ReadFails, supervision, process, SupervisorPlace
<1>2. CASE WriterStep \/ Write \/ WriteFails
  BY <1>0, <1>2 DEF WriterStep, CheckStop, ReceiveInput, Write, WriteFails,
     ReportWriteFailed, readers, supervision, process, SupervisorPlace
<1>3. CASE SupervisorStep \/ StatusFails
  BY <1>0, <1>3 DEF SupervisorStep, Supervise, StatusFails, ReportSupervised,
     ReceiveControl, Terminate, StopWriter, CloseMaster, Drain, Drained, DrainTimeout,
     Report, readers, process, SupervisorPlace
<1>4. CASE SocketStep \/ ClientMessage \/ Disconnect
  BY <1>0, <1>4, SocketMoves DEF DeliveryInv, readers, supervision, process, SupervisorPlace
<1>5. CASE Open
  BY <1>0, <1>5, Zenon DEF Open, SupervisorPlace
<1>6. CASE ChildWrites \/ ChildExits \/ KilledDies \/ UNCHANGED vars
  BY <1>0, <1>6 DEF ChildWrites, ChildExits, KilledDies, vars, readers,
     supervision, process, SupervisorPlace
<1> QED BY <1>1, <1>2, <1>3, <1>4, <1>5, <1>6, Zenon DEF Next, Environment

(***************************************************************************)
(* A child that is gone stays gone and has written its last, so an Exit    *)
(* that came behind everything still does.                                 *)
(***************************************************************************)
LEMMA GoneStays ==
  ASSUME DeliveryInv, [Next]_vars, child = "gone"
  PROVE  child' = "gone" /\ produced' = produced
<1>1. socket # "opening"
  BY Zenon DEF DeliveryInv, NotOpened
<1> QED
  BY <1>1, Zenon
     DEF Next, ReaderStep, WriterStep, SupervisorStep, SocketStep, Environment, Read,
     SendOutput, ReadEnd, ReportReadFailed, ReaderDone, ReadFails, CheckStop, ReceiveInput,
     Write, WriteFails, ReportWriteFailed, Supervise, StatusFails, ReportSupervised,
     ReceiveControl, Terminate, StopWriter, CloseMaster, Drain, DrainTimeout, Report,
     HandleEvent, EventsEnd, ClientMessage, Disconnect, Open, ChildWrites,
     ChildExits, KilledDies, vars, process

LEMMA BehindStays ==
  ASSUME DeliveryInv, [Next]_vars, NEW s, ExitBehind(s, child = "gone", produced)
  PROVE  ExitBehind(s, child' = "gone", produced')
<1>1. ASSUME NEW i \in 1..Len(s), s[i] = Exit
      PROVE  /\ child' = "gone"
             /\ Outputs(s, i) = produced' \/ \E j \in 1..i : s[j] = ReadFailed
  <2>1. /\ child = "gone"
        /\ Outputs(s, i) = produced \/ \E j \in 1..i : s[j] = ReadFailed
    BY <1>1, Zenon DEF ExitBehind
  <2> QED BY <2>1, GoneStays, Zenon
<1> QED BY <1>1, Zenon DEF ExitBehind

LEMMA SendMoves ==
  ASSUME NEW e, Send(e), UNCHANGED client
  PROVE  Sending(e) \/ (socket = "closed" /\ Resting)
BY Zenon DEF Send, Sending, Resting, client

(***************************************************************************)
(* The reader's place.                                                     *)
(***************************************************************************)
ReadToTheEnd == (child = "gone" /\ taken = produced) \/ Contains(OnTheWay, ReadFailed)

LEMMA FailureStaysSaid ==
  ASSUME TypeOK, Contains(OnTheWay, ReadFailed),
         Resting \/ Showing \/ \E e \in Events : Sending(e)
  PROVE  Contains(OnTheWay', ReadFailed)
<1>1. CASE Resting
  BY <1>1, Zenon DEF Resting, OnTheWay
<1>2. CASE Showing
  BY <1>2, WayShown, Zenon DEF Showing
<1>3. CASE \E e \in Events : Sending(e)
  <2>1. PICK e \in Events : Sending(e)
    BY <1>3, Zenon
  <2>2. OnTheWay' = Append(OnTheWay, e) /\ OnTheWay \in Seq(Events)
    BY <2>1, WayGrows, WayType, Zenon DEF Sending
  <2> QED BY <2>2, ContainsAppended, Zenon
<1> QED BY <1>1, <1>2, <1>3, Zenon

LEMMA OthersMove ==
  ASSUME DeliveryInv, WriterStep \/ Write \/ WriteFails \/ SupervisorStep \/ StatusFails
  PROVE  /\ UNCHANGED <<readers, socket>>
         /\ Resting \/ \E e \in Events : Sending(e) /\ e.kind # "output"
                                          /\ (e = Exit => Report /\ Verdict = Exit)
<1>0. \A code \in Errors : Error(code) \in Events /\ Error(code).kind # "output" /\ Error(code) # Exit
  BY EventTypes, Zenon DEF Error, Exit, Errors
<1>1. CASE ReportWriteFailed
  <2>1. Send(Error("write_failed")) /\ UNCHANGED <<client, readers>>
    BY <1>1, Zenon DEF ReportWriteFailed
  <2> QED BY <1>0, <2>1, SendMoves, Zenon DEF Errors, Sending, Resting, client
<1>2. CASE ReportSupervised
  <2>1. \E code \in {"status_failed", "resize_failed"} : Send(Error(code))
    BY <1>2, Zenon DEF ReportSupervised
  <2>2. UNCHANGED <<client, readers>>
    BY <1>2, Zenon DEF ReportSupervised
  <2> QED BY <1>0, <2>1, <2>2, SendMoves, Zenon DEF Errors, Sending, Resting, client
<1>3. CASE Report
  <2>1. Send(Verdict) /\ UNCHANGED <<client, readers>>
    BY <1>3, Zenon DEF Report
  <2>2. Verdict \in Events /\ Verdict.kind # "output"
    BY EventTypes, Zenon DEF Verdict, Errors, Error, Exit
  <2> QED BY <1>3, <2>1, <2>2, SendMoves, Zenon DEF Sending, Resting, client
<1>4. CASE \/ CheckStop \/ ReceiveInput \/ Write \/ WriteFails \/ Supervise \/ StatusFails
           \/ ReceiveControl \/ Terminate \/ StopWriter \/ CloseMaster \/ Drain \/ DrainTimeout
  BY <1>4, Zenon DEF CheckStop, ReceiveInput, Write, WriteFails, Supervise, StatusFails,
     ReceiveControl, Terminate, StopWriter, CloseMaster, Drain, DrainTimeout, client, queues,
     Resting
<1> QED BY <1>1, <1>2, <1>3, <1>4, Zenon DEF WriterStep, SupervisorStep

LEMMA ReaderPlaceStep ==
  ASSUME DeliveryInv, [Next]_vars
  PROVE  ReaderPlace'
<1>0. /\ reader = "send" => taken > 0
      /\ reader_done => reader = "gone"
      /\ socket = "open" /\ reader \in {"done", "gone"} => ReadToTheEnd
      /\ TypeOK /\ taken \in Nat /\ produced \in Nat
      /\ reader_done \in BOOLEAN
  BY WebSessionAssumption DEF DeliveryInv, ReaderPlace, ReadToTheEnd, TypeOK
<1>1. /\ reader' = "send" => taken' > 0
      /\ reader_done' => reader' = "gone"
  <2>1. CASE Read
    BY <1>0, <2>1 DEF Read
  <2>2. CASE SendOutput \/ ReadEnd \/ ReportReadFailed \/ ReaderDone \/ ReadFails
    BY <1>0, <2>2 DEF SendOutput, ReadEnd, ReportReadFailed, ReaderDone, ReadFails
  <2>3. CASE UNCHANGED readers
    BY <1>0, <2>3, Zenon DEF readers
  <2>4. CASE Open
    BY <1>0, <2>4, Zenon DEF Open, DeliveryInv, NotOpened
  <2> QED
    BY <2>1, <2>2, <2>3, <2>4, OthersMove, SocketMoves, <1>0, Zenon
       DEF Next, ReaderStep, Environment,
       ChildWrites, ChildExits, KilledDies, vars
<1>2. ASSUME socket' = "open", reader' \in {"done", "gone"} PROVE ReadToTheEnd'
  <2>1. CASE reader \in {"done", "gone"} /\ socket = "open" /\ taken' = taken
             /\ (Resting \/ Showing \/ \E e \in Events : Sending(e))
    <3>1. ReadToTheEnd
      BY <1>0, <2>1, Zenon
    <3> QED BY <1>0, <2>1, <3>1, GoneStays, FailureStaysSaid, Zenon DEF ReadToTheEnd
  <2>2. CASE Read \/ ReadFails \/ Open
    BY <1>2, <2>2, Zenon DEF Read, ReadFails, Open
  <2>3. CASE SendOutput
    BY <1>2, <2>3, Zenon DEF SendOutput, client
  <2>4. CASE ReadEnd
    BY <2>4, Zenon DEF ReadEnd, ReadToTheEnd, process
  <2>5. CASE ReportReadFailed
    <3>1. ReadFailed \in Events
      BY EventTypes, Zenon DEF ReadFailed, Errors
    <3>2. Sending(ReadFailed)
      BY <1>2, <2>5, SendMoves, Zenon DEF ReportReadFailed, ReadFailed, Resting
    <3>3. OnTheWay' = Append(OnTheWay, ReadFailed) /\ OnTheWay \in Seq(Events)
      BY <1>0, <3>1, <3>2, WayGrows, WayType, Zenon DEF Sending
    <3> QED BY <3>1, <3>3, ContainsAppended, Zenon DEF ReadToTheEnd
  <2>6. CASE ReaderDone
    BY <1>2, <2>1, <2>6, Zenon DEF ReaderDone, client, queues, Resting
  <2>7. CASE WriterStep \/ Write \/ WriteFails \/ SupervisorStep \/ StatusFails
    BY <1>2, <2>1, <2>7, OthersMove, Zenon DEF readers
  <2>8. CASE SocketStep \/ ClientMessage \/ Disconnect
    BY <1>0, <1>2, <2>1, <2>8, SocketMoves, Zenon DEF readers, Leaving, Showing, Resting
  <2>9. CASE ChildWrites \/ ChildExits \/ KilledDies \/ UNCHANGED vars
    BY <1>2, <2>1, <2>9, Zenon DEF ChildWrites, ChildExits, KilledDies, vars, readers, client,
       queues, Resting
  <2> QED
    BY <2>2, <2>3, <2>4, <2>5, <2>6, <2>7, <2>8, <2>9, Zenon DEF Next, ReaderStep, Environment
<1> QED BY <1>1, <1>2, Zenon DEF ReaderPlace, ReadToTheEnd

(***************************************************************************)
(* What is on the way, step by step.                                       *)
(***************************************************************************)
LEMMA WaySending ==
  ASSUME DeliveryInv, [Next]_vars, NEW e \in Events, Sending(e),
         e.kind = "output" => e = Output(Outputs(OnTheWay, Len(OnTheWay)) + 1),
         e = Exit => child = "gone" /\ ReadToTheEnd /\ Held(reader) = 0,
         taken' = taken,
         e.kind = "output" => Held(reader) = Held(reader') + 1,
         e.kind # "output" => Held(reader) = Held(reader')
  PROVE  WayKept'
<1> DEFINE way == OnTheWay
           n == Outputs(way, Len(way))
<1>0. /\ TypeOK /\ way \in Seq(Events) /\ taken \in Nat
      /\ Numbered(way) /\ ExitBehind(way, child = "gone", produced) /\ n + Held(reader) = taken
      /\ Numbered(shown) /\ ExitBehind(shown, child = "gone", produced)
      /\ Outputs(shown, Len(shown)) <= taken
  BY WayType DEF DeliveryInv, WayKept, Sending, TypeOK
<1>1. OnTheWay' = Append(way, e)
  BY <1>0, WayGrows, Zenon DEF Sending
<1>2. n \in Nat
  BY <1>0, CountOf, Zenon
<1>3. Numbered(Append(way, e))
  BY <1>0, AppendNumbered, Zenon
<1>4. ExitBehind(Append(way, e), child' = "gone", produced')
  <2>1. e = Exit => child = "gone" /\ (n = produced \/ Contains(way, ReadFailed))
    BY <1>0, <1>2 DEF ReadToTheEnd
  <2>2. ExitBehind(Append(way, e), child = "gone", produced)
    BY <1>0, <2>1, AppendBehind, Zenon
  <2> QED BY <2>2, BehindStays, Zenon
<1>5. Outputs(Append(way, e), Len(Append(way, e))) + Held(reader') = taken'
  <2>1. Outputs(Append(way, e), Len(Append(way, e))) = n + (IF e.kind = "output" THEN 1 ELSE 0)
    BY <1>0, AppendCount, Zenon
  <2>2. Held(reader) \in Nat /\ Held(reader') \in Nat
    BY Zenon DEF Held
  <2> HIDE DEF n
  <2> QED BY <1>0, <1>2, <2>1, <2>2
<1>6. ExitBehind(shown, child' = "gone", produced')
  BY <1>0, BehindStays, Zenon
<1> QED BY <1>0, <1>1, <1>3, <1>4, <1>5, <1>6, Zenon DEF WayKept, Sending

LEMMA WayShowing ==
  ASSUME DeliveryInv, [Next]_vars, Showing \/ Leaving, UNCHANGED <<reader, taken>>
  PROVE  WayKept'
<1> DEFINE way == OnTheWay
<1>0. /\ TypeOK /\ way \in Seq(Events) /\ taken \in Nat
      /\ Numbered(way) /\ ExitBehind(way, child = "gone", produced)
      /\ Outputs(way, Len(way)) + Held(reader) = taken
      /\ socket = "open" /\ Begins(shown, way) /\ shown \in Seq(Events)
  <2>1. TypeOK /\ WayKept /\ socket = "open"
    BY Zenon DEF DeliveryInv, Showing, Leaving
  <2>2. way \in Seq(Events) /\ Begins(shown, way) /\ shown \in Seq(Events)
    BY <2>1, WayType, Zenon
  <2>3. taken \in Nat
    BY <2>1 DEF TypeOK
  <2> QED BY <2>1, <2>2, <2>3, Zenon DEF WayKept
<1>1. shown' \in Seq(Events) /\ Begins(shown', way)
  BY <1>0, WayShown, Zenon DEF Showing, Leaving
<1>2. ExitBehind(way, child' = "gone", produced')
  BY <1>0, BehindStays, Zenon
<1>3. Numbered(shown') /\ ExitBehind(shown', child' = "gone", produced')
  BY <1>0, <1>1, <1>2, PrefixNumbered, PrefixBehind, Zenon
<1>4. Outputs(shown', Len(shown')) <= taken
  <2>1. Outputs(shown', Len(shown')) <= Outputs(way, Len(way))
    BY <1>0, <1>1, PrefixCount, Zenon
  <2>2. Outputs(shown', Len(shown')) \in Nat /\ Outputs(way, Len(way)) \in Nat /\ Held(reader) \in Nat
    BY <1>0, <1>1, CountOf, Zenon DEF Held
  <2> QED BY <1>0, <2>1, <2>2
<1>5. CASE Showing
  <2>1. OnTheWay' = way /\ Held(reader') = Held(reader)
    BY <1>0, <1>5, WayShown, Zenon DEF Showing, Held
  <2> QED BY <1>0, <1>2, <1>3, <1>4, <1>5, <2>1, Zenon DEF WayKept, Showing
<1>6. CASE Leaving
  BY <1>3, <1>4, <1>6, Zenon DEF WayKept, Leaving
<1> QED BY <1>5, <1>6, Zenon

LEMMA Balance ==
  ASSUME NEW n \in Nat, NEW r \in Nat, NEW q \in Nat, NEW t \in Nat, NEW u \in Nat,
         n + r = t, u + r = t + q
  PROVE  n + q = u
OBVIOUS

LEMMA WayResting ==
  ASSUME DeliveryInv, [Next]_vars, Resting,
         socket = "open" => taken' + Held(reader) = taken + Held(reader'),
         taken' \in Nat, taken <= taken'
  PROVE  WayKept'
<1> DEFINE way == OnTheWay
<1>0. /\ TypeOK /\ way \in Seq(Events) /\ taken \in Nat /\ shown \in Seq(Events)
      /\ Numbered(shown) /\ ExitBehind(shown, child = "gone", produced)
      /\ Outputs(shown, Len(shown)) <= taken
      /\ socket # "open" => events = <<>>
  BY WayType DEF DeliveryInv, WayKept, TypeOK
<1>1. OnTheWay' = way /\ UNCHANGED <<socket, events, shown>>
  BY Zenon DEF Resting, OnTheWay
<1>2. ExitBehind(shown, child' = "gone", produced')
  BY <1>0, BehindStays, Zenon
<1>3. Outputs(shown, Len(shown)) <= taken'
  <2>1. Outputs(shown, Len(shown)) \in Nat
    BY <1>0, CountOf, Zenon
  <2> QED BY <1>0, <2>1
<1>4. ASSUME socket = "open"
      PROVE  /\ Numbered(way) /\ ExitBehind(way, child' = "gone", produced')
             /\ Outputs(way, Len(way)) + Held(reader') = taken'
  <2>1. /\ Numbered(way) /\ ExitBehind(way, child = "gone", produced)
        /\ Outputs(way, Len(way)) + Held(reader) = taken
    BY <1>4, Zenon DEF DeliveryInv, WayKept
  <2>2. Outputs(way, Len(way)) \in Nat /\ Held(reader) \in Nat /\ Held(reader') \in Nat
    BY <1>0, CountOf, Zenon DEF Held
  <2>3. Outputs(way, Len(way)) + Held(reader') = taken'
    <3>1. /\ taken \in Nat /\ taken' \in Nat
          /\ taken' + Held(reader) = taken + Held(reader')
      BY <1>0, <1>4, Zenon
    <3> QED BY <2>1, <2>2, <3>1, Balance
  <2> QED BY <2>1, <2>3, BehindStays, Zenon
<1> QED BY <1>0, <1>1, <1>2, <1>3, <1>4, Zenon DEF WayKept

LEMMA WayKeptStep ==
  ASSUME DeliveryInv, [Next]_vars
  PROVE  WayKept'
<1> DEFINE n == Outputs(OnTheWay, Len(OnTheWay))
<1>0. TypeOK /\ taken \in Nat /\ OnTheWay \in Seq(Events)
  BY WayType DEF DeliveryInv, TypeOK
<1>1. n \in Nat
  BY <1>0, CountOf, Zenon
<1>2. ASSUME Resting, UNCHANGED <<reader, taken>> PROVE WayKept'
  BY <1>0, <1>2, WayResting DEF Held
<1>3. CASE Read
  <2>1. Resting /\ taken' = taken + 1 /\ reader = "read" /\ reader' = "send"
    BY <1>3, Zenon DEF Read, client, queues, Resting
  <2>2. taken' + Held(reader) = taken + Held(reader') /\ taken' \in Nat /\ taken <= taken'
    BY <1>0, <2>1 DEF Held
  <2> QED BY <2>1, <2>2, WayResting, Zenon
<1>4. CASE SendOutput
  <2>0. reader = "send" /\ taken' = taken /\ UNCHANGED client /\ Send(Output(taken))
        /\ reader' = IF socket = "open" THEN "read" ELSE "done"
    BY <1>4, Zenon DEF SendOutput
  <2>1. CASE Sending(Output(taken))
    <3>1. taken \in 1..MaxOutput
      BY <1>0, <2>0, WebSessionAssumption DEF DeliveryInv, ReaderPlace, TypeOK
    <3>2. Output(taken) \in Events /\ Output(taken).kind = "output" /\ Output(taken) # Exit
      BY <3>1, EventTypes, Zenon DEF Output, Exit
    <3>3. Held(reader) = 1 /\ Held(reader') = 0
      BY <2>0, <2>1, Zenon DEF Held, Sending
    <3>4. n + 1 = taken
      BY <2>1, <3>3, Zenon DEF DeliveryInv, WayKept, Sending
    <3> QED BY <2>0, <2>1, <3>2, <3>3, <3>4, WaySending
  <2>2. CASE socket = "closed" /\ Resting
    BY <1>0, <2>0, <2>2, WayResting
  <2> QED BY <2>0, <2>1, <2>2, SendMoves, Zenon
<1>5. CASE ReadEnd \/ ReadFails \/ ReaderDone
  <2>1. Resting /\ taken' = taken /\ reader # "send" /\ reader' # "send"
    BY <1>5, Zenon DEF ReadEnd, ReadFails, ReaderDone, client, queues, Resting
  <2>2. taken' + Held(reader) = taken + Held(reader')
    BY <2>1, Zenon DEF Held
  <2> QED BY <1>0, <2>1, <2>2, WayResting
<1>6. CASE ReportReadFailed
  <2>0. /\ reader = "failed" /\ reader' = "done" /\ taken' = taken /\ UNCHANGED client
        /\ Send(ReadFailed) /\ Held(reader) = 0 /\ Held(reader') = 0
    BY <1>6, Zenon DEF ReportReadFailed, ReadFailed, Held
  <2>1. CASE Sending(ReadFailed)
    <3>1. ReadFailed \in Events /\ ReadFailed.kind # "output" /\ ReadFailed # Exit
      BY EventTypes, Zenon DEF ReadFailed, Errors, Error, Exit
    <3> QED BY <2>0, <2>1, <3>1, WaySending, Zenon
  <2>2. CASE socket = "closed" /\ Resting
    BY <1>0, <2>0, <2>2, WayResting
  <2> QED BY <2>0, <2>1, <2>2, SendMoves, Zenon
<1>7. CASE WriterStep \/ Write \/ WriteFails \/ SupervisorStep \/ StatusFails
  <2>0. UNCHANGED <<reader, taken>> /\ Held(reader') = Held(reader)
    BY <1>7, OthersMove, Zenon DEF readers, Held
  <2>1. ASSUME NEW e \in Events, Sending(e), e.kind # "output",
               e = Exit => Report /\ Verdict = Exit
        PROVE  WayKept'
    <3>1. ASSUME e = Exit PROVE child = "gone" /\ ReadToTheEnd /\ Held(reader) = 0
      <4>1. supervisor = "report" /\ exit_status
        BY <2>1, <3>1, Zenon DEF Report, Verdict, Error, Exit
      <4>2. child = "gone" /\ reader = "gone"
        BY <4>1, Zenon DEF DeliveryInv, SupervisorPlace, ReaderPlace
      <4> QED BY <2>1, <4>2, Zenon DEF DeliveryInv, ReaderPlace, ReadToTheEnd, Held, Sending
    <3> QED BY <2>0, <2>1, <3>1, WaySending, Zenon
  <2> QED BY <1>2, <1>7, <2>0, <2>1, OthersMove, Zenon
<1>8. CASE SocketStep \/ ClientMessage \/ Disconnect
  BY <1>0, <1>2, <1>8, SocketMoves, WayShowing, Zenon DEF readers
<1>9. CASE Open
  <2>1. shown = <<>> /\ events = <<>> /\ taken = 0 /\ UNCHANGED <<shown, events, taken>>
    BY <1>9, Zenon DEF Open, DeliveryInv, NotOpened, queues
  <2>2. OnTheWay' = <<>>
    BY <2>1 DEF OnTheWay
  <2>3. Held(reader') = 0
    BY <1>9, Zenon DEF Open, Held, DeliveryInv, NotOpened
  <2> QED BY <2>1, <2>2, <2>3, EmptyGood DEF WayKept
<1>10. CASE ChildWrites \/ ChildExits \/ KilledDies \/ UNCHANGED vars
  BY <1>2, <1>10, Zenon DEF ChildWrites, ChildExits, KilledDies, vars, readers, client,
     queues, Resting
<1> QED
  BY <1>3, <1>4, <1>5, <1>6, <1>7, <1>8, <1>9, <1>10, Zenon DEF Next, ReaderStep, Environment

LEMMA DeliveryInit == Init => DeliveryInv
<1> SUFFICES ASSUME Init PROVE DeliveryInv
  BY Zenon
<1>0. /\ InputCap \in Nat \ {0} /\ ControlCap \in Nat \ {0} /\ EventsCap \in Nat \ {0}
      /\ MaxOutput \in Nat /\ MaxMessages \in Nat
  BY WebSessionAssumption, Zenon
<1>1. TypeOK
  <2>1. {closing, close_requested, writer_stop, exit_status, reader_done,
         master_closed} \subseteq BOOLEAN
    BY Zenon DEF Init
  <2>2. /\ control \in Seq({"resize", "close", "reader_failed", "writer_failed"})
        /\ Len(control) <= ControlCap
        /\ events \in Seq(Events) /\ Len(events) <= EventsCap /\ shown \in Seq(Events)
    <3>1. \A S : <<>> \in Seq(S) /\ Len(<<>>) = 0
      OBVIOUS
    <3> QED BY <1>0, <3>1 DEF Init
  <2>3. /\ input \in 0..InputCap /\ messages \in 0..MaxMessages
        /\ produced \in 0..MaxOutput /\ taken \in 0..produced
    BY <1>0 DEF Init
  <2> QED BY <2>1, <2>2, <2>3, Zenon DEF Init, TypeOK
<1>2. NotOpened /\ ReaderPlace /\ SupervisorPlace
  BY Zenon DEF Init, NotOpened, ReaderPlace, SupervisorPlace
<1>3. WayKept
  BY EmptyGood DEF Init, WayKept
<1> QED BY <1>1, <1>2, <1>3, Zenon DEF DeliveryInv

LEMMA DeliveryStep == DeliveryInv /\ [Next]_vars => DeliveryInv'
BY TypesStep, NotOpenedStep, ReaderPlaceStep, SupervisorPlaceStep, WayKeptStep, Zenon
   DEF DeliveryInv

(***************************************************************************)
(* ExitIsComplete, for every capacity of the queues, every amount of       *)
(* output and every number of messages: the reader's last send comes       *)
(* before the flag the supervisor waits for, so Exit is queued behind all  *)
(* output or behind the reader's error, whichever thread is blocked on the *)
(* full queue and whenever the client leaves (spawn_reader,                *)
(* spawn_supervisor, handle_socket).                                       *)
(***************************************************************************)
THEOREM ExitComesLast == Spec => []ExitIsComplete
<1>1. DeliveryInv => ExitIsComplete
  <2> SUFFICES ASSUME DeliveryInv PROVE ExitIsComplete
    BY Zenon
  <2>1. /\ TypeOK /\ shown \in Seq(Events) /\ taken \in Nat /\ produced \in Nat /\ taken <= produced
        /\ Numbered(shown) /\ ExitBehind(shown, child = "gone", produced)
        /\ Outputs(shown, Len(shown)) <= taken
    BY WebSessionAssumption DEF DeliveryInv, TypeOK, WayKept
  <2>2. DOMAIN shown = 1..Len(shown) /\ Len(shown) \in Nat
    BY <2>1
  <2>3. ASSUME Contains(shown, Exit)
        PROVE  Outputs(shown, Len(shown)) = produced \/ Contains(shown, Error("read_failed"))
    <3>1. PICK i \in 1..Len(shown) : shown[i] = Exit
      BY <2>3, Zenon DEF Contains
    <3>2. CASE \E j \in 1..i : shown[j] = ReadFailed
      BY <2>2, <3>2 DEF Contains, ReadFailed
    <3>3. CASE Outputs(shown, i) = produced
      <4>1. Outputs(shown, i) <= Outputs(shown, Len(shown)) /\ Outputs(shown, Len(shown)) \in Nat
        <5>1. i \in Nat /\ i <= Len(shown)
          BY <2>2
        <5> QED BY <2>1, <2>2, <5>1, OutputsGrow, CountOf, Zenon
      <4>2. produced <= Outputs(shown, Len(shown)) /\ Outputs(shown, Len(shown)) <= produced
        BY <2>1, <3>3, <4>1
      <4> QED BY <2>1, <4>1, <4>2
    <3> QED BY <2>1, <3>1, <3>2, <3>3, Zenon DEF ExitBehind
  <2> QED BY <2>1, <2>2, <2>3, Zenon DEF ExitIsComplete, Numbered
<1> QED BY <1>1, DeliveryInit, DeliveryStep, PTL DEF Spec

=============================================================================
