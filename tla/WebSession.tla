----------------------------- MODULE WebSession -----------------------------
(***************************************************************************)
(* One web terminal (rssh-web): the task of its WebSocket (handle_socket)  *)
(* and the threads WebPtySession::spawn starts, a reader, a writer and a   *)
(* supervisor, with the bounded queues and the two flags between them.     *)
(* The child and its PTY are external: they are what the threads see of    *)
(* them.  A step is what a thread does between two waits.                  *)
(***************************************************************************)
EXTENDS Integers, Sequences, FiniteSets

CONSTANTS
  InputCap,      \* INPUT_QUEUE_CAPACITY
  ControlCap,    \* CONTROL_QUEUE_CAPACITY
  EventsCap,     \* OUTPUT_QUEUE_CAPACITY
  MaxOutput,     \* bound: chunks the child writes
  MaxMessages    \* bound: messages of the client once the session is open

ASSUME WebSessionAssumption ==
  /\ InputCap \in Nat \ {0}
  /\ ControlCap \in Nat \ {0}
  /\ EventsCap \in Nat \ {0}
  /\ MaxOutput \in Nat
  /\ MaxMessages \in Nat

VARIABLES
  socket, closing,    \* handle_socket, and its flag
  messages,           \* how many messages the client sent
  input, control,     \* chunks queued for the writer, messages for the supervisor
  events,             \* SessionEvents queued for the socket
  close_requested,
  writer_stop,
  reader, writer, supervisor,
  exit_status,        \* the supervisor has a PtyExitStatus
  reader_done,
  child,
  master_closed,      \* begin_master_close: writes fail from now on
  produced, taken,    \* chunks the child wrote, chunks the reader took
  shown               \* history: what the socket sent to the client

client == <<socket, closing, messages, shown>>
queues == <<input, control, events>>
flags == <<close_requested, writer_stop>>
readers == <<reader, reader_done, taken>>
supervision == <<supervisor, exit_status, master_closed>>
process == <<child, produced>>
vars == <<client, queues, flags, readers, writer, supervision, process>>

Init ==
  /\ socket = "opening" /\ closing = FALSE /\ messages = 0 /\ shown = <<>>
  /\ input = 0 /\ control = <<>> /\ events = <<>>
  /\ close_requested = FALSE /\ writer_stop = FALSE
  /\ reader = "none" /\ writer = "none" /\ supervisor = "none"
  /\ exit_status = FALSE /\ reader_done = FALSE
  /\ child = "none" /\ master_closed = FALSE
  /\ produced = 0 /\ taken = 0

Output(n) == [kind |-> "output", n |-> n]
Error(code) == [kind |-> code, n |-> 0]
Exit == [kind |-> "exit", n |-> 0]

Gone(thread) == thread = "gone"
ThreadsGone == Gone(reader) /\ Gone(writer) /\ Gone(supervisor)

(***************************************************************************)
(* blocking_send waits for room, and returns an error once the session was *)
(* dropped.                                                                *)
(***************************************************************************)
Send(event) ==
  \/ socket = "open" /\ Len(events) < EventsCap /\ events' = Append(events, event)
  \/ socket = "closed" /\ UNCHANGED events

(***************************************************************************)
(* A try_send to the supervisor: dropped when it does not fit.             *)
(***************************************************************************)
TryControl(message) ==
  control' = IF Len(control) < ControlCap /\ ~Gone(supervisor)
             THEN Append(control, message) ELSE control

-----------------------------------------------------------------------------
(***************************************************************************)
(* spawn_reader: a chunk is sent before the next one is read.              *)
(***************************************************************************)
Read ==
  /\ reader = "read"
  /\ taken < produced
  /\ taken' = taken + 1
  /\ reader' = "send"
  /\ UNCHANGED <<client, queues, flags, reader_done, writer, supervision, process>>

SendOutput ==
  /\ reader = "send"
  /\ Send(Output(taken))
  /\ reader' = IF socket = "open" THEN "read" ELSE "done"
  /\ UNCHANGED <<client, input, control, flags, reader_done, taken, writer,
                 supervision, process>>

ReadEnd ==
  /\ reader = "read"
  /\ child = "gone" /\ taken = produced
  /\ reader' = "done"
  /\ UNCHANGED <<client, queues, flags, reader_done, taken, writer, supervision,
                 process>>

ReadFails ==
  /\ reader = "read"
  /\ close_requested' = TRUE
  /\ reader' = "failed"
  /\ UNCHANGED <<client, queues, writer_stop, reader_done, taken, writer,
                 supervision, process>>

ReportReadFailed ==
  /\ reader = "failed"
  /\ Send(Error("read_failed"))
  /\ TryControl("reader_failed")
  /\ reader' = "done"
  /\ UNCHANGED <<client, input, flags, reader_done, taken, writer, supervision,
                 process>>

ReaderDone ==
  /\ reader = "done"
  /\ reader_done' = TRUE
  /\ reader' = "gone"
  /\ UNCHANGED <<client, queues, flags, taken, writer, supervision, process>>

ReaderStep == Read \/ SendOutput \/ ReadEnd \/ ReportReadFailed \/ ReaderDone

-----------------------------------------------------------------------------
(***************************************************************************)
(* spawn_writer: the stop flag is looked at before every receive.          *)
(***************************************************************************)
CheckStop ==
  /\ writer = "check"
  /\ writer' = IF writer_stop THEN "gone" ELSE "receive"
  /\ input' = IF writer_stop THEN 0 ELSE input
  /\ UNCHANGED <<client, control, events, flags, readers, supervision, process>>

ReceiveInput ==
  /\ writer = "receive"
  /\ \/ input > 0 /\ input' = input - 1 /\ writer' = "write"
     \/ input = 0 /\ socket = "open" /\ writer' = "check" /\ UNCHANGED input
     \/ input = 0 /\ socket = "closed" /\ writer' = "gone" /\ UNCHANGED input
  /\ UNCHANGED <<client, control, events, flags, readers, supervision, process>>

Write ==
  /\ writer = "write"
  /\ ~master_closed
  /\ writer' = "check"
  /\ UNCHANGED <<client, queues, flags, readers, supervision, process>>

WriteFails ==
  /\ writer = "write"
  /\ close_requested' = TRUE /\ writer_stop' = TRUE
  /\ writer' = "failed"
  /\ UNCHANGED <<client, queues, readers, supervision, process>>

ReportWriteFailed ==
  /\ writer = "failed"
  /\ Send(Error("write_failed"))
  /\ TryControl("writer_failed")
  /\ writer' = "gone"
  /\ input' = 0
  /\ UNCHANGED <<client, flags, readers, supervision, process>>

WriterStep == CheckStop \/ ReceiveInput \/ ReportWriteFailed

-----------------------------------------------------------------------------
(***************************************************************************)
(* spawn_supervisor: the close flag, the child, then one control message   *)
(* or none.                                                                *)
(***************************************************************************)
Supervise ==
  /\ supervisor = "loop"
  /\ \/ /\ close_requested
        /\ supervisor' = "terminate"
        /\ writer_stop' = TRUE
        /\ UNCHANGED exit_status
     \/ /\ ~close_requested /\ child = "gone"
        /\ supervisor' = "close"
        /\ exit_status' = TRUE
        /\ UNCHANGED writer_stop
     \/ /\ ~close_requested /\ child # "gone"
        /\ supervisor' = "control"
        /\ UNCHANGED <<exit_status, writer_stop>>
  /\ UNCHANGED <<client, queues, close_requested, readers, writer,
                 master_closed, process>>

StatusFails ==
  /\ supervisor = "loop"
  /\ ~close_requested
  /\ supervisor' = "status_failed"
  /\ UNCHANGED <<client, queues, flags, readers, writer, exit_status,
                 master_closed, process>>

ReportSupervised ==
  /\ \/ /\ supervisor = "status_failed"
        /\ Send(Error("status_failed"))
        /\ supervisor' = "terminate"
     \/ /\ supervisor = "resize_failed"
        /\ Send(Error("resize_failed"))
        /\ supervisor' = "loop"
  /\ UNCHANGED <<client, input, control, flags, readers, writer, exit_status,
                 master_closed, process>>

Unplugged == socket = "closed" /\ Gone(reader) /\ Gone(writer)

ReceiveControl ==
  /\ supervisor = "control"
  /\ \/ /\ control = <<>> /\ ~Unplugged
        /\ supervisor' = "loop"
        /\ UNCHANGED <<control, writer_stop>>
     \/ /\ control # <<>> /\ Head(control) = "resize"
        /\ supervisor' \in {"loop", "resize_failed"}
        /\ control' = Tail(control)
        /\ UNCHANGED writer_stop
     \/ /\ IF control = <<>> THEN Unplugged ELSE Head(control) # "resize"
        /\ supervisor' = "terminate"
        /\ control' = IF control = <<>> THEN control ELSE Tail(control)
        /\ writer_stop' = TRUE
  /\ UNCHANGED <<client, input, events, close_requested, readers, writer,
                 exit_status, master_closed, process>>

(***************************************************************************)
(* PtySession::terminate kills the child and waits for it, up to           *)
(* SHUTDOWN_TIMEOUT.                                                       *)
(***************************************************************************)
Terminate ==
  /\ supervisor = "terminate"
  /\ \/ child' = "gone" /\ exit_status' = TRUE
     \/ child # "gone" /\ child' = "killed" /\ exit_status' = FALSE
  /\ supervisor' = "close"
  /\ UNCHANGED <<client, queues, flags, readers, writer, master_closed, produced>>

(***************************************************************************)
(* The writer is stopped, and the master closed once no write holds its    *)
(* lock; READER_DRAIN_TIMEOUT bounds the wait for the reader.              *)
(***************************************************************************)
StopWriter ==
  /\ supervisor = "close"
  /\ writer_stop' = TRUE
  /\ supervisor' = "close_master"
  /\ UNCHANGED <<client, queues, close_requested, readers, writer, exit_status,
                 master_closed, process>>

CloseMaster ==
  /\ supervisor = "close_master"
  /\ writer # "write"
  /\ master_closed' = TRUE
  /\ supervisor' = "drain"
  /\ UNCHANGED <<client, queues, flags, readers, writer, exit_status, process>>

DrainSkipped == TRUE

Drained == reader_done

Drain ==
  /\ supervisor = "drain"
  /\ Drained
  /\ supervisor' = "report"
  /\ UNCHANGED <<client, queues, flags, readers, writer, exit_status,
                 master_closed, process>>

DrainTimeout ==
  /\ supervisor = "drain"
  /\ ~Drained
  /\ supervisor' = "drain_failed"
  /\ UNCHANGED <<client, queues, flags, readers, writer, exit_status,
                 master_closed, process>>

(***************************************************************************)
(* The last event.  The PtySession is dropped: its Drop, or the reaper it  *)
(* hands the child to, kills what still runs.                              *)
(***************************************************************************)
Verdict ==
  IF supervisor = "drain_failed" THEN Error("drain_timeout")
  ELSE IF exit_status THEN Exit ELSE Error("exit_unknown")

Report ==
  /\ supervisor \in {"report", "drain_failed"}
  /\ Send(Verdict)
  /\ supervisor' = "gone"
  /\ control' = <<>>
  /\ child' = IF child = "running" THEN "killed" ELSE child
  /\ UNCHANGED <<client, input, flags, readers, writer, exit_status,
                 master_closed, produced>>

SupervisorStep ==
  \/ Supervise \/ ReportSupervised \/ ReceiveControl
  \/ Terminate \/ StopWriter \/ CloseMaster
  \/ Drain \/ DrainTimeout \/ Report

-----------------------------------------------------------------------------
(***************************************************************************)
(* handle_socket.  The first message opens a session, or the socket is     *)
(* closed.                                                                 *)
(***************************************************************************)
Open ==
  /\ socket = "opening"
  /\ \/ /\ socket' = "open"
        /\ reader' = "read" /\ writer' = "check" /\ supervisor' = "loop"
        /\ child' = "running"
     \/ /\ socket' = "closed"
        /\ UNCHANGED <<reader, writer, supervisor, child>>
  /\ UNCHANGED <<closing, messages, shown, queues, flags, reader_done, taken,
                 exit_status, master_closed, produced>>

(***************************************************************************)
(* request_close: the message may be dropped, the flag is not.             *)
(***************************************************************************)
RequestCloseByMessage ==
  /\ UNCHANGED close_requested
  /\ writer_stop' = TRUE
  /\ TryControl("close")

RequestClose ==
  /\ close_requested' = TRUE
  /\ writer_stop' = TRUE
  /\ TryControl("close")

(***************************************************************************)
(* The task returns: WebPtySession is dropped, with the events not sent.   *)
(***************************************************************************)
Leave ==
  /\ socket' = "closed"
  /\ RequestClose
  /\ events' = <<>>

Stay == UNCHANGED <<socket, control, flags>>

HandleEvent ==
  /\ socket = "open"
  /\ events # <<>>
  /\ \/ /\ shown' = Append(shown, Head(events))
        /\ IF Head(events) = Exit THEN Leave ELSE Stay /\ events' = Tail(events)
     \/ /\ Leave
        /\ UNCHANGED shown
  /\ UNCHANGED <<closing, messages, input, readers, writer, supervision, process>>

(***************************************************************************)
(* recv answers None when every thread has dropped its sender.             *)
(***************************************************************************)
EventsEnd ==
  /\ socket = "open"
  /\ events = <<>> /\ ThreadsGone
  /\ Leave
  /\ UNCHANGED <<closing, messages, shown, input, readers, writer, supervision,
                 process>>

ClientInput ==
  \/ /\ closing
     /\ Stay /\ UNCHANGED <<closing, input, events>>
  \/ /\ ~closing /\ Gone(writer)
     /\ Leave /\ UNCHANGED <<closing, input>>
  \/ /\ ~closing /\ ~Gone(writer) /\ input < InputCap
     /\ input' = input + 1
     /\ Stay /\ UNCHANGED <<closing, events>>
  \/ /\ ~closing /\ ~Gone(writer) /\ input = InputCap
     /\ closing' = TRUE
     /\ RequestClose /\ UNCHANGED <<socket, input, events>>

ClientResize ==
  \/ /\ closing
     /\ Stay /\ UNCHANGED <<closing, events>>
  \/ /\ ~closing /\ Gone(supervisor)
     /\ Leave /\ UNCHANGED closing
  \/ /\ ~closing /\ ~Gone(supervisor)
     /\ TryControl("resize")
     /\ UNCHANGED <<socket, flags, closing, events>>

ClientClose ==
  /\ closing' = TRUE
  /\ RequestClose
  /\ UNCHANGED <<socket, events>>

ClientMessage ==
  /\ socket = "open"
  /\ messages < MaxMessages
  /\ messages' = messages + 1
  /\ \/ ClientInput
     \/ (ClientResize \/ ClientClose) /\ UNCHANGED input
  /\ UNCHANGED <<shown, readers, writer, supervision, process>>

(***************************************************************************)
(* The client goes away or breaks the protocol, a Pong cannot be sent, or  *)
(* the server drops the task.                                              *)
(***************************************************************************)
Disconnect ==
  /\ socket = "open"
  /\ Leave
  /\ UNCHANGED <<closing, messages, shown, input, readers, writer, supervision,
                 process>>

SocketStep == HandleEvent \/ EventsEnd

-----------------------------------------------------------------------------
(***************************************************************************)
(* The child writes, exits, and dies of a kill.                            *)
(***************************************************************************)
ChildWrites ==
  /\ child \in {"running", "killed"}
  /\ produced < MaxOutput
  /\ produced' = produced + 1
  /\ UNCHANGED <<client, queues, flags, readers, writer, supervision, child>>

ChildExits ==
  /\ child = "running"
  /\ child' = "gone"
  /\ UNCHANGED <<client, queues, flags, readers, writer, supervision, produced>>

KilledDies ==
  /\ child = "killed"
  /\ child' = "gone"
  /\ UNCHANGED <<client, queues, flags, readers, writer, supervision, produced>>

Environment ==
  \/ Open \/ ClientMessage \/ Disconnect
  \/ ReadFails \/ Write \/ WriteFails \/ StatusFails
  \/ ChildWrites \/ ChildExits

Next ==
  \/ ReaderStep \/ WriterStep \/ SupervisorStep \/ SocketStep
  \/ Environment \/ KilledDies

Spec == Init /\ [][Next]_vars

(***************************************************************************)
(* Every thread, and the socket's task, goes on when it can; a killed      *)
(* child dies, and with no child left a write returns and a read meets the *)
(* end of the stream.                                                      *)
(***************************************************************************)
FairSpec ==
  /\ Spec
  /\ WF_vars(ReaderStep) /\ WF_vars(WriterStep) /\ WF_vars(SupervisorStep)
  /\ WF_vars(SocketStep)
  /\ WF_vars(KilledDies)
  /\ WF_vars(child = "gone" /\ (Write \/ WriteFails))

-----------------------------------------------------------------------------
(***************************************************************************)
(* Types of the socket, the threads and the queues.                        *)
(***************************************************************************)
Events ==
  {Output(n) : n \in 1..MaxOutput} \cup {Exit} \cup
  {Error(code) : code \in {"read_failed", "write_failed", "status_failed",
                           "resize_failed", "drain_timeout", "exit_unknown"}}

TypeOK ==
  /\ socket \in {"opening", "open", "closed"}
  /\ input \in 0..InputCap
  /\ control \in Seq({"resize", "close", "reader_failed", "writer_failed"})
  /\ Len(control) <= ControlCap
  /\ events \in Seq(Events) /\ Len(events) <= EventsCap
  /\ shown \in Seq(Events)
  /\ {closing, close_requested, writer_stop, exit_status, reader_done,
      master_closed} \subseteq BOOLEAN
  /\ reader \in {"none", "read", "send", "failed", "done", "gone"}
  /\ writer \in {"none", "check", "receive", "write", "failed", "gone"}
  /\ supervisor \in {"none", "loop", "control", "status_failed", "resize_failed",
                     "terminate", "close", "close_master", "drain", "report",
                     "drain_failed", "gone"}
  /\ child \in {"none", "running", "killed", "gone"}
  /\ messages \in 0..MaxMessages /\ produced \in 0..MaxOutput /\ taken \in 0..produced

(***************************************************************************)
(* How many chunks of output are among the first n events sent.            *)
(***************************************************************************)
Outputs(sent, n) == Cardinality({i \in 1..n : sent[i].kind = "output"})

Contains(sent, event) == \E i \in 1..Len(sent) : sent[i] = event

(***************************************************************************)
(* "final output is delivered before the exit message": the client sees    *)
(* the child's output in order, and an Exit only after all of it, unless   *)
(* the reader failed and said so (spawn_reader, spawn_supervisor).         *)
(***************************************************************************)
ExitIsComplete ==
  /\ TypeOK
  /\ \A i \in DOMAIN shown : shown[i].kind = "output" => shown[i] = Output(Outputs(shown, i))
  /\ Contains(shown, Exit) =>
       Outputs(shown, Len(shown)) = produced \/ Contains(shown, Error("read_failed"))

(***************************************************************************)
(* "Dropping a WebSocket task must never detach a child or a reader/writer *)
(* thread": once the task has returned, the client has asked to close or   *)
(* the child is gone, the child dies, the three threads end and the task   *)
(* returns, whichever queue is full and whichever thread is blocked        *)
(* (request_close, spawn_supervisor, WebPtySession::drop).                 *)
(***************************************************************************)
Ending ==
  \/ closing \/ close_requested \/ child = "gone"
  \/ socket = "closed" /\ child # "none"

SessionOver == socket = "closed" /\ child = "gone" /\ ThreadsGone

SessionEnds == Ending ~> SessionOver

=============================================================================
