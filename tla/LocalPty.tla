------------------------------ MODULE LocalPty ------------------------------
(***************************************************************************)
(* A local console session: the threads of local.rs (main, input, reader,  *)
(* writer), the close state their PTY proxies share (PtyCloseIo), and what *)
(* shutdown_local_pty does with them, the worker reaper included.  The     *)
(* child and the two bounded directions of its PTY are external.           *)
(*                                                                         *)
(* PtyCloseIo's mutex is held by the writer while wpc is "write"; every    *)
(* other use of it is one step.                                            *)
(***************************************************************************)
EXTENDS Integers, Sequences, FiniteSets, FiniteSetsExt

CONSTANTS
  InCap, OutCap,   \* what the PTY holds towards the child and from it
  InputSize,       \* what one input takes of InCap
  MaxKeys,         \* bound: inputs typed
  MaxOutput        \* bound: chunks the child writes

ASSUME LocalPtyAssumption ==
  /\ InCap \in Nat \ {0} /\ OutCap \in Nat \ {0} /\ InputSize \in Nat \ {0}
  /\ MaxKeys \in Nat /\ MaxOutput \in Nat

VARIABLES
  child,             \* "idle", "writing" (it blocks until there is room), "gone"
  killed,            \* terminate has sent its signal
  slave,             \* some process has the slave side open
  pty_in, pty_out,   \* what the PTY holds
  produced, typed,   \* how much was written and typed so far
  closing, has_writer, queries_seen, replies_seen, speculative_reply_sent,
  allow_internal_reply, reader_alive, close_error,    \* PtyCloseIo
  input,             \* the channel of inputs for the writer thread
  main_sender,       \* the main thread still holds its sender
  wpc, writing, left, writer_result,    \* copy_pty_input
  rpc, chunk, reader_result,            \* copy_pty_output
  ipc, input_stop,                      \* the input thread
  main, result, completion_deadline, seen,    \* run, run_input_loop
  close,             \* the PtyMasterClose
  parts,             \* what the close group has not joined
  reaper_runs,       \* the reaper's thread could be started
  jobs, pending,     \* the reaper's jobs, and its counter of them
  errors,            \* how often the failure of a part was reported
  answered           \* history: cursor replies written to the PTY

pty == <<child, killed, slave, pty_in, pty_out, produced>>
close_io == <<closing, has_writer, queries_seen, replies_seen, answered,
              speculative_reply_sent, allow_internal_reply, reader_alive, close_error>>
channel == <<input, main_sender>>
writer == <<wpc, writing, left, writer_result>>
reader == <<rpc, chunk, reader_result>>
keyboard == <<ipc, input_stop, typed>>
control == <<main, result, completion_deadline, seen>>
group == <<close, parts>>
reaper == <<reaper_runs, jobs, pending>>
vars == <<pty, close_io, channel, writer, reader, keyboard, control, group,
          reaper, errors>>

Failures == {"reader", "writer", "close", "input", "group", "child", "loop"}

Init ==
  /\ child = "idle" /\ killed = FALSE /\ slave = TRUE /\ pty_in = 0 /\ pty_out = <<>>
  /\ produced = 0 /\ typed = 0
  /\ closing = FALSE /\ has_writer = TRUE /\ reader_alive = TRUE
  /\ queries_seen = 0 /\ replies_seen = 0 /\ answered = 0
  /\ speculative_reply_sent = FALSE /\ allow_internal_reply = FALSE
  /\ close_error = FALSE
  /\ input = <<>> /\ main_sender = TRUE
  /\ wpc = "receive" /\ writing = "none" /\ left = 0 /\ writer_result = "none"
  /\ rpc = "read" /\ chunk = "none" /\ reader_result = "none"
  /\ ipc = "run" /\ input_stop = FALSE
  /\ main = "loop" /\ result = "none" /\ completion_deadline = FALSE /\ seen = {}
  /\ close = "none" /\ parts = {"close", "reader", "writer"}
  /\ reaper_runs \in BOOLEAN /\ jobs = {} /\ pending = 0
  /\ errors = [f \in Failures |-> 0]

Reported(f) == errors' = [errors EXCEPT ![f] = @ + 1]

-----------------------------------------------------------------------------
(***************************************************************************)
(* The child's program: it reads, writes plain output or a cursor query,   *)
(* and exits.  A process of it may keep the slave open for longer.         *)
(***************************************************************************)
ChildReads ==
  /\ child = "idle" /\ pty_in > 0
  /\ pty_in' = pty_in - 1
  /\ UNCHANGED <<child, killed, slave, pty_out, produced>>

ChildDecides ==
  /\ child = "idle" /\ produced < MaxOutput
  /\ child' = "writing"
  /\ UNCHANGED <<killed, slave, pty_in, pty_out, produced>>

ChildWrites ==
  /\ child = "writing" /\ Len(pty_out) < OutCap
  /\ \E kind \in {"plain", "query"} : pty_out' = Append(pty_out, kind)
  /\ produced' = produced + 1
  /\ child' = "idle"
  /\ UNCHANGED <<killed, slave, pty_in>>

ChildExits ==
  /\ child = "idle"
  /\ child' = "gone"
  /\ UNCHANGED <<killed, slave, pty_in, pty_out, produced>>

SlaveCloses ==
  /\ child = "gone" /\ slave
  /\ slave' = FALSE
  /\ UNCHANGED <<child, killed, pty_in, pty_out, produced>>

(***************************************************************************)
(* The child dies of terminate's signal, or of the one that the drop of    *)
(* the PtySession or the reaper it defers the child to sends.              *)
(***************************************************************************)
KilledDies ==
  /\ killed \/ main \in {"group", "collect", "returned"}
  /\ child # "gone"
  /\ child' = "gone"
  /\ UNCHANGED <<killed, slave, pty_in, pty_out, produced>>

ChildStep ==
  /\ \/ ChildReads \/ ChildDecides \/ ChildWrites \/ ChildExits
     \/ SlaveCloses \/ KilledDies
  /\ UNCHANGED <<close_io, channel, writer, reader, keyboard, control, group,
                 reaper, errors>>

-----------------------------------------------------------------------------
(***************************************************************************)
(* PtyCloseIo.  supplement_cursor_responses answers the queries nobody has *)
(* answered, or sends one reply nobody asked for yet.  A failing write may *)
(* have sent some of them.                                                 *)
(***************************************************************************)
Unlocked == wpc # "write"

MissingAll(queries) == queries

Missing(queries) == Max({0, queries - replies_seen})

Speculative(queries, allow) ==
  allow /\ queries = 0 /\ replies_seen = 0 /\ ~speculative_reply_sent

Supplement(queries, allow) ==
  LET speculative == Missing(queries) = 0 /\ Speculative(queries, allow)
      count == IF speculative THEN 1 ELSE Missing(queries)
  IN  /\ speculative_reply_sent' = (speculative_reply_sent \/ speculative)
      /\ \/ /\ count = 0
            /\ UNCHANGED <<replies_seen, answered, close_error>>
         \/ /\ count > 0 /\ has_writer
            /\ ~slave \/ pty_in < InCap
            /\ replies_seen' = replies_seen + count
            /\ answered' = answered + count
            /\ UNCHANGED close_error
         \/ /\ count > 0 /\ (~has_writer \/ ~slave)
            /\ \E sent \in 0..count - 1 :
                 answered' = answered + (IF has_writer THEN sent ELSE 0)
            /\ close_error' = (close_error \/ ~speculative)
            /\ UNCHANGED replies_seen

NoSupplement == UNCHANGED <<replies_seen, answered, speculative_reply_sent, close_error>>

-----------------------------------------------------------------------------
(***************************************************************************)
(* The input thread, until it is told to stop or the writer is gone.  It   *)
(* also ends when the terminal's events fail, and there is none to speak   *)
(* of when stdin is no terminal.                                           *)
(***************************************************************************)
Type ==
  /\ ipc = "run"
  /\ typed < MaxKeys
  /\ typed' = typed + 1
  /\ IF wpc = "gone" THEN ipc' = "gone" /\ UNCHANGED input
                     ELSE input' = Append(input, "key") /\ UNCHANGED ipc
  /\ UNCHANGED <<pty, close_io, main_sender, writer, reader, input_stop,
                 control, group, reaper, errors>>

InputStops ==
  /\ ipc = "run"
  /\ ipc' = "gone"
  /\ UNCHANGED <<pty, close_io, channel, writer, reader, input_stop, typed,
                 control, group, reaper, errors>>

-----------------------------------------------------------------------------
(***************************************************************************)
(* copy_pty_input over PtyWriterProxy: a write is refused when closing,    *)
(* and holds the lock until the PTY took all of it.  A thread that ends    *)
(* before the close takes the writer with it.                              *)
(***************************************************************************)
WriterEnds(how) ==
  /\ wpc' = "gone"
  /\ writer_result' = how
  /\ input' = <<>>
  /\ has_writer' = (has_writer /\ closing)
  /\ writing' = "none" /\ left' = 0

SendersGone == ~main_sender /\ ipc # "run" /\ rpc = "gone"

ReceiveInput ==
  /\ wpc = "receive"
  /\ \/ /\ input # <<>> /\ (closing \/ ~has_writer)
        /\ WriterEnds("err")
     \/ /\ input # <<>> /\ ~closing /\ has_writer
        /\ wpc' = "write"
        /\ writing' = Head(input) /\ left' = InputSize
        /\ input' = Tail(input)
        /\ UNCHANGED <<writer_result, has_writer>>
     \/ /\ input = <<>> /\ SendersGone
        /\ WriterEnds("ok")
  /\ UNCHANGED <<pty, closing, queries_seen, replies_seen, answered,
                 speculative_reply_sent, allow_internal_reply, reader_alive,
                 close_error, main_sender, reader, keyboard, control, group,
                 reaper, errors>>

WriteSome ==
  /\ wpc = "write" /\ left > 0
  /\ left' = left - 1
  /\ \/ slave /\ pty_in < InCap /\ pty_in' = pty_in + 1
     \/ ~slave /\ UNCHANGED pty_in
  /\ UNCHANGED <<child, killed, slave, pty_out, produced, close_io, channel, wpc,
                 writing, writer_result, reader, keyboard, control, group,
                 reaper, errors>>

(***************************************************************************)
(* The write returns; the flush after it is refused when closing.          *)
(***************************************************************************)
WriteReturns ==
  /\ wpc = "write" /\ left = 0
  /\ replies_seen' = replies_seen + (IF writing = "reply" THEN 1 ELSE 0)
  /\ answered' = answered + (IF writing = "reply" THEN 1 ELSE 0)
  /\ \/ /\ ~closing
        /\ wpc' = "receive" /\ writing' = "none"
        /\ UNCHANGED <<left, writer_result, input, has_writer>>
     \/ closing /\ WriterEnds("err")
  /\ UNCHANGED <<pty, closing, queries_seen, speculative_reply_sent,
                 allow_internal_reply, reader_alive, close_error, main_sender,
                 reader, keyboard, control, group, reaper, errors>>

WriteFails ==
  /\ wpc = "write" /\ ~slave
  /\ WriterEnds("err")
  /\ UNCHANGED <<pty, closing, queries_seen, replies_seen, answered,
                 speculative_reply_sent, allow_internal_reply, reader_alive,
                 close_error, main_sender, reader, keyboard, control, group,
                 reaper, errors>>

WriterStep == ReceiveInput \/ WriteSome \/ WriteReturns

-----------------------------------------------------------------------------
(***************************************************************************)
(* copy_pty_output over PtyReaderProxy: a chunk is read, its queries are   *)
(* counted under the lock, and the terminal's reply to a query is queued.  *)
(***************************************************************************)
Read ==
  /\ rpc = "read"
  /\ \/ /\ pty_out # <<>>
        /\ chunk' = Head(pty_out)
        /\ pty_out' = Tail(pty_out)
        /\ rpc' = "observe"
     \/ /\ pty_out = <<>> /\ ~slave
        /\ rpc' = "finish"
        /\ UNCHANGED <<chunk, pty_out>>
  /\ UNCHANGED <<child, killed, slave, pty_in, produced, close_io, channel, writer,
                 reader_result, keyboard, control, group, reaper, errors>>

Observe ==
  /\ rpc = "observe" /\ Unlocked
  /\ queries_seen' = queries_seen + (IF chunk = "query" THEN 1 ELSE 0)
  /\ IF closing /\ allow_internal_reply THEN Supplement(queries_seen', FALSE) ELSE NoSupplement
  /\ rpc' = "emit"
  /\ UNCHANGED <<pty, closing, has_writer, allow_internal_reply, reader_alive,
                 channel, writer, chunk, reader_result, keyboard, control,
                 group, reaper, errors>>

Emit ==
  /\ rpc = "emit"
  /\ \/ /\ chunk = "query" /\ wpc # "gone"
        /\ input' = Append(input, "reply")
        /\ rpc' = "read"
        /\ UNCHANGED reader_result
     \/ /\ chunk = "query" /\ wpc = "gone"
        /\ rpc' = "finish" /\ reader_result' = "err"
        /\ UNCHANGED input
     \/ /\ chunk = "plain"
        /\ rpc' = "read"
        /\ UNCHANGED <<input, reader_result>>
  /\ chunk' = "none"
  /\ UNCHANGED <<pty, close_io, main_sender, writer, keyboard, control, group,
                 reaper, errors>>

(***************************************************************************)
(* A read, or a write to the user's terminal, fails.                       *)
(***************************************************************************)
ReaderFails ==
  /\ rpc \in {"read", "emit"}
  /\ rpc' = "finish" /\ reader_result' = "err" /\ chunk' = "none"
  /\ UNCHANGED <<pty, close_io, channel, writer, keyboard, control, group,
                 reaper, errors>>

(***************************************************************************)
(* reader_finished, under the lock: the PTY's writer goes with its reader. *)
(***************************************************************************)
FinishReader ==
  /\ rpc = "finish" /\ Unlocked
  /\ rpc' = "gone"
  /\ reader_result' = IF reader_result = "none" THEN "ok" ELSE reader_result
  /\ reader_alive' = FALSE /\ has_writer' = FALSE
  /\ UNCHANGED <<pty, closing, queries_seen, replies_seen, answered,
                 speculative_reply_sent, allow_internal_reply, close_error,
                 channel, writer, chunk, keyboard, control, group, reaper, errors>>

ReaderStep == Read \/ Observe \/ Emit \/ FinishReader

-----------------------------------------------------------------------------
(***************************************************************************)
(* run_input_loop polls the workers' outcomes and the child; the first     *)
(* error, or the child's exit, leaves it.                                  *)
(***************************************************************************)
LeaveLoop(how) == main' = "join_input" /\ result' = how /\ input_stop' = TRUE

LoopStays == UNCHANGED <<main, result, input_stop, errors>>

LoopOutcome(worker, outcome) ==
  /\ outcome # "none" /\ worker \notin seen
  /\ seen' = seen \cup {worker}
  /\ \/ outcome = "err" /\ LeaveLoop("err") /\ Reported(worker)
     \/ outcome = "ok" /\ LoopStays
  /\ completion_deadline' = (completion_deadline \/ worker = "reader")

LoopEnds ==
  \/ child = "gone" /\ LeaveLoop("ok") /\ UNCHANGED errors
  \/ completion_deadline /\ LeaveLoop("err") /\ Reported("loop")

LoopFails == LeaveLoop("err") /\ Reported("loop")

Loop ==
  /\ main = "loop"
  /\ \/ LoopOutcome("reader", reader_result)
     \/ LoopOutcome("writer", writer_result)
     \/ (LoopEnds \/ LoopFails) /\ UNCHANGED <<seen, completion_deadline>>
  /\ UNCHANGED <<pty, close_io, channel, writer, reader, ipc, typed, group, reaper>>

(***************************************************************************)
(* enqueue_job: the reaper's active set, or the fallback of a reaper whose *)
(* thread could not be started.                                            *)
(***************************************************************************)
EnqueueActive(job) ==
  /\ jobs' = IF reaper_runs THEN jobs \cup {job} ELSE jobs
  /\ pending' = pending + 1

Enqueue(job) ==
  /\ jobs' = jobs \cup {job}
  /\ pending' = pending + 1

(***************************************************************************)
(* shutdown_local_pty: the input thread is joined before the deadline or   *)
(* given away, a child that was not reaped is killed, ...                  *)
(***************************************************************************)
JoinInput ==
  /\ main = "join_input"
  /\ \/ ipc # "run" /\ UNCHANGED <<jobs, pending, errors>>
     \/ ipc = "run" /\ Enqueue("input") /\ Reported("input")
  /\ main' = IF result = "ok" THEN "begin_close" ELSE "terminate"
  /\ UNCHANGED <<pty, close_io, channel, writer, reader, keyboard, result,
                 completion_deadline, seen, group, reaper_runs>>

Terminate ==
  /\ main = "terminate"
  /\ killed' = TRUE
  /\ \/ child' = "gone" /\ UNCHANGED errors
     \/ child # "gone" /\ UNCHANGED child /\ Reported("child")
  /\ main' = "begin_close"
  /\ UNCHANGED <<slave, pty_in, pty_out, produced, close_io, channel, writer,
                 reader, keyboard, result, completion_deadline, seen, group, reaper>>

(***************************************************************************)
(* ... begin_close refuses writes, then waits for the lock, answers the    *)
(* queries of a reaped child, and hands out the PtyMasterClose: a thread   *)
(* on Windows, nothing left to do elsewhere.                               *)
(***************************************************************************)
RefuseWrites ==
  /\ main = "begin_close"
  /\ closing' = TRUE
  /\ main' = "close_lock"
  /\ UNCHANGED <<pty, has_writer, queries_seen, replies_seen, answered,
                 speculative_reply_sent, allow_internal_reply, reader_alive,
                 close_error, channel, writer, reader, keyboard, result,
                 completion_deadline, seen, group, reaper, errors>>

KeepSender == UNCHANGED main_sender

DropSender == main_sender' = FALSE

CloseWriter ==
  /\ main = "close_lock" /\ Unlocked
  /\ allow_internal_reply' = (child = "gone")
  /\ has_writer' = (has_writer /\ reader_alive)
  /\ IF reader_alive /\ allow_internal_reply'
     THEN Supplement(queries_seen, TRUE) ELSE NoSupplement
  /\ DropSender
  /\ close' \in {"running", "finished"}
  /\ main' = "group"
  /\ UNCHANGED <<pty, closing, queries_seen, reader_alive, input, writer,
                 reader, keyboard, result, completion_deadline, seen, parts,
                 reaper, errors>>

CloseFinishes ==
  /\ close = "running"
  /\ close' = "finished"
  /\ UNCHANGED <<pty, close_io, channel, writer, reader, keyboard, control,
                 parts, reaper, errors>>

(***************************************************************************)
(* LocalPtyCloseGroup::poll_before joins what has finished.  An outcome    *)
(* the loop has seen already is not reported again.                        *)
(***************************************************************************)
Finished ==
  {p \in parts : \/ p = "close" /\ close = "finished"
                 \/ p = "reader" /\ rpc = "gone"
                 \/ p = "writer" /\ wpc = "gone"}

FailedEvenIfSeen(part) ==
  \/ part = "close" /\ close_error
  \/ part = "reader" /\ (reader_result = "err" \/ part \in seen)
  \/ part = "writer" /\ (writer_result = "err" \/ part \in seen)

Failed(part) ==
  \/ part = "close" /\ close_error
  \/ part = "reader" /\ reader_result = "err" /\ part \notin seen
  \/ part = "writer" /\ writer_result = "err" /\ part \notin seen

PollBefore ==
  /\ parts' = parts \ Finished
  /\ errors' = [f \in Failures |->
                  errors[f] + (IF f \in Finished /\ Failed(f) THEN 1 ELSE 0)]

PollGroup ==
  /\ main = "group"
  /\ PollBefore
  /\ main' = IF parts' = {} THEN "collect" ELSE main
  /\ UNCHANGED <<pty, close_io, channel, writer, reader, keyboard, result,
                 completion_deadline, seen, close, reaper>>

GroupTimeout ==
  /\ main = "group" /\ parts # {}
  /\ Enqueue("group")
  /\ Reported("group")
  /\ main' = "collect"
  /\ UNCHANGED <<pty, close_io, channel, writer, reader, keyboard, result,
                 completion_deadline, seen, group, reaper_runs>>

(***************************************************************************)
(* LocalWorkerJob::poll_before for every job: local_worker_reaper_loop     *)
(* goes on doing it, take_errors does it once for a fallback.              *)
(***************************************************************************)
PollJobs ==
  LET joined == {j \in jobs : \/ j = "input" /\ ipc # "run"
                              \/ j = "group" /\ parts = Finished}
  IN  /\ IF "group" \in jobs THEN PollBefore ELSE UNCHANGED <<parts, errors>>
      /\ jobs' = jobs \ joined
      /\ pending' = pending - Cardinality(joined)

Reap ==
  /\ reaper_runs /\ jobs # {}
  /\ PollJobs
  /\ UNCHANGED <<pty, close_io, channel, writer, reader, keyboard, control,
                 close, reaper_runs>>

Collect ==
  /\ main = "collect"
  /\ main' = "returned"
  /\ IF reaper_runs THEN UNCHANGED <<parts, errors, jobs, pending>> ELSE PollJobs
  /\ UNCHANGED <<pty, close_io, channel, writer, reader, keyboard, result,
                 completion_deadline, seen, close, reaper_runs>>

MainStep ==
  \/ JoinInput \/ Terminate \/ RefuseWrites \/ CloseWriter
  \/ PollGroup \/ GroupTimeout \/ Collect

Next ==
  \/ ChildStep
  \/ Type \/ InputStops
  \/ WriterStep \/ WriteFails
  \/ ReaderStep \/ ReaderFails
  \/ Loop \/ MainStep \/ CloseFinishes
  \/ Reap

Spec == Init /\ [][Next]_vars

(***************************************************************************)
(* Threads that can go on do, and the main thread looks at the child; the  *)
(* child's program reads and writes as far as the PTY lets it, and every   *)
(* process of it lets go of the slave once the child is gone.  A write     *)
(* without a slave returns.                                                *)
(***************************************************************************)
FairSpec ==
  /\ Spec
  /\ WF_vars(ChildStep /\ (ChildReads \/ ChildWrites))
  /\ WF_vars(ChildStep /\ (SlaveCloses \/ KilledDies))
  /\ WF_vars(WriterStep) /\ WF_vars(ReaderStep)
  /\ WF_vars(input_stop /\ InputStops) /\ WF_vars(Loop /\ LoopEnds) /\ WF_vars(MainStep)
  /\ WF_vars(CloseFinishes) /\ WF_vars(Reap)

-----------------------------------------------------------------------------
(***************************************************************************)
(* Types of the PTY, the close state, the threads and the reaper.          *)
(***************************************************************************)
TypeOK ==
  /\ child \in {"idle", "writing", "gone"}
  /\ pty_in \in 0..InCap
  /\ pty_out \in Seq({"plain", "query"}) /\ Len(pty_out) <= OutCap
  /\ {slave, closing, has_writer, speculative_reply_sent, allow_internal_reply,
      reader_alive, close_error, main_sender, input_stop, completion_deadline,
      killed, reaper_runs} \subseteq BOOLEAN
  /\ {queries_seen, replies_seen, answered, pending, left} \subseteq Nat
  /\ input \in Seq({"key", "reply"})
  /\ wpc \in {"receive", "write", "gone"}
  /\ rpc \in {"read", "observe", "emit", "finish", "gone"}
  /\ {writer_result, reader_result} \subseteq {"none", "ok", "err"}
  /\ main \in {"loop", "join_input", "terminate", "begin_close", "close_lock",
               "group", "collect", "returned"}
  /\ parts \subseteq {"close", "reader", "writer"}
  /\ jobs \subseteq {"input", "group"}

(***************************************************************************)
(* A cursor query is answered once: by the terminal while the session      *)
(* runs, by begin_close or observe_reader_queries when it is closing and   *)
(* the child was reaped, and never by both, however the close interleaves  *)
(* with a query on its way through the reader or a reply on its way        *)
(* through the writer.  An answer that cannot be written is recorded.      *)
(***************************************************************************)
QueriesAnsweredOnce ==
  /\ TypeOK
  /\ ~close_error =>
       /\ answered <= Max({queries_seen, IF speculative_reply_sent THEN 1 ELSE 0})
       /\ closing /\ allow_internal_reply /\ reader_alive => queries_seen <= replies_seen

(***************************************************************************)
(* "Callers remain bounded and ownership is kept": what shutdown_local_pty *)
(* has not joined when it returns is a job of the reaper or of its         *)
(* fallback, which counts each of them until it is joined.                 *)
(***************************************************************************)
OwnershipKept ==
  /\ main \in {"collect", "returned"} /\ parts # {} => "group" \in jobs
  /\ main \notin {"loop", "join_input"} /\ ipc = "run" => "input" \in jobs
  /\ pending = Cardinality(jobs)

(***************************************************************************)
(* The outcome of a worker is reported exactly once by the time it was     *)
(* joined, whether run_input_loop, the close group or the reaper saw it    *)
(* first, and a worker that ended well is not reported.                    *)
(***************************************************************************)
OutcomesReportedOnce ==
  \A worker \in {"reader", "writer"} :
    LET outcome == IF worker = "reader" THEN reader_result ELSE writer_result
    IN  /\ errors[worker] <= (IF outcome = "err" THEN 1 ELSE 0)
        /\ worker \notin parts /\ outcome = "err" => errors[worker] = 1

(***************************************************************************)
(* A session that was left returns, and the reaper joins the rest.         *)
(***************************************************************************)
ShutdownReturns ==
  main # "loop" ~> main = "returned" /\ (reaper_runs => jobs = {})

(***************************************************************************)
(* "Spawns a command in a local PTY and prepares independent runtime       *)
(* parts": the reader passes on what it read, whatever the writer waits    *)
(* for (observe_reader_queries).                                           *)
(***************************************************************************)
ReaderIndependent == rpc = "observe" ~> rpc # "observe"

=============================================================================
