----------------------------- MODULE PaneWorker -----------------------------
(***************************************************************************)
(* The two threads of one pane generation (pane.rs): the reader, which     *)
(* turns transport reads into inbox messages, and the worker, which owns   *)
(* the terminal, with the bounded inbox and notice mailbox between them    *)
(* and the hub, and the window's side of the pane: the queue of commands   *)
(* the inbox had no room for, retried by WindowPaneRuntime::poll.  A       *)
(* mailbox call is one step, as Mailbox justifies; the worker's            *)
(* publication, which Publication details, succeeds, fails, has to send a  *)
(* Wake or waits until the host has drained effects.  The transport is     *)
(* external: it is what reader, writer, control and interrupt see of it.   *)
(***************************************************************************)
EXTENDS Integers, Sequences

(***************************************************************************)
(* As in SequencesExt, whose other definitions would slow every proof.     *)
(***************************************************************************)
Last(s) == s[Len(s)]

Front(s) == SubSeq(s, 1, Len(s) - 1)

IsPrefix(s, t) == Len(s) <= Len(t) /\ SubSeq(s, 1, Len(s)) = SubSeq(t, 1, Len(s))

CONSTANTS
  InboxCap,     \* inbox_limits, in items
  NoticeCap,    \* limits of the hub's notice mailbox, in items
  MaxOutput,    \* bound: chunks the transport delivers
  MaxInput      \* bound: commands the window submits

ASSUME PaneWorkerAssumption ==
  /\ InboxCap \in Nat \ {0}
  /\ NoticeCap \in Nat \ {0}
  /\ MaxOutput \in Nat
  /\ MaxInput \in Nat

VARIABLES
  inbox, inbox_open,        \* the mailbox of PaneMessage
  accepting,                \* PaneHandle.accepting
  handles,                  \* hub and window hold clones of the PaneHandle
  pending_commands,         \* the pane's PendingPaneCommandQueue
  host,                     \* where the window's thread is in submit and poll
  notices, notices_open,    \* the pane's part of the notice mailbox
  rpc, reading,             \* the reader and the message it sends
  wpc,                      \* where the worker is
  pending_message,          \* at most one message put back
  batch_bytes,              \* output chunks of the running batch
  observed_exit,
  exited,                   \* the child process has exited
  interrupted,              \* SessionInterrupt::interrupt was called
  control_closed,           \* SessionControl::begin_close was called
  produced,                 \* history: chunks read from the transport
  parsed,                   \* history: chunks fed to the terminal
  submitted,                \* history: the kinds of the commands submitted
  written,                  \* history: inputs passed to the writer
  left                      \* history: why the worker left its loop

channels == <<inbox, inbox_open, accepting, notices, notices_open>>
reader == <<rpc, reading, produced>>
worker == <<wpc, pending_message, batch_bytes, observed_exit, parsed, written, left>>
transport == <<exited, interrupted, control_closed>>
window == <<handles, pending_commands, host, submitted>>
vars == <<channels, reader, worker, transport, window>>

(***************************************************************************)
(* PaneMessage.  Output and Input carry the number of their chunk.         *)
(***************************************************************************)
Message(kind, id) == [kind |-> kind, id |-> id]
ReaderEnd == {Message("eof", 0), Message("error", 0)}

Init ==
  /\ inbox = <<>> /\ inbox_open = TRUE
  /\ accepting = TRUE /\ handles = TRUE
  /\ pending_commands = <<>> /\ host = "idle"
  /\ notices = <<>> /\ notices_open = TRUE
  /\ rpc = "read" /\ reading = <<>>
  /\ wpc = "ready"
  /\ pending_message = <<>>
  /\ batch_bytes = <<>>
  /\ observed_exit = FALSE
  /\ exited = FALSE /\ interrupted = FALSE /\ control_closed = FALSE
  /\ produced = 0
  /\ parsed = <<>>
  /\ submitted = <<>>
  /\ written = <<>>
  /\ left = "no"

(***************************************************************************)
(* A send to the notice mailbox: it waits for space and fails once closed. *)
(***************************************************************************)
Notify(notice) ==
  /\ notices_open
  /\ Len(notices) < NoticeCap
  /\ notices' = Append(notices, notice)

(***************************************************************************)
(* Room in the inbox.                                                      *)
(***************************************************************************)
InboxFits == Len(inbox) < InboxCap

-----------------------------------------------------------------------------
(***************************************************************************)
(* run_reader.  A read returns a chunk, the end of the stream or an error; *)
(* the first chunk is announced before it is sent.                         *)
(***************************************************************************)
Read ==
  /\ rpc = "read"
  /\ \/ /\ produced < MaxOutput
        /\ produced' = produced + 1
        /\ reading' = <<Message("output", produced')>>
        /\ rpc' = IF produced = 0 THEN "announce" ELSE "send"
     \/ /\ \E message \in ReaderEnd : reading' = <<message>>
        /\ rpc' = "send"
        /\ UNCHANGED produced
  /\ UNCHANGED <<channels, worker, transport, window>>

Announce ==
  /\ rpc = "announce"
  /\ \/ /\ Notify("first_byte")
        /\ rpc' = "send"
        /\ UNCHANGED reading
     \/ /\ ~notices_open
        /\ rpc' = "gone"
        /\ reading' = <<>>
        /\ UNCHANGED notices
  /\ UNCHANGED <<inbox, inbox_open, accepting, notices_open, produced, worker,
                 transport, window>>

ReaderSend ==
  /\ rpc = "send"
  /\ \/ /\ inbox_open
        /\ InboxFits
        /\ inbox' = inbox \o reading
        /\ rpc' = IF reading[1] \in ReaderEnd THEN "gone" ELSE "read"
     \/ /\ ~inbox_open
        /\ rpc' = "gone"
        /\ UNCHANGED inbox
  /\ reading' = <<>>
  /\ UNCHANGED <<inbox_open, accepting, notices, notices_open, produced,
                 worker, transport, window>>

-----------------------------------------------------------------------------
(***************************************************************************)
(* run_worker.  A Ready that cannot be sent stops the worker before its    *)
(* loop: it interrupts the session and joins the reader, its inbox still   *)
(* open.                                                                   *)
(***************************************************************************)
SendReady ==
  /\ wpc = "ready"
  /\ \/ /\ Notify("ready")
        /\ wpc' = "next"
        /\ UNCHANGED <<accepting, interrupted>>
     \/ /\ ~notices_open
        /\ accepting' = FALSE
        /\ interrupted' = TRUE
        /\ wpc' = "abandon"
        /\ UNCHANGED notices
  /\ UNCHANGED <<inbox, inbox_open, notices_open, reader, pending_message,
                 batch_bytes, observed_exit, parsed, written, left, exited,
                 control_closed, window>>

AbandonJoin ==
  /\ wpc = "abandon"
  /\ rpc = "gone"
  /\ wpc' = "gone"
  /\ inbox' = <<>>
  /\ inbox_open' = FALSE
  /\ UNCHANGED <<accepting, notices, notices_open, reader, pending_message,
                 batch_bytes, observed_exit, parsed, written, left, transport,
                 window>>

(***************************************************************************)
(* The worker's loop acts on one message.  Input is written, a resize      *)
(* changes the terminal, output opens a batch; the others end the loop.    *)
(***************************************************************************)
Leave(why) == wpc' = "leave" /\ left' = why

Dispatch(message) ==
  \/ /\ message.kind = "input"
     /\ wpc' = "write"
     /\ batch_bytes' = <<message.id>>
     /\ UNCHANGED left
  \/ /\ message.kind = "output"
     /\ wpc' \in {"collect", "parse"}
     /\ batch_bytes' = <<message.id>>
     /\ UNCHANGED left
  \/ /\ message.kind = "resize"
     /\ \/ wpc' = "publish" /\ UNCHANGED left
        \/ Leave("failure")
     /\ UNCHANGED batch_bytes
  \/ /\ message.kind \in {"eof", "error", "close"}
     /\ Leave(message.kind)
     /\ UNCHANGED batch_bytes

(***************************************************************************)
(* next_worker_message: the message put back, else one from the inbox, or  *)
(* none ever when every sender is gone ...                                 *)
(***************************************************************************)
PendingFirst == pending_message # <<>>

NextMessage ==
  /\ wpc = "next"
  /\ \/ /\ PendingFirst
        /\ Dispatch(pending_message[1])
        /\ pending_message' = <<>>
        /\ UNCHANGED inbox
     \/ /\ ~PendingFirst
        /\ inbox # <<>>
        /\ Dispatch(Head(inbox))
        /\ inbox' = Tail(inbox)
        /\ UNCHANGED pending_message
     \/ /\ ~PendingFirst
        /\ inbox = <<>> /\ ~handles /\ rpc = "gone"
        /\ Leave("closed")
        /\ UNCHANGED <<inbox, pending_message, batch_bytes>>
  /\ UNCHANGED <<inbox_open, accepting, notices, notices_open, reader,
                 observed_exit, parsed, written, transport, window>>

(***************************************************************************)
(* ... and when none came for a while the child is polled.  An exit starts *)
(* the platform close, and the loop goes on until the reader ends.         *)
(***************************************************************************)
ClosedOnExit == TRUE

AfterExitLeave == Leave("eof")

AfterExit == UNCHANGED <<wpc, left>>

PollExit ==
  /\ wpc = "next"
  /\ pending_message = <<>>
  /\ inbox = <<>>
  /\ ~observed_exit
  /\ exited
  /\ observed_exit' = TRUE
  /\ control_closed' = ClosedOnExit
  /\ AfterExit
  /\ UNCHANGED <<channels, reader, pending_message, batch_bytes, parsed,
                 written, exited, interrupted, window>>

(***************************************************************************)
(* poll_exit, or the begin_close after it, failed.                         *)
(***************************************************************************)
PollFails ==
  /\ wpc = "next"
  /\ pending_message = <<>>
  /\ inbox = <<>>
  /\ ~observed_exit
  /\ observed_exit' \in {FALSE, exited}
  /\ Leave("failure")
  /\ UNCHANGED <<channels, reader, pending_message, batch_bytes, parsed,
                 written, transport, window>>

(***************************************************************************)
(* Input: write_all succeeds or fails, then report_write sends a notice.   *)
(* A writer that answers ErrorKind::Interrupted, over which write_all      *)
(* starts anew, is outside the contract this module assumes.               *)
(***************************************************************************)
Write ==
  /\ wpc = "write"
  /\ \/ /\ written' = written \o batch_bytes
        /\ wpc' = "report"
        /\ UNCHANGED left
     \/ /\ Leave("failure")
        /\ UNCHANGED written
  /\ batch_bytes' = <<>>
  /\ UNCHANGED <<channels, reader, pending_message, observed_exit, parsed,
                 transport, window>>

Report ==
  /\ wpc = "report"
  /\ \/ /\ Notify("written")
        /\ wpc' = "next"
        /\ UNCHANGED left
     \/ /\ ~notices_open
        /\ Leave("failure")
        /\ UNCHANGED notices
  /\ UNCHANGED <<inbox, inbox_open, accepting, notices_open, reader,
                 pending_message, batch_bytes, observed_exit, parsed, written,
                 transport, window>>

(***************************************************************************)
(* collect_output_batch: output already queued joins the batch until the   *)
(* policy's bytes, items or latency end it; the message that does not      *)
(* belong to it is put back.                                               *)
(***************************************************************************)
JoinedInFront(id) == <<id>> \o batch_bytes

Joined(id) == Append(batch_bytes, id)

PutBack(message) == <<message>>

Collect ==
  /\ wpc = "collect"
  /\ \/ /\ inbox = <<>>
        /\ wpc' = "parse"
        /\ UNCHANGED <<inbox, batch_bytes, pending_message>>
     \/ /\ inbox # <<>>
        /\ inbox' = Tail(inbox)
        /\ \/ /\ Head(inbox).kind = "output"
              /\ batch_bytes' = Joined(Head(inbox).id)
              /\ wpc' \in {"collect", "parse"}
              /\ UNCHANGED pending_message
           \/ /\ pending_message' = PutBack(Head(inbox))
              /\ wpc' = "parse"
              /\ UNCHANGED batch_bytes
  /\ UNCHANGED <<inbox_open, accepting, notices, notices_open, reader,
                 observed_exit, parsed, written, left, transport, window>>

Parse ==
  /\ wpc = "parse"
  /\ parsed' = parsed \o batch_bytes
  /\ batch_bytes' = <<>>
  /\ wpc' = "publish"
  /\ UNCHANGED <<channels, reader, pending_message, observed_exit, written,
                 left, transport, window>>

(***************************************************************************)
(* DeltaPublisher::publish: no notice, a Wake or a write report, an error, *)
(* or a wait for room among the effects.  Only a drain makes room, and the *)
(* hub drains no pane it reaped.                                           *)
(***************************************************************************)
Publish ==
  /\ wpc = "publish"
  /\ \/ /\ wpc' \in {"next", "publish_full"}
        /\ UNCHANGED <<notices, left>>
     \/ /\ Notify("wake")
        /\ wpc' = "next"
        /\ UNCHANGED left
     \/ /\ Leave("failure")
        /\ UNCHANGED notices
  /\ UNCHANGED <<inbox, inbox_open, accepting, notices_open, reader,
                 pending_message, batch_bytes, observed_exit, parsed, written,
                 transport, window>>

(***************************************************************************)
(* The teardown: refuse input, close the inbox, interrupt, close the       *)
(* transport; publish what was flushed; join the reader; send Closed.      *)
(***************************************************************************)
InboxLeftOpen == inbox_open

InboxClosed == FALSE

CloseInbox ==
  /\ wpc = "leave"
  /\ accepting' = FALSE
  /\ inbox_open' = InboxClosed
  /\ interrupted' = TRUE
  /\ control_closed' = TRUE
  /\ wpc' = "flush"
  /\ UNCHANGED <<inbox, notices, notices_open, reader, pending_message,
                 batch_bytes, observed_exit, parsed, written, left, exited,
                 window>>

PublishFlushed ==
  /\ wpc = "flush"
  /\ \/ wpc' \in {"join", "flush_full"} /\ UNCHANGED notices
     \/ wpc' = "join" /\ Notify("wake")
  /\ UNCHANGED <<inbox, inbox_open, accepting, notices_open, reader,
                 pending_message, batch_bytes, observed_exit, parsed, written,
                 left, transport, window>>

DrainEffects ==
  /\ handles /\ notices_open /\ host # "failed"
  /\ \/ wpc = "publish_full" /\ wpc' = "publish"
     \/ wpc = "flush_full" /\ wpc' = "flush"
  /\ UNCHANGED <<channels, reader, pending_message, batch_bytes,
                 observed_exit, parsed, written, left, transport, window>>

ReaderNotJoined == TRUE

ReaderJoined == rpc = "gone"

JoinReader ==
  /\ wpc = "join"
  /\ ReaderJoined
  /\ wpc' = "closed"
  /\ UNCHANGED <<channels, reader, pending_message, batch_bytes,
                 observed_exit, parsed, written, left, transport, window>>

SendClosed ==
  /\ wpc = "closed"
  /\ \/ Notify("closed")
     \/ ~notices_open /\ UNCHANGED notices
  /\ wpc' = "gone"
  /\ inbox' = <<>>
  /\ UNCHANGED <<inbox_open, accepting, notices_open, reader, pending_message,
                 batch_bytes, observed_exit, parsed, written, left, transport,
                 window>>

-----------------------------------------------------------------------------
(***************************************************************************)
(* submit_input queues the chunks of one input, submit_resize replaces a   *)
(* resize at the queue's end; only a queue that was empty is flushed.      *)
(***************************************************************************)
SubmitInput(chunks) ==
  pending_commands' =
    pending_commands \o [i \in 1..chunks |-> Message("input", Len(submitted) + i)]

SubmitResize ==
  LET command == Message("resize", Len(submitted) + 1)
      replaces == pending_commands # <<>> /\ Last(pending_commands).kind = "resize"
  IN  pending_commands' =
        Append(IF replaces THEN Front(pending_commands) ELSE pending_commands, command)

Submit ==
  /\ handles /\ host = "idle"
  /\ \/ \E chunks \in 1..MaxInput - Len(submitted) :
          /\ SubmitInput(chunks)
          /\ submitted' = submitted \o [i \in 1..chunks |-> "input"]
     \/ /\ Len(submitted) < MaxInput
        /\ SubmitResize
        /\ submitted' = Append(submitted, "resize")
  /\ host' = IF pending_commands = <<>> THEN "submit" ELSE "idle"
  /\ UNCHANGED <<channels, reader, worker, transport, handles>>

(***************************************************************************)
(* WindowPaneRuntime::poll retries the queue, and returns the error of a   *)
(* retry before it looks at a notice: about_to_wait then leaves the event  *)
(* loop.                                                                   *)
(***************************************************************************)
PollWithoutRetry ==
  /\ host = "idle" /\ notices_open
  /\ host' = "receive"
  /\ UNCHANGED <<channels, reader, worker, transport, handles, pending_commands,
                 submitted>>

Poll ==
  /\ host = "idle" /\ notices_open
  /\ host' = "retry"
  /\ UNCHANGED <<channels, reader, worker, transport, handles, pending_commands,
                 submitted>>

(***************************************************************************)
(* PendingPaneCommandQueue::flush submits the queued commands one by one,  *)
(* each kept until PaneHandle::submit accepts it, and stops at a full      *)
(* inbox.  A pane that no longer accepts answers Closed: flush fails, and  *)
(* the command stays.                                                      *)
(***************************************************************************)
Refused == ~(accepting /\ inbox_open)

PopBack(commands) == Front(commands)

PopFront(commands) == Tail(commands)

FlushOne ==
  /\ host \in {"submit", "retry"}
  /\ pending_commands # <<>> /\ ~Refused /\ InboxFits
  /\ inbox' = Append(inbox, Head(pending_commands))
  /\ pending_commands' = PopFront(pending_commands)
  /\ UNCHANGED <<inbox_open, accepting, notices, notices_open, reader, worker,
                 transport, handles, host, submitted>>

FlushEnds ==
  /\ pending_commands = <<>> \/ Refused \/ ~InboxFits
  /\ \/ host = "submit" /\ host' = "idle"
     \/ /\ host = "retry"
        /\ host' = IF pending_commands # <<>> /\ Refused THEN "failed" ELSE "receive"
  /\ UNCHANGED <<channels, reader, worker, transport, handles, pending_commands,
                 submitted>>

(***************************************************************************)
(* ... then the notices there are; Closed removes the handle and what is   *)
(* queued, and a Wake that leaves a continuation ends the turn.            *)
(***************************************************************************)
ReceiveNotice ==
  /\ host = "receive"
  /\ notices # <<>>
  /\ notices' = Tail(notices)
  /\ \/ /\ Head(notices) = "closed"
        /\ handles' = FALSE
        /\ pending_commands' = <<>>
        /\ UNCHANGED host
     \/ /\ Head(notices) # "closed"
        /\ host' \in {"receive", IF Head(notices) = "wake" THEN "idle" ELSE "receive"}
        /\ UNCHANGED <<handles, pending_commands>>
  /\ UNCHANGED <<inbox, inbox_open, accepting, notices_open, reader, worker,
                 transport, submitted>>

PollDone ==
  /\ host = "receive"
  /\ notices = <<>>
  /\ host' = "idle"
  /\ UNCHANGED <<channels, reader, worker, transport, handles,
                 pending_commands, submitted>>

(***************************************************************************)
(* RuntimeHub::begin_close: request_close drops the Close that does not    *)
(* fit.                                                                    *)
(***************************************************************************)
RequestClose ==
  /\ handles /\ accepting /\ host = "idle"
  /\ accepting' = FALSE
  /\ inbox' = IF inbox_open /\ InboxFits
              THEN Append(inbox, Message("close", 0)) ELSE inbox
  /\ UNCHANGED <<inbox_open, notices, notices_open, reader, worker, transport,
                 window>>

(***************************************************************************)
(* RuntimeHub::reap_expired, as retire_pane calls it: the session is       *)
(* interrupted, the slot dropped, and the window forgets the handle and    *)
(* the commands; the pane's later notices are stale.                       *)
(***************************************************************************)
Reap ==
  /\ handles /\ notices_open /\ host = "idle"
  /\ ~accepting
  /\ interrupted' = TRUE
  /\ handles' = FALSE
  /\ pending_commands' = <<>>
  /\ UNCHANGED <<channels, reader, worker, exited, control_closed, host, submitted>>

(***************************************************************************)
(* The hub is shut down: notices are closed, the session is interrupted,   *)
(* and the slot, its handle included, is held while the worker is joined.  *)
(***************************************************************************)
Shutdown ==
  /\ notices_open /\ host \in {"idle", "failed"}
  /\ notices_open' = FALSE
  /\ IF handles THEN accepting' = FALSE /\ interrupted' = TRUE
                ELSE UNCHANGED <<accepting, interrupted>>
  /\ UNCHANGED <<inbox, inbox_open, notices, reader, worker, exited,
                 control_closed, window>>

ChildExits ==
  /\ ~exited
  /\ exited' = TRUE
  /\ UNCHANGED <<channels, reader, worker, interrupted, control_closed, window>>

ReaderStep == Read \/ Announce \/ ReaderSend

WorkerStep ==
  \/ SendReady \/ AbandonJoin
  \/ NextMessage \/ PollExit
  \/ Write \/ Report
  \/ Collect \/ Parse \/ Publish
  \/ CloseInbox \/ PublishFlushed \/ JoinReader \/ SendClosed

WindowStep ==
  \/ Submit
  \/ Poll \/ FlushOne \/ FlushEnds \/ ReceiveNotice \/ PollDone
  \/ RequestClose \/ Reap \/ DrainEffects \/ Shutdown

Next == ReaderStep \/ WorkerStep \/ PollFails \/ WindowStep \/ ChildExits

Spec == Init /\ [][Next]_vars

(***************************************************************************)
(* Threads that can go on do; the hub's thread polls, drains included; the *)
(* transport ends a read, and lets a write return, once the session was    *)
(* interrupted or closed (SessionInterrupt's contract).  A read or a write *)
(* may otherwise block forever, a child may run forever, and no exit poll  *)
(* need fail.  The batch is published at some point: a wait for room is a  *)
(* bounded number of waits.                                                *)
(***************************************************************************)
Ending == interrupted \/ control_closed

FairSpec ==
  /\ Spec
  /\ WF_vars(Ending /\ Read)
  /\ WF_vars(Announce) /\ WF_vars(ReaderSend)
  /\ WF_vars(Ending /\ Write)
  /\ WF_vars(WorkerStep /\ wpc # "write")
  /\ SF_vars(Publish /\ wpc' # "publish_full") /\ SF_vars(PublishFlushed /\ wpc' # "flush_full")
  /\ WF_vars(Poll \/ FlushOne \/ FlushEnds \/ ReceiveNotice \/ PollDone)
  /\ WF_vars(host = "failed" /\ Shutdown) /\ WF_vars(DrainEffects)

-----------------------------------------------------------------------------
(***************************************************************************)
(* Types of mailboxes, threads and histories.                              *)
(***************************************************************************)
Messages == [kind : {"input", "resize", "output", "eof", "error", "close"}, id : Nat]

TypeOK ==
  /\ inbox \in Seq(Messages) /\ Len(inbox) <= InboxCap
  /\ notices \in Seq({"ready", "first_byte", "wake", "written", "closed"})
  /\ Len(notices) <= NoticeCap
  /\ {inbox_open, notices_open, accepting, handles, observed_exit, exited,
      interrupted, control_closed} \subseteq BOOLEAN
  /\ rpc \in {"read", "announce", "send", "gone"}
  /\ wpc \in {"ready", "abandon", "next", "write", "report", "collect", "parse",
             "publish", "publish_full", "leave", "flush", "flush_full", "join",
             "closed", "gone"}
  /\ \A s \in {pending_message, reading} : s \in Seq(Messages) /\ Len(s) <= 1
  /\ left \in {"no", "eof", "error", "close", "closed", "failure"}
  /\ pending_commands \in Seq(Messages)
  /\ host \in {"idle", "submit", "retry", "receive", "failed"}

(***************************************************************************)
(* The numbers of one kind of message, in order.                           *)
(***************************************************************************)
Of(kind, messages) ==
  LET first[n \in 0..Len(messages)] ==
        IF n = 0 THEN <<>>
        ELSE IF messages[n].kind = kind THEN Append(first[n-1], messages[n].id)
        ELSE first[n-1]
  IN  first[Len(messages)]

InHand(steps) == IF wpc \in steps THEN batch_bytes ELSE <<>>

(***************************************************************************)
(* Output is parsed in the order it was read, and until the worker leaves  *)
(* its loop every chunk is parsed or on its way, batching and the message  *)
(* put back included (run_reader, collect_output_batch,                    *)
(* next_worker_message).  Only a reader whose first-byte notice was        *)
(* refused drops its chunk.                                                *)
(***************************************************************************)
OutputInOrder ==
  LET read == [i \in 1..produced |-> i]
      coming == parsed \o InHand({"collect", "parse"}) \o
                Of("output", pending_message \o inbox \o reading)
  IN  /\ TypeOK
      /\ IsPrefix(parsed, read)
      /\ left = "no" /\ wpc # "gone" =>
           coming = read \/ (~notices_open /\ rpc = "gone" /\ IsPrefix(coming, read))

(***************************************************************************)
(* "Interactive key input is never silently dropped": what the window      *)
(* submits is written in the order of submission, whatever had to wait for *)
(* the inbox, and until the pane closes none is lost (submit_input,        *)
(* flush, run_worker).                                                     *)
(***************************************************************************)
InputInOrder ==
  LET given == Of("input", [i \in DOMAIN submitted |-> Message(submitted[i], i)])
  IN  /\ IsPrefix(written, given)
      /\ left = "no" /\ wpc # "gone" /\ handles =>
           written \o InHand({"write"}) \o
             Of("input", pending_message \o inbox \o pending_commands) = given

(***************************************************************************)
(* "Keep consuming until ReaderEof/ReaderError arrives"                    *)
(* (next_worker_message): a worker that was not told to close and met no   *)
(* failure has parsed everything the transport delivered, also when the    *)
(* child's exit was seen first.                                            *)
(***************************************************************************)
OutputComplete ==
  left \in {"eof", "error"} => parsed = [i \in 1..produced |-> i]

(***************************************************************************)
(* "The worker and its blocking reader have stopped" (PaneNotice::Closed): *)
(* a pane sends no notice after its Closed.                                *)
(***************************************************************************)
ClosedIsLast == [][wpc = "gone" => Len(notices') <= Len(notices)]_vars

(***************************************************************************)
(* A pane ends.  An interrupt ends both threads, whichever of them is      *)
(* blocked in what, unless the worker waits for room among effects that    *)
(* nobody drains any more (PanePublication::publish) or the hub shut down  *)
(* while                                                                   *)
(*   - the worker waits for a reader that ended without a last message,    *)
(*     because its first-byte notice was refused (run_reader), or          *)
(*   - the worker has given up at its Ready and joins a reader that waits  *)
(*     for room in the inbox (run_worker).                                 *)
(* The exit of the child does it too, as long as the hub is polled and no  *)
(* write blocks for good (next_worker_message).                            *)
(***************************************************************************)
Ended == wpc = "gone" /\ rpc = "gone"
Undrained == (~handles \/ ~notices_open) /\ wpc \in {"publish_full", "flush_full"}
ReaderSilent == wpc = "next" /\ rpc = "gone" /\ inbox = <<>> /\ pending_message = <<>>
StartBlocked == wpc = "abandon" /\ rpc = "send" /\ ~InboxFits

PaneEnds ==
  /\ interrupted ~> \/ Ended \/ Undrained
                    \/ ~notices_open /\ (ReaderSilent \/ StartBlocked)
  /\ []<>(wpc # "write") => (exited ~> Ended \/ Undrained \/ ~notices_open)

(***************************************************************************)
(* "Ordinary keys can be scheduled on the next event-loop turn": a command *)
(* that found the inbox full is submitted again until the pane takes it,   *)
(* stops accepting or is gone, unless a write blocks for good (poll,       *)
(* needs_poll).                                                            *)
(***************************************************************************)
PendingRetried ==
  []<>(wpc # "write") =>
    (pending_commands # <<>> ~> pending_commands = <<>> \/ ~accepting \/ Undrained)

(***************************************************************************)
(* A poll of a pane that closes succeeds, as a test of the composition     *)
(* expects ("poll queued output and close").                               *)
(***************************************************************************)
PollSurvivesClose == host # "failed"

=============================================================================
