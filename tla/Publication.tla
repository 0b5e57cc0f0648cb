---------------------------- MODULE Publication ----------------------------
(***************************************************************************)
(* One pane generation publishing to its host: the replaceable latest      *)
(* frame and wake token (latest.rs), the bounded effect mailbox and the    *)
(* publish and drain operations (batch.rs), the publishing half of the     *)
(* pane worker (pane.rs) and the part of the hub and of the window's poll  *)
(* loop that answers its notices.  Worker and host are threads; a step is  *)
(* one critical section of the slot's or of the mailbox's mutex.           *)
(***************************************************************************)
EXTENDS Integers, Sequences, FiniteSets

CONSTANTS
  MetaKeys,      \* metadata values a frame may change (title, directory...)
  NoFrame,       \* the empty latest slot
  EffectCap,     \* effect_limits, in items
  MaxEffects,    \* max_effects of one drain
  MaxBatch,      \* bound: effects of one batch
  MaxRevision    \* bound: batches of one generation

ASSUME PublicationAssumption ==
  /\ EffectCap \in Nat \ {0}
  /\ MaxEffects \in Nat \ {0}
  /\ MaxBatch \in Nat
  /\ MaxRevision \in Nat \ {0}
  /\ IsFiniteSet(MetaKeys)

VARIABLES
  effects,        \* the effect mailbox
  effects_open,   \* State.accepting of that mailbox
  latest,         \* LatestSlot: State.latest
  wake_pending,   \* LatestSlot: State.wake_pending
  continuation_scheduled,
  notices,        \* the pane's Wake and Closed notices in the hub's mailbox
  notices_open,
  wpc,            \* where the worker is
  resume,         \* where it goes after a wake notice was sent
  revision,       \* the worker's revision and next_effect_sequence
  next_sequence,
  batch,          \* effects of the running publish still to be sent
  held,           \* its frame, until publish_frame
  failed,         \* the batch's transport write failed
  final,          \* the teardown publication is running
  hpc,            \* where the host is
  drained,        \* effects and frame of the running drain
  frame,
  work_remains,   \* what the running drain read from the mailbox metrics
  continuation,   \* RuntimePorts.continuations holds the pane
  pending_closed, \* RuntimeHub.pending_closed holds the pane's Closed
  taken,          \* history: revision of the last frame the host took
  delivered,      \* history: effects of completed drains
  dropped,        \* history: effects of abandoned publications
  host_meta,      \* history: metadata applied from taken frames
  worker_meta,    \* history: metadata of everything published
  unseen          \* history: revisions published since the last take

slot == <<latest, wake_pending, continuation_scheduled>>
mailboxes == <<effects, effects_open, notices, notices_open>>
worker == <<wpc, resume, revision, next_sequence, batch, held, failed, final>>
host == <<hpc, drained, frame, work_remains, continuation, pending_closed>>
seen == <<taken, delivered, host_meta, worker_meta, unseen>>
history == <<seen, dropped>>
vars == <<slot, mailboxes, worker, host, history>>

(***************************************************************************)
(* Metadata maps a key to the revision that last set it, 0 for none.       *)
(***************************************************************************)
Revisions == 1..MaxRevision
Metadata == [MetaKeys -> 0..MaxRevision]
Frame == [revision : Revisions, meta : Metadata, full_repaint : BOOLEAN]
Effect == [revision : Revisions, sequence : Nat]

ASSUME NoFrameAssumption == NoFrame \notin Frame

Overlay(newer, older) == [k \in MetaKeys |-> IF newer[k] # 0 THEN newer[k] ELSE older[k]]

Init ==
  /\ effects = <<>>
  /\ effects_open = TRUE
  /\ latest = NoFrame
  /\ wake_pending = FALSE
  /\ continuation_scheduled = FALSE
  /\ notices = <<>>
  /\ notices_open = TRUE
  /\ wpc = "run"
  /\ resume = "run"
  /\ revision = 1
  /\ next_sequence = 1
  /\ batch = <<>>
  /\ held = NoFrame
  /\ failed = FALSE
  /\ final = FALSE
  /\ hpc = "idle"
  /\ drained = <<>>
  /\ frame = NoFrame
  /\ work_remains = FALSE
  /\ continuation = FALSE
  /\ pending_closed = FALSE
  /\ taken = 0
  /\ delivered = 0
  /\ dropped = 0
  /\ host_meta = [k \in MetaKeys |-> 0]
  /\ worker_meta = [k \in MetaKeys |-> 0]
  /\ unseen = {}

-----------------------------------------------------------------------------
(***************************************************************************)
(* DeltaPublisher::publish up to the call of PanePublication::publish: the *)
(* delta has n host effects and changes the metadata in keys; a transport  *)
(* write may have failed, which ends the worker after the publication.     *)
(***************************************************************************)
NewFrame(keys) ==
  [revision |-> revision,
   meta |-> [k \in MetaKeys |-> IF k \in keys THEN revision ELSE 0],
   full_repaint |-> FALSE]

Begin(n, keys) ==
  /\ batch' = [k \in 1..n |-> [revision |-> revision, sequence |-> next_sequence + k - 1]]
  /\ next_sequence' = next_sequence + n
  /\ held' = NewFrame(keys)
  /\ wpc' = "effects"
  /\ UNCHANGED <<slot, mailboxes, host, history, resume, revision>>

StartBatch(n, keys) ==
  /\ wpc = "run"
  /\ revision < MaxRevision
  /\ failed' \in BOOLEAN
  /\ Begin(n, keys)
  /\ UNCHANGED final

(***************************************************************************)
(* The worker left its loop (end of stream, close, error): the teardown    *)
(* publishes what finish_into flushed, if anything.                        *)
(***************************************************************************)
StartFinal(n, keys) ==
  /\ wpc \in {"run", "leave"}
  /\ final' = TRUE
  /\ failed' = FALSE
  /\ \/ Begin(n, keys)
     \/ /\ n = 0 /\ keys = {}
        /\ wpc' = "joined"
        /\ UNCHANGED <<slot, mailboxes, host, history, resume, revision,
                       next_sequence, batch, held>>

(***************************************************************************)
(* publish, one effect: try_send finds the mailbox closed or the effect    *)
(* larger than its byte budget (any effect may be), admits it, or finds    *)
(* the mailbox full.  Once the frame is out each effect signals by itself. *)
(***************************************************************************)
HasSpace == Len(effects) < EffectCap

EnqueuedFirst == <<Head(batch)>> \o effects

Enqueued == Append(effects, Head(batch))

Abandon ==
  /\ wpc' = "failed"
  /\ batch' = <<>>
  /\ held' = NoFrame
  /\ dropped' = dropped + Len(batch)

TrySend ==
  /\ wpc = "effects"
  /\ batch # <<>>
  /\ \/ /\ Abandon
        /\ UNCHANGED effects
     \/ /\ effects_open /\ HasSpace
        /\ effects' = Enqueued
        /\ batch' = Tail(batch)
        /\ wpc' = IF held = NoFrame THEN "signal" ELSE "effects"
        /\ UNCHANGED <<held, dropped>>
     \/ /\ effects_open /\ ~HasSpace
        /\ wpc' = IF held = NoFrame THEN "send" ELSE "frame"
        /\ UNCHANGED <<effects, batch, held, dropped>>
  /\ UNCHANGED <<slot, effects_open, notices, notices_open, resume, revision,
                 next_sequence, failed, final, host, seen>>

(***************************************************************************)
(* The blocking send of the effect that did not fit.                       *)
(***************************************************************************)
Send ==
  /\ wpc = "send"
  /\ \/ /\ ~effects_open
        /\ Abandon
        /\ UNCHANGED effects
     \/ /\ effects_open /\ HasSpace
        /\ effects' = Enqueued
        /\ batch' = Tail(batch)
        /\ wpc' = "signal"
        /\ UNCHANGED <<held, dropped>>
  /\ UNCHANGED <<slot, effects_open, notices, notices_open, resume, revision,
                 next_sequence, failed, final, host, seen>>

(***************************************************************************)
(* signal_work: only the idle-to-ready transition asks for a wake notice;  *)
(* the worker goes on at "next" otherwise.                                 *)
(***************************************************************************)
SignalWork(next) ==
  \/ /\ wake_pending
     /\ wpc' = next
     /\ UNCHANGED <<wake_pending, continuation_scheduled, resume>>
  \/ /\ ~wake_pending
     /\ wake_pending' = TRUE
     /\ continuation_scheduled' = FALSE
     /\ wpc' = "wake"
     /\ resume' = next

Signal ==
  /\ wpc = "signal"
  /\ SignalWork("effects")
  /\ UNCHANGED <<latest, mailboxes, revision, next_sequence, batch, held,
                 failed, final, host, history>>

(***************************************************************************)
(* PresentationFrame::coalesce_replaced.                                   *)
(***************************************************************************)
CoalescedForgetful(new, replaced) == [new EXCEPT !.full_repaint = TRUE]

Coalesced(new, replaced) ==
  [new EXCEPT !.full_repaint = TRUE,
              !.meta = Overlay(new.meta, replaced.meta)]

(***************************************************************************)
(* publish_frame: LatestSlot::publish, at the end of the batch or before   *)
(* the worker blocks on a full effect mailbox.                             *)
(***************************************************************************)
PublishFrame ==
  /\ held # NoFrame
  /\ wpc = "frame" \/ (wpc = "effects" /\ batch = <<>>)
  /\ latest' = IF latest = NoFrame THEN held ELSE Coalesced(held, latest)
  /\ SignalWork(IF wpc = "frame" THEN "send" ELSE "effects")
  /\ held' = NoFrame
  /\ worker_meta' = Overlay(held.meta, worker_meta)
  /\ unseen' = unseen \cup {held.revision}
  /\ UNCHANGED <<mailboxes, revision, next_sequence, batch, failed, final,
                 host, taken, delivered, dropped, host_meta>>

(***************************************************************************)
(* The wake callback: send_notice(Wake).  A closed hub fails it, and       *)
(* wake_if_needed then closes the effect mailbox.                          *)
(***************************************************************************)
SendWake ==
  /\ wpc = "wake"
  /\ \/ /\ notices_open
        /\ notices' = Append(notices, "wake")
        /\ wpc' = resume
        /\ UNCHANGED <<effects_open, batch, held, dropped>>
     \/ /\ ~notices_open
        /\ effects_open' = FALSE
        /\ Abandon
        /\ UNCHANGED notices
  /\ UNCHANGED <<slot, effects, notices_open, resume, revision, next_sequence,
                 failed, final, host, seen>>

(***************************************************************************)
(* publish returned.  The revision advances only after a batch without     *)
(* error; every error leaves the worker's loop.                            *)
(***************************************************************************)
NextRevisionSame == revision

NextRevision == IF failed THEN revision ELSE revision + 1

EndBatch ==
  /\ \/ wpc = "effects" /\ batch = <<>> /\ held = NoFrame
     \/ wpc = "failed"
  /\ ~final
  /\ revision' = IF wpc = "failed" THEN revision ELSE NextRevision
  /\ wpc' = IF wpc = "failed" \/ failed THEN "leave" ELSE "run"
  /\ failed' = FALSE
  /\ UNCHANGED <<slot, mailboxes, resume, next_sequence, batch, held, final,
                 host, history>>

EndFinal ==
  /\ \/ wpc = "effects" /\ batch = <<>> /\ held = NoFrame
     \/ wpc = "failed"
  /\ final
  /\ wpc' = "joined"
  /\ UNCHANGED <<slot, mailboxes, resume, revision, next_sequence, batch,
                 held, failed, final, host, history>>

(***************************************************************************)
(* The reader is joined and the Closed notice ends the worker.             *)
(***************************************************************************)
SendClosed ==
  /\ wpc = "joined"
  /\ wpc' = "gone"
  /\ notices' = IF notices_open THEN Append(notices, "closed") ELSE notices
  /\ UNCHANGED <<slot, effects, effects_open, notices_open, resume, revision,
                 next_sequence, batch, held, failed, final, host, history>>

-----------------------------------------------------------------------------
(***************************************************************************)
(* PanePublication::has_work, read by the hub after the worker sent Closed *)
(* and so without a race.                                                  *)
(***************************************************************************)
HasWorkFrameOnly == latest # NoFrame

HasWork == latest # NoFrame \/ effects # <<>>

(***************************************************************************)
(* poll: a continuation is served before any notice.                       *)
(***************************************************************************)
HostContinue ==
  /\ hpc = "idle"
  /\ continuation
  /\ continuation' = FALSE
  /\ hpc' = "receive"
  /\ UNCHANGED <<slot, mailboxes, worker, drained, frame, work_remains, pending_closed, history>>

(***************************************************************************)
(* try_recv_notice: a Closed held back is returned once the pane has no    *)
(* work; otherwise the next notice is.  A Closed with work still to drain  *)
(* is held back and answered as a wake.                                    *)
(***************************************************************************)
HostNotice ==
  /\ hpc = "idle"
  /\ ~continuation
  /\ \/ /\ pending_closed /\ ~HasWork
        /\ hpc' = "closed"
        /\ pending_closed' = FALSE
        /\ UNCHANGED notices
     \/ /\ ~(pending_closed /\ ~HasWork)
        /\ notices # <<>>
        /\ notices' = Tail(notices)
        /\ pending_closed' = (pending_closed \/ (Head(notices) = "closed" /\ HasWork))
        /\ hpc' = IF Head(notices) = "wake" \/ HasWork THEN "receive" ELSE "closed"
  /\ UNCHANGED <<slot, effects, effects_open, notices_open, worker, drained, frame,
                 work_remains, continuation, history>>

(***************************************************************************)
(* drain: try_recv until the limit or an empty mailbox ...                 *)
(***************************************************************************)
Receive ==
  /\ hpc = "receive"
  /\ \/ /\ Len(drained) < MaxEffects
        /\ effects # <<>>
        /\ drained' = Append(drained, Head(effects))
        /\ effects' = Tail(effects)
        /\ UNCHANGED hpc
     \/ /\ Len(drained) = MaxEffects \/ effects = <<>>
        /\ hpc' = "measure"
        /\ UNCHANGED <<drained, effects>>
  /\ UNCHANGED <<slot, effects_open, notices, notices_open, worker, frame,
                 work_remains, continuation, pending_closed, history>>

(***************************************************************************)
(* ... then the mailbox metrics are read ...                               *)
(***************************************************************************)
Measure ==
  /\ hpc = "measure"
  /\ work_remains' = (effects # <<>>)
  /\ hpc' = "take"
  /\ UNCHANGED <<slot, mailboxes, worker, drained, frame, continuation,
                 pending_closed, history>>

(***************************************************************************)
(* ... then the frame is taken unless effects remained ...                 *)
(***************************************************************************)
TakeFrame ==
  /\ hpc = "take"
  /\ hpc' = "complete"
  /\ IF work_remains \/ latest = NoFrame
     THEN UNCHANGED <<latest, frame, taken, host_meta, unseen>>
     ELSE /\ latest' = NoFrame
          /\ frame' = latest
          /\ taken' = latest.revision
          /\ host_meta' = Overlay(latest.meta, host_meta)
          /\ unseen' = {}
  /\ UNCHANGED <<wake_pending, continuation_scheduled, mailboxes, worker,
                 drained, work_remains, continuation, pending_closed,
                 delivered, dropped, worker_meta>>

(***************************************************************************)
(* ... and complete_wake returns the token or asks for a continuation.     *)
(***************************************************************************)
CompleteIgnoringSlot(remains) ==
  /\ wake_pending' = remains
  /\ continuation_scheduled' = remains

CompleteKeepingToken(remains) ==
  /\ wake_pending' = TRUE
  /\ continuation_scheduled' = (latest # NoFrame \/ remains)

CompleteWake(remains) ==
  /\ wake_pending' = (latest # NoFrame \/ remains)
  /\ continuation_scheduled' = (latest # NoFrame \/ remains)

EndDrain ==
  /\ hpc = "complete"
  /\ CompleteWake(work_remains)
  /\ delivered' = delivered + Len(drained)
  /\ drained' = <<>>
  /\ frame' = NoFrame
  /\ work_remains' = FALSE
  /\ UNCHANGED <<latest, mailboxes, worker, pending_closed, taken,
                 dropped, host_meta, worker_meta, unseen>>

FinishDrain ==
  /\ EndDrain
  /\ continuation' = continuation_scheduled'
  /\ hpc' = "idle"

(***************************************************************************)
(* RuntimeHub::shutdown: close the notices, interrupt, join.               *)
(***************************************************************************)
Shutdown ==
  /\ hpc = "idle"
  /\ notices_open' = FALSE
  /\ hpc' = "joining"
  /\ UNCHANGED <<slot, effects, effects_open, notices, worker, drained, frame,
                 work_remains, continuation, pending_closed, history>>

Joined ==
  /\ hpc = "joining"
  /\ wpc = "gone"
  /\ hpc' = "stopped"
  /\ UNCHANGED <<slot, mailboxes, worker, drained, frame, work_remains,
                 continuation, pending_closed, history>>

(***************************************************************************)
(* retire_pane_transport: begin_close without grace and reap_expired take  *)
(* the slot out of the hub and hand its join to the reaper; the window     *)
(* drops its continuations, and its later notices are discarded as stale.  *)
(***************************************************************************)
Reap ==
  /\ hpc = "idle"
  /\ hpc' = "reaped"
  /\ continuation' = FALSE
  /\ UNCHANGED <<slot, mailboxes, worker, drained, frame, work_remains,
                 pending_closed, history>>

DiscardStale ==
  /\ hpc = "reaped"
  /\ notices # <<>>
  /\ notices' = Tail(notices)
  /\ UNCHANGED <<slot, effects, effects_open, notices_open, worker, host, history>>

-----------------------------------------------------------------------------
Interrupted == hpc \in {"joining", "reaped"}

PublishStep == TrySend \/ Send \/ Signal \/ PublishFrame \/ SendWake
WorkerNext ==
  \/ \E n \in 0..MaxBatch, keys \in SUBSET MetaKeys :
       StartBatch(n, keys) \/ StartFinal(n, keys)
  \/ PublishStep
  \/ EndBatch
  \/ EndFinal
  \/ SendClosed

DrainStep == Receive \/ Measure \/ TakeFrame \/ FinishDrain
HostNext ==
  \/ HostContinue
  \/ HostNotice
  \/ DrainStep
  \/ Shutdown
  \/ Joined
  \/ Reap
  \/ DiscardStale

Next == WorkerNext \/ HostNext

Spec == Init /\ [][Next]_vars

(***************************************************************************)
(* The worker's thread runs on when it can, and after an interrupt its     *)
(* reader stops and so does its loop; the event loop polls again after     *)
(* every notice and continuation, because both call the host's waker.      *)
(***************************************************************************)
Fairness ==
  /\ WF_vars(PublishStep)
  /\ WF_vars(EndBatch \/ EndFinal \/ SendClosed)
  /\ WF_vars(Interrupted /\ \E n \in 0..MaxBatch, keys \in SUBSET MetaKeys :
                              StartFinal(n, keys))
  /\ WF_vars(HostContinue \/ HostNotice)
  /\ WF_vars(DrainStep)
  /\ WF_vars(Joined)
  /\ WF_vars(DiscardStale)

FairSpec == Spec /\ Fairness

-----------------------------------------------------------------------------
WorkerPlaces == {"run", "leave", "effects", "frame", "send", "signal", "wake",
                 "failed", "joined", "gone"}
DrainPlaces == {"receive", "measure", "take", "complete"}
HostPlaces == DrainPlaces \cup {"idle", "closed", "joining", "stopped", "reaped"}

(***************************************************************************)
(* Types of the publication, the two threads and the history.              *)
(***************************************************************************)
TypeOK ==
  /\ effects \in Seq(Effect) /\ Len(effects) <= EffectCap
  /\ latest \in Frame \cup {NoFrame}
  /\ notices \in Seq({"wake", "closed"})
  /\ {effects_open, wake_pending, continuation_scheduled, notices_open, failed,
      final, work_remains, continuation, pending_closed} \subseteq BOOLEAN
  /\ wpc \in WorkerPlaces
  /\ resume \in {"run", "effects", "send"}
  /\ revision \in Revisions
  /\ next_sequence \in Nat
  /\ batch \in Seq(Effect)
  /\ held \in Frame \cup {NoFrame}
  /\ hpc \in HostPlaces
  /\ drained \in Seq(Effect) /\ Len(drained) <= MaxEffects
  /\ frame \in Frame \cup {NoFrame}
  /\ taken \in 0..MaxRevision
  /\ delivered \in Nat /\ dropped \in Nat
  /\ host_meta \in Metadata /\ worker_meta \in Metadata
  /\ unseen \subseteq Revisions

(***************************************************************************)
(* At most one wake token per generation is on its way: a Wake notice,     *)
(* about to be sent or queued in the hub, a continuation or a running      *)
(* drain.  While the host serves the pane a pending wake is such a token,  *)
(* and a token outside a drain is pending (LatestSlot, PanePublication     *)
(* ::drain, RuntimeHub::try_recv_notice).                                  *)
(***************************************************************************)
Count(b) == IF b THEN 1 ELSE 0
Tokens == Cardinality({i \in DOMAIN notices : notices[i] = "wake"}) + Count(wpc = "wake")
            + Count(continuation) + Count(hpc \in DrainPlaces)

WakeTokenExact ==
  /\ TypeOK
  /\ Tokens <= 1
  /\ hpc \in DrainPlaces \cup {"idle"} /\ wake_pending => Tokens = 1
  /\ Tokens = 1 /\ hpc = "idle" => wake_pending

(***************************************************************************)
(* Lossless effects: delivered, being drained, queued and still to be sent *)
(* are in strictly increasing sequence, every issued effect is in one of   *)
(* these places or was dropped by an abandoned publication, and without    *)
(* one they are consecutive (PanePublication::publish and drain).          *)
(***************************************************************************)
InFlight == drained \o effects \o batch

EffectsInOrder ==
  /\ delivered + Len(InFlight) + dropped = next_sequence - 1
  /\ \A i \in 1..Len(InFlight) :
       /\ i > 1 => InFlight[i].sequence > InFlight[i-1].sequence
       /\ InFlight[i].sequence \in (delivered + i)..(delivered + i + dropped)

(***************************************************************************)
(* A frame that was replaced before the host took it is covered by the one *)
(* that replaced it: what the host applied, overlaid by the waiting frame, *)
(* is all the metadata the worker published (merge_metadata), and a        *)
(* waiting frame whose damage is partial is the only one published since   *)
(* the host last took one (PresentationFrame::coalesce_replaced).          *)
(***************************************************************************)
SkippedFramesCovered ==
  /\ worker_meta = IF latest = NoFrame THEN host_meta ELSE Overlay(latest.meta, host_meta)
  /\ latest # NoFrame /\ ~latest.full_repaint => unseen = {latest.revision}

(***************************************************************************)
(* The host hears Closed only after it drained all the generation          *)
(* published: every effect not dropped, the last frame, all its metadata   *)
(* (RuntimeHub::try_recv_notice, take_drained_close).                      *)
(***************************************************************************)
ClosedAfterDrain ==
  hpc = "closed" =>
    /\ delivered + dropped = next_sequence - 1
    /\ unseen = {}
    /\ host_meta = worker_meta

(***************************************************************************)
(* A published frame reaches the host, unless the hub gives up on the pane *)
(* (LatestSlot::complete_wake, PanePublication::drain).                    *)
(***************************************************************************)
FrameReachesHost ==
  latest # NoFrame ~> latest = NoFrame \/ hpc \in {"joining", "stopped", "reaped"}

(***************************************************************************)
(* Every frame is newer than those published before it.  Only the          *)
(* teardown may publish under the revision of the batch whose failure      *)
(* ended the worker, which "strictly increasing pane revision" does not    *)
(* say (run_worker, PresentationFrame.revision).                           *)
(***************************************************************************)
RevisionsAdvance ==
  [][latest' \notin {NoFrame, latest} =>
       \A r \in unseen \cup {taken} :
         latest'.revision > r \/ (final /\ latest'.revision = r)]_vars

=============================================================================
