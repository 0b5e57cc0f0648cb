---------------------------- MODULE HostDelivery ----------------------------
(***************************************************************************)
(* What the window does with the drains of Publication: RuntimePorts       *)
(* ::drain_runtime groups effects by revision until a frame releases them, *)
(* WinitHost::drain_runtime_turn reduces the resulting intents within the  *)
(* turn's budget, and reduce_runtime_batch accepts or discards each.  The  *)
(* pane's drains and its worker are those of Publication, which this       *)
(* module implements.                                                      *)
(***************************************************************************)
EXTENDS Publication

VARIABLES
  source_continuation, \* WinitHost.source_continuation holds the pane
  batches,             \* pending_runtime_batches: revision -> effects waiting
  intents,             \* pending_runtime_intents
  reduced,             \* intents reduced in the running turn
  pending_frames,      \* RuntimePorts.pending_frames: revision -> frame
  pane_revision,       \* PaneState.revision, 0 for None
  expected,            \* PaneState.effect_sequence.expected
  executed             \* history: sequences of the effects executed

window == <<source_continuation, batches, intents, reduced, pending_frames,
            pane_revision, expected, executed>>
dvars == <<vars, window>>

DInit ==
  /\ Init
  /\ source_continuation = FALSE
  /\ batches = [r \in Revisions |-> <<>>]
  /\ intents = <<>>
  /\ reduced = 0
  /\ pending_frames = [r \in Revisions |-> NoFrame]
  /\ pane_revision = 0
  /\ expected = 1
  /\ executed = <<>>

-----------------------------------------------------------------------------
(***************************************************************************)
(* drain_runtime_turn: intents left over from an earlier turn are reduced  *)
(* before anything is drained.                                             *)
(***************************************************************************)
TurnContinue ==
  \/ /\ intents = <<>>
     /\ HostContinue
     /\ UNCHANGED window
  \/ /\ intents # <<>>
     /\ hpc = "idle"
     /\ continuation
     /\ continuation' = FALSE
     /\ hpc' = "reduce"
     /\ UNCHANGED <<slot, mailboxes, worker, drained, frame, work_remains,
                    pending_closed, history, window>>

TurnNotice == HostNotice /\ UNCHANGED window

DrainTurn == (Receive \/ Measure \/ TakeFrame) /\ UNCHANGED window

(***************************************************************************)
(* drain_runtime: one by one the effects join the batch of their revision  *)
(* (the batches once n have); a frame releases every batch up to its own   *)
(* revision, oldest first.                                                 *)
(***************************************************************************)
Gathered[n \in 0..Len(drained)] ==
  IF n = 0 THEN batches
  ELSE [Gathered[n-1] EXCEPT ![drained[n].revision] = Append(@, drained[n])]

Grouped == Gathered[Len(drained)]

Released ==
  IF frame = NoFrame THEN {}
  ELSE {r \in 1..frame.revision : Grouped[r] # <<>> \/ r = frame.revision}

Ascending(S) ==
  CHOOSE s \in [1..Cardinality(S) -> S] : \A i, j \in DOMAIN s : i < j => s[i] < s[j]

Intent(r) ==
  [revision |-> r,
   frame |-> IF frame # NoFrame /\ r = frame.revision THEN frame ELSE NoFrame,
   effects |-> [i \in DOMAIN Grouped[r] |-> Grouped[r][i].sequence]]

FrameForgotten == pending_frames

FrameRemembered ==
  IF frame = NoFrame THEN pending_frames
  ELSE [pending_frames EXCEPT ![frame.revision] = frame]

DrainRuntime ==
  /\ EndDrain
  /\ source_continuation' = (source_continuation \/ continuation_scheduled')
  /\ batches' = [r \in Revisions |-> IF r \in Released THEN <<>> ELSE Grouped[r]]
  /\ intents' = [i \in 1..Cardinality(Released) |-> Intent(Ascending(Released)[i])]
  /\ pending_frames' = FrameRemembered
  /\ hpc' = "reduce"
  /\ UNCHANGED <<continuation, reduced, pane_revision, expected, executed>>

(***************************************************************************)
(* reduce_runtime_batch of the next intent and the execution of its        *)
(* effects: a stale revision and a sequence that validate_batch rejects    *)
(* discard the whole batch.                                                *)
(***************************************************************************)
ValidatesAnything(sequences) == TRUE

Validates(sequences) == \A i \in DOMAIN sequences : sequences[i] = expected + i - 1

Accepted(intent) ==
  /\ intent.revision > pane_revision
  /\ Validates(intent.effects)

WithinTurnBudget == reduced < MaxEffects

ReduceBatch ==
  /\ hpc = "reduce"
  /\ intents # <<>>
  /\ WithinTurnBudget
  /\ intents' = Tail(intents)
  /\ reduced' = reduced + 1
  /\ LET intent == Head(intents) IN
     IF Accepted(intent)
     THEN /\ pane_revision' = intent.revision
          /\ expected' = expected + Len(intent.effects)
          /\ executed' = executed \o intent.effects
          /\ pending_frames' = IF intent.frame = NoFrame THEN pending_frames
                               ELSE [pending_frames EXCEPT ![intent.revision] = NoFrame]
     ELSE UNCHANGED <<pane_revision, expected, executed, pending_frames>>
  /\ UNCHANGED <<vars, source_continuation, batches>>

(***************************************************************************)
(* The turn ends with the queue, the budget or, after one intent, the      *)
(* time; what is left schedules one continuation.                          *)
(***************************************************************************)
EndTurnForgetful ==
  /\ continuation' = (intents # <<>>)
  /\ source_continuation' = FALSE

EndTurnSourceOnly ==
  /\ continuation' = source_continuation
  /\ source_continuation' = FALSE

EndTurn ==
  /\ continuation' = (intents # <<>> \/ source_continuation)
  /\ source_continuation' = (source_continuation /\ intents # <<>>)

FinishTurn ==
  /\ hpc = "reduce"
  /\ intents = <<>> \/ reduced > 0
  /\ EndTurn
  /\ reduced' = 0
  /\ hpc' = "idle"
  /\ UNCHANGED <<slot, mailboxes, worker, drained, frame, work_remains,
                 pending_closed, history, batches, intents, pending_frames,
                 pane_revision, expected, executed>>

(***************************************************************************)
(* retire_pane_transport: reap, then forget the token's window state.      *)
(***************************************************************************)
Retire ==
  /\ Reap
  /\ source_continuation' = FALSE
  /\ batches' = [r \in Revisions |-> <<>>]
  /\ intents' = <<>>
  /\ pending_frames' = [r \in Revisions |-> NoFrame]
  /\ UNCHANGED <<reduced, pane_revision, expected, executed>>

DNext ==
  \/ (WorkerNext \/ Shutdown \/ Joined \/ DiscardStale) /\ UNCHANGED window
  \/ TurnContinue
  \/ TurnNotice
  \/ DrainTurn
  \/ DrainRuntime
  \/ ReduceBatch
  \/ FinishTurn
  \/ Retire

DSpec == DInit /\ [][DNext]_dvars

(***************************************************************************)
(* The worker publishes on, and the event loop finishes its turn and polls *)
(* again while a notice or a continuation is there.                        *)
(***************************************************************************)
DFairSpec ==
  /\ DSpec
  /\ WF_dvars((PublishStep \/ EndBatch \/ EndFinal \/ SendClosed) /\ UNCHANGED window)
  /\ WF_dvars(TurnContinue \/ TurnNotice \/ DrainTurn \/ DrainRuntime \/ FinishTurn)
  /\ WF_dvars(ReduceBatch)

-----------------------------------------------------------------------------
(***************************************************************************)
(* Types of the window's runtime state.                                    *)
(***************************************************************************)
WindowTypeOK ==
  /\ source_continuation \in BOOLEAN
  /\ batches \in [Revisions -> Seq(Effect)]
  /\ \A i \in DOMAIN intents : intents[i] \in
       [revision : Revisions, frame : Frame \cup {NoFrame}, effects : Seq(Nat)]
  /\ reduced \in 0..MaxEffects
  /\ pending_frames \in [Revisions -> Frame \cup {NoFrame}]
  /\ pane_revision \in 0..MaxRevision
  /\ expected \in Nat

(***************************************************************************)
(* The window's turns implement the publication's drains: a turn that only *)
(* reduces left-over intents is invisible to the hub, and a drain the hub  *)
(* asked for is still owed after it (WinitHost.source_continuation).       *)
(***************************************************************************)
Owed == source_continuation \/ (continuation /\ intents = <<>>)
Pub == INSTANCE Publication WITH
         continuation <- Owed,
         hpc <- IF hpc = "reduce" THEN "idle" ELSE hpc

PubSpec == Pub!Spec

(***************************************************************************)
(* Effects are executed exactly once and in sequence without a gap,        *)
(* whatever drains, groups and turns they came in (reduce_runtime_batch,   *)
(* EffectSequenceCursor::validate_batch).                                  *)
(***************************************************************************)
ExecutedInSequence ==
  WindowTypeOK /\ executed = [i \in 1..(expected - 1) |-> i]

(***************************************************************************)
(* Every intent that carries a frame finds it in pending_frames when the   *)
(* reducer applies it: the "missing full terminal presentation" error of   *)
(* RuntimePorts::renderer cannot occur, even with revisions published      *)
(* twice.                                                                  *)
(***************************************************************************)
FrameAvailable ==
  \A i \in DOMAIN intents :
    intents[i].frame # NoFrame => pending_frames[intents[i].revision] = intents[i].frame

(***************************************************************************)
(* Intents cut off by the turn's budget are reduced by later turns, unless *)
(* the pane is retired or the window shuts down (drain_runtime_turn,       *)
(* schedule_continuation).                                                 *)
(***************************************************************************)
IntentsReduced == intents # <<>> ~> intents = <<>> \/ hpc \in {"joining", "stopped"}

=============================================================================
