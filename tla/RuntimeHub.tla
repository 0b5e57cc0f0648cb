----------------------------- MODULE RuntimeHub -----------------------------
(***************************************************************************)
(* The pane generations of one window: the runtime hub (hub.rs,            *)
(* shutdown.rs), its generation allocator (api.rs), and the window that    *)
(* opens, closes, retires and polls panes through it (WindowPaneRuntime in *)
(* runtime_composition.rs, the lifecycle reducer of panes/mod.rs).  Hub    *)
(* and window share one thread.  A pane's worker is reduced to what the    *)
(* hub sees of it: work published, notices sent, its exit.  A generation   *)
(* stands for its token; owner gives the token's pane.                     *)
(***************************************************************************)
EXTENDS HubPanes, Integers, Sequences

CONSTANTS
  MaxGen,      \* PaneGeneration::MAX
  MaxWork      \* bound: drains that a generation's published work takes

None == 0

ASSUME HubAssumption ==
  /\ None \notin Panes
  /\ MaxGen \in Nat \ {0}
  /\ MaxWork \in Nat \ {0}

Gens == 1..MaxGen

VARIABLES
  counter,        \* NEXT_PANE_GENERATION, 0 once exhausted
  owner,          \* pane of each issued generation
  slot,           \* RuntimeHub.panes: pane -> generation or None
  deadline,       \* PaneSlot.close_deadline: "none", "running" or "crossed"
  notices,        \* the notice mailbox
  notices_open,
  pending_closed, \* RuntimeHub.pending_closed
  reaper,         \* WorkerReaper.joins
  worker,         \* state of each generation's worker
  interrupted,    \* generations whose transport was interrupted
  asked,          \* generations that got a Close message
  work,           \* drains it takes to empty the publication
  wake_pending,   \* LatestSlot wake token
  shown,          \* WindowState.panes: pane -> generation or None
  handles,        \* RuntimePorts.handles
  closing,        \* WindowPaneRuntime.closing
  continuations,  \* RuntimePorts.continuations
  serving,        \* continuations taken by the running poll
  phase           \* where the window's thread is

hub == <<counter, owner, slot, deadline, pending_closed, reaper>>
mail == <<notices, notices_open>>
workers == <<worker, interrupted, asked>>
publication == <<work, wake_pending>>
window == <<shown, handles, closing, continuations, serving>>
vars == <<hub, mail, workers, publication, window, phase>>

Init ==
  /\ counter = 1
  /\ owner = [g \in Gens |-> None]
  /\ slot = [p \in Panes |-> None]
  /\ deadline = [p \in Panes |-> "none"]
  /\ notices = <<>>
  /\ notices_open = TRUE
  /\ pending_closed = {}
  /\ reaper = {}
  /\ worker = [g \in Gens |-> "none"]
  /\ interrupted = {}
  /\ asked = {}
  /\ work = [g \in Gens |-> 0]
  /\ wake_pending = [g \in Gens |-> FALSE]
  /\ shown = [p \in Panes |-> None]
  /\ handles = [p \in Panes |-> None]
  /\ closing = {}
  /\ continuations = {}
  /\ serving = {}
  /\ phase = "idle"

Current(g) == slot[owner[g]] = g
HasWork(g) == work[g] > 0
Alive(g) == worker[g] \in {"live", "blocked"}
Notice(kind, g) == [kind |-> kind, gen |-> g]

-----------------------------------------------------------------------------
(***************************************************************************)
(* The worker: it publishes, blocks in a transport write for as long as    *)
(* the peer likes, and exits: by itself, because it was asked to, or       *)
(* because an interrupt released it.  Its last publication precedes its    *)
(* Closed.                                                                 *)
(***************************************************************************)
Publish(g) ==
  /\ worker[g] = "live"
  /\ work' \in {[work EXCEPT ![g] = n] : n \in 1..MaxWork}
  /\ work'[g] >= work[g]
  /\ wake_pending' = [wake_pending EXCEPT ![g] = TRUE]
  /\ notices' = IF wake_pending[g] \/ ~notices_open THEN notices
                ELSE Append(notices, Notice("wake", g))
  /\ UNCHANGED <<hub, notices_open, workers, window, phase>>

Block(g) ==
  /\ worker[g] = "live"
  /\ g \notin interrupted
  /\ worker' = [worker EXCEPT ![g] = "blocked"]
  /\ UNCHANGED <<hub, mail, interrupted, asked, publication, window, phase>>

Unblock(g) ==
  /\ worker[g] = "blocked"
  /\ worker' = [worker EXCEPT ![g] = "live"]
  /\ UNCHANGED <<hub, mail, interrupted, asked, publication, window, phase>>

Exit(g) ==
  /\ worker[g] = "live" \/ (worker[g] = "blocked" /\ g \in interrupted)
  /\ worker' = [worker EXCEPT ![g] = "gone"]
  /\ notices' = IF notices_open THEN Append(notices, Notice("closed", g)) ELSE notices
  /\ UNCHANGED <<hub, notices_open, interrupted, asked, publication, window, phase>>

(***************************************************************************)
(* A close deadline passes.                                                *)
(***************************************************************************)
Cross(p) ==
  /\ deadline[p] = "running"
  /\ deadline' = [deadline EXCEPT ![p] = "crossed"]
  /\ UNCHANGED <<counter, owner, slot, pending_closed, reaper, mail, workers,
                 publication, window, phase>>

-----------------------------------------------------------------------------
(***************************************************************************)
(* reap_expired once the panes in due have crossed their deadlines: their  *)
(* sessions are interrupted, their joins handed to the reaper and finished *)
(* joins reaped.                                                           *)
(***************************************************************************)
Crossed == {p \in Panes : slot[p] # None /\ deadline[p] = "crossed"}

Unfinished(gens) == {g \in gens : worker[g] # "gone"}

HandoffForgotten(gens) == Unfinished(reaper)

Handoff(gens) == Unfinished(reaper \cup gens)

KeptAll(due) == slot

Kept(due) == [p \in Panes |-> IF p \in due THEN None ELSE slot[p]]

ReapExpired(due) ==
  /\ deadline' = [p \in Panes |-> IF p \in due THEN "none" ELSE deadline[p]]
  /\ interrupted' = interrupted \cup {slot[p] : p \in due}
  /\ reaper' = Handoff({slot[p] : p \in due})

(***************************************************************************)
(* issue_pane_generation: 0 after the last generation, and no wrap.        *)
(***************************************************************************)
NextCounter == IF counter \in {0, MaxGen} THEN 0 ELSE counter + 1

(***************************************************************************)
(* add_transport.  For a pane the window shows restart_with_runtime closes *)
(* and reaps the old generation, and every other expired one.  Then        *)
(* open_with_runtime issues a generation and spawns its threads; either    *)
(* may fail, which returns at once.  Success installs slot, handle and,    *)
(* through Opened, the window's pane.                                      *)
(***************************************************************************)
AddTransport(p) ==
  LET replaced == IF shown[p] = None THEN {} ELSE {slot[p]} \ {None}
      due == IF replaced = {} THEN {} ELSE Crossed \cup {p}
  IN
  /\ phase = "idle"
  /\ shown[p] = None => slot[p] = None
  /\ asked' = asked \cup replaced
  /\ IF due = {} THEN UNCHANGED <<deadline, interrupted, reaper>> ELSE ReapExpired(due)
  /\ counter' = NextCounter
  /\ \/ /\ counter # 0
        /\ slot' = [Kept(due) EXCEPT ![p] = counter]
        /\ owner' = [owner EXCEPT ![counter] = p]
        /\ worker' = [worker EXCEPT ![counter] = "live"]
        /\ handles' = [handles EXCEPT ![p] = counter]
        /\ shown' = [shown EXCEPT ![p] = counter]
        /\ closing' = {g \in closing : owner[g] # p}
     \/ /\ slot' = Kept(due)
        /\ UNCHANGED <<owner, worker, handles, shown, closing>>
  /\ UNCHANGED <<pending_closed, mail, publication, continuations, serving, phase>>

(***************************************************************************)
(* begin_close_pane, with or without grace.  The Close message may find    *)
(* the inbox full and is then dropped.                                     *)
(***************************************************************************)
BeginClose(p, grace) ==
  /\ phase = "idle"
  /\ shown[p] # None
  /\ shown[p] \notin closing
  /\ slot[p] = shown[p]
  /\ asked' \in {asked, asked \cup {slot[p]}}
  /\ deadline' = [deadline EXCEPT ![p] = IF grace THEN "running" ELSE "crossed"]
  /\ closing' = closing \cup {shown[p]}
  /\ UNCHANGED <<counter, owner, slot, pending_closed, reaper, mail, worker,
                 interrupted, publication, shown, handles, continuations,
                 serving, phase>>

(***************************************************************************)
(* retire_pane_transport: begin_close without grace, reap_expired, Closed  *)
(* for the window, and the token's window state dropped.                   *)
(***************************************************************************)
Retire(p) ==
  LET token == shown[p]
      due == Crossed \cup {q \in {p} : slot[q] = token}
  IN
  /\ phase = "idle"
  /\ token # None
  /\ asked' = IF slot[p] = token THEN asked \cup {token} ELSE asked
  /\ ReapExpired(due)
  /\ slot' = Kept(due)
  /\ shown' = [shown EXCEPT ![p] = None]
  /\ handles' = [handles EXCEPT ![p] = None]
  /\ continuations' = continuations \ {token}
  /\ closing' = closing \ {token}
  /\ UNCHANGED <<counter, owner, pending_closed, mail, worker, publication,
                 serving, phase>>

-----------------------------------------------------------------------------
(***************************************************************************)
(* One turn of the window for a token, as Publication and HostDelivery     *)
(* show it: drain_pane empties the publication and returns its wake token, *)
(* or leaves work and schedules a continuation; what a live worker queues  *)
(* during the drain may be left without a wake.  A token the window still  *)
(* shows but the hub no longer holds fails the drain: poll returns the     *)
(* error and the application leaves its event loop.                        *)
(***************************************************************************)
Turn(g, next) ==
  \/ /\ shown[owner[g]] # g
     /\ phase' = next
     /\ UNCHANGED <<publication, continuations>>
  \/ /\ shown[owner[g]] = g /\ Current(g)
     /\ LET remains == work[g] > 1 IN
        /\ \/ work' = [work EXCEPT ![g] = IF @ = 0 THEN 0 ELSE @ - 1]
           \/ /\ ~remains /\ worker[g] = "live"
              /\ work' \in {[work EXCEPT ![g] = n] : n \in 1..MaxWork}
        /\ wake_pending' = [wake_pending EXCEPT ![g] = remains]
        /\ continuations' = IF remains THEN continuations \cup {g} ELSE continuations
     /\ phase' = next
  \/ /\ shown[owner[g]] = g /\ ~Current(g)
     /\ phase' = "failed"
     /\ UNCHANGED <<publication, continuations>>

(***************************************************************************)
(* poll: the continuations scheduled before it, then notices as long as no *)
(* new continuation is scheduled.  Commands queued for the panes are       *)
(* flushed first; a flush that fails, because a pane with queued commands  *)
(* no longer accepts any, ends the event loop before anything else was     *)
(* done, which is the Shutdown of an idle window.                          *)
(***************************************************************************)
PollBegin ==
  /\ phase = "idle"
  /\ serving' = continuations
  /\ continuations' = {}
  /\ phase' = "serve"
  /\ UNCHANGED <<hub, mail, workers, publication, shown, handles, closing>>

PollContinue(g) ==
  /\ phase = "serve"
  /\ g \in serving
  /\ serving' = serving \ {g}
  /\ Turn(g, "serve")
  /\ UNCHANGED <<hub, mail, workers, shown, handles, closing>>

PollServed ==
  /\ phase = "serve"
  /\ serving = {}
  /\ phase' = IF continuations = {} THEN "notices" ELSE "idle"
  /\ UNCHANGED <<hub, mail, workers, publication, window>>

(***************************************************************************)
(* finish_closed_slot of the notice's pane, then poll's Closed handler.    *)
(***************************************************************************)
CloseSlot(g) ==
  LET p == owner[g] IN
  /\ slot' = [slot EXCEPT ![p] = None]
  /\ deadline' = [deadline EXCEPT ![p] = "none"]
  /\ reaper' = IF slot[p] = None THEN reaper ELSE Handoff({slot[p]})
  /\ shown' = [shown EXCEPT ![p] = IF @ = g THEN None ELSE @]
  /\ handles' = [handles EXCEPT ![p] = None]
  /\ closing' = closing \ {g}

(***************************************************************************)
(* take_drained_close: a held Closed whose generation has no work, or is   *)
(* no longer in the hub.                                                   *)
(***************************************************************************)
Drained == {g \in pending_closed : ~Current(g) \/ ~HasWork(g)}

PollHeldClose(g) ==
  /\ phase = "notices"
  /\ g \in Drained
  /\ pending_closed' = pending_closed \ {g}
  /\ CloseSlot(g)
  /\ UNCHANGED <<counter, owner, mail, workers, publication, continuations,
                 serving, phase>>

(***************************************************************************)
(* try_recv_notice: a stale notice is discarded, a Closed with work to     *)
(* drain is held and answered as a wake.                                   *)
(***************************************************************************)
HoldForgotten(g) == pending_closed

Hold(g) == pending_closed \cup {g}

PollNotice ==
  /\ phase = "notices"
  /\ Drained = {}
  /\ notices # <<>>
  /\ notices' = Tail(notices)
  /\ LET n == Head(notices)
         g == n.gen
     IN
     \/ /\ ~Current(g)
        /\ UNCHANGED <<hub, publication, window, phase>>
     \/ /\ Current(g)
        /\ n.kind = "wake" \/ HasWork(g)
        /\ pending_closed' = IF n.kind = "closed" THEN Hold(g) ELSE pending_closed
        /\ Turn(g, IF continuations' = {} THEN "notices" ELSE "idle")
        /\ UNCHANGED <<counter, owner, slot, deadline, reaper, shown, handles,
                       closing, serving>>
     \/ /\ Current(g)
        /\ n.kind = "closed" /\ ~HasWork(g)
        /\ CloseSlot(g)
        /\ UNCHANGED <<counter, owner, pending_closed, publication,
                       continuations, serving, phase>>
  /\ UNCHANGED <<notices_open, workers>>

PollEnd ==
  /\ phase = "notices"
  /\ Drained = {}
  /\ notices = <<>>
  /\ phase' = "idle"
  /\ UNCHANGED <<hub, mail, workers, publication, window>>

-----------------------------------------------------------------------------
(***************************************************************************)
(* RuntimeHub::shutdown, when the window closes, its last pane closed or   *)
(* poll failed: close the notices, interrupt every slot, join every slot   *)
(* and the reaper.                                                         *)
(***************************************************************************)
InterruptSlots == interrupted \cup {slot[p] : p \in {q \in Panes : slot[q] # None}}

Shutdown ==
  /\ phase \in {"idle", "failed"}
  /\ notices_open' = FALSE
  /\ interrupted' = InterruptSlots
  /\ phase' = "joining"
  /\ UNCHANGED <<hub, notices, worker, asked, publication, window>>

Joined ==
  /\ phase = "joining"
  /\ \A g \in Gens : g \in reaper \/ (owner[g] # None /\ Current(g)) => ~Alive(g)
  /\ slot' = [p \in Panes |-> None]
  /\ reaper' = {}
  /\ phase' = "stopped"
  /\ UNCHANGED <<counter, owner, deadline, pending_closed, mail, workers,
                 publication, window>>

PollStep ==
  \/ PollBegin
  \/ \E g \in Gens : PollContinue(g)
  \/ PollServed
  \/ \E g \in Gens : PollHeldClose(g)
  \/ PollNotice
  \/ PollEnd

Next ==
  \/ \E g \in Gens : Publish(g) \/ Block(g) \/ Unblock(g) \/ Exit(g)
  \/ \E p \in Panes : Cross(p) \/ AddTransport(p) \/ Retire(p)
  \/ \E p \in Panes, grace \in BOOLEAN : BeginClose(p, grace)
  \/ PollStep
  \/ Shutdown
  \/ Joined

Spec == Init /\ [][Next]_vars

(***************************************************************************)
(* The event loop polls, as every notice and continuation wakes it, and a  *)
(* failed poll ends it.  Nothing is assumed of the workers.                *)
(***************************************************************************)
FairSpec == Spec /\ WF_vars(PollStep) /\ WF_vars(phase = "failed" /\ Shutdown)

-----------------------------------------------------------------------------
(***************************************************************************)
(* Types of hub, workers and window.                                       *)
(***************************************************************************)
TypeOK ==
  /\ counter \in 0..MaxGen
  /\ owner \in [Gens -> Panes \cup {None}]
  /\ {slot, shown, handles} \subseteq [Panes -> Gens \cup {None}]
  /\ deadline \in [Panes -> {"none", "running", "crossed"}]
  /\ notices \in Seq([kind : {"wake", "closed"}, gen : Gens])
  /\ notices_open \in BOOLEAN
  /\ UNION {pending_closed, reaper, interrupted, asked, closing, continuations,
            serving} \subseteq Gens
  /\ worker \in [Gens -> {"none", "live", "blocked", "gone"}]
  /\ work \in [Gens -> 0..MaxWork]
  /\ wake_pending \in [Gens -> BOOLEAN]
  /\ phase \in {"idle", "serve", "notices", "failed", "joining", "stopped"}

(***************************************************************************)
(* "Ownership is never detached silently": the thread of every generation  *)
(* that has not exited is joinable through its slot or the reaper          *)
(* (reap_expired, finish_closed_slot, WorkerReaper).                       *)
(***************************************************************************)
WorkersOwned ==
  \A g \in Gens : Alive(g) => Current(g) \/ g \in reaper

(***************************************************************************)
(* A generation the hub serves is the one the window shows and holds the   *)
(* handle of (add_transport, retire_pane_transport, poll).                 *)
(***************************************************************************)
HubMatchesWindow ==
  /\ TypeOK
  /\ \A p \in Panes : slot[p] # None =>
       shown[p] = slot[p] /\ handles[p] = slot[p] /\ owner[slot[p]] = p

(***************************************************************************)
(* The exit of a pane's worker reaches the window, unless the pane is      *)
(* reaped or replaced or the window shuts down, provided that from time to *)
(* time no continuation is left: poll returns before it takes a notice as  *)
(* long as one is (poll).                                                  *)
(***************************************************************************)
ContinuationsEnd == []<>(continuations \cup serving = {})

Held(g) == \E p \in Panes : slot[p] = g

ExitReported ==
  ContinuationsEnd =>
    \A g \in Gens :
      Held(g) /\ worker[g] = "gone" ~> ~Held(g) \/ phase \in {"joining", "stopped"}

=============================================================================
