----------------------------- MODULE FairDrain -----------------------------
(***************************************************************************)
(* The hub's round-robin drain: RuntimeHub.pane_order, fair_drain_cursor   *)
(* and drain_ready_fair, with the operations that add, remove and put back *)
(* panes in the order (hub.rs).  Positions are 1-based here; the cursor    *)
(* keeps the code's 0-based value.                                         *)
(***************************************************************************)
EXTENDS HubPanes, Integers, Sequences

VARIABLES
  pane_order,          \* RuntimeHub.pane_order
  fair_drain_cursor,   \* RuntimeHub.fair_drain_cursor
  ready,               \* panes whose publication has work
  passed               \* history: per ready pane, the panes drained since it is,
                       \* forgotten when a pane restarts

order_vars == <<pane_order, fair_drain_cursor, ready, passed>>

Members(s) == {s[i] : i \in 1..Len(s)}

Distinct(s) == \A i, j \in 1..Len(s) : s[i] = s[j] => i = j

Opened == Members(pane_order)

OrderInit ==
  /\ pane_order = <<>>
  /\ fair_drain_cursor = 0
  /\ ready = {}
  /\ passed = [p \in Panes |-> {}]

-----------------------------------------------------------------------------
(***************************************************************************)
(* remove_pane_order, on a record of the two fields.                       *)
(***************************************************************************)
Ring == [order |-> pane_order, cursor |-> fair_drain_cursor]

Position(order, p) == CHOOSE i \in 1..Len(order) : order[i] = p

Without(order, at) ==
  [i \in 1..(Len(order) - 1) |-> IF i < at THEN order[i] ELSE order[i + 1]]

RemovedUnwrapped(ring, p) ==
  IF p \notin Members(ring.order) THEN ring ELSE
  LET at == Position(ring.order, p) IN
  [order |-> Without(ring.order, at),
   cursor |-> IF at - 1 < ring.cursor THEN ring.cursor - 1 ELSE ring.cursor]

RemovedKeepingCursor(ring, p) ==
  IF p \notin Members(ring.order) THEN ring ELSE
  LET rest == Without(ring.order, Position(ring.order, p)) IN
  [order |-> rest, cursor |-> IF rest = <<>> THEN 0 ELSE ring.cursor % Len(rest)]

Removed(ring, p) ==
  IF p \notin Members(ring.order) THEN ring ELSE
  LET at == Position(ring.order, p)
      rest == Without(ring.order, at)
      moved == IF at - 1 < ring.cursor THEN ring.cursor - 1 ELSE ring.cursor
  IN  [order |-> rest, cursor |-> IF rest = <<>> THEN 0 ELSE moved % Len(rest)]

(***************************************************************************)
(* Panes removed one after the other.                                      *)
(***************************************************************************)
RemovedAll(ring, removals) ==
  LET after[i \in 0..Len(removals)] ==
        IF i = 0 THEN ring ELSE Removed(after[i - 1], removals[i])
  IN  after[Len(removals)]

(***************************************************************************)
(* open_with_runtime appends the pane.                                     *)
(***************************************************************************)
Open(p) ==
  /\ p \notin Opened
  /\ pane_order' = Append(pane_order, p)
  /\ UNCHANGED <<fair_drain_cursor, ready, passed>>

(***************************************************************************)
(* finish_closed_slot removes one pane and reap_expired every expired one, *)
(* in the hash map's order; with them goes their work.                     *)
(***************************************************************************)
Forget(gone) ==
  /\ ready' = ready \ gone
  /\ passed' = [q \in Panes |-> IF q \in gone THEN {} ELSE passed[q] \ gone]

Install(ring) ==
  /\ pane_order' = ring.order
  /\ fair_drain_cursor' = ring.cursor

Close(removals) ==
  /\ Install(RemovedAll(Ring, removals))
  /\ Forget(Members(removals))

(***************************************************************************)
(* reposition_pane: the pane, opened last, is moved to where it was.       *)
(***************************************************************************)
Inserted(order, at, p) ==
  [i \in 1..(Len(order) + 1) |->
     IF i < at THEN order[i] ELSE IF i = at THEN p ELSE order[i - 1]]

RepositionedNever(ring, p, position) == ring

Repositioned(ring, p, position) ==
  LET rest == Removed(ring, p)
      at == IF position <= Len(rest.order) THEN position ELSE Len(rest.order) + 1
  IN  [order |-> Inserted(rest.order, at, p),
       cursor |-> IF rest.cursor <= Len(rest.order) THEN rest.cursor ELSE Len(rest.order)]

(***************************************************************************)
(* restart_with_runtime of a pane the hub holds: reap_expired removes it   *)
(* and whatever else has expired, open_with_runtime appends it again and   *)
(* reposition_pane moves it.  (For a pane the hub does not hold it is      *)
(* Open; when the open fails it is Close.)                                 *)
(***************************************************************************)
Restart(p, removals) ==
  LET position == Position(pane_order, p)
      reaped == RemovedAll(Ring, removals)
      opened == [order |-> Append(reaped.order, p), cursor |-> reaped.cursor]
  IN
  /\ p \in Members(removals)
  /\ Install(Repositioned(opened, p, position))
  /\ ready' = ready \ Members(removals)
  /\ passed' = [q \in Panes |-> {}]

(***************************************************************************)
(* A pane publishes.                                                       *)
(***************************************************************************)
PublishReady(p) ==
  /\ p \in Opened
  /\ p \notin ready
  /\ ready' = ready \cup {p}
  /\ passed' = [passed EXCEPT ![p] = {}]
  /\ UNCHANGED <<pane_order, fair_drain_cursor>>

(***************************************************************************)
(* drain_ready_fair: from the cursor on, at most max_panes ready panes;    *)
(* the cursor moves behind the last of them.  A pane whose drain left work *)
(* stays ready.                                                            *)
(***************************************************************************)
Index(offset) ==
  ((fair_drain_cursor % Len(pane_order)) + offset) % Len(pane_order)

Visited(offset) == pane_order[Index(offset) + 1]

ReadyUpTo(offset) == {i \in 0..offset : Visited(i) \in ready}

Chosen(max_panes) ==
  {offset \in 0..(Len(pane_order) - 1) :
     Visited(offset) \in ready /\ Cardinality(ReadyUpTo(offset)) <= max_panes}

DrainedPanes(max_panes) == {Visited(offset) : offset \in Chosen(max_panes)}

PassedBy(q, drained) == IF q \in drained THEN {} ELSE passed[q] \cup drained

DrainReadyFair(max_panes, emptied) ==
  LET drained == DrainedPanes(max_panes) IN
  /\ emptied \subseteq drained
  /\ \E last \in Chosen(max_panes) :
       /\ \A offset \in Chosen(max_panes) : offset <= last
       /\ fair_drain_cursor' = (Index(last) + 1) % Len(pane_order)
  /\ ready' = ready \ emptied
  /\ passed' = [q \in Panes |-> IF q \in ready THEN PassedBy(q, drained) ELSE passed[q]]
  /\ UNCHANGED pane_order

Drain == \E n \in 1..Cardinality(Panes), emptied \in SUBSET Panes : DrainReadyFair(n, emptied)

Removals ==
  {removals \in UNION {[1..n -> Opened] : n \in 1..Len(pane_order)} : Distinct(removals)}

OrderNext ==
  \/ \E p \in Panes : Open(p) \/ PublishReady(p)
  \/ \E removals \in Removals : Close(removals)
  \/ \E p \in Panes, removals \in Removals : Restart(p, removals)
  \/ Drain

OrderSpec == OrderInit /\ [][OrderNext]_order_vars

-----------------------------------------------------------------------------
(***************************************************************************)
(* The cursor is a position of the order, and the order holds every open   *)
(* pane once.                                                              *)
(***************************************************************************)
OrderTypeOK ==
  /\ pane_order \in Seq(Panes)
  /\ Distinct(pane_order)
  /\ fair_drain_cursor \in 0..(IF pane_order = <<>> THEN 0 ELSE Len(pane_order) - 1)
  /\ ready \subseteq Opened
  /\ passed \in [Panes -> SUBSET Panes]

(***************************************************************************)
(* A drain takes no pane that has been drained since a pane it leaves out  *)
(* is ready.                                                               *)
(***************************************************************************)
NobodyPassedTwice ==
  \A n \in 1..Cardinality(Panes), emptied \in SUBSET Panes :
    DrainReadyFair(n, emptied) =>
      \A q \in ready \ DrainedPanes(n) : passed[q] \cap DrainedPanes(n) = {}

(***************************************************************************)
(* "A pane that continuously republishes cannot jump ahead of              *)
(* already-ready work from a later pane" (drain_ready_fair): while a pane  *)
(* stays ready and undrained no other pane is drained twice.  Only a       *)
(* restart in between breaks it: the cursor moves back with the removal    *)
(* and not forward again with the insertion (reposition_pane).             *)
(***************************************************************************)
NoOvertaking == [][NobodyPassedTwice]_order_vars

(***************************************************************************)
(* A pane restarted alone keeps its place among the others                 *)
(* (restart_with_runtime, reposition_pane).                                *)
(***************************************************************************)
RestartKeepsPlace ==
  [][\A p \in Opened : Restart(p, <<p>>) => pane_order' = pane_order]_order_vars

=============================================================================
