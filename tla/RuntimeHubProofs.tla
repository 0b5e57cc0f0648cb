-------------------------- MODULE RuntimeHubProofs --------------------------
(***************************************************************************)
(* Ownership of the workers, the agreement of hub and window, and the      *)
(* fairness of the hub's drain, for every set of panes and every number of *)
(* generations.                                                            *)
(***************************************************************************)
EXTENDS RuntimeHub, FairDrain, TLAPS

(***************************************************************************)
(* A generation that has a slot or a thread has been issued, to the pane   *)
(* of its slot; what has not been issued yet has neither.                  *)
(***************************************************************************)
IssuedInv ==
  /\ \A g \in Gens : worker[g] # "none" => owner[g] \in Panes
  /\ \A g \in Gens : counter # 0 /\ g >= counter => worker[g] = "none"
  /\ \A p \in Panes : slot[p] # None => worker[slot[p]] # "none" /\ owner[slot[p]] = p

(***************************************************************************)
(* The hub serves what the window shows.                                   *)
(***************************************************************************)
ShownInv ==
  \A p \in Panes : slot[p] # None => shown[p] = slot[p] /\ handles[p] = slot[p]

HubInv == TypeOK /\ IssuedInv /\ ShownInv /\ WorkersOwned

(***************************************************************************)
(* Notices, held or queued, are of generations that were issued.           *)
(***************************************************************************)
MailInv ==
  /\ \A g \in pending_closed : worker[g] # "none"
  /\ \A i \in 1..Len(notices) : worker[notices[i].gen] # "none"

-----------------------------------------------------------------------------
LEMMA GensNotNone == None \notin Gens /\ 0 \notin Gens /\ Gens \subseteq Nat
BY HubAssumption DEF None, Gens

LEMMA InitHub == Init => HubInv
BY HubAssumption, GensNotNone
   DEF Init, HubInv, TypeOK, IssuedInv, ShownInv, WorkersOwned, Alive, None, Gens

(***************************************************************************)
(* reap_expired and the slots it takes out.                                *)
(***************************************************************************)
LEMMA ReapType ==
  ASSUME HubInv, NEW due \in SUBSET Panes, \A p \in due : slot[p] # None,
         ReapExpired(due)
  PROVE  /\ deadline' \in [Panes -> {"none", "running", "crossed"}]
         /\ interrupted' \subseteq Gens
         /\ reaper' \subseteq Gens
         /\ Kept(due) \in [Panes -> Gens \cup {None}]
         /\ \A g \in Gens : Alive(g) /\ (g \in reaper \/ \E p \in due : slot[p] = g)
              => g \in reaper'
<1> DEFINE gens == {slot[p] : p \in due}
<1>1. gens \subseteq Gens
  BY DEF HubInv, TypeOK
<1>2. reaper' = Unfinished(reaper \cup gens)
  BY Zenon DEF ReapExpired, Handoff
<1>3. reaper \subseteq Gens /\ interrupted \subseteq Gens
  BY Zenon DEF HubInv, TypeOK
<1>4. \A g : g \in reaper' <=> g \in reaper \cup gens /\ worker[g] # "gone"
  BY <1>2, Zenon DEF Unfinished
<1> HIDE DEF gens
<1>5. reaper' \subseteq Gens
  BY <1>1, <1>3, <1>4, Zenon
<1>6. interrupted' \subseteq Gens
  BY <1>1, <1>3, Zenon DEF ReapExpired, gens
<1>7. \A g \in Gens : Alive(g) /\ (g \in reaper \/ \E p \in due : slot[p] = g) => g \in reaper'
  BY <1>4, Zenon DEF Alive, gens
<1>8. deadline' \in [Panes -> {"none", "running", "crossed"}]
  BY Zenon DEF ReapExpired, HubInv, TypeOK
<1>9. Kept(due) \in [Panes -> Gens \cup {None}]
  BY Zenon DEF Kept, HubInv, TypeOK
<1> QED BY <1>5, <1>6, <1>7, <1>8, <1>9, Zenon

(***************************************************************************)
(* The worker's own steps: it stays owned, whatever it does.               *)
(***************************************************************************)
LEMMA WorkerSteps ==
  ASSUME HubInv, NEW g \in Gens, Publish(g) \/ Block(g) \/ Unblock(g) \/ Exit(g)
  PROVE  HubInv'
<1>1. /\ UNCHANGED <<hub, window, phase, interrupted, asked, notices_open>>
      /\ \/ UNCHANGED worker
         \/ /\ worker[g] \in {"live", "blocked"}
            /\ \E to \in {"live", "blocked", "gone"} : worker' = [worker EXCEPT ![g] = to]
  BY Zenon DEF Publish, Block, Unblock, Exit, workers, mail
<1>2. worker' \in [Gens -> {"none", "live", "blocked", "gone"}]
  BY <1>1, Zenon DEF HubInv, TypeOK
<1>3. \A k \in Gens : /\ worker'[k] = "none" <=> worker[k] = "none"
                      /\ worker'[k] \in {"live", "blocked"} => worker[k] \in {"live", "blocked"}
  BY <1>1, Zenon DEF HubInv, TypeOK
<1>4. notices' \in Seq([kind : {"wake", "closed"}, gen : Gens])
  <2>1. \A kind \in {"wake", "closed"} : Notice(kind, g) \in [kind : {"wake", "closed"}, gen : Gens]
    BY Zenon DEF Notice
  <2>2. \/ notices' = notices
        \/ \E kind \in {"wake", "closed"} : notices' = Append(notices, Notice(kind, g))
    BY Zenon DEF Publish, Block, Unblock, Exit, mail
  <2>3. notices \in Seq([kind : {"wake", "closed"}, gen : Gens])
    BY Zenon DEF HubInv, TypeOK
  <2> DEFINE N == [kind : {"wake", "closed"}, gen : Gens]
  <2> HIDE DEF N
  <2>4. \A x \in N : Append(notices, x) \in Seq(N)
    BY <2>3 DEF N
  <2> QED BY <2>1, <2>2, <2>3, <2>4, Zenon DEF N
<1>5. work' \in [Gens -> 0..MaxWork] /\ wake_pending' \in [Gens -> BOOLEAN]
  <2>1. work \in [Gens -> 0..MaxWork] /\ wake_pending \in [Gens -> BOOLEAN]
    BY Zenon DEF HubInv, TypeOK
  <2>2. 1..MaxWork \subseteq 0..MaxWork
    BY HubAssumption
  <2>3. CASE Publish(g)
    <3>1. PICK n \in 1..MaxWork : work' = [work EXCEPT ![g] = n]
      BY <2>3, Zenon DEF Publish
    <3> QED BY <2>1, <2>2, <2>3, <3>1, Zenon DEF Publish
  <2>4. CASE UNCHANGED publication
    BY <2>1, <2>4, Zenon DEF publication
  <2> QED BY <2>3, <2>4, Zenon DEF Block, Unblock, Exit
<1>6. TypeOK'
  BY <1>1, <1>2, <1>4, <1>5, Zenon DEF HubInv, TypeOK, hub, window
<1>7. IssuedInv' /\ ShownInv'
  BY <1>1, <1>3 DEF HubInv, TypeOK, IssuedInv, ShownInv, hub, window
<1>8. WorkersOwned'
  BY <1>1, <1>3, Zenon DEF HubInv, WorkersOwned, Alive, Current, hub
<1> QED BY <1>6, <1>7, <1>8, Zenon DEF HubInv

(***************************************************************************)
(* add_transport, begin_close_pane and retire_pane_transport.              *)
(***************************************************************************)
LEMMA CounterType ==
  ASSUME HubInv
  PROVE  /\ NextCounter \in 0..MaxGen
         /\ NextCounter # 0 => NextCounter = counter + 1
         /\ counter # 0 => counter \in Gens
BY HubAssumption DEF HubInv, TypeOK, NextCounter, Gens

LEMMA AddTransportSafe ==
  ASSUME HubInv, NEW p \in Panes, AddTransport(p)
  PROVE  HubInv'
<1> DEFINE replaced == IF shown[p] = None THEN {} ELSE {slot[p]} \ {None}
           due == IF replaced = {} THEN {} ELSE Crossed \cup {p}
<1>1. /\ due \subseteq Panes
      /\ \A q \in due : slot[q] # None
      /\ p \notin due => slot[p] = None
      /\ replaced \subseteq Gens
  BY GensNotNone DEF AddTransport, Crossed, HubInv, TypeOK, ShownInv
<1>2. /\ asked' = asked \cup replaced
      /\ due = {} => UNCHANGED <<deadline, interrupted, reaper>>
      /\ due # {} => ReapExpired(due)
      /\ counter' = NextCounter
      /\ UNCHANGED <<pending_closed, mail, publication, continuations, serving, phase>>
  BY Zenon DEF AddTransport
<1>3. \/ /\ counter # 0
         /\ slot' = [Kept(due) EXCEPT ![p] = counter]
         /\ owner' = [owner EXCEPT ![counter] = p]
         /\ worker' = [worker EXCEPT ![counter] = "live"]
         /\ handles' = [handles EXCEPT ![p] = counter]
         /\ shown' = [shown EXCEPT ![p] = counter]
         /\ closing' = {g \in closing : owner[g] # p}
      \/ slot' = Kept(due) /\ UNCHANGED <<owner, worker, handles, shown, closing>>
  BY Zenon DEF AddTransport
<1> HIDE DEF replaced, due
<1>4. /\ deadline' \in [Panes -> {"none", "running", "crossed"}]
      /\ interrupted' \subseteq Gens
      /\ reaper' \subseteq Gens
      /\ \A g \in Gens : Alive(g) /\ (g \in reaper \/ \E q \in due : slot[q] = g)
           => g \in reaper'
  <2>1. CASE due = {}
    BY <1>2, <2>1, Zenon DEF HubInv, TypeOK
  <2>2. CASE due # {}
    BY <1>1, <1>2, <2>2, ReapType, Zenon
  <2> QED BY <2>1, <2>2, Zenon
<1>5. /\ Kept(due) \in [Panes -> Gens \cup {None}]
      /\ \A q \in Panes : Kept(due)[q] = IF q \in due THEN None ELSE slot[q]
      /\ Kept(due)[p] = None
  BY <1>1, Zenon DEF Kept, HubInv, TypeOK
<1>6. TypeOK'
  <2>1. {slot', shown', handles'} \subseteq [Panes -> Gens \cup {None}]
    <3>1. {slot, shown, handles} \subseteq [Panes -> Gens \cup {None}]
      BY Zenon DEF HubInv, TypeOK
    <3>2. CASE slot' = Kept(due) /\ UNCHANGED <<handles, shown>>
      BY <1>5, <3>1, <3>2
    <3>3. CASE counter # 0 /\ slot' = [Kept(due) EXCEPT ![p] = counter]
               /\ handles' = [handles EXCEPT ![p] = counter]
               /\ shown' = [shown EXCEPT ![p] = counter]
      <4>1. counter \in Gens \cup {None}
        BY <3>3, CounterType, Zenon
      <4> QED BY <1>5, <3>1, <3>3, <4>1
    <3> QED BY <1>3, <3>2, <3>3, Zenon
  <2>2. /\ counter' \in 0..MaxGen
        /\ owner' \in [Gens -> Panes \cup {None}]
        /\ worker' \in [Gens -> {"none", "live", "blocked", "gone"}]
    <3>1. /\ owner \in [Gens -> Panes \cup {None}]
          /\ worker \in [Gens -> {"none", "live", "blocked", "gone"}]
      BY Zenon DEF HubInv, TypeOK
    <3>2. counter' \in 0..MaxGen
      BY <1>2, CounterType, Zenon
    <3>3. CASE UNCHANGED <<owner, worker>>
      BY <3>1, <3>2, <3>3, Zenon
    <3>4. CASE counter # 0 /\ owner' = [owner EXCEPT ![counter] = p]
               /\ worker' = [worker EXCEPT ![counter] = "live"]
      BY <3>1, <3>2, <3>4, Zenon
    <3> QED BY <1>3, <3>3, <3>4, Zenon
  <2>3. asked' \subseteq Gens /\ closing' \subseteq Gens
    BY <1>1, <1>2, <1>3, Zenon DEF HubInv, TypeOK
  <2> QED BY <1>2, <1>4, <2>1, <2>2, <2>3 DEF HubInv, TypeOK, mail, publication
<1>7. CASE counter # 0 /\ slot' = [Kept(due) EXCEPT ![p] = counter]
           /\ owner' = [owner EXCEPT ![counter] = p]
           /\ worker' = [worker EXCEPT ![counter] = "live"]
           /\ handles' = [handles EXCEPT ![p] = counter]
           /\ shown' = [shown EXCEPT ![p] = counter]
  <2>1. counter \in Gens /\ worker[counter] = "none"
    BY <1>7, CounterType DEF HubInv, IssuedInv, TypeOK, Gens
  <2>2. /\ \A g \in Gens \ {counter} : worker'[g] = worker[g] /\ owner'[g] = owner[g]
        /\ worker'[counter] = "live" /\ owner'[counter] = p
    BY <1>7, <2>1, Zenon DEF HubInv, TypeOK
  <2>3. /\ \A q \in Panes \ {p} : /\ slot'[q] = IF q \in due THEN None ELSE slot[q]
                                  /\ handles'[q] = handles[q] /\ shown'[q] = shown[q]
        /\ slot'[p] = counter /\ handles'[p] = counter /\ shown'[p] = counter
    BY <1>5, <1>7, Zenon DEF HubInv, TypeOK
  <2>4. \A q \in Panes : slot[q] # counter
    BY <2>1, GensNotNone DEF HubInv, IssuedInv
  <2>5. IssuedInv'
    <3>1. \A g \in Gens : worker'[g] # "none" => owner'[g] \in Panes
      BY <2>2, Zenon DEF HubInv, IssuedInv
    <3>2. \A g \in Gens : counter' # 0 /\ g >= counter' => worker'[g] = "none"
      BY <1>2, <2>1, <2>2, CounterType DEF HubInv, IssuedInv, Gens
    <3>3. \A q \in Panes : slot'[q] # None =>
            worker'[slot'[q]] # "none" /\ owner'[slot'[q]] = q
      <4> TAKE q \in Panes
      <4>1. CASE q = p
        BY <2>2, <2>3, <4>1, Zenon
      <4>2. CASE q # p /\ slot'[q] # None
        <5>1. slot'[q] = slot[q] /\ slot[q] \in Gens \ {counter}
          BY <2>3, <2>4, <4>2 DEF HubInv, TypeOK
        <5> QED BY <2>2, <4>2, <5>1 DEF HubInv, IssuedInv
      <4> QED BY <4>1, <4>2, Zenon
    <3> QED BY <3>1, <3>2, <3>3, Zenon DEF IssuedInv
  <2>6. ShownInv'
    BY <2>3, Zenon DEF HubInv, ShownInv
  <2>7. WorkersOwned'
    <3> SUFFICES ASSUME NEW g \in Gens, worker'[g] \in {"live", "blocked"}
                 PROVE  slot'[owner'[g]] = g \/ g \in reaper'
      BY Zenon DEF WorkersOwned, Alive, Current
    <3>1. CASE g = counter
      BY <2>2, <2>3, <3>1, Zenon
    <3>2. CASE g # counter
      <4>1. Alive(g) /\ owner[g] \in Panes /\ owner'[g] = owner[g]
        BY <2>2, <3>2, Zenon DEF Alive, HubInv, IssuedInv
      <4>2. CASE g \in reaper
        BY <1>4, <4>1, <4>2, Zenon
      <4>3. CASE slot[owner[g]] = g
        <5>1. owner[g] # p \/ p \in due
          BY <1>1, <4>3, GensNotNone, Zenon
        <5> QED BY <1>4, <2>3, <4>1, <4>3, <5>1
      <4> QED BY <4>1, <4>2, <4>3, Zenon DEF HubInv, WorkersOwned, Current
    <3> QED BY <3>1, <3>2, Zenon
  <2> QED BY <1>6, <2>5, <2>6, <2>7, Zenon DEF HubInv
<1>8. CASE slot' = Kept(due) /\ UNCHANGED <<owner, worker, handles, shown>>
  <2>1. IssuedInv' /\ ShownInv'
    <3>1. \A q \in Panes : slot'[q] # None => slot'[q] = slot[q]
      BY <1>5, <1>8, Zenon
    <3>2. \A g \in Gens : counter' # 0 /\ g >= counter' => worker'[g] = "none"
      <4>1. ASSUME NEW g \in Gens, counter' # 0, g >= counter' PROVE counter # 0 /\ g >= counter
        <5>1. counter' = NextCounter /\ NextCounter # 0
          BY <1>2, <4>1, Zenon
        <5>2. counter # 0
          BY <5>1, Zenon DEF NextCounter
        <5>3. counter' = counter + 1 /\ counter \in Gens
          BY <5>1, <5>2, CounterType, Zenon
        <5> QED BY <4>1, <5>2, <5>3, HubAssumption DEF Gens
      <4> QED BY <1>8, <4>1, Zenon DEF HubInv, IssuedInv
    <3> QED BY <1>8, <3>1, <3>2 DEF HubInv, IssuedInv, ShownInv
  <2>2. WorkersOwned'
    <3> SUFFICES ASSUME NEW g \in Gens, Alive(g)
                 PROVE  slot'[owner[g]] = g \/ g \in reaper'
      BY <1>8, Zenon DEF WorkersOwned, Alive, Current
    <3>1. owner[g] \in Panes
      BY Zenon DEF Alive, HubInv, IssuedInv
    <3> QED BY <1>4, <1>5, <1>8, <3>1, Zenon DEF HubInv, WorkersOwned, Current
  <2> QED BY <1>6, <2>1, <2>2, Zenon DEF HubInv
<1> QED BY <1>3, <1>7, <1>8, Zenon

LEMMA BeginCloseSafe ==
  ASSUME HubInv, NEW p \in Panes, NEW grace \in BOOLEAN, BeginClose(p, grace)
  PROVE  HubInv'
<1>1. /\ UNCHANGED <<counter, owner, slot, pending_closed, reaper, mail, worker,
                     interrupted, publication, shown, handles, continuations,
                     serving, phase>>
      /\ deadline' = [deadline EXCEPT ![p] = IF grace THEN "running" ELSE "crossed"]
      /\ shown[p] # None /\ slot[p] = shown[p]
      /\ asked' \subseteq asked \cup {slot[p]}
      /\ closing' = closing \cup {shown[p]}
  BY Zenon DEF BeginClose
<1>2. shown[p] \in Gens
  BY <1>1, Zenon DEF HubInv, TypeOK
<1>3. TypeOK'
  <2>1. asked' \subseteq Gens /\ closing' \subseteq Gens
    BY <1>1, <1>2, Zenon DEF HubInv, TypeOK
  <2>2. deadline' \in [Panes -> {"none", "running", "crossed"}]
    BY <1>1, Zenon DEF HubInv, TypeOK
  <2> QED BY <1>1, <2>1, <2>2 DEF HubInv, TypeOK, mail, publication
<1> QED BY <1>1, <1>3, Zenon DEF HubInv, IssuedInv, ShownInv, WorkersOwned, Alive, Current

LEMMA RetireSafe ==
  ASSUME HubInv, NEW p \in Panes, Retire(p)
  PROVE  HubInv'
<1> DEFINE token == shown[p]
           due == Crossed \cup {q \in {p} : slot[q] = token}
<1>1. /\ token # None
      /\ ReapExpired(due) /\ slot' = Kept(due)
      /\ asked' \subseteq asked \cup {token}
      /\ shown' = [shown EXCEPT ![p] = None]
      /\ handles' = [handles EXCEPT ![p] = None]
      /\ continuations' = continuations \ {token}
      /\ closing' = closing \ {token}
      /\ UNCHANGED <<counter, owner, pending_closed, mail, worker, publication,
                     serving, phase>>
  BY Zenon DEF Retire
<1>2. /\ due \subseteq Panes
      /\ \A q \in due : slot[q] # None
      /\ p \notin due => slot[p] = None
      /\ token \in Gens
  BY <1>1, Zenon DEF Crossed, HubInv, ShownInv, TypeOK
<1> HIDE DEF due, token
<1>3. /\ deadline' \in [Panes -> {"none", "running", "crossed"}]
      /\ interrupted' \subseteq Gens
      /\ reaper' \subseteq Gens
      /\ slot' \in [Panes -> Gens \cup {None}]
      /\ \A g \in Gens : Alive(g) /\ (g \in reaper \/ \E q \in due : slot[q] = g)
           => g \in reaper'
  BY <1>1, <1>2, ReapType, Zenon
<1>4. \A q \in Panes : slot'[q] = IF q \in due THEN None ELSE slot[q]
  BY <1>1, Zenon DEF Kept
<1>5. TypeOK'
  <2>1. {shown', handles'} \subseteq [Panes -> Gens \cup {None}]
    BY <1>1 DEF HubInv, TypeOK
  <2>2. asked' \subseteq Gens /\ continuations' \subseteq Gens /\ closing' \subseteq Gens
    BY <1>1, <1>2, Zenon DEF HubInv, TypeOK
  <2> QED BY <1>1, <1>3, <2>1, <2>2 DEF HubInv, TypeOK, mail, publication
<1>6. IssuedInv'
  BY <1>1, <1>4, Zenon DEF HubInv, IssuedInv
<1>7. ShownInv'
  <2> SUFFICES ASSUME NEW q \in Panes, slot'[q] # None
               PROVE  shown'[q] = slot'[q] /\ handles'[q] = slot'[q]
    BY Zenon DEF ShownInv
  <2>1. q # p /\ slot'[q] = slot[q]
    BY <1>2, <1>4, Zenon
  <2>2. shown'[q] = shown[q] /\ handles'[q] = handles[q]
    BY <1>1, <2>1, Zenon DEF HubInv, TypeOK
  <2> QED BY <2>1, <2>2, Zenon DEF HubInv, ShownInv
<1>8. WorkersOwned'
  <2> SUFFICES ASSUME NEW g \in Gens, Alive(g)
               PROVE  slot'[owner[g]] = g \/ g \in reaper'
    BY <1>1, Zenon DEF WorkersOwned, Alive, Current
  <2>1. owner[g] \in Panes
    BY Zenon DEF Alive, HubInv, IssuedInv
  <2> QED BY <1>3, <1>4, <2>1, Zenon DEF HubInv, WorkersOwned, Current
<1> QED BY <1>5, <1>6, <1>7, <1>8, Zenon DEF HubInv

-----------------------------------------------------------------------------
(***************************************************************************)
(* A turn changes what is published and what continues only.               *)
(***************************************************************************)
LEMMA TurnType ==
  ASSUME HubInv, NEW g \in Gens, NEW next \in {"serve", "notices", "idle"},
         Turn(g, next), continuations \in SUBSET Gens
  PROVE  /\ work' \in [Gens -> 0..MaxWork]
         /\ wake_pending' \in [Gens -> BOOLEAN]
         /\ continuations' \subseteq Gens
         /\ phase' \in {"idle", "serve", "notices", "failed"}
<1>1. work \in [Gens -> 0..MaxWork] /\ wake_pending \in [Gens -> BOOLEAN]
  BY Zenon DEF HubInv, TypeOK
<1>2. CASE UNCHANGED <<publication, continuations>> /\ phase' \in {next, "failed"}
  BY <1>1, <1>2, Zenon DEF publication
<1>3. CASE /\ \/ work' = [work EXCEPT ![g] = IF @ = 0 THEN 0 ELSE @ - 1]
              \/ work' \in {[work EXCEPT ![g] = n] : n \in 1..MaxWork}
           /\ wake_pending' = [wake_pending EXCEPT ![g] = (work[g] > 1)]
           /\ continuations' \in {continuations \cup {g}, continuations}
           /\ phase' = next
  <2>1. work' \in [Gens -> 0..MaxWork]
    <3>1. CASE work' = [work EXCEPT ![g] = IF @ = 0 THEN 0 ELSE @ - 1]
      <4>1. (IF work[g] = 0 THEN 0 ELSE work[g] - 1) \in 0..MaxWork
        BY <1>1, HubAssumption
      <4> QED BY <1>1, <3>1, <4>1, Zenon
    <3>2. CASE work' \in {[work EXCEPT ![g] = n] : n \in 1..MaxWork}
      <4>1. PICK n \in 1..MaxWork : work' = [work EXCEPT ![g] = n]
        BY <3>2, Zenon
      <4> QED BY <1>1, <4>1, HubAssumption
    <3> QED BY <1>3, <3>1, <3>2, Zenon
  <2>2. wake_pending' \in [Gens -> BOOLEAN]
    <3>1. (work[g] > 1) \in BOOLEAN
      OBVIOUS
    <3> HIDE DEF HubInv
    <3> QED BY <1>1, <1>3, <3>1, Zenon
  <2> QED BY <1>3, <2>1, <2>2, Zenon
<1>4. \/ UNCHANGED <<publication, continuations>> /\ phase' \in {next, "failed"}
      \/ /\ \/ work' = [work EXCEPT ![g] = IF @ = 0 THEN 0 ELSE @ - 1]
            \/ work' \in {[work EXCEPT ![g] = n] : n \in 1..MaxWork}
         /\ wake_pending' = [wake_pending EXCEPT ![g] = (work[g] > 1)]
         /\ continuations' \in {continuations \cup {g}, continuations}
         /\ phase' = next
  BY Zenon DEF Turn
<1> QED BY <1>2, <1>3, <1>4, Zenon

(***************************************************************************)
(* Steps that leave the hub, the workers' threads and the window's panes   *)
(* alone.                                                                  *)
(***************************************************************************)
LEMMA Bystanders ==
  ASSUME HubInv, TypeOK', UNCHANGED <<counter, owner, slot, reaper, worker, shown, handles>>
  PROVE  HubInv'
BY Zenon DEF HubInv, IssuedInv, ShownInv, WorkersOwned, Alive, Current

(***************************************************************************)
(* finish_closed_slot with poll's handler: the join of what was in the     *)
(* slot goes to the reaper, and the handle with it.                        *)
(***************************************************************************)
LEMMA CloseSlotSafe ==
  ASSUME HubInv, NEW g \in Gens, CloseSlot(g), owner[g] \in Panes,
         pending_closed' \subseteq pending_closed,
         notices' \in Seq([kind : {"wake", "closed"}, gen : Gens]),
         UNCHANGED <<counter, owner, notices_open, workers, publication,
                     continuations, serving, phase>>
  PROVE  HubInv'
<1> DEFINE p == owner[g]
<1>1. /\ slot' = [slot EXCEPT ![p] = None]
      /\ deadline' = [deadline EXCEPT ![p] = "none"]
      /\ reaper' = IF slot[p] = None THEN reaper ELSE Handoff({slot[p]})
      /\ shown' = [shown EXCEPT ![p] = IF @ = g THEN None ELSE @]
      /\ handles' = [handles EXCEPT ![p] = None]
      /\ closing' = closing \ {g}
  BY Zenon DEF CloseSlot
<1>2. p \in Panes
  BY Zenon
<1> HIDE DEF p
<1>3. /\ {slot, shown, handles} \subseteq [Panes -> Gens \cup {None}]
      /\ reaper \subseteq Gens
  BY Zenon DEF HubInv, TypeOK
<1>4. /\ reaper' \subseteq Gens
      /\ \A k \in Gens : Alive(k) /\ (k \in reaper \/ slot[p] = k) => k \in reaper'
  BY <1>1, <1>2, <1>3, GensNotNone, Zenon DEF Handoff, Unfinished, Alive
<1>5. /\ slot'[p] = None
      /\ \A q \in Panes \ {p} :
           slot'[q] = slot[q] /\ shown'[q] = shown[q] /\ handles'[q] = handles[q]
  BY <1>1, <1>2, <1>3, Zenon
<1>6. TypeOK'
  <2>1. {slot', shown', handles'} \subseteq [Panes -> Gens \cup {None}]
    <3>1. (IF shown[p] = g THEN None ELSE shown[p]) \in Gens \cup {None}
      BY <1>2, <1>3, Zenon
    <3> QED BY <1>1, <1>3, <3>1, Zenon
  <2>2. deadline' \in [Panes -> {"none", "running", "crossed"}]
    BY <1>1, Zenon DEF HubInv, TypeOK
  <2>3. closing' \subseteq Gens /\ pending_closed' \subseteq Gens
    BY <1>1, Zenon DEF HubInv, TypeOK
  <2> QED BY <1>4, <2>1, <2>2, <2>3, SMTT(40) DEF HubInv, TypeOK, workers, publication
<1>7. IssuedInv' /\ ShownInv'
  BY <1>5 DEF HubInv, IssuedInv, ShownInv, workers
<1>8. WorkersOwned'
  <2> SUFFICES ASSUME NEW k \in Gens, Alive(k)
               PROVE  slot'[owner[k]] = k \/ k \in reaper'
    BY Zenon DEF WorkersOwned, Alive, Current, workers
  <2>1. owner[k] \in Panes
    BY Zenon DEF Alive, HubInv, IssuedInv
  <2> QED BY <1>4, <1>5, <2>1, Zenon DEF HubInv, WorkersOwned, Current
<1> QED BY <1>6, <1>7, <1>8, Zenon DEF HubInv

LEMMA HeadNotice ==
  ASSUME HubInv, MailInv, notices # <<>>
  PROVE  /\ Head(notices).gen \in Gens
         /\ worker[Head(notices).gen] # "none"
         /\ owner[Head(notices).gen] \in Panes
         /\ Tail(notices) \in Seq([kind : {"wake", "closed"}, gen : Gens])
<1> DEFINE N == [kind : {"wake", "closed"}, gen : Gens]
<1>1. notices \in Seq(N)
  BY Zenon DEF HubInv, TypeOK
<1>2. \A n \in N : n.gen \in Gens
  BY Zenon
<1> HIDE DEF N
<1>3. Head(notices) \in N /\ Tail(notices) \in Seq(N)
      /\ 1 \in 1..Len(notices) /\ Head(notices) = notices[1]
  BY <1>1
<1>4. worker[Head(notices).gen] # "none"
  BY <1>3, Zenon DEF MailInv
<1> QED BY <1>2, <1>3, <1>4, Zenon DEF HubInv, IssuedInv, N

LEMMA PollSafe ==
  ASSUME HubInv, MailInv, PollStep
  PROVE  HubInv'
<1>1. CASE PollBegin
  <2>1. TypeOK'
    <3>1. serving' \subseteq Gens /\ continuations' \subseteq Gens
      BY <1>1, Zenon DEF PollBegin, HubInv, TypeOK
    <3> QED BY <1>1, <3>1 DEF PollBegin, HubInv, TypeOK, hub, mail, workers, publication
  <2> QED BY <1>1, <2>1, Bystanders, Zenon DEF PollBegin, hub, workers
<1>2. CASE PollServed \/ PollEnd
  <2>1. /\ phase' \in {"idle", "notices"}
        /\ UNCHANGED <<hub, mail, workers, publication, window>>
    BY <1>2, Zenon DEF PollServed, PollEnd
  <2>2. TypeOK'
    BY <2>1, Zenon DEF HubInv, TypeOK, hub, mail, workers, publication, window
  <2> QED BY <2>1, <2>2, Bystanders, Zenon DEF hub, workers, window
<1>3. ASSUME NEW g \in Gens, PollContinue(g) PROVE HubInv'
  <2>1. /\ serving' \subseteq Gens
        /\ continuations \in SUBSET Gens
    BY <1>3, Zenon DEF PollContinue, HubInv, TypeOK
  <2>2. /\ work' \in [Gens -> 0..MaxWork]
        /\ wake_pending' \in [Gens -> BOOLEAN]
        /\ continuations' \subseteq Gens
        /\ phase' \in {"idle", "serve", "notices", "failed"}
    BY <1>3, <2>1, TurnType, Zenon DEF PollContinue
  <2>3. TypeOK'
    BY <1>3, <2>1, <2>2 DEF PollContinue, HubInv, TypeOK, hub, mail, workers
  <2> QED BY <1>3, <2>3, Bystanders, Zenon DEF PollContinue, hub, workers
<1>4. ASSUME NEW g \in Gens, PollHeldClose(g) PROVE HubInv'
  <2>1. g \in pending_closed /\ owner[g] \in Panes
    BY <1>4, Zenon DEF PollHeldClose, Drained, MailInv, HubInv, IssuedInv
  <2>2. notices \in Seq([kind : {"wake", "closed"}, gen : Gens])
    BY Zenon DEF HubInv, TypeOK
  <2> QED BY <1>4, <2>1, <2>2, CloseSlotSafe, Zenon DEF PollHeldClose, mail
<1>5. CASE PollNotice
  <2> DEFINE n == Head(notices)
             g == n.gen
  <2>1. /\ notices # <<>> /\ notices' = Tail(notices)
        /\ UNCHANGED <<notices_open, workers>>
        /\ \/ UNCHANGED <<hub, publication, window, phase>>
           \/ /\ pending_closed' \in {pending_closed, pending_closed \cup {g}}
              /\ Turn(g, IF continuations' = {} THEN "notices" ELSE "idle")
              /\ UNCHANGED <<counter, owner, slot, deadline, reaper, shown, handles,
                             closing, serving>>
           \/ /\ CloseSlot(g)
              /\ UNCHANGED <<counter, owner, pending_closed, publication,
                             continuations, serving, phase>>
    BY <1>5, Zenon DEF PollNotice, Hold
  <2>2. /\ g \in Gens /\ owner[g] \in Panes
        /\ notices' \in Seq([kind : {"wake", "closed"}, gen : Gens])
    BY <2>1, HeadNotice, Zenon
  <2> HIDE DEF g, n
  <2>3. CASE UNCHANGED <<hub, publication, window, phase>>
    <3>1. TypeOK'
      BY <2>1, <2>2, <2>3, Zenon DEF HubInv, TypeOK, hub, publication, window, workers
    <3> QED BY <2>1, <2>3, <3>1, Bystanders, Zenon DEF hub, window, workers
  <2>4. CASE /\ pending_closed' \in {pending_closed, pending_closed \cup {g}}
             /\ Turn(g, IF continuations' = {} THEN "notices" ELSE "idle")
             /\ UNCHANGED <<counter, owner, slot, deadline, reaper, shown, handles,
                            closing, serving>>
    <3>1. PICK next \in {"serve", "notices", "idle"} : Turn(g, next)
      BY <2>4, Zenon
    <3>2. continuations \in SUBSET Gens
      BY Zenon DEF HubInv, TypeOK
    <3>3. /\ work' \in [Gens -> 0..MaxWork]
          /\ wake_pending' \in [Gens -> BOOLEAN]
          /\ continuations' \subseteq Gens
          /\ phase' \in {"idle", "serve", "notices", "failed"}
      BY <2>2, <3>1, <3>2, TurnType, Zenon
    <3>4. pending_closed' \subseteq Gens
      BY <2>2, <2>4, Zenon DEF HubInv, TypeOK
    <3>5. TypeOK'
      BY <2>1, <2>2, <2>4, <3>3, <3>4, SMTT(40) DEF HubInv, TypeOK, workers
    <3> QED BY <2>1, <2>4, <3>5, Bystanders, Zenon DEF workers
  <2>5. CASE /\ CloseSlot(g)
             /\ UNCHANGED <<counter, owner, pending_closed, publication,
                            continuations, serving, phase>>
    BY <2>1, <2>2, <2>5, CloseSlotSafe, Zenon
  <2> QED BY <2>1, <2>3, <2>4, <2>5, Zenon
<1> QED BY <1>1, <1>2, <1>3, <1>4, <1>5, Zenon DEF PollStep

(***************************************************************************)
(* RuntimeHub::shutdown.  Joined waits for every slot and the reaper, so   *)
(* nothing alive is let go.                                                *)
(***************************************************************************)
LEMMA ShutdownSafe ==
  ASSUME HubInv, Shutdown \/ Joined
  PROVE  HubInv'
<1>1. CASE Shutdown
  <2>1. interrupted' \subseteq Gens
    BY <1>1 DEF Shutdown, InterruptSlots, HubInv, TypeOK
  <2>2. /\ notices_open' \in BOOLEAN
        /\ phase' \in {"idle", "serve", "notices", "failed", "joining", "stopped"}
        /\ UNCHANGED <<hub, notices, worker, asked, publication, window>>
    BY <1>1, Zenon DEF Shutdown
  <2>3. TypeOK'
    BY <2>1, <2>2 DEF HubInv, TypeOK, hub, publication, window
  <2> QED BY <1>1, <2>3, Bystanders, Zenon DEF Shutdown, hub, window
<1>2. CASE Joined
  <2>1. /\ slot' = [p \in Panes |-> None] /\ reaper' = {} /\ phase' = "stopped"
        /\ UNCHANGED <<counter, owner, deadline, pending_closed, mail, workers,
                       publication, window>>
        /\ \A g \in Gens : g \in reaper \/ (owner[g] # None /\ Current(g)) => ~Alive(g)
    BY <1>2, Zenon DEF Joined
  <2>2. TypeOK'
    BY <2>1 DEF HubInv, TypeOK, mail, workers, publication, window
  <2>3. IssuedInv' /\ ShownInv'
    BY <2>1, Zenon DEF HubInv, IssuedInv, ShownInv, workers
  <2>4. \A g \in Gens : ~Alive(g)
    <3> SUFFICES ASSUME NEW g \in Gens, Alive(g) PROVE FALSE
      BY Zenon
    <3>1. owner[g] \in Panes
      BY Zenon DEF HubInv, IssuedInv, Alive
    <3>2. owner[g] # None
      BY <3>1, HubAssumption, Zenon
    <3> QED BY <2>1, <3>2, Zenon DEF HubInv, WorkersOwned
  <2>5. WorkersOwned'
    BY <2>1, <2>4, Zenon DEF WorkersOwned, Alive, workers
  <2> QED BY <2>2, <2>3, <2>5, Zenon DEF HubInv
<1> QED BY <1>1, <1>2, Zenon

LEMMA MailSafe == HubInv /\ MailInv /\ [Next]_vars => MailInv'
<1> SUFFICES ASSUME HubInv, MailInv, [Next]_vars PROVE MailInv'
  BY Zenon
<1> DEFINE N == [kind : {"wake", "closed"}, gen : Gens]
<1>1. /\ notices \in Seq(N)
      /\ worker \in [Gens -> {"none", "live", "blocked", "gone"}]
      /\ \A n \in N : n.gen \in Gens
      /\ pending_closed \subseteq Gens
  BY Zenon DEF HubInv, TypeOK
<1>2. ASSUME \A g \in Gens : worker[g] # "none" => worker'[g] # "none",
             \/ notices' = notices
             \/ notices # <<>> /\ notices' = Tail(notices)
             \/ \E g \in Gens, kind \in {"wake", "closed"} :
                  worker[g] # "none" /\ notices' = Append(notices, Notice(kind, g)),
             \/ pending_closed' \subseteq pending_closed
             \/ notices # <<>> /\ pending_closed' \subseteq pending_closed \cup {Head(notices).gen}
      PROVE  MailInv'
  <2>1. \A g \in pending_closed' : worker'[g] # "none"
    BY <1>1, <1>2, HeadNotice, Zenon DEF MailInv
  <2>2. \A i \in 1..Len(notices) : notices[i].gen \in Gens /\ worker'[notices[i].gen] # "none"
    <3> TAKE i \in 1..Len(notices)
    <3> HIDE DEF N
    <3>1. notices[i] \in N
      BY <1>1
    <3> QED BY <1>1, <1>2, <3>1, Zenon DEF MailInv
  <2>3. \A i \in 1..Len(notices') : worker'[notices'[i].gen] # "none"
    <3>1. CASE notices' = notices
      BY <2>2, <3>1, Zenon
    <3>2. CASE notices # <<>> /\ notices' = Tail(notices)
      <4> HIDE DEF N
      <4>1. \A i \in 1..Len(notices') : i + 1 \in 1..Len(notices) /\ notices'[i] = notices[i + 1]
        BY <1>1, <3>2
      <4> QED BY <2>2, <4>1, Zenon
    <3>3. ASSUME NEW g \in Gens, NEW kind \in {"wake", "closed"},
                 worker[g] # "none", notices' = Append(notices, Notice(kind, g))
          PROVE  \A i \in 1..Len(notices') : worker'[notices'[i].gen] # "none"
      <4> DEFINE x == Notice(kind, g)
      <4>1. x.gen = g
        BY Zenon DEF Notice
      <4> HIDE DEF N, x
      <4>2. \A i \in 1..Len(notices') : \/ i \in 1..Len(notices) /\ notices'[i] = notices[i]
                                       \/ notices'[i] = x
        BY <1>1, <3>3 DEF x
      <4> QED BY <1>2, <2>2, <3>3, <4>1, <4>2
    <3> QED BY <1>2, <3>1, <3>2, <3>3, Zenon
  <2> QED BY <2>1, <2>3, Zenon DEF MailInv
<1>3. ASSUME NEW g \in Gens, Publish(g) \/ Block(g) \/ Unblock(g) \/ Exit(g) PROVE MailInv'
  <2>1. worker[g] # "none"
    BY <1>3, Zenon DEF Publish, Block, Unblock, Exit
  <2>2. \A k \in Gens : worker[k] # "none" => worker'[k] # "none"
    BY <1>1, <1>3, Zenon DEF Publish, Block, Unblock, Exit, workers
  <2>3. /\ UNCHANGED pending_closed
        /\ \/ notices' = notices
           \/ \E kind \in {"wake", "closed"} : notices' = Append(notices, Notice(kind, g))
    BY <1>3, Zenon DEF Publish, Block, Unblock, Exit, mail, hub
  <2> QED BY <1>2, <2>1, <2>2, <2>3, Zenon
<1>4. ASSUME NEW p \in Panes, AddTransport(p) PROVE MailInv'
  <2>1. UNCHANGED <<pending_closed, notices>>
    BY <1>4, Zenon DEF AddTransport, mail
  <2>2. \A k \in Gens : worker[k] # "none" => worker'[k] # "none"
    BY <1>1, <1>4, Zenon DEF AddTransport
  <2> QED BY <1>2, <2>1, <2>2, Zenon
<1>5. CASE /\ UNCHANGED <<pending_closed, notices, worker>>
  BY <1>2, <1>5, Zenon
<1>6. CASE PollStep
  <2>1. /\ UNCHANGED worker
        /\ \/ notices' = notices
           \/ notices # <<>> /\ notices' = Tail(notices)
    BY <1>6, Zenon DEF PollStep, PollBegin, PollContinue, PollServed, PollHeldClose,
       PollNotice, PollEnd, mail, workers
  <2>2. \/ pending_closed' \subseteq pending_closed
        \/ notices # <<>> /\ pending_closed' \subseteq pending_closed \cup {Head(notices).gen}
    BY <1>6, Zenon DEF PollStep, PollBegin, PollContinue, PollServed, PollHeldClose,
       PollNotice, PollEnd, hub, Hold
  <2> QED BY <1>2, <2>1, <2>2, Zenon
<1>7. ASSUME NEW p \in Panes, NEW grace \in BOOLEAN,
             \/ Cross(p) \/ Retire(p) \/ BeginClose(p, grace)
             \/ Shutdown \/ Joined \/ UNCHANGED vars
      PROVE  UNCHANGED <<pending_closed, notices, worker>>
  BY <1>7, Zenon DEF Cross, Retire, BeginClose, Shutdown, Joined, vars, hub, mail, workers
<1>8. CASE Shutdown \/ Joined \/ UNCHANGED vars
  BY <1>5, <1>8, Zenon DEF Shutdown, Joined, vars, hub, mail, workers
<1> QED BY <1>3, <1>4, <1>5, <1>6, <1>7, <1>8, Zenon DEF Next

LEMMA HubSafe == HubInv /\ MailInv /\ [Next]_vars => HubInv'
<1> SUFFICES ASSUME HubInv, MailInv, [Next]_vars PROVE HubInv'
  BY Zenon
<1>1. ASSUME NEW p \in Panes, Cross(p) PROVE HubInv'
  <2>1. deadline' \in [Panes -> {"none", "running", "crossed"}]
    BY <1>1, Zenon DEF Cross, HubInv, TypeOK
  <2>2. TypeOK'
    BY <1>1, <2>1, Zenon DEF Cross, HubInv, TypeOK, mail, workers, publication, window
  <2> QED BY <1>1, <2>2, Bystanders, Zenon DEF Cross, workers, window
<1>2. CASE UNCHANGED vars
  <2>1. TypeOK'
    BY <1>2, Zenon DEF HubInv, TypeOK, vars, hub, mail, workers, publication, window
  <2> QED BY <1>2, <2>1, Bystanders, Zenon DEF vars, hub, workers, window
<1> QED
  BY <1>1, <1>2, WorkerSteps, AddTransportSafe, RetireSafe, BeginCloseSafe,
     PollSafe, ShutdownSafe, Zenon DEF Next

-----------------------------------------------------------------------------
(***************************************************************************)
(* Ownership is never detached: the thread of a generation that has not    *)
(* exited is joinable through its slot or the reaper, whatever was opened, *)
(* closed, retired, restarted or shut down (reap_expired,                  *)
(* finish_closed_slot, WorkerReaper).                                      *)
(***************************************************************************)
THEOREM WorkersNeverDetached == Spec => []WorkersOwned
<1>1. Init => MailInv
  BY DEF Init, MailInv
<1>2. HubInv => WorkersOwned
  BY Zenon DEF HubInv
<1> QED BY <1>1, <1>2, InitHub, HubSafe, MailSafe, PTL DEF Spec

(***************************************************************************)
(* A generation the hub serves is the one the window shows and holds the   *)
(* handle of (add_transport, retire_pane_transport, poll).                 *)
(***************************************************************************)
THEOREM HubAndWindowAgree == Spec => []HubMatchesWindow
<1>1. Init => MailInv
  BY DEF Init, MailInv
<1>2. HubInv => HubMatchesWindow
  BY Zenon DEF HubInv, HubMatchesWindow, ShownInv, IssuedInv
<1> QED BY <1>1, <1>2, InitHub, HubSafe, MailSafe, PTL DEF Spec

-----------------------------------------------------------------------------
(***************************************************************************)
(* The other state of the hub: the order of its panes and the cursor of    *)
(* its round-robin drain.                                                  *)
(***************************************************************************)
(***************************************************************************)
(* An order and a cursor as the hub keeps them.                            *)
(***************************************************************************)
RingOK(ring) ==
  /\ ring.order \in Seq(Panes)
  /\ Distinct(ring.order)
  /\ ring.cursor \in Nat
  /\ ring.cursor < Len(ring.order) \/ ring.cursor = 0

(***************************************************************************)
(* Walking round the order from the cursor, position i is met before j.    *)
(***************************************************************************)
Walk(cursor, i, j) ==
  \/ i > cursor /\ j <= cursor
  \/ i < j /\ (i > cursor <=> j > cursor)

Precedes(ring, q, p) ==
  \E i, j \in 1..Len(ring.order) :
    ring.order[i] = q /\ ring.order[j] = p /\ Walk(ring.cursor, i, j)

(***************************************************************************)
(* What was drained past a waiting pane is behind it.                      *)
(***************************************************************************)
BehindInv == \A q \in ready : \A p \in passed[q] : Precedes(Ring, q, p)

(***************************************************************************)
(* Induction over the natural numbers, on the set of numbers that have the *)
(* property, and counting in finite sets.  The library's theorems on them  *)
(* come in at the end of the module, where they slow no other proof; until *)
(* then both are hypotheses.                                               *)
(***************************************************************************)
Induction ==
  \A S : 0 \in S /\ (\A k \in Nat : k \in S => k + 1 \in S) => \A k \in Nat : k \in S

Counting ==
  /\ \A k \in Nat : IsFiniteSet(0..k)
  /\ \A S, T : IsFiniteSet(T) /\ S \subseteq T =>
       /\ IsFiniteSet(S)
       /\ Cardinality(S) \in Nat /\ Cardinality(T) \in Nat
       /\ Cardinality(S) <= Cardinality(T)

-----------------------------------------------------------------------------
LEMMA EmptyOrder ==
  ASSUME NEW T, NEW s \in Seq(T)
  PROVE  s = <<>> <=> Len(s) = 0
OBVIOUS

LEMMA AppendIs ==
  ASSUME NEW T, NEW s \in Seq(T), NEW e \in T
  PROVE  /\ Append(s, e) \in Seq(T)
         /\ Len(Append(s, e)) = Len(s) + 1
         /\ Append(s, e)[Len(s) + 1] = e
         /\ \A i \in 1..Len(s) : Append(s, e)[i] = s[i]
OBVIOUS

LEMMA SameOrder ==
  ASSUME NEW T, NEW s \in Seq(T), NEW t \in Seq(T), Len(s) = Len(t),
         \A i \in 1..Len(s) : s[i] = t[i]
  PROVE  s = t
OBVIOUS

LEMMA ModSmall ==
  ASSUME NEW a \in Nat, NEW n \in Nat, a < n
  PROVE  a % n = a
OBVIOUS

LEMMA ModOnce ==
  ASSUME NEW a \in Nat, NEW n \in Nat, n <= a, a < n + n
  PROVE  a % n = a - n
OBVIOUS

LEMMA PositionIs ==
  ASSUME NEW order \in Seq(Panes), NEW p, p \in Members(order)
  PROVE  Position(order, p) \in 1..Len(order) /\ order[Position(order, p)] = p
<1>1. \E i \in 1..Len(order) : order[i] = p
  BY Zenon DEF Members
<1> QED BY <1>1, Zenon DEF Position

LEMMA WithoutIs ==
  ASSUME NEW order \in Seq(Panes), NEW at \in 1..Len(order)
  PROVE  /\ Without(order, at) \in Seq(Panes)
         /\ Len(Without(order, at)) = Len(order) - 1
         /\ \A i \in 1..(Len(order) - 1) :
              /\ i < at => Without(order, at)[i] = order[i]
              /\ i >= at => Without(order, at)[i] = order[i + 1]
<1>1. Len(order) \in Nat /\ Len(order) - 1 \in Nat
  OBVIOUS
<1>2. \A i \in 1..(Len(order) - 1) : order[i] \in Panes /\ order[i + 1] \in Panes
  BY <1>1
<1>3. Without(order, at) \in [1..(Len(order) - 1) -> Panes]
  BY <1>2, Zenon DEF Without
<1> QED BY <1>1, <1>3 DEF Without

LEMMA InsertedIs ==
  ASSUME NEW order \in Seq(Panes), NEW at \in 1..(Len(order) + 1), NEW p \in Panes
  PROVE  /\ Inserted(order, at, p) \in Seq(Panes)
         /\ Len(Inserted(order, at, p)) = Len(order) + 1
         /\ \A i \in 1..(Len(order) + 1) :
              /\ i < at => Inserted(order, at, p)[i] = order[i]
              /\ i = at => Inserted(order, at, p)[i] = p
              /\ i > at => Inserted(order, at, p)[i] = order[i - 1]
<1>1. Len(order) \in Nat
  OBVIOUS
<1>2. \A i \in 1..(Len(order) + 1) :
        /\ i < at => order[i] \in Panes
        /\ i > at => order[i - 1] \in Panes
  BY <1>1
<1>3. Inserted(order, at, p) \in [1..(Len(order) + 1) -> Panes]
  BY <1>2 DEF Inserted
<1> QED BY <1>1, <1>3 DEF Inserted

(***************************************************************************)
(* remove_pane_order by its positions: the panes behind the removed one    *)
(* move up, and the cursor with them.                                      *)
(***************************************************************************)
LEMMA RemovedIs ==
  ASSUME NEW ring, RingOK(ring), NEW p \in Members(ring.order)
  PROVE  \E at \in 1..Len(ring.order) :
           /\ ring.order[at] = p
           /\ at = Position(ring.order, p)
           /\ Removed(ring, p).order = Without(ring.order, at)
           /\ Removed(ring, p).cursor \in Nat
           /\ Len(ring.order) = 1 => Removed(ring, p).cursor = 0
           /\ Len(ring.order) > 1 /\ at <= ring.cursor =>
                Removed(ring, p).cursor = ring.cursor - 1
           /\ Len(ring.order) > 1 /\ at > ring.cursor /\ ring.cursor = Len(ring.order) - 1 =>
                Removed(ring, p).cursor = 0
           /\ Len(ring.order) > 1 /\ at > ring.cursor /\ ring.cursor # Len(ring.order) - 1 =>
                Removed(ring, p).cursor = ring.cursor
<1> DEFINE order == ring.order
           cursor == ring.cursor
           n == Len(order)
           at == Position(order, p)
           rest == Without(order, at)
           moved == IF at - 1 < cursor THEN cursor - 1 ELSE cursor
<1>1. order \in Seq(Panes) /\ n \in Nat /\ cursor \in Nat /\ cursor < n
  <2>1. order # <<>>
    BY DEF RingOK, Members
  <2> QED BY <2>1 DEF RingOK
<1>2. at \in 1..n /\ order[at] = p
  BY <1>1, PositionIs, Zenon
<1>3. Removed(ring, p) =
        [order |-> rest, cursor |-> IF rest = <<>> THEN 0 ELSE moved % Len(rest)]
  BY Zenon DEF Removed
<1>4. rest \in Seq(Panes) /\ Len(rest) = n - 1
  BY <1>1, <1>2, WithoutIs, Zenon
<1> HIDE DEF at, rest, order, cursor, n
<1>5. rest = <<>> <=> n = 1
  BY <1>1, <1>4, EmptyOrder
<1> DEFINE Moves(c) ==
      /\ c \in Nat
      /\ n = 1 => c = 0
      /\ n > 1 /\ at <= cursor => c = cursor - 1
      /\ n > 1 /\ at > cursor /\ cursor = n - 1 => c = 0
      /\ n > 1 /\ at > cursor /\ cursor # n - 1 => c = cursor
<1>6. ASSUME n = 1
      PROVE  Removed(ring, p).order = rest /\ Moves(Removed(ring, p).cursor)
  <2>1. Removed(ring, p).order = rest /\ Removed(ring, p).cursor = 0
    BY <1>3, <1>5, <1>6
  <2> QED BY <1>6, <2>1
<1>7. ASSUME n > 1
      PROVE  Removed(ring, p).order = rest /\ Moves(Removed(ring, p).cursor)
  <2>1. Removed(ring, p).order = rest /\ Removed(ring, p).cursor = moved % (n - 1)
    BY <1>3, <1>4, <1>5, <1>7
  <2>2. ASSUME at <= cursor PROVE moved % (n - 1) = cursor - 1
    <3>1. moved = cursor - 1 /\ moved \in Nat /\ n - 1 \in Nat /\ moved < n - 1
      BY <1>1, <1>2, <2>2
    <3> HIDE DEF moved
    <3>2. moved % (n - 1) = moved
      BY <3>1, ModSmall, Zenon
    <3> QED BY <3>1, <3>2, Zenon
  <2>3. ASSUME at > cursor, cursor = n - 1 PROVE moved % (n - 1) = 0
    <3>1. moved = n - 1 /\ moved \in Nat /\ moved < moved + moved /\ moved - moved = 0
      BY <1>1, <1>2, <1>7, <2>3
    <3> HIDE DEF moved
    <3> QED BY <1>1, <3>1, ModOnce
  <2>4. ASSUME at > cursor, cursor # n - 1 PROVE moved % (n - 1) = cursor
    <3>1. moved = cursor /\ moved \in Nat /\ n - 1 \in Nat /\ moved < n - 1
      BY <1>1, <1>2, <2>4
    <3> HIDE DEF moved
    <3>2. moved % (n - 1) = moved
      BY <3>1, ModSmall, Zenon
    <3> QED BY <3>1, <3>2, Zenon
  <2> HIDE DEF moved
  <2>5. Moves(moved % (n - 1))
    BY <1>1, <1>2, <1>7, <2>2, <2>3, <2>4
  <2> QED BY <2>1, <2>5, Zenon
<1>8. Removed(ring, p).order = rest /\ Moves(Removed(ring, p).cursor)
  <2>1. n = 1 \/ n > 1
    BY <1>1
  <2> QED BY <1>6, <1>7, <2>1, Zenon
<1> QED BY <1>2, <1>8, Zenon DEF order, cursor, at, rest, n

LEMMA RemovedKeeps ==
  ASSUME NEW ring, RingOK(ring), NEW p \in Panes
  PROVE  /\ RingOK(Removed(ring, p))
         /\ Members(Removed(ring, p).order) = Members(ring.order) \ {p}
         /\ \A q, r : q # p /\ r # p /\ Precedes(ring, q, r)
                        => Precedes(Removed(ring, p), q, r)
<1>1. CASE p \notin Members(ring.order)
  BY <1>1, Zenon DEF Removed
<1>2. CASE p \in Members(ring.order)
  <2> DEFINE order == ring.order
             cursor == ring.cursor
             n == Len(order)
             rest == Removed(ring, p).order
             moved == Removed(ring, p).cursor
  <2>1. PICK at \in 1..n :
           /\ order[at] = p
           /\ rest = Without(order, at)
           /\ moved \in Nat
           /\ n = 1 => moved = 0
           /\ n > 1 /\ at <= cursor => moved = cursor - 1
           /\ n > 1 /\ at > cursor /\ cursor = n - 1 => moved = 0
           /\ n > 1 /\ at > cursor /\ cursor # n - 1 => moved = cursor
    BY <1>2, RemovedIs, Zenon
  <2>2. /\ order \in Seq(Panes) /\ n \in Nat /\ cursor \in Nat /\ cursor < n
        /\ \A i, j \in 1..n : order[i] = order[j] => i = j
    BY <2>1 DEF RingOK, Distinct
  <2>3. /\ rest \in Seq(Panes) /\ Len(rest) = n - 1
        /\ \A i \in 1..(n - 1) : i < at => rest[i] = order[i]
        /\ \A i \in 1..(n - 1) : i >= at => rest[i] = order[i + 1]
    <3> HIDE DEF order, rest, moved, cursor
    <3> QED BY <2>1, <2>2, WithoutIs, ZenonT(30)
  <2>4. /\ Members(order) = {order[i] : i \in 1..n}
        /\ Members(rest) = {rest[i] : i \in 1..(n - 1)}
    BY <2>3, Zenon DEF Members
  <2> HIDE DEF order, cursor, n, rest, moved
  <2>5. RingOK(Removed(ring, p))
    <3>0. ASSUME NEW i \in 1..(n - 1)
          PROVE  \E k \in 1..n : rest[i] = order[k] /\ (i < at => k = i) /\ (i >= at => k = i + 1)
      <4>1. CASE i < at
        <5>1. i \in 1..n /\ rest[i] = order[i] /\ ~(i >= at)
          BY <2>1, <2>2, <2>3, <4>1
        <5> QED BY <5>1, Zenon
      <4>2. CASE i >= at
        <5>1. i + 1 \in 1..n /\ rest[i] = order[i + 1] /\ ~(i < at)
          BY <2>1, <2>2, <2>3, <4>2
        <5> QED BY <5>1, Zenon
      <4> QED BY <2>1, <2>2, <4>1, <4>2
    <3>1. ASSUME NEW i \in 1..(n - 1), NEW j \in 1..(n - 1), rest[i] = rest[j] PROVE i = j
      <4>1. PICK k \in 1..n : rest[i] = order[k] /\ (i < at => k = i) /\ (i >= at => k = i + 1)
        BY <3>0, Zenon
      <4>2. PICK l \in 1..n : rest[j] = order[l] /\ (j < at => l = j) /\ (j >= at => l = j + 1)
        BY <3>0, Zenon
      <4>3. k = l
        BY <2>2, <3>1, <4>1, <4>2, Zenon
      <4> QED BY <2>2, <4>1, <4>2, <4>3
    <3>2. moved < n - 1 \/ moved = 0
      BY <2>1, <2>2
    <3> QED BY <2>1, <2>3, <3>1, <3>2, Zenon DEF RingOK, Distinct, rest, moved
  <2>6. Members(rest) = Members(order) \ {p}
    <3>1. ASSUME NEW i \in 1..(n - 1) PROVE rest[i] \in Members(order) \ {p}
      <4>1. CASE i < at
        <5>1. i \in 1..n /\ rest[i] = order[i] /\ i # at
          BY <2>1, <2>2, <2>3, <4>1
        <5> QED BY <2>1, <2>2, <2>4, <5>1, Zenon
      <4>2. CASE i >= at
        <5>1. i + 1 \in 1..n /\ rest[i] = order[i + 1] /\ i + 1 # at
          BY <2>1, <2>2, <2>3, <4>2
        <5> QED BY <2>1, <2>2, <2>4, <5>1, Zenon
      <4> QED BY <2>1, <2>2, <4>1, <4>2
    <3>2. ASSUME NEW i \in 1..n, order[i] # p PROVE order[i] \in Members(rest)
      <4>1. CASE i < at
        <5>1. i \in 1..(n - 1) /\ rest[i] = order[i]
          BY <2>1, <2>2, <2>3, <4>1
        <5> QED BY <2>4, <5>1, Zenon
      <4>2. CASE i > at
        <5>1. i - 1 \in 1..(n - 1) /\ i - 1 >= at /\ (i - 1) + 1 = i
          BY <2>1, <2>2, <4>2
        <5> QED BY <2>3, <2>4, <5>1, Zenon
      <4> QED BY <2>1, <2>2, <3>2, <4>1, <4>2
    <3> QED BY <2>4, <3>1, <3>2, Zenon
  <2>7. ASSUME NEW q, NEW r, q # p, r # p, Precedes(ring, q, r)
        PROVE  Precedes(Removed(ring, p), q, r)
    <3>1. PICK i \in 1..n, j \in 1..n : order[i] = q /\ order[j] = r /\ Walk(cursor, i, j)
      BY <2>7, Zenon DEF Precedes, order, n, cursor
    <3>2. i # at /\ j # at
      BY <2>1, <2>7, <3>1, Zenon
    <3>3. PICK k \in 1..(n - 1) : rest[k] = q /\ (i < at => k = i) /\ (i > at => k = i - 1)
      <4>1. CASE i < at
        <5>1. i \in 1..(n - 1) /\ rest[i] = order[i] /\ ~(i > at)
          BY <2>1, <2>2, <2>3, <4>1
        <5> QED BY <3>1, <5>1, Zenon
      <4>2. CASE i > at
        <5>1. i - 1 \in 1..(n - 1) /\ i - 1 >= at /\ (i - 1) + 1 = i
          BY <2>1, <2>2, <4>2
        <5> QED BY <2>2, <2>3, <3>1, <4>2, <5>1
      <4> QED BY <2>2, <3>2, <4>1, <4>2
    <3>4. PICK l \in 1..(n - 1) : rest[l] = r /\ (j < at => l = j) /\ (j > at => l = j - 1)
      <4>1. CASE j < at
        <5>1. j \in 1..(n - 1) /\ rest[j] = order[j] /\ ~(j > at)
          BY <2>1, <2>2, <2>3, <4>1
        <5> QED BY <3>1, <5>1, Zenon
      <4>2. CASE j > at
        <5>1. j - 1 \in 1..(n - 1) /\ j - 1 >= at /\ (j - 1) + 1 = j
          BY <2>1, <2>2, <4>2
        <5> QED BY <2>2, <2>3, <3>1, <4>2, <5>1
      <4> QED BY <2>2, <3>2, <4>1, <4>2
    <3>5. Walk(moved, k, l)
      BY <2>1, <2>2, <3>1, <3>2, <3>3, <3>4 DEF Walk
    <3> QED BY <2>3, <3>3, <3>4, <3>5, Zenon DEF Precedes, rest, moved
  <2> QED BY <2>5, <2>6, <2>7, Zenon DEF rest, order
<1> QED BY <1>1, <1>2, Zenon

(***************************************************************************)
(* The rings between the removals of one reap_expired: f[i] is left when   *)
(* the first i panes are out.                                              *)
(***************************************************************************)
Rings == {ring \in [order : Seq(Panes), cursor : Nat] : RingOK(ring)}

Removing(f, ring, removals, k) ==
  /\ f \in [0..k -> Rings]
  /\ f[0] = ring
  /\ \A i \in 1..k : f[i] = Removed(f[i - 1], removals[i])

LEMMA RemovedType ==
  ASSUME NEW ring \in Rings, NEW p \in Panes
  PROVE  Removed(ring, p) \in Rings
<1>1. RingOK(Removed(ring, p))
  BY RemovedKeeps, Zenon DEF Rings
<1>2. Removed(ring, p) =
        [order |-> Removed(ring, p).order, cursor |-> Removed(ring, p).cursor]
  BY Zenon DEF Removed, Rings
<1>3. Removed(ring, p) \in [order : Seq(Panes), cursor : Nat]
  BY <1>1, <1>2, Zenon DEF RingOK
<1> QED BY <1>1, <1>3, Zenon DEF Rings

LEMMA RemovingExists ==
  ASSUME Induction, NEW ring \in Rings, NEW removals \in Seq(Panes)
  PROVE  \E f : Removing(f, ring, removals, Len(removals))
<1> DEFINE n == Len(removals)
           E == {k \in Nat : k <= n => \E f : Removing(f, ring, removals, k)}
<1>0. n \in Nat /\ \A i \in 1..n : removals[i] \in Panes
  OBVIOUS
<1> HIDE DEF n
<1>1. 0 \in E
  <2> DEFINE f == [i \in 0..0 |-> ring]
  <2>1. Removing(f, ring, removals, 0)
    BY DEF Removing
  <2> QED BY <2>1, Zenon
<1>2. ASSUME NEW k \in Nat, k \in E PROVE k + 1 \in E
  <2> SUFFICES ASSUME k + 1 <= n PROVE \E f : Removing(f, ring, removals, k + 1)
    OBVIOUS
  <2>1. PICK f : Removing(f, ring, removals, k)
    BY <1>0, <1>2
  <2>2. k \in 0..k /\ k + 1 \in 1..n /\ f[k] \in Rings
    BY <1>0, <2>1 DEF Removing
  <2>3. Removed(f[k], removals[k + 1]) \in Rings
    BY <1>0, <2>2, RemovedType, Zenon
  <2> DEFINE g == [i \in 0..(k + 1) |->
                     IF i <= k THEN f[i] ELSE Removed(f[k], removals[k + 1])]
  <2>4. g \in [0..(k + 1) -> Rings]
    BY <2>1, <2>3 DEF Removing
  <2>5. g[0] = ring
    BY <2>1 DEF Removing
  <2>6. ASSUME NEW i \in 1..(k + 1) PROVE g[i] = Removed(g[i - 1], removals[i])
    <3>1. i - 1 \in 0..(k + 1) /\ i \in 0..(k + 1) /\ i - 1 <= k
      OBVIOUS
    <3>2. g[i - 1] = f[i - 1]
      BY <3>1, Zenon
    <3>3. CASE i <= k
      <4>1. i \in 1..k /\ g[i] = f[i]
        BY <3>1, <3>3
      <4>2. f[i] = Removed(f[i - 1], removals[i])
        BY <2>1, <4>1, Zenon DEF Removing
      <4> QED BY <3>2, <4>1, <4>2, Zenon
    <3>4. CASE i = k + 1
      <4>1. g[i] = Removed(f[k], removals[k + 1]) /\ i - 1 = k
        BY <3>1, <3>4
      <4> QED BY <3>2, <3>4, <4>1, Zenon
    <3> QED BY <3>3, <3>4
  <2> HIDE DEF g
  <2> QED BY <2>4, <2>5, <2>6, Zenon DEF Removing
<1>3. \A k \in Nat : k \in E
  <2> HIDE DEF E
  <2> QED BY <1>1, <1>2, Zenon DEF Induction
<1> QED BY <1>0, <1>3 DEF n

LEMMA RemovedAllIs ==
  ASSUME Induction, NEW ring, NEW removals \in Seq(Panes), NEW f,
         Removing(f, ring, removals, Len(removals))
  PROVE  RemovedAll(ring, removals) = f[Len(removals)]
<1> DEFINE n == Len(removals)
           Eq(h) == h = [i \in 0..n |-> IF i = 0 THEN ring ELSE Removed(h[i - 1], removals[i])]
           h == CHOOSE after : Eq(after)
<1>0. n \in Nat
  OBVIOUS
<1>1. Eq(f)
  <2>1. ASSUME NEW i \in 0..n
        PROVE  f[i] = IF i = 0 THEN ring ELSE Removed(f[i - 1], removals[i])
    <3>1. CASE i = 0
      BY <3>1, Zenon DEF Removing
    <3>2. CASE i # 0
      <4>1. i \in 1..n
        BY <1>0, <3>2
      <4> QED BY <3>2, <4>1, Zenon DEF Removing
    <3> QED BY <3>1, <3>2, Zenon
  <2>2. f = [i \in 0..n |-> f[i]]
    BY Zenon DEF Removing
  <2> QED BY <2>1, <2>2, Zenon
<1>2. Eq(h)
  BY <1>1, Zenon
<1>3. RemovedAll(ring, removals) = h[n]
  BY Zenon DEF RemovedAll
<1> HIDE DEF h
<1> DEFINE E == {k \in Nat : k <= n => f[k] = h[k]}
<1>4. 0 \in E
  BY <1>0, <1>2 DEF Removing
<1>5. ASSUME NEW k \in Nat, k \in E PROVE k + 1 \in E
  <2> SUFFICES ASSUME k + 1 <= n PROVE f[k + 1] = h[k + 1]
    OBVIOUS
  <2>1. k + 1 \in 1..n /\ k + 1 # 0 /\ k + 1 \in 0..n /\ (k + 1) - 1 = k /\ f[k] = h[k]
    BY <1>0, <1>5
  <2>2. f[k + 1] = Removed(f[k], removals[k + 1])
    BY <2>1, Zenon DEF Removing
  <2>3. h[k + 1] = Removed(h[k], removals[k + 1])
    BY <1>2, <2>1, Zenon
  <2> QED BY <2>1, <2>2, <2>3, Zenon
<1>6. \A k \in Nat : k \in E
  <2> HIDE DEF E
  <2> QED BY <1>4, <1>5, Zenon DEF Induction
<1> QED BY <1>0, <1>3, <1>6

(***************************************************************************)
(* Any number of removals keeps the others as they follow each other from  *)
(* the cursor on.                                                          *)
(***************************************************************************)
LEMMA RemovedAllKeeps ==
  ASSUME Induction, NEW ring \in Rings, NEW removals \in Seq(Panes)
  PROVE  /\ RemovedAll(ring, removals) \in Rings
         /\ Members(RemovedAll(ring, removals).order) =
              Members(ring.order) \ Members(removals)
         /\ \A q, r :
              q \notin Members(removals) /\ r \notin Members(removals) /\ Precedes(ring, q, r)
                => Precedes(RemovedAll(ring, removals), q, r)
<1> DEFINE n == Len(removals)
           gone(k) == {removals[i] : i \in 1..k}
<1>0. n \in Nat /\ \A i \in 1..n : removals[i] \in Panes
  OBVIOUS
<1>1. PICK f : Removing(f, ring, removals, n)
  BY RemovingExists, Zenon
<1> DEFINE Left(k) == /\ Members(f[k].order) = Members(ring.order) \ gone(k)
                      /\ \A q, r : q \notin gone(k) /\ r \notin gone(k) /\ Precedes(ring, q, r)
                                     => Precedes(f[k], q, r)
           E == {k \in Nat : k <= n => Left(k)}
<1>2. 0 \in E
  <2>1. gone(0) = {} /\ f[0] = ring
    <3>1. 1..0 = {}
      OBVIOUS
    <3> QED BY <1>1, <3>1, Zenon DEF Removing
  <2> HIDE DEF gone
  <2> QED BY <2>1, Zenon
<1>3. ASSUME NEW k \in Nat, k \in E PROVE k + 1 \in E
  <2> SUFFICES ASSUME k + 1 <= n PROVE Left(k + 1)
    OBVIOUS
  <2>1. k + 1 \in 1..n /\ (k + 1) - 1 = k /\ k \in 0..n /\ Left(k)
    <3> HIDE DEF n, Left
    <3>1. k + 1 \in 1..n /\ (k + 1) - 1 = k /\ k \in 0..n /\ k <= n
      BY <1>0
    <3> QED BY <1>3, <3>1, Zenon
  <2>2. /\ f[k] \in Rings /\ f[k + 1] = Removed(f[k], removals[k + 1])
        /\ removals[k + 1] \in Panes
    BY <1>0, <1>1, <2>1, Zenon DEF Removing
  <2>3. gone(k + 1) = gone(k) \cup {removals[k + 1]}
    <3>1. 1..(k + 1) = (1..k) \cup {k + 1}
      OBVIOUS
    <3> QED BY <3>1, Zenon
  <2>4. /\ Members(f[k + 1].order) = Members(f[k].order) \ {removals[k + 1]}
        /\ \A q, r : q # removals[k + 1] /\ r # removals[k + 1] /\ Precedes(f[k], q, r)
                       => Precedes(f[k + 1], q, r)
    <3> DEFINE before == f[k]
               out == removals[k + 1]
    <3>1. RingOK(before) /\ out \in Panes /\ f[k + 1] = Removed(before, out)
      BY <2>2, Zenon DEF Rings
    <3> HIDE DEF before, out
    <3>2. /\ Members(Removed(before, out).order) = Members(before.order) \ {out}
          /\ \A q, r : q # out /\ r # out /\ Precedes(before, q, r)
                         => Precedes(Removed(before, out), q, r)
      BY <3>1, RemovedKeeps, Zenon
    <3> QED BY <3>1, <3>2, Zenon DEF before, out
  <2> HIDE DEF gone
  <2> QED BY <2>1, <2>3, <2>4, Zenon
<1>4. Left(n)
  <2>1. \A k \in Nat : k \in E
    <3> HIDE DEF E
    <3> QED BY <1>2, <1>3, Zenon DEF Induction
  <2> HIDE DEF Left
  <2> QED BY <1>0, <2>1
<1>5. gone(n) = Members(removals)
  BY Zenon DEF Members
<1>6. RemovedAll(ring, removals) = f[n] /\ f[n] \in Rings
  BY <1>0, <1>1, RemovedAllIs DEF Removing
<1> HIDE DEF gone, n
<1> QED BY <1>4, <1>5, <1>6, Zenon

-----------------------------------------------------------------------------
(***************************************************************************)
(* The type invariant is that the hub's order and cursor are a ring.       *)
(***************************************************************************)
LEMMA RingTyped ==
  ASSUME NEW order, NEW cursor
  PROVE  [order |-> order, cursor |-> cursor] \in Rings
           <=> /\ order \in Seq(Panes)
               /\ Distinct(order)
               /\ cursor \in 0..(IF order = <<>> THEN 0 ELSE Len(order) - 1)
<1> DEFINE ring == [order |-> order, cursor |-> cursor]
<1>1. ring.order = order /\ ring.cursor = cursor
  BY Zenon
<1>2. ring \in Rings
        <=> /\ order \in Seq(Panes) /\ Distinct(order) /\ cursor \in Nat
            /\ cursor < Len(order) \/ cursor = 0
  <2>1. ring \in [order : Seq(Panes), cursor : Nat] <=> order \in Seq(Panes) /\ cursor \in Nat
    BY Zenon
  <2>2. RingOK(ring) <=> /\ order \in Seq(Panes) /\ Distinct(order) /\ cursor \in Nat
                         /\ cursor < Len(order) \/ cursor = 0
    BY <1>1, Zenon DEF RingOK
  <2> QED BY <2>1, <2>2, Zenon DEF Rings
<1> HIDE DEF ring
<1>3. ASSUME order \in Seq(Panes)
      PROVE  (cursor \in Nat /\ (cursor < Len(order) \/ cursor = 0))
               <=> cursor \in 0..(IF order = <<>> THEN 0 ELSE Len(order) - 1)
  <2>1. CASE order = <<>>
    <3>1. Len(order) = 0
      BY <2>1, Zenon
    <3> QED BY <2>1, <3>1
  <2>2. CASE order # <<>>
    <3>1. Len(order) \in Nat /\ Len(order) > 0
      BY <1>3, <2>2
    <3> QED BY <2>2, <3>1
  <2> QED BY <2>1, <2>2, Zenon
<1> QED BY <1>2, <1>3, Zenon DEF ring

LEMMA TypeIsRing ==
  OrderTypeOK <=> /\ Ring \in Rings
                  /\ ready \subseteq Opened
                  /\ passed \in [Panes -> SUBSET Panes]
<1> DEFINE Typed == /\ pane_order \in Seq(Panes)
                    /\ Distinct(pane_order)
                    /\ fair_drain_cursor \in
                         0..(IF pane_order = <<>> THEN 0 ELSE Len(pane_order) - 1)
<1>1. Ring \in Rings <=> Typed
  BY RingTyped, Zenon DEF Ring
<1>2. OrderTypeOK <=> Typed /\ ready \subseteq Opened /\ passed \in [Panes -> SUBSET Panes]
  BY Zenon DEF OrderTypeOK
<1> HIDE DEF Typed
<1> QED BY <1>1, <1>2, Zenon

LEMMA TypeIsRingNext ==
  ASSUME NEW ring \in Rings, pane_order' = ring.order, fair_drain_cursor' = ring.cursor,
         ready' \subseteq Members(ring.order), passed' \in [Panes -> SUBSET Panes]
  PROVE  OrderTypeOK' /\ Ring' = ring
<1>1. ring = [order |-> pane_order', cursor |-> fair_drain_cursor']
  BY Zenon DEF Rings
<1>2. Ring' = ring
  BY <1>1, Zenon DEF Ring
<1>3. /\ pane_order' \in Seq(Panes)
      /\ Distinct(pane_order')
      /\ fair_drain_cursor' \in 0..(IF pane_order' = <<>> THEN 0 ELSE Len(pane_order') - 1)
  BY <1>1, RingTyped, Zenon
<1>4. ready' \subseteq Opened'
  BY Zenon DEF Opened, Members
<1>5. OrderTypeOK'
  BY <1>3, <1>4, Zenon DEF OrderTypeOK, Distinct
<1> QED BY <1>2, <1>5, Zenon

-----------------------------------------------------------------------------
(***************************************************************************)
(* The operations on the order.                                            *)
(***************************************************************************)
LEMMA AppendedRing ==
  ASSUME NEW ring \in Rings, NEW p \in Panes, p \notin Members(ring.order)
  PROVE  /\ [order |-> Append(ring.order, p), cursor |-> ring.cursor] \in Rings
         /\ Members(Append(ring.order, p)) = Members(ring.order) \cup {p}
         /\ \A q, r : Precedes(ring, q, r)
              => Precedes([order |-> Append(ring.order, p), cursor |-> ring.cursor], q, r)
<1> DEFINE order == ring.order
           n == Len(order)
           longer == Append(order, p)
           after == [order |-> longer, cursor |-> ring.cursor]
<1>1. /\ order \in Seq(Panes) /\ n \in Nat /\ ring.cursor \in Nat
      /\ ring.cursor < n \/ ring.cursor = 0
      /\ \A i, j \in 1..n : order[i] = order[j] => i = j
  BY DEF Rings, RingOK, Distinct
<1>2. /\ longer \in Seq(Panes) /\ Len(longer) = n + 1 /\ longer[n + 1] = p
      /\ \A i \in 1..n : longer[i] = order[i]
  BY <1>1, AppendIs
<1>3. after.order = longer /\ after.cursor = ring.cursor
  BY Zenon
<1>4. \A i \in 1..n : order[i] # p
  BY Zenon DEF Members
<1>5. /\ Members(order) = {order[i] : i \in 1..n}
      /\ Members(longer) = {longer[i] : i \in 1..(n + 1)}
  BY <1>2, Zenon DEF Members
<1>6. after \in [order : Seq(Panes), cursor : Nat]
  BY <1>1, <1>2, Zenon
<1> HIDE DEF order, n, longer, after
<1>7. Distinct(longer)
  <2>1. ASSUME NEW i \in 1..(n + 1), NEW j \in 1..(n + 1), longer[i] = longer[j] PROVE i = j
    BY <1>1, <1>2, <1>4, <2>1
  <2> QED BY <1>2, <2>1, Zenon DEF Distinct
<1>8. RingOK(after)
  BY <1>1, <1>2, <1>3, <1>7 DEF RingOK
<1>9. Members(longer) = Members(order) \cup {p}
  <2>1. 1..(n + 1) = (1..n) \cup {n + 1}
    BY <1>1
  <2> QED BY <1>2, <1>5, <2>1
<1>10. ASSUME NEW q, NEW r, Precedes(ring, q, r) PROVE Precedes(after, q, r)
  <2>1. PICK i \in 1..n, j \in 1..n : order[i] = q /\ order[j] = r /\ Walk(ring.cursor, i, j)
    BY <1>10, Zenon DEF Precedes, order, n
  <2>2. i \in 1..(n + 1) /\ j \in 1..(n + 1) /\ longer[i] = q /\ longer[j] = r
    BY <1>1, <1>2, <2>1
  <2> QED BY <1>2, <1>3, <2>1, <2>2, Zenon DEF Precedes
<1>11. after \in Rings
  BY <1>6, <1>8, Zenon DEF Rings
<1> QED BY <1>9, <1>10, <1>11, Zenon DEF order, longer, after

LEMMA RepositionedRing ==
  ASSUME NEW ring \in Rings, NEW p \in Panes, NEW position \in Nat \ {0}
  PROVE  /\ Repositioned(ring, p, position) \in Rings
         /\ Members(Repositioned(ring, p, position).order) =
              Members(ring.order) \cup {p}
<1> DEFINE rest == Removed(ring, p)
           order == rest.order
           n == Len(order)
           at == IF position <= n THEN position ELSE n + 1
           order2 == Inserted(order, at, p)
           cursor2 == IF rest.cursor <= n THEN rest.cursor ELSE n
<1>1. rest \in Rings /\ Members(order) = Members(ring.order) \ {p}
  BY RemovedType, RemovedKeeps, Zenon DEF Rings
<1>2. /\ order \in Seq(Panes) /\ n \in Nat /\ rest.cursor \in Nat
      /\ rest.cursor < n \/ rest.cursor = 0
      /\ \A i, j \in 1..n : order[i] = order[j] => i = j
  BY <1>1 DEF Rings, RingOK, Distinct
<1>3. at \in 1..(n + 1)
  BY <1>2
<1>4. Repositioned(ring, p, position) = [order |-> order2, cursor |-> cursor2]
  BY Zenon DEF Repositioned
<1>5. cursor2 \in Nat /\ cursor2 < n + 1
  BY <1>2
<1>6. \A i \in 1..n : order[i] # p
  BY <1>1, Zenon DEF Members
<1>7. Members(order) = {order[i] : i \in 1..n}
  BY Zenon DEF Members
<1> HIDE DEF rest, order, n, at, cursor2
<1>8. /\ order2 \in Seq(Panes) /\ Len(order2) = n + 1
      /\ \A i \in 1..(n + 1) : i < at => order2[i] = order[i]
      /\ order2[at] = p
      /\ \A i \in 1..(n + 1) : i > at => order2[i] = order[i - 1]
  BY <1>2, <1>3, InsertedIs DEF n
<1> HIDE DEF order2
<1>9. ASSUME NEW i \in 1..(n + 1), i # at
      PROVE  \E k \in 1..n : order2[i] = order[k] /\ (i < at => k = i) /\ (i > at => k = i - 1)
  <2>1. CASE i < at
    <3>1. i \in 1..n /\ order2[i] = order[i] /\ ~(i > at)
      BY <1>2, <1>3, <1>8, <2>1
    <3> QED BY <3>1, Zenon
  <2>2. CASE i > at
    <3>1. i - 1 \in 1..n /\ order2[i] = order[i - 1] /\ ~(i < at)
      BY <1>2, <1>3, <1>8, <2>2
    <3> QED BY <3>1, Zenon
  <2> QED BY <1>2, <1>3, <1>9, <2>1, <2>2
<1>10. Distinct(order2)
  <2>1. ASSUME NEW i \in 1..(n + 1), NEW j \in 1..(n + 1), order2[i] = order2[j] PROVE i = j
    <3>1. CASE i = at \/ j = at
      BY <1>6, <1>8, <1>9, <2>1, <3>1, Zenon
    <3>2. CASE i # at /\ j # at
      <4>1. PICK k \in 1..n : order2[i] = order[k] /\ (i < at => k = i) /\ (i > at => k = i - 1)
        BY <1>9, <3>2, Zenon
      <4>2. PICK l \in 1..n : order2[j] = order[l] /\ (j < at => l = j) /\ (j > at => l = j - 1)
        BY <1>9, <3>2, Zenon
      <4>3. k = l
        BY <1>2, <2>1, <4>1, <4>2, Zenon
      <4> QED BY <1>2, <1>3, <3>2, <4>1, <4>2, <4>3
    <3> QED BY <3>1, <3>2, Zenon
  <2> QED BY <1>8, <2>1, Zenon DEF Distinct
<1>11. [order |-> order2, cursor |-> cursor2] \in Rings
  BY <1>5, <1>8, <1>10, Zenon DEF Rings, RingOK
<1>12. Members(order2) = Members(order) \cup {p}
  <2>1. Members(order2) = {order2[i] : i \in 1..(n + 1)}
    BY <1>8, Zenon DEF Members
  <2>2. Members(order2) \subseteq Members(order) \cup {p}
    BY <1>7, <1>8, <1>9, <2>1
  <2>3. p \in Members(order2)
    BY <1>3, <1>8, <2>1, Zenon
  <2>4. ASSUME NEW k \in 1..n PROVE order[k] \in Members(order2)
    <3>1. CASE k < at
      <4>1. k \in 1..(n + 1) /\ order2[k] = order[k]
        BY <1>2, <1>8, <3>1
      <4> QED BY <2>1, <4>1, Zenon
    <3>2. CASE k >= at
      <4>1. k + 1 \in 1..(n + 1) /\ k + 1 > at /\ (k + 1) - 1 = k
        BY <1>2, <1>3, <3>2
      <4>2. order2[k + 1] = order[k]
        BY <1>8, <4>1, Zenon
      <4> QED BY <2>1, <4>1, <4>2, Zenon
    <3> QED BY <1>2, <1>3, <3>1, <3>2
  <2> QED BY <1>7, <2>2, <2>3, <2>4, Zenon
<1> QED BY <1>1, <1>4, <1>11, <1>12

-----------------------------------------------------------------------------
(***************************************************************************)
(* The walk of drain_ready_fair, by positions.                             *)
(***************************************************************************)
LEMMA IndexIs ==
  ASSUME OrderTypeOK, NEW offset \in 0..(Len(pane_order) - 1)
  PROVE  /\ Index(offset) \in 0..(Len(pane_order) - 1)
         /\ fair_drain_cursor + offset < Len(pane_order)
              => Index(offset) = fair_drain_cursor + offset
         /\ fair_drain_cursor + offset >= Len(pane_order)
              => Index(offset) = fair_drain_cursor + offset - Len(pane_order)
<1> DEFINE n == Len(pane_order)
           c == fair_drain_cursor
<1>1. pane_order \in Seq(Panes) /\ n \in Nat /\ n > 0
  <2>1. pane_order \in Seq(Panes) /\ n \in Nat
    BY DEF OrderTypeOK
  <2>2. offset \in 0..(n - 1)
    BY Zenon
  <2> HIDE DEF n
  <2> QED BY <2>1, <2>2
<1>2. pane_order # <<>>
  BY <1>1
<1>3. c \in 0..(n - 1)
  BY <1>2, Zenon DEF OrderTypeOK
<1>4. Index(offset) = ((c % n) + offset) % n
  BY Zenon DEF Index
<1> HIDE DEF n, c
<1>5. c % n = c
  BY <1>1, <1>3, ModSmall
<1>6. offset \in 0..(n - 1)
  BY Zenon DEF n
<1>7. ASSUME c + offset < n PROVE Index(offset) = c + offset
  BY <1>1, <1>3, <1>4, <1>5, <1>6, <1>7, ModSmall
<1>8. ASSUME c + offset >= n PROVE Index(offset) = c + offset - n
  <2> DEFINE a == c + offset
  <2>1. a \in Nat /\ n <= a /\ a < n + n
    BY <1>1, <1>3, <1>6, <1>8
  <2>2. Index(offset) = a % n
    BY <1>4, <1>5, Zenon
  <2> HIDE DEF a
  <2>3. Index(offset) = a - n
    BY <1>1, <2>1, <2>2, ModOnce, Zenon
  <2> QED BY <1>1, <1>3, <1>6, <2>3 DEF a
<1>9. Index(offset) \in 0..(n - 1)
  BY <1>1, <1>3, <1>6, <1>7, <1>8
<1> QED BY <1>7, <1>8, <1>9, Zenon DEF n, c

LEMMA OffsetsInOrder ==
  ASSUME OrderTypeOK, NEW a \in 0..(Len(pane_order) - 1), NEW b \in 0..(Len(pane_order) - 1), a < b
  PROVE  Walk(fair_drain_cursor, Index(a) + 1, Index(b) + 1)
<1> DEFINE n == Len(pane_order)
           c == fair_drain_cursor
           ia == Index(a)
           ib == Index(b)
<1>1. n \in Nat /\ c \in Nat
  BY DEF OrderTypeOK
<1>2. /\ ia \in 0..(n - 1)
      /\ c + a < n => ia = c + a
      /\ c + a >= n => ia = c + a - n
  BY IndexIs, Zenon
<1>3. /\ ib \in 0..(n - 1)
      /\ c + b < n => ib = c + b
      /\ c + b >= n => ib = c + b - n
  BY IndexIs, Zenon
<1>4. a \in 0..(n - 1) /\ b \in 0..(n - 1)
  BY Zenon
<1> HIDE DEF n, c, ia, ib
<1>5. Walk(c, ia + 1, ib + 1)
  BY <1>1, <1>2, <1>3, <1>4 DEF Walk
<1> QED BY <1>5, Zenon DEF c, ia, ib

LEMMA EveryPaneVisited ==
  ASSUME OrderTypeOK, NEW q \in Opened
  PROVE  \E offset \in 0..(Len(pane_order) - 1) : Visited(offset) = q
<1> DEFINE n == Len(pane_order)
           c == fair_drain_cursor
<1>1. PICK i \in 1..n : pane_order[i] = q
  BY Zenon DEF Opened, Members
<1>2. pane_order # <<>> /\ n \in Nat
  BY <1>1 DEF OrderTypeOK
<1>3. c \in 0..(n - 1)
  BY <1>2, Zenon DEF OrderTypeOK
<1>4. PICK offset \in 0..(n - 1) :
        (i > c => offset = i - 1 - c) /\ (i <= c => offset = i - 1 - c + n)
  <2> HIDE DEF n, c
  <2>1. CASE i > c
    <3>1. i - 1 - c \in 0..(n - 1) /\ ~(i <= c)
      BY <1>2, <1>3, <2>1
    <3> QED BY <3>1, Zenon
  <2>2. CASE i <= c
    <3>1. i - 1 - c + n \in 0..(n - 1) /\ ~(i > c)
      BY <1>2, <1>3, <2>2
    <3> QED BY <3>1, Zenon
  <2> QED BY <1>2, <1>3, <2>1, <2>2, Zenon
<1>5. /\ c + offset < n => Index(offset) = c + offset
      /\ c + offset >= n => Index(offset) = c + offset - n
  BY IndexIs, Zenon
<1>6. Index(offset) + 1 = i
  <2> HIDE DEF n, c
  <2> QED BY <1>2, <1>3, <1>4, <1>5
<1> QED BY <1>1, <1>6, Zenon DEF Visited

(***************************************************************************)
(* A ready pane left out of the drain comes after all the drained ones.    *)
(***************************************************************************)
LEMMA LeftOutIsLater ==
  ASSUME Counting, OrderTypeOK, NEW m \in Nat, NEW q \in ready, q \notin DrainedPanes(m)
  PROVE  \E at \in 1..Len(pane_order) :
           /\ pane_order[at] = q
           /\ \A a \in Chosen(m) : Walk(fair_drain_cursor, Index(a) + 1, at)
<1> DEFINE n == Len(pane_order)
<1>1. q \in Opened /\ n \in Nat
  BY DEF OrderTypeOK
<1>2. PICK b \in 0..(n - 1) : Visited(b) = q
  BY <1>1, EveryPaneVisited, Zenon
<1>3. Index(b) \in 0..(n - 1)
  BY <1>2, IndexIs, Zenon
<1>4. Index(b) + 1 \in 1..n /\ pane_order[Index(b) + 1] = q
  BY <1>1, <1>2, <1>3 DEF Visited
<1>5. ASSUME NEW a \in Chosen(m) PROVE a < b
  <2>1. a \in 0..(n - 1) /\ Cardinality(ReadyUpTo(a)) <= m
    BY Zenon DEF Chosen
  <2> SUFFICES ASSUME b <= a PROVE FALSE
    BY <1>1, <1>2, <2>1
  <2>2. ReadyUpTo(b) \subseteq ReadyUpTo(a)
    BY <1>1, <1>2, <2>1 DEF ReadyUpTo
  <2>3. IsFiniteSet(ReadyUpTo(a))
    <3>1. IsFiniteSet(0..a)
      BY <2>1 DEF Counting
    <3>2. ReadyUpTo(a) \subseteq 0..a
      BY Zenon DEF ReadyUpTo
    <3> QED BY <3>1, <3>2, Zenon DEF Counting
  <2>4. /\ Cardinality(ReadyUpTo(a)) \in Nat /\ Cardinality(ReadyUpTo(b)) \in Nat
        /\ Cardinality(ReadyUpTo(b)) <= Cardinality(ReadyUpTo(a))
    BY <2>2, <2>3, Zenon DEF Counting
  <2>6. Cardinality(ReadyUpTo(b)) <= m
    BY <2>1, <2>4
  <2>7. b \in Chosen(m)
    BY <1>2, <2>6, Zenon DEF Chosen
  <2> QED BY <1>2, <2>7, Zenon DEF DrainedPanes
<1>6. ASSUME NEW a \in Chosen(m)
      PROVE  Walk(fair_drain_cursor, Index(a) + 1, Index(b) + 1)
  <2>1. a \in 0..(n - 1)
    BY Zenon DEF Chosen
  <2> QED BY <1>2, <1>5, <2>1, OffsetsInOrder, Zenon
<1> QED BY <1>4, <1>6, Zenon

(***************************************************************************)
(* Once the cursor is behind the last drained pane, what comes after that  *)
(* pane comes before the panes drained and before what it came before.     *)
(***************************************************************************)
LEMMA CursorTurns ==
  ASSUME NEW n \in Nat, NEW c \in 0..(n - 1), NEW last \in 1..n, NEW at \in 1..n, NEW p \in 1..n,
         NEW next \in Nat, last < n => next = last, last = n => next = 0,
         Walk(c, last, at), Walk(c, at, p) \/ Walk(c, p, last) \/ p = last
  PROVE  Walk(next, at, p)
<1>1. CASE Walk(c, at, p)
  BY <1>1 DEF Walk
<1>2. CASE Walk(c, p, last) \/ p = last
  BY <1>2 DEF Walk
<1> QED BY <1>1, <1>2, Zenon

LEMMA WalkOneWay ==
  ASSUME NEW c \in Int, NEW i \in Int, NEW j \in Int, Walk(c, i, j)
  PROVE  ~Walk(c, j, i)
BY DEF Walk

-----------------------------------------------------------------------------
(***************************************************************************)
(* One step for each operation.                                            *)
(***************************************************************************)
FairInv == OrderTypeOK /\ BehindInv

LEMMA OpenFair ==
  ASSUME FairInv, NEW p \in Panes, Open(p)
  PROVE  FairInv'
<1> DEFINE after == [order |-> Append(Ring.order, p), cursor |-> Ring.cursor]
<1>1. Ring \in Rings /\ Ring.order = pane_order /\ Ring.cursor = fair_drain_cursor
  BY TypeIsRing, Zenon DEF FairInv, Ring
<1>2. p \notin Members(Ring.order)
  BY <1>1, Zenon DEF Open, Opened
<1>3. /\ after \in Rings
      /\ Members(after.order) = Members(Ring.order) \cup {p}
      /\ \A q, r : Precedes(Ring, q, r) => Precedes(after, q, r)
  BY <1>1, <1>2, AppendedRing, Zenon
<1>4. after.order = pane_order' /\ after.cursor = fair_drain_cursor'
  BY <1>1, Zenon DEF Open
<1>5. ready' = ready /\ passed' = passed
  BY Zenon DEF Open
<1>6. ready' \subseteq Members(after.order) /\ passed' \in [Panes -> SUBSET Panes]
  BY <1>1, <1>3, <1>5, Zenon DEF FairInv, OrderTypeOK, Opened
<1> HIDE DEF after
<1>7. OrderTypeOK' /\ Ring' = after
  BY <1>3, <1>4, <1>6, TypeIsRingNext, Zenon
<1>8. BehindInv'
  BY <1>3, <1>5, <1>7, Zenon DEF FairInv, BehindInv
<1> QED BY <1>7, <1>8, Zenon DEF FairInv

LEMMA PublishFair ==
  ASSUME FairInv, NEW p \in Panes, PublishReady(p)
  PROVE  FairInv'
<1>1. Ring' = Ring
  BY Zenon DEF PublishReady, Ring
<1>2. OrderTypeOK'
  BY Zenon DEF FairInv, OrderTypeOK, PublishReady, Opened
<1>3. \A q \in ready' :
        passed'[q] \subseteq passed[q] /\ (q # p => q \in ready) /\ (q = p => passed'[q] = {})
  BY DEF FairInv, OrderTypeOK, PublishReady
<1>4. BehindInv'
  BY <1>1, <1>3, Zenon DEF FairInv, BehindInv
<1> QED BY <1>2, <1>4, Zenon DEF FairInv

LEMMA RemovalsType ==
  ASSUME OrderTypeOK, NEW removals \in Removals
  PROVE  removals \in Seq(Panes)
<1>1. PICK n \in 1..Len(pane_order) : removals \in [1..n -> Opened]
  BY Zenon DEF Removals
<1>2. Opened \subseteq Panes /\ n \in Nat
  BY DEF OrderTypeOK, Opened, Members
<1>3. removals \in [1..n -> Panes]
  BY <1>1, <1>2, Zenon
<1> QED BY <1>2, <1>3

LEMMA CloseFair ==
  ASSUME Induction, FairInv, NEW removals \in Removals, Close(removals)
  PROVE  FairInv'
<1> DEFINE after == RemovedAll(Ring, removals)
           gone == Members(removals)
<1>1. Ring \in Rings /\ Ring.order = pane_order
  BY TypeIsRing, Zenon DEF FairInv, Ring
<1>2. removals \in Seq(Panes)
  BY RemovalsType, Zenon DEF FairInv
<1>3. /\ after \in Rings
      /\ Members(after.order) = Members(Ring.order) \ gone
      /\ \A q, r : q \notin gone /\ r \notin gone /\ Precedes(Ring, q, r)
                     => Precedes(after, q, r)
  BY <1>1, <1>2, RemovedAllKeeps, Zenon
<1>4. /\ pane_order' = after.order /\ fair_drain_cursor' = after.cursor
      /\ ready' = ready \ gone
      /\ passed' = [q \in Panes |-> IF q \in gone THEN {} ELSE passed[q] \ gone]
  BY Zenon DEF Close, Install, Forget
<1> HIDE DEF after, gone
<1>5. ready' \subseteq Members(after.order) /\ passed' \in [Panes -> SUBSET Panes]
  BY <1>1, <1>3, <1>4, Zenon DEF FairInv, OrderTypeOK, Opened
<1>6. OrderTypeOK' /\ Ring' = after
  BY <1>3, <1>4, <1>5, TypeIsRingNext, Zenon
<1>7. ready \subseteq Panes
  BY DEF FairInv, OrderTypeOK, Opened, Members
<1>8. ASSUME NEW q \in ready', NEW p \in passed'[q] PROVE Precedes(after, q, p)
  <2>1. q \in ready /\ q \notin gone /\ p \in passed[q] /\ p \notin gone
    BY <1>4, <1>7, <1>8, Zenon
  <2> QED BY <1>3, <2>1, Zenon DEF FairInv, BehindInv
<1>9. BehindInv'
  BY <1>6, <1>8, Zenon DEF BehindInv
<1> QED BY <1>6, <1>9, Zenon DEF FairInv

LEMMA RestartFair ==
  ASSUME Induction, FairInv, NEW p \in Panes, NEW removals \in Removals,
         Restart(p, removals)
  PROVE  FairInv'
<1> DEFINE reaped == RemovedAll(Ring, removals)
           position == Position(pane_order, p)
           opened == [order |-> Append(reaped.order, p), cursor |-> reaped.cursor]
           after == Repositioned(opened, p, position)
           gone == Members(removals)
<1>1. Ring \in Rings /\ Ring.order = pane_order
  BY TypeIsRing, Zenon DEF FairInv, Ring
<1>2. removals \in Seq(Panes)
  BY RemovalsType, Zenon DEF FairInv
<1>3. p \in gone /\ gone \subseteq Opened
  <2>1. PICK n \in 1..Len(pane_order) : removals \in [1..n -> Opened]
    BY Zenon DEF Removals
  <2>2. n \in Nat /\ Len(removals) = n
    BY <1>2, <2>1
  <2>3. gone \subseteq Opened
    BY <2>1, <2>2, Zenon DEF Members
  <2>4. p \in gone
    BY Zenon DEF Restart
  <2> QED BY <2>3, <2>4, Zenon
<1>4. /\ reaped \in Rings
      /\ Members(reaped.order) = Opened \ gone
  BY <1>1, <1>2, RemovedAllKeeps, Zenon DEF Opened
<1>6. /\ pane_order' = after.order /\ fair_drain_cursor' = after.cursor
      /\ ready' = ready \ gone
      /\ passed' = [q \in Panes |-> {}]
  BY Zenon DEF Restart, Install
<1> HIDE DEF reaped, gone
<1>7. opened \in Rings /\ Members(opened.order) = (Opened \ gone) \cup {p}
  BY <1>3, <1>4, AppendedRing, Zenon
<1>8. position \in Nat \ {0}
  BY <1>1, <1>3, PositionIs DEF Opened, Rings, RingOK
<1> HIDE DEF opened, position
<1>9. after \in Rings /\ Members(after.order) = (Opened \ gone) \cup {p}
  BY <1>7, <1>8, RepositionedRing
<1> HIDE DEF after
<1>10. ready' \subseteq Members(after.order) /\ passed' \in [Panes -> SUBSET Panes]
  BY <1>6, <1>9, Zenon DEF FairInv, OrderTypeOK
<1>11. OrderTypeOK'
  BY <1>6, <1>9, <1>10, TypeIsRingNext, Zenon
<1>12. ready' \subseteq Panes
  BY <1>11 DEF OrderTypeOK, Opened, Members
<1>13. BehindInv'
  BY <1>6, <1>12, Zenon DEF BehindInv
<1> QED BY <1>11, <1>13, Zenon DEF FairInv

(***************************************************************************)
(* drain_ready_fair: the drained panes are behind the cursor, which has    *)
(* not come to the others.                                                 *)
(***************************************************************************)
LEMMA DrainFair ==
  ASSUME Counting, FairInv, NEW m \in Nat, NEW emptied, DrainReadyFair(m, emptied)
  PROVE  FairInv'
<1> DEFINE n == Len(pane_order)
           c == fair_drain_cursor
           next == fair_drain_cursor'
<1>0. OrderTypeOK /\ pane_order \in Seq(Panes) /\ n \in Nat
  BY DEF FairInv, OrderTypeOK
<1>1. PICK last \in Chosen(m) :
        /\ \A a \in Chosen(m) : a <= last
        /\ next = (Index(last) + 1) % n
  BY Zenon DEF DrainReadyFair
<1>2. /\ pane_order' = pane_order /\ ready' \subseteq ready
      /\ passed' = [q \in Panes |->
                      IF q \in ready THEN PassedBy(q, DrainedPanes(m)) ELSE passed[q]]
  BY Zenon DEF DrainReadyFair
<1>3. last \in 0..(n - 1) /\ Chosen(m) \subseteq 0..(n - 1)
  BY Zenon DEF Chosen
<1>4. \A a \in Chosen(m) :
        Index(a) \in 0..(n - 1) /\ Visited(a) = pane_order[Index(a) + 1]
  BY <1>0, <1>3, IndexIs, Zenon DEF Visited
<1> DEFINE end == Index(last) + 1
<1>5. end \in 1..n
  BY <1>0, <1>4
<1>6. c \in 0..(n - 1)
  <2>1. pane_order # <<>>
    BY <1>0, <1>5
  <2> QED BY <1>0, <2>1, Zenon DEF OrderTypeOK
<1> HIDE DEF end, n, c, next
<1>7. /\ next \in Nat
      /\ end < n => next = end
      /\ end = n => next = 0
      /\ next \in 0..(n - 1)
  <2>1. next = end % n /\ end \in Nat
    BY <1>0, <1>1, <1>5 DEF end
  <2>2. ASSUME end < n PROVE next = end
    BY <1>0, <2>1, <2>2, ModSmall, Zenon
  <2>3. ASSUME end = n PROVE next = 0
    <3>1. n <= end /\ end < n + n /\ end - n = 0
      BY <1>0, <1>5, <2>3
    <3> QED BY <1>0, <2>1, <3>1, ModOnce, Zenon
  <2> QED BY <1>0, <1>5, <2>2, <2>3
<1>8. DrainedPanes(m) \subseteq Panes
  <2>1. \A a \in Chosen(m) : pane_order[Index(a) + 1] \in Panes
    BY <1>0, <1>4 DEF n
  <2> QED BY <1>4, <2>1, Zenon DEF DrainedPanes
<1>9. OrderTypeOK'
  <2>1. passed' \in [Panes -> SUBSET Panes]
    BY <1>2, <1>8, Zenon DEF FairInv, OrderTypeOK, PassedBy
  <2>2. pane_order # <<>>
    BY <1>0, <1>5 DEF n
  <2>3. fair_drain_cursor' \in 0..(IF pane_order' = <<>> THEN 0 ELSE Len(pane_order') - 1)
    BY <1>2, <1>7, <2>2, Zenon DEF n, next
  <2>4. ready' \subseteq Opened' /\ Distinct(pane_order)' /\ pane_order' \in Seq(Panes)
    BY <1>0, <1>2, Zenon DEF OrderTypeOK, Opened, Distinct, Members
  <2> QED BY <2>1, <2>3, <2>4, Zenon DEF OrderTypeOK
<1>10. ASSUME NEW q \in ready', NEW p \in passed'[q] PROVE Precedes(Ring, q, p)'
  <2>1. q \in ready /\ q \in Panes
    BY <1>0, <1>2 DEF OrderTypeOK, Opened, Members
  <2>2. q \notin DrainedPanes(m) /\ p \in passed[q] \cup DrainedPanes(m)
    BY <1>2, <1>10, <2>1, Zenon DEF PassedBy
  <2>3. PICK at \in 1..n :
          pane_order[at] = q /\ \A a \in Chosen(m) : Walk(c, Index(a) + 1, at)
    BY <1>0, <2>1, <2>2, LeftOutIsLater, Zenon DEF n, c
  <2>4. Walk(c, end, at)
    BY <1>1, <2>3, Zenon DEF end
  <2>5. PICK pp \in 1..n :
          pane_order[pp] = p /\ (Walk(c, at, pp) \/ Walk(c, pp, end) \/ pp = end)
    <3>1. CASE p \in passed[q]
      <4>1. Precedes(Ring, q, p)
        BY <2>1, <3>1, Zenon DEF FairInv, BehindInv
      <4>2. PICK i \in 1..n, j \in 1..n : pane_order[i] = q /\ pane_order[j] = p /\ Walk(c, i, j)
        BY <4>1, Zenon DEF Precedes, Ring, n, c
      <4>3. i = at
        BY <1>0, <2>3, <4>2, Zenon DEF OrderTypeOK, Distinct, n
      <4> QED BY <4>2, <4>3, Zenon
    <3>2. CASE p \in DrainedPanes(m)
      <4>1. PICK a \in Chosen(m) : p = Visited(a)
        BY <3>2, Zenon DEF DrainedPanes
      <4>2. Index(a) + 1 \in 1..n /\ pane_order[Index(a) + 1] = p
        BY <1>0, <1>4, <4>1
      <4>3. CASE a = last
        BY <4>2, <4>3, Zenon DEF end
      <4>4. CASE a # last
        <5>1. a < last /\ a \in 0..(n - 1)
          BY <1>1, <1>3, <4>1, <4>4
        <5>2. Walk(c, Index(a) + 1, end)
          BY <1>0, <1>3, <5>1, OffsetsInOrder, Zenon DEF n, c, end
        <5> QED BY <4>2, <5>2, Zenon
      <4> QED BY <4>3, <4>4, Zenon
    <3> QED BY <2>2, <3>1, <3>2, Zenon
  <2>6. Walk(next, at, pp)
    BY <1>0, <1>5, <1>6, <1>7, <2>4, <2>5, CursorTurns, Zenon
  <2>7. Ring'.order = pane_order /\ Ring'.cursor = next
    BY <1>2, Zenon DEF Ring, next
  <2> QED BY <2>3, <2>5, <2>6, <2>7, Zenon DEF Precedes, n
<1>11. BehindInv'
  BY <1>10, Zenon DEF BehindInv
<1> QED BY <1>9, <1>11, Zenon DEF FairInv

LEMMA FairStep ==
  ASSUME Induction, Counting, FairInv, [OrderNext]_order_vars
  PROVE  FairInv'
<1>1. ASSUME NEW p \in Panes, Open(p) \/ PublishReady(p) PROVE FairInv'
  BY <1>1, OpenFair, PublishFair, Zenon
<1>2. ASSUME NEW removals \in Removals, Close(removals) PROVE FairInv'
  BY <1>2, CloseFair, Zenon
<1>3. ASSUME NEW p \in Panes, NEW removals \in Removals, Restart(p, removals)
      PROVE  FairInv'
  BY <1>3, RestartFair, Zenon
<1>4. CASE Drain
  <2>1. PICK m \in 1..Cardinality(Panes), emptied \in SUBSET Panes : DrainReadyFair(m, emptied)
    BY <1>4, Zenon DEF Drain
  <2>2. Cardinality(Panes) \in Nat
    BY PanesAssumption, Zenon DEF Counting
  <2>3. m \in Nat
    BY <2>2
  <2> QED BY <2>1, <2>3, DrainFair, Zenon
<1>5. CASE UNCHANGED order_vars
  BY <1>5, Zenon DEF order_vars, FairInv, OrderTypeOK, Opened, BehindInv, Ring
<1> QED BY <1>1, <1>2, <1>3, <1>4, <1>5, Zenon DEF OrderNext

LEMMA FairInit == OrderInit => FairInv
<1> SUFFICES ASSUME OrderInit PROVE FairInv
  BY Zenon
<1>1. OrderTypeOK
  BY DEF OrderInit, OrderTypeOK, Distinct, Opened, Members
<1>2. BehindInv
  BY Zenon DEF OrderInit, BehindInv
<1> QED BY <1>1, <1>2, Zenon DEF FairInv

(***************************************************************************)
(* What was drained past a waiting pane is not drained again before it.    *)
(***************************************************************************)
LEMMA PassedOnce ==
  ASSUME Counting, FairInv, NEW m \in 1..Cardinality(Panes), NEW q \in ready \ DrainedPanes(m)
  PROVE  passed[q] \cap DrainedPanes(m) = {}
<1>0. OrderTypeOK /\ m \in Nat
  <2>1. Cardinality(Panes) \in Nat
    BY PanesAssumption, Zenon DEF Counting
  <2> QED BY <2>1 DEF FairInv
<1> SUFFICES ASSUME NEW p \in passed[q], p \in DrainedPanes(m) PROVE FALSE
  BY Zenon
<1> DEFINE n == Len(pane_order)
           c == fair_drain_cursor
<1>1. PICK at \in 1..n :
        pane_order[at] = q /\ \A a \in Chosen(m) : Walk(c, Index(a) + 1, at)
  BY <1>0, LeftOutIsLater, Zenon
<1>2. PICK a \in Chosen(m) : p = Visited(a)
  BY Zenon DEF DrainedPanes
<1>3. a \in 0..(n - 1)
  BY Zenon DEF Chosen
<1>4. Index(a) \in 0..(n - 1)
  BY <1>0, <1>3, IndexIs, Zenon
<1>5. Precedes(Ring, q, p)
  BY Zenon DEF FairInv, BehindInv
<1>6. PICK i \in 1..n, j \in 1..n : pane_order[i] = q /\ pane_order[j] = p /\ Walk(c, i, j)
  BY <1>5, Zenon DEF Precedes, Ring
<1>7. n \in Nat /\ c \in Int /\ \A k, l \in 1..n : pane_order[k] = pane_order[l] => k = l
  BY <1>0 DEF OrderTypeOK, Distinct
<1>8. Index(a) + 1 \in 1..n /\ pane_order[Index(a) + 1] = p
  <2> HIDE DEF n
  <2> QED BY <1>2, <1>4, <1>7 DEF Visited
<1> HIDE DEF n, c
<1>9. i = at /\ j = Index(a) + 1
  BY <1>1, <1>6, <1>7, <1>8, Zenon
<1>10. Walk(c, j, i)
  BY <1>1, <1>2, <1>9, Zenon
<1>11. c \in Int /\ i \in Int /\ j \in Int
  BY <1>7
<1>12. ~Walk(c, j, i)
  BY <1>6, <1>11, WalkOneWay, Zenon
<1> QED BY <1>10, <1>12, Zenon

(***************************************************************************)
(* A pane taken out, appended and put back is where it was.                *)
(***************************************************************************)
LEMMA PutBack ==
  ASSUME NEW ring \in Rings, NEW p \in Members(ring.order)
  PROVE  LET opened == [order |-> Append(Removed(ring, p).order, p),
                        cursor |-> Removed(ring, p).cursor]
         IN  Repositioned(opened, p, Position(ring.order, p)).order = ring.order
<1> DEFINE order == ring.order
           n == Len(order)
           rest == Removed(ring, p).order
           opened == [order |-> Append(rest, p), cursor |-> Removed(ring, p).cursor]
           longer == opened.order
           again == Removed(opened, p)
           at == Position(order, p)
<1>1. /\ RingOK(ring) /\ order \in Seq(Panes) /\ n \in Nat
      /\ \A i, j \in 1..n : order[i] = order[j] => i = j
  BY DEF Rings, RingOK, Distinct
<1>2. p \in Panes
  BY <1>1 DEF Members
<1>3. at \in 1..n /\ order[at] = p /\ rest = Without(order, at)
  <2>1. PICK a \in 1..Len(ring.order) :
          /\ ring.order[a] = p /\ a = Position(ring.order, p)
          /\ Removed(ring, p).order = Without(ring.order, a)
    BY <1>1, RemovedIs
  <2> QED BY <2>1, Zenon
<1>4. /\ rest \in Seq(Panes) /\ Len(rest) = n - 1
      /\ \A i \in 1..(n - 1) : i < at => rest[i] = order[i]
      /\ \A i \in 1..(n - 1) : i >= at => rest[i] = order[i + 1]
  <2> HIDE DEF rest, at, order
  <2> QED BY <1>1, <1>3, WithoutIs, Zenon
<1>5. p \notin Members(rest) /\ Removed(ring, p) \in Rings
  BY <1>1, <1>2, RemovedKeeps, RemovedType, ZenonT(40)
<1>6. opened \in Rings /\ Members(longer) = Members(rest) \cup {p}
  BY <1>2, <1>5, AppendedRing, Zenon
<1>7. opened.order = Append(rest, p)
  BY Zenon
<1>8. /\ longer \in Seq(Panes) /\ Len(longer) = n /\ longer[n] = p
      /\ \A i \in 1..(n - 1) : longer[i] = rest[i]
  <2> HIDE DEF rest, opened, order, n
  <2>1. rest \in Seq(Panes) /\ Len(rest) = n - 1 /\ n \in Nat
    BY <1>1, <1>4, Zenon
  <2>2. Len(rest) + 1 = n
    BY <2>1
  <2>3. /\ Append(rest, p) \in Seq(Panes) /\ Len(Append(rest, p)) = Len(rest) + 1
        /\ Append(rest, p)[Len(rest) + 1] = p
        /\ \A i \in 1..Len(rest) : Append(rest, p)[i] = rest[i]
    BY <1>2, <2>1
  <2> QED BY <1>7, <2>1, <2>2, <2>3, Zenon
<1>9. RingOK(opened) /\ \A i, j \in 1..n : longer[i] = longer[j] => i = j
  BY <1>6, <1>8, ZenonT(30) DEF Rings, RingOK, Distinct
<1>10. PICK k \in 1..Len(longer) : longer[k] = p /\ again.order = Without(longer, k)
  <2>1. RingOK(opened) /\ p \in Members(opened.order)
    BY <1>6, <1>9, ZenonT(30)
  <2> HIDE DEF opened
  <2> QED BY <2>1, RemovedIs, ZenonT(30)
<1>11. Repositioned(opened, p, at).order =
         Inserted(again.order, IF at <= Len(again.order) THEN at ELSE Len(again.order) + 1, p)
  BY Zenon DEF Repositioned
<1> HIDE DEF order, n, rest, opened, longer, again, at
<1>12. n \in 1..n /\ k = n
  <2>1. n \in 1..n /\ k \in 1..n
    BY <1>1, <1>3, <1>8, <1>10
  <2> QED BY <1>8, <1>9, <1>10, <2>1, Zenon
<1>13. /\ again.order \in Seq(Panes) /\ Len(again.order) = n - 1
       /\ \A i \in 1..(n - 1) : again.order[i] = rest[i]
  <2>1. /\ again.order \in Seq(Panes) /\ Len(again.order) = n - 1
        /\ \A i \in 1..(n - 1) : i < n => again.order[i] = longer[i]
    BY <1>8, <1>10, <1>12, WithoutIs, ZenonT(30)
  <2>2. \A i \in 1..(n - 1) : i < n
    BY <1>1
  <2> QED BY <1>8, <2>1, <2>2, Zenon
<1>14. Repositioned(opened, p, at).order = Inserted(again.order, at, p)
  <2>1. CASE at <= n - 1
    BY <1>11, <1>13, <2>1, Zenon
  <2>2. CASE at = n
    <3>1. ~(at <= n - 1) /\ (n - 1) + 1 = at
      BY <1>1, <2>2
    <3> QED BY <1>11, <1>13, <3>1, Zenon
  <2> QED BY <1>1, <1>3, <2>1, <2>2
<1>15. Inserted(again.order, at, p) = order
  <2> DEFINE whole == Inserted(again.order, at, p)
  <2>0. (n - 1) + 1 = n
    BY <1>1
  <2>1. /\ whole \in Seq(Panes) /\ Len(whole) = n
        /\ \A i \in 1..n : i < at => whole[i] = again.order[i]
        /\ \A i \in 1..n : i = at => whole[i] = p
        /\ \A i \in 1..n : i > at => whole[i] = again.order[i - 1]
    <3>1. at \in 1..(Len(again.order) + 1) /\ Len(again.order) + 1 = n
      BY <1>3, <1>13, <2>0, Zenon
    <3>2. again.order \in Seq(Panes)
      BY <1>13, Zenon
    <3> HIDE DEF again
    <3>3. /\ whole \in Seq(Panes) /\ Len(whole) = Len(again.order) + 1
          /\ \A i \in 1..(Len(again.order) + 1) :
               /\ i < at => whole[i] = again.order[i]
               /\ i = at => whole[i] = p
               /\ i > at => whole[i] = again.order[i - 1]
      BY <1>2, <3>1, <3>2, InsertedIs, ZenonT(40)
    <3> HIDE DEF whole
    <3> QED BY <3>1, <3>3, Zenon
  <2> HIDE DEF whole
  <2>2. ASSUME NEW i \in 1..n PROVE whole[i] = order[i]
    <3>1. CASE i < at
      <4>1. i \in 1..(n - 1)
        BY <1>1, <1>3, <3>1
      <4> QED BY <1>4, <1>13, <2>1, <3>1, <4>1, ZenonT(30)
    <3>2. CASE i = at
      BY <1>3, <2>1, <3>2, Zenon
    <3>3. CASE i > at
      <4>1. i - 1 \in 1..(n - 1) /\ i - 1 >= at /\ (i - 1) + 1 = i
        BY <1>1, <1>3, <3>3
      <4>2. again.order[i - 1] = rest[i - 1] /\ rest[i - 1] = order[(i - 1) + 1]
        BY <1>4, <1>13, <4>1, Zenon
      <4> QED BY <2>1, <3>3, <4>1, <4>2, Zenon
    <3>4. i < at \/ i = at \/ i > at
      BY <1>1, <1>3
    <3> QED BY <3>1, <3>2, <3>3, <3>4, Zenon
  <2>3. Len(whole) = Len(order)
    BY <2>1, Zenon DEF n
  <2>4. whole = order
    BY <1>1, <2>1, <2>2, <2>3, SameOrder, Zenon DEF n
  <2> QED BY <2>4, Zenon DEF whole
<1> QED BY <1>14, <1>15, Zenon DEF opened, rest, at, order

LEMMA RemovedOne ==
  ASSUME Induction, NEW ring \in Rings, NEW p \in Panes
  PROVE  RemovedAll(ring, <<p>>) = Removed(ring, p)
<1>1. <<p>> \in Seq(Panes) /\ Len(<<p>>) = 1 /\ <<p>>[1] = p
  OBVIOUS
<1>2. PICK f : Removing(f, ring, <<p>>, 1)
  BY <1>1, RemovingExists, Zenon
<1>3. RemovedAll(ring, <<p>>) = f[1]
  BY <1>1, <1>2, RemovedAllIs, ZenonT(30)
<1>4. f[1] = Removed(f[0], p) /\ f[0] = ring
  BY <1>1, <1>2 DEF Removing
<1> QED BY <1>3, <1>4, Zenon

LEMMA RestartedAlone ==
  ASSUME Induction, FairInv, NEW p \in Opened, Restart(p, <<p>>)
  PROVE  pane_order' = pane_order
<1> DEFINE opened == [order |-> Append(Removed(Ring, p).order, p),
                      cursor |-> Removed(Ring, p).cursor]
<1>1. Ring \in Rings /\ Ring.order = pane_order
  BY TypeIsRing, Zenon DEF FairInv, Ring
<1>2. p \in Panes /\ p \in Members(Ring.order)
  BY <1>1 DEF FairInv, OrderTypeOK, Opened, Members
<1>3. RemovedAll(Ring, <<p>>) = Removed(Ring, p)
  BY <1>1, <1>2, RemovedOne, Zenon
<1>4. pane_order' = Repositioned(opened, p, Position(Ring.order, p)).order
  BY <1>1, <1>3, ZenonT(30) DEF Restart, Install
<1>5. Repositioned(opened, p, Position(Ring.order, p)).order = Ring.order
  BY <1>1, <1>2, PutBack, Zenon
<1> QED BY <1>1, <1>4, <1>5, Zenon

-----------------------------------------------------------------------------
INSTANCE WellFoundedInduction

INSTANCE FiniteSetTheorems

LEMMA InductionHolds == Induction
<1> SUFFICES ASSUME NEW S, 0 \in S, \A k \in Nat : k \in S => k + 1 \in S, Nat \ S # {}
             PROVE  FALSE
  BY Zenon DEF Induction
<1> DEFINE R == OpToRel(<, Nat)
<1>1. IsWellFoundedOn(R, Nat)
  BY NatLessThanWellFounded, Zenon
<1>2. PICK x \in Nat \ S : \A y \in Nat \ S : ~(<<y, x>> \in R)
  BY <1>1, WFMin, Zenon
<1>3. x # 0 /\ x - 1 \in Nat
  OBVIOUS
<1>4. <<x - 1, x>> \in R
  BY <1>3 DEF OpToRel
<1>5. x - 1 \in S
  BY <1>2, <1>3, <1>4, Zenon
<1>6. (x - 1) + 1 \in S
  BY <1>3, <1>5, Zenon
<1> QED BY <1>6

LEMMA CountingHolds == Counting
<1>1. \A k \in Nat : IsFiniteSet(0..k)
  BY FS_Interval
<1>2. ASSUME NEW S, NEW T, IsFiniteSet(T), S \subseteq T
      PROVE  /\ IsFiniteSet(S)
             /\ Cardinality(S) \in Nat /\ Cardinality(T) \in Nat
             /\ Cardinality(S) <= Cardinality(T)
  <2>1. IsFiniteSet(S) /\ Cardinality(S) <= Cardinality(T)
    BY <1>2, FS_Subset, Zenon
  <2> QED BY <1>2, <2>1, FS_CardinalityType, Zenon
<1> QED BY <1>1, <1>2, Zenon DEF Counting

(***************************************************************************)
(* FairInv holds of every reachable state of the drain.                    *)
(***************************************************************************)
THEOREM FairInvariant == OrderSpec => []FairInv
<1>1. FairInv /\ [OrderNext]_order_vars => FairInv'
  BY FairStep, InductionHolds, CountingHolds, Zenon
<1> QED BY <1>1, FairInit, PTL DEF OrderSpec

(***************************************************************************)
(* After any opens, closes, restarts and drains the order holds every open *)
(* pane once and the cursor is one of its positions, so that               *)
(* drain_ready_fair starts where the last drain ended and indexes no pane  *)
(* that is gone (remove_pane_order, reposition_pane).                      *)
(***************************************************************************)
THEOREM OrderAndCursor == OrderSpec => []OrderTypeOK
<1>1. FairInv => OrderTypeOK
  BY Zenon DEF FairInv
<1> QED BY <1>1, FairInvariant, PTL

(***************************************************************************)
(* "A pane that continuously republishes cannot jump ahead of              *)
(* already-ready work from a later pane" (drain_ready_fair): for any       *)
(* number of panes, whatever opens, closes, publishes and drains there     *)
(* are, no pane is drained twice past one that waits, unless one restarts  *)
(* in between.                                                             *)
(***************************************************************************)
THEOREM NobodyOvertakes == OrderSpec => NoOvertaking
<1>1. FairInv => [NobodyPassedTwice]_order_vars
  BY PassedOnce, CountingHolds, Zenon DEF NobodyPassedTwice
<1> QED BY <1>1, FairInvariant, PTL DEF NoOvertaking

(***************************************************************************)
(* A pane restarted alone keeps its place among any others: reap_expired   *)
(* takes it out, open_with_runtime appends it and reposition_pane puts it  *)
(* where it was (restart_with_runtime).                                    *)
(***************************************************************************)
THEOREM RestartedInPlace == OrderSpec => RestartKeepsPlace
<1>1. FairInv =>
        [\A p \in Opened : Restart(p, <<p>>) => pane_order' = pane_order]_order_vars
  BY RestartedAlone, InductionHolds, Zenon
<1> QED BY <1>1, FairInvariant, PTL DEF RestartKeepsPlace

=============================================================================
