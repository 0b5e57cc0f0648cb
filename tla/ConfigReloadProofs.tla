------------------------- MODULE ConfigReloadProofs -------------------------
(***************************************************************************)
(* Three properties of ConfigReload proved for every list of sources,      *)
(* every set of sources in the home directory and every number of edits,   *)
(* reloads and windows.                                                    *)
(***************************************************************************)
EXTENDS ConfigReload, FiniteSetTheorems, TLAPS

(***************************************************************************)
(* Without a diagnostic the selection is the snapshot's source; the watch  *)
(* of a directory stays until the exit; the sink is in once the startup is *)
(* over; and from then on the parent of a selected source was registered   *)
(* or a diagnostic says why not.                                           *)
(***************************************************************************)
SelectionCurrent == ~latest_diagnostic => latest_selection = snapshot.source

ParentsLive ==
  phase \in {"startup", "sink", "run"} =>
    \A path : <<"parent", path>> \in watched_paths => <<"parent", path>> \in live

SinkInstalled == phase = "run" /\ deferred = "done" => watcher_options

ParentRegistered ==
  watcher_options /\ Enabled(snapshot.config)
    /\ latest_selection \notin HomePaths \cup {None}
  => <<"parent", latest_selection>> \in watched_paths \/ watch_diagnostics

WatchInv == SelectionCurrent /\ ParentsLive /\ SinkInstalled /\ ParentRegistered

-----------------------------------------------------------------------------
(***************************************************************************)
(* refresh_watched_paths keeps the watches of directories, and leaves the  *)
(* parent of the selected source registered or reported.                   *)
(***************************************************************************)
LEMMA RefreshKeepsWatches ==
  ASSUME NEW options \in BOOLEAN, RefreshWatchedPaths(options),
         \A path : <<"parent", path>> \in watched_paths => <<"parent", path>> \in live
  PROVE  \A path : <<"parent", path>> \in watched_paths' => <<"parent", path>> \in live'
<1>1. CASE SkipRefresh
  BY <1>1, Zenon DEF SkipRefresh
<1>2. CASE UNCHANGED <<watched_paths, live>>
  BY <1>2, Zenon
<1>3. CASE AddPaths(Targets(latest_selection') \ watched_paths)
  BY <1>3, Zenon DEF AddPaths
<1> QED BY <1>1, <1>2, <1>3, Zenon DEF RefreshWatchedPaths

LEMMA RefreshRegisters ==
  ASSUME NEW options \in BOOLEAN, RefreshWatchedPaths(options), options,
         Enabled(snapshot'.config), latest_selection' \notin HomePaths \cup {None}
  PROVE  <<"parent", latest_selection'>> \in watched_paths' \/ watch_diagnostics'
<1> DEFINE path == latest_selection'
           targets == Targets(path) \ watched_paths
<1>1. CASE AddPaths(targets)
  <2>1. PICK added \in SUBSET targets :
          /\ watched_paths' = watched_paths \cup added
          /\ watch_diagnostics' = (watch_diagnostics \/ added # targets)
    BY <1>1, Zenon DEF AddPaths
  <2>2. <<"parent", path>> \in Targets(path)
    BY Zenon DEF Targets
  <2>3. CASE added = targets
    BY <2>1, <2>2, <2>3, Zenon
  <2>4. CASE added # targets
    BY <2>1, <2>4, Zenon
  <2> QED BY <2>3, <2>4, Zenon
<1>2. CASE watch_diagnostics'
  BY <1>2, Zenon
<1> QED BY <1>1, <1>2, Zenon DEF RefreshWatchedPaths

(***************************************************************************)
(* What install_attempt leaves behind.                                     *)
(***************************************************************************)
LEMMA AttemptSelection ==
  ASSUME NEW load, InstallAttempt(load)
  PROVE  SelectionCurrent'
BY Zenon DEF InstallAttempt, SelectionCurrent

(***************************************************************************)
(* install_runtime_attempt keeps the invariant when it installs what it    *)
(* read and when it finds nothing new.                                     *)
(***************************************************************************)
LEMMA RuntimeAttemptKeepsInv ==
  ASSUME WatchInv, NEW load, NEW options \in BOOLEAN,
         InstallRuntimeAttempt(load, options), watcher_options \in BOOLEAN,
         watcher_options' = options, UNCHANGED phase
  PROVE  SelectionCurrent' /\ ParentsLive' /\ ParentRegistered'
<1>1. CASE UNCHANGED <<snapshot, latest_diagnostic, latest_selection>>
           /\ SkipRefresh /\ options = watcher_options
  BY <1>1, Zenon
     DEF WatchInv, SelectionCurrent, ParentsLive, ParentRegistered, SkipRefresh, Enabled
<1>2. CASE UNCHANGED <<snapshot, latest_diagnostic, latest_selection>>
           /\ RefreshWatchedPaths(options)
  BY <1>2, RefreshKeepsWatches, RefreshRegisters, Zenon
     DEF WatchInv, SelectionCurrent, ParentsLive, ParentRegistered
<1>3. CASE InstallAttempt(load) /\ RefreshWatchedPaths(options)
  BY <1>3, AttemptSelection, RefreshKeepsWatches, RefreshRegisters, Zenon
     DEF WatchInv, ParentsLive, ParentRegistered
<1> QED BY <1>1, <1>2, <1>3, Zenon DEF InstallRuntimeAttempt

-----------------------------------------------------------------------------
SinkType == watcher_options \in BOOLEAN

LEMMA SinkTypeHolds == Spec => []SinkType
<1>1. Init => SinkType
  BY Zenon DEF Init, SinkType
<1>2. SinkType /\ [Next]_vars => SinkType'
  <2> SUFFICES ASSUME SinkType, [Next]_vars PROVE SinkType'
    BY Zenon
  <2>1. CASE InstallSink \/ FinishDeferred \/ DeferredFails
    BY <2>1, ZenonT(30) DEF SinkType, InstallSink, FinishDeferred, DeferredFails
  <2>2. CASE UNCHANGED watcher_options
    BY <2>2, Zenon DEF SinkType
  <2> QED
    BY <2>1, <2>2, Zenon DEF Next, ManagerStep, vars, watching, Edit, Request, OpenWindow, Exit,
       ReadCandidate, InstallInitial, InstallReload, HandleReload, Joined,
       StartDeferred, Observe, WindowEnds
<1> QED BY <1>1, <1>2, PTL DEF Spec

LEMMA InitWatch == Init => WatchInv
BY DEF Init, WatchInv, SelectionCurrent, ParentsLive, SinkInstalled, ParentRegistered

(***************************************************************************)
(* Every step keeps the invariant: the installs by the lemmas above, an    *)
(* edit because it ends the watch of a file at most.                       *)
(***************************************************************************)
LEMMA NextWatch == WatchInv /\ SinkType /\ [Next]_vars => WatchInv'
<1> SUFFICES ASSUME WatchInv, SinkType, [Next]_vars PROVE WatchInv'
  BY Zenon
<1> USE DEF WatchInv
<1>1. CASE Edit
  <2>1. \A path : <<"parent", path>> \in live => <<"parent", path>> \in live'
    BY <1>1, Zenon DEF Edit
  <2> QED BY <1>1, <2>1, Zenon DEF Edit, lifecycle, manager, SelectionCurrent, ParentsLive,
             SinkInstalled, ParentRegistered, Enabled
<1>2. CASE InstallInitial
  <2>1. SelectionCurrent'
    BY <1>2, AttemptSelection, Zenon DEF InstallInitial
  <2>2. ParentsLive' /\ ParentRegistered'
    BY <1>2, RefreshKeepsWatches, RefreshRegisters, Zenon
       DEF InstallInitial, SinkType, ParentsLive, ParentRegistered
  <2>3. SinkInstalled'
    BY <1>2, Zenon DEF InstallInitial, SinkInstalled
  <2> QED BY <2>1, <2>2, <2>3, Zenon
<1>3. CASE InstallSink
  <2>1. ParentsLive' /\ ParentRegistered'
    BY <1>3, RefreshKeepsWatches, RefreshRegisters, Zenon
       DEF InstallSink, ParentsLive, ParentRegistered
  <2> QED BY <1>3, <2>1, Zenon DEF InstallSink, SelectionCurrent, SinkInstalled
<1>4. CASE InstallReload
  <2>1. SelectionCurrent' /\ ParentsLive' /\ ParentRegistered'
    BY <1>4, RuntimeAttemptKeepsInv, Zenon DEF InstallReload, SinkType
  <2> QED BY <1>4, <2>1, Zenon DEF InstallReload, SinkInstalled
<1>5. CASE FinishDeferred
  <2>1. SelectionCurrent' /\ ParentsLive' /\ ParentRegistered'
    BY <1>5, RuntimeAttemptKeepsInv, Zenon DEF FinishDeferred, SinkType
  <2> QED BY <1>5, <2>1, Zenon DEF FinishDeferred, SinkInstalled
<1>6. CASE DeferredFails
  <2>1. ParentsLive' /\ ParentRegistered'
    BY <1>6, RefreshKeepsWatches, RefreshRegisters, Zenon
       DEF DeferredFails, ParentsLive, ParentRegistered
  <2> QED BY <1>6, <2>1, Zenon DEF DeferredFails, SelectionCurrent, SinkInstalled
<1>7. CASE Exit
  BY <1>7, Zenon DEF Exit, lifecycle, SelectionCurrent, ParentsLive, SinkInstalled,
     ParentRegistered, Enabled
<1>8. CASE /\ UNCHANGED <<snapshot, latest_diagnostic, latest_selection, watching>>
           /\ phase' = phase \/ phase' = "exited"
           /\ deferred' = deferred \/ deferred' = "reading"
  BY <1>8, Zenon DEF watching, SelectionCurrent, ParentsLive, SinkInstalled,
     ParentRegistered, Enabled
<1>9. CASE \/ Request \/ OpenWindow \/ HandleReload \/ Joined \/ StartDeferred
           \/ Observe \/ WindowEnds \/ UNCHANGED vars
           \/ ReadCandidate("loop") \/ ReadCandidate("deferred")
  <2>1. /\ UNCHANGED <<snapshot, latest_diagnostic, latest_selection, watching>>
        /\ phase' = phase \/ phase' = "exited"
        /\ deferred' = deferred \/ deferred' = "reading"
    BY <1>9, Zenon DEF Request, OpenWindow, HandleReload, Joined, StartDeferred, Observe,
       WindowEnds, vars, ReadCandidate, lifecycle, manager
  <2> QED BY <1>8, <2>1, Zenon
<1> QED
  BY <1>1, <1>2, <1>3, <1>4, <1>5, <1>6, <1>7, <1>9, Zenon DEF Next, ManagerStep

-----------------------------------------------------------------------------
(***************************************************************************)
(* Automatic reload stays armed: an edit of the selected source outside    *)
(* the home directory will be noticed, or a diagnostic was given           *)
(* (refresh_watched_paths after every attempt).                            *)
(***************************************************************************)
THEOREM WatchArmed == Spec => []SourceWatched
<1>1. WatchInv => SourceWatched
  <2> SUFFICES ASSUME WatchInv, Quiet, Enabled(snapshot.config),
                      latest_selection \notin HomePaths \cup {None}, ~watch_diagnostics
               PROVE  Noticing(latest_selection) # {}
    BY Zenon DEF SourceWatched
  <2>1. <<"parent", latest_selection>> \in live
    BY Zenon DEF WatchInv, Quiet, ParentsLive, SinkInstalled, ParentRegistered
  <2> QED BY <2>1, Zenon DEF Noticing
<1> QED BY <1>1, InitWatch, NextWatch, SinkTypeHolds, PTL DEF Spec

(***************************************************************************)
(* One step of the snapshot is one generation, and says something new; a   *)
(* failed attempt keeps the last known good one (install_attempt,          *)
(* install_runtime_attempt).                                               *)
(***************************************************************************)
THEOREM GenerationsNeverPhantom == Spec => GenerationsAreNew
<1> DEFINE New == /\ snapshot' # snapshot =>
                       /\ snapshot'.generation = snapshot.generation + 1
                       /\ ~latest_diagnostic'
                       /\ \/ snapshot'.source # snapshot.source
                          \/ snapshot'.config # snapshot.config
                          \/ latest_diagnostic \/ phase = "startup"
                  /\ latest_diagnostic' /\ ~latest_diagnostic => snapshot' = snapshot
<1>1. ASSUME WatchInv, [Next]_vars PROVE [New]_vars
  <2>1. CASE UNCHANGED <<snapshot, latest_diagnostic>>
    BY <2>1, Zenon
  <2>2. ASSUME NEW load, InstallAttempt(load)
        PROVE  /\ latest_diagnostic' => snapshot' = snapshot
               /\ snapshot' # snapshot =>
                    /\ snapshot'.generation = snapshot.generation + 1
                    /\ snapshot'.source = load.resolved
                    /\ snapshot'.config = load.config
                    /\ ~latest_diagnostic'
    BY <2>2, Zenon DEF InstallAttempt
  <2>3. ASSUME NEW load, NEW options, InstallRuntimeAttempt(load, options) PROVE New
    <3>1. CASE UNCHANGED <<snapshot, latest_diagnostic, latest_selection>>
      BY <3>1, Zenon
    <3>2. CASE ~Unchanged(load) /\ InstallAttempt(load)
      BY <1>1, <2>2, <3>2, Zenon DEF Unchanged, WatchInv, SelectionCurrent
    <3> QED BY <2>3, <3>1, <3>2, Zenon DEF InstallRuntimeAttempt
  <2>4. CASE InstallInitial
    BY <2>2, <2>4, Zenon DEF InstallInitial
  <2>5. CASE InstallReload \/ FinishDeferred
    BY <2>3, <2>5, Zenon DEF InstallReload, FinishDeferred
  <2> QED
    BY <1>1, <2>1, <2>4, <2>5, Zenon
       DEF Next, ManagerStep, vars, lifecycle, Edit, Request, OpenWindow,
       Exit, ReadCandidate, InstallSink, HandleReload, Joined, StartDeferred,
       DeferredFails, Observe, WindowEnds
<1> QED BY <1>1, InitWatch, NextWatch, SinkTypeHolds, PTL DEF Spec, GenerationsAreNew

-----------------------------------------------------------------------------
(***************************************************************************)
(* Reported edits.  The types of the attempts and of the snapshot: what    *)
(* was installed is never an error.                                        *)
(***************************************************************************)
Configs == {"defaults", "auto", "tuned", "manual"}
Sourced == Paths \cup {None}

Attempts == [at : Nat, as_of : Nat, resolved : Sourced, config : Configs \cup {"error", None}]

Snapshots == [source : Sourced, config : Configs, generation : Nat]

ReloadEvents == {"ConfigFileChanged", "ReloadConfigurationRequested"}

ReloadTypes ==
  /\ TypeOK
  /\ snapshot \in Snapshots
  /\ loading \in [{"loop", "deferred"} -> Attempts]
  /\ edits \in Nat /\ notified \in Nat /\ notified <= edits
  /\ user_events \in Seq(ReloadEvents)

(***************************************************************************)
(* Nothing is watched before the sink is in, which the startup and the     *)
(* deferred attempt come before: their installs race with no report.       *)
(* While the manager runs, the watcher's channel holds changes only.       *)
(***************************************************************************)
BeforeSink ==
  phase \in {"startup", "sink"} \/ deferred # "done" =>
    /\ ~watcher_options /\ ~watcher /\ live = {} /\ messages = <<>>
    /\ worker = "none" /\ notified = 0

RunStage ==
  /\ deferred # "done" => phase \in {"run", "exiting", "exited"}
  /\ phase \in {"startup", "sink", "run"} =>
       /\ messages \in Seq({"changed"} \X watched_paths)
       /\ worker # "gone"
  /\ worker # "none" => watcher

(***************************************************************************)
(* An attempt that began after the last edit reads the files as they are:  *)
(* it has skipped what is to be skipped, and says what Resolved says.      *)
(***************************************************************************)
AttemptCurrent ==
  LET load == loading.loop
  IN  /\ load.as_of <= edits
      /\ ~Complete(load) => load.resolved = None
      /\ load.at > 0 /\ load.as_of = edits =>
           /\ \A i \in DOMAIN candidates :
                i < load.at => Skipped(candidates[i], files[candidates[i].path])
           /\ Complete(load) => load.resolved = Resolved.source /\ load.config = Resolved.config

Applied ==
  /\ latest_selection = Resolved.source
  /\ latest_diagnostic <=> Resolved.config = "error"
  /\ ~latest_diagnostic =>
       snapshot.source = Resolved.source /\ snapshot.config = Resolved.config

(***************************************************************************)
(* Where the report of the last edit is: in the channel, in the debounce   *)
(* window, in the event queue, in an attempt that began after the edit, or *)
(* applied.                                                                *)
(***************************************************************************)
ReportKept ==
  phase = "run" /\ edits > 0 /\ notified = edits =>
    \/ messages # <<>>
    \/ worker = "window"
    \/ user_events # <<>>
    \/ loading.loop.at > 0 /\ loading.loop.as_of = edits
    \/ loading.loop = Idle /\ Applied

BasesCurrent == \A a \in DOMAIN bases : bases[a] = snapshot.generation

ReportInv == /\ ReloadTypes /\ BeforeSink /\ RunStage
             /\ AttemptCurrent /\ ReportKept /\ BasesCurrent

(***************************************************************************)
(* The types of the files, of what is read of them, and of what is         *)
(* installed.                                                              *)
(***************************************************************************)
LEMMA CandidateTypes ==
  ASSUME ReloadTypes
  PROVE  /\ candidates \in Seq([path : Paths, required : BOOLEAN])
         /\ \A i \in 1..Len(candidates) :
              /\ candidates[i].path \in Paths /\ candidates[i].path \in Sources
              /\ candidates[i].required \in BOOLEAN
              /\ files[candidates[i].path] \in Contents
<1>1. candidates \in Seq([path : Paths, required : BOOLEAN])
  BY ConfigReloadAssumption, Zenon DEF ReloadTypes, TypeOK
<1>2. ASSUME NEW i \in 1..Len(candidates)
      PROVE  candidates[i].path \in Sources /\ candidates[i] \in [path : Paths, required : BOOLEAN]
  <2>1. DOMAIN candidates = 1..Len(candidates)
    BY <1>1
  <2>2. candidates[i] \in [path : Paths, required : BOOLEAN]
    <3> DEFINE R == [path : Paths, required : BOOLEAN]
    <3>1. candidates \in Seq(R)
      BY <1>1, Zenon
    <3> HIDE DEF R
    <3>2. candidates[i] \in R
      BY <1>2, <3>1
    <3> QED BY <3>2, Zenon DEF R
  <2>3. candidates[i] \in Range(candidates)
    BY <1>2, <2>1, Zenon DEF Range
  <2> QED BY <2>2, <2>3, Zenon DEF Sources
<1> QED BY <1>1, <1>2, Zenon DEF ReloadTypes, TypeOK

LEMMA LoadedType ==
  ASSUME NEW c \in Contents
  PROVE  Loaded(c) \in Configs \cup {"error"} /\ Loaded(c) # None
BY Zenon DEF Loaded, Contents, Configs, None

(***************************************************************************)
(* One read of an attempt: past a candidate that is to be skipped, or to   *)
(* the end.                                                                *)
(***************************************************************************)
ReadResult(load) ==
  IF load.at > Len(candidates) THEN [load EXCEPT !.config = "defaults"]
  ELSE LET source == candidates[load.at]
           content == files[source.path]
       IN  IF Skipped(source, content) THEN [load EXCEPT !.at = @ + 1]
           ELSE [load EXCEPT !.resolved = source.path, !.config = Loaded(content)]

LEMMA ReadResultType ==
  ASSUME ReloadTypes, NEW load \in Attempts, load.at > 0
  PROVE  ReadResult(load) \in Attempts
<1>1. load.at \in Nat
  BY Zenon DEF Attempts
<1>2. CASE load.at > Len(candidates)
  BY <1>2, Zenon DEF ReadResult, Attempts, Configs
<1>3. CASE ~(load.at > Len(candidates))
  <2> DEFINE source == candidates[load.at]
             content == files[source.path]
  <2>1. load.at \in 1..Len(candidates)
    BY <1>1, <1>3, CandidateTypes
  <2>2. source.path \in Sourced /\ content \in Contents
    BY <2>1, CandidateTypes, Zenon DEF Sourced
  <2>3. Loaded(content) \in Configs \cup {"error", None}
    BY <2>2, LoadedType, Zenon
  <2>4. CASE Skipped(source, content)
    <3>1. ReadResult(load) = [load EXCEPT !.at = load.at + 1]
      BY <1>3, <2>4, Zenon DEF ReadResult, Attempts
    <3> QED BY <1>1, <3>1 DEF Attempts
  <2>5. CASE ~Skipped(source, content)
    <3>1. ReadResult(load) = [load EXCEPT !.resolved = source.path, !.config = Loaded(content)]
      BY <1>3, <2>5, Zenon DEF ReadResult
    <3> HIDE DEF source, content
    <3> QED BY <2>2, <2>3, <3>1, Zenon DEF Attempts
  <2> QED BY <2>4, <2>5, Zenon
<1> QED BY <1>2, <1>3, Zenon

LEMMA LoadingStep ==
  ASSUME ReloadTypes, [Next]_vars
  PROVE  loading' \in [{"loop", "deferred"} -> Attempts]
<1>0. loading \in [{"loop", "deferred"} -> Attempts] /\ edits \in Nat
  BY Zenon DEF ReloadTypes
<1>1. Idle \in Attempts
  BY Zenon DEF Idle, Attempts, Sourced, None
<1>2. Begun \in Attempts
  BY <1>0, <1>1, Zenon DEF Begun, Idle, Attempts
<1>3. ASSUME NEW who \in {"loop", "deferred"}, ReadCandidate(who)
      PROVE  loading' \in [{"loop", "deferred"} -> Attempts]
  <2>1. loading' = [loading EXCEPT ![who] = ReadResult(loading[who])] /\ loading[who].at > 0
    BY <1>3, Zenon DEF ReadCandidate, ReadResult
  <2>2. ReadResult(loading[who]) \in Attempts
    BY <1>0, <2>1, ReadResultType, Zenon
  <2> QED BY <1>0, <2>1, <2>2, Zenon
<1>4. CASE \/ loading' = loading
           \/ \E who \in {"loop", "deferred"} :
                \/ loading' = [loading EXCEPT ![who] = Idle]
                \/ loading' = [loading EXCEPT ![who] = Begun]
  BY <1>0, <1>1, <1>2, <1>4, Zenon
<1>5. CASE ~ReadCandidate("loop") /\ ~ReadCandidate("deferred")
  <2>1. \/ loading' = loading
        \/ \E who \in {"loop", "deferred"} :
             \/ loading' = [loading EXCEPT ![who] = Idle]
             \/ loading' = [loading EXCEPT ![who] = Begun]
    BY <1>5, Zenon
       DEF Next, ManagerStep, Edit, Request, OpenWindow, Exit, InstallInitial, InstallSink,
       InstallReload, HandleReload, Joined, StartDeferred, FinishDeferred, DeferredFails,
       Observe, WindowEnds, manager, vars
  <2> QED BY <1>4, <2>1, Zenon
<1> QED BY <1>3, <1>5, Zenon

(***************************************************************************)
(* What an install does to the lifecycle: nothing new, or an attempt.      *)
(***************************************************************************)
LEMMA InstallTypes ==
  ASSUME snapshot \in Snapshots, NEW load \in Attempts, Complete(load), InstallAttempt(load)
  PROVE  /\ snapshot' \in Snapshots /\ latest_selection' \in Sourced
         /\ latest_diagnostic' \in BOOLEAN
<1>1. load.config \in Configs \cup {"error"} /\ load.resolved \in Sourced
  BY Zenon DEF Complete, Attempts
<1>2. CASE load.config = "error"
  BY <1>1, <1>2, Zenon DEF InstallAttempt
<1>3. CASE load.config # "error"
  <2>1. snapshot.generation + 1 \in Nat
    BY DEF Snapshots
  <2>2. snapshot' = [source |-> load.resolved, config |-> load.config,
                     generation |-> snapshot.generation + 1]
    BY <1>3, Zenon DEF InstallAttempt
  <2> QED BY <1>1, <1>3, <2>1, <2>2 DEF InstallAttempt, Snapshots
<1> QED BY <1>2, <1>3, Zenon

LEMMA LifecycleStep ==
  ASSUME ReloadTypes, [Next]_vars
  PROVE  /\ snapshot' \in Snapshots /\ latest_selection' \in Sourced
         /\ latest_diagnostic' \in BOOLEAN
<1>0. /\ snapshot \in Snapshots /\ latest_selection \in Sourced
      /\ latest_diagnostic \in BOOLEAN
      /\ loading["loop"] \in Attempts /\ loading["deferred"] \in Attempts
  BY Zenon DEF ReloadTypes, TypeOK, Sourced
<1>1. CASE UNCHANGED <<snapshot, latest_selection, latest_diagnostic>>
  BY <1>0, <1>1, Zenon
<1>2. CASE InstallInitial
  BY <1>0, <1>2, InstallTypes, Zenon DEF InstallInitial
<1>3. CASE InstallReload
  BY <1>0, <1>1, <1>3, InstallTypes, Zenon DEF InstallReload, InstallRuntimeAttempt
<1>4. CASE FinishDeferred
  BY <1>0, <1>1, <1>4, InstallTypes, ZenonT(30) DEF FinishDeferred, InstallRuntimeAttempt
<1>5. CASE ~InstallInitial /\ ~InstallReload /\ ~FinishDeferred
  <2>1. UNCHANGED <<snapshot, latest_selection, latest_diagnostic>>
    BY <1>5, ZenonT(30)
       DEF Next, ManagerStep, Edit, Request, OpenWindow, Exit, ReadCandidate, InstallSink,
       HandleReload, Joined, StartDeferred, DeferredFails, Observe, WindowEnds, lifecycle, vars
  <2> QED BY <1>1, <2>1, Zenon
<1> QED BY <1>2, <1>3, <1>4, <1>5, Zenon

(***************************************************************************)
(* Every window has the base in effect.                                    *)
(***************************************************************************)
LEMMA BasesStep ==
  ASSUME ReloadTypes, BasesCurrent, [Next]_vars
  PROVE  bases' \in Seq(Nat) /\ BasesCurrent'
<1>0. bases \in Seq(Nat) /\ snapshot.generation \in Nat /\ snapshot'.generation \in Nat
  BY LifecycleStep, Zenon DEF ReloadTypes, TypeOK, Snapshots
<1>1. CASE SetBases
  <2>1. bases' = [a \in 1..Len(bases) |-> snapshot'.generation]
    BY <1>0, <1>1 DEF SetBases
  <2>2. bases' \in Seq(Nat) /\ DOMAIN bases' = 1..Len(bases)
    BY <1>0, <2>1
  <2> QED BY <2>1, <2>2, Zenon DEF BasesCurrent
<1>2. CASE OpenWindow
  <2>1. bases' = Append(bases, snapshot.generation) /\ snapshot' = snapshot
    BY <1>2, Zenon DEF OpenWindow
  <2>2. /\ bases' \in Seq(Nat) /\ Len(bases') = Len(bases) + 1
        /\ \A a \in 1..Len(bases) : bases'[a] = bases[a]
        /\ bases'[Len(bases) + 1] = snapshot.generation
    BY <1>0, <2>1
  <2>3. /\ DOMAIN bases = 1..Len(bases) /\ DOMAIN bases' = 1..Len(bases')
        /\ Len(bases) \in Nat
    BY <1>0, <2>2
  <2>4. \A a \in 1..Len(bases) + 1 : a \in 1..Len(bases) \/ a = Len(bases) + 1
    BY <2>3
  <2> QED BY <2>1, <2>2, <2>3, <2>4, Zenon DEF BasesCurrent
<1>3. CASE UNCHANGED <<bases, snapshot>>
  BY <1>0, <1>3, Zenon DEF BasesCurrent
<1> QED
  BY <1>1, <1>2, <1>3, Zenon DEF Next, ManagerStep, Edit, Request, Exit, ReadCandidate,
     InstallInitial, InstallSink, InstallReload, InstallRuntimeAttempt, HandleReload, Joined,
     StartDeferred, FinishDeferred, DeferredFails, Observe, WindowEnds, lifecycle, vars

(***************************************************************************)
(* The watcher: what is live was registered.                               *)
(***************************************************************************)
LEMMA RefreshTypes ==
  ASSUME NEW options, RefreshWatchedPaths(options), live \subseteq watched_paths,
         watcher \in BOOLEAN, watch_diagnostics \in BOOLEAN,
         worker \in {"none", "receive", "window", "gone"}
  PROVE  /\ live' \subseteq watched_paths' /\ watched_paths \subseteq watched_paths'
         /\ watcher' \in BOOLEAN /\ watch_diagnostics' \in BOOLEAN
         /\ worker' \in {"none", "receive", "window", "gone"}
         /\ worker' \in {worker, "receive"}
<1>1. CASE SkipRefresh
  BY <1>1, Zenon DEF SkipRefresh
<1>2. CASE /\ watcher' = TRUE /\ worker' = IF watcher THEN worker ELSE "receive"
           /\ AddPaths(Targets(latest_selection') \ watched_paths)
  BY <1>2, Zenon DEF AddPaths
<1>3. CASE watch_diagnostics' = TRUE /\ UNCHANGED <<watcher, watched_paths, live, worker>>
  BY <1>3, Zenon
<1> QED BY <1>1, <1>2, <1>3, Zenon DEF RefreshWatchedPaths

Refreshing == \E options \in BOOLEAN : RefreshWatchedPaths(options)

LEMMA WatcherStep ==
  ASSUME ReloadTypes, [Next]_vars
  PROVE  /\ live' \subseteq watched_paths' /\ watched_paths \subseteq watched_paths'
         /\ watcher' \in BOOLEAN /\ watch_diagnostics' \in BOOLEAN
         /\ worker' \in {"none", "receive", "window", "gone"}
<1>0. /\ live \subseteq watched_paths /\ watcher_options \in BOOLEAN
      /\ watcher \in BOOLEAN /\ watch_diagnostics \in BOOLEAN
      /\ worker \in {"none", "receive", "window", "gone"}
  BY Zenon DEF ReloadTypes, TypeOK
<1>1. CASE Refreshing
  BY <1>0, <1>1, RefreshTypes, Zenon DEF Refreshing
<1>2. CASE /\ UNCHANGED <<watched_paths, watcher, watch_diagnostics>>
           /\ live' \subseteq live
           /\ worker' \in {worker, "window", "receive", "gone"}
  BY <1>0, <1>2, Zenon
<1>3. CASE \/ InstallInitial \/ InstallSink \/ InstallReload \/ FinishDeferred \/ DeferredFails
  <2>1. Refreshing \/ SkipRefresh
    BY <1>0, <1>3, ZenonT(30)
       DEF InstallInitial, InstallSink, InstallReload, FinishDeferred, DeferredFails,
       InstallRuntimeAttempt, Refreshing
  <2> QED BY <1>1, <1>2, <2>1, Zenon DEF SkipRefresh
<1>4. CASE ~(\/ InstallInitial \/ InstallSink \/ InstallReload \/ FinishDeferred
             \/ DeferredFails)
  <2>1. /\ UNCHANGED <<watched_paths, watcher, watch_diagnostics>>
        /\ live' \subseteq live
    BY <1>4, ZenonT(30) DEF Next, ManagerStep, Edit, Request, OpenWindow, Exit, ReadCandidate,
       HandleReload, Joined, StartDeferred, Observe, WindowEnds, watching, vars
  <2>2. worker' \in {worker, "window", "receive", "gone"}
    BY <1>4, Zenon DEF Next, ManagerStep, Edit, Request, OpenWindow, Exit, ReadCandidate,
       HandleReload, Joined, StartDeferred, Observe, AfterMessage, InWindow, WindowEnds, vars
  <2> QED BY <1>2, <2>1, <2>2, Zenon
<1> QED BY <1>3, <1>4, Zenon

(***************************************************************************)
(* An edit, and the notices it puts into the watcher's channel.            *)
(***************************************************************************)
LEMMA SetToSeqOfFinite ==
  ASSUME NEW S, IsFiniteSet(S)
  PROVE  SetToSeq(S) \in Seq(S) /\ (S # {} => SetToSeq(S) # <<>>)
<1> DEFINE n == Cardinality(S)
           f == SetToSeq(S)
<1>1. n \in Nat /\ ExistsBijection(1..n, S)
  BY FS_CardinalityType, Zenon
<1>2. \E g \in [1..n -> S] : IsInjective(g)
  BY <1>1, Zenon DEF ExistsBijection, Bijection, Injection
<1>3. f \in [1..n -> S]
  BY <1>2, Zenon DEF SetToSeq
<1>4. n = 0 <=> S = {}
  BY FS_EmptySet, Zenon
<1> HIDE DEF n, f
<1>5. f \in Seq(S) /\ Len(f) = n
  BY <1>1, <1>3
<1>6. S # {} => f # <<>>
  BY <1>1, <1>4, <1>5, Zenon
<1> QED BY <1>5, <1>6, Zenon DEF f

Notices(path) == {<<"changed", w>> : w \in Noticing(path)}

LEMMA NoticesOfEdit ==
  ASSUME NEW path
  PROVE  /\ SetToSeq(Notices(path)) \in Seq({"changed"} \X live)
         /\ Noticing(path) # {} => SetToSeq(Notices(path)) # <<>>
         /\ live = {} => SetToSeq(Notices(path)) = <<>>
<1> DEFINE a == <<"changed", <<"file", path>>>>
           b == <<"changed", <<"parent", path>>>>
<1>1. IsFiniteSet({a} \cup {b})
  BY FS_Singleton, FS_AddElement, Zenon
<1>2. Notices(path) \in SUBSET ({a} \cup {b})
  BY Zenon DEF Notices, Noticing
<1>3. IsFiniteSet(Notices(path))
  BY <1>1, <1>2, FS_Subset, Zenon
<1>4. Notices(path) \subseteq {"changed"} \X live
  BY DEF Notices, Noticing
<1>5. Noticing(path) # {} => Notices(path) # {}
  BY ZenonT(30) DEF Notices
<1>6. SetToSeq(Notices(path)) \in Seq(Notices(path))
  BY <1>3, SetToSeqOfFinite, Zenon
<1>7. Noticing(path) # {} => SetToSeq(Notices(path)) # <<>>
  BY <1>3, <1>5, SetToSeqOfFinite, Zenon
<1>8. ASSUME NEW S, NEW T, S \subseteq T, NEW s \in Seq(S) PROVE s \in Seq(T)
  BY <1>8
<1>9. ASSUME live = {} PROVE SetToSeq(Notices(path)) = <<>>
  <2>1. Notices(path) = {}
    BY <1>9, Zenon DEF Notices, Noticing
  <2>2. \A s \in Seq({}) : s = <<>>
    OBVIOUS
  <2> QED BY <1>6, <2>1, <2>2, Zenon
<1> QED BY <1>4, <1>6, <1>7, <1>8, <1>9, Zenon

LEMMA EditsStep ==
  ASSUME ReloadTypes, [Next]_vars
  PROVE  /\ files' \in [Sources' -> Contents] /\ edits' \in Nat /\ notified' \in Nat
         /\ notified' <= edits' /\ candidates' = candidates
<1>0. /\ files \in [Sources -> Contents] /\ edits \in Nat /\ notified \in Nat
      /\ notified <= edits
  BY Zenon DEF ReloadTypes, TypeOK
<1>1. candidates' = candidates
  BY Zenon DEF Next, ManagerStep, Edit, Request, OpenWindow, Exit, ReadCandidate,
     InstallInitial, InstallSink, InstallReload, HandleReload, Joined,
     StartDeferred, FinishDeferred, DeferredFails, Observe, WindowEnds, vars
<1>2. Sources' = Sources
  BY <1>1, Zenon DEF Sources
<1>3. CASE Edit
  <2>1. /\ edits' = edits + 1 /\ notified' \in {notified, edits'}
        /\ \E path \in Sources, content \in Contents : files' = [files EXCEPT ![path] = content]
    BY <1>3, ZenonT(30) DEF Edit
  <2> QED BY <1>0, <1>1, <1>2, <2>1
<1>4. CASE ~Edit
  <2>1. UNCHANGED <<files, edits, notified>>
    BY <1>4, ZenonT(30) DEF Next, ManagerStep, Request, OpenWindow, Exit, ReadCandidate,
       InstallInitial, InstallSink, InstallReload, HandleReload, Joined,
       StartDeferred, FinishDeferred, DeferredFails, Observe, WindowEnds, vars, disk
  <2> QED BY <1>0, <1>1, <1>2, <2>1, Zenon
<1> QED BY <1>3, <1>4, Zenon

LEMMA PlacesStep ==
  ASSUME ReloadTypes, [Next]_vars
  PROVE  /\ phase' \in {"startup", "sink", "run", "exiting", "exited"}
         /\ deferred' \in {"pending", "reading", "done"}
         /\ watcher_options' \in BOOLEAN
<1>1. /\ phase \in {"startup", "sink", "run", "exiting", "exited"}
      /\ deferred \in {"pending", "reading", "done"}
      /\ watcher_options \in BOOLEAN
  BY Zenon DEF ReloadTypes, TypeOK
<1> QED
  BY <1>1, Zenon DEF Next, ManagerStep, Edit, Request, OpenWindow, Exit, ReadCandidate,
     InstallInitial, InstallSink, InstallReload, HandleReload, Joined,
     StartDeferred, FinishDeferred, DeferredFails, Observe, WindowEnds, vars, manager, watching

LEMMA EventsStep ==
  ASSUME ReloadTypes, [Next]_vars
  PROVE  user_events' \in Seq(ReloadEvents)
<1>1. user_events \in Seq(ReloadEvents)
  BY Zenon DEF ReloadTypes
<1>2. CASE \E e \in ReloadEvents : user_events' = Append(user_events, e)
  BY <1>1, <1>2
<1>3. CASE user_events # <<>> /\ user_events' = Tail(user_events)
  BY <1>1, <1>3
<1>4. CASE user_events' = <<>> \/ user_events' = user_events
  <2>1. <<>> \in Seq(ReloadEvents)
    OBVIOUS
  <2> QED BY <1>1, <1>4, <2>1, Zenon
<1> QED
  BY <1>2, <1>3, <1>4, Zenon DEF Next, ManagerStep, Edit, Request, OpenWindow, Exit,
     ReadCandidate, InstallInitial, InstallSink, InstallReload, HandleReload, Joined,
     StartDeferred, FinishDeferred, DeferredFails, Observe, WindowEnds, vars, ReloadEvents

LEMMA ReloadTypesStep ==
  ASSUME ReloadTypes, BasesCurrent, [Next]_vars
  PROVE  ReloadTypes'
<1>1. candidates' \in CandidateLists
  BY EditsStep, Zenon DEF ReloadTypes, TypeOK
<1>2. snapshot'.source \in Paths \cup {None} /\ snapshot'.generation \in Nat
      /\ latest_selection' \in Paths \cup {None}
  BY LifecycleStep, Zenon DEF Snapshots, Sourced
<1>3. {watcher_options, watcher, watch_diagnostics, latest_diagnostic}' \subseteq BOOLEAN
  BY PlacesStep, WatcherStep, LifecycleStep, Zenon
<1>4. TypeOK'
  BY <1>1, <1>2, <1>3, EditsStep, BasesStep, WatcherStep, PlacesStep, Zenon DEF TypeOK
<1> QED BY <1>4, LifecycleStep, LoadingStep, EditsStep, EventsStep, Zenon DEF ReloadTypes

(***************************************************************************)
(* Before the sink there is no watcher, so the installs find nothing to    *)
(* refresh.                                                                *)
(***************************************************************************)
LEMMA RefreshBeforeSink ==
  ASSUME ~watcher, NEW options, ~options, RefreshWatchedPaths(options)
  PROVE  SkipRefresh
BY Zenon DEF RefreshWatchedPaths

LEMMA BeforeSinkStep ==
  ASSUME ReportInv, [Next]_vars
  PROVE  BeforeSink'
<1> DEFINE Early == phase \in {"startup", "sink"} \/ deferred # "done"
           Still == /\ ~watcher_options /\ ~watcher /\ live = {} /\ messages = <<>>
                    /\ worker = "none" /\ notified = 0
<1>0. /\ Early => Still
      /\ deferred # "done" => phase \in {"run", "exiting", "exited"}
      /\ phase \in {"startup", "sink", "run", "exiting", "exited"}
  BY Zenon DEF ReportInv, BeforeSink, RunStage, ReloadTypes, TypeOK
<1>1. SUFFICES ASSUME Early' PROVE Still'
  BY Zenon DEF BeforeSink
<1>2. Early
  BY <1>0, <1>1, Zenon DEF Next, ManagerStep, Edit, Request, OpenWindow, Exit, ReadCandidate,
     InstallInitial, InstallSink, InstallReload, HandleReload, Joined,
     StartDeferred, FinishDeferred, DeferredFails, Observe, WindowEnds, vars, manager
<1>3. Still
  BY <1>0, <1>2, Zenon
<1>4. CASE Edit
  <2>1. PICK path \in Sources, content \in Contents, replaced \in BOOLEAN :
          /\ messages' = messages \o SetToSeq({<<"changed", w>> : w \in Noticing(path)})
          /\ notified' = IF Noticing(path) # {} THEN edits' ELSE notified
          /\ live' = IF replaced \/ content = "missing" THEN live \ {<<"file", path>>} ELSE live
    BY <1>4, Zenon DEF Edit
  <2>2. Noticing(path) = {}
    BY <1>3, Zenon DEF Noticing
  <2>3. SetToSeq({<<"changed", w>> : w \in Noticing(path)}) = <<>>
    BY <1>3, NoticesOfEdit, Zenon DEF Notices
  <2>4. messages' = <<>> /\ notified' = 0 /\ live' = {}
    BY <1>3, <2>1, <2>2, <2>3
  <2> QED BY <1>3, <1>4, <2>4, Zenon DEF Edit
<1>5. CASE InstallInitial
  <2>1. SkipRefresh
    BY <1>3, <1>5, RefreshBeforeSink DEF InstallInitial
  <2> QED BY <1>3, <1>5, <2>1, Zenon DEF InstallInitial, SkipRefresh, disk
<1>6. CASE InstallReload
  <2>1. SkipRefresh
    BY <1>3, <1>6, RefreshBeforeSink DEF InstallReload, InstallRuntimeAttempt
  <2> QED BY <1>3, <1>6, <2>1, Zenon DEF InstallReload, SkipRefresh, disk
<1>7. CASE InstallSink \/ FinishDeferred \/ DeferredFails
  BY <1>0, <1>1, <1>7, Zenon DEF InstallSink, FinishDeferred, DeferredFails
<1>8. CASE Exit
  BY <1>3, <1>8, Zenon DEF Exit, disk
<1>9. CASE Observe \/ WindowEnds
  BY <1>3, <1>9, Zenon DEF Observe, WindowEnds
<1>10. CASE Request \/ OpenWindow \/ HandleReload \/ Joined \/ StartDeferred
            \/ ReadCandidate("loop") \/ ReadCandidate("deferred") \/ UNCHANGED vars
  <2>1. UNCHANGED <<watching, messages, worker, disk>>
    BY <1>10, Zenon DEF Request, OpenWindow, HandleReload, Joined, StartDeferred,
       ReadCandidate, vars
  <2> QED BY <1>3, <2>1, Zenon DEF watching, disk
<1> QED
  BY <1>4, <1>5, <1>6, <1>7, <1>8, <1>9, <1>10, Zenon DEF Next, ManagerStep

(***************************************************************************)
(* While the manager runs, the channel holds changes only.                 *)
(***************************************************************************)
LEMMA ChangesStayWatched ==
  ASSUME NEW S, NEW T, S \subseteq T, NEW s \in Seq({"changed"} \X S)
  PROVE  s \in Seq({"changed"} \X T)
<1>1. {"changed"} \X S \subseteq {"changed"} \X T
  BY Zenon
<1>2. \A A, B : A \subseteq B => Seq(A) \subseteq Seq(B)
  OBVIOUS
<1> QED BY <1>1, <1>2, Zenon

LEMMA FirstIsChange ==
  ASSUME NEW S, messages \in Seq({"changed"} \X S), messages # <<>>
  PROVE  /\ Head(messages) # Stop
         /\ Tail(messages) \in Seq({"changed"} \X S)
<1> DEFINE C == {"changed"} \X S
<1>1. \A c \in C : c # Stop
  BY DEF Stop
<1>2. messages \in Seq(C)
  BY Zenon
<1> HIDE DEF C
<1>3. Head(messages) \in C /\ Tail(messages) \in Seq(C)
  BY <1>2
<1> QED BY <1>1, <1>3, Zenon DEF C

LEMMA RunStageStep ==
  ASSUME ReportInv, [Next]_vars
  PROVE  RunStage'
<1>0. /\ deferred # "done" => phase \in {"run", "exiting", "exited"}
      /\ phase \in {"startup", "sink", "run"} =>
           messages \in Seq({"changed"} \X watched_paths) /\ worker # "gone"
      /\ phase \in {"startup", "sink", "run", "exiting", "exited"}
      /\ live \subseteq watched_paths
  BY Zenon DEF ReportInv, RunStage, ReloadTypes, TypeOK
<1>1. deferred' # "done" => phase' \in {"run", "exiting", "exited"}
  BY <1>0, Zenon DEF Next, ManagerStep, Edit, Request, OpenWindow, Exit, ReadCandidate,
     InstallInitial, InstallSink, InstallReload, HandleReload, Joined,
     StartDeferred, FinishDeferred, DeferredFails, Observe, WindowEnds, vars, manager
<1>2. ASSUME phase' \in {"startup", "sink", "run"}
      PROVE  messages' \in Seq({"changed"} \X watched_paths') /\ worker' # "gone"
  <2>1. phase \in {"startup", "sink", "run"}
    BY <1>0, <1>2, Zenon DEF Next, ManagerStep, Edit, Request, OpenWindow, Exit, ReadCandidate,
       InstallInitial, InstallSink, InstallReload, HandleReload, Joined,
       StartDeferred, FinishDeferred, DeferredFails, Observe, WindowEnds, vars, manager
  <2>2. messages \in Seq({"changed"} \X watched_paths) /\ worker # "gone"
    BY <1>0, <2>1, Zenon
  <2>3. watched_paths \subseteq watched_paths'
    BY WatcherStep, Zenon DEF ReportInv
  <2>4. CASE Edit
    <3>1. PICK path \in Sources :
            messages' = messages \o SetToSeq({<<"changed", w>> : w \in Noticing(path)})
      BY <1>2, <2>4, ZenonT(30) DEF Edit
    <3>2. SetToSeq({<<"changed", w>> : w \in Noticing(path)}) \in Seq({"changed"} \X watched_paths)
      BY <1>0, NoticesOfEdit, ChangesStayWatched, Zenon DEF Notices
    <3>3. messages' \in Seq({"changed"} \X watched_paths)
      BY <2>2, <3>1, <3>2
    <3> QED BY <2>2, <2>4, <3>3, Zenon DEF Edit
  <2>5. CASE Observe
    <3>1. messages # <<>> /\ messages' = Tail(messages) /\ watched_paths' = watched_paths
          /\ worker' \in {AfterMessage("window"), InWindow("window")}
      BY <2>5, Zenon DEF Observe, watching
    <3>2. Head(messages) # Stop /\ messages' \in Seq({"changed"} \X watched_paths)
      BY <2>2, <3>1, FirstIsChange, Zenon
    <3> QED BY <3>1, <3>2, Zenon DEF AfterMessage, InWindow
  <2>6. CASE WindowEnds
    BY <2>2, <2>6, Zenon DEF WindowEnds, watching
  <2>7. CASE Exit
    BY <1>2, <2>7, Zenon DEF Exit
  <2>8. CASE InstallInitial \/ InstallSink \/ InstallReload \/ FinishDeferred \/ DeferredFails
    <3>1. messages' = messages
      BY <2>8, Zenon
         DEF InstallInitial, InstallSink, InstallReload, FinishDeferred, DeferredFails
    <3>2. SkipRefresh \/ \E options \in {watcher_options, TRUE} : RefreshWatchedPaths(options)
      BY <2>8, Zenon DEF InstallInitial, InstallSink, InstallReload, FinishDeferred,
         DeferredFails, InstallRuntimeAttempt
    <3>3. worker' \in {worker, "receive"}
      BY <3>2, Zenon DEF SkipRefresh, RefreshWatchedPaths
    <3> QED BY <2>2, <2>3, <3>1, <3>3, ChangesStayWatched, Zenon
  <2>9. CASE Request \/ OpenWindow \/ HandleReload \/ Joined \/ StartDeferred
             \/ ReadCandidate("loop") \/ ReadCandidate("deferred") \/ UNCHANGED vars
    <3>1. UNCHANGED <<watching, messages, worker>>
      BY <2>9, Zenon DEF Request, OpenWindow, HandleReload, Joined, StartDeferred,
         ReadCandidate, vars
    <3> QED BY <2>2, <3>1, Zenon DEF watching
  <2> QED
    BY <2>4, <2>5, <2>6, <2>7, <2>8, <2>9, Zenon DEF Next, ManagerStep
<1>3. worker' # "none" => watcher'
  <2>1. worker # "none" => watcher
    BY Zenon DEF ReportInv, RunStage
  <2>2. CASE InstallInitial \/ InstallSink \/ InstallReload \/ FinishDeferred \/ DeferredFails
    <3>1. SkipRefresh \/ \E options \in {watcher_options, TRUE} : RefreshWatchedPaths(options)
      BY <2>2, Zenon DEF InstallInitial, InstallSink, InstallReload, FinishDeferred,
         DeferredFails, InstallRuntimeAttempt
    <3> QED BY <2>1, <3>1, Zenon DEF SkipRefresh, RefreshWatchedPaths
  <2>3. CASE watcher' = watcher /\ (worker # "none" \/ worker' = worker)
    BY <2>1, <2>3, Zenon
  <2> QED
    BY <2>2, <2>3, Zenon DEF Next, ManagerStep, Edit, Request, OpenWindow, Exit, ReadCandidate,
       HandleReload, Joined, StartDeferred, Observe, WindowEnds, vars, watching
<1> QED BY <1>1, <1>2, <1>3, Zenon DEF RunStage

(***************************************************************************)
(* What Resolved says, from the first candidate that is not skipped.       *)
(***************************************************************************)
SkippedAt(i) == Skipped(candidates[i], files[candidates[i].path])

LEMMA ResolvedToDefaults ==
  ASSUME \A i \in DOMAIN candidates : SkippedAt(i)
  PROVE  Resolved.source = None /\ Resolved.config = "defaults"
<1>1. {i \in DOMAIN candidates : ~Skipped(candidates[i], files[candidates[i].path])} = {}
  BY Zenon DEF SkippedAt
<1>2. Resolved = [source |-> None, config |-> "defaults"]
  BY <1>1, Zenon DEF Resolved
<1> QED BY <1>2, Zenon

LEMMA ResolvedToFirst ==
  ASSUME ReloadTypes, NEW n \in DOMAIN candidates, ~SkippedAt(n),
         \A i \in DOMAIN candidates : i < n => SkippedAt(i)
  PROVE  /\ Resolved.source = candidates[n].path
         /\ Resolved.config = Loaded(files[candidates[n].path])
<1> DEFINE found == {i \in DOMAIN candidates :
                       ~Skipped(candidates[i], files[candidates[i].path])}
           first == CHOOSE i \in found : \A j \in found : i <= j
<1>1. DOMAIN candidates \subseteq Nat
  BY CandidateTypes
<1>2. n \in found /\ \A j \in found : n <= j
  BY <1>1 DEF SkippedAt
<1>3. first \in found /\ \A j \in found : first <= j
  BY <1>2, Zenon
<1>4. first = n
  <2>1. found \subseteq Nat
    BY <1>1, Zenon
  <2> HIDE DEF found, first
  <2>2. first \in Nat /\ n \in Nat /\ n <= first /\ first <= n
    BY <1>2, <1>3, <2>1, Zenon
  <2> QED BY <2>2
<1>5. Resolved = [source |-> candidates[n].path, config |-> Loaded(files[candidates[n].path])]
  <2>1. found # {}
    BY <1>2, Zenon
  <2>2. Resolved = [source |-> candidates[first].path,
                    config |-> Loaded(files[candidates[first].path])]
    BY <2>1, Zenon DEF Resolved
  <2> QED BY <1>4, <2>2, Zenon
<1> QED BY <1>5, Zenon

(***************************************************************************)
(* One read of the event loop's attempt.                                   *)
(***************************************************************************)
Current(load) ==
  /\ load.as_of <= edits
  /\ ~Complete(load) => load.resolved = None
  /\ load.at > 0 /\ load.as_of = edits =>
       /\ \A i \in DOMAIN candidates : i < load.at => SkippedAt(i)
       /\ Complete(load) => load.resolved = Resolved.source /\ load.config = Resolved.config

LEMMA CurrentLoop == AttemptCurrent <=> Current(loading.loop)
BY Zenon DEF AttemptCurrent, Current, SkippedAt

LEMMA ReadKeepsCurrent ==
  ASSUME ReloadTypes, NEW load \in Attempts, load.at > 0, ~Complete(load), Current(load)
  PROVE  Current(ReadResult(load))
<1>1. load.at \in Nat /\ load.as_of \in Nat /\ load.config = None
      /\ load.as_of <= edits /\ load.resolved = None
  BY Zenon DEF Attempts, Complete, Current
<1>2. Len(candidates) \in Nat /\ DOMAIN candidates = 1..Len(candidates)
  BY CandidateTypes
<1>3. CASE load.at > Len(candidates)
  <2> DEFINE l == ReadResult(load)
  <2>1. l.as_of = load.as_of /\ l.at = load.at /\ l.resolved = None /\ l.config = "defaults"
    BY <1>1, <1>3, Zenon DEF ReadResult, Attempts
  <2>2. ASSUME l.as_of = edits
        PROVE  /\ \A i \in DOMAIN candidates : SkippedAt(i)
               /\ l.resolved = Resolved.source /\ l.config = Resolved.config
    <3>1. \A i \in DOMAIN candidates : SkippedAt(i)
      BY <1>1, <1>2, <1>3, <2>1, <2>2 DEF Current
    <3> QED BY <2>1, <3>1, ResolvedToDefaults, Zenon
  <2>3. Complete(l)
    BY <2>1, Zenon DEF Complete, None
  <2> HIDE DEF l
  <2>4. Current(l)
    BY <1>1, <2>1, <2>2, <2>3, Zenon DEF Current
  <2> QED BY <2>4, Zenon DEF l
<1>4. CASE load.at <= Len(candidates) /\ SkippedAt(load.at)
  <2> DEFINE l == ReadResult(load)
  <2>0. l = [load EXCEPT !.at = @ + 1]
    BY <1>1, <1>2, <1>4 DEF ReadResult, SkippedAt
  <2>1. l.as_of = load.as_of /\ l.at = load.at + 1 /\ l.resolved = None /\ l.config = None
    BY <1>1, <2>0, Zenon DEF Attempts
  <2>2. ~Complete(l)
    BY <2>1, Zenon DEF Complete
  <2>3. ASSUME l.as_of = edits
        PROVE  \A i \in DOMAIN candidates : i < load.at + 1 => SkippedAt(i)
    <3>1. \A i \in DOMAIN candidates : i < load.at => SkippedAt(i)
      BY <2>1, <2>3, Zenon DEF Current
    <3> QED BY <1>1, <1>2, <1>4, <3>1
  <2> HIDE DEF l
  <2>4. Current(l)
    BY <1>1, <2>1, <2>2, <2>3, Zenon DEF Current
  <2> QED BY <2>4, Zenon DEF l
<1>5. CASE load.at <= Len(candidates) /\ ~SkippedAt(load.at)
  <2> DEFINE l == ReadResult(load)
             n == load.at
  <2>0. /\ l = [load EXCEPT !.resolved = candidates[n].path,
                            !.config = Loaded(files[candidates[n].path])]
        /\ n \in DOMAIN candidates
    BY <1>1, <1>2, <1>5 DEF ReadResult, SkippedAt
  <2>1. /\ l.as_of = load.as_of /\ l.at = n
        /\ l.resolved = candidates[n].path
        /\ l.config = Loaded(files[candidates[n].path])
    BY <1>1, <2>0, Zenon DEF Attempts
  <2>2. Complete(l)
    BY <1>2, <2>0, <2>1, CandidateTypes, LoadedType, Zenon DEF Complete
  <2>3. ASSUME l.as_of = edits
        PROVE  /\ \A i \in DOMAIN candidates : i < n => SkippedAt(i)
               /\ l.resolved = Resolved.source /\ l.config = Resolved.config
    <3>1. \A i \in DOMAIN candidates : i < n => SkippedAt(i)
      BY <2>1, <2>3, Zenon DEF Current
    <3> QED BY <1>5, <2>0, <2>1, <3>1, ResolvedToFirst, Zenon
  <2> HIDE DEF l
  <2>4. Current(l)
    BY <1>1, <2>1, <2>2, <2>3, Zenon DEF Current
  <2> QED BY <2>4, Zenon DEF l
<1> QED BY <1>1, <1>2, <1>3, <1>4, <1>5

LEMMA AttemptCurrentStep ==
  ASSUME ReportInv, [Next]_vars
  PROVE  AttemptCurrent'
<1> DEFINE load == loading["loop"]
<1>0. /\ loading \in [{"loop", "deferred"} -> Attempts] /\ load \in Attempts
      /\ edits \in Nat /\ Current(load) /\ ReloadTypes
  BY CurrentLoop, Zenon DEF ReportInv, ReloadTypes
<1>1. candidates' = candidates
  BY <1>0, EditsStep, Zenon
<1>2. CASE Edit
  <2>1. loading' = loading /\ edits' = edits + 1
    BY <1>2, Zenon DEF Edit, manager
  <2>2. load.as_of <= edits /\ load.as_of \in Nat /\ (~Complete(load) => load.resolved = None)
    BY <1>0, Zenon DEF Current, Attempts
  <2>3. load.as_of <= edits' /\ load.as_of # edits'
    BY <1>0, <2>1, <2>2
  <2> QED BY <2>1, <2>2, <2>3, Zenon DEF AttemptCurrent, Complete
<1>3. CASE UNCHANGED <<files, edits>> /\ loading'["loop"] = load
  <2>1. Resolved' = Resolved
    BY <1>1, <1>3 DEF Resolved, Skipped, Loaded
  <2> QED BY <1>0, <1>1, <1>3, <2>1, Zenon
             DEF AttemptCurrent, Current, SkippedAt, Complete, Skipped
<1>4. CASE ReadCandidate("loop")
  <2>1. /\ load.at > 0 /\ ~Complete(load) /\ UNCHANGED <<files, edits>>
        /\ loading' = [loading EXCEPT !["loop"] = ReadResult(load)]
    BY <1>4, Zenon DEF ReadCandidate, ReadResult, disk
  <2>2. loading'["loop"] = ReadResult(load)
    BY <1>0, <2>1, Zenon
  <2>3. Current(ReadResult(load))
    BY <1>0, <2>1, ReadKeepsCurrent, Zenon
  <2>4. Resolved' = Resolved
    BY <1>1, <2>1 DEF Resolved, Skipped, Loaded
  <2> DEFINE l == ReadResult(load)
  <2>5. loading'["loop"] = l /\ Current(l)
    BY <2>2, <2>3, Zenon
  <2> HIDE DEF l
  <2> QED BY <1>1, <2>1, <2>4, <2>5, Zenon
             DEF AttemptCurrent, Current, SkippedAt, Complete, Skipped
<1>5. CASE UNCHANGED <<files, edits>> /\ loading' = [loading EXCEPT !["loop"] = Idle]
  <2>1. loading'["loop"] = Idle
    BY <1>0, <1>5, Zenon
  <2>2. Idle.at = 0 /\ Idle.as_of = 0 /\ Idle.resolved = None
    BY Zenon DEF Idle
  <2>3. 0 <= edits' /\ ~(0 > 0)
    BY <1>0, <1>5
  <2> QED BY <2>1, <2>2, <2>3, Zenon DEF AttemptCurrent
<1>6. CASE UNCHANGED <<files, edits>> /\ loading' = [loading EXCEPT !["loop"] = Begun]
  <2>1. loading'["loop"] = Begun
    BY <1>0, <1>6, Zenon
  <2>2. Begun.at = 1 /\ Begun.as_of = edits /\ Begun.resolved = None /\ ~Complete(Begun)
    BY Zenon DEF Begun, Idle, Complete
  <2>3. \A i \in DOMAIN candidates : ~(i < 1)
    BY <1>0, CandidateTypes
  <2>4. edits <= edits'
    BY <1>0, <1>6
  <2> DEFINE b == Begun
  <2>5. loading'["loop"] = b /\ b.at = 1 /\ b.as_of = edits /\ b.resolved = None /\ ~Complete(b)
    BY <2>1, <2>2, Zenon
  <2> HIDE DEF b
  <2> QED BY <1>1, <2>3, <2>4, <2>5, Zenon DEF AttemptCurrent, Complete
<1>7. CASE InstallInitial \/ InstallReload
  BY <1>5, <1>7, Zenon DEF InstallInitial, InstallReload, disk
<1>8. CASE HandleReload
  BY <1>6, <1>8, Zenon DEF HandleReload, disk
<1>9. CASE StartDeferred \/ FinishDeferred \/ DeferredFails \/ ReadCandidate("deferred")
  BY <1>0, <1>3, <1>9, ZenonT(30)
     DEF StartDeferred, FinishDeferred, DeferredFails, ReadCandidate, disk
<1>10. CASE Request \/ OpenWindow \/ Exit \/ InstallSink \/ Joined \/ Observe
            \/ WindowEnds \/ UNCHANGED vars
  BY <1>3, <1>10, Zenon DEF Request, OpenWindow, Exit, InstallSink, Joined, Observe,
     WindowEnds, vars, disk, manager
<1> QED
  BY <1>2, <1>4, <1>7, <1>8, <1>9, <1>10, Zenon DEF Next, ManagerStep

(***************************************************************************)
(* Installing an attempt that says what Resolved says applies it, whether  *)
(* or not it is found to be in effect already.                             *)
(***************************************************************************)
LEMMA InstallApplies ==
  ASSUME ReloadTypes, NEW load \in Attempts, load.resolved = Resolved.source,
         load.config = Resolved.config, NEW options, InstallRuntimeAttempt(load, options),
         Resolved' = Resolved
  PROVE  Applied'
<1>1. snapshot \in Snapshots /\ latest_diagnostic \in BOOLEAN
  BY Zenon DEF ReloadTypes, TypeOK
<1>2. CASE Unchanged(load) /\ UNCHANGED <<snapshot, latest_diagnostic, latest_selection>>
  <2>1. snapshot.config # "error"
    BY <1>1, Zenon DEF Snapshots, Configs
  <2>2. ~latest_diagnostic' /\ Resolved'.config # "error"
    BY <1>2, <2>1, Zenon DEF Unchanged
  <2>3. /\ latest_selection' = Resolved'.source
        /\ snapshot'.source = Resolved'.source /\ snapshot'.config = Resolved'.config
    BY <1>2, Zenon DEF Unchanged
  <2> QED BY <2>2, <2>3, Zenon DEF Applied
<1>3. CASE InstallAttempt(load)
  <2>1. latest_selection' = Resolved'.source /\ (latest_diagnostic' <=> Resolved'.config = "error")
    BY <1>3, ZenonT(30) DEF InstallAttempt
  <2>2. ASSUME Resolved'.config # "error"
        PROVE  snapshot'.source = Resolved'.source /\ snapshot'.config = Resolved'.config
    BY <1>3, <2>2, Zenon DEF InstallAttempt
  <2> QED BY <2>1, <2>2, Zenon DEF Applied
<1> QED BY <1>2, <1>3, Zenon DEF InstallRuntimeAttempt

LEMMA ReportKeptStep ==
  ASSUME ReportInv, [Next]_vars
  PROVE  ReportKept'
<1> DEFINE load == loading["loop"]
<1>0. /\ loading \in [{"loop", "deferred"} -> Attempts] /\ load \in Attempts
      /\ edits \in Nat /\ notified \in Nat /\ notified <= edits
      /\ ReloadTypes /\ user_events \in Seq(ReloadEvents) /\ candidates' = candidates
      /\ Idle.at = 0 /\ Begun.at = 1 /\ Begun.as_of = edits
  BY EditsStep, Zenon DEF ReportInv, ReloadTypes, Idle, Begun
<1>1. SUFFICES ASSUME phase' = "run", edits' > 0, notified' = edits'
               PROVE  \/ messages' # <<>>
                      \/ worker' = "window"
                      \/ user_events' # <<>>
                      \/ loading'["loop"].at > 0 /\ loading'["loop"].as_of = edits'
                      \/ loading'["loop"] = Idle /\ Applied'
  BY Zenon DEF ReportKept
<1> DEFINE Kept == \/ messages # <<>>
                   \/ worker = "window"
                   \/ user_events # <<>>
                   \/ load.at > 0 /\ load.as_of = edits
                   \/ load = Idle /\ Applied
<1>2. ASSUME phase = "run", UNCHANGED <<edits, notified>> PROVE Kept
  BY <1>1, <1>2, Zenon DEF ReportInv, ReportKept
<1>3. ASSUME UNCHANGED files PROVE Resolved' = Resolved
  BY <1>0, <1>3 DEF Resolved, Skipped, Loaded
<1>4. CASE Edit
  <2>1. PICK path \in Sources :
          /\ messages' = messages \o SetToSeq({<<"changed", w>> : w \in Noticing(path)})
          /\ notified' = IF Noticing(path) # {} THEN edits' ELSE notified
          /\ edits' = edits + 1
    BY <1>4, Zenon DEF Edit
  <2>2. Noticing(path) # {}
    <3>1. notified # edits + 1
      BY <1>0
    <3> QED BY <1>1, <2>1, <3>1, Zenon
  <2>3. phase = "run"
    BY <1>1, <1>4, Zenon DEF Edit, manager
  <2>4. messages \in Seq({"changed"} \X watched_paths)
    BY <2>3, Zenon DEF ReportInv, RunStage
  <2> DEFINE s == SetToSeq(Notices(path))
  <2>5. s \in Seq({"changed"} \X live) /\ s # <<>> /\ messages' = messages \o s
    BY <2>1, <2>2, NoticesOfEdit, Zenon DEF Notices
  <2> HIDE DEF s
  <2>6. messages' # <<>>
    <3>1. \A S, T : \A a \in Seq(S), b \in Seq(T) : b # <<>> => a \o b # <<>>
      OBVIOUS
    <3> QED BY <2>4, <2>5, <3>1, Zenon
  <2> QED BY <2>6, Zenon
<1>5. CASE Observe
  <2>1. phase = "run" /\ messages # <<>> /\ worker' \in {AfterMessage("window"), InWindow("window")}
    BY <1>1, <1>5, Zenon DEF Observe, manager
  <2>2. Head(messages) # Stop
    BY <2>1, FirstIsChange, Zenon DEF ReportInv, RunStage
  <2> QED BY <2>1, <2>2, Zenon DEF AfterMessage, InWindow
<1>6. CASE WindowEnds
  <2>1. user_events' = Append(user_events, "ConfigFileChanged")
    BY <1>1, <1>6, Zenon DEF WindowEnds, manager
  <2> QED BY <1>0, <2>1
<1>7. CASE Request
  <2>1. user_events' = Append(user_events, "ReloadConfigurationRequested")
    BY <1>7, Zenon DEF Request
  <2> QED BY <1>0, <2>1
<1>8. CASE HandleReload
  <2>1. loading'["loop"] = Begun /\ edits' = edits
    BY <1>0, <1>8, Zenon DEF HandleReload, disk
  <2> QED BY <1>0, <2>1
<1>9. CASE InstallReload
  <2>1. /\ phase = "run" /\ Complete(load) /\ InstallRuntimeAttempt(load, watcher_options)
        /\ loading'["loop"] = Idle
        /\ UNCHANGED <<files, edits, notified, messages, user_events>>
    BY <1>0, <1>9, Zenon DEF InstallReload, disk
  <2>2. load # Idle
    BY <2>1 DEF Complete, Idle
  <2>3. CASE load.at > 0 /\ load.as_of = edits
    <3>1. load.resolved = Resolved.source /\ load.config = Resolved.config
      BY <2>1, <2>3, ZenonT(30) DEF ReportInv, AttemptCurrent
    <3>2. Applied'
      BY <1>0, <1>3, <2>1, <3>1, InstallApplies, Zenon
    <3> QED BY <2>1, <3>2, Zenon
  <2>4. CASE worker = "window"
    <3>1. SkipRefresh \/ RefreshWatchedPaths(watcher_options)
      BY <2>1, Zenon DEF InstallRuntimeAttempt
    <3>2. watcher
      BY <2>4, <3>1, Zenon DEF ReportInv, RunStage
    <3> QED BY <2>4, <3>1, <3>2, Zenon DEF SkipRefresh, RefreshWatchedPaths
  <2> QED BY <1>2, <2>1, <2>2, <2>3, <2>4, Zenon
<1>10. CASE ReadCandidate("loop")
  <2>1. /\ phase = "run" /\ load.at > 0 /\ ~Complete(load)
        /\ loading' = [loading EXCEPT !["loop"] = ReadResult(load)]
        /\ UNCHANGED <<edits, notified, messages, worker, user_events>>
    BY <1>1, <1>10, Zenon DEF ReadCandidate, ReadResult, disk
  <2>2. loading'["loop"] = ReadResult(load)
    BY <1>0, <2>1, Zenon
  <2>3. ReadResult(load).at > 0 /\ ReadResult(load).as_of = load.as_of
    <3>1. load.at \in Nat
      BY <1>0, Zenon DEF Attempts
    <3> QED BY <1>0, <2>1, <3>1 DEF ReadResult, Attempts
  <2>4. load # Idle
    BY <1>0, <2>1
  <2> QED BY <1>2, <2>1, <2>2, <2>3, <2>4, Zenon
<1>11. CASE InstallSink \/ FinishDeferred \/ DeferredFails
  <2>1. notified = 0 /\ UNCHANGED <<edits, notified>>
    BY <1>11, Zenon DEF InstallSink, FinishDeferred, DeferredFails, ReportInv, BeforeSink, disk
  <2> QED BY <1>0, <1>1, <2>1
<1>12. CASE InstallInitial \/ Exit \/ Joined
  BY <1>1, <1>12, Zenon DEF InstallInitial, Exit, Joined
<1>13. CASE OpenWindow \/ StartDeferred \/ ReadCandidate("deferred") \/ UNCHANGED vars
  <2>1. /\ phase = "run"
        /\ loading'["loop"] = load
        /\ UNCHANGED <<files, edits, notified, messages, worker, user_events, snapshot,
                       latest_diagnostic, latest_selection>>
    BY <1>0, <1>1, <1>13, Zenon
       DEF OpenWindow, StartDeferred, ReadCandidate, vars, disk, manager,
       lifecycle
  <2>2. Applied => Applied'
    BY <1>3, <2>1, Zenon DEF Applied
  <2> QED BY <1>2, <2>1, <2>2, Zenon
<1> QED
  BY <1>4, <1>5, <1>6, <1>7, <1>8, <1>9, <1>10, <1>11, <1>12, <1>13, Zenon DEF Next, ManagerStep

(***************************************************************************)
(* The invariant, and a report that is not lost.                           *)
(***************************************************************************)
LEMMA ReportInit == Init => ReportInv
<1> SUFFICES ASSUME Init PROVE ReportInv
  BY Zenon
<1>1. Idle \in Attempts /\ Begun \in Attempts /\ edits = 0 /\ notified = 0
  BY ZenonT(30) DEF Init, Idle, Begun, Attempts, Sourced, None
<1>2. loading \in [{"loop", "deferred"} -> Attempts]
  BY <1>1 DEF Init
<1>3. snapshot \in Snapshots
  BY Zenon DEF Init, Snapshots, Sourced, Configs, None
<1>4. bases \in Seq(Nat) /\ \A a \in DOMAIN bases : bases[a] = 0
  BY DEF Init
<1>5. user_events \in Seq(ReloadEvents) /\ messages \in Seq({"changed"} \X watched_paths)
  <2>1. \A S : <<>> \in Seq(S)
    OBVIOUS
  <2> QED BY <2>1, Zenon DEF Init
<1>6. TypeOK
  <2>1. {watcher_options, watcher, watch_diagnostics, latest_diagnostic} \subseteq BOOLEAN
    BY Zenon DEF Init
  <2>2. files \in [Sources -> Contents]
    <3>1. {"missing", "bad", "auto"} \subseteq Contents
      BY Zenon DEF Contents
    <3> QED BY <3>1, Zenon DEF Init
  <2>3. /\ candidates \in CandidateLists
        /\ snapshot.source \in Paths \cup {None} /\ snapshot.generation \in Nat
        /\ latest_selection \in Paths \cup {None}
    BY <1>3, Zenon DEF Init, Snapshots, Sourced
  <2>4. /\ live \subseteq watched_paths
        /\ worker \in {"none", "receive", "window", "gone"}
        /\ phase \in {"startup", "sink", "run", "exiting", "exited"}
        /\ deferred \in {"pending", "reading", "done"}
    BY Zenon DEF Init
  <2> QED BY <1>4, <2>1, <2>2, <2>3, <2>4, Zenon DEF TypeOK
<1>7. ReloadTypes
  BY <1>1, <1>2, <1>3, <1>5, <1>6 DEF ReloadTypes
<1>8. BeforeSink /\ RunStage
  BY <1>5, Zenon DEF Init, BeforeSink, RunStage
<1>9. AttemptCurrent
  <2>1. loading.loop \in {Idle, Begun}
    BY DEF Init
  <2>2. \A i \in DOMAIN candidates : ~(i < 1)
    BY <1>7, CandidateTypes
  <2>3. CASE loading.loop = Idle
    <3>1. Idle.at = 0 /\ Idle.as_of = 0 /\ Idle.resolved = None
      BY Zenon DEF Idle
    <3> QED BY <1>1, <2>3, <3>1 DEF AttemptCurrent
  <2>4. CASE loading.loop = Begun
    <3> DEFINE b == Begun
    <3>1. b.at = 1 /\ b.as_of = 0 /\ b.resolved = None /\ b.config = None
      BY <1>1, Zenon DEF Begun, Idle
    <3>2. loading.loop = b
      BY <2>4, Zenon
    <3> HIDE DEF b
    <3> QED BY <1>1, <2>2, <3>1, <3>2 DEF AttemptCurrent, Complete
  <2> QED BY <2>1, <2>3, <2>4, Zenon
<1>10. ReportKept /\ BasesCurrent
  BY <1>1, <1>4 DEF Init, ReportKept, BasesCurrent
<1> QED BY <1>7, <1>8, <1>9, <1>10, Zenon DEF ReportInv

LEMMA ReportStep == ReportInv /\ [Next]_vars => ReportInv'
<1> SUFFICES ASSUME ReportInv, [Next]_vars PROVE ReportInv'
  BY Zenon
<1>1. ReloadTypes /\ BasesCurrent
  BY Zenon DEF ReportInv
<1> QED
  BY <1>1, ReloadTypesStep, BasesStep, BeforeSinkStep, RunStageStep, AttemptCurrentStep,
     ReportKeptStep, Zenon DEF ReportInv

(***************************************************************************)
(* ReportedEditsApplied, for every list of candidates and every number of  *)
(* edits, requests and windows: run_config_watcher_worker and the reload   *)
(* events lose no report, also when the edit falls into a reload that was  *)
(* already reading, and install_runtime_attempt leaves every window with   *)
(* the generation in effect.                                               *)
(***************************************************************************)
THEOREM ReportedEditsTakeEffect == Spec => []ReportedEditsApplied
<1>1. ReportInv => ReportedEditsApplied
  <2> SUFFICES ASSUME ReportInv PROVE ReportedEditsApplied
    BY Zenon
  <2>1. TypeOK /\ \A a \in DOMAIN bases : bases[a] = snapshot.generation
    BY Zenon DEF ReportInv, ReloadTypes, BasesCurrent
  <2>2. ASSUME Quiet, edits > 0, notified = edits PROVE Applied
    <3>1. Idle.at = 0
      BY Zenon DEF Idle
    <3> QED BY <2>2, <3>1 DEF Quiet, ReportInv, ReportKept
  <2> QED BY <2>1, <2>2, Zenon DEF ReportedEditsApplied, Applied
<1> QED BY <1>1, ReportInit, ReportStep, PTL DEF Spec

=============================================================================
