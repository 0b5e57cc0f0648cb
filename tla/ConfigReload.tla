---------------------------- MODULE ConfigReload ----------------------------
(***************************************************************************)
(* Configuration reload: the lifecycle the window manager owns, its two    *)
(* ways to start (an attempt before the window, or one on a thread after   *)
(* the first frame), the file watcher with its debouncing worker, and the  *)
(* events the manager handles.  The files, whoever edits them, and the     *)
(* operating system's watches are external.  One file is read per step, so *)
(* edits fall between a read, the next one, and the install.               *)
(***************************************************************************)
EXTENDS Integers, Sequences, SequencesExt

CONSTANTS
  CandidateLists,   \* the lists candidate_sources may give; <<>> when skipped
  HomePaths,        \* the sources whose parent is the home directory
  MaxWindows,       \* bound: windows
  MaxEdits,         \* bound: edits of the files
  MaxRequests       \* bound: manual reloads

VARIABLES
  candidates,             \* what candidate_sources gives in this process
  files, edits,           \* what each source holds, and how often it was edited
  snapshot,               \* the ConfigSnapshot; its source stands for the publication
  latest_diagnostic, latest_selection,
  bases,                  \* base_config_generation of every window
  watcher_options, watcher,
  watched_paths, live,    \* what it registered, and what the system still watches
  watch_diagnostics,      \* something was reported about watching
  messages, worker,       \* the watcher's channel and its worker
  user_events, requests,
  phase, deferred, loading,    \* the manager, its deferred attempt, the reads
  read_as_of, notified         \* history: edits the installed attempt may have
                               \* seen, and the last one the watcher reported

lifecycle == <<snapshot, latest_diagnostic, latest_selection, bases, read_as_of>>
watching == <<watcher_options, watcher, watched_paths, live, watch_diagnostics>>
disk == <<files, edits, notified>>
manager == <<phase, deferred, loading>>
vars == <<candidates, disk, lifecycle, watching, messages, worker, user_events,
          requests, manager>>

Paths == {source.path : source \in UNION {Range(list) : list \in CandidateLists}}
None == "none"        \* Disabled or Defaults: no file
Contents == {"missing", "bad", "auto", "tuned", "manual"}
Enabled(config) == config # "manual"    \* automatically_reload_config

ASSUME ConfigReloadAssumption ==
  /\ CandidateLists \subseteq Seq([path : Paths, required : BOOLEAN])
  /\ HomePaths \subseteq Paths /\ None \notin Paths
  /\ MaxWindows \in Nat \ {0} /\ MaxEdits \in Nat /\ MaxRequests \in Nat

Sources == {source.path : source \in Range(candidates)}

Idle == [at |-> 0, as_of |-> 0, resolved |-> None, config |-> None]
Begun == [Idle EXCEPT !.at = 1, !.as_of = edits]
Complete(load) == load.config # None

Init ==
  /\ candidates \in CandidateLists
  /\ files \in [Sources -> {"missing", "bad", "auto"}] /\ edits = 0 /\ notified = 0
  /\ snapshot = [source |-> None, config |-> "defaults", generation |-> 0]
  /\ latest_diagnostic = FALSE /\ latest_selection = None /\ read_as_of = 0
  /\ bases = <<0>>
  /\ watcher_options = FALSE /\ watcher = FALSE
  /\ watched_paths = {} /\ live = {} /\ watch_diagnostics = FALSE
  /\ messages = <<>> /\ worker = "none"
  /\ user_events = <<>> /\ requests = 0
  /\ \/ /\ phase = "startup" /\ deferred = "done"
        /\ loading = [loop |-> Begun, deferred |-> Idle]
     \/ /\ phase = "run" /\ deferred = "pending"
        /\ loading = [loop |-> Idle, deferred |-> Idle]

-----------------------------------------------------------------------------
(***************************************************************************)
(* A source is rewritten, replaced, removed or created.  A watch of the    *)
(* file goes with the file, the watch of its directory stays.              *)
(***************************************************************************)
Noticing(path) == live \cap {<<"file", path>>, <<"parent", path>>}

Edit ==
  /\ edits < MaxEdits
  /\ \E path \in Sources, content \in Contents, replaced \in BOOLEAN :
       /\ files[path] # content
       /\ files' = [files EXCEPT ![path] = content]
       /\ edits' = edits + 1
       /\ messages' = messages \o SetToSeq({<<"changed", w>> : w \in Noticing(path)})
       /\ notified' = IF Noticing(path) # {} THEN edits' ELSE notified
       /\ live' = IF replaced \/ content = "missing"
                  THEN live \ {<<"file", path>>} ELSE live
  /\ UNCHANGED <<candidates, lifecycle, watcher_options, watcher, watched_paths,
                 watch_diagnostics, worker, user_events, requests, manager>>

-----------------------------------------------------------------------------
(***************************************************************************)
(* attempt_reload: the candidates in order, past the optional ones that    *)
(* are missing.                                                            *)
(***************************************************************************)
Loaded(content) == IF content \in {"missing", "bad"} THEN "error" ELSE content

Skipped(source, content) == ~source.required /\ content = "missing"

ReadCandidate(who) ==
  LET load == loading[who]
  IN  /\ load.at > 0 /\ ~Complete(load)
      /\ loading' = [loading EXCEPT ![who] =
           IF load.at > Len(candidates) THEN [load EXCEPT !.config = "defaults"]
           ELSE LET source == candidates[load.at]
                    content == files[source.path]
                IN  IF Skipped(source, content) THEN [load EXCEPT !.at = @ + 1]
                    ELSE [load EXCEPT !.resolved = source.path, !.config = Loaded(content)]]
      /\ UNCHANGED <<candidates, disk, lifecycle, watching, messages, worker,
                     user_events, requests, phase, deferred>>

(***************************************************************************)
(* ConfigLifecycle::install_attempt: a failed attempt changes the          *)
(* selection and the diagnostic only.                                      *)
(***************************************************************************)
InstallAttemptOrDefaults(load) ==
  /\ latest_selection' = load.resolved
  /\ latest_diagnostic' = (load.config = "error")
  /\ snapshot' = IF load.config = "error"
                 THEN [snapshot EXCEPT !.config = "defaults"]
                 ELSE [source |-> load.resolved, config |-> load.config,
                       generation |-> snapshot.generation + 1]

InstallAttempt(load) ==
  /\ latest_selection' = load.resolved
  /\ latest_diagnostic' = (load.config = "error")
  /\ snapshot' = IF load.config = "error"
                 THEN snapshot
                 ELSE [source |-> load.resolved, config |-> load.config,
                       generation |-> snapshot.generation + 1]

(***************************************************************************)
(* install_runtime_attempt does nothing for an attempt that says what is   *)
(* in effect already.                                                      *)
(***************************************************************************)
UnchangedConfig(load) ==
  latest_selection = load.resolved /\ snapshot.config = load.config

Unchanged(load) ==
  /\ ~latest_diagnostic
  /\ latest_selection = load.resolved
  /\ snapshot.source = load.resolved
  /\ snapshot.config = load.config

(***************************************************************************)
(* refresh_watched_paths, after an attempt or the sink was installed: the  *)
(* watcher is made once a source is known, and the source and its parent   *)
(* are added.  What is missing cannot be watched, and a registration or    *)
(* the watcher itself may fail.                                            *)
(***************************************************************************)
FileOnly(path) == {<<"file", path>>}

Targets(path) ==
  {<<"file", path>>} \cup (IF path \in HomePaths THEN {} ELSE {<<"parent", path>>})

AddPaths(targets) ==
  \E added \in SUBSET {t \in targets : t[1] = "parent" \/ files[t[2]] # "missing"} :
    /\ watched_paths' = watched_paths \cup added
    /\ live' = live \cup added
    /\ watch_diagnostics' = (watch_diagnostics \/ added # targets)

SkipRefresh == UNCHANGED <<watcher, watched_paths, live, watch_diagnostics, worker>>

RefreshWatchedPaths(options) ==
  LET path == latest_selection'
  IN  \/ /\ ~Enabled(snapshot'.config) \/ path = None \/ (~watcher /\ ~options)
         /\ SkipRefresh
      \/ /\ Enabled(snapshot'.config) /\ path # None /\ (watcher \/ options)
         /\ watcher' = TRUE
         /\ worker' = IF watcher THEN worker ELSE "receive"
         /\ AddPaths(Targets(path) \ watched_paths)
      \/ /\ Enabled(snapshot'.config) /\ path # None /\ ~watcher /\ options
         /\ watch_diagnostics' = TRUE
         /\ UNCHANGED <<watcher, watched_paths, live, worker>>

(***************************************************************************)
(* install_configuration_attempt hands the snapshot in effect to every     *)
(* window.                                                                 *)
(***************************************************************************)
SetBases == bases' = [a \in DOMAIN bases |-> snapshot'.generation]

(***************************************************************************)
(* What is installed of the startup attempt, of a reload, and of the       *)
(* deferred attempt with the sink that goes in after it.  A panicked       *)
(* deferred worker leaves nothing to install.                              *)
(***************************************************************************)
InstallInitial ==
  /\ phase = "startup"
  /\ Complete(loading.loop)
  /\ InstallAttempt(loading.loop)
  /\ RefreshWatchedPaths(watcher_options)
  /\ SetBases
  /\ read_as_of' = loading.loop.as_of
  /\ loading' = [loading EXCEPT !.loop = Idle]
  /\ phase' = "sink"
  /\ UNCHANGED <<candidates, disk, watcher_options, messages, user_events,
                 requests, deferred>>

InstallSink ==
  /\ phase = "sink"
  /\ watcher_options' = TRUE
  /\ UNCHANGED <<snapshot, latest_diagnostic, latest_selection>>
  /\ RefreshWatchedPaths(TRUE)
  /\ phase' = "run"
  /\ UNCHANGED <<candidates, disk, bases, read_as_of, messages, user_events,
                 requests, deferred, loading>>

InstallRuntimeAttempt(load, options) ==
  /\ \/ /\ Unchanged(load)
        /\ UNCHANGED <<snapshot, latest_diagnostic, latest_selection>>
        /\ IF options = watcher_options THEN SkipRefresh ELSE RefreshWatchedPaths(options)
     \/ /\ ~Unchanged(load)
        /\ InstallAttempt(load)
        /\ RefreshWatchedPaths(options)
  /\ SetBases
  /\ read_as_of' = load.as_of

InstallReload ==
  /\ phase = "run"
  /\ Complete(loading.loop)
  /\ InstallRuntimeAttempt(loading.loop, watcher_options)
  /\ loading' = [loading EXCEPT !.loop = Idle]
  /\ UNCHANGED <<candidates, disk, watcher_options, messages, user_events,
                 requests, phase, deferred>>

StartDeferred ==
  /\ phase = "run" /\ deferred = "pending" /\ loading.loop = Idle
  /\ deferred' = "reading"
  /\ loading' = [loading EXCEPT !.deferred = Begun]
  /\ UNCHANGED <<candidates, disk, lifecycle, watching, messages, worker,
                 user_events, requests, phase>>

FinishDeferred ==
  /\ phase = "run" /\ deferred = "reading" /\ loading.loop = Idle
  /\ Complete(loading.deferred)
  /\ deferred' = "done"
  /\ loading' = [loading EXCEPT !.deferred = Idle]
  /\ watcher_options' = TRUE
  /\ InstallRuntimeAttempt(loading.deferred, TRUE)
  /\ UNCHANGED <<candidates, disk, messages, user_events, requests, phase>>

DeferredFails ==
  /\ phase = "run" /\ deferred = "reading" /\ loading.loop = Idle
  /\ deferred' = "done"
  /\ loading' = [loading EXCEPT !.deferred = Idle]
  /\ watcher_options' = TRUE
  /\ UNCHANGED <<snapshot, latest_diagnostic, latest_selection, bases, read_as_of>>
  /\ RefreshWatchedPaths(TRUE)
  /\ UNCHANGED <<candidates, disk, messages, user_events, requests, phase>>

-----------------------------------------------------------------------------
(***************************************************************************)
(* run_config_watcher_worker: the first change opens the debounce window,  *)
(* the changes within it are coalesced, its end sends one event.           *)
(***************************************************************************)
Stop == <<"stop">>

AfterMessage(next) == IF Head(messages) = Stop THEN "gone" ELSE next

IgnoringStop(next) == next

InWindow(next) == AfterMessage(next)

Observe ==
  /\ messages # <<>>
  /\ \/ worker = "receive" /\ worker' = AfterMessage("window")
     \/ worker = "window" /\ worker' = InWindow("window")
  /\ messages' = Tail(messages)
  /\ UNCHANGED <<candidates, disk, lifecycle, watching, user_events, requests, manager>>

WindowEnds ==
  /\ worker = "window"
  /\ worker' = "receive"
  /\ user_events' = IF phase = "run" THEN Append(user_events, "ConfigFileChanged")
                                     ELSE user_events
  /\ UNCHANGED <<candidates, disk, lifecycle, watching, messages, requests, manager>>

-----------------------------------------------------------------------------
(***************************************************************************)
(* The manager's turn: both reload events start the same attempt.          *)
(***************************************************************************)
Request ==
  /\ phase = "run" /\ requests < MaxRequests
  /\ requests' = requests + 1
  /\ user_events' = Append(user_events, "ReloadConfigurationRequested")
  /\ UNCHANGED <<candidates, disk, lifecycle, watching, messages, worker, manager>>

HandleReload ==
  /\ phase = "run" /\ loading.loop = Idle /\ user_events # <<>>
  /\ user_events' = Tail(user_events)
  /\ loading' = [loading EXCEPT !.loop = Begun]
  /\ UNCHANGED <<candidates, disk, lifecycle, watching, messages, worker,
                 requests, phase, deferred>>

(***************************************************************************)
(* A window is detached from another, and takes the current base when it   *)
(* is materialized.                                                        *)
(***************************************************************************)
OpenWindow ==
  /\ phase = "run" /\ loading.loop = Idle
  /\ Len(bases) < MaxWindows
  /\ bases' = Append(bases, snapshot.generation)
  /\ UNCHANGED <<candidates, disk, snapshot, latest_diagnostic, latest_selection,
                 read_as_of, watching, messages, worker, user_events, requests, manager>>

(***************************************************************************)
(* The event loop ends and the lifecycle is dropped: no more               *)
(* notifications, a Stop behind those in the channel, and the join.        *)
(***************************************************************************)
Exit ==
  /\ phase = "run" /\ loading.loop = Idle
  /\ phase' = "exiting"
  /\ live' = {}
  /\ messages' = IF watcher THEN Append(messages, Stop) ELSE messages
  /\ user_events' = <<>>
  /\ UNCHANGED <<candidates, disk, lifecycle, watcher_options, watcher,
                 watched_paths, watch_diagnostics, worker, requests, deferred, loading>>

Joined ==
  /\ phase = "exiting" /\ worker \in {"none", "gone"}
  /\ phase' = "exited"
  /\ UNCHANGED <<candidates, disk, lifecycle, watching, messages, worker,
                 user_events, requests, deferred, loading>>

ManagerStep ==
  \/ ReadCandidate("loop") \/ InstallInitial \/ InstallSink
  \/ InstallReload \/ HandleReload \/ Joined

Next ==
  \/ Edit \/ Request \/ OpenWindow \/ Exit
  \/ ManagerStep
  \/ StartDeferred \/ ReadCandidate("deferred") \/ FinishDeferred \/ DeferredFails
  \/ Observe \/ WindowEnds

Spec == Init /\ [][Next]_vars

(***************************************************************************)
(* The event loop and the watcher's worker go on when they can, and a      *)
(* debounce window ends.                                                   *)
(***************************************************************************)
FairSpec == Spec /\ WF_vars(ManagerStep) /\ WF_vars(Observe) /\ WF_vars(WindowEnds)

-----------------------------------------------------------------------------
(***************************************************************************)
(* Types of the lifecycle, the watcher and the manager.                    *)
(***************************************************************************)
TypeOK ==
  /\ candidates \in CandidateLists
  /\ files \in [Sources -> Contents]
  /\ snapshot.source \in Paths \cup {None} /\ snapshot.generation \in Nat
  /\ latest_selection \in Paths \cup {None}
  /\ bases \in Seq(Nat)
  /\ {watcher_options, watcher, watch_diagnostics, latest_diagnostic} \subseteq BOOLEAN
  /\ live \subseteq watched_paths
  /\ worker \in {"none", "receive", "window", "gone"}
  /\ phase \in {"startup", "sink", "run", "exiting", "exited"}
  /\ deferred \in {"pending", "reading", "done"}

(***************************************************************************)
(* What attempt_reload resolves with the files as they are.                *)
(***************************************************************************)
Resolved ==
  LET found == {i \in DOMAIN candidates :
                  ~Skipped(candidates[i], files[candidates[i].path])}
      first == CHOOSE i \in found : \A j \in found : i <= j
  IN  IF found = {} THEN [source |-> None, config |-> "defaults"]
      ELSE [source |-> candidates[first].path,
            config |-> Loaded(files[candidates[first].path])]

Quiet ==
  /\ phase = "run" /\ deferred = "done" /\ loading.loop = Idle
  /\ messages = <<>> /\ worker # "window" /\ user_events = <<>>

(***************************************************************************)
(* A reported edit is not lost between the debouncer, the event queue and  *)
(* a reload that was already reading: when nothing is under way and the    *)
(* last edit was reported, the selection, the configuration and the        *)
(* diagnostic are those of the files, and every window has the generation  *)
(* in effect (run_config_watcher_worker, install_runtime_attempt).         *)
(***************************************************************************)
ReportedEditsApplied ==
  /\ TypeOK
  /\ Quiet /\ edits > 0 /\ notified = edits =>
       /\ latest_selection = Resolved.source
       /\ latest_diagnostic <=> Resolved.config = "error"
       /\ ~latest_diagnostic =>
            snapshot.source = Resolved.source /\ snapshot.config = Resolved.config
  /\ \A a \in DOMAIN bases : bases[a] = snapshot.generation

(***************************************************************************)
(* "After every attempt, successful or failed", the source is watched:     *)
(* while the last good configuration has automatic reload, an edit of the  *)
(* selected source will be noticed, across replacement and removal, unless *)
(* a diagnostic said otherwise or the source is directly in the home       *)
(* directory (refresh_watched_paths).                                      *)
(***************************************************************************)
SourceWatched ==
  Quiet /\ Enabled(snapshot.config) /\ latest_selection \notin HomePaths \cup {None}
    => Noticing(latest_selection) # {} \/ watch_diagnostics

(***************************************************************************)
(* A generation is one step, and new: another source or configuration, the *)
(* end of a diagnostic, or the attempt of the startup.  A failed attempt   *)
(* keeps the last known good snapshot ("without publishing a phantom       *)
(* configuration generation", install_runtime_attempt).                    *)
(***************************************************************************)
GenerationsAreNew ==
  [][/\ snapshot' # snapshot =>
          /\ snapshot'.generation = snapshot.generation + 1
          /\ ~latest_diagnostic'
          /\ \/ snapshot'.source # snapshot.source \/ snapshot'.config # snapshot.config
             \/ latest_diagnostic \/ phase = "startup"
     /\ latest_diagnostic' /\ ~latest_diagnostic => snapshot' = snapshot]_vars

(***************************************************************************)
(* A reported edit is read by a later attempt, and the drop of the         *)
(* lifecycle ends the worker, from within a debounce window too            *)
(* (run_config_watcher_worker, NativeConfigWatcher::drop).                 *)
(***************************************************************************)
ReportedEditsRead ==
  /\ notified > read_as_of ~> notified <= read_as_of \/ phase # "run"
  /\ phase = "exiting" ~> phase = "exited"

=============================================================================
