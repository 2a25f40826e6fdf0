-------------------------- MODULE DictationSystem --------------------------
(***************************************************************************)
(* The voice keyboard as a whole: the desktop window and the controller on *)
(* the UI thread, the controller's two message handlers on the reader      *)
(* threads, and the two worker processes, joined by pipes.                 *)
(***************************************************************************)
EXTENDS DesktopHost, AsrWorker, RewriteWorker

CONSTANTS
  InitialCleanup,       \* the cleanup modes the program may be started with
  MaxPresses,           \* bounds, on the number of start and stop presses,
  MaxCancels,           \* of cancel presses,
  MaxLanguageChanges,   \* of languages selected,
  MaxSettings,          \* of device and cleanup choices,
  MaxCrashes            \* and of workers that die

ASSUME BoundsAssumption ==
  /\ InitialCleanup \subseteq CleanupModes
  /\ MaxPresses \in Nat /\ MaxCancels \in Nat /\ MaxLanguageChanges \in Nat
  /\ MaxSettings \in Nat /\ MaxCrashes \in Nat

VARIABLE used   \* how much of each bound is used up

workerVars == <<asr, said, loaded>>
vars == <<pipes, ctl, ui, hostVars, workerVars, used>>

Init ==
  /\ PipesInit
  /\ \E cleanup \in InitialCleanup : ctl = ControllerInit(cleanup)
  /\ ui = [pc |-> "spawn", op |-> "launch_asr"]
  /\ HostInit
  /\ asr = FreshAsr(DefaultLanguage)
  /\ said = {}
  /\ loaded = FALSE
  /\ used = [presses |-> 0, cancels |-> 0, languages |-> 0, settings |-> 0, crashes |-> 0]

Spend(what, limit) ==
  /\ used[what] < limit
  /\ used' = [used EXCEPT ![what] = @ + 1]

\* The user: nothing here is ever forced to happen.
UserStep ==
  \/ HotkeyInsert /\ UNCHANGED used
  \/ HotkeyStart /\ Spend("presses", MaxPresses)
  \/ HotkeyStop /\ Spend("presses", MaxPresses)
  \/ HotkeyCancel /\ Spend("cancels", MaxCancels)
  \/ (\E l \in Language : SelectLanguage(l)) /\ Spend("languages", MaxLanguageChanges)
  \/ (\E m \in CleanupModes : SelectCleanup(m)) /\ Spend("settings", MaxSettings)
  \/ (\E d \in Device : SelectAsrDevice(d)) /\ Spend("settings", MaxSettings)
  \/ (\E d \in Device : SelectRewriteDevice(d)) /\ Spend("settings", MaxSettings)
  \/ (\E w \in Workers : SelectCurrentDevice(w)) /\ Spend("settings", MaxSettings)
  \/ CloseWindow /\ UNCHANGED used

\* The UI thread inside a call.
UiStep ==
  \/ UiToggle
  \/ UiCancel
  \/ (UiSendShutdown \/ UiCheckRunning \/ UiCloseInput \/ UiTerminate \/ UiJoin)
     /\ UNCHANGED hostVars
  \/ HostSpawnFails

\* A new process starts with fresh memory.
SpawnStep ==
  /\ HostSpawn
  /\ asr' = IF OpWorker = "asr" THEN FreshAsr(DefaultLanguage) ELSE asr
  /\ loaded' = (loaded /\ OpWorker # "rewrite")
  /\ UNCHANGED <<said, used>>

\* The main loop of the window.
LoopStep == HostTick \/ HostPoll

AsrReader ==
  /\ AsrReaderLine \/ AsrReaderReport \/ ReaderEnds("asr")
  /\ UNCHANGED hostVars

RewriteReader ==
  /\ RewriteReaderLine \/ RewriteReaderReport \/ ReaderEnds("rewrite")
  /\ UNCHANGED hostVars

AsrMain == AsrMainThread /\ UNCHANGED <<ctl, ui, hostVars, loaded, used>>
AsrFeeder == AsrFeedThread /\ UNCHANGED <<ctl, ui, hostVars, loaded, used>>
RewriteStep == RewriteWorkerStep /\ UNCHANGED <<ctl, ui, hostVars, asr, said, used>>

Crash ==
  /\ \E w \in Workers : Exit(w)
  /\ Spend("crashes", MaxCrashes)
  /\ UNCHANGED <<running, stdout, reader, device, ctl, ui, hostVars, workerVars>>

\* The controller is destroyed: nothing of it is left to run.
Terminated == ui.pc = "gone" /\ UNCHANGED vars

Next ==
  \/ UserStep /\ UNCHANGED workerVars
  \/ (UiStep \/ LoopStep \/ AsrReader \/ RewriteReader) /\ UNCHANGED <<workerVars, used>>
  \/ SpawnStep
  \/ AsrMain
  \/ AsrFeeder
  \/ RewriteStep
  \/ Crash
  \/ Terminated

Spec == Init /\ [][Next]_vars

---------------------------------------------------------------------------
TypeOK ==
  PipesTypeOK /\ ControllerTypeOK /\ HostTypeOK /\ AsrTypeOK /\ loaded \in BOOLEAN
=============================================================================
