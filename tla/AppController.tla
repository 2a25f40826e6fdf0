--------------------------- MODULE AppController ---------------------------
(***************************************************************************)
(* The dictation controller, src/app/app_controller.cpp.  Every public     *)
(* method and both message handlers hold mutex_ while they touch the       *)
(* state, so each is one action on the record ctl.  The methods that       *)
(* restart a worker release the mutex before they stop and start the       *)
(* process: those run as a sequence of steps of the UI thread, recorded in *)
(* ui, between which the reader threads may deliver messages.              *)
(*                                                                         *)
(* dictation stands for dictation_id_: the set of the recording sessions   *)
(* that were opened under it.                                              *)
(* Status lines, error wording, levels and the pipeline debugger are left  *)
(* out: no decision of the controller depends on them.                     *)
(***************************************************************************)
EXTENDS WorkerProcess

VARIABLES
  ctl,  \* the members of AppController behind mutex_
  ui    \* the AppController call the UI thread is in, and where

Modes == {"Starting", "Ready", "StartingRecording", "Recording",
          "Finalizing", "Complete", "Cancelling", "Error"}
CleanupModes == {"Off", "Ai"}
Operations == {"none", "launch_asr", "launch_rewrite", "asr_device",
               "rewrite_device", "cleanup_off", "cleanup_ai", "quit_asr", "quit_rewrite"}
UiPlaces == {"idle", "toggle", "cancel", "shutdown", "check", "close", "join", "spawn", "gone"}

Controller ==
  [mode : Modes, cleanup : CleanupModes, asrReady : BOOLEAN, rewriteReady : BOOLEAN,
   confirm : BOOLEAN, live : SUBSET Nat, raw : SUBSET Nat, rewritten : SUBSET Nat,
   language : Language, device : [Workers -> Device], active : Nat,
   unavailable : BOOLEAN, pending : BOOLEAN, session : Nat,
   segments : SUBSET Nat, hypothesis : SUBSET Nat, dictation : SUBSET Nat,
   lastSession : Nat, lastRequest : Nat]

ControllerTypeOK == ctl \in Controller /\ ui \in [pc : UiPlaces, op : Operations]

\* start(): the state after its first locked section.
ControllerInit(cleanup) ==
  [mode |-> "Starting", cleanup |-> cleanup, asrReady |-> FALSE, rewriteReady |-> FALSE,
   confirm |-> FALSE, live |-> {}, raw |-> {}, rewritten |-> {},
   language |-> DefaultLanguage, device |-> [w \in Workers |-> "cpu"], active |-> NoRequest,
   unavailable |-> FALSE, pending |-> FALSE, session |-> NoSession,
   segments |-> {}, hypothesis |-> {}, dictation |-> {},
   lastSession |-> 0, lastRequest |-> 0]

---------------------------------------------------------------------------
(* Helpers of the handlers: each is the controller state a _locked() helper *)
(* leaves, given the state it finds.                                        *)

Become(s) == ctl' = s /\ UNCHANGED stdin

\* A send that ends a handler: the command is queued and the controller is in
\* state s, or the send fails and the controller is left in state failed.
Send(w, command, s, failed) ==
  IF Accepts(w)
    THEN ctl' = s /\ stdin' = [stdin EXCEPT ![w] = Append(@, command)]
    ELSE Become(failed)

ToAsr(type, s) == [type |-> type, session |-> s.session, language |-> s.language]

\* Mutant: a mode the enumeration does not have.
SetErrorUnknownMode(s) == [s EXCEPT !.mode = "Failed"]

SetError(s) == [s EXCEPT !.mode = "Error"]

ClearActiveRewrite(s) == [s EXCEPT !.active = NoRequest]

RawText(s) == s.segments \cup s.hypothesis

RefreshTranscript(s) == [s EXCEPT !.live = RawText(s)]

\* Mutant: the finished segments survive into the next dictation.
ResetTranscriptKeepsSegments(s) == [s EXCEPT !.hypothesis = {}]

ResetTranscript(s) == [s EXCEPT !.segments = {}, !.hypothesis = {}]

UpdateReadyState(s) ==
  IF s.asrReady /\ s.mode = "Starting" THEN [s EXCEPT !.mode = "Ready"] ELSE s

CompleteWithRawFallback(s) ==
  [s EXCEPT !.rewritten = s.raw, !.live = s.raw, !.confirm = TRUE, !.mode = "Complete"]

\* What cancelling and discarding have in common.
ClearTexts(s) ==
  [ClearActiveRewrite(ResetTranscript(s)) EXCEPT
     !.live = {}, !.raw = {}, !.rewritten = {}, !.confirm = FALSE]

DispatchFinalCleanup(s) ==
  LET id == s.lastRequest + 1
      t == [s EXCEPT !.lastRequest = id, !.active = id]
      dead == [ClearActiveRewrite(t) EXCEPT
                 !.unavailable = @ \/ ~running["rewrite"],
                 !.rewriteReady = @ /\ running["rewrite"]]
  IN IF s.active # NoRequest \/ ~s.rewriteReady \/ s.cleanup # "Ai" \/ s.raw = {}
       THEN Become(s)
       ELSE Send("rewrite", [type |-> "rewrite", request |-> id, text |-> s.raw],
                 t, CompleteWithRawFallback(dead))

FinishDictation(s) ==
  LET t == ClearActiveRewrite(s)
      ai == [t EXCEPT !.confirm = TRUE]
  IN CASE t.cleanup = "Ai" /\ t.unavailable -> Become(CompleteWithRawFallback(ai))
       [] t.cleanup = "Ai" /\ ~t.unavailable /\ t.rewriteReady -> DispatchFinalCleanup(ai)
       [] t.cleanup = "Ai" /\ ~t.unavailable /\ ~t.rewriteReady -> Become(ai)
       [] t.cleanup = "Off" ->
            Become([t EXCEPT !.rewritten = t.raw, !.live = t.raw,
                             !.confirm = FALSE, !.mode = "Complete"])

\* start_recording_locked(false): a new audio session in the same dictation.
StartSession(s) ==
  LET id == s.lastSession + 1
      t == [s EXCEPT !.hypothesis = {}, !.session = id, !.lastSession = id,
                     !.dictation = @ \cup {id}, !.mode = "StartingRecording"]
  IN Send("asr", ToAsr("start", t), t, SetError([t EXCEPT !.pending = FALSE]))

\* start_recording_locked(true): a new dictation.
StartDictation(s) ==
  StartSession([ClearTexts(s) EXCEPT !.dictation = {}, !.pending = FALSE])

\* Mutant: a language chosen while the microphone opens is forgotten.
StopForLanguageChangeForgets(s) ==
  LET f == [s EXCEPT !.pending = TRUE, !.mode = "Finalizing"]
  IN IF s.mode = "Recording"
       THEN Send("asr", ToAsr("stop", f), f, SetError([f EXCEPT !.pending = FALSE]))
       ELSE Become(s)

StopForLanguageChange(s) ==
  LET t == [s EXCEPT !.pending = TRUE]
      f == [t EXCEPT !.mode = "Finalizing"]
  IN IF t.mode = "Recording"
       THEN Send("asr", ToAsr("stop", f), f, SetError([f EXCEPT !.pending = FALSE]))
       ELSE Become(t)

---------------------------------------------------------------------------
(* Which controls the snapshot allows.                                     *)

CanCancel == \/ ctl.mode \in {"Recording", "StartingRecording"}
             \/ ctl.mode = "Complete" /\ ctl.confirm
CanSetLanguage == ctl.mode # "Cancelling"
CanSetCleanupMode == ctl.mode \in {"Starting", "Ready", "Complete", "Error"}
CanSetComputeDevice == CanSetCleanupMode

---------------------------------------------------------------------------
(* Calls of the UI thread.                                                 *)

UiIdle == [pc |-> "idle", op |-> "none"]

ToggleRecording ==
  CASE ctl.mode \in {"Ready", "Complete"} -> StartDictation(ctl)
    [] ctl.mode = "Recording" ->
         LET f == [ctl EXCEPT !.mode = "Finalizing"]
         IN Send("asr", ToAsr("stop", f), f, SetError(f))
    [] OTHER -> Become(ctl)

\* Mutant: a recording that is only starting is cancelled without the worker.
CancelRecordingUnsent ==
  CASE ctl.mode = "StartingRecording" ->
         Become([ClearTexts(ctl) EXCEPT !.mode = "Ready", !.session = NoSession])
    [] ctl.mode = "Recording" ->
         LET c == [ctl EXCEPT !.mode = "Cancelling"]
         IN Send("asr", ToAsr("cancel", c), c, SetError(c))
    [] OTHER -> Become(ctl)

CancelRecording ==
  CASE ctl.mode = "Complete" /\ ctl.confirm ->
         Become([ClearTexts(ctl) EXCEPT !.mode = "Ready", !.session = NoSession,
                                        !.dictation = {}])
    [] ctl.mode \in {"Recording", "StartingRecording"} ->
         LET c == [ctl EXCEPT !.mode = "Cancelling"]
         IN Send("asr", ToAsr("cancel", c), c, SetError(c))
    [] OTHER -> Become(ctl)

SetLanguage(language) ==
  LET s == [ctl EXCEPT !.language = language]
  IN /\ CanSetLanguage
     /\ language # ctl.language
     /\ IF s.mode \in {"Recording", "StartingRecording"}
          THEN StopForLanguageChange(s)
          ELSE Become(s)

\* Mutant: switching cleanup off leaves its worker alone.
SetCleanupModeKeepsWorker(mode) ==
  /\ CanSetCleanupMode
  /\ mode # ctl.cleanup
  /\ Become([ClearActiveRewrite(ctl) EXCEPT !.cleanup = mode, !.unavailable = FALSE])
  /\ ui' = IF mode = "Off" THEN ui ELSE [pc |-> "check", op |-> "cleanup_ai"]

\* The locked section of set_cleanup_mode(); the process work follows in ui.
SetCleanupMode(mode) ==
  /\ CanSetCleanupMode
  /\ mode # ctl.cleanup
  /\ Become([ClearActiveRewrite(ctl) EXCEPT
               !.cleanup = mode, !.unavailable = FALSE,
               !.rewriteReady = @ /\ mode # "Off"])
  /\ ui' = IF mode = "Off" THEN [pc |-> "shutdown", op |-> "cleanup_off"]
                           ELSE [pc |-> "check", op |-> "cleanup_ai"]

SetAsrDevice(d) ==
  /\ CanSetComputeDevice
  /\ d # ctl.device["asr"]
  /\ Become([ctl EXCEPT !.device["asr"] = d, !.asrReady = FALSE, !.mode = "Starting"])
  /\ ui' = [pc |-> "shutdown", op |-> "asr_device"]

SetRewriteDevice(d) ==
  LET s == [ctl EXCEPT !.device["rewrite"] = d]
  IN /\ CanSetComputeDevice
     /\ d # ctl.device["rewrite"]
     /\ IF s.cleanup = "Ai"
          THEN /\ Become([ClearActiveRewrite(s) EXCEPT
                            !.rewriteReady = FALSE, !.unavailable = FALSE])
               /\ ui' = [pc |-> "shutdown", op |-> "rewrite_device"]
          ELSE Become(s) /\ UNCHANGED ui

\* Mutant: the request is forgotten and the dictation is not completed.
TickOnlyForgets ==
  /\ ctl.active # NoRequest
  /\ Become(ClearActiveRewrite(ctl))

\* tick(): 35 seconds after it was dispatched, a cleanup request is given up.
Tick ==
  /\ ctl.active # NoRequest
  /\ Become(CompleteWithRawFallback(ClearActiveRewrite(ctl)))

---------------------------------------------------------------------------
(* The unlocked half of the calls that stop or start a worker.             *)

OpWorker ==
  IF ui.op \in {"launch_asr", "asr_device", "quit_asr"} THEN "asr" ELSE "rewrite"

\* ~AppController(): both workers are asked to shut down, then both are stopped.
Quit ==
  /\ ui' = [pc |-> "shutdown", op |-> "quit_asr"]
  /\ UNCHANGED <<pipes, ctl>>

\* The worker is asked to shut down; a failed send is ignored.
UiSendShutdown ==
  /\ ui.pc = "shutdown"
  /\ Send(OpWorker, ShutdownCommand(OpWorker), ctl, ctl)
  /\ ui' = CASE ui.op = "quit_asr" -> [ui EXCEPT !.op = "quit_rewrite"]
             [] ui.op = "quit_rewrite" -> [pc |-> "close", op |-> "quit_asr"]
             [] OTHER -> [ui EXCEPT !.pc = "close"]
  /\ UNCHANGED <<proc, running, stdout, reader, device>>

\* set_cleanup_mode(Ai) restarts only a worker that is not running.
UiCheckRunning ==
  /\ ui.pc = "check"
  /\ ui' = IF running["rewrite"] THEN UiIdle ELSE [ui EXCEPT !.pc = "close"]
  /\ UNCHANGED <<pipes, ctl>>

UiCloseInput ==
  /\ ui.pc = "close"
  /\ CloseInput(OpWorker)
  /\ ui' = [ui EXCEPT !.pc = "join"]
  /\ UNCHANGED ctl

\* After one second stop() no longer waits for the process to end by itself.
UiTerminate ==
  /\ ui.pc = "join"
  /\ Exit(OpWorker)
  /\ UNCHANGED <<running, stdout, reader, device, ctl, ui>>

\* Mutant: the destructor stops the first worker over and over.
UiJoinAgain ==
  /\ ui.pc = "join"
  /\ Join(OpWorker)
  /\ ui' = CASE ui.op = "cleanup_off" -> UiIdle
             [] ui.op = "quit_asr" -> [ui EXCEPT !.pc = "close"]
             [] ui.op = "quit_rewrite" -> [ui EXCEPT !.pc = "gone"]
             [] OTHER -> [ui EXCEPT !.pc = "spawn"]
  /\ UNCHANGED ctl

UiJoin ==
  /\ ui.pc = "join"
  /\ Join(OpWorker)
  /\ ui' = CASE ui.op = "cleanup_off" -> UiIdle
             [] ui.op = "quit_asr" -> [pc |-> "close", op |-> "quit_rewrite"]
             [] ui.op = "quit_rewrite" -> [ui EXCEPT !.pc = "gone"]
             [] OTHER -> [ui EXCEPT !.pc = "spawn"]
  /\ UNCHANGED ctl

UiSpawn ==
  /\ ui.pc = "spawn"
  /\ Spawn(OpWorker, ctl.device[OpWorker])
  /\ ui' = IF ui.op = "launch_asr" /\ ctl.cleanup = "Ai"
             THEN [ui EXCEPT !.op = "launch_rewrite"] ELSE UiIdle
  /\ UNCHANGED ctl

\* The executable cannot be started.
UiSpawnFails ==
  /\ ui.pc = "spawn"
  /\ "spawn" \in Faults
  /\ ctl' = CASE OpWorker = "asr" -> SetError(ctl)
              [] ui.op = "rewrite_device" -> [ctl EXCEPT !.unavailable = TRUE]
              [] OTHER -> [ctl EXCEPT !.unavailable = TRUE, !.rewriteReady = FALSE]
  /\ ui' = UiIdle
  /\ UNCHANGED pipes

---------------------------------------------------------------------------
(* handle_asr_message(), on the ASR reader thread.                         *)

AsrReady(m) ==
  /\ m.type = "ready"
  /\ Become(UpdateReadyState([ctl EXCEPT !.asrReady = TRUE]))

RecordingStarted(m) ==
  /\ m.type = "recording_started"
  /\ LET s == [ctl EXCEPT !.mode = "Recording"]
     IN CASE m.session # ctl.session -> Become(ctl)
          [] m.session = ctl.session /\ ctl.pending -> StopForLanguageChange(s)
          [] m.session = ctl.session /\ ~ctl.pending -> Become(s)

TranscriptUpdate(m) ==
  /\ m.type = "transcript_update"
  /\ Become(IF m.session # ctl.session THEN ctl
            ELSE RefreshTranscript([ctl EXCEPT !.hypothesis = m.text]))

\* Mutant: a final transcript replaces the segments before it.
RecordingFinalizedReplaces(m) ==
  /\ m.type = "recording_finalized"
  /\ LET t == [ctl EXCEPT !.segments = m.text, !.hypothesis = {}]
         s == RefreshTranscript([t EXCEPT !.raw = RawText(t)])
     IN CASE m.session # ctl.session -> Become(ctl)
          [] m.session = ctl.session /\ s.pending ->
               StartSession([s EXCEPT !.pending = FALSE])
          [] m.session = ctl.session /\ ~s.pending -> FinishDictation(s)

\* Mutant: no recording follows the one a language change stopped.
RecordingFinalizedNoRestart(m) ==
  /\ m.type = "recording_finalized"
  /\ LET t == [ctl EXCEPT !.segments = @ \cup m.text, !.hypothesis = {}]
         s == RefreshTranscript([t EXCEPT !.raw = RawText(t)])
     IN CASE m.session # ctl.session -> Become(ctl)
          [] m.session = ctl.session /\ s.pending -> Become([s EXCEPT !.pending = FALSE])
          [] m.session = ctl.session /\ ~s.pending -> FinishDictation(s)

RecordingFinalized(m) ==
  /\ m.type = "recording_finalized"
  /\ LET t == [ctl EXCEPT !.segments = @ \cup m.text, !.hypothesis = {}]
         s == RefreshTranscript([t EXCEPT !.raw = RawText(t)])
     IN CASE m.session # ctl.session -> Become(ctl)
          [] m.session = ctl.session /\ s.pending ->
               StartSession([s EXCEPT !.pending = FALSE])
          [] m.session = ctl.session /\ ~s.pending /\ s.raw = {} ->
               Become([ClearActiveRewrite(s) EXCEPT !.mode = "Complete"])
          [] m.session = ctl.session /\ ~s.pending /\ s.raw # {} -> FinishDictation(s)

RecordingCancelled(m) ==
  /\ m.type = "recording_cancelled"
  /\ Become([ClearTexts(ctl) EXCEPT !.mode = "Ready", !.pending = FALSE,
                                    !.session = NoSession, !.dictation = {}])

\* Mutant: a missing microphone ends the session and not the mode.
AsrErrorKeepsMode(m) ==
  /\ m.type = "error"
  /\ Become(IF m.code = "MICROPHONE_UNAVAILABLE"
              THEN [ctl EXCEPT !.session = NoSession] ELSE SetError(ctl))

AsrError(m) ==
  /\ m.type = "error"
  /\ Become(IF m.code = "MICROPHONE_UNAVAILABLE"
              THEN [ctl EXCEPT !.mode = "Ready", !.session = NoSession]
              ELSE SetError(ctl))

HandleAsrMessage(m) ==
  \/ AsrReady(m)
  \/ RecordingStarted(m)
  \/ TranscriptUpdate(m)
  \/ RecordingFinalized(m)
  \/ RecordingCancelled(m)
  \/ AsrError(m)

---------------------------------------------------------------------------
(* handle_rewrite_message(), on the rewrite reader thread.                 *)

\* Mutant: a dictation that waits for the model to load is not sent to it.
RewriteReadyForgets(m) ==
  /\ m.type = "ready"
  /\ Become([ctl EXCEPT !.unavailable = FALSE, !.rewriteReady = TRUE])

RewriteReady(m) ==
  /\ m.type = "ready"
  /\ LET s == [ctl EXCEPT !.unavailable = FALSE, !.rewriteReady = TRUE]
     IN IF s.mode = "Finalizing" /\ s.raw # {} /\ s.active = NoRequest
          THEN DispatchFinalCleanup(s) ELSE Become(s)

\* Mutant: any answer is taken for the answer to the active request.
RewriteCompletedUnchecked(m) ==
  /\ m.type = "rewrite_completed"
  /\ Become(IF ctl.active = NoRequest THEN ctl
              ELSE [ClearActiveRewrite(ctl) EXCEPT
                      !.rewritten = m.text, !.live = m.text,
                      !.confirm = TRUE, !.mode = "Complete"])

RewriteCompleted(m) ==
  /\ m.type = "rewrite_completed"
  /\ LET s == ClearActiveRewrite(ctl)
     IN Become(IF ctl.active = NoRequest \/ m.request # ctl.active THEN ctl
               ELSE IF m.text = {} THEN CompleteWithRawFallback(s)
               ELSE [s EXCEPT !.rewritten = m.text, !.live = m.text,
                              !.confirm = TRUE, !.mode = "Complete"])

FatalCodes == {"WORKER_EXITED", "MODEL_LOAD_FAILED"}

RewriteError(m) ==
  /\ m.type = "error"
  /\ LET fatal == m.code \in FatalCodes
         s == [ClearActiveRewrite(ctl) EXCEPT
                 !.unavailable = @ \/ fatal, !.rewriteReady = @ /\ ~fatal]
     IN Become(IF s.mode = "Finalizing" /\ s.raw # {}
                 THEN CompleteWithRawFallback(s) ELSE s)

HandleRewriteMessage(m) ==
  IF ctl.cleanup # "Ai" THEN Become(ctl)
  ELSE RewriteReady(m) \/ RewriteCompleted(m) \/ RewriteError(m)

---------------------------------------------------------------------------
(* The reader threads: read_loop() with the controller's handlers.         *)

AsrReaderLine ==
  /\ NextLine("asr")
  /\ HandleAsrMessage(Head(stdout["asr"]))
  /\ UNCHANGED ui

RewriteReaderLine ==
  /\ NextLine("rewrite")
  /\ HandleRewriteMessage(Head(stdout["rewrite"]))
  /\ UNCHANGED ui

AsrReaderReport ==
  /\ LastReport("asr")
  /\ HandleAsrMessage(AsrFailure("WORKER_EXITED", NoSession))
  /\ UNCHANGED ui

RewriteReaderReport ==
  /\ LastReport("rewrite")
  /\ HandleRewriteMessage(RewriteFailure("WORKER_EXITED", NoRequest))
  /\ UNCHANGED ui

ReaderEnds(w) == ReaderEof(w) /\ UNCHANGED <<ctl, ui>>
=============================================================================
