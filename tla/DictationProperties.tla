------------------------ MODULE DictationProperties ------------------------
(***************************************************************************)
(* What makes the voice keyboard correct, stated over the whole system.    *)
(***************************************************************************)
EXTENDS DictationSystem

Promise == INSTANCE DictationPromise

\* The user's words: a dictation is inserted at most once, whole, with no
\* words of another dictation, and never after it was cancelled.  Relates the
\* insertion in ToggleDictation() and the main loop to every transcript,
\* cancellation and cleanup answer that went before.
KeepsPromise == Promise!Spec

\* The same for a program started without AI cleanup, where a language change
\* never gives up words: recording_finalized keeps every segment of a dictation.
RawKeepsPromise == [][ctl.cleanup = "Off" => Promise!Next]_<<said, cancelled, inserted>>

\* Whatever goes wrong, no word of one dictation is inserted in another: the
\* stale-session and stale-request checks of both handlers.
OnlyOwnWords ==
  \A i \in DOMAIN inserted : inserted[i].text \subseteq inserted[i].dictation

AsrQuiet ==
  stdin["asr"] = <<>> /\ stdout["asr"] = <<>> /\ reader["asr"] # "reporting"

\* Once every message between controller and speech worker has been handled,
\* the microphone is open only for the recording the window shows.
MicrophoneMatchesMode ==
  (AsrQuiet /\ running["asr"] /\ proc["asr"] = "alive" /\ asr.capturing)
    => ctl.mode = "Recording" /\ ctl.session = asr.session

\* The text offered for review is the cleanup, or the raw form, of everything
\* that was recognised: no answer to another request was accepted.
ReviewedCoversRaw ==
  (ctl.mode = "Complete" /\ ctl.confirm) => ctl.rewritten = ctl.raw

\* A recording runs in the language the window shows, whatever was selected
\* while it was starting: stop_for_language_change_locked() and the restart in
\* recording_finalized.
RecordingLanguage ==
  (AsrQuiet /\ running["asr"] /\ ctl.mode = "Recording") => asr.language = ctl.language

\* Without AI cleanup a language change leaves the window and the recording in
\* agreement, on the language and on whether the microphone is open.
RawRecordsAsShown ==
  ctl.cleanup = "Off" => RecordingLanguage /\ MicrophoneMatchesMode

\* Switching cleanup off really ends the process that holds the model.
CleanupOffStopsWorker ==
  (ctl.cleanup = "Off" /\ ui.pc = "idle") => proc["rewrite"] = "none"

\* A worker is started over, and the controller destroyed, only when the
\* process and the reader thread of the earlier start are gone: assigning to a
\* joinable reader_, or a handler that outlives its controller, ends the program.
ReadersJoined ==
  /\ ui.pc = "spawn" =>
       ~running[OpWorker] /\ proc[OpWorker] = "none" /\ reader[OpWorker] = "none"
  /\ ui.pc = "gone" => \A w \in Workers : proc[w] = "none" /\ reader[w] = "none"

---------------------------------------------------------------------------
(* Who is going to move the controller on when it waits.                   *)

WillReport(w) ==
  \/ reader[w] = "reporting"
  \/ /\ reader[w] = "reading"
     /\ stdout[w] # <<>> \/ (proc[w] = "exited" /\ running[w])

AsrWillReport ==
  \/ WillReport("asr")
  \/ /\ proc["asr"] = "alive" /\ reader["asr"] = "reading"
     /\ asr.state = "Loading" \/ stdin["asr"] # <<>>

CleanupWillReport ==
  /\ ctl.cleanup = "Ai" /\ ctl.raw # {}
  /\ \/ WillReport("rewrite")
     \/ proc["rewrite"] = "alive" /\ reader["rewrite"] = "reading" /\ ~loaded

\* The controller never waits for something that cannot come any more: in each
\* of its waiting modes a worker still has a message to send, or a timer runs.
NeverStranded ==
  ui.pc \in {"idle", "toggle", "cancel"} =>
    /\ ctl.mode \in {"Starting", "StartingRecording", "Cancelling"} => AsrWillReport
    /\ ctl.mode = "Finalizing" =>
         AsrWillReport \/ ctl.active # NoRequest \/ CleanupWillReport

---------------------------------------------------------------------------
(* Liveness.  The threads of the program and the workers run; the user     *)
(* never has to act, and nothing has to fail.                              *)

\* The operating system schedules every thread, the main loop turns, timers
\* expire, and the speech engine returns from every call.
Fairness ==
  /\ WF_vars(UiStep /\ UNCHANGED <<workerVars, used>>)
  /\ WF_vars(SpawnStep)
  /\ WF_vars(HostTick /\ UNCHANGED <<workerVars, used>>)
  /\ WF_vars(HostPoll /\ UNCHANGED <<workerVars, used>>)
  /\ WF_vars(AsrReader /\ UNCHANGED <<workerVars, used>>)
  /\ WF_vars(RewriteReader /\ UNCHANGED <<workerVars, used>>)
  /\ WF_vars(AsrMain)

\* The cleanup model loads, or fails to; it need not answer.
CleanupLoads ==
  WF_vars((RewriteLoadModel \/ RewriteLoadFails)
          /\ UNCHANGED <<ctl, ui, hostVars, asr, said, used>>)

LiveSpec == Spec /\ Fairness /\ CleanupLoads

Over == ui.pc = "gone"

\* Every call the UI thread makes into the controller returns: stop() joins a
\* reader thread whose handler takes the controller's mutex, and waits for a
\* process that may not listen.
CallsReturn == ui.pc \notin {"idle", "gone"} ~> ui.pc \in {"idle", "gone"}

\* A dictation that is starting or being cancelled is answered by the worker.
StartsAndCancelsSettle ==
  \A m \in {"Starting", "StartingRecording", "Cancelling"} :
    ctl.mode = m ~> (ctl.mode # m \/ Over)

\* Finalizing ends, whether or not the cleanup worker ever answers: tick()
\* gives a request up, and the reader reports a worker that died.
FinalizingEnds == ctl.mode = "Finalizing" ~> (ctl.mode # "Finalizing" \/ Over)
=============================================================================
