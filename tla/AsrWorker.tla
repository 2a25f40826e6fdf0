----------------------------- MODULE AsrWorker -----------------------------
(***************************************************************************)
(* The speech worker process at the granularity of its protocol:           *)
(* src/workers/asr/main.cpp and RuntimeController in                       *)
(* runtime_controller.cpp.  Commands are handled one at a time by the      *)
(* main thread; what the feed thread adds is a partial transcript or a     *)
(* failure while a recording runs.  stop() joins that thread before it     *)
(* emits its result, so a command is one action.  Acknowledgements, hello, *)
(* loading_model, warnings and levels change nothing in the controller and *)
(* are left out.  The speech engine is external: it may fail where the     *)
(* code checks it, and recognises a session's words or nothing.            *)
(***************************************************************************)
EXTENDS WorkerProcess

VARIABLES
  asr,   \* the members of RuntimeController
  said   \* history: the sessions whose final transcript held words

AsrStates == {"Loading", "Ready", "Recording"}

AsrMemory == [state : AsrStates, session : Nat, language : Language,
              capturing : BOOLEAN, transcript : SUBSET Nat]

AsrTypeOK == asr \in AsrMemory /\ said \in SUBSET Nat

\* A process that has just been started, in language l for want of any.
FreshAsr(l) == [state |-> "Loading", session |-> 0, language |-> l,
                capturing |-> FALSE, transcript |-> {}]

\* emit(): events are appended to the output pipe in order.
EmitAsr(events) ==
  /\ stdout' = [stdout EXCEPT !["asr"] = @ \o events]
  /\ UNCHANGED <<running, reader, device>>

AsrAlive == proc["asr"] = "alive"

\* getline() yields the next command, of one of the given types.
ReadCommand(types) ==
  /\ AsrAlive
  /\ asr.state # "Loading"
  /\ stdin["asr"] # <<>>
  /\ Head(stdin["asr"]).type \in types
  /\ stdin' = [stdin EXCEPT !["asr"] = Tail(@)]
  /\ UNCHANGED proc

Command == Head(stdin["asr"])

AsrLoadModel ==
  /\ AsrAlive
  /\ asr.state = "Loading"
  /\ asr' = [asr EXCEPT !.state = "Ready"]
  /\ EmitAsr(<<AsrMessage("ready", 0, {})>>)
  /\ UNCHANGED <<proc, stdin, said>>

AsrLoadFails ==
  /\ "asr_load" \in Faults
  /\ AsrAlive
  /\ asr.state = "Loading"
  /\ Exit("asr")
  /\ EmitAsr(<<AsrFailure("MODEL_LOAD_FAILED", 0)>>)
  /\ UNCHANGED <<asr, said>>

AsrStart ==
  /\ ReadCommand({"start"})
  /\ asr.state = "Ready"
  /\ asr' = [state |-> "Recording", session |-> Command.session,
             language |-> Command.language, capturing |-> TRUE, transcript |-> {}]
  /\ EmitAsr(<<AsrMessage("recording_started", Command.session, {})>>)
  /\ UNCHANGED said

\* The engine or the microphone refuses: the worker stays ready.
AsrStartFails ==
  /\ ReadCommand({"start"})
  /\ asr.state = "Ready"
  /\ \/ /\ "engine" \in Faults
        /\ EmitAsr(<<AsrFailure("TRANSCRIPTION_FAILED", Command.session)>>)
     \/ /\ "microphone" \in Faults
        /\ EmitAsr(<<AsrFailure("MICROPHONE_UNAVAILABLE", Command.session)>>)
  /\ UNCHANGED <<asr, said>>

\* A command the state does not allow, or one for another session.
AsrRejects ==
  /\ ReadCommand({"start", "stop", "cancel"})
  /\ \/ Command.type = "start" /\ asr.state # "Ready"
     \/ Command.type # "start" /\ (asr.state # "Recording" \/ asr.session # Command.session)
  /\ EmitAsr(<<AsrFailure("INVALID_STATE", Command.session)>>)
  /\ UNCHANGED <<asr, said>>

\* The feed thread shows the first words it recognised.
AsrFeed ==
  /\ AsrAlive
  /\ asr.state = "Recording"
  /\ asr.capturing
  /\ asr.transcript = {}
  /\ asr' = [asr EXCEPT !.transcript = {asr.session}]
  /\ EmitAsr(<<AsrMessage("transcript_update", asr.session, {asr.session})>>)
  /\ UNCHANGED <<proc, stdin, said>>

\* A feed error stops the capture; the recording state is left as it is.
AsrFeedFails ==
  /\ "engine" \in Faults
  /\ AsrAlive
  /\ asr.state = "Recording"
  /\ asr.capturing
  /\ asr' = [asr EXCEPT !.capturing = FALSE]
  /\ EmitAsr(<<AsrFailure("TRANSCRIPTION_FAILED", asr.session)>>)
  /\ UNCHANGED <<proc, stdin, said>>

AsrBackToReady ==
  asr' = [asr EXCEPT !.state = "Ready", !.session = 0, !.capturing = FALSE]

Matches(types) ==
  /\ ReadCommand(types)
  /\ asr.state = "Recording"
  /\ asr.session = Command.session

\* stop: the engine's last result may revise the transcript once more.
AsrStop ==
  /\ Matches({"stop"})
  /\ \E text \in {{}, {asr.session}} :
       /\ EmitAsr((IF text = asr.transcript THEN <<>>
                   ELSE <<AsrMessage("transcript_update", asr.session, text)>>)
                  \o <<AsrMessage("recording_finalized", asr.session, text)>>)
       /\ said' = said \cup text
  /\ AsrBackToReady

AsrStopFails ==
  /\ "engine" \in Faults
  /\ Matches({"stop"})
  /\ EmitAsr(<<AsrFailure("TRANSCRIPTION_FAILED", asr.session)>>)
  /\ AsrBackToReady
  /\ UNCHANGED said

AsrCancel ==
  /\ Matches({"cancel"})
  /\ EmitAsr(<<AsrMessage("recording_cancelled", asr.session, {})>>)
  /\ AsrBackToReady
  /\ UNCHANGED said

\* A shutdown command, or end of file on standard input, ends the process.
AsrQuit ==
  /\ asr.state # "Loading"
  /\ Exit("asr")
  /\ \/ stdin["asr"] # <<>> /\ Command.type = "shutdown"
     \/ InputClosed("asr")
  /\ UNCHANGED <<running, stdout, reader, device, asr, said>>

AsrMainThread ==
  \/ AsrLoadModel \/ AsrLoadFails \/ AsrStart \/ AsrStartFails \/ AsrRejects
  \/ AsrStop \/ AsrStopFails \/ AsrCancel \/ AsrQuit

AsrFeedThread == AsrFeed \/ AsrFeedFails
=============================================================================
