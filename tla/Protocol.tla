------------------------------ MODULE Protocol ------------------------------
(***************************************************************************)
(* The messages of the JSONL protocol between the controller and its       *)
(* workers, as the senders build them and as the receivers read them       *)
(* (src/protocol/jsonl_protocol.cpp frames them).  Text is abstracted to   *)
(* the set of recording sessions whose words it holds: {} is the empty     *)
(* string, and the text of a dictation that spans a language change is a   *)
(* set of several sessions.  Identifiers that next_id_locked() makes       *)
(* unique are numbers, and 0 is a field that is absent or empty.           *)
(***************************************************************************)
EXTENDS Naturals, Sequences

CONSTANT Language, DefaultLanguage

ASSUME LanguageAssumption == DefaultLanguage \in Language

Workers == {"asr", "rewrite"}

Device == {"cpu", "gpu"}

NoSession == 0
NoRequest == 0

ErrorCode == {"", "INVALID_STATE", "TRANSCRIPTION_FAILED", "MICROPHONE_UNAVAILABLE",
              "MODEL_LOAD_FAILED", "REWRITE_FAILED", "WORKER_EXITED"}

AsrCommand == [type : {"start", "stop", "cancel", "shutdown"},
               session : Nat, language : Language]
RewriteCommand == [type : {"rewrite", "shutdown"}, request : Nat, text : SUBSET Nat]

AsrEvent == [type : {"ready", "recording_started", "transcript_update",
                     "recording_finalized", "recording_cancelled", "error"},
             session : Nat, text : SUBSET Nat, code : ErrorCode]
RewriteEvent == [type : {"ready", "rewrite_completed", "error"},
                 request : Nat, text : SUBSET Nat, code : ErrorCode]

ShutdownCommand(w) ==
  IF w = "asr" THEN [type |-> "shutdown", session |-> NoSession, language |-> DefaultLanguage]
               ELSE [type |-> "shutdown", request |-> NoRequest, text |-> {}]

AsrMessage(type, session, text) ==
  [type |-> type, session |-> session, text |-> text, code |-> ""]
AsrFailure(code, session) ==
  [type |-> "error", session |-> session, text |-> {}, code |-> code]

RewriteMessage(type, request, text) ==
  [type |-> type, request |-> request, text |-> text, code |-> ""]
RewriteFailure(code, request) ==
  [type |-> "error", request |-> request, text |-> {}, code |-> code]
=============================================================================
