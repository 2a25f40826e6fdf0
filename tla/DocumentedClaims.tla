-------------------------- MODULE DocumentedClaims --------------------------
(***************************************************************************)
(* Claims of the documentation, the comments and the messages of the       *)
(* program that the code, as modelled, does not keep.  Each is refuted by   *)
(* a run of its own.                                                       *)
(***************************************************************************)
EXTENDS DictationProperties

\* "Cancelling / clear buffers, hide overlay / Idle": where nothing fails, no
\* sequence of presses and settings leaves the program in its error state.
NoErrorWithoutFault == ui.pc = "idle" => ctl.mode # "Error"

\* "Finalization and language changes preserve every raw ASR segment."
LanguageChangePreservesWords ==
  \A i \in DOMAIN inserted : inserted[i].dictation \cap said \subseteq inserted[i].text

\* "Model load, generation, validation, timeout, or worker failures retain a fully
\* usable raw dictation path": a dictation whose words have been recognised does not
\* stay in Finalizing for good.
FinalTextIsOffered ==
  (ctl.mode = "Finalizing" /\ ctl.raw # {}) ~> (ctl.mode # "Finalizing" \/ Over)
=============================================================================
