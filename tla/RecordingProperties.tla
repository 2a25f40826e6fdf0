------------------------ MODULE RecordingProperties ------------------------
(***************************************************************************)
(* What the threads of a recording owe each other.                         *)
(***************************************************************************)
EXTENDS AsrRuntime

(***************************************************************************)
(* Safety: the engine hears this recording's samples only, each once and   *)
(* in the order they were spoken, whatever an earlier recording left in    *)
(* the ring (RuntimeController::start() and worker_loop()).                *)
(***************************************************************************)
HeardInOrder ==
  \A k \in 1..Len(session.heard) :
    session.heard[k] >= IF k = 1 THEN session.first ELSE session.heard[k - 1] + 1

(***************************************************************************)
(* Safety: a finalized recording was fed every sample the ring held when   *)
(* stop() ended the capture (the feed thread drains it before it ends).    *)
(***************************************************************************)
StopDrains ==
  session.result = "finalized" /\ ~feed.failed => Len(session.heard) >= session.promised

(***************************************************************************)
(* Safety: every sample handed to push() is read, waiting or counted as    *)
(* dropped (AudioRingBuffer, with dropped_samples() the only witness).     *)
(***************************************************************************)
SamplesAccountedFor ==
  push.pc = "idle" => session.pushed = Len(taken) + Available + dropped

(***************************************************************************)
(* Safety: when the worker takes commands in the ready state, the threads  *)
(* of the last recording are joined, its device is closed and nobody is    *)
(* inside the ring: start() may assign the threads and clear the ring.     *)
(***************************************************************************)
ReadyIsQuiet ==
  Reading /\ main.state = "Ready" =>
    /\ feed.pc = "none" /\ meter = "none"
    /\ ~capture.running /\ capture.device = "closed"
    /\ push.pc = "idle" /\ pop.pc = "idle"

(***************************************************************************)
(* Safety: no level, transcript or warning of a recording follows its      *)
(* result (stop() joins both threads before it emits the result).          *)
(***************************************************************************)
NothingAfterResult ==
  [][last' # last /\ last'.type \in {"audio_level", "transcript_update", "warning"}
       => session.result = "none"]_vars

(***************************************************************************)
(* Liveness: every stop, cancel and shutdown comes to its end: the joins   *)
(* and the two threads in AudioCapture::stop() never wait for each other.  *)
(***************************************************************************)
CommandsAnswered == (main.pc # "read") ~> (main.pc = "read" \/ ~Alive)
=============================================================================
