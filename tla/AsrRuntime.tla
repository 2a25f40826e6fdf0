---------------------------- MODULE AsrRuntime -----------------------------
(***************************************************************************)
(* The inside of a recording in the speech worker: RuntimeController of    *)
(* workers/asr/runtime_controller.cpp with its main, feed and meter        *)
(* threads, AudioCapture with the callback of the capture device, and the  *)
(* use the threads make of the speech engine's one stream.  AsrWorker sees *)
(* the same process from outside, with a command as one step.              *)
(*                                                                         *)
(* Samples are numbered in the order the microphone delivers them.  What   *)
(* the engine makes of them, levels and texts are left out.  The device is *)
(* external: its callback may run whenever it is started, and stopping it  *)
(* waits for a callback in progress.                                       *)
(***************************************************************************)
EXTENDS AudioRing

CONSTANTS
  BlockSize,     \* block.size() of worker_loop(), 1600 in the code
  Frames,        \* frame counts a callback may deliver
  Failures,      \* of "engine", "microphone"
  MaxSamples,    \* bounds what the microphone delivers
  MaxSessions    \* bounds the start commands

ASSUME RuntimeAssumption ==
  /\ BlockSize \in Nat \ {0}
  /\ Frames \subseteq Nat \ {0}
  /\ MaxSamples \in Nat /\ MaxSessions \in Nat

VARIABLES
  main,      \* main thread: where it is, state_, session_id_, the command
  capture,   \* AudioCapture: running_, initialized_ and its device
  stopper,   \* where a thread is inside capture_.stop()
  feed,      \* worker_: where the thread is, its locals
  meter,     \* meter_: where the thread is
  stream,    \* the engine's stream_ is open
  last,      \* the last event written to standard output
  captured,  \* history: samples delivered so far
  session    \* history of the recording: see SessionHistory

runtimeVars == <<main, capture, stopper, feed, meter, stream, last>>
vars == <<ringVars, runtimeVars, captured, session>>

Callers == {"main", "feed"}

\* first: the first sample of this recording.  pushed: samples handed to
\* push().  heard: samples fed to the engine.  promised: how many of them
\* were published when stop() cleared running_.  result: how it ended.
SessionHistory == [first : Nat, pushed : Nat, heard : Seq(Nat), promised : Nat,
                   result : {"none", "finalized", "cancelled", "failed"}]

Events == {"none", "recording_started", "audio_level", "transcript_update", "warning",
           "error", "recording_cancelled", "recording_finalized", "shutdown_complete"}

RuntimeTypeOK ==
  /\ RingTypeOK
  /\ main \in [pc : {"read", "starting", "stop", "join_feed", "join_meter", "finish"},
               state : {"Ready", "Recording", "Finalizing", "ShuttingDown", "Exited", "Crashed"},
               session : 0..MaxSessions, op : {"none", "stop", "cancel", "shutdown"}]
  /\ capture \in [running : BOOLEAN, initialized : BOOLEAN,
                  device : {"closed", "started", "stopped"}]
  /\ stopper \in [Callers -> {"out", "check", "device", "uninit", "done"}]
  /\ feed \in [pc : {"none", "loop", "drain", "pop", "popping", "engine", "warn",
                     "failing", "ended"},
               block : Seq(Nat), warned : BOOLEAN, failed : BOOLEAN]
  /\ meter \in {"none", "loop", "emit", "ended"}
  /\ stream \in BOOLEAN
  /\ last \in [type : Events, session : 0..MaxSessions]
  /\ captured \in 0..MaxSamples
  /\ session \in SessionHistory

NoFeed == [pc |-> "none", block |-> <<>>, warned |-> FALSE, failed |-> FALSE]

\* The worker after load_model().
RuntimeInit ==
  /\ RingInit
  /\ main = [pc |-> "read", state |-> "Ready", session |-> 0, op |-> "none"]
  /\ capture = [running |-> FALSE, initialized |-> FALSE, device |-> "closed"]
  /\ stopper = [t \in Callers |-> "out"]
  /\ feed = NoFeed
  /\ meter = "none"
  /\ stream = FALSE
  /\ last = [type |-> "none", session |-> 0]
  /\ captured = 0
  /\ session = [first |-> 0, pushed |-> 0, heard |-> <<>>, promised |-> 0, result |-> "none"]

Alive == main.state \notin {"Exited", "Crashed"}
Emit(type) == last' = [type |-> type, session |-> main.session]

Reading == Alive /\ main.pc = "read"

-----------------------------------------------------------------------------
(* start() *)

NextSession ==
  /\ Reading /\ main.state = "Ready"
  /\ main.session < MaxSessions

NewHistory ==
  session' = [first |-> captured + 1, pushed |-> 0, heard |-> <<>>,
              promised |-> 0, result |-> "none"]

\* Mutant: start() does not clear the ring.
StartDeviceKeepsRing ==
  /\ NextSession
  /\ main' = [main EXCEPT !.pc = "starting", !.session = @ + 1]
  /\ capture' = [capture EXCEPT !.initialized = TRUE, !.device = "started"]
  /\ stream' = TRUE
  /\ NewHistory
  /\ UNCHANGED <<ringVars, stopper, feed, meter, last, captured>>

\* The engine's stream is opened, the ring cleared, the device started.
StartDevice ==
  /\ NextSession
  /\ RingClear
  /\ main' = [main EXCEPT !.pc = "starting", !.session = @ + 1]
  /\ capture' = [capture EXCEPT !.initialized = TRUE, !.device = "started"]
  /\ stream' = TRUE
  /\ NewHistory
  /\ UNCHANGED <<stopper, feed, meter, last, captured>>

\* AudioCapture::start() sets running_ after the device has started.
StartRecording ==
  /\ Alive /\ main.pc = "starting"
  /\ capture' = [capture EXCEPT !.running = TRUE]
  /\ main' = [main EXCEPT !.pc = "read", !.state = "Recording"]
  /\ feed' = [NoFeed EXCEPT !.pc = "loop"]
  /\ meter' = "loop"
  /\ Emit("recording_started")
  /\ UNCHANGED <<ringVars, stopper, stream, captured, session>>

\* begin() or the device fails: a half-opened device is closed again.
StartFails ==
  /\ NextSession
  /\ \/ "engine" \in Failures /\ UNCHANGED <<ringVars, session>>
     \/ "microphone" \in Failures /\ RingClear /\ NewHistory
  /\ stream' = FALSE
  /\ Emit("error")
  /\ UNCHANGED <<main, capture, stopper, feed, meter, captured>>

\* A command that state_ does not allow.
Reject ==
  /\ Reading
  /\ \/ main.state = "Recording"      \* start, or a stop for another session
     \/ main.state = "Ready"          \* stop or cancel
  /\ Emit("error")
  /\ UNCHANGED <<ringVars, main, capture, stopper, feed, meter, stream, captured, session>>

-----------------------------------------------------------------------------
(* AudioCapture::stop(), which the main and the feed thread may both be in. *)

StopChecks(t) ==
  /\ Alive /\ stopper[t] = "check"
  /\ stopper' = [stopper EXCEPT ![t] = IF capture.initialized THEN "device" ELSE "done"]
  /\ UNCHANGED <<ringVars, main, capture, feed, meter, stream, last, captured, session>>

\* ma_device_stop() returns once no callback runs.
StopsDevice(t) ==
  /\ Alive /\ stopper[t] = "device"
  /\ push.pc = "idle"
  /\ capture' = [capture EXCEPT !.device = IF @ = "started" THEN "stopped" ELSE @]
  /\ stopper' = [stopper EXCEPT ![t] = "uninit"]
  /\ UNCHANGED <<ringVars, main, feed, meter, stream, last, captured, session>>

UninitsDevice(t) ==
  /\ Alive /\ stopper[t] = "uninit"
  /\ capture' = [capture EXCEPT !.device = "closed", !.initialized = FALSE]
  /\ stopper' = [stopper EXCEPT ![t] = "done"]
  /\ UNCHANGED <<ringVars, main, feed, meter, stream, last, captured, session>>

\* Two threads in ma_device_stop/uninit of one device: undefined behaviour.
StopsCollide ==
  /\ Alive
  /\ \A t \in Callers : stopper[t] \in {"device", "uninit"}
  /\ main' = [main EXCEPT !.state = "Crashed"]
  /\ UNCHANGED <<ringVars, capture, stopper, feed, meter, stream, last, captured, session>>

-----------------------------------------------------------------------------
(* stop(), cancel and shutdown() *)

\* capture_.stop() begins by clearing running_.
StopCommand ==
  /\ Reading
  /\ \/ /\ main.state = "Recording"
        /\ \E op \in {"stop", "cancel"} :
             main' = [main EXCEPT !.pc = "stop", !.state = "Finalizing", !.op = op]
     \/ main' = [main EXCEPT !.pc = "stop", !.state = "ShuttingDown", !.op = "shutdown"]
  /\ capture' = [capture EXCEPT !.running = FALSE]
  /\ stopper' = [stopper EXCEPT !["main"] = "check"]
  /\ session' = [session EXCEPT !.promised =
                    IF main.state = "Recording" THEN Len(taken) + Available ELSE @]
  /\ UNCHANGED <<ringVars, feed, meter, stream, last, captured>>

StopReturns ==
  /\ Alive /\ main.pc = "stop" /\ stopper["main"] = "done"
  /\ main' = [main EXCEPT !.pc = "join_feed"]
  /\ stopper' = [stopper EXCEPT !["main"] = "out"]
  /\ UNCHANGED <<ringVars, capture, feed, meter, stream, last, captured, session>>

\* Mutant: join_worker() does not wait.
JoinFeedAtOnce ==
  /\ Alive /\ main.pc = "join_feed"
  /\ main' = [main EXCEPT !.pc = "join_meter"]
  /\ UNCHANGED <<ringVars, capture, stopper, feed, meter, stream, last, captured, session>>

JoinFeed ==
  /\ Alive /\ main.pc = "join_feed"
  /\ feed.pc \in {"none", "ended"}
  /\ feed' = [feed EXCEPT !.pc = "none"]
  /\ main' = [main EXCEPT !.pc = "join_meter"]
  /\ UNCHANGED <<ringVars, capture, stopper, meter, stream, last, captured, session>>

\* Mutant: join_meter() is forgotten.
JoinMeterAtOnce ==
  /\ Alive /\ main.pc = "join_meter"
  /\ main' = [main EXCEPT !.pc = "finish"]
  /\ UNCHANGED <<ringVars, capture, stopper, feed, meter, stream, last, captured, session>>

JoinMeter ==
  /\ Alive /\ main.pc = "join_meter"
  /\ meter \in {"none", "ended"}
  /\ meter' = "none"
  /\ main' = [main EXCEPT !.pc = "finish"]
  /\ UNCHANGED <<ringVars, capture, stopper, feed, stream, last, captured, session>>

Finish(op, result, event, state) ==
  /\ Alive /\ main.pc = "finish" /\ main.op = op
  /\ Emit(event)
  /\ main' = [main EXCEPT !.pc = "read", !.state = state, !.op = "none"]
  /\ session' = [session EXCEPT !.result = result]
  /\ UNCHANGED <<ringVars, capture, stopper, feed, meter, captured>>

FinishStop == Finish("stop", "finalized", "recording_finalized", "Ready") /\ stream' = FALSE

\* A stream that could not be finished stays open until the next begin().
FinishStopFails ==
  /\ "engine" \in Failures
  /\ Finish("stop", "failed", "error", "Ready")
  /\ stream' \in BOOLEAN

FinishCancel == Finish("cancel", "cancelled", "recording_cancelled", "Ready") /\ stream' = FALSE

FinishShutdown ==
  /\ Finish("shutdown", session.result, "shutdown_complete", "Exited")
  /\ stream' = FALSE

-----------------------------------------------------------------------------
(* AudioCapture::data_callback() *)

Block(n) == [k \in 1..n |-> captured + k]

CallbackPushes ==
  /\ Alive /\ capture.device = "started" /\ capture.running
  /\ \E n \in Frames :
       /\ captured + n <= MaxSamples
       /\ PushBegin(Block(n))
       /\ captured' = captured + n
       /\ session' = [session EXCEPT !.pushed = @ + n]
  /\ UNCHANGED runtimeVars

\* Before start() has set running_ and after stop() cleared it.
CallbackDiscards ==
  /\ Alive /\ capture.device = "started" /\ ~capture.running
  /\ push.pc = "idle"
  /\ \E n \in Frames : captured + n <= MaxSamples /\ captured' = captured + n
  /\ UNCHANGED <<ringVars, runtimeVars, session>>

CallbackCopies ==
  /\ Alive
  /\ PushSample \/ PushDrop \/ PushPublish
  /\ UNCHANGED <<runtimeVars, captured, session>>

-----------------------------------------------------------------------------
(* worker_loop() *)

FeedGoes(from, to) ==
  /\ Alive /\ feed.pc = from
  /\ feed' = [feed EXCEPT !.pc = to]

OnlyFeed == UNCHANGED <<ringVars, main, capture, stopper, meter, stream, last, captured, session>>

FeedTests ==
  /\ IF capture.running THEN FeedGoes("loop", "pop") ELSE FeedGoes("loop", "drain")
  /\ OnlyFeed

\* Mutant: what is left in the ring is not drained.
FeedDrainsNothing == FeedGoes("drain", "ended") /\ OnlyFeed

\* Mutant: the thread goes on while the ring holds fewer samples than a block.
FeedDrainsForever == FeedGoes("drain", "pop") /\ OnlyFeed

\* running_ was false: go on only while the ring holds samples.
FeedDrains ==
  /\ IF Available > 0 THEN FeedGoes("drain", "pop") ELSE FeedGoes("drain", "ended")
  /\ OnlyFeed

FeedPops ==
  /\ FeedGoes("pop", "popping")
  /\ PopBegin(BlockSize)
  /\ UNCHANGED <<main, capture, stopper, meter, stream, last, captured, session>>

FeedCopies ==
  /\ Alive
  /\ PopSample
  /\ UNCHANGED <<runtimeVars, captured, session>>

FeedPopped ==
  /\ Alive /\ feed.pc = "popping"
  /\ PopReturn
  /\ feed' = [feed EXCEPT !.pc = IF pop.out = <<>> THEN "loop" ELSE "engine",
                          !.block = pop.out]
  /\ UNCHANGED <<main, capture, stopper, meter, stream, last, captured, session>>

\* engine_.feed() succeeds, with or without a new text.
FeedEngine ==
  /\ FeedGoes("engine", "warn")
  /\ session' = [session EXCEPT !.heard = @ \o feed.block]
  /\ UNCHANGED last \/ Emit("transcript_update")
  /\ UNCHANGED <<ringVars, main, capture, stopper, meter, stream, captured>>

FeedWarns ==
  /\ Alive /\ feed.pc = "warn"
  /\ IF ~feed.warned /\ dropped > 0
     THEN Emit("warning") /\ feed' = [feed EXCEPT !.pc = "loop", !.warned = TRUE]
     ELSE UNCHANGED last /\ feed' = [feed EXCEPT !.pc = "loop"]
  /\ UNCHANGED <<ringVars, main, capture, stopper, meter, stream, captured, session>>

\* engine_.feed() fails: report it, stop the capture, end the thread.
FeedFails ==
  /\ "engine" \in Failures
  /\ Alive /\ feed.pc = "engine"
  /\ feed' = [feed EXCEPT !.pc = "failing", !.failed = TRUE]
  /\ Emit("error")
  /\ capture' = [capture EXCEPT !.running = FALSE]
  /\ stopper' = [stopper EXCEPT !["feed"] = "check"]
  /\ UNCHANGED <<ringVars, main, meter, stream, captured, session>>

FeedEnds ==
  /\ FeedGoes("failing", "ended")
  /\ stopper["feed"] = "done"
  /\ stopper' = [stopper EXCEPT !["feed"] = "out"]
  /\ UNCHANGED <<ringVars, main, capture, meter, stream, last, captured, session>>

(* meter_loop(), which looks at running_ and then writes. *)

MeterTests ==
  /\ Alive /\ meter = "loop"
  /\ meter' = IF capture.running THEN "emit" ELSE "ended"
  /\ UNCHANGED <<ringVars, main, capture, stopper, feed, stream, last, captured, session>>

MeterEmits ==
  /\ Alive /\ meter = "emit"
  /\ meter' = "loop"
  /\ Emit("audio_level")
  /\ UNCHANGED <<ringVars, main, capture, stopper, feed, stream, captured, session>>

MeterThread == MeterTests \/ MeterEmits

-----------------------------------------------------------------------------
Commands == StartDevice \/ StartFails \/ Reject \/ StopCommand

MainThread ==
  \/ StartRecording \/ StopChecks("main") \/ StopsDevice("main") \/ UninitsDevice("main")
  \/ StopReturns \/ JoinFeed \/ JoinMeter
  \/ FinishStop \/ FinishStopFails \/ FinishCancel \/ FinishShutdown

FeedThread ==
  \/ FeedTests \/ FeedDrains \/ FeedPops \/ FeedCopies \/ FeedPopped
  \/ FeedEngine \/ FeedWarns \/ FeedFails \/ FeedEnds
  \/ StopChecks("feed") \/ StopsDevice("feed") \/ UninitsDevice("feed")

Terminated == ~Alive /\ UNCHANGED vars

RuntimeNext ==
  \/ Commands \/ MainThread \/ FeedThread \/ MeterThread \/ StopsCollide
  \/ CallbackPushes \/ CallbackDiscards \/ CallbackCopies \/ Terminated

\* Every thread keeps running; commands and audio come when they please.
RuntimeSpec ==
  /\ RuntimeInit /\ [][RuntimeNext]_vars
  /\ WF_vars(MainThread) /\ WF_vars(FeedThread) /\ WF_vars(MeterThread)
  /\ WF_vars(CallbackCopies)
=============================================================================
