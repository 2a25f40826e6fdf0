--------------------------- MODULE WorkerProcess ---------------------------
(***************************************************************************)
(* The two inference processes as their parent sees them: WorkerProcess in *)
(* src/app/worker_process.cpp, one object per worker.  A worker has a pipe *)
(* in each direction, a running_ flag shared by the UI thread and by the   *)
(* reader thread, and a reader thread that drains the output pipe and      *)
(* reports an unexpected end.  The JSON framing is abstracted: a pipe is a *)
(* sequence of whole messages.                                             *)
(***************************************************************************)
EXTENDS Protocol

CONSTANT Faults   \* which parts of the environment may fail in an instance

FaultKinds == {"spawn", "asr_load", "microphone", "engine",
               "rewrite_load", "rewrite_answer"}

ASSUME FaultsAssumption == Faults \subseteq FaultKinds

VARIABLES
  proc,      \* the operating-system process behind the object
  running,   \* running_
  stdin,     \* commands written and not yet read by the worker
  stdout,    \* events written by the worker and not yet read by the reader
  reader,    \* the reader thread: "none" is a reader_ that is not joinable
  device     \* the compute device the process was started with

PipesTypeOK ==
  /\ proc \in [Workers -> {"none", "alive", "exited"}]
  /\ running \in [Workers -> BOOLEAN]
  /\ reader \in [Workers -> {"none", "reading", "reporting", "done"}]
  /\ device \in [Workers -> Device]
  /\ DOMAIN stdin = Workers /\ DOMAIN stdout = Workers
  /\ stdin["asr"] \in Seq(AsrCommand) /\ stdin["rewrite"] \in Seq(RewriteCommand)
  /\ stdout["asr"] \in Seq(AsrEvent) /\ stdout["rewrite"] \in Seq(RewriteEvent)

pipes == <<proc, running, stdin, stdout, reader, device>>

PipesInit ==
  /\ proc = [w \in Workers |-> "none"]
  /\ running = [w \in Workers |-> FALSE]
  /\ stdin = [w \in Workers |-> <<>>]
  /\ stdout = [w \in Workers |-> <<>>]
  /\ reader = [w \in Workers |-> "none"]
  /\ device = [w \in Workers |-> "cpu"]

\* send() succeeds: the flag is up and the pipe still has a reading end.
Accepts(w) == running[w] /\ proc[w] = "alive"

\* start(): a new process, empty pipes and a new reader thread.
Spawn(w, d) ==
  /\ ~running[w]
  /\ proc' = [proc EXCEPT ![w] = "alive"]
  /\ running' = [running EXCEPT ![w] = TRUE]
  /\ stdin' = [stdin EXCEPT ![w] = <<>>]
  /\ stdout' = [stdout EXCEPT ![w] = <<>>]
  /\ reader' = [reader EXCEPT ![w] = "reading"]
  /\ device' = [device EXCEPT ![w] = d]

\* stop(), first half: clear the flag, then close the worker's input.
CloseInput(w) ==
  /\ running' = [running EXCEPT ![w] = FALSE]
  /\ UNCHANGED <<proc, stdin, stdout, reader, device>>

\* stop(), second half: both the process and the reader thread are gone.
Stopped(w) == proc[w] # "alive" /\ reader[w] \in {"none", "done"}

\* Mutant: stop() returns while the reader thread still runs.
JoinProcessOnly(w) ==
  /\ proc[w] # "alive"
  /\ proc' = [proc EXCEPT ![w] = "none"]
  /\ UNCHANGED <<running, stdin, stdout, reader, device>>

Join(w) ==
  /\ Stopped(w)
  /\ proc' = [proc EXCEPT ![w] = "none"]
  /\ reader' = [reader EXCEPT ![w] = "none"]
  /\ UNCHANGED <<running, stdin, stdout, device>>

\* The process ends: what it wrote stays in its output pipe, what it had not
\* read is lost.
Exit(w) ==
  /\ proc[w] = "alive"
  /\ proc' = [proc EXCEPT ![w] = "exited"]
  /\ stdin' = [stdin EXCEPT ![w] = <<>>]

\* The worker reads end of file: its input was closed and it read the rest.
InputClosed(w) == proc[w] = "alive" /\ ~running[w] /\ stdin[w] = <<>>

\* read_loop() reaches end of file; running_.exchange(false) decides whether
\* the exit is reported.
ReaderEof(w) ==
  /\ reader[w] = "reading"
  /\ proc[w] = "exited"
  /\ stdout[w] = <<>>
  /\ reader' = [reader EXCEPT ![w] = IF running[w] THEN "reporting" ELSE "done"]
  /\ running' = [running EXCEPT ![w] = FALSE]
  /\ UNCHANGED <<proc, stdin, stdout, device>>

\* read_loop() takes the next line and hands it to the message handler.
NextLine(w) ==
  /\ reader[w] = "reading"
  /\ stdout[w] # <<>>
  /\ stdout' = [stdout EXCEPT ![w] = Tail(@)]
  /\ UNCHANGED <<proc, running, reader, device>>

\* read_loop() reports the exit and the thread ends.
LastReport(w) ==
  /\ reader[w] = "reporting"
  /\ reader' = [reader EXCEPT ![w] = "done"]
  /\ UNCHANGED <<proc, running, stdout, device>>
=============================================================================
