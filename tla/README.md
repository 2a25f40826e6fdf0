# A verification of DictScribe in TLA+

DictScribe is a voice keyboard: a hotkey opens the microphone, a speech worker
turns it into text, an optional cleanup worker rewrites the text, and a second
press types it into the window the user came from. This directory holds TLA+
models of the program, the TLC configurations that check them, and theorems
whose proofs TLAPS checks.

All models are translated from the C++ under `src/`; the paths below are
relative to the repository.

## The system

Three processes, joined by pipes that carry one JSON message per line.

| Part | Code | State it keeps | Operations |
| --- | --- | --- | --- |
| Desktop window, UI thread | `src/ui/dictation_window.cpp` (X11), `src/platform/win/win_main.cpp` (Windows) | `session_active`, pending device choices, target window | hotkeys (start/stop/insert, cancel, quit), settings actions, main loop (`tick`, snapshot, reconcile, insert) |
| Controller | `src/app/app_controller.cpp` | mode, cleanup mode, readiness of both workers, live/raw/rewritten text, active cleanup request, session and dictation ids, pending language restart; all behind one mutex | `start`, `toggle_recording`, `cancel_recording`, `set_language`, `set_cleanup_mode`, `set_asr_device`, `set_rewrite_device`, `tick`, destructor; `handle_asr_message`, `handle_rewrite_message` |
| Worker handle, one per worker | `src/app/worker_process.cpp` | process id, input pipe, `running_`, reader thread | `start`, `send`, `stop`, `read_loop` |
| Speech worker | `src/workers/asr/runtime_controller.cpp`, `audio_capture.cpp` | state, session, transcript; main, feed and meter thread; the capture device and the audio ring | `start`, `stop`, `cancel`, `shutdown`; feeding, metering |
| Cleanup worker | `src/workers/rewrite/` | the loaded model, the answer in progress | `rewrite`, `rewrite_tail`, `ping`, `shutdown`; generation, protection of literals, the checks of an answer |
| Semantic transcript | `src/app/semantic_transcript.cpp` | frozen and editable text, stable spans, unstable suffix, revision | reset, hypotheses, promotion, rewrite snapshots and commits |
| Settings | `src/app/settings.cpp` | the settings file, pending devices, the notice | load, save, `ReconcilePendingDeviceSettings` |
| Text injection | `src/platform/win/win_text_injector.cpp`, `src/platform/linux/linux_x11.cpp` | target window, clipboard or selection | capture, insert, put on the clipboard, answer selection requests |
| Overlay, discovery | `src/platform/`, `src/ui/`, `src/app/model_discovery.cpp` | the desktop's | see "Not modelled" |

How they interact:

- The UI thread calls the controller, which sends commands through a worker
  handle. Each handle's reader thread calls the controller back with the
  worker's messages. All of it takes the controller's mutex, except that calls
  which restart a worker release it before they stop and start the process.
- The window polls: it decides on a *snapshot* of the controller and calls the
  controller afterwards. Messages may be handled in between.
- `running_` of a worker handle is shared: `stop()` clears it on the UI thread,
  the reader thread exchanges it at end of file, and whoever comes first decides
  whether the exit is reported as unexpected.
- In the speech worker the capture callback pushes into the ring, the feed thread
  pops and calls the engine, the main thread starts and stops both.
- Inserting a text shares the keyboard focus and the clipboard with every other
  program on the desktop.

What is hard here, and what would make it wrong: messages that arrive late (of a
cancelled recording, of a request that timed out, of a process that was
replaced), presses between a command and its answer, a language change at any
point of a recording (it stops the recording and starts another one in the same
dictation), workers that fail, die or hang, stopping a process whose reader
thread needs the mutex, a lock-free ring between a callback and a thread, text
cut at byte limits, a save that is interrupted, and a desktop that changes between
a look and an act. `PROJECT.json` lists each hazard at the line where it bites,
with the properties that cover it or the reason none does.

## Modules

```
Protocol            messages of both protocols
  WorkerProcess     pipes, processes, running_ flags, reader threads
    AppController   the controller: record ctl, and ui, the call in progress
      DesktopHost   the window that drives it
    AsrWorker       the speech worker, as the controller sees it
    RewriteWorker   the cleanup worker, as the controller sees it
DictationSystem     = DesktopHost + AsrWorker + RewriteWorker: Init, Next, Spec, TypeOK
DictationPromise    what the user is promised about words (abstract)
DictationProperties the properties, fairness, and Promise == INSTANCE DictationPromise
DocumentedClaims    claims of the documentation that the code does not keep
  DictationProofs   types, the life of a worker, words of different dictations stay apart
    PromiseProofs   the system implements the promise; what is shown for review is whole
      MicrophoneProofs  the microphone follows the window, in the language it shows;
                        nobody waits for what cannot come

AudioQueue          what the ring promises: a bounded queue that may lose (abstract)
AudioRing           the ring, one memory access at a time; Queue == INSTANCE AudioQueue
  AsrRuntime        the threads, the callback and the engine inside the speech worker
    RecordingProperties
      RecordingProofs the ring implements the queue and no slot is shared; the worker uses it
                      as it expects; no sample disappears, all are heard in order

TranscriptText      the text helpers, over bytes
  SemanticTranscript  the regions of a dictation
    TranscriptProperties
      TranscriptProofs no word is lost, no character is cut, no request is too long
RewriteContract     literals, placeholders and the checks of an answer, over tokens
  RewriteEngine     the command loop and generation
    CleanupProperties
      CleanupProofs the context never overflows; an answer holds only what was said
SettingsFile        settings in memory, on disk, and the steps of a save
  SettingsProperties
    SettingsProofs  what is written is read back; what is unsaved is told
TextInsertion       the window's session, other programs, focus and clipboard
  WinInsertion      Windows        X11Insertion   Linux
    InsertionProperties            either platform, and what the user is promised
      InsertionProofs              nothing is inserted twice, stale or lost, and keys go where
                                   the focus was restored
```

**Dictation.** *Text* is abstracted to the set of recording sessions whose words
it holds. The empty string is `{}`; a dictation that spans a language change is a
set of two sessions. This is exactly what the properties tell apart: whose words
are in a text, and whether any are missing. Joining texts is set union, and the
cleanup model (external) keeps a text's sessions or fails. `dictation` stands for
`dictation_id_`: the set of sessions opened under it. `ctl` is the record of
`AppController`'s members. Each public method and each message handler holds the
mutex for its whole effect and is one action. `Send` models a command that ends a
handler together with the branch the code takes when the send fails. The calls
that restart a worker release the mutex; `ui.pc` walks through them: `shutdown`
(the command), `check` (`running()`), `close` (`stop()` clears the flag and closes
the pipe), `join` (`stop()` waits for the process, terminates it after a second,
and joins the reader), `spawn` (`start()`). Between two places the reader threads
run. `proc`, `running`, `stdin`, `stdout` and `reader` are the two `WorkerProcess`
objects and the kernel's side of their pipes: a process that ends leaves its output
readable and loses its unread input. `SIGPIPE` is ignored (`src/app/main.cpp:13`),
so writing to a dead worker is a failed send. A hotkey is two steps: the snapshot
that decides (`HotkeyStart`, `HotkeyStop`, `HotkeyCancel`) and the call
(`UiToggle`, `UiCancel`). The main loop is `HostTick` and `HostPoll`. `inserted` and
`cancelled` are history. `AsrWorker` and `RewriteWorker` handle one command per
step; the two following groups open them up. Acknowledgements, levels, warnings and
`hello` change nothing in the controller and are left out. `Faults` says what of the
environment may fail; `Crash` kills a worker at any point.

**Recording.** Samples are numbered in the order the microphone delivers them, so
that a lost, repeated or reordered sample shows. `push()` and `pop()` load the other
side's index once, copy one sample per step, and publish their own index last:
exactly the accesses that other threads can see. `AsrRuntime` adds one program
counter per thread: `main.pc` for the main thread inside a command (`stop()` and the
joins), `feed`, `meter`, and `stopper` for the two threads that may be inside
`AudioCapture::stop()`. When both are inside `ma_device_stop()` or `_uninit()` of one
device, which is undefined, `StopsCollide` lets the worker die there or go on. The
device is external: its callback may run whenever it is started, and stopping it
waits for a callback in progress.

**Transcript.** A text is a sequence of bytes over the least alphabet in which every
branch of `semantic_transcript.cpp` is taken: letters, a space `"_"`, a line feed
`"|"`, a full stop, and two-byte characters made of `"<"` with `">1"` or `">2"`. Limits
that are hundreds of tokens or kilobytes in the code are CONSTANTS. `covered`,
`safe` and `rewritten` are history: the raw text that the cleaned regions stand for,
and whether a revision or an answer of the model has replaced it. The callers that
will make snapshots and commit them late or twice are external: the controller of
this commit does not use that part yet.

**Cleanup.** A text is a sequence of tokens of the kinds the code tells apart (word,
number, list number, literal, placeholder, commentary, invalid UTF-8). The model
samples any token its grammar allows; `llama` calls fail wherever their result is
tested; the deadline may pass before every token.

**Settings.** A document is a function from the names it has to values, so that a
missing name, a wrong type and a wrong value are different things. A save is the
steps the file system sees: directory, open (which truncates), buffered write, close,
rename, removal of the temporary file. Each may fail, and the program may die
between any two.

**Insertion.** Windows are model values, a result is a number and whether it has
several lines. `stage` walks through `commit()` and `InsertText()`, or through
`insert_text()`; between two stages other programs copy, the user switches or closes
windows and holds modifier keys. A paste that was sent is answered when the target
gets to it: at Windows from the clipboard as it is then, at X11 by DictScribe's own
event queue. On X11 a target has two windows, `focus_window` (`target`) and
`active_window` (`targetActive`), and either will do (`Valid`). `focus` is the server's,
`active` is what the window manager announces on the root window, whenever it gets to it
(`Announces`) or never. Asking it to activate a window only adds to `asked`: it may do so
before the keys, long after, during a later insertion, or not at all (`Activates`). Only
`XSetInputFocus()`, for a target that has a `focus_window`, moves the focus at once.
Where the focus follows the pointer, the window under it is the one that has the focus.
Receipts are history; `blind` marks keys that were sent without a focus to restore.

## What the runs check

| Run | Bounds | Properties |
| --- | --- | --- |
| `Dictation` | 4 presses (two dictations), 2 cancels, 1 crash, every fault, cleanup off or on | `TypeOK`, `MicrophoneMatchesMode`, `ReviewedCoversRaw`, `NeverStranded`, `KeepsPromise` |
| `Language` | 2 languages, 3 presses, 2 changes, faults of the microphone, the recogniser and the cleanup, cleanup off or on | `RawRecordsAsShown`, `NeverStranded`, `OnlyOwnWords`, `RawKeepsPromise` |
| `Liveness` | 2 presses, 1 cancel, 1 setting, 1 crash, a missing microphone, started with cleanup on | `CleanupOffStopsWorker`, `ReadersJoined`, `KeepsPromise`, `StartsAndCancelsSettle`, `FinalizingEnds`, `CallsReturn` |
| `Recording` | ring of 3, blocks of 2, callbacks of 2 frames, 6 samples, 2 recordings, a failing microphone and a failing engine | `SlotsDisjoint`, `HeardInOrder`, `StopDrains`, `SamplesAccountedFor`, `ReadyIsQuiet`, `QueuePromise`, `NothingAfterResult`, `CommandsAnswered` |
| `Transcript` | 3 hypotheses, 3 updates, 2 segments, 2 dictations, 1 snapshot held | `RegionsCoverRaw`, `UnrewrittenIsRaw`, `CharactersWhole`, `RequestsBounded`, `CommitsWhatWasAsked` |
| `Cleanup` | 2 commands of 7, answers of up to 4 of 7 tokens, a context of 9, failing `llama` calls, the deadline, refused commands | `ContextNeverOverflows`, `AnswersHoldWhatWasSaid`, `EchoIsReturned`, `CommandsEnd` |
| `SettingsFile` | 5 first files, 3 changes, every failure, a crash anywhere | `SettingsTypeOK`, `FileHoldsSaved`, `UnsavedIsTold` |
| `Insertion` | either platform, 2 windows, 2 results, 1 copy of another program, 2 switches or closes, every failure | `InsertedOnce`, `TargetGetsText`, `NoStalePaste`, `TextIsNotLost` |

What they show, where the name does not say it:

- `KeepsPromise` is refinement: `DictationSystem` implements `DictationPromise`,
  in which words are settled, dictations are cancelled, and a dictation is
  delivered once, with all its words and no others. The mapping is the identity
  on the three history variables. `RawKeepsPromise` is its action part for the steps
  taken with cleanup off, where language changes keep it too.
- `QueuePromise` is refinement: the ring implements `AudioQueue`. The queue's content
  is computed from the array, the indices and the locals of a push and a pop in
  progress: a sample is in the queue from the moment the writer publishes it, and
  leaves it when the reader does.
- `TargetGetsText` leaves out the keys that are sent blind, on X11 for a target that has
  only an active window; what happens to those is `KeysAstray`, below.
- `NeverStranded` is the safety side of liveness: in every waiting mode some worker
  still has a message to send, or a timer is running.
- `MicrophoneMatchesMode` and `RawRecordsAsShown` speak of quiet moments, when no
  message is in flight: before, the worker is rightly ahead of the window.
- `RegionsCoverRaw` relates every region to the raw text through what each cleaned
  region stands for; it stops speaking after a revision of promoted text, when the
  code gives cleanup up and shows the raw text (`UnrewrittenIsRaw`).
- `EchoIsReturned` says that protection, restoration and validation undo each other.
  Its guard leaves out requests in which two literals get one placeholder, see below.
- `FileHoldsSaved` says what an interrupted save may cost: nothing, except after a disk
  that filled up while the stream was destroyed.

The bounds count what users, other programs, settings and crashes do, and are spent
in the guards of the actions; everything else is unbounded and still finite. Two
dictations are the least in which a message of one can meet the other; a third press
or cancel is needed for the races at start and stop; two language changes are the
least in which a change meets the restart another one caused. One setting is the least
that stops and starts a worker under the other actors: `Liveness` has it around one
dictation and checks `KeepsPromise` there with a cancellation, and `PromiseKept` is the
theorem for any number of settings and dictations without one. For what calls do to
workers (`CleanupOffStopsWorker`, `ReadersJoined`) any number is covered by theorems.
`Liveness` is smaller, because its check grows with the cycles of the graph; what its missing faults
lead to is in `Dictation`, whose `NeverStranded` sees to it that somebody is always
left to act. In `Recording` a ring of three takes one whole callback and half of the
next, so it wraps, fills up and drops in the middle of a block, and six samples are
enough for a second recording to meet what the first left. In `Transcript` the
limits are small enough that spans, tails and requests overflow and freeze; a token
longer than a span forces a cut inside it, next to a two-byte character; the read-only
context has room for two tokens, which is the run of words that makes an answer a
repetition. The context of nine in `Cleanup` is larger than some prompts with their answer and smaller than
others. Three changes of settings let a failed save be followed by a good one and by
another failure. In `Insertion` a first paste can still be waiting when the second
result is put on the clipboard.

Deadlock is checked where the system may stop only when it has been shut down:
everywhere but in `Transcript`, `Cleanup` and `Insertion`, whose callers stop at
their bounds.

### Fairness

`Fairness` (dictation) asks that the operating system schedules the UI thread inside a
call, that the main loop turns (`HostTick`, `HostPoll`: `glfwWaitEventsTimeout` gives it
60 turns a second), that reader threads run, and that the speech worker's main thread
reads its commands and its calls into the recogniser return. It asks nothing of the
user, of crashes, of the feed thread or of terminating a process early. `CleanupLoads`
adds that the cleanup worker finishes loading or fails; no fairness makes it *answer*,
since `tick()` gives a request up after 35 seconds. The timeout is a step that may
happen whenever a request is active: its length is not modelled, only that it may win
or lose the race with the answer.

`RuntimeSpec` asks that the main thread inside a command, the feed thread, the meter
thread and a callback in progress keep running; nobody has to give commands or to
speak. `EngineSpec` asks that `generate()` keeps running inside a command: the calls
into llama return.

## What the code does not keep

Each of these is a run that TLC refutes with a short behaviour; `PROJECT.json` quotes
the sentence and the line.

| Run | What happens |
| --- | --- |
| `CancelRace` | Escape while the microphone opens, then a press: the window is back in Recording, the press's stop reaches the worker after the cancel, and its refusal becomes a lasting error |
| `LanguageLosesWords` | a cleanup model that finishes loading at the wrong moment of a language change completes the dictation with its first segment only; the rest is recorded behind the result |
| `StuckFinalizing` | the speech worker cannot be started, so `start()` returns before the cleanup worker; choosing a speech device leads back to Ready, and a dictation with AI cleanup then waits for a cleanup worker that nobody will start |
| `KeysAstray` | on X11 the target has only an active window, because the focus was on a window of DictScribe or on none when it was captured: no focus is restored or tested, and Ctrl+V goes to the window that has it |

Others were met with the same models and are not kept as runs.

Dictation; each returns by widening a passing run or asking what it does not ask:

- Choosing another speech device can end in the error state although the restart works
  (one setting, no press, nothing fails; 12 states): the old worker obeys its shutdown
  before `stop()` clears `running_`, and its exit is reported as unexpected
  (`worker_process.cpp:442`). The new worker's `ready` leads out of Starting only, and the
  device that works is not saved (`settings.cpp:249`).
- Recognised words can be left behind in Ready, where nothing offers them and the next
  dictation erases them: the first segment, when the microphone cannot be opened again
  after a language change (`app_controller.cpp:433`; one press, one change, 14 states),
  and a cleaned result that waits for Enter while another speech device is chosen
  (`app_controller.cpp:279`; two presses, one setting, 26 states). The runs show that such
  words are not inserted elsewhere; `src/docs/IMPLEMENTATION_NOTES.md:23` and
  `src/README.md:178-180` promise that they are not lost.
- Escape during a language change that waits for the microphone hides the window and
  goes on recording (`dictation_window.cpp:446`).
- The failure of a timed-out cleanup ends the next dictation's cleanup: an error
  message is not compared with the active request (`app_controller.cpp:487`).
- A speech device is saved before its worker has loaded (one setting, 12 states): a
  `ready` of the process that is being replaced is taken for the new one's
  (`app_controller.cpp:367`, `settings.cpp:258`), against `src/README.md:181-183`. With
  cleanup off a new cleanup device is saved although no worker has run on it
  (`settings.cpp:268`).
- `KeepsPromise` with changes of settings *and* cancellations (5 presses, 2 cancels, 1
  setting, 2 crashes, 47 steps): a late `INVALID_STATE` of the cancel race puts the window
  in Error while the window is about to cancel; `cancel_recording()` then does nothing, but
  the window has ended its session. `recording_started` brings Recording back, the dictation
  is recorded and sent for cleanup, the speech worker dies, another device leads back to
  Ready with the request still active, the next hotkey opens a session, the worker dies
  again, and the answer of the old request completes: the cancelled dictation is
  inserted. `docs/IMPLEMENTATION_NOTES.md:24`: late results from cancelled sessions are
  ignored.
- `NeverStranded` with a language change, a setting and a failing engine (23 steps): the
  change stops a recording and marks it for a restart; the engine fails, the mode is Error
  with `language_restart_pending_` still set; while another speech device is being started,
  the old worker's `recording_finalized` is taken for the restart's, and `start` is queued
  behind the `shutdown` of the process that ends. The new one is never asked: the window
  stays in StartingRecording (`app_controller.cpp:409`).
- With a language change and AI cleanup on: `MicrophoneMatchesMode` fails (the first
  segment is shown for review while the second is being recorded), and
  `RecordingLanguage` fails (a late error of an earlier recording puts the window in
  Error, a language chosen there is not pending, and `recording_started` then brings
  back Recording in the old one). `RawRecordsAsShown` is what remains true.
- `FinalizingEnds` without `CleanupLoads`: stopping waits for a cleanup model that never
  finishes loading (`app_controller.cpp:599`); `src/README.md` says it never waits.

Speech worker:

- After a feed error the feed thread stops the capture without a lock, and the main
  thread's stop may do the same at the same time (`runtime_controller.cpp:241`):
  `StopsCollide`. Every property of `Recording` allows the worker to die there.

Cleanup worker:

- Two literals of a request can get one placeholder (`llama_rewriter.cpp:125`): a field
  is renumbered one placeholder after the other, so that behind one literal of an
  earlier field its first literal becomes placeholder 1 and then, with its second,
  placeholder 2. `docs/PROTOCOL.md:95-96` promises that literals are restored; these
  two cannot be told apart any more, and an answer that changes nothing is refused. This is
  what `PlaceholdersDistinct` excludes: without it the third of the tails that `Cleanup`
  tries refutes `EchoIsReturned`.
- `docs/PROTOCOL.md:105-106` allows a path put together from dictated words;
  `restore_technical_literals()` refuses every literal that was not protected before
  the contract that would allow it is asked.
- `docs/PROTOCOL.md:97` names a deadline of five seconds; `kMaximumGenerationTime` is 30.

Settings and insertion:

- `SaveSettings()` looks at the stream before its buffer is flushed
  (`settings.cpp:208`): if the disk is full, an incomplete file replaces the good one
  and saving is reported as successful. Nothing is synced to the disk before the
  rename.
- On X11 the target may be closed before the insertion: `XSetInputFocus()` on it is an X
  error, no error handler is installed, and Xlib ends the program and with it the
  clipboard it owns (`linux_x11.cpp:276`, `RestoreFocusDies`), on which
  `src/README.md:238-239` says the text remains.
- A `SelectionClear` that belongs to an earlier ownership empties the text of the
  present one (`linux_x11.cpp:152-154`): a paste then brings nothing, which
  `NoStalePaste` allows.
- A window that asks for the clipboard after the next result was put there gets that one
  (`linux_x11.cpp:328`; on Windows it reads the clipboard itself). `NoStalePaste` forbids
  only the texts of earlier dictations.
- On Windows a modifier key that stays held sends `commit()` to `PutTextOnClipboard()` a
  second time, which may empty the clipboard and fail; the user is told.

## What is proved

The constants are arbitrary within the named assumptions of the modules:
`LanguageAssumption`, `FaultsAssumption`, `BoundsAssumption` (dictation),
`CapacityAssumption` and `RuntimeAssumption` (recording: a ring, a block and callbacks
of at least one sample), `TranscriptAssumption` (transcript: what is heard is well-formed
UTF-8, limits are numbers, those on spans positive, and a new part of a request has room
for a character), `EngineAssumption` (cleanup: commands are texts, limits are
numbers), `SettingsAssumption` (the marks of a missing and of an invalid
value are no values, and the window keeps the overlay within its limits) and
`DesktopAssumption` (insertion). TLC evaluates them in every run that uses the module.
The bounds of a run, presses, cancellations, crashes and so on, are among the constants:
what is proved holds for any number of them, unless the theorem says otherwise.

| Module | Theorem | States | For |
| --- | --- | --- | --- |
| `DictationProofs` | `TypeCorrect`, `Lifecycle`, `ReadersAlwaysJoined`, `CleanupWorkerStopped`, `WordsStayApart` | `TypeOK`, `LifecycleInv`, `ReadersJoined`, `CleanupOffStopsWorker`, `OnlyOwnWords` | everything |
| `PromiseProofs` | `PromiseInvariant`, `RawPromiseKept` | `PromiseInv`, `RawKeepsPromise` | no settings, or neither language changes nor cancels (`Undisturbed`) |
| | `PromiseKept`, `ReviewCoversRaw` | `KeepsPromise`, `ReviewedCoversRaw` | one language; no settings or no cancels |
| `MicrophoneProofs` | `MicrophoneFollowsMode` | `MicrophoneMatchesMode` | one language; no settings or no cancels |
| | `RawMicrophoneFollowsMode` | the same while cleanup is off | `Undisturbed` |
| | `RawRecordedAsShown` | `RawRecordsAsShown` | no cancels, no settings |
| | `NeverLeftWaiting` | `NeverStranded` | no settings |
| `RecordingProofs` | `SlotsNeverShared`, `RingIsQueue` | `SlotsDisjoint`, `QueuePromise`, for the ring alone | everything |
| | `RuntimeTyped`, `RecordingSlotsDisjoint`, `RecordingIsQueued`, `ReadyAlwaysQuiet`, `NothingFollowsResult` | `RuntimeTypeOK`, `SlotsDisjoint`, `QueuePromise`, `ReadyIsQuiet`, `NothingAfterResult` | everything |
| | `SamplesAlwaysAccounted`, `StopAlwaysDrains`, `AlwaysHeardInOrder` | `SamplesAccountedFor`, `StopDrains`, `HeardInOrder` | everything |
| `TranscriptProofs` | `RegionsInvariant`, `NoWordIsLost`, `ComposedAsSaid`, `LateAnswersChangeNothing` | `RegionsInv`, `RegionsCoverRaw`, `UnrewrittenIsRaw`, `CommitsWhatWasAsked` | everything |
| | `NoCharacterIsCut`, `NoRequestTooLong` | `CharactersWhole`, `RequestsBounded` | answers that are well-formed texts (`ReplacementsAreTexts`) |
| `CleanupProofs` | `ContextIsEnough`, `NothingIsMadeUp` | `ContextNeverOverflows`, `AnswersHoldWhatWasSaid` | everything |
| `InsertionProofs` | `InsertionTyped`, `ResultsInsertedOnce`, `TargetAlwaysGetsText`, `PastesNeverStale`, `TextNeverLost` | `InsertionTypeOK`, `InsertedOnce`, `TargetGetsText`, `NoStalePaste`, `TextIsNotLost` | everything |
| `SettingsProofs` | `SettingsAlwaysUsable`, `FileAlwaysHoldsSaved`, `UnsavedAlwaysTold` | `SettingsTypeOK`, `FileHoldsSaved`, `UnsavedIsTold` | everything |

So every safety property of the passing runs is also a theorem, except
`EchoIsReturned`. `RuntimeTypeOK` and `InsertionTypeOK` are proved instead of run.

The restrictions in the last column are not for the prover's sake: each is needed,
because without it TLC refutes the property. With AI cleanup a language change gives up
words (`LanguageLosesWords`), which takes `KeepsPromise`, `ReviewedCoversRaw`
and `MicrophoneMatchesMode` with it; the other counterexamples are
described under "What the code does not keep": settings with cancellations for
`KeepsPromise`, settings for `NeverStranded`, a cancelled start
for `RawRecordsAsShown`. These hypotheses are about the bounds alone, so that a theorem
speaks of every behaviour of a program whose user leaves these controls alone, and the
runs are instances of it: `Dictation` and `Language` satisfy the hypotheses of the
theorems about their properties, and `Liveness` those of the theorems about workers, with
`KeepsPromise` checked beyond them. `ReplacementsAreTexts` is about data instead: an answer
to a request of well-formed texts is well-formed, as every string of a JSON message is.
The transcript appends an answer as it stands, so a broken one would break its text.

*Types of the dictation.* `TypeOK` is inductive. One lemma per helper, per handler and
per actor says that controller states go to controller states and commands to commands.

*The life of a worker.* Neither `ReadersJoined` nor `CleanupOffStopsWorker` is
inductive: why nothing runs at `spawn` depends on what `stop()` established at `join`,
and that on `close`. `LifecycleInv` is three parts. `PlacesInv`: which calls may be at
which place. `WorkersInv`: a process and its reader thread come and go together, and a
thread that has reached end of file has cleared `running_`. `StoppedInv`: what each call
has already stopped at each place; in particular with cleanup off no cleanup process
exists except inside the call that is stopping it.

*Words.* `OnlyOwnWords` speaks of `inserted` alone. `WordsInv` carries it back to its
source: every text of the controller holds words of its own dictation; a transcript in
the pipe holds words of the session whose number it bears; a cleanup request or answer
whose number is the active one holds words of this dictation, and no number exceeds the
last one given. This is preserved because each step takes `ctl` to a state in
`Later(ctl)`: numbers are never reused, and while a request stays active its dictation
only grows.

*The promise.* A refinement step is easy to state for the insertion itself and hard for
everything before it: that the text inserted is *all* of the dictation depends on every
recording of it being closed. `PromiseInv` is about one recording session, the one that
was numbered last. Nothing of an earlier one is on its way any more; the last one is in
one place only, as a `start` among the commands, in the worker, or in the events, whose
order is fixed; its words are unknown while it runs and known once it is reported.
When the controller is in no recording mode the queues are silent about sessions, so
what it holds as raw text is the whole dictation, and a cleanup answer is accepted only
for the request that covers it. The window's part, that a cancelled dictation is never
delivered, links the modes to the window's `session_active`.

*The microphone.* `MicrophoneMatchesMode` speaks of the moment when both queues are
empty, so its invariant (`MicInv`) says what has to be in them when a worker captures in
a mode that does not show it: `recording_started` is on its way, or a `stop` or
`cancel` that ends it. For `RawRecordsAsShown`, `LanguageInv` adds that a session, as a
command, as an event, or in the worker, has the language the window shows, unless a
restart is pending that will give it one that has.

*Waiting.* Each waiting mode waits for one message. `StrandInv` says that it is among the
events, that the command it answers is among the commands, or that the worker is in
the state that writes it; or else that an error is on its way, or the reader thread is
about to report that the process has ended. The wait for the cleanup rests on flags
instead: while neither `rewrite_ready_` nor `rewrite_unavailable_` is up, a cleanup worker
has something to report.

*The ring.* `SlotsDisjoint` speaks of one moment, but each thread works with an index of
the other that it loaded when its call began. The invariant `InOrder` puts six places
one after the other round the ring: the read index `push()` saw, the read index, the slot
`pop()` copies, the write index `pop()` saw, the write index, the slot `push()` is about
to write; and the way is never longer than the capacity. For the refinement, what a
`pop()` has copied is the beginning of what the indices enclose. Publishing an index is
then a `Put` or a `Take` of the queue, and every other step a loss or a stutter.

*Ring inside the worker.* Every step of `RuntimeSpec` is a step of `RingSpec` or leaves
the ring alone: `start()` clears it only when nobody is inside (`QuietInv`), which is why
the ring's theorems carry over. `QuietInv` ties the program counters of the threads to
the device, the stoppers and each other; it holds through `StopsCollide` because that
either ends the process or leaves one stopper behind.

*Samples.* What was pushed in this recording is what was read, waits, was dropped, or is
still to be written by the push in progress. `HeardInv` says that the engine has heard
all that was read but the block in hand, and `PromiseInv` that what `stop()` promised was
read or is in the ring, and heard once the thread is over. For the order, `SpokenInv`
numbers the samples along the whole way, read, in the array, or in the callback's block:
they go upwards and belong to this recording; and `BeginsInv` says that what the engine
heard is the beginning of what was read.

*Transcript.* `RegionsCoverRaw` counts: the letters covered by the regions and those in
the backlog are the letters finished with and those promoted. What is promoted begins
the hypothesis, and spans are numbered in order, so the last number of a snapshot finds
the spans it was made of, even after others were appended, and no answer is committed
over spans that its request did not have (`RegionsInv`). `CharInv` says that every text
that is kept is well-formed: the offsets at which texts are cut lie between characters,
and a part of a well-formed text between two such offsets is well-formed. For
`RequestsBounded`, `LimitsInv` bounds every chunk that promotion makes, so that a
request either was measured or holds one span. The helpers scan byte by byte, with
recursive functions; what they compute for every text follows as for the prompts of the
cleanup, below.

*Cleanup.* `EngineInv` keeps what `generate()` tested once: prompt and largest answer fit
together, the answer is no longer than that, and the command is still the one that was
tested. That the length of a prompt is a number at all needs induction over data: a field
is protected placeholder by placeholder, a recursive function. `SetInduction` (a set that
holds 0 and with a number the next holds all of them, from the well-foundedness of `<`)
and `RecursionExists` (a function defined from its previous value exists) are stated
with sets and functions in place of operators, which is what lets the provers use them.
That an answer holds only what was said follows from what restoring and validating
refuse, because nothing but `Complete` writes a result.

*Settings.* All rests on one fact about data, `ReadBack`: what `SaveSettings()` writes,
`LoadSettings()` reads back unchanged, for `Usable` settings; and whatever a file holds,
reading it makes usable settings (`ReadUsable`), which the windows keep. Then what is
about to be renamed over the file reads as the settings in memory.

*Insertion.* `TypedInv` has besides types what each stage knows of the clipboard and of
the focus: on Windows, and on X11 for a target with a `focus_window`, nobody but the
user or the window manager has moved the focus since it was looked at or set.
`TargetAlwaysGetsText` says no more than that; of the blind keys nothing can be proved.
A result is inserted once because nothing of the newest one was sent as long
as the session lasts or the first attempt runs (`Fresh`), and because a paste that waits
at its window is not also a request at DictScribe's (`Apart`). `PromiseInv` says of every
paste on its way that the clipboard holds its result or a later one, if it holds any.

The invariants were checked with TLC before they were proved. Left to TLC are:

- liveness (under fairness) and what needs ENABLED, which the prover cannot express;
- `EchoIsReturned`, which needs more than the code promises for every text: a dictated
  text that already looks like a placeholder would not come back.

## Not modelled

- Drawing and hit-testing (`win_overlay.cpp`, `win_d3d_renderer.cpp`,
  `settings_view.cpp`, `skia_surface.cpp`, `text_layout.cpp`, the settings and debug
  windows), the tray icon and the frame timer: graphics calls without state the
  dictation depends on. They are the largest part of the code that no module maps.
- Model discovery, the command line (which may override settings for one run), and the
  smoke test: done once before the start. Of the language catalogue only the canonical
  code of a language matters.
- `language_guard.cpp` and `dictation_normalizer.cpp`: linked into the tests only
  (`CMakeLists.txt:32-43`); the program does not call them.
- The speech engine, the language model, miniaudio, X11 and Win32 are external: they are
  modelled from the way the code uses them.
- JSON syntax, framing and malformed lines of the worker pipes: both ends are this
  program. Of the settings file, which users may edit, syntax is one fault.
- Status lines, error wording, audio levels, key grabs and key codes, and the fields of
  the pipeline debugger. `set_startup_error()` has no action of its own: it leaves the
  state that a failed first launch leaves.

What could follow: that `AsrRuntime` implements the one-step recording of `AsrWorker`
(their events differ in number: acknowledgements and levels would have to stutter)
and the overlay's life cycle on Windows.
