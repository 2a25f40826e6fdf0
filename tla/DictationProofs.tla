-------------------------- MODULE DictationProofs ---------------------------
(***************************************************************************)
(* Proofs about the dictation system, for every set of languages, every    *)
(* combination of faults and every bound: the types, the life of workers   *)
(* and reader threads, and that the words of dictations do not mix.        *)
(***************************************************************************)
EXTENDS DictationProperties, TLAPS

---------------------------------------------------------------------------
(* The helpers of the controller map controller states to controller        *)
(* states.                                                                  *)

\* The controller states in which the cleanup mode is k.
Controllers(k) == {s \in Controller : s.cleanup = k}

\* Every single assignment the helpers make keeps the record well typed, and the
\* cleanup mode as it is.
LEMMA HelpersTyped ==
  ASSUME NEW k, NEW s \in Controllers(k)
  PROVE  /\ SetError(s) \in Controllers(k)
         /\ ClearActiveRewrite(s) \in Controllers(k)
         /\ ResetTranscript(s) \in Controllers(k)
         /\ RefreshTranscript(s) \in Controllers(k)
         /\ UpdateReadyState(s) \in Controllers(k)
         /\ CompleteWithRawFallback(s) \in Controllers(k)
         /\ ClearTexts(s) \in Controllers(k)
<1>1. SetError(s) \in Controllers(k)
  BY DEF SetError, Controllers, Controller, Modes
<1>2. ClearActiveRewrite(s) \in Controllers(k)
  BY DEF ClearActiveRewrite, Controllers, Controller, NoRequest
<1>3. ResetTranscript(s) \in Controllers(k)
  BY DEF ResetTranscript, Controllers, Controller
<1>4. RefreshTranscript(s) \in Controllers(k)
  BY DEF RefreshTranscript, RawText, Controllers, Controller
<1>5. UpdateReadyState(s) \in Controllers(k)
  BY DEF UpdateReadyState, Controllers, Controller, Modes
<1>6. CompleteWithRawFallback(s) \in Controllers(k)
  BY DEF CompleteWithRawFallback, Controllers, Controller, Modes
<1>7. ClearTexts(s) \in Controllers(k)
  <2>1. ClearActiveRewrite(ResetTranscript(s)) \in Controllers(k)
    BY DEF ClearActiveRewrite, ResetTranscript, Controllers, Controller, NoRequest
  <2> QED
    BY <2>1 DEF ClearTexts, Controllers, Controller
<1> QED
  BY <1>1, <1>2, <1>3, <1>4, <1>5, <1>6, <1>7

\* What the commands on their way to the workers look like.
CommandsTyped ==
  /\ DOMAIN stdin = Workers
  /\ stdin["asr"] \in Seq(AsrCommand) /\ stdin["rewrite"] \in Seq(RewriteCommand)

\* Send() leaves one of the two controller states it is given.
LEMMA SendTyped ==
  ASSUME CommandsTyped, NEW w \in Workers, NEW c, NEW k, NEW s \in Controllers(k),
         NEW failed \in Controllers(k), Send(w, c, s, failed),
         w = "asr" => c \in AsrCommand, w = "rewrite" => c \in RewriteCommand
  PROVE  ctl' \in Controllers(k) /\ CommandsTyped'
<1>1. CASE Accepts(w)
  <2>1. ctl' = s /\ stdin' = [stdin EXCEPT ![w] = Append(@, c)]
    BY <1>1 DEF Send
  <2>2. CommandsTyped'
    BY <2>1 DEF CommandsTyped, Workers
  <2> QED
    BY <2>1, <2>2
<1>2. CASE ~Accepts(w)
  BY <1>2 DEF Send, Become, CommandsTyped
<1> QED
  BY <1>1, <1>2

\* A handler that only changes the controller keeps its commands well formed.
LEMMA BecomeTyped ==
  ASSUME CommandsTyped, NEW k, NEW s \in Controllers(k), Become(s)
  PROVE  ctl' \in Controllers(k) /\ CommandsTyped'
BY DEF Become, CommandsTyped

\* dispatch_final_cleanup_locked(), in all its outcomes.
LEMMA DispatchTyped ==
  ASSUME CommandsTyped, running \in [Workers -> BOOLEAN],
         NEW k, NEW s \in Controllers(k), DispatchFinalCleanup(s)
  PROVE  ctl' \in Controllers(k) /\ CommandsTyped'
<1> DEFINE id == s.lastRequest + 1
           t == [s EXCEPT !.lastRequest = id, !.active = id]
           dead == [ClearActiveRewrite(t) EXCEPT
                      !.unavailable = @ \/ ~running["rewrite"],
                      !.rewriteReady = @ /\ running["rewrite"]]
           c == [type |-> "rewrite", request |-> id, text |-> s.raw]
<1>1. id \in Nat /\ s.raw \in SUBSET Nat
  BY DEF Controllers, Controller
<1>2. t \in Controllers(k)
  BY <1>1 DEF Controllers, Controller
<1>3. dead \in Controllers(k)
  <2>1. ClearActiveRewrite(t) \in Controllers(k)
    BY <1>2, HelpersTyped
  <2> QED
    BY <2>1 DEF Controllers, Controller, Workers
<1>4. CompleteWithRawFallback(dead) \in Controllers(k)
  BY <1>3, HelpersTyped
<1>5. c \in RewriteCommand
  BY <1>1 DEF RewriteCommand
<1>6. Become(s) \/ Send("rewrite", c, t, CompleteWithRawFallback(dead))
  BY DEF DispatchFinalCleanup
<1> HIDE DEF id, t, dead, c
<1> QED
  BY <1>2, <1>4, <1>5, <1>6, SendTyped, BecomeTyped DEF Workers

\* finish_dictation_locked(), with cleanup off, loading, ready and unavailable.
LEMMA FinishTyped ==
  ASSUME CommandsTyped, running \in [Workers -> BOOLEAN],
         NEW k, NEW s \in Controllers(k), FinishDictation(s)
  PROVE  ctl' \in Controllers(k) /\ CommandsTyped'
<1> DEFINE t == ClearActiveRewrite(s)
           ai == [t EXCEPT !.confirm = TRUE]
           off == [t EXCEPT !.rewritten = t.raw, !.live = t.raw,
                            !.confirm = FALSE, !.mode = "Complete"]
<1>1. t \in Controllers(k)
  BY HelpersTyped
<1>2. ai \in Controllers(k) /\ off \in Controllers(k)
  <2> HIDE DEF t
  <2> QED BY <1>1 DEF Controllers, Controller, Modes
<1>3. t.cleanup \in CleanupModes /\ t.unavailable \in BOOLEAN /\ t.rewriteReady \in BOOLEAN
  <2> HIDE DEF t
  <2> QED BY <1>1 DEF Controllers, Controller
<1>4. CompleteWithRawFallback(ai) \in Controllers(k)
  BY <1>2, HelpersTyped
<1>5. \/ Become(CompleteWithRawFallback(ai))
      \/ DispatchFinalCleanup(ai)
      \/ Become(ai)
      \/ Become(off)
  BY <1>3 DEF FinishDictation, CleanupModes
<1> HIDE DEF t, ai, off
<1> QED
  BY <1>2, <1>4, <1>5, BecomeTyped, DispatchTyped

\* start_recording_locked(false), whether or not the send succeeds.
LEMMA StartSessionTyped ==
  ASSUME CommandsTyped, NEW k, NEW s \in Controllers(k), StartSession(s)
  PROVE  ctl' \in Controllers(k) /\ CommandsTyped'
<1> DEFINE id == s.lastSession + 1
           t == [s EXCEPT !.hypothesis = {}, !.session = id, !.lastSession = id,
                          !.dictation = @ \cup {id}, !.mode = "StartingRecording"]
           f == [t EXCEPT !.pending = FALSE]
<1>1. id \in Nat /\ s.dictation \in SUBSET Nat
  BY DEF Controllers, Controller
<1>2. t \in Controllers(k)
  BY <1>1 DEF Controllers, Controller, Modes
<1>3. f \in Controllers(k)
  BY <1>2 DEF Controllers, Controller
<1>4. SetError(f) \in Controllers(k)
  BY <1>3, HelpersTyped
<1>5. ToAsr("start", t) \in AsrCommand
  <2> HIDE DEF t
  <2> QED BY <1>2 DEF ToAsr, AsrCommand, Controllers, Controller
<1>6. Send("asr", ToAsr("start", t), t, SetError(f))
  BY DEF StartSession
<1> HIDE DEF t, f
<1> QED
  BY <1>2, <1>4, <1>5, <1>6, SendTyped DEF Workers

\* start_recording_locked(true): the same after the texts were cleared.
LEMMA StartDictationTyped ==
  ASSUME CommandsTyped, NEW k, NEW s \in Controllers(k), StartDictation(s)
  PROVE  ctl' \in Controllers(k) /\ CommandsTyped'
<1>1. ClearTexts(s) \in Controllers(k)
  BY HelpersTyped
<1>2. [ClearTexts(s) EXCEPT !.dictation = {}, !.pending = FALSE] \in Controllers(k)
  BY <1>1 DEF Controllers, Controller
<1> QED
  BY <1>2, StartSessionTyped DEF StartDictation

\* stop_for_language_change_locked().
LEMMA StopTyped ==
  ASSUME CommandsTyped, NEW k, NEW s \in Controllers(k), StopForLanguageChange(s)
  PROVE  ctl' \in Controllers(k) /\ CommandsTyped'
<1> DEFINE t == [s EXCEPT !.pending = TRUE]
           f == [t EXCEPT !.mode = "Finalizing"]
           g == [f EXCEPT !.pending = FALSE]
<1>1. t \in Controllers(k)
  BY DEF Controllers, Controller
<1>2. f \in Controllers(k) /\ g \in Controllers(k)
  BY <1>1 DEF Controllers, Controller, Modes
<1>3. SetError(g) \in Controllers(k)
  BY <1>2, HelpersTyped
<1>4. ToAsr("stop", f) \in AsrCommand
  <2> HIDE DEF f
  <2> QED BY <1>2 DEF ToAsr, AsrCommand, Controllers, Controller
<1>5. Become(t) \/ Send("asr", ToAsr("stop", f), f, SetError(g))
  BY DEF StopForLanguageChange
<1> HIDE DEF t, f, g
<1> QED
  BY <1>1, <1>2, <1>3, <1>4, <1>5, SendTyped, BecomeTyped DEF Workers

---------------------------------------------------------------------------
(* The message handlers and the calls of the UI thread.                    *)

\* handle_asr_message(), one step per type of message.
LEMMA AsrHandlerTyped ==
  ASSUME TypeOK, NEW m \in AsrEvent, HandleAsrMessage(m)
  PROVE  ctl' \in Controllers(ctl.cleanup) /\ CommandsTyped'
<1>1. CommandsTyped /\ ctl \in Controllers(ctl.cleanup) /\ running \in [Workers -> BOOLEAN]
  BY DEF TypeOK, PipesTypeOK, ControllerTypeOK, CommandsTyped, Controllers
<1>2. m.text \in SUBSET Nat
  BY DEF AsrEvent
<1>3. CASE AsrReady(m)
  <2> DEFINE s == [ctl EXCEPT !.asrReady = TRUE]
  <2>1. s \in Controllers(ctl.cleanup)
    BY <1>1 DEF Controllers, Controller
  <2>2. UpdateReadyState(s) \in Controllers(ctl.cleanup)
    BY <2>1, HelpersTyped
  <2> QED
    BY <1>1, <1>3, <2>2, BecomeTyped DEF AsrReady
<1>4. CASE RecordingStarted(m)
  <2> DEFINE s == [ctl EXCEPT !.mode = "Recording"]
  <2>1. s \in Controllers(ctl.cleanup) /\ ctl.pending \in BOOLEAN
    BY <1>1 DEF Controllers, Controller, Modes
  <2>2. Become(ctl) \/ StopForLanguageChange(s) \/ Become(s)
    BY <1>4, <2>1 DEF RecordingStarted
  <2> HIDE DEF s
  <2> QED
    BY <1>1, <2>1, <2>2, BecomeTyped, StopTyped
<1>5. CASE TranscriptUpdate(m)
  <2> DEFINE s == [ctl EXCEPT !.hypothesis = m.text]
  <2>1. s \in Controllers(ctl.cleanup)
    BY <1>1, <1>2 DEF Controllers, Controller
  <2>2. RefreshTranscript(s) \in Controllers(ctl.cleanup)
    BY <2>1, HelpersTyped
  <2>3. Become(ctl) \/ Become(RefreshTranscript(s))
    BY <1>5 DEF TranscriptUpdate
  <2> HIDE DEF s
  <2> QED
    BY <1>1, <2>2, <2>3, BecomeTyped
<1>6. CASE RecordingFinalized(m)
  <2> DEFINE t == [ctl EXCEPT !.segments = @ \cup m.text, !.hypothesis = {}]
             u == [t EXCEPT !.raw = RawText(t)]
             s == RefreshTranscript(u)
             p == [s EXCEPT !.pending = FALSE]
             e == [ClearActiveRewrite(s) EXCEPT !.mode = "Complete"]
  <2>1. t \in Controllers(ctl.cleanup)
    BY <1>1, <1>2 DEF Controllers, Controller
  <2>2. u \in Controllers(ctl.cleanup)
    <3> HIDE DEF t
    <3> QED BY <2>1 DEF Controllers, Controller, RawText
  <2>3. s \in Controllers(ctl.cleanup)
    BY <2>2, HelpersTyped
  <2>4. p \in Controllers(ctl.cleanup) /\ e \in Controllers(ctl.cleanup) /\ s.pending \in BOOLEAN
    <3> HIDE DEF s
    <3>1. ClearActiveRewrite(s) \in Controllers(ctl.cleanup)
      BY <2>3, HelpersTyped
    <3> QED
      BY <2>3, <3>1 DEF Controllers, Controller, Modes
  <2>5. Become(ctl) \/ StartSession(p) \/ Become(e) \/ FinishDictation(s)
    BY <1>6, <2>4 DEF RecordingFinalized
  <2> HIDE DEF t, u, s, p, e
  <2> QED
    BY <1>1, <2>3, <2>4, <2>5, BecomeTyped, StartSessionTyped, FinishTyped
<1>7. CASE RecordingCancelled(m)
  <2> DEFINE s == [ClearTexts(ctl) EXCEPT !.mode = "Ready", !.pending = FALSE,
                                          !.session = NoSession, !.dictation = {}]
  <2>1. ClearTexts(ctl) \in Controllers(ctl.cleanup)
    BY <1>1, HelpersTyped
  <2>2. s \in Controllers(ctl.cleanup)
    BY <2>1 DEF Controllers, Controller, Modes, NoSession
  <2> QED
    BY <1>1, <1>7, <2>2, BecomeTyped DEF RecordingCancelled
<1>8. CASE AsrError(m)
  <2> DEFINE s == [ctl EXCEPT !.mode = "Ready", !.session = NoSession]
  <2>1. s \in Controllers(ctl.cleanup)
    BY <1>1 DEF Controllers, Controller, Modes, NoSession
  <2>2. SetError(ctl) \in Controllers(ctl.cleanup)
    BY <1>1, HelpersTyped
  <2>3. Become(s) \/ Become(SetError(ctl))
    BY <1>8 DEF AsrError
  <2> HIDE DEF s
  <2> QED
    BY <1>1, <2>1, <2>2, <2>3, BecomeTyped
<1> QED
  BY <1>3, <1>4, <1>5, <1>6, <1>7, <1>8 DEF HandleAsrMessage

\* handle_rewrite_message(), one step per type of message.
LEMMA RewriteHandlerTyped ==
  ASSUME TypeOK, NEW m \in RewriteEvent, HandleRewriteMessage(m)
  PROVE  ctl' \in Controllers(ctl.cleanup) /\ CommandsTyped'
<1>1. CommandsTyped /\ ctl \in Controllers(ctl.cleanup) /\ running \in [Workers -> BOOLEAN]
  BY DEF TypeOK, PipesTypeOK, ControllerTypeOK, CommandsTyped, Controllers
<1>2. m.text \in SUBSET Nat
  BY DEF RewriteEvent
<1>3. CASE ctl.cleanup # "Ai"
  BY <1>1, <1>3, BecomeTyped DEF HandleRewriteMessage
<1>4. CASE RewriteReady(m)
  <2> DEFINE s == [ctl EXCEPT !.unavailable = FALSE, !.rewriteReady = TRUE]
  <2>1. s \in Controllers(ctl.cleanup)
    BY <1>1 DEF Controllers, Controller
  <2>2. DispatchFinalCleanup(s) \/ Become(s)
    BY <1>4 DEF RewriteReady
  <2> HIDE DEF s
  <2> QED
    BY <1>1, <2>1, <2>2, BecomeTyped, DispatchTyped
<1>5. CASE RewriteCompleted(m)
  <2> DEFINE s == ClearActiveRewrite(ctl)
             t == [s EXCEPT !.rewritten = m.text, !.live = m.text,
                            !.confirm = TRUE, !.mode = "Complete"]
  <2>1. s \in Controllers(ctl.cleanup)
    BY <1>1, HelpersTyped
  <2>2. CompleteWithRawFallback(s) \in Controllers(ctl.cleanup)
    BY <2>1, HelpersTyped
  <2>3. t \in Controllers(ctl.cleanup)
    <3> HIDE DEF s
    <3> QED BY <1>2, <2>1 DEF Controllers, Controller, Modes
  <2>4. Become(ctl) \/ Become(CompleteWithRawFallback(s)) \/ Become(t)
    BY <1>5 DEF RewriteCompleted
  <2> HIDE DEF s, t
  <2> QED
    BY <1>1, <2>2, <2>3, <2>4, BecomeTyped
<1>6. CASE RewriteError(m)
  <2> DEFINE fatal == m.code \in FatalCodes
             s == [ClearActiveRewrite(ctl) EXCEPT
                     !.unavailable = @ \/ fatal, !.rewriteReady = @ /\ ~fatal]
  <2>1. ClearActiveRewrite(ctl) \in Controllers(ctl.cleanup)
    BY <1>1, HelpersTyped
  <2>2. s \in Controllers(ctl.cleanup)
    <3> HIDE DEF fatal
    <3> QED BY <2>1 DEF Controllers, Controller
  <2>3. CompleteWithRawFallback(s) \in Controllers(ctl.cleanup)
    BY <2>2, HelpersTyped
  <2>4. Become(s) \/ Become(CompleteWithRawFallback(s))
    BY <1>6 DEF RewriteError
  <2> HIDE DEF s
  <2> QED
    BY <1>1, <2>2, <2>3, <2>4, BecomeTyped
<1> QED
  BY <1>3, <1>4, <1>5, <1>6 DEF HandleRewriteMessage

\* toggle_recording().
LEMMA ToggleTyped ==
  ASSUME TypeOK, ToggleRecording
  PROVE  ctl' \in Controllers(ctl.cleanup) /\ CommandsTyped'
<1> DEFINE f == [ctl EXCEPT !.mode = "Finalizing"]
<1>1. CommandsTyped /\ ctl \in Controllers(ctl.cleanup)
  BY DEF TypeOK, PipesTypeOK, ControllerTypeOK, CommandsTyped, Controllers
<1>2. f \in Controllers(ctl.cleanup)
  BY <1>1 DEF Controllers, Controller, Modes
<1>3. SetError(f) \in Controllers(ctl.cleanup)
  BY <1>2, HelpersTyped
<1>4. ToAsr("stop", f) \in AsrCommand
  <2> HIDE DEF f
  <2> QED BY <1>2 DEF ToAsr, AsrCommand, Controllers, Controller
<1>5. \/ StartDictation(ctl)
      \/ Send("asr", ToAsr("stop", f), f, SetError(f))
      \/ Become(ctl)
  BY DEF ToggleRecording
<1> HIDE DEF f
<1> QED
  BY <1>1, <1>2, <1>3, <1>4, <1>5, SendTyped, BecomeTyped, StartDictationTyped DEF Workers

\* cancel_recording().
LEMMA CancelTyped ==
  ASSUME TypeOK, CancelRecording
  PROVE  ctl' \in Controllers(ctl.cleanup) /\ CommandsTyped'
<1> DEFINE c == [ctl EXCEPT !.mode = "Cancelling"]
           d == [ClearTexts(ctl) EXCEPT !.mode = "Ready", !.session = NoSession,
                                        !.dictation = {}]
<1>1. CommandsTyped /\ ctl \in Controllers(ctl.cleanup)
  BY DEF TypeOK, PipesTypeOK, ControllerTypeOK, CommandsTyped, Controllers
<1>2. c \in Controllers(ctl.cleanup)
  BY <1>1 DEF Controllers, Controller, Modes
<1>3. SetError(c) \in Controllers(ctl.cleanup)
  BY <1>2, HelpersTyped
<1>4. ToAsr("cancel", c) \in AsrCommand
  <2> HIDE DEF c
  <2> QED BY <1>2 DEF ToAsr, AsrCommand, Controllers, Controller
<1>5. d \in Controllers(ctl.cleanup)
  <2>1. ClearTexts(ctl) \in Controllers(ctl.cleanup)
    BY <1>1, HelpersTyped
  <2> QED
    BY <2>1 DEF Controllers, Controller, Modes, NoSession
<1>6. Become(d) \/ Send("asr", ToAsr("cancel", c), c, SetError(c)) \/ Become(ctl)
  BY DEF CancelRecording
<1> HIDE DEF c, d
<1> QED
  BY <1>1, <1>2, <1>3, <1>4, <1>5, <1>6, SendTyped, BecomeTyped DEF Workers

\* set_language().
LEMMA SetLanguageTyped ==
  ASSUME TypeOK, NEW language \in Language, SetLanguage(language)
  PROVE  ctl' \in Controllers(ctl.cleanup) /\ CommandsTyped'
<1> DEFINE s == [ctl EXCEPT !.language = language]
<1>1. CommandsTyped /\ ctl \in Controllers(ctl.cleanup)
  BY DEF TypeOK, PipesTypeOK, ControllerTypeOK, CommandsTyped, Controllers
<1>2. s \in Controllers(ctl.cleanup)
  BY <1>1 DEF Controllers, Controller
<1>3. StopForLanguageChange(s) \/ Become(s)
  BY DEF SetLanguage
<1> HIDE DEF s
<1> QED
  BY <1>1, <1>2, <1>3, StopTyped, BecomeTyped

\* The locked section of set_cleanup_mode().
LEMMA SetCleanupModeTyped ==
  ASSUME TypeOK, NEW mode \in CleanupModes, SetCleanupMode(mode)
  PROVE  /\ ctl' \in Controller /\ CommandsTyped'
         /\ ui' \in [pc : UiPlaces, op : Operations]
<1> DEFINE s == [ClearActiveRewrite(ctl) EXCEPT
                   !.cleanup = mode, !.unavailable = FALSE,
                   !.rewriteReady = @ /\ mode # "Off"]
<1>1. CommandsTyped /\ ctl \in Controller
  BY DEF TypeOK, PipesTypeOK, ControllerTypeOK, CommandsTyped, Controllers
<1>2. ClearActiveRewrite(ctl) \in Controller
  BY <1>1, HelpersTyped DEF Controllers
<1>3. s \in Controller
  BY <1>2 DEF Controller
<1>4. ctl' \in Controller /\ CommandsTyped'
  BY <1>1, <1>3, BecomeTyped DEF Controllers, SetCleanupMode
<1> QED
  BY <1>4 DEF SetCleanupMode, UiPlaces, Operations

\* The locked section of set_asr_device().
LEMMA SetAsrDeviceTyped ==
  ASSUME TypeOK, NEW d \in Device, SetAsrDevice(d)
  PROVE  /\ ctl' \in Controller /\ CommandsTyped'
         /\ ui' \in [pc : UiPlaces, op : Operations]
<1> DEFINE s == [ctl EXCEPT !.device["asr"] = d, !.asrReady = FALSE, !.mode = "Starting"]
<1>1. CommandsTyped /\ ctl \in Controller
  BY DEF TypeOK, PipesTypeOK, ControllerTypeOK, CommandsTyped, Controllers
<1>2. s \in Controller
  BY <1>1 DEF Controller, Modes, Workers
<1>3. ctl' \in Controller /\ CommandsTyped'
  BY <1>1, <1>2, BecomeTyped DEF Controllers, SetAsrDevice
<1> QED
  BY <1>3 DEF SetAsrDevice, UiPlaces, Operations

\* The locked section of set_rewrite_device().
LEMMA SetRewriteDeviceTyped ==
  ASSUME TypeOK, NEW d \in Device, SetRewriteDevice(d)
  PROVE  /\ ctl' \in Controller /\ CommandsTyped'
         /\ ui' \in [pc : UiPlaces, op : Operations]
<1> DEFINE s == [ctl EXCEPT !.device["rewrite"] = d]
           t == [ClearActiveRewrite(s) EXCEPT !.rewriteReady = FALSE, !.unavailable = FALSE]
<1>1. /\ CommandsTyped /\ ctl \in Controller
      /\ ui \in [pc : UiPlaces, op : Operations]
  BY DEF TypeOK, PipesTypeOK, ControllerTypeOK, CommandsTyped, Controllers
<1>2. s \in Controller
  BY <1>1 DEF Controller, Workers
<1>3. t \in Controller
  <2>1. ClearActiveRewrite(s) \in Controller
    BY <1>2, HelpersTyped DEF Controllers
  <2> QED
    BY <2>1 DEF Controller
<1>4. \/ Become(t) /\ ui' = [pc |-> "shutdown", op |-> "rewrite_device"]
      \/ Become(s) /\ UNCHANGED ui
  BY DEF SetRewriteDevice
<1>5. ui' \in [pc : UiPlaces, op : Operations]
  BY <1>1, <1>4 DEF UiPlaces, Operations
<1> HIDE DEF s, t
<1> QED
  BY <1>1, <1>2, <1>3, <1>4, <1>5, BecomeTyped DEF Controllers

\* tick().
LEMMA TickTyped ==
  ASSUME TypeOK, Tick
  PROVE  ctl' \in Controllers(ctl.cleanup) /\ CommandsTyped'
<1>1. CommandsTyped /\ ctl \in Controllers(ctl.cleanup)
  BY DEF TypeOK, PipesTypeOK, ControllerTypeOK, CommandsTyped, Controllers
<1>2. ClearActiveRewrite(ctl) \in Controllers(ctl.cleanup)
  BY <1>1, HelpersTyped
<1>3. CompleteWithRawFallback(ClearActiveRewrite(ctl)) \in Controllers(ctl.cleanup)
  BY <1>2, HelpersTyped
<1> QED
  BY <1>1, <1>3, BecomeTyped DEF Tick

\* What the window inserts is a text with the dictation it belongs to.
LEMMA InsertTyped ==
  ASSUME TypeOK, InsertText
  PROVE  inserted' \in Seq([dictation : SUBSET Nat, text : SUBSET Nat])
<1> DEFINE Item == [dictation : SUBSET Nat, text : SUBSET Nat]
           item == [dictation |-> ctl.dictation, text |-> SnapshotText]
<1>1. SnapshotText \in SUBSET Nat /\ ctl.dictation \in SUBSET Nat
  BY DEF TypeOK, ControllerTypeOK, Controller, SnapshotText
<1>2. item \in Item
  BY <1>1
<1>3. inserted \in Seq(Item)
  BY DEF TypeOK, HostTypeOK
<1>4. inserted' = inserted \/ inserted' = Append(inserted, item)
  BY DEF InsertText
<1> HIDE DEF Item, item
<1>5. inserted' \in Seq(Item)
  BY <1>2, <1>3, <1>4
<1> QED
  BY <1>5 DEF Item

---------------------------------------------------------------------------
(* The steps of each actor.                                                *)

\* A step that sends at most commands and leaves the rest of the pipes alone.
LEMMA CommandsOnly ==
  ASSUME PipesTypeOK, CommandsTyped', UNCHANGED <<proc, running, stdout, reader, device>>
  PROVE  PipesTypeOK'
BY DEF PipesTypeOK, CommandsTyped

\* A step that leaves the pipes alone keeps their types.
LEMMA PipesUnchanged ==
  ASSUME PipesTypeOK, UNCHANGED pipes
  PROVE  PipesTypeOK'
BY DEF PipesTypeOK, pipes

\* What the user does, one step per hotkey and setting.
LEMMA UserStepTyped ==
  ASSUME TypeOK, UserStep, UNCHANGED workerVars
  PROVE  TypeOK'
<1>1. PipesTypeOK /\ ControllerTypeOK /\ HostTypeOK
  BY DEF TypeOK
<1>2. AsrTypeOK' /\ loaded' \in BOOLEAN
  BY DEF TypeOK, AsrTypeOK, workerVars
<1>3. CASE HotkeyInsert
  <2>1. PipesTypeOK' /\ ControllerTypeOK'
    BY <1>1, <1>3, PipesUnchanged DEF HotkeyInsert, ControllerTypeOK
  <2>2. HostTypeOK'
    BY <1>1, <1>3, InsertTyped DEF HotkeyInsert, HostTypeOK
  <2> QED
    BY <1>2, <2>1, <2>2 DEF TypeOK
<1>4. CASE HotkeyStart \/ HotkeyStop \/ HotkeyCancel
  <2>1. UNCHANGED <<pipes, ctl>>
    BY <1>4 DEF HotkeyStart, HotkeyStop, HotkeyCancel
  <2>2. PipesTypeOK' /\ ControllerTypeOK'
    BY <1>1, <1>4, <2>1, PipesUnchanged
    DEF HotkeyStart, HotkeyStop, HotkeyCancel, Call, ControllerTypeOK, UiPlaces, Operations
  <2>3. HostTypeOK'
    BY <1>1, <1>4 DEF HotkeyStart, HotkeyStop, HotkeyCancel, HostTypeOK, hostVars
  <2> QED
    BY <1>2, <2>2, <2>3 DEF TypeOK
<1>5. CASE \E l \in Language : SelectLanguage(l)
  <2>1. PICK l \in Language : SelectLanguage(l)
    BY <1>5
  <2>2. ctl' \in Controller /\ CommandsTyped'
    BY <2>1, SetLanguageTyped DEF Controllers, SelectLanguage
  <2>3. PipesTypeOK'
    BY <1>1, <2>1, <2>2, CommandsOnly DEF SelectLanguage
  <2>4. ControllerTypeOK' /\ HostTypeOK'
    BY <1>1, <2>1, <2>2 DEF SelectLanguage, ControllerTypeOK, HostTypeOK, hostVars
  <2> QED
    BY <1>2, <2>3, <2>4 DEF TypeOK
<1>6. CASE \E m \in CleanupModes : SelectCleanup(m)
  <2>1. PICK m \in CleanupModes : SelectCleanup(m)
    BY <1>6
  <2>2. ctl' \in Controller /\ CommandsTyped' /\ ui' \in [pc : UiPlaces, op : Operations]
    BY <2>1, SetCleanupModeTyped DEF SelectCleanup
  <2>3. PipesTypeOK'
    BY <1>1, <2>1, <2>2, CommandsOnly DEF SelectCleanup
  <2>4. ControllerTypeOK' /\ HostTypeOK'
    BY <1>1, <2>1, <2>2 DEF SelectCleanup, ControllerTypeOK, HostTypeOK, hostVars
  <2> QED
    BY <1>2, <2>3, <2>4 DEF TypeOK
<1>7. CASE \E d \in Device : SelectAsrDevice(d)
  <2>1. PICK d \in Device : SelectAsrDevice(d)
    BY <1>7
  <2>2. ctl' \in Controller /\ CommandsTyped' /\ ui' \in [pc : UiPlaces, op : Operations]
    BY <2>1, SetAsrDeviceTyped DEF SelectAsrDevice
  <2>3. PipesTypeOK'
    BY <1>1, <2>1, <2>2, CommandsOnly DEF SelectAsrDevice
  <2>4. ControllerTypeOK' /\ HostTypeOK'
    BY <1>1, <2>1, <2>2 DEF SelectAsrDevice, ControllerTypeOK, HostTypeOK, hostVars
  <2> QED
    BY <1>2, <2>3, <2>4 DEF TypeOK
<1>8. CASE \E d \in Device : SelectRewriteDevice(d)
  <2>1. PICK d \in Device : SelectRewriteDevice(d)
    BY <1>8
  <2>2. ctl' \in Controller /\ CommandsTyped' /\ ui' \in [pc : UiPlaces, op : Operations]
    BY <2>1, SetRewriteDeviceTyped DEF SelectRewriteDevice
  <2>3. PipesTypeOK'
    BY <1>1, <2>1, <2>2, CommandsOnly DEF SelectRewriteDevice
  <2>4. ControllerTypeOK' /\ HostTypeOK'
    BY <1>1, <2>1, <2>2 DEF SelectRewriteDevice, ControllerTypeOK, HostTypeOK, Workers
  <2> QED
    BY <1>2, <2>3, <2>4 DEF TypeOK
<1>9. CASE \E w \in Workers : SelectCurrentDevice(w)
  <2>1. PICK w \in Workers : SelectCurrentDevice(w)
    BY <1>9
  <2>2. ctl.device[w] \in Device
    BY <1>1 DEF ControllerTypeOK, Controller
  <2>3. PipesTypeOK' /\ ControllerTypeOK'
    BY <1>1, <2>1, PipesUnchanged DEF SelectCurrentDevice, ControllerTypeOK
  <2>4. HostTypeOK'
    BY <1>1, <2>1, <2>2 DEF SelectCurrentDevice, HostTypeOK
  <2> QED
    BY <1>2, <2>3, <2>4 DEF TypeOK
<1>10. CASE CloseWindow
  <2>1. PipesTypeOK' /\ ControllerTypeOK'
    BY <1>1, <1>10, PipesUnchanged
    DEF CloseWindow, Quit, ControllerTypeOK, UiPlaces, Operations
  <2>2. HostTypeOK'
    BY <1>1, <1>10 DEF CloseWindow, HostTypeOK, hostVars
  <2> QED
    BY <1>2, <2>1, <2>2 DEF TypeOK
<1> QED
  BY <1>3, <1>4, <1>5, <1>6, <1>7, <1>8, <1>9, <1>10 DEF UserStep

\* The call in progress is about one of the two workers.
LEMMA OpWorkerTyped == OpWorker \in Workers
BY DEF OpWorker, Workers

\* The calls of the UI thread, one step per place.
LEMMA UiStepTyped ==
  ASSUME TypeOK, UiStep, UNCHANGED workerVars
  PROVE  TypeOK'
<1>1. PipesTypeOK /\ ControllerTypeOK /\ HostTypeOK /\ OpWorker \in Workers
  BY OpWorkerTyped DEF TypeOK
<1>2. AsrTypeOK' /\ loaded' \in BOOLEAN
  BY DEF TypeOK, AsrTypeOK, workerVars
<1>3. CASE UiToggle
  <2>1. ctl' \in Controller /\ CommandsTyped'
    BY <1>3, ToggleTyped DEF Controllers, UiToggle
  <2>2. PipesTypeOK'
    BY <1>1, <1>3, <2>1, CommandsOnly DEF UiToggle
  <2>3. ControllerTypeOK' /\ HostTypeOK'
    BY <1>1, <1>3, <2>1
    DEF UiToggle, UiIdle, ControllerTypeOK, UiPlaces, Operations, HostTypeOK, hostVars
  <2> QED
    BY <1>2, <2>2, <2>3 DEF TypeOK
<1>4. CASE UiCancel
  <2>1. ctl' \in Controller /\ CommandsTyped'
    BY <1>4, CancelTyped DEF Controllers, UiCancel
  <2>2. PipesTypeOK'
    BY <1>1, <1>4, <2>1, CommandsOnly DEF UiCancel
  <2>3. ControllerTypeOK'
    BY <1>1, <1>4, <2>1 DEF UiCancel, UiIdle, ControllerTypeOK, UiPlaces, Operations
  <2>4. HostTypeOK'
    <3>1. ctl.dictation \in SUBSET Nat
      BY <1>1 DEF ControllerTypeOK, Controller
    <3> QED
      BY <1>1, <1>4, <3>1 DEF UiCancel, HostTypeOK
  <2> QED
    BY <1>2, <2>2, <2>3, <2>4 DEF TypeOK
<1>5. CASE UiSendShutdown /\ UNCHANGED hostVars
  <2>1. CommandsTyped /\ ctl \in Controller
    BY <1>1 DEF PipesTypeOK, CommandsTyped, ControllerTypeOK
  <2>2. /\ OpWorker = "asr" => ShutdownCommand(OpWorker) \in AsrCommand
        /\ OpWorker = "rewrite" => ShutdownCommand(OpWorker) \in RewriteCommand
    BY LanguageAssumption
    DEF ShutdownCommand, AsrCommand, RewriteCommand, NoSession, NoRequest
  <2>3. ctl' \in Controller /\ CommandsTyped'
    BY <1>1, <1>5, <2>1, <2>2, SendTyped DEF Controllers, UiSendShutdown
  <2>4. PipesTypeOK'
    BY <1>1, <1>5, <2>3, CommandsOnly DEF UiSendShutdown
  <2>5. ui' \in [pc : UiPlaces, op : Operations]
    BY <1>1, <1>5 DEF UiSendShutdown, ControllerTypeOK, UiPlaces, Operations
  <2> QED
    BY <1>1, <1>2, <1>5, <2>3, <2>4, <2>5 DEF TypeOK, ControllerTypeOK, HostTypeOK, hostVars
<1>6. CASE (UiCheckRunning \/ UiCloseInput \/ UiTerminate \/ UiJoin) /\ UNCHANGED hostVars
  <2>1. PipesTypeOK'
    <3>1. CASE UiCheckRunning
      BY <1>1, <3>1, PipesUnchanged DEF UiCheckRunning
    <3>2. CASE UiCloseInput
      BY <1>1, <3>2 DEF UiCloseInput, CloseInput, PipesTypeOK
    <3>3. CASE UiTerminate
      <4>1. proc' \in [Workers -> {"none", "alive", "exited"}]
        BY <1>1, <3>3 DEF UiTerminate, Exit, PipesTypeOK
      <4>2. CommandsTyped'
        BY <1>1, <3>3 DEF UiTerminate, Exit, PipesTypeOK, CommandsTyped, Workers
      <4> QED
        BY <1>1, <3>3, <4>1, <4>2 DEF UiTerminate, PipesTypeOK, CommandsTyped
    <3>4. CASE UiJoin
      BY <1>1, <3>4 DEF UiJoin, Join, PipesTypeOK
    <3> QED
      BY <1>6, <3>1, <3>2, <3>3, <3>4
  <2>2. ctl' = ctl
    BY <1>6 DEF UiCheckRunning, UiCloseInput, UiTerminate, UiJoin
  <2>3. ui' \in [pc : UiPlaces, op : Operations]
    BY <1>1, <1>6
    DEF UiCheckRunning, UiCloseInput, UiTerminate, UiJoin, UiIdle, ControllerTypeOK,
        UiPlaces, Operations
  <2> QED
    BY <1>1, <1>2, <1>6, <2>1, <2>2, <2>3 DEF TypeOK, ControllerTypeOK, HostTypeOK, hostVars
<1>7. CASE HostSpawnFails
  <2>1. ctl' \in Controller
    <3>1. ctl \in Controller /\ SetError(ctl) \in Controller
      BY <1>1, HelpersTyped DEF Controllers, ControllerTypeOK
    <3>2. /\ [ctl EXCEPT !.unavailable = TRUE] \in Controller
          /\ [ctl EXCEPT !.unavailable = TRUE, !.rewriteReady = FALSE] \in Controller
      BY <3>1 DEF Controller
    <3> QED
      BY <1>7, <3>1, <3>2 DEF HostSpawnFails, UiSpawnFails
  <2>2. PipesTypeOK'
    BY <1>1, <1>7, PipesUnchanged DEF HostSpawnFails, UiSpawnFails
  <2>3. ControllerTypeOK'
    BY <1>7, <2>1
    DEF HostSpawnFails, UiSpawnFails, UiIdle, ControllerTypeOK, UiPlaces, Operations
  <2>4. HostTypeOK'
    <3>1. ctl.device[OpWorker] \in Device
      BY <1>1 DEF ControllerTypeOK, Controller
    <3> QED
      BY <1>1, <1>7, <3>1 DEF HostSpawnFails, DeviceCallReturns, HostTypeOK
  <2> QED
    BY <1>2, <2>2, <2>3, <2>4 DEF TypeOK
<1> QED
  BY <1>3, <1>4, <1>5, <1>6, <1>7 DEF UiStep

\* A worker is started with empty pipes and fresh memory.
LEMMA SpawnStepTyped ==
  ASSUME TypeOK, SpawnStep
  PROVE  TypeOK'
<1>1. /\ PipesTypeOK /\ ControllerTypeOK /\ HostTypeOK /\ AsrTypeOK /\ loaded \in BOOLEAN
      /\ OpWorker \in Workers /\ ctl.device[OpWorker] \in Device
  BY OpWorkerTyped DEF TypeOK, ControllerTypeOK, Controller
<1>2. PipesTypeOK'
  <2>1. CommandsTyped'
    BY <1>1 DEF SpawnStep, HostSpawn, UiSpawn, Spawn, PipesTypeOK, CommandsTyped
  <2>2. /\ DOMAIN stdout' = Workers
        /\ stdout'["asr"] \in Seq(AsrEvent) /\ stdout'["rewrite"] \in Seq(RewriteEvent)
    BY <1>1 DEF SpawnStep, HostSpawn, UiSpawn, Spawn, PipesTypeOK
  <2> QED
    BY <1>1, <2>1, <2>2
    DEF SpawnStep, HostSpawn, UiSpawn, Spawn, PipesTypeOK, CommandsTyped
<1>3. ControllerTypeOK'
  BY <1>1
  DEF SpawnStep, HostSpawn, UiSpawn, UiIdle, ControllerTypeOK, UiPlaces, Operations
<1>4. HostTypeOK'
  BY <1>1 DEF SpawnStep, HostSpawn, DeviceCallReturns, HostTypeOK
<1>5. AsrTypeOK' /\ loaded' \in BOOLEAN
  <2>1. FreshAsr(DefaultLanguage) \in AsrMemory
    BY LanguageAssumption DEF FreshAsr, AsrMemory, AsrStates
  <2> QED
    BY <1>1, <2>1 DEF SpawnStep, AsrTypeOK
<1> QED
  BY <1>2, <1>3, <1>4, <1>5 DEF TypeOK

\* One turn of the main loop.
LEMMA LoopStepTyped ==
  ASSUME TypeOK, LoopStep, UNCHANGED workerVars
  PROVE  TypeOK'
<1>1. PipesTypeOK /\ ControllerTypeOK /\ HostTypeOK
  BY DEF TypeOK
<1>2. AsrTypeOK' /\ loaded' \in BOOLEAN
  BY DEF TypeOK, AsrTypeOK, workerVars
<1>3. CASE HostTick
  <2>1. ctl' \in Controller /\ CommandsTyped'
    BY <1>3, TickTyped DEF Controllers, HostTick
  <2>2. PipesTypeOK'
    BY <1>1, <1>3, <2>1, CommandsOnly DEF HostTick
  <2> QED
    BY <1>1, <1>2, <1>3, <2>1, <2>2
    DEF HostTick, TypeOK, ControllerTypeOK, HostTypeOK, hostVars
<1>4. CASE HostPoll
  <2>1. PipesTypeOK' /\ ControllerTypeOK'
    BY <1>1, <1>4, PipesUnchanged DEF HostPoll, ControllerTypeOK
  <2>2. /\ pendingDevice' \in [Workers -> Device \cup {"none"}]
        /\ savedDevice' \in [Workers -> Device]
    <3>1. ctl.device \in [Workers -> Device]
      BY <1>1 DEF ControllerTypeOK, Controller
    <3> QED
      BY <1>1, <1>4, <3>1 DEF HostPoll, ReconcileDevices, Committed, HostTypeOK
  <2>3. \/ InsertText /\ sessionActive' = FALSE
        \/ sessionActive' \in {sessionActive, FALSE} /\ UNCHANGED inserted
    BY <1>4 DEF HostPoll
  <2>4. HostTypeOK'
    BY <1>1, <1>4, <2>2, <2>3, InsertTyped DEF HostPoll, HostTypeOK
  <2> QED
    BY <1>2, <2>1, <2>4 DEF TypeOK
<1> QED
  BY <1>3, <1>4 DEF LoopStep

\* The reader thread of the speech worker.
LEMMA AsrReaderTyped ==
  ASSUME TypeOK, AsrReader, UNCHANGED workerVars
  PROVE  TypeOK'
<1>1. PipesTypeOK /\ ControllerTypeOK /\ HostTypeOK
  BY DEF TypeOK
<1>2. AsrTypeOK' /\ loaded' \in BOOLEAN /\ HostTypeOK'
  BY <1>1 DEF TypeOK, AsrTypeOK, workerVars, AsrReader, HostTypeOK, hostVars
<1>3. CASE AsrReaderLine
  <2>1. stdout["asr"] \in Seq(AsrEvent) /\ stdout["asr"] # <<>>
    BY <1>1, <1>3 DEF AsrReaderLine, NextLine, PipesTypeOK
  <2>2. Head(stdout["asr"]) \in AsrEvent /\ Tail(stdout["asr"]) \in Seq(AsrEvent)
    BY <2>1
  <2>3. ctl' \in Controller /\ CommandsTyped'
    BY <1>3, <2>2, AsrHandlerTyped DEF Controllers, AsrReaderLine
  <2>4. PipesTypeOK'
    BY <1>1, <1>3, <2>2, <2>3 DEF AsrReaderLine, NextLine, PipesTypeOK, CommandsTyped, Workers
  <2> QED
    BY <1>1, <1>2, <1>3, <2>3, <2>4 DEF TypeOK, ControllerTypeOK, AsrReaderLine
<1>4. CASE AsrReaderReport
  <2>1. AsrFailure("WORKER_EXITED", NoSession) \in AsrEvent
    BY DEF AsrFailure, AsrEvent, ErrorCode, NoSession
  <2>2. ctl' \in Controller /\ CommandsTyped'
    BY <1>4, <2>1, AsrHandlerTyped DEF Controllers, AsrReaderReport
  <2>3. PipesTypeOK'
    BY <1>1, <1>4, <2>2 DEF AsrReaderReport, LastReport, PipesTypeOK, CommandsTyped, Workers
  <2> QED
    BY <1>1, <1>2, <1>4, <2>2, <2>3 DEF TypeOK, ControllerTypeOK, AsrReaderReport
<1>5. CASE ReaderEnds("asr")
  <2>1. PipesTypeOK'
    BY <1>1, <1>5 DEF ReaderEnds, ReaderEof, PipesTypeOK, Workers
  <2> QED
    BY <1>1, <1>2, <1>5, <2>1 DEF TypeOK, ControllerTypeOK, ReaderEnds
<1> QED
  BY <1>3, <1>4, <1>5 DEF AsrReader

\* The reader thread of the cleanup worker.
LEMMA RewriteReaderTyped ==
  ASSUME TypeOK, RewriteReader, UNCHANGED workerVars
  PROVE  TypeOK'
<1>1. PipesTypeOK /\ ControllerTypeOK /\ HostTypeOK
  BY DEF TypeOK
<1>2. AsrTypeOK' /\ loaded' \in BOOLEAN /\ HostTypeOK'
  BY <1>1 DEF TypeOK, AsrTypeOK, workerVars, RewriteReader, HostTypeOK, hostVars
<1>3. CASE RewriteReaderLine
  <2>1. stdout["rewrite"] \in Seq(RewriteEvent) /\ stdout["rewrite"] # <<>>
    BY <1>1, <1>3 DEF RewriteReaderLine, NextLine, PipesTypeOK
  <2>2. Head(stdout["rewrite"]) \in RewriteEvent /\ Tail(stdout["rewrite"]) \in Seq(RewriteEvent)
    BY <2>1
  <2>3. ctl' \in Controller /\ CommandsTyped'
    BY <1>3, <2>2, RewriteHandlerTyped DEF Controllers, RewriteReaderLine
  <2>4. PipesTypeOK'
    BY <1>1, <1>3, <2>2, <2>3
    DEF RewriteReaderLine, NextLine, PipesTypeOK, CommandsTyped, Workers
  <2> QED
    BY <1>1, <1>2, <1>3, <2>3, <2>4 DEF TypeOK, ControllerTypeOK, RewriteReaderLine
<1>4. CASE RewriteReaderReport
  <2>1. RewriteFailure("WORKER_EXITED", NoRequest) \in RewriteEvent
    BY DEF RewriteFailure, RewriteEvent, ErrorCode, NoRequest
  <2>2. ctl' \in Controller /\ CommandsTyped'
    BY <1>4, <2>1, RewriteHandlerTyped DEF Controllers, RewriteReaderReport
  <2>3. PipesTypeOK'
    BY <1>1, <1>4, <2>2
    DEF RewriteReaderReport, LastReport, PipesTypeOK, CommandsTyped, Workers
  <2> QED
    BY <1>1, <1>2, <1>4, <2>2, <2>3 DEF TypeOK, ControllerTypeOK, RewriteReaderReport
<1>5. CASE ReaderEnds("rewrite")
  <2>1. PipesTypeOK'
    BY <1>1, <1>5 DEF ReaderEnds, ReaderEof, PipesTypeOK, Workers
  <2> QED
    BY <1>1, <1>2, <1>5, <2>1 DEF TypeOK, ControllerTypeOK, ReaderEnds
<1> QED
  BY <1>3, <1>4, <1>5 DEF RewriteReader

\* What the speech worker writes are events.
LEMMA EmitAsrTyped ==
  ASSUME PipesTypeOK, NEW events \in Seq(AsrEvent), EmitAsr(events)
  PROVE  /\ DOMAIN stdout' = Workers
         /\ stdout'["asr"] \in Seq(AsrEvent) /\ stdout'["rewrite"] \in Seq(RewriteEvent)
         /\ running' \in [Workers -> BOOLEAN]
         /\ reader' \in [Workers -> {"none", "reading", "reporting", "done"}]
         /\ device' \in [Workers -> Device]
BY DEF PipesTypeOK, EmitAsr, Workers

\* The speech worker reads a well-typed command and leaves well-typed ones.
LEMMA ReadCommandTyped ==
  ASSUME PipesTypeOK, NEW types, ReadCommand(types)
  PROVE  Command \in AsrCommand /\ CommandsTyped' /\ UNCHANGED proc
<1>1. stdin["asr"] \in Seq(AsrCommand) /\ stdin["asr"] # <<>>
  BY DEF PipesTypeOK, ReadCommand
<1>2. Command \in AsrCommand /\ Tail(stdin["asr"]) \in Seq(AsrCommand)
  BY <1>1 DEF Command
<1> QED
  BY <1>2 DEF PipesTypeOK, ReadCommand, CommandsTyped, Workers

\* A process that ends leaves its pipes well formed.
LEMMA ExitTyped ==
  ASSUME PipesTypeOK, NEW w \in Workers, Exit(w)
  PROVE  proc' \in [Workers -> {"none", "alive", "exited"}] /\ CommandsTyped'
<1>1. proc' \in [Workers -> {"none", "alive", "exited"}]
  BY DEF PipesTypeOK, Exit
<1>2. CommandsTyped'
  BY DEF PipesTypeOK, Exit, CommandsTyped, Workers
<1> QED
  BY <1>1, <1>2

\* Messages of the speech worker with well-typed fields.
LEMMA AsrEventsTyped ==
  ASSUME NEW session \in Nat, NEW text \in SUBSET Nat
  PROVE  \A type \in {"ready", "recording_started", "transcript_update",
                       "recording_finalized", "recording_cancelled"} :
           AsrMessage(type, session, text) \in AsrEvent
BY DEF AsrMessage, AsrEvent, ErrorCode

\* The errors of the speech worker are events of the protocol.
LEMMA AsrFailuresTyped ==
  ASSUME NEW session \in Nat, NEW code \in ErrorCode
  PROVE  AsrFailure(code, session) \in AsrEvent
BY DEF AsrFailure, AsrEvent

\* The pipes after a step of the speech worker, from what it read and wrote.
LEMMA AsrPipesTyped ==
  ASSUME PipesTypeOK, NEW events \in Seq(AsrEvent), EmitAsr(events), CommandsTyped',
         proc' \in [Workers -> {"none", "alive", "exited"}]
  PROVE  PipesTypeOK'
BY EmitAsrTyped DEF PipesTypeOK, CommandsTyped

\* The main thread of the speech worker, one step per command.
LEMMA AsrMainTyped ==
  ASSUME TypeOK, AsrMainThread
  PROVE  PipesTypeOK' /\ AsrTypeOK'
<1>1. /\ PipesTypeOK /\ CommandsTyped /\ asr \in AsrMemory /\ said \in SUBSET Nat
      /\ asr.session \in Nat
      /\ proc \in [Workers -> {"none", "alive", "exited"}]
  BY DEF TypeOK, PipesTypeOK, CommandsTyped, AsrTypeOK, AsrMemory
<1>2. [asr EXCEPT !.state = "Ready", !.session = 0, !.capturing = FALSE] \in AsrMemory
  BY <1>1 DEF AsrMemory, AsrStates
<1>3. CASE AsrLoadModel
  <2>1. <<AsrMessage("ready", 0, {})>> \in Seq(AsrEvent)
    BY AsrEventsTyped
  <2>2. CommandsTyped' /\ proc' = proc
    BY <1>1, <1>3 DEF AsrLoadModel, CommandsTyped
  <2>3. PipesTypeOK'
    BY <1>1, <1>3, <2>1, <2>2, AsrPipesTyped DEF AsrLoadModel
  <2>4. AsrTypeOK'
    BY <1>1, <1>3 DEF AsrLoadModel, AsrTypeOK, AsrMemory, AsrStates
  <2> QED
    BY <2>3, <2>4
<1>4. CASE AsrLoadFails
  <2>1. <<AsrFailure("MODEL_LOAD_FAILED", 0)>> \in Seq(AsrEvent)
    <3>1. AsrFailure("MODEL_LOAD_FAILED", 0) \in AsrEvent
      BY AsrFailuresTyped DEF ErrorCode
    <3> QED
      BY <3>1
  <2>2. CommandsTyped' /\ proc' \in [Workers -> {"none", "alive", "exited"}]
    BY <1>1, <1>4, ExitTyped DEF AsrLoadFails, Workers
  <2>3. PipesTypeOK'
    BY <1>1, <1>4, <2>1, <2>2, AsrPipesTyped DEF AsrLoadFails
  <2>4. AsrTypeOK'
    BY <1>1, <1>4 DEF AsrLoadFails, AsrTypeOK
  <2> QED
    BY <2>3, <2>4
<1>5. CASE AsrStart
  <2>1. Command \in AsrCommand /\ CommandsTyped' /\ proc' = proc
    BY <1>1, <1>5, ReadCommandTyped DEF AsrStart
  <2>2. Command.session \in Nat /\ Command.language \in Language
    BY <2>1 DEF AsrCommand
  <2>3. <<AsrMessage("recording_started", Command.session, {})>> \in Seq(AsrEvent)
    BY <2>2, AsrEventsTyped
  <2>4. PipesTypeOK'
    BY <1>1, <1>5, <2>1, <2>3, AsrPipesTyped DEF AsrStart
  <2>5. AsrTypeOK'
    BY <1>1, <1>5, <2>2 DEF AsrStart, AsrTypeOK, AsrMemory, AsrStates
  <2> QED
    BY <2>4, <2>5
<1>6. CASE AsrStartFails \/ AsrRejects
  <2>1. Command \in AsrCommand /\ CommandsTyped' /\ proc' = proc
    BY <1>1, <1>6, ReadCommandTyped DEF AsrStartFails, AsrRejects
  <2>2. Command.session \in Nat
    BY <2>1 DEF AsrCommand
  <2>3. \E code \in ErrorCode : EmitAsr(<<AsrFailure(code, Command.session)>>)
    BY <1>6 DEF AsrStartFails, AsrRejects, ErrorCode
  <2>4. PICK code \in ErrorCode : EmitAsr(<<AsrFailure(code, Command.session)>>)
    BY <2>3
  <2>5. <<AsrFailure(code, Command.session)>> \in Seq(AsrEvent)
    BY <2>2, AsrFailuresTyped
  <2>6. PipesTypeOK'
    BY <1>1, <2>1, <2>4, <2>5, AsrPipesTyped
  <2>7. AsrTypeOK'
    BY <1>1, <1>6 DEF AsrStartFails, AsrRejects, AsrTypeOK
  <2> QED
    BY <2>6, <2>7
<1>7. CASE AsrStop
  <2>1. CommandsTyped' /\ proc' = proc
    BY <1>1, <1>7, ReadCommandTyped DEF AsrStop, Matches
  <2>2. PICK text \in {{}, {asr.session}} :
          /\ EmitAsr((IF text = asr.transcript THEN <<>>
                      ELSE <<AsrMessage("transcript_update", asr.session, text)>>)
                     \o <<AsrMessage("recording_finalized", asr.session, text)>>)
          /\ said' = said \cup text
    BY <1>7 DEF AsrStop
  <2>3. text \in SUBSET Nat
    BY <1>1
  <2>4. /\ AsrMessage("transcript_update", asr.session, text) \in AsrEvent
        /\ AsrMessage("recording_finalized", asr.session, text) \in AsrEvent
    BY <1>1, <2>3, AsrEventsTyped
  <2>5. \E events \in Seq(AsrEvent) : EmitAsr(events)
    <3> DEFINE first == AsrMessage("transcript_update", asr.session, text)
               last == AsrMessage("recording_finalized", asr.session, text)
    <3>1. <<last>> \in Seq(AsrEvent) /\ <<first>> \in Seq(AsrEvent) /\ <<>> \in Seq(AsrEvent)
      BY <2>4
    <3>2. (IF text = asr.transcript THEN <<>> ELSE <<first>>) \o <<last>> \in Seq(AsrEvent)
      <4> HIDE DEF first, last
      <4> QED BY <3>1
    <3> QED
      BY <2>2, <3>2
  <2>6. PipesTypeOK'
    BY <1>1, <2>1, <2>5, AsrPipesTyped
  <2>7. AsrTypeOK'
    BY <1>1, <1>2, <1>7, <2>2, <2>3 DEF AsrStop, AsrBackToReady, AsrTypeOK
  <2> QED
    BY <2>6, <2>7
<1>8. CASE AsrStopFails
  <2>1. CommandsTyped' /\ proc' = proc
    BY <1>1, <1>8, ReadCommandTyped DEF AsrStopFails, Matches
  <2>2. <<AsrFailure("TRANSCRIPTION_FAILED", asr.session)>> \in Seq(AsrEvent)
    <3>1. AsrFailure("TRANSCRIPTION_FAILED", asr.session) \in AsrEvent
      BY <1>1, AsrFailuresTyped DEF ErrorCode
    <3> QED
      BY <3>1
  <2>3. PipesTypeOK'
    BY <1>1, <1>8, <2>1, <2>2, AsrPipesTyped DEF AsrStopFails
  <2>4. AsrTypeOK'
    BY <1>1, <1>2, <1>8 DEF AsrStopFails, AsrBackToReady, AsrTypeOK
  <2> QED
    BY <2>3, <2>4
<1>9. CASE AsrCancel
  <2>1. CommandsTyped' /\ proc' = proc
    BY <1>1, <1>9, ReadCommandTyped DEF AsrCancel, Matches
  <2>2. <<AsrMessage("recording_cancelled", asr.session, {})>> \in Seq(AsrEvent)
    BY <1>1, AsrEventsTyped
  <2>3. PipesTypeOK'
    BY <1>1, <1>9, <2>1, <2>2, AsrPipesTyped DEF AsrCancel
  <2>4. AsrTypeOK'
    BY <1>1, <1>2, <1>9 DEF AsrCancel, AsrBackToReady, AsrTypeOK
  <2> QED
    BY <2>3, <2>4
<1>10. CASE AsrQuit
  <2>1. CommandsTyped' /\ proc' \in [Workers -> {"none", "alive", "exited"}]
    BY <1>1, <1>10, ExitTyped DEF AsrQuit, Workers
  <2>2. PipesTypeOK'
    BY <1>1, <1>10, <2>1 DEF AsrQuit, PipesTypeOK, CommandsTyped
  <2> QED
    BY <1>1, <1>10, <2>2 DEF AsrQuit, AsrTypeOK
<1> QED
  BY <1>3, <1>4, <1>5, <1>6, <1>7, <1>8, <1>9, <1>10 DEF AsrMainThread

\* The feed thread of the speech worker.
LEMMA AsrFeederTyped ==
  ASSUME TypeOK, AsrFeedThread
  PROVE  PipesTypeOK' /\ AsrTypeOK'
<1>1. /\ PipesTypeOK /\ asr \in AsrMemory /\ said \in SUBSET Nat /\ asr.session \in Nat
      /\ CommandsTyped /\ proc \in [Workers -> {"none", "alive", "exited"}]
  BY DEF TypeOK, PipesTypeOK, CommandsTyped, AsrTypeOK, AsrMemory
<1>2. CommandsTyped' /\ proc' = proc
  BY <1>1 DEF AsrFeedThread, AsrFeed, AsrFeedFails, CommandsTyped
<1>3. /\ <<AsrMessage("transcript_update", asr.session, {asr.session})>> \in Seq(AsrEvent)
      /\ <<AsrFailure("TRANSCRIPTION_FAILED", asr.session)>> \in Seq(AsrEvent)
  <2>1. AsrMessage("transcript_update", asr.session, {asr.session}) \in AsrEvent
    BY <1>1 DEF AsrMessage, AsrEvent, ErrorCode
  <2>2. AsrFailure("TRANSCRIPTION_FAILED", asr.session) \in AsrEvent
    BY <1>1, AsrFailuresTyped DEF ErrorCode
  <2> QED
    BY <2>1, <2>2
<1>4. PipesTypeOK'
  BY <1>1, <1>2, <1>3, AsrPipesTyped DEF AsrFeedThread, AsrFeed, AsrFeedFails
<1>5. AsrTypeOK'
  <2>1. /\ [asr EXCEPT !.transcript = {asr.session}] \in AsrMemory
        /\ [asr EXCEPT !.capturing = FALSE] \in AsrMemory
    BY <1>1 DEF AsrMemory
  <2> QED
    BY <1>1, <2>1 DEF AsrFeedThread, AsrFeed, AsrFeedFails, AsrTypeOK
<1> QED
  BY <1>4, <1>5

\* The cleanup worker.
LEMMA RewriteStepTyped ==
  ASSUME TypeOK, RewriteWorkerStep
  PROVE  PipesTypeOK' /\ loaded' \in BOOLEAN
<1>1. /\ PipesTypeOK /\ CommandsTyped /\ loaded \in BOOLEAN
      /\ proc \in [Workers -> {"none", "alive", "exited"}]
  BY DEF TypeOK, PipesTypeOK, CommandsTyped
<1>2. ASSUME NEW e \in RewriteEvent, EmitRewrite(e), CommandsTyped',
             proc' \in [Workers -> {"none", "alive", "exited"}]
      PROVE  PipesTypeOK'
  BY <1>1, <1>2 DEF EmitRewrite, PipesTypeOK, CommandsTyped, Workers
<1>3. CASE RewriteLoadModel
  <2>1. RewriteMessage("ready", NoRequest, {}) \in RewriteEvent
    BY DEF RewriteMessage, RewriteEvent, ErrorCode, NoRequest
  <2> QED
    BY <1>1, <1>2, <1>3, <2>1 DEF RewriteLoadModel, CommandsTyped
<1>4. CASE RewriteLoadFails
  <2>1. RewriteFailure("MODEL_LOAD_FAILED", NoRequest) \in RewriteEvent
    BY DEF RewriteFailure, RewriteEvent, ErrorCode, NoRequest
  <2>2. CommandsTyped' /\ proc' \in [Workers -> {"none", "alive", "exited"}]
    BY <1>1, <1>4, ExitTyped DEF RewriteLoadFails, Workers
  <2> QED
    BY <1>1, <1>2, <1>4, <2>1, <2>2 DEF RewriteLoadFails
<1>5. CASE RewriteAnswer \/ RewriteAnswerFails
  <2>1. stdin["rewrite"] \in Seq(RewriteCommand) /\ stdin["rewrite"] # <<>> /\ ReadRequest
    BY <1>1, <1>5 DEF RewriteAnswer, RewriteAnswerFails, ReadRequest, PipesTypeOK
  <2>2. /\ Head(stdin["rewrite"]) \in RewriteCommand
        /\ Tail(stdin["rewrite"]) \in Seq(RewriteCommand)
    BY <2>1
  <2>3. CommandsTyped' /\ proc' = proc /\ loaded' = loaded
    BY <1>1, <2>1, <2>2 DEF ReadRequest, CommandsTyped, Workers
  <2> DEFINE request == Head(stdin["rewrite"])
  <2>4. request.request \in Nat /\ request.text \in SUBSET Nat
    BY <2>2 DEF RewriteCommand
  <2>5. /\ RewriteMessage("rewrite_completed", request.request, request.text) \in RewriteEvent
        /\ RewriteFailure("REWRITE_FAILED", request.request) \in RewriteEvent
    BY <2>4 DEF RewriteMessage, RewriteFailure, RewriteEvent, ErrorCode
  <2>6. \E e \in RewriteEvent : EmitRewrite(e)
    BY <1>5, <2>5 DEF RewriteAnswer, RewriteAnswerFails
  <2> QED
    BY <1>1, <1>2, <2>3, <2>6
<1>6. CASE RewriteQuit
  <2>1. CommandsTyped' /\ proc' \in [Workers -> {"none", "alive", "exited"}]
    BY <1>1, <1>6, ExitTyped DEF RewriteQuit, Workers
  <2> QED
    BY <1>1, <1>6, <2>1 DEF RewriteQuit, PipesTypeOK, CommandsTyped
<1> QED
  BY <1>3, <1>4, <1>5, <1>6 DEF RewriteWorkerStep

---------------------------------------------------------------------------
\* The types hold at launch.
LEMMA TypeOKInit == Init => TypeOK
<1> SUFFICES ASSUME Init PROVE TypeOK
  OBVIOUS
<1>1. PipesTypeOK
  <2>1. /\ DOMAIN stdin = Workers /\ DOMAIN stdout = Workers
        /\ stdin["asr"] = <<>> /\ stdin["rewrite"] = <<>>
        /\ stdout["asr"] = <<>> /\ stdout["rewrite"] = <<>>
    BY DEF Init, PipesInit, Workers
  <2>2. /\ proc \in [Workers -> {"none", "alive", "exited"}]
        /\ running \in [Workers -> BOOLEAN]
        /\ reader \in [Workers -> {"none", "reading", "reporting", "done"}]
        /\ device \in [Workers -> Device]
    BY DEF Init, PipesInit, Device
  <2> QED
    BY <2>1, <2>2 DEF PipesTypeOK
<1>2. ControllerTypeOK
  <2>1. ASSUME NEW cleanup \in InitialCleanup PROVE ControllerInit(cleanup) \in Controller
    BY LanguageAssumption, BoundsAssumption
    DEF ControllerInit, Controller, Modes, CleanupModes, Device, NoRequest, NoSession
  <2> QED
    BY <2>1 DEF Init, ControllerTypeOK, UiPlaces, Operations
<1>3. HostTypeOK
  <2>1. /\ pendingDevice \in [Workers -> Device \cup {"none"}]
        /\ savedDevice \in [Workers -> Device]
    BY DEF Init, HostInit, Device
  <2>2. sessionActive \in BOOLEAN /\ inserted = <<>> /\ cancelled \in SUBSET Nat
    BY DEF Init, HostInit
  <2> QED
    BY <2>1, <2>2 DEF HostTypeOK
<1>4. AsrTypeOK /\ loaded \in BOOLEAN
  BY LanguageAssumption DEF Init, AsrTypeOK, FreshAsr, AsrMemory, AsrStates
<1> QED
  BY <1>1, <1>2, <1>3, <1>4 DEF TypeOK

\* Every step of the system keeps the types.
LEMMA TypeOKStep == TypeOK /\ [Next]_vars => TypeOK'
<1> SUFFICES ASSUME TypeOK, [Next]_vars PROVE TypeOK'
  OBVIOUS
<1>1. CASE UserStep /\ UNCHANGED workerVars
  BY <1>1, UserStepTyped
<1>2. CASE (UiStep \/ LoopStep \/ AsrReader \/ RewriteReader) /\ UNCHANGED <<workerVars, used>>
  BY <1>2, UiStepTyped, LoopStepTyped, AsrReaderTyped, RewriteReaderTyped
<1>3. CASE SpawnStep
  BY <1>3, SpawnStepTyped
<1>4. CASE AsrMain
  BY <1>4, AsrMainTyped DEF AsrMain, TypeOK, ControllerTypeOK, HostTypeOK, hostVars
<1>5. CASE AsrFeeder
  BY <1>5, AsrFeederTyped DEF AsrFeeder, TypeOK, ControllerTypeOK, HostTypeOK, hostVars
<1>6. CASE RewriteStep
  BY <1>6, RewriteStepTyped
  DEF RewriteStep, TypeOK, ControllerTypeOK, HostTypeOK, AsrTypeOK, hostVars
<1>7. CASE Crash
  <2>1. PICK w \in Workers : Exit(w)
    BY <1>7 DEF Crash
  <2>2. CommandsTyped' /\ proc' \in [Workers -> {"none", "alive", "exited"}]
    BY <2>1, ExitTyped DEF TypeOK
  <2>3. PipesTypeOK'
    BY <1>7, <2>2 DEF Crash, TypeOK, PipesTypeOK, CommandsTyped
  <2> QED
    BY <1>7, <2>3
    DEF Crash, TypeOK, ControllerTypeOK, HostTypeOK, AsrTypeOK, hostVars, workerVars
<1>8. CASE Terminated \/ UNCHANGED vars
  BY <1>8
  DEF Terminated, vars, pipes, hostVars, workerVars, TypeOK, PipesTypeOK, ControllerTypeOK,
      HostTypeOK, AsrTypeOK
<1> QED
  BY <1>1, <1>2, <1>3, <1>4, <1>5, <1>6, <1>7, <1>8 DEF Next

\* Every message, mode, call and history the program can reach has its type:
\* no handler or call, however they interleave with crashes and restarts,
\* builds a state or a message another part would not understand.
THEOREM TypeCorrect == Spec => []TypeOK
<1> QED
  BY TypeOKInit, TypeOKStep, PTL DEF Spec

---------------------------------------------------------------------------
(* The life of a worker: what start(), stop() and read_loop() keep true     *)
(* between the three places that share its flag, its process and its thread. *)

\* Which calls the UI thread can be in at each place.
PlacesInv ==
  /\ ui.pc \in {"idle", "toggle", "cancel"} => ui.op = "none"
  /\ ui.op = "none" => ui.pc \in {"idle", "toggle", "cancel"}
  /\ ui.op \in {"launch_asr", "launch_rewrite"} => ui.pc = "spawn"
  /\ ui.pc = "spawn" => ui.op \in {"launch_asr", "launch_rewrite", "asr_device",
                                   "rewrite_device", "cleanup_ai"}
  /\ ui.pc = "check" => ui.op = "cleanup_ai"
  /\ ui.pc = "gone" => ui.op = "quit_rewrite"
  /\ ui.op \in {"launch_rewrite", "rewrite_device", "cleanup_ai"} => ctl.cleanup = "Ai"

\* A process and its reader thread come and go together, and a thread that has
\* reached the end of the pipe has cleared the flag.
WorkersInv ==
  \A w \in Workers :
    /\ proc[w] = "none" <=> reader[w] = "none"
    /\ reader[w] # "reading" => ~running[w]

\* What the UI thread has already stopped while it is inside a call.
StoppedInv ==
  /\ ui.pc = "join" => ~running[OpWorker]
  /\ ui.pc = "spawn" => proc[OpWorker] = "none"
  /\ ui.op = "launch_asr" => proc["rewrite"] = "none"
  /\ (ctl.cleanup = "Off" /\ ui.op # "cleanup_off") => proc["rewrite"] = "none"
  /\ (ui.op = "quit_rewrite" /\ ui.pc # "shutdown") => proc["asr"] = "none"
  /\ ui.pc = "gone" => proc["rewrite"] = "none"

LifecycleInv == PlacesInv /\ WorkersInv /\ StoppedInv

\* Only the calls of the UI thread, the reader threads and the processes matter.
LEMMA LifecycleFrame ==
  ASSUME LifecycleInv, UNCHANGED <<proc, running, reader, ui>>, ctl'.cleanup = ctl.cleanup
  PROVE  LifecycleInv'
BY DEF LifecycleInv, PlacesInv, WorkersInv, StoppedInv, OpWorker

\* A process may end at any time.
LEMMA LifecycleExit ==
  ASSUME TypeOK, LifecycleInv, NEW w \in Workers, Exit(w),
         UNCHANGED <<running, reader, ui, ctl>>
  PROVE  LifecycleInv'
<1>1. /\ proc \in [Workers -> {"none", "alive", "exited"}]
      /\ proc[w] = "alive" /\ proc' = [proc EXCEPT ![w] = "exited"]
  BY DEF TypeOK, PipesTypeOK, Exit
<1>2. \A v \in Workers : proc'[v] = "none" <=> proc[v] = "none"
  BY <1>1
<1> QED
  BY <1>2 DEF LifecycleInv, PlacesInv, WorkersInv, StoppedInv, OpWorker, Workers

\* The user starts a call only from the idle UI thread, with all workers paired.
LEMMA LifecycleUser ==
  ASSUME TypeOK, LifecycleInv, UserStep
  PROVE  LifecycleInv'
<1>1. CASE HotkeyInsert \/ \E w \in Workers : SelectCurrentDevice(w)
  BY <1>1, LifecycleFrame DEF HotkeyInsert, SelectCurrentDevice, pipes
<1>2. CASE \E l \in Language : SelectLanguage(l)
  BY <1>2, SetLanguageTyped, LifecycleFrame DEF SelectLanguage, Controllers
<1>3. CASE HotkeyStart \/ HotkeyStop \/ HotkeyCancel \/ CloseWindow
  BY <1>3
  DEF HotkeyStart, HotkeyStop, HotkeyCancel, CloseWindow, Quit, Idle, Call, pipes,
      LifecycleInv, PlacesInv, WorkersInv, StoppedInv, OpWorker
<1>4. CASE \E m \in CleanupModes : SelectCleanup(m)
  <2>1. PICK m \in CleanupModes : SelectCleanup(m)
    BY <1>4
  <2>2. ctl'.cleanup = m
    BY <2>1
    DEF SelectCleanup, SetCleanupMode, Become, ClearActiveRewrite, TypeOK, ControllerTypeOK,
        Controller
  <2> QED
    BY <2>1, <2>2
    DEF SelectCleanup, SetCleanupMode, Idle, CleanupModes, LifecycleInv, PlacesInv,
        WorkersInv, StoppedInv, OpWorker
<1>5. CASE \E d \in Device : SelectAsrDevice(d)
  <2>1. PICK d \in Device : SelectAsrDevice(d)
    BY <1>5
  <2>2. ctl'.cleanup = ctl.cleanup
    BY <2>1 DEF SelectAsrDevice, SetAsrDevice, Become, TypeOK, ControllerTypeOK, Controller
  <2> QED
    BY <2>1, <2>2
    DEF SelectAsrDevice, SetAsrDevice, Idle, LifecycleInv, PlacesInv, WorkersInv,
        StoppedInv, OpWorker
<1>6. CASE \E d \in Device : SelectRewriteDevice(d)
  <2>1. PICK d \in Device : SelectRewriteDevice(d)
    BY <1>6
  <2>2. ctl'.cleanup = ctl.cleanup
    BY <2>1
    DEF SelectRewriteDevice, SetRewriteDevice, Become, ClearActiveRewrite, TypeOK,
        ControllerTypeOK, Controller
  <2>3. \/ ctl.cleanup = "Ai" /\ ui' = [pc |-> "shutdown", op |-> "rewrite_device"]
        \/ UNCHANGED ui
    BY <2>1
    DEF SelectRewriteDevice, SetRewriteDevice, TypeOK, ControllerTypeOK, Controller
  <2> QED
    BY <2>1, <2>2, <2>3
    DEF SelectRewriteDevice, Idle, LifecycleInv, PlacesInv, WorkersInv, StoppedInv, OpWorker
<1> QED
  BY <1>1, <1>2, <1>3, <1>4, <1>5, <1>6 DEF UserStep

\* Each place of stop() moves on only when what it waits for has happened.
LEMMA LifecycleUi ==
  ASSUME TypeOK, LifecycleInv, UiStep
  PROVE  LifecycleInv'
<1>1. /\ OpWorker \in Workers /\ ui \in [pc : UiPlaces, op : Operations]
      /\ proc \in [Workers -> {"none", "alive", "exited"}]
      /\ running \in [Workers -> BOOLEAN]
      /\ reader \in [Workers -> {"none", "reading", "reporting", "done"}]
      /\ ctl \in Controller
  BY OpWorkerTyped DEF TypeOK, PipesTypeOK, ControllerTypeOK
<1>2. CASE UiToggle
  <2>1. ctl'.cleanup = ctl.cleanup
    BY <1>2, ToggleTyped DEF UiToggle, Controllers
  <2> QED
    BY <1>2, <2>1
    DEF UiToggle, UiIdle, LifecycleInv, PlacesInv, WorkersInv, StoppedInv, OpWorker
<1>3. CASE UiCancel
  <2>1. ctl'.cleanup = ctl.cleanup
    BY <1>3, CancelTyped DEF UiCancel, Controllers
  <2> QED
    BY <1>3, <2>1
    DEF UiCancel, UiIdle, LifecycleInv, PlacesInv, WorkersInv, StoppedInv, OpWorker
<1>4. CASE UiSendShutdown
  <2>1. ctl' = ctl
    BY <1>4 DEF UiSendShutdown, Send, Become
  <2> QED
    BY <1>1, <1>4, <2>1
    DEF UiSendShutdown, LifecycleInv, PlacesInv, WorkersInv, StoppedInv, OpWorker
<1>5. CASE UiCheckRunning
  BY <1>1, <1>5
  DEF UiCheckRunning, UiIdle, pipes, LifecycleInv, PlacesInv, WorkersInv, StoppedInv, OpWorker
<1>6. CASE UiCloseInput
  BY <1>1, <1>6
  DEF UiCloseInput, CloseInput, LifecycleInv, PlacesInv, WorkersInv, StoppedInv, OpWorker,
      Workers
<1>7. CASE UiTerminate
  BY <1>1, <1>7, LifecycleExit DEF UiTerminate
<1>8. CASE UiJoin
  <2>1. /\ ui.pc = "join" /\ ctl' = ctl /\ running' = running
        /\ proc' = [proc EXCEPT ![OpWorker] = "none"]
        /\ reader' = [reader EXCEPT ![OpWorker] = "none"]
    BY <1>8 DEF UiJoin, Join
  <2>2. WorkersInv'
    BY <1>1, <2>1 DEF LifecycleInv, WorkersInv, StoppedInv
  <2>3. PlacesInv'
    BY <1>1, <1>8, <2>1 DEF UiJoin, UiIdle, LifecycleInv, PlacesInv, Operations, UiPlaces
  <2>4. StoppedInv'
    BY <1>1, <1>8, <2>1
    DEF UiJoin, UiIdle, LifecycleInv, PlacesInv, StoppedInv, OpWorker, Workers, Operations
  <2> QED
    BY <2>2, <2>3, <2>4 DEF LifecycleInv
<1>9. CASE HostSpawnFails
  <2>1. ctl'.cleanup = ctl.cleanup
    BY <1>1, <1>9 DEF HostSpawnFails, UiSpawnFails, SetError, Controller
  <2> QED
    BY <1>1, <1>9, <2>1
    DEF HostSpawnFails, UiSpawnFails, UiIdle, pipes, LifecycleInv, PlacesInv, WorkersInv,
        StoppedInv, OpWorker
<1> QED
  BY <1>2, <1>3, <1>4, <1>5, <1>6, <1>7, <1>8, <1>9 DEF UiStep

\* Starting a worker gives it a process and a reader thread together.
LEMMA LifecycleSpawn ==
  ASSUME TypeOK, LifecycleInv, SpawnStep
  PROVE  LifecycleInv'
<1>1. /\ OpWorker \in Workers /\ ui \in [pc : UiPlaces, op : Operations]
      /\ proc \in [Workers -> {"none", "alive", "exited"}]
      /\ running \in [Workers -> BOOLEAN]
      /\ reader \in [Workers -> {"none", "reading", "reporting", "done"}]
      /\ ctl.cleanup \in CleanupModes
  BY OpWorkerTyped DEF TypeOK, PipesTypeOK, ControllerTypeOK, Controller
<1>2. /\ ui.pc = "spawn" /\ ctl' = ctl
      /\ proc' = [proc EXCEPT ![OpWorker] = "alive"]
      /\ running' = [running EXCEPT ![OpWorker] = TRUE]
      /\ reader' = [reader EXCEPT ![OpWorker] = "reading"]
      /\ ui' = IF ui.op = "launch_asr" /\ ctl.cleanup = "Ai"
                 THEN [ui EXCEPT !.op = "launch_rewrite"] ELSE UiIdle
  BY DEF SpawnStep, HostSpawn, UiSpawn, Spawn
<1>3. WorkersInv'
  BY <1>1, <1>2 DEF LifecycleInv, WorkersInv
<1>4. PlacesInv'
  BY <1>1, <1>2 DEF UiIdle, LifecycleInv, PlacesInv
<1>5. StoppedInv'
  BY <1>1, <1>2
  DEF UiIdle, LifecycleInv, PlacesInv, StoppedInv, OpWorker, Workers, CleanupModes
<1> QED
  BY <1>3, <1>4, <1>5 DEF LifecycleInv

\* The reader threads: a message changes no process, the end of the pipe clears
\* the flag.
LEMMA LifecycleReader ==
  ASSUME TypeOK, LifecycleInv, AsrReader \/ RewriteReader
  PROVE  LifecycleInv'
<1>1. /\ running \in [Workers -> BOOLEAN]
      /\ reader \in [Workers -> {"none", "reading", "reporting", "done"}]
      /\ stdout["asr"] \in Seq(AsrEvent) /\ stdout["rewrite"] \in Seq(RewriteEvent)
  BY DEF TypeOK, PipesTypeOK
<1>2. CASE AsrReaderLine
  <2>1. Head(stdout["asr"]) \in AsrEvent
    BY <1>1, <1>2 DEF AsrReaderLine, NextLine
  <2>2. ctl'.cleanup = ctl.cleanup
    BY <1>2, <2>1, AsrHandlerTyped DEF AsrReaderLine, Controllers
  <2> QED
    BY <1>2, <2>2, LifecycleFrame DEF AsrReaderLine, NextLine
<1>3. CASE RewriteReaderLine
  <2>1. Head(stdout["rewrite"]) \in RewriteEvent
    BY <1>1, <1>3 DEF RewriteReaderLine, NextLine
  <2>2. ctl'.cleanup = ctl.cleanup
    BY <1>3, <2>1, RewriteHandlerTyped DEF RewriteReaderLine, Controllers
  <2> QED
    BY <1>3, <2>2, LifecycleFrame DEF RewriteReaderLine, NextLine
<1>4. ASSUME NEW w \in Workers, LastReport(w), ctl'.cleanup = ctl.cleanup, UNCHANGED ui
      PROVE  LifecycleInv'
  BY <1>1, <1>4
  DEF LastReport, LifecycleInv, PlacesInv, WorkersInv, StoppedInv, OpWorker, Workers
<1>5. CASE AsrReaderReport
  <2>1. AsrFailure("WORKER_EXITED", NoSession) \in AsrEvent
    BY DEF AsrFailure, AsrEvent, ErrorCode, NoSession
  <2>2. ctl'.cleanup = ctl.cleanup
    BY <1>5, <2>1, AsrHandlerTyped DEF AsrReaderReport, Controllers
  <2> QED
    BY <1>4, <1>5, <2>2 DEF AsrReaderReport, Workers
<1>6. CASE RewriteReaderReport
  <2>1. RewriteFailure("WORKER_EXITED", NoRequest) \in RewriteEvent
    BY DEF RewriteFailure, RewriteEvent, ErrorCode, NoRequest
  <2>2. ctl'.cleanup = ctl.cleanup
    BY <1>6, <2>1, RewriteHandlerTyped DEF RewriteReaderReport, Controllers
  <2> QED
    BY <1>4, <1>6, <2>2 DEF RewriteReaderReport, Workers
<1>7. ASSUME NEW w \in Workers, ReaderEnds(w) PROVE LifecycleInv'
  <2>1. /\ reader[w] = "reading" /\ UNCHANGED <<proc, ctl, ui>>
        /\ running' = [running EXCEPT ![w] = FALSE]
        /\ reader' \in {[reader EXCEPT ![w] = "reporting"], [reader EXCEPT ![w] = "done"]}
    BY <1>7 DEF ReaderEnds, ReaderEof
  <2> QED
    BY <1>1, <2>1
    DEF LifecycleInv, PlacesInv, WorkersInv, StoppedInv, OpWorker, Workers
<1> QED
  BY <1>2, <1>3, <1>5, <1>6, <1>7 DEF AsrReader, RewriteReader, Workers

\* The worker processes: they only ever end.
LEMMA LifecycleWorkers ==
  ASSUME TypeOK, LifecycleInv, AsrMain \/ AsrFeeder \/ RewriteStep \/ Crash
  PROVE  LifecycleInv'
<1>1. UNCHANGED <<running, reader, ui, ctl>>
  BY
  DEF AsrMain, AsrMainThread, AsrLoadModel, AsrLoadFails, AsrStart, AsrStartFails, AsrRejects,
      AsrStop, AsrStopFails, AsrCancel, AsrQuit, AsrFeeder, AsrFeedThread, AsrFeed,
      AsrFeedFails, EmitAsr, RewriteStep, RewriteWorkerStep, RewriteLoadModel,
      RewriteLoadFails, RewriteAnswer, RewriteAnswerFails, RewriteQuit, EmitRewrite, Crash
<1>2. UNCHANGED proc \/ \E w \in Workers : Exit(w)
  BY
  DEF AsrMain, AsrMainThread, AsrLoadModel, AsrLoadFails, AsrStart, AsrStartFails, AsrRejects,
      AsrStop, AsrStopFails, AsrCancel, AsrQuit, AsrFeeder, AsrFeedThread, AsrFeed,
      AsrFeedFails, Matches, ReadCommand, RewriteStep, RewriteWorkerStep, RewriteLoadModel,
      RewriteLoadFails, RewriteAnswer, RewriteAnswerFails, RewriteQuit, ReadRequest, Crash,
      Workers
<1> QED
  BY <1>1, <1>2, LifecycleFrame, LifecycleExit

\* The invariant of starting and stopping holds at launch.
LEMMA LifecycleInit == Init => LifecycleInv
<1> SUFFICES ASSUME Init PROVE LifecycleInv
  OBVIOUS
<1> QED
  BY
  DEF Init, PipesInit, LifecycleInv, PlacesInv, WorkersInv, StoppedInv, OpWorker, Workers

\* Every step of the system keeps the invariant of starting and stopping.
LEMMA LifecycleStep == TypeOK /\ LifecycleInv /\ [Next]_vars => LifecycleInv'
<1> SUFFICES ASSUME TypeOK, LifecycleInv, [Next]_vars PROVE LifecycleInv'
  OBVIOUS
<1>1. CASE LoopStep
  <2>1. ctl'.cleanup = ctl.cleanup
    BY <1>1, TickTyped DEF LoopStep, HostTick, HostPoll, Controllers
  <2> QED
    BY <1>1, <2>1, LifecycleFrame DEF LoopStep, HostTick, HostPoll, pipes
<1>2. CASE Terminated \/ UNCHANGED vars
  BY <1>2, LifecycleFrame DEF Terminated, vars, pipes
<1> QED
  BY <1>1, <1>2, LifecycleUser, LifecycleUi, LifecycleSpawn, LifecycleReader,
     LifecycleWorkers
  DEF Next

\* Starting and stopping workers, the inductive invariant: the UI thread is in a
\* place its call can be in, a reader thread exists exactly for a process that was
\* started and not yet joined, and what stop() has passed stays stopped.
THEOREM Lifecycle == Spec => []LifecycleInv
<1> QED
  BY TypeCorrect, LifecycleInit, LifecycleStep, PTL DEF Spec

---------------------------------------------------------------------------
\* A worker is never started over an earlier one, and nothing of the workers is
\* left when the controller is destroyed: stop() has waited for the process and
\* joined its reader thread, however the two raced.
THEOREM ReadersAlwaysJoined == Spec => []ReadersJoined
<1>1. TypeOK /\ LifecycleInv => ReadersJoined
  <2> SUFFICES ASSUME TypeOK, LifecycleInv PROVE ReadersJoined
    OBVIOUS
  <2> QED
    BY OpWorkerTyped
    DEF LifecycleInv, PlacesInv, WorkersInv, StoppedInv, ReadersJoined, Workers
<1> QED
  BY <1>1, TypeCorrect, Lifecycle, PTL

\* With cleanup switched off and no call in progress there is no cleanup process,
\* whatever the earlier one was doing when set_cleanup_mode() stopped it.
THEOREM CleanupWorkerStopped == Spec => []CleanupOffStopsWorker
<1>1. LifecycleInv => CleanupOffStopsWorker
  BY DEF LifecycleInv, PlacesInv, StoppedInv, CleanupOffStopsWorker
<1> QED
  BY <1>1, Lifecycle, PTL

---------------------------------------------------------------------------
(***************************************************************************)
(* No word of one dictation is ever inserted as part of another.           *)
(*                                                                         *)
(* A text can reach the controller late: a transcript of a session that is *)
(* over, or the answer to a cleanup request that was given up.  The        *)
(* invariant says what the two identifier checks of the handlers rest on:  *)
(* a session number names one dictation, a request number is never reused, *)
(* and a request that is still active carries words of this dictation.     *)
(***************************************************************************)

\* Every text of the controller holds words of its dictation only.
OwnText(s) ==
  /\ s.segments \subseteq s.dictation /\ s.hypothesis \subseteq s.dictation
  /\ s.raw \subseteq s.dictation /\ s.live \subseteq s.dictation
  /\ s.rewritten \subseteq s.dictation
  /\ s.active <= s.lastRequest

OwnSession(s) == s.session # NoSession => s.session \in s.dictation

\* What is known, in controller state s, of a request or an answer m.
KnownRequest(m, s) ==
  /\ m.request <= s.lastRequest
  /\ (m.request = s.active /\ s.active # NoRequest) => m.text \subseteq s.dictation

CommandsOwn ==
  /\ \A i \in DOMAIN stdin["asr"] :
       stdin["asr"][i].type = "start" => stdin["asr"][i].session # NoSession
  /\ \A i \in DOMAIN stdin["rewrite"] : KnownRequest(stdin["rewrite"][i], ctl)

OwnEvent(m) == m.text \subseteq {m.session} \ {NoSession}
OwnEvents == {m \in AsrEvent : OwnEvent(m)}

AsrEventsOwn == \A i \in DOMAIN stdout["asr"] : OwnEvent(stdout["asr"][i])

AnswersOwn == \A i \in DOMAIN stdout["rewrite"] : KnownRequest(stdout["rewrite"][i], ctl)

WorkerOwn == asr.state = "Recording" => asr.session # NoSession

WordsInv ==
  /\ OwnText(ctl) /\ OwnSession(ctl) /\ CommandsOwn
  /\ AsrEventsOwn /\ AnswersOwn /\ WorkerOwn
  /\ OnlyOwnWords

---------------------------------------------------------------------------
(* The controller states that may follow s: no request number is reused,   *)
(* and while a request stays active its dictation only grows.              *)

Later(s) ==
  {t \in Controller :
     /\ OwnText(t)
     /\ s.lastRequest <= t.lastRequest
     /\ \/ t.active = NoRequest
        \/ s.lastRequest < t.active
        \/ t.active = s.active /\ s.dictation \subseteq t.dictation}

LaterOwn(s) == {t \in Later(s) : OwnSession(t)}

\* What was known of a request stays known.
LEMMA KnownLater ==
  ASSUME NEW s \in Controller, NEW t \in Later(s), NEW m, m.request \in Nat, KnownRequest(m, s)
  PROVE  KnownRequest(m, t)
BY DEF Later, Controller, KnownRequest, NoRequest

\* The helpers that clear or copy texts bring in no foreign words.
LEMMA HelpersOwn ==
  ASSUME NEW r \in Controller, NEW s \in LaterOwn(r)
  PROVE  /\ SetError(s) \in LaterOwn(r)
         /\ ClearActiveRewrite(s) \in LaterOwn(r)
         /\ RefreshTranscript(s) \in LaterOwn(r)
         /\ UpdateReadyState(s) \in LaterOwn(r)
         /\ CompleteWithRawFallback(s) \in LaterOwn(r)
         /\ ClearTexts(s) \in LaterOwn(r)
<1> USE DEF LaterOwn, Later, OwnText, OwnSession, Controller
<1>1. SetError(s) \in LaterOwn(r)
  BY DEF SetError, Modes
<1>2. ClearActiveRewrite(s) \in LaterOwn(r)
  BY DEF ClearActiveRewrite, NoRequest
<1>3. RefreshTranscript(s) \in LaterOwn(r)
  BY DEF RefreshTranscript, RawText
<1>4. UpdateReadyState(s) \in LaterOwn(r)
  BY DEF UpdateReadyState, Modes
<1>5. CompleteWithRawFallback(s) \in LaterOwn(r)
  BY DEF CompleteWithRawFallback, Modes
<1>6. ClearTexts(s) \in LaterOwn(r)
  <2> DEFINE q == ResetTranscript(s)
  <2>1. q \in LaterOwn(r)
    BY DEF ResetTranscript
  <2>2. ClearActiveRewrite(q) \in LaterOwn(r)
    <3> HIDE DEF q
    <3> QED BY <2>1 DEF ClearActiveRewrite, NoRequest
  <2> QED
    BY <2>2 DEF ClearTexts
<1> QED
  BY <1>1, <1>2, <1>3, <1>4, <1>5, <1>6

---------------------------------------------------------------------------
(* Every handler and call leaves a state that may follow, and sends only    *)
(* commands that hold words of that state's dictation.                      *)

\* What the cleanup worker has not read yet is numbered.
LEMMA QueuedRequests ==
  ASSUME TypeOK
  PROVE  \A i \in DOMAIN stdin["rewrite"] : stdin["rewrite"][i].request \in Nat
<1>1. stdin["rewrite"] \in Seq(RewriteCommand)
  BY DEF TypeOK, PipesTypeOK
<1>2. \A i \in DOMAIN stdin["rewrite"] : stdin["rewrite"][i] \in RewriteCommand
  BY <1>1
<1> QED
  BY <1>2 DEF RewriteCommand

\* A handler that sends nothing and brings in no foreign words is harmless.
LEMMA BecomeOwn ==
  ASSUME TypeOK, WordsInv, NEW s \in LaterOwn(ctl), Become(s)
  PROVE  ctl' \in LaterOwn(ctl) /\ CommandsOwn'
<1>1. ctl' = s /\ stdin' = stdin
  BY DEF Become
<1>2. ctl \in Controller /\ s \in Later(ctl)
  BY DEF TypeOK, ControllerTypeOK, LaterOwn
<1>3. ASSUME NEW i \in DOMAIN stdin["rewrite"] PROVE KnownRequest(stdin["rewrite"][i], s)
  <2>1. stdin["rewrite"][i].request \in Nat
    BY QueuedRequests
  <2> QED
    BY <1>2, <2>1, KnownLater DEF WordsInv, CommandsOwn
<1> QED
  BY <1>1, <1>3 DEF WordsInv, CommandsOwn

\* Neither is one that sends a command to the speech worker.
LEMMA SendAsrOwn ==
  ASSUME TypeOK, WordsInv, NEW s \in LaterOwn(ctl), NEW failed \in LaterOwn(ctl),
         NEW c, c.type = "start" => c.session # NoSession,
         Send("asr", c, s, failed)
  PROVE  ctl' \in LaterOwn(ctl) /\ CommandsOwn'
<1>1. CASE Accepts("asr")
  <2>1. ctl' = s /\ stdin' = [stdin EXCEPT !["asr"] = Append(stdin["asr"], c)]
    BY <1>1 DEF Send
  <2>2. stdin["asr"] \in Seq(AsrCommand) /\ DOMAIN stdin = Workers
    BY DEF TypeOK, PipesTypeOK
  <2>3. /\ stdin'["rewrite"] = stdin["rewrite"]
        /\ stdin'["asr"] = Append(stdin["asr"], c)
    BY <2>1, <2>2 DEF Workers
  <2>4. \A i \in DOMAIN stdin'["asr"] :
          stdin'["asr"][i].type = "start" => stdin'["asr"][i].session # NoSession
    BY <2>2, <2>3 DEF WordsInv, CommandsOwn
  <2>5. ASSUME NEW i \in DOMAIN stdin["rewrite"] PROVE KnownRequest(stdin["rewrite"][i], s)
    <3>1. stdin["rewrite"][i].request \in Nat /\ ctl \in Controller /\ s \in Later(ctl)
      BY QueuedRequests DEF TypeOK, ControllerTypeOK, LaterOwn
    <3> QED
      BY <3>1, KnownLater DEF WordsInv, CommandsOwn
  <2> QED
    BY <2>1, <2>3, <2>4, <2>5 DEF CommandsOwn
<1>2. CASE ~Accepts("asr")
  BY <1>2, BecomeOwn DEF Send
<1> QED
  BY <1>1, <1>2

\* Nor one that sends the words of the active request to be cleaned.
LEMMA SendRewriteOwn ==
  ASSUME TypeOK, WordsInv, NEW s \in LaterOwn(ctl), NEW failed \in LaterOwn(ctl),
         NEW c, c.request <= s.lastRequest, c.text \subseteq s.dictation,
         Send("rewrite", c, s, failed)
  PROVE  ctl' \in LaterOwn(ctl) /\ CommandsOwn'
<1>1. CASE Accepts("rewrite")
  <2>1. ctl' = s /\ stdin' = [stdin EXCEPT !["rewrite"] = Append(stdin["rewrite"], c)]
    BY <1>1 DEF Send
  <2>2. stdin["rewrite"] \in Seq(RewriteCommand) /\ DOMAIN stdin = Workers
    BY DEF TypeOK, PipesTypeOK
  <2>3. /\ stdin'["asr"] = stdin["asr"]
        /\ stdin'["rewrite"] = Append(stdin["rewrite"], c)
    BY <2>1, <2>2 DEF Workers
  <2>4. ASSUME NEW i \in DOMAIN stdin["rewrite"] PROVE KnownRequest(stdin["rewrite"][i], s)
    <3>1. stdin["rewrite"][i].request \in Nat /\ ctl \in Controller /\ s \in Later(ctl)
      BY QueuedRequests DEF TypeOK, ControllerTypeOK, LaterOwn
    <3> QED
      BY <3>1, KnownLater DEF WordsInv, CommandsOwn
  <2>5. KnownRequest(c, s)
    BY DEF KnownRequest
  <2>6. \A i \in DOMAIN stdin'["rewrite"] : KnownRequest(stdin'["rewrite"][i], s)
    <3> SUFFICES ASSUME NEW i \in DOMAIN stdin'["rewrite"]
                 PROVE  KnownRequest(stdin'["rewrite"][i], s)
      OBVIOUS
    <3>1. \/ i \in DOMAIN stdin["rewrite"] /\ stdin'["rewrite"][i] = stdin["rewrite"][i]
          \/ stdin'["rewrite"][i] = c
      BY <2>2, <2>3
    <3> QED
      BY <2>4, <2>5, <3>1
  <2> QED
    BY <2>1, <2>3, <2>6 DEF WordsInv, CommandsOwn
<1>2. CASE ~Accepts("rewrite")
  BY <1>2, BecomeOwn DEF Send
<1> QED
  BY <1>1, <1>2

\* dispatch_final_cleanup_locked() takes a new request number.
LEMMA DispatchOwn ==
  ASSUME TypeOK, WordsInv, NEW s \in LaterOwn(ctl), DispatchFinalCleanup(s)
  PROVE  ctl' \in LaterOwn(ctl) /\ CommandsOwn'
<1> DEFINE id == s.lastRequest + 1
           t == [s EXCEPT !.lastRequest = id, !.active = id]
           dead == [ClearActiveRewrite(t) EXCEPT
                      !.unavailable = @ \/ ~running["rewrite"],
                      !.rewriteReady = @ /\ running["rewrite"]]
           c == [type |-> "rewrite", request |-> id, text |-> s.raw]
<1>1. /\ id \in Nat /\ ctl \in Controller /\ running \in [Workers -> BOOLEAN]
      /\ ctl.lastRequest \in Nat
  BY DEF TypeOK, PipesTypeOK, ControllerTypeOK, LaterOwn, Later, Controller
<1>2. t \in LaterOwn(ctl)
  <2>1. s \in Controller /\ OwnText(s) /\ OwnSession(s) /\ ctl.lastRequest <= s.lastRequest
    BY DEF LaterOwn, Later
  <2>2. t \in Controller /\ t.lastRequest = id /\ t.active = id
    BY <1>1, <2>1 DEF Controller
  <2>3. OwnText(t) /\ OwnSession(t)
    BY <1>1, <2>1, <2>2 DEF OwnText, OwnSession, Controller
  <2>4. ctl.lastRequest <= id /\ ctl.lastRequest < id
    BY <1>1, <2>1 DEF Controller
  <2> QED
    BY <2>2, <2>3, <2>4 DEF LaterOwn, Later
<1>3. dead \in LaterOwn(ctl)
  <2> DEFINE u == ClearActiveRewrite(t)
  <2>1. u \in LaterOwn(ctl)
    BY <1>1, <1>2, HelpersOwn
  <2> HIDE DEF u
  <2>2. running["rewrite"] \in BOOLEAN
    BY <1>1 DEF Workers
  <2>3. ASSUME NEW a \in BOOLEAN, NEW b \in BOOLEAN
        PROVE  [u EXCEPT !.unavailable = a, !.rewriteReady = b] \in LaterOwn(ctl)
    BY <2>1 DEF LaterOwn, Later, OwnText, OwnSession, Controller
  <2>4. u.unavailable \in BOOLEAN /\ u.rewriteReady \in BOOLEAN
    BY <2>1 DEF LaterOwn, Later, Controller
  <2> QED
    BY <2>2, <2>3, <2>4 DEF u
<1>4. CompleteWithRawFallback(dead) \in LaterOwn(ctl)
  BY <1>1, <1>3, HelpersOwn
<1>5. c.request <= t.lastRequest /\ c.text \subseteq t.dictation
  BY <1>1 DEF LaterOwn, Later, OwnText, Controller
<1>6. Become(s) \/ Send("rewrite", c, t, CompleteWithRawFallback(dead))
  BY DEF DispatchFinalCleanup
<1> HIDE DEF id, t, dead, c
<1> QED
  BY <1>2, <1>4, <1>5, <1>6, SendRewriteOwn, BecomeOwn

\* finish_dictation_locked() offers the words of this dictation only.
LEMMA FinishOwn ==
  ASSUME TypeOK, WordsInv, NEW s \in LaterOwn(ctl), FinishDictation(s)
  PROVE  ctl' \in LaterOwn(ctl) /\ CommandsOwn'
<1> DEFINE t == ClearActiveRewrite(s)
           ai == [t EXCEPT !.confirm = TRUE]
           off == [t EXCEPT !.rewritten = t.raw, !.live = t.raw,
                            !.confirm = FALSE, !.mode = "Complete"]
<1>1. t \in LaterOwn(ctl) /\ ctl \in Controller
  BY HelpersOwn DEF TypeOK, ControllerTypeOK
<1>2. ai \in LaterOwn(ctl) /\ off \in LaterOwn(ctl)
  <2> HIDE DEF t
  <2> QED BY <1>1 DEF LaterOwn, Later, OwnText, OwnSession, Controller, Modes
<1>3. t.cleanup \in CleanupModes /\ t.unavailable \in BOOLEAN /\ t.rewriteReady \in BOOLEAN
  <2> HIDE DEF t
  <2> QED BY <1>1 DEF LaterOwn, Later, Controller
<1>4. CompleteWithRawFallback(ai) \in LaterOwn(ctl)
  BY <1>1, <1>2, HelpersOwn
<1>5. \/ Become(CompleteWithRawFallback(ai))
      \/ DispatchFinalCleanup(ai)
      \/ Become(ai)
      \/ Become(off)
  BY <1>3 DEF FinishDictation, CleanupModes
<1> HIDE DEF t, ai, off
<1> QED
  BY <1>2, <1>4, <1>5, BecomeOwn, DispatchOwn

\* A new session has a number of its own and belongs to the dictation.
LEMMA StartSessionOwn ==
  ASSUME TypeOK, WordsInv, NEW s \in Later(ctl), StartSession(s)
  PROVE  ctl' \in LaterOwn(ctl) /\ CommandsOwn'
<1> DEFINE id == s.lastSession + 1
           t == [s EXCEPT !.hypothesis = {}, !.session = id, !.lastSession = id,
                          !.dictation = @ \cup {id}, !.mode = "StartingRecording"]
           f == [t EXCEPT !.pending = FALSE]
<1>1. id \in Nat /\ id # NoSession /\ ctl \in Controller
  BY DEF TypeOK, ControllerTypeOK, Later, Controller, NoSession
<1>2. t \in LaterOwn(ctl)
  BY <1>1 DEF LaterOwn, Later, OwnText, OwnSession, Controller, Modes
<1>3. f \in LaterOwn(ctl)
  BY <1>2 DEF LaterOwn, Later, OwnText, OwnSession, Controller
<1>4. SetError(f) \in LaterOwn(ctl)
  BY <1>1, <1>3, HelpersOwn
<1>5. ToAsr("start", t).session # NoSession
  BY <1>1 DEF ToAsr, Later, Controller
<1>6. Send("asr", ToAsr("start", t), t, SetError(f))
  BY DEF StartSession
<1> HIDE DEF id, t, f
<1> QED
  BY <1>2, <1>4, <1>5, <1>6, SendAsrOwn

\* A new dictation starts without words.
LEMMA StartDictationOwn ==
  ASSUME TypeOK, WordsInv, NEW s \in LaterOwn(ctl), StartDictation(s)
  PROVE  ctl' \in LaterOwn(ctl) /\ CommandsOwn'
<1> DEFINE t == [ClearTexts(s) EXCEPT !.dictation = {}, !.pending = FALSE]
<1>1. ClearTexts(s) \in LaterOwn(ctl) /\ ctl \in Controller
  BY HelpersOwn DEF TypeOK, ControllerTypeOK
<1>2. /\ ClearTexts(s).segments = {} /\ ClearTexts(s).hypothesis = {}
      /\ ClearTexts(s).raw = {} /\ ClearTexts(s).live = {} /\ ClearTexts(s).rewritten = {}
      /\ ClearTexts(s).active = NoRequest
  BY DEF ClearTexts, ClearActiveRewrite, ResetTranscript, LaterOwn, Later, Controller
<1>3. t \in Later(ctl)
  BY <1>1, <1>2 DEF LaterOwn, Later, OwnText, Controller
<1> QED
  BY <1>3, StartSessionOwn DEF StartDictation

\* stop_for_language_change_locked() touches no words.
LEMMA StopOwn ==
  ASSUME TypeOK, WordsInv, NEW s \in LaterOwn(ctl), StopForLanguageChange(s)
  PROVE  ctl' \in LaterOwn(ctl) /\ CommandsOwn'
<1> DEFINE t == [s EXCEPT !.pending = TRUE]
           f == [t EXCEPT !.mode = "Finalizing"]
           g == [f EXCEPT !.pending = FALSE]
<1>1. t \in LaterOwn(ctl) /\ ctl \in Controller
  BY DEF LaterOwn, Later, OwnText, OwnSession, Controller, TypeOK, ControllerTypeOK
<1>2. f \in LaterOwn(ctl)
  BY <1>1 DEF LaterOwn, Later, OwnText, OwnSession, Controller, Modes
<1>3. g \in LaterOwn(ctl)
  BY <1>2 DEF LaterOwn, Later, OwnText, OwnSession, Controller
<1>4. SetError(g) \in LaterOwn(ctl)
  BY <1>1, <1>3, HelpersOwn
<1>5. ToAsr("stop", f).type = "stop"
  BY DEF ToAsr
<1>6. Become(t) \/ Send("asr", ToAsr("stop", f), f, SetError(g))
  BY DEF StopForLanguageChange
<1> HIDE DEF t, f, g
<1> QED
  BY <1>1, <1>2, <1>4, <1>5, <1>6, SendAsrOwn, BecomeOwn

---------------------------------------------------------------------------
\* The state itself is one that adds no foreign words: where each argument starts.
LEMMA Base ==
  ASSUME TypeOK, WordsInv
  PROVE  ctl \in Controller /\ ctl \in LaterOwn(ctl)
BY DEF TypeOK, ControllerTypeOK, WordsInv, LaterOwn, Later, Controller

\* A transcript counts only if it carries the number of the running session.
LEMMA AsrHandlerOwn ==
  ASSUME TypeOK, WordsInv, NEW m \in AsrEvent, OwnEvent(m), HandleAsrMessage(m)
  PROVE  ctl' \in LaterOwn(ctl) /\ CommandsOwn'
<1>1. ctl \in Controller /\ ctl \in LaterOwn(ctl) /\ m.text \in SUBSET Nat
  BY Base DEF AsrEvent
<1>2. m.session = ctl.session => m.text \subseteq ctl.dictation
  BY DEF WordsInv, OwnSession, OwnEvent
<1>3. CASE AsrReady(m)
  <2> DEFINE s == [ctl EXCEPT !.asrReady = TRUE]
  <2>1. s \in LaterOwn(ctl)
    BY <1>1 DEF LaterOwn, Later, OwnText, OwnSession, Controller
  <2>2. UpdateReadyState(s) \in LaterOwn(ctl)
    BY <1>1, <2>1, HelpersOwn
  <2> QED
    BY <1>3, <2>2, BecomeOwn DEF AsrReady
<1>4. CASE RecordingStarted(m)
  <2> DEFINE s == [ctl EXCEPT !.mode = "Recording"]
  <2>1. s \in LaterOwn(ctl) /\ ctl.pending \in BOOLEAN
    BY <1>1 DEF LaterOwn, Later, OwnText, OwnSession, Controller, Modes
  <2>2. Become(ctl) \/ StopForLanguageChange(s) \/ Become(s)
    BY <1>4, <2>1 DEF RecordingStarted
  <2> HIDE DEF s
  <2> QED
    BY <1>1, <2>1, <2>2, BecomeOwn, StopOwn
<1>5. CASE TranscriptUpdate(m)
  <2> DEFINE s == [ctl EXCEPT !.hypothesis = m.text]
  <2>1. CASE m.session # ctl.session
    BY <1>1, <1>5, <2>1, BecomeOwn DEF TranscriptUpdate
  <2>2. CASE m.session = ctl.session
    <3>1. s \in LaterOwn(ctl)
      BY <1>1, <1>2, <2>2 DEF LaterOwn, Later, OwnText, OwnSession, Controller
    <3>2. RefreshTranscript(s) \in LaterOwn(ctl)
      BY <1>1, <3>1, HelpersOwn
    <3> QED
      BY <1>5, <2>2, <3>2, BecomeOwn DEF TranscriptUpdate
  <2> QED
    BY <2>1, <2>2
<1>6. CASE RecordingFinalized(m)
  <2>1. CASE m.session # ctl.session
    BY <1>1, <1>6, <2>1, BecomeOwn DEF RecordingFinalized
  <2>2. CASE m.session = ctl.session
    <3> DEFINE t == [ctl EXCEPT !.segments = @ \cup m.text, !.hypothesis = {}]
               u == [t EXCEPT !.raw = RawText(t)]
               s == RefreshTranscript(u)
               p == [s EXCEPT !.pending = FALSE]
               e == [ClearActiveRewrite(s) EXCEPT !.mode = "Complete"]
    <3>1. t \in LaterOwn(ctl)
      BY <1>1, <1>2, <2>2 DEF LaterOwn, Later, OwnText, OwnSession, Controller
    <3>2. u \in LaterOwn(ctl)
      <4> HIDE DEF t
      <4> QED BY <3>1 DEF LaterOwn, Later, OwnText, OwnSession, Controller, RawText
    <3>3. s \in LaterOwn(ctl)
      BY <1>1, <3>2, HelpersOwn
    <3>4. p \in LaterOwn(ctl) /\ e \in LaterOwn(ctl) /\ s.pending \in BOOLEAN
      <4> HIDE DEF s
      <4>1. ClearActiveRewrite(s) \in LaterOwn(ctl)
        BY <1>1, <3>3, HelpersOwn
      <4>2. p \in LaterOwn(ctl) /\ s.pending \in BOOLEAN
        BY <3>3 DEF LaterOwn, Later, OwnText, OwnSession, Controller
      <4> DEFINE x == ClearActiveRewrite(s)
      <4>3. [x EXCEPT !.mode = "Complete"] \in LaterOwn(ctl)
        <5> HIDE DEF x
        <5>1. x \in LaterOwn(ctl)
          BY <4>1 DEF x
        <5> QED
          BY <5>1 DEF LaterOwn, Later, OwnText, OwnSession, Controller, Modes
      <4> QED
        BY <4>2, <4>3
    <3>5. p \in Later(ctl)
      BY <3>4 DEF LaterOwn
    <3>6. Become(ctl) \/ StartSession(p) \/ Become(e) \/ FinishDictation(s)
      BY <1>6, <3>4 DEF RecordingFinalized
    <3> HIDE DEF t, u, s, p, e
    <3> QED
      BY <1>1, <3>3, <3>4, <3>5, <3>6, BecomeOwn, StartSessionOwn, FinishOwn
  <2> QED
    BY <2>1, <2>2
<1>7. CASE RecordingCancelled(m)
  <2> DEFINE c == ClearTexts(ctl)
             s == [c EXCEPT !.mode = "Ready", !.pending = FALSE,
                            !.session = NoSession, !.dictation = {}]
  <2>1. c \in LaterOwn(ctl)
    BY <1>1, HelpersOwn
  <2>2. /\ c.segments = {} /\ c.hypothesis = {} /\ c.raw = {} /\ c.live = {}
        /\ c.rewritten = {} /\ c.active = NoRequest
    BY <1>1 DEF ClearTexts, ClearActiveRewrite, ResetTranscript, Controller
  <2>3. s \in LaterOwn(ctl)
    <3> HIDE DEF c
    <3> QED BY <2>1, <2>2 DEF LaterOwn, Later, OwnText, OwnSession, Controller, Modes, NoSession
  <2> QED
    BY <1>7, <2>3, BecomeOwn DEF RecordingCancelled
<1>8. CASE AsrError(m)
  <2> DEFINE s == [ctl EXCEPT !.mode = "Ready", !.session = NoSession]
  <2>1. s \in LaterOwn(ctl)
    BY <1>1 DEF LaterOwn, Later, OwnText, OwnSession, Controller, Modes, NoSession
  <2>2. SetError(ctl) \in LaterOwn(ctl)
    BY <1>1, HelpersOwn
  <2>3. Become(s) \/ Become(SetError(ctl))
    BY <1>8 DEF AsrError
  <2> HIDE DEF s
  <2> QED
    BY <2>1, <2>2, <2>3, BecomeOwn
<1> QED
  BY <1>3, <1>4, <1>5, <1>6, <1>7, <1>8 DEF HandleAsrMessage

\* A cleaned text counts only if it answers the active request.
LEMMA RewriteHandlerOwn ==
  ASSUME TypeOK, WordsInv, NEW m \in RewriteEvent, KnownRequest(m, ctl),
         HandleRewriteMessage(m)
  PROVE  ctl' \in LaterOwn(ctl) /\ CommandsOwn'
<1>1. ctl \in Controller /\ ctl \in LaterOwn(ctl) /\ m.text \in SUBSET Nat
  BY Base DEF RewriteEvent
<1>2. CASE ctl.cleanup # "Ai"
  BY <1>1, <1>2, BecomeOwn DEF HandleRewriteMessage
<1>3. CASE RewriteReady(m)
  <2> DEFINE s == [ctl EXCEPT !.unavailable = FALSE, !.rewriteReady = TRUE]
  <2>1. s \in LaterOwn(ctl)
    BY <1>1 DEF LaterOwn, Later, OwnText, OwnSession, Controller
  <2>2. DispatchFinalCleanup(s) \/ Become(s)
    BY <1>3 DEF RewriteReady
  <2> HIDE DEF s
  <2> QED
    BY <2>1, <2>2, BecomeOwn, DispatchOwn
<1>4. CASE RewriteCompleted(m)
  <2> DEFINE s == ClearActiveRewrite(ctl)
             t == [s EXCEPT !.rewritten = m.text, !.live = m.text,
                            !.confirm = TRUE, !.mode = "Complete"]
  <2>1. s \in LaterOwn(ctl) /\ s.dictation = ctl.dictation
    BY <1>1, HelpersOwn DEF ClearActiveRewrite, Controller
  <2>2. CompleteWithRawFallback(s) \in LaterOwn(ctl)
    BY <1>1, <2>1, HelpersOwn
  <2>3. CASE ctl.active = NoRequest \/ m.request # ctl.active
    BY <1>1, <1>4, <2>3, BecomeOwn DEF RewriteCompleted
  <2>4. CASE ctl.active # NoRequest /\ m.request = ctl.active
    <3>1. m.text \subseteq ctl.dictation
      BY <2>4 DEF KnownRequest
    <3>2. t \in LaterOwn(ctl)
      <4> HIDE DEF s
      <4> QED
        BY <1>1, <2>1, <3>1 DEF LaterOwn, Later, OwnText, OwnSession, Controller, Modes
    <3>3. Become(CompleteWithRawFallback(s)) \/ Become(t)
      BY <1>4, <2>4 DEF RewriteCompleted
    <3> HIDE DEF s, t
    <3> QED
      BY <2>2, <3>2, <3>3, BecomeOwn
  <2> QED
    BY <2>3, <2>4
<1>5. CASE RewriteError(m)
  <2> DEFINE fatal == m.code \in FatalCodes
             u == ClearActiveRewrite(ctl)
             s == [u EXCEPT !.unavailable = @ \/ fatal, !.rewriteReady = @ /\ ~fatal]
  <2>1. u \in LaterOwn(ctl)
    BY <1>1, HelpersOwn
  <2>2. s \in LaterOwn(ctl)
    <3> HIDE DEF fatal, u
    <3>1. ASSUME NEW a \in BOOLEAN, NEW b \in BOOLEAN
          PROVE  [u EXCEPT !.unavailable = a, !.rewriteReady = b] \in LaterOwn(ctl)
      BY <2>1 DEF LaterOwn, Later, OwnText, OwnSession, Controller
    <3> QED
      BY <3>1
  <2>3. CompleteWithRawFallback(s) \in LaterOwn(ctl)
    BY <1>1, <2>2, HelpersOwn
  <2>4. Become(s) \/ Become(CompleteWithRawFallback(s))
    BY <1>5 DEF RewriteError
  <2> HIDE DEF s
  <2> QED
    BY <2>2, <2>3, <2>4, BecomeOwn
<1> QED
  BY <1>2, <1>3, <1>4, <1>5 DEF HandleRewriteMessage

\* toggle_recording().
LEMMA ToggleOwn ==
  ASSUME TypeOK, WordsInv, ToggleRecording
  PROVE  ctl' \in LaterOwn(ctl) /\ CommandsOwn'
<1> DEFINE f == [ctl EXCEPT !.mode = "Finalizing"]
<1>1. ctl \in Controller /\ ctl \in LaterOwn(ctl)
  BY Base
<1>2. f \in LaterOwn(ctl)
  BY <1>1 DEF LaterOwn, Later, OwnText, OwnSession, Controller, Modes
<1>3. SetError(f) \in LaterOwn(ctl)
  BY <1>1, <1>2, HelpersOwn
<1>4. ToAsr("stop", f).type = "stop"
  BY DEF ToAsr
<1>5. \/ StartDictation(ctl)
      \/ Send("asr", ToAsr("stop", f), f, SetError(f))
      \/ Become(ctl)
  BY DEF ToggleRecording
<1> HIDE DEF f
<1> QED
  BY <1>1, <1>2, <1>3, <1>4, <1>5, SendAsrOwn, BecomeOwn, StartDictationOwn

\* cancel_recording().
LEMMA CancelOwn ==
  ASSUME TypeOK, WordsInv, CancelRecording
  PROVE  ctl' \in LaterOwn(ctl) /\ CommandsOwn'
<1> DEFINE c == [ctl EXCEPT !.mode = "Cancelling"]
           e == ClearTexts(ctl)
           d == [e EXCEPT !.mode = "Ready", !.session = NoSession, !.dictation = {}]
<1>1. ctl \in Controller /\ ctl \in LaterOwn(ctl)
  BY Base
<1>2. c \in LaterOwn(ctl)
  BY <1>1 DEF LaterOwn, Later, OwnText, OwnSession, Controller, Modes
<1>3. SetError(c) \in LaterOwn(ctl)
  BY <1>1, <1>2, HelpersOwn
<1>4. ToAsr("cancel", c).type = "cancel"
  BY DEF ToAsr
<1>5. d \in LaterOwn(ctl)
  <2>1. e \in LaterOwn(ctl)
    BY <1>1, HelpersOwn
  <2>2. /\ e.segments = {} /\ e.hypothesis = {} /\ e.raw = {} /\ e.live = {}
        /\ e.rewritten = {} /\ e.active = NoRequest
    BY <1>1 DEF ClearTexts, ClearActiveRewrite, ResetTranscript, Controller
  <2> HIDE DEF e
  <2> QED
    BY <2>1, <2>2 DEF LaterOwn, Later, OwnText, OwnSession, Controller, Modes, NoSession
<1>6. Become(d) \/ Send("asr", ToAsr("cancel", c), c, SetError(c)) \/ Become(ctl)
  BY DEF CancelRecording
<1> HIDE DEF c, d
<1> QED
  BY <1>1, <1>2, <1>3, <1>4, <1>5, <1>6, SendAsrOwn, BecomeOwn

\* The locked sections of the settings calls.
LEMMA SettingsOwn ==
  ASSUME TypeOK, WordsInv,
         \/ \E l \in Language : SetLanguage(l)
         \/ \E m \in CleanupModes : SetCleanupMode(m)
         \/ \E d \in Device : SetAsrDevice(d) \/ SetRewriteDevice(d)
  PROVE  ctl' \in LaterOwn(ctl) /\ CommandsOwn'
<1>1. ctl \in Controller /\ ctl \in LaterOwn(ctl)
  BY Base
<1>2. ASSUME NEW l \in Language, SetLanguage(l)
      PROVE  ctl' \in LaterOwn(ctl) /\ CommandsOwn'
  <2> DEFINE s == [ctl EXCEPT !.language = l]
  <2>1. s \in LaterOwn(ctl)
    BY <1>1 DEF LaterOwn, Later, OwnText, OwnSession, Controller
  <2>2. StopForLanguageChange(s) \/ Become(s)
    BY <1>2 DEF SetLanguage
  <2> HIDE DEF s
  <2> QED
    BY <2>1, <2>2, StopOwn, BecomeOwn
<1>3. ASSUME NEW m \in CleanupModes, SetCleanupMode(m)
      PROVE  ctl' \in LaterOwn(ctl) /\ CommandsOwn'
  <2> DEFINE u == ClearActiveRewrite(ctl)
             s == [u EXCEPT !.cleanup = m, !.unavailable = FALSE,
                            !.rewriteReady = @ /\ m # "Off"]
  <2>1. u \in LaterOwn(ctl)
    BY <1>1, HelpersOwn
  <2>2. s \in LaterOwn(ctl)
    <3> HIDE DEF u
    <3> QED BY <1>3, <2>1 DEF LaterOwn, Later, OwnText, OwnSession, Controller
  <2> QED
    BY <1>3, <2>2, BecomeOwn DEF SetCleanupMode
<1>4. ASSUME NEW d \in Device, SetAsrDevice(d)
      PROVE  ctl' \in LaterOwn(ctl) /\ CommandsOwn'
  <2> DEFINE s == [ctl EXCEPT !.device["asr"] = d, !.asrReady = FALSE, !.mode = "Starting"]
  <2>1. s \in LaterOwn(ctl)
    BY <1>1 DEF LaterOwn, Later, OwnText, OwnSession, Controller, Modes, Workers
  <2> QED
    BY <1>4, <2>1, BecomeOwn DEF SetAsrDevice
<1>5. ASSUME NEW d \in Device, SetRewriteDevice(d)
      PROVE  ctl' \in LaterOwn(ctl) /\ CommandsOwn'
  <2> DEFINE s == [ctl EXCEPT !.device["rewrite"] = d]
             u == ClearActiveRewrite(s)
             t == [u EXCEPT !.rewriteReady = FALSE, !.unavailable = FALSE]
  <2>1. s \in LaterOwn(ctl)
    BY <1>1 DEF LaterOwn, Later, OwnText, OwnSession, Controller, Workers
  <2>2. u \in LaterOwn(ctl)
    BY <1>1, <2>1, HelpersOwn
  <2>3. t \in LaterOwn(ctl)
    <3> HIDE DEF u
    <3> QED BY <2>2 DEF LaterOwn, Later, OwnText, OwnSession, Controller
  <2>4. Become(t) \/ Become(s)
    BY <1>5 DEF SetRewriteDevice
  <2> HIDE DEF s, u, t
  <2> QED
    BY <2>1, <2>3, <2>4, BecomeOwn
<1> QED
  BY <1>2, <1>3, <1>4, <1>5

\* tick() completes with the raw words of the dictation whose request it gives up.
LEMMA TickOwn ==
  ASSUME TypeOK, WordsInv, Tick
  PROVE  ctl' \in LaterOwn(ctl) /\ CommandsOwn'
<1>1. ctl \in Controller /\ ctl \in LaterOwn(ctl)
  BY Base
<1>2. ClearActiveRewrite(ctl) \in LaterOwn(ctl)
  BY <1>1, HelpersOwn
<1>3. CompleteWithRawFallback(ClearActiveRewrite(ctl)) \in LaterOwn(ctl)
  BY <1>1, <1>2, HelpersOwn
<1> QED
  BY <1>3, BecomeOwn DEF Tick

\* A worker that cannot be started changes no words.
LEMMA SpawnFailsOwn ==
  ASSUME TypeOK, WordsInv, UiSpawnFails
  PROVE  ctl' \in LaterOwn(ctl) /\ CommandsOwn'
<1>1. ctl \in Controller /\ ctl \in LaterOwn(ctl)
  BY Base
<1>2. /\ SetError(ctl) \in LaterOwn(ctl)
      /\ [ctl EXCEPT !.unavailable = TRUE] \in LaterOwn(ctl)
      /\ [ctl EXCEPT !.unavailable = TRUE, !.rewriteReady = FALSE] \in LaterOwn(ctl)
  <2>1. SetError(ctl) \in LaterOwn(ctl)
    BY <1>1, HelpersOwn
  <2>2. /\ [ctl EXCEPT !.unavailable = TRUE] \in LaterOwn(ctl)
        /\ [ctl EXCEPT !.unavailable = TRUE, !.rewriteReady = FALSE] \in LaterOwn(ctl)
    BY <1>1 DEF LaterOwn, Later, OwnText, OwnSession, Controller
  <2> QED
    BY <2>1, <2>2
<1>3. \E s \in LaterOwn(ctl) : Become(s)
  BY <1>2 DEF UiSpawnFails, Become, pipes
<1> QED
  BY <1>3, BecomeOwn

\* A shutdown command holds no words.
LEMMA ShutdownOwn ==
  ASSUME TypeOK, WordsInv, UiSendShutdown
  PROVE  ctl' \in LaterOwn(ctl) /\ CommandsOwn'
<1>1. ctl \in Controller /\ ctl \in LaterOwn(ctl)
  BY Base
<1>2. CASE OpWorker = "asr"
  BY <1>1, <1>2, SendAsrOwn DEF UiSendShutdown, ShutdownCommand
<1>3. CASE OpWorker # "asr"
  <2>1. OpWorker = "rewrite"
    BY <1>3 DEF OpWorker
  <2> DEFINE c == [type |-> "shutdown", request |-> NoRequest, text |-> {}]
  <2>2. c.request <= ctl.lastRequest /\ c.text \subseteq ctl.dictation
    BY <1>1 DEF Controller, NoRequest
  <2>3. Send("rewrite", c, ctl, ctl)
    BY <2>1 DEF UiSendShutdown, ShutdownCommand
  <2> HIDE DEF c
  <2> QED
    BY <1>1, <2>2, <2>3, SendRewriteOwn
<1> QED
  BY <1>2, <1>3

---------------------------------------------------------------------------
(* The steps of each actor.                                                *)

\* Every queued answer has a number for its request.
LEMMA QueuedAnswers ==
  ASSUME TypeOK
  PROVE  /\ \A i \in DOMAIN stdout["rewrite"] : stdout["rewrite"][i] \in RewriteEvent
         /\ \A i \in DOMAIN stdout["rewrite"] : stdout["rewrite"][i].request \in Nat
<1>1. stdout["rewrite"] \in Seq(RewriteEvent)
  BY DEF TypeOK, PipesTypeOK
<1>2. \A i \in DOMAIN stdout["rewrite"] : stdout["rewrite"][i] \in RewriteEvent
  BY <1>1
<1> QED
  BY <1>2 DEF RewriteEvent

\* What was known of the answers on their way stays known.
LEMMA AnswersLater ==
  ASSUME TypeOK, WordsInv, ctl' \in LaterOwn(ctl)
  PROVE  \A i \in DOMAIN stdout["rewrite"] : KnownRequest(stdout["rewrite"][i], ctl')
<1> SUFFICES ASSUME NEW i \in DOMAIN stdout["rewrite"]
             PROVE  KnownRequest(stdout["rewrite"][i], ctl')
  OBVIOUS
<1>1. /\ stdout["rewrite"][i].request \in Nat /\ KnownRequest(stdout["rewrite"][i], ctl)
      /\ ctl \in Controller /\ ctl' \in Later(ctl)
  BY QueuedAnswers, Base DEF WordsInv, AnswersOwn, LaterOwn
<1> QED
  BY <1>1, KnownLater

\* A step of the controller that takes nothing from the pipes.
LEMMA ControllerStep ==
  ASSUME TypeOK, WordsInv, ctl' \in LaterOwn(ctl), CommandsOwn',
         UNCHANGED <<stdout, asr, inserted>>
  PROVE  WordsInv'
<1>1. AnswersOwn'
  BY AnswersLater DEF AnswersOwn
<1>2. OwnText(ctl') /\ OwnSession(ctl')
  BY DEF LaterOwn, Later
<1> QED
  BY <1>1, <1>2 DEF WordsInv, AsrEventsOwn, WorkerOwn, OnlyOwnWords

\* The window inserts words of the dictation the controller holds.
LEMMA InsertOwn ==
  ASSUME TypeOK, WordsInv, InsertText
  PROVE  OnlyOwnWords'
<1> DEFINE Item == [dictation : SUBSET Nat, text : SUBSET Nat]
           item == [dictation |-> ctl.dictation, text |-> SnapshotText]
<1>1. SnapshotText \subseteq ctl.dictation
  BY DEF WordsInv, OwnText, SnapshotText
<1>2. item.text \subseteq item.dictation
  BY <1>1
<1>3. inserted \in Seq(Item)
  BY DEF TypeOK, HostTypeOK
<1>4. inserted' = inserted \/ inserted' = Append(inserted, item)
  BY DEF InsertText
<1>5. \A i \in DOMAIN inserted : inserted[i].text \subseteq inserted[i].dictation
  BY DEF WordsInv, OnlyOwnWords
<1> HIDE DEF Item, item
<1> QED
  BY <1>2, <1>3, <1>4, <1>5 DEF OnlyOwnWords

\* What the user does.
LEMMA UserOwn ==
  ASSUME TypeOK, WordsInv, UserStep, UNCHANGED workerVars
  PROVE  WordsInv'
<1>1. ctl \in Controller /\ ctl \in LaterOwn(ctl) /\ UNCHANGED asr
  BY Base DEF workerVars
<1>2. CASE HotkeyInsert
  <2>1. OnlyOwnWords' /\ UNCHANGED <<pipes, ctl, asr>>
    BY <1>1, <1>2, InsertOwn DEF HotkeyInsert
  <2> QED
    BY <2>1 DEF WordsInv, CommandsOwn, AsrEventsOwn, AnswersOwn, WorkerOwn, pipes
<1>3. CASE \/ HotkeyStart \/ HotkeyStop \/ HotkeyCancel \/ CloseWindow
           \/ \E w \in Workers : SelectCurrentDevice(w)
  <2>1. UNCHANGED <<pipes, ctl, inserted>>
    BY <1>3
    DEF HotkeyStart, HotkeyStop, HotkeyCancel, CloseWindow, Quit, SelectCurrentDevice, hostVars
  <2> QED
    BY <1>1, <2>1
    DEF WordsInv, CommandsOwn, AsrEventsOwn, AnswersOwn, WorkerOwn, OnlyOwnWords, pipes
<1>4. CASE \/ \E l \in Language : SelectLanguage(l)
           \/ \E m \in CleanupModes : SelectCleanup(m)
           \/ \E d \in Device : SelectAsrDevice(d)
           \/ \E d \in Device : SelectRewriteDevice(d)
  <2>1. ctl' \in LaterOwn(ctl) /\ CommandsOwn'
    BY <1>4, SettingsOwn
    DEF SelectLanguage, SelectCleanup, SelectAsrDevice, SelectRewriteDevice
  <2>2. UNCHANGED <<stdout, inserted>>
    BY <1>4
    DEF SelectLanguage, SelectCleanup, SelectAsrDevice, SelectRewriteDevice, hostVars
  <2> QED
    BY <1>1, <2>1, <2>2, ControllerStep
<1> QED
  BY <1>2, <1>3, <1>4 DEF UserStep

\* A process that ends brings in no words.
LEMMA ExitOwn ==
  ASSUME TypeOK, WordsInv, NEW w \in Workers, Exit(w)
  PROVE  /\ \A i \in DOMAIN stdin'["asr"] :
              stdin'["asr"][i].type = "start" => stdin'["asr"][i].session # NoSession
         /\ \A i \in DOMAIN stdin'["rewrite"] : KnownRequest(stdin'["rewrite"][i], ctl)
<1>1. \A v \in Workers : stdin'[v] = stdin[v] \/ stdin'[v] = <<>>
  BY DEF TypeOK, PipesTypeOK, Exit
<1>2. DOMAIN <<>> = {}
  OBVIOUS
<1> QED
  BY <1>1, <1>2 DEF WordsInv, CommandsOwn, Workers

\* The calls of the UI thread.
LEMMA UiOwn ==
  ASSUME TypeOK, WordsInv, UiStep, UNCHANGED workerVars
  PROVE  WordsInv'
<1>1. ctl \in LaterOwn(ctl) /\ UNCHANGED asr /\ OpWorker \in Workers
  BY Base, OpWorkerTyped DEF workerVars
<1>2. CASE UiToggle
  BY <1>1, <1>2, ToggleOwn, ControllerStep DEF UiToggle, hostVars
<1>3. CASE UiCancel
  BY <1>1, <1>3, CancelOwn, ControllerStep DEF UiCancel
<1>4. CASE UiSendShutdown /\ UNCHANGED hostVars
  BY <1>1, <1>4, ShutdownOwn, ControllerStep DEF UiSendShutdown, hostVars
<1>5. CASE (UiCheckRunning \/ UiCloseInput \/ UiJoin) /\ UNCHANGED hostVars
  <2>1. Become(ctl) /\ UNCHANGED <<stdout, inserted>>
    BY <1>5
    DEF UiCheckRunning, UiCloseInput, CloseInput, UiJoin, Join, Become, pipes, hostVars
  <2> QED
    BY <1>1, <2>1, BecomeOwn, ControllerStep
<1>6. CASE UiTerminate /\ UNCHANGED hostVars
  <2>1. CommandsOwn' /\ ctl' = ctl /\ UNCHANGED <<stdout, inserted>>
    BY <1>1, <1>6, ExitOwn DEF UiTerminate, CommandsOwn, hostVars
  <2> QED
    BY <1>1, <2>1, ControllerStep
<1>7. CASE HostSpawnFails
  BY <1>1, <1>7, SpawnFailsOwn, ControllerStep DEF HostSpawnFails, UiSpawnFails, pipes
<1> QED
  BY <1>2, <1>3, <1>4, <1>5, <1>6, <1>7 DEF UiStep

\* A new worker starts with empty pipes.
LEMMA SpawnOwn ==
  ASSUME TypeOK, WordsInv, SpawnStep
  PROVE  WordsInv'
<1>1. /\ OpWorker \in Workers /\ DOMAIN stdin = Workers /\ DOMAIN stdout = Workers
      /\ UNCHANGED <<ctl, inserted>>
      /\ stdin' = [stdin EXCEPT ![OpWorker] = <<>>]
      /\ stdout' = [stdout EXCEPT ![OpWorker] = <<>>]
  BY OpWorkerTyped DEF TypeOK, PipesTypeOK, SpawnStep, HostSpawn, UiSpawn, Spawn
<1>2. \A w \in Workers : /\ stdin'[w] = stdin[w] \/ stdin'[w] = <<>>
                         /\ stdout'[w] = stdout[w] \/ stdout'[w] = <<>>
  BY <1>1
<1>3. DOMAIN <<>> = {}
  OBVIOUS
<1>4. CommandsOwn' /\ AsrEventsOwn' /\ AnswersOwn'
  BY <1>1, <1>2, <1>3 DEF WordsInv, CommandsOwn, AsrEventsOwn, AnswersOwn, Workers
<1>5. WorkerOwn'
  BY DEF SpawnStep, FreshAsr, WordsInv, WorkerOwn
<1> QED
  BY <1>1, <1>4, <1>5 DEF WordsInv, OnlyOwnWords

\* One turn of the main loop.
LEMMA LoopOwn ==
  ASSUME TypeOK, WordsInv, LoopStep, UNCHANGED workerVars
  PROVE  WordsInv'
<1>1. ctl \in LaterOwn(ctl) /\ UNCHANGED asr
  BY Base DEF workerVars
<1>2. CASE HostTick
  BY <1>1, <1>2, TickOwn, ControllerStep DEF HostTick, hostVars
<1>3. CASE HostPoll
  <2>1. InsertText \/ UNCHANGED inserted
    BY <1>3 DEF HostPoll
  <2>2. OnlyOwnWords'
    BY <2>1, InsertOwn DEF WordsInv, OnlyOwnWords
  <2>3. UNCHANGED <<pipes, ctl>>
    BY <1>3 DEF HostPoll
  <2> QED
    BY <1>1, <2>2, <2>3 DEF WordsInv, CommandsOwn, AsrEventsOwn, AnswersOwn, WorkerOwn, pipes
<1> QED
  BY <1>2, <1>3 DEF LoopStep

\* The reader thread of the speech worker: the session check keeps late words out.
LEMMA AsrReaderOwn ==
  ASSUME TypeOK, WordsInv, AsrReader, UNCHANGED workerVars
  PROVE  WordsInv'
<1>1. UNCHANGED <<asr, inserted>>
  BY DEF AsrReader, workerVars, hostVars
<1>2. CASE AsrReaderLine
  <2>1. /\ stdout["asr"] \in Seq(AsrEvent) /\ stdout["asr"] # <<>> /\ DOMAIN stdout = Workers
        /\ stdout' = [stdout EXCEPT !["asr"] = Tail(stdout["asr"])]
    BY <1>2 DEF AsrReaderLine, NextLine, TypeOK, PipesTypeOK
  <2>2. /\ Head(stdout["asr"]) \in AsrEvent /\ Head(stdout["asr"]) = stdout["asr"][1]
        /\ 1 \in DOMAIN stdout["asr"]
    BY <2>1
  <2>3. ctl' \in LaterOwn(ctl) /\ CommandsOwn'
    BY <1>2, <2>2, AsrHandlerOwn DEF AsrReaderLine, WordsInv, AsrEventsOwn
  <2>4. AnswersOwn'
    <3>1. stdout'["rewrite"] = stdout["rewrite"]
      BY <2>1 DEF Workers
    <3> QED
      BY <2>3, <3>1, AnswersLater DEF AnswersOwn
  <2>5. AsrEventsOwn'
    <3>1. stdout'["asr"] = Tail(stdout["asr"])
      BY <2>1 DEF Workers
    <3>2. \A i \in DOMAIN Tail(stdout["asr"]) :
            /\ Tail(stdout["asr"])[i] = stdout["asr"][i + 1]
            /\ i + 1 \in DOMAIN stdout["asr"]
      BY <2>1
    <3> QED
      BY <3>1, <3>2 DEF WordsInv, AsrEventsOwn
  <2>6. OwnText(ctl') /\ OwnSession(ctl')
    BY <2>3 DEF LaterOwn, Later
  <2> QED
    BY <1>1, <2>3, <2>4, <2>5, <2>6 DEF WordsInv, WorkerOwn, OnlyOwnWords
<1>3. CASE AsrReaderReport
  <2>1. /\ AsrFailure("WORKER_EXITED", NoSession) \in AsrEvent
        /\ OwnEvent(AsrFailure("WORKER_EXITED", NoSession))
    BY DEF AsrFailure, AsrEvent, ErrorCode, NoSession, OwnEvent
  <2>2. ctl' \in LaterOwn(ctl) /\ CommandsOwn'
    BY <1>3, <2>1, AsrHandlerOwn DEF AsrReaderReport
  <2> QED
    BY <1>1, <1>3, <2>2, ControllerStep DEF AsrReaderReport, LastReport
<1>4. CASE ReaderEnds("asr")
  <2>1. Become(ctl) /\ UNCHANGED stdout /\ ctl \in LaterOwn(ctl)
    BY <1>4, Base DEF ReaderEnds, ReaderEof, Become
  <2> QED
    BY <1>1, <2>1, BecomeOwn, ControllerStep
<1> QED
  BY <1>2, <1>3, <1>4 DEF AsrReader

\* The reader thread of the cleanup worker: the request check keeps late answers out.
LEMMA RewriteReaderOwn ==
  ASSUME TypeOK, WordsInv, RewriteReader, UNCHANGED workerVars
  PROVE  WordsInv'
<1>1. UNCHANGED <<asr, inserted>>
  BY DEF RewriteReader, workerVars, hostVars
<1>2. CASE RewriteReaderLine
  <2> DEFINE q == stdout["rewrite"]
  <2>1. /\ q \in Seq(RewriteEvent) /\ q # <<>> /\ DOMAIN stdout = Workers
        /\ stdout' = [stdout EXCEPT !["rewrite"] = Tail(q)]
    BY <1>2 DEF RewriteReaderLine, NextLine, TypeOK, PipesTypeOK
  <2>2. Head(q) \in RewriteEvent /\ Head(q) = q[1] /\ 1 \in DOMAIN q
    BY <2>1
  <2>3. ctl' \in LaterOwn(ctl) /\ CommandsOwn'
    BY <1>2, <2>2, RewriteHandlerOwn DEF RewriteReaderLine, WordsInv, AnswersOwn
  <2>4. \A i \in DOMAIN q : KnownRequest(q[i], ctl')
    BY <2>3, AnswersLater
  <2>5. AnswersOwn'
    <3>1. stdout'["rewrite"] = Tail(q)
      BY <2>1 DEF Workers
    <3>2. \A i \in DOMAIN Tail(q) : Tail(q)[i] = q[i + 1] /\ i + 1 \in DOMAIN q
      <4> HIDE DEF q
      <4> QED BY <2>1
    <3> QED
      BY <2>4, <3>1, <3>2 DEF AnswersOwn
  <2>6. AsrEventsOwn'
    <3>1. stdout'["asr"] = stdout["asr"]
      BY <2>1 DEF Workers
    <3> QED
      BY <3>1 DEF WordsInv, AsrEventsOwn
  <2>7. OwnText(ctl') /\ OwnSession(ctl')
    BY <2>3 DEF LaterOwn, Later
  <2> QED
    BY <1>1, <2>3, <2>5, <2>6, <2>7 DEF WordsInv, WorkerOwn, OnlyOwnWords
<1>3. CASE RewriteReaderReport
  <2> DEFINE m == RewriteFailure("WORKER_EXITED", NoRequest)
  <2>1. m \in RewriteEvent
    BY DEF RewriteFailure, RewriteEvent, ErrorCode, NoRequest
  <2>2. KnownRequest(m, ctl)
    BY Base DEF RewriteFailure, KnownRequest, NoRequest, Controller
  <2>3. ctl' \in LaterOwn(ctl) /\ CommandsOwn'
    BY <1>3, <2>1, <2>2, RewriteHandlerOwn DEF RewriteReaderReport
  <2> QED
    BY <1>1, <1>3, <2>3, ControllerStep DEF RewriteReaderReport, LastReport
<1>4. CASE ReaderEnds("rewrite")
  <2>1. Become(ctl) /\ UNCHANGED stdout /\ ctl \in LaterOwn(ctl)
    BY <1>4, Base DEF ReaderEnds, ReaderEof, Become
  <2> QED
    BY <1>1, <2>1, BecomeOwn, ControllerStep
<1> QED
  BY <1>2, <1>3, <1>4 DEF RewriteReader

\* What the speech worker does not read or write keeps its words.
LEMMA AsrWrites ==
  ASSUME TypeOK, WordsInv, NEW events \in Seq(OwnEvents), EmitAsr(events),
         CommandsOwn', WorkerOwn', UNCHANGED <<ctl, inserted>>
  PROVE  WordsInv'
<1>1. /\ stdout["asr"] \in Seq(AsrEvent) /\ DOMAIN stdout = Workers
      /\ stdout' = [stdout EXCEPT !["asr"] = stdout["asr"] \o events]
  BY DEF TypeOK, PipesTypeOK, EmitAsr
<1>2. stdout'["asr"] = stdout["asr"] \o events /\ stdout'["rewrite"] = stdout["rewrite"]
  BY <1>1 DEF Workers
<1>3. AsrEventsOwn'
  <2> DEFINE q == stdout["asr"]
  <2>1. \A i \in DOMAIN q : OwnEvent(q[i])
    BY DEF WordsInv, AsrEventsOwn
  <2>2. \A i \in DOMAIN (q \o events) :
          \/ i \in DOMAIN q /\ (q \o events)[i] = q[i]
          \/ i - Len(q) \in DOMAIN events /\ (q \o events)[i] = events[i - Len(q)]
    <3> HIDE DEF q
    <3>1. q \in Seq(AsrEvent)
      BY <1>1 DEF q
    <3> QED
      BY <3>1
  <2>3. \A i \in DOMAIN events : OwnEvent(events[i])
    <3>1. \A i \in DOMAIN events : events[i] \in OwnEvents
      OBVIOUS
    <3> QED
      BY <3>1 DEF OwnEvents
  <2>4. \A i \in DOMAIN (q \o events) : OwnEvent((q \o events)[i])
    <3> HIDE DEF q
    <3> QED BY <2>1, <2>2, <2>3
  <2> QED
    BY <1>2, <2>4 DEF AsrEventsOwn
<1>4. AnswersOwn'
  BY <1>2 DEF WordsInv, AnswersOwn
<1> QED
  BY <1>3, <1>4 DEF WordsInv, OnlyOwnWords

\* One more event of the speech worker, about its own session, is harmless.
LEMMA AsrWritesOne ==
  ASSUME TypeOK, WordsInv, NEW e \in AsrEvent, OwnEvent(e), EmitAsr(<<e>>),
         CommandsOwn', WorkerOwn', UNCHANGED <<ctl, inserted>>
  PROVE  WordsInv'
<1>1. e \in OwnEvents
  BY DEF OwnEvents
<1>2. <<e>> \in Seq(OwnEvents)
  BY <1>1
<1> QED
  BY <1>2, AsrWrites

\* Reading a command leaves the rest of the queue.
LEMMA ReadCommandOwn ==
  ASSUME TypeOK, WordsInv, NEW types, ReadCommand(types), UNCHANGED ctl
  PROVE  /\ CommandsOwn' /\ Command \in AsrCommand
         /\ Command.type = "start" => Command.session # NoSession
<1>1. /\ stdin["asr"] \in Seq(AsrCommand) /\ stdin["asr"] # <<>> /\ DOMAIN stdin = Workers
      /\ stdin' = [stdin EXCEPT !["asr"] = Tail(stdin["asr"])]
  BY DEF TypeOK, PipesTypeOK, ReadCommand
<1>2. stdin'["asr"] = Tail(stdin["asr"]) /\ stdin'["rewrite"] = stdin["rewrite"]
  BY <1>1 DEF Workers
<1>3. \A i \in DOMAIN Tail(stdin["asr"]) :
        /\ Tail(stdin["asr"])[i] = stdin["asr"][i + 1]
        /\ i + 1 \in DOMAIN stdin["asr"]
  BY <1>1
<1>4. CommandsOwn'
  BY <1>2, <1>3 DEF WordsInv, CommandsOwn
<1>5. /\ Command = stdin["asr"][1] /\ 1 \in DOMAIN stdin["asr"]
      /\ stdin["asr"][1] \in AsrCommand
  BY <1>1 DEF Command
<1> QED
  BY <1>4, <1>5 DEF WordsInv, CommandsOwn

\* The speech worker speaks of the session it was started for.
LEMMA AsrMainOwn ==
  ASSUME TypeOK, WordsInv, AsrMain
  PROVE  WordsInv'
<1>1. /\ asr \in AsrMemory /\ asr.session \in Nat /\ UNCHANGED <<ctl, inserted>>
      /\ ctl \in LaterOwn(ctl)
  BY Base DEF TypeOK, AsrTypeOK, AsrMemory, AsrMain, hostVars
<1>2. CASE AsrLoadModel
  <2>1. CommandsOwn' /\ WorkerOwn'
    BY <1>1, <1>2 DEF AsrLoadModel, WordsInv, CommandsOwn, WorkerOwn, AsrMemory
  <2> DEFINE e == AsrMessage("ready", 0, {})
  <2>2. e \in AsrEvent /\ OwnEvent(e) /\ EmitAsr(<<e>>)
    BY <1>2, AsrEventsTyped DEF AsrLoadModel, AsrMessage, OwnEvent
  <2> HIDE DEF e
  <2> QED
    BY <1>1, <2>1, <2>2, AsrWritesOne
<1>3. CASE AsrLoadFails
  <2>1. CommandsOwn' /\ WorkerOwn'
    BY <1>1, <1>3, ExitOwn DEF AsrLoadFails, WordsInv, CommandsOwn, WorkerOwn, Workers
  <2> DEFINE e == AsrFailure("MODEL_LOAD_FAILED", 0)
  <2>2. e \in AsrEvent /\ OwnEvent(e) /\ EmitAsr(<<e>>)
    BY <1>3 DEF AsrLoadFails, AsrFailure, AsrEvent, ErrorCode, OwnEvent
  <2> HIDE DEF e
  <2> QED
    BY <1>1, <2>1, <2>2, AsrWritesOne
<1>4. CASE AsrStart
  <2>1. /\ CommandsOwn' /\ Command.session \in Nat /\ Command.session # NoSession
    BY <1>1, <1>4, ReadCommandOwn DEF AsrStart, ReadCommand, Command, AsrCommand
  <2>2. WorkerOwn'
    BY <1>4, <2>1 DEF AsrStart, WorkerOwn
  <2> DEFINE e == AsrMessage("recording_started", Command.session, {})
  <2>3. e \in AsrEvent /\ OwnEvent(e) /\ EmitAsr(<<e>>)
    BY <1>4, <2>1, AsrEventsTyped DEF AsrStart, AsrMessage, OwnEvent
  <2> HIDE DEF e
  <2> QED
    BY <1>1, <2>1, <2>2, <2>3, AsrWritesOne
<1>5. CASE AsrStartFails \/ AsrRejects
  <2>1. CommandsOwn' /\ Command.session \in Nat
    BY <1>1, <1>5, ReadCommandOwn DEF AsrStartFails, AsrRejects, AsrCommand
  <2>2. WorkerOwn'
    BY <1>5 DEF AsrStartFails, AsrRejects, WordsInv, WorkerOwn
  <2>3. PICK code \in ErrorCode : EmitAsr(<<AsrFailure(code, Command.session)>>)
    BY <1>5 DEF AsrStartFails, AsrRejects, ErrorCode
  <2> DEFINE e == AsrFailure(code, Command.session)
  <2>4. e \in AsrEvent /\ OwnEvent(e) /\ EmitAsr(<<e>>)
    BY <2>1, <2>3, AsrFailuresTyped DEF AsrFailure, OwnEvent
  <2> HIDE DEF e
  <2> QED
    BY <1>1, <2>1, <2>2, <2>4, AsrWritesOne
<1>6. CASE AsrStop
  <2>1. CommandsOwn' /\ asr.session # NoSession
    BY <1>1, <1>6, ReadCommandOwn DEF AsrStop, Matches, WordsInv, WorkerOwn
  <2>2. WorkerOwn'
    BY <1>1, <1>6 DEF AsrStop, AsrBackToReady, WorkerOwn, AsrMemory
  <2>3. PICK text \in {{}, {asr.session}} :
          EmitAsr((IF text = asr.transcript THEN <<>>
                   ELSE <<AsrMessage("transcript_update", asr.session, text)>>)
                  \o <<AsrMessage("recording_finalized", asr.session, text)>>)
    BY <1>6 DEF AsrStop
  <2> DEFINE e == AsrMessage("transcript_update", asr.session, text)
             f == AsrMessage("recording_finalized", asr.session, text)
             events == (IF text = asr.transcript THEN <<>> ELSE <<e>>) \o <<f>>
  <2>4. e \in OwnEvents /\ f \in OwnEvents
    <3>1. text \in SUBSET Nat /\ text \subseteq {asr.session} \ {NoSession}
      BY <1>1, <2>1, <2>3
    <3>2. e \in AsrEvent /\ f \in AsrEvent
      BY <1>1, <3>1, AsrEventsTyped
    <3>3. /\ e.text = text /\ e.session = asr.session
          /\ f.text = text /\ f.session = asr.session
      BY DEF AsrMessage
    <3> HIDE DEF e, f
    <3> QED
      BY <3>1, <3>2, <3>3 DEF OwnEvents, OwnEvent
  <2>5. events \in Seq(OwnEvents)
    <3> HIDE DEF e, f
    <3>1. <<e>> \in Seq(OwnEvents) /\ <<f>> \in Seq(OwnEvents) /\ <<>> \in Seq(OwnEvents)
      BY <2>4
    <3> QED
      BY <3>1
  <2>6. EmitAsr(events)
    BY <2>3
  <2> HIDE DEF events
  <2> QED
    BY <1>1, <2>1, <2>2, <2>5, <2>6, AsrWrites
<1>7. CASE AsrStopFails
  <2>1. CommandsOwn'
    BY <1>1, <1>7, ReadCommandOwn DEF AsrStopFails, Matches
  <2>2. WorkerOwn'
    BY <1>1, <1>7 DEF AsrStopFails, AsrBackToReady, WorkerOwn, AsrMemory
  <2> DEFINE e == AsrFailure("TRANSCRIPTION_FAILED", asr.session)
  <2>3. e \in AsrEvent /\ OwnEvent(e) /\ EmitAsr(<<e>>)
    BY <1>1, <1>7 DEF AsrStopFails, AsrFailure, AsrEvent, ErrorCode, OwnEvent
  <2> HIDE DEF e
  <2> QED
    BY <1>1, <2>1, <2>2, <2>3, AsrWritesOne
<1>8. CASE AsrCancel
  <2>1. CommandsOwn'
    BY <1>1, <1>8, ReadCommandOwn DEF AsrCancel, Matches
  <2>2. WorkerOwn'
    BY <1>1, <1>8 DEF AsrCancel, AsrBackToReady, WorkerOwn, AsrMemory
  <2> DEFINE e == AsrMessage("recording_cancelled", asr.session, {})
  <2>3. e \in AsrEvent /\ OwnEvent(e) /\ EmitAsr(<<e>>)
    BY <1>1, <1>8, AsrEventsTyped DEF AsrCancel, AsrMessage, OwnEvent
  <2> HIDE DEF e
  <2> QED
    BY <1>1, <2>1, <2>2, <2>3, AsrWritesOne
<1>9. CASE AsrQuit
  <2>1. CommandsOwn' /\ UNCHANGED <<stdout, asr>>
    BY <1>1, <1>9, ExitOwn DEF AsrQuit, CommandsOwn, Workers
  <2> QED
    BY <1>1, <2>1, ControllerStep
<1> QED
  BY <1>2, <1>3, <1>4, <1>5, <1>6, <1>7, <1>8, <1>9 DEF AsrMain, AsrMainThread

\* The feed thread writes about the session that is being recorded.
LEMMA AsrFeederOwn ==
  ASSUME TypeOK, WordsInv, AsrFeeder
  PROVE  WordsInv'
<1>1. /\ asr \in AsrMemory /\ asr.session \in Nat /\ asr.session # NoSession
      /\ UNCHANGED <<ctl, inserted, stdin>> /\ ctl \in LaterOwn(ctl)
  BY Base
  DEF TypeOK, AsrTypeOK, AsrMemory, AsrFeeder, AsrFeedThread, AsrFeed, AsrFeedFails,
      WordsInv, WorkerOwn, hostVars
<1>2. CommandsOwn'
  BY <1>1 DEF WordsInv, CommandsOwn
<1>3. WorkerOwn'
  BY <1>1 DEF AsrFeeder, AsrFeedThread, AsrFeed, AsrFeedFails, WorkerOwn, AsrMemory
<1>4. \E e \in AsrEvent : OwnEvent(e) /\ EmitAsr(<<e>>)
  <2> DEFINE e == AsrMessage("transcript_update", asr.session, {asr.session})
             f == AsrFailure("TRANSCRIPTION_FAILED", asr.session)
  <2>1. e \in AsrEvent /\ OwnEvent(e)
    BY <1>1 DEF AsrMessage, AsrEvent, ErrorCode, OwnEvent
  <2>2. f \in AsrEvent /\ OwnEvent(f)
    BY <1>1 DEF AsrFailure, AsrEvent, ErrorCode, OwnEvent
  <2>3. EmitAsr(<<e>>) \/ EmitAsr(<<f>>)
    BY DEF AsrFeeder, AsrFeedThread, AsrFeed, AsrFeedFails
  <2> HIDE DEF e, f
  <2> QED
    BY <2>1, <2>2, <2>3
<1> QED
  BY <1>1, <1>2, <1>3, <1>4, AsrWritesOne

\* An answer carries the number and the words of its request.
LEMMA RewriteOwn ==
  ASSUME TypeOK, WordsInv, RewriteStep
  PROVE  WordsInv'
<1>1. UNCHANGED <<ctl, inserted, asr>> /\ ctl \in LaterOwn(ctl) /\ ctl \in Controller
  BY Base DEF RewriteStep, hostVars
<1>2. ASSUME NEW e, KnownRequest(e, ctl), EmitRewrite(e), CommandsOwn'
      PROVE  WordsInv'
  <2>1. /\ stdout["rewrite"] \in Seq(RewriteEvent) /\ DOMAIN stdout = Workers
        /\ stdout' = [stdout EXCEPT !["rewrite"] = Append(stdout["rewrite"], e)]
    BY <1>2 DEF TypeOK, PipesTypeOK, EmitRewrite
  <2>2. /\ stdout'["rewrite"] = Append(stdout["rewrite"], e)
        /\ stdout'["asr"] = stdout["asr"]
    BY <2>1 DEF Workers
  <2>3. \A i \in DOMAIN stdout'["rewrite"] :
          \/ i \in DOMAIN stdout["rewrite"] /\ stdout'["rewrite"][i] = stdout["rewrite"][i]
          \/ stdout'["rewrite"][i] = e
    BY <2>1, <2>2
  <2>4. AnswersOwn'
    BY <1>1, <1>2, <2>3 DEF WordsInv, AnswersOwn
  <2>5. AsrEventsOwn'
    BY <2>2 DEF WordsInv, AsrEventsOwn
  <2> QED
    BY <1>1, <1>2, <2>4, <2>5 DEF WordsInv, WorkerOwn, OnlyOwnWords
<1>3. CASE RewriteLoadModel \/ RewriteLoadFails
  <2>1. CommandsOwn'
    BY <1>1, <1>3, ExitOwn
    DEF RewriteLoadModel, RewriteLoadFails, WordsInv, CommandsOwn, Workers
  <2> DEFINE e == RewriteMessage("ready", NoRequest, {})
             f == RewriteFailure("MODEL_LOAD_FAILED", NoRequest)
  <2>2. KnownRequest(e, ctl) /\ KnownRequest(f, ctl)
    BY <1>1 DEF RewriteMessage, RewriteFailure, KnownRequest, NoRequest, Controller
  <2>3. EmitRewrite(e) \/ EmitRewrite(f)
    BY <1>3 DEF RewriteLoadModel, RewriteLoadFails
  <2> HIDE DEF e, f
  <2> QED
    BY <1>2, <2>1, <2>2, <2>3
<1>4. CASE RewriteAnswer \/ RewriteAnswerFails
  <2> DEFINE q == stdin["rewrite"]
  <2>1. /\ q \in Seq(RewriteCommand) /\ q # <<>> /\ DOMAIN stdin = Workers
        /\ stdin' = [stdin EXCEPT !["rewrite"] = Tail(q)]
    BY <1>4 DEF RewriteAnswer, RewriteAnswerFails, ReadRequest, TypeOK, PipesTypeOK
  <2>2. Head(q) = q[1] /\ 1 \in DOMAIN q
    BY <2>1
  <2>3. stdin'["rewrite"] = Tail(q) /\ stdin'["asr"] = stdin["asr"]
    BY <2>1 DEF Workers
  <2>4. \A i \in DOMAIN Tail(q) : Tail(q)[i] = q[i + 1] /\ i + 1 \in DOMAIN q
    <3> HIDE DEF q
    <3> QED BY <2>1
  <2>5. CommandsOwn'
    BY <1>1, <2>3, <2>4 DEF WordsInv, CommandsOwn
  <2> DEFINE r == Head(q)
             e == RewriteMessage("rewrite_completed", r.request, r.text)
             f == RewriteFailure("REWRITE_FAILED", r.request)
  <2>6. KnownRequest(r, ctl)
    BY <2>2 DEF WordsInv, CommandsOwn
  <2>7. KnownRequest(e, ctl) /\ KnownRequest(f, ctl)
    <3> HIDE DEF r
    <3> QED BY <2>6 DEF RewriteMessage, RewriteFailure, KnownRequest
  <2>8. EmitRewrite(e) \/ EmitRewrite(f)
    BY <1>4 DEF RewriteAnswer, RewriteAnswerFails
  <2> HIDE DEF e, f
  <2> QED
    BY <1>2, <2>5, <2>7, <2>8
<1>5. CASE RewriteQuit
  <2>1. CommandsOwn' /\ UNCHANGED stdout
    BY <1>1, <1>5, ExitOwn DEF RewriteQuit, CommandsOwn, Workers
  <2> QED
    BY <1>1, <2>1, ControllerStep
<1> QED
  BY <1>3, <1>4, <1>5 DEF RewriteStep, RewriteWorkerStep

\* The invariant holds at launch, where there are no words.
LEMMA WordsInit == Init => WordsInv
<1> SUFFICES ASSUME Init PROVE WordsInv
  OBVIOUS
<1>1. /\ stdin["asr"] = <<>> /\ stdin["rewrite"] = <<>>
      /\ stdout["asr"] = <<>> /\ stdout["rewrite"] = <<>>
      /\ inserted = <<>> /\ asr.state = "Loading"
  BY DEF Init, PipesInit, HostInit, FreshAsr, Workers
<1>2. OwnText(ctl) /\ OwnSession(ctl)
  BY DEF Init, ControllerInit, OwnText, OwnSession, NoRequest, NoSession
<1>3. DOMAIN <<>> = {}
  OBVIOUS
<1> QED
  BY <1>1, <1>2, <1>3
  DEF WordsInv, CommandsOwn, AsrEventsOwn, AnswersOwn, WorkerOwn, OnlyOwnWords

\* Every step of the system keeps the words of different dictations apart.
LEMMA WordsStep == TypeOK /\ WordsInv /\ [Next]_vars => WordsInv'
<1> SUFFICES ASSUME TypeOK, WordsInv, [Next]_vars PROVE WordsInv'
  OBVIOUS
<1>1. CASE Crash
  <2>1. PICK w \in Workers : Exit(w)
    BY <1>1 DEF Crash
  <2>2. UNCHANGED <<ctl, stdout, asr, inserted>>
    BY <1>1 DEF Crash, hostVars, workerVars
  <2>3. CommandsOwn' /\ ctl' \in LaterOwn(ctl)
    BY <2>1, <2>2, ExitOwn, Base DEF CommandsOwn
  <2> QED
    BY <2>2, <2>3, ControllerStep
<1>2. CASE Terminated \/ UNCHANGED vars
  BY <1>2
  DEF Terminated, vars, pipes, hostVars, workerVars, WordsInv, CommandsOwn, AsrEventsOwn,
      AnswersOwn, WorkerOwn, OnlyOwnWords
<1>3. CASE (UiStep \/ LoopStep \/ AsrReader \/ RewriteReader) /\ UNCHANGED <<workerVars, used>>
  BY <1>3, UiOwn, LoopOwn, AsrReaderOwn, RewriteReaderOwn
<1> QED
  BY <1>1, <1>2, <1>3, UserOwn, SpawnOwn, AsrMainOwn, AsrFeederOwn, RewriteOwn DEF Next

\* Whatever is lost, late, repeated or restarted: what is inserted for a dictation
\* was recognised, or cleaned, from that dictation's own recordings.
THEOREM WordsStayApart == Spec => []OnlyOwnWords
<1>1. WordsInv => OnlyOwnWords
  BY DEF WordsInv
<1> QED
  BY <1>1, TypeCorrect, WordsInit, WordsStep, PTL DEF Spec
=============================================================================
