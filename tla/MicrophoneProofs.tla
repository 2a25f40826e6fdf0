-------------------------- MODULE MicrophoneProofs --------------------------
(***************************************************************************)
(* The microphone is open only for the recording the window shows: what    *)
(* the two queues between controller and speech worker have to hold so     *)
(* that a worker that captures is, or is about to be, known to capture.    *)
(* Without AI cleanup it is also the recording of the language the window  *)
(* shows, across the restarts that a language change asks for.  The same   *)
(* queues answer the second question of the module, at its end: whether    *)
(* the window can be left waiting.                                         *)
(***************************************************************************)
EXTENDS PromiseProofs

IsCall(c) == c.type \in {"stop", "cancel"}

\* Commands that end a recording are meant for the last session, when it runs and
\* when they follow the command that starts it.
CallsFit(cs, a, n) ==
  /\ a.state = "Recording" => \A i \in DOMAIN cs : IsCall(cs[i]) => cs[i].session = n
  /\ \A i, j \in DOMAIN cs :
       cs[j].type = "start" /\ j < i /\ IsCall(cs[i]) => cs[i].session = n

HasCall(cs) == \E i \in DOMAIN cs : IsCall(cs[i])
HasStarted(es) == \E i \in DOMAIN es : es[i].type = "recording_started"

\* An error the controller has not read yet is older than the recording.
ErrorsFit(es) ==
  \A i \in DOMAIN es : es[i].type = "error" =>
    \E j \in DOMAIN es : i < j /\ es[j].type = "recording_started"

Fits(cs, es, a, n) ==
  /\ a.capturing => a.state = "Recording" /\ ErrorsFit(es)
  /\ CallsFit(cs, a, n)

\* A recording is known to the controller, or will be, or is about to end.
Heard(cs, es, a, known) == a.capturing => known \/ HasStarted(es) \/ HasCall(cs)

Known == ctl.mode = "Recording" \/ ~Accepts("asr")

\* The controller waits for a session only when it has one.
Waiting == {"StartingRecording", "Recording", "Finalizing", "Cancelling"}
SessionInv == ctl.mode \in Waiting => ctl.session # NoSession

MicInv ==
  /\ SessionInv
  /\ Fits(stdin["asr"], stdout["asr"], asr, ctl.lastSession)
  /\ Heard(stdin["asr"], stdout["asr"], asr, Known)

---------------------------------------------------------------------------
(* Lemmas about the queues.                                                *)

\* Reading an event: only the start of the recording answers for the others.
LEMMA FitsPop ==
  ASSUME NEW cs, NEW es \in Seq(AsrEvent), es # <<>>, NEW a, NEW n, NEW known,
         Fits(cs, es, a, n), Heard(cs, es, a, known)
  PROVE  /\ Fits(cs, Tail(es), a, n)
         /\ Head(es).type # "recording_started" => Heard(cs, Tail(es), a, known)
         /\ Head(es).type = "error" => Heard(cs, Tail(es), a, FALSE)
<1> DEFINE q == Tail(es)
<1>1. /\ \A i \in DOMAIN q : q[i] = es[i + 1] /\ i + 1 \in DOMAIN es /\ i \in Nat /\ i >= 1
      /\ \A i \in DOMAIN es : i = 1 \/ (i > 1 /\ i - 1 \in DOMAIN q /\ q[i - 1] = es[i])
      /\ Head(es) = es[1] /\ 1 \in DOMAIN es
      /\ \A i \in DOMAIN es : i \in Nat
  OBVIOUS
<1> HIDE DEF q
<1>2. ErrorsFit(es) => ErrorsFit(q)
  <2> SUFFICES ASSUME ErrorsFit(es), NEW i \in DOMAIN q, q[i].type = "error"
               PROVE  \E j \in DOMAIN q : i < j /\ q[j].type = "recording_started"
    BY DEF ErrorsFit
  <2>1. PICK j \in DOMAIN es : i + 1 < j /\ es[j].type = "recording_started"
    BY <1>1 DEF ErrorsFit
  <2>2. j - 1 \in DOMAIN q /\ q[j - 1].type = "recording_started" /\ i < j - 1
    BY <1>1, <2>1
  <2> QED
    BY <2>2
<1>3. HasStarted(es) => HasStarted(q) \/ Head(es).type = "recording_started"
  BY <1>1 DEF HasStarted
<1>4. ErrorsFit(es) /\ Head(es).type = "error" => HasStarted(q)
  <2> SUFFICES ASSUME ErrorsFit(es), Head(es).type = "error" PROVE HasStarted(q)
    OBVIOUS
  <2>1. PICK j \in DOMAIN es : 1 < j /\ es[j].type = "recording_started"
    BY <1>1 DEF ErrorsFit
  <2> QED
    BY <1>1, <2>1 DEF HasStarted
<1> QED
  BY <1>2, <1>3, <1>4 DEF Fits, Heard, q

\* A command that starts nothing, and ends nothing but the last session.
LEMMA FitsSent ==
  ASSUME NEW cs \in Seq(AsrCommand), NEW es, NEW a, NEW n, NEW known, NEW c,
         c.type # "start", IsCall(c) => c.session = n
  PROVE  /\ Fits(cs, es, a, n) => Fits(Append(cs, c), es, a, n)
         /\ Heard(cs, es, a, known) => Heard(Append(cs, c), es, a, known)
         /\ IsCall(c) => Heard(Append(cs, c), es, a, FALSE)
<1> DEFINE q == Append(cs, c)
<1>1. /\ \A i \in DOMAIN q : \/ i \in DOMAIN cs /\ q[i] = cs[i]
                             \/ i = Len(cs) + 1 /\ q[i] = c
      /\ \A i \in DOMAIN cs : i \in DOMAIN q /\ q[i] = cs[i]
      /\ Len(cs) + 1 \in DOMAIN q /\ q[Len(cs) + 1] = c
  OBVIOUS
<1> HIDE DEF q
<1>2. CallsFit(cs, a, n) => CallsFit(q, a, n)
  BY <1>1 DEF CallsFit
<1>3. HasCall(cs) \/ IsCall(c) => HasCall(q)
  BY <1>1 DEF HasCall
<1> QED
  BY <1>2, <1>3 DEF Fits, Heard, q

\* In silence a session may be numbered, and the command to start it is the last one.
LEMMA FitsStart ==
  ASSUME NEW cs \in Seq(AsrCommand), NEW es, NEW a, NEW n, NEW known,
         Silent(cs, es, a), Fits(cs, es, a, n)
  PROVE  \A k : /\ Fits(cs, es, a, k) /\ Heard(cs, es, a, known)
                /\ \A c : c.type = "start" =>
                     Fits(Append(cs, c), es, a, k) /\ Heard(Append(cs, c), es, a, known)
<1>1. ~a.capturing /\ a.state # "Recording"
  BY DEF Fits, Silent
<1>2. ASSUME NEW k, NEW c, c.type = "start" PROVE CallsFit(Append(cs, c), a, k)
  <2> DEFINE q == Append(cs, c)
  <2>1. \A i \in DOMAIN q : \/ i \in DOMAIN cs /\ q[i] = cs[i] /\ i \in 1 .. Len(cs)
                            \/ i = Len(cs) + 1 /\ q[i] = c
    OBVIOUS
  <2>2. Len(cs) \in Nat
    OBVIOUS
  <2> HIDE DEF q
  <2>3. \A i, j \in DOMAIN q : q[j].type = "start" /\ j < i => FALSE
    BY <2>1, <2>2 DEF Silent, NoStart
  <2> QED
    BY <1>1, <2>3 DEF CallsFit, q
<1>3. \A k : CallsFit(cs, a, k)
  BY <1>1 DEF CallsFit, Silent, NoStart
<1> QED
  BY <1>1, <1>2, <1>3 DEF Fits, Heard

\* Reading a command.
LEMMA FitsRead ==
  ASSUME NEW cs \in Seq(AsrCommand), cs # <<>>, NEW a, NEW n, CallsFit(cs, a, n)
  PROVE  /\ CallsFit(Tail(cs), a, n)
         /\ \A b : b.state # "Recording" \/ Head(cs).type = "start" => CallsFit(Tail(cs), b, n)
         /\ a.state = "Recording" /\ IsCall(Head(cs)) => Head(cs).session = n
         /\ HasCall(cs) => HasCall(Tail(cs)) \/ IsCall(Head(cs))
<1> DEFINE q == Tail(cs)
<1>1. /\ \A i \in DOMAIN q : q[i] = cs[i + 1] /\ i + 1 \in DOMAIN cs /\ i \in Nat /\ i >= 1
      /\ \A i \in DOMAIN cs : i = 1 \/ (i > 1 /\ i - 1 \in DOMAIN q /\ q[i - 1] = cs[i])
      /\ Head(cs) = cs[1] /\ 1 \in DOMAIN cs
  OBVIOUS
<1> HIDE DEF q
<1>2. \A i, j \in DOMAIN q :
        q[j].type = "start" /\ j < i /\ IsCall(q[i]) => q[i].session = n
  <2> SUFFICES ASSUME NEW i \in DOMAIN q, NEW j \in DOMAIN q, q[j].type = "start", j < i,
                      IsCall(q[i])
               PROVE  q[i].session = n
    OBVIOUS
  <2>1. j + 1 < i + 1
    BY <1>1
  <2> QED
    BY <1>1, <2>1 DEF CallsFit
<1>3. Head(cs).type = "start" => \A i \in DOMAIN q : IsCall(q[i]) => q[i].session = n
  <2> SUFFICES ASSUME Head(cs).type = "start", NEW i \in DOMAIN q, IsCall(q[i])
               PROVE  q[i].session = n
    OBVIOUS
  <2>1. 1 < i + 1
    BY <1>1
  <2> QED
    BY <1>1, <2>1 DEF CallsFit
<1>4. a.state = "Recording" => \A i \in DOMAIN q : IsCall(q[i]) => q[i].session = n
  BY <1>1 DEF CallsFit
<1>5. HasCall(cs) => HasCall(q) \/ IsCall(Head(cs))
  BY <1>1 DEF HasCall
<1> QED
  BY <1>1, <1>2, <1>3, <1>4, <1>5 DEF CallsFit, q

\* A recording that starts answers for every error before it.
LEMMA StartFits ==
  ASSUME NEW es \in Seq(AsrEvent), NEW e, e.type = "recording_started"
  PROVE  ErrorsFit(es \o <<e>>) /\ HasStarted(es \o <<e>>)
<1> DEFINE q == es \o <<e>>
           k == Len(es) + 1
<1>1. /\ \A i \in DOMAIN q : i = k \/ i < k
      /\ k \in DOMAIN q /\ q[k] = e
  OBVIOUS
<1> HIDE DEF q, k
<1> QED
  BY <1>1 DEF ErrorsFit, HasStarted, q

\* What is no error leaves the order of errors and recordings alone.
LEMMA EmitFits ==
  ASSUME NEW es \in Seq(AsrEvent), NEW e, e.type # "error"
  PROVE  /\ ErrorsFit(es) => ErrorsFit(es \o <<e>>)
         /\ HasStarted(es) => HasStarted(es \o <<e>>)
<1> DEFINE q == es \o <<e>>
<1>1. /\ \A i \in DOMAIN q : (i \in DOMAIN es /\ q[i] = es[i]) \/ q[i] = e
      /\ \A i \in DOMAIN es : i \in DOMAIN q /\ q[i] = es[i]
  OBVIOUS
<1> HIDE DEF q
<1>2. ErrorsFit(es) => ErrorsFit(q)
  <2> SUFFICES ASSUME ErrorsFit(es), NEW i \in DOMAIN q, q[i].type = "error"
               PROVE  \E j \in DOMAIN q : i < j /\ q[j].type = "recording_started"
    BY DEF ErrorsFit
  <2>1. i \in DOMAIN es /\ es[i].type = "error"
    BY <1>1
  <2>2. PICK j \in DOMAIN es : i < j /\ es[j].type = "recording_started"
    BY <2>1 DEF ErrorsFit
  <2> QED
    BY <1>1, <2>2
<1> QED
  BY <1>1, <1>2 DEF HasStarted, q
---------------------------------------------------------------------------
(* The steps of the controller.                                            *)

\* At most a command that starts nothing is sent, and one that ends a recording is
\* meant for the last session.
CommandsFit ==
  \/ stdin'["asr"] = stdin["asr"]
  \/ \E c : /\ c.type # "start" /\ (IsCall(c) => c.session = ctl.lastSession)
            /\ stdin'["asr"] = Append(stdin["asr"], c)

\* The recording is about to end: the worker was told, or cannot be.
Ends ==
  /\ CommandsFit
  /\ ~Accepts("asr") \/ \A es : Heard(stdin'["asr"], es, asr, FALSE)

\* What such a command leaves.
LEMMA CommandsHeard ==
  ASSUME TypeOK, CommandsFit, NEW es, NEW known
  PROVE  /\ Fits(stdin["asr"], es, asr, ctl.lastSession)
              => Fits(stdin'["asr"], es, asr, ctl.lastSession)
         /\ Heard(stdin["asr"], es, asr, known) => Heard(stdin'["asr"], es, asr, known)
<1>1. stdin["asr"] \in Seq(AsrCommand)
  BY AsrQueues
<1> QED
  BY <1>1, FitsSent DEF CommandsFit

\* Sends to either worker, and to none.
LEMMA SendsFit ==
  ASSUME TypeOK, NEW s, NEW failed
  PROVE  /\ Become(s) => ctl' = s /\ CommandsFit
         /\ \A c : Send("rewrite", c, s, failed) => stdin'["asr"] = stdin["asr"]
         /\ \A c : c.type # "start" /\ (IsCall(c) => c.session = ctl.lastSession)
                   /\ Send("asr", c, s, failed) => CommandsFit
         /\ \A c : IsCall(c) /\ c.session = ctl.lastSession /\ Send("asr", c, s, failed)
                     => (ctl' = s \/ ctl' = failed) /\ Ends
<1>1. DOMAIN stdin = Workers /\ stdin["asr"] \in Seq(AsrCommand)
  BY DEF TypeOK, PipesTypeOK
<1>2. Become(s) => ctl' = s /\ CommandsFit
  BY DEF Become, CommandsFit
<1>3. ASSUME NEW c, Send("rewrite", c, s, failed) PROVE stdin'["asr"] = stdin["asr"]
  BY <1>1, <1>3 DEF Send, Become, Workers
<1>4. ASSUME NEW c, c.type # "start", IsCall(c) => c.session = ctl.lastSession,
             Send("asr", c, s, failed)
      PROVE  CommandsFit
  BY <1>1, <1>4 DEF Send, Become, CommandsFit, Workers
<1>5. ASSUME NEW c, IsCall(c), c.session = ctl.lastSession, Send("asr", c, s, failed)
      PROVE  (ctl' = s \/ ctl' = failed) /\ Ends
  <2>1. c.type # "start"
    BY <1>5 DEF IsCall
  <2>2. CommandsFit
    BY <1>4, <1>5, <2>1
  <2>3. \/ ctl' = s /\ stdin'["asr"] = Append(stdin["asr"], c)
        \/ ctl' = failed /\ ~Accepts("asr")
    BY <1>1, <1>5 DEF Send, Become, Workers
  <2>4. \A es : Heard(Append(stdin["asr"], c), es, asr, FALSE)
    BY <1>1, <1>5, <2>1, FitsSent
  <2> QED
    BY <2>2, <2>3, <2>4 DEF Ends
<1> QED
  BY <1>2, <1>3, <1>4, <1>5

\* The step leaves the session alone, and the mode Recording.
Stays(r, s) ==
  /\ s.session = r.session /\ s.lastSession = r.lastSession
  /\ s.mode \in Waiting => r.mode \in Waiting
  /\ r.mode = "Recording" => s.mode = "Recording"

\* A step that numbers no session.
LEMMA MicKept ==
  ASSUME TypeOK, CommandsFit, SessionInv', ctl'.lastSession = ctl.lastSession,
         UNCHANGED asr, Accepts("asr")' => Accepts("asr"),
         Fits(stdin["asr"], stdout'["asr"], asr, ctl.lastSession),
         Ends \/ Heard(stdin["asr"], stdout'["asr"], asr, Known')
  PROVE  MicInv'
<1>1. Fits(stdin'["asr"], stdout'["asr"], asr, ctl.lastSession)
  BY CommandsHeard
<1>2. Heard(stdin'["asr"], stdout'["asr"], asr, Known')
  <2>1. CASE Ends
    BY <2>1 DEF Ends, Heard, Known
  <2>2. CASE Heard(stdin["asr"], stdout'["asr"], asr, Known')
    BY <2>2, CommandsHeard
  <2> QED
    BY <2>1, <2>2
<1> QED
  BY <1>1, <1>2 DEF MicInv

\* A step in which nothing is read and the mode Recording stays.
LEMMA MicStays ==
  ASSUME TypeOK, MicInv, CommandsFit, Stays(ctl, ctl'), UNCHANGED asr,
         stdout'["asr"] = stdout["asr"], Accepts("asr")' => Accepts("asr")
  PROVE  MicInv'
<1>1. SessionInv' /\ ctl'.lastSession = ctl.lastSession
  BY DEF MicInv, SessionInv, Stays
<1>2. Fits(stdin["asr"], stdout'["asr"], asr, ctl.lastSession)
  BY DEF MicInv
<1>3. Heard(stdin["asr"], stdout'["asr"], asr, Known')
  BY DEF MicInv, Heard, Known, Stays
<1> QED
  BY <1>1, <1>2, <1>3, MicKept

\* A step that is taken in silence.
LEMMA MicSilent ==
  ASSUME TypeOK, KeptInv, MicInv, Silence, CommandsFit, SessionInv',
         ctl'.lastSession = ctl.lastSession, UNCHANGED asr,
         stdout'["asr"] = stdout["asr"], Accepts("asr")' => Accepts("asr")
  PROVE  MicInv'
<1>1. Fits(stdin["asr"], stdout'["asr"], asr, ctl.lastSession)
  BY DEF MicInv
<1>2. Heard(stdin["asr"], stdout'["asr"], asr, Known')
  BY <1>1 DEF Heard, Silence, Silent, Fits
<1> QED
  BY <1>1, <1>2, MicKept

\* stop_for_language_change_locked() tells the worker when it records.
LEMMA StopEnds ==
  ASSUME TypeOK, NEW s \in Controller, StopForLanguageChange(s),
         s.lastSession = ctl.lastSession, s.mode = "Recording" => s.session = s.lastSession
  PROVE  CommandsFit /\ (s.mode = "Recording" => Ends)
<1> DEFINE t == [s EXCEPT !.pending = TRUE]
           f == [t EXCEPT !.mode = "Finalizing"]
           g == SetError([f EXCEPT !.pending = FALSE])
           c == ToAsr("stop", f)
<1>1. c.type = "stop" /\ c.session = s.session
  BY DEF ToAsr, Controller
<1>2. \/ s.mode # "Recording" /\ Become(t)
      \/ s.mode = "Recording" /\ Send("asr", c, f, g)
  BY DEF StopForLanguageChange, Controller
<1> HIDE DEF t, f, g, c
<1> QED
  BY <1>1, <1>2, SendsFit DEF IsCall, Ends

\* A new session is numbered behind silence.
LEMMA StartFitsIn ==
  ASSUME TypeOK, NEW s \in Controller, StartSession(s), NEW es, Silent(stdin["asr"], es, asr),
         NEW n, Fits(stdin["asr"], es, asr, n)
  PROVE  \A k : /\ Fits(stdin'["asr"], es, asr, k)
                /\ \A known : Heard(stdin'["asr"], es, asr, known)
<1> DEFINE id == s.lastSession + 1
           t == [s EXCEPT !.hypothesis = {}, !.session = id, !.lastSession = id,
                          !.dictation = @ \cup {id}, !.mode = "StartingRecording"]
           g == SetError([t EXCEPT !.pending = FALSE])
           c == ToAsr("start", t)
<1>1. c.type = "start"
  BY DEF ToAsr
<1>2. stdin["asr"] \in Seq(AsrCommand) /\ DOMAIN stdin = Workers
  BY AsrQueues DEF TypeOK, PipesTypeOK
<1>3. Send("asr", c, t, g)
  BY DEF StartSession
<1> HIDE DEF id, t, g, c
<1>4. stdin'["asr"] = Append(stdin["asr"], c) \/ stdin'["asr"] = stdin["asr"]
  BY <1>2, <1>3 DEF Send, Become, Workers
<1> QED
  BY <1>1, <1>2, <1>4, FitsStart

\* The cleanup of a transcript sends nothing to the speech worker.
LEMMA CleanupFits ==
  ASSUME TypeOK, NEW s \in Controller
  PROVE  /\ DispatchFinalCleanup(s) => stdin'["asr"] = stdin["asr"]
         /\ FinishDictation(s) => stdin'["asr"] = stdin["asr"]
<1>1. ASSUME NEW u, DispatchFinalCleanup(u) PROVE stdin'["asr"] = stdin["asr"]
  <2>1. ASSUME NEW v, Become(v) PROVE stdin'["asr"] = stdin["asr"]
    BY <2>1 DEF Become
  <2>2. ASSUME NEW c, NEW v, NEW f, Send("rewrite", c, v, f) PROVE stdin'["asr"] = stdin["asr"]
    BY <2>2, SendsFit
  <2> QED
    BY <1>1, <2>1, <2>2 DEF DispatchFinalCleanup
<1>2. ASSUME FinishDictation(s) PROVE stdin'["asr"] = stdin["asr"]
  <2> DEFINE t == ClearActiveRewrite(s)
             ai == [t EXCEPT !.confirm = TRUE]
             off == [t EXCEPT !.rewritten = t.raw, !.live = t.raw,
                              !.confirm = FALSE, !.mode = "Complete"]
  <2>1. /\ t.cleanup \in CleanupModes /\ t.unavailable \in BOOLEAN
        /\ t.rewriteReady \in BOOLEAN
    BY DEF Controller, ClearActiveRewrite
  <2>2. \/ Become(CompleteWithRawFallback(ai))
        \/ DispatchFinalCleanup(ai)
        \/ Become(ai)
        \/ Become(off)
    BY <1>2, <2>1 DEF FinishDictation, CleanupModes
  <2> HIDE DEF t, ai, off
  <2> QED
    BY <1>1, <2>2 DEF Become
<1> QED
  BY <1>1, <1>2
\* An event m has been read: what it has left of the queue.
Overheard(m) ==
  /\ Fits(stdin["asr"], stdout'["asr"], asr, ctl.lastSession)
  /\ m.type # "recording_started" => Heard(stdin["asr"], stdout'["asr"], asr, Known)
  /\ m.type = "error" => Heard(stdin["asr"], stdout'["asr"], asr, ~Accepts("asr"))

\* An event that leaves the session alone.
LEMMA EventStays ==
  ASSUME TypeOK, MicInv, NEW m, Overheard(m), m.type # "recording_started",
         CommandsFit, Stays(ctl, ctl'), UNCHANGED <<asr, proc, running>>
  PROVE  MicInv'
<1>1. SessionInv' /\ ctl'.lastSession = ctl.lastSession
  BY DEF MicInv, SessionInv, Stays
<1>2. Heard(stdin["asr"], stdout'["asr"], asr, Known')
  BY DEF Overheard, Heard, Known, Stays, Accepts
<1> QED
  BY <1>1, <1>2, MicKept DEF Overheard, Accepts

\* An event that closes the session: the worker records no more.
LEMMA EventCloses ==
  ASSUME TypeOK, MicInv, NEW m, Overheard(m), Silent(stdin["asr"], stdout'["asr"], asr),
         CommandsFit, SessionInv', ctl'.lastSession = ctl.lastSession,
         UNCHANGED <<asr, proc, running>>
  PROVE  MicInv'
<1>1. ~asr.capturing
  BY DEF Overheard, Fits, Silent
<1>2. Heard(stdin["asr"], stdout'["asr"], asr, Known')
  BY <1>1 DEF Heard
<1> QED
  BY <1>2, MicKept DEF Overheard, Accepts

\* handle_asr_message(), one step per type of message.
LEMMA AsrHandlerMic ==
  ASSUME TypeOK, KeptInv, MicInv, NEW m \in AsrEvent, Arrives(m), Overheard(m),
         HandleAsrMessage(m), UNCHANGED <<asr, proc, running>>
  PROVE  MicInv'
<1>1. ctl \in Controller
  BY DEF TypeOK, ControllerTypeOK
<1>2. CASE Become(ctl) /\ m.type # "recording_started"
  <2>1. CommandsFit /\ ctl' = ctl
    BY <1>2, SendsFit
  <2> QED
    BY <1>2, <2>1, EventStays DEF Stays
<1>3. CASE AsrReady(m)
  <2> DEFINE s == UpdateReadyState([ctl EXCEPT !.asrReady = TRUE])
  <2>1. ctl' = s /\ CommandsFit /\ m.type = "ready"
    BY <1>3, SendsFit DEF AsrReady
  <2>2. Stays(ctl, s)
    BY <1>1 DEF Controller, UpdateReadyState, Stays, Waiting
  <2> HIDE DEF s
  <2> QED
    BY <2>1, <2>2, EventStays
<1>4. CASE RecordingStarted(m)
  <2> DEFINE s == [ctl EXCEPT !.mode = "Recording"]
  <2>1. ~Silence /\ m.session = ctl.lastSession
    BY <1>4 DEF Arrives, RecordingStarted, Tells
  <2>2. ctl.session = ctl.lastSession /\ ctl.session # NoSession
    BY <2>1 DEF KeptInv, ModesInv, NumbersInv
  <2>3. /\ s \in Controller /\ s.mode = "Recording" /\ s.session = s.lastSession
        /\ s.lastSession = ctl.lastSession /\ s.session = ctl.session
    BY <1>1, <2>2 DEF Controller, Modes
  <2>4. Become(s) \/ StopForLanguageChange(s)
    BY <1>1, <1>4, <2>1, <2>2 DEF RecordingStarted, Controller
  <2> HIDE DEF s
  <2>5. CASE Become(s)
    <3>1. CommandsFit /\ ctl' = s
      BY <2>5, SendsFit
    <3>2. SessionInv' /\ Known'
      BY <2>2, <2>3, <3>1 DEF SessionInv, Known
    <3> QED
      BY <2>3, <3>1, <3>2, MicKept DEF Overheard, Heard, Accepts
  <2>6. CASE StopForLanguageChange(s)
    <3>1. Ends
      BY <2>3, <2>6, StopEnds
    <3>2. ctl'.session = ctl.session /\ ctl'.lastSession = ctl.lastSession
      BY <2>3, <2>6, StopTurns DEF SameSessions
    <3>3. SessionInv'
      BY <2>2, <3>2 DEF SessionInv
    <3> QED
      BY <3>1, <3>2, <3>3, MicKept DEF Overheard, Ends, Accepts
  <2> QED
    BY <2>4, <2>5, <2>6
<1>5. CASE TranscriptUpdate(m) /\ m.session = ctl.session
  <2> DEFINE s == RefreshTranscript([ctl EXCEPT !.hypothesis = m.text])
  <2>1. ctl' = s /\ CommandsFit /\ m.type = "transcript_update"
    BY <1>5, SendsFit DEF TranscriptUpdate
  <2>2. Stays(ctl, s)
    BY <1>1 DEF Controller, RefreshTranscript, Stays
  <2> HIDE DEF s
  <2> QED
    BY <2>1, <2>2, EventStays
<1>6. CASE RecordingFinalized(m) /\ m.session = ctl.session
  <2> DEFINE t == [ctl EXCEPT !.segments = @ \cup m.text, !.hypothesis = {}]
             s == RefreshTranscript([t EXCEPT !.raw = RawText(t)])
             p == [s EXCEPT !.pending = FALSE]
             e == [ClearActiveRewrite(s) EXCEPT !.mode = "Complete"]
  <2>1. m.text \in SUBSET Nat /\ m.type = "recording_finalized"
    BY <1>6 DEF AsrEvent, RecordingFinalized
  <2>2. t \in Controller
    BY <1>1, <2>1 DEF Controller
  <2>3. s \in Controller /\ SameSessions(ctl, s) /\ s.mode = ctl.mode
    BY <1>1, <2>1, <2>2 DEF Controller, RefreshTranscript, RawText, SameSessions
  <2> HIDE DEF s, t
  <2>4. Silent(stdin["asr"], stdout'["asr"], asr)
    BY <2>1 DEF Arrives, Closes
  <2>5. CASE s.pending
    <3>1. StartSession(p)
      BY <1>6, <2>3, <2>5 DEF RecordingFinalized, s, t
    <3>2. p \in Controller /\ p.lastSession \in Nat
      BY <2>3 DEF Controller
    <3> HIDE DEF p
    <3>3. \A k : /\ Fits(stdin'["asr"], stdout'["asr"], asr, k)
                 /\ \A known : Heard(stdin'["asr"], stdout'["asr"], asr, known)
      BY <2>4, <3>1, <3>2, StartFitsIn DEF Overheard
    <3>4. ctl'.session = p.lastSession + 1
      BY <3>1, <3>2 DEF StartSession, Send, Become, SetError, Controller
    <3>5. SessionInv'
      BY <3>2, <3>4 DEF SessionInv, NoSession
    <3> QED
      BY <3>3, <3>5 DEF MicInv
  <2>6. CASE ~s.pending
    <3>1. \/ Become(e) /\ s.raw = {}
          \/ FinishDictation(s) /\ s.raw # {}
      BY <1>6, <2>3, <2>6 DEF RecordingFinalized, s, t, Controller
    <3>2. SameSessions(s, e) /\ e.mode = "Complete"
      BY <2>3 DEF Controller, SameSessions, ClearActiveRewrite
    <3> HIDE DEF e
    <3>3. /\ CommandsFit /\ SameSessions(ctl, ctl')
          /\ ctl'.mode \in {ctl.mode, "Complete"}
      <4>1. CASE Become(e)
        BY <2>3, <3>2, <4>1, SendsFit DEF SameSessions
      <4>2. CASE FinishDictation(s) /\ s.raw # {}
        BY <2>3, <4>2, FinishHears, CleanupFits DEF SameSessions, CommandsFit
      <4> QED
        BY <3>1, <4>1, <4>2
    <3>4. SessionInv' /\ ctl'.lastSession = ctl.lastSession
      BY <3>3 DEF MicInv, SessionInv, SameSessions, Waiting
    <3> QED
      BY <2>4, <3>3, <3>4, EventCloses
  <2> QED
    BY <2>5, <2>6
<1>7. CASE RecordingCancelled(m)
  <2> DEFINE s == [ClearTexts(ctl) EXCEPT !.mode = "Ready", !.pending = FALSE,
                                    !.session = NoSession, !.dictation = {}]
  <2>1. ctl' = s /\ CommandsFit
    BY <1>7, SendsFit DEF RecordingCancelled
  <2>2. s.mode = "Ready" /\ s.lastSession = ctl.lastSession
    BY <1>1 DEF Controller, ClearTexts, ClearActiveRewrite, ResetTranscript
  <2> HIDE DEF s
  <2>3. SessionInv' /\ Silent(stdin["asr"], stdout'["asr"], asr)
    BY <1>7, <2>1, <2>2 DEF SessionInv, Waiting, RecordingCancelled, Arrives, Closes
  <2> QED
    BY <2>1, <2>2, <2>3, EventCloses
<1>8. CASE AsrError(m)
  <2>1. CASE m.code = "MICROPHONE_UNAVAILABLE"
    <3> DEFINE s == [ctl EXCEPT !.mode = "Ready", !.session = NoSession]
    <3>1. ctl' = s /\ CommandsFit
      BY <1>8, <2>1, SendsFit DEF AsrError
    <3>2. s.mode = "Ready" /\ s.lastSession = ctl.lastSession
      BY <1>1 DEF Controller
    <3> HIDE DEF s
    <3>3. SessionInv' /\ Silent(stdin["asr"], stdout'["asr"], asr)
      BY <1>8, <2>1, <3>1, <3>2 DEF SessionInv, Waiting, AsrError, Arrives, Closes
    <3> QED
      BY <3>1, <3>2, <3>3, EventCloses
  <2>2. CASE m.code # "MICROPHONE_UNAVAILABLE"
    <3>1. ctl' = SetError(ctl) /\ CommandsFit /\ m.type = "error"
      BY <1>8, <2>2, SendsFit DEF AsrError
    <3>2. ctl'.mode = "Error" /\ ctl'.lastSession = ctl.lastSession
      BY <1>1, <3>1 DEF Controller, SetError
    <3>3. SessionInv'
      BY <3>2 DEF SessionInv, Waiting
    <3>4. Heard(stdin["asr"], stdout'["asr"], asr, Known')
      BY <3>1 DEF Overheard, Heard, Known, Accepts
    <3> QED
      BY <3>1, <3>2, <3>3, <3>4, MicKept DEF Overheard, Accepts
  <2> QED
    BY <2>1, <2>2
<1> QED
  BY <1>2, <1>3, <1>4, <1>5, <1>6, <1>7, <1>8
  DEF HandleAsrMessage, TranscriptUpdate, RecordingFinalized

\* What the cleanup's answers, and their absence, do to the mode.
Cleans(r, s) ==
  /\ s.session = r.session /\ s.lastSession = r.lastSession
  /\ \/ s.mode = r.mode
     \/ /\ s.mode = "Complete" /\ r.cleanup = "Ai"
        /\ r.mode = "Finalizing" \/ r.active # NoRequest

\* handle_rewrite_message() and tick() touch nothing of the speech worker.
LEMMA RewriteHandlerCleans ==
  ASSUME TypeOK, NEW m, HandleRewriteMessage(m)
  PROVE  stdin'["asr"] = stdin["asr"] /\ Cleans(ctl, ctl')
<1>1. ctl \in Controller
  BY DEF TypeOK, ControllerTypeOK
<1>2. CASE Become(ctl)
  BY <1>2 DEF Become, Cleans
<1>3. CASE RewriteReady(m)
  <2> DEFINE s == [ctl EXCEPT !.unavailable = FALSE, !.rewriteReady = TRUE]
  <2>1. /\ s \in Controller /\ SameSessions(ctl, s) /\ s.mode = ctl.mode
        /\ s.cleanup = ctl.cleanup
    BY <1>1 DEF Controller, SameSessions
  <2>2. \/ Become(s)
        \/ s.mode = "Finalizing" /\ DispatchFinalCleanup(s)
    BY <1>3 DEF RewriteReady
  <2> HIDE DEF s
  <2>3. CASE Become(s)
    BY <2>1, <2>3 DEF Become, Cleans, SameSessions
  <2>4. CASE s.mode = "Finalizing" /\ DispatchFinalCleanup(s)
    BY <2>1, <2>4, DispatchSends, CleanupFits DEF Cleans, Completes, SameSessions
  <2> QED
    BY <2>2, <2>3, <2>4
<1>4. CASE RewriteCompleted(m) /\ ctl.cleanup = "Ai"
  <2> DEFINE s == ClearActiveRewrite(ctl)
             t == [s EXCEPT !.rewritten = m.text, !.live = m.text,
                            !.confirm = TRUE, !.mode = "Complete"]
             f == CompleteWithRawFallback(s)
  <2>1. /\ SameSessions(ctl, t) /\ t.mode = "Complete"
        /\ SameSessions(ctl, f) /\ f.mode = "Complete"
    BY <1>1 DEF Controller, SameSessions, ClearActiveRewrite, CompleteWithRawFallback
  <2>2. \/ Become(ctl)
        \/ ctl.active # NoRequest /\ (Become(t) \/ Become(f))
    BY <1>4 DEF RewriteCompleted
  <2> HIDE DEF t, f
  <2> QED
    BY <1>2, <1>4, <2>1, <2>2 DEF Become, Cleans, SameSessions
<1>5. CASE RewriteError(m) /\ ctl.cleanup = "Ai"
  <2> DEFINE fatal == m.code \in FatalCodes
             s == [ClearActiveRewrite(ctl) EXCEPT
                     !.unavailable = @ \/ fatal, !.rewriteReady = @ /\ ~fatal]
             f == CompleteWithRawFallback(s)
  <2>1. SameSessions(ctl, s) /\ s.mode = ctl.mode
    BY <1>1 DEF Controller, SameSessions, ClearActiveRewrite
  <2>2. SameSessions(ctl, f) /\ f.mode = "Complete"
    BY <1>1 DEF Controller, SameSessions, ClearActiveRewrite, CompleteWithRawFallback
  <2>3. \/ Become(s)
        \/ s.mode = "Finalizing" /\ Become(f)
    BY <1>5 DEF RewriteError
  <2> HIDE DEF s, f
  <2> QED
    BY <1>5, <2>1, <2>2, <2>3 DEF Become, Cleans, SameSessions
<1> QED
  BY <1>1, <1>2, <1>3, <1>4, <1>5 DEF HandleRewriteMessage, Controller, CleanupModes

\* Such a step takes the mode away from a recording only when none runs.
LEMMA CleansMic ==
  ASSUME TypeOK, Plain, KeptInv, MicInv, stdin'["asr"] = stdin["asr"], Cleans(ctl, ctl'),
         UNCHANGED asr, stdout'["asr"] = stdout["asr"], Accepts("asr")' => Accepts("asr")
  PROVE  MicInv'
<1>1. CommandsFit
  BY DEF CommandsFit
<1>2. SessionInv' /\ ctl'.lastSession = ctl.lastSession
  BY DEF MicInv, SessionInv, Cleans, Waiting
<1>3. CASE ctl'.mode = ctl.mode \/ ctl.mode # "Recording"
  BY <1>1, <1>3, MicStays DEF Cleans, Stays, Waiting
<1>4. CASE ctl'.mode # ctl.mode /\ ctl.mode = "Recording"
  <2>1. Silence
    BY <1>4 DEF Cleans, Plain, KeptInv, OneSessionInv
  <2> QED
    BY <1>1, <1>2, <2>1, MicSilent
<1> QED
  BY <1>3, <1>4
---------------------------------------------------------------------------
(* The steps of each actor.                                                *)

\* toggle_recording() starts in silence, or stops the recording.
LEMMA ToggleMic ==
  ASSUME TypeOK, LifecycleInv, KeptInv, MicInv, UiToggle, UNCHANGED workerVars
  PROVE  MicInv'
<1>1. /\ ctl \in Controller /\ UNCHANGED <<proc, running, stdout, asr>> /\ ToggleRecording
      /\ (Accepts("asr")' => Accepts("asr")) /\ ui.op = "none"
  BY DEF UiToggle, TypeOK, ControllerTypeOK, workerVars, Accepts, LifecycleInv, PlacesInv
<1>2. CASE ctl.mode \in {"Ready", "Complete"}
  <2> DEFINE u == ClearTexts(ctl)
             s == [u EXCEPT !.dictation = {}, !.pending = FALSE]
  <2>1. StartSession(s)
    BY <1>1, <1>2 DEF ToggleRecording, StartDictation
  <2>2. u \in Controller
    BY <1>1 DEF ClearTexts, ClearActiveRewrite, ResetTranscript, Controller, NoRequest
  <2> HIDE DEF u
  <2>3. s \in Controller /\ s.lastSession \in Nat
    BY <2>2 DEF Controller
  <2> HIDE DEF s
  <2>4. Silent(stdin["asr"], stdout'["asr"], asr)
    BY <1>1, <1>2 DEF KeptInv, ModesInv, Silence
  <2>5. \A k : /\ Fits(stdin'["asr"], stdout'["asr"], asr, k)
               /\ \A known : Heard(stdin'["asr"], stdout'["asr"], asr, known)
    BY <1>1, <2>1, <2>3, <2>4, StartFitsIn DEF MicInv
  <2>6. ctl'.session = s.lastSession + 1
    BY <2>1, <2>3 DEF StartSession, Send, Become, SetError, Controller
  <2>7. SessionInv'
    BY <2>3, <2>6 DEF SessionInv, NoSession
  <2> QED
    BY <1>1, <2>5, <2>7 DEF MicInv
<1>3. CASE ctl.mode = "Recording"
  <2> DEFINE f == [ctl EXCEPT !.mode = "Finalizing"]
             c == ToAsr("stop", f)
  <2>1. Send("asr", c, f, SetError(f)) /\ c.type = "stop" /\ c.session = ctl.session
    BY <1>1, <1>3 DEF ToggleRecording, ToAsr, Controller
  <2>2. /\ f.session = ctl.session /\ SetError(f).session = ctl.session
        /\ f.lastSession = ctl.lastSession /\ SetError(f).lastSession = ctl.lastSession
    BY <1>1 DEF Controller, SetError
  <2> HIDE DEF f, c
  <2>3. ctl.session # NoSession /\ ctl.session = ctl.lastSession
    BY <1>3 DEF MicInv, SessionInv, Waiting, KeptInv, NumbersInv
  <2>4. Ends /\ ctl'.session = ctl.session /\ ctl'.lastSession = ctl.lastSession
    BY <2>1, <2>2, <2>3, SendsFit DEF IsCall
  <2>5. SessionInv'
    BY <2>3, <2>4 DEF SessionInv
  <2> QED
    BY <1>1, <2>4, <2>5, MicKept DEF Ends, MicInv
<1>4. CASE ctl.mode \notin {"Ready", "Complete", "Recording"}
  <2>1. CommandsFit /\ ctl' = ctl
    BY <1>1, <1>4, SendsFit DEF ToggleRecording
  <2> QED
    BY <1>1, <2>1, MicStays DEF Stays
<1> QED
  BY <1>2, <1>3, <1>4

\* cancel_recording() drops a complete dictation, or asks the worker to drop it.
LEMMA CancelMic ==
  ASSUME TypeOK, KeptInv, MicInv, UiCancel, UNCHANGED workerVars
  PROVE  MicInv'
<1>1. /\ ctl \in Controller /\ UNCHANGED <<proc, running, stdout, asr>> /\ CancelRecording
      /\ (Accepts("asr")' => Accepts("asr"))
  BY DEF UiCancel, TypeOK, ControllerTypeOK, workerVars, Accepts
<1>2. CASE ctl.mode = "Complete" /\ ctl.confirm
  <2> DEFINE s == [ClearTexts(ctl) EXCEPT !.mode = "Ready", !.session = NoSession,
                                          !.dictation = {}]
  <2>1. CommandsFit /\ ctl' = s
    BY <1>1, <1>2, SendsFit DEF CancelRecording
  <2>2. s.mode = "Ready" /\ s.lastSession = ctl.lastSession
    BY <1>1 DEF Controller, ClearTexts, ClearActiveRewrite, ResetTranscript
  <2> HIDE DEF s
  <2>3. SessionInv' /\ Silence
    BY <1>2, <2>1, <2>2 DEF SessionInv, Waiting, KeptInv, ModesInv
  <2> QED
    BY <1>1, <2>1, <2>2, <2>3, MicSilent
<1>3. CASE ctl.mode \in {"Recording", "StartingRecording"}
  <2> DEFINE f == [ctl EXCEPT !.mode = "Cancelling"]
             c == ToAsr("cancel", f)
  <2>1. Send("asr", c, f, SetError(f)) /\ c.type = "cancel" /\ c.session = ctl.session
    BY <1>1, <1>3 DEF CancelRecording, ToAsr, Controller
  <2>2. /\ f.session = ctl.session /\ SetError(f).session = ctl.session
        /\ f.lastSession = ctl.lastSession /\ SetError(f).lastSession = ctl.lastSession
    BY <1>1 DEF Controller, SetError
  <2> HIDE DEF f, c
  <2>3. ctl.session # NoSession /\ ctl.session = ctl.lastSession
    BY <1>3 DEF MicInv, SessionInv, Waiting, KeptInv, NumbersInv
  <2>4. Ends /\ ctl'.session = ctl.session /\ ctl'.lastSession = ctl.lastSession
    BY <2>1, <2>2, <2>3, SendsFit DEF IsCall
  <2>5. SessionInv'
    BY <2>3, <2>4 DEF SessionInv
  <2> QED
    BY <1>1, <2>4, <2>5, MicKept DEF Ends, MicInv
<1>4. CASE /\ ~(ctl.mode = "Complete" /\ ctl.confirm)
           /\ ctl.mode \notin {"Recording", "StartingRecording"}
  <2>1. CommandsFit /\ ctl' = ctl
    BY <1>1, <1>4, SendsFit DEF CancelRecording
  <2> QED
    BY <1>1, <2>1, MicStays DEF Stays
<1> QED
  BY <1>2, <1>3, <1>4

\* A step in which neither queue of the speech worker is touched, nor the controller.
LEMMA MicFrame ==
  ASSUME TypeOK, MicInv, stdin'["asr"] = stdin["asr"], stdout'["asr"] = stdout["asr"],
         UNCHANGED <<ctl, asr>>, Accepts("asr")' => Accepts("asr")
  PROVE  MicInv'
BY MicStays DEF CommandsFit, Stays

\* What the user does, one step per hotkey and setting.
LEMMA UserMic ==
  ASSUME TypeOK, KeptInv, MicInv, UserStep, UNCHANGED workerVars
  PROVE  MicInv'
<1>1. ctl \in Controller /\ UNCHANGED asr
  BY DEF TypeOK, ControllerTypeOK, workerVars
<1>2. CASE \/ HotkeyInsert \/ HotkeyStart \/ HotkeyStop \/ HotkeyCancel \/ CloseWindow
           \/ \E w \in Workers : SelectCurrentDevice(w)
  BY <1>1, <1>2, MicFrame
  DEF HotkeyInsert, HotkeyStart, HotkeyStop, HotkeyCancel, CloseWindow, Quit,
      SelectCurrentDevice, pipes, Accepts
<1>3. CASE \E l \in Language : SelectLanguage(l)
  <2>1. PICK l \in Language : SelectLanguage(l)
    BY <1>3
  <2> DEFINE s == [ctl EXCEPT !.language = l]
  <2>2. s \in Controller /\ SameSessions(ctl, s) /\ s.mode = ctl.mode
    BY <1>1 DEF Controller, SameSessions
  <2>3. \/ s.mode \in {"Recording", "StartingRecording"} /\ StopForLanguageChange(s)
        \/ Become(s)
    BY <2>1 DEF SelectLanguage, SetLanguage
  <2> HIDE DEF s
  <2>4. UNCHANGED <<stdout, proc, running>> /\ (Accepts("asr")' => Accepts("asr"))
    BY <2>1 DEF SelectLanguage, Accepts
  <2>5. CASE Become(s)
    <3>1. CommandsFit /\ Stays(ctl, ctl')
      BY <2>2, <2>5, SendsFit DEF Stays, SameSessions
    <3> QED
      BY <1>1, <2>4, <3>1, MicStays
  <2>6. CASE /\ s.mode \in {"Recording", "StartingRecording"}
             /\ StopForLanguageChange(s)
    <3>1. ctl.session # NoSession /\ ctl.session = ctl.lastSession
      BY <2>2, <2>6 DEF MicInv, SessionInv, Waiting, KeptInv, NumbersInv
    <3>2. CommandsFit /\ (s.mode = "Recording" => Ends)
      BY <2>2, <2>6, <3>1, StopEnds DEF SameSessions
    <3>3. /\ SameSessions(s, ctl')
          /\ s.mode # "Recording" => ctl'.mode = s.mode
      BY <2>2, <2>6, StopTurns
    <3>4. SessionInv' /\ ctl'.lastSession = ctl.lastSession
      BY <2>2, <3>1, <3>3 DEF SessionInv, SameSessions
    <3>5. CASE s.mode = "Recording"
      BY <1>1, <2>4, <3>2, <3>4, <3>5, MicKept DEF MicInv
    <3>6. CASE s.mode # "Recording"
      BY <1>1, <2>2, <2>4, <3>2, <3>3, <3>6, MicStays DEF Stays, SameSessions
    <3> QED
      BY <3>5, <3>6
  <2> QED
    BY <2>3, <2>5, <2>6
<1>4. CASE \E m \in CleanupModes : SelectCleanup(m)
  <2>1. PICK m \in CleanupModes : SelectCleanup(m)
    BY <1>4
  <2> DEFINE s == [ClearActiveRewrite(ctl) EXCEPT
                     !.cleanup = m, !.unavailable = FALSE,
                     !.rewriteReady = @ /\ m # "Off"]
  <2>2. CommandsFit /\ ctl' = s
    BY <2>1, SendsFit DEF SelectCleanup, SetCleanupMode
  <2>3. Stays(ctl, s)
    BY <1>1 DEF Controller, ClearActiveRewrite, Stays
  <2> HIDE DEF s
  <2> QED
    BY <1>1, <2>1, <2>2, <2>3, MicStays DEF SelectCleanup, Accepts
<1>5. CASE \E d \in Device : SelectAsrDevice(d)
  <2>1. PICK d \in Device : SelectAsrDevice(d)
    BY <1>5
  <2> DEFINE s == [ctl EXCEPT !.device["asr"] = d, !.asrReady = FALSE, !.mode = "Starting"]
  <2>2. CommandsFit /\ ctl' = s
    BY <2>1, SendsFit DEF SelectAsrDevice, SetAsrDevice
  <2>3. Stays(ctl, s)
    BY <1>1, <2>1
    DEF Controller, Stays, Waiting, SelectAsrDevice, SetAsrDevice, CanSetComputeDevice,
        CanSetCleanupMode
  <2> HIDE DEF s
  <2> QED
    BY <1>1, <2>1, <2>2, <2>3, MicStays DEF SelectAsrDevice, Accepts
<1>6. CASE \E d \in Device : SelectRewriteDevice(d)
  <2>1. PICK d \in Device : SelectRewriteDevice(d)
    BY <1>6
  <2> DEFINE s == [ctl EXCEPT !.device["rewrite"] = d]
             t == [ClearActiveRewrite(s) EXCEPT !.rewriteReady = FALSE, !.unavailable = FALSE]
  <2>2. Stays(ctl, s) /\ Stays(ctl, t)
    BY <1>1 DEF Controller, ClearActiveRewrite, Stays
  <2>3. Become(s) \/ Become(t)
    BY <2>1 DEF SelectRewriteDevice, SetRewriteDevice
  <2> HIDE DEF s, t
  <2>4. CommandsFit /\ Stays(ctl, ctl')
    BY <2>2, <2>3, SendsFit
  <2> QED
    BY <1>1, <2>1, <2>4, MicStays DEF SelectRewriteDevice, Accepts
<1> QED
  BY <1>2, <1>3, <1>4, <1>5, <1>6 DEF UserStep

\* A process that ends takes no commands any more.
LEMMA ExitMic ==
  ASSUME TypeOK, MicInv, NEW w \in Workers, Exit(w), UNCHANGED <<running, stdout, ctl, asr>>
  PROVE  MicInv'
<1>1. /\ DOMAIN stdin = Workers /\ proc \in [Workers -> {"none", "alive", "exited"}]
  BY DEF TypeOK, PipesTypeOK
<1>2. CASE w = "asr"
  <2>1. stdin'["asr"] = <<>> /\ ~Accepts("asr")'
    BY <1>1, <1>2 DEF Exit, Accepts, Workers
  <2>2. \A i \in DOMAIN <<>> : FALSE
    OBVIOUS
  <2> DEFINE q == <<>>
  <2> HIDE DEF q
  <2>3. \A n : CallsFit(q, asr, n)
    BY <2>2 DEF CallsFit, q
  <2>4. Fits(stdin'["asr"], stdout'["asr"], asr', ctl'.lastSession)
    BY <2>1, <2>3 DEF MicInv, Fits, q
  <2>5. Known'
    BY <2>1 DEF Known
  <2> QED
    BY <2>4, <2>5 DEF MicInv, SessionInv, Heard
<1>3. CASE w # "asr"
  <2>1. /\ stdin'["asr"] = stdin["asr"]
        /\ Accepts("asr")' => Accepts("asr")
    BY <1>1, <1>3 DEF Exit, Accepts, Workers
  <2> QED
    BY <2>1, MicFrame
<1> QED
  BY <1>2, <1>3

\* The calls of the UI thread, one step per place.
LEMMA UiMic ==
  ASSUME TypeOK, LifecycleInv, KeptInv, MicInv, UiStep, UNCHANGED workerVars
  PROVE  MicInv'
<1>1. ctl \in Controller /\ UNCHANGED asr /\ DOMAIN running = Workers /\ DOMAIN proc = Workers
  BY DEF TypeOK, ControllerTypeOK, PipesTypeOK, workerVars
<1>2. CASE UiSendShutdown
  <2>1. ShutdownCommand("asr").type = "shutdown"
    BY DEF ShutdownCommand
  <2>2. /\ Send("asr", ShutdownCommand("asr"), ctl, ctl)
           \/ Send("rewrite", ShutdownCommand("rewrite"), ctl, ctl)
        /\ ctl' = ctl
    BY <1>2 DEF UiSendShutdown, OpWorker, Send, Become
  <2>3. CommandsFit
    BY <2>1, <2>2, SendsFit DEF CommandsFit, IsCall
  <2> QED
    BY <1>1, <1>2, <2>2, <2>3, MicStays DEF Stays, UiSendShutdown, Accepts
<1>3. CASE UiCheckRunning \/ UiCloseInput \/ UiJoin
  <2>1. UNCHANGED <<stdin, stdout, ctl>>
    BY <1>3 DEF UiCheckRunning, UiCloseInput, CloseInput, UiJoin, Join, pipes
  <2>2. Accepts("asr")' => Accepts("asr")
    BY <1>1, <1>3
    DEF UiCheckRunning, UiCloseInput, CloseInput, UiJoin, Join, pipes, Accepts, Workers
  <2> QED
    BY <1>1, <2>1, <2>2, MicFrame
<1>4. CASE UiTerminate
  BY <1>1, <1>4, OpWorkerTyped, ExitMic DEF UiTerminate
<1>5. CASE HostSpawnFails
  <2>1. /\ ui.pc = "spawn" /\ UNCHANGED <<stdin, stdout, proc, running>>
        /\ ctl'.session = ctl.session /\ ctl'.lastSession = ctl.lastSession
        /\ \/ OpWorker = "asr" /\ ctl'.mode = "Error"
           \/ ctl'.mode = ctl.mode
    BY <1>1, <1>5 DEF HostSpawnFails, UiSpawnFails, pipes, Controller, SetError
  <2>2. CommandsFit /\ (Accepts("asr")' => Accepts("asr"))
    BY <2>1 DEF CommandsFit, Accepts
  <2>3. CASE OpWorker = "asr" /\ ctl'.mode = "Error"
    <3>1. Known' /\ SessionInv'
      BY <2>1, <2>3
      DEF LifecycleInv, StoppedInv, Known, Accepts, SessionInv, Waiting
    <3> QED
      BY <1>1, <2>1, <2>2, <3>1, MicKept DEF Heard, MicInv
  <2>4. CASE ctl'.mode = ctl.mode
    BY <1>1, <2>1, <2>2, <2>4, MicStays DEF Stays
  <2> QED
    BY <2>1, <2>3, <2>4
<1> QED
  BY <1>2, <1>3, <1>4, <1>5, ToggleMic, CancelMic DEF UiStep

\* A speech worker that is started captures nothing.
LEMMA SpawnMic ==
  ASSUME TypeOK, MicInv, SpawnStep
  PROVE  MicInv'
<1>1. /\ DOMAIN stdin = Workers /\ DOMAIN stdout = Workers /\ UNCHANGED ctl
      /\ DOMAIN running = Workers /\ DOMAIN proc = Workers
  BY DEF SpawnStep, HostSpawn, UiSpawn, TypeOK, PipesTypeOK
<1>2. CASE OpWorker = "asr"
  <2>1. /\ stdin'["asr"] = <<>> /\ asr'.state = "Loading" /\ ~asr'.capturing
    BY <1>1, <1>2 DEF SpawnStep, HostSpawn, UiSpawn, Spawn, FreshAsr, Workers
  <2>2. \A i \in DOMAIN <<>> : FALSE
    OBVIOUS
  <2> DEFINE q == <<>>
  <2> HIDE DEF q
  <2>3. \A n : CallsFit(q, asr', n)
    BY <2>2 DEF CallsFit, q
  <2>4. Fits(stdin'["asr"], stdout'["asr"], asr', ctl'.lastSession)
    BY <2>1, <2>3 DEF Fits, q
  <2> QED
    BY <1>1, <2>1, <2>4 DEF MicInv, SessionInv, Heard
<1>3. CASE OpWorker # "asr"
  <2>1. OpWorker = "rewrite"
    BY <1>3 DEF OpWorker
  <2>2. /\ stdin'["asr"] = stdin["asr"] /\ stdout'["asr"] = stdout["asr"] /\ asr' = asr
        /\ Accepts("asr")' => Accepts("asr")
    BY <1>1, <2>1 DEF SpawnStep, HostSpawn, UiSpawn, Spawn, Workers, Accepts
  <2> QED
    BY <1>1, <2>2, MicFrame
<1> QED
  BY <1>2, <1>3

\* The main loop.
LEMMA LoopMic ==
  ASSUME TypeOK, Plain, KeptInv, MicInv, LoopStep, UNCHANGED workerVars
  PROVE  MicInv'
<1>1. ctl \in Controller /\ UNCHANGED asr
  BY DEF TypeOK, ControllerTypeOK, workerVars
<1>2. CASE HostTick
  <2> DEFINE s == CompleteWithRawFallback(ClearActiveRewrite(ctl))
  <2>1. /\ ctl.active # NoRequest /\ Become(s)
        /\ UNCHANGED <<proc, running, stdout>>
    BY <1>2 DEF HostTick, Tick
  <2>2. /\ s.session = ctl.session /\ s.lastSession = ctl.lastSession /\ s.mode = "Complete"
    BY <1>1 DEF Controller, ClearActiveRewrite, CompleteWithRawFallback
  <2> HIDE DEF s
  <2>3. ctl.cleanup = "Ai"
    BY <1>1, <2>1 DEF KeptInv, ModesInv, Controller, CleanupModes
  <2>4. Cleans(ctl, ctl') /\ stdin'["asr"] = stdin["asr"]
    BY <2>1, <2>2, <2>3 DEF Cleans, Become
  <2> QED
    BY <1>1, <2>1, <2>4, CleansMic DEF Accepts
<1>3. CASE HostPoll
  BY <1>1, <1>3, MicFrame DEF HostPoll, pipes, Accepts
<1> QED
  BY <1>2, <1>3 DEF LoopStep

\* The reader thread of the speech worker.
LEMMA AsrReaderMic ==
  ASSUME TypeOK, LifecycleInv, KeptInv, MicInv, AsrReader, UNCHANGED workerVars
  PROVE  MicInv'
<1> DEFINE cs == stdin["asr"]
           es == stdout["asr"]
           n == ctl.lastSession
<1>1. /\ UNCHANGED asr /\ es \in Seq(AsrEvent) /\ DOMAIN stdout = Workers
      /\ DOMAIN running = Workers
      /\ Flight(cs, es, asr, n, said) /\ Silence = Silent(cs, es, asr)
  BY AsrQueues
  DEF workerVars, TypeOK, PipesTypeOK, KeptInv, FlightInv, Silence
<1>2. CASE AsrReaderLine
  <2>1. /\ es # <<>> /\ stdout'["asr"] = Tail(es) /\ Head(es) \in AsrEvent
        /\ HandleAsrMessage(Head(es)) /\ UNCHANGED <<proc, running>>
    BY <1>1, <1>2 DEF AsrReaderLine, NextLine, Workers
  <2>2. Fits(cs, es, asr, n) /\ Heard(cs, es, asr, Known)
    BY DEF MicInv
  <2> HIDE DEF cs, es, n
  <2>3. Arrives(Head(es)) <=>
          /\ Flight(cs, Tail(es), asr, n, said)
          /\ Silence => Silent(cs, Tail(es), asr)
          /\ Closes(Head(es)) => Silent(cs, Tail(es), asr)
          /\ Tells(Head(es)) => ~Silence /\ Head(es).session = n
          /\ Head(es).type = "recording_finalized" /\ n \in said => n \in Head(es).text
    BY <2>1 DEF Arrives, cs, n
  <2>4. Arrives(Head(es))
    BY <1>1, <2>1, <2>3, FlightPop
  <2>5. /\ Fits(cs, Tail(es), asr, n)
        /\ Head(es).type # "recording_started" => Heard(cs, Tail(es), asr, Known)
        /\ Head(es).type = "error" => Heard(cs, Tail(es), asr, FALSE)
    BY <1>1, <2>1, <2>2, FitsPop
  <2>6. Overheard(Head(es))
    BY <2>1, <2>5 DEF Overheard, Heard, cs, n
  <2> QED
    BY <1>1, <2>1, <2>4, <2>6, AsrHandlerMic
<1>3. CASE AsrReaderReport
  <2> DEFINE m == AsrFailure("WORKER_EXITED", NoSession)
  <2>1. m \in AsrEvent /\ ~Tells(m) /\ ~Closes(m) /\ m.type = "error"
    BY DEF AsrFailure, AsrEvent, ErrorCode, NoSession, Tells, Closes
  <2>2. HandleAsrMessage(m) /\ UNCHANGED <<stdout, proc, running>> /\ ~Accepts("asr")
    BY <1>3
    DEF AsrReaderReport, LastReport, LifecycleInv, WorkersInv, Workers, Accepts
  <2> HIDE DEF m
  <2>3. Arrives(m)
    BY <1>1, <2>1, <2>2 DEF Arrives
  <2>4. Overheard(m)
    BY <2>1, <2>2 DEF Overheard, MicInv, Heard
  <2> QED
    BY <1>1, <2>1, <2>2, <2>3, <2>4, AsrHandlerMic
<1>4. CASE ReaderEnds("asr")
  <2>1. UNCHANGED <<stdin, stdout, ctl>> /\ (Accepts("asr")' => Accepts("asr"))
    BY <1>1, <1>4 DEF ReaderEnds, ReaderEof, Accepts, Workers
  <2> QED
    BY <1>1, <2>1, MicFrame
<1> QED
  BY <1>2, <1>3, <1>4 DEF AsrReader

\* The reader thread of the cleanup worker.
LEMMA RewriteReaderMic ==
  ASSUME TypeOK, Plain, KeptInv, MicInv, RewriteReader, UNCHANGED workerVars
  PROVE  MicInv'
<1>1. UNCHANGED asr /\ DOMAIN stdout = Workers /\ DOMAIN running = Workers
  BY DEF workerVars, TypeOK, PipesTypeOK
<1>2. CASE RewriteReaderLine \/ RewriteReaderReport
  <2>1. PICK m : HandleRewriteMessage(m)
    BY <1>2 DEF RewriteReaderLine, RewriteReaderReport
  <2>2. stdout'["asr"] = stdout["asr"] /\ UNCHANGED <<proc, running>>
    BY <1>1, <1>2 DEF RewriteReaderLine, RewriteReaderReport, NextLine, LastReport, Workers
  <2> QED
    BY <1>1, <2>1, <2>2, RewriteHandlerCleans, CleansMic DEF Accepts
<1>3. CASE ReaderEnds("rewrite")
  <2>1. UNCHANGED <<stdin, stdout, ctl>> /\ (Accepts("asr")' => Accepts("asr"))
    BY <1>1, <1>3 DEF ReaderEnds, ReaderEof, Accepts, Workers
  <2> QED
    BY <1>1, <2>1, MicFrame
<1> QED
  BY <1>2, <1>3 DEF RewriteReader
---------------------------------------------------------------------------
(* The workers, and the theorem.                                           *)

\* A worker that has stopped capturing, or captures nothing, may tell what it likes.
LEMMA MicRests ==
  ASSUME TypeOK, MicInv, UNCHANGED ctl, ~asr'.capturing,
         CallsFit(stdin'["asr"], asr', ctl.lastSession)
  PROVE  MicInv'
BY DEF MicInv, SessionInv, Fits, Heard

\* The main thread of the speech worker, one step per command.
LEMMA AsrMainMic ==
  ASSUME TypeOK, KeptInv, MicInv, AsrMain
  PROVE  MicInv'
<1> DEFINE cs == stdin["asr"]
           es == stdout["asr"]
           n == ctl.lastSession
<1>1. /\ cs \in Seq(AsrCommand) /\ es \in Seq(AsrEvent) /\ n \in Nat
  BY AsrQueues
<1>2. /\ Flight(cs, es, asr, n, said) /\ CallsFit(cs, asr, n)
      /\ asr.capturing => asr.state = "Recording"
  BY DEF KeptInv, FlightInv, MicInv, Fits
<1>3. UNCHANGED ctl /\ asr \in AsrMemory
  BY DEF AsrMain, TypeOK, AsrTypeOK
<1>4. \A types : ReadCommand(types) =>
        /\ cs # <<>> /\ stdin'["asr"] = Tail(cs) /\ Command = Head(cs) /\ Command.type \in types
        /\ CallsFit(Tail(cs), asr, n)
        /\ \A b : b.state # "Recording" \/ Command.type = "start" => CallsFit(Tail(cs), b, n)
        /\ asr.state = "Recording" /\ IsCall(Command) => Command.session = n
        /\ asr.state = "Recording" => Command.type # "start"
  <2> TAKE types
  <2> HAVE ReadCommand(types)
  <2>1. /\ cs # <<>> /\ stdin'["asr"] = Tail(cs) /\ Command = Head(cs)
        /\ Command.type \in types
    BY AsrQueues
  <2> HIDE DEF cs, es, n
  <2> QED
    BY <1>1, <1>2, <2>1, FitsRead, FlightRead
<1>5. CASE AsrLoadModel
  <2>1. /\ stdin'["asr"] = cs /\ asr' = [asr EXCEPT !.state = "Ready"]
        /\ asr.state = "Loading"
    BY <1>5 DEF AsrLoadModel
  <2>2. ~asr'.capturing /\ asr'.state # "Recording"
    BY <1>2, <1>3, <2>1 DEF AsrMemory
  <2>3. CallsFit(cs, asr', n)
    BY <1>2, <2>2 DEF CallsFit
  <2> QED
    BY <1>3, <2>1, <2>2, <2>3, MicRests
<1>6. CASE AsrLoadFails \/ AsrQuit
  <2>1. Exit("asr") /\ UNCHANGED <<running, asr>>
    BY <1>6 DEF AsrLoadFails, AsrQuit, EmitAsr
  <2>2. /\ stdin'["asr"] = <<>> /\ ~Accepts("asr")'
    BY <2>1 DEF Exit, Accepts, TypeOK, PipesTypeOK, Workers
  <2>3. CASE AsrLoadFails
    <3>1. ~asr'.capturing
      BY <1>2, <2>1, <2>3 DEF AsrLoadFails
    <3>2. \A i \in DOMAIN <<>> : FALSE
      OBVIOUS
    <3> DEFINE q == <<>>
    <3> HIDE DEF q
    <3>3. CallsFit(q, asr', n)
      BY <3>2 DEF CallsFit, q
    <3> QED
      BY <1>3, <2>2, <3>1, <3>3, MicRests DEF q
  <2>4. CASE AsrQuit
    BY <1>3, <2>4, ExitMic DEF AsrQuit, Workers
  <2> QED
    BY <1>6, <2>3, <2>4
<1>7. CASE AsrStart
  <2> DEFINE e == AsrMessage("recording_started", Command.session, {})
  <2>1. ReadCommand({"start"}) /\ stdout'["asr"] = es \o <<e>> /\ asr'.capturing
        /\ asr'.state = "Recording"
    BY <1>7, AsrQueues DEF AsrStart
  <2>2. e.type = "recording_started"
    BY DEF AsrMessage
  <2> HIDE DEF e, cs, es, n
  <2>3. /\ stdin'["asr"] = Tail(cs) /\ CallsFit(Tail(cs), asr', n)
    BY <1>4, <2>1
  <2>4. ErrorsFit(es \o <<e>>) /\ HasStarted(es \o <<e>>)
    BY <1>1, <2>2, StartFits
  <2> QED
    BY <1>3, <2>1, <2>3, <2>4 DEF MicInv, SessionInv, Fits, Heard, n
<1>8. CASE AsrStartFails
  <2>1. ReadCommand({"start"}) /\ asr.state = "Ready" /\ asr' = asr
    BY <1>8 DEF AsrStartFails
  <2> QED
    BY <1>2, <1>3, <1>4, <2>1, MicRests
<1>9. CASE AsrRejects
  <2>1. /\ ReadCommand({"start", "stop", "cancel"}) /\ asr' = asr
        /\ \/ Command.type = "start" /\ asr.state # "Ready"
           \/ Command.type # "start"
              /\ (asr.state # "Recording" \/ asr.session # Command.session)
    BY <1>9 DEF AsrRejects
  <2>2. asr.state # "Recording"
    BY <1>2, <1>4, <2>1 DEF Flight, RunsLast, IsCall
  <2> QED
    BY <1>2, <1>3, <1>4, <2>1, <2>2, MicRests
<1>10. CASE AsrStop \/ AsrStopFails \/ AsrCancel
  <2>1. /\ AsrBackToReady
        /\ ReadCommand({"stop"}) \/ ReadCommand({"cancel"})
    BY <1>10 DEF AsrStop, AsrStopFails, AsrCancel, Matches
  <2>2. ~asr'.capturing /\ asr'.state # "Recording"
    BY <1>3, <2>1 DEF AsrBackToReady, AsrMemory
  <2> QED
    BY <1>3, <1>4, <2>1, <2>2, MicRests
<1> QED
  BY <1>5, <1>6, <1>7, <1>8, <1>9, <1>10 DEF AsrMain, AsrMainThread

\* The feed thread tells of words, or stops the capture.
LEMMA AsrFeederMic ==
  ASSUME TypeOK, MicInv, AsrFeeder
  PROVE  MicInv'
<1> DEFINE cs == stdin["asr"]
           es == stdout["asr"]
           n == ctl.lastSession
<1>1. /\ es \in Seq(AsrEvent) /\ UNCHANGED <<ctl, stdin, proc>> /\ asr \in AsrMemory
      /\ DOMAIN stdin = Workers /\ asr.state = "Recording" /\ CallsFit(cs, asr, n)
  BY AsrQueues
  DEF AsrFeeder, AsrFeedThread, AsrFeed, AsrFeedFails, TypeOK, PipesTypeOK, AsrTypeOK, MicInv,
      Fits
<1>2. CASE AsrFeed
  <2> DEFINE e == AsrMessage("transcript_update", asr.session, {asr.session})
  <2>1. /\ stdout'["asr"] = es \o <<e>> /\ asr' = [asr EXCEPT !.transcript = {asr.session}]
        /\ UNCHANGED running
    BY <1>2, AsrQueues DEF AsrFeed, EmitAsr
  <2>2. e.type # "error"
    BY DEF AsrMessage
  <2> HIDE DEF e, cs, es
  <2>3. /\ ErrorsFit(es) => ErrorsFit(es \o <<e>>)
        /\ HasStarted(es) => HasStarted(es \o <<e>>)
    BY <1>1, <2>2, EmitFits
  <2>4. asr'.state = asr.state /\ asr'.capturing = asr.capturing
    BY <1>1, <2>1 DEF AsrMemory
  <2>5. CallsFit(cs, asr', n)
    BY <1>1, <2>4 DEF CallsFit
  <2>6. Known' = Known
    BY <1>1, <2>1 DEF Known, Accepts
  <2> QED
    BY <1>1, <2>1, <2>3, <2>4, <2>5, <2>6 DEF MicInv, SessionInv, Fits, Heard, cs, es
<1>3. CASE AsrFeedFails
  <2>1. asr' = [asr EXCEPT !.capturing = FALSE]
    BY <1>3 DEF AsrFeedFails
  <2>2. ~asr'.capturing /\ asr'.state = asr.state
    BY <1>1, <2>1 DEF AsrMemory
  <2>3. CallsFit(cs, asr', n)
    BY <1>1, <2>2 DEF CallsFit
  <2> QED
    BY <1>1, <2>2, <2>3, MicRests
<1> QED
  BY <1>2, <1>3 DEF AsrFeeder, AsrFeedThread

\* The cleanup worker reads and writes its own pipes.
LEMMA RewriteStepMic ==
  ASSUME TypeOK, MicInv, RewriteStep
  PROVE  MicInv'
<1>1. UNCHANGED <<ctl, asr>>
  BY DEF RewriteStep
<1>2. /\ stdin'["asr"] = stdin["asr"] /\ stdout'["asr"] = stdout["asr"]
      /\ Accepts("asr")' => Accepts("asr")
  BY DEF RewriteStep, RewriteWorkerStep, RewriteLoadModel, RewriteLoadFails, RewriteAnswer,
         RewriteAnswerFails, RewriteQuit, ReadRequest, EmitRewrite, Exit, TypeOK, PipesTypeOK,
         Workers, Accepts
<1> QED
  BY <1>1, <1>2, MicFrame

\* At the start nothing is captured.
LEMMA MicInit == Init => MicInv
<1> SUFFICES ASSUME Init PROVE MicInv
  OBVIOUS
<1>1. stdin["asr"] = <<>> /\ stdout["asr"] = <<>> /\ asr.state = "Loading" /\ ~asr.capturing
  BY DEF Init, PipesInit, FreshAsr, Workers
<1>2. ctl.mode = "Starting"
  BY DEF Init, ControllerInit
<1>3. \A i \in DOMAIN <<>> : FALSE
  OBVIOUS
<1> DEFINE q == <<>>
<1> HIDE DEF q
<1>4. CallsFit(q, asr, ctl.lastSession)
  BY <1>3 DEF CallsFit, q
<1> QED
  BY <1>1, <1>2, <1>4 DEF MicInv, SessionInv, Waiting, Fits, Heard, q

\* One step per component of the system.
LEMMA MicStep ==
  ASSUME Undisturbed, TypeOK, LifecycleInv, PromiseInv, Plain => MicInv, [Next]_vars
  PROVE  Plain' => MicInv'
<1> SUFFICES ASSUME Plain' PROVE MicInv'
  OBVIOUS
<1>1. Plain /\ KeptInv /\ MicInv
  BY StepSteady DEF PromiseInv, Plain, Undisturbed
<1>2. CASE UserStep /\ UNCHANGED workerVars
  BY <1>1, <1>2, UserMic
<1>3. CASE (UiStep \/ LoopStep) /\ UNCHANGED <<workerVars, used>>
  BY <1>1, <1>3, UiMic, LoopMic
<1>4. CASE (AsrReader \/ RewriteReader) /\ UNCHANGED <<workerVars, used>>
  BY <1>1, <1>4, AsrReaderMic, RewriteReaderMic
<1>5. CASE SpawnStep
  BY <1>1, <1>5, SpawnMic
<1>6. CASE AsrMain \/ AsrFeeder \/ RewriteStep
  BY <1>1, <1>6, AsrMainMic, AsrFeederMic, RewriteStepMic
<1>7. CASE Crash
  <2>1. PICK w \in Workers : Exit(w)
    BY <1>7 DEF Crash
  <2> QED
    BY <1>1, <1>7, <2>1, ExitMic DEF Crash, workerVars
<1>8. CASE Terminated \/ UNCHANGED vars
  BY <1>1, <1>8, MicFrame DEF Terminated, vars, pipes, workerVars, Accepts
<1> QED
  BY <1>2, <1>3, <1>4, <1>5, <1>6, <1>7, <1>8 DEF Next

\* The invariant is one of every program whose window is left undisturbed.
LEMMA MicAlways ==
  ASSUME Undisturbed
  PROVE  Spec => [](Plain => MicInv)
<1>1. Init => (Plain => MicInv)
  BY MicInit
<1>2. /\ TypeOK /\ LifecycleInv /\ WordsInv /\ PromiseInv /\ (Plain => MicInv) /\ [Next]_vars
        => (Plain => MicInv)'
  BY MicStep DEF Plain
<1>3. Spec => [](TypeOK /\ WordsInv /\ PromiseInv)
  BY PromiseInvariant
<1> QED
  BY <1>1, <1>2, <1>3, Lifecycle, PTL DEF Spec

\* With empty queues a worker that captures is known to do so.
LEMMA MicMatches ==
  ASSUME Undisturbed
  PROVE  Spec => [](Plain => MicrophoneMatchesMode)
<1>1. TypeOK /\ PromiseInv /\ (Plain => MicInv) => (Plain => MicrophoneMatchesMode)
  <2> SUFFICES ASSUME TypeOK, KeptInv, MicInv, AsrQuiet, Accepts("asr"), asr.capturing
               PROVE  ctl.mode = "Recording" /\ ctl.session = asr.session
    BY DEF PromiseInv, MicrophoneMatchesMode, Accepts
  <2>1. \A i \in DOMAIN <<>> : FALSE
    OBVIOUS
  <2> DEFINE q == <<>>
  <2> HIDE DEF q
  <2>2. ~HasStarted(q) /\ ~HasCall(q)
    BY <2>1 DEF HasStarted, HasCall, q
  <2>3. ctl.mode = "Recording" /\ asr.state = "Recording"
    BY <2>2 DEF AsrQuiet, MicInv, Heard, Known, Fits, q
  <2> QED
    BY <2>3
    DEF MicInv, SessionInv, Waiting, KeptInv, FlightInv, Flight, RunsLast, NumbersInv
<1>2. Spec => [](TypeOK /\ WordsInv /\ PromiseInv)
  BY PromiseInvariant
<1> QED
  BY <1>1, <1>2, MicAlways, PTL

\* Once every message between controller and speech worker has been handled, the
\* microphone is open only for the recording the window shows: after any number of
\* presses, cancellations, failed starts, feed errors and crashes.
THEOREM MicrophoneFollowsMode ==
  ASSUME MaxLanguageChanges = 0, MaxSettings = 0 \/ MaxCancels = 0
  PROVE  Spec => []MicrophoneMatchesMode
<1>1. Undisturbed /\ Plain
  BY DEF Undisturbed, Plain
<1>2. Spec => [](Plain => MicrophoneMatchesMode)
  BY <1>1, MicMatches
<1> QED
  BY <1>1, <1>2, PTL

\* Without AI cleanup this holds across language changes too.
THEOREM RawMicrophoneFollowsMode ==
  ASSUME Undisturbed
  PROVE  Spec => [](ctl.cleanup = "Off" => MicrophoneMatchesMode)
<1>1. (Plain => MicrophoneMatchesMode) => (ctl.cleanup = "Off" => MicrophoneMatchesMode)
  BY DEF Plain
<1> QED
  BY <1>1, MicMatches, PTL

---------------------------------------------------------------------------
(* The language that is recorded.  A session that is under way, as a       *)
(* command, as an event or in the worker, has the language the window      *)
(* shows, or a restart is pending.                                         *)

HasError(es) == \E i \in DOMAIN es : es[i].type = "error"
HasReady(es) == \E i \in DOMAIN es : es[i].type = "ready"

\* A recording that is about to start does so in the language that is selected, or
\* will be stopped for it; no failure is on its way.
StartAgrees(cs, es, c) ==
  \A i \in DOMAIN cs : cs[i].type = "start" =>
    /\ c.mode = "StartingRecording" /\ (c.pending \/ cs[i].language = c.language)
    /\ ~HasError(es)

\* So does one that has started, and that nobody has stopped yet.
RunAgrees(cs, es, a, c) ==
  /\ c.mode = "Recording" => a.state = "Recording" /\ a.language = c.language /\ ~HasCall(cs)
  /\ \A i \in DOMAIN es : es[i].type = "recording_started" =>
       /\ c.mode = "StartingRecording" /\ (c.pending \/ a.language = c.language)
       /\ a.state = "Recording" /\ ~HasCall(cs)
       /\ \A j \in DOMAIN es : es[j].type \in {"error", "recording_started"} => i <= j

\* A recording is stopped once, and while it runs.
CallAgrees(cs, a) ==
  \A i \in DOMAIN cs : IsCall(cs[i]) =>
    /\ a.state = "Recording" /\ cs[i].type = "stop"
    /\ \A j \in DOMAIN cs : IsCall(cs[j]) => j = i

\* No failure follows the end of a recording.
EndAgrees(es) ==
  \A i \in DOMAIN es :
    /\ es[i].type # "recording_cancelled"
    /\ Closes(es[i]) => \A j \in DOMAIN es : es[j].type = "error" => j <= i

\* Nor is one on its way where a dictation can be started, or will be able to.
RestAgrees(es, c) ==
  c.mode \in {"Ready", "Complete"} \/ (c.mode = "Starting" /\ HasReady(es)) => ~HasError(es)
LoadAgrees(es, a, c) ==
  a.state = "Loading" => c.mode = "Starting" /\ ~HasError(es) /\ ~HasReady(es)

Agrees(cs, es, a, c, alive) ==
  /\ StartAgrees(cs, es, c) /\ RunAgrees(cs, es, a, c) /\ CallAgrees(cs, a)
  /\ EndAgrees(es) /\ RestAgrees(es, c) /\ (alive => LoadAgrees(es, a, c))

LanguageInv ==
  /\ Agrees(stdin["asr"], stdout["asr"], asr, ctl, AsrAlive)
  /\ ui.op = "launch_asr" => ctl.mode = "Starting"

---------------------------------------------------------------------------
(* The two queues.                                                         *)

\* Reading an event.
LEMMA AgreesPop ==
  ASSUME NEW cs, NEW es \in Seq(AsrEvent), es # <<>>, NEW a, NEW c, NEW alive,
         Agrees(cs, es, a, c, alive)
  PROVE  /\ Agrees(cs, Tail(es), a, c, alive)
         /\ Head(es).type # "recording_cancelled"
         /\ Head(es).type = "error" => NoStart(cs) /\ ~HasStarted(Tail(es))
         /\ Head(es).type = "recording_started" =>
              /\ c.mode = "StartingRecording" /\ (c.pending \/ a.language = c.language)
              /\ a.state = "Recording" /\ ~HasCall(cs) /\ ~HasStarted(Tail(es))
         /\ Closes(Head(es)) => ~HasError(Tail(es))
         /\ Head(es).type = "ready" /\ c.mode = "Starting" => ~HasError(Tail(es))
         /\ alive /\ a.state = "Loading" =>
              c.mode = "Starting" /\ Head(es).type \notin {"error", "ready"}
<1> DEFINE q == Tail(es)
<1>1. /\ \A i \in DOMAIN q : q[i] = es[i + 1] /\ i + 1 \in DOMAIN es /\ i \in Nat /\ i >= 1
      /\ Head(es) = es[1] /\ 1 \in DOMAIN es
  OBVIOUS
<1> HIDE DEF q
<1>2. (HasError(q) => HasError(es)) /\ (HasReady(q) => HasReady(es))
  BY <1>1 DEF HasError, HasReady
<1>3. StartAgrees(cs, q, c) /\ RestAgrees(q, c) /\ (alive => LoadAgrees(q, a, c))
  BY <1>2 DEF Agrees, StartAgrees, RestAgrees, LoadAgrees
<1>4. RunAgrees(cs, q, a, c)
  <2> SUFFICES ASSUME NEW i \in DOMAIN q, q[i].type = "recording_started"
               PROVE  \A j \in DOMAIN q : q[j].type \in {"error", "recording_started"} => i <= j
    BY <1>1 DEF Agrees, RunAgrees
  <2> TAKE j \in DOMAIN q
  <2>1. q[j].type \in {"error", "recording_started"} => i + 1 <= j + 1
    BY <1>1 DEF Agrees, RunAgrees
  <2> QED
    BY <1>1, <2>1
<1>5. EndAgrees(q)
  <2> SUFFICES ASSUME NEW i \in DOMAIN q, Closes(q[i])
               PROVE  \A j \in DOMAIN q : q[j].type = "error" => j <= i
    BY <1>1 DEF Agrees, EndAgrees
  <2> TAKE j \in DOMAIN q
  <2>1. q[j].type = "error" => j + 1 <= i + 1
    BY <1>1 DEF Agrees, EndAgrees
  <2> QED
    BY <1>1, <2>1
<1>6. ASSUME Head(es).type = "error" PROVE NoStart(cs) /\ ~HasStarted(q)
  <2>1. NoStart(cs)
    BY <1>1, <1>6 DEF Agrees, StartAgrees, HasError, NoStart
  <2>2. \A i \in DOMAIN q : q[i].type = "recording_started" => i + 1 <= 1
    BY <1>1, <1>6 DEF Agrees, RunAgrees
  <2> QED
    BY <1>1, <2>1, <2>2 DEF HasStarted
<1>7. ASSUME Head(es).type = "recording_started"
      PROVE  /\ c.mode = "StartingRecording" /\ (c.pending \/ a.language = c.language)
             /\ a.state = "Recording" /\ ~HasCall(cs) /\ ~HasStarted(q)
  <2>1. \A i \in DOMAIN q : q[i].type = "recording_started" => i + 1 <= 1
    BY <1>1, <1>7 DEF Agrees, RunAgrees
  <2> QED
    BY <1>1, <1>7, <2>1 DEF Agrees, RunAgrees, HasStarted
<1>8. ASSUME Closes(Head(es)) PROVE ~HasError(q)
  <2>1. \A j \in DOMAIN q : q[j].type = "error" => j + 1 <= 1
    BY <1>1, <1>8 DEF Agrees, EndAgrees
  <2> QED
    BY <1>1, <2>1 DEF HasError
<1>9. Head(es).type = "ready" /\ c.mode = "Starting" => ~HasError(q)
  BY <1>1, <1>2 DEF Agrees, RestAgrees, HasReady
<1>10. alive /\ a.state = "Loading" =>
         c.mode = "Starting" /\ Head(es).type \notin {"error", "ready"}
  BY <1>1 DEF Agrees, LoadAgrees, HasError, HasReady
<1> QED
  BY <1>1, <1>3, <1>4, <1>5, <1>6, <1>7, <1>8, <1>9, <1>10 DEF Agrees, EndAgrees, q

\* A command that neither starts nor ends a recording.
LEMMA AgreesSent ==
  ASSUME NEW cs \in Seq(AsrCommand), NEW es, NEW a, NEW c, NEW alive,
         NEW k, k.type # "start", ~IsCall(k), Agrees(cs, es, a, c, alive)
  PROVE  Agrees(Append(cs, k), es, a, c, alive)
<1> DEFINE q == Append(cs, k)
<1>1. \A i \in DOMAIN q : (i \in DOMAIN cs /\ q[i] = cs[i]) \/ q[i] = k
  OBVIOUS
<1> HIDE DEF q
<1>2. ~HasCall(cs) => ~HasCall(q)
  BY <1>1 DEF HasCall
<1>3. StartAgrees(q, es, c)
  BY <1>1 DEF Agrees, StartAgrees
<1>4. RunAgrees(q, es, a, c)
  BY <1>2 DEF Agrees, RunAgrees
<1>5. CallAgrees(q, a)
  BY <1>1 DEF Agrees, CallAgrees
<1> QED
  BY <1>3, <1>4, <1>5 DEF Agrees, q

\* The command that ends a recording.
LEMMA AgreesStop ==
  ASSUME NEW cs \in Seq(AsrCommand), NEW es, NEW a, NEW c, NEW alive,
         NEW k, k.type = "stop", Agrees(cs, es, a, c, alive),
         a.state = "Recording", ~HasCall(cs), ~HasStarted(es), c.mode # "Recording"
  PROVE  Agrees(Append(cs, k), es, a, c, alive)
<1> DEFINE q == Append(cs, k)
<1>1. \A i \in DOMAIN q : \/ i \in DOMAIN cs /\ q[i] = cs[i]
                          \/ i = Len(cs) + 1 /\ q[i] = k
  OBVIOUS
<1> HIDE DEF q
<1>2. \A i \in DOMAIN q : IsCall(q[i]) => i = Len(cs) + 1 /\ q[i] = k
  BY <1>1 DEF HasCall
<1>3. StartAgrees(q, es, c)
  BY <1>1 DEF Agrees, StartAgrees
<1>4. RunAgrees(q, es, a, c)
  BY DEF RunAgrees, HasStarted
<1>5. CallAgrees(q, a)
  BY <1>2 DEF CallAgrees
<1> QED
  BY <1>3, <1>4, <1>5 DEF Agrees, q

\* The command that starts one.
LEMMA AgreesStart ==
  ASSUME NEW cs \in Seq(AsrCommand), NEW es, NEW a, NEW c, NEW alive,
         NEW k, k.type = "start", k.language = c.language, c.mode = "StartingRecording",
         Agrees(cs, es, a, c, alive), NoStart(cs), ~HasStarted(es), ~HasError(es)
  PROVE  Agrees(Append(cs, k), es, a, c, alive)
<1> DEFINE q == Append(cs, k)
<1>1. \A i \in DOMAIN q : (i \in DOMAIN cs /\ q[i] = cs[i]) \/ q[i] = k
  OBVIOUS
<1>2. \A i \in DOMAIN q : IsCall(q[i]) => i \in DOMAIN cs /\ q[i] = cs[i]
  BY DEF IsCall
<1> HIDE DEF q
<1>3. StartAgrees(q, es, c)
  BY <1>1 DEF StartAgrees, NoStart
<1>4. RunAgrees(q, es, a, c)
  BY DEF RunAgrees, HasStarted
<1>5. CallAgrees(q, a)
  BY <1>2 DEF Agrees, CallAgrees
<1> QED
  BY <1>3, <1>4, <1>5 DEF Agrees, q

\* The controller turns to a mode in which no recording runs.
LEMMA AgreesMode ==
  ASSUME NEW cs, NEW es, NEW a, NEW c, NEW alive, Agrees(cs, es, a, c, alive),
         NoStart(cs), ~HasStarted(es), NEW d, d.mode # "Recording",
         d.mode \in {"Starting", "Ready", "Complete"} => ~HasError(es),
         alive => a.state # "Loading"
  PROVE  Agrees(cs, es, a, d, alive)
<1>1. StartAgrees(cs, es, d)
  BY DEF StartAgrees, NoStart
<1>2. RunAgrees(cs, es, a, d)
  BY DEF RunAgrees, HasStarted
<1>3. RestAgrees(es, d) /\ (alive => LoadAgrees(es, a, d))
  BY DEF RestAgrees, LoadAgrees
<1> QED
  BY <1>1, <1>2, <1>3 DEF Agrees

\* The controller stays in its mode.
LEMMA AgreesSame ==
  ASSUME NEW cs, NEW es, NEW a, NEW c, NEW alive, Agrees(cs, es, a, c, alive),
         NEW d, d.mode = c.mode,
         \/ d.language = c.language /\ (c.pending => d.pending)
         \/ d.mode = "StartingRecording" /\ d.pending
         \/ d.mode \notin {"Recording", "StartingRecording"}
  PROVE  Agrees(cs, es, a, d, alive)
<1>1. StartAgrees(cs, es, d)
  BY DEF Agrees, StartAgrees
<1>2. RunAgrees(cs, es, a, d)
  BY DEF Agrees, RunAgrees
<1>3. RestAgrees(es, d) /\ (alive => LoadAgrees(es, a, d))
  BY DEF Agrees, RestAgrees, LoadAgrees
<1> QED
  BY <1>1, <1>2, <1>3 DEF Agrees

\* Reading a command, and losing all of them.
LEMMA AgreesRead ==
  ASSUME NEW cs \in Seq(AsrCommand), NEW es, NEW a, NEW c, NEW alive,
         Agrees(cs, es, a, c, alive)
  PROVE  /\ cs # <<>> => Agrees(Tail(cs), es, a, c, alive)
         /\ cs # <<>> /\ Head(cs).type = "start" =>
              /\ c.mode = "StartingRecording"
              /\ c.pending \/ Head(cs).language = c.language
              /\ ~HasError(es)
         /\ cs # <<>> /\ IsCall(Head(cs)) =>
              /\ a.state = "Recording" /\ Head(cs).type = "stop"
              /\ ~HasCall(Tail(cs)) /\ ~HasStarted(es) /\ c.mode # "Recording"
         /\ Agrees(<<>>, es, a, c, FALSE)
<1>1. ASSUME cs # <<>>
      PROVE  /\ Agrees(Tail(cs), es, a, c, alive)
             /\ Head(cs).type = "start" =>
                  /\ c.mode = "StartingRecording"
                  /\ c.pending \/ Head(cs).language = c.language
                  /\ ~HasError(es)
             /\ IsCall(Head(cs)) =>
                  /\ a.state = "Recording" /\ Head(cs).type = "stop"
                  /\ ~HasCall(Tail(cs)) /\ ~HasStarted(es) /\ c.mode # "Recording"
  <2> DEFINE q == Tail(cs)
  <2>1. /\ \A i \in DOMAIN q : q[i] = cs[i + 1] /\ i + 1 \in DOMAIN cs /\ i \in Nat /\ i >= 1
        /\ Head(cs) = cs[1] /\ 1 \in DOMAIN cs
    BY <1>1
  <2> HIDE DEF q
  <2>2. HasCall(q) => HasCall(cs)
    BY <2>1 DEF HasCall
  <2>3. StartAgrees(q, es, c) /\ RunAgrees(q, es, a, c)
    BY <2>1, <2>2 DEF Agrees, StartAgrees, RunAgrees
  <2>4. CallAgrees(q, a)
    <3> SUFFICES ASSUME NEW i \in DOMAIN q, IsCall(q[i])
                 PROVE  \A j \in DOMAIN q : IsCall(q[j]) => j = i
      BY <2>1 DEF Agrees, CallAgrees
    <3> TAKE j \in DOMAIN q
    <3>1. IsCall(q[j]) => j + 1 = i + 1
      BY <2>1 DEF Agrees, CallAgrees
    <3> QED
      BY <2>1, <3>1
  <2>5. Head(cs).type = "start" =>
          /\ c.mode = "StartingRecording"
          /\ c.pending \/ Head(cs).language = c.language
          /\ ~HasError(es)
    BY <2>1 DEF Agrees, StartAgrees
  <2>6. ASSUME IsCall(Head(cs))
        PROVE  /\ a.state = "Recording" /\ Head(cs).type = "stop"
               /\ ~HasCall(q) /\ ~HasStarted(es) /\ c.mode # "Recording"
    <3>1. \A i \in DOMAIN q : IsCall(q[i]) => i + 1 = 1
      BY <2>1, <2>6 DEF Agrees, CallAgrees
    <3>2. ~HasCall(q) /\ HasCall(cs)
      BY <2>1, <2>6, <3>1 DEF HasCall
    <3> QED
      BY <2>1, <2>6, <3>2 DEF Agrees, CallAgrees, RunAgrees, HasStarted
  <2> QED
    BY <2>3, <2>4, <2>5, <2>6 DEF Agrees, q
<1>2. Agrees(<<>>, es, a, c, FALSE)
  <2>1. \A i \in DOMAIN <<>> : FALSE
    OBVIOUS
  <2> DEFINE q == <<>>
  <2> HIDE DEF q
  <2>2. ~HasCall(q) /\ \A i \in DOMAIN q : FALSE
    BY <2>1 DEF HasCall, q
  <2>3. StartAgrees(q, es, c) /\ RunAgrees(q, es, a, c) /\ CallAgrees(q, a)
    BY <2>2 DEF Agrees, StartAgrees, RunAgrees, CallAgrees
  <2> QED
    BY <2>3 DEF Agrees, q
<1> QED
  BY <1>1, <1>2

\* An event that fails nothing and starts nothing.
LEMMA AgreesTold ==
  ASSUME NEW cs, NEW es \in Seq(AsrEvent), NEW a, NEW c, NEW alive, Agrees(cs, es, a, c, alive),
         NEW e, e.type \in {"transcript_update", "recording_finalized"}
  PROVE  Agrees(cs, es \o <<e>>, a, c, alive)
<1> DEFINE q == es \o <<e>>
           k == Len(es) + 1
<1>1. /\ \A i \in DOMAIN q : (i \in DOMAIN es /\ q[i] = es[i] /\ i < k) \/ (i = k /\ q[i] = e)
      /\ \A i \in DOMAIN es : i < k
      /\ k \in Nat /\ \A i \in DOMAIN es : i \in Nat
  OBVIOUS
<1> HIDE DEF q, k
<1>2. (HasError(q) => HasError(es)) /\ (HasReady(q) => HasReady(es))
  BY <1>1 DEF HasError, HasReady
<1>3. StartAgrees(cs, q, c) /\ RestAgrees(q, c) /\ (alive => LoadAgrees(q, a, c))
  BY <1>2 DEF Agrees, StartAgrees, RestAgrees, LoadAgrees
<1>4. RunAgrees(cs, q, a, c)
  BY <1>1 DEF Agrees, RunAgrees
<1>5. EndAgrees(q)
  BY <1>1 DEF Agrees, EndAgrees
<1> QED
  BY <1>3, <1>4, <1>5 DEF Agrees, q

\* A failure, which comes last and is not expected by anybody who rests.
LEMMA AgreesFails ==
  ASSUME NEW cs, NEW es \in Seq(AsrEvent), NEW a, NEW c, NEW alive, Agrees(cs, es, a, c, alive),
         NEW e, e.type = "error", NoStart(cs), \A i \in DOMAIN es : ~Closes(es[i]),
         c.mode \notin {"Ready", "Complete"}, c.mode = "Starting" => ~HasReady(es),
         alive => a.state # "Loading"
  PROVE  Agrees(cs, es \o <<e>>, a, c, alive)
<1> DEFINE q == es \o <<e>>
           k == Len(es) + 1
<1>1. /\ \A i \in DOMAIN q : (i \in DOMAIN es /\ q[i] = es[i] /\ i < k) \/ (i = k /\ q[i] = e)
      /\ k \in Nat /\ \A i \in DOMAIN es : i \in Nat
  OBVIOUS
<1> HIDE DEF q, k
<1>2. HasReady(q) => HasReady(es)
  BY <1>1 DEF HasReady
<1>3. StartAgrees(cs, q, c) /\ RestAgrees(q, c) /\ (alive => LoadAgrees(q, a, c))
  BY <1>2 DEF NoStart, StartAgrees, RestAgrees, LoadAgrees
<1>4. RunAgrees(cs, q, a, c)
  BY <1>1 DEF Agrees, RunAgrees
<1>5. EndAgrees(q)
  BY <1>1 DEF Agrees, EndAgrees
<1> QED
  BY <1>3, <1>4, <1>5 DEF Agrees, q

\* The recording has started.
LEMMA AgreesStarted ==
  ASSUME NEW cs, NEW es \in Seq(AsrEvent), NEW a, NEW c, NEW alive, Agrees(cs, es, a, c, alive),
         NEW e, e.type = "recording_started", NoStart(cs), ~HasCall(cs),
         NoTidings(es), ~HasError(es), c.mode = "StartingRecording",
         NEW b, b.state = "Recording", c.pending \/ b.language = c.language
  PROVE  Agrees(cs, es \o <<e>>, b, c, alive)
<1> DEFINE q == es \o <<e>>
           k == Len(es) + 1
<1>1. /\ \A i \in DOMAIN q : (i \in DOMAIN es /\ q[i] = es[i] /\ i < k) \/ (i = k /\ q[i] = e)
      /\ k \in Nat /\ \A i \in DOMAIN es : i \in Nat
  OBVIOUS
<1> HIDE DEF q, k
<1>2. /\ \A i \in DOMAIN q : q[i].type = "recording_started" => i = k
      /\ \A i \in DOMAIN q : q[i].type # "error"
  BY <1>1 DEF NoTidings, Tells, HasError
<1>3. StartAgrees(cs, q, c) /\ RestAgrees(q, c) /\ LoadAgrees(q, b, c) /\ CallAgrees(cs, b)
  BY DEF NoStart, StartAgrees, RestAgrees, LoadAgrees, CallAgrees, HasCall
<1>4. RunAgrees(cs, q, b, c)
  BY <1>1, <1>2 DEF RunAgrees
<1>5. EndAgrees(q)
  BY <1>1, <1>2 DEF Agrees, EndAgrees
<1> QED
  BY <1>3, <1>4, <1>5 DEF Agrees, q

\* The worker goes on in the same state, or rests.
LEMMA AgreesWorker ==
  ASSUME NEW cs, NEW es, NEW a, NEW c, NEW alive, Agrees(cs, es, a, c, alive), NEW b,
         \/ b.state = a.state /\ b.language = a.language
         \/ b.state = "Ready" /\ ~HasCall(cs) /\ ~HasStarted(es) /\ c.mode # "Recording"
  PROVE  Agrees(cs, es, b, c, alive)
<1>1. RunAgrees(cs, es, b, c)
  BY DEF Agrees, RunAgrees, HasStarted
<1>2. CallAgrees(cs, b)
  BY DEF Agrees, CallAgrees, HasCall
<1>3. alive => LoadAgrees(es, b, c)
  BY DEF Agrees, LoadAgrees
<1> QED
  BY <1>1, <1>2, <1>3 DEF Agrees

\* Nothing is on its way.
LEMMA AgreesIdle ==
  ASSUME NEW cs, NEW es, NoStart(cs), ~HasCall(cs), ~HasStarted(es), ~HasError(es),
         \A i \in DOMAIN es : es[i].type # "recording_cancelled",
         NEW a, NEW c, c.mode # "Recording", NEW alive,
         alive /\ a.state = "Loading" => c.mode = "Starting" /\ ~HasReady(es)
  PROVE  Agrees(cs, es, a, c, alive)
BY DEF Agrees, StartAgrees, RunAgrees, CallAgrees, EndAgrees, RestAgrees, LoadAgrees, NoStart,
       HasCall, HasStarted, HasError

---------------------------------------------------------------------------
(* A process that has ended is asked for nothing, and its end is reported  *)
(* behind everything it said.                                              *)

EndedInv ==
  /\ proc["asr"] # "alive" => stdin["asr"] = <<>>
  /\ reader["asr"] = "reporting" => proc["asr"] = "exited" /\ stdout["asr"] = <<>>

\* What is sent is sent to a process that is there.
Delivers == stdin'["asr"] = stdin["asr"] \/ Accepts("asr")

LEMMA EndedFrame ==
  ASSUME EndedInv, Delivers, stdout'["asr"] = stdout["asr"], UNCHANGED <<proc, reader>>
  PROVE  EndedInv'
BY DEF EndedInv, Delivers, Accepts

LEMMA SendDelivers ==
  ASSUME TypeOK, NEW s, NEW failed
  PROVE  /\ Become(s) => Delivers
         /\ \A w \in Workers : \A c : Send(w, c, s, failed) => Delivers
<1>1. DOMAIN stdin = Workers
  BY DEF TypeOK, PipesTypeOK
<1> QED
  BY <1>1 DEF Become, Send, Delivers, Workers

\* The handlers, and what the user and the UI thread call.
LEMMA HandlerDelivers ==
  ASSUME TypeOK
  PROVE  /\ \A m \in AsrEvent : HandleAsrMessage(m) => Delivers
         /\ \A m : HandleRewriteMessage(m) => Delivers
         /\ ToggleRecording \/ CancelRecording => Delivers
         /\ \A l \in Language : SetLanguage(l) => Delivers
<1>1. ctl \in Controller /\ "asr" \in Workers
  BY DEF TypeOK, ControllerTypeOK, Workers
<1>2. ASSUME NEW s, StopForLanguageChange(s) \/ StartSession(s) PROVE Delivers
  BY <1>1, <1>2, SendDelivers DEF StopForLanguageChange, StartSession
<1>3. ASSUME NEW m \in AsrEvent, HandleAsrMessage(m) PROVE Delivers
  <2>1. CASE RecordingFinalized(m) /\ m.session = ctl.session
    <3> DEFINE t == [ctl EXCEPT !.segments = @ \cup m.text, !.hypothesis = {}]
               s == RefreshTranscript([t EXCEPT !.raw = RawText(t)])
    <3>1. s \in Controller
      BY <1>1 DEF Controller, RefreshTranscript, RawText, AsrEvent
    <3>2. s.pending \in BOOLEAN
      BY <3>1 DEF Controller
    <3>3. \/ StartSession([s EXCEPT !.pending = FALSE])
          \/ Become([ClearActiveRewrite(s) EXCEPT !.mode = "Complete"])
          \/ FinishDictation(s)
      BY <2>1, <3>2 DEF RecordingFinalized
    <3> HIDE DEF s
    <3> QED
      BY <1>2, <3>1, <3>3, SendDelivers, CleanupFits DEF Delivers
  <2>2. CASE ~(RecordingFinalized(m) /\ m.session = ctl.session)
    <3>1. ctl.pending \in BOOLEAN
      BY <1>1 DEF Controller
    <3>2. (\E s : Become(s)) \/ (\E s : StopForLanguageChange(s))
      BY <1>3, <2>2, <3>1
      DEF HandleAsrMessage, AsrReady, RecordingStarted, TranscriptUpdate, RecordingFinalized,
          RecordingCancelled, AsrError
    <3> QED
      BY <1>2, <3>2, SendDelivers
  <2> QED
    BY <2>1, <2>2
<1>4. ASSUME NEW m, HandleRewriteMessage(m) PROVE Delivers
  BY <1>4, RewriteHandlerCleans DEF Delivers
<1>5. ASSUME ToggleRecording \/ CancelRecording PROVE Delivers
  <2>1. \/ \E s : Become(s) \/ StartSession(s)
        \/ \E c, s, f : Send("asr", c, s, f)
    BY <1>5 DEF ToggleRecording, CancelRecording, StartDictation
  <2> QED
    BY <1>1, <1>2, <2>1, SendDelivers
<1>6. ASSUME NEW l \in Language, SetLanguage(l) PROVE Delivers
  BY <1>2, <1>6, SendDelivers DEF SetLanguage
<1> QED
  BY <1>3, <1>4, <1>5, <1>6

\* The end of a process, by itself or by force.
LEMMA ExitEnded ==
  ASSUME TypeOK, EndedInv, NEW w \in Workers, Exit(w), UNCHANGED reader,
         w = "asr" \/ stdout'["asr"] = stdout["asr"]
  PROVE  EndedInv'
<1>1. DOMAIN stdin = Workers /\ DOMAIN proc = Workers
  BY DEF TypeOK, PipesTypeOK
<1>2. CASE w = "asr"
  BY <1>1, <1>2 DEF Exit, EndedInv, Workers
<1>3. CASE w # "asr"
  <2>1. proc'["asr"] = proc["asr"] /\ stdin'["asr"] = stdin["asr"]
    BY <1>1, <1>3 DEF Exit, Workers
  <2> QED
    BY <1>3, <2>1 DEF EndedInv
<1> QED
  BY <1>2, <1>3

\* Every step keeps it.
LEMMA EndedStep ==
  ASSUME TypeOK, LifecycleInv, EndedInv, [Next]_vars
  PROVE  EndedInv'
<1>1. /\ DOMAIN stdin = Workers /\ DOMAIN stdout = Workers /\ DOMAIN proc = Workers
      /\ DOMAIN reader = Workers
  BY DEF TypeOK, PipesTypeOK
<1>2. CASE UserStep
  <2>1. UNCHANGED <<proc, reader, stdout>>
    BY <1>2
    DEF UserStep, HotkeyInsert, HotkeyStart, HotkeyStop, HotkeyCancel, SelectLanguage,
        SelectCleanup, SelectAsrDevice, SelectRewriteDevice, SelectCurrentDevice, CloseWindow,
        Quit, pipes
  <2>2. \/ \E l \in Language : SetLanguage(l)
        \/ UNCHANGED stdin
    BY <1>2
    DEF UserStep, HotkeyInsert, HotkeyStart, HotkeyStop, HotkeyCancel, SelectLanguage,
        SelectCleanup, SetCleanupMode, SelectAsrDevice, SetAsrDevice, SelectRewriteDevice,
        SetRewriteDevice, SelectCurrentDevice, CloseWindow, Quit, pipes, Become
  <2> QED
    BY <2>1, <2>2, HandlerDelivers, EndedFrame DEF Delivers
<1>3. CASE UiStep
  <2>1. CASE UiToggle \/ UiCancel
    BY <2>1, HandlerDelivers, EndedFrame DEF UiToggle, UiCancel
  <2>2. CASE UiSendShutdown
    BY <2>2, OpWorkerTyped, SendDelivers, EndedFrame DEF UiSendShutdown
  <2>3. CASE UiCheckRunning \/ UiCloseInput \/ HostSpawnFails
    BY <2>3, EndedFrame
    DEF UiCheckRunning, UiCloseInput, CloseInput, HostSpawnFails, UiSpawnFails, pipes, Delivers
  <2>4. CASE UiTerminate
    BY <2>4, OpWorkerTyped, ExitEnded DEF UiTerminate
  <2>5. CASE UiJoin
    <3>1. PICK w \in Workers : Join(w)
      BY <2>5, OpWorkerTyped DEF UiJoin
    <3> QED
      BY <1>1, <3>1 DEF Join, Stopped, EndedInv, Workers
  <2> QED
    BY <1>3, <2>1, <2>2, <2>3, <2>4, <2>5 DEF UiStep
<1>4. CASE LoopStep
  BY <1>4, EndedFrame DEF LoopStep, HostTick, Tick, HostPoll, Become, pipes, Delivers
<1>5. CASE AsrReader
  <2>1. CASE AsrReaderLine
    <3>1. /\ reader["asr"] = "reading" /\ UNCHANGED <<proc, reader>>
          /\ Head(stdout["asr"]) \in AsrEvent /\ HandleAsrMessage(Head(stdout["asr"]))
      BY <2>1 DEF AsrReaderLine, NextLine, TypeOK, PipesTypeOK
    <3> QED
      BY <3>1, HandlerDelivers DEF Delivers, EndedInv, Accepts
  <2>2. CASE AsrReaderReport
    <3>1. AsrFailure("WORKER_EXITED", NoSession) \in AsrEvent
      BY DEF AsrFailure, AsrEvent, ErrorCode, NoSession
    <3>2. UNCHANGED <<proc, stdout>> /\ reader'["asr"] = "done" /\ Delivers
      BY <1>1, <2>2, <3>1, HandlerDelivers DEF AsrReaderReport, LastReport, Workers
    <3> QED
      BY <3>2 DEF Delivers, EndedInv, Accepts
  <2>3. CASE ReaderEnds("asr")
    BY <1>1, <2>3 DEF ReaderEnds, ReaderEof, EndedInv
  <2> QED
    BY <1>5, <2>1, <2>2, <2>3 DEF AsrReader
<1>6. CASE RewriteReader
  <2>1. /\ UNCHANGED proc /\ stdout'["asr"] = stdout["asr"] /\ reader'["asr"] = reader["asr"]
    BY <1>1, <1>6
    DEF RewriteReader, RewriteReaderLine, NextLine, RewriteReaderReport, LastReport,
        ReaderEnds, ReaderEof, Workers
  <2>2. Delivers
    BY <1>6, HandlerDelivers
    DEF RewriteReader, RewriteReaderLine, RewriteReaderReport, ReaderEnds, ReaderEof, Delivers
  <2> QED
    BY <2>1, <2>2 DEF Delivers, EndedInv, Accepts
<1>7. CASE SpawnStep
  <2>1. PICK w \in Workers : \E d : Spawn(w, d)
    BY <1>7, OpWorkerTyped DEF SpawnStep, HostSpawn, UiSpawn
  <2> QED
    BY <1>1, <2>1 DEF Spawn, EndedInv, Workers
<1>8. CASE AsrMain \/ AsrFeeder
  <2>1. AsrAlive /\ UNCHANGED reader
    BY <1>8
    DEF AsrMain, AsrMainThread, AsrLoadModel, AsrLoadFails, AsrStart, AsrStartFails,
        AsrRejects, AsrStop, AsrStopFails, AsrCancel, AsrQuit, AsrFeeder, AsrFeedThread,
        AsrFeed, AsrFeedFails, EmitAsr, Matches, ReadCommand, Exit, AsrAlive
  <2>2. UNCHANGED proc \/ Exit("asr")
    BY <1>8
    DEF AsrMain, AsrMainThread, AsrLoadModel, AsrLoadFails, AsrStart, AsrStartFails,
        AsrRejects, AsrStop, AsrStopFails, AsrCancel, AsrQuit, AsrFeeder, AsrFeedThread,
        AsrFeed, AsrFeedFails, Matches, ReadCommand
  <2>3. CASE UNCHANGED proc
    BY <2>1, <2>3 DEF EndedInv, AsrAlive
  <2>4. CASE Exit("asr")
    BY <2>1, <2>4, ExitEnded DEF Workers
  <2> QED
    BY <2>2, <2>3, <2>4
<1>9. CASE RewriteStep \/ Crash
  <2>1. UNCHANGED reader
    BY <1>9
    DEF RewriteStep, RewriteWorkerStep, RewriteLoadModel, RewriteLoadFails, RewriteAnswer,
        RewriteAnswerFails, RewriteQuit, EmitRewrite, Crash
  <2>2. stdout'["asr"] = stdout["asr"]
    BY <1>1, <1>9
    DEF RewriteStep, RewriteWorkerStep, RewriteLoadModel, RewriteLoadFails, RewriteAnswer,
        RewriteAnswerFails, RewriteQuit, EmitRewrite, Crash, Workers
  <2>3. \/ UNCHANGED proc /\ stdin'["asr"] = stdin["asr"]
        \/ \E w \in Workers : Exit(w)
    BY <1>1, <1>9
    DEF RewriteStep, RewriteWorkerStep, RewriteLoadModel, RewriteLoadFails, RewriteAnswer,
        RewriteAnswerFails, RewriteQuit, ReadRequest, Crash, Workers
  <2> QED
    BY <2>1, <2>2, <2>3, EndedFrame, ExitEnded DEF Delivers
<1>10. CASE Terminated \/ UNCHANGED vars
  BY <1>10, EndedFrame DEF Terminated, vars, pipes, Delivers
<1> QED
  BY <1>2, <1>3, <1>4, <1>5, <1>6, <1>7, <1>8, <1>9, <1>10 DEF Next

---------------------------------------------------------------------------
(* The steps of the controller.                                            *)

\* The state the lemmas below start from: the program cleans nothing up, and nothing
\* is cancelled or set.
RawInv ==
  /\ ctl.cleanup = "Off" /\ MaxCancels = 0 /\ MaxSettings = 0
  /\ KeptInv /\ MicInv /\ BoundsInv /\ LanguageInv

\* What stands between a mode and an instance in which no cleanup runs.
LEMMA RawModes ==
  ASSUME RawInv
  PROVE  /\ ctl.mode \in {"Starting", "Ready", "Complete"} => Silence
         /\ AsrAlive /\ asr.state = "Loading" => ctl.mode = "Starting"
         /\ ui.pc # "cancel" /\ ctl.active = NoRequest
         /\ asr.state = "Recording" => NoStart(stdin["asr"])
         /\ Silence => NoStart(stdin["asr"]) /\ ~HasStarted(stdout["asr"])
BY DEF RawInv, KeptInv, ModesInv, BoundsInv, LanguageInv, Agrees, LoadAgrees, FlightInv, Flight,
       StartsLast, NoStart, Silence, Silent, NoTidings, Tells, HasStarted

\* The command that ends the recording is sent, or cannot be.
LEMMA SendStops ==
  ASSUME TypeOK, NEW es, NEW c, NEW alive, Agrees(stdin["asr"], es, asr, c, alive),
         asr.state = "Recording", NoStart(stdin["asr"]), ~HasCall(stdin["asr"]), ~HasStarted(es),
         NEW k, k.type = "stop", NEW f, f.mode = "Finalizing", NEW g, g.mode = "Error",
         Send("asr", k, f, g)
  PROVE  Agrees(stdin'["asr"], es, asr, ctl', alive)
<1>1. stdin["asr"] \in Seq(AsrCommand) /\ DOMAIN stdin = Workers
  BY AsrQueues DEF TypeOK, PipesTypeOK
<1>2. \/ ctl' = f /\ stdin'["asr"] = Append(stdin["asr"], k)
      \/ ctl' = g /\ stdin'["asr"] = stdin["asr"]
  BY <1>1 DEF Send, Become, Workers
<1>3. Agrees(stdin["asr"], es, asr, f, alive) /\ Agrees(stdin["asr"], es, asr, g, alive)
  BY AgreesMode
<1>4. Agrees(Append(stdin["asr"], k), es, asr, f, alive)
  BY <1>1, <1>3, AgreesStop
<1> QED
  BY <1>2, <1>3, <1>4

\* A session is started where nothing is on its way, or cannot be.
LEMMA SendStarts ==
  ASSUME TypeOK, NEW s \in Controller, StartSession(s), NEW es, NEW c, NEW alive,
         Agrees(stdin["asr"], es, asr, c, alive), NoStart(stdin["asr"]), ~HasStarted(es),
         ~HasError(es), alive => asr.state # "Loading"
  PROVE  Agrees(stdin'["asr"], es, asr, ctl', alive)
<1> DEFINE id == s.lastSession + 1
           t == [s EXCEPT !.hypothesis = {}, !.session = id, !.lastSession = id,
                          !.dictation = @ \cup {id}, !.mode = "StartingRecording"]
           g == SetError([t EXCEPT !.pending = FALSE])
           k == ToAsr("start", t)
<1>1. stdin["asr"] \in Seq(AsrCommand) /\ DOMAIN stdin = Workers
  BY AsrQueues DEF TypeOK, PipesTypeOK
<1>2. /\ t.mode = "StartingRecording" /\ g.mode = "Error"
      /\ k.type = "start" /\ k.language = t.language
  BY DEF Controller, SetError, ToAsr
<1>3. Send("asr", k, t, g)
  BY DEF StartSession
<1> HIDE DEF id, t, g, k
<1>4. \/ ctl' = t /\ stdin'["asr"] = Append(stdin["asr"], k)
      \/ ctl' = g /\ stdin'["asr"] = stdin["asr"]
  BY <1>1, <1>3 DEF Send, Become, Workers
<1>5. Agrees(stdin["asr"], es, asr, t, alive) /\ Agrees(stdin["asr"], es, asr, g, alive)
  BY <1>2, AgreesMode
<1>6. Agrees(Append(stdin["asr"], k), es, asr, t, alive)
  BY <1>1, <1>2, <1>5, AgreesStart
<1> QED
  BY <1>4, <1>5, <1>6

\* The recording is stopped for a change of the language.
LEMMA LanguageStops ==
  ASSUME TypeOK, NEW s \in Controller, s.mode = "Recording", StopForLanguageChange(s),
         NEW es, NEW c, NEW alive, Agrees(stdin["asr"], es, asr, c, alive),
         asr.state = "Recording", NoStart(stdin["asr"]), ~HasCall(stdin["asr"]), ~HasStarted(es)
  PROVE  Agrees(stdin'["asr"], es, asr, ctl', alive)
<1> DEFINE t == [s EXCEPT !.pending = TRUE]
           f == [t EXCEPT !.mode = "Finalizing"]
           g == SetError([f EXCEPT !.pending = FALSE])
           k == ToAsr("stop", f)
<1>1. f.mode = "Finalizing" /\ g.mode = "Error" /\ k.type = "stop"
  BY DEF Controller, SetError, ToAsr
<1>2. Send("asr", k, f, g)
  BY DEF StopForLanguageChange, Controller
<1> HIDE DEF t, f, g, k
<1> QED
  BY <1>1, <1>2, SendStops

\* An event m has been taken from the queue: what is known of it and of the others.
Learns(m) ==
  /\ Agrees(stdin["asr"], stdout'["asr"], asr, ctl, AsrAlive)
  /\ m.type # "recording_cancelled"
  /\ m.type = "error" => NoStart(stdin["asr"]) /\ ~HasStarted(stdout'["asr"])
  /\ m.type = "recording_started" =>
       /\ ctl.mode = "StartingRecording" /\ (ctl.pending \/ asr.language = ctl.language)
       /\ asr.state = "Recording" /\ ~HasCall(stdin["asr"]) /\ ~HasStarted(stdout'["asr"])
  /\ Closes(m) => ~HasError(stdout'["asr"])
  /\ m.type = "ready" /\ ctl.mode = "Starting" => ~HasError(stdout'["asr"])
  /\ m.type \in {"error", "ready"} => ~(AsrAlive /\ asr.state = "Loading")

\* handle_asr_message(), one step per type of message.
LEMMA AsrHandlerAgrees ==
  ASSUME TypeOK, RawInv, NEW m \in AsrEvent, Arrives(m), Learns(m), HandleAsrMessage(m)
  PROVE  Agrees(stdin'["asr"], stdout'["asr"], asr, ctl', AsrAlive)
<1> DEFINE cs == stdin["asr"]
           es == stdout'["asr"]
           Goal == Agrees(stdin'["asr"], es, asr, ctl', AsrAlive)
<1>1. /\ ctl \in Controller /\ ctl.cleanup = "Off"
      /\ Agrees(cs, es, asr, ctl, AsrAlive)
  BY DEF TypeOK, ControllerTypeOK, RawInv, Learns
<1>2. AsrAlive => asr.state # "Loading"
  <2>1. CASE m.type \in {"error", "ready"}
    BY <2>1 DEF Learns
  <2>2. CASE m.type \notin {"error", "ready"}
    BY <2>2, RawModes DEF Arrives, Tells, Closes, AsrEvent
  <2> QED
    BY <2>1, <2>2
<1>3. Silent(cs, es, asr) => NoStart(cs) /\ ~HasStarted(es)
  BY DEF Silent, NoTidings, Tells, HasStarted
<1>4. ASSUME NEW d, Become(d),
             \/ d.mode = ctl.mode /\ d.language = ctl.language /\ d.pending = ctl.pending
             \/ /\ NoStart(cs) /\ ~HasStarted(es)
                /\ d.mode = "Error" \/ (d.mode \in {"Ready", "Complete"} /\ ~HasError(es))
      PROVE  Goal
  <2>1. ctl' = d /\ stdin' = stdin
    BY <1>4 DEF Become
  <2>2. Agrees(cs, es, asr, d, AsrAlive)
    <3>1. CASE d.mode = ctl.mode /\ d.language = ctl.language /\ d.pending = ctl.pending
      BY <1>1, <3>1, AgreesSame
    <3>2. CASE /\ NoStart(cs) /\ ~HasStarted(es)
               /\ d.mode = "Error" \/ (d.mode \in {"Ready", "Complete"} /\ ~HasError(es))
      BY <1>1, <1>2, <3>2, AgreesMode
    <3> QED
      BY <1>4, <3>1, <3>2
  <2> QED
    BY <2>1, <2>2
<1> HIDE DEF cs, es, Goal
<1> SUFFICES Goal
  BY DEF Goal, es
<1>5. CASE Become(ctl)
  BY <1>4, <1>5
<1>6. CASE AsrReady(m)
  <2> DEFINE s == UpdateReadyState([ctl EXCEPT !.asrReady = TRUE])
  <2>1. Become(s) /\ m.type = "ready"
    BY <1>6 DEF AsrReady
  <2>2. /\ s.language = ctl.language /\ s.pending = ctl.pending
        /\ s.mode = ctl.mode \/ (ctl.mode = "Starting" /\ s.mode = "Ready")
    BY <1>1 DEF Controller, UpdateReadyState
  <2> HIDE DEF s
  <2>3. CASE s.mode = ctl.mode
    BY <1>4, <2>1, <2>2, <2>3
  <2>4. CASE ctl.mode = "Starting" /\ s.mode = "Ready"
    <3>1. Silent(cs, es, asr) /\ ~HasError(es)
      BY <2>1, <2>4, RawModes DEF Arrives, Learns, cs, es
    <3> QED
      BY <1>3, <1>4, <2>1, <2>4, <3>1
  <2> QED
    BY <2>2, <2>3, <2>4
<1>7. CASE RecordingStarted(m) /\ m.session = ctl.session
  <2> DEFINE s == [ctl EXCEPT !.mode = "Recording"]
  <2>1. /\ ctl.pending \/ asr.language = ctl.language
        /\ asr.state = "Recording" /\ ~HasCall(cs) /\ ~HasStarted(es) /\ NoStart(cs)
    BY <1>7, RawModes DEF Learns, RecordingStarted, cs, es
  <2>2. /\ s \in Controller /\ s.mode = "Recording" /\ s.language = ctl.language
        /\ s.pending = ctl.pending
    BY <1>1 DEF Controller, Modes
  <2>3. \/ ~ctl.pending /\ Become(s)
        \/ ctl.pending /\ StopForLanguageChange(s)
    BY <1>1, <1>7 DEF RecordingStarted, Controller
  <2> HIDE DEF s
  <2>4. CASE ~ctl.pending /\ Become(s)
    <3>1. ctl' = s /\ stdin' = stdin
      BY <2>4 DEF Become
    <3>2. StartAgrees(cs, es, s) /\ RunAgrees(cs, es, asr, s) /\ RestAgrees(es, s)
      BY <2>1, <2>2, <2>4
      DEF StartAgrees, NoStart, RunAgrees, HasStarted, RestAgrees
    <3>3. LoadAgrees(es, asr, s)
      BY <2>1 DEF LoadAgrees
    <3> QED
      BY <1>1, <3>1, <3>2, <3>3 DEF Agrees, Goal, cs
  <2>5. CASE ctl.pending /\ StopForLanguageChange(s)
    BY <1>1, <2>1, <2>2, <2>5, LanguageStops DEF Goal, cs
  <2> QED
    BY <2>3, <2>4, <2>5
<1>8. CASE TranscriptUpdate(m) /\ m.session = ctl.session
  <2> DEFINE s == RefreshTranscript([ctl EXCEPT !.hypothesis = m.text])
  <2>1. Become(s)
    BY <1>8 DEF TranscriptUpdate
  <2>2. s.mode = ctl.mode /\ s.language = ctl.language /\ s.pending = ctl.pending
    BY <1>1 DEF Controller, RefreshTranscript
  <2> HIDE DEF s
  <2> QED
    BY <1>4, <2>1, <2>2
<1>9. CASE RecordingFinalized(m) /\ m.session = ctl.session
  <2> DEFINE t == [ctl EXCEPT !.segments = @ \cup m.text, !.hypothesis = {}]
             s == RefreshTranscript([t EXCEPT !.raw = RawText(t)])
             p == [s EXCEPT !.pending = FALSE]
             e == [ClearActiveRewrite(s) EXCEPT !.mode = "Complete"]
             r == ClearActiveRewrite(s)
             off == [r EXCEPT !.rewritten = r.raw, !.live = r.raw,
                              !.confirm = FALSE, !.mode = "Complete"]
  <2>1. m.text \in SUBSET Nat /\ Closes(m)
    BY <1>9 DEF AsrEvent, RecordingFinalized, Closes
  <2>2. NoStart(cs) /\ ~HasStarted(es) /\ ~HasError(es)
    BY <1>3, <2>1 DEF Arrives, Learns, cs, es
  <2>3. t \in Controller /\ t.cleanup = "Off"
    BY <1>1, <2>1 DEF Controller
  <2> HIDE DEF t
  <2>4. s \in Controller /\ s.cleanup = "Off"
    BY <2>3 DEF Controller, RefreshTranscript, RawText
  <2>5. \/ s.pending /\ StartSession(p)
        \/ Become(e)
        \/ FinishDictation(s)
    BY <1>9, <2>4 DEF RecordingFinalized, Controller, t
  <2> HIDE DEF s
  <2>6. CASE StartSession(p)
    <3>1. p \in Controller
      BY <2>4 DEF Controller
    <3> HIDE DEF p
    <3> QED
      BY <1>1, <1>2, <2>2, <2>6, <3>1, SendStarts DEF Goal, cs
  <2>7. CASE Become(e)
    <3>1. e.mode = "Complete"
      BY <2>4 DEF Controller, ClearActiveRewrite
    <3> HIDE DEF e
    <3> QED
      BY <1>4, <2>2, <2>7, <3>1
  <2>8. CASE FinishDictation(s)
    <3>1. r.cleanup = "Off" /\ off.mode = "Complete"
      BY <2>4 DEF Controller, ClearActiveRewrite
    <3>2. Become(off)
      BY <2>8, <3>1 DEF FinishDictation
    <3> HIDE DEF off
    <3> QED
      BY <1>4, <2>2, <3>1, <3>2
  <2> QED
    BY <2>5, <2>6, <2>7, <2>8
<1>10. CASE RecordingCancelled(m)
  BY <1>10 DEF RecordingCancelled, Learns
<1>11. CASE AsrError(m)
  <2> DEFINE s == [ctl EXCEPT !.mode = "Ready", !.session = NoSession]
  <2>1. s.mode = "Ready" /\ SetError(ctl).mode = "Error"
    BY <1>1 DEF Controller, SetError
  <2>2. m.type = "error"
    BY <1>11 DEF AsrError
  <2>3. NoStart(cs) /\ ~HasStarted(es)
    BY <2>2 DEF Learns, cs, es
  <2>4. CASE m.code = "MICROPHONE_UNAVAILABLE"
    <3>1. Become(s)
      BY <1>11, <2>4 DEF AsrError
    <3>2. ~HasError(es)
      BY <2>2, <2>4 DEF Learns, Closes, es
    <3> HIDE DEF s
    <3> QED
      BY <1>4, <2>1, <2>3, <3>1, <3>2
  <2>5. CASE m.code # "MICROPHONE_UNAVAILABLE"
    <3>1. Become(SetError(ctl))
      BY <1>11, <2>5 DEF AsrError
    <3> QED
      BY <1>4, <2>1, <2>3, <3>1
  <2> QED
    BY <2>4, <2>5
<1> QED
  BY <1>5, <1>6, <1>7, <1>8, <1>9, <1>10, <1>11
  DEF HandleAsrMessage, RecordingStarted, TranscriptUpdate, RecordingFinalized

\* A step that leaves the worker, and the call that starts it, alone.
LEMMA AgreesKept ==
  ASSUME LanguageInv, UNCHANGED <<asr, proc>>, ui'.op = "launch_asr" => UNCHANGED <<ctl, ui>>,
         Agrees(stdin'["asr"], stdout'["asr"], asr, ctl', AsrAlive)
  PROVE  LanguageInv'
BY DEF LanguageInv, AsrAlive

\* A step in which the controller and both queues stay as they are.
LEMMA AgreesFrame ==
  ASSUME LanguageInv, UNCHANGED <<asr, proc, ctl>>, stdin'["asr"] = stdin["asr"],
         stdout'["asr"] = stdout["asr"], ui'.op = "launch_asr" => UNCHANGED ui
  PROVE  LanguageInv'
BY DEF LanguageInv, AsrAlive

\* The reader thread of the speech worker.
LEMMA AsrReaderLanguage ==
  ASSUME TypeOK, LifecycleInv, EndedInv, RawInv, AsrReader, UNCHANGED workerVars
  PROVE  LanguageInv'
<1> DEFINE cs == stdin["asr"]
           es == stdout["asr"]
           n == ctl.lastSession
<1>1. /\ UNCHANGED asr /\ es \in Seq(AsrEvent) /\ DOMAIN stdout = Workers
      /\ Flight(cs, es, asr, n, said) /\ Silence = Silent(cs, es, asr)
      /\ Agrees(cs, es, asr, ctl, AsrAlive) /\ LanguageInv
  BY AsrQueues
  DEF workerVars, TypeOK, PipesTypeOK, RawInv, KeptInv, FlightInv, Silence, LanguageInv
<1>2. UNCHANGED <<proc, ui>> /\ ui.op # "launch_asr"
  <2>1. reader["asr"] # "none"
    BY <1>1
    DEF AsrReader, AsrReaderLine, NextLine, AsrReaderReport, LastReport, ReaderEnds, ReaderEof
  <2>2. UNCHANGED <<proc, ui>>
    BY DEF AsrReader, AsrReaderLine, NextLine, AsrReaderReport, LastReport, ReaderEnds, ReaderEof
  <2> QED
    BY <2>1, <2>2
    DEF LifecycleInv, PlacesInv, WorkersInv, StoppedInv, OpWorker, Workers
<1>3. CASE AsrReaderLine
  <2>1. /\ es # <<>> /\ stdout'["asr"] = Tail(es) /\ Head(es) \in AsrEvent
        /\ HandleAsrMessage(Head(es))
    BY <1>1, <1>3 DEF AsrReaderLine, NextLine, Workers
  <2> HIDE DEF cs, es, n
  <2>2. Arrives(Head(es)) <=>
          /\ Flight(cs, Tail(es), asr, n, said)
          /\ Silence => Silent(cs, Tail(es), asr)
          /\ Closes(Head(es)) => Silent(cs, Tail(es), asr)
          /\ Tells(Head(es)) => ~Silence /\ Head(es).session = n
          /\ Head(es).type = "recording_finalized" /\ n \in said => n \in Head(es).text
    BY <2>1 DEF Arrives, cs, n
  <2>3. Arrives(Head(es))
    BY <1>1, <2>1, <2>2, FlightPop
  <2>4. /\ Agrees(cs, Tail(es), asr, ctl, AsrAlive)
        /\ Head(es).type # "recording_cancelled"
        /\ Head(es).type = "error" => NoStart(cs) /\ ~HasStarted(Tail(es))
        /\ Head(es).type = "recording_started" =>
             /\ ctl.mode = "StartingRecording" /\ (ctl.pending \/ asr.language = ctl.language)
             /\ asr.state = "Recording" /\ ~HasCall(cs) /\ ~HasStarted(Tail(es))
        /\ Closes(Head(es)) => ~HasError(Tail(es))
        /\ Head(es).type = "ready" /\ ctl.mode = "Starting" => ~HasError(Tail(es))
        /\ AsrAlive /\ asr.state = "Loading" =>
             ctl.mode = "Starting" /\ Head(es).type \notin {"error", "ready"}
    BY <1>1, <2>1, AgreesPop
  <2>5. Learns(Head(es))
    BY <2>1, <2>4 DEF Learns, cs
  <2> QED
    BY <1>1, <1>2, <2>1, <2>3, <2>5, AsrHandlerAgrees, AgreesKept
<1>4. CASE AsrReaderReport
  <2> DEFINE m == AsrFailure("WORKER_EXITED", NoSession)
  <2>1. m \in AsrEvent /\ ~Tells(m) /\ ~Closes(m) /\ m.type = "error"
    BY DEF AsrFailure, AsrEvent, ErrorCode, NoSession, Tells, Closes
  <2>2. /\ HandleAsrMessage(m) /\ UNCHANGED stdout
        /\ ~AsrAlive /\ cs = <<>> /\ es = <<>>
    BY <1>4 DEF AsrReaderReport, LastReport, EndedInv, AsrAlive
  <2>3. \A i \in DOMAIN <<>> : FALSE
    OBVIOUS
  <2>4. NoStart(cs) /\ ~HasStarted(es)
    BY <2>2, <2>3 DEF NoStart, HasStarted
  <2> HIDE DEF m
  <2>5. Arrives(m)
    BY <1>1, <2>1, <2>2 DEF Arrives
  <2>6. Learns(m)
    BY <1>1, <2>1, <2>2, <2>4 DEF Learns
  <2> QED
    BY <1>1, <1>2, <2>1, <2>5, <2>6, <2>2, AsrHandlerAgrees, AgreesKept
<1>5. CASE ReaderEnds("asr")
  BY <1>1, <1>2, <1>5, AgreesFrame DEF ReaderEnds, ReaderEof
<1> QED
  BY <1>3, <1>4, <1>5 DEF AsrReader

\* The reader thread of the cleanup worker has nobody to tell.
LEMMA RewriteReaderLanguage ==
  ASSUME TypeOK, RawInv, RewriteReader, UNCHANGED workerVars
  PROVE  LanguageInv'
<1>1. DOMAIN stdout = Workers /\ UNCHANGED <<asr, proc, ui>>
  BY
  DEF TypeOK, PipesTypeOK, workerVars, RewriteReader, RewriteReaderLine, NextLine,
      RewriteReaderReport, LastReport, ReaderEnds, ReaderEof
<1>2. UNCHANGED <<ctl, stdin>>
  BY
  DEF RawInv, RewriteReader, RewriteReaderLine, RewriteReaderReport, ReaderEnds, ReaderEof,
      HandleRewriteMessage, Become
<1>3. stdout'["asr"] = stdout["asr"]
  BY <1>1
  DEF RewriteReader, RewriteReaderLine, NextLine, RewriteReaderReport, LastReport, ReaderEnds,
      ReaderEof, Workers
<1> QED
  BY <1>1, <1>2, <1>3, AgreesFrame DEF RawInv

---------------------------------------------------------------------------
(* The steps of each actor.                                                *)

\* toggle_recording() starts where nothing is on its way, or stops the recording.
LEMMA ToggleLanguage ==
  ASSUME TypeOK, LifecycleInv, RawInv, UiToggle, UNCHANGED workerVars
  PROVE  LanguageInv'
<1>1. /\ ctl \in Controller /\ UNCHANGED <<proc, stdout, asr>> /\ ToggleRecording
      /\ ui'.op # "launch_asr" /\ LanguageInv
      /\ Agrees(stdin["asr"], stdout["asr"], asr, ctl, AsrAlive)
  BY
  DEF UiToggle, UiIdle, TypeOK, ControllerTypeOK, workerVars, RawInv, LanguageInv
<1>2. CASE ctl.mode \in {"Ready", "Complete"}
  <2> DEFINE u == ClearTexts(ctl)
             s == [u EXCEPT !.dictation = {}, !.pending = FALSE]
  <2>1. StartSession(s)
    BY <1>1, <1>2 DEF ToggleRecording, StartDictation
  <2>2. u \in Controller
    BY <1>1 DEF ClearTexts, ClearActiveRewrite, ResetTranscript, Controller, NoRequest
  <2> HIDE DEF u
  <2>3. s \in Controller
    BY <2>2 DEF Controller
  <2> HIDE DEF s
  <2>4. NoStart(stdin["asr"]) /\ ~HasStarted(stdout["asr"])
    BY <1>2, RawModes
  <2>5. ~HasError(stdout["asr"]) /\ (AsrAlive => asr.state # "Loading")
    BY <1>1, <1>2 DEF Agrees, RestAgrees, LoadAgrees
  <2>6. Agrees(stdin'["asr"], stdout["asr"], asr, ctl', AsrAlive)
    BY <1>1, <2>1, <2>3, <2>4, <2>5, SendStarts
  <2> QED
    BY <1>1, <2>6, AgreesKept
<1>3. CASE ctl.mode = "Recording"
  <2> DEFINE f == [ctl EXCEPT !.mode = "Finalizing"]
             k == ToAsr("stop", f)
  <2>1. Send("asr", k, f, SetError(f)) /\ k.type = "stop"
    BY <1>1, <1>3 DEF ToggleRecording, ToAsr
  <2>2. f.mode = "Finalizing" /\ SetError(f).mode = "Error"
    BY <1>1 DEF Controller, SetError
  <2> HIDE DEF f, k
  <2>3. asr.state = "Recording" /\ ~HasCall(stdin["asr"]) /\ ~HasStarted(stdout["asr"])
    BY <1>1, <1>3 DEF Agrees, RunAgrees, HasStarted
  <2>4. Agrees(stdin'["asr"], stdout["asr"], asr, ctl', AsrAlive)
    BY <1>1, <2>1, <2>2, <2>3, RawModes, SendStops
  <2> QED
    BY <1>1, <2>4, AgreesKept
<1>4. CASE ctl.mode \notin {"Ready", "Complete", "Recording"}
  BY <1>1, <1>4, AgreesFrame DEF ToggleRecording, Become
<1> QED
  BY <1>2, <1>3, <1>4

\* A language is selected.
LEMMA SelectLanguageAgrees ==
  ASSUME TypeOK, LifecycleInv, RawInv, NEW l \in Language, SelectLanguage(l),
         UNCHANGED workerVars
  PROVE  LanguageInv'
<1>1. /\ ctl \in Controller /\ UNCHANGED <<proc, stdout, asr, ui>> /\ SetLanguage(l)
      /\ ui.op # "launch_asr" /\ LanguageInv
      /\ Agrees(stdin["asr"], stdout["asr"], asr, ctl, AsrAlive)
  BY
  DEF SelectLanguage, Idle, LifecycleInv, PlacesInv, TypeOK, ControllerTypeOK, workerVars,
      RawInv, LanguageInv
<1> DEFINE s == [ctl EXCEPT !.language = l]
           t == [s EXCEPT !.pending = TRUE]
<1>2. s \in Controller /\ s.mode = ctl.mode /\ t.mode = ctl.mode /\ t.pending
  BY <1>1 DEF Controller
<1>3. \/ s.mode = "Recording" /\ StopForLanguageChange(s)
      \/ s.mode = "StartingRecording" /\ Become(t)
      \/ s.mode \notin {"Recording", "StartingRecording"} /\ Become(s)
  BY <1>1, <1>2 DEF SetLanguage, StopForLanguageChange
<1> HIDE DEF s, t
<1>4. CASE s.mode = "Recording" /\ StopForLanguageChange(s)
  <2>1. asr.state = "Recording" /\ ~HasCall(stdin["asr"]) /\ ~HasStarted(stdout["asr"])
    BY <1>1, <1>2, <1>4 DEF Agrees, RunAgrees, HasStarted
  <2>2. Agrees(stdin'["asr"], stdout["asr"], asr, ctl', AsrAlive)
    BY <1>1, <1>2, <1>4, <2>1, RawModes, LanguageStops
  <2> QED
    BY <1>1, <2>2, AgreesKept
<1>5. CASE s.mode = "StartingRecording" /\ Become(t)
  BY <1>1, <1>2, <1>5, AgreesSame, AgreesKept DEF Become
<1>6. CASE s.mode \notin {"Recording", "StartingRecording"} /\ Become(s)
  BY <1>1, <1>2, <1>6, AgreesSame, AgreesKept DEF Become
<1> QED
  BY <1>3, <1>4, <1>5, <1>6

\* What the user does.
LEMMA UserLanguage ==
  ASSUME TypeOK, LifecycleInv, RawInv, UserStep, UNCHANGED workerVars
  PROVE  LanguageInv'
<1>1. ~Spend("settings", MaxSettings)
  <2>1. used["settings"] \in Nat /\ MaxSettings = 0
    BY DEF RawInv, BoundsInv, Counters
  <2> QED
    BY <2>1 DEF Spend
<1>2. CASE HotkeyInsert \/ HotkeyStart \/ HotkeyStop \/ HotkeyCancel \/ CloseWindow
  <2>1. UNCHANGED <<pipes, ctl, asr>> /\ (ui'.op = "launch_asr" => UNCHANGED ui)
    BY <1>2
    DEF HotkeyInsert, HotkeyStart, HotkeyStop, HotkeyCancel, CloseWindow, Quit, Call, workerVars
  <2> QED
    BY <2>1, AgreesFrame DEF RawInv, pipes
<1>3. CASE \E l \in Language : SelectLanguage(l)
  BY <1>3, SelectLanguageAgrees
<1> QED
  BY <1>1, <1>2, <1>3 DEF UserStep

\* A process that ends takes its commands with it.
LEMMA ExitLanguage ==
  ASSUME TypeOK, LanguageInv, NEW w \in Workers, Exit(w),
         UNCHANGED <<stdout, ctl, asr>>, ui'.op = "launch_asr" => UNCHANGED ui
  PROVE  LanguageInv'
<1>1. /\ DOMAIN stdin = Workers /\ DOMAIN proc = Workers /\ stdin["asr"] \in Seq(AsrCommand)
      /\ Agrees(stdin["asr"], stdout["asr"], asr, ctl, AsrAlive)
  BY AsrQueues DEF TypeOK, PipesTypeOK, LanguageInv
<1>2. CASE w = "asr"
  <2>1. stdin'["asr"] = <<>> /\ AsrAlive' = FALSE
    BY <1>1, <1>2 DEF Exit, AsrAlive, Workers
  <2>2. Agrees(<<>>, stdout["asr"], asr, ctl, FALSE)
    BY <1>1, AgreesRead
  <2> QED
    BY <2>1, <2>2 DEF LanguageInv
<1>3. CASE w # "asr"
  <2>1. stdin'["asr"] = stdin["asr"] /\ AsrAlive' = AsrAlive
    BY <1>1, <1>3 DEF Exit, AsrAlive, Workers
  <2> QED
    BY <1>1, <2>1 DEF LanguageInv
<1> QED
  BY <1>2, <1>3

\* The calls of the UI thread, one step per place.
LEMMA UiLanguage ==
  ASSUME TypeOK, LifecycleInv, EndedInv, RawInv, UiStep, UNCHANGED workerVars
  PROVE  LanguageInv'
<1>1. /\ ctl \in Controller /\ UNCHANGED asr /\ DOMAIN proc = Workers /\ DOMAIN stdin = Workers
      /\ stdin["asr"] \in Seq(AsrCommand) /\ LanguageInv
      /\ Agrees(stdin["asr"], stdout["asr"], asr, ctl, AsrAlive)
  BY AsrQueues DEF TypeOK, ControllerTypeOK, PipesTypeOK, workerVars, RawInv, LanguageInv
<1>2. CASE UiSendShutdown
  <2> DEFINE k == ShutdownCommand("asr")
  <2>1. k.type # "start" /\ ~IsCall(k)
    BY DEF ShutdownCommand, IsCall
  <2>2. /\ UNCHANGED <<proc, stdout, ctl>> /\ ui'.op # "launch_asr"
        /\ \/ stdin'["asr"] = stdin["asr"]
           \/ stdin'["asr"] = Append(stdin["asr"], k)
    BY <1>1, <1>2
    DEF UiSendShutdown, OpWorker, Send, Become, Workers, LifecycleInv, PlacesInv
  <2> HIDE DEF k
  <2>3. Agrees(stdin'["asr"], stdout["asr"], asr, ctl, AsrAlive)
    BY <1>1, <2>1, <2>2, AgreesSent
  <2> QED
    BY <1>1, <2>2, <2>3, AgreesKept
<1>3. CASE UiCheckRunning \/ UiCloseInput
  <2>1. CASE UiCheckRunning
    <3>1. ui \in [pc : UiPlaces, op : Operations]
      BY DEF TypeOK, ControllerTypeOK
    <3>2. UNCHANGED <<stdin, stdout, proc, ctl>> /\ ui'.op # "launch_asr"
      BY <2>1, <3>1 DEF UiCheckRunning, pipes, UiIdle, LifecycleInv, PlacesInv
    <3> QED
      BY <1>1, <3>2, AgreesFrame
  <2>2. CASE UiCloseInput
    <3>1. ui \in [pc : UiPlaces, op : Operations]
      BY DEF TypeOK, ControllerTypeOK
    <3>2. UNCHANGED <<stdin, stdout, proc, ctl>> /\ ui'.op # "launch_asr"
      BY <2>2, <3>1 DEF UiCloseInput, CloseInput, UiIdle, LifecycleInv, PlacesInv
    <3> QED
      BY <1>1, <3>2, AgreesFrame
  <2> QED
    BY <1>3, <2>1, <2>2
<1>4. CASE UiJoin
  <2>1. PICK w \in Workers : Join(w)
    BY <1>4, OpWorkerTyped DEF UiJoin
  <2>2. UNCHANGED <<stdin, stdout, ctl>> /\ ui'.op # "launch_asr"
    BY <1>4 DEF UiJoin, Join, UiIdle, LifecycleInv, PlacesInv
  <2>3. AsrAlive' = AsrAlive
    BY <1>1, <2>1 DEF Join, Stopped, AsrAlive, Workers
  <2> QED
    BY <1>1, <2>2, <2>3 DEF LanguageInv
<1>5. CASE UiTerminate
  <2>1. UNCHANGED <<stdout, ctl, ui>>
    BY <1>5 DEF UiTerminate
  <2> QED
    BY <1>1, <1>5, <2>1, OpWorkerTyped, ExitLanguage DEF UiTerminate
<1>6. CASE HostSpawnFails
  <2>1. ui.op = "launch_asr"
    BY <1>6
    DEF HostSpawnFails, UiSpawnFails, LifecycleInv, PlacesInv, RawInv, BoundsInv
  <2>2. /\ ctl' = SetError(ctl) /\ ui' = UiIdle /\ UNCHANGED pipes
        /\ proc["asr"] = "none" /\ ctl.mode = "Starting"
    BY <1>1, <1>6, <2>1
    DEF HostSpawnFails, UiSpawnFails, OpWorker, LifecycleInv, StoppedInv, LanguageInv
  <2>3. SetError(ctl).mode = "Error" /\ ~AsrAlive
    BY <1>1, <2>2 DEF SetError, Controller, AsrAlive
  <2>4. NoStart(stdin["asr"]) /\ ~HasStarted(stdout["asr"])
    BY <2>2, RawModes
  <2>5. Agrees(stdin["asr"], stdout["asr"], asr, SetError(ctl), AsrAlive)
    BY <1>1, <2>3, <2>4, AgreesMode
  <2> QED
    BY <1>1, <2>2, <2>5, AgreesKept DEF pipes, UiIdle
<1>7. ~UiCancel
  BY RawModes DEF UiCancel
<1> QED
  BY <1>2, <1>3, <1>4, <1>5, <1>6, <1>7, ToggleLanguage DEF UiStep

\* The speech worker is started once, with empty queues.
LEMMA SpawnLanguage ==
  ASSUME TypeOK, LifecycleInv, RawInv, SpawnStep
  PROVE  LanguageInv'
<1>1. ui.op = "launch_asr" /\ OpWorker = "asr" /\ ctl.mode = "Starting"
  BY
  DEF SpawnStep, HostSpawn, UiSpawn, LifecycleInv, PlacesInv, RawInv, BoundsInv, OpWorker,
      LanguageInv
<1>2. /\ stdin'["asr"] = <<>> /\ stdout'["asr"] = <<>> /\ UNCHANGED ctl
      /\ asr'.state = "Loading" /\ ui'.op # "launch_asr"
  BY <1>1
  DEF SpawnStep, HostSpawn, UiSpawn, Spawn, FreshAsr, UiIdle, RawInv, TypeOK, PipesTypeOK,
      Workers, ControllerTypeOK
<1>3. \A i \in DOMAIN <<>> : FALSE
  OBVIOUS
<1> DEFINE q == <<>>
<1> HIDE DEF q
<1>4. NoStart(q) /\ ~HasCall(q) /\ ~HasStarted(q) /\ ~HasError(q) /\ ~HasReady(q)
      /\ \A i \in DOMAIN q : q[i].type # "recording_cancelled"
  BY <1>3 DEF NoStart, HasCall, HasStarted, HasError, HasReady, q
<1>5. Agrees(q, q, asr', ctl, AsrAlive')
  BY <1>1, <1>4, AgreesIdle
<1> QED
  BY <1>2, <1>5 DEF LanguageInv, q

\* The main loop.
LEMMA LoopLanguage ==
  ASSUME TypeOK, RawInv, LoopStep, UNCHANGED workerVars
  PROVE  LanguageInv'
<1>1. ~HostTick
  BY RawModes DEF HostTick, Tick
<1> QED
  BY <1>1, AgreesFrame DEF LoopStep, HostPoll, pipes, workerVars, RawInv
---------------------------------------------------------------------------
(* The workers, and the theorem.                                           *)

\* The main thread of the speech worker, one step per command.
LEMMA AsrMainLanguage ==
  ASSUME TypeOK, RawInv, AsrMain
  PROVE  LanguageInv'
<1> DEFINE cs == stdin["asr"]
           es == stdout["asr"]
           n == ctl.lastSession
<1>1. /\ cs \in Seq(AsrCommand) /\ es \in Seq(AsrEvent) /\ asr \in AsrMemory
      /\ LanguageInv /\ UNCHANGED <<ctl, ui>> /\ ui.op # "asr_device"
  BY AsrQueues DEF TypeOK, AsrTypeOK, RawInv, AsrMain, BoundsInv
<1>2. /\ Flight(cs, es, asr, n, said) /\ CallsFit(cs, asr, n)
      /\ Agrees(cs, es, asr, ctl, AsrAlive) /\ AsrAlive
  BY
  DEF RawInv, KeptInv, FlightInv, MicInv, Fits, LanguageInv, AsrMain, AsrMainThread,
      AsrLoadModel, AsrLoadFails, AsrStart, AsrStartFails, AsrRejects, AsrStop, AsrStopFails,
      AsrCancel, AsrQuit, Matches, ReadCommand, Exit, AsrAlive
<1>3. \A types : ReadCommand(types) =>
        /\ cs # <<>> /\ stdin'["asr"] = Tail(cs) /\ Command = Head(cs) /\ Command.type \in types
        /\ AsrAlive' = AsrAlive /\ asr.state # "Loading"
  BY AsrQueues DEF ReadCommand, AsrAlive
<1>4. ASSUME Agrees(stdin'["asr"], stdout'["asr"], asr', ctl, AsrAlive') PROVE LanguageInv'
  BY <1>1, <1>4 DEF LanguageInv
<1>5. CASE AsrLoadModel
  <2> DEFINE e == AsrMessage("ready", 0, {})
             q == es \o <<e>>
  <2>1. /\ stdin'["asr"] = cs /\ asr' = [asr EXCEPT !.state = "Ready"]
        /\ asr.state = "Loading" /\ stdout'["asr"] = q
    BY <1>5, AsrQueues DEF AsrLoadModel
  <2>2. e.type = "ready" /\ asr'.state = "Ready"
    BY <1>1, <2>1 DEF AsrMessage, AsrMemory
  <2>3. /\ ctl.mode = "Starting" /\ ~HasError(es) /\ NoStart(cs) /\ ~HasStarted(es)
        /\ ~HasCall(cs) /\ \A i \in DOMAIN es : es[i].type # "recording_cancelled"
    BY <1>2, <2>1
    DEF Agrees, LoadAgrees, StartAgrees, RunAgrees, CallAgrees, EndAgrees, NoStart, HasStarted,
        HasCall
  <2> HIDE DEF cs, e
  <2>4. \A i \in DOMAIN q : (i \in DOMAIN es /\ q[i] = es[i]) \/ q[i] = e
    BY <1>1
  <2> HIDE DEF es, q
  <2>5. ~HasError(q) /\ ~HasStarted(q) /\ \A i \in DOMAIN q : q[i].type # "recording_cancelled"
    BY <2>2, <2>3, <2>4 DEF HasError, HasStarted
  <2>6. Agrees(cs, q, asr', ctl, AsrAlive')
    BY <2>2, <2>3, <2>5, AgreesIdle
  <2> QED
    BY <1>4, <2>1, <2>6
<1>6. CASE AsrLoadFails
  <2> DEFINE e == AsrFailure("MODEL_LOAD_FAILED", 0)
  <2>1. /\ stdin'["asr"] = <<>> /\ asr' = asr /\ stdout'["asr"] = es \o <<e>>
        /\ asr.state = "Loading" /\ AsrAlive' = FALSE
    BY <1>6, AsrQueues DEF AsrLoadFails, Exit, AsrAlive, TypeOK, PipesTypeOK, Workers
  <2>2. ctl.mode = "Starting" /\ ~HasReady(es)
    BY <1>2, <2>1 DEF Agrees, LoadAgrees
  <2>3. \A i \in DOMAIN es : ~Closes(es[i])
    BY <2>2, RawModes DEF Silence, Silent, NoTidings, Tells
  <2>4. e.type = "error"
    BY DEF AsrFailure
  <2>5. \A i \in DOMAIN <<>> : FALSE
    OBVIOUS
  <2>6. Agrees(<<>>, es, asr, ctl, FALSE)
    BY <1>1, <1>2, AgreesRead
  <2> DEFINE q == <<>>
  <2> HIDE DEF cs, es, e, q
  <2>7. NoStart(q)
    BY <2>5 DEF NoStart, q
  <2>8. Agrees(q, es \o <<e>>, asr, ctl, FALSE)
    BY <1>1, <2>2, <2>3, <2>4, <2>6, <2>7, AgreesFails DEF q
  <2> QED
    BY <1>4, <2>1, <2>8 DEF q
<1>7. CASE AsrStart \/ AsrStartFails
  <2>1. ReadCommand({"start"}) /\ asr.state = "Ready"
    BY <1>7 DEF AsrStart, AsrStartFails
  <2>2. /\ cs # <<>> /\ stdin'["asr"] = Tail(cs) /\ Command = Head(cs)
        /\ Command.type = "start" /\ AsrAlive' = AsrAlive
    BY <1>3, <2>1
  <2>3. ~HasCall(cs)
    BY <1>2, <2>1 DEF Agrees, CallAgrees, HasCall
  <2> HIDE DEF cs, es, n
  <2>4. /\ NoStart(Tail(cs)) /\ NoTidings(es)
    BY <1>1, <1>2, <2>2, FlightRead
  <2>5. /\ Agrees(Tail(cs), es, asr, ctl, AsrAlive) /\ ctl.mode = "StartingRecording"
        /\ ctl.pending \/ Command.language = ctl.language
        /\ ~HasError(es)
    BY <1>1, <1>2, <2>2, AgreesRead
  <2>6. ~HasCall(Tail(cs))
    <3>1. \A i \in DOMAIN Tail(cs) : Tail(cs)[i] = cs[i + 1] /\ i + 1 \in DOMAIN cs
      BY <1>1, <2>2
    <3> QED
      BY <2>3, <3>1 DEF HasCall
  <2>7. CASE AsrStart
    <3> DEFINE e == AsrMessage("recording_started", Command.session, {})
    <3>1. /\ stdout'["asr"] = es \o <<e>> /\ asr'.state = "Recording"
          /\ asr'.language = Command.language
      BY <2>7, AsrQueues DEF AsrStart, es
    <3>2. e.type = "recording_started"
      BY DEF AsrMessage
    <3> HIDE DEF e
    <3>3. Agrees(Tail(cs), es \o <<e>>, asr', ctl, AsrAlive)
      BY <1>1, <2>4, <2>5, <2>6, <3>1, <3>2, AgreesStarted
    <3> QED
      BY <1>4, <2>2, <3>1, <3>3
  <2>8. CASE AsrStartFails
    <3>1. PICK code : EmitAsr(<<AsrFailure(code, Command.session)>>)
      BY <2>8 DEF AsrStartFails
    <3> DEFINE e == AsrFailure(code, Command.session)
    <3>2. stdout'["asr"] = es \o <<e>> /\ e.type = "error" /\ asr' = asr
      BY <2>8, <3>1, AsrQueues DEF AsrStartFails, AsrFailure, es
    <3> HIDE DEF e
    <3>3. \A i \in DOMAIN es : ~Closes(es[i])
      BY <2>4 DEF NoTidings, Tells
    <3>4. Agrees(Tail(cs), es \o <<e>>, asr, ctl, AsrAlive)
      BY <1>1, <2>1, <2>4, <2>5, <3>2, <3>3, AgreesFails
    <3> QED
      BY <1>4, <2>2, <3>2, <3>4
  <2> QED
    BY <1>7, <2>7, <2>8
<1>8. ~AsrRejects
  <2> SUFFICES ASSUME AsrRejects PROVE FALSE
    OBVIOUS
  <2>1. /\ ReadCommand({"start", "stop", "cancel"})
        /\ \/ Command.type = "start" /\ asr.state # "Ready"
           \/ Command.type # "start"
              /\ (asr.state # "Recording" \/ asr.session # Command.session)
    BY DEF AsrRejects
  <2>2. /\ cs # <<>> /\ Command = Head(cs) /\ Command.type \in {"start", "stop", "cancel"}
        /\ asr.state \in {"Ready", "Recording"}
    BY <1>1, <1>3, <2>1 DEF AsrMemory, AsrStates
  <2> HIDE DEF cs, es, n
  <2>3. Command.type = "start" => asr.state = "Ready"
    BY <1>1, <1>2, <2>2, FlightRead
  <2>4. IsCall(Command) => asr.state = "Recording" /\ Command.session = n
    BY <1>1, <1>2, <2>2, AgreesRead, FitsRead
  <2> QED
    BY <1>2, <2>1, <2>2, <2>3, <2>4 DEF IsCall, Flight, RunsLast
<1>9. CASE AsrStop \/ AsrStopFails \/ AsrCancel
  <2>1. /\ AsrBackToReady /\ asr.state = "Recording"
        /\ ReadCommand({"stop"}) \/ ReadCommand({"cancel"})
    BY <1>9 DEF AsrStop, AsrStopFails, AsrCancel, Matches
  <2>2. /\ cs # <<>> /\ stdin'["asr"] = Tail(cs) /\ Command = Head(cs)
        /\ Command.type \in {"stop", "cancel"} /\ AsrAlive' = AsrAlive
    BY <1>3, <2>1
  <2>3. asr'.state = "Ready" /\ ~Silence
    BY <1>1, <2>1 DEF AsrBackToReady, AsrMemory, Silence, Silent
  <2>4. ctl.mode \notin {"Starting", "Ready", "Complete"}
    BY <2>3, RawModes
  <2>5. \A i \in DOMAIN es : ~Closes(es[i])
    BY <1>2, <2>1 DEF Flight, RunsLast
  <2> HIDE DEF cs, es, n
  <2>6. /\ Agrees(Tail(cs), es, asr, ctl, AsrAlive) /\ Command.type = "stop"
        /\ ~HasCall(Tail(cs)) /\ ~HasStarted(es) /\ ctl.mode # "Recording"
    BY <1>1, <1>2, <2>2, AgreesRead DEF IsCall
  <2>7. Agrees(Tail(cs), es, asr', ctl, AsrAlive)
    BY <2>3, <2>6, AgreesWorker
  <2>8. CASE AsrStop
    <3>1. PICK text \in {{}, {asr.session}} :
            EmitAsr((IF text = asr.transcript THEN <<>>
                     ELSE <<AsrMessage("transcript_update", asr.session, text)>>)
                    \o <<AsrMessage("recording_finalized", asr.session, text)>>)
      BY <2>8 DEF AsrStop
    <3> DEFINE e == AsrMessage("recording_finalized", asr.session, text)
               u == AsrMessage("transcript_update", asr.session, text)
               events == IF text = asr.transcript THEN <<>> ELSE <<u>>
    <3>2. u \in AsrEvent /\ e \in AsrEvent
      BY <3>1, AsrQueues, AsrEventsTyped
    <3>3. u.type = "transcript_update" /\ e.type = "recording_finalized"
      BY DEF AsrMessage
    <3>4. stdout'["asr"] = es \o (events \o <<e>>)
      BY <3>1, AsrQueues DEF es
    <3> HIDE DEF e, u
    <3>5. (events = <<>> \/ events = <<u>>) /\ events \in Seq(AsrEvent)
      BY <3>2
    <3>6. /\ es \o (events \o <<e>>) = (es \o events) \o <<e>>
          /\ es \o events \in Seq(AsrEvent)
      BY <1>1, <3>2, <3>5
    <3>7. Agrees(Tail(cs), es \o events, asr', ctl, AsrAlive)
      <4>1. CASE events = <<>>
        <5>1. es \o <<>> = es
          BY <1>1
        <5> QED
          BY <2>7, <4>1, <5>1
      <4>2. CASE events = <<u>>
        <5>1. Agrees(Tail(cs), es \o <<u>>, asr', ctl, AsrAlive)
          BY <1>1, <2>7, <3>3, AgreesTold
        <5> QED
          BY <4>2, <5>1
      <4> QED
        BY <3>5, <4>1, <4>2
    <3> HIDE DEF events
    <3>8. Agrees(Tail(cs), (es \o events) \o <<e>>, asr', ctl, AsrAlive)
      <4> DEFINE z == es \o events
      <4>1. z \in Seq(AsrEvent) /\ Agrees(Tail(cs), z, asr', ctl, AsrAlive)
        BY <3>6, <3>7
      <4> HIDE DEF z
      <4>2. Agrees(Tail(cs), z \o <<e>>, asr', ctl, AsrAlive)
        BY <3>3, <4>1, AgreesTold
      <4> QED
        BY <4>2 DEF z
    <3> QED
      BY <1>4, <2>2, <3>4, <3>6, <3>8
  <2>9. CASE AsrStopFails
    <3> DEFINE e == AsrFailure("TRANSCRIPTION_FAILED", asr.session)
    <3>1. stdout'["asr"] = es \o <<e>> /\ e.type = "error"
      BY <2>9, AsrQueues DEF AsrStopFails, AsrFailure, es
    <3> HIDE DEF e
    <3>2. NoStart(Tail(cs))
      <4>1. NoStart(cs)
        BY <2>1, RawModes DEF cs
      <4>2. \A i \in DOMAIN Tail(cs) : Tail(cs)[i] = cs[i + 1] /\ i + 1 \in DOMAIN cs
        BY <1>1, <2>2
      <4> QED
        BY <4>1, <4>2 DEF NoStart
    <3>3. Agrees(Tail(cs), es \o <<e>>, asr', ctl, AsrAlive)
      BY <1>1, <2>3, <2>4, <2>5, <2>7, <3>1, <3>2, AgreesFails
    <3> QED
      BY <1>4, <2>2, <3>1, <3>3
  <2>10. ~AsrCancel
    BY <1>3, <2>6 DEF AsrCancel, Matches
  <2> QED
    BY <1>9, <2>8, <2>9, <2>10
<1>10. CASE AsrQuit
  <2>1. UNCHANGED <<stdout, asr>> /\ Exit("asr")
    BY <1>10 DEF AsrQuit
  <2> QED
    BY <1>1, <2>1, ExitLanguage DEF Workers
<1> QED
  BY <1>5, <1>6, <1>7, <1>8, <1>9, <1>10 DEF AsrMain, AsrMainThread

\* The feed thread tells of words, or of a failure while a recording runs.
LEMMA AsrFeederLanguage ==
  ASSUME TypeOK, RawInv, AsrFeeder
  PROVE  LanguageInv'
<1> DEFINE cs == stdin["asr"]
           es == stdout["asr"]
<1>1. /\ es \in Seq(AsrEvent) /\ UNCHANGED <<ctl, ui, stdin, proc>> /\ asr \in AsrMemory
      /\ asr.state = "Recording" /\ Agrees(cs, es, asr, ctl, AsrAlive) /\ LanguageInv
      /\ \A i \in DOMAIN es : ~Closes(es[i])
  BY AsrQueues
  DEF AsrFeeder, AsrFeedThread, AsrFeed, AsrFeedFails, TypeOK, AsrTypeOK, RawInv, LanguageInv,
      KeptInv, FlightInv, Flight, RunsLast
<1>2. /\ ctl.mode \notin {"Starting", "Ready", "Complete"} /\ NoStart(cs)
  BY <1>1, RawModes DEF Silence, Silent
<1>3. asr'.state = asr.state /\ asr'.language = asr.language
  BY <1>1 DEF AsrFeeder, AsrFeedThread, AsrFeed, AsrFeedFails, AsrMemory
<1>4. ASSUME NEW e, stdout'["asr"] = es \o <<e>>, Agrees(cs, es \o <<e>>, asr, ctl, AsrAlive)
      PROVE  LanguageInv'
  <2>1. Agrees(cs, es \o <<e>>, asr', ctl, AsrAlive)
    BY <1>3, <1>4, AgreesWorker
  <2> QED
    BY <1>1, <1>4, <2>1 DEF LanguageInv, AsrAlive
<1>5. CASE AsrFeed
  <2> DEFINE e == AsrMessage("transcript_update", asr.session, {asr.session})
  <2>1. stdout'["asr"] = es \o <<e>> /\ e.type = "transcript_update"
    BY <1>5, AsrQueues DEF AsrFeed, AsrMessage
  <2> HIDE DEF e, cs, es
  <2>2. Agrees(cs, es \o <<e>>, asr, ctl, AsrAlive)
    BY <1>1, <2>1, AgreesTold
  <2> QED
    BY <1>4, <2>1, <2>2
<1>6. CASE AsrFeedFails
  <2> DEFINE e == AsrFailure("TRANSCRIPTION_FAILED", asr.session)
  <2>1. stdout'["asr"] = es \o <<e>> /\ e.type = "error"
    BY <1>6, AsrQueues DEF AsrFeedFails, AsrFailure
  <2> HIDE DEF e, cs, es
  <2>2. Agrees(cs, es \o <<e>>, asr, ctl, AsrAlive)
    BY <1>1, <1>2, <2>1, AgreesFails
  <2> QED
    BY <1>4, <2>1, <2>2
<1> QED
  BY <1>5, <1>6 DEF AsrFeeder, AsrFeedThread

\* The cleanup worker reads and writes its own pipes.
LEMMA RewriteStepLanguage ==
  ASSUME TypeOK, LanguageInv, RewriteStep
  PROVE  LanguageInv'
<1>1. UNCHANGED <<ctl, asr, ui>>
  BY DEF RewriteStep
<1>2. /\ stdin'["asr"] = stdin["asr"] /\ stdout'["asr"] = stdout["asr"]
      /\ proc'["asr"] = proc["asr"]
  BY DEF RewriteStep, RewriteWorkerStep, RewriteLoadModel, RewriteLoadFails, RewriteAnswer,
         RewriteAnswerFails, RewriteQuit, ReadRequest, EmitRewrite, Exit, TypeOK, PipesTypeOK,
         Workers
<1> QED
  BY <1>1, <1>2 DEF LanguageInv, AsrAlive

\* At the start nothing is on its way.
LEMMA LanguageInit == Init => LanguageInv /\ EndedInv
<1> SUFFICES ASSUME Init PROVE LanguageInv /\ EndedInv
  OBVIOUS
<1>1. /\ stdin["asr"] = <<>> /\ stdout["asr"] = <<>> /\ asr.state = "Loading"
      /\ ctl.mode = "Starting" /\ reader["asr"] = "none"
  BY DEF Init, PipesInit, FreshAsr, Workers, ControllerInit
<1>2. \A i \in DOMAIN <<>> : FALSE
  OBVIOUS
<1> DEFINE q == <<>>
<1> HIDE DEF q
<1>3. NoStart(q) /\ ~HasCall(q) /\ ~HasStarted(q) /\ ~HasError(q) /\ ~HasReady(q)
      /\ \A i \in DOMAIN q : q[i].type # "recording_cancelled"
  BY <1>2 DEF NoStart, HasCall, HasStarted, HasError, HasReady, q
<1>4. Agrees(q, q, asr, ctl, AsrAlive)
  BY <1>1, <1>3, AgreesIdle
<1> QED
  BY <1>1, <1>4 DEF LanguageInv, EndedInv, q

\* Every step keeps the agreement while nothing is cleaned up.
RawAgrees == ctl.cleanup = "Off" => LanguageInv

LEMMA LanguageStep ==
  ASSUME MaxCancels = 0, MaxSettings = 0, TypeOK, LifecycleInv, EndedInv, PromiseInv,
         Plain => MicInv, RawAgrees, [Next]_vars
  PROVE  RawAgrees'
<1> SUFFICES ASSUME ctl'.cleanup = "Off" PROVE LanguageInv'
  BY DEF RawAgrees
<1>1. BoundsInv /\ ctl.cleanup = "Off"
  BY StepSteady DEF PromiseInv
<1>2. RawInv /\ LanguageInv
  BY <1>1 DEF RawInv, PromiseInv, Plain, RawAgrees
<1>3. CASE UserStep /\ UNCHANGED workerVars
  BY <1>2, <1>3, UserLanguage
<1>4. CASE (UiStep \/ LoopStep) /\ UNCHANGED <<workerVars, used>>
  BY <1>2, <1>4, UiLanguage, LoopLanguage
<1>5. CASE (AsrReader \/ RewriteReader) /\ UNCHANGED <<workerVars, used>>
  BY <1>2, <1>5, AsrReaderLanguage, RewriteReaderLanguage
<1>6. CASE SpawnStep
  BY <1>2, <1>6, SpawnLanguage
<1>7. CASE AsrMain \/ AsrFeeder \/ RewriteStep
  BY <1>2, <1>7, AsrMainLanguage, AsrFeederLanguage, RewriteStepLanguage
<1>8. CASE Crash
  <2>1. PICK w \in Workers : Exit(w)
    BY <1>8 DEF Crash
  <2> QED
    BY <1>2, <1>8, <2>1, ExitLanguage DEF Crash, workerVars
<1>9. CASE Terminated \/ UNCHANGED vars
  BY <1>2, <1>9, AgreesFrame DEF Terminated, vars, pipes, workerVars
<1> QED
  BY <1>3, <1>4, <1>5, <1>6, <1>7, <1>8, <1>9 DEF Next

\* Without AI cleanup, a language change made at any time (before a recording, while
\* it starts or while it runs) leaves the recording that the window shows to the
\* language that it shows, and the microphone open for that recording alone:
\* select_language() ends the recording, and the restart waits for its last word.
THEOREM RawRecordedAsShown ==
  ASSUME MaxCancels = 0, MaxSettings = 0
  PROVE  Spec => []RawRecordsAsShown
<1>1. Undisturbed
  BY DEF Undisturbed
<1>2. Init => EndedInv /\ RawAgrees
  BY LanguageInit DEF RawAgrees
<1>3. TypeOK /\ LifecycleInv /\ EndedInv /\ [Next]_vars => EndedInv'
  BY EndedStep
<1>4. TypeOK /\ LifecycleInv /\ EndedInv /\ PromiseInv /\ (Plain => MicInv) /\ RawAgrees
        /\ [Next]_vars => RawAgrees'
  BY LanguageStep
<1>5. RawAgrees /\ (ctl.cleanup = "Off" => MicrophoneMatchesMode) => RawRecordsAsShown
  BY DEF RawAgrees, RawRecordsAsShown, RecordingLanguage, LanguageInv, Agrees, RunAgrees
<1>6. Spec => [](TypeOK /\ WordsInv /\ PromiseInv)
  BY <1>1, PromiseInvariant
<1>7. Spec => [](Plain => MicInv)
  BY <1>1, MicAlways
<1>8. Spec => [](ctl.cleanup = "Off" => MicrophoneMatchesMode)
  BY <1>1, RawMicrophoneFollowsMode
<1> QED
  BY <1>2, <1>3, <1>4, <1>5, <1>6, <1>7, <1>8, Lifecycle, PTL DEF Spec

-----------------------------------------------------------------------------
(***************************************************************************)
(* The controller never waits for something that cannot come any more.     *)
(* Each of its waiting modes waits for one message, which is in one of the *)
(* two queues of the speech worker, unless that worker has failed or ended *)
(* and the reader thread is about to say so.  The wait for the cleanup     *)
(* rests on a flag instead: while neither rewriteReady nor unavailable is  *)
(* up, the cleanup worker has something to report.                         *)
(*                                                                         *)
(* The settings stay as they were at the start: a speech worker that could *)
(* not be started and is started by a later device change comes without a  *)
(* cleanup worker, and a device change that replaces a failed worker finds *)
(* a restart that is still pending and starts it in the process that ends: *)
(* in both the model checker finds the program that waits for ever.        *)
(***************************************************************************)

Patient == {"Starting", "StartingRecording", "Cancelling", "Finalizing"}

HasType(q, t) == \E i \in DOMAIN q : q[i].type = t
HasFor(q, t, k) == \E i \in DOMAIN q : q[i].type = t /\ q[i].session = k

\* What the controller waits for in a mode, in session k, is in the commands cs, in
\* the events es, or is what a worker in state st is going to write.
Comes(mode, k, cs, es, st) ==
  \/ HasType(es, "error")
  \/ mode = "Starting" /\ (st = "Loading" \/ HasType(es, "ready"))
  \/ /\ mode = "StartingRecording"
     /\ HasFor(cs, "start", k) \/ HasFor(es, "recording_started", k)
  \/ /\ mode = "Cancelling"
     /\ HasType(cs, "cancel") \/ HasType(es, "recording_cancelled")
  \/ /\ mode = "Finalizing"
     /\ HasFor(cs, "stop", k) \/ HasFor(es, "recording_finalized", k)

\* The event that ends the wait.
Answers(m, mode, k) ==
  \/ m.type = "error"
  \/ mode = "Starting" /\ m.type = "ready"
  \/ mode = "StartingRecording" /\ m.type = "recording_started" /\ m.session = k
  \/ mode = "Cancelling" /\ m.type = "recording_cancelled"
  \/ mode = "Finalizing" /\ m.type = "recording_finalized" /\ m.session = k

\* The reader thread is going to report the end of its process.
Exits(w) == reader[w] = "reporting" \/ (reader[w] = "reading" /\ proc[w] = "exited")

AsrAnswers ==
  \/ Exits("asr")
  \/ /\ reader["asr"] = "reading"
     /\ Comes(ctl.mode, ctl.session, stdin["asr"], stdout["asr"], asr.state)

\* A request is out, or the transcript waits for the model to load.
CleanupWaits(s) ==
  \/ s.active # NoRequest
  \/ s.raw # {} /\ s.cleanup = "Ai" /\ ~s.rewriteReady /\ ~s.unavailable

Launching == ui.op \in {"launch_asr", "launch_rewrite"}
Quitting == ui.op \in {"quit_asr", "quit_rewrite"}

\* The calls of a program whose settings are left alone.
CallsInv == ui.op = "none" \/ Launching \/ Quitting

\* A reader thread reads for an object that runs; a process that has ended has no
\* commands.
ReadingInv ==
  /\ \A w \in Workers : reader[w] = "reading" => running[w]
  /\ proc["asr"] # "alive" => stdin["asr"] = <<>>

\* A request is for a transcript that holds words.
RequestInv == ctl.raw \subseteq ctl.segments /\ (ctl.active # NoRequest => ctl.raw # {})

\* Before the first call returns there is no recording.
LaunchInv ==
  Launching =>
    /\ ctl.mode \in {"Starting", "Ready", "Error"} /\ ctl.active = NoRequest
    /\ stdin["asr"] = <<>> /\ asr.state # "Recording"
    /\ \A i \in DOMAIN stdout["asr"] : stdout["asr"][i].type \in {"ready", "error"}
    /\ ui.op = "launch_asr" =>
         reader["asr"] = "none" /\ reader["rewrite"] = "none" /\ ctl.mode = "Starting"

WaitInv ==
  ctl.mode \in Patient /\ ui.op # "launch_asr" =>
    AsrAnswers \/ (ctl.mode = "Finalizing" /\ CleanupWaits(ctl))

\* The cleanup worker has said whether it can be used, or is going to; it was never
\* started only where the speech worker was not either.
CleanupInv ==
  ctl.cleanup = "Ai" /\ ~Launching =>
    \/ ctl.rewriteReady \/ ctl.unavailable
    \/ Exits("rewrite")
    \/ /\ reader["rewrite"] = "reading"
       /\ \/ ~loaded
          \/ HasType(stdout["rewrite"], "ready")
          \/ \E i \in DOMAIN stdout["rewrite"] :
               stdout["rewrite"][i].type = "error" /\ stdout["rewrite"][i].code \in FatalCodes
    \/ /\ ctl.mode = "Error" /\ ctl.active = NoRequest
       /\ reader["asr"] = "none" /\ reader["rewrite"] = "none"

StrandInv ==
  /\ CallsInv
  /\ ~Quitting => ReadingInv /\ RequestInv /\ LaunchInv /\ WaitInv /\ CleanupInv

---------------------------------------------------------------------------
(* The two queues.                                                         *)

\* Reading an event: it ends the wait, or what is waited for is still to come.
LEMMA ComesPop ==
  ASSUME NEW es \in Seq(AsrEvent), es # <<>>, NEW mode, NEW k, NEW cs, NEW st,
         Comes(mode, k, cs, es, st)
  PROVE  Answers(Head(es), mode, k) \/ Comes(mode, k, cs, Tail(es), st)
<1> DEFINE q == Tail(es)
<1>1. \A i \in DOMAIN es : es[i] = Head(es) \/ \E j \in DOMAIN q : q[j] = es[i]
  <2> SUFFICES ASSUME NEW i \in DOMAIN es PROVE es[i] = Head(es) \/ \E j \in DOMAIN q : q[j] = es[i]
    OBVIOUS
  <2>1. i # 1 => i - 1 \in DOMAIN q /\ q[i - 1] = es[i]
    OBVIOUS
  <2> QED
    BY <2>1
<1> HIDE DEF q
<1>2. \A t : HasType(es, t) => Head(es).type = t \/ HasType(q, t)
  BY <1>1 DEF HasType
<1>3. \A t : HasFor(es, t, k) => (Head(es).type = t /\ Head(es).session = k) \/ HasFor(q, t, k)
  BY <1>1 DEF HasFor
<1> QED
  BY <1>2, <1>3 DEF Comes, Answers, q

\* Further events keep what is to come.
LEMMA ComesMore ==
  ASSUME NEW es \in Seq(AsrEvent), NEW more \in Seq(AsrEvent),
         NEW mode, NEW k, NEW cs, NEW st
  PROVE  Comes(mode, k, cs, es, st) => Comes(mode, k, cs, es \o more, st)
<1> DEFINE q == es \o more
<1>1. \A i \in DOMAIN es : i \in DOMAIN q /\ q[i] = es[i]
  OBVIOUS
<1> HIDE DEF q
<1>2. /\ \A t : HasType(es, t) => HasType(q, t)
      /\ \A t : HasFor(es, t, k) => HasFor(q, t, k)
  BY <1>1 DEF HasType, HasFor
<1> QED
  BY <1>2 DEF Comes, q

\* The last of the events that were added has been written.
LEMMA HasLast ==
  ASSUME NEW es \in Seq(AsrEvent), NEW more \in Seq(AsrEvent), NEW e \in AsrEvent
  PROVE  LET q == es \o (more \o <<e>>)
         IN HasType(q, e.type) /\ HasFor(q, e.type, e.session)
<1> DEFINE q == es \o (more \o <<e>>)
           n == Len(es) + Len(more) + 1
<1>1. n \in DOMAIN q /\ q[n] = e
  OBVIOUS
<1> HIDE DEF q, n
<1> QED
  BY <1>1 DEF HasType, HasFor, q

\* Reading a command: it is the one that is waited for, or that is still to come.
LEMMA ComesRead ==
  ASSUME NEW cs \in Seq(AsrCommand), cs # <<>>, NEW mode, NEW k, NEW es, NEW st,
         Comes(mode, k, cs, es, st)
  PROVE  \/ Comes(mode, k, Tail(cs), es, st)
         \/ mode = "StartingRecording" /\ Head(cs).type = "start" /\ Head(cs).session = k
         \/ mode = "Cancelling" /\ Head(cs).type = "cancel"
         \/ mode = "Finalizing" /\ Head(cs).type = "stop" /\ Head(cs).session = k
<1> DEFINE q == Tail(cs)
<1>1. \A i \in DOMAIN cs : cs[i] = Head(cs) \/ \E j \in DOMAIN q : q[j] = cs[i]
  <2> SUFFICES ASSUME NEW i \in DOMAIN cs PROVE cs[i] = Head(cs) \/ \E j \in DOMAIN q : q[j] = cs[i]
    OBVIOUS
  <2>1. i # 1 => i - 1 \in DOMAIN q /\ q[i - 1] = cs[i]
    OBVIOUS
  <2> QED
    BY <2>1
<1> HIDE DEF q
<1>2. \A t : HasType(cs, t) => Head(cs).type = t \/ HasType(q, t)
  BY <1>1 DEF HasType
<1>3. \A t : HasFor(cs, t, k) => (Head(cs).type = t /\ Head(cs).session = k) \/ HasFor(q, t, k)
  BY <1>1 DEF HasFor
<1> QED
  BY <1>2, <1>3 DEF Comes, q

\* Outside Loading the state of the worker plays no part.
LEMMA ComesState ==
  ASSUME NEW mode, NEW k, NEW cs, NEW es, NEW st, st # "Loading", NEW other
  PROVE  Comes(mode, k, cs, es, st) => Comes(mode, k, cs, es, other)
BY DEF Comes

---------------------------------------------------------------------------
(* The speech worker.                                                      *)

\* The event that reports that a command was carried out.
Reports(c, e) ==
  \/ c.type = "start" /\ e.type = "recording_started" /\ e.session = c.session
  \/ c.type = "stop" /\ e.type = "recording_finalized" /\ e.session = c.session
  \/ c.type = "cancel" /\ e.type = "recording_cancelled"

\* Whatever the speech worker does, what the controller waits for is to come.
LEMMA AsrMainWaits ==
  ASSUME TypeOK, AsrMainThread, UNCHANGED ctl, AsrAnswers
  PROVE  AsrAnswers'
<1> DEFINE mode == ctl.mode
           k == ctl.session
           cs == stdin["asr"]
           es == stdout["asr"]
           st == asr.state
<1>1. /\ cs \in Seq(AsrCommand) /\ es \in Seq(AsrEvent)
      /\ asr.session \in Nat /\ asr.state \in AsrStates
      /\ proc["asr"] = "alive" /\ UNCHANGED reader
      /\ proc \in [Workers -> {"none", "alive", "exited"}]
  BY AsrQueues
  DEF TypeOK, PipesTypeOK, AsrTypeOK, AsrMemory, AsrMainThread, AsrLoadModel, AsrLoadFails,
      AsrStart, AsrStartFails, AsrRejects, AsrStop,
      AsrStopFails, AsrCancel, AsrQuit, Matches, ReadCommand, Exit, EmitAsr, AsrAlive
<1>2. CASE reader["asr"] = "reporting"
  BY <1>1, <1>2 DEF AsrAnswers, Exits
<1>3. CASE reader["asr"] = "reading" /\ Exit("asr")
  BY <1>1, <1>3 DEF Exit, AsrAnswers, Exits, Workers
<1>4. CASE reader["asr"] = "reading" /\ Comes(mode, k, cs, es, st) /\ ~Exit("asr")
  <2>1. SUFFICES Comes(mode, k, stdin'["asr"], stdout'["asr"], asr'.state)
    BY <1>1, <1>4 DEF AsrAnswers
  <2> HIDE DEF mode, k
  <2>2. ASSUME NEW code \in ErrorCode, NEW s \in Nat, EmitAsr(<<AsrFailure(code, s)>>)
        PROVE  Comes(mode, k, stdin'["asr"], stdout'["asr"], asr'.state)
    <3> DEFINE e == AsrFailure(code, s)
    <3>1. e \in AsrEvent /\ e.type = "error" /\ stdout'["asr"] = es \o <<e>>
      BY <2>2, AsrFailuresTyped, AsrQueues DEF AsrFailure
    <3> HIDE DEF e
    <3>2. <<>> \in Seq(AsrEvent) /\ <<e>> = <<>> \o <<e>>
      BY <3>1
    <3>3. HasType(stdout'["asr"], "error")
      BY <1>1, <3>1, <3>2, HasLast
    <3> QED
      BY <3>3 DEF Comes
  <2>3. CASE AsrLoadModel
    <3> DEFINE e == AsrMessage("ready", 0, {})
    <3>1. e \in AsrEvent /\ e.type = "ready" /\ stdout'["asr"] = es \o <<e>> /\ UNCHANGED stdin
          /\ st = "Loading" /\ asr'.state = "Ready"
      BY <2>3, AsrEventsTyped, AsrQueues DEF AsrLoadModel, AsrMessage, TypeOK, AsrTypeOK, AsrMemory
    <3> HIDE DEF e
    <3>2. <<>> \in Seq(AsrEvent) /\ <<e>> = <<>> \o <<e>> /\ <<e>> \in Seq(AsrEvent)
      BY <3>1
    <3>3. HasType(stdout'["asr"], "ready")
      BY <1>1, <3>1, <3>2, HasLast
    <3>4. Comes(mode, k, cs, stdout'["asr"], st)
      BY <1>1, <1>4, <3>1, <3>2, ComesMore
    <3> QED
      BY <3>1, <3>3, <3>4 DEF Comes
  <2>4. CASE AsrStartFails \/ AsrRejects \/ AsrStopFails
    <3>1. stdin["asr"] # <<>> /\ Command.session \in Nat
      BY <2>4, AsrQueues DEF AsrStartFails, AsrRejects, AsrStopFails, Matches
    <3> QED
      BY <1>1, <2>2, <2>4, <3>1
      DEF AsrStartFails, AsrRejects, AsrStopFails, ErrorCode
  <2>5. ASSUME NEW types, ReadCommand(types), NEW more \in Seq(AsrEvent), NEW e \in AsrEvent,
               EmitAsr(more \o <<e>>),
               Reports(Command, e)
        PROVE  Comes(mode, k, stdin'["asr"], stdout'["asr"], asr'.state)
    <3> DEFINE all == more \o <<e>>
    <3>0. all \in Seq(AsrEvent) /\ EmitAsr(all)
      BY <2>5
    <3> HIDE DEF all
    <3>a. stdout'["asr"] = es \o all
      BY <3>0, AsrQueues
    <3>b. /\ cs # <<>> /\ stdin'["asr"] = Tail(cs) /\ Command = Head(cs)
      BY <2>5, AsrQueues
    <3>c. st # "Loading"
      BY <2>5 DEF ReadCommand
    <3>1. /\ cs # <<>> /\ stdin'["asr"] = Tail(cs) /\ Command = Head(cs) /\ st # "Loading"
          /\ stdout'["asr"] = es \o (more \o <<e>>) /\ (more \o <<e>>) \in Seq(AsrEvent)
      BY <3>0, <3>a, <3>b, <3>c DEF all
    <3> DEFINE q == es \o (more \o <<e>>)
    <3>2. HasType(q, e.type) /\ HasFor(q, e.type, e.session)
      BY <1>1, <2>5, HasLast
    <3>3. CASE Comes(mode, k, Tail(cs), es, st)
      <4>1. Comes(mode, k, Tail(cs), q, st)
        BY <1>1, <3>1, <3>3, ComesMore
      <4> QED
        BY <3>1, <4>1, ComesState
    <3> HIDE DEF q
    <3>4. CASE ~Comes(mode, k, Tail(cs), es, st)
      <4>1. \/ mode = "StartingRecording" /\ Head(cs).type = "start" /\ Head(cs).session = k
            \/ mode = "Cancelling" /\ Head(cs).type = "cancel"
            \/ mode = "Finalizing" /\ Head(cs).type = "stop" /\ Head(cs).session = k
        BY <1>1, <1>4, <3>1, <3>4, ComesRead
      <4>2. stdout'["asr"] = q
        BY <3>1 DEF q
      <4>3. mode = "StartingRecording" => HasFor(q, "recording_started", k)
        BY <2>5, <3>1, <3>2, <4>1 DEF Reports
      <4>4. mode = "Cancelling" => HasType(q, "recording_cancelled")
        BY <2>5, <3>1, <3>2, <4>1 DEF Reports
      <4>5. mode = "Finalizing" => HasFor(q, "recording_finalized", k)
        BY <2>5, <3>1, <3>2, <4>1 DEF Reports
      <4> QED
        BY <4>1, <4>2, <4>3, <4>4, <4>5 DEF Comes
    <3> QED
      BY <3>3, <3>4
  <2>6. CASE AsrStart
    <3> DEFINE e == AsrMessage("recording_started", Command.session, {})
    <3>1. ReadCommand({"start"}) /\ Command.session \in Nat /\ Command.type = "start"
      BY <2>6, AsrQueues DEF AsrStart
    <3>2. /\ e \in AsrEvent /\ e.type = "recording_started" /\ e.session = Command.session
          /\ EmitAsr(<<e>>)
      BY <2>6, <3>1, AsrEventsTyped DEF AsrStart, AsrMessage
    <3> HIDE DEF e
    <3>3. <<>> \in Seq(AsrEvent) /\ EmitAsr(<<>> \o <<e>>)
      BY <3>2
    <3>4. Reports(Command, e)
      BY <3>1, <3>2 DEF Reports
    <3> QED
      BY <2>5, <3>1, <3>2, <3>3, <3>4
  <2>7. CASE AsrCancel
    <3> DEFINE e == AsrMessage("recording_cancelled", asr.session, {})
    <3>1. ReadCommand({"cancel"}) /\ Command.type = "cancel"
      BY <2>7, AsrQueues DEF AsrCancel, Matches
    <3>2. e \in AsrEvent /\ e.type = "recording_cancelled" /\ EmitAsr(<<e>>)
      BY <1>1, <2>7, AsrEventsTyped DEF AsrCancel, AsrMessage
    <3> HIDE DEF e
    <3>3. <<>> \in Seq(AsrEvent) /\ EmitAsr(<<>> \o <<e>>)
      BY <3>2
    <3>4. Reports(Command, e)
      BY <3>1, <3>2 DEF Reports
    <3> QED
      BY <2>5, <3>1, <3>2, <3>3, <3>4
  <2>8. CASE AsrStop
    <3>1. /\ ReadCommand({"stop"}) /\ Command.type = "stop" /\ asr.session = Command.session
      BY <2>8, AsrQueues DEF AsrStop, Matches
    <3>2. PICK text \in {{}, {asr.session}} :
            EmitAsr((IF text = asr.transcript THEN <<>>
                     ELSE <<AsrMessage("transcript_update", asr.session, text)>>)
                    \o <<AsrMessage("recording_finalized", asr.session, text)>>)
      BY <2>8 DEF AsrStop
    <3> DEFINE e == AsrMessage("recording_finalized", asr.session, text)
               u == AsrMessage("transcript_update", asr.session, text)
               more == IF text = asr.transcript THEN <<>> ELSE <<u>>
    <3>3. text \in SUBSET Nat
      BY <1>1, <3>2
    <3>4. /\ e \in AsrEvent /\ e.type = "recording_finalized" /\ e.session = Command.session
          /\ u \in AsrEvent /\ EmitAsr(more \o <<e>>)
      BY <1>1, <3>1, <3>2, <3>3, AsrEventsTyped DEF AsrMessage
    <3> HIDE DEF e, u
    <3>5. more \in Seq(AsrEvent)
      BY <3>4
    <3>6. Reports(Command, e)
      BY <3>1, <3>4 DEF Reports
    <3> HIDE DEF more
    <3> QED
      BY <2>5, <3>1, <3>4, <3>5, <3>6
  <2> QED
    BY <1>4, <2>3, <2>4, <2>6, <2>7, <2>8 DEF AsrMainThread, AsrLoadFails, AsrQuit
<1> QED
  BY <1>1, <1>2, <1>3, <1>4 DEF AsrAnswers, Exits

\* What the feed thread writes leaves all that in its place.
LEMMA AsrFeederWaits ==
  ASSUME TypeOK, AsrFeedThread, UNCHANGED ctl, AsrAnswers
  PROVE  AsrAnswers'
<1>1. /\ stdin["asr"] \in Seq(AsrCommand) /\ stdout["asr"] \in Seq(AsrEvent)
      /\ asr.session \in Nat /\ UNCHANGED <<proc, reader, stdin>>
      /\ asr \in AsrMemory
  BY AsrQueues
  DEF TypeOK, AsrTypeOK, AsrFeedThread, AsrFeed, AsrFeedFails, EmitAsr
<1>2. asr'.state = asr.state
  BY <1>1 DEF AsrFeedThread, AsrFeed, AsrFeedFails, AsrMemory
<1>3. \E more \in Seq(AsrEvent) : EmitAsr(more)
  <2>1. {asr.session} \in SUBSET Nat /\ "TRANSCRIPTION_FAILED" \in ErrorCode
    BY <1>1 DEF ErrorCode
  <2>2. /\ AsrMessage("transcript_update", asr.session, {asr.session}) \in AsrEvent
        /\ AsrFailure("TRANSCRIPTION_FAILED", asr.session) \in AsrEvent
    BY <1>1, <2>1, AsrEventsTyped, AsrFailuresTyped
  <2> DEFINE e == AsrMessage("transcript_update", asr.session, {asr.session})
             f == AsrFailure("TRANSCRIPTION_FAILED", asr.session)
  <2>3. EmitAsr(<<e>>) \/ EmitAsr(<<f>>)
    BY DEF AsrFeedThread, AsrFeed, AsrFeedFails
  <2> HIDE DEF e, f
  <2>4. <<e>> \in Seq(AsrEvent) /\ <<f>> \in Seq(AsrEvent)
    BY <2>2 DEF e, f
  <2> QED
    BY <2>3, <2>4
<1>4. PICK more \in Seq(AsrEvent) : stdout'["asr"] = stdout["asr"] \o more
  BY <1>3, AsrQueues
<1> QED
  BY <1>1, <1>2, <1>4, ComesMore DEF AsrAnswers, Exits

---------------------------------------------------------------------------
(* The handlers and calls of the controller.                               *)

\* A command that asks for what a mode waits for has been sent.
Asked(s, cs) ==
  \/ s.mode = "StartingRecording" /\ HasFor(cs, "start", s.session)
  \/ s.mode = "Cancelling" /\ HasType(cs, "cancel")
  \/ s.mode = "Finalizing" /\ HasFor(cs, "stop", s.session)

\* From s to t the controller goes on waiting for the same.
GoesOn(s, t) ==
  /\ t.mode = s.mode /\ t.session = s.session
  /\ s.mode = "Finalizing" /\ CleanupWaits(s) => CleanupWaits(t)

Backed(s) == s.raw \subseteq s.segments /\ (s.active # NoRequest => s.raw # {})

\* What no handler and no call takes away.
Serves(s, t) ==
  /\ t.cleanup = s.cleanup
  /\ Backed(s) => Backed(t)
  /\ s.rewriteReady \/ s.unavailable => t.rewriteReady \/ t.unavailable

\* A mode is left, entered together with its command or the request, or kept.
Moves(s, t) ==
  /\ Serves(s, t)
  /\ stdin'["asr"] = stdin["asr"] \/ Accepts("asr")
  /\ \/ t.mode \notin Patient
     \/ Accepts("asr") /\ Asked(t, stdin'["asr"])
     \/ t.mode = "Finalizing" /\ CleanupWaits(t)
     \/ GoesOn(s, t) /\ stdin'["asr"] = stdin["asr"]

\* The commands after a send.
LEMMA SendAsks ==
  ASSUME TypeOK, NEW s, NEW failed
  PROVE  /\ Become(s) => ctl' = s /\ stdin'["asr"] = stdin["asr"]
         /\ \A c : Send("rewrite", c, s, failed) =>
              (ctl' = s \/ ctl' = failed) /\ stdin'["asr"] = stdin["asr"]
         /\ \A c \in AsrCommand : Send("asr", c, s, failed) =>
              \/ /\ ctl' = s /\ Accepts("asr")
                 /\ HasType(stdin'["asr"], c.type) /\ HasFor(stdin'["asr"], c.type, c.session)
              \/ ctl' = failed /\ stdin'["asr"] = stdin["asr"]
<1>1. DOMAIN stdin = Workers /\ stdin["asr"] \in Seq(AsrCommand)
  BY DEF TypeOK, PipesTypeOK
<1>2. Become(s) => ctl' = s /\ stdin'["asr"] = stdin["asr"]
  BY DEF Become
<1>3. ASSUME NEW c, Send("rewrite", c, s, failed)
      PROVE  (ctl' = s \/ ctl' = failed) /\ stdin'["asr"] = stdin["asr"]
  BY <1>1, <1>3 DEF Send, Become, Workers
<1>4. ASSUME NEW c \in AsrCommand, Send("asr", c, s, failed)
      PROVE  \/ /\ ctl' = s /\ Accepts("asr")
                /\ HasType(stdin'["asr"], c.type) /\ HasFor(stdin'["asr"], c.type, c.session)
             \/ ctl' = failed /\ stdin'["asr"] = stdin["asr"]
  <2> DEFINE q == Append(stdin["asr"], c)
             n == Len(stdin["asr"]) + 1
  <2>1. \/ ctl' = s /\ Accepts("asr") /\ stdin'["asr"] = q
        \/ ctl' = failed /\ stdin'["asr"] = stdin["asr"]
    BY <1>1, <1>4 DEF Send, Become, Workers
  <2>2. n \in DOMAIN q /\ q[n] = c
    BY <1>1
  <2> HIDE DEF q, n
  <2> QED
    BY <2>1, <2>2 DEF HasType, HasFor
<1> QED
  BY <1>2, <1>3, <1>4

\* stop_for_language_change_locked() waits for the end of a recording, or leaves the
\* mode alone.
LEMMA StopAsks ==
  ASSUME TypeOK, NEW s \in Controller, StopForLanguageChange(s)
  PROVE  /\ Serves(s, ctl')
         /\ stdin'["asr"] = stdin["asr"] \/ Accepts("asr")
         /\ \/ ctl'.mode = "Error"
            \/ Accepts("asr") /\ Asked(ctl', stdin'["asr"])
            \/ s.mode # "Recording" /\ GoesOn(s, ctl') /\ stdin'["asr"] = stdin["asr"]
<1> DEFINE t == [s EXCEPT !.pending = TRUE]
           f == [t EXCEPT !.mode = "Finalizing"]
           g == SetError([f EXCEPT !.pending = FALSE])
           c == ToAsr("stop", f)
<1>1. Serves(s, t) /\ GoesOn(s, t)
  BY DEF Controller, Serves, Backed, GoesOn, CleanupWaits
<1>2. Serves(s, f) /\ f.mode = "Finalizing" /\ f.session \in Nat
  BY DEF Controller, Serves, Backed
<1>3. Serves(s, g) /\ g.mode = "Error"
  BY DEF Controller, Serves, Backed, SetError
<1>4. c \in AsrCommand /\ c.type = "stop" /\ c.session = f.session
  BY DEF Controller, ToAsr, AsrCommand
<1>5. \/ s.mode # "Recording" /\ Become(t)
      \/ s.mode = "Recording" /\ Send("asr", c, f, g)
  BY DEF StopForLanguageChange, Controller
<1> HIDE DEF t, f, g, c
<1>6. CASE s.mode # "Recording" /\ Become(t)
  BY <1>1, <1>6, SendAsks
<1>7. CASE s.mode = "Recording" /\ Send("asr", c, f, g)
  <2>1. \/ /\ ctl' = f /\ Accepts("asr") /\ HasFor(stdin'["asr"], c.type, c.session)
        \/ ctl' = g /\ stdin'["asr"] = stdin["asr"]
    BY <1>4, <1>7, SendAsks
  <2> QED
    BY <1>2, <1>3, <1>4, <2>1 DEF Asked
<1> QED
  BY <1>5, <1>6, <1>7

\* start_recording_locked() waits for the microphone.
LEMMA StartAsks ==
  ASSUME TypeOK, NEW s \in Controller, StartSession(s)
  PROVE  /\ Serves(s, ctl')
         /\ stdin'["asr"] = stdin["asr"] \/ Accepts("asr")
         /\ ctl'.mode = "Error" \/ (Accepts("asr") /\ Asked(ctl', stdin'["asr"]))
<1> DEFINE id == s.lastSession + 1
           t == [s EXCEPT !.hypothesis = {}, !.session = id, !.lastSession = id,
                          !.dictation = @ \cup {id}, !.mode = "StartingRecording"]
           g == SetError([t EXCEPT !.pending = FALSE])
           c == ToAsr("start", t)
<1>1. Serves(s, t) /\ t.mode = "StartingRecording"
  BY DEF Controller, Serves, Backed
<1>2. Serves(s, g) /\ g.mode = "Error"
  BY DEF Controller, Serves, Backed, SetError
<1>3. c \in AsrCommand /\ c.type = "start" /\ c.session = t.session
  BY DEF Controller, ToAsr, AsrCommand
<1>4. Send("asr", c, t, g)
  BY DEF StartSession
<1> HIDE DEF t, g, c
<1>5. \/ /\ ctl' = t /\ Accepts("asr") /\ HasFor(stdin'["asr"], c.type, c.session)
      \/ ctl' = g /\ stdin'["asr"] = stdin["asr"]
  BY <1>3, <1>4, SendAsks
<1> QED
  BY <1>1, <1>2, <1>3, <1>5 DEF Asked

\* dispatch_final_cleanup_locked(): the request is out, or the dictation complete.
LEMMA DispatchWaits ==
  ASSUME TypeOK, NEW s \in Controller, DispatchFinalCleanup(s)
  PROVE  /\ Serves(s, ctl') /\ stdin'["asr"] = stdin["asr"]
         /\ ctl'.mode = "Complete" \/ GoesOn(s, ctl')
         /\ s.active = NoRequest /\ s.rewriteReady /\ s.cleanup = "Ai" /\ s.raw # {} =>
              ctl'.mode = "Complete" \/ CleanupWaits(ctl')
<1> DEFINE id == s.lastRequest + 1
           t == [s EXCEPT !.lastRequest = id, !.active = id]
           dead == [ClearActiveRewrite(t) EXCEPT
                      !.unavailable = @ \/ ~running["rewrite"],
                      !.rewriteReady = @ /\ running["rewrite"]]
           g == CompleteWithRawFallback(dead)
           c == [type |-> "rewrite", request |-> id, text |-> s.raw]
<1>1. s.raw # {} => Serves(s, t) /\ GoesOn(s, t) /\ CleanupWaits(t)
  BY DEF Controller, Serves, Backed, GoesOn, CleanupWaits, NoRequest
<1>2. s.raw # {} => Serves(s, g) /\ g.mode = "Complete"
  <2>1. running["rewrite"] \in BOOLEAN
    BY DEF TypeOK, PipesTypeOK, Workers
  <2> QED
    BY <2>1 DEF Controller, Serves, Backed, CompleteWithRawFallback, ClearActiveRewrite, NoRequest
<1>3. Serves(s, s) /\ GoesOn(s, s)
  BY DEF Serves, GoesOn
<1>4. \/ s.raw # {} /\ Send("rewrite", c, t, g)
      \/ /\ Become(s)
         /\ ~(s.active = NoRequest /\ s.rewriteReady /\ s.cleanup = "Ai" /\ s.raw # {})
  BY DEF DispatchFinalCleanup
<1> HIDE DEF t, g, c
<1>5. CASE s.raw # {} /\ Send("rewrite", c, t, g)
  BY <1>1, <1>2, <1>5, SendAsks
<1>6. CASE /\ Become(s)
           /\ ~(s.active = NoRequest /\ s.rewriteReady /\ s.cleanup = "Ai" /\ s.raw # {})
  BY <1>3, <1>6, SendAsks
<1> QED
  BY <1>4, <1>5, <1>6

\* finish_dictation_locked(): complete, or waiting for the cleanup.
LEMMA FinishWaits ==
  ASSUME TypeOK, NEW s \in Controller, s.raw # {}, FinishDictation(s)
  PROVE  /\ Serves(s, ctl') /\ stdin'["asr"] = stdin["asr"]
         /\ \/ ctl'.mode = "Complete"
            \/ ctl'.mode = s.mode /\ ctl'.session = s.session /\ CleanupWaits(ctl')
<1> DEFINE t == ClearActiveRewrite(s)
           ai == [t EXCEPT !.confirm = TRUE]
           off == [t EXCEPT !.rewritten = t.raw, !.live = t.raw,
                            !.confirm = FALSE, !.mode = "Complete"]
           g == CompleteWithRawFallback(ai)
           Waits(u) == u.cleanup = "Ai" /\ ~u.unavailable /\ ~u.rewriteReady
           Asks(u) == u.cleanup = "Ai" /\ u.rewriteReady /\ u.active = NoRequest
<1>1. Serves(s, off) /\ off.mode = "Complete"
  BY DEF Controller, Serves, Backed, ClearActiveRewrite, NoRequest
<1>2. /\ Serves(s, ai) /\ ai.mode = s.mode /\ ai.session = s.session
      /\ ai \in Controller /\ ai.raw # {} /\ ai.active = NoRequest
  BY DEF Controller, Serves, Backed, ClearActiveRewrite, NoRequest
<1>3. Serves(s, g) /\ g.mode = "Complete"
  BY DEF Controller, Serves, Backed, ClearActiveRewrite, CompleteWithRawFallback, NoRequest
<1>4. \/ Become(g)
      \/ Asks(ai) /\ DispatchFinalCleanup(ai)
      \/ Waits(ai) /\ Become(ai)
      \/ Become(off)
  <2>1. /\ s.cleanup \in CleanupModes /\ s.unavailable \in BOOLEAN
        /\ t.cleanup = s.cleanup /\ t.unavailable = s.unavailable /\ t.rewriteReady = s.rewriteReady
        /\ ai.cleanup = s.cleanup /\ ai.unavailable = s.unavailable
        /\ ai.rewriteReady = s.rewriteReady
    BY DEF Controller, ClearActiveRewrite
  <2> HIDE DEF t
  <2>2. \/ t.cleanup = "Ai" /\ t.unavailable /\ Become(g)
        \/ t.cleanup = "Ai" /\ ~t.unavailable /\ t.rewriteReady /\ DispatchFinalCleanup(ai)
        \/ t.cleanup = "Ai" /\ ~t.unavailable /\ ~t.rewriteReady /\ Become(ai)
        \/ t.cleanup = "Off" /\ Become(off)
    BY <2>1 DEF FinishDictation, t, CleanupModes
  <2> HIDE DEF ai, off, g
  <2> QED
    BY <1>2, <2>1, <2>2
<1> HIDE DEF t, ai, off, g
<1>5. CASE Become(g)
  BY <1>3, <1>5, SendAsks
<1>6. CASE Become(off)
  BY <1>1, <1>6, SendAsks
<1>7. CASE Waits(ai) /\ Become(ai)
  BY <1>2, <1>7, SendAsks DEF CleanupWaits
<1>8. CASE Asks(ai) /\ DispatchFinalCleanup(ai)
  <2>1. /\ Serves(ai, ctl') /\ stdin'["asr"] = stdin["asr"]
        /\ ctl'.mode = "Complete" \/ (GoesOn(ai, ctl') /\ CleanupWaits(ctl'))
    BY <1>2, <1>8, DispatchWaits
  <2> QED
    BY <1>2, <2>1 DEF Serves, GoesOn
<1> QED
  BY <1>4, <1>5, <1>6, <1>7, <1>8

\* handle_asr_message(): the answer ends the wait, anything else lets it go on.
LEMMA AsrHandlerWaits ==
  ASSUME TypeOK, NEW m \in AsrEvent, HandleAsrMessage(m)
  PROVE  /\ Moves(ctl, ctl')
         /\ GoesOn(ctl, ctl') /\ Answers(m, ctl.mode, ctl.session) =>
              \/ ctl'.mode \notin Patient
              \/ Accepts("asr") /\ Asked(ctl', stdin'["asr"])
              \/ ctl'.mode = "Finalizing" /\ CleanupWaits(ctl')
<1> DEFINE WaitEnds == \/ ctl'.mode \notin Patient
                       \/ Accepts("asr") /\ Asked(ctl', stdin'["asr"])
                       \/ ctl'.mode = "Finalizing" /\ CleanupWaits(ctl')
           Same == stdin'["asr"] = stdin["asr"]
<1> SUFFICES /\ Serves(ctl, ctl') /\ (Same \/ Accepts("asr"))
             /\ WaitEnds \/ (GoesOn(ctl, ctl') /\ Same /\ ~Answers(m, ctl.mode, ctl.session))
  BY DEF Moves
<1>1. ctl \in Controller /\ m.text \in SUBSET Nat /\ m.session \in Nat
  BY DEF TypeOK, ControllerTypeOK, AsrEvent
<1>2. Serves(ctl, ctl) /\ GoesOn(ctl, ctl)
  BY DEF Serves, GoesOn
<1>3. CASE AsrReady(m)
  <2> DEFINE s == [ctl EXCEPT !.asrReady = TRUE]
             u == UpdateReadyState(s)
  <2>1. ctl' = u /\ Same /\ m.type = "ready"
    BY <1>3, SendAsks DEF AsrReady
  <2>2. /\ Serves(ctl, u)
        /\ u.mode = "Ready" \/ (ctl.mode # "Starting" /\ GoesOn(ctl, u))
    BY <1>1 DEF Controller, Serves, Backed, GoesOn, CleanupWaits, UpdateReadyState
  <2> HIDE DEF s, u
  <2> QED
    BY <2>1, <2>2 DEF Patient, Answers
<1>4. CASE RecordingStarted(m)
  <2> DEFINE s == [ctl EXCEPT !.mode = "Recording"]
  <2>1. s \in Controller /\ s.mode = "Recording" /\ Serves(ctl, s)
    BY <1>1 DEF Controller, Modes, Serves, Backed
  <2>2. \/ m.session # ctl.session /\ Become(ctl)
        \/ StopForLanguageChange(s)
        \/ Become(s)
    BY <1>1, <1>4 DEF RecordingStarted, Controller
  <2> HIDE DEF s
  <2>3. CASE m.session # ctl.session /\ Become(ctl)
    BY <1>2, <1>4, <2>3, SendAsks DEF Answers, RecordingStarted
  <2>4. CASE StopForLanguageChange(s)
    <3>1. /\ Serves(s, ctl') /\ (Same \/ Accepts("asr"))
          /\ ctl'.mode = "Error" \/ (Accepts("asr") /\ Asked(ctl', stdin'["asr"]))
      BY <2>1, <2>4, StopAsks
    <3> QED
      BY <2>1, <3>1 DEF Serves, Patient
  <2>5. CASE Become(s)
    BY <2>1, <2>5, SendAsks DEF Patient
  <2> QED
    BY <2>2, <2>3, <2>4, <2>5
<1>5. CASE TranscriptUpdate(m)
  <2> DEFINE s == [ctl EXCEPT !.hypothesis = m.text]
  <2>1. Serves(ctl, RefreshTranscript(s)) /\ GoesOn(ctl, RefreshTranscript(s))
    BY <1>1 DEF Controller, RefreshTranscript, Serves, Backed, GoesOn, CleanupWaits
  <2>2. ctl' \in {ctl, RefreshTranscript(s)} /\ Same /\ m.type = "transcript_update"
    BY <1>5, SendAsks DEF TranscriptUpdate, Become
  <2> HIDE DEF s
  <2> QED
    BY <1>2, <2>1, <2>2 DEF Answers
<1>6. CASE RecordingFinalized(m)
  <2> DEFINE t == [ctl EXCEPT !.segments = @ \cup m.text, !.hypothesis = {}]
             s == RefreshTranscript([t EXCEPT !.raw = RawText(t)])
             p == [s EXCEPT !.pending = FALSE]
             e == [ClearActiveRewrite(s) EXCEPT !.mode = "Complete"]
  <2>1. /\ s \in Controller /\ p \in Controller /\ e.mode = "Complete"
        /\ s.mode = ctl.mode /\ s.session = ctl.session
    BY <1>1 DEF Controller, RefreshTranscript, RawText, ClearActiveRewrite
  <2>2. Serves(ctl, s) /\ Serves(s, p) /\ Serves(s, e)
    BY <1>1
    DEF Controller, RefreshTranscript, RawText, ClearActiveRewrite, Serves, Backed, NoRequest
  <2>3. \/ m.session # ctl.session /\ Become(ctl)
        \/ StartSession(p)
        \/ Become(e)
        \/ s.raw # {} /\ FinishDictation(s)
    BY <1>1, <1>6, <2>1 DEF RecordingFinalized, Controller
  <2>4. m.type = "recording_finalized"
    BY <1>6 DEF RecordingFinalized
  <2> HIDE DEF t, s, p, e
  <2>5. CASE m.session # ctl.session /\ Become(ctl)
    BY <1>2, <2>4, <2>5, SendAsks DEF Answers
  <2>6. CASE StartSession(p)
    <3>1. /\ Serves(p, ctl') /\ (Same \/ Accepts("asr"))
          /\ ctl'.mode = "Error" \/ (Accepts("asr") /\ Asked(ctl', stdin'["asr"]))
      BY <2>1, <2>6, StartAsks
    <3> QED
      BY <2>2, <3>1 DEF Serves, Patient
  <2>7. CASE Become(e)
    <3>1. ctl' = e /\ Same
      BY <2>7, SendAsks
    <3> QED
      BY <2>1, <2>2, <3>1 DEF Serves, Patient
  <2>8. CASE s.raw # {} /\ FinishDictation(s)
    <3>1. /\ Serves(s, ctl') /\ Same
          /\ \/ ctl'.mode = "Complete"
             \/ ctl'.mode = s.mode /\ ctl'.session = s.session /\ CleanupWaits(ctl')
      BY <2>1, <2>8, FinishWaits
    <3> QED
      BY <2>1, <2>2, <2>4, <3>1 DEF Serves, GoesOn, Answers, Patient
  <2> QED
    BY <2>3, <2>5, <2>6, <2>7, <2>8
<1>7. CASE RecordingCancelled(m)
  <2> DEFINE s == [ClearTexts(ctl) EXCEPT !.mode = "Ready", !.pending = FALSE,
                                          !.session = NoSession, !.dictation = {}]
  <2>1. s.mode = "Ready" /\ Serves(ctl, s)
    BY <1>1
    DEF Controller, ClearTexts, ClearActiveRewrite, ResetTranscript, Serves, Backed, NoRequest
  <2>2. ctl' = s /\ Same
    BY <1>7, SendAsks DEF RecordingCancelled
  <2> HIDE DEF s
  <2> QED
    BY <2>1, <2>2 DEF Patient
<1>8. CASE AsrError(m)
  <2> DEFINE s == [ctl EXCEPT !.mode = "Ready", !.session = NoSession]
  <2>1. /\ s.mode = "Ready" /\ Serves(ctl, s)
        /\ SetError(ctl).mode = "Error" /\ Serves(ctl, SetError(ctl))
    BY <1>1 DEF Controller, SetError, Serves, Backed
  <2>2. ctl' \in {s, SetError(ctl)} /\ Same
    BY <1>8, SendAsks DEF AsrError, Become
  <2> HIDE DEF s
  <2> QED
    BY <2>1, <2>2 DEF Patient
<1> QED
  BY <1>3, <1>4, <1>5, <1>6, <1>7, <1>8 DEF HandleAsrMessage

\* handle_rewrite_message() completes a dictation, or leaves the mode and the wait; the
\* message that the model is loaded, and the one that it never will be, are kept.
LEMMA RewriteHandlerWaits ==
  ASSUME TypeOK, Backed(ctl), NEW m \in RewriteEvent, HandleRewriteMessage(m)
  PROVE  /\ Serves(ctl, ctl') /\ stdin'["asr"] = stdin["asr"]
         /\ ctl'.mode \notin Patient \/ GoesOn(ctl, ctl')
         /\ /\ ctl.cleanup = "Ai"
            /\ m.type = "ready" \/ (m.type = "error" /\ m.code \in FatalCodes)
            => ctl'.rewriteReady \/ ctl'.unavailable
<1> DEFINE Same == stdin'["asr"] = stdin["asr"]
           Says == m.type = "ready" \/ (m.type = "error" /\ m.code \in FatalCodes)
           Knows(u) == u.rewriteReady \/ u.unavailable
<1>1. ctl \in Controller
  BY DEF TypeOK, ControllerTypeOK
<1>2. Serves(ctl, ctl) /\ GoesOn(ctl, ctl)
  BY DEF Serves, GoesOn
<1>3. CASE ctl.cleanup # "Ai"
  BY <1>2, <1>3, SendAsks DEF HandleRewriteMessage
<1>4. CASE ctl.cleanup = "Ai" /\ RewriteReady(m)
  <2> DEFINE s == [ctl EXCEPT !.unavailable = FALSE, !.rewriteReady = TRUE]
  <2>1. /\ s \in Controller /\ Serves(ctl, s) /\ s.rewriteReady /\ s.cleanup = "Ai"
        /\ s.mode = ctl.mode /\ s.session = ctl.session /\ s.raw = ctl.raw
        /\ s.active = ctl.active
    BY <1>1, <1>4 DEF Controller, Serves, Backed
  <2>2. \/ s.raw # {} /\ s.active = NoRequest /\ DispatchFinalCleanup(s)
        \/ Become(s) /\ ~(s.mode = "Finalizing" /\ s.raw # {} /\ s.active = NoRequest)
    BY <1>4 DEF RewriteReady
  <2> HIDE DEF s
  <2>3. CASE s.raw # {} /\ s.active = NoRequest /\ DispatchFinalCleanup(s)
    <3>1. /\ Serves(s, ctl') /\ Same
          /\ ctl'.mode = "Complete" \/ (GoesOn(s, ctl') /\ CleanupWaits(ctl'))
      BY <2>1, <2>3, DispatchWaits
    <3> QED
      BY <2>1, <3>1 DEF Serves, GoesOn, Patient
  <2>4. CASE Become(s) /\ ~(s.mode = "Finalizing" /\ s.raw # {} /\ s.active = NoRequest)
    <3>1. ctl' = s /\ Same
      BY <2>4, SendAsks
    <3>2. s.mode = "Finalizing" => s.active # NoRequest \/ s.raw = {}
      BY <2>4
    <3>3. GoesOn(ctl, s)
      BY <2>1, <3>2 DEF GoesOn, CleanupWaits
    <3> QED
      BY <2>1, <3>1, <3>3
  <2> QED
    BY <2>2, <2>3, <2>4
<1>5. CASE ctl.cleanup = "Ai" /\ RewriteCompleted(m)
  <2> DEFINE s == ClearActiveRewrite(ctl)
             d == [s EXCEPT !.rewritten = m.text, !.live = m.text,
                            !.confirm = TRUE, !.mode = "Complete"]
             g == CompleteWithRawFallback(s)
  <2>1. /\ Serves(ctl, d) /\ d.mode = "Complete"
        /\ Serves(ctl, g) /\ g.mode = "Complete"
    BY <1>1
    DEF Controller, ClearActiveRewrite, CompleteWithRawFallback, Serves, Backed, NoRequest
  <2>2. ctl' \in {ctl, d, g} /\ Same /\ m.type = "rewrite_completed"
    BY <1>5, SendAsks DEF RewriteCompleted, Become
  <2> HIDE DEF s, d, g
  <2> QED
    BY <1>2, <2>1, <2>2 DEF Patient
<1>6. CASE ctl.cleanup = "Ai" /\ RewriteError(m)
  <2> DEFINE fatal == m.code \in FatalCodes
             s == [ClearActiveRewrite(ctl) EXCEPT
                     !.unavailable = @ \/ fatal, !.rewriteReady = @ /\ ~fatal]
             g == CompleteWithRawFallback(s)
  <2>1. /\ Serves(ctl, s) /\ s.mode = ctl.mode /\ s.session = ctl.session /\ s.raw = ctl.raw
        /\ Serves(ctl, g) /\ g.mode = "Complete" /\ (fatal => Knows(s) /\ Knows(g))
    BY <1>1
    DEF Controller, ClearActiveRewrite, CompleteWithRawFallback, Serves, Backed, NoRequest
  <2>2. \/ ctl' = g /\ Same
        \/ ctl' = s /\ Same /\ ~(s.mode = "Finalizing" /\ s.raw # {})
    BY <1>6, SendAsks DEF RewriteError, Become
  <2>3. m.type = "error"
    BY <1>6 DEF RewriteError
  <2> HIDE DEF fatal, s, g
  <2>4. CASE ctl' = s /\ Same /\ ~(s.mode = "Finalizing" /\ s.raw # {})
    <3>1. GoesOn(ctl, s)
      BY <2>1, <2>4 DEF GoesOn, CleanupWaits, Backed
    <3> QED
      BY <2>1, <2>3, <2>4, <3>1 DEF fatal
  <2>5. CASE ctl' = g /\ Same
    BY <2>1, <2>3, <2>5 DEF Patient, fatal
  <2> QED
    BY <2>2, <2>4, <2>5
<1> QED
  BY <1>3, <1>4, <1>5, <1>6 DEF HandleRewriteMessage

\* toggle_recording() sends what the next mode waits for, or fails.
LEMMA ToggleWaits ==
  ASSUME TypeOK, ToggleRecording
  PROVE  Moves(ctl, ctl') /\ (ctl.mode = "Error" => ctl' = ctl)
<1>1. ctl \in Controller
  BY DEF TypeOK, ControllerTypeOK
<1>2. CASE ctl.mode \in {"Ready", "Complete"}
  <2> DEFINE s == [ClearTexts(ctl) EXCEPT !.dictation = {}, !.pending = FALSE]
  <2>1. s \in Controller /\ Serves(ctl, s)
    BY <1>1
    DEF Controller, ClearTexts, ClearActiveRewrite, ResetTranscript, Serves, Backed, NoRequest
  <2>2. StartSession(s)
    BY <1>2 DEF ToggleRecording, StartDictation
  <2> HIDE DEF s
  <2>3. /\ Serves(s, ctl') /\ (stdin'["asr"] = stdin["asr"] \/ Accepts("asr"))
        /\ ctl'.mode = "Error" \/ (Accepts("asr") /\ Asked(ctl', stdin'["asr"]))
    BY <2>1, <2>2, StartAsks
  <2> QED
    BY <1>2, <2>1, <2>3 DEF Moves, Serves, Patient
<1>3. CASE ctl.mode = "Recording"
  <2> DEFINE f == [ctl EXCEPT !.mode = "Finalizing"]
             c == ToAsr("stop", f)
  <2>1. /\ Serves(ctl, f) /\ f.mode = "Finalizing"
        /\ Serves(ctl, SetError(f)) /\ SetError(f).mode = "Error"
    BY <1>1 DEF Controller, SetError, Serves, Backed
  <2>2. c \in AsrCommand /\ c.type = "stop" /\ c.session = f.session
    BY <1>1 DEF Controller, ToAsr, AsrCommand
  <2>3. Send("asr", c, f, SetError(f))
    BY <1>3 DEF ToggleRecording
  <2> HIDE DEF f, c
  <2>4. \/ /\ ctl' = f /\ Accepts("asr") /\ HasFor(stdin'["asr"], c.type, c.session)
        \/ ctl' = SetError(f) /\ stdin'["asr"] = stdin["asr"]
    BY <2>2, <2>3, SendAsks
  <2> QED
    BY <1>3, <2>1, <2>2, <2>4 DEF Moves, Asked, Patient
<1>4. CASE ctl.mode \notin {"Ready", "Complete", "Recording"}
  <2>1. ctl' = ctl /\ stdin'["asr"] = stdin["asr"]
    BY <1>4, SendAsks DEF ToggleRecording
  <2> QED
    BY <2>1 DEF Moves, Serves, GoesOn
<1> QED
  BY <1>2, <1>3, <1>4

\* cancel_recording() asks the speech worker, or fails, or discards a result.
LEMMA CancelWaits ==
  ASSUME TypeOK, CancelRecording
  PROVE  Moves(ctl, ctl') /\ (ctl.mode = "Error" => ctl' = ctl)
<1>1. ctl \in Controller
  BY DEF TypeOK, ControllerTypeOK
<1>2. CASE ctl.mode = "Complete" /\ ctl.confirm
  <2> DEFINE s == [ClearTexts(ctl) EXCEPT !.mode = "Ready", !.session = NoSession,
                                          !.dictation = {}]
  <2>1. s.mode = "Ready" /\ Serves(ctl, s)
    BY <1>1
    DEF Controller, ClearTexts, ClearActiveRewrite, ResetTranscript, Serves, Backed, NoRequest
  <2>2. ctl' = s /\ stdin'["asr"] = stdin["asr"]
    BY <1>2, SendAsks DEF CancelRecording
  <2> HIDE DEF s
  <2> QED
    BY <1>2, <2>1, <2>2 DEF Moves, Patient
<1>3. CASE ctl.mode \in {"Recording", "StartingRecording"}
  <2> DEFINE f == [ctl EXCEPT !.mode = "Cancelling"]
             c == ToAsr("cancel", f)
  <2>1. /\ Serves(ctl, f) /\ f.mode = "Cancelling"
        /\ Serves(ctl, SetError(f)) /\ SetError(f).mode = "Error"
    BY <1>1 DEF Controller, SetError, Serves, Backed
  <2>2. c \in AsrCommand /\ c.type = "cancel"
    BY <1>1 DEF Controller, ToAsr, AsrCommand
  <2>3. Send("asr", c, f, SetError(f))
    BY <1>3 DEF CancelRecording
  <2> HIDE DEF f, c
  <2>4. \/ /\ ctl' = f /\ Accepts("asr") /\ HasType(stdin'["asr"], c.type)
        \/ ctl' = SetError(f) /\ stdin'["asr"] = stdin["asr"]
    BY <2>2, <2>3, SendAsks
  <2> QED
    BY <1>3, <2>1, <2>2, <2>4 DEF Moves, Asked, Patient
<1>4. CASE ~(ctl.mode = "Complete" /\ ctl.confirm)
           /\ ctl.mode \notin {"Recording", "StartingRecording"}
  <2>1. ctl' = ctl /\ stdin'["asr"] = stdin["asr"]
    BY <1>4, SendAsks DEF CancelRecording
  <2> QED
    BY <2>1 DEF Moves, Serves, GoesOn
<1> QED
  BY <1>2, <1>3, <1>4

\* set_language() stops a recording, or keeps the mode.
LEMMA LanguageWaits ==
  ASSUME TypeOK, NEW l \in Language, SetLanguage(l)
  PROVE  Moves(ctl, ctl') /\ (ctl.mode = "Error" => ctl'.mode = "Error" /\ ctl'.active = ctl.active)
<1> DEFINE s == [ctl EXCEPT !.language = l]
<1>1. /\ s \in Controller /\ Serves(ctl, s) /\ GoesOn(ctl, s)
      /\ s.mode = ctl.mode /\ s.session = ctl.session /\ s.active = ctl.active
  BY DEF TypeOK, ControllerTypeOK, Controller, Serves, Backed, GoesOn, CleanupWaits
<1>2. \/ ctl.mode \in {"Recording", "StartingRecording"} /\ StopForLanguageChange(s)
      \/ ctl.mode \notin {"Recording", "StartingRecording"} /\ Become(s)
  BY <1>1 DEF SetLanguage
<1> HIDE DEF s
<1>3. CASE ctl.mode \notin {"Recording", "StartingRecording"} /\ Become(s)
  BY <1>1, <1>3, SendAsks DEF Moves
<1>4. CASE ctl.mode \in {"Recording", "StartingRecording"} /\ StopForLanguageChange(s)
  <2>1. /\ Serves(s, ctl') /\ (stdin'["asr"] = stdin["asr"] \/ Accepts("asr"))
        /\ \/ ctl'.mode = "Error"
           \/ Accepts("asr") /\ Asked(ctl', stdin'["asr"])
           \/ GoesOn(s, ctl') /\ stdin'["asr"] = stdin["asr"]
    BY <1>1, <1>4, StopAsks
  <2>2. Serves(ctl, ctl') /\ (GoesOn(s, ctl') => GoesOn(ctl, ctl'))
    BY <1>1, <1>4, <2>1 DEF Serves, GoesOn
  <2> QED
    BY <1>4, <2>1, <2>2 DEF Moves, Patient
<1> QED
  BY <1>2, <1>3, <1>4

\* tick() completes the dictation.
LEMMA TickWaits ==
  ASSUME TypeOK, Tick
  PROVE  Moves(ctl, ctl')
<1> DEFINE s == CompleteWithRawFallback(ClearActiveRewrite(ctl))
<1>1. s.mode = "Complete" /\ Serves(ctl, s)
  BY DEF TypeOK, ControllerTypeOK, Controller, CompleteWithRawFallback, ClearActiveRewrite,
         Serves, Backed, NoRequest
<1>2. ctl' = s /\ stdin'["asr"] = stdin["asr"]
  BY SendAsks DEF Tick
<1> HIDE DEF s
<1> QED
  BY <1>1, <1>2 DEF Moves, Patient

---------------------------------------------------------------------------
(* The steps of the system.                                                *)

\* A worker that takes commands has a reader thread.
LEMMA AcceptsRead ==
  ASSUME LifecycleInv, Accepts("asr")
  PROVE  reader["asr"] = "reading" /\ proc["asr"] = "alive"
BY DEF Accepts, LifecycleInv, WorkersInv, Workers

\* After a move of the controller it waits for something that comes, if what it waited
\* for, when it goes on, is still to come.
LEMMA MovedWaits ==
  ASSUME LifecycleInv, WaitInv, ui.op # "launch_asr", Moves(ctl, ctl'),
         Accepts("asr") => reader'["asr"] = "reading",
         \/ ctl'.mode \notin Patient
         \/ Accepts("asr") /\ Asked(ctl', stdin'["asr"])
         \/ ctl'.mode = "Finalizing" /\ CleanupWaits(ctl')
         \/ GoesOn(ctl, ctl') /\ (AsrAnswers => AsrAnswers')
  PROVE  WaitInv'
<1>1. CASE Accepts("asr") /\ Asked(ctl', stdin'["asr"])
  BY <1>1, AcceptsRead DEF Asked, WaitInv, AsrAnswers, Comes
<1>2. CASE GoesOn(ctl, ctl') /\ (AsrAnswers => AsrAnswers')
  BY <1>2 DEF GoesOn, WaitInv
<1> QED
  BY <1>1, <1>2 DEF WaitInv

\* A call of the UI thread that touches no process.
LEMMA CallStrand ==
  ASSUME TypeOK, LifecycleInv, StrandInv, ui.op = "none", ui'.op = "none" \/ Quitting',
         UNCHANGED <<proc, running, stdout, reader, asr, loaded>>, Moves(ctl, ctl'),
         ctl.mode = "Error" /\ ctl.active = NoRequest =>
           ctl'.mode = "Error" /\ ctl'.active = NoRequest
  PROVE  StrandInv'
<1>1. ~Launching /\ ~Quitting
  BY DEF Launching, Quitting
<1>2. ReadingInv /\ RequestInv /\ WaitInv /\ CleanupInv
  BY <1>1 DEF StrandInv
<1>3. CASE Quitting'
  BY <1>3 DEF StrandInv, CallsInv
<1>4. CASE ui'.op = "none"
  <2>1. CallsInv' /\ LaunchInv'
    BY <1>4 DEF CallsInv, LaunchInv, Launching
  <2>2. ReadingInv'
    BY <1>2 DEF ReadingInv, Moves, Accepts
  <2>3. RequestInv'
    BY <1>2 DEF RequestInv, Moves, Serves, Backed
  <2>4. WaitInv'
    <3>1. GoesOn(ctl, ctl') /\ stdin'["asr"] = stdin["asr"] => (AsrAnswers => AsrAnswers')
      BY DEF GoesOn, AsrAnswers, Exits
    <3> QED
      BY <1>2, <3>1, MovedWaits, AcceptsRead DEF Moves
  <2>5. CleanupInv'
    BY <1>1, <1>2, <1>4 DEF CleanupInv, Moves, Serves, Exits, Launching
  <2> QED
    BY <2>1, <2>2, <2>3, <2>4, <2>5 DEF StrandInv
<1> QED
  BY <1>3, <1>4

\* Nothing but the window has changed.
LEMMA StillMoves == ctl' = ctl /\ stdin'["asr"] = stdin["asr"] => Moves(ctl, ctl')
BY DEF Moves, Serves, GoesOn

\* The user, who leaves the settings alone.
LEMMA StrandUser ==
  ASSUME TypeOK, LifecycleInv, StrandInv, UserStep, UNCHANGED workerVars,
         ~Spend("settings", MaxSettings)
  PROVE  StrandInv'
<1>1. ui.op = "none" /\ ui \in [pc : UiPlaces, op : Operations] /\ UNCHANGED <<asr, loaded>>
  BY DEF UserStep, HotkeyInsert, HotkeyStart, HotkeyStop, HotkeyCancel, SelectLanguage,
         CloseWindow, Idle, LifecycleInv, PlacesInv, TypeOK, ControllerTypeOK, workerVars
<1>2. CASE HotkeyInsert \/ HotkeyStart \/ HotkeyStop \/ HotkeyCancel \/ CloseWindow
  <2>1. UNCHANGED <<pipes, ctl>> /\ (ui'.op = "none" \/ ui'.op = "quit_asr")
    BY <1>1, <1>2 DEF HotkeyInsert, HotkeyStart, HotkeyStop, HotkeyCancel, CloseWindow, Quit, Call
  <2>2. UNCHANGED <<proc, running, stdout, reader, stdin>>
    BY <2>1 DEF pipes
  <2> QED
    BY <1>1, <2>1, <2>2, StillMoves, CallStrand DEF Quitting
<1>3. CASE \E l \in Language : SelectLanguage(l)
  <2>1. PICK l \in Language : SelectLanguage(l)
    BY <1>3
  <2>2. SetLanguage(l) /\ UNCHANGED <<proc, running, stdout, reader, ui>>
    BY <2>1 DEF SelectLanguage
  <2> QED
    BY <1>1, <2>2, LanguageWaits, CallStrand
<1> QED
  BY <1>2, <1>3 DEF UserStep

\* The calls of the UI thread.
LEMMA StrandUi ==
  ASSUME TypeOK, LifecycleInv, StrandInv, ~Quitting, UiStep, UNCHANGED workerVars
  PROVE  StrandInv'
<1>1. /\ ui.op = "none" \/ Launching
      /\ ui \in [pc : UiPlaces, op : Operations] /\ UNCHANGED <<asr, loaded>>
      /\ ctl \in Controller
  BY DEF StrandInv, CallsInv, TypeOK, ControllerTypeOK, workerVars
<1>2. ui.pc \in {"idle", "toggle", "cancel", "spawn"}
  BY <1>1 DEF LifecycleInv, PlacesInv, Launching
<1>3. CASE UiToggle
  <2>1. /\ ui.op = "none" /\ ui'.op = "none" /\ ToggleRecording
        /\ UNCHANGED <<proc, running, stdout, reader>>
    BY <1>3 DEF UiToggle, UiIdle, LifecycleInv, PlacesInv
  <2> QED
    BY <1>1, <2>1, ToggleWaits, CallStrand
<1>4. CASE UiCancel
  <2>1. /\ ui.op = "none" /\ ui'.op = "none" /\ CancelRecording
        /\ UNCHANGED <<proc, running, stdout, reader>>
    BY <1>4 DEF UiCancel, UiIdle, LifecycleInv, PlacesInv
  <2> QED
    BY <1>1, <2>1, CancelWaits, CallStrand
<1>5. CASE HostSpawnFails
  <2>1. /\ ui.pc = "spawn" /\ Launching /\ ui'.op = "none" /\ UNCHANGED pipes
        /\ \/ ui.op = "launch_asr" /\ ctl' = SetError(ctl)
           \/ /\ ui.op = "launch_rewrite"
              /\ ctl' = [ctl EXCEPT !.unavailable = TRUE, !.rewriteReady = FALSE]
    BY <1>1, <1>5
    DEF HostSpawnFails, UiSpawnFails, UiIdle, OpWorker, Launching, LifecycleInv, PlacesInv
  <2>2. UNCHANGED <<proc, running, stdin, stdout, reader>>
    BY <2>1 DEF pipes
  <2>3. ReadingInv /\ RequestInv /\ WaitInv /\ LaunchInv
    BY DEF StrandInv
  <2>4. CallsInv' /\ ReadingInv' /\ LaunchInv'
    BY <2>1, <2>2, <2>3 DEF CallsInv, ReadingInv, LaunchInv, Launching
  <2>5. CASE ui.op = "launch_asr"
    <3>1. ctl'.mode = "Error" /\ ctl'.active = NoRequest
          /\ ctl'.raw = ctl.raw /\ ctl'.segments = ctl.segments
          /\ reader["asr"] = "none" /\ reader["rewrite"] = "none"
      BY <1>1, <2>1, <2>3, <2>5 DEF LaunchInv, SetError, Controller
    <3>2. RequestInv' /\ WaitInv' /\ CleanupInv'
      BY <2>2, <2>3, <3>1 DEF RequestInv, WaitInv, Patient, CleanupInv
    <3> QED
      BY <2>4, <3>2 DEF StrandInv
  <2>6. CASE ui.op = "launch_rewrite"
    <3>1. /\ ctl'.mode = ctl.mode /\ ctl'.session = ctl.session /\ ctl'.active = ctl.active
          /\ ctl'.raw = ctl.raw /\ ctl'.segments = ctl.segments /\ ctl'.unavailable
          /\ ctl.mode # "Finalizing"
      BY <1>1, <2>1, <2>3, <2>6 DEF LaunchInv, Controller
    <3>2. AsrAnswers => AsrAnswers'
      BY <1>1, <2>2, <3>1 DEF AsrAnswers, Exits
    <3>3. RequestInv' /\ WaitInv' /\ CleanupInv'
      BY <2>3, <2>6, <3>1, <3>2 DEF RequestInv, WaitInv, CleanupInv
    <3> QED
      BY <2>4, <3>3 DEF StrandInv
  <2> QED
    BY <2>1, <2>5, <2>6
<1> QED
  BY <1>2, <1>3, <1>4, <1>5
  DEF UiStep, UiSendShutdown, UiCheckRunning, UiCloseInput, UiTerminate, UiJoin

\* The main loop.
LEMMA StrandLoop ==
  ASSUME TypeOK, LifecycleInv, StrandInv, LoopStep, UNCHANGED workerVars
  PROVE  StrandInv'
<1>1. /\ ui.op = "none" /\ UNCHANGED <<asr, loaded, ui>>
      /\ UNCHANGED <<proc, running, stdout, reader>>
  BY DEF LoopStep, HostTick, HostPoll, Idle, LifecycleInv, PlacesInv, workerVars, pipes
<1>2. CASE HostTick
  BY <1>1, <1>2, TickWaits, CallStrand DEF HostTick, Tick
<1>3. CASE HostPoll
  <2>1. ctl' = ctl /\ stdin' = stdin
    BY <1>3 DEF HostPoll, pipes
  <2> QED
    BY <1>1, <2>1, StillMoves, CallStrand
<1> QED
  BY <1>2, <1>3 DEF LoopStep

\* A worker is started, at the launch.
LEMMA StrandSpawn ==
  ASSUME TypeOK, LifecycleInv, StrandInv, ~Quitting, SpawnStep
  PROVE  StrandInv'
<1>1. /\ ui.pc = "spawn" /\ Launching /\ ctl' = ctl
      /\ ui \in [pc : UiPlaces, op : Operations]
      /\ proc \in [Workers -> {"none", "alive", "exited"}]
      /\ running \in [Workers -> BOOLEAN]
      /\ reader \in [Workers -> {"none", "reading", "reporting", "done"}]
      /\ DOMAIN stdin = Workers /\ DOMAIN stdout = Workers
  BY DEF SpawnStep, HostSpawn, UiSpawn, TypeOK, PipesTypeOK, ControllerTypeOK, StrandInv,
         CallsInv, LifecycleInv, PlacesInv
<1>2. ReadingInv /\ RequestInv /\ LaunchInv /\ WaitInv
  BY DEF StrandInv
<1>3. RequestInv'
  BY <1>1, <1>2 DEF RequestInv
<1>4. CASE ui.op = "launch_asr"
  <2>1. /\ running' = [running EXCEPT !["asr"] = TRUE]
        /\ reader' = [reader EXCEPT !["asr"] = "reading"]
        /\ proc' = [proc EXCEPT !["asr"] = "alive"]
        /\ stdin' = [stdin EXCEPT !["asr"] = <<>>] /\ stdout' = [stdout EXCEPT !["asr"] = <<>>]
        /\ asr' = FreshAsr(DefaultLanguage)
        /\ ui' = IF ctl.cleanup = "Ai" THEN [ui EXCEPT !.op = "launch_rewrite"] ELSE UiIdle
    BY <1>4 DEF SpawnStep, HostSpawn, UiSpawn, Spawn, OpWorker
  <2>2. asr'.state = "Loading" /\ reader'["asr"] = "reading" /\ ctl.mode = "Starting"
    BY <1>1, <1>2, <1>4, <2>1 DEF FreshAsr, LaunchInv, Workers
  <2>3. CallsInv' /\ ReadingInv'
    BY <1>1, <1>2, <2>1 DEF CallsInv, ReadingInv, Launching, UiIdle, Workers
  <2>4. WaitInv'
    BY <1>1, <2>2 DEF WaitInv, AsrAnswers, Comes
  <2>5. LaunchInv'
    <3>1. DOMAIN stdout'["asr"] = {} /\ stdin'["asr"] = <<>>
      BY <1>1, <2>1 DEF Workers
    <3>2. ui'.op # "launch_asr"
      BY <1>1, <2>1 DEF UiIdle
    <3> QED
      BY <1>1, <1>2, <2>2, <3>1, <3>2 DEF LaunchInv
  <2>6. CleanupInv'
    BY <1>1, <2>1 DEF CleanupInv, Launching, UiIdle
  <2> QED
    BY <1>3, <2>3, <2>4, <2>5, <2>6 DEF StrandInv
<1>5. CASE ui.op = "launch_rewrite"
  <2>1. /\ running' = [running EXCEPT !["rewrite"] = TRUE]
        /\ reader' = [reader EXCEPT !["rewrite"] = "reading"]
        /\ proc' = [proc EXCEPT !["rewrite"] = "alive"]
        /\ stdin' = [stdin EXCEPT !["rewrite"] = <<>>]
        /\ stdout' = [stdout EXCEPT !["rewrite"] = <<>>]
        /\ asr' = asr /\ ui' = UiIdle /\ loaded' = FALSE
    BY <1>5 DEF SpawnStep, HostSpawn, UiSpawn, Spawn, OpWorker
  <2>2. CallsInv' /\ LaunchInv' /\ ui'.op = "none"
    BY <2>1 DEF CallsInv, LaunchInv, Launching, UiIdle
  <2>3. ReadingInv'
    BY <1>1, <1>2, <2>1 DEF ReadingInv, Workers
  <2>4. WaitInv'
    BY <1>1, <1>2, <1>5, <2>1 DEF WaitInv, AsrAnswers, Exits, Workers
  <2>5. CleanupInv'
    BY <1>1, <2>1 DEF CleanupInv, Workers
  <2> QED
    BY <1>3, <2>2, <2>3, <2>4, <2>5 DEF StrandInv
<1> QED
  BY <1>1, <1>4, <1>5 DEF Launching

\* The reader thread of the speech worker.
LEMMA StrandAsrReader ==
  ASSUME TypeOK, LifecycleInv, StrandInv, ~Quitting, AsrReader, UNCHANGED workerVars
  PROVE  StrandInv'
<1>1. /\ UNCHANGED <<ui, proc, asr, loaded>> /\ ctl \in Controller
      /\ running \in [Workers -> BOOLEAN]
      /\ reader \in [Workers -> {"none", "reading", "reporting", "done"}]
      /\ stdout["asr"] \in Seq(AsrEvent) /\ DOMAIN stdout = Workers
  BY DEF AsrReader, AsrReaderLine, NextLine, AsrReaderReport, LastReport, ReaderEnds, ReaderEof,
         workerVars, TypeOK, PipesTypeOK, ControllerTypeOK
<1>2. /\ CallsInv /\ ReadingInv /\ RequestInv /\ LaunchInv /\ WaitInv /\ CleanupInv
      /\ CallsInv'
  BY <1>1 DEF StrandInv, CallsInv, Launching, Quitting
<1>3. reader["asr"] # "none" /\ ui.op # "launch_asr"
  BY <1>2
  DEF AsrReader, AsrReaderLine, NextLine, AsrReaderReport, LastReport, ReaderEnds, ReaderEof,
      LaunchInv, Launching
<1>4. ASSUME NEW m \in AsrEvent, HandleAsrMessage(m),
             UNCHANGED running, Accepts("asr") => reader'["asr"] = "reading",
             stdout'["rewrite"] = stdout["rewrite"], reader'["rewrite"] = reader["rewrite"],
             \A w \in Workers : reader'[w] = "reading" => reader[w] = "reading",
             Launching => m.type \in {"ready", "error"},
             \A i \in DOMAIN stdout'["asr"] : \E j \in DOMAIN stdout["asr"] :
               stdout'["asr"][i] = stdout["asr"][j],
             AsrAnswers => AsrAnswers' \/ Answers(m, ctl.mode, ctl.session)
                                       \/ stdin'["asr"] # stdin["asr"] \/ ~GoesOn(ctl, ctl')
      PROVE  StrandInv'
  <2>1. Moves(ctl, ctl')
    BY <1>4, AsrHandlerWaits
  <2>2. ReadingInv'
    BY <1>1, <1>2, <1>4, <2>1 DEF ReadingInv, Moves, Accepts
  <2>3. RequestInv'
    BY <1>2, <2>1 DEF RequestInv, Moves, Serves, Backed
  <2>4. WaitInv'
    <3>1. \/ ctl'.mode \notin Patient
          \/ Accepts("asr") /\ Asked(ctl', stdin'["asr"])
          \/ ctl'.mode = "Finalizing" /\ CleanupWaits(ctl')
          \/ GoesOn(ctl, ctl') /\ (AsrAnswers => AsrAnswers')
      BY <1>4, <2>1, AsrHandlerWaits DEF Moves
    <3> QED
      BY <1>2, <1>3, <1>4, <2>1, <3>1, MovedWaits
  <2>5. CleanupInv'
    BY <1>1, <1>2, <1>3, <1>4, <2>1 DEF CleanupInv, Moves, Serves, Exits, Launching
  <2>6. LaunchInv'
    <3> SUFFICES ASSUME Launching PROVE LaunchInv'
      BY <1>1 DEF LaunchInv, Launching
    <3>1. CASE m.type = "ready"
      <4>1. ctl' \in {[ctl EXCEPT !.asrReady = TRUE],
                        [ctl EXCEPT !.asrReady = TRUE, !.mode = "Ready"]}
            /\ UNCHANGED stdin
        BY <1>1, <1>4, <3>1
        DEF HandleAsrMessage, AsrReady, RecordingStarted, TranscriptUpdate, RecordingFinalized,
            RecordingCancelled, AsrError, Become, UpdateReadyState, Controller
      <4> QED
        BY <1>1, <1>2, <1>3, <1>4, <4>1 DEF LaunchInv, Launching, Controller
    <3>2. CASE m.type = "error"
      <4>1. ctl' \in {[ctl EXCEPT !.mode = "Ready", !.session = NoSession], SetError(ctl)}
            /\ UNCHANGED stdin
        BY <1>1, <1>4, <3>2
        DEF HandleAsrMessage, AsrReady, RecordingStarted, TranscriptUpdate, RecordingFinalized,
            RecordingCancelled, AsrError, Become
      <4> QED
        BY <1>1, <1>2, <1>3, <1>4, <4>1 DEF LaunchInv, Launching, Controller, SetError
    <3> QED
      BY <1>4, <3>1, <3>2
  <2> QED
    BY <1>2, <2>2, <2>3, <2>4, <2>5, <2>6 DEF StrandInv
<1>5. CASE AsrReaderLine
  <2> DEFINE es == stdout["asr"]
             m == Head(es)
  <2>1. /\ reader["asr"] = "reading" /\ es # <<>> /\ stdout' = [stdout EXCEPT !["asr"] = Tail(es)]
        /\ UNCHANGED <<running, reader>> /\ HandleAsrMessage(m) /\ m \in AsrEvent
    BY <1>1, <1>5 DEF AsrReaderLine, NextLine
  <2>2. stdout'["asr"] = Tail(es) /\ stdout'["rewrite"] = stdout["rewrite"]
    BY <1>1, <2>1 DEF Workers
  <2>3. /\ \A i \in DOMAIN Tail(es) : \E j \in DOMAIN es : Tail(es)[i] = es[j]
        /\ \E j \in DOMAIN es : m = es[j]
    <3>1. ASSUME NEW i \in DOMAIN Tail(es)
          PROVE  i + 1 \in DOMAIN es /\ Tail(es)[i] = es[i + 1]
      BY <1>1, <2>1
    <3>2. 1 \in DOMAIN es /\ m = es[1]
      BY <1>1, <2>1
    <3> QED
      BY <3>1, <3>2
  <2> HIDE DEF m
  <2>4. Launching => m.type \in {"ready", "error"}
    BY <1>2, <2>3 DEF LaunchInv
  <2>5. AsrAnswers => AsrAnswers' \/ Answers(m, ctl.mode, ctl.session)
                                  \/ stdin'["asr"] # stdin["asr"] \/ ~GoesOn(ctl, ctl')
    <3> SUFFICES ASSUME AsrAnswers, GoesOn(ctl, ctl'), stdin'["asr"] = stdin["asr"],
                        ~Answers(m, ctl.mode, ctl.session)
                 PROVE  AsrAnswers'
      OBVIOUS
    <3>1. Comes(ctl.mode, ctl.session, stdin["asr"], es, asr.state) =>
            Comes(ctl.mode, ctl.session, stdin["asr"], Tail(es), asr.state)
      BY <1>1, <2>1, ComesPop DEF m
    <3> QED
      BY <1>1, <2>1, <2>2, <3>1 DEF AsrAnswers, Exits, GoesOn
  <2> QED
    BY <1>4, <2>1, <2>2, <2>3, <2>4, <2>5
<1>6. CASE AsrReaderReport
  <2> DEFINE m == AsrFailure("WORKER_EXITED", NoSession)
  <2>1. /\ m \in AsrEvent /\ m.type = "error" /\ HandleAsrMessage(m)
        /\ reader["asr"] = "reporting" /\ reader' = [reader EXCEPT !["asr"] = "done"]
        /\ UNCHANGED <<running, stdout>>
    BY <1>6, AsrFailuresTyped DEF AsrReaderReport, LastReport, AsrFailure, ErrorCode, NoSession
  <2> HIDE DEF m
  <2>2. ~Accepts("asr") /\ Answers(m, ctl.mode, ctl.session)
    BY <2>1, AcceptsRead DEF Answers
  <2>3. /\ reader'["rewrite"] = reader["rewrite"]
        /\ \A w \in Workers : reader'[w] = "reading" => reader[w] = "reading"
    BY <1>1, <2>1 DEF Workers
  <2> QED
    BY <1>4, <2>1, <2>2, <2>3
<1>7. CASE ReaderEnds("asr")
  <2>1. /\ running["asr"] /\ UNCHANGED <<ctl, stdin, stdout>>
        /\ reader' = [reader EXCEPT !["asr"] = "reporting"]
        /\ running' = [running EXCEPT !["asr"] = FALSE]
    BY <1>2, <1>7 DEF ReaderEnds, ReaderEof, ReadingInv, Workers
  <2>2. ReadingInv' /\ LaunchInv'
    BY <1>1, <1>2, <1>3, <2>1 DEF ReadingInv, LaunchInv, Launching, Workers
  <2>3. WaitInv'
    BY <1>1, <2>1 DEF WaitInv, AsrAnswers, Exits, Workers
  <2>4. CleanupInv'
    BY <1>1, <1>2, <1>3, <2>1 DEF CleanupInv, Exits, Launching, Workers
  <2>5. RequestInv'
    BY <1>2, <2>1 DEF RequestInv
  <2> QED
    BY <1>2, <2>2, <2>3, <2>4, <2>5 DEF StrandInv
<1> QED
  BY <1>5, <1>6, <1>7 DEF AsrReader

\* CleanupInv, with what the cleanup worker has still to say about its model apart from
\* what the controller knows.
Announces ==
  \/ Exits("rewrite")
  \/ /\ reader["rewrite"] = "reading"
     /\ \/ ~loaded
        \/ \E i \in DOMAIN stdout["rewrite"] :
             LET m == stdout["rewrite"][i]
             IN m.type = "ready" \/ (m.type = "error" /\ m.code \in FatalCodes)

Settled ==
  \/ ctl.rewriteReady \/ ctl.unavailable
  \/ Announces
  \/ /\ ctl.mode = "Error" /\ ctl.active = NoRequest
     /\ reader["asr"] = "none" /\ reader["rewrite"] = "none"

LEMMA CleanupSays ==
  /\ CleanupInv <=> (ctl.cleanup = "Ai" /\ ~Launching => Settled)
  /\ CleanupInv' <=> (ctl'.cleanup = "Ai" /\ ~Launching' => Settled')
BY DEF CleanupInv, Settled, Announces, HasType

\* The reader thread of the cleanup worker.
LEMMA StrandRewriteReader ==
  ASSUME TypeOK, LifecycleInv, StrandInv, ~Quitting, RewriteReader, UNCHANGED workerVars
  PROVE  StrandInv'
<1>1. /\ UNCHANGED <<ui, proc, asr, loaded>> /\ ctl \in Controller
      /\ proc \in [Workers -> {"none", "alive", "exited"}]
      /\ running \in [Workers -> BOOLEAN]
      /\ reader \in [Workers -> {"none", "reading", "reporting", "done"}]
      /\ stdout["rewrite"] \in Seq(RewriteEvent) /\ DOMAIN stdout = Workers
  BY DEF RewriteReader, RewriteReaderLine, NextLine, RewriteReaderReport, LastReport, ReaderEnds,
         ReaderEof, workerVars, TypeOK, PipesTypeOK, ControllerTypeOK
<1>2. /\ CallsInv /\ ReadingInv /\ RequestInv /\ LaunchInv /\ WaitInv /\ CleanupInv
      /\ CallsInv'
  BY <1>1 DEF StrandInv, CallsInv, Launching, Quitting
<1>3. reader["rewrite"] # "none"
  BY DEF RewriteReader, RewriteReaderLine, NextLine, RewriteReaderReport, LastReport, ReaderEnds,
         ReaderEof
<1>4. ~Launching
  BY <1>1, <1>2, <1>3
  DEF LaunchInv, Launching, LifecycleInv, PlacesInv, WorkersInv, StoppedInv, OpWorker, Workers
<1>5. ASSUME NEW m \in RewriteEvent, HandleRewriteMessage(m),
             UNCHANGED running, reader'["asr"] = reader["asr"], stdout'["asr"] = stdout["asr"],
             \A w \in Workers : reader'[w] = "reading" => reader[w] = "reading",
             Announces => \/ Announces' \/ m.type = "ready"
                          \/ m.type = "error" /\ m.code \in FatalCodes
      PROVE  StrandInv'
  <2>1. Backed(ctl)
    BY <1>2 DEF RequestInv, Backed
  <2>2. /\ Serves(ctl, ctl') /\ stdin'["asr"] = stdin["asr"]
        /\ ctl'.mode \notin Patient \/ GoesOn(ctl, ctl')
    BY <1>5, <2>1, RewriteHandlerWaits
  <2>3. CallsInv' /\ LaunchInv'
    BY <1>1, <1>2, <1>4 DEF LaunchInv, Launching
  <2>4. ReadingInv'
    BY <1>1, <1>2, <1>5, <2>2 DEF ReadingInv
  <2>5. RequestInv'
    BY <2>1, <2>2 DEF RequestInv, Serves, Backed
  <2>6. WaitInv'
    <3>1. GoesOn(ctl, ctl') => (AsrAnswers => AsrAnswers')
      BY <1>1, <1>5, <2>2 DEF GoesOn, AsrAnswers, Exits
    <3>2. Moves(ctl, ctl') /\ (Accepts("asr") => reader'["asr"] = "reading")
      BY <1>5, <2>2, AcceptsRead DEF Moves
    <3>3. ui.op # "launch_asr"
      BY <1>4 DEF Launching
    <3> QED
      BY <1>2, <2>2, <3>1, <3>2, <3>3, MovedWaits
  <2>7. CleanupInv'
    <3> SUFFICES ASSUME ctl'.cleanup = "Ai"
                 PROVE  ctl'.rewriteReady \/ ctl'.unavailable \/ Announces'
      BY CleanupSays DEF Settled
    <3>1. ctl.cleanup = "Ai"
      BY <2>2 DEF Serves
    <3>2. ctl.rewriteReady \/ ctl.unavailable \/ Announces
      BY <1>2, <1>3, <1>4, <3>1, CleanupSays DEF Settled
    <3>3. m.type = "ready" \/ (m.type = "error" /\ m.code \in FatalCodes) =>
            ctl'.rewriteReady \/ ctl'.unavailable
      BY <1>5, <2>1, <3>1, RewriteHandlerWaits
    <3> QED
      BY <1>5, <2>2, <3>2, <3>3 DEF Serves
  <2> QED
    BY <2>3, <2>4, <2>5, <2>6, <2>7 DEF StrandInv
<1>6. CASE RewriteReaderLine
  <2> DEFINE es == stdout["rewrite"]
             m == Head(es)
             q == Tail(es)
  <2>1. /\ reader["rewrite"] = "reading" /\ es # <<>> /\ stdout' = [stdout EXCEPT !["rewrite"] = q]
        /\ UNCHANGED <<running, reader>> /\ HandleRewriteMessage(m) /\ m \in RewriteEvent
    BY <1>1, <1>6 DEF RewriteReaderLine, NextLine
  <2>2. stdout'["rewrite"] = q /\ stdout'["asr"] = stdout["asr"]
    BY <1>1, <2>1 DEF Workers
  <2>3. \A i \in DOMAIN es : es[i] = m \/ \E j \in DOMAIN q : q[j] = es[i]
    <3> SUFFICES ASSUME NEW i \in DOMAIN es PROVE es[i] = m \/ \E j \in DOMAIN q : q[j] = es[i]
      OBVIOUS
    <3>1. i # 1 => i - 1 \in DOMAIN q /\ q[i - 1] = es[i]
      BY <1>1, <2>1
    <3> QED
      BY <1>1, <2>1, <3>1
  <2> HIDE DEF m, q
  <2>4. Announces => \/ Announces' \/ m.type = "ready"
                     \/ m.type = "error" /\ m.code \in FatalCodes
    BY <1>1, <2>1, <2>2, <2>3 DEF Announces, Exits
  <2> QED
    BY <1>5, <2>1, <2>2, <2>4
<1>7. CASE RewriteReaderReport
  <2> DEFINE m == RewriteFailure("WORKER_EXITED", NoRequest)
  <2>1. /\ m \in RewriteEvent /\ m.type = "error" /\ m.code \in FatalCodes
        /\ HandleRewriteMessage(m)
        /\ reader' = [reader EXCEPT !["rewrite"] = "done"]
        /\ UNCHANGED <<running, stdout>>
    BY <1>7
    DEF RewriteReaderReport, LastReport, RewriteFailure, RewriteEvent, ErrorCode, NoRequest,
        FatalCodes
  <2> HIDE DEF m
  <2>2. /\ reader'["asr"] = reader["asr"]
        /\ \A w \in Workers : reader'[w] = "reading" => reader[w] = "reading"
    BY <1>1, <2>1 DEF Workers
  <2> QED
    BY <1>5, <2>1, <2>2
<1>8. CASE ReaderEnds("rewrite")
  <2>1. /\ running["rewrite"] /\ UNCHANGED <<ctl, stdin, stdout>>
        /\ reader' = [reader EXCEPT !["rewrite"] = "reporting"]
        /\ running' = [running EXCEPT !["rewrite"] = FALSE]
    BY <1>2, <1>8 DEF ReaderEnds, ReaderEof, ReadingInv, Workers
  <2>2. ReadingInv' /\ LaunchInv' /\ RequestInv'
    BY <1>1, <1>2, <1>4, <2>1 DEF ReadingInv, RequestInv, LaunchInv, Launching, Workers
  <2>3. WaitInv'
    BY <1>1, <1>2, <2>1 DEF WaitInv, AsrAnswers, Exits, Workers
  <2>4. CleanupInv'
    BY <1>1, <2>1 DEF CleanupInv, Exits, Workers
  <2> QED
    BY <1>2, <2>2, <2>3, <2>4 DEF StrandInv
<1> QED
  BY <1>6, <1>7, <1>8 DEF RewriteReader

\* A step of a worker process: the controller and the reader threads stand still.
LEMMA WorkerStrand ==
  ASSUME TypeOK, LifecycleInv, StrandInv, ~Quitting, UNCHANGED <<running, reader, ctl, ui>>,
         proc'["asr"] # "alive" => stdin'["asr"] = <<>>,
         AsrAnswers => AsrAnswers', Announces => Announces',
         Launching => LaunchInv'
  PROVE  StrandInv'
<1>1. CallsInv /\ ReadingInv /\ RequestInv /\ LaunchInv /\ WaitInv /\ CleanupInv
  BY DEF StrandInv
<1>2. CallsInv' /\ ReadingInv' /\ RequestInv'
  BY <1>1 DEF CallsInv, ReadingInv, RequestInv, Launching, Quitting
<1>3. LaunchInv'
  BY DEF LaunchInv, Launching
<1>4. WaitInv'
  BY <1>1 DEF WaitInv
<1>5. CleanupInv'
  BY <1>1, CleanupSays DEF Launching, Settled
<1> QED
  BY <1>2, <1>3, <1>4, <1>5 DEF StrandInv

\* The speech worker leaves the cleanup worker alone.
LEMMA AnnouncesSame ==
  ASSUME Announces, reader'["rewrite"] = reader["rewrite"], proc'["rewrite"] = proc["rewrite"],
         stdout'["rewrite"] = stdout["rewrite"], UNCHANGED loaded
  PROVE  Announces'
BY DEF Announces, Exits

\* At the launch the speech worker loads its model and takes no commands.
LEMMA AsrLaunches ==
  ASSUME TypeOK, LaunchInv, Launching, AsrMainThread \/ AsrFeedThread, UNCHANGED <<ctl, ui>>
  PROVE  LaunchInv'
<1>1. /\ stdin["asr"] = <<>> /\ asr.state # "Recording" /\ asr \in AsrMemory
      /\ stdout["asr"] \in Seq(AsrEvent) /\ DOMAIN stdin = Workers
  BY AsrQueues DEF LaunchInv, TypeOK, AsrTypeOK, PipesTypeOK
<1>2. AsrLoadModel \/ AsrLoadFails \/ AsrQuit
  BY <1>1
  DEF AsrMainThread, AsrFeedThread, AsrFeed, AsrFeedFails, AsrStart, AsrStartFails, AsrRejects,
      AsrStop, AsrStopFails, AsrCancel, Matches, ReadCommand
<1>3. /\ UNCHANGED reader /\ stdin'["asr"] = <<>> /\ asr'.state # "Recording"
  BY <1>1, <1>2
  DEF AsrLoadModel, AsrLoadFails, AsrQuit, Exit, EmitAsr, AsrMemory, Workers
<1>4. \A i \in DOMAIN stdout'["asr"] : stdout'["asr"][i].type \in {"ready", "error"}
  <2>1. CASE UNCHANGED stdout
    BY <2>1 DEF LaunchInv
  <2>2. ASSUME NEW e \in AsrEvent, e.type \in {"ready", "error"}, EmitAsr(<<e>>)
        PROVE  \A i \in DOMAIN stdout'["asr"] : stdout'["asr"][i].type \in {"ready", "error"}
    <3> DEFINE q == stdout["asr"] \o <<e>>
    <3>1. stdout'["asr"] = q
      BY <2>2, AsrQueues
    <3>2. \A i \in DOMAIN q : q[i] = e \/ (i \in DOMAIN stdout["asr"] /\ q[i] = stdout["asr"][i])
      BY <1>1
    <3> HIDE DEF q
    <3> QED
      BY <2>2, <3>1, <3>2 DEF LaunchInv
  <2>3. /\ AsrMessage("ready", 0, {}) \in AsrEvent
        /\ AsrFailure("MODEL_LOAD_FAILED", 0) \in AsrEvent
        /\ AsrMessage("ready", 0, {}).type = "ready"
        /\ AsrFailure("MODEL_LOAD_FAILED", 0).type = "error"
    BY AsrEventsTyped, AsrFailuresTyped DEF ErrorCode, AsrMessage, AsrFailure
  <2> QED
    BY <1>2, <2>1, <2>2, <2>3 DEF AsrLoadModel, AsrLoadFails, AsrQuit
<1> QED
  BY <1>3, <1>4 DEF LaunchInv, Launching

\* The speech worker.
LEMMA StrandAsr ==
  ASSUME TypeOK, LifecycleInv, StrandInv, ~Quitting, AsrMain \/ AsrFeeder
  PROVE  StrandInv'
<1>1. /\ AsrMainThread \/ AsrFeedThread
      /\ UNCHANGED <<ctl, ui, loaded>> /\ LaunchInv /\ ReadingInv
  BY DEF AsrMain, AsrFeeder, StrandInv
<1>2. /\ UNCHANGED <<running, reader>> /\ proc["asr"] = "alive"
      /\ proc'["rewrite"] = proc["rewrite"] /\ stdout'["rewrite"] = stdout["rewrite"]
      /\ proc'["asr"] # "alive" => stdin'["asr"] = <<>>
  <2>1. /\ proc \in [Workers -> {"none", "alive", "exited"}]
        /\ DOMAIN stdin = Workers /\ DOMAIN stdout = Workers
    BY DEF TypeOK, PipesTypeOK
  <2>2. UNCHANGED <<running, reader>> /\ proc["asr"] = "alive"
    BY <1>1
    DEF AsrMainThread, AsrLoadModel, AsrLoadFails, AsrStart, AsrStartFails, AsrRejects, AsrStop,
        AsrStopFails, AsrCancel, AsrQuit, AsrFeedThread, AsrFeed, AsrFeedFails, Matches,
        ReadCommand, EmitAsr, Exit, AsrAlive
  <2>3. UNCHANGED proc \/ Exit("asr")
    BY <1>1
    DEF AsrMainThread, AsrLoadModel, AsrLoadFails, AsrStart, AsrStartFails, AsrRejects, AsrStop,
        AsrStopFails, AsrCancel, AsrQuit, AsrFeedThread, AsrFeed, AsrFeedFails, Matches,
        ReadCommand
  <2>4. UNCHANGED stdout \/ \E events : EmitAsr(events)
    BY <1>1
    DEF AsrMainThread, AsrLoadModel, AsrLoadFails, AsrStart, AsrStartFails, AsrRejects, AsrStop,
        AsrStopFails, AsrCancel, AsrQuit, AsrFeedThread, AsrFeed, AsrFeedFails
  <2> QED
    BY <2>1, <2>2, <2>3, <2>4 DEF Exit, EmitAsr, Workers
<1>3. AsrAnswers => AsrAnswers'
  BY <1>1, AsrMainWaits, AsrFeederWaits
<1>4. Announces => Announces'
  BY <1>1, <1>2, AnnouncesSame
<1>5. Launching => LaunchInv'
  BY <1>1, AsrLaunches
<1> QED
  BY <1>1, <1>2, <1>3, <1>4, <1>5, WorkerStrand

\* The cleanup worker says that its model is loaded, or ends.
LEMMA StrandRewrite ==
  ASSUME TypeOK, LifecycleInv, StrandInv, ~Quitting, RewriteStep
  PROVE  StrandInv'
<1>1. /\ proc \in [Workers -> {"none", "alive", "exited"}]
      /\ reader \in [Workers -> {"none", "reading", "reporting", "done"}]
      /\ DOMAIN stdin = Workers /\ DOMAIN stdout = Workers
      /\ stdout["rewrite"] \in Seq(RewriteEvent) /\ stdin["rewrite"] \in Seq(RewriteCommand)
  BY DEF TypeOK, PipesTypeOK
<1>2. UNCHANGED <<running, reader, ctl, ui, asr>> /\ proc["rewrite"] = "alive"
  BY
  DEF RewriteStep, RewriteWorkerStep, RewriteLoadModel, RewriteLoadFails, RewriteAnswer,
      RewriteAnswerFails, RewriteQuit, ReadRequest, EmitRewrite, Exit, RewriteAlive
<1>3. UNCHANGED proc \/ Exit("rewrite")
  BY
  DEF RewriteStep, RewriteWorkerStep, RewriteLoadModel, RewriteLoadFails, RewriteAnswer,
      RewriteAnswerFails, RewriteQuit, ReadRequest
<1>4. stdin'["asr"] = stdin["asr"] /\ stdout'["asr"] = stdout["asr"]
      /\ proc'["asr"] = proc["asr"]
  BY <1>1
  DEF RewriteStep, RewriteWorkerStep, RewriteLoadModel, RewriteLoadFails, RewriteAnswer,
      RewriteAnswerFails, RewriteQuit, ReadRequest, EmitRewrite, Exit, Workers
<1>5. ~Launching
  <2>1. reader["rewrite"] # "none"
    BY <1>2 DEF LifecycleInv, WorkersInv, Workers
  <2> QED
    BY <1>2, <2>1
    DEF StrandInv, LaunchInv, Launching, LifecycleInv, PlacesInv, StoppedInv, OpWorker
<1>6. AsrAnswers => AsrAnswers'
  BY <1>2, <1>4 DEF AsrAnswers, Exits
<1>7. Announces => Announces'
  <2>1. CASE Exit("rewrite")
    BY <1>1, <1>2, <2>1 DEF Exit, Announces, Exits, Workers
  <2>2. CASE UNCHANGED proc
    <3>1. PICK e \in RewriteEvent :
            /\ stdout' = [stdout EXCEPT !["rewrite"] = Append(@, e)]
            /\ (loaded' = loaded \/ e.type = "ready")
      <4>1. CASE RewriteLoadModel
        <5> DEFINE e == RewriteMessage("ready", NoRequest, {})
        <5>1. e \in RewriteEvent /\ e.type = "ready"
          BY DEF RewriteMessage, RewriteEvent, NoRequest, ErrorCode
        <5>2. stdout' = [stdout EXCEPT !["rewrite"] = Append(@, e)]
          BY <4>1 DEF RewriteLoadModel, EmitRewrite
        <5> HIDE DEF e
        <5> QED
          BY <5>1, <5>2
      <4>2. CASE RewriteAnswer \/ RewriteAnswerFails
        <5>1. Head(stdin["rewrite"]) \in RewriteCommand
          BY <1>1, <4>2 DEF RewriteAnswer, RewriteAnswerFails, ReadRequest
        <5> QED
          BY <4>2, <5>1
          DEF RewriteAnswer, RewriteAnswerFails, ReadRequest, EmitRewrite, RewriteMessage,
              RewriteFailure, RewriteEvent, RewriteCommand, ErrorCode
      <4> QED
        BY <1>1, <1>2, <2>2, <4>1, <4>2
        DEF RewriteStep, RewriteWorkerStep, RewriteLoadFails, RewriteQuit, Exit, Workers
    <3> DEFINE q == Append(stdout["rewrite"], e)
    <3>2. stdout'["rewrite"] = q
      BY <1>1, <3>1 DEF Workers
    <3>3. /\ \A i \in DOMAIN stdout["rewrite"] : i \in DOMAIN q /\ q[i] = stdout["rewrite"][i]
          /\ \E i \in DOMAIN q : q[i] = e
      <4>1. Len(stdout["rewrite"]) + 1 \in DOMAIN q /\ q[Len(stdout["rewrite"]) + 1] = e
        BY <1>1
      <4> QED
        BY <1>1, <4>1
    <3> HIDE DEF q
    <3> QED
      BY <1>2, <2>2, <3>1, <3>2, <3>3 DEF Announces, Exits
  <2> QED
    BY <1>3, <2>1, <2>2
<1>8. proc'["asr"] # "alive" => stdin'["asr"] = <<>>
  BY <1>4 DEF StrandInv, ReadingInv
<1> QED
  BY <1>2, <1>5, <1>6, <1>7, <1>8, WorkerStrand

\* A worker dies.
LEMMA StrandCrash ==
  ASSUME TypeOK, LifecycleInv, StrandInv, ~Quitting, Crash
  PROVE  StrandInv'
<1>1. /\ proc \in [Workers -> {"none", "alive", "exited"}] /\ DOMAIN stdin = Workers
      /\ UNCHANGED <<running, reader, ctl, ui, stdout, asr, loaded>>
  BY DEF Crash, TypeOK, PipesTypeOK, workerVars
<1>2. PICK w \in Workers : Exit(w)
  BY DEF Crash
<1>3. /\ proc' = [proc EXCEPT ![w] = "exited"] /\ stdin' = [stdin EXCEPT ![w] = <<>>]
      /\ proc[w] = "alive"
  BY <1>2 DEF Exit
<1>4. ReadingInv /\ LaunchInv
  BY DEF StrandInv
<1>5. proc'["asr"] # "alive" => stdin'["asr"] = <<>>
  BY <1>1, <1>3, <1>4 DEF ReadingInv, Workers
<1>6. AsrAnswers => AsrAnswers'
  <2>1. CASE w = "asr"
    BY <1>1, <1>3, <2>1 DEF AsrAnswers, Exits, Workers
  <2>2. CASE w = "rewrite"
    BY <1>1, <1>3, <2>2 DEF AsrAnswers, Exits, Workers
  <2> QED
    BY <2>1, <2>2 DEF Workers
<1>7. Announces => Announces'
  BY <1>1, <1>3 DEF Announces, Exits, Workers
<1>8. Launching => LaunchInv'
  BY <1>1, <1>3, <1>4 DEF LaunchInv, Launching, Workers
<1> QED
  BY <1>1, <1>5, <1>6, <1>7, <1>8, WorkerStrand

\* Once the controller is being destroyed it waits for nothing.
LEMMA QuittingStays ==
  ASSUME TypeOK, LifecycleInv, Quitting, [Next]_vars
  PROVE  Quitting'
<1>1. /\ ui.pc \notin {"idle", "toggle", "cancel", "spawn", "check"}
      /\ ui \in [pc : UiPlaces, op : Operations]
  BY DEF Quitting, LifecycleInv, PlacesInv, TypeOK, ControllerTypeOK
<1>2. CASE UNCHANGED ui
  BY <1>2 DEF Quitting
<1>3. CASE UiSendShutdown \/ UiJoin
  BY <1>1, <1>3 DEF UiSendShutdown, UiJoin, Quitting
<1>4. CASE UiCloseInput
  BY <1>1, <1>4 DEF UiCloseInput, Quitting
<1>5. ~UserStep
  BY <1>1
  DEF UserStep, HotkeyInsert, HotkeyStart, HotkeyStop, HotkeyCancel, SelectLanguage,
      SelectCleanup, SelectAsrDevice, SelectRewriteDevice, SelectCurrentDevice, CloseWindow, Idle
<1> QED
  BY <1>1, <1>2, <1>3, <1>4, <1>5
  DEF Next, vars, UiStep, UiToggle, UiCancel, UiCheckRunning, UiTerminate, HostSpawnFails,
      UiSpawnFails, SpawnStep, HostSpawn, UiSpawn, LoopStep, HostTick, HostPoll, AsrReader,
      AsrReaderLine, AsrReaderReport, ReaderEnds, RewriteReader, RewriteReaderLine,
      RewriteReaderReport, AsrMain, AsrFeeder, RewriteStep, Crash, Terminated

\* Every step keeps the invariant.
LEMMA StrandStep ==
  ASSUME MaxSettings = 0, TypeOK, LifecycleInv, BoundsInv, StrandInv, [Next]_vars
  PROVE  StrandInv'
<1>1. CASE Quitting
  BY <1>1, QuittingStays DEF StrandInv, CallsInv
<1>2. ~Spend("settings", MaxSettings)
  BY DEF BoundsInv, Counters, Spend
<1>3. CASE ~Quitting /\ UNCHANGED vars
  BY <1>3
  DEF vars, pipes, workerVars, StrandInv, CallsInv, Quitting, Launching, ReadingInv, RequestInv,
      LaunchInv, WaitInv, AsrAnswers, Exits, CleanupInv
<1>4. CASE ~Quitting /\ UserStep /\ UNCHANGED workerVars
  BY <1>2, <1>4, StrandUser
<1>5. CASE ~Quitting /\ UiStep /\ UNCHANGED workerVars
  BY <1>5, StrandUi
<1>6. CASE ~Quitting /\ LoopStep /\ UNCHANGED workerVars
  BY <1>6, StrandLoop
<1>7. CASE ~Quitting /\ AsrReader /\ UNCHANGED workerVars
  BY <1>7, StrandAsrReader
<1>8. CASE ~Quitting /\ RewriteReader /\ UNCHANGED workerVars
  BY <1>8, StrandRewriteReader
<1>9. CASE ~Quitting /\ (SpawnStep \/ AsrMain \/ AsrFeeder \/ RewriteStep \/ Crash)
  BY <1>9, StrandSpawn, StrandAsr, StrandRewrite, StrandCrash
<1> QED
  BY <1>1, <1>3, <1>4, <1>5, <1>6, <1>7, <1>8, <1>9 DEF Next, Terminated

\* The program starts with the launch of the speech worker.
LEMMA StrandInit == Init => StrandInv
<1> SUFFICES ASSUME Init PROVE StrandInv
  OBVIOUS
<1>1. /\ ui.op = "launch_asr" /\ Launching
      /\ \A w \in Workers : ~running[w] /\ reader[w] = "none" /\ stdin[w] = <<>> /\ stdout[w] = <<>>
      /\ asr.state = "Loading"
  BY DEF Init, PipesInit, FreshAsr, Launching
<1>2. /\ ctl.mode = "Starting" /\ ctl.active = NoRequest /\ ctl.raw = {} /\ ctl.segments = {}
  BY DEF Init, ControllerInit
<1>3. DOMAIN stdout["asr"] = {}
  BY <1>1 DEF Workers
<1> QED
  BY <1>1, <1>2, <1>3
  DEF StrandInv, CallsInv, ReadingInv, RequestInv, LaunchInv, WaitInv, CleanupInv, Workers

\* What is to come has not come yet: something of it is still going to happen.
LEMMA StrandSafe ==
  ASSUME TypeOK, LifecycleInv, StrandInv
  PROVE  NeverStranded
<1> SUFFICES ASSUME ui.pc \in {"idle", "toggle", "cancel"}
             PROVE  /\ ctl.mode \in {"Starting", "StartingRecording", "Cancelling"} =>
                         AsrWillReport
                    /\ ctl.mode = "Finalizing" =>
                         AsrWillReport \/ ctl.active # NoRequest \/ CleanupWillReport
  BY DEF NeverStranded
<1>1. ui.op = "none"
  BY DEF LifecycleInv, PlacesInv
<1>2. ReadingInv /\ WaitInv /\ CleanupInv
  BY <1>1 DEF StrandInv, Quitting
<1>3. /\ proc \in [Workers -> {"none", "alive", "exited"}]
      /\ stdout["rewrite"] \in Seq(RewriteEvent)
      /\ stdin["asr"] \in Seq(AsrCommand) /\ stdout["asr"] \in Seq(AsrEvent)
  BY DEF TypeOK, PipesTypeOK
<1>4. \A w \in Workers : reader[w] = "reading" => running[w] /\ proc[w] \in {"alive", "exited"}
  BY <1>2, <1>3 DEF ReadingInv, LifecycleInv, WorkersInv
<1>5. \A w \in Workers : Exits(w) => WillReport(w)
  BY <1>4 DEF Exits, WillReport
<1>6. AsrAnswers => AsrWillReport
  <2>1. /\ \A t : HasType(stdout["asr"], t) => stdout["asr"] # <<>>
        /\ \A t, k : HasFor(stdout["asr"], t, k) => stdout["asr"] # <<>>
        /\ \A t : HasType(stdin["asr"], t) => stdin["asr"] # <<>>
        /\ \A t, k : HasFor(stdin["asr"], t, k) => stdin["asr"] # <<>>
    BY <1>3 DEF HasType, HasFor
  <2>2. reader["asr"] = "reading" /\ proc["asr"] # "alive" => WillReport("asr")
    BY <1>4 DEF WillReport, Workers
  <2> QED
    BY <1>5, <2>1, <2>2 DEF AsrAnswers, Comes, AsrWillReport, WillReport, Workers
<1>7. ctl.mode = "Finalizing" /\ CleanupWaits(ctl) => ctl.active # NoRequest \/ CleanupWillReport
  <2> SUFFICES ASSUME ctl.mode = "Finalizing", ctl.raw # {}, ctl.cleanup = "Ai",
                      ~ctl.rewriteReady, ~ctl.unavailable
               PROVE  CleanupWillReport
    BY DEF CleanupWaits
  <2>1. Exits("rewrite") \/ (reader["rewrite"] = "reading" /\ (~loaded \/ stdout["rewrite"] # <<>>))
    BY <1>1, <1>2, <1>3 DEF CleanupInv, Launching, HasType
  <2> QED
    BY <1>4, <1>5, <2>1 DEF CleanupWillReport, WillReport, Workers
<1> QED
  BY <1>1, <1>2, <1>6, <1>7 DEF WaitInv, Patient

\* The controller never waits in vain, as long as the settings are left alone: for every
\* number of presses, cancellations, language changes, failures and crashes, each waiting
\* mode of toggle_recording(), cancel_recording(), set_language() and the two message
\* handlers has its message on the way, a worker about to write it, or a reader thread
\* about to report the end of the worker; and a wait for the cleanup model has a timer, or
\* a cleanup worker with something to say.
THEOREM NeverLeftWaiting ==
  ASSUME MaxSettings = 0
  PROVE  Spec => []NeverStranded
<1>1. Init => BoundsInv
  BY DEF Init, ControllerInit, HostInit, BoundsInv, Counters
<1>2. TypeOK /\ LifecycleInv /\ BoundsInv /\ StrandInv /\ [Next]_vars =>
        BoundsInv' /\ StrandInv'
  BY BoundsStep, StrandStep
<1>3. TypeOK /\ LifecycleInv /\ StrandInv => NeverStranded
  BY StrandSafe
<1> QED
  BY <1>1, <1>2, <1>3, TypeCorrect, Lifecycle, StrandInit, PTL DEF Spec
=============================================================================
