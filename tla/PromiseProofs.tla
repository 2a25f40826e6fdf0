---------------------------- MODULE PromiseProofs ----------------------------
(***************************************************************************)
(* The voice keyboard keeps its promise: a dictation is inserted at most   *)
(* once, whole, and never after it was cancelled, for any number of        *)
(* presses, cancellations, failures and crashes.                           *)
(*                                                                         *)
(* The argument is about one recording session, the last one that was      *)
(* numbered.  Nothing of an earlier session is on its way any more, and    *)
(* once the message that closes the last one has been read nothing of that *)
(* one is either: no word can be settled late.  A dictation is complete    *)
(* only in that silence, which ends with the next dictation.               *)
(*                                                                         *)
(* Two restrictions are needed, and the model checker refutes the promise  *)
(* without them.  With AI cleanup a language change gives up words, so a   *)
(* language may change only without it; and a device change while a        *)
(* cleanup request is out can revive a dictation that was cancelled.       *)
(***************************************************************************)
EXTENDS DictationProofs

\* The instances the promise holds for.
Undisturbed == MaxSettings = 0 \/ (MaxLanguageChanges = 0 /\ MaxCancels = 0)

Plain == MaxLanguageChanges = 0 \/ ctl.cleanup = "Off"

---------------------------------------------------------------------------
(* What is on its way between the controller and the speech worker.        *)

\* The events that end a recording session, and those that belong to one.
Closes(m) ==
  \/ m.type \in {"recording_finalized", "recording_cancelled"}
  \/ m.type = "error" /\ m.code = "MICROPHONE_UNAVAILABLE"
Tells(m) == m.type \in {"recording_started", "transcript_update"} \/ Closes(m)

NoStart(cs) == \A i \in DOMAIN cs : cs[i].type # "start"
NoTidings(es) == \A i \in DOMAIN es : ~Tells(es[i])

\* With commands cs and events es queued and the worker in state a, no recording
\* session is starting, running or being reported on.
Silent(cs, es, a) == NoStart(cs) /\ NoTidings(es) /\ a.state # "Recording"

\* Session n is in one place only, its events are in order, and its words are not
\* yet among the known ones while it runs, and all known once it is reported.
StartsLast(cs, es, a, n, known) ==
  \A i \in DOMAIN cs : cs[i].type = "start" =>
    /\ cs[i].session = n /\ n \notin known
    /\ NoTidings(es) /\ a.state # "Recording"
    /\ \A j \in DOMAIN cs : cs[j].type = "start" => j = i
RunsLast(es, a, n, known) ==
  a.state = "Recording" =>
    a.session = n /\ n \notin known /\ \A i \in DOMAIN es : ~Closes(es[i])
TellsLast(es, n, known) ==
  /\ \A i \in DOMAIN es : Tells(es[i]) => es[i].session = n
  /\ \A i, j \in DOMAIN es : Closes(es[i]) /\ Tells(es[j]) => j <= i
  /\ \A i \in DOMAIN es :
       es[i].type = "recording_finalized" /\ n \in known => n \in es[i].text
Flight(cs, es, a, n, known) ==
  StartsLast(cs, es, a, n, known) /\ RunsLast(es, a, n, known) /\ TellsLast(es, n, known)

Silence == Silent(stdin["asr"], stdout["asr"], asr)

FlightInv == Flight(stdin["asr"], stdout["asr"], asr, ctl.lastSession, said)

---------------------------------------------------------------------------
(* The invariant.                                                          *)

Resting == {"Starting", "Ready", "Complete", "Error"}

\* In the modes a dictation can be started from, nothing is on its way, except
\* while the speech worker is being replaced.
ModesInv ==
  /\ ctl.mode \in {"Starting", "Ready", "Complete"} =>
       Silence \/ (ctl.mode # "Complete" /\ ui.op = "asr_device")
  /\ ctl.mode = "Complete" => ctl.active = NoRequest
  /\ ctl.session = NoSession => Silence
  /\ ctl.cleanup = "Off" => ctl.active = NoRequest
  /\ MaxSettings = 0 /\ ctl.mode \in {"Starting", "Ready"} => ctl.active = NoRequest

\* Sessions are numbered in order, and the last one is the controller's.
NumbersInv ==
  /\ ctl.dictation \subseteq 1 .. ctl.lastSession
  /\ said \subseteq 1 .. ctl.lastSession
  /\ Promise!Delivered \subseteq 1 .. ctl.lastSession
  /\ cancelled \subseteq 1 .. ctl.lastSession
  /\ ctl.session \in {NoSession, ctl.lastSession}

\* Without language changes a dictation is one session, and its final transcript
\* is there only when that session is over.
OneSessionInv ==
  MaxLanguageChanges = 0 =>
    /\ ctl.dictation \subseteq {ctl.lastSession}
    /\ ctl.raw # {} => Silence
    /\ ctl.active # NoRequest => ctl.raw # {}
    /\ MaxSettings = 0 /\ ctl.mode \in {"Starting", "Ready"} => ctl.raw = {}

\* The segments hold what earlier sessions of the dictation said, and a complete
\* dictation offers all of it.
CoverInv ==
  /\ ctl.raw \subseteq ctl.segments
  /\ ctl.confirm => ctl.raw # {}
  /\ ctl.session # NoSession =>
       \A t \in ctl.dictation : t # ctl.session /\ t \in said => t \in ctl.segments
  /\ ctl.mode = "Complete" => ctl.dictation \cap said \subseteq ctl.raw
  /\ ctl.mode = "Complete" /\ ctl.raw # {} => ctl.rewritten = ctl.raw

\* A dictation that is spent cannot become complete again before the next one is
\* started: nothing is on its way and no request is out.
Spent ==
  /\ ctl.active = NoRequest /\ Silence /\ ctl.mode \in Resting
  /\ sessionActive /\ ctl.mode = "Complete" => ui.pc = "toggle"
DeliveryInv ==
  /\ ctl.lastSession \in Promise!Delivered => Silence
  /\ ctl.dictation \cap Promise!Delivered # {} => Spent
  /\ ctl.dictation \cap cancelled # {} /\ sessionActive => Spent

KeptInv ==
  FlightInv /\ ModesInv /\ NumbersInv /\ OneSessionInv /\ CoverInv /\ DeliveryInv

\* What the bounds of an instance rule out.
Counters == {"presses", "cancels", "languages", "settings", "crashes"}
BoundsInv ==
  /\ used \in [Counters -> Nat]
  /\ MaxLanguageChanges = 0 => ~ctl.pending
  /\ MaxCancels = 0 => cancelled = {} /\ ui.pc # "cancel"
  /\ MaxSettings = 0 => ui.op # "asr_device"

PromiseInv == BoundsInv /\ (Plain => KeptInv)

---------------------------------------------------------------------------
(* Lemmas about the two queues.                                            *)

\* Reading an event keeps the order; behind an event that closes a session there
\* is silence.
LEMMA FlightPop ==
  ASSUME NEW cs, NEW es \in Seq(AsrEvent), es # <<>>, NEW a, NEW n, NEW known,
         Flight(cs, es, a, n, known)
  PROVE  /\ Flight(cs, Tail(es), a, n, known)
         /\ Silent(cs, es, a) => Silent(cs, Tail(es), a)
         /\ Closes(Head(es)) => Silent(cs, Tail(es), a)
         /\ Tells(Head(es)) => ~Silent(cs, es, a) /\ Head(es).session = n
         /\ (Head(es).type = "recording_finalized" /\ n \in known) => n \in Head(es).text
<1> DEFINE q == Tail(es)
<1>1. /\ \A i \in DOMAIN q : q[i] = es[i + 1] /\ i + 1 \in DOMAIN es /\ i \in Nat /\ i >= 1
      /\ Head(es) = es[1] /\ 1 \in DOMAIN es
  OBVIOUS
<1> HIDE DEF q
<1>2. NoTidings(es) => NoTidings(q)
  BY <1>1 DEF NoTidings
<1>3. StartsLast(cs, q, a, n, known)
  BY <1>2 DEF Flight, StartsLast
<1>4. RunsLast(q, a, n, known)
  BY <1>1 DEF Flight, RunsLast
<1>5. TellsLast(q, n, known)
  BY <1>1 DEF Flight, TellsLast
<1>6. ASSUME Closes(Head(es)) PROVE Silent(cs, q, a)
  <2>1. a.state # "Recording"
    BY <1>1, <1>6 DEF Flight, RunsLast
  <2>2. Tells(Head(es)) /\ ~NoTidings(es)
    BY <1>1, <1>6 DEF Tells, NoTidings
  <2>3. NoStart(cs)
    BY <2>2 DEF Flight, StartsLast, NoStart
  <2>4. NoTidings(q)
    BY <1>1, <1>6 DEF Flight, TellsLast, NoTidings
  <2> QED
    BY <2>1, <2>3, <2>4 DEF Silent
<1>7. Tells(Head(es)) => ~Silent(cs, es, a) /\ Head(es).session = n
  BY <1>1 DEF Silent, NoTidings, Flight, TellsLast
<1> QED
  BY <1>1, <1>2, <1>3, <1>4, <1>5, <1>6, <1>7 DEF Flight, TellsLast, Silent, q

\* A command that starts nothing changes nothing.
LEMMA FlightSent ==
  ASSUME NEW cs \in Seq(AsrCommand), NEW es, NEW a, NEW n, NEW known,
         NEW c, c.type # "start"
  PROVE  /\ Flight(cs, es, a, n, known) => Flight(Append(cs, c), es, a, n, known)
         /\ Silent(cs, es, a) => Silent(Append(cs, c), es, a)
<1> DEFINE q == Append(cs, c)
<1>1. \A i \in DOMAIN q : q[i].type = "start" => i \in DOMAIN cs /\ q[i] = cs[i]
  OBVIOUS
<1> HIDE DEF q
<1> QED
  BY <1>1 DEF Flight, StartsLast, Silent, NoStart, q

\* Silence is in order.
LEMMA FlightSilent ==
  ASSUME NEW cs, NEW es, NEW a, NEW n, NEW known, Silent(cs, es, a)
  PROVE  Flight(cs, es, a, n, known)
BY DEF Silent, NoStart, NoTidings, Flight, StartsLast, RunsLast, TellsLast, Closes, Tells

\* In silence the next session may be started.
LEMMA FlightStart ==
  ASSUME NEW cs \in Seq(AsrCommand), NEW es, NEW a, NEW n, NEW known, Silent(cs, es, a),
         n \notin known
  PROVE  /\ Flight(cs, es, a, n, known)
         /\ \A c : c.session = n => Flight(Append(cs, c), es, a, n, known)
<1>1. RunsLast(es, a, n, known) /\ TellsLast(es, n, known)
  BY DEF Silent, NoTidings, RunsLast, TellsLast, Closes, Tells
<1>2. StartsLast(cs, es, a, n, known)
  BY DEF Silent, NoStart, StartsLast
<1>3. ASSUME NEW c, c.session = n PROVE StartsLast(Append(cs, c), es, a, n, known)
  <2> DEFINE q == Append(cs, c)
  <2>1. \A i \in DOMAIN q : \/ i \in DOMAIN cs /\ q[i] = cs[i]
                            \/ i = Len(cs) + 1 /\ q[i] = c
    OBVIOUS
  <2> HIDE DEF q
  <2> QED
    BY <1>3, <2>1 DEF Silent, NoStart, StartsLast, q
<1> QED
  BY <1>1, <1>2, <1>3 DEF Flight

\* Reading a command; a command to start is the only one.
LEMMA FlightRead ==
  ASSUME NEW cs \in Seq(AsrCommand), cs # <<>>, NEW es, NEW a, NEW n, NEW known,
         Flight(cs, es, a, n, known)
  PROVE  /\ Flight(Tail(cs), es, a, n, known)
         /\ Silent(cs, es, a) => Silent(Tail(cs), es, a) /\ Head(cs).type # "start"
         /\ Head(cs).type = "start" =>
              /\ NoStart(Tail(cs)) /\ NoTidings(es) /\ a.state # "Recording"
              /\ Head(cs).session = n /\ n \notin known
<1> DEFINE q == Tail(cs)
<1>1. /\ \A i \in DOMAIN q : q[i] = cs[i + 1] /\ i + 1 \in DOMAIN cs /\ i \in Nat /\ i >= 1
      /\ Head(cs) = cs[1] /\ 1 \in DOMAIN cs
  OBVIOUS
<1> HIDE DEF q
<1>2. NoStart(cs) => NoStart(q) /\ Head(cs).type # "start"
  BY <1>1 DEF NoStart
<1>3. StartsLast(q, es, a, n, known)
  BY <1>1 DEF Flight, StartsLast
<1>4. ASSUME Head(cs).type = "start"
      PROVE  /\ NoStart(q) /\ NoTidings(es) /\ a.state # "Recording"
             /\ Head(cs).session = n /\ n \notin known
  BY <1>1, <1>4 DEF Flight, StartsLast, NoStart
<1> QED
  BY <1>2, <1>3, <1>4 DEF Flight, Silent, q

\* An event that belongs to no session may be queued at any time.
LEMMA FlightEmit ==
  ASSUME NEW cs, NEW es \in Seq(AsrEvent), NEW a, NEW n, NEW known, NEW e, ~Tells(e)
  PROVE  /\ Flight(cs, es, a, n, known) => Flight(cs, es \o <<e>>, a, n, known)
         /\ Silent(cs, es, a) => Silent(cs, es \o <<e>>, a)
<1> DEFINE q == es \o <<e>>
<1>1. \A i \in DOMAIN q : \/ i \in DOMAIN es /\ q[i] = es[i]
                          \/ i = Len(es) + 1 /\ q[i] = e
  OBVIOUS
<1>2. ~Closes(e) /\ e.type # "recording_finalized"
  BY DEF Tells, Closes
<1> HIDE DEF q
<1>3. NoTidings(es) => NoTidings(q)
  BY <1>1 DEF NoTidings
<1>4. ASSUME Flight(cs, es, a, n, known) PROVE Flight(cs, q, a, n, known)
  <2>1. StartsLast(cs, q, a, n, known)
    BY <1>3, <1>4 DEF Flight, StartsLast
  <2>2. RunsLast(q, a, n, known)
    BY <1>1, <1>2, <1>4 DEF Flight, RunsLast
  <2>3. TellsLast(q, n, known)
    BY <1>1, <1>2, <1>4 DEF Flight, TellsLast
  <2> QED
    BY <2>1, <2>2, <2>3 DEF Flight
<1> QED
  BY <1>3, <1>4 DEF Silent, q

\* A worker that records nothing may be in any such state.
LEMMA FlightRest ==
  ASSUME NEW cs, NEW es, NEW a, NEW b, b.state # "Recording", NEW n, NEW known
  PROVE  /\ Flight(cs, es, a, n, known) => Flight(cs, es, b, n, known)
         /\ Silent(cs, es, a) => Silent(cs, es, b)
BY DEF Flight, StartsLast, RunsLast, TellsLast, Silent

\* The running session tells of itself; the worker b that does so goes on recording.
LEMMA FlightTells ==
  ASSUME NEW cs, NEW es \in Seq(AsrEvent), NEW a, NEW b, NEW n, NEW known, NEW e,
         Flight(cs, es, a, n, known), a.state = "Recording",
         b.state = "Recording", b.session = n, e.session = n, ~Closes(e)
  PROVE  Flight(cs, es \o <<e>>, b, n, known)
<1> DEFINE q == es \o <<e>>
<1>1. \A i \in DOMAIN q : \/ i \in DOMAIN es /\ q[i] = es[i]
                          \/ i = Len(es) + 1 /\ q[i] = e
  OBVIOUS
<1>2. \A i \in DOMAIN q : ~Closes(q[i])
  BY <1>1 DEF Flight, RunsLast
<1>3. \A i \in DOMAIN q : Tells(q[i]) => q[i].session = n
  BY <1>1 DEF Flight, TellsLast
<1>4. \A i \in DOMAIN q : q[i].type # "recording_finalized"
  BY <1>2 DEF Closes
<1>5. NoStart(cs)
  BY DEF Flight, StartsLast, NoStart
<1> HIDE DEF q
<1> QED
  BY <1>2, <1>3, <1>4, <1>5
  DEF Flight, StartsLast, RunsLast, TellsLast, NoStart, q

\* The running session ends with the event that closes it, which says what was said.
LEMMA FlightCloses ==
  ASSUME NEW cs, NEW es \in Seq(AsrEvent), NEW a, NEW b, NEW n, NEW known, NEW text, NEW e,
         Flight(cs, es, a, n, known), a.state = "Recording",
         b.state # "Recording", e.session = n, Closes(e),
         e.type = "recording_finalized" => text \subseteq e.text,
         e.type # "recording_finalized" => text = {}
  PROVE  Flight(cs, es \o <<e>>, b, n, known \cup text)
<1> DEFINE q == es \o <<e>>
<1>1. \A i \in DOMAIN q : \/ i \in DOMAIN es /\ q[i] = es[i] /\ i <= Len(es) + 1
                          \/ i = Len(es) + 1 /\ q[i] = e
  OBVIOUS
<1>2. \A i \in DOMAIN es : ~Closes(es[i]) /\ es[i].type # "recording_finalized"
  BY DEF Flight, RunsLast, Closes
<1>3. n \notin known /\ NoStart(cs)
  BY DEF Flight, RunsLast, StartsLast, NoStart
<1> HIDE DEF q
<1>4. \A i \in DOMAIN q : Tells(q[i]) => q[i].session = n
  BY <1>1 DEF Flight, TellsLast
<1>5. \A i, j \in DOMAIN q : Closes(q[i]) /\ Tells(q[j]) => j <= i
  BY <1>1, <1>2
<1>6. \A i \in DOMAIN q :
        q[i].type = "recording_finalized" /\ n \in known \cup text => n \in q[i].text
  BY <1>1, <1>2, <1>3
<1> QED
  BY <1>3, <1>4, <1>5, <1>6 DEF Flight, StartsLast, RunsLast, TellsLast, NoStart, q

\* A worker without commands and tidings may tell of session n: one that starts it,
\* or one that could not.
LEMMA FlightAnswers ==
  ASSUME NEW cs, NEW es \in Seq(AsrEvent), NoStart(cs), NoTidings(es),
         NEW b, NEW n, NEW known, n \notin known, NEW e, e.session = n,
         e.type # "recording_finalized",
         b.state = "Recording" => b.session = n /\ ~Closes(e)
  PROVE  Flight(cs, es \o <<e>>, b, n, known)
<1> DEFINE q == es \o <<e>>
<1>1. \A i \in DOMAIN q : \/ i \in DOMAIN es /\ q[i] = es[i]
                          \/ i = Len(es) + 1 /\ q[i] = e
  OBVIOUS
<1> HIDE DEF q
<1>2. \A i \in DOMAIN q : Tells(q[i]) \/ Closes(q[i]) => q[i] = e /\ i = Len(es) + 1
  BY <1>1 DEF NoTidings, Tells
<1>3. TellsLast(q, n, known)
  <2>1. Len(es) + 1 <= Len(es) + 1
    OBVIOUS
  <2> QED
    BY <1>2, <2>1 DEF TellsLast
<1>4. StartsLast(cs, q, b, n, known) /\ RunsLast(q, b, n, known)
  BY <1>2 DEF StartsLast, NoStart, RunsLast
<1> QED
  BY <1>3, <1>4 DEF Flight, q

---------------------------------------------------------------------------
(* The kinds of steps the controller takes, and that each keeps the        *)
(* invariant once the queues do.                                           *)

SameSessions(r, s) ==
  s.session = r.session /\ s.lastSession = r.lastSession /\ s.dictation = r.dictation
SameWords(r, s) ==
  /\ s.segments = r.segments /\ s.raw = r.raw /\ s.rewritten = r.rewritten
  /\ s.confirm = r.confirm

\* No words and no session are touched; a request may be given up.
Turns(r, s) ==
  /\ SameSessions(r, s) /\ SameWords(r, s)
  /\ s.active \in {r.active, NoRequest}
  /\ s.cleanup = r.cleanup \/ s.active = NoRequest
  /\ s.mode = "Complete" => r.mode = "Complete"

\* The dictation is completed with all of its final transcript.
Completes(r, s) ==
  /\ SameSessions(r, s) /\ s.segments = r.segments /\ s.raw = r.raw
  /\ s.cleanup = r.cleanup /\ s.active = NoRequest /\ s.mode = "Complete"
  /\ s.raw # {} /\ s.rewritten = s.raw

\* A cleanup request is sent, or cannot be.
Dispatches(r, s) ==
  \/ /\ SameSessions(r, s) /\ SameWords(r, s) /\ s.mode = r.mode
     /\ s.cleanup = r.cleanup /\ r.cleanup = "Ai" /\ s.raw # {}
  \/ Completes(r, s)

\* A final transcript arrives: the dictation is complete, or waits for its cleanup.
Hears(r, s, text) ==
  /\ SameSessions(r, s) /\ s.segments = r.segments \cup text /\ s.raw = s.segments
  /\ s.cleanup = r.cleanup
  /\ s.confirm => s.raw # {} \/ r.confirm
  /\ \/ /\ s.mode = "Complete" /\ s.active = NoRequest
        /\ s.raw # {} => s.rewritten = s.raw
     \/ /\ s.mode = r.mode /\ s.raw # {}
        /\ s.active = NoRequest \/ s.cleanup = "Ai"

\* The dictation is dropped.
Drops(r, s) ==
  /\ s.session = NoSession /\ s.lastSession = r.lastSession /\ s.dictation = {}
  /\ s.segments = {} /\ s.raw = {} /\ s.rewritten = {} /\ ~s.confirm
  /\ s.active = NoRequest /\ s.mode = "Ready" /\ s.cleanup = r.cleanup

\* The microphone could not be opened.
Misses(r, s) ==
  /\ s.lastSession = r.lastSession /\ s.dictation = r.dictation /\ SameWords(r, s)
  /\ s.session = NoSession /\ s.active = r.active /\ s.mode = "Ready"
  /\ s.cleanup = r.cleanup

\* A new session is numbered, in a dictation that holds the sessions old.
Opens(r, s, old) ==
  /\ s.lastSession = r.lastSession + 1 /\ s.session = s.lastSession
  /\ s.dictation = old \cup {s.lastSession}
  /\ s.mode \in {"StartingRecording", "Error"}
  /\ s.cleanup = r.cleanup /\ s.active \in {r.active, NoRequest}

\* What a step of the controller leaves: the session ends if a dictation is cancelled.
Histories ==
  /\ UNCHANGED <<said, inserted>>
  /\ \/ UNCHANGED cancelled
     \/ ~sessionActive' /\ cancelled' = cancelled \cup ctl.dictation

\* A step that only turns the mode or gives up a request.
LEMMA TurnKept ==
  ASSUME KeptInv, Turns(ctl, ctl'), Histories, FlightInv', Silence => Silence',
         sessionActive' => sessionActive,
         ctl'.mode \in Resting \/ ctl.mode \notin Resting \/ ~Silence,
         sessionActive' /\ ctl'.mode = "Complete" /\ ui.pc = "toggle" => ui'.pc = "toggle",
         ctl'.mode \in {"Starting", "Ready"} =>
           \/ /\ ctl.mode \in {"Starting", "Ready"}
              /\ ui.op = "asr_device" => ui'.op = "asr_device" \/ Silence'
           \/ MaxSettings # 0 /\ ui'.op = "asr_device"
  PROVE  KeptInv'
<1> USE DEF Turns, SameSessions, SameWords, Histories
<1>1. ModesInv'
  BY DEF KeptInv, ModesInv
<1>2. NumbersInv'
  BY DEF KeptInv, NumbersInv, Promise!Delivered
<1>3. OneSessionInv'
  BY DEF KeptInv, OneSessionInv
<1>4. CoverInv'
  BY DEF KeptInv, CoverInv
<1>5. DeliveryInv'
  <2>1. Promise!Delivered' = Promise!Delivered
    BY DEF Promise!Delivered
  <2>2. ASSUME Spent PROVE Spent'
    BY <2>2 DEF Spent
  <2> QED
    BY <2>1, <2>2 DEF KeptInv, DeliveryInv
<1> QED
  BY <1>1, <1>2, <1>3, <1>4, <1>5 DEF KeptInv

\* A spent dictation has no request out, is in silence and in a resting mode.
LEMMA NotSpent ==
  ASSUME KeptInv, ctl.active # NoRequest \/ ~Silence \/ ctl.mode \notin Resting
  PROVE  /\ ctl.dictation \cap Promise!Delivered = {}
         /\ sessionActive => ctl.dictation \cap cancelled = {}
BY DEF KeptInv, DeliveryInv, Spent

\* A dictation is completed, outside the silence of a spent one.
LEMMA CompleteKept ==
  ASSUME KeptInv, Completes(ctl, ctl'), Histories, FlightInv', Silence', OwnText(ctl'),
         MaxLanguageChanges = 0, UNCHANGED sessionActive,
         ctl.active # NoRequest \/ ~Silence \/ ctl.mode \notin Resting
  PROVE  KeptInv'
<1> USE DEF Completes, SameSessions, Histories
<1>1. ModesInv'
  BY DEF KeptInv, ModesInv
<1>2. NumbersInv'
  BY DEF KeptInv, NumbersInv, Promise!Delivered
<1>3. OneSessionInv'
  BY DEF KeptInv, OneSessionInv
<1>4. CoverInv'
  <2>1. ctl'.raw = ctl'.dictation
    BY DEF KeptInv, OneSessionInv, OwnText
  <2> QED
    BY <2>1 DEF KeptInv, CoverInv
<1>5. DeliveryInv'
  BY NotSpent DEF Promise!Delivered, DeliveryInv
<1> QED
  BY <1>1, <1>2, <1>3, <1>4, <1>5 DEF KeptInv

\* A cleanup request is sent while the dictation is being finalized.
LEMMA DispatchKept ==
  ASSUME KeptInv, Dispatches(ctl, ctl'), Histories, FlightInv', Silence', OwnText(ctl'),
         MaxLanguageChanges = 0, UNCHANGED sessionActive,
         ctl.mode = "Finalizing"
  PROVE  KeptInv'
<1>1. CASE Completes(ctl, ctl')
  BY <1>1, CompleteKept DEF Resting
<1>2. CASE ~Completes(ctl, ctl')
  <2> USE <1>2 DEF Dispatches, SameSessions, SameWords, Histories
  <2>1. ModesInv'
    BY DEF KeptInv, ModesInv
  <2>2. NumbersInv'
    BY DEF KeptInv, NumbersInv, Promise!Delivered
  <2>3. OneSessionInv'
    BY DEF KeptInv, OneSessionInv
  <2>4. CoverInv'
    BY DEF KeptInv, CoverInv
  <2>5. DeliveryInv'
    BY NotSpent DEF Promise!Delivered, DeliveryInv, Resting
  <2> QED
    BY <2>1, <2>2, <2>3, <2>4, <2>5 DEF KeptInv
<1> QED
  BY <1>1, <1>2

\* The session of the transcript is the last one, and what was said in it is there.
LEMMA HearKept ==
  ASSUME KeptInv, BoundsInv, Plain, NEW text, Hears(ctl, ctl', text), Histories, FlightInv',
         ~Silence, Silence', OwnText(ctl'), UNCHANGED <<sessionActive, ui>>,
         ctl.session = ctl.lastSession, ctl.lastSession \in said => ctl.lastSession \in text
  PROVE  KeptInv'
<1> USE DEF Hears, SameSessions, Histories
<1>1. ModesInv'
  BY DEF KeptInv, ModesInv, BoundsInv
<1>2. NumbersInv'
  BY DEF KeptInv, NumbersInv, Promise!Delivered
<1>3. OneSessionInv'
  BY DEF KeptInv, OneSessionInv, ModesInv, BoundsInv
<1>4. CoverInv'
  <2>1. ctl'.dictation \cap said \subseteq ctl'.segments
    BY DEF KeptInv, CoverInv, ModesInv
  <2> QED
    BY <2>1 DEF KeptInv, CoverInv, ModesInv
<1>5. DeliveryInv'
  BY NotSpent DEF Promise!Delivered, DeliveryInv
<1> QED
  BY <1>1, <1>2, <1>3, <1>4, <1>5 DEF KeptInv

\* A dictation is dropped, in silence.
LEMMA DropKept ==
  ASSUME KeptInv, Drops(ctl, ctl'), Histories, FlightInv', Silence'
  PROVE  KeptInv'
<1> USE DEF Drops, Histories
<1>1. ModesInv'
  BY DEF KeptInv, ModesInv
<1>2. NumbersInv'
  BY DEF KeptInv, NumbersInv, Promise!Delivered
<1>3. OneSessionInv'
  BY DEF KeptInv, OneSessionInv, NoRequest
<1>4. CoverInv'
  BY DEF KeptInv, CoverInv
<1>5. DeliveryInv'
  BY DEF Promise!Delivered, KeptInv, DeliveryInv
<1> QED
  BY <1>1, <1>2, <1>3, <1>4, <1>5 DEF KeptInv

\* The microphone could not be opened: the dictation keeps what it has.
LEMMA MissKept ==
  ASSUME KeptInv, Plain, Misses(ctl, ctl'), Histories, FlightInv', ~Silence, Silence',
         UNCHANGED sessionActive
  PROVE  KeptInv'
<1> USE DEF Misses, SameWords, Histories
<1>1. ctl.active = NoRequest
  BY DEF Plain, KeptInv, ModesInv, OneSessionInv
<1>2. ModesInv'
  BY <1>1 DEF KeptInv, ModesInv
<1>3. NumbersInv'
  BY DEF KeptInv, NumbersInv, Promise!Delivered
<1>4. OneSessionInv'
  BY <1>1 DEF KeptInv, OneSessionInv
<1>5. CoverInv'
  BY DEF KeptInv, CoverInv
<1>6. DeliveryInv'
  BY NotSpent DEF Promise!Delivered, DeliveryInv
<1> QED
  BY <1>2, <1>3, <1>4, <1>5, <1>6 DEF KeptInv

\* A number that was never used belongs to no earlier dictation.
LEMMA OpenKept ==
  ASSUME TypeOK, KeptInv, NEW old \in SUBSET Nat, Opens(ctl, ctl', old), Histories, FlightInv',
         UNCHANGED <<sessionActive, cancelled>>,
         ctl'.raw \subseteq ctl'.segments, ctl'.confirm => ctl'.raw # {},
         \/ old = {} /\ ctl'.raw = {} /\ ctl'.active = NoRequest
         \/ /\ old = ctl.dictation /\ MaxLanguageChanges # 0 /\ ~Silence
            /\ old \cap said \subseteq ctl'.segments
  PROVE  KeptInv'
<1> USE DEF Opens, Histories
<1>1. ctl.lastSession \in Nat
  BY DEF TypeOK, ControllerTypeOK, Controller
<1>2. ModesInv'
  BY <1>1 DEF KeptInv, ModesInv, NoSession
<1>3. NumbersInv'
  <2> DEFINE n == ctl.lastSession
  <2>1. Promise!Delivered' = Promise!Delivered
    BY DEF Promise!Delivered
  <2>2. 1 .. n \subseteq 1 .. (n + 1) /\ n + 1 \in 1 .. (n + 1)
    BY <1>1
  <2>3. old \subseteq 1 .. n
    BY DEF KeptInv, NumbersInv
  <2>4. ctl'.dictation \subseteq 1 .. (n + 1)
    BY <2>2, <2>3
  <2> QED
    BY <2>1, <2>2, <2>4 DEF KeptInv, NumbersInv
<1>4. OneSessionInv'
  BY DEF KeptInv, OneSessionInv
<1>5. CoverInv'
  BY DEF KeptInv, CoverInv
<1>6. DeliveryInv'
  <2>1. Promise!Delivered' = Promise!Delivered
    BY DEF Promise!Delivered
  <2>2. ctl'.lastSession \notin Promise!Delivered /\ ctl'.lastSession \notin cancelled
    BY <1>1 DEF KeptInv, NumbersInv
  <2>3. old \cap Promise!Delivered = {} /\ (sessionActive => old \cap cancelled = {})
    BY NotSpent
  <2> QED
    BY <2>1, <2>2, <2>3 DEF DeliveryInv
<1> QED
  BY <1>2, <1>3, <1>4, <1>5, <1>6 DEF KeptInv

---------------------------------------------------------------------------
(* The speech worker.                                                      *)

\* What the worker settles belongs to the running session.
LEMMA WorkerKept ==
  ASSUME TypeOK, WordsInv, KeptInv, UNCHANGED <<ctl, ui, hostVars>>, FlightInv',
         Silence => Silence', NEW text \in SUBSET {asr.session},
         text = {} \/ asr.state = "Recording",
         said' = said \cup text
  PROVE  KeptInv'
<1> USE DEF hostVars
<1>1. text \subseteq {ctl.lastSession} \cap 1 .. ctl.lastSession
  <2>1. CASE text = {}
    BY <2>1
  <2>2. CASE asr.state = "Recording"
    <3>1. asr.session = ctl.lastSession /\ asr.session # 0
      BY <2>2 DEF KeptInv, FlightInv, Flight, RunsLast, WordsInv, WorkerOwn, NoSession
    <3>2. ctl.lastSession \in Nat
      BY DEF TypeOK, ControllerTypeOK, Controller
    <3> QED
      BY <3>1, <3>2
  <2> QED
    BY <2>1, <2>2
<1>2. text = {} \/ ~Silence
  BY DEF Silence, Silent
<1>3. ModesInv' /\ OneSessionInv'
  BY DEF KeptInv, ModesInv, OneSessionInv
<1>4. NumbersInv'
  BY <1>1 DEF KeptInv, NumbersInv, Promise!Delivered
<1>5. CoverInv'
  BY <1>1, <1>2 DEF KeptInv, CoverInv, NumbersInv, ModesInv
<1>6. DeliveryInv'
  BY DEF KeptInv, DeliveryInv, Spent, Promise!Delivered
<1> QED
  BY <1>3, <1>4, <1>5, <1>6 DEF KeptInv

\* What the worker reads and writes, with the queues' types.
LEMMA AsrQueues ==
  ASSUME TypeOK
  PROVE  /\ stdin["asr"] \in Seq(AsrCommand) /\ stdout["asr"] \in Seq(AsrEvent)
         /\ ctl.lastSession \in Nat /\ asr.session \in Nat
         /\ \A types : ReadCommand(types) =>
              /\ stdin["asr"] # <<>> /\ stdin'["asr"] = Tail(stdin["asr"])
              /\ Command = Head(stdin["asr"]) /\ Command.type \in types
              /\ Command.session \in Nat
         /\ \A events : EmitAsr(events) => stdout'["asr"] = stdout["asr"] \o events
         /\ Exit("asr") => stdin'["asr"] = <<>>
<1>1. /\ stdin["asr"] \in Seq(AsrCommand) /\ stdout["asr"] \in Seq(AsrEvent)
      /\ DOMAIN stdin = Workers /\ DOMAIN stdout = Workers
  BY DEF TypeOK, PipesTypeOK
<1>2. ctl.lastSession \in Nat /\ asr.session \in Nat
  BY DEF TypeOK, ControllerTypeOK, Controller, AsrTypeOK, AsrMemory
<1>3. ASSUME NEW types, ReadCommand(types)
      PROVE  /\ stdin["asr"] # <<>> /\ stdin'["asr"] = Tail(stdin["asr"])
             /\ Command = Head(stdin["asr"]) /\ Command.type \in types
             /\ Command.session \in Nat
  <2>1. stdin["asr"] # <<>> /\ stdin'["asr"] = Tail(stdin["asr"])
    BY <1>1, <1>3 DEF ReadCommand, Workers
  <2>2. Head(stdin["asr"]) \in AsrCommand
    BY <1>1, <2>1
  <2> QED
    BY <1>3, <2>1, <2>2 DEF ReadCommand, Command, AsrCommand
<1>4. \A events : EmitAsr(events) => stdout'["asr"] = stdout["asr"] \o events
  BY <1>1 DEF EmitAsr, Workers
<1>5. Exit("asr") => stdin'["asr"] = <<>>
  BY <1>1 DEF Exit, Workers
<1> QED
  BY <1>1, <1>2, <1>3, <1>4, <1>5

\* What ends the process loses what was queued.
LEMMA FlightEnds ==
  ASSUME NEW cs, NEW es, NEW a, NEW n, NEW known
  PROVE  /\ Flight(cs, es, a, n, known) => Flight(<<>>, es, a, n, known)
         /\ Silent(cs, es, a) => Silent(<<>>, es, a)
<1>1. \A i \in DOMAIN <<>> : FALSE
  OBVIOUS
<1> DEFINE q == <<>>
<1>2. \A i \in DOMAIN q : FALSE
  BY <1>1
<1> HIDE DEF q
<1>3. /\ Flight(cs, es, a, n, known) => Flight(q, es, a, n, known)
      /\ Silent(cs, es, a) => Silent(q, es, a)
  BY <1>2 DEF Flight, StartsLast, Silent, NoStart
<1> QED
  BY <1>3 DEF q

\* An event of no session, from a worker that goes on recording only what it recorded.
LEMMA WorkerEmits ==
  ASSUME TypeOK, WordsInv, KeptInv, UNCHANGED <<ctl, ui, hostVars, said>>,
         NEW e, ~Tells(e), stdout'["asr"] = stdout["asr"] \o <<e>>,
         \/ stdin'["asr"] = stdin["asr"] \/ stdin'["asr"] = <<>>
         \/ stdin["asr"] # <<>> /\ stdin'["asr"] = Tail(stdin["asr"]),
         asr'.state = "Recording" => asr.state = "Recording" /\ asr'.session = asr.session
  PROVE  KeptInv'
<1> DEFINE cs == stdin["asr"]
           es == stdout["asr"]
           n == ctl.lastSession
<1>1. cs \in Seq(AsrCommand) /\ es \in Seq(AsrEvent)
  BY AsrQueues
<1>2. FlightInv = Flight(cs, es, asr, n, said) /\ Silence = Silent(cs, es, asr)
  BY DEF FlightInv, Silence
<1> HIDE DEF cs, es, n
<1>3. Flight(cs, es, asr, n, said)
  BY <1>2 DEF KeptInv
<1>4. /\ Flight(stdin'["asr"], es, asr, n, said)
      /\ Silent(cs, es, asr) => Silent(stdin'["asr"], es, asr)
  BY <1>1, <1>3, FlightRead, FlightEnds DEF cs
<1>5. /\ Flight(stdin'["asr"], es \o <<e>>, asr, n, said)
      /\ Silent(cs, es, asr) => Silent(stdin'["asr"], es \o <<e>>, asr)
  BY <1>1, <1>4, FlightEmit
<1>6. /\ Flight(stdin'["asr"], es \o <<e>>, asr', n, said)
      /\ Silent(cs, es, asr) => Silent(stdin'["asr"], es \o <<e>>, asr')
  <2>1. CASE asr'.state # "Recording"
    BY <1>5, <2>1, FlightRest
  <2>2. CASE asr'.state = "Recording"
    BY <1>5, <2>2 DEF Flight, StartsLast, RunsLast, TellsLast, Silent
  <2> QED
    BY <2>1, <2>2
<1>7. FlightInv' /\ (Silence => Silence')
  BY <1>2, <1>6 DEF FlightInv, Silence, es, n
<1>8. {} \in SUBSET {asr.session} /\ said' = said \cup {}
  OBVIOUS
<1> QED
  BY <1>7, <1>8, WorkerKept

\* The main thread of the speech worker, one step per command.
LEMMA AsrMainKept ==
  ASSUME TypeOK, WordsInv, KeptInv, AsrMain
  PROVE  KeptInv'
<1> DEFINE cs == stdin["asr"]
           es == stdout["asr"]
           n == ctl.lastSession
<1>1. /\ cs \in Seq(AsrCommand) /\ es \in Seq(AsrEvent)
      /\ n \in Nat /\ asr.session \in Nat
  BY AsrQueues
<1>2. Flight(cs, es, asr, n, said) /\ Silence = Silent(cs, es, asr)
  BY DEF KeptInv, FlightInv, Silence
<1>3. UNCHANGED <<ctl, ui, hostVars>>
  BY DEF AsrMain
<1>4. asr \in AsrMemory
  BY DEF TypeOK, AsrTypeOK
<1>5. CASE AsrLoadModel
  <2>1. asr'.state = "Ready" /\ UNCHANGED <<said, stdin>>
    BY <1>4, <1>5 DEF AsrLoadModel, AsrMemory
  <2> DEFINE e == AsrMessage("ready", 0, {})
  <2>2. ~Tells(e) /\ stdout'["asr"] = stdout["asr"] \o <<e>>
    BY <1>5, AsrQueues DEF AsrLoadModel, AsrMessage, Tells, Closes
  <2> HIDE DEF e
  <2> QED
    BY <1>3, <2>1, <2>2, WorkerEmits
<1>6. CASE AsrLoadFails
  <2> DEFINE e == AsrFailure("MODEL_LOAD_FAILED", 0)
  <2>1. ~Tells(e) /\ stdout'["asr"] = stdout["asr"] \o <<e>> /\ stdin'["asr"] = <<>>
    BY <1>6, AsrQueues DEF AsrLoadFails, AsrFailure, Tells, Closes
  <2> HIDE DEF e
  <2> QED
    BY <1>3, <1>6, <2>1, WorkerEmits DEF AsrLoadFails
<1>7. CASE AsrStart \/ AsrStartFails
  <2>1. /\ cs # <<>> /\ stdin'["asr"] = Tail(cs) /\ Head(cs).type = "start"
        /\ Command = Head(cs)
    BY <1>7, AsrQueues DEF AsrStart, AsrStartFails
  <2> HIDE DEF cs, es, n
  <2>2. /\ NoStart(Tail(cs)) /\ NoTidings(es) /\ asr.state # "Recording"
        /\ Command.session = n /\ n \notin said /\ ~Silence
    BY <1>1, <1>2, <2>1, FlightRead
  <2>3. CASE AsrStart
    <3> DEFINE e == AsrMessage("recording_started", Command.session, {})
    <3>1. /\ stdout'["asr"] = es \o <<e>> /\ e.session = n /\ ~Closes(e)
          /\ e.type # "recording_finalized"
      BY <2>2, <2>3, AsrQueues DEF AsrStart, AsrMessage, Closes, es
    <3>2. asr'.state = "Recording" /\ asr'.session = n /\ said' = said
      BY <2>2, <2>3 DEF AsrStart
    <3> HIDE DEF e
    <3>3. Flight(Tail(cs), es \o <<e>>, asr', n, said)
      BY <1>1, <2>2, <3>1, <3>2, FlightAnswers
    <3>4. FlightInv'
      BY <1>3, <2>1, <3>1, <3>2, <3>3 DEF FlightInv, n
    <3>5. {} \in SUBSET {asr.session} /\ said' = said \cup {}
      BY <3>2
    <3> QED
      BY <1>3, <2>2, <3>4, <3>5, WorkerKept
  <2>4. CASE AsrStartFails
    <3>1. PICK code \in {"TRANSCRIPTION_FAILED", "MICROPHONE_UNAVAILABLE"} :
            EmitAsr(<<AsrFailure(code, Command.session)>>)
      BY <2>4 DEF AsrStartFails
    <3> DEFINE e == AsrFailure(code, Command.session)
    <3>2. /\ stdout'["asr"] = es \o <<e>> /\ e.session = n
          /\ e.type # "recording_finalized"
      BY <2>2, <3>1, AsrQueues DEF AsrFailure, es
    <3>3. asr' = asr /\ said' = said
      BY <2>4 DEF AsrStartFails
    <3> HIDE DEF e
    <3>4. Flight(Tail(cs), es \o <<e>>, asr, n, said)
      BY <1>1, <2>2, <3>2, FlightAnswers
    <3>5. FlightInv'
      BY <1>3, <2>1, <3>2, <3>3, <3>4 DEF FlightInv, n
    <3>6. {} \in SUBSET {asr.session} /\ said' = said \cup {}
      BY <3>3
    <3> QED
      BY <1>3, <2>2, <3>5, <3>6, WorkerKept
  <2> QED
    BY <1>7, <2>3, <2>4
<1>8. CASE AsrRejects
  <2>1. cs # <<>> /\ stdin'["asr"] = Tail(cs)
    BY <1>8, AsrQueues DEF AsrRejects
  <2> DEFINE e == AsrFailure("INVALID_STATE", Command.session)
  <2>2. ~Tells(e) /\ stdout'["asr"] = stdout["asr"] \o <<e>> /\ UNCHANGED <<asr, said>>
    BY <1>8, AsrQueues DEF AsrRejects, AsrFailure, Tells, Closes
  <2> HIDE DEF e
  <2> QED
    BY <1>3, <2>1, <2>2, WorkerEmits
<1>9. CASE AsrStopFails
  <2>1. cs # <<>> /\ stdin'["asr"] = Tail(cs)
    BY <1>9, AsrQueues DEF AsrStopFails, Matches
  <2> DEFINE e == AsrFailure("TRANSCRIPTION_FAILED", asr.session)
  <2>2. ~Tells(e) /\ stdout'["asr"] = stdout["asr"] \o <<e>> /\ UNCHANGED said
    BY <1>9, AsrQueues DEF AsrStopFails, AsrFailure, Tells, Closes
  <2>3. asr'.state = "Ready"
    BY <1>4, <1>9 DEF AsrStopFails, AsrBackToReady, AsrMemory
  <2> HIDE DEF e
  <2> QED
    BY <1>3, <2>1, <2>2, <2>3, WorkerEmits
<1>10. CASE AsrCancel \/ AsrStop
  <2>1. /\ cs # <<>> /\ stdin'["asr"] = Tail(cs) /\ asr.state = "Recording"
        /\ Flight(Tail(cs), es, asr, n, said) /\ asr.session = n
    <3>1. cs # <<>> /\ stdin'["asr"] = Tail(cs) /\ asr.state = "Recording"
      BY <1>10, AsrQueues DEF AsrCancel, AsrStop, Matches
    <3> QED
      BY <1>1, <1>2, <3>1, FlightRead DEF Flight, RunsLast
  <2>2. ~Silence /\ asr'.state = "Ready"
    BY <1>2, <1>4, <1>10, <2>1 DEF Silent, AsrCancel, AsrStop, AsrBackToReady, AsrMemory
  <2>3. PICK text \in {{}, {asr.session}}, events \in Seq(AsrEvent), e \in AsrEvent :
          /\ EmitAsr(events \o <<e>>) /\ said' = said \cup text
          /\ Closes(e) /\ e.session = asr.session
          /\ e.type = "recording_finalized" => text \subseteq e.text
          /\ e.type # "recording_finalized" => text = {}
          /\ events = <<>> \/ events = <<AsrMessage("transcript_update", asr.session, text)>>
    <3>1. CASE AsrCancel
      <4> DEFINE e == AsrMessage("recording_cancelled", asr.session, {})
      <4>1. /\ Closes(e) /\ e.session = asr.session /\ e.type # "recording_finalized"
            /\ EmitAsr(<<e>>)
        BY <3>1 DEF AsrCancel, AsrMessage, Closes
      <4>2. <<>> \o <<e>> = <<e>> /\ <<>> \in Seq(AsrEvent)
        OBVIOUS
      <4>3. said' = said \cup {}
        BY <3>1 DEF AsrCancel
      <4>4. e \in AsrEvent
        BY <1>1, AsrEventsTyped
      <4> HIDE DEF e
      <4> QED
        BY <4>1, <4>2, <4>3, <4>4
    <3>2. CASE AsrStop
      <4>1. PICK text \in {{}, {asr.session}} :
              /\ EmitAsr((IF text = asr.transcript THEN <<>>
                          ELSE <<AsrMessage("transcript_update", asr.session, text)>>)
                         \o <<AsrMessage("recording_finalized", asr.session, text)>>)
              /\ said' = said \cup text
        BY <3>2 DEF AsrStop
      <4> DEFINE e == AsrMessage("recording_finalized", asr.session, text)
                 u == AsrMessage("transcript_update", asr.session, text)
                 events == IF text = asr.transcript THEN <<>> ELSE <<u>>
      <4>2. /\ Closes(e) /\ e.session = asr.session /\ e.type = "recording_finalized"
            /\ e.text = text
        BY DEF AsrMessage, Closes
      <4>3. u \in AsrEvent /\ e \in AsrEvent
        BY <1>1, <4>1, AsrEventsTyped
      <4> HIDE DEF e, u
      <4>4. events \in Seq(AsrEvent) /\ (events = <<>> \/ events = <<u>>)
        BY <4>3
      <4> QED
        BY <4>1, <4>2, <4>3, <4>4 DEF e, u
    <3> QED
      BY <1>10, <3>1, <3>2
  <2> HIDE DEF cs, es, n
  <2>4. /\ Flight(Tail(cs), es \o events, asr, n, said)
        /\ es \o events \in Seq(AsrEvent)
    <3>1. CASE events = <<>>
      <4>1. es \o <<>> = es
        BY <1>1
      <4> QED
        BY <1>1, <2>1, <3>1, <4>1
    <3>2. CASE events # <<>>
      <4> DEFINE u == AsrMessage("transcript_update", asr.session, text)
      <4>1. events = <<u>>
        BY <2>3, <3>2
      <4>2. u.session = n /\ ~Closes(u)
        BY <2>1 DEF AsrMessage, Closes
      <4> HIDE DEF u
      <4>3. Flight(Tail(cs), es \o <<u>>, asr, n, said)
        BY <1>1, <2>1, <4>2, FlightTells
      <4>4. es \o events \in Seq(AsrEvent)
        BY <1>1
      <4> QED
        BY <4>1, <4>3, <4>4
    <3> QED
      BY <3>1, <3>2
  <2>5. Flight(Tail(cs), (es \o events) \o <<e>>, asr', n, said')
    BY <2>1, <2>2, <2>3, <2>4, FlightCloses
  <2>6. stdout'["asr"] = (es \o events) \o <<e>>
    <3>1. stdout'["asr"] = es \o (events \o <<e>>)
      BY <2>3, AsrQueues DEF es
    <3> QED
      BY <1>1, <2>3, <3>1
  <2>7. FlightInv'
    BY <1>3, <2>1, <2>5, <2>6 DEF FlightInv, n
  <2>8. text \in SUBSET {asr.session}
    OBVIOUS
  <2> QED
    BY <1>3, <2>1, <2>2, <2>3, <2>7, <2>8, WorkerKept
<1>11. CASE AsrQuit
  <2>1. stdin'["asr"] = <<>> /\ UNCHANGED <<stdout, asr, said>>
    BY <1>11, AsrQueues DEF AsrQuit
  <2>2. FlightInv' /\ (Silence => Silence')
    BY <1>2, <1>3, <2>1, FlightEnds DEF FlightInv, Silence
  <2>3. {} \in SUBSET {asr.session} /\ said' = said \cup {}
    BY <2>1
  <2> QED
    BY <1>3, <2>2, <2>3, WorkerKept
<1> QED
  BY <1>5, <1>6, <1>7, <1>8, <1>9, <1>10, <1>11 DEF AsrMain, AsrMainThread

\* The feed thread tells of the running session.
LEMMA AsrFeederKept ==
  ASSUME TypeOK, WordsInv, KeptInv, AsrFeeder
  PROVE  KeptInv'
<1> DEFINE cs == stdin["asr"]
           es == stdout["asr"]
           n == ctl.lastSession
<1>1. /\ es \in Seq(AsrEvent) /\ asr \in AsrMemory
      /\ UNCHANGED <<ctl, ui, hostVars, stdin, said>>
      /\ asr.state = "Recording" /\ Flight(cs, es, asr, n, said)
  BY AsrQueues
  DEF AsrFeeder, AsrFeedThread, AsrFeed, AsrFeedFails, TypeOK, AsrTypeOK, KeptInv, FlightInv
<1>2. asr.session = n /\ ~Silence
  BY <1>1 DEF Flight, RunsLast, Silence, Silent
<1>3. asr'.state = "Recording" /\ asr'.session = asr.session
  BY <1>1 DEF AsrFeeder, AsrFeedThread, AsrFeed, AsrFeedFails, AsrMemory
<1>4. CASE AsrFeed
  <2> DEFINE e == AsrMessage("transcript_update", asr.session, {asr.session})
  <2>1. stdout'["asr"] = es \o <<e>> /\ e.session = n /\ ~Closes(e)
    BY <1>2, <1>4, AsrQueues DEF AsrFeed, AsrMessage, Closes
  <2> HIDE DEF cs, es, n, e
  <2>2. Flight(cs, es \o <<e>>, asr', n, said)
    BY <1>1, <1>2, <1>3, <2>1, FlightTells
  <2>3. FlightInv'
    BY <1>1, <2>1, <2>2 DEF FlightInv, cs, n
  <2>4. {} \in SUBSET {asr.session} /\ said' = said \cup {}
    BY <1>1
  <2> QED
    BY <1>1, <1>2, <2>3, <2>4, WorkerKept
<1>5. CASE AsrFeedFails
  <2> DEFINE e == AsrFailure("TRANSCRIPTION_FAILED", asr.session)
  <2>1. ~Tells(e) /\ stdout'["asr"] = stdout["asr"] \o <<e>>
    BY <1>5, AsrQueues DEF AsrFeedFails, AsrFailure, Tells, Closes
  <2> HIDE DEF e
  <2> QED
    BY <1>1, <1>3, <2>1, WorkerEmits
<1> QED
  BY <1>4, <1>5 DEF AsrFeeder, AsrFeedThread

---------------------------------------------------------------------------
(* The handlers and calls of the controller.                               *)

\* At most a command that starts nothing is sent to the speech worker.
CommandsKept ==
  \/ stdin'["asr"] = stdin["asr"]
  \/ \E c : c.type # "start" /\ stdin'["asr"] = Append(stdin["asr"], c)

\* The order and the silence survive a command that starts nothing.
LEMMA CommandsFlow ==
  ASSUME TypeOK, CommandsKept, NEW es, NEW n
  PROVE  /\ Flight(stdin["asr"], es, asr, n, said) => Flight(stdin'["asr"], es, asr, n, said)
         /\ Silent(stdin["asr"], es, asr) => Silent(stdin'["asr"], es, asr)
<1>1. stdin["asr"] \in Seq(AsrCommand)
  BY AsrQueues
<1> QED
  BY <1>1, FlightSent DEF CommandsKept

\* Sends to either worker, and to none, leave one of two states.
LEMMA Sends ==
  ASSUME TypeOK, NEW s, NEW failed
  PROVE  /\ Become(s) => ctl' = s /\ CommandsKept
         /\ \A c : Send("rewrite", c, s, failed) => (ctl' = s \/ ctl' = failed) /\ CommandsKept
         /\ \A c : c.type # "start" /\ Send("asr", c, s, failed) =>
              (ctl' = s \/ ctl' = failed) /\ CommandsKept
<1>1. DOMAIN stdin = Workers
  BY DEF TypeOK, PipesTypeOK
<1>2. Become(s) => ctl' = s /\ CommandsKept
  BY DEF Become, CommandsKept
<1>3. ASSUME NEW c, Send("rewrite", c, s, failed)
      PROVE  (ctl' = s \/ ctl' = failed) /\ CommandsKept
  BY <1>1, <1>3 DEF Send, Become, CommandsKept, Workers
<1>4. ASSUME NEW c, c.type # "start", Send("asr", c, s, failed)
      PROVE  (ctl' = s \/ ctl' = failed) /\ CommandsKept
  BY <1>1, <1>4 DEF Send, Become, CommandsKept, Workers
<1> QED
  BY <1>2, <1>3, <1>4

\* An event m has been taken from the queue, or stands for the worker's end.
Arrives(m) ==
  /\ Flight(stdin["asr"], stdout'["asr"], asr, ctl.lastSession, said)
  /\ Silence => Silent(stdin["asr"], stdout'["asr"], asr)
  /\ Closes(m) => Silent(stdin["asr"], stdout'["asr"], asr)
  /\ Tells(m) => ~Silence /\ m.session = ctl.lastSession
  /\ m.type = "recording_finalized" /\ ctl.lastSession \in said =>
       ctl.lastSession \in m.text

\* What follows for the queues when no session is numbered.
LEMMA ArrivedFlow ==
  ASSUME TypeOK, NEW m, Arrives(m), CommandsKept, UNCHANGED <<asr, said>>,
         ctl'.lastSession = ctl.lastSession
  PROVE  FlightInv' /\ (Silence \/ Closes(m) => Silence')
BY CommandsFlow DEF Arrives, FlightInv, Silence

\* An event that only turns the mode.
LEMMA EventTurns ==
  ASSUME TypeOK, KeptInv, NEW m, Arrives(m), CommandsKept, Turns(ctl, ctl'),
         UNCHANGED <<asr, said, ui, hostVars>>,
         ctl'.mode \in Resting \/ ctl.mode \notin Resting \/ ~Silence,
         ctl'.mode \in {"Starting", "Ready"} => ctl.mode \in {"Starting", "Ready"}
  PROVE  KeptInv'
<1>1. FlightInv' /\ (Silence => Silence')
  BY ArrivedFlow DEF Turns, SameSessions
<1>2. Histories /\ UNCHANGED sessionActive
  BY DEF Histories, hostVars
<1> QED
  BY <1>1, <1>2, TurnKept

\* Setting the mode aside, a language change touches no words.
LEMMA StopTurns ==
  ASSUME TypeOK, NEW s \in Controller, StopForLanguageChange(s)
  PROVE  /\ CommandsKept /\ SameSessions(s, ctl') /\ SameWords(s, ctl')
         /\ ctl'.active = s.active /\ ctl'.cleanup = s.cleanup
         /\ ctl'.mode \in {s.mode, "Finalizing", "Error"}
         /\ s.mode # "Recording" => ctl'.mode = s.mode
         /\ s.mode = "Recording" => ctl'.mode \in {"Finalizing", "Error"}
<1> DEFINE t == [s EXCEPT !.pending = TRUE]
           f == [t EXCEPT !.mode = "Finalizing"]
           g == SetError([f EXCEPT !.pending = FALSE])
           Kept(u) == /\ SameSessions(s, u) /\ SameWords(s, u)
                      /\ u.active = s.active /\ u.cleanup = s.cleanup
<1>1. Kept(t) /\ t.mode = s.mode
  BY DEF Controller, SameSessions, SameWords
<1>2. Kept(f) /\ f.mode = "Finalizing"
  BY DEF Controller, SameSessions, SameWords
<1>3. Kept(g) /\ g.mode = "Error"
  BY DEF Controller, SameSessions, SameWords, SetError
<1>4. ToAsr("stop", f).type # "start"
  BY DEF ToAsr
<1>5. \/ s.mode # "Recording" /\ Become(t)
      \/ s.mode = "Recording" /\ Send("asr", ToAsr("stop", f), f, g)
  BY DEF StopForLanguageChange, Controller
<1> HIDE DEF t, f, g
<1> QED
  BY <1>1, <1>2, <1>3, <1>4, <1>5, Sends

\* A new session is numbered behind silence.
LEMMA StartOpens ==
  ASSUME TypeOK, NEW s \in Controller, StartSession(s), NEW es, Silent(stdin["asr"], es, asr),
         s.lastSession + 1 \notin said
  PROVE  /\ Opens(s, ctl', s.dictation) /\ SameWords(s, ctl') /\ ctl'.active = s.active
         /\ Flight(stdin'["asr"], es, asr, ctl'.lastSession, said)
<1> DEFINE id == s.lastSession + 1
           t == [s EXCEPT !.hypothesis = {}, !.session = id, !.lastSession = id,
                          !.dictation = @ \cup {id}, !.mode = "StartingRecording"]
           g == SetError([t EXCEPT !.pending = FALSE])
           c == ToAsr("start", t)
           Kept(u) == /\ Opens(s, u, s.dictation) /\ SameWords(s, u)
                      /\ u.active = s.active /\ u.lastSession = id
<1>1. Kept(t)
  BY DEF Controller, Opens, SameWords
<1>2. Kept(g)
  BY DEF Controller, Opens, SameWords, SetError
<1>3. c.session = id
  BY DEF ToAsr, Controller
<1>4. stdin["asr"] \in Seq(AsrCommand) /\ DOMAIN stdin = Workers
  BY AsrQueues DEF TypeOK, PipesTypeOK
<1>5. Send("asr", c, t, g)
  BY DEF StartSession
<1> HIDE DEF id, t, g, c
<1>6. /\ Flight(stdin["asr"], es, asr, id, said)
      /\ Flight(Append(stdin["asr"], c), es, asr, id, said)
  BY <1>3, <1>4, FlightStart DEF id
<1>7. \/ ctl' = t /\ stdin'["asr"] = Append(stdin["asr"], c)
      \/ ctl' = g /\ stdin'["asr"] = stdin["asr"]
  BY <1>4, <1>5 DEF Send, Become, Workers
<1> QED
  BY <1>1, <1>2, <1>6, <1>7

\* A dictation with a final transcript is sent for cleanup, waits for the worker, or
\* is completed with that transcript.
LEMMA DispatchSends ==
  ASSUME TypeOK, NEW s \in Controller, DispatchFinalCleanup(s)
  PROVE  /\ CommandsKept
         /\ \/ ctl' = s
            \/ /\ SameSessions(s, ctl') /\ SameWords(s, ctl') /\ ctl'.mode = s.mode
               /\ ctl'.cleanup = s.cleanup /\ s.cleanup = "Ai" /\ s.raw # {}
            \/ Completes(s, ctl') /\ s.cleanup = "Ai"
<1> DEFINE id == s.lastRequest + 1
           t == [s EXCEPT !.lastRequest = id, !.active = id]
           dead == [ClearActiveRewrite(t) EXCEPT
                      !.unavailable = @ \/ ~running["rewrite"],
                      !.rewriteReady = @ /\ running["rewrite"]]
           c == [type |-> "rewrite", request |-> id, text |-> s.raw]
           Given == s.cleanup = "Ai" /\ s.raw # {}
<1>1. /\ SameSessions(s, t) /\ SameWords(s, t) /\ t.mode = s.mode /\ t.cleanup = s.cleanup
  BY DEF Controller, SameSessions, SameWords
<1>2. Given => Completes(s, CompleteWithRawFallback(dead))
  BY DEF Controller, Completes, SameSessions, CompleteWithRawFallback, ClearActiveRewrite
<1>3. Become(s) \/ (Given /\ Send("rewrite", c, t, CompleteWithRawFallback(dead)))
  BY DEF DispatchFinalCleanup
<1> HIDE DEF t, dead, c
<1>4. CASE Become(s)
  BY <1>4, Sends
<1>5. CASE Given /\ Send("rewrite", c, t, CompleteWithRawFallback(dead))
  <2>1. CommandsKept /\ (ctl' = t \/ ctl' = CompleteWithRawFallback(dead))
    BY <1>5, Sends
  <2> QED
    BY <1>1, <1>2, <1>5, <2>1
<1> QED
  BY <1>3, <1>4, <1>5

\* finish_dictation_locked(), for a transcript that was just taken over.
LEMMA FinishHears ==
  ASSUME TypeOK, NEW s \in Controller, s.raw # {}, FinishDictation(s)
  PROVE  /\ CommandsKept
         /\ SameSessions(s, ctl') /\ ctl'.segments = s.segments /\ ctl'.raw = s.raw
         /\ ctl'.cleanup = s.cleanup
         /\ \/ ctl'.mode = "Complete" /\ ctl'.active = NoRequest /\ ctl'.rewritten = ctl'.raw
            \/ ctl'.mode = s.mode /\ (ctl'.active = NoRequest \/ ctl'.cleanup = "Ai")
<1> DEFINE t == ClearActiveRewrite(s)
           ai == [t EXCEPT !.confirm = TRUE]
           off == [t EXCEPT !.rewritten = t.raw, !.live = t.raw,
                            !.confirm = FALSE, !.mode = "Complete"]
           Same(u) == /\ SameSessions(s, u) /\ u.segments = s.segments /\ u.raw = s.raw
                      /\ u.cleanup = s.cleanup
           Done(u) == u.mode = "Complete" /\ u.active = NoRequest /\ u.rewritten = u.raw
<1>1. Same(off) /\ Done(off)
  BY DEF Controller, SameSessions, ClearActiveRewrite
<1>2. Same(ai) /\ ai.active = NoRequest /\ ai.mode = s.mode /\ ai.raw = s.raw
  BY DEF Controller, SameSessions, ClearActiveRewrite
<1>3. ai \in Controller /\ t.cleanup \in CleanupModes /\ t.unavailable \in BOOLEAN
      /\ t.rewriteReady \in BOOLEAN
  BY DEF Controller, ClearActiveRewrite, NoRequest
<1>4. Same(CompleteWithRawFallback(ai)) /\ Done(CompleteWithRawFallback(ai))
  BY DEF Controller, SameSessions, ClearActiveRewrite, CompleteWithRawFallback
<1>5. \/ Become(CompleteWithRawFallback(ai))
      \/ DispatchFinalCleanup(ai)
      \/ Become(ai)
      \/ Become(off)
  BY <1>3 DEF FinishDictation, CleanupModes
<1> HIDE DEF t, ai, off
<1>6. CASE DispatchFinalCleanup(ai)
  BY <1>2, <1>3, <1>6, DispatchSends DEF Completes, SameSessions, SameWords
<1>7. CASE Become(off)
  BY <1>1, <1>7, Sends
<1>8. CASE Become(ai)
  BY <1>2, <1>8, Sends
<1>9. CASE Become(CompleteWithRawFallback(ai))
  BY <1>4, <1>9, Sends
<1> QED
  BY <1>5, <1>6, <1>7, <1>8, <1>9

\* handle_asr_message(), one step per type of message.
LEMMA AsrHandlerKept ==
  ASSUME TypeOK, WordsInv, BoundsInv, Plain, KeptInv, WordsInv',
         NEW m \in AsrEvent, Arrives(m), HandleAsrMessage(m),
         UNCHANGED <<asr, said, ui, hostVars>>
  PROVE  KeptInv'
<1>1. ctl \in Controller /\ OwnText(ctl') /\ UNCHANGED <<sessionActive, cancelled>> /\ Histories
  BY DEF TypeOK, ControllerTypeOK, WordsInv, Histories, hostVars
<1>2. CASE Become(ctl)
  <2>1. ctl' = ctl /\ CommandsKept
    BY <1>2, Sends
  <2>2. Turns(ctl, ctl')
    BY <2>1 DEF Turns, SameSessions, SameWords
  <2> QED
    BY <2>1, <2>2, EventTurns
<1>3. CASE AsrReady(m)
  <2> DEFINE s == UpdateReadyState([ctl EXCEPT !.asrReady = TRUE])
  <2>1. ctl' = s /\ CommandsKept
    BY <1>3, Sends DEF AsrReady
  <2>2. Turns(ctl, s) /\ s.mode \in {ctl.mode, "Ready"}
        /\ (s.mode # ctl.mode => ctl.mode = "Starting")
    BY <1>1 DEF Controller, UpdateReadyState, Turns, SameSessions, SameWords
  <2> HIDE DEF s
  <2> QED
    BY <2>1, <2>2, EventTurns DEF Resting
<1>4. CASE RecordingStarted(m) /\ m.session = ctl.session
  <2> DEFINE s == [ctl EXCEPT !.mode = "Recording"]
  <2>1. /\ s \in Controller /\ s.mode = "Recording" /\ s.active = ctl.active
        /\ s.cleanup = ctl.cleanup /\ SameSessions(ctl, s) /\ SameWords(ctl, s)
    BY <1>1 DEF Controller, SameSessions, SameWords, Modes
  <2>2. Become(s) \/ StopForLanguageChange(s)
    BY <1>1, <1>4 DEF RecordingStarted, Controller
  <2> HIDE DEF s
  <2>3. CommandsKept /\ Turns(ctl, ctl') /\ ctl'.mode \notin {"Starting", "Ready"}
    BY <2>1, <2>2, Sends, StopTurns DEF Turns, SameSessions, SameWords
  <2>4. ~Silence
    BY <1>4 DEF Arrives, RecordingStarted, Tells
  <2> QED
    BY <2>3, <2>4, EventTurns
<1>5. CASE TranscriptUpdate(m) /\ m.session = ctl.session
  <2> DEFINE s == RefreshTranscript([ctl EXCEPT !.hypothesis = m.text])
  <2>1. ctl' = s /\ CommandsKept
    BY <1>5, Sends DEF TranscriptUpdate
  <2>2. Turns(ctl, s) /\ s.mode = ctl.mode
    BY <1>1 DEF Controller, RefreshTranscript, Turns, SameSessions, SameWords
  <2> HIDE DEF s
  <2> QED
    BY <2>1, <2>2, EventTurns
<1>6. CASE RecordingFinalized(m) /\ m.session = ctl.session
  <2> DEFINE t == [ctl EXCEPT !.segments = @ \cup m.text, !.hypothesis = {}]
             s == RefreshTranscript([t EXCEPT !.raw = RawText(t)])
             p == [s EXCEPT !.pending = FALSE]
             e == [ClearActiveRewrite(s) EXCEPT !.mode = "Complete"]
  <2>1. m.text \in SUBSET Nat /\ m.type = "recording_finalized"
    BY <1>6 DEF AsrEvent, RecordingFinalized
  <2>2. t \in Controller /\ RawText(t) = t.segments
    BY <1>1, <2>1 DEF Controller, RawText
  <2>3. /\ s \in Controller /\ SameSessions(ctl, s) /\ s.segments = ctl.segments \cup m.text
        /\ s.raw = s.segments /\ s.cleanup = ctl.cleanup /\ s.mode = ctl.mode
        /\ s.pending = ctl.pending /\ s.confirm = ctl.confirm /\ s.active = ctl.active
    BY <1>1, <2>1, <2>2 DEF Controller, RefreshTranscript, RawText, SameSessions
  <2> HIDE DEF s, t
  <2>4. /\ ~Silence /\ ctl.session = ctl.lastSession
        /\ (ctl.lastSession \in said => ctl.lastSession \in m.text)
        /\ Silent(stdin["asr"], stdout'["asr"], asr)
    BY <1>6, <2>1 DEF Arrives, Tells, Closes
  <2>5. CASE s.pending
    <3>1. StartSession(p) /\ MaxLanguageChanges # 0
      BY <1>6, <2>3, <2>5 DEF RecordingFinalized, BoundsInv, s, t
    <3>2. /\ p \in Controller /\ SameSessions(ctl, p) /\ p.segments = s.segments
          /\ p.raw = p.segments /\ p.cleanup = ctl.cleanup /\ p.confirm = ctl.confirm
          /\ p.active = ctl.active
      BY <2>3 DEF Controller, SameSessions
    <3> HIDE DEF p
    <3>3. ctl.lastSession \in Nat /\ ctl.lastSession + 1 \notin said
      BY <1>1 DEF Controller, KeptInv, NumbersInv
    <3>4. /\ Opens(p, ctl', p.dictation) /\ SameWords(p, ctl') /\ ctl'.active = p.active
          /\ Flight(stdin'["asr"], stdout'["asr"], asr, ctl'.lastSession, said)
      BY <2>4, <3>1, <3>2, <3>3, StartOpens DEF SameSessions
    <3>5. Opens(ctl, ctl', ctl.dictation) /\ FlightInv'
      BY <3>2, <3>4 DEF Opens, SameSessions, FlightInv
    <3>6. ctl.dictation \cap said \subseteq ctl'.segments
      BY <2>3, <2>4, <3>2, <3>4 DEF KeptInv, ModesInv, CoverInv, SameWords
    <3>7. ctl'.raw \subseteq ctl'.segments /\ (ctl'.confirm => ctl'.raw # {})
      BY <2>3, <3>2, <3>4 DEF KeptInv, CoverInv, SameWords
    <3>8. ctl.dictation \in SUBSET Nat
      BY <1>1 DEF Controller
    <3> QED
      BY <1>1, <2>4, <3>1, <3>5, <3>6, <3>7, <3>8, OpenKept
  <2>6. CASE ~s.pending
    <3>1. \/ Become(e) /\ s.raw = {}
          \/ FinishDictation(s) /\ s.raw # {}
      BY <1>6, <2>3, <2>6 DEF RecordingFinalized, s, t, Controller
    <3>2. /\ SameSessions(s, e) /\ e.segments = s.segments /\ e.raw = s.raw
          /\ e.cleanup = s.cleanup /\ e.mode = "Complete" /\ e.active = NoRequest
          /\ e.confirm = s.confirm
      BY <2>3 DEF Controller, SameSessions, ClearActiveRewrite
    <3> HIDE DEF e
    <3>3. CommandsKept /\ Hears(ctl, ctl', m.text)
      <4>1. CASE s.raw = {}
        BY <2>3, <3>1, <3>2, <4>1, Sends DEF Hears, SameSessions
      <4>2. CASE s.raw # {}
        BY <2>3, <3>1, <4>2, FinishHears DEF Hears, SameSessions
      <4> QED
        BY <4>1, <4>2
    <3>4. FlightInv' /\ Silence'
      BY <2>1, <3>3, ArrivedFlow DEF Hears, SameSessions, Closes
    <3> QED
      BY <1>1, <2>4, <3>3, <3>4, HearKept
  <2> QED
    BY <2>5, <2>6
<1>7. CASE RecordingCancelled(m)
  <2> DEFINE s == [ClearTexts(ctl) EXCEPT !.mode = "Ready", !.pending = FALSE,
                                    !.session = NoSession, !.dictation = {}]
  <2>1. ctl' = s /\ CommandsKept
    BY <1>7, Sends DEF RecordingCancelled
  <2>2. Drops(ctl, s)
    BY <1>1 DEF Controller, Drops, ClearTexts, ClearActiveRewrite, ResetTranscript
  <2> HIDE DEF s
  <2>3. FlightInv' /\ Silence'
    BY <1>7, <2>1, <2>2, ArrivedFlow DEF Drops, RecordingCancelled, Closes
  <2> QED
    BY <1>1, <2>1, <2>2, <2>3, DropKept
<1>8. CASE AsrError(m)
  <2>1. CASE m.code = "MICROPHONE_UNAVAILABLE"
    <3> DEFINE s == [ctl EXCEPT !.mode = "Ready", !.session = NoSession]
    <3>1. ctl' = s /\ CommandsKept
      BY <1>8, <2>1, Sends DEF AsrError
    <3>2. Misses(ctl, s)
      BY <1>1 DEF Controller, Misses, SameWords
    <3> HIDE DEF s
    <3>3. FlightInv' /\ Silence' /\ ~Silence
      BY <1>8, <2>1, <3>1, <3>2, ArrivedFlow DEF Misses, AsrError, Closes, Tells, Arrives
    <3> QED
      BY <1>1, <3>1, <3>2, <3>3, MissKept
  <2>2. CASE m.code # "MICROPHONE_UNAVAILABLE"
    <3>1. ctl' = SetError(ctl) /\ CommandsKept
      BY <1>8, <2>2, Sends DEF AsrError
    <3>2. Turns(ctl, ctl') /\ ctl'.mode = "Error"
      BY <1>1, <3>1 DEF Controller, SetError, Turns, SameSessions, SameWords
    <3> QED
      BY <3>1, <3>2, EventTurns DEF Resting
  <2> QED
    BY <2>1, <2>2
<1> QED
  BY <1>2, <1>3, <1>4, <1>5, <1>6, <1>7, <1>8
  DEF HandleAsrMessage, RecordingStarted, TranscriptUpdate, RecordingFinalized

\* What follows for the queues when nothing is read and no session is numbered.
LEMMA StillFlow ==
  ASSUME TypeOK, FlightInv, CommandsKept, stdout'["asr"] = stdout["asr"],
         UNCHANGED <<asr, said>>, ctl'.lastSession = ctl.lastSession
  PROVE  FlightInv' /\ (Silence => Silence')
BY CommandsFlow DEF FlightInv, Silence

\* A call or an answer that only turns the mode.
LEMMA CallTurns ==
  ASSUME TypeOK, KeptInv, CommandsKept, Turns(ctl, ctl'), stdout'["asr"] = stdout["asr"],
         UNCHANGED <<asr, said>>, Histories, sessionActive' => sessionActive,
         ctl'.mode \in Resting \/ ctl.mode \notin Resting,
         sessionActive' /\ ctl'.mode = "Complete" /\ ui.pc = "toggle" => ui'.pc = "toggle",
         ctl'.mode \in {"Starting", "Ready"} =>
           \/ /\ ctl.mode \in {"Starting", "Ready"}
              /\ ui.op = "asr_device" => ui'.op = "asr_device"
           \/ MaxSettings # 0 /\ ui'.op = "asr_device"
  PROVE  KeptInv'
<1>1. FlightInv' /\ (Silence => Silence')
  BY StillFlow DEF Turns, SameSessions, KeptInv
<1> QED
  BY <1>1, TurnKept

\* A dictation is completed from the outside of the speech worker.
LEMMA CallCompletes ==
  ASSUME TypeOK, WordsInv', Plain, KeptInv, CommandsKept, Completes(ctl, ctl'),
         ctl.cleanup = "Ai", ctl.raw # {},
         ctl.active # NoRequest \/ ctl.mode = "Finalizing",
         stdout'["asr"] = stdout["asr"], UNCHANGED <<asr, said, hostVars>>
  PROVE  KeptInv'
<1>1. MaxLanguageChanges = 0 /\ Silence
  BY DEF Plain, KeptInv, OneSessionInv
<1>2. FlightInv' /\ Silence'
  BY <1>1, StillFlow DEF Completes, SameSessions, KeptInv
<1>3. Histories /\ UNCHANGED sessionActive /\ OwnText(ctl')
  BY DEF Histories, hostVars, WordsInv
<1>4. ctl.active # NoRequest \/ ctl.mode \notin Resting
  BY DEF Resting
<1> QED
  BY <1>1, <1>2, <1>3, <1>4, CompleteKept

\* tick() and its like: the raw words complete the dictation.
LEMMA FallbackCompletes ==
  ASSUME NEW r \in Controller, NEW s \in Controller,
         SameSessions(r, s), s.segments = r.segments, s.raw = r.raw, s.cleanup = r.cleanup,
         s.active = NoRequest, r.raw # {}
  PROVE  Completes(r, CompleteWithRawFallback(s))
BY DEF Controller, Completes, SameSessions, CompleteWithRawFallback

\* handle_rewrite_message(), one step per type of message.
LEMMA RewriteHandlerKept ==
  ASSUME TypeOK, WordsInv, WordsInv', Plain, KeptInv,
         NEW m \in RewriteEvent, KnownRequest(m, ctl), HandleRewriteMessage(m),
         stdout'["asr"] = stdout["asr"], UNCHANGED <<asr, said, ui, hostVars>>
  PROVE  KeptInv'
<1>1. ctl \in Controller /\ OwnText(ctl') /\ UNCHANGED sessionActive /\ Histories
  BY DEF TypeOK, ControllerTypeOK, WordsInv, Histories, hostVars
<1>2. CASE Become(ctl)
  <2>1. ctl' = ctl /\ CommandsKept
    BY <1>2, Sends
  <2>2. Turns(ctl, ctl')
    BY <2>1 DEF Turns, SameSessions, SameWords
  <2> QED
    BY <1>1, <2>1, <2>2, CallTurns
<1>3. CASE RewriteReady(m)
  <2> DEFINE s == [ctl EXCEPT !.unavailable = FALSE, !.rewriteReady = TRUE]
  <2>1. /\ s \in Controller /\ SameSessions(ctl, s) /\ SameWords(ctl, s)
        /\ s.mode = ctl.mode /\ s.cleanup = ctl.cleanup /\ s.active = ctl.active
    BY <1>1 DEF Controller, SameSessions, SameWords
  <2>2. \/ Become(s)
        \/ /\ s.mode = "Finalizing" /\ s.raw # {} /\ s.active = NoRequest
           /\ DispatchFinalCleanup(s)
    BY <1>3 DEF RewriteReady
  <2> HIDE DEF s
  <2>3. CASE ctl' = s /\ CommandsKept
    <3>1. Turns(ctl, ctl')
      BY <2>1, <2>3 DEF Turns
    <3> QED
      BY <1>1, <2>1, <2>3, <3>1, CallTurns
  <2>4. CASE /\ ctl' # s /\ s.mode = "Finalizing" /\ s.raw # {}
             /\ DispatchFinalCleanup(s)
    <3>1. CommandsKept /\ Dispatches(ctl, ctl')
      BY <2>1, <2>4, DispatchSends DEF Dispatches, Completes, SameSessions, SameWords
    <3>2. ctl.cleanup = "Ai" /\ ctl.raw # {} /\ ctl'.lastSession = ctl.lastSession
      BY <2>1, <2>4, DispatchSends DEF Completes, SameSessions, SameWords
    <3>3. MaxLanguageChanges = 0 /\ Silence
      BY <3>2 DEF Plain, KeptInv, OneSessionInv
    <3>4. FlightInv' /\ Silence'
      BY <3>1, <3>2, <3>3, StillFlow DEF KeptInv
    <3> QED
      BY <1>1, <2>1, <2>4, <3>1, <3>3, <3>4, DispatchKept
  <2> QED
    BY <2>1, <2>2, <2>3, <2>4, Sends, DispatchSends
<1>4. CASE RewriteCompleted(m) /\ ctl.cleanup = "Ai"
  <2> DEFINE s == ClearActiveRewrite(ctl)
             t == [s EXCEPT !.rewritten = m.text, !.live = m.text,
                            !.confirm = TRUE, !.mode = "Complete"]
  <2>1. CASE ctl.active = NoRequest \/ m.request # ctl.active
    BY <1>2, <1>4, <2>1 DEF RewriteCompleted
  <2>2. CASE ctl.active # NoRequest /\ m.request = ctl.active
    <3>1. ctl.raw # {} /\ ctl.dictation \subseteq {ctl.lastSession}
      BY <1>4, <2>2 DEF Plain, KeptInv, OneSessionInv
    <3>2. m.text \subseteq ctl.dictation /\ ctl.raw \subseteq ctl.dictation
      BY <2>2 DEF KnownRequest, WordsInv, OwnText
    <3>3. /\ s \in Controller /\ SameSessions(ctl, s) /\ s.segments = ctl.segments
          /\ s.raw = ctl.raw /\ s.cleanup = ctl.cleanup /\ s.active = NoRequest
      BY <1>1 DEF Controller, SameSessions, ClearActiveRewrite, NoRequest
    <3>4. \/ m.text = {} /\ Become(CompleteWithRawFallback(s))
          \/ m.text # {} /\ Become(t)
      BY <1>4, <2>2 DEF RewriteCompleted
    <3> HIDE DEF s
    <3>5. m.text # {} => Completes(ctl, t)
      <4>1. m.text # {} => m.text = ctl.raw
        BY <3>1, <3>2
      <4> QED
        BY <3>1, <3>3, <4>1 DEF Controller, Completes, SameSessions
    <3>6. Completes(ctl, CompleteWithRawFallback(s))
      BY <1>1, <3>1, <3>3, FallbackCompletes
    <3> HIDE DEF t
    <3>7. CommandsKept /\ Completes(ctl, ctl')
      BY <3>4, <3>5, <3>6, Sends
    <3> QED
      BY <1>4, <2>2, <3>1, <3>7, CallCompletes
  <2> QED
    BY <2>1, <2>2
<1>5. CASE RewriteError(m) /\ ctl.cleanup = "Ai"
  <2> DEFINE fatal == m.code \in FatalCodes
             s == [ClearActiveRewrite(ctl) EXCEPT
                     !.unavailable = @ \/ fatal, !.rewriteReady = @ /\ ~fatal]
  <2>1. /\ s \in Controller /\ SameSessions(ctl, s) /\ SameWords(ctl, s)
        /\ s.mode = ctl.mode /\ s.cleanup = ctl.cleanup /\ s.active = NoRequest
    <3> DEFINE u == ClearActiveRewrite(ctl)
    <3>1. /\ u \in Controller /\ SameSessions(ctl, u) /\ SameWords(ctl, u)
          /\ u.mode = ctl.mode /\ u.cleanup = ctl.cleanup /\ u.active = NoRequest
      BY <1>1 DEF ClearActiveRewrite, Controller, SameSessions, SameWords, NoRequest
    <3> HIDE DEF u
    <3>2. ASSUME NEW a \in BOOLEAN, NEW b \in BOOLEAN
          PROVE  LET v == [u EXCEPT !.unavailable = a, !.rewriteReady = b]
                 IN /\ v \in Controller /\ SameSessions(ctl, v) /\ SameWords(ctl, v)
                    /\ v.mode = ctl.mode /\ v.cleanup = ctl.cleanup /\ v.active = NoRequest
      BY <3>1 DEF Controller, SameSessions, SameWords
    <3> QED
      BY <3>2 DEF u
  <2>2. \/ ctl.mode = "Finalizing" /\ ctl.raw # {} /\ Become(CompleteWithRawFallback(s))
        \/ Become(s)
    BY <1>5, <2>1 DEF RewriteError, SameWords
  <2> HIDE DEF s
  <2>3. CASE Become(s)
    <3>1. ctl' = s /\ CommandsKept
      BY <2>3, Sends
    <3>2. Turns(ctl, ctl')
      BY <2>1, <3>1 DEF Turns
    <3> QED
      BY <1>1, <2>1, <3>1, <3>2, CallTurns
  <2>4. CASE /\ ctl.mode = "Finalizing" /\ ctl.raw # {}
             /\ Become(CompleteWithRawFallback(s))
    <3>1. Completes(ctl, CompleteWithRawFallback(s))
      BY <1>1, <2>1, <2>4, FallbackCompletes DEF SameWords
    <3>2. CommandsKept /\ Completes(ctl, ctl')
      BY <2>4, <3>1, Sends
    <3> QED
      BY <1>5, <2>4, <3>2, CallCompletes
  <2> QED
    BY <2>2, <2>3, <2>4
<1> QED
  BY <1>2, <1>3, <1>4, <1>5 DEF HandleRewriteMessage

\* Nothing is queued and nothing is said: only the window and the UI thread may differ.
LEMMA WindowKept ==
  ASSUME TypeOK, KeptInv, UNCHANGED <<stdin, stdout, ctl, asr, said, inserted, cancelled>>,
         sessionActive' => sessionActive,
         ui.pc = "toggle" => ui'.pc = "toggle",
         ui.op = "asr_device" => ui'.op = "asr_device"
  PROVE  KeptInv'
<1>1. CommandsKept /\ Turns(ctl, ctl') /\ Histories
  BY DEF CommandsKept, Turns, SameSessions, SameWords, Histories
<1> QED
  BY <1>1, CallTurns

\* toggle_recording() starts in silence, or stops.
LEMMA ToggleKept ==
  ASSUME TypeOK, WordsInv, LifecycleInv, KeptInv, UiToggle, UNCHANGED <<workerVars, used>>
  PROVE  KeptInv'
<1>1. /\ ctl \in Controller
      /\ UNCHANGED <<stdout, asr, said, sessionActive, cancelled, inserted>>
      /\ ToggleRecording /\ ui.op = "none" /\ Histories
  BY DEF UiToggle, TypeOK, ControllerTypeOK, hostVars, workerVars, LifecycleInv, PlacesInv,
         Histories
<1>2. CASE ctl.mode \in {"Ready", "Complete"}
  <2> DEFINE u == ClearTexts(ctl)
             s == [u EXCEPT !.dictation = {}, !.pending = FALSE]
  <2>1. StartSession(s)
    BY <1>1, <1>2 DEF ToggleRecording, StartDictation
  <2>2. /\ u \in Controller /\ u.raw = {} /\ u.active = NoRequest
        /\ u.segments = {} /\ ~u.confirm
        /\ u.lastSession = ctl.lastSession /\ u.cleanup = ctl.cleanup
    BY <1>1 DEF ClearTexts, ClearActiveRewrite, ResetTranscript, Controller, NoRequest
  <2> HIDE DEF u
  <2>3. /\ s \in Controller /\ s.raw = {} /\ s.active = NoRequest /\ s.dictation = {}
        /\ s.segments = {} /\ ~s.confirm
        /\ s.lastSession = ctl.lastSession /\ s.cleanup = ctl.cleanup
    BY <2>2 DEF Controller
  <2> HIDE DEF s
  <2>4. Silent(stdin["asr"], stdout["asr"], asr)
    BY <1>1, <1>2 DEF KeptInv, ModesInv, Silence
  <2>5. s.lastSession + 1 \notin said /\ ctl.lastSession \in Nat
    BY <1>1, <2>3 DEF Controller, KeptInv, NumbersInv
  <2>6. /\ Opens(s, ctl', {}) /\ SameWords(s, ctl') /\ ctl'.active = NoRequest
        /\ Flight(stdin'["asr"], stdout["asr"], asr, ctl'.lastSession, said)
    BY <2>1, <2>3, <2>4, <2>5, StartOpens
  <2>7. Opens(ctl, ctl', {}) /\ FlightInv'
    BY <1>1, <2>3, <2>6 DEF Opens, FlightInv
  <2>8. ctl'.raw = {} /\ ctl'.segments = {} /\ ~ctl'.confirm
    BY <2>3, <2>6 DEF SameWords
  <2>9. {} \in SUBSET Nat
    OBVIOUS
  <2> QED
    BY <1>1, <2>6, <2>7, <2>8, <2>9, OpenKept
<1>3. CASE ctl.mode = "Recording"
  <2> DEFINE f == [ctl EXCEPT !.mode = "Finalizing"]
  <2>1. Send("asr", ToAsr("stop", f), f, SetError(f)) /\ ToAsr("stop", f).type # "start"
    BY <1>1, <1>3 DEF ToggleRecording, ToAsr
  <2>2. /\ Turns(ctl, f) /\ f.mode = "Finalizing"
        /\ Turns(ctl, SetError(f)) /\ SetError(f).mode = "Error"
    BY <1>1 DEF Controller, SetError, Turns, SameSessions, SameWords
  <2> HIDE DEF f
  <2>3. CommandsKept /\ Turns(ctl, ctl') /\ ctl'.mode \in {"Finalizing", "Error"}
    BY <2>1, <2>2, Sends
  <2> QED
    BY <1>1, <1>3, <2>3, CallTurns DEF Resting
<1>4. CASE ctl.mode \notin {"Ready", "Complete", "Recording"}
  <2>1. CommandsKept /\ ctl' = ctl
    BY <1>1, <1>4, Sends DEF ToggleRecording
  <2>2. Turns(ctl, ctl')
    BY <2>1 DEF Turns, SameSessions, SameWords
  <2> QED
    BY <1>1, <1>4, <2>1, <2>2, CallTurns
<1> QED
  BY <1>2, <1>3, <1>4

\* cancel_recording() drops a complete dictation, or asks the worker to drop it.
LEMMA CancelKept ==
  ASSUME TypeOK, LifecycleInv, KeptInv, UiCancel, UNCHANGED <<workerVars, used>>
  PROVE  KeptInv'
<1>1. /\ ctl \in Controller /\ UNCHANGED <<stdout, asr, said, inserted>>
      /\ CancelRecording /\ ui.op = "none" /\ ui.pc # "toggle" /\ Histories /\ ~sessionActive'
  BY DEF UiCancel, TypeOK, ControllerTypeOK, workerVars, LifecycleInv, PlacesInv, Histories
<1>2. CASE ctl.mode = "Complete" /\ ctl.confirm
  <2> DEFINE s == [ClearTexts(ctl) EXCEPT !.mode = "Ready", !.session = NoSession,
                                          !.dictation = {}]
  <2>1. CommandsKept /\ ctl' = s
    BY <1>1, <1>2, Sends DEF CancelRecording
  <2>2. Drops(ctl, s)
    BY <1>1 DEF Controller, Drops, ClearTexts, ClearActiveRewrite, ResetTranscript
  <2> HIDE DEF s
  <2>3. Silence
    BY <1>2 DEF KeptInv, ModesInv
  <2>4. FlightInv' /\ Silence'
    BY <1>1, <2>1, <2>2, <2>3, StillFlow DEF Drops, KeptInv
  <2> QED
    BY <1>1, <2>1, <2>2, <2>4, DropKept
<1>3. CASE ctl.mode \in {"Recording", "StartingRecording"}
  <2> DEFINE c == [ctl EXCEPT !.mode = "Cancelling"]
  <2>1. Send("asr", ToAsr("cancel", c), c, SetError(c)) /\ ToAsr("cancel", c).type # "start"
    BY <1>1, <1>3 DEF CancelRecording, ToAsr
  <2>2. /\ Turns(ctl, c) /\ c.mode = "Cancelling"
        /\ Turns(ctl, SetError(c)) /\ SetError(c).mode = "Error"
    BY <1>1 DEF Controller, SetError, Turns, SameSessions, SameWords
  <2> HIDE DEF c
  <2>3. CommandsKept /\ Turns(ctl, ctl') /\ ctl'.mode \in {"Cancelling", "Error"}
    BY <2>1, <2>2, Sends
  <2> QED
    BY <1>1, <1>3, <2>3, CallTurns DEF Resting
<1>4. CASE /\ ~(ctl.mode = "Complete" /\ ctl.confirm)
           /\ ctl.mode \notin {"Recording", "StartingRecording"}
  <2>1. CommandsKept /\ ctl' = ctl
    BY <1>1, <1>4, Sends DEF CancelRecording
  <2>2. Turns(ctl, ctl')
    BY <2>1 DEF Turns, SameSessions, SameWords
  <2> QED
    BY <1>1, <2>1, <2>2, CallTurns
<1> QED
  BY <1>2, <1>3, <1>4

---------------------------------------------------------------------------
(* The steps of each actor.                                                *)

\* What is inserted is the complete dictation, which is spent from then on.
LEMMA InsertKept ==
  ASSUME TypeOK, KeptInv, InsertText, ctl.mode = "Complete",
         ~sessionActive', UNCHANGED <<stdin, stdout, ctl, ui, asr, said, cancelled>>
  PROVE  KeptInv'
<1> DEFINE Item == [dictation : SUBSET Nat, text : SUBSET Nat]
           item == [dictation |-> ctl.dictation, text |-> SnapshotText]
<1>1. inserted \in Seq(Item)
  BY DEF TypeOK, HostTypeOK
<1>2. inserted' = inserted \/ inserted' = Append(inserted, item)
  BY DEF InsertText
<1>3. item.dictation = ctl.dictation
  OBVIOUS
<1> HIDE DEF Item, item
<1>4. Promise!Delivered \subseteq Promise!Delivered'
      /\ Promise!Delivered' \subseteq Promise!Delivered \cup ctl.dictation
  BY <1>1, <1>2, <1>3 DEF Promise!Delivered
<1>5. FlightInv' /\ ModesInv' /\ OneSessionInv' /\ CoverInv'
  BY DEF KeptInv, FlightInv, ModesInv, OneSessionInv, CoverInv, Silence
<1>6. NumbersInv'
  BY <1>4 DEF KeptInv, NumbersInv
<1>7. Spent'
  BY DEF KeptInv, ModesInv, Spent, Silence, Resting
<1>8. DeliveryInv'
  BY <1>7 DEF DeliveryInv, Spent
<1> QED
  BY <1>5, <1>6, <1>8 DEF KeptInv

\* A new session of the window begins in a mode from which no dictation is completed.
LEMMA HotkeyStartKept ==
  ASSUME TypeOK, Undisturbed, BoundsInv, LifecycleInv, KeptInv, HotkeyStart,
         UNCHANGED workerVars
  PROVE  KeptInv'
<1>1. /\ UNCHANGED <<stdin, stdout, ctl, asr, said, inserted, cancelled>>
      /\ ui'.pc = "toggle" /\ ui'.op = "none" /\ ui.op = "none"
      /\ ctl.mode \in {"Ready", "Complete"}
  BY DEF HotkeyStart, Call, Idle, pipes, workerVars, LifecycleInv, PlacesInv
<1>2. FlightInv' /\ ModesInv' /\ NumbersInv' /\ OneSessionInv' /\ CoverInv'
  BY <1>1
  DEF KeptInv, FlightInv, ModesInv, NumbersInv, OneSessionInv, CoverInv, Silence,
      Promise!Delivered
<1>3. Silence /\ Silence'
  BY <1>1 DEF KeptInv, ModesInv, Silence
<1>4. ctl.dictation \cap cancelled # {} => ctl.active = NoRequest
  BY <1>1 DEF KeptInv, ModesInv, Undisturbed, BoundsInv
<1>5. DeliveryInv'
  BY <1>1, <1>3, <1>4 DEF KeptInv, DeliveryInv, Spent, Resting, Promise!Delivered
<1> QED
  BY <1>2, <1>5 DEF KeptInv

\* What the user does, one step per hotkey and setting.
LEMMA UserKept ==
  ASSUME TypeOK, Undisturbed, BoundsInv, LifecycleInv, WordsInv, KeptInv,
         UserStep, UNCHANGED workerVars
  PROVE  KeptInv'
<1>1. ctl \in Controller /\ UNCHANGED <<asr, said, loaded>>
  BY DEF TypeOK, ControllerTypeOK, workerVars
<1>2. Idle => ui.op = "none" /\ ui.pc # "toggle"
  BY DEF Idle, LifecycleInv, PlacesInv
<1>3. CASE HotkeyInsert
  BY <1>1, <1>3, InsertKept DEF HotkeyInsert, pipes
<1>4. CASE HotkeyStart
  BY <1>4, HotkeyStartKept
<1>5. CASE \/ HotkeyStop \/ HotkeyCancel \/ CloseWindow
           \/ \E w \in Workers : SelectCurrentDevice(w)
  BY <1>1, <1>2, <1>5, WindowKept
  DEF HotkeyStop, HotkeyCancel, CloseWindow, Quit, SelectCurrentDevice, pipes, hostVars
<1>6. CASE \E l \in Language : SelectLanguage(l)
  <2>1. PICK l \in Language : SelectLanguage(l)
    BY <1>6
  <2> DEFINE s == [ctl EXCEPT !.language = l]
  <2>2. /\ s \in Controller /\ SameSessions(ctl, s) /\ SameWords(ctl, s)
        /\ s.mode = ctl.mode /\ s.cleanup = ctl.cleanup /\ s.active = ctl.active
    BY <1>1 DEF Controller, SameSessions, SameWords
  <2>3. \/ s.mode \in {"Recording", "StartingRecording"} /\ StopForLanguageChange(s)
        \/ Become(s)
    BY <2>1 DEF SelectLanguage, SetLanguage
  <2> HIDE DEF s
  <2>4. /\ CommandsKept /\ Turns(ctl, ctl')
        /\ \/ ctl'.mode = ctl.mode
           \/ ctl.mode = "Recording" /\ ctl'.mode \in {"Finalizing", "Error"}
    <3>1. CASE Become(s)
      BY <2>2, <3>1, Sends DEF Turns, SameSessions, SameWords
    <3>2. CASE StopForLanguageChange(s)
      BY <2>2, <3>2, StopTurns DEF Turns, SameSessions, SameWords
    <3> QED
      BY <2>3, <3>1, <3>2
  <2>5. UNCHANGED <<stdout, ui, sessionActive>> /\ Histories
    BY <1>1, <2>1 DEF SelectLanguage, hostVars, Histories
  <2> QED
    BY <1>1, <2>4, <2>5, CallTurns DEF Resting
<1>7. CASE \E m \in CleanupModes : SelectCleanup(m)
  <2>1. PICK m \in CleanupModes : SelectCleanup(m)
    BY <1>7
  <2> DEFINE s == [ClearActiveRewrite(ctl) EXCEPT
                     !.cleanup = m, !.unavailable = FALSE,
                     !.rewriteReady = @ /\ m # "Off"]
  <2>2. CommandsKept /\ ctl' = s
    BY <2>1, Sends DEF SelectCleanup, SetCleanupMode
  <2>3. Turns(ctl, s) /\ s.mode = ctl.mode
    BY <1>1 DEF Controller, ClearActiveRewrite, Turns, SameSessions, SameWords
  <2> HIDE DEF s
  <2>4. UNCHANGED <<stdout, sessionActive>> /\ Histories /\ Idle
    BY <1>1, <2>1 DEF SelectCleanup, hostVars, Histories
  <2> QED
    BY <1>1, <1>2, <2>2, <2>3, <2>4, CallTurns
<1>8. CASE (\E d \in Device : SelectAsrDevice(d)) /\ Spend("settings", MaxSettings)
  <2>1. PICK d \in Device : SelectAsrDevice(d)
    BY <1>8
  <2>2. MaxSettings # 0
    BY <1>8, BoundsAssumption DEF Spend, BoundsInv, Counters
  <2> DEFINE s == [ctl EXCEPT !.device["asr"] = d, !.asrReady = FALSE, !.mode = "Starting"]
  <2>3. CommandsKept /\ ctl' = s
    BY <2>1, Sends DEF SelectAsrDevice, SetAsrDevice
  <2>4. Turns(ctl, s) /\ s.mode = "Starting"
    BY <1>1 DEF Controller, Turns, SameSessions, SameWords
  <2> HIDE DEF s
  <2>5. /\ UNCHANGED <<stdout, sessionActive>> /\ Histories /\ Idle
        /\ ui'.op = "asr_device"
    BY <1>1, <2>1 DEF SelectAsrDevice, SetAsrDevice, hostVars, Histories
  <2> QED
    BY <1>1, <1>2, <2>2, <2>3, <2>4, <2>5, CallTurns DEF Resting
<1>9. CASE \E d \in Device : SelectRewriteDevice(d)
  <2>1. PICK d \in Device : SelectRewriteDevice(d)
    BY <1>9
  <2> DEFINE s == [ctl EXCEPT !.device["rewrite"] = d]
             t == [ClearActiveRewrite(s) EXCEPT !.rewriteReady = FALSE, !.unavailable = FALSE]
  <2>2. Turns(ctl, s) /\ s.mode = ctl.mode
    BY <1>1 DEF Controller, Turns, SameSessions, SameWords
  <2>3. Turns(ctl, t) /\ t.mode = ctl.mode
    BY <1>1 DEF Controller, ClearActiveRewrite, Turns, SameSessions, SameWords
  <2>4. Become(s) \/ Become(t)
    BY <2>1 DEF SelectRewriteDevice, SetRewriteDevice
  <2> HIDE DEF s, t
  <2>5. CommandsKept /\ Turns(ctl, ctl') /\ ctl'.mode = ctl.mode
    BY <2>2, <2>3, <2>4, Sends
  <2>6. UNCHANGED <<stdout, sessionActive>> /\ Histories /\ Idle
    BY <1>1, <2>1 DEF SelectRewriteDevice, Histories
  <2> QED
    BY <1>1, <1>2, <2>5, <2>6, CallTurns
<1> QED
  BY <1>3, <1>4, <1>5, <1>6, <1>7, <1>8, <1>9 DEF UserStep

\* The speech worker is started with empty pipes and fresh memory: silence.
LEMMA SpawnKept ==
  ASSUME TypeOK, KeptInv, SpawnStep
  PROVE  KeptInv'
<1>1. /\ DOMAIN stdin = Workers /\ DOMAIN stdout = Workers /\ ui.pc = "spawn"
      /\ UNCHANGED <<ctl, said, inserted, cancelled, sessionActive>> /\ ctl' = ctl
  BY DEF SpawnStep, HostSpawn, UiSpawn, TypeOK, PipesTypeOK
<1>2. Histories /\ Turns(ctl, ctl')
  BY <1>1 DEF Histories, Turns, SameSessions, SameWords
<1>3. CASE OpWorker = "asr"
  <2>1. /\ stdin'["asr"] = <<>> /\ stdout'["asr"] = <<>> /\ asr'.state = "Loading"
    BY <1>1, <1>3 DEF SpawnStep, HostSpawn, UiSpawn, Spawn, FreshAsr, Workers
  <2>2. \A i \in DOMAIN <<>> : FALSE
    OBVIOUS
  <2> DEFINE q == <<>>
  <2> HIDE DEF q
  <2>3. Silent(q, q, asr')
    BY <2>1, <2>2 DEF Silent, NoStart, NoTidings, q
  <2>4. Silence'
    BY <2>1, <2>3 DEF Silence, q
  <2>5. FlightInv'
    BY <2>4, FlightSilent DEF Silence, FlightInv
  <2> QED
    BY <1>1, <1>2, <2>4, <2>5, TurnKept
<1>4. CASE OpWorker # "asr"
  <2>1. OpWorker = "rewrite" /\ ui.op # "asr_device"
    BY <1>4 DEF OpWorker
  <2>2. /\ stdin'["asr"] = stdin["asr"] /\ stdout'["asr"] = stdout["asr"] /\ asr' = asr
    BY <1>1, <2>1 DEF SpawnStep, HostSpawn, UiSpawn, Spawn, Workers
  <2> QED
    BY <1>1, <1>2, <2>1, <2>2, CallTurns DEF CommandsKept
<1> QED
  BY <1>3, <1>4

\* A process that ends on the speech worker's side loses its commands.
LEMMA ExitKept ==
  ASSUME TypeOK, WordsInv, KeptInv, NEW w \in Workers, Exit(w),
         UNCHANGED <<stdout, ctl, ui, hostVars, asr, said>>
  PROVE  KeptInv'
<1>1. stdin'["asr"] = stdin["asr"] \/ stdin'["asr"] = <<>>
  BY DEF Exit, TypeOK, PipesTypeOK, Workers
<1>2. FlightInv' /\ (Silence => Silence')
  BY <1>1, FlightEnds DEF KeptInv, FlightInv, Silence
<1>3. {} \in SUBSET {asr.session} /\ said' = said \cup {}
  OBVIOUS
<1> QED
  BY <1>2, <1>3, WorkerKept

\* The calls of the UI thread, one step per place.
LEMMA UiKept ==
  ASSUME TypeOK, LifecycleInv, WordsInv, KeptInv, UiStep, UNCHANGED <<workerVars, used>>
  PROVE  KeptInv'
<1>1. ctl \in Controller /\ UNCHANGED <<asr, said>>
  BY DEF TypeOK, ControllerTypeOK, workerVars
<1>2. CASE UiSendShutdown /\ UNCHANGED hostVars
  <2>1. ShutdownCommand("asr").type # "start"
    BY DEF ShutdownCommand
  <2>2. CommandsKept /\ ctl' = ctl
    <3>1. Send("asr", ShutdownCommand("asr"), ctl, ctl)
          \/ Send("rewrite", ShutdownCommand("rewrite"), ctl, ctl)
      BY <1>2 DEF UiSendShutdown, OpWorker
    <3> QED
      BY <2>1, <3>1, Sends
  <2>3. Turns(ctl, ctl') /\ UNCHANGED <<stdout, sessionActive>> /\ Histories
    BY <1>1, <1>2, <2>2
    DEF UiSendShutdown, Turns, SameSessions, SameWords, Histories, hostVars
  <2>4. ui.pc # "toggle" /\ (ui.op = "asr_device" => ui'.op = "asr_device")
    BY <1>2 DEF UiSendShutdown, TypeOK, ControllerTypeOK
  <2> QED
    BY <1>1, <2>2, <2>3, <2>4, CallTurns
<1>3. CASE (UiCheckRunning \/ UiCloseInput \/ UiJoin) /\ UNCHANGED hostVars
  <2>1. UNCHANGED <<stdin, stdout, ctl>> /\ ui.pc # "toggle"
    BY <1>3 DEF UiCheckRunning, UiCloseInput, CloseInput, UiJoin, Join, pipes
  <2>2. ui.op = "asr_device" => ui'.op = "asr_device"
    BY <1>3
    DEF UiCheckRunning, UiCloseInput, UiJoin, UiIdle, TypeOK, ControllerTypeOK, LifecycleInv,
        PlacesInv
  <2> QED
    BY <1>1, <1>3, <2>1, <2>2, WindowKept DEF hostVars
<1>4. CASE UiTerminate /\ UNCHANGED hostVars
  BY <1>1, <1>4, OpWorkerTyped, ExitKept DEF UiTerminate
<1>5. CASE HostSpawnFails
  <2>1. ui.pc = "spawn" /\ UNCHANGED <<stdin, stdout, sessionActive, inserted, cancelled>>
    BY <1>5 DEF HostSpawnFails, UiSpawnFails, pipes
  <2>2. /\ Turns(ctl, ctl')
        /\ \/ ctl'.mode = "Error"
           \/ ctl'.mode = ctl.mode /\ ui.op # "asr_device"
    BY <1>1, <1>5
    DEF HostSpawnFails, UiSpawnFails, Controller, SetError, OpWorker, Turns, SameSessions,
        SameWords
  <2>3. CommandsKept /\ Histories
    BY <1>1, <2>1 DEF CommandsKept, Histories
  <2> QED
    BY <1>1, <2>1, <2>2, <2>3, CallTurns DEF Resting
<1> QED
  BY <1>2, <1>3, <1>4, <1>5, ToggleKept, CancelKept DEF UiStep

\* The main loop: a cleanup request is given up, or a raw result is inserted.
LEMMA LoopKept ==
  ASSUME TypeOK, Plain, LifecycleInv, WordsInv, WordsInv', KeptInv, LoopStep,
         UNCHANGED <<workerVars, used>>
  PROVE  KeptInv'
<1>1. ctl \in Controller /\ UNCHANGED <<asr, said, loaded>>
  BY DEF TypeOK, ControllerTypeOK, workerVars
<1>2. CASE HostTick
  <2> DEFINE s == ClearActiveRewrite(ctl)
  <2>1. /\ s \in Controller /\ SameSessions(ctl, s) /\ s.segments = ctl.segments
        /\ s.raw = ctl.raw /\ s.cleanup = ctl.cleanup /\ s.active = NoRequest
    BY <1>1 DEF Controller, SameSessions, ClearActiveRewrite, NoRequest
  <2> HIDE DEF s
  <2>2. ctl.active # NoRequest /\ Become(CompleteWithRawFallback(s))
        /\ UNCHANGED <<stdout, ui, hostVars>>
    BY <1>2 DEF HostTick, Tick, s
  <2>3. ctl.cleanup = "Ai" /\ ctl.raw # {}
    BY <1>1, <2>2 DEF KeptInv, ModesInv, OneSessionInv, Plain, Controller, CleanupModes
  <2>4. CommandsKept /\ Completes(ctl, ctl')
    BY <1>1, <2>1, <2>2, <2>3, FallbackCompletes, Sends
  <2> QED
    BY <1>1, <2>2, <2>3, <2>4, CallCompletes
<1>3. CASE HostPoll
  <2>1. UNCHANGED <<stdin, stdout, ctl, ui, cancelled>>
    BY <1>3 DEF HostPoll, pipes
  <2>2. \/ InsertText /\ ctl.mode = "Complete" /\ ~sessionActive'
        \/ UNCHANGED inserted /\ (sessionActive' => sessionActive)
    BY <1>3 DEF HostPoll
  <2>3. CASE InsertText /\ ctl.mode = "Complete" /\ ~sessionActive'
    BY <1>1, <2>1, <2>3, InsertKept
  <2>4. CASE UNCHANGED inserted /\ (sessionActive' => sessionActive)
    BY <1>1, <2>1, <2>4, WindowKept
  <2> QED
    BY <2>2, <2>3, <2>4
<1> QED
  BY <1>2, <1>3 DEF LoopStep

---------------------------------------------------------------------------
(* The reader threads, and the cleanup worker.                             *)

\* The reader thread of the speech worker hands its handler the next event, or
\* reports the end of the process, which tells of no session.
LEMMA AsrReaderKept ==
  ASSUME TypeOK, WordsInv, WordsInv', BoundsInv, Plain, KeptInv, AsrReader,
         UNCHANGED <<workerVars, used>>
  PROVE  KeptInv'
<1> DEFINE cs == stdin["asr"]
           es == stdout["asr"]
           n == ctl.lastSession
<1>1. /\ UNCHANGED <<asr, said, hostVars>> /\ es \in Seq(AsrEvent) /\ DOMAIN stdout = Workers
      /\ Flight(cs, es, asr, n, said) /\ Silence = Silent(cs, es, asr)
  BY AsrQueues
  DEF AsrReader, workerVars, TypeOK, PipesTypeOK, KeptInv, FlightInv, Silence
<1>2. CASE AsrReaderLine
  <2>1. es # <<>> /\ stdout'["asr"] = Tail(es) /\ Head(es) \in AsrEvent
    BY <1>1, <1>2 DEF AsrReaderLine, NextLine, Workers
  <2>2. Arrives(Head(es))
    <3> HIDE DEF cs, es, n
    <3>1. Arrives(Head(es)) <=>
            /\ Flight(cs, Tail(es), asr, n, said)
            /\ Silence => Silent(cs, Tail(es), asr)
            /\ Closes(Head(es)) => Silent(cs, Tail(es), asr)
            /\ Tells(Head(es)) => ~Silence /\ Head(es).session = n
            /\ Head(es).type = "recording_finalized" /\ n \in said => n \in Head(es).text
      BY <2>1 DEF Arrives, cs, n
    <3> QED
      BY <1>1, <2>1, <3>1, FlightPop
  <2> QED
    BY <1>1, <1>2, <2>1, <2>2, AsrHandlerKept DEF AsrReaderLine
<1>3. CASE AsrReaderReport
  <2> DEFINE m == AsrFailure("WORKER_EXITED", NoSession)
  <2>1. m \in AsrEvent /\ ~Tells(m) /\ ~Closes(m) /\ m.type = "error"
    BY DEF AsrFailure, AsrEvent, ErrorCode, NoSession, Tells, Closes
  <2>2. HandleAsrMessage(m) /\ UNCHANGED <<stdout, ui>>
    BY <1>3 DEF AsrReaderReport, LastReport
  <2> HIDE DEF m
  <2>3. Arrives(m)
    BY <1>1, <2>1, <2>2 DEF Arrives
  <2> QED
    BY <1>1, <2>1, <2>2, <2>3, AsrHandlerKept
<1>4. CASE ReaderEnds("asr")
  <2>1. UNCHANGED <<stdout, ctl, ui>> /\ UNCHANGED stdin
    BY <1>4 DEF ReaderEnds, ReaderEof
  <2> QED
    BY <1>1, <2>1, WindowKept DEF hostVars
<1> QED
  BY <1>2, <1>3, <1>4 DEF AsrReader

\* The reader thread of the cleanup worker touches nothing of the speech worker.
LEMMA RewriteReaderKept ==
  ASSUME TypeOK, WordsInv, WordsInv', Plain, KeptInv, RewriteReader,
         UNCHANGED <<workerVars, used>>
  PROVE  KeptInv'
<1>1. UNCHANGED <<asr, said, hostVars>> /\ DOMAIN stdout = Workers
  BY DEF RewriteReader, workerVars, TypeOK, PipesTypeOK
<1>2. CASE RewriteReaderLine
  <2> DEFINE q == stdout["rewrite"]
  <2>1. /\ q \in Seq(RewriteEvent) /\ q # <<>> /\ stdout'["asr"] = stdout["asr"]
    BY <1>1, <1>2 DEF RewriteReaderLine, NextLine, TypeOK, PipesTypeOK, Workers
  <2>2. Head(q) \in RewriteEvent /\ Head(q) = q[1] /\ 1 \in DOMAIN q
    BY <2>1
  <2>3. KnownRequest(Head(q), ctl)
    BY <2>2 DEF WordsInv, AnswersOwn
  <2> QED
    BY <1>1, <1>2, <2>1, <2>2, <2>3, RewriteHandlerKept DEF RewriteReaderLine
<1>3. CASE RewriteReaderReport
  <2> DEFINE m == RewriteFailure("WORKER_EXITED", NoRequest)
  <2>1. m \in RewriteEvent
    BY DEF RewriteFailure, RewriteEvent, ErrorCode, NoRequest
  <2>2. KnownRequest(m, ctl)
    BY Base DEF RewriteFailure, KnownRequest, NoRequest, Controller
  <2>3. HandleRewriteMessage(m) /\ UNCHANGED <<stdout, ui>>
    BY <1>3 DEF RewriteReaderReport, LastReport
  <2> HIDE DEF m
  <2> QED
    BY <1>1, <2>1, <2>2, <2>3, RewriteHandlerKept
<1>4. CASE ReaderEnds("rewrite")
  <2>1. UNCHANGED <<stdout, ctl, ui, stdin>>
    BY <1>4 DEF ReaderEnds, ReaderEof
  <2> QED
    BY <1>1, <2>1, WindowKept DEF hostVars
<1> QED
  BY <1>2, <1>3, <1>4 DEF RewriteReader

\* The cleanup worker reads and writes its own pipes.
LEMMA RewriteStepKept ==
  ASSUME TypeOK, KeptInv, RewriteStep
  PROVE  KeptInv'
<1>1. UNCHANGED <<ctl, ui, hostVars, asr, said>>
  BY DEF RewriteStep
<1>2. stdin'["asr"] = stdin["asr"] /\ stdout'["asr"] = stdout["asr"]
  BY DEF RewriteStep, RewriteWorkerStep, RewriteLoadModel, RewriteLoadFails, RewriteAnswer,
         RewriteAnswerFails, RewriteQuit, ReadRequest, EmitRewrite, Exit, TypeOK, PipesTypeOK,
         Workers
<1>3. CommandsKept /\ Turns(ctl, ctl') /\ Histories
  BY <1>1, <1>2 DEF CommandsKept, Turns, SameSessions, SameWords, Histories, hostVars
<1> QED
  BY <1>1, <1>2, <1>3, CallTurns DEF hostVars

---------------------------------------------------------------------------
(* What the bounds rule out stays ruled out.                               *)

\* A step that chooses no cleanup mode and no language.
Steady(r, s) == s.cleanup = r.cleanup /\ (s.pending => r.pending)

\* Whether or not a command can be sent, and when no more is done.
LEMMA SendSteady ==
  ASSUME NEW r, NEW s, NEW failed, Steady(r, s)
  PROVE  /\ Become(s) => Steady(r, ctl')
         /\ Steady(r, failed) => \A w, c : Send(w, c, s, failed) => Steady(r, ctl')
BY DEF Become, Send

\* A cleanup request is sent, or cannot be.
LEMMA DispatchSteady ==
  ASSUME NEW r, NEW s \in Controller, Steady(r, s), DispatchFinalCleanup(s)
  PROVE  Steady(r, ctl')
<1> DEFINE id == s.lastRequest + 1
           t == [s EXCEPT !.lastRequest = id, !.active = id]
           dead == [ClearActiveRewrite(t) EXCEPT
                      !.unavailable = @ \/ ~running["rewrite"],
                      !.rewriteReady = @ /\ running["rewrite"]]
<1>1. Steady(r, t) /\ Steady(r, CompleteWithRawFallback(dead))
  BY DEF Controller, Steady, ClearActiveRewrite, CompleteWithRawFallback
<1>2. \/ Become(s)
      \/ Send("rewrite", [type |-> "rewrite", request |-> id, text |-> s.raw],
              t, CompleteWithRawFallback(dead))
  BY DEF DispatchFinalCleanup
<1> HIDE DEF id, t, dead
<1> QED
  BY <1>1, <1>2, SendSteady

\* The final transcript is there: complete, or sent for cleanup.
LEMMA FinishSteady ==
  ASSUME NEW r, NEW s \in Controller, Steady(r, s), FinishDictation(s)
  PROVE  Steady(r, ctl')
<1> DEFINE t == ClearActiveRewrite(s)
           ai == [t EXCEPT !.confirm = TRUE]
           off == [t EXCEPT !.rewritten = t.raw, !.live = t.raw,
                            !.confirm = FALSE, !.mode = "Complete"]
<1>1. t.cleanup \in CleanupModes /\ t.unavailable \in BOOLEAN /\ t.rewriteReady \in BOOLEAN
  BY DEF Controller, ClearActiveRewrite
<1>2. ai \in Controller
  BY DEF Controller, ClearActiveRewrite, NoRequest
<1>3. Steady(r, ai) /\ Steady(r, off) /\ Steady(r, CompleteWithRawFallback(ai))
  BY DEF Controller, Steady, ClearActiveRewrite, CompleteWithRawFallback
<1>4. \/ Become(CompleteWithRawFallback(ai))
      \/ DispatchFinalCleanup(ai)
      \/ Become(ai)
      \/ Become(off)
  BY <1>1 DEF FinishDictation, CleanupModes
<1> HIDE DEF t, ai, off
<1> QED
  BY <1>2, <1>3, <1>4, SendSteady, DispatchSteady

\* A new session is numbered.
LEMMA StartSteady ==
  ASSUME NEW r, NEW s \in Controller, Steady(r, s), StartSession(s)
  PROVE  Steady(r, ctl')
<1> DEFINE id == s.lastSession + 1
           t == [s EXCEPT !.hypothesis = {}, !.session = id, !.lastSession = id,
                          !.dictation = @ \cup {id}, !.mode = "StartingRecording"]
           failed == SetError([t EXCEPT !.pending = FALSE])
<1>1. Steady(r, t) /\ Steady(r, failed)
  BY DEF Controller, Steady, SetError
<1>2. Send("asr", ToAsr("start", t), t, failed)
  BY DEF StartSession
<1> HIDE DEF t, failed
<1> QED
  BY <1>1, <1>2, SendSteady

\* handle_asr_message(): a language that is pending was chosen before.
LEMMA AsrHandlerSteady ==
  ASSUME ctl \in Controller, NEW m \in AsrEvent, HandleAsrMessage(m)
  PROVE  Steady(ctl, ctl')
<1>1. CASE Become(ctl)
  BY <1>1 DEF Become, Steady
<1>2. CASE AsrReady(m) \/ TranscriptUpdate(m) \/ AsrError(m)
  BY <1>2
  DEF AsrReady, TranscriptUpdate, AsrError, Become, UpdateReadyState, RefreshTranscript,
      SetError, Controller, Steady
<1>3. CASE RecordingCancelled(m)
  BY <1>3
  DEF RecordingCancelled, Become, ClearTexts, ClearActiveRewrite, ResetTranscript,
      Controller, Steady
<1>4. CASE RecordingStarted(m) /\ m.session = ctl.session
  <2> DEFINE s == [ctl EXCEPT !.mode = "Recording"]
  <2>1. CASE ~ctl.pending
    BY <1>4, <2>1 DEF RecordingStarted, Become, Controller, Steady
  <2>2. CASE ctl.pending
    <3>1. StopForLanguageChange(s)
      BY <1>4, <2>2 DEF RecordingStarted, Controller
    <3>2. Steady(ctl, ctl') <=> ctl'.cleanup = ctl.cleanup
      BY <2>2 DEF Steady
    <3>3. s \in Controller /\ s.cleanup = ctl.cleanup
      BY DEF Controller, Modes
    <3> HIDE DEF s
    <3> QED
      BY <3>1, <3>2, <3>3 DEF StopForLanguageChange, Send, Become, SetError, Controller
  <2> QED
    BY <2>1, <2>2 DEF Controller
<1>5. CASE RecordingFinalized(m) /\ m.session = ctl.session
  <2> DEFINE t == [ctl EXCEPT !.segments = @ \cup m.text, !.hypothesis = {}]
             s == RefreshTranscript([t EXCEPT !.raw = RawText(t)])
             q == [s EXCEPT !.pending = FALSE]
             e == [ClearActiveRewrite(s) EXCEPT !.mode = "Complete"]
  <2>1. s \in Controller
    BY DEF Controller, RefreshTranscript, RawText, AsrEvent
  <2>2. Steady(ctl, s)
    BY DEF Controller, RefreshTranscript, Steady
  <2>3. s.pending \in BOOLEAN
    BY <2>1 DEF Controller
  <2>4. StartSession(q) \/ Become(e) \/ FinishDictation(s)
    BY <1>5, <2>3 DEF RecordingFinalized
  <2> HIDE DEF s
  <2>5. q \in Controller /\ Steady(ctl, q) /\ Steady(ctl, e)
    BY <2>1, <2>2 DEF Controller, Steady, ClearActiveRewrite
  <2> HIDE DEF q, e
  <2> QED
    BY <2>1, <2>2, <2>4, <2>5, SendSteady, StartSteady, FinishSteady
<1> QED
  BY <1>1, <1>2, <1>3, <1>4, <1>5
  DEF HandleAsrMessage, RecordingStarted, TranscriptUpdate, RecordingFinalized

\* handle_rewrite_message() chooses nothing.
LEMMA RewriteHandlerSteady ==
  ASSUME ctl \in Controller, NEW m \in RewriteEvent, HandleRewriteMessage(m)
  PROVE  Steady(ctl, ctl')
<1>1. CASE Become(ctl)
  BY <1>1 DEF Become, Steady
<1>2. CASE RewriteReady(m)
  <2> DEFINE s == [ctl EXCEPT !.unavailable = FALSE, !.rewriteReady = TRUE]
  <2>1. s \in Controller /\ Steady(ctl, s)
    BY DEF Controller, Steady
  <2>2. Become(s) \/ DispatchFinalCleanup(s)
    BY <1>2 DEF RewriteReady
  <2> HIDE DEF s
  <2> QED
    BY <2>1, <2>2, SendSteady, DispatchSteady
<1>3. CASE RewriteCompleted(m) \/ RewriteError(m)
  BY <1>3
  DEF RewriteCompleted, RewriteError, Become, ClearActiveRewrite, CompleteWithRawFallback,
      Controller, Steady
<1> QED
  BY <1>1, <1>2, <1>3 DEF HandleRewriteMessage

\* The calls of the UI thread and of the timer choose nothing.
LEMMA CallsSteady ==
  ASSUME ctl \in Controller,
         ToggleRecording \/ CancelRecording \/ Tick \/ UiSpawnFails
           \/ UiSendShutdown \/ UNCHANGED ctl
  PROVE  Steady(ctl, ctl')
<1>1. CASE ToggleRecording
  <2> DEFINE f == [ctl EXCEPT !.mode = "Finalizing"]
             d == [ClearTexts(ctl) EXCEPT !.dictation = {}, !.pending = FALSE]
  <2>1. Steady(ctl, f) /\ Steady(ctl, SetError(f)) /\ Steady(ctl, ctl)
    BY DEF Controller, Steady, SetError
  <2>2. d \in Controller /\ Steady(ctl, d)
    BY DEF Controller, Steady, ClearTexts, ClearActiveRewrite, ResetTranscript, NoRequest
  <2>3. \/ StartSession(d)
        \/ Send("asr", ToAsr("stop", f), f, SetError(f))
        \/ Become(ctl)
    BY <1>1 DEF ToggleRecording, StartDictation
  <2> HIDE DEF f, d
  <2> QED
    BY <2>1, <2>2, <2>3, SendSteady, StartSteady
<1>2. CASE CancelRecording
  <2> DEFINE c == [ctl EXCEPT !.mode = "Cancelling"]
             d == [ClearTexts(ctl) EXCEPT !.mode = "Ready", !.session = NoSession,
                                          !.dictation = {}]
  <2>1. Steady(ctl, c) /\ Steady(ctl, SetError(c)) /\ Steady(ctl, ctl)
    BY DEF Controller, Steady, SetError
  <2>2. Steady(ctl, d)
    BY DEF Controller, Steady, ClearTexts, ClearActiveRewrite, ResetTranscript
  <2>3. \/ Become(d)
        \/ Send("asr", ToAsr("cancel", c), c, SetError(c))
        \/ Become(ctl)
    BY <1>2 DEF CancelRecording
  <2> HIDE DEF c, d
  <2> QED
    BY <2>1, <2>2, <2>3, SendSteady
<1>3. CASE Tick
  BY <1>3 DEF Tick, Become, ClearActiveRewrite, CompleteWithRawFallback, Controller, Steady
<1>4. CASE UiSpawnFails
  BY <1>4 DEF UiSpawnFails, SetError, Controller, Steady
<1>5. CASE UiSendShutdown \/ UNCHANGED ctl
  BY <1>5 DEF UiSendShutdown, Send, Become, Steady
<1> QED
  BY <1>1, <1>2, <1>3, <1>4, <1>5

\* Only a language that is selected becomes pending, and only a setting changes the
\* cleanup mode.
LEMMA StepSteady ==
  ASSUME TypeOK, BoundsInv, [Next]_vars
  PROVE  /\ MaxLanguageChanges = 0 /\ ctl'.pending => ctl.pending
         /\ MaxSettings = 0 => ctl'.cleanup = ctl.cleanup
<1> DEFINE Goal == /\ MaxLanguageChanges = 0 /\ ctl'.pending => ctl.pending
                   /\ MaxSettings = 0 => ctl'.cleanup = ctl.cleanup
<1>1. ctl \in Controller
  BY DEF TypeOK, ControllerTypeOK
<1>2. Steady(ctl, ctl') => Goal
  BY DEF Steady
<1>3. CASE UserStep
  <2>1. used["languages"] \in Nat /\ used["settings"] \in Nat
    BY DEF BoundsInv, Counters
  <2>2. ASSUME NEW l \in Language, SelectLanguage(l), Spend("languages", MaxLanguageChanges)
        PROVE  Goal
    <3>1. MaxLanguageChanges # 0
      BY <2>1, <2>2, BoundsAssumption DEF Spend
    <3> DEFINE s == [ctl EXCEPT !.language = l]
    <3>2. s \in Controller /\ s.cleanup = ctl.cleanup
      BY <1>1 DEF Controller
    <3>3. StopForLanguageChange(s) \/ Become(s)
      BY <2>2 DEF SelectLanguage, SetLanguage
    <3> HIDE DEF s
    <3>4. ctl'.cleanup = ctl.cleanup
      BY <3>2, <3>3 DEF StopForLanguageChange, Send, Become, SetError, Controller
    <3> QED
      BY <3>1, <3>4
  <2>3. ASSUME NEW m, SelectCleanup(m), Spend("settings", MaxSettings) PROVE Goal
    <3>1. MaxSettings # 0
      BY <2>1, <2>3, BoundsAssumption DEF Spend
    <3>2. ctl'.pending = ctl.pending
      BY <1>1, <2>3 DEF SelectCleanup, SetCleanupMode, Become, ClearActiveRewrite, Controller
    <3> QED
      BY <3>1, <3>2
  <2>4. ASSUME NEW d, SelectAsrDevice(d) \/ SelectRewriteDevice(d) PROVE Goal
    <3>1. Steady(ctl, ctl')
      BY <1>1, <2>4
      DEF SelectAsrDevice, SetAsrDevice, SelectRewriteDevice, SetRewriteDevice, Become,
          ClearActiveRewrite, Controller, Steady
    <3> QED
      BY <1>2, <3>1
  <2>5. CASE HotkeyInsert \/ HotkeyStart \/ HotkeyStop \/ HotkeyCancel \/ CloseWindow
               \/ \E w \in Workers : SelectCurrentDevice(w)
    <3>1. UNCHANGED ctl
      BY <2>5 DEF HotkeyInsert, HotkeyStart, HotkeyStop, HotkeyCancel, CloseWindow, Quit,
                  SelectCurrentDevice
    <3> QED
      BY <1>1, <1>2, <3>1, CallsSteady
  <2> QED
    BY <1>3, <2>2, <2>3, <2>4, <2>5 DEF UserStep
<1>4. CASE UiStep \/ LoopStep \/ SpawnStep
  <2>1. \/ ToggleRecording \/ CancelRecording \/ Tick \/ UiSpawnFails
        \/ UiSendShutdown \/ UNCHANGED ctl
    BY <1>4
    DEF UiStep, LoopStep, SpawnStep, UiToggle, UiCancel, UiCheckRunning, UiCloseInput,
        UiTerminate, UiJoin, HostSpawnFails, HostTick, HostPoll, HostSpawn, UiSpawn
  <2> QED
    BY <1>1, <1>2, <2>1, CallsSteady
<1>5. CASE AsrReader
  <2>1. stdout["asr"] # <<>> => Head(stdout["asr"]) \in AsrEvent
    BY DEF TypeOK, PipesTypeOK
  <2>2. AsrFailure("WORKER_EXITED", NoSession) \in AsrEvent
    BY DEF AsrFailure, AsrEvent, ErrorCode, NoSession
  <2>3. (\E m \in AsrEvent : HandleAsrMessage(m)) \/ UNCHANGED ctl
    BY <1>5, <2>1, <2>2
    DEF AsrReader, AsrReaderLine, NextLine, AsrReaderReport, ReaderEnds
  <2> QED
    BY <1>1, <1>2, <2>3, AsrHandlerSteady, CallsSteady
<1>6. CASE RewriteReader
  <2>1. stdout["rewrite"] # <<>> => Head(stdout["rewrite"]) \in RewriteEvent
    BY DEF TypeOK, PipesTypeOK
  <2>2. RewriteFailure("WORKER_EXITED", NoRequest) \in RewriteEvent
    BY DEF RewriteFailure, RewriteEvent, ErrorCode, NoRequest
  <2>3. (\E m \in RewriteEvent : HandleRewriteMessage(m)) \/ UNCHANGED ctl
    BY <1>6, <2>1, <2>2
    DEF RewriteReader, RewriteReaderLine, NextLine, RewriteReaderReport, ReaderEnds
  <2> QED
    BY <1>1, <1>2, <2>3, RewriteHandlerSteady, CallsSteady
<1>7. CASE AsrMain \/ AsrFeeder \/ RewriteStep \/ Crash \/ Terminated \/ UNCHANGED vars
  <2>1. UNCHANGED ctl
    BY <1>7 DEF AsrMain, AsrFeeder, RewriteStep, Crash, Terminated, vars
  <2> QED
    BY <1>1, <1>2, <2>1, CallsSteady
<1> QED
  BY <1>3, <1>4, <1>5, <1>6, <1>7 DEF Next

\* A bound that is zero is never spent, and what needs it never happens.
LEMMA BoundsStep ==
  ASSUME TypeOK, LifecycleInv, BoundsInv, [Next]_vars
  PROVE  BoundsInv'
<1>1. used' \in [Counters -> Nat]
  <2>1. \/ UNCHANGED used
        \/ \E what \in Counters : used' = [used EXCEPT ![what] = @ + 1]
    BY DEF Next, vars, UserStep, SpawnStep, AsrMain, AsrFeeder, RewriteStep, Crash, Terminated,
           Spend, Counters
  <2> QED
    BY <2>1 DEF BoundsInv
<1>2. MaxLanguageChanges = 0 => ~ctl'.pending
  BY StepSteady DEF BoundsInv
<1>3. MaxCancels = 0 => cancelled' = {} /\ ui'.pc # "cancel"
  <2> SUFFICES ASSUME MaxCancels = 0 PROVE cancelled' = {} /\ ui'.pc # "cancel"
    OBVIOUS
  <2>1. used["cancels"] \in Nat /\ cancelled = {} /\ ui.pc # "cancel"
    BY DEF BoundsInv, Counters
  <2>2. CASE UserStep
    <3>1. ~Spend("cancels", MaxCancels)
      BY <2>1 DEF Spend
    <3>2. UNCHANGED cancelled
      BY <2>2, <3>1
      DEF UserStep, HotkeyInsert, HotkeyStart, HotkeyStop, SelectLanguage, SelectCleanup,
          SelectAsrDevice, SelectRewriteDevice, SelectCurrentDevice, CloseWindow, hostVars
    <3>3. ASSUME NEW x, SelectCleanup(x) \/ SelectAsrDevice(x) \/ SelectRewriteDevice(x)
                        \/ SelectLanguage(x) \/ SelectCurrentDevice(x)
          PROVE  ui'.pc # "cancel"
      BY <2>1, <3>3
      DEF SelectCleanup, SetCleanupMode, SelectAsrDevice, SetAsrDevice, SelectRewriteDevice,
          SetRewriteDevice, SelectLanguage, SelectCurrentDevice
    <3>4. CASE HotkeyInsert \/ HotkeyStart \/ HotkeyStop \/ CloseWindow
      BY <2>1, <3>2, <3>4 DEF HotkeyInsert, HotkeyStart, HotkeyStop, CloseWindow, Quit, Call
    <3> QED
      BY <2>1, <2>2, <3>1, <3>2, <3>3, <3>4 DEF UserStep
  <2>3. CASE UiStep \/ SpawnStep
    BY <2>1, <2>3
    DEF UiStep, SpawnStep, UiToggle, UiCancel, UiSendShutdown, UiCheckRunning, UiCloseInput,
        UiTerminate, UiJoin, HostSpawnFails, UiSpawnFails, HostSpawn, UiSpawn, UiIdle,
        hostVars, TypeOK, ControllerTypeOK
  <2>4. CASE ~(UserStep \/ UiStep \/ SpawnStep)
    <3>1. UNCHANGED <<ui, cancelled>>
      BY <2>4
      DEF Next, vars, hostVars, LoopStep, HostTick, HostPoll, AsrReader, AsrReaderLine,
          AsrReaderReport, ReaderEnds, RewriteReader, RewriteReaderLine, RewriteReaderReport,
          AsrMain, AsrFeeder, RewriteStep, Crash, Terminated
    <3> QED
      BY <2>1, <3>1
  <2> QED
    BY <2>2, <2>3, <2>4
<1>4. MaxSettings = 0 => ui'.op # "asr_device"
  <2> SUFFICES ASSUME MaxSettings = 0 PROVE ui'.op # "asr_device"
    OBVIOUS
  <2>1. used["settings"] \in Nat /\ ui.op # "asr_device"
    BY DEF BoundsInv, Counters
  <2>2. CASE UserStep
    <3>1. ~Spend("settings", MaxSettings)
      BY <2>1 DEF Spend
    <3> QED
      BY <2>1, <2>2, <3>1
      DEF UserStep, HotkeyInsert, HotkeyStart, HotkeyStop, HotkeyCancel, SelectLanguage,
          CloseWindow, Quit, Call
  <2>3. CASE UiStep \/ SpawnStep
    BY <2>1, <2>3
    DEF UiStep, SpawnStep, UiToggle, UiCancel, UiSendShutdown, UiCheckRunning, UiCloseInput,
        UiTerminate, UiJoin, HostSpawnFails, UiSpawnFails, HostSpawn, UiSpawn, UiIdle,
        TypeOK, ControllerTypeOK
  <2>4. CASE ~(UserStep \/ UiStep \/ SpawnStep)
    <3>1. UNCHANGED ui
      BY <2>4
      DEF Next, vars, LoopStep, HostTick, HostPoll, AsrReader, AsrReaderLine,
          AsrReaderReport, ReaderEnds, RewriteReader, RewriteReaderLine, RewriteReaderReport,
          AsrMain, AsrFeeder, RewriteStep, Crash, Terminated
    <3> QED
      BY <2>1, <3>1
  <2> QED
    BY <2>2, <2>3, <2>4
<1> QED
  BY <1>1, <1>2, <1>3, <1>4 DEF BoundsInv

---------------------------------------------------------------------------
(* The invariant holds in every reachable state.                           *)

\* At launch there is silence, and no dictation.
LEMMA PromiseInit == Init => PromiseInv
<1> SUFFICES ASSUME Init PROVE PromiseInv
  OBVIOUS
<1> DEFINE q == <<>>
<1>1. /\ stdin["asr"] = q /\ stdout["asr"] = q /\ asr.state = "Loading"
      /\ inserted = q /\ cancelled = {} /\ said = {} /\ ~sessionActive
      /\ ui.op = "launch_asr" /\ ui.pc = "spawn"
  BY DEF Init, PipesInit, HostInit, FreshAsr, Workers
<1>2. /\ ctl.mode = "Starting" /\ ctl.session = NoSession /\ ctl.lastSession = 0
      /\ ctl.dictation = {} /\ ctl.raw = {} /\ ctl.segments = {} /\ ~ctl.confirm
      /\ ctl.active = NoRequest /\ ~ctl.pending
  BY DEF Init, ControllerInit
<1>3. \A i \in DOMAIN q : FALSE
  OBVIOUS
<1> HIDE DEF q
<1>4. Silence
  BY <1>1, <1>3 DEF Silence, Silent, NoStart, NoTidings
<1>5. FlightInv
  BY <1>4, FlightSilent DEF Silence, FlightInv
<1>6. Promise!Delivered = {}
  BY <1>1, <1>3 DEF Promise!Delivered
<1>7. ModesInv /\ NumbersInv /\ OneSessionInv /\ CoverInv /\ DeliveryInv
  BY <1>1, <1>2, <1>4, <1>6
  DEF ModesInv, NumbersInv, OneSessionInv, CoverInv, DeliveryInv, Spent, Resting
<1>8. used \in [Counters -> Nat]
  BY DEF Init, Counters
<1> QED
  BY <1>1, <1>2, <1>5, <1>7, <1>8 DEF PromiseInv, BoundsInv, KeptInv

\* One step per component of the system.
LEMMA PromiseStep ==
  ASSUME Undisturbed, TypeOK, LifecycleInv, WordsInv, PromiseInv, [Next]_vars
  PROVE  PromiseInv'
<1>1. WordsInv' /\ BoundsInv'
  BY WordsStep, BoundsStep DEF PromiseInv
<1> SUFFICES ASSUME Plain' PROVE KeptInv'
  BY <1>1 DEF PromiseInv
<1>2. Plain /\ KeptInv /\ BoundsInv
  BY StepSteady DEF PromiseInv, Plain, Undisturbed
<1>3. CASE UserStep /\ UNCHANGED workerVars
  BY <1>2, <1>3, UserKept
<1>4. CASE (UiStep \/ LoopStep) /\ UNCHANGED <<workerVars, used>>
  BY <1>1, <1>2, <1>4, UiKept, LoopKept
<1>5. CASE (AsrReader \/ RewriteReader) /\ UNCHANGED <<workerVars, used>>
  BY <1>1, <1>2, <1>5, AsrReaderKept, RewriteReaderKept
<1>6. CASE SpawnStep
  BY <1>2, <1>6, SpawnKept
<1>7. CASE AsrMain \/ AsrFeeder \/ RewriteStep
  BY <1>2, <1>7, AsrMainKept, AsrFeederKept, RewriteStepKept
<1>8. CASE Crash
  <2>1. PICK w \in Workers : Exit(w)
    BY <1>8 DEF Crash
  <2> QED
    BY <1>2, <1>8, <2>1, ExitKept DEF Crash, workerVars
<1>9. CASE Terminated \/ UNCHANGED vars
  BY <1>2, <1>9, WindowKept DEF Terminated, vars, pipes, hostVars, workerVars
<1> QED
  BY <1>3, <1>4, <1>5, <1>6, <1>7, <1>8, <1>9 DEF Next

---------------------------------------------------------------------------
(* The theorems.                                                           *)

\* What the window inserts is whole, and neither inserted before nor cancelled.
LEMMA InsertPromised ==
  ASSUME TypeOK, WordsInv, KeptInv, InsertText, ctl.mode = "Complete", sessionActive, Idle,
         UNCHANGED <<said, cancelled>>
  PROVE  [Promise!Next]_<<said, cancelled, inserted>>
<1> DEFINE item == [dictation |-> ctl.dictation, text |-> SnapshotText]
           d == ctl.dictation
           text == SnapshotText
           before == Promise!Delivered
<1>1. inserted \in Seq([dictation : SUBSET Nat, text : SUBSET Nat])
  BY DEF TypeOK, HostTypeOK
<1>2. CASE SnapshotText = {}
  BY <1>2 DEF InsertText
<1>3. CASE SnapshotText # {}
  <2>1. inserted' = Append(inserted, item)
    BY <1>3 DEF InsertText
  <2>2. text # {} /\ text \subseteq d
    BY <1>3 DEF SnapshotText, WordsInv, OwnText
  <2>3. d \cap said \subseteq text
    BY DEF SnapshotText, KeptInv, CoverInv
  <2>4. d \cap (before \cup cancelled) = {}
    BY DEF KeptInv, DeliveryInv, Spent, Idle
  <2>5. item.dictation = d /\ item.text = text
    OBVIOUS
  <2> HIDE DEF item, d, text
  <2>6. Len(inserted') = Len(inserted) + 1 /\ inserted'[Len(inserted')] = item
    BY <1>1, <2>1
  <2> QED
    BY <2>1, <2>2, <2>3, <2>4, <2>5, <2>6 DEF Promise!Next, Promise!Deliver
<1> QED
  BY <1>2, <1>3

\* Every step either inserts, or cancels, or settles words of a dictation that is
\* not delivered, or changes nothing the promise is about.
LEMMA StepPromised ==
  ASSUME TypeOK, WordsInv, KeptInv, [Next]_vars
  PROVE  [Promise!Next]_<<said, cancelled, inserted>>
<1>1. CASE UNCHANGED <<said, cancelled, inserted>>
  BY <1>1
<1>2. CASE HotkeyInsert /\ UNCHANGED workerVars
  BY <1>2, InsertPromised DEF HotkeyInsert, workerVars
<1>3. CASE HostPoll /\ UNCHANGED workerVars
  <2>1. \/ InsertText /\ sessionActive /\ ctl.mode = "Complete"
        \/ UNCHANGED inserted
    BY <1>3 DEF HostPoll
  <2>2. Idle /\ UNCHANGED <<said, cancelled>>
    BY <1>3 DEF HostPoll, workerVars
  <2> QED
    BY <2>1, <2>2, InsertPromised
<1>4. CASE UiCancel /\ UNCHANGED workerVars
  BY <1>4 DEF UiCancel, workerVars, Promise!Next, Promise!Cancel
<1>5. CASE AsrMain
  <2>1. UNCHANGED <<cancelled, inserted>>
    BY <1>5 DEF AsrMain, hostVars
  <2>2. CASE AsrStop
    <3>1. PICK text \in {{}, {asr.session}} : said' = said \cup text
      BY <2>2 DEF AsrStop
    <3>2. asr.session \notin Promise!Delivered
      <4>1. asr.state = "Recording"
        BY <2>2 DEF AsrStop, Matches
      <4>2. asr.session = ctl.lastSession /\ ~Silence
        BY <4>1 DEF KeptInv, FlightInv, Flight, RunsLast, Silence, Silent
      <4> QED
        BY <4>2 DEF KeptInv, DeliveryInv
    <3> QED
      BY <2>1, <3>1, <3>2 DEF Promise!Next, Promise!Settle
  <2>3. CASE ~AsrStop
    BY <1>5, <2>1, <2>3
    DEF AsrMain, AsrMainThread, AsrLoadModel, AsrLoadFails, AsrStart, AsrStartFails,
        AsrRejects, AsrStopFails, AsrCancel, AsrQuit
  <2> QED
    BY <2>2, <2>3
<1> QED
  <2>1. CASE UserStep /\ UNCHANGED workerVars
    BY <1>1, <1>2, <2>1
    DEF UserStep, HotkeyStart, HotkeyStop, HotkeyCancel, SelectLanguage, SelectCleanup,
        SelectAsrDevice, SelectRewriteDevice, SelectCurrentDevice, CloseWindow, hostVars,
        workerVars
  <2>2. CASE (UiStep \/ LoopStep \/ AsrReader \/ RewriteReader) /\ UNCHANGED workerVars
    BY <1>1, <1>3, <1>4, <2>2
    DEF UiStep, LoopStep, AsrReader, RewriteReader, UiToggle, HostSpawnFails, HostTick,
        hostVars, workerVars
  <2>3. CASE SpawnStep \/ AsrFeeder \/ RewriteStep \/ Crash \/ Terminated \/ UNCHANGED vars
    BY <1>1, <2>3
    DEF SpawnStep, HostSpawn, AsrFeeder, AsrFeedThread, AsrFeed, AsrFeedFails, RewriteStep,
        Crash, Terminated, vars, hostVars, workerVars
  <2> QED
    BY <1>5, <2>1, <2>2, <2>3 DEF Next

\* The invariant is one of every program whose window is left undisturbed.
THEOREM PromiseInvariant ==
  ASSUME Undisturbed PROVE Spec => [](TypeOK /\ WordsInv /\ PromiseInv)
<1>1. TypeOK /\ LifecycleInv /\ WordsInv /\ PromiseInv /\ [Next]_vars => PromiseInv'
  BY PromiseStep
<1> QED
  BY <1>1, PromiseInit, WordsInit, WordsStep, TypeCorrect, Lifecycle, PTL DEF Spec

\* Whatever the user presses, however often and in whatever order, and whichever
\* workers fail, die or answer late: a dictation is inserted at most once, whole,
\* with no words of another one and never after it was cancelled.
THEOREM PromiseKept ==
  ASSUME MaxLanguageChanges = 0, MaxSettings = 0 \/ MaxCancels = 0
  PROVE  Spec => KeepsPromise
<1>1. Undisturbed /\ Plain
  BY DEF Undisturbed, Plain
<1>2. Init => Promise!Init
  BY DEF Init, HostInit, Promise!Init
<1>3. TypeOK /\ WordsInv /\ PromiseInv /\ [Next]_vars
        => [Promise!Next]_<<said, cancelled, inserted>>
  BY <1>1, StepPromised DEF PromiseInv
<1>4. Spec => [](TypeOK /\ WordsInv /\ PromiseInv)
  BY <1>1, PromiseInvariant
<1> QED
  BY <1>2, <1>3, <1>4, PTL DEF Spec, KeepsPromise, Promise!Spec

\* Without AI cleanup the promise is kept across language changes too.
THEOREM RawPromiseKept ==
  ASSUME Undisturbed PROVE Spec => RawKeepsPromise
<1>1. TypeOK /\ WordsInv /\ PromiseInv /\ [Next]_vars
        => [ctl.cleanup = "Off" => Promise!Next]_<<said, cancelled, inserted>>
  BY StepPromised DEF PromiseInv, Plain
<1> QED
  BY <1>1, PromiseInvariant, PTL DEF Spec, RawKeepsPromise

\* What is offered for review is the cleanup, or the raw form, of the whole final
\* transcript: a stale answer never takes its place.
THEOREM ReviewCoversRaw ==
  ASSUME MaxLanguageChanges = 0, MaxSettings = 0 \/ MaxCancels = 0
  PROVE  Spec => []ReviewedCoversRaw
<1>1. Undisturbed
  BY DEF Undisturbed
<1>2. PromiseInv => ReviewedCoversRaw
  BY DEF PromiseInv, Plain, KeptInv, CoverInv, ReviewedCoversRaw
<1>3. Spec => [](TypeOK /\ WordsInv /\ PromiseInv)
  BY <1>1, PromiseInvariant
<1> QED
  BY <1>2, <1>3, PTL
=============================================================================
