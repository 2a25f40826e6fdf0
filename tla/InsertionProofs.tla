--------------------------- MODULE InsertionProofs -------------------------
(***************************************************************************)
(* What the user is promised for a dictated text, for any windows, any     *)
(* failures and any number of dictations, on Windows and on X11.           *)
(***************************************************************************)
EXTENDS InsertionProperties, FiniteSetTheorems, TLAPS

Stages == {"idle", "target", "restore", "text", "open", "empty", "set", "modifiers",
           "claim", "verify", "keys", "dead"}
Events == [type : {"SelectionRequest"}, paste : Receipts] \cup [type : {"SelectionClear"}]

\* The host window, the desktop and the X11 side with their types.
HostTyped ==
  /\ stage \in Stages /\ session \in BOOLEAN /\ fallback \in BOOLEAN
  /\ target \in Window \cup {NoWindow} /\ targetActive \in Window \cup {NoWindow}
  /\ result \in Results \cup {0} /\ kind \in {"line", "lines"}
  /\ told \in {"none", "copied", "rejected", "log"}
  /\ used \in [results : 0..MaxResults, copies : Nat, switches : Nat]
DesktopTyped ==
  /\ focus \in Window \cup {Own, NoWindow} /\ open \subseteq Window
  /\ clipboard \in Results \cup {Other, Nothing}
  /\ pastes \subseteq Receipts /\ received \subseteq Receipts
  /\ switched \in BOOLEAN /\ replaced \in BOOLEAN
  /\ text \in Results \cup {Nothing} /\ events \in Seq(Events)
  /\ active \in Window \cup {Own, NoWindow} /\ asked \subseteq Window

\* The first attempt to insert, from the commit to the keys; after it failed
\* the text only goes to the clipboard.
FirstTry ==
  \/ stage \in {"target", "restore", "text", "modifiers", "claim", "verify", "keys"}
  \/ stage \in {"open", "empty", "set"} /\ ~fallback
\* The focus was looked at, or set where it was known.
Aimed ==
  \/ stage \in {"text", "modifiers", "keys"}
  \/ stage \in {"open", "empty", "set"} /\ ~fallback

StageInv ==
  /\ result # 0 => result = used.results
  /\ stage # "idle" => result # 0 /\ ~session
  /\ stage \in {"target", "restore", "text", "modifiers"} => ~fallback
  /\ platform = "win" => targetActive = NoWindow
  /\ platform = "win" /\ (stage = "restore" \/ Aimed) => target \in Window
  /\ Aimed => focus \in Targets \/ switched \/ target = NoWindow

\* Where the newest text is when keys are sent.
ClipboardInv ==
  /\ platform # "win" => clipboard \notin Results
  /\ platform = "win" => text = Nothing
  /\ stage = "modifiers" =>
       /\ clipboard = result \/ replaced
       /\ clipboard \in Results => clipboard = result
  /\ stage \in {"verify", "keys"} => text = result

TypedInv == HostTyped /\ DesktopTyped /\ StageInv /\ ClipboardInv

LEMMA GetsTyped ==
  ASSUME HostTyped, DesktopTyped, result # 0, NEW t \in Results \cup {Part}
  PROVE  /\ Gets(t) \in Receipts
         /\ Gets(t).of = result /\ Gets(t).text = t /\ Gets(t).window = focus
         /\ Gets(t).targets = Targets /\ (target = NoWindow => Gets(t).blind)
         /\ Gets(t).switched = switched
BY DEF HostTyped, DesktopTyped, Gets, Receipts, Targets

LEMMA RetextTyped ==
  ASSUME NEW p \in Receipts, NEW t \in Results \cup {Other, Nothing}
  PROVE  /\ [p EXCEPT !.text = t] \in Receipts
         /\ [p EXCEPT !.text = t].of = p.of /\ [p EXCEPT !.text = t].text = t
         /\ [p EXCEPT !.text = t].window = p.window
         /\ [p EXCEPT !.text = t].targets = p.targets
         /\ [p EXCEPT !.text = t].blind = p.blind
         /\ [p EXCEPT !.text = t].switched = p.switched
BY DEF Receipts

\* The steps of the main loop and of the user that both platforms have.
Shared == Completes \/ EndSession \/ SwitchWindow \/ CloseTarget

LEMMA SharedTyped ==
  ASSUME TypedInv, Shared, UNCHANGED <<x11Own, fallback, platform>>
  PROVE  TypedInv'
<1> USE DesktopAssumption
    DEF TypedInv, HostTyped, DesktopTyped, StageInv, ClipboardInv, FirstTry, Aimed, Targets, Stages,
        hostVars, desktopVars, x11Own, Results
<1>2. CASE Completes
  BY <1>2 DEF Completes
<1>3. CASE EndSession
  <2>1. /\ ~session' /\ session' \in BOOLEAN
        /\ UNCHANGED <<stage, target, targetActive, result, kind, told, used>>
        /\ UNCHANGED <<focus, open, clipboard, pastes, received, switched, replaced>>
    BY <1>3 DEF EndSession
  <2>2. HostTyped'
    BY <2>1
  <2>3. DesktopTyped'
    BY <2>1
  <2>4. StageInv' /\ ClipboardInv'
    BY <2>1
  <2> QED BY <2>2, <2>3, <2>4
<1>4. CASE SwitchWindow
  BY <1>4 DEF SwitchWindow, Switches
<1>5. CASE CloseTarget
  BY <1>5 DEF CloseTarget, Switches
<1> QED BY <1>2, <1>3, <1>4, <1>5 DEF Shared

\* The beginning of a dictation, a new target, and the beginning of an insertion.
Turns ==
  \E w, a \in Window \cup {NoWindow} :
    (platform = "win" => a = NoWindow) /\ (Starts(w, a) \/ Aims(w, a))

LEMMA StartsTyped ==
  ASSUME TypedInv, NEW w \in Window \cup {NoWindow}, NEW a \in Window \cup {NoWindow},
         platform = "win" => a = NoWindow, Starts(w, a),
         UNCHANGED <<x11Own, fallback, platform>>
  PROVE  TypedInv'
<1> USE DesktopAssumption DEF TypedInv, HostTyped, DesktopTyped, Results
<1>1. /\ stage = "idle" /\ stage' = "idle" /\ session' \in BOOLEAN /\ target' = w /\ targetActive' = a
      /\ result' = 0
      /\ told' = "none" /\ UNCHANGED kind
      /\ used.results < MaxResults /\ used' = [used EXCEPT !.results = used.results + 1]
      /\ UNCHANGED <<focus, open, clipboard, pastes, received, switched, replaced>>
      /\ UNCHANGED <<text, events, active, asked, platform, fallback>>
  BY DEF Starts, desktopVars, x11Own
<1>2. HostTyped'
  BY <1>1
<1>3. DesktopTyped'
  BY <1>1
<1>4. StageInv' /\ ClipboardInv'
  BY <1>1 DEF StageInv, ClipboardInv, Aimed
<1> QED BY <1>2, <1>3, <1>4

LEMMA AimsTyped ==
  ASSUME TypedInv, NEW w \in Window \cup {NoWindow}, NEW a \in Window \cup {NoWindow},
         platform = "win" => a = NoWindow, Aims(w, a),
         UNCHANGED <<x11Own, fallback, platform>>
  PROVE  TypedInv'
<1> USE DesktopAssumption DEF TypedInv, HostTyped, DesktopTyped, Results
<1>1. /\ stage = "idle" /\ target' = w /\ targetActive' = a
      /\ UNCHANGED <<stage, session, result, kind, told, used>>
      /\ UNCHANGED <<focus, open, clipboard, pastes, received, switched, replaced>>
      /\ UNCHANGED <<text, events, active, asked, platform, fallback>>
  BY DEF Aims, desktopVars, x11Own
<1>2. HostTyped'
  BY <1>1
<1>3. DesktopTyped'
  BY <1>1
<1>4. StageInv' /\ ClipboardInv'
  BY <1>1 DEF StageInv, ClipboardInv, Aimed
<1> QED BY <1>2, <1>3, <1>4

LEMMA TurnsTyped ==
  ASSUME TypedInv, Turns, UNCHANGED <<x11Own, fallback, platform>>
  PROVE  TypedInv'
BY StartsTyped, AimsTyped DEF Turns

LEMMA CommitsTyped ==
  ASSUME TypedInv, NEW next \in {"target", "claim"}, Commits(next),
         next = "target" => ~fallback', fallback' \in BOOLEAN, UNCHANGED <<x11Own, platform>>
  PROVE  TypedInv'
<1> USE DesktopAssumption DEF TypedInv, HostTyped, DesktopTyped, Results, Stages
<1>1. /\ stage = "idle" /\ stage' = next /\ ~session' /\ session' \in BOOLEAN /\ result # 0
      /\ told' = "none" /\ ~switched' /\ switched' \in BOOLEAN
      /\ UNCHANGED <<target, targetActive, result, kind, focus, open, clipboard, pastes, received,
                     replaced, used, text, events, active, asked, platform>>
  BY DEF Commits, x11Own
<1>2. HostTyped'
  BY <1>1
<1>3. DesktopTyped'
  BY <1>1
<1>4. StageInv' /\ ClipboardInv'
  BY <1>1 DEF StageInv, ClipboardInv, Aimed
<1> QED BY <1>2, <1>3, <1>4

-----------------------------------------------------------------------------
(* Types *)

LEMMA WinTyped ==
  ASSUME TypedInv, platform = "win", WinInsertText, UNCHANGED <<x11Own, platform>>
  PROVE  TypedInv'
<1> USE DesktopAssumption
    DEF TypedInv, HostTyped, DesktopTyped, StageInv, ClipboardInv, Aimed, Targets, Stages, Results,
        desktopVars, x11Own, SameResult, Proceeds
<1>1. CASE CheckTarget
  <2>1. /\ stage = "target" /\ target \in open /\ ~switched' /\ switched' \in BOOLEAN
        /\ \/ stage' = "text" /\ focus = target /\ focus' = focus
           \/ stage' = "restore" /\ focus' \in {target, focus}
        /\ UNCHANGED <<session, target, targetActive, result, kind, told, used>>
        /\ UNCHANGED <<open, clipboard, pastes, received, replaced, fallback>>
        /\ UNCHANGED <<text, events, active, asked, platform>>
    BY <1>1 DEF CheckTarget
  <2> QED BY <2>1
<1>2. CASE NoTarget
  BY <1>2 DEF NoTarget, InsertTextFails
<1>3. CASE CheckFocus
  <2>1. /\ stage = "restore" /\ stage' = "text" /\ focus = target
        /\ ~switched' /\ switched' \in BOOLEAN
        /\ UNCHANGED <<session, target, targetActive, result, kind, told, used, focus>>
        /\ UNCHANGED <<open, clipboard, pastes, received, replaced, fallback>>
        /\ UNCHANGED <<text, events, active, asked, platform>>
    BY <1>3 DEF CheckFocus
  <2> QED BY <2>1
<1>4. CASE FocusLost
  BY <1>4 DEF FocusLost, InsertTextFails
<1>5. CASE TypeText
  <2>1. Gets(result) \in Receipts
    BY <1>5, GetsTyped DEF TypeText
  <2> QED BY <1>5, <2>1 DEF TypeText, Leaves
<1>6. CASE TypeTextFails
  <2>1. Gets(Part) \in Receipts
    BY <1>6, GetsTyped DEF TypeTextFails
  <2> QED BY <1>6, <2>1 DEF TypeTextFails, InsertTextFails
<1>7. CASE ChooseClipboard \/ OpenClipboard
  BY <1>7 DEF ChooseClipboard, OpenClipboard
<1>8. CASE EmptyClipboard
  BY <1>8 DEF EmptyClipboard
<1>9. CASE SetClipboardData
  <2>1. /\ stage = "set" /\ clipboard' = result /\ ~replaced' /\ replaced' \in BOOLEAN
        /\ \/ fallback /\ stage' = "idle" /\ told' = "copied"
           \/ ~fallback /\ stage' = "modifiers" /\ UNCHANGED told
        /\ UNCHANGED <<session, target, targetActive, result, kind, focus, open, pastes, received,
                       switched, used, fallback, text, events, active, asked, platform>>
    BY <1>9 DEF SetClipboardData, Leaves
  <2> QED BY <2>1
<1>10. CASE ClipboardFails
  <2>1. /\ stage \in {"open", "empty", "set"}
        /\ \/ stage' = "idle" /\ told' = "rejected" /\ UNCHANGED fallback
           \/ stage' = "open" /\ fallback' = TRUE /\ UNCHANGED told
        /\ UNCHANGED <<session, target, targetActive, result, kind, used>>
        /\ UNCHANGED <<focus, open, clipboard, pastes, received, switched, replaced>>
        /\ UNCHANGED <<text, events, active, asked, platform>>
    BY <1>10 DEF ClipboardFails, Leaves, InsertTextFails
  <2> QED BY <2>1
<1>11. CASE ModifiersHeld
  BY <1>11 DEF ModifiersHeld, InsertTextFails
<1>12. CASE SendPaste
  <2>1. Gets(result) \in Receipts
    BY <1>12, GetsTyped DEF SendPaste
  <2> QED BY <1>12, <2>1 DEF SendPaste, Leaves
<1>13. CASE SendPasteFails
  <2>1. Gets(result) \in Receipts
    BY <1>13, GetsTyped DEF SendPasteFails
  <2>2. /\ stage' = "open" /\ fallback' /\ fallback' \in BOOLEAN
        /\ pastes' \subseteq Receipts
        /\ UNCHANGED <<session, target, targetActive, result, kind, told>>
        /\ UNCHANGED <<focus, open, clipboard, received, switched, replaced, used>>
        /\ UNCHANGED <<text, events, active, asked, platform>>
    BY <1>13, <2>1 DEF SendPasteFails, InsertTextFails
  <2>3. HostTyped'
    BY <2>2
  <2>4. DesktopTyped'
    BY <2>2
  <2>5. StageInv'
    BY <1>13, <2>2 DEF SendPasteFails
  <2>6. ClipboardInv'
    BY <2>2
  <2> QED BY <2>3, <2>4, <2>5, <2>6
<1> QED
  BY <1>1, <1>2, <1>3, <1>4, <1>5, <1>6, <1>7, <1>8, <1>9, <1>10, <1>11, <1>12, <1>13
     DEF WinInsertText

\* Adding an event, and taking the first one.
LEMMA EventsTyped ==
  ASSUME events \in Seq(Events)
  PROVE  /\ Append(events, [type |-> "SelectionClear"]) \in Seq(Events)
         /\ \A p \in Receipts :
              Append(events, [type |-> "SelectionRequest", paste |-> p]) \in Seq(Events)
         /\ events # <<>> => Tail(events) \in Seq(Events) /\ Head(events) \in Events
BY DEF Events

LEMMA RequestTyped ==
  ASSUME NEW e \in Events, e.type = "SelectionRequest"
  PROVE  e.paste \in Receipts
BY DEF Events

LEMMA X11Typed ==
  ASSUME TypedInv, platform = "x11",
         \/ Claim \/ NotInserted \/ RestoreFocus \/ RestoreFocusDies \/ KeysUnmapped \/ SendKeys
         \/ Announces \/ Activates
         \/ X11Copies \/ X11Paste \/ SelectionClear \/ SelectionRequest,
         UNCHANGED <<fallback, platform>>
  PROVE  TypedInv'
<1> USE DesktopAssumption
    DEF TypedInv, HostTyped, DesktopTyped, StageInv, ClipboardInv, Aimed, Targets, Stages, Results,
        Other, Nothing, hostVars, desktopVars, x11Own
<1>1. CASE Claim
  <2>1. /\ stage = "claim" /\ stage' = "verify" /\ text' = result
        /\ ~replaced' /\ replaced' \in BOOLEAN
        /\ UNCHANGED <<session, target, targetActive, result, kind, told, focus, open, clipboard, pastes,
                       received, switched, used, events, active, asked, fallback, platform>>
    BY <1>1 DEF Claim
  <2> QED BY <2>1
<1>2. CASE NotInserted
  BY <1>2 DEF NotInserted, Remains
<1>3. CASE RestoreFocus
  <2>1. /\ stage = "verify" /\ stage' = "keys" /\ asked' \subseteq Window
        /\ \/ target \in open /\ focus' = target /\ ~switched' /\ switched' \in BOOLEAN
           \/ target = NoWindow /\ UNCHANGED <<focus, switched>>
        /\ UNCHANGED <<session, target, targetActive, result, kind, told, open, clipboard>>
        /\ UNCHANGED <<pastes, received, replaced, used, text, events, active, fallback, platform>>
    BY <1>3 DEF RestoreFocus
  <2> QED BY <2>1 DEF Targets
<1>4. CASE RestoreFocusDies
  BY <1>4 DEF RestoreFocusDies
<1>10. CASE KeysUnmapped
  BY <1>10 DEF KeysUnmapped, Remains
<1>11. CASE Announces
  BY <1>11 DEF Announces
<1>12. CASE Activates
  <2>1. PICK w \in asked \cap open :
          /\ focus' = w /\ active' = w /\ asked' = asked \ {w}
          /\ switched' = (switched \/ w # targetActive)
    BY <1>12 DEF Activates
  <2>2. /\ focus' \in Window /\ active' \in Window /\ asked' \subseteq Window
        /\ switched' \in BOOLEAN /\ (focus' \in Targets \/ switched')
        /\ UNCHANGED <<hostVars, open, clipboard, pastes, received, replaced, used, text, events,
                       fallback, platform>>
    BY <1>12, <2>1 DEF Activates, Targets
  <2> QED BY <2>2 DEF Targets
<1>5. CASE SendKeys
  <2>1. Gets(result) \in Receipts
    BY <1>5, GetsTyped DEF SendKeys
  <2> QED BY <1>5, <2>1 DEF SendKeys
<1>6. CASE X11Copies
  <2>1. /\ clipboard' = Other /\ replaced' \in BOOLEAN /\ replaced'
        /\ used' = [used EXCEPT !.copies = used.copies + 1]
        /\ events' \in {events, Append(events, [type |-> "SelectionClear"])}
        /\ UNCHANGED <<stage, session, target, targetActive, result, kind, told>>
        /\ UNCHANGED <<focus, open, pastes, received, switched, text, active, asked, fallback, platform>>
    BY <1>6 DEF X11Copies, Copies
  <2>2. events' \in Seq(Events)
    BY <2>1, EventsTyped
  <2> QED BY <2>1, <2>2
<1>7. CASE X11Paste
  <2>1. PICK p \in pastes :
          /\ pastes' = pastes \ {p}
          /\ IF owner
             THEN /\ events' = Append(events, [type |-> "SelectionRequest", paste |-> p])
                  /\ UNCHANGED received
             ELSE /\ received' = received \cup {[p EXCEPT !.text = clipboard]}
                  /\ UNCHANGED events
    BY <1>7 DEF X11Paste
  <2>2. events' \in Seq(Events)
    BY <2>1, EventsTyped
  <2>3. received' \subseteq Receipts
    <3>1. [p EXCEPT !.text = clipboard] \in Receipts
      BY RetextTyped
    <3> QED BY <2>1, <3>1
  <2> QED BY <1>7, <2>1, <2>2, <2>3 DEF X11Paste
<1>8. CASE SelectionClear
  BY <1>8, EventsTyped DEF SelectionClear
<1>9. CASE SelectionRequest
  <2>1. Head(events).paste \in Receipts
    BY <1>9, EventsTyped, RequestTyped DEF SelectionRequest
  <2>2. [Head(events).paste EXCEPT !.text = text] \in Receipts
    BY <2>1, RetextTyped
  <2>3. events' \in Seq(Events)
    BY <1>9, EventsTyped DEF SelectionRequest
  <2> DEFINE r == [Head(events).paste EXCEPT !.text = text]
  <2>4. /\ stage = "idle" /\ received' = received \cup {r} /\ r \in Receipts
        /\ UNCHANGED <<stage, session, target, targetActive, result, kind, told, focus, open>>
        /\ UNCHANGED <<clipboard, pastes, switched, replaced, used, text, active, asked>>
    BY <1>9, <2>2 DEF SelectionRequest
  <2> HIDE DEF r
  <2> QED BY <2>3, <2>4
<1> QED
  BY <1>1, <1>2, <1>3, <1>4, <1>5, <1>6, <1>7, <1>8, <1>9, <1>10, <1>11, <1>12

\* Windows acting on a paste and, on Windows, programs that copy.
LEMMA OthersTyped ==
  ASSUME TypedInv, platform = "win",
         WinPaste \/ (Copies /\ UNCHANGED fallback), UNCHANGED <<x11Own, platform>>
  PROVE  TypedInv'
<1> USE DesktopAssumption
    DEF TypedInv, HostTyped, DesktopTyped, StageInv, ClipboardInv, Aimed, Targets, Stages, Results,
        Other, Nothing, hostVars, desktopVars, x11Own
<1>1. CASE WinPaste
  <2>1. PICK p \in pastes : /\ pastes' = pastes \ {p}
                            /\ received' = received \cup {[p EXCEPT !.text = clipboard]}
    BY <1>1 DEF WinPaste
  <2>2. [p EXCEPT !.text = clipboard] \in Receipts
    BY RetextTyped
  <2> QED BY <1>1, <2>1, <2>2 DEF WinPaste
<1>2. CASE Copies /\ UNCHANGED fallback
  <2>1. /\ clipboard' = Other /\ replaced' \in BOOLEAN /\ replaced'
        /\ used' = [used EXCEPT !.copies = used.copies + 1]
        /\ UNCHANGED <<stage, session, target, targetActive, result, kind, told>>
        /\ UNCHANGED <<focus, open, pastes, received, switched, text, events, active, asked,
                       fallback, platform>>
    BY <1>2 DEF Copies
  <2> QED BY <2>1
<1> QED BY <1>1, <1>2

\* The kinds of steps: every later argument goes through them.
LEMMA Steps ==
  ASSUME TypedInv, [Next]_vars
  PROVE  \/ Shared /\ UNCHANGED <<x11Own, fallback, platform>>
         \/ Turns /\ UNCHANGED <<x11Own, fallback, platform>>
         \/ /\ \E next \in {"target", "claim"} : Commits(next) /\ (next = "target" => ~fallback')
            /\ fallback' \in BOOLEAN /\ UNCHANGED <<x11Own, platform>>
         \/ platform = "win" /\ WinInsertText /\ UNCHANGED <<x11Own, platform>>
         \/ /\ platform = "win" /\ (WinPaste \/ (~Locked /\ Copies /\ UNCHANGED fallback))
            /\ UNCHANGED <<x11Own, platform>>
         \/ /\ platform = "x11" /\ UNCHANGED <<fallback, platform>>
            /\ \/ Claim \/ NotInserted \/ RestoreFocus \/ RestoreFocusDies \/ KeysUnmapped \/ SendKeys
               \/ Announces \/ Activates
               \/ X11Copies \/ X11Paste \/ SelectionClear \/ SelectionRequest
         \/ UNCHANGED vars
<1>1. CASE /\ WinStart \/ RefreshTarget \/ ShowNearTarget
           /\ UNCHANGED <<x11Own, platform>>
  <2>1. UNCHANGED fallback
    BY <1>1 DEF WinStart, RefreshTarget, ShowNearTarget
  <2>2. Turns
    BY <1>1 DEF WinStart, RefreshTarget, ShowNearTarget, Turns, Captured, External
  <2> QED BY <1>1, <2>1, <2>2
<1>2. CASE /\ platform = "x11" /\ (X11Start \/ X11Refresh)
           /\ UNCHANGED <<fallback, platform>>
  <2>1. /\ target \in Window \cup {NoWindow} /\ targetActive \in Window \cup {NoWindow}
        /\ Captured(focus) \in Window \cup {NoWindow} /\ platform # "win"
        /\ Captured(active) \in Window \cup {NoWindow}
    BY <1>2 DEF Captured, External, TypedInv, HostTyped
  <2>2. UNCHANGED x11Own
    BY <1>2 DEF X11Start, X11Refresh
  <2>3. Turns
    BY <1>2, <2>1 DEF X11Start, X11Refresh, Turns
  <2> QED BY <1>2, <2>2, <2>3
<1>3. CASE WinCommit /\ UNCHANGED <<x11Own, platform>>
  <2>1. ~fallback' /\ fallback' \in BOOLEAN
    BY <1>3 DEF WinCommit
  <2> QED BY <1>3, <2>1 DEF WinCommit
<1>4. CASE X11Commit /\ UNCHANGED <<fallback, platform>>
  <2>1. fallback' \in BOOLEAN
    BY <1>4 DEF TypedInv, HostTyped
  <2> QED BY <1>4, <2>1 DEF X11Commit
<1>5. CASE platform = "win" /\ WinNext /\ UNCHANGED <<x11Own, platform>>
  BY <1>1, <1>3, <1>5 DEF WinNext, Shared
<1>6. CASE platform = "x11" /\ X11Next /\ UNCHANGED <<fallback, platform>>
  BY <1>2, <1>4, <1>6 DEF X11Next, Shared
<1> QED BY <1>5, <1>6 DEF Next

LEMMA Typed == Spec => []TypedInv
<1>1. Init => TypedInv
  <2> SUFFICES ASSUME Init PROVE TypedInv
    OBVIOUS
  <2>1. used \in [results : 0..MaxResults, copies : Nat, switches : Nat]
    BY DesktopAssumption DEF Init, InsertionInit
  <2>2. HostTyped
    <3>1. /\ session \in BOOLEAN /\ fallback \in BOOLEAN /\ stage = "idle"
          /\ target = NoWindow /\ targetActive = NoWindow /\ result = 0 /\ kind = "line" /\ told = "none"
      BY DEF Init, InsertionInit
    <3> QED BY <2>1, <3>1 DEF HostTyped, Stages
  <2>3. DesktopTyped
    <3>1. switched \in BOOLEAN /\ replaced \in BOOLEAN
      BY DEF Init, InsertionInit
    <3>2. /\ focus \in Window \cup {Own, NoWindow} /\ open = Window /\ clipboard = Other
          /\ pastes = {} /\ received = {} /\ text = Nothing /\ events = <<>>
          /\ active \in {focus, NoWindow} /\ asked = {}
      BY DEF Init, InsertionInit, X11Init
    <3>3. events \in Seq(Events)
      BY <3>2
    <3> QED BY <3>1, <3>2, <3>3 DEF DesktopTyped
  <2>4. StageInv /\ ClipboardInv
    BY DEF Init, InsertionInit, X11Init, StageInv, ClipboardInv, Aimed, Results, Other, Nothing
  <2> QED BY <2>2, <2>3, <2>4 DEF TypedInv
<1>2. TypedInv /\ [Next]_vars => TypedInv'
  <2> SUFFICES ASSUME TypedInv, [Next]_vars PROVE TypedInv'
    OBVIOUS
  <2>1. CASE UNCHANGED vars
    BY <2>1 DEF vars, winVars, hostVars, desktopVars, x11Own, TypedInv, HostTyped, DesktopTyped,
                StageInv, ClipboardInv, Aimed, Targets
  <2>2. CASE /\ platform = "win" /\ (WinPaste \/ (~Locked /\ Copies /\ UNCHANGED fallback))
             /\ UNCHANGED <<x11Own, platform>>
    BY <2>2, OthersTyped
  <2> QED BY <2>1, <2>2, Steps, SharedTyped, TurnsTyped, CommitsTyped, WinTyped, X11Typed
<1> QED BY <1>1, <1>2, PTL DEF Spec

(***************************************************************************)
(* Type correctness of an insertion, for any windows, failures and bounds. *)
(***************************************************************************)
THEOREM InsertionTyped == Spec => []InsertionTypeOK
<1>1. TypedInv => InsertionTypeOK
  BY DEF TypedInv, HostTyped, DesktopTyped, StageInv, Stages, InsertionTypeOK
<1> QED BY <1>1, Typed, PTL

-----------------------------------------------------------------------------
(* Where the keys go *)

\* The pastes that wait in a queue of events, each once.
Reqs(s) == {s[k].paste : k \in {j \in DOMAIN s : s[j].type = "SelectionRequest"}}
Distinct(s) ==
  \A j, k \in DOMAIN s :
    /\ s[j].type = "SelectionRequest" /\ s[k].type = "SelectionRequest"
    /\ s[j].paste = s[k].paste
    => j = k

LEMMA AppendClear ==
  ASSUME NEW s \in Seq(Events)
  PROVE  /\ Reqs(Append(s, [type |-> "SelectionClear"])) = Reqs(s)
         /\ Distinct(s) => Distinct(Append(s, [type |-> "SelectionClear"]))
<1> DEFINE t == Append(s, [type |-> "SelectionClear"])
<1>1. /\ DOMAIN t = DOMAIN s \cup {Len(s) + 1} /\ DOMAIN s = 1..Len(s) /\ Len(s) \in Nat
      /\ \A k \in DOMAIN s : t[k] = s[k]
      /\ t[Len(s) + 1].type # "SelectionRequest"
  BY DEF Events
<1>2. Reqs(t) = Reqs(s)
  BY <1>1 DEF Reqs
<1>3. Distinct(s) => Distinct(t)
  BY <1>1 DEF Distinct
<1> QED BY <1>2, <1>3

LEMMA AppendRequest ==
  ASSUME NEW s \in Seq(Events), NEW p \in Receipts
  PROVE  LET t == Append(s, [type |-> "SelectionRequest", paste |-> p])
         IN  /\ Reqs(t) = Reqs(s) \cup {p}
             /\ Distinct(s) /\ p \notin Reqs(s) => Distinct(t)
<1> DEFINE t == Append(s, [type |-> "SelectionRequest", paste |-> p])
<1>1. /\ DOMAIN t = DOMAIN s \cup {Len(s) + 1} /\ DOMAIN s = 1..Len(s) /\ Len(s) \in Nat
      /\ \A k \in DOMAIN s : t[k] = s[k]
      /\ t[Len(s) + 1].type = "SelectionRequest" /\ t[Len(s) + 1].paste = p
  BY DEF Events
<1>2. Reqs(t) = Reqs(s) \cup {p}
  BY <1>1 DEF Reqs
<1>3. Distinct(s) /\ p \notin Reqs(s) => Distinct(t)
  BY <1>1 DEF Distinct, Reqs
<1> QED BY <1>2, <1>3

LEMMA TailReqs ==
  ASSUME NEW s \in Seq(Events), s # <<>>, Distinct(s)
  PROVE  /\ Distinct(Tail(s))
         /\ Head(s).type = "SelectionRequest" =>
              Head(s).paste \in Reqs(s) /\ Reqs(Tail(s)) = Reqs(s) \ {Head(s).paste}
         /\ Head(s).type # "SelectionRequest" => Reqs(Tail(s)) = Reqs(s)
<1>1. /\ Len(s) \in Nat /\ Len(s) # 0 /\ DOMAIN s = 1..Len(s)
      /\ DOMAIN Tail(s) = 1..(Len(s) - 1)
      /\ \A k \in DOMAIN Tail(s) : Tail(s)[k] = s[k + 1]
      /\ Head(s) = s[1]
  OBVIOUS
<1>2. Distinct(Tail(s))
  BY <1>1 DEF Distinct
<1>3. \A k \in DOMAIN s : k = 1 \/ (k - 1 \in DOMAIN Tail(s) /\ Tail(s)[k - 1] = s[k])
  BY <1>1
<1>4. Reqs(Tail(s)) \subseteq Reqs(s)
  BY <1>1 DEF Reqs
<1>5. CASE Head(s).type = "SelectionRequest"
  <2>1. Head(s).paste \in Reqs(s)
    BY <1>1, <1>5 DEF Reqs
  <2>2. Head(s).paste \notin Reqs(Tail(s))
    BY <1>1, <1>5 DEF Reqs, Distinct
  <2>3. \A p \in Reqs(s) \ {Head(s).paste} : p \in Reqs(Tail(s))
    <3> TAKE p \in Reqs(s) \ {Head(s).paste}
    <3>1. PICK k \in DOMAIN s : s[k].type = "SelectionRequest" /\ s[k].paste = p
      BY DEF Reqs
    <3>2. k - 1 \in DOMAIN Tail(s) /\ Tail(s)[k - 1] = s[k]
      BY <1>1, <1>3, <3>1
    <3> QED BY <3>1, <3>2 DEF Reqs
  <2> QED BY <1>2, <1>4, <1>5, <2>1, <2>2, <2>3
<1>6. CASE Head(s).type # "SelectionRequest"
  <2>1. \A p \in Reqs(s) : p \in Reqs(Tail(s))
    <3> TAKE p \in Reqs(s)
    <3>1. PICK k \in DOMAIN s : s[k].type = "SelectionRequest" /\ s[k].paste = p
      BY DEF Reqs
    <3>2. k - 1 \in DOMAIN Tail(s) /\ Tail(s)[k - 1] = s[k]
      BY <1>1, <1>3, <1>6, <3>1
    <3> QED BY <3>1, <3>2 DEF Reqs
  <2> QED BY <1>2, <1>4, <1>6, <2>1
<1> QED BY <1>5, <1>6

\* A paste is on its way to the window or to its server, in one place.
Apart == Distinct(events) /\ pastes \cap Reqs(events) = {}

\* Nothing of the newest text was sent before the first attempt ends.
Fresh == session \/ FirstTry => \A r \in Whole \cup Asked : r.of # used.results

LEMMA AskedIs ==
  /\ Asked = pastes \cup Reqs(events)
  /\ Asked' = pastes' \cup Reqs(events')
BY DEF Asked, Reqs

\* What a step does to the pastes on their way and to what windows got.
Rests == received' = received /\ Asked' \subseteq Asked
Delivers(t) ==
  \E p \in Asked : Asked' = Asked \ {p} /\ received' = received \cup {[p EXCEPT !.text = t]}
Sends == received' = received /\ Asked' = Asked \cup {Gets(result)}
Writes(t) == received' = received \cup {Gets(t)} /\ Asked' = Asked

\* Where the newest text goes: nothing else changes it.
Brings ==
  \/ Rests
  \/ /\ Delivers(clipboard) \/ (Delivers(text) /\ platform = "x11")
     /\ UNCHANGED <<stage, session, fallback, used, clipboard, text>>
  \/ /\ Sends /\ stage \in {"modifiers", "keys"} /\ result # 0
     /\ stage = "modifiers" <=> platform = "win"
     /\ ~session' /\ (stage' = "idle" \/ (stage' = "open" /\ fallback'))
     /\ UNCHANGED <<result, used, clipboard, text>>
  \/ /\ Writes(result) \/ Writes(Part)
     /\ stage = "text" /\ result # 0
     /\ ~session' /\ (stage' = "idle" \/ (stage' = "open" /\ fallback'))
     /\ UNCHANGED <<result, used, clipboard, text>>

\* The steps of the host window that send keys, and of a window that acts.
LEMMA WinBrings ==
  ASSUME TypedInv, Apart, Fresh, platform = "win", WinInsertText, UNCHANGED <<x11Own, platform>>
  PROVE  Brings /\ Apart'
<1> USE AskedIs
<1>1. UNCHANGED <<events, text>> /\ UNCHANGED Reqs(events) /\ UNCHANGED Distinct(events)
  BY DEF x11Own, Reqs, Distinct
<1>2. CASE UNCHANGED <<pastes, received>>
  BY <1>1, <1>2 DEF Brings, Rests, Apart
<1>3. CASE SendPaste \/ SendPasteFails
  <2>1. CASE UNCHANGED pastes
    BY <1>2, <1>3, <2>1 DEF SendPaste, SendPasteFails
  <2>2. CASE pastes' = pastes \cup {Gets(result)}
    <3>1. Sends /\ stage = "modifiers" /\ UNCHANGED <<session, result, used, clipboard, text>>
      BY <1>1, <1>3, <2>2
         DEF SendPaste, SendPasteFails, Leaves, InsertTextFails, Sends
    <3>2. stage' = "idle" \/ (stage' = "open" /\ fallback')
      BY <1>3 DEF SendPaste, SendPasteFails, Leaves, InsertTextFails
    <3>3. ~session /\ result # 0
      BY <3>1 DEF TypedInv, StageInv
    <3>4. Brings
      BY <3>1, <3>2, <3>3 DEF Brings
    <3>5. Gets(result).of = used.results
      BY <3>1, <3>3 DEF Gets, TypedInv, StageInv
    <3>6. Gets(result) \notin Reqs(events)
      BY <3>1, <3>5 DEF Fresh, FirstTry
    <3> QED BY <1>1, <2>2, <3>4, <3>6 DEF Apart
  <2> QED BY <1>3, <2>1, <2>2 DEF SendPaste, SendPasteFails
<1>4. CASE TypeText \/ TypeTextFails
  <2>1. CASE UNCHANGED received
    BY <1>2, <1>4, <2>1 DEF TypeText, TypeTextFails
  <2>2. CASE received' # received
    <3>1. /\ Writes(result) \/ Writes(Part)
          /\ stage = "text" /\ UNCHANGED <<session, result, used, clipboard, text, pastes>>
      BY <1>1, <1>4, <2>2
         DEF TypeText, TypeTextFails, Leaves, InsertTextFails, Writes
    <3>2. stage' = "idle" \/ (stage' = "open" /\ fallback')
      BY <1>4 DEF TypeText, TypeTextFails, Leaves, InsertTextFails
    <3>3. ~session /\ result # 0
      BY <3>1 DEF TypedInv, StageInv
    <3> QED BY <1>1, <3>1, <3>2, <3>3 DEF Brings, Apart
  <2> QED BY <2>1, <2>2
<1> QED
  BY <1>2, <1>3, <1>4
     DEF WinInsertText, CheckTarget, NoTarget, CheckFocus, FocusLost, ChooseClipboard,
         OpenClipboard, EmptyClipboard, SetClipboardData, ClipboardFails, ModifiersHeld,
         desktopVars

LEMMA OthersBring ==
  ASSUME TypedInv, Apart, platform = "win",
         WinPaste \/ (Copies /\ UNCHANGED fallback), UNCHANGED <<x11Own, platform>>
  PROVE  Brings /\ Apart'
<1> USE AskedIs
<1>1. UNCHANGED <<events, text>> /\ UNCHANGED Reqs(events) /\ UNCHANGED Distinct(events)
  BY DEF x11Own, Reqs, Distinct
<1>2. CASE Copies
  BY <1>1, <1>2 DEF Copies, Brings, Rests, Apart
<1>3. CASE WinPaste
  <2>1. PICK p \in pastes : /\ pastes' = pastes \ {p}
                            /\ received' = received \cup {[p EXCEPT !.text = clipboard]}
    BY <1>3 DEF WinPaste
  <2>2. Asked' = Asked \ {p}
    BY <1>1, <2>1 DEF Apart
  <2>3. Delivers(clipboard)
    BY <2>1, <2>2 DEF Delivers
  <2>4. UNCHANGED <<stage, session, fallback, used, clipboard, text>>
    BY <1>1, <1>3 DEF WinPaste, hostVars
  <2> QED BY <1>1, <2>1, <2>3, <2>4 DEF Brings, Apart
<1> QED BY <1>2, <1>3

LEMMA X11Brings ==
  ASSUME TypedInv, Apart, Fresh, platform = "x11",
         \/ Claim \/ NotInserted \/ RestoreFocus \/ RestoreFocusDies \/ KeysUnmapped \/ SendKeys
         \/ Announces \/ Activates
         \/ X11Copies \/ X11Paste \/ SelectionClear \/ SelectionRequest,
         UNCHANGED <<fallback, platform>>
  PROVE  Brings /\ Apart'
<1> USE AskedIs
<1>1. CASE \/ Claim \/ NotInserted \/ RestoreFocus \/ RestoreFocusDies \/ KeysUnmapped
           \/ Announces \/ Activates
  <2>1. UNCHANGED <<pastes, received, events>>
    BY <1>1 DEF Claim, NotInserted, RestoreFocus, RestoreFocusDies, KeysUnmapped, Announces,
                Activates, desktopVars, x11Own
  <2>2. UNCHANGED Reqs(events) /\ UNCHANGED Distinct(events)
    BY <2>1 DEF Reqs, Distinct
  <2> QED BY <2>1, <2>2 DEF Brings, Rests, Apart
<1>2. CASE SendKeys
  <2>1. /\ stage = "keys" /\ stage' = "idle" /\ pastes' = pastes \cup {Gets(result)}
        /\ UNCHANGED <<session, result, used, clipboard, text, received, events>>
    BY <1>2 DEF SendKeys, x11Own
  <2>2. UNCHANGED Reqs(events) /\ UNCHANGED Distinct(events)
    BY <2>1 DEF Reqs, Distinct
  <2>3. ~session /\ result # 0 /\ Gets(result).of = used.results
    BY <2>1 DEF TypedInv, StageInv, Gets
  <2>4. Gets(result) \notin Reqs(events)
    BY <2>1, <2>3 DEF Fresh, FirstTry
  <2>5. Sends
    BY <2>1, <2>2 DEF Sends
  <2>6. Brings
    BY <2>1, <2>3, <2>5 DEF Brings
  <2> QED BY <2>1, <2>2, <2>4, <2>6 DEF Apart
<1>3. CASE X11Copies
  <2>1. /\ UNCHANGED <<pastes, received>>
        /\ events' = events \/ events' = Append(events, [type |-> "SelectionClear"])
    BY <1>3 DEF X11Copies, Copies
  <2>2. Reqs(events') = Reqs(events) /\ Distinct(events')
    BY <2>1, AppendClear DEF Apart, TypedInv, DesktopTyped
  <2> QED BY <2>1, <2>2 DEF Brings, Rests, Apart
<1>4. CASE X11Paste
  <2>1. PICK p \in pastes :
          /\ pastes' = pastes \ {p}
          /\ IF owner
             THEN /\ events' = Append(events, [type |-> "SelectionRequest", paste |-> p])
                  /\ UNCHANGED received
             ELSE /\ received' = received \cup {[p EXCEPT !.text = clipboard]}
                  /\ UNCHANGED events
    BY <1>4 DEF X11Paste
  <2>2. p \in Receipts /\ p \notin Reqs(events) /\ events \in Seq(Events)
    BY <2>1 DEF TypedInv, DesktopTyped, Apart
  <2>3. UNCHANGED <<stage, session, fallback, used, clipboard, text>>
    BY <1>4 DEF X11Paste, hostVars
  <2>4. CASE owner
    <3>1. Reqs(events') = Reqs(events) \cup {p} /\ Distinct(events')
      BY <2>1, <2>2, <2>4, AppendRequest DEF Apart
    <3> QED BY <2>1, <2>4, <3>1 DEF Apart, Brings, Rests
  <2>5. CASE ~owner
    <3>1. UNCHANGED Reqs(events) /\ UNCHANGED Distinct(events)
      BY <2>1, <2>5 DEF Reqs, Distinct
    <3>2. Asked' = Asked \ {p}
      BY <2>1, <2>2, <3>1
    <3>3. Delivers(clipboard)
      BY <2>1, <2>5, <3>2 DEF Delivers
    <3> QED BY <2>1, <2>3, <3>1, <3>3 DEF Brings, Apart
  <2> QED BY <2>4, <2>5
<1>5. CASE SelectionClear
  <2>1. /\ UNCHANGED <<pastes, received>> /\ events # <<>> /\ events' = Tail(events)
        /\ Head(events).type # "SelectionRequest"
    BY <1>5 DEF SelectionClear, desktopVars
  <2>2. Reqs(events') = Reqs(events) /\ Distinct(events')
    BY <2>1, TailReqs DEF Apart, TypedInv, DesktopTyped
  <2> QED BY <2>1, <2>2 DEF Brings, Rests, Apart
<1>6. CASE SelectionRequest
  <2> DEFINE p == Head(events).paste
  <2>1. /\ UNCHANGED <<pastes, stage, session, fallback, used, clipboard, text>>
        /\ events # <<>> /\ events' = Tail(events) /\ Head(events).type = "SelectionRequest"
        /\ received' = received \cup {[p EXCEPT !.text = text]}
    BY <1>6 DEF SelectionRequest, hostVars
  <2>2. Reqs(events') = Reqs(events) \ {p} /\ p \in Reqs(events) /\ Distinct(events')
    BY <2>1, TailReqs DEF Apart, TypedInv, DesktopTyped
  <2>3. Asked' = Asked \ {p} /\ p \in Asked
    BY <2>1, <2>2 DEF Apart
  <2>4. Delivers(text)
    BY <2>1, <2>3 DEF Delivers
  <2> QED BY <2>1, <2>2, <2>4 DEF Brings, Apart
<1> QED BY <1>1, <1>2, <1>3, <1>4, <1>5, <1>6

LEMMA Brought ==
  ASSUME TypedInv, Apart, Fresh, [Next]_vars
  PROVE  Brings /\ Apart'
<1> USE AskedIs
<1>1. CASE UNCHANGED vars
  <2>1. UNCHANGED <<pastes, events, received>>
    BY <1>1 DEF vars, winVars, desktopVars, x11Own
  <2>2. UNCHANGED Reqs(events) /\ UNCHANGED Distinct(events)
    BY <2>1 DEF Reqs, Distinct
  <2> QED BY <2>1, <2>2 DEF Rests, Brings, Apart
<1>2. CASE /\ Shared \/ Turns
              \/ (\E next \in {"target", "claim"} : Commits(next))
           /\ UNCHANGED x11Own
  <2>1. pastes' \subseteq pastes /\ UNCHANGED <<received, events>>
    BY <1>2 DEF Shared, Completes, EndSession, SwitchWindow, CloseTarget,
                Turns, Starts, Aims, Commits, desktopVars, x11Own
  <2>2. UNCHANGED Reqs(events) /\ UNCHANGED Distinct(events)
    BY <2>1 DEF Reqs, Distinct
  <2> QED BY <2>1, <2>2 DEF Rests, Brings, Apart
<1> QED BY <1>1, <1>2, Steps, WinBrings, OthersBring, X11Brings

\* How the attempts, the clipboard and the text kept for it move on.
Moves ==
  /\ used'.results \in Nat /\ used.results <= used'.results
  /\ session' \/ FirstTry' =>
       \/ (session \/ FirstTry) /\ used'.results = used.results
       \/ used'.results = used.results + 1
  /\ clipboard' \in Results => clipboard' = clipboard \/ clipboard' = used.results
  /\ text' \in Results => text' = text \/ text' = used.results

LEMMA WinMoves ==
  ASSUME TypedInv, platform = "win", WinInsertText, UNCHANGED <<x11Own, platform>>
  PROVE  Moves
<1>1. /\ UNCHANGED <<used, text>> /\ used.results \in Nat /\ ~session
      /\ result = used.results
  BY DesktopAssumption
     DEF WinInsertText, CheckTarget, NoTarget, CheckFocus, FocusLost, TypeText, TypeTextFails,
         ChooseClipboard, OpenClipboard, EmptyClipboard, SetClipboardData, ClipboardFails,
         ModifiersHeld, SendPaste, SendPasteFails, SameResult, Proceeds, x11Own,
         TypedInv, HostTyped, StageInv
<1>2. clipboard' = clipboard \/ clipboard' = Nothing \/ clipboard' = result
  BY DEF WinInsertText, CheckTarget, NoTarget, CheckFocus, FocusLost, TypeText, TypeTextFails,
         ChooseClipboard, OpenClipboard, EmptyClipboard, SetClipboardData, ClipboardFails,
         ModifiersHeld, SendPaste, SendPasteFails, desktopVars
<1>3. UNCHANGED session
  BY DEF WinInsertText, CheckTarget, NoTarget, CheckFocus, FocusLost, TypeText, TypeTextFails,
         ChooseClipboard, OpenClipboard, EmptyClipboard, SetClipboardData, ClipboardFails,
         ModifiersHeld, SendPaste, SendPasteFails, SameResult, Leaves, InsertTextFails
<1>4. FirstTry' => FirstTry
  <2>1. CASE CheckTarget \/ CheckFocus \/ ChooseClipboard \/ OpenClipboard \/ EmptyClipboard
    BY <2>1 DEF CheckTarget, CheckFocus, ChooseClipboard, OpenClipboard, EmptyClipboard,
                Proceeds, FirstTry
  <2>2. CASE NoTarget \/ FocusLost \/ TypeTextFails \/ ModifiersHeld \/ SendPasteFails
    BY <2>2 DEF NoTarget, FocusLost, TypeTextFails, ModifiersHeld, SendPasteFails,
                InsertTextFails, FirstTry
  <2>3. CASE TypeText \/ SendPaste
    BY <2>3 DEF TypeText, SendPaste, Leaves, FirstTry
  <2>4. CASE SetClipboardData
    BY <2>4 DEF SetClipboardData, Leaves, FirstTry
  <2>5. CASE ClipboardFails
    BY <2>5 DEF ClipboardFails, Leaves, InsertTextFails, FirstTry
  <2> QED BY <2>1, <2>2, <2>3, <2>4, <2>5 DEF WinInsertText
<1> QED BY <1>1, <1>2, <1>3, <1>4 DEF Moves, Results, Nothing

LEMMA Moved ==
  ASSUME TypedInv, [Next]_vars
  PROVE  Moves
<1>1. used.results \in Nat /\ MaxResults \in Nat
  BY DesktopAssumption DEF TypedInv, HostTyped
<1>2. CASE UNCHANGED vars
  BY <1>1, <1>2 DEF vars, winVars, hostVars, desktopVars, x11Own, Moves, FirstTry
<1>3. CASE Shared /\ UNCHANGED <<x11Own, fallback, platform>>
  <2>1. UNCHANGED <<stage, fallback, clipboard, text>> /\ used'.results = used.results
        /\ (session' => session)
    BY <1>1, <1>3 DEF Shared, Completes, EndSession, SwitchWindow, CloseTarget,
                      Switches, hostVars, desktopVars, x11Own, TypedInv, HostTyped
  <2> QED BY <1>1, <2>1 DEF Moves, FirstTry
<1>4. CASE Turns /\ UNCHANGED <<x11Own, fallback, platform>>
  <2>1. PICK w, a \in Window \cup {NoWindow} : Starts(w, a) \/ Aims(w, a)
    BY <1>4 DEF Turns
  <2>2. CASE Starts(w, a)
    <3>1. UNCHANGED <<clipboard, text>> /\ used'.results = used.results + 1
      BY <1>1, <1>4, <2>2 DEF Starts, desktopVars, x11Own, TypedInv, HostTyped
    <3> QED BY <1>1, <3>1 DEF Moves
  <2>3. CASE Aims(w, a)
    BY <1>1, <1>4, <2>3 DEF Aims, desktopVars, x11Own, Moves, FirstTry
  <2> QED BY <2>1, <2>2, <2>3
<1>5. CASE /\ \E next \in {"target", "claim"} : Commits(next) /\ (next = "target" => ~fallback')
           /\ fallback' \in BOOLEAN /\ UNCHANGED <<x11Own, platform>>
  <2>1. UNCHANGED <<clipboard, text, used>> /\ session
    BY <1>5 DEF Commits, x11Own
  <2> QED BY <1>1, <2>1 DEF Moves
<1>6. CASE /\ platform = "win" /\ (WinPaste \/ (~Locked /\ Copies /\ UNCHANGED fallback))
           /\ UNCHANGED <<x11Own, platform>>
  <2>1. UNCHANGED <<stage, session, fallback, text>> /\ used'.results = used.results
        /\ (clipboard' = clipboard \/ clipboard' = Other)
    BY <1>6 DEF WinPaste, Copies, hostVars, x11Own, TypedInv, HostTyped
  <2> QED BY <1>1, <2>1 DEF Moves, FirstTry, Other, Results
<1>7. CASE /\ platform = "x11" /\ UNCHANGED <<fallback, platform>>
           /\ \/ Claim \/ NotInserted \/ RestoreFocus \/ RestoreFocusDies \/ KeysUnmapped \/ SendKeys
              \/ Announces \/ Activates
              \/ X11Copies \/ X11Paste \/ SelectionClear \/ SelectionRequest
  <2>1. /\ used'.results = used.results /\ UNCHANGED session
        /\ clipboard' = clipboard \/ clipboard' = Other \/ clipboard' = Nothing
    BY <1>7 DEF Claim, NotInserted, RestoreFocus, RestoreFocusDies, KeysUnmapped, SendKeys,
                Announces, Activates, X11Copies, Copies,
                X11Paste, SelectionClear, SelectionRequest, Remains, hostVars, desktopVars,
                TypedInv, HostTyped
  <2>2. text' = text \/ text' = Nothing \/ (text' = result /\ stage = "claim")
    BY <1>7 DEF Claim, NotInserted, RestoreFocus, RestoreFocusDies, KeysUnmapped, SendKeys,
                Announces, Activates, X11Copies, Copies,
                X11Paste, SelectionClear, SelectionRequest, x11Own
  <2>3. stage' = stage \/ (FirstTry /\ stage' # "open" /\ stage' # "empty" /\ stage' # "set")
    BY <1>7 DEF Claim, NotInserted, RestoreFocus, RestoreFocusDies, KeysUnmapped, SendKeys,
                Announces, Activates, X11Copies, Copies,
                X11Paste, SelectionClear, SelectionRequest, Remains, hostVars, FirstTry
  <2>4. FirstTry' => FirstTry
    BY <1>7, <2>3 DEF FirstTry
  <2>5. stage = "claim" => result = used.results
    BY DEF TypedInv, StageInv
  <2> QED BY <1>1, <2>1, <2>2, <2>4, <2>5 DEF Moves, Other, Nothing, Results
<1> QED BY <1>2, <1>3, <1>4, <1>5, <1>6, <1>7, Steps, WinMoves

-----------------------------------------------------------------------------
(* Once *)

OnceInv ==
  /\ Apart /\ Fresh
  /\ \A r \in received \cup Asked : r.of \in Nat /\ r.of <= used.results
  /\ Whole \cap Asked = {}
  /\ \A r, s \in Whole \cup Asked : r.of = s.of => r = s

LEMMA AskedTyped ==
  ASSUME TypedInv
  PROVE  Asked \subseteq Receipts /\ received \subseteq Receipts
<1>1. Reqs(events) \subseteq Receipts
  BY RequestTyped DEF Reqs, TypedInv, DesktopTyped
<1> QED BY <1>1, AskedIs DEF TypedInv, DesktopTyped

\* What is delivered is the paste that asked for it.
LEMMA DeliveredIs ==
  ASSUME TypedInv, NEW t \in {clipboard, text}, Delivers(t)
  PROVE  \E p \in Asked : \E r \in Receipts :
           /\ Asked' = Asked \ {p} /\ received' = received \cup {r} /\ p \in Receipts
           /\ r.of = p.of /\ r.text = t /\ r.window = p.window
           /\ r.targets = p.targets /\ r.blind = p.blind /\ r.switched = p.switched
<1>1. PICK p \in Asked : /\ Asked' = Asked \ {p}
                         /\ received' = received \cup {[p EXCEPT !.text = t]}
  BY DEF Delivers
<1>2. p \in Receipts /\ t \in Results \cup {Other, Nothing}
  BY <1>1, AskedTyped DEF TypedInv, DesktopTyped
<1> QED BY <1>1, <1>2, RetextTyped

\* What is sent or typed names its result and its target.
LEMMA SentIs ==
  ASSUME TypedInv, result # 0, stage \in {"text", "modifiers", "keys"},
         NEW t \in {result, Part}
  PROVE  /\ Gets(t) \in Receipts
         /\ Gets(t).of = used.results /\ Gets(t).text = t
         /\ Gets(t).window \in Gets(t).targets \/ Gets(t).switched
            \/ (platform # "win" /\ Gets(t).blind)
<1>1. /\ focus \in Targets \/ switched \/ (target = NoWindow /\ platform # "win")
      /\ result = used.results
  BY DesktopAssumption DEF TypedInv, StageInv, Aimed
<1>2. t \in Results \cup {Part}
  BY DEF TypedInv, HostTyped
<1> QED BY <1>1, <1>2, GetsTyped DEF TypedInv

LEMMA PartIsNone == Part \notin Results /\ Part # Other /\ Part # Nothing
BY DesktopAssumption DEF Part, Results, Other, Nothing

LEMMA OnceKept ==
  ASSUME TypedInv, OnceInv, [Next]_vars
  PROVE  OnceInv'
<1> DEFINE Tried == session' \/ FirstTry'
           Inner(R, A) == /\ \A r \in R \cup A : r.of \in Nat /\ r.of <= used'.results
                          /\ {r \in R : r.text # Part} \cap A = {}
                          /\ \A r, s \in {q \in R : q.text # Part} \cup A : r.of = s.of => r = s
                          /\ Tried => \A r \in {q \in R : q.text # Part} \cup A :
                                        r.of # used'.results
<1>1. Brings /\ Apart' /\ Moves
  BY Brought, Moved DEF OnceInv
<1>2. /\ \A r \in received \cup Asked : r.of \in Nat /\ r.of <= used.results
      /\ used.results \in Nat /\ Whole \subseteq received
  BY DesktopAssumption DEF OnceInv, TypedInv, HostTyped, Whole
<1>3. Inner(received, Asked)
  <2>1. Tried => \A r \in Whole \cup Asked : r.of # used'.results
    BY <1>1, <1>2 DEF OnceInv, Moves, Fresh
  <2>2. \A r \in received \cup Asked : r.of \in Nat /\ r.of <= used'.results
    BY <1>1, <1>2 DEF Moves
  <2> QED BY <2>1, <2>2 DEF OnceInv, Whole
<1>4. SUFFICES Inner(received', Asked')
  BY <1>1 DEF OnceInv, Fresh, Whole
<1>5. CASE Rests
  BY <1>3, <1>5 DEF Rests
<1>6. CASE /\ Delivers(clipboard) \/ (Delivers(text) /\ platform = "x11")
           /\ UNCHANGED <<stage, session, fallback, used, clipboard, text>>
  <2>1. PICK p \in Asked : \E r \in Receipts :
          Asked' = Asked \ {p} /\ received' = received \cup {r} /\ r.of = p.of
    BY <1>6, DeliveredIs
  <2>2. PICK r \in Receipts :
          Asked' = Asked \ {p} /\ received' = received \cup {r} /\ r.of = p.of
    BY <2>1
  <2>3. \A s \in {q \in received : q.text # Part} : s.of # p.of
    BY <1>3
  <2>4. \A s \in Asked \ {p} : s.of # p.of
    BY <1>3
  <2>5. r \notin Asked \ {p}
    BY <2>2, <2>4
  <2> HIDE DEF Tried
  <2> QED BY <1>3, <2>2, <2>3, <2>4, <2>5
<1>7. CASE /\ Sends /\ stage \in {"modifiers", "keys"} /\ result # 0
           /\ ~session' /\ (stage' = "idle" \/ (stage' = "open" /\ fallback'))
           /\ UNCHANGED used
  <2> DEFINE g == Gets(result)
  <2>1. g.of = used.results /\ g.text # Part
    BY <1>7, SentIs, PartIsNone DEF TypedInv, HostTyped, StageInv, Part
  <2>2. ~Tried
    BY <1>7 DEF FirstTry
  <2>3. \A s \in {q \in received : q.text # Part} \cup Asked : s.of # g.of
    BY <1>7, <2>1 DEF OnceInv, Fresh, FirstTry, Whole
  <2>4. received' = received /\ Asked' = Asked \cup {g}
    BY <1>7 DEF Sends
  <2> HIDE DEF Tried, g
  <2> QED BY <1>2, <1>3, <1>7, <2>1, <2>2, <2>3, <2>4
<1>8. CASE /\ Writes(result) \/ Writes(Part)
           /\ stage = "text" /\ result # 0
           /\ ~session' /\ (stage' = "idle" \/ (stage' = "open" /\ fallback'))
           /\ UNCHANGED used
  <2>1. PICK t \in {result, Part} : received' = received \cup {Gets(t)} /\ Asked' = Asked
    BY <1>8 DEF Writes
  <2> DEFINE g == Gets(t)
  <2>2. g.of = used.results
    BY <1>8, SentIs
  <2>3. ~Tried
    BY <1>8 DEF FirstTry
  <2>4. \A s \in {q \in received : q.text # Part} \cup Asked : s.of # g.of
    BY <1>8, <2>2 DEF OnceInv, Fresh, FirstTry, Whole
  <2>5. received' = received \cup {g} /\ Asked' = Asked
    BY <2>1
  <2> HIDE DEF Tried, g
  <2> QED BY <1>2, <1>3, <1>8, <2>2, <2>3, <2>4, <2>5
<1> QED BY <1>1, <1>5, <1>6, <1>7, <1>8 DEF Brings

\* The invariant of the theorems below.
PromiseInv ==
  /\ OnceInv
  /\ \A r \in received \cup Asked :
       r.window \in r.targets \/ r.switched \/ (platform # "win" /\ r.blind)
  /\ NoStalePaste
  /\ \A p \in Asked : /\ clipboard \in Results => clipboard >= p.of
                      /\ text \in Results => text >= p.of

LEMMA PromiseKept ==
  ASSUME TypedInv, PromiseInv, [Next]_vars
  PROVE  PromiseInv'
<1> DEFINE Inner(R, A) ==
             /\ \A r \in R \cup A :
                  r.window \in r.targets \/ r.switched \/ (platform # "win" /\ r.blind)
             /\ \A r \in R : r.text \in Results => r.text >= r.of
             /\ \A p \in A : /\ clipboard' \in Results => clipboard' >= p.of
                             /\ text' \in Results => text' >= p.of
<1>1. Brings /\ OnceInv' /\ Moves
  BY Brought, OnceKept, Moved DEF PromiseInv, OnceInv
<1> UNCHANGED platform
  BY DEF Next, vars
<1>2. SUFFICES Inner(received', Asked')
  BY <1>1 DEF PromiseInv, NoStalePaste
<1>3. /\ \A r \in received \cup Asked : r.of \in Nat /\ r.of <= used.results
      /\ used.results \in Nat /\ Results \subseteq Nat /\ 0 \notin Results
  BY DesktopAssumption DEF PromiseInv, OnceInv, TypedInv, HostTyped, Results
<1>4. Inner(received, Asked)
  BY <1>1, <1>3 DEF PromiseInv, NoStalePaste, Moves
<1>5. CASE Rests
  BY <1>4, <1>5 DEF Rests
<1>6. CASE /\ Delivers(clipboard) \/ (Delivers(text) /\ platform = "x11")
           /\ UNCHANGED <<stage, session, fallback, used, clipboard, text>>
  <2>1. PICK t \in {clipboard, text} : Delivers(t)
    BY <1>6
  <2>2. PICK p \in Asked : \E r \in Receipts :
           /\ Asked' = Asked \ {p} /\ received' = received \cup {r} /\ p \in Receipts
           /\ r.of = p.of /\ r.text = t /\ r.window = p.window
           /\ r.targets = p.targets /\ r.blind = p.blind /\ r.switched = p.switched
    BY <2>1, DeliveredIs
  <2>3. PICK r \in Receipts :
           /\ Asked' = Asked \ {p} /\ received' = received \cup {r}
           /\ r.of = p.of /\ r.text = t /\ r.window = p.window
           /\ r.targets = p.targets /\ r.blind = p.blind /\ r.switched = p.switched
    BY <2>2
  <2>4. r.text \in Results => r.text >= r.of
    BY <2>3 DEF PromiseInv
  <2>5. r.window \in r.targets \/ r.switched \/ (platform # "win" /\ r.blind)
    <3>1. p.window \in p.targets \/ p.switched \/ (platform # "win" /\ p.blind)
      BY DEF PromiseInv
    <3> QED BY <2>3, <3>1
  <2> QED BY <1>4, <2>3, <2>4, <2>5
<1>7. CASE /\ Sends /\ stage \in {"modifiers", "keys"} /\ result # 0
           /\ stage = "modifiers" <=> platform = "win"
           /\ UNCHANGED <<result, used, clipboard, text>>
  <2> DEFINE g == Gets(result)
  <2>1. /\ g.of = used.results
        /\ g.window \in g.targets \/ g.switched \/ (platform # "win" /\ g.blind)
    BY <1>7, SentIs
  <2>2. /\ clipboard \in Results => clipboard >= g.of
        /\ text \in Results => text >= g.of
    <3>1. result = used.results
      BY <1>7 DEF TypedInv, StageInv
    <3>2. CASE platform = "win"
      <4>1. stage = "modifiers" /\ text \notin Results
        BY <1>7, <3>2 DEF TypedInv, ClipboardInv, Nothing, Results
      <4>2. clipboard \in Results => clipboard = result
        BY <4>1 DEF TypedInv, ClipboardInv
      <4> QED BY <1>3, <2>1, <3>1, <4>1, <4>2
    <3>3. CASE platform # "win"
      <4>1. stage = "keys"
        BY <1>7, <3>3
      <4>2. text = result
        BY <4>1 DEF TypedInv, ClipboardInv
      <4>3. clipboard \notin Results
        BY <3>3 DEF TypedInv, ClipboardInv
      <4> QED BY <1>3, <2>1, <3>1, <4>2, <4>3
    <3> QED BY <3>2, <3>3
  <2>3. received' = received /\ Asked' = Asked \cup {g}
    BY <1>7 DEF Sends
  <2> HIDE DEF g
  <2> QED BY <1>4, <1>7, <2>1, <2>2, <2>3
<1>8. CASE /\ Writes(result) \/ Writes(Part)
           /\ stage = "text" /\ result # 0
  <2>1. PICK t \in {result, Part} : received' = received \cup {Gets(t)} /\ Asked' = Asked
    BY <1>8 DEF Writes
  <2> DEFINE g == Gets(t)
  <2>2. /\ g.of = used.results /\ g.text = t
        /\ g.window \in g.targets \/ g.switched \/ (platform # "win" /\ g.blind)
    BY <1>8, SentIs
  <2>3. g.text \in Results => g.text >= g.of
    BY <1>3, <1>8, <2>2, PartIsNone DEF TypedInv, StageInv
  <2>4. received' = received \cup {g} /\ Asked' = Asked
    BY <2>1
  <2> HIDE DEF g
  <2> QED BY <1>4, <2>2, <2>3, <2>4
<1> QED BY <1>1, <1>5, <1>6, <1>7, <1>8 DEF Brings

LEMMA Promised == Spec => [](TypedInv /\ PromiseInv)
<1>1. Init => PromiseInv
  <2> SUFFICES ASSUME Init PROVE PromiseInv
    OBVIOUS
  <2>1. /\ pastes = {} /\ received = {} /\ events = <<>> /\ ~session
        /\ stage = "idle" /\ clipboard = Other
    BY DEF Init, InsertionInit, X11Init
  <2>2. Reqs(events) = {} /\ Distinct(events)
    BY <2>1 DEF Reqs, Distinct
  <2>3. Asked = {} /\ Whole = {}
    BY <2>1, <2>2, AskedIs DEF Whole
  <2> QED BY <2>1, <2>2, <2>3 DEF PromiseInv, OnceInv, Apart, Fresh, FirstTry, NoStalePaste
<1>2. TypedInv /\ PromiseInv /\ [Next]_vars => PromiseInv'
  BY PromiseKept
<1> QED BY <1>1, <1>2, Typed, PTL DEF Spec

(***************************************************************************)
(* A result is typed or pasted once at most, whatever fails.               *)
(***************************************************************************)
THEOREM ResultsInsertedOnce == Spec => []InsertedOnce
<1>1. TypedInv /\ PromiseInv => InsertedOnce
  <2> SUFFICES ASSUME TypedInv, PromiseInv, NEW n \in Results
               PROVE  Cardinality({r \in Whole \cup Asked : r.of = n}) <= 1
    BY DEF InsertedOnce
  <2> DEFINE S == {r \in Whole \cup Asked : r.of = n}
  <2>1. CASE S = {}
    BY <2>1, FS_EmptySet
  <2>2. CASE S # {}
    <3>1. PICK r \in S : S = {r}
      BY <2>2 DEF PromiseInv, OnceInv
    <3> QED BY <3>1, FS_Singleton
  <2> QED BY <2>1, <2>2
<1> QED BY <1>1, Promised, PTL

(***************************************************************************)
(* The keys go to one of the windows of the target, unless the focus was   *)
(* moved after DictScribe looked at it or set it, or, on X11 only, the     *)
(* target has no focus_window to be restored.                              *)
(***************************************************************************)
THEOREM TargetAlwaysGetsText == Spec => []TargetGetsText
<1>1. TypedInv /\ PromiseInv => TargetGetsText
  BY AskedIs DEF PromiseInv, TargetGetsText
<1> QED BY <1>1, Promised, PTL

(***************************************************************************)
(* A paste never brings the text of an earlier dictation.                  *)
(***************************************************************************)
THEOREM PastesNeverStale == Spec => []NoStalePaste
<1>1. PromiseInv => NoStalePaste
  BY DEF PromiseInv
<1> QED BY <1>1, Promised, PTL

(***************************************************************************)
(* commit() on Windows ends with the text in the window, on the clipboard  *)
(* for a paste that was sent or with the user told, or says that nothing   *)
(* worked.                                                                 *)
(***************************************************************************)
THEOREM TextNeverLost == Spec => TextIsNotLost
<1> DEFINE Kept ==
      \/ told' = "rejected"
      \/ told' = "copied" /\ clipboard' = result
      \/ /\ told' = "none"
         /\ \E r \in received' \cup pastes' :
              /\ r.of = result /\ r.text = result
              /\ r \in pastes' => clipboard' = result \/ replaced
<1>1. TypedInv /\ PromiseInv /\ [Next]_vars
        => [stage # "idle" /\ stage' = "idle" /\ platform = "win" => Kept]_vars
  <2> SUFFICES ASSUME TypedInv, PromiseInv, [Next]_vars, stage # "idle", stage' = "idle",
                      platform = "win"
               PROVE  Kept
    OBVIOUS
  <2>1. WinInsertText /\ UNCHANGED x11Own
    BY Steps DEF Shared, Completes, EndSession, SwitchWindow, CloseTarget,
                 Turns, Starts, Aims, Commits, WinPaste, Copies, vars, winVars, hostVars
  <2>2. stage # "idle" => result # 0 /\ result = used.results
    BY DEF TypedInv, StageInv
  <2>3. CASE TypeText
    <3> DEFINE g == Gets(result)
    <3>1. stage = "text" /\ told' = "none" /\ received' = received \cup {g} /\ UNCHANGED pastes
      BY <2>3 DEF TypeText, Leaves
    <3>2. g.of = result /\ g.text = result
      BY DEF Gets
    <3>3. g \notin pastes
      BY <2>2, <3>1, <3>2, AskedIs DEF PromiseInv, OnceInv, Fresh, FirstTry
    <3> QED BY <3>1, <3>2, <3>3
  <2>4. CASE SendPaste
    <3> DEFINE g == Gets(result)
    <3>1. /\ stage = "modifiers" /\ told' = "none" /\ pastes' = pastes \cup {g}
          /\ UNCHANGED clipboard
      BY <2>4 DEF SendPaste, Leaves
    <3>2. g.of = result /\ g.text = result
      BY DEF Gets
    <3>3. clipboard = result \/ replaced
      BY <3>1 DEF TypedInv, ClipboardInv
    <3> QED BY <3>1, <3>2, <3>3
  <2>5. CASE SetClipboardData
    BY <2>5 DEF SetClipboardData, Leaves
  <2>6. CASE ClipboardFails
    BY <2>6 DEF ClipboardFails, Leaves, InsertTextFails
  <2> QED
    BY <2>1, <2>3, <2>4, <2>5, <2>6
       DEF WinInsertText, CheckTarget, NoTarget, CheckFocus, FocusLost, TypeTextFails,
           ChooseClipboard, OpenClipboard, EmptyClipboard, ModifiersHeld, SendPasteFails,
           InsertTextFails, Proceeds
<1> QED BY <1>1, Promised, PTL DEF Spec, TextIsNotLost
=============================================================================
