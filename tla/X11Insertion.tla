---------------------------- MODULE X11Insertion ----------------------------
(***************************************************************************)
(* Inserting a result on Linux: insert_text(), poll_commands() and         *)
(* handle_selection_request() of linux_x11.cpp, called by the main loop of *)
(* dictation_window.cpp.  On X11 the owner of the clipboard answers every  *)
(* program that wants to paste, from its event queue, and is told there    *)
(* when another program takes the clipboard over.  The window that has the *)
(* focus, which the server knows, and the active window, which the window  *)
(* manager announces on the root window, are two things, and so are the    *)
(* focus_window and the active_window of a target.                         *)
(***************************************************************************)
EXTENDS TextInsertion, Sequences

VARIABLES
  xtest,     \* xtest_available_
  text,      \* clipboard_text_
  owner,     \* whether control_window_ owns the clipboard at the server
  events,    \* selection events on their way to poll_commands()
  active,    \* _NET_ACTIVE_WINDOW of the root window
  asked      \* windows the window manager was asked to activate

x11Own == <<xtest, text, owner, events, active, asked>>
x11Vars == <<hostVars, desktopVars, used, x11Own>>

\* A window manager may not announce the active window at all.
X11Init ==
  /\ text = Nothing /\ owner = FALSE /\ events = <<>>
  /\ active \in {focus, NoWindow} /\ asked = {}

\* TargetContext::valid(): one of the two windows will do.
Valid(window, activeWindow) == window # NoWindow \/ activeWindow # NoWindow
CandidateValid == Valid(Captured(focus), Captured(active))

\* ToggleDictation() keeps the target it had if it finds none.
X11Start ==
  /\ \/ CandidateValid /\ Starts(Captured(focus), Captured(active))
     \/ ~CandidateValid /\ Starts(target, targetActive)
  /\ UNCHANGED x11Own

\* In the main loop while a session runs, and at a press in Starting or Error.
X11Refresh ==
  /\ CandidateValid
  /\ Aims(Captured(focus), Captured(active)) /\ UNCHANGED x11Own

X11Commit == Commits("claim") /\ UNCHANGED x11Own

\* insert_text() returns false; its message only goes to the log.
Remains ==
  /\ stage' = "idle" /\ told' = "log"
  /\ UNCHANGED <<session, target, targetActive, result, kind>>

\* Mutant: a clipboard that is still owned is not claimed again.
ClaimOnce ==
  /\ stage = "claim"
  /\ stage' = "verify"
  /\ text' = IF owner THEN text ELSE result
  /\ owner' = TRUE /\ replaced' = FALSE
  /\ UNCHANGED <<session, target, targetActive, result, kind, told, focus, open, clipboard,
                 pastes, received, switched, used, xtest, events, active, asked>>

\* XSetSelectionOwner(): the server confirms nothing.
Claim ==
  /\ stage = "claim"
  /\ stage' = "verify"
  /\ text' = result
  /\ owner' = TRUE /\ replaced' = FALSE
  /\ UNCHANGED <<session, target, targetActive, result, kind, told, focus, open, clipboard,
                 pastes, received, switched, used, xtest, events, active, asked>>

NotInserted ==
  /\ stage = "verify"
  /\ ~owner \/ ~Valid(target, targetActive) \/ ~xtest
  /\ Remains /\ UNCHANGED <<desktopVars, used, x11Own>>

\* _NET_ACTIVE_WINDOW is a request to the window manager, which nobody waits
\* for; the focus is set if the target has a focus_window, and only then.
RestoreFocus ==
  /\ stage = "verify" /\ owner /\ xtest
  /\ asked' = asked \cup ({targetActive} \cap Window)
  /\ \/ target \in open /\ focus' = target /\ switched' = FALSE
     \/ target = NoWindow /\ targetActive # NoWindow /\ UNCHANGED <<focus, switched>>
  /\ stage' = "keys"
  /\ UNCHANGED <<session, target, targetActive, result, kind, told, open, clipboard, pastes,
                 received, replaced, used, xtest, text, owner, events, active>>

\* XSetInputFocus() on a window that is gone is an X error, and the error
\* handler of Xlib, which nobody replaces, ends the program and with it the
\* clipboard it owns.
RestoreFocusDies ==
  /\ stage = "verify" /\ owner /\ xtest
  /\ target # NoWindow /\ target \notin open
  /\ asked' = asked \cup ({targetActive} \cap Window)
  /\ stage' = "dead"
  /\ owner' = FALSE /\ clipboard' = Nothing
  /\ UNCHANGED <<session, target, targetActive, result, kind, told, focus, open, pastes,
                 received, switched, replaced, used, xtest, text, events, active>>

\* No key of the keyboard's layout gives Control or v.
KeysUnmapped ==
  /\ "keymap" \in Faults
  /\ stage = "keys"
  /\ Remains /\ UNCHANGED <<desktopVars, used, x11Own>>

SendKeys ==
  /\ stage = "keys"
  /\ pastes' = pastes \cup {Gets(result)}
  /\ stage' = "idle"
  /\ UNCHANGED <<session, target, targetActive, result, kind, told, focus, open, clipboard,
                 received, switched, replaced, used, x11Own>>

-----------------------------------------------------------------------------
(* The window manager: it follows the focus when it gets to it, and may    *)
(* activate what it was asked to, however late.                            *)

Announces ==
  /\ active' = focus
  /\ UNCHANGED <<hostVars, desktopVars, used, xtest, text, owner, events, asked>>

\* A request of an earlier insertion takes the focus away from this one.
Activates ==
  \E w \in asked \cap open :
    /\ focus' = w /\ active' = w
    /\ asked' = asked \ {w}
    /\ switched' = (switched \/ w # targetActive)
    /\ UNCHANGED <<hostVars, open, clipboard, pastes, received, replaced, used,
                   xtest, text, owner, events>>

-----------------------------------------------------------------------------
(* Other programs, and poll_commands()                                     *)

X11Copies ==
  /\ Copies
  /\ owner' = FALSE
  /\ events' = IF owner THEN Append(events, [type |-> "SelectionClear"]) ELSE events
  /\ UNCHANGED <<xtest, text, active, asked>>

\* The window asks the owner: another program answers at once.
X11Paste ==
  \E p \in {q \in pastes : External(q.window)} :
    /\ pastes' = pastes \ {p}
    /\ IF owner
       THEN /\ events' = Append(events, [type |-> "SelectionRequest", paste |-> p])
            /\ UNCHANGED received
       ELSE /\ received' = received \cup {[p EXCEPT !.text = clipboard]}
            /\ UNCHANGED events
    /\ UNCHANGED <<hostVars, focus, open, clipboard, switched, replaced, used, xtest, text,
                   owner, active, asked>>

SelectionClear ==
  /\ stage = "idle" /\ events # <<>> /\ Head(events).type = "SelectionClear"
  /\ text' = Nothing
  /\ events' = Tail(events)
  /\ UNCHANGED <<hostVars, desktopVars, used, xtest, owner, active, asked>>

\* handle_selection_request(), whoever owns the clipboard by now.
SelectionRequest ==
  /\ stage = "idle" /\ events # <<>> /\ Head(events).type = "SelectionRequest"
  /\ received' = received \cup {[Head(events).paste EXCEPT !.text = text]}
  /\ events' = Tail(events)
  /\ UNCHANGED <<hostVars, focus, open, clipboard, pastes, switched, replaced, used,
                 xtest, text, owner, active, asked>>

X11Next ==
  \/ X11Start \/ X11Refresh \/ X11Commit
  \/ Claim \/ NotInserted \/ RestoreFocus \/ RestoreFocusDies \/ KeysUnmapped \/ SendKeys
  \/ Announces \/ Activates
  \/ X11Copies \/ X11Paste \/ SelectionClear \/ SelectionRequest
  \/ (Completes \/ EndSession \/ SwitchWindow \/ CloseTarget) /\ UNCHANGED x11Own
=============================================================================
