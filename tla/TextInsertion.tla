--------------------------- MODULE TextInsertion ---------------------------
(***************************************************************************)
(* What inserting a result is about on both platforms: the dictation       *)
(* session of the host window, the windows of other programs, the keyboard *)
(* focus and the clipboard.  X11Insertion and WinInsertion add the code of *)
(* each platform; results come from the controller, which is a number and  *)
(* a line count here, and other programs act between any two steps.        *)
(***************************************************************************)
EXTENDS Integers, FiniteSets

CONSTANTS
  Window,        \* top-level windows of other programs
  Own, NoWindow, \* a window of DictScribe, and none: model values
  Faults,        \* of "restore", "type", "open", "clipboard", "modifiers", "paste",
                 \* "xtest", "keymap"
  MaxResults,    \* bounds the dictations,
  MaxCopies,     \* the texts other programs copy
  MaxSwitches    \* and how often the user changes or closes a window

ASSUME DesktopAssumption ==
  /\ Own \notin Window /\ NoWindow \notin Window
  /\ MaxResults \in Nat /\ MaxCopies \in Nat /\ MaxSwitches \in Nat

Other == 0       \* what another program put on the clipboard
Nothing == -1    \* an empty clipboard
Part == -2       \* a part of a result
Results == 1..MaxResults

VARIABLES
  stage,        \* what the host window is doing; "idle" in its main loop
  session,      \* session_active
  target,       \* the TargetContext's window, on X11 its focus_window
  targetActive, \* on X11, its active_window
  result,       \* the number of the controller's result; 0, none yet
  kind,         \* "line", or "lines" if it has a line break
  told,         \* what the user was told of the last insertion
  focus,        \* the window that gets the keyboard
  open,         \* the windows that exist
  clipboard,    \* what other programs find on the clipboard
  pastes,       \* the Ctrl+V that were sent and not acted on yet
  received,     \* history: what windows got, from which insertion
  switched,     \* history: the focus was moved elsewhere during this insertion
  replaced,     \* history: another program copied since the result was copied
  used          \* dictations, copies and switches so far

hostVars == <<stage, session, target, targetActive, result, kind, told>>
desktopVars == <<focus, open, clipboard, pastes, received, switched, replaced>>

InsertionInit ==
  /\ stage = "idle" /\ session = FALSE /\ target = NoWindow /\ targetActive = NoWindow
  /\ result = 0 /\ kind = "line" /\ told = "none"
  /\ focus \in Window \cup {Own, NoWindow}
  /\ open = Window
  /\ clipboard = Other
  /\ pastes = {} /\ received = {}
  /\ switched = FALSE /\ replaced = TRUE
  /\ used = [results |-> 0, copies |-> 0, switches |-> 0]

-----------------------------------------------------------------------------
(* The host window: win_main.cpp and dictation_window.cpp alike.           *)

\* CaptureTargetContext(), capture_target(): never one of DictScribe's own.
External(w) == w \in Window
Captured(w) == IF External(w) THEN w ELSE NoWindow

\* Only the target changes: it follows the focus while a session runs.
Aims(window, activeWindow) ==
  /\ stage = "idle"
  /\ target' = window /\ targetActive' = activeWindow
  /\ UNCHANGED <<stage, session, result, kind, told, desktopVars, used>>

\* The controller completes the dictation, or reports an error.
Completes ==
  /\ stage = "idle" /\ session /\ result = 0
  /\ result' = used.results
  /\ kind' \in {"line", "lines"}
  /\ UNCHANGED <<stage, session, target, targetActive, told, desktopVars, used>>

\* CancelDictation(), and the mode Error in the main loop.
EndSession ==
  /\ stage = "idle" /\ session
  /\ session' = FALSE
  /\ UNCHANGED <<stage, target, targetActive, result, kind, told, desktopVars, used>>

\* Of a new dictation the controller has no result.
Starts(window, activeWindow) ==
  /\ stage = "idle" /\ ~session /\ used.results < MaxResults
  /\ session' = TRUE
  /\ target' = window /\ targetActive' = activeWindow
  /\ result' = 0 /\ told' = "none"
  /\ used' = [used EXCEPT !.results = @ + 1]
  /\ UNCHANGED <<stage, kind, desktopVars>>

\* Mutant: the session stays active.
CommitsAgain(next) ==
  /\ stage = "idle" /\ session /\ result # 0
  /\ stage' = next
  /\ told' = "none" /\ switched' = FALSE
  /\ UNCHANGED <<session, target, targetActive, result, kind, focus, open, clipboard, pastes,
                 received, replaced, used>>

\* commit(): from the main loop, a hotkey or the tray menu.
Commits(next) ==
  /\ stage = "idle" /\ session /\ result # 0
  /\ session' = FALSE
  /\ stage' = next
  /\ told' = "none" /\ switched' = FALSE
  /\ UNCHANGED <<target, targetActive, result, kind, focus, open, clipboard, pastes, received,
                 replaced, used>>

\* The keys go to the window that has the focus now, whoever was meant: blind
\* are those that are sent although no focus was captured to be restored.
Targets == {target, targetActive} \cap Window
Gets(text) == [of |-> result, text |-> text, window |-> focus, targets |-> Targets,
               blind |-> target = NoWindow, switched |-> switched]

-----------------------------------------------------------------------------
(* The user and other programs.                                            *)

Switches(w) ==
  /\ used.switches < MaxSwitches
  /\ used' = [used EXCEPT !.switches = @ + 1]
  /\ switched' = TRUE
  /\ focus' = w

SwitchWindow ==
  \E w \in (open \cup {Own, NoWindow}) \ {focus} :
    Switches(w) /\ UNCHANGED <<hostVars, open, clipboard, pastes, received, replaced>>

\* A window is closed; another one, or none, gets its focus.
CloseTarget ==
  \E w \in open :
    /\ open' = open \ {w}
    /\ \E next \in open' \cup {NoWindow} : Switches(IF focus = w THEN next ELSE focus)
    /\ pastes' = {p \in pastes : p.window # w}
    /\ UNCHANGED <<hostVars, clipboard, received, replaced>>

Copies ==
  /\ used.copies < MaxCopies
  /\ used' = [used EXCEPT !.copies = @ + 1]
  /\ clipboard' = Other
  /\ replaced' = TRUE
  /\ UNCHANGED <<hostVars, focus, open, pastes, received, switched>>
=============================================================================
