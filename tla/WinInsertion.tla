---------------------------- MODULE WinInsertion ----------------------------
(***************************************************************************)
(* Inserting a result on Windows: InsertText() and PutTextOnClipboard() of *)
(* win_text_injector.cpp, called by commit() of win_main.cpp, step by step *)
(* as far as other programs can act in between.  The conversion to UTF-16  *)
(* cannot fail for the text of a JSON message and is left out.             *)
(***************************************************************************)
EXTENDS TextInsertion

VARIABLE fallback   \* commit() is in its second attempt, PutTextOnClipboard()

winVars == <<hostVars, desktopVars, used, fallback>>

WinStart == Starts(Captured(focus), NoWindow) /\ UNCHANGED fallback

\* The target is kept while the focus is on a window of DictScribe or on none.
RefreshTarget ==
  /\ session /\ External(focus)
  /\ Aims(focus, NoWindow) /\ UNCHANGED fallback

\* A press in Starting or Error shows the overlay near the target, that is all.
ShowNearTarget ==
  /\ ~(session /\ result # 0)
  /\ Aims(Captured(focus), NoWindow) /\ UNCHANGED fallback

WinCommit == Commits("target") /\ fallback' = FALSE

Proceeds(from, to) == stage = from /\ stage' = to

\* commit() is left with what the user is told.
Leaves(message) ==
  /\ stage' = "idle" /\ told' = message
  /\ UNCHANGED <<session, target, targetActive, result, kind>>

\* InsertText() returns false: commit() tries the clipboard.
InsertTextFails ==
  /\ stage' = "open" /\ fallback' = TRUE
  /\ UNCHANGED <<session, target, targetActive, result, kind, told>>

SameResult == UNCHANGED <<session, target, targetActive, result, kind, told, used>>

\* Mutant: any window that has the focus will do.
CheckTargetExists ==
  /\ Proceeds("target", "text") /\ target \in open
  /\ SameResult /\ UNCHANGED <<desktopVars, fallback>>

\* The target exists, and has the focus or is given it.
CheckTarget ==
  /\ stage = "target" /\ target \in open
  /\ \/ focus = target /\ stage' = "text" /\ UNCHANGED focus
     \/ focus # target /\ stage' = "restore" /\ focus' = target
     \/ focus # target /\ stage' = "restore" /\ "restore" \in Faults /\ UNCHANGED focus
  /\ switched' = FALSE
  /\ SameResult
  /\ UNCHANGED <<open, clipboard, pastes, received, replaced, fallback>>

NoTarget ==
  /\ stage = "target" /\ target \notin open
  /\ InsertTextFails /\ UNCHANGED <<desktopVars, used>>

\* After 30 ms; what the user did before this look does not count any more.
CheckFocus ==
  /\ Proceeds("restore", "text") /\ focus = target
  /\ switched' = FALSE
  /\ SameResult
  /\ UNCHANGED <<focus, open, clipboard, pastes, received, replaced, fallback>>

FocusLost ==
  /\ stage = "restore" /\ focus # target
  /\ InsertTextFails /\ UNCHANGED <<desktopVars, used>>

\* SendUnicodeText(): a single line is typed, the clipboard left alone.
TypeText ==
  /\ stage = "text" /\ kind = "line"
  /\ received' = received \cup {Gets(result)}
  /\ Leaves("none")
  /\ UNCHANGED <<focus, open, clipboard, pastes, switched, replaced, used, fallback>>

TypeTextFails ==
  /\ "type" \in Faults
  /\ stage = "text" /\ kind = "line"
  /\ received' \in {received, received \cup {Gets(Part)}}
  /\ InsertTextFails
  /\ UNCHANGED <<focus, open, clipboard, pastes, switched, replaced, used>>

\* Text with a line break is pasted: an Enter could submit a form.
ChooseClipboard ==
  /\ Proceeds("text", "open") /\ kind = "lines"
  /\ SameResult /\ UNCHANGED <<desktopVars, fallback>>

-----------------------------------------------------------------------------
(* SetClipboardText()                                                      *)

\* While it is open no other program can use the clipboard.
Locked == stage \in {"empty", "set"}

OpenClipboard ==
  /\ Proceeds("open", "empty")
  /\ SameResult /\ UNCHANGED <<desktopVars, fallback>>

EmptyClipboard ==
  /\ Proceeds("empty", "set")
  /\ clipboard' = Nothing
  /\ SameResult /\ UNCHANGED <<focus, open, pastes, received, switched, replaced, fallback>>

SetClipboardData ==
  /\ stage = "set"
  /\ clipboard' = result /\ replaced' = FALSE
  /\ IF fallback THEN Leaves("copied")
     ELSE stage' = "modifiers" /\ UNCHANGED <<session, target, targetActive, result, kind, told>>
  /\ UNCHANGED <<focus, open, pastes, received, switched, used, fallback>>

\* Mutant: what PutTextOnClipboard() returns is ignored.
ClipboardFailsQuietly ==
  /\ \/ stage = "open" /\ "open" \in Faults
     \/ stage \in {"empty", "set"} /\ "clipboard" \in Faults
  /\ IF fallback THEN Leaves("copied") /\ UNCHANGED fallback ELSE InsertTextFails
  /\ UNCHANGED <<desktopVars, used>>

\* The clipboard is in use by another program, cannot be emptied, or there is
\* no memory for the text.
ClipboardFails ==
  /\ \/ stage = "open" /\ "open" \in Faults
     \/ stage \in {"empty", "set"} /\ "clipboard" \in Faults
  /\ IF fallback THEN Leaves("rejected") /\ UNCHANGED fallback ELSE InsertTextFails
  /\ UNCHANGED <<desktopVars, used>>

-----------------------------------------------------------------------------
(* SendClipboardPaste()                                                    *)

\* For 300 ms a modifier key was held.
ModifiersHeld ==
  /\ "modifiers" \in Faults
  /\ stage = "modifiers"
  /\ InsertTextFails /\ UNCHANGED <<desktopVars, used>>

SendPaste ==
  /\ stage = "modifiers"
  /\ pastes' = pastes \cup {Gets(result)}
  /\ Leaves("none")
  /\ UNCHANGED <<focus, open, clipboard, received, switched, replaced, used, fallback>>

\* Fewer keys were accepted than sent; what was may have been enough.
SendPasteFails ==
  /\ "paste" \in Faults
  /\ stage = "modifiers"
  /\ pastes' \in {pastes, pastes \cup {Gets(result)}}
  /\ InsertTextFails
  /\ UNCHANGED <<focus, open, clipboard, received, switched, replaced, used>>

\* The window reads the clipboard some time after it got the keys.
WinPaste ==
  /\ ~Locked
  /\ \E p \in {q \in pastes : External(q.window)} :
       /\ pastes' = pastes \ {p}
       /\ received' = received \cup {[p EXCEPT !.text = clipboard]}
  /\ UNCHANGED <<hostVars, focus, open, clipboard, switched, replaced, used, fallback>>

WinInsertText ==
  \/ CheckTarget \/ NoTarget \/ CheckFocus \/ FocusLost \/ TypeText \/ TypeTextFails
  \/ ChooseClipboard \/ OpenClipboard \/ EmptyClipboard \/ SetClipboardData
  \/ ClipboardFails \/ ModifiersHeld \/ SendPaste \/ SendPasteFails

WinNext ==
  \/ WinStart \/ WinCommit \/ RefreshTarget \/ ShowNearTarget \/ WinInsertText \/ WinPaste
  \/ (Completes \/ EndSession \/ SwitchWindow \/ CloseTarget
        \/ (~Locked /\ Copies)) /\ UNCHANGED fallback
=============================================================================
