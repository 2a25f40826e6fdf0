------------------------ MODULE InsertionProperties ------------------------
(***************************************************************************)
(* What the user is promised for a dictated text, on the platform the      *)
(* program was built for.                                                  *)
(***************************************************************************)
EXTENDS WinInsertion, X11Insertion

CONSTANT Platforms   \* of "win", "x11"

VARIABLE platform

vars == <<winVars, x11Own, platform>>

Init ==
  /\ platform \in Platforms
  /\ InsertionInit
  /\ fallback = FALSE
  /\ X11Init /\ xtest \in {TRUE, platform = "win" \/ "xtest" \notin Faults}

Next ==
  \/ platform = "win" /\ WinNext /\ UNCHANGED <<x11Own, platform>>
  \/ platform = "x11" /\ X11Next /\ UNCHANGED <<fallback, platform>>

Spec == Init /\ [][Next]_vars

Receipts ==
  [of : Results, text : Results \cup {Other, Nothing, Part},
   window : Window \cup {Own, NoWindow}, targets : SUBSET Window, blind : BOOLEAN,
   switched : BOOLEAN]

(***************************************************************************)
(* Type correctness.  On Windows the target is one window.                 *)
(***************************************************************************)
InsertionTypeOK ==
  /\ stage \in {"idle", "target", "restore", "text", "open", "empty", "set", "modifiers",
                "claim", "verify", "keys", "dead"}
  /\ session \in BOOLEAN /\ fallback \in BOOLEAN
  /\ target \in Window \cup {NoWindow} /\ targetActive \in Window \cup {NoWindow}
  /\ platform = "win" => targetActive = NoWindow
  /\ active \in Window \cup {Own, NoWindow} /\ asked \subseteq Window
  /\ result \in Results \cup {0} /\ kind \in {"line", "lines"}
  /\ told \in {"none", "copied", "rejected", "log"}
  /\ clipboard \in Results \cup {Other, Nothing}
  /\ pastes \subseteq Receipts /\ received \subseteq Receipts

Whole == {r \in received : r.text # Part}

\* The pastes whose text has not come yet, from the window or its server.
Asked ==
  pastes \cup {events[k].paste : k \in {j \in DOMAIN events : events[j].type = "SelectionRequest"}}

(***************************************************************************)
(* Safety: a result is typed or pasted by DictScribe once at most, however *)
(* often the main loop and the hotkeys see it in the controller's snapshot *)
(***************************************************************************)
InsertedOnce ==
  \A n \in Results : Cardinality({r \in Whole \cup Asked : r.of = n}) <= 1

(***************************************************************************)
(* Safety: the keys go to the window that was the target, on X11 to its    *)
(* focus_window or its active_window, unless the focus was moved elsewhere *)
(* after DictScribe last looked at it or set it: by the user, or on X11 by *)
(* a window manager that only now does what an earlier insertion asked     *)
(* for.  A target that has only an active_window (blind) is excepted, see  *)
(* KeysGoToTarget.                                                         *)
(***************************************************************************)
TargetGetsText ==
  \A r \in received \cup pastes :
    r.window \in r.targets \/ r.switched \/ (platform # "win" /\ r.blind)

(***************************************************************************)
(* What README.md says of Linux: the keys are sent to the target, or the   *)
(* text is left on the clipboard where the focus cannot be restored.       *)
(***************************************************************************)
KeysGoToTarget ==
  \A r \in received \cup pastes : r.window \in r.targets \/ r.switched

(***************************************************************************)
(* Safety: a paste that was sent for one result never brings an earlier    *)
(* one to light, however late the window acts on it.                       *)
(***************************************************************************)
NoStalePaste ==
  \A r \in received : r.text \in Results => r.text >= r.of

(***************************************************************************)
(* Safety: on Windows, commit() ends with the text typed, pasted, or on    *)
(* the clipboard with the user told so, or with the user told that nothing *)
(* worked: also when the target lost the focus, a modifier key was held,   *)
(* or the clipboard could be used the first time and not the second.       *)
(***************************************************************************)
TextIsNotLost ==
  [][stage # "idle" /\ stage' = "idle" /\ platform = "win" =>
       \/ told' = "rejected"
       \/ told' = "copied" /\ clipboard' = result
       \/ /\ told' = "none"
          /\ \E r \in received' \cup pastes' :
               /\ r.of = result /\ r.text = result
               /\ r \in pastes' => clipboard' = result \/ replaced]_vars
=============================================================================
