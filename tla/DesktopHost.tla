---------------------------- MODULE DesktopHost ----------------------------
(***************************************************************************)
(* The desktop window that drives the controller from the UI thread:       *)
(* src/ui/dictation_window.cpp on Linux/X11, whose decisions win_main.cpp  *)
(* repeats on Windows, and the device settings that app/settings.cpp       *)
(* reconciles.  A hotkey reads a snapshot first and calls the controller   *)
(* afterwards: the two are separate steps, and a reader thread may run in  *)
(* between.  Drawing, targets and hotkey registration are left out; what   *)
(* is inserted is recorded in inserted, a history variable.                *)
(***************************************************************************)
EXTENDS AppController

VARIABLES
  sessionActive,   \* session_active of the window
  pendingDevice,   \* PendingDeviceSettings, "none" is an empty optional
  savedDevice,     \* the devices of the settings that are written to disk
  inserted,        \* history: what was inserted, for which dictation
  cancelled        \* history: the sessions of the dictations the user cancelled

hostVars == <<sessionActive, pendingDevice, savedDevice, inserted, cancelled>>

HostTypeOK ==
  /\ sessionActive \in BOOLEAN
  /\ pendingDevice \in [Workers -> Device \cup {"none"}]
  /\ savedDevice \in [Workers -> Device]
  /\ inserted \in Seq([dictation : SUBSET Nat, text : SUBSET Nat])
  /\ cancelled \in SUBSET Nat

HostInit ==
  /\ sessionActive = FALSE
  /\ pendingDevice = [w \in Workers |-> "none"]
  /\ savedDevice = [w \in Workers |-> "cpu"]
  /\ inserted = <<>>
  /\ cancelled = {}

Idle == ui.pc = "idle"
Call(pc) == ui' = [pc |-> pc, op |-> "none"]

SnapshotText ==
  IF ctl.rewritten # {} THEN ctl.rewritten
  ELSE IF ctl.raw # {} THEN ctl.raw ELSE ctl.live

\* The text goes to the target; an empty text is not inserted.
InsertText ==
  inserted' = IF SnapshotText = {} THEN inserted
              ELSE Append(inserted, [dictation |-> ctl.dictation, text |-> SnapshotText])

\* Mutant: the session stays active.
HotkeyInsertAgain ==
  /\ Idle
  /\ sessionActive /\ ctl.mode = "Complete" /\ ctl.confirm
  /\ InsertText
  /\ UNCHANGED <<pipes, ctl, ui, sessionActive, pendingDevice, savedDevice, cancelled>>

\* Ctrl+Alt+Space or Enter while a reviewed result waits: insert it.
HotkeyInsert ==
  /\ Idle
  /\ sessionActive /\ ctl.mode = "Complete" /\ ctl.confirm
  /\ InsertText
  /\ sessionActive' = FALSE
  /\ UNCHANGED <<pipes, ctl, ui, pendingDevice, savedDevice, cancelled>>

\* Ctrl+Alt+Space or Enter otherwise: the snapshot allows a toggle.
HotkeyStart ==
  /\ Idle
  /\ \/ ctl.mode = "Ready"
     \/ ctl.mode = "Complete" /\ ~(sessionActive /\ ctl.confirm)
  /\ sessionActive' = TRUE
  /\ Call("toggle")
  /\ UNCHANGED <<pipes, ctl, pendingDevice, savedDevice, inserted, cancelled>>

HotkeyStop ==
  /\ Idle
  /\ ctl.mode = "Recording"
  /\ Call("toggle")
  /\ UNCHANGED <<pipes, ctl, hostVars>>

UiToggle ==
  /\ ui.pc = "toggle"
  /\ ToggleRecording
  /\ ui' = UiIdle
  /\ UNCHANGED <<proc, running, stdout, reader, device, hostVars>>

HotkeyCancel ==
  /\ Idle
  /\ CanCancel
  /\ Call("cancel")
  /\ UNCHANGED <<pipes, ctl, hostVars>>

UiCancel ==
  /\ ui.pc = "cancel"
  /\ CancelRecording
  /\ sessionActive' = FALSE
  /\ cancelled' = cancelled \cup ctl.dictation
  /\ ui' = UiIdle
  /\ UNCHANGED <<proc, running, stdout, reader, device,
                 pendingDevice, savedDevice, inserted>>

SelectLanguage(language) ==
  /\ Idle
  /\ SetLanguage(language)
  /\ UNCHANGED <<proc, running, stdout, reader, device, ui, hostVars>>

SelectCleanup(mode) ==
  /\ Idle
  /\ SetCleanupMode(mode)
  /\ UNCHANGED <<proc, running, stdout, reader, device, hostVars>>

SelectAsrDevice(d) ==
  /\ Idle
  /\ SetAsrDevice(d)
  /\ UNCHANGED <<proc, running, stdout, reader, device, hostVars>>

\* Without AI cleanup the call returns at once and the choice is pending.
SelectRewriteDevice(d) ==
  /\ Idle
  /\ SetRewriteDevice(d)
  /\ pendingDevice' = IF ctl.cleanup = "Ai" THEN pendingDevice
                      ELSE [pendingDevice EXCEPT !["rewrite"] = d]
  /\ UNCHANGED <<proc, running, stdout, reader, device,
                 sessionActive, savedDevice, inserted, cancelled>>

\* The window is closed and the controller destroyed with it.
CloseWindow ==
  /\ Idle
  /\ Quit
  /\ UNCHANGED hostVars

\* Choosing the device in use restarts nothing and still becomes pending.
SelectCurrentDevice(w) ==
  /\ Idle
  /\ CanSetComputeDevice
  /\ pendingDevice' = [pendingDevice EXCEPT ![w] = ctl.device[w]]
  /\ UNCHANGED <<pipes, ctl, ui, sessionActive, savedDevice, inserted, cancelled>>

\* set_asr_device() and set_rewrite_device() return true.
DeviceCallReturns(ops) ==
  pendingDevice' = IF ui.op \in ops
                     THEN [pendingDevice EXCEPT ![OpWorker] = ctl.device[OpWorker]]
                     ELSE pendingDevice

HostSpawn ==
  /\ UiSpawn
  /\ DeviceCallReturns({"asr_device", "rewrite_device"})
  /\ UNCHANGED <<sessionActive, savedDevice, inserted, cancelled>>

HostSpawnFails ==
  /\ UiSpawnFails
  /\ DeviceCallReturns({"rewrite_device"})
  /\ UNCHANGED <<sessionActive, savedDevice, inserted, cancelled>>

HostTick ==
  /\ Idle
  /\ Tick
  /\ UNCHANGED <<proc, running, stdout, reader, device, ui, hostVars>>

\* ReconcilePendingDeviceSettings() on one snapshot of the controller.
Reported(w) ==
  IF w = "asr" THEN ctl.asrReady ELSE ctl.rewriteReady \/ ctl.cleanup = "Off"

Committed(w) ==
  /\ ctl.mode # "Error"
  /\ Reported(w)
  /\ pendingDevice[w] = ctl.device[w]

ReconcileDevices ==
  /\ pendingDevice' = [w \in Workers |->
       IF ctl.mode = "Error" \/ Committed(w) THEN "none" ELSE pendingDevice[w]]
  /\ savedDevice' = [w \in Workers |->
       IF Committed(w) THEN pendingDevice[w] ELSE savedDevice[w]]

\* One turn of the main loop: reconcile, then insert a raw result or give up.
HostPoll ==
  /\ Idle
  /\ ReconcileDevices
  /\ CASE sessionActive /\ ctl.mode = "Complete" /\ ~ctl.confirm ->
            InsertText /\ sessionActive' = FALSE
       [] sessionActive /\ ctl.mode = "Error" ->
            sessionActive' = FALSE /\ UNCHANGED inserted
       [] OTHER -> UNCHANGED <<sessionActive, inserted>>
  /\ UNCHANGED <<pipes, ctl, ui, cancelled>>
=============================================================================
