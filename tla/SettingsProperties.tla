------------------------- MODULE SettingsProperties -------------------------
(***************************************************************************)
(* What the user may rely on for settings, and the instance TLC checks.    *)
(***************************************************************************)
EXTENDS SettingsFile, FiniteSets

\* The smallest and the largest overlay the window lets the user drag.
OverlaySizes == {
  [position |-> [x |-> -8, y |-> 0], size |-> [width |-> 560, height |-> 244]],
  [position |-> [x |-> 0, y |-> 0], size |-> [width |-> 1600, height |-> 900]] }

\* No file, one that cannot be read, one of the first version, and a document
\* in which every name has a value it must not have.
FirstFiles == {
  Absent, NotJson, Json([language |-> "en"]),
  Json([language |-> "unsupported", asrDevice |-> "other", rewriteDevice |-> Invalid,
        overlayPosition |-> Invalid, overlaySize |-> [width |-> 100, height |-> 99999]]),
  Json([overlaySize |-> [width |-> 480, height |-> 1201], colorTheme |-> "light"]) }

(***************************************************************************)
(* Type correctness: whatever the file holds and whenever the program was  *)
(* killed, the settings in memory are ones the program can work with: a    *)
(* supported language, an overlay that is neither tiny nor huge.           *)
(***************************************************************************)
SettingsTypeOK ==
  /\ step \in {"down", "idle", "directory", "open", "write", "close", "rename", "remove"}
  /\ DOMAIN settings = Fields
  /\ \A f \in DOMAIN Values : settings[f] \in Values[f]
  /\ settings.overlaySize # None =>
       settings.overlaySize.width \in 480..2000 /\ settings.overlaySize.height \in 200..1200
  /\ pending \in [DOMAIN NoDevices -> Device \cup {"none"}]
  /\ notice \in {"none", "worker", "unsaved"}
  /\ changes \in 0..MaxChanges

(***************************************************************************)
(* Safety: at every moment, also in the middle of SaveSettings() and when  *)
(* it fails or the program dies there, a new start finds the settings that *)
(* were last reported as saved: never a part of a document, never one      *)
(* without a setting the user had made.  Only a disk that was full while   *)
(* the stream was destroyed can cost them: see Close.                      *)
(***************************************************************************)
FileHoldsSaved == file = Cut \/ Load(file) = saved

(***************************************************************************)
(* Safety: settings that differ from what is on disk are not kept quiet:   *)
(* the settings window says something until a save worked (persist_        *)
(* settings(), and ReconcilePendingDeviceSettings(), which clears it too). *)
(***************************************************************************)
UnsavedIsTold == step = "idle" /\ settings # saved => notice # "none"
=============================================================================
