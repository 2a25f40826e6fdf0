---------------------------- MODULE SettingsFile ----------------------------
(***************************************************************************)
(* The settings of the user on disk and in memory: LoadSettings(),         *)
(* SaveSettings() and ReconcilePendingDeviceSettings() of app/settings.cpp *)
(* and the handlers of both windows that change a setting and save.        *)
(*                                                                         *)
(* SaveSettings() is one call for the window, and several for the file     *)
(* system: each is a step that may fail, and the program may die between   *)
(* any two.  A document is a function from the names it has to values, and *)
(* Invalid is a value of a JSON type the name does not allow.              *)
(***************************************************************************)
EXTENDS Integers, Sequences

CONSTANTS
  None, Invalid,   \* model values
  Files,        \* what there may be on disk when the program is first started
  Dragged,      \* the positions and sizes the user gives the overlay
  Faults,       \* of "directory", "open", "write", "disk_full", "rename", "remove", "worker"
  MaxChanges    \* bounds the settings changed

Device == {"cpu", "gpu"}

Values ==
  [language |-> {"auto", "de-DE", "en-US"}, cleanupMode |-> {"off", "ai"},
   asrDevice |-> Device, rewriteDevice |-> Device,
   overlayAppearance |-> {"glass", "solid"}, colorTheme |-> {"dark", "light"}]

Fields == DOMAIN Values \cup {"overlayPosition", "overlaySize"}

Default ==
  [language |-> "auto", cleanupMode |-> "off", asrDevice |-> "cpu", rewriteDevice |-> "cpu",
   overlayAppearance |-> "glass", colorTheme |-> "dark",
   overlayPosition |-> None, overlaySize |-> None]

\* None and Invalid are no values, and no window can be dragged out of range.
ASSUME SettingsAssumption ==
  /\ None # Invalid
  /\ \A f \in DOMAIN Values : {None, Invalid} \cap Values[f] = {}
  /\ \A d \in Dragged : /\ d.position # Invalid /\ d.size # Invalid
                       /\ d.size.width \in 480..2000 /\ d.size.height \in 200..1200
  /\ MaxChanges \in Nat

\* A file holds a document or cannot be parsed as an object, and then either
\* anyhow or because the disk was full when it was written.
Json(document) == [kind |-> "json", document |-> document]
NotJson == [kind |-> "not_json"]
Cut == [kind |-> "cut"]
Absent == [kind |-> "absent"]

-----------------------------------------------------------------------------
(* LoadSettings() *)

\* CanonicalLanguageCode(), with the short codes of earlier versions.
CanonicalLanguageCode(code) ==
  CASE code = "de" -> "de-DE" [] code = "en" -> "en-US" [] OTHER -> code

\* Mutant: a size is believed as long as it is two numbers.
AcceptsAnySize(field, value) ==
  /\ value # Invalid
  /\ field = "language" => CanonicalLanguageCode(value) \in Values.language
  /\ field \in DOMAIN Values \ {"language"} => value \in Values[field]

Accepts(field, value) ==
  /\ value # Invalid
  /\ field = "language" => CanonicalLanguageCode(value) \in Values.language
  /\ field \in DOMAIN Values \ {"language"} => value \in Values[field]
  /\ field = "overlaySize" => value.width \in 480..2000 /\ value.height \in 200..1200

\* Each field for itself: what is missing or not accepted has its default.
Read(document) ==
  [f \in Fields |->
     IF f \notin DOMAIN document \/ ~Accepts(f, document[f]) THEN Default[f]
     ELSE IF f = "language" THEN CanonicalLanguageCode(document[f]) ELSE document[f]]

Load(f) == IF f.kind = "json" THEN Read(f.document) ELSE Default

\* SaveSettings(): the two optional fields are written when they have a value.
Document(s) == [f \in {g \in Fields : s[g] # None} |-> s[f]]

-----------------------------------------------------------------------------
VARIABLES
  file,        \* settings.json
  temporary,   \* settings.json.tmp
  step,        \* the next step of SaveSettings(); "idle", or "down": no program
  settings,    \* AppSettings in memory
  pending,     \* PendingDeviceSettings, "none" is an empty optional
  notice,      \* settings_notice: "none", or what the settings window says
  saved,       \* history: the settings found at the start or reported as saved since
  changes      \* settings changed, bounded by MaxChanges

vars == <<file, temporary, step, settings, pending, notice, saved, changes>>

NoDevices == [asrDevice |-> "none", rewriteDevice |-> "none"]

SettingsInit ==
  /\ file \in Files
  /\ temporary = Absent
  /\ step = "down"
  /\ settings = Default
  /\ pending = NoDevices
  /\ notice = "none"
  /\ saved = Load(file)
  /\ changes = 0

\* main(), WinApp::initialize()
Start ==
  /\ step = "down"
  /\ step' = "idle"
  /\ settings' = Load(file) /\ saved' = settings'
  /\ pending' = NoDevices /\ notice' = "none"
  /\ UNCHANGED <<file, temporary, changes>>

\* A kill, a crash, a logoff: the file system keeps what was done.
Die ==
  /\ step # "down"
  /\ step' = "down"
  /\ settings' = Default /\ pending' = NoDevices /\ notice' = "none"
  /\ UNCHANGED <<file, temporary, saved, changes>>

-----------------------------------------------------------------------------
(* The handlers of the windows.  Each calls SaveSettings() after it changed *)
(* the settings in memory, and keeps the change when saving fails.          *)

Changes ==
  /\ step = "idle" /\ changes < MaxChanges
  /\ changes' = changes + 1

Change(s) ==
  /\ Changes
  /\ settings' = s
  /\ step' = "directory"
  /\ UNCHANGED <<file, temporary, pending, notice, saved>>

\* Language, cleanup mode, appearance and theme.
Select ==
  \E f \in DOMAIN Values \ DOMAIN NoDevices : \E v \in Values[f] :
    Change([settings EXCEPT ![f] = v])

\* The overlay was moved or sized.
DragOverlay ==
  \E d \in Dragged :
    Change([settings EXCEPT !.overlayPosition = d.position, !.overlaySize = d.size])

\* A device is saved when its worker reports it: nothing is written yet.
SelectDevice ==
  /\ Changes
  /\ \E w \in DOMAIN NoDevices, d \in Device : pending' = [pending EXCEPT ![w] = d]
  /\ UNCHANGED <<file, temporary, step, settings, notice, saved>>

-----------------------------------------------------------------------------
(* ReconcilePendingDeviceSettings(), on a snapshot of the controller that   *)
(* says which workers are ready; their devices are those that were chosen.  *)

WorkerFailed ==
  /\ "worker" \in Faults
  /\ step = "idle" /\ pending # NoDevices
  /\ pending' = NoDevices
  /\ notice' = "worker"
  /\ UNCHANGED <<file, temporary, step, settings, saved, changes>>

\* Mutant: the notice is cleared, and the settings saved only if they differ.
WorkersReadyUnsaved ==
  /\ step = "idle"
  /\ \E ready \in SUBSET {w \in DOMAIN NoDevices : pending[w] # "none"} :
       /\ ready # {}
       /\ settings' = [f \in Fields |-> IF f \in ready THEN pending[f] ELSE settings[f]]
       /\ pending' = [w \in DOMAIN NoDevices |-> IF w \in ready THEN "none" ELSE pending[w]]
  /\ notice' = "none"
  /\ step' = IF settings' = settings THEN "idle" ELSE "directory"
  /\ UNCHANGED <<file, temporary, saved, changes>>

WorkersReady ==
  /\ step = "idle"
  /\ \E ready \in SUBSET {w \in DOMAIN NoDevices : pending[w] # "none"} :
       /\ ready # {}
       /\ settings' = [f \in Fields |-> IF f \in ready THEN pending[f] ELSE settings[f]]
       /\ pending' = [w \in DOMAIN NoDevices |-> IF w \in ready THEN "none" ELSE pending[w]]
  /\ notice' = "none"
  /\ step' = "directory"
  /\ UNCHANGED <<file, temporary, saved, changes>>

-----------------------------------------------------------------------------
(* SaveSettings() *)

\* It returns false and the window says why.
NotSaved ==
  /\ step' = "idle" /\ notice' = "unsaved"
  /\ UNCHANGED <<file, settings, pending, saved, changes>>

Goes(from, to) ==
  /\ step = from /\ step' = to
  /\ UNCHANGED <<file, settings, pending, notice, saved, changes>>

CreateDirectory == Goes("directory", "open") /\ UNCHANGED temporary

SaveFails ==
  \/ /\ \/ step = "directory" /\ "directory" \in Faults
        \/ step = "open" /\ "open" \in Faults
     /\ NotSaved /\ UNCHANGED temporary
  \* Less than the document reached the stream.
  \/ /\ step = "write" /\ "write" \in Faults
     /\ NotSaved /\ temporary' = NotJson

\* Opening truncates the file; an empty file is no JSON.
OpenTemporary == Goes("open", "write") /\ temporary' = NotJson

\* Mutant: the file is renamed before the stream is destroyed.
WriteThenRename == Goes("write", "rename") /\ UNCHANGED temporary

\* The document goes to the buffer of the stream,
Write == Goes("write", "close") /\ UNCHANGED temporary

\* and to the file when the stream is destroyed: nobody looks at the result.
Close ==
  /\ Goes("close", "rename")
  /\ \/ temporary' = Json(Document(settings))
     \/ "disk_full" \in Faults /\ temporary' = Cut

Rename ==
  /\ step = "rename"
  /\ file' = temporary /\ temporary' = Absent
  /\ step' = "idle" /\ notice' = "none"
  /\ saved' = settings
  /\ UNCHANGED <<settings, pending, changes>>

RenameFails == "rename" \in Faults /\ Goes("rename", "remove") /\ UNCHANGED temporary

\* Whether the temporary file can be removed does not matter.
RemoveTemporary ==
  /\ step = "remove"
  /\ \/ temporary' = Absent
     \/ "remove" \in Faults /\ UNCHANGED temporary
  /\ NotSaved

Save ==
  \/ CreateDirectory \/ SaveFails \/ OpenTemporary \/ Write \/ Close
  \/ Rename \/ RenameFails \/ RemoveTemporary

SettingsNext ==
  \/ Start \/ Die \/ Select \/ DragOverlay \/ SelectDevice
  \/ WorkerFailed \/ WorkersReady \/ Save

SettingsSpec == SettingsInit /\ [][SettingsNext]_vars
=============================================================================
