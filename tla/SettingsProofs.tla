--------------------------- MODULE SettingsProofs ---------------------------
(***************************************************************************)
(* Proofs that the settings in memory are always ones the program can      *)
(* work with, that a start finds what was last reported as saved, and that *)
(* the user is told of what is not, for every content of the first file,   *)
(* every overlay, every failure and every number of changes.               *)
(*                                                                         *)
(* The argument rests on one fact about data: a document SaveSettings()    *)
(* writes is read back unchanged.  It holds for settings that are Usable,  *)
(* which is what LoadSettings() makes of any file and the windows keep.    *)
(***************************************************************************)
EXTENDS SettingsProperties, TLAPS

\* Settings that Accepts lets through and that need no canonical form.
ValuesUsable(s) == \A f \in DOMAIN Values : s[f] \in Values[f]

PositionUsable(position) == position # Invalid

SizeUsable(size) ==
  size # None => /\ size # Invalid
                 /\ size.width \in 480..2000 /\ size.height \in 200..1200

Usable(s) ==
  /\ s = [f \in Fields |-> s[f]]
  /\ ValuesUsable(s)
  /\ PositionUsable(s["overlayPosition"])
  /\ SizeUsable(s["overlaySize"])

MemoryInv ==
  /\ step \in {"down", "idle", "directory", "open", "write", "close", "rename", "remove"}
  /\ Usable(settings)
  /\ pending \in [DOMAIN NoDevices -> Device \cup {"none"}]
  /\ notice \in {"none", "worker", "unsaved"}
  /\ changes \in 0..MaxChanges

\* What is about to be renamed holds the settings, unless the disk was full.
DiskInv ==
  /\ FileHoldsSaved
  /\ step = "rename" => temporary \in {Json(Document(settings)), Cut}

SettingsInv == MemoryInv /\ DiskInv

-----------------------------------------------------------------------------
(* Reading and writing documents. *)

LEMMA Names ==
  /\ DOMAIN Values = {"language", "cleanupMode", "asrDevice", "rewriteDevice",
                      "overlayAppearance", "colorTheme"}
  /\ Fields = DOMAIN Values \cup {"overlayPosition", "overlaySize"}
  /\ DOMAIN NoDevices = {"asrDevice", "rewriteDevice"}
  /\ Values.language = {"auto", "de-DE", "en-US"}
  /\ Values.asrDevice = Device /\ Values.rewriteDevice = Device
BY DEF Values, Fields, NoDevices

LEMMA DefaultUsable == Usable(Default)
<1>1. Default = [f \in Fields |-> Default[f]]
  BY DEF Default, Fields, Values
<1>2. \A f \in DOMAIN Values : Default[f] \in Values[f]
  BY DEF Default, Values, Device
<1>3. Default["overlayPosition"] = None /\ Default["overlaySize"] = None
  BY DEF Default
<1>4. PositionUsable(None) /\ SizeUsable(None)
  BY SettingsAssumption DEF PositionUsable, SizeUsable
<1> QED BY <1>1, <1>2, <1>3, <1>4 DEF Usable, ValuesUsable

\* CanonicalLanguageCode() is idempotent on what it may return.
LEMMA LanguagesCanonical ==
  \A code \in Values.language : CanonicalLanguageCode(code) = code
BY DEF Values, CanonicalLanguageCode

\* LoadSettings() makes usable settings of any document.
LEMMA ReadUsable ==
  ASSUME NEW document
  PROVE  Usable(Read(document))
<1> DEFINE s == Read(document)
<1>1. s = [f \in Fields |-> s[f]]
  BY DEF Read
<1>2. \A f \in DOMAIN Values : Default[f] \in Values[f]
  BY DefaultUsable DEF Usable, ValuesUsable
<1>3. \A f \in Fields :
        s[f] = IF f \notin DOMAIN document \/ ~Accepts(f, document[f]) THEN Default[f]
               ELSE IF f = "language" THEN CanonicalLanguageCode(document[f]) ELSE document[f]
  BY DEF Read
<1>4. ASSUME NEW f \in DOMAIN Values PROVE s[f] \in Values[f]
  <2>0. f \in Fields BY DEF Fields
  <2>1. CASE f \notin DOMAIN document \/ ~Accepts(f, document[f])
    BY <1>2, <1>3, <2>0, <2>1
  <2>2. CASE ~(f \notin DOMAIN document \/ ~Accepts(f, document[f])) /\ f = "language"
    BY <1>3, <2>0, <2>2 DEF Accepts
  <2>3. CASE ~(f \notin DOMAIN document \/ ~Accepts(f, document[f])) /\ f # "language"
    BY <1>3, <2>0, <2>3 DEF Accepts
  <2> QED BY <2>1, <2>2, <2>3
<1>5. PositionUsable(s["overlayPosition"])
  <2>1. "overlayPosition" \in Fields BY Names
  <2>2. PositionUsable(Default["overlayPosition"]) BY DefaultUsable DEF Usable
  <2> QED BY <1>3, <2>1, <2>2 DEF Accepts, PositionUsable
<1>6. SizeUsable(s["overlaySize"])
  <2>1. "overlaySize" \in Fields BY Names
  <2>2. SizeUsable(Default["overlaySize"]) BY DefaultUsable DEF Usable
  <2>3. ASSUME NEW size, Accepts("overlaySize", size) PROVE SizeUsable(size)
    BY <2>3 DEF Accepts, SizeUsable
  <2> QED BY <1>3, <2>1, <2>2, <2>3
<1>7. Usable(s)
  <2> HIDE DEF s
  <2> QED BY <1>1, <1>4, <1>5, <1>6 DEF Usable, ValuesUsable
<1> QED BY <1>7

LEMMA LoadUsable ==
  ASSUME NEW f
  PROVE  Usable(Load(f))
BY ReadUsable, DefaultUsable DEF Load

\* What SaveSettings() writes, LoadSettings() reads.
LEMMA ReadBack ==
  ASSUME NEW s, Usable(s)
  PROVE  Load(Json(Document(s))) = s
<1> DEFINE document == Document(s)
<1>1. \A f \in Fields : f \in DOMAIN document <=> s[f] # None
  BY DEF Document
<1>2. \A f \in DOMAIN document : document[f] = s[f]
  BY DEF Document
<1>3. \A f \in DOMAIN Values : s[f] \in Values[f] /\ s[f] # None /\ s[f] # Invalid
  BY SettingsAssumption DEF Usable, ValuesUsable
<1>4. CanonicalLanguageCode(s["language"]) = s["language"]
  BY <1>3, Names, LanguagesCanonical
<1>5. ASSUME NEW f \in Fields, s[f] # None PROVE Accepts(f, s[f])
  <2>1. s[f] # Invalid
    BY <1>3, <1>5, Names DEF Usable, PositionUsable, SizeUsable
  <2>2. f = "language" => CanonicalLanguageCode(s[f]) \in Values.language
    BY <1>3, <1>4, Names
  <2>3. f \in DOMAIN Values \ {"language"} => s[f] \in Values[f]
    BY <1>3
  <2>4. f = "overlaySize" => s[f].width \in 480..2000 /\ s[f].height \in 200..1200
    BY <1>5 DEF Usable, SizeUsable
  <2> QED BY <2>1, <2>2, <2>3, <2>4 DEF Accepts
<1>6. ASSUME NEW f \in Fields, s[f] = None PROVE Default[f] = s[f]
  BY <1>3, <1>6, Names DEF Default
<1>7. ASSUME NEW f \in Fields PROVE Read(document)[f] = s[f]
  <2>1. Read(document)[f] =
          IF f \notin DOMAIN document \/ ~Accepts(f, document[f]) THEN Default[f]
          ELSE IF f = "language" THEN CanonicalLanguageCode(document[f]) ELSE document[f]
    BY DEF Read
  <2>2. CASE s[f] = None
    BY <1>1, <1>6, <2>1, <2>2
  <2>3. CASE s[f] # None
    <3>1. f \in DOMAIN document /\ document[f] = s[f] BY <1>1, <1>2, <2>3
    <3>2. Accepts(f, s[f]) BY <1>5, <2>3
    <3> QED BY <1>4, <2>1, <3>1, <3>2
  <2> QED BY <2>2, <2>3
<1>8. Read(document) = [f \in Fields |-> Read(document)[f]]
  BY DEF Read
<1>9. Read(document) = s
  BY <1>7, <1>8 DEF Usable
<1>10. Json(document).kind = "json" /\ Json(document).document = document
  BY DEF Json
<1> QED BY <1>9, <1>10 DEF Load

-----------------------------------------------------------------------------
(* The settings in memory. *)

LEMMA SettingsInvInit == SettingsInit => SettingsInv
<1> SUFFICES ASSUME SettingsInit PROVE SettingsInv
  OBVIOUS
<1>1. pending \in [DOMAIN NoDevices -> Device \cup {"none"}]
  BY DEF SettingsInit, NoDevices
<1>2. MemoryInv
  BY <1>1, DefaultUsable, SettingsAssumption DEF SettingsInit, MemoryInv
<1>3. DiskInv
  BY DEF SettingsInit, DiskInv, FileHoldsSaved
<1> QED BY <1>2, <1>3 DEF SettingsInv

\* A setting may be replaced by another value of its own.
LEMMA ExceptUsable ==
  ASSUME NEW s, Usable(s), NEW f \in DOMAIN Values, NEW v \in Values[f]
  PROVE  Usable([s EXCEPT ![f] = v])
<1> DEFINE t == [s EXCEPT ![f] = v]
<1>0. DOMAIN s = Fields /\ f \in Fields
  BY DEF Usable, Fields
<1>1. t = [g \in Fields |-> IF g = f THEN v ELSE s[g]]
  BY <1>0
<1>2. \A g \in Fields : t[g] = IF g = f THEN v ELSE s[g]
  BY <1>1
<1>3. f # "overlayPosition" /\ f # "overlaySize"
  BY Names
<1>4. t["overlayPosition"] = s["overlayPosition"] /\ t["overlaySize"] = s["overlaySize"]
  BY <1>2, <1>3, Names
<1>5. \A g \in DOMAIN Values : t[g] \in Values[g]
  BY <1>2, Names DEF Usable, ValuesUsable
<1>6. t = [g \in Fields |-> t[g]]
  BY <1>1
<1>7. Usable(t)
  <2> HIDE DEF t
  <2> QED BY <1>4, <1>5, <1>6 DEF Usable, ValuesUsable
<1> QED BY <1>7

LEMMA DragUsable ==
  ASSUME NEW s, Usable(s), NEW d \in Dragged
  PROVE  Usable([s EXCEPT !.overlayPosition = d.position, !.overlaySize = d.size])
<1> DEFINE t == [s EXCEPT !.overlayPosition = d.position, !.overlaySize = d.size]
<1>0. DOMAIN s = Fields
  BY DEF Usable
<1>1. /\ t = [g \in Fields |-> t[g]]
      /\ \A g \in DOMAIN Values : t[g] = s[g]
      /\ t["overlayPosition"] = d.position /\ t["overlaySize"] = d.size
  BY <1>0, Names
<1>2. PositionUsable(d.position) /\ SizeUsable(d.size)
  BY SettingsAssumption DEF PositionUsable, SizeUsable
<1>3. Usable(t)
  <2> HIDE DEF t
  <2> QED BY <1>1, <1>2 DEF Usable, ValuesUsable
<1> QED BY <1>3

\* The devices whose workers are ready replace those in the settings.
LEMMA ReadyUsable ==
  ASSUME NEW s, Usable(s),
         NEW p \in [DOMAIN NoDevices -> Device \cup {"none"}],
         NEW ready \in SUBSET {w \in DOMAIN NoDevices : p[w] # "none"}
  PROVE  /\ Usable([f \in Fields |-> IF f \in ready THEN p[f] ELSE s[f]])
         /\ [w \in DOMAIN NoDevices |-> IF w \in ready THEN "none" ELSE p[w]]
              \in [DOMAIN NoDevices -> Device \cup {"none"}]
<1> DEFINE t == [f \in Fields |-> IF f \in ready THEN p[f] ELSE s[f]]
<1>1. \A f \in ready : f \in {"asrDevice", "rewriteDevice"} /\ p[f] \in Device
  BY Names
<1>2. \A f \in DOMAIN Values : t[f] \in Values[f]
  BY <1>1, Names DEF Usable, ValuesUsable
<1>3. t["overlayPosition"] = s["overlayPosition"] /\ t["overlaySize"] = s["overlaySize"]
  BY <1>1, Names
<1>4. t = [f \in Fields |-> t[f]]
  OBVIOUS
<1>5. Usable(t)
  <2> HIDE DEF t
  <2> QED BY <1>2, <1>3, <1>4 DEF Usable, ValuesUsable
<1>6. [w \in DOMAIN NoDevices |-> IF w \in ready THEN "none" ELSE p[w]]
        \in [DOMAIN NoDevices -> Device \cup {"none"}]
  OBVIOUS
<1> QED BY <1>5, <1>6

LEMMA NoDevicesTyped == NoDevices \in [DOMAIN NoDevices -> Device \cup {"none"}]
BY DEF NoDevices

LEMMA MemoryInvStep == MemoryInv /\ [SettingsNext]_vars => MemoryInv'
<1> SUFFICES ASSUME MemoryInv, [SettingsNext]_vars PROVE MemoryInv'
  OBVIOUS
<1> USE DEF MemoryInv
<1>1. CASE UNCHANGED vars
  BY <1>1 DEF vars
<1>2. CASE Start
  BY <1>2, LoadUsable, NoDevicesTyped DEF Start
<1>3. CASE Die
  BY <1>3, DefaultUsable, NoDevicesTyped DEF Die
<1>4. ASSUME NEW s, Usable(s), Change(s) PROVE MemoryInv'
  BY <1>4, SettingsAssumption DEF Change, Changes
<1>5. CASE Select
  <2>1. PICK f \in DOMAIN Values \ DOMAIN NoDevices :
          \E v \in Values[f] : Change([settings EXCEPT ![f] = v])
    BY <1>5 DEF Select
  <2>2. PICK v \in Values[f] : Change([settings EXCEPT ![f] = v])
    BY <2>1
  <2> QED BY <1>4, <2>2, ExceptUsable
<1>6. CASE DragOverlay
  <2>1. PICK d \in Dragged : Change([settings EXCEPT !.overlayPosition = d.position,
                                                     !.overlaySize = d.size])
    BY <1>6 DEF DragOverlay
  <2> QED BY <1>4, <2>1, DragUsable
<1>7. CASE SelectDevice
  <2>1. PICK w \in DOMAIN NoDevices, d \in Device : pending' = [pending EXCEPT ![w] = d]
    BY <1>7 DEF SelectDevice
  <2>2. pending' \in [DOMAIN NoDevices -> Device \cup {"none"}]
    BY <2>1
  <2> QED BY <1>7, <2>2, SettingsAssumption DEF SelectDevice, Changes
<1>8. CASE WorkerFailed
  BY <1>8, NoDevicesTyped DEF WorkerFailed
<1>9. CASE WorkersReady
  <2>1. PICK ready \in SUBSET {w \in DOMAIN NoDevices : pending[w] # "none"} :
          /\ settings' = [f \in Fields |-> IF f \in ready THEN pending[f] ELSE settings[f]]
          /\ pending' = [w \in DOMAIN NoDevices |-> IF w \in ready THEN "none" ELSE pending[w]]
    BY <1>9 DEF WorkersReady
  <2>2. Usable(settings') /\ pending' \in [DOMAIN NoDevices -> Device \cup {"none"}]
    BY <2>1, ReadyUsable
  <2> QED BY <1>9, <2>2 DEF WorkersReady
<1>10. CASE Save
  <2>1. settings' = settings /\ pending' = pending /\ changes' = changes
    BY <1>10 DEF Save, CreateDirectory, SaveFails, OpenTemporary, Write, Close, Rename,
                 RenameFails, RemoveTemporary, Goes, NotSaved
  <2>2. /\ step' \in {"idle", "open", "write", "close", "rename", "remove"}
        /\ notice' \in {"none", "worker", "unsaved"}
    BY <1>10 DEF Save, CreateDirectory, SaveFails, OpenTemporary, Write, Close, Rename,
                 RenameFails, RemoveTemporary, Goes, NotSaved
  <2> QED BY <2>1, <2>2
<1> QED BY <1>1, <1>2, <1>3, <1>5, <1>6, <1>7, <1>8, <1>9, <1>10 DEF SettingsNext

-----------------------------------------------------------------------------
(* The file. *)

LEMMA DiskInvStep == SettingsInv /\ [SettingsNext]_vars => DiskInv'
<1> SUFFICES ASSUME SettingsInv, [SettingsNext]_vars PROVE DiskInv'
  OBVIOUS
<1> USE DEF SettingsInv, DiskInv, FileHoldsSaved
<1>1. CASE UNCHANGED vars
  BY <1>1 DEF vars
<1>2. CASE Start
  BY <1>2 DEF Start
<1>3. CASE Die
  BY <1>3 DEF Die
<1>4. CASE Select \/ DragOverlay \/ SelectDevice
  BY <1>4 DEF Select, DragOverlay, SelectDevice, Change, Changes
<1>5. CASE WorkerFailed \/ WorkersReady
  BY <1>5 DEF WorkerFailed, WorkersReady
<1>6. CASE CreateDirectory \/ OpenTemporary \/ Write \/ RenameFails
  BY <1>6 DEF CreateDirectory, OpenTemporary, Write, RenameFails, Goes
<1>7. CASE SaveFails \/ RemoveTemporary
  BY <1>7 DEF SaveFails, RemoveTemporary, NotSaved
<1>8. CASE Close
  BY <1>8 DEF Close, Goes
<1>9. CASE Rename
  <2>1. file' = temporary /\ step' = "idle" /\ saved' = settings
    BY <1>9 DEF Rename
  <2>2. temporary = Cut \/ Load(temporary) = settings
    BY <1>9, ReadBack DEF Rename, MemoryInv
  <2> QED BY <2>1, <2>2
<1> QED BY <1>1, <1>2, <1>3, <1>4, <1>5, <1>6, <1>7, <1>8, <1>9 DEF SettingsNext, Save

THEOREM SettingsInvariant == SettingsSpec => []SettingsInv
<1>1. SettingsInit => SettingsInv
  BY SettingsInvInit
<1>2. SettingsInv /\ [SettingsNext]_vars => SettingsInv'
  BY MemoryInvStep, DiskInvStep DEF SettingsInv
<1> QED BY <1>1, <1>2, PTL DEF SettingsSpec

-----------------------------------------------------------------------------
(* The settings in memory are usable, whatever the file held. *)
THEOREM SettingsAlwaysUsable == SettingsSpec => []SettingsTypeOK
<1>1. SettingsInv => SettingsTypeOK
  <2> SUFFICES ASSUME SettingsInv PROVE SettingsTypeOK
    OBVIOUS
  <2>1. DOMAIN settings = Fields
    BY DEF SettingsInv, MemoryInv, Usable
  <2>2. \A f \in DOMAIN Values : settings[f] \in Values[f]
    BY DEF SettingsInv, MemoryInv, Usable, ValuesUsable
  <2>3. SizeUsable(settings.overlaySize)
    BY DEF SettingsInv, MemoryInv, Usable
  <2>4. settings.overlaySize # None =>
          settings.overlaySize.width \in 480..2000 /\ settings.overlaySize.height \in 200..1200
    BY <2>3 DEF SizeUsable
  <2> QED BY <2>1, <2>2, <2>4 DEF SettingsInv, MemoryInv, SettingsTypeOK
<1> QED BY <1>1, SettingsInvariant, PTL

(* A start finds what was last reported as saved, whatever died or failed. *)
THEOREM FileAlwaysHoldsSaved == SettingsSpec => []FileHoldsSaved
<1>1. SettingsInv => FileHoldsSaved
  BY DEF SettingsInv, DiskInv
<1> QED BY <1>1, SettingsInvariant, PTL

(* What is not on disk is told, until a save worked. *)
THEOREM UnsavedAlwaysTold == SettingsSpec => []UnsavedIsTold
<1>1. SettingsInit => UnsavedIsTold
  BY DEF SettingsInit, UnsavedIsTold
<1>2. UnsavedIsTold /\ [SettingsNext]_vars => UnsavedIsTold'
  <2> SUFFICES ASSUME UnsavedIsTold, [SettingsNext]_vars PROVE UnsavedIsTold'
    OBVIOUS
  <2> USE DEF UnsavedIsTold
  <2>1. CASE UNCHANGED vars
    BY <2>1 DEF vars
  <2>2. CASE Start \/ Die
    BY <2>2 DEF Start, Die
  <2>3. CASE Select \/ DragOverlay \/ SelectDevice
    BY <2>3 DEF Select, DragOverlay, SelectDevice, Change, Changes
  <2>4. CASE WorkerFailed \/ WorkersReady
    BY <2>4 DEF WorkerFailed, WorkersReady
  <2>5. CASE Save
    BY <2>5 DEF Save, CreateDirectory, SaveFails, OpenTemporary, Write, Close, Rename,
                RenameFails, RemoveTemporary, Goes, NotSaved
  <2> QED BY <2>1, <2>2, <2>3, <2>4, <2>5 DEF SettingsNext
<1> QED BY <1>1, <1>2, PTL DEF SettingsSpec
=============================================================================
