--------------------------- MODULE PresetCatalog ---------------------------
(***************************************************************************)
(* QcPresetCatalog: the folders and named presets of one listing, in       *)
(* storage of fixed size.  decodeFile() calls addPreset() for every slot   *)
(* of every folder, in the device's order, under fileStreamMutex_.         *)
(*                                                                         *)
(* A text is a model value.  Two of a folder's texts matter: the full key, *)
(* which identifies it by length and FNV-1a hash - taken as the key itself *)
(* - and the key as it is stored for display, cut to kNameCapacity bytes.  *)
(***************************************************************************)
EXTENDS Naturals, Sequences, FiniteSets, SequencesExt

CONSTANTS Keys,                 \* the device's folder keys
          Shown,                \* what kNameCapacity leaves of a key
          FolderNames,          \* the device's name of each folder
          Names,                \* names of presets
          NoName,               \* the empty name
          DownloadsKey, DownloadsLabel,
          kMaxFolders, kMaxPresetsPerFolder

ASSUME CatalogAssumption ==
  /\ DOMAIN Shown = Keys /\ DOMAIN FolderNames = Keys
  /\ NoName \notin Names
  /\ kMaxFolders \in Nat \ {0} /\ kMaxPresetsPerFolder \in Nat \ {0}

VARIABLES
  folders,             \* the first folderCount_ of folders_
  presetCount, folderOverflowCount, presetOverflowCount, generation,
  given                \* history: the slots given to addPreset() since reset()

catalogVars == <<folders, presetCount, folderOverflowCount, presetOverflowCount, generation, given>>

CatalogInit ==
  /\ folders = << >> /\ presetCount = 0
  /\ folderOverflowCount = 0 /\ presetOverflowCount = 0
  /\ generation = 0
  /\ given = << >>

Reset ==
  /\ folders' = << >> /\ presetCount' = 0
  /\ folderOverflowCount' = 0 /\ presetOverflowCount' = 0
  /\ generation' = generation + 1
  /\ given' = << >>

Overflowed == folderOverflowCount > 0 \/ presetOverflowCount > 0

LabelFor(key) ==
  IF FolderNames[key] # NoName THEN FolderNames[key]
  ELSE IF key = DownloadsKey THEN DownloadsLabel ELSE key

(* As if an array had one element more.                                    *)
FullTooLate(seq, capacity) == Len(seq) > capacity

Full(seq, capacity) == Len(seq) >= capacity

(* As before issue #10's review: the stored key against the full one.      *)
FindFolderByShownKey(key) == {i \in DOMAIN folders : folders[i].key = key}

(* findFolder(): the empty set for nullptr.                                *)
FindFolder(key) == {i \in DOMAIN folders : folders[i].id = key}

(* addFolder() when there is room.                                         *)
NewFolder(key) == [id |-> key, key |-> Shown[key], name |-> LabelFor(key), presets |-> << >>]

Stored(slot) == [index |-> slot.index, name |-> slot.name]

Keep(preset, candidates, i) ==
  IF Full(candidates[i].presets, kMaxPresetsPerFolder)
  THEN /\ folders' = candidates
       /\ presetOverflowCount' = presetOverflowCount + 1
       /\ UNCHANGED presetCount
  ELSE /\ folders' = [candidates EXCEPT ![i].presets =
                        Append(@, Stored(preset))]
       /\ presetCount' = presetCount + 1
       /\ UNCHANGED presetOverflowCount

AddNamed(preset) ==
  LET found == FindFolder(preset.key) IN
  IF found = {} /\ Full(folders, kMaxFolders)
  THEN /\ folderOverflowCount' = folderOverflowCount + 1
       /\ UNCHANGED <<folders, presetCount, presetOverflowCount>>
  ELSE /\ IF found = {}
          THEN Keep(preset, Append(folders, NewFolder(preset.key)), Len(folders) + 1)
          ELSE \E i \in found : (\A j \in found : i <= j) /\ Keep(preset, folders, i)
       /\ UNCHANGED folderOverflowCount

AddPreset(preset) ==
  /\ IF preset.name = NoName
     THEN UNCHANGED <<folders, presetCount, folderOverflowCount, presetOverflowCount>>
     ELSE AddNamed(preset)
  /\ given' = Append(given, preset)
  /\ UNCHANGED generation

---------------------------------------------------------------------------
(* Properties                                                              *)

Entry == [index : Nat, name : Names]
Slot == [key : Keys, index : Nat, name : Names \cup {NoName}]
Folder == [id : Keys, key : {Shown[k] : k \in Keys}, name : {LabelFor(k) : k \in Keys},
           presets : Seq(Entry)]
CatalogTypeOK ==
  /\ folders \in Seq(Folder)
  /\ \A i \in DOMAIN folders : Len(folders[i].presets) <= kMaxPresetsPerFolder
  /\ Len(folders) <= kMaxFolders
  /\ presetCount \in Nat /\ folderOverflowCount \in Nat /\ presetOverflowCount \in Nat
  /\ generation \in Nat
  /\ given \in Seq(Slot)

(* The element of S with j - 1 smaller ones.                               *)
Nth(S, j) == CHOOSE m \in S : Cardinality({n \in S : n < m}) = j - 1

(* Where the named presets are among the slots, and those of one folder.   *)
NamedIn(slots) == {m \in DOMAIN slots : slots[m].name # NoName}
OwnIn(key, slots) == {m \in NamedIn(slots) : slots[m].key = key}

(* The named presets given for a folder, as the catalog keeps them.        *)
PresetsOf(key, slots) ==
  [j \in 1 .. Cardinality(OwnIn(key, slots)) |-> Stored(slots[Nth(OwnIn(key, slots), j)])]

(* Every named preset the device gave is kept or counted: no key has two   *)
(* folders, a folder holds the first presets given for its key, with their *)
(* own indices, and the three counts add up to what was given.  A folder   *)
(* with no named preset takes no room.                                     *)
Kept == UNION {{i} \X DOMAIN folders[i].presets : i \in DOMAIN folders}
KeptOrCounted ==
  /\ \A i, j \in DOMAIN folders : folders[i].id = folders[j].id => i = j
  /\ \A i \in DOMAIN folders :
       folders[i].presets # << >> /\ IsPrefix(folders[i].presets, PresetsOf(folders[i].id, given))
  /\ presetCount = Cardinality(Kept)
  /\ presetCount + folderOverflowCount + presetOverflowCount = Cardinality(NamedIn(given))
=============================================================================
