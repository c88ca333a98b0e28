------------------------ MODULE PresetListingProofs ------------------------
(* For any names, catalog and buffer of the sizes the code assumes:        *)
(*  - addPreset() keeps each named preset or counts it as left out, and    *)
(*    never keeps one twice (NoPresetIsLost);                              *)
(*  - a listing says it is truncated exactly when a preset was left out    *)
(*    (FlagIsTrue);                                                        *)
(*  - the document that encodeCatalogJson() writes, and the one that       *)
(*    appendLastChange() makes of it, is never cut at the buffer's end     *)
(*    (BufferIsLargeEnough).                                               *)
(* The catalog is compared with the presets it was given, and the snapshot *)
(* and the document with the catalog they were made of, by the rank of     *)
(* each preset among those of its folder: the catalog holds the first ones *)
(* of each of the first folders, in the order given.                       *)
EXTENDS PresetListing, FiniteSetTheorems, SequenceTheorems, TLAPS

---------------------------------------------------------------------------
(* The lengths                                                             *)

(* A number has at most ten digits.                                        *)
LEMMA DigitsBound == \A n : Digits(n) \in 1 .. 10
<1> SUFFICES ASSUME NEW n PROVE Digits(n) \in 1 .. 10
  OBVIOUS
<1> DEFINE powers == {d \in 1 .. 9 : n >= 10 ^ d}
<1>1. powers \subseteq 1 .. 9
  OBVIOUS
<1>2. Digits(n) = 1 + Cardinality(powers)
  BY DEF Digits
<1> HIDE DEF powers
<1>3. IsFiniteSet(1 .. 9) /\ Cardinality(1 .. 9) = 9
  <2>1. 1 \in Int /\ 9 \in Int /\ ~(1 > 9) /\ 9 - 1 + 1 = 9
    OBVIOUS
  <2>2. Cardinality(1 .. 9) = IF 1 > 9 THEN 0 ELSE 9 - 1 + 1
    BY <2>1, FS_Interval, Zenon
  <2>3. IsFiniteSet(1 .. 9)
    BY <2>1, FS_Interval, Zenon
  <2> QED
    BY <2>1, <2>2, <2>3
<1>4. IsFiniteSet(powers) /\ Cardinality(powers) <= 9
  <2>1. IsFiniteSet(powers) /\ Cardinality(powers) <= Cardinality(1 .. 9)
    BY <1>1, <1>3, FS_Subset, Zenon
  <2> QED
    BY <1>3, <2>1
<1>5. Cardinality(powers) \in Nat
  BY <1>4, FS_CardinalityType
<1> QED
  BY <1>2, <1>4, <1>5

(* A name in its quotes.                                                   *)
LEMMA QuotedBound == \A name \in DOMAIN TextBytes : Quoted(name) \in 2 .. 66
<1> SUFFICES ASSUME NEW name \in DOMAIN TextBytes PROVE Quoted(name) \in 2 .. 66
  OBVIOUS
<1>1. TextBytes[name] \in 0 .. 64
  BY JsonAssumption
<1> QED
  BY <1>1 DEF Quoted

(* What is appended is a number of bytes: the document's opening.          *)
LEMMA OpeningBound ==
  OpeningBytes \in 43 .. 61
<1>1. Digits(snapshot.generation) \in 1 .. 10 /\ Digits(snapshot.presetCount) \in 1 .. 10
  BY DigitsBound
<1> QED
  BY <1>1 DEF OpeningBytes

(* The opening of a folder, and the comma before it.                       *)
LEMMA FolderBound ==
  ASSUME NEW folder \in ListedFolder
  PROVE  FolderBytes(folder) \in 1 .. 87
<1>1. Quoted(folder.name) \in 2 .. 66
  BY QuotedBound DEF ListedFolder
<1>2. Comma(doc) \in 0 .. 1
  BY DEF Comma
<1> QED
  BY <1>1, <1>2 DEF FolderBytes

(* A preset, and the comma before it.                                      *)
LEMMA PresetBound ==
  ASSUME NextPreset \in ListedPreset
  PROVE  PresetBytes \in 1 .. 95
<1>1. Quoted(NextPreset.name) \in 2 .. 66
  BY QuotedBound DEF ListedPreset
<1>2. Digits(NextPreset.index) \in 1 .. 10
  BY DigitsBound
<1>3. Comma(Written) \in 0 .. 1
  BY DEF Comma
<1> QED
  BY <1>1, <1>2, <1>3 DEF PresetBytes

(* An append for which there is room cuts nothing.                         *)
LEMMA AppendedSize ==
  ASSUME NEW o \in [size : 0 .. JsonCapacity, cut : BOOLEAN], ~o.cut, NEW bytes \in Nat,
         o.size + bytes <= JsonCapacity
  PROVE  /\ Appended(o, bytes) \in [size : 0 .. JsonCapacity, cut : BOOLEAN]
         /\ Appended(o, bytes).size = o.size + bytes /\ ~Appended(o, bytes).cut
<1>1. JsonCapacity \in Nat /\ o.size \in 0 .. JsonCapacity
  BY JsonAssumption
<1>2. PICK total : total = o.size + bytes
  OBVIOUS
<1>3. total \in 0 .. JsonCapacity
  BY <1>1, <1>2
<1>4. Appended(o, bytes) = [o EXCEPT !.size = total]
  BY <1>2 DEF Appended
<1>5. [o EXCEPT !.size = total] \in [size : 0 .. JsonCapacity, cut : BOOLEAN]
  BY <1>3
<1>6. [o EXCEPT !.size = total].size = total /\ ~[o EXCEPT !.size = total].cut
  OBVIOUS
<1> QED
  BY <1>2, <1>4, <1>5, <1>6

---------------------------------------------------------------------------
(* The catalog                                                             *)

(* A sequence over a set is one over a larger set.                         *)
LEMMA SeqOfMore ==
  ASSUME NEW S, NEW T, S \subseteq T, NEW s \in Seq(S)
  PROVE  s \in Seq(T)
  OBVIOUS

(* One more preset in one folder.                                          *)
LEMMA KeepTypes ==
  ASSUME NEW preset \in Slot, preset.name # NoName,
         NEW candidates \in Seq(Folder), NEW i \in 1 .. Len(candidates),
         \A k \in DOMAIN candidates : Len(candidates[k].presets) <= kMaxPresetsPerFolder,
         Len(candidates) <= kMaxFolders,
         presetCount \in Nat, presetOverflowCount \in Nat,
         Keep(preset, candidates, i)
  PROVE  /\ folders' \in Seq(Folder)
         /\ \A k \in DOMAIN folders' : Len(folders'[k].presets) <= kMaxPresetsPerFolder
         /\ Len(folders') <= kMaxFolders
         /\ presetCount' \in Nat /\ presetOverflowCount' \in Nat
<1>1. CASE Full(candidates[i].presets, kMaxPresetsPerFolder)
  BY <1>1 DEF Keep
<1>2. CASE ~Full(candidates[i].presets, kMaxPresetsPerFolder)
  <2>1. PICK e : e = Stored(preset)
    OBVIOUS
  <2>2. e \in Entry
    BY <2>1 DEF Slot, Entry, Stored
  <2>3. candidates[i] \in Folder
    BY ElementOfSeq
  <2>4. PICK ps : ps = Append(candidates[i].presets, e)
    OBVIOUS
  <2>5. candidates[i].presets \in Seq(Entry)
    BY <2>3 DEF Folder
  <2>6. ps \in Seq(Entry) /\ Len(ps) = Len(candidates[i].presets) + 1
        /\ Len(candidates[i].presets) \in Nat
    BY <2>2, <2>4, <2>5, AppendProperties, LenProperties
  <2>7. Len(ps) <= kMaxPresetsPerFolder
    BY <1>2, <2>6, CatalogAssumption DEF Full
  <2>8. PICK c : c = [candidates[i] EXCEPT !.presets = ps]
    OBVIOUS
  <2>9. c \in Folder /\ c.presets = ps
    BY <2>3, <2>6, <2>8 DEF Folder
  <2>10. folders' = [candidates EXCEPT ![i] = c] /\ presetCount' = presetCount + 1
         /\ presetOverflowCount' = presetOverflowCount
    <3>1. folders' = [candidates EXCEPT ![i].presets = Append(@, Stored(preset))]
          /\ presetCount' = presetCount + 1 /\ presetOverflowCount' = presetOverflowCount
      BY <1>2 DEF Keep
    <3> QED
      BY <2>1, <2>4, <2>8, <3>1
  <2>11. /\ folders' \in Seq(Folder) /\ Len(folders') = Len(candidates)
         /\ \A k \in 1 .. Len(candidates) : folders'[k] = IF k = i THEN c ELSE candidates[k]
    BY <2>9, <2>10, ExceptSeq
  <2>12. DOMAIN folders' = 1 .. Len(candidates) /\ DOMAIN candidates = 1 .. Len(candidates)
    BY <2>11, LenProperties
  <2>13. \A k \in DOMAIN folders' : Len(folders'[k].presets) <= kMaxPresetsPerFolder
    BY <2>7, <2>9, <2>11, <2>12
  <2> QED
    BY <2>10, <2>11, <2>13
<1> QED
  BY <1>1, <1>2

(* addPreset() keeps the catalog within its storage.                       *)
LEMMA AddPresetTypes ==
  ASSUME CatalogTypeOK, NEW preset \in Slot, AddPreset(preset)
  PROVE  CatalogTypeOK'
<1>0. /\ folders \in Seq(Folder) /\ Len(folders) <= kMaxFolders /\ Len(folders) \in Nat
      /\ DOMAIN folders = 1 .. Len(folders)
      /\ \A k \in DOMAIN folders : Len(folders[k].presets) <= kMaxPresetsPerFolder
      /\ presetCount \in Nat /\ presetOverflowCount \in Nat /\ folderOverflowCount \in Nat
  BY LenProperties DEF CatalogTypeOK
<1>1. given' \in Seq(Slot) /\ generation' \in Nat
  BY AppendProperties DEF AddPreset, CatalogTypeOK
<1>2. CASE preset.name = NoName
  BY <1>1, <1>2 DEF AddPreset, CatalogTypeOK
<1>3. CASE preset.name # NoName
  <2>1. AddNamed(preset)
    BY <1>3 DEF AddPreset
  <2>2. CASE FindFolder(preset.key) = {} /\ Full(folders, kMaxFolders)
    BY <1>0, <1>1, <2>1, <2>2 DEF AddNamed, CatalogTypeOK
  <2>3. CASE FindFolder(preset.key) = {} /\ ~Full(folders, kMaxFolders)
    <3>1. PICK new : new = NewFolder(preset.key)
      OBVIOUS
    <3>2. new \in Folder /\ Len(new.presets) = 0
      BY <3>1, EmptySeq DEF NewFolder, Folder, Slot
    <3>3. PICK candidates : candidates = Append(folders, new)
      OBVIOUS
    <3>4. /\ candidates \in Seq(Folder) /\ Len(candidates) = Len(folders) + 1
          /\ \A k \in 1 .. Len(folders) : candidates[k] = folders[k]
          /\ candidates[Len(folders) + 1] = new
      BY <1>0, <3>2, <3>3, AppendProperties
    <3>5. DOMAIN candidates = 1 .. Len(folders) + 1
      BY <3>4, LenProperties
    <3>6. \A k \in DOMAIN candidates : Len(candidates[k].presets) <= kMaxPresetsPerFolder
      BY <1>0, <3>2, <3>4, <3>5, CatalogAssumption
    <3>7. Len(candidates) <= kMaxFolders
      BY <1>0, <2>3, <3>4, CatalogAssumption DEF Full
    <3>8. PICK last : last = Len(folders) + 1
      OBVIOUS
    <3>9. last \in 1 .. Len(candidates)
      BY <1>0, <3>4, <3>8
    <3>10. Keep(preset, candidates, last) /\ folderOverflowCount' = folderOverflowCount
      BY <2>1, <2>3, <3>1, <3>3, <3>8 DEF AddNamed
    <3>11. /\ folders' \in Seq(Folder)
           /\ \A k \in DOMAIN folders' : Len(folders'[k].presets) <= kMaxPresetsPerFolder
           /\ Len(folders') <= kMaxFolders
           /\ presetCount' \in Nat /\ presetOverflowCount' \in Nat
      BY <1>0, <1>3, <3>4, <3>6, <3>7, <3>9, <3>10, KeepTypes
    <3> QED
      BY <1>0, <1>1, <3>10, <3>11 DEF CatalogTypeOK
  <2>4. CASE FindFolder(preset.key) # {}
    <3>1. PICK i \in FindFolder(preset.key) : Keep(preset, folders, i)
      BY <2>1, <2>4 DEF AddNamed
    <3>2. i \in 1 .. Len(folders)
      BY <1>0, <3>1 DEF FindFolder
    <3>3. folderOverflowCount' = folderOverflowCount
      BY <2>1, <2>4 DEF AddNamed
    <3>4. /\ folders' \in Seq(Folder)
          /\ \A k \in DOMAIN folders' : Len(folders'[k].presets) <= kMaxPresetsPerFolder
          /\ Len(folders') <= kMaxFolders
          /\ presetCount' \in Nat /\ presetOverflowCount' \in Nat
      BY <1>0, <1>3, <3>1, <3>2, KeepTypes
    <3> QED
      BY <1>0, <1>1, <3>3, <3>4 DEF CatalogTypeOK
  <2> QED
    BY <2>2, <2>3, <2>4
<1> QED
  BY <1>2, <1>3

---------------------------------------------------------------------------
(* The document                                                            *)

(* What is left of the buffer for the rest of the document: "],..." and    *)
(* the flag, at most 21 bytes, and a preset change, at most 55 more; the   *)
(* two brackets that end a folder before that.  RoomFor() leaves more.     *)
Reserve ==
  /\ jpc \in {"folder", "close"} => out.size + 76 <= JsonCapacity
  /\ jpc = "preset" => out.size + 78 <= JsonCapacity
  /\ jpc = "done" => out.size >= 1 /\ out.size + 55 <= JsonCapacity

DocumentInv == JsonTypeOK /\ Reserve /\ CompleteDocument

(* The opening of a folder fits what RoomFor() saw.                        *)
LEMMA WriteFolderKeeps ==
  ASSUME DocumentInv, WriteFolder
  PROVE  DocumentInv'
<1>0. /\ out \in [size : 0 .. JsonCapacity, cut : BOOLEAN] /\ ~out.cut /\ JsonCapacity \in Nat
      /\ doc \in Seq(ListedFolder) /\ snapshot.folders \in Seq(ListedFolder)
      /\ out.size \in Nat /\ Len(doc) \in Nat /\ Len(snapshot.folders) \in Nat
  BY JsonAssumption, LenProperties DEF DocumentInv, JsonTypeOK, CompleteDocument
<1>1. Len(doc) < Len(snapshot.folders)
  BY DEF WriteFolder
<1>15. out.size + 183 <= JsonCapacity /\ out.size \in Nat /\ JsonCapacity \in Nat
  BY <1>0 DEF WriteFolder, RoomFor, kReserve, kMaxUnitBytes, kClosingSuffixBytes
<1>2. PICK next \in ListedFolder : next = NextFolder
  <2>1. Len(doc) + 1 \in 1 .. Len(snapshot.folders)
    BY <1>0, <1>1
  <2> QED
    BY <1>0, <2>1, ElementOfSeq DEF NextFolder
<1>3. PICK bytes \in 1 .. 87 : bytes = FolderBytes(next)
  BY FolderBound
<1>4. out' = Appended(out, bytes)
  BY <1>2, <1>3 DEF WriteFolder
<1>5. /\ out' \in [size : 0 .. JsonCapacity, cut : BOOLEAN]
      /\ out'.size = out.size + bytes /\ ~out'.cut
  <2>1. bytes \in Nat /\ out.size + bytes <= JsonCapacity
    BY <1>3, <1>15
  <2> QED
    BY <1>0, <1>4, <2>1, AppendedSize
<1>6. PICK f : f = [name |-> next.name, presets |-> << >>]
  OBVIOUS
<1>7. f \in ListedFolder /\ f.presets = << >>
  BY <1>2, <1>6, EmptySeq DEF ListedFolder
<1>8. doc' = Append(doc, f) /\ jpc' = "preset" /\ UNCHANGED <<snapshot, truncated, flag>>
  BY <1>2, <1>6 DEF WriteFolder
<1>9. /\ doc' \in Seq(ListedFolder) /\ doc' # << >> /\ Len(doc') = Len(doc) + 1
      /\ doc'[Len(doc')] = f
  BY <1>0, <1>7, <1>8, AppendProperties
<1>10. Written' = << >>
  BY <1>7, <1>9 DEF Written
<1>11. OpenedFolder' \in ListedFolder
  <2>1. Len(doc') \in 1 .. Len(snapshot.folders)
    BY <1>0, <1>1, <1>9
  <2> QED
    BY <1>0, <1>8, <2>1, ElementOfSeq DEF OpenedFolder
<1>12. Len(Written') <= Len(OpenedFolder.presets)'
  <2>1. Len(OpenedFolder.presets)' \in Nat
    BY <1>11, LenProperties DEF ListedFolder
  <2> QED
    BY <1>10, <2>1
<1>13. JsonTypeOK'
  BY <1>0, <1>1, <1>5, <1>8, <1>9, <1>12 DEF DocumentInv, JsonTypeOK
<1>14. Reserve'
  <2>1. out'.size + 78 <= JsonCapacity
    BY <1>3, <1>5, <1>15
  <2> QED
    BY <1>8, <2>1 DEF Reserve
<1> QED
  BY <1>0, <1>5, <1>13, <1>14 DEF DocumentInv, CompleteDocument

(* A preset: its number and name fit what RoomFor() saw.                   *)
LEMMA WritePresetKeeps ==
  ASSUME DocumentInv, WritePreset
  PROVE  DocumentInv'
<1>0. /\ out \in [size : 0 .. JsonCapacity, cut : BOOLEAN] /\ ~out.cut /\ JsonCapacity \in Nat
      /\ doc \in Seq(ListedFolder) /\ doc # << >> /\ snapshot.folders \in Seq(ListedFolder)
      /\ out.size \in Nat /\ Len(doc) \in 1 .. Len(snapshot.folders)
  BY JsonAssumption, LenProperties DEF DocumentInv, JsonTypeOK, CompleteDocument, WritePreset
<1>1. Len(Written) < Len(OpenedFolder.presets)
  BY DEF WritePreset
<1>18. out.size + 183 <= JsonCapacity /\ out.size \in Nat /\ JsonCapacity \in Nat
  BY <1>0 DEF WritePreset, RoomFor, kReserve, kMaxUnitBytes, kClosingSuffixBytes
<1>2. doc[Len(doc)] \in ListedFolder /\ OpenedFolder \in ListedFolder
  <2>1. Len(doc) \in 1 .. Len(doc)
    BY <1>0
  <2> QED
    BY <1>0, <2>1, ElementOfSeq DEF OpenedFolder
<1>3. /\ Written \in Seq(ListedPreset) /\ OpenedFolder.presets \in Seq(ListedPreset)
      /\ Len(Written) \in Nat /\ Len(OpenedFolder.presets) \in Nat
  BY <1>2, LenProperties DEF Written, ListedFolder
<1>4. NextPreset \in ListedPreset
  <2>1. Len(Written) + 1 \in 1 .. Len(OpenedFolder.presets)
    BY <1>1, <1>3
  <2> QED
    BY <1>3, <2>1, ElementOfSeq DEF NextPreset
<1>5. PICK bytes \in 1 .. 95 : bytes = PresetBytes
  BY <1>4, PresetBound
<1>6. out' = Appended(out, bytes)
  BY <1>5 DEF WritePreset
<1>7. /\ out' \in [size : 0 .. JsonCapacity, cut : BOOLEAN]
      /\ out'.size = out.size + bytes /\ ~out'.cut
  <2>1. bytes \in Nat /\ out.size + bytes <= JsonCapacity
    BY <1>5, <1>18
  <2> QED
    BY <1>0, <1>6, <2>1, AppendedSize
<1>8. PICK e \in ListedPreset : e = NextPreset
  BY <1>4
<1>9. PICK f : f = [doc[Len(doc)] EXCEPT !.presets = Append(Written, e)]
  OBVIOUS
<1>10. Append(Written, e) \in Seq(ListedPreset) /\ Len(Append(Written, e)) = Len(Written) + 1
  BY <1>3, AppendProperties
<1>11. f \in ListedFolder /\ f.presets = Append(Written, e)
  BY <1>2, <1>9, <1>10 DEF ListedFolder
<1>12. doc' = [doc EXCEPT ![Len(doc)] = f]
  BY <1>8, <1>9 DEF WritePreset, Written
<1>13. /\ doc' \in Seq(ListedFolder) /\ Len(doc') = Len(doc) /\ doc' # << >>
       /\ doc'[Len(doc)] = f
  <2>1. Len(doc) \in 1 .. Len(doc)
    BY <1>0
  <2>2. /\ doc' \in Seq(ListedFolder) /\ Len(doc') = Len(doc)
        /\ \A j \in 1 .. Len(doc) : doc'[j] = IF j = Len(doc) THEN f ELSE doc[j]
    BY <1>0, <1>11, <1>12, <2>1, ExceptSeq
  <2> QED
    BY <1>0, <2>1, <2>2
<1>14. UNCHANGED <<snapshot, jpc, truncated, flag>> /\ jpc = "preset"
  BY DEF WritePreset
<1>15. Len(Written') <= Len(OpenedFolder.presets)'
  <2>1. Written' = Append(Written, e)
    BY <1>11, <1>13 DEF Written
  <2>2. OpenedFolder' = OpenedFolder
    BY <1>13, <1>14 DEF OpenedFolder
  <2> QED
    BY <1>1, <1>3, <1>10, <2>1, <2>2
<1>16. JsonTypeOK'
  BY <1>7, <1>13, <1>14, <1>15 DEF DocumentInv, JsonTypeOK
<1>17. Reserve'
  <2>1. out'.size + 78 <= JsonCapacity
    BY <1>5, <1>7, <1>18
  <2> QED
    BY <1>14, <2>1 DEF Reserve
<1> QED
  BY <1>0, <1>7, <1>16, <1>17 DEF DocumentInv, CompleteDocument

(* The rest of encodeCatalogJson(), and appendLastChange(), stay within    *)
(* the reserve.                                                            *)
LEMMA DocumentKeeps ==
  ASSUME DocumentInv, JsonNext
  PROVE  DocumentInv'
<1>0. /\ out \in [size : 0 .. JsonCapacity, cut : BOOLEAN] /\ ~out.cut
      /\ JsonCapacity \in Nat /\ JsonCapacity >= 137
      /\ doc \in Seq(ListedFolder) /\ snapshot.folders \in Seq(ListedFolder)
      /\ out.size \in Nat /\ Len(doc) \in Nat /\ Len(snapshot.folders) \in Nat
      /\ JsonTypeOK /\ Reserve
  BY JsonAssumption, LenProperties DEF DocumentInv, JsonTypeOK, CompleteDocument
<1>1. CASE Begin
  <2>1. PICK bytes \in 43 .. 61 : bytes = OpeningBytes
    BY OpeningBound
  <2>2. PICK o : o = [size |-> 0, cut |-> FALSE]
    OBVIOUS
  <2>3. 0 \in 0 .. JsonCapacity
    BY <1>0
  <2>4. o \in [size : 0 .. JsonCapacity, cut : BOOLEAN] /\ o.size = 0 /\ ~o.cut
    BY <2>2, <2>3
  <2>5. out' = Appended(o, bytes)
    BY <1>1, <2>1, <2>2 DEF Begin
  <2>6. /\ out' \in [size : 0 .. JsonCapacity, cut : BOOLEAN]
        /\ out'.size = bytes /\ ~out'.cut
    <3>1. bytes \in Nat /\ o.size + bytes <= JsonCapacity /\ o.size + bytes = bytes
      BY <1>0, <2>1, <2>4
    <3> QED
      BY <2>4, <2>5, <3>1, AppendedSize
  <2>7. doc' = << >> /\ doc' \in Seq(ListedFolder) /\ Len(doc') = 0 /\ truncated' = FALSE
        /\ jpc' = "folder" /\ UNCHANGED <<snapshot, flag>>
    BY <1>1, EmptySeq DEF Begin
  <2>8. JsonTypeOK'
    <3>1. truncated' \in BOOLEAN /\ flag' \in BOOLEAN
      BY <1>0, <2>7 DEF JsonTypeOK
    <3>2. Len(doc') <= Len(snapshot'.folders)
      BY <1>0, <2>7
    <3> QED
      BY <1>0, <2>6, <2>7, <3>1, <3>2 DEF JsonTypeOK
  <2>9. Reserve'
    BY <1>0, <2>1, <2>6, <2>7 DEF Reserve
  <2> QED
    BY <2>6, <2>8, <2>9 DEF DocumentInv, CompleteDocument
<1>2. CASE WriteFolder
  BY <1>2, WriteFolderKeeps
<1>3. CASE WritePreset
  BY <1>3, WritePresetKeeps
<1>4. CASE EndFolders
  <2>1. jpc' = "close" /\ jpc = "folder" /\ UNCHANGED <<snapshot, out, doc, flag>>
        /\ truncated' = (Len(doc) < Len(snapshot.folders))
    BY <1>4 DEF EndFolders
  <2>2. truncated' \in BOOLEAN
    BY <2>1
  <2>3. JsonTypeOK'
    BY <1>0, <2>1, <2>2 DEF JsonTypeOK
  <2>4. Reserve'
    BY <1>0, <2>1 DEF Reserve
  <2> QED
    BY <1>0, <2>1, <2>3, <2>4 DEF DocumentInv, CompleteDocument
<1>5. CASE EndPresets
  <2>1. jpc' \in {"close", "folder"} /\ jpc = "preset" /\ UNCHANGED <<snapshot, doc, flag>>
        /\ truncated' \in BOOLEAN /\ out' = Appended(out, 2)
    BY <1>5 DEF EndPresets
  <2>2. out.size + 78 <= JsonCapacity
    BY <1>0, <2>1 DEF Reserve
  <2>3. /\ out' \in [size : 0 .. JsonCapacity, cut : BOOLEAN]
        /\ out'.size = out.size + 2 /\ ~out'.cut
    <3>1. 2 \in Nat /\ out.size + 2 <= JsonCapacity
      BY <1>0, <2>2
    <3> QED
      BY <1>0, <2>1, <3>1, AppendedSize
  <2>4. JsonTypeOK'
    BY <1>0, <2>1, <2>3 DEF JsonTypeOK
  <2>5. Reserve'
    BY <1>0, <2>1, <2>2, <2>3 DEF Reserve
  <2> QED
    BY <1>0, <2>3, <2>4, <2>5 DEF DocumentInv, CompleteDocument
<1>6. CASE Close
  <2>1. PICK bytes \in 20 .. 21 : out' = Appended(out, bytes)
    BY <1>6 DEF Close
  <2>2. jpc = "close" /\ jpc' = "done" /\ UNCHANGED <<snapshot, doc, truncated>>
        /\ flag' = (snapshot.incomplete \/ truncated)
    BY <1>6 DEF Close
  <2>3. out.size + 76 <= JsonCapacity
    BY <1>0, <2>2 DEF Reserve
  <2>4. /\ out' \in [size : 0 .. JsonCapacity, cut : BOOLEAN]
        /\ out'.size = out.size + bytes /\ ~out'.cut
    <3>1. bytes \in Nat /\ out.size + bytes <= JsonCapacity
      BY <1>0, <2>1, <2>3
    <3> QED
      BY <1>0, <2>1, <3>1, AppendedSize
  <2>5. flag' \in BOOLEAN
    BY <2>2, Zenon
  <2>6. JsonTypeOK'
    BY <1>0, <2>2, <2>4, <2>5 DEF JsonTypeOK
  <2>7. Reserve'
    BY <1>0, <2>1, <2>2, <2>3, <2>4 DEF Reserve
  <2> QED
    BY <1>0, <2>4, <2>6, <2>7 DEF DocumentInv, CompleteDocument
<1>7. CASE \E event \in Events : AppendLastChange(event)
  <2>1. PICK event \in Events : AppendLastChange(event)
    BY <1>7
  <2>2. PICK bytes \in 38 .. 56 : bytes = 25 + Digits(event.command) + 9 + Digits(event.count) + 2
    <3>1. Digits(event.command) \in 1 .. 10 /\ Digits(event.count) \in 1 .. 10
      BY DigitsBound
    <3> QED
      BY <3>1
  <2>3. jpc = "done" /\ jpc' = "changed" /\ UNCHANGED <<snapshot, doc, truncated, flag>>
    BY <2>1 DEF AppendLastChange
  <2>4. out.size >= 1 /\ out.size + 55 <= JsonCapacity
    BY <1>0, <2>3 DEF Reserve
  <2>5. PICK size : size = out.size - 1
    OBVIOUS
  <2>6. PICK o : o = [out EXCEPT !.size = size]
    OBVIOUS
  <2>7. size \in 0 .. JsonCapacity
    BY <1>0, <2>4, <2>5
  <2>8. o \in [size : 0 .. JsonCapacity, cut : BOOLEAN] /\ o.size = size /\ ~o.cut
    BY <1>0, <2>6, <2>7
  <2>9. out' = Appended(o, bytes)
    BY <2>1, <2>2, <2>5, <2>6 DEF AppendLastChange
  <2>10. /\ out' \in [size : 0 .. JsonCapacity, cut : BOOLEAN]
         /\ ~out'.cut
    <3>1. bytes \in Nat /\ o.size + bytes <= JsonCapacity
      <4>1. out.size \in Nat /\ JsonCapacity \in Nat
        BY <1>0
      <4>2. size + bytes <= JsonCapacity /\ bytes \in Nat
        BY <2>2, <2>4, <2>5, <4>1
      <4> QED
        BY <2>8, <4>2
    <3> QED
      BY <2>8, <2>9, <3>1, AppendedSize
  <2>11. JsonTypeOK'
    BY <1>0, <2>3, <2>10 DEF JsonTypeOK
  <2>12. Reserve'
    BY <2>3 DEF Reserve
  <2> QED
    BY <1>0, <2>10, <2>11, <2>12 DEF DocumentInv, CompleteDocument
<1> QED
  BY <1>1, <1>2, <1>3, <1>4, <1>5, <1>6, <1>7 DEF JsonNext

---------------------------------------------------------------------------
(* The listing                                                             *)

ListingInv == TypeOK /\ Reserve /\ CompleteDocument

(* The copy of the catalog is one of texts that have a length.             *)
LEMMA CopyTypes ==
  ASSUME CatalogTypeOK, NEW lost \in BOOLEAN, CopyCatalogSnapshot(lost)
  PROVE  snapshot' \in [folders : Seq(ListedFolder), presetCount : Nat, incomplete : BOOLEAN,
                        generation : Nat]
<1>1. folders \in Seq(Folder) /\ DOMAIN folders = 1 .. Len(folders) /\ Len(folders) \in Nat
  BY LenProperties DEF CatalogTypeOK
<1>2. PICK fs : fs = [i \in DOMAIN folders |-> [name |-> folders[i].name, presets |-> folders[i].presets]]
  OBVIOUS
<1>3. ASSUME NEW i \in 1 .. Len(folders)
      PROVE  [name |-> folders[i].name, presets |-> folders[i].presets] \in ListedFolder
  <2>1. folders[i] \in Folder
    BY <1>1, <1>3, ElementOfSeq
  <2>2. folders[i].name \in DOMAIN TextBytes
    BY <2>1, ListingAssumption DEF Folder
  <2>3. Entry \subseteq ListedPreset
    BY ListingAssumption DEF Entry, ListedPreset
  <2>4. folders[i].presets \in Seq(ListedPreset)
    BY <2>1, <2>3, SeqOfMore DEF Folder
  <2> QED
    BY <2>2, <2>4 DEF ListedFolder
<1>4. fs \in Seq(ListedFolder)
  BY <1>1, <1>2, <1>3
<1>5. presetCount \in Nat /\ generation \in Nat
  BY DEF CatalogTypeOK
<1>6. snapshot' = [folders |-> fs, presetCount |-> presetCount, incomplete |-> lost, generation |-> generation]
  BY <1>2 DEF CopyCatalogSnapshot
<1> QED
  BY <1>4, <1>5, <1>6

(* The document's facts do not depend on the catalog.                      *)
LEMMA DocumentUnchanged ==
  ASSUME DocumentInv, UNCHANGED jsonVars
  PROVE  DocumentInv'
<1>1. JsonTypeOK'
  BY DEF DocumentInv, jsonVars, JsonTypeOK, Written, OpenedFolder
<1>2. Reserve' /\ CompleteDocument'
  BY DEF DocumentInv, jsonVars, Reserve, CompleteDocument
<1> QED
  BY <1>1, <1>2 DEF DocumentInv

(* Types and the reserve of the buffer, for any values of the constants.   *)
LEMMA ListingInvHolds == Spec => []ListingInv
<1>1. Init => ListingInv
  <2> SUFFICES ASSUME Init PROVE ListingInv
    OBVIOUS
  <2>1. CatalogTypeOK
    BY EmptySeq, CatalogAssumption DEF Init, CatalogInit, CatalogTypeOK
  <2>2. JsonTypeOK
    <3>1. out \in [size : 0 .. JsonCapacity, cut : BOOLEAN]
      <4>1. 0 \in 0 .. JsonCapacity
        BY JsonAssumption
      <4> QED
        BY <4>1 DEF Init, JsonInit
    <3>2. snapshot \in [folders : Seq(ListedFolder), presetCount : Nat, incomplete : BOOLEAN,
                        generation : Nat]
      BY EmptySeq DEF Init, JsonInit
    <3>3. doc \in Seq(ListedFolder)
      BY EmptySeq DEF Init, JsonInit
    <3> QED
      BY <3>1, <3>2, <3>3 DEF Init, JsonInit, JsonTypeOK
  <2>3. TypeOK
    BY <2>1, <2>2, EmptySeq DEF Init, TypeOK
  <2>4. Reserve /\ CompleteDocument
    BY DEF Init, JsonInit, Reserve, CompleteDocument
  <2> QED
    BY <2>3, <2>4 DEF ListingInv
<1>2. ListingInv /\ [Next]_vars => ListingInv'
  <2> SUFFICES ASSUME ListingInv, [Next]_vars
               PROVE  ListingInv'
    OBVIOUS
  <2>0. /\ CatalogTypeOK /\ DocumentInv
        /\ streaming \in BOOLEAN /\ slots \in Nat /\ lossy \in BOOLEAN /\ copied \in Seq(Slot)
    BY DEF ListingInv, TypeOK, DocumentInv
  <2>1. ASSUME CatalogTypeOK', DocumentInv', streaming' \in BOOLEAN, slots' \in Nat, lossy' \in BOOLEAN,
               copied' \in Seq(Slot)
        PROVE  ListingInv'
    BY <2>1 DEF ListingInv, TypeOK, DocumentInv
  <2>2. CASE StartStream
    <3>1. Reset /\ UNCHANGED <<jsonVars, slots, lossy, copied>> /\ streaming' = TRUE
      BY <2>2 DEF StartStream
    <3>2. CatalogTypeOK'
      BY <2>0, <3>1, EmptySeq, CatalogAssumption DEF Reset, CatalogTypeOK
    <3>3. DocumentInv'
      BY <2>0, <3>1, DocumentUnchanged
    <3> QED
      BY <2>0, <2>1, <3>1, <3>2, <3>3
  <2>3. CASE \E key \in Keys, name \in Names \cup {NoName} : Give(key, name)
    <3>1. PICK key \in Keys, name \in Names \cup {NoName} : Give(key, name)
      BY <2>3
    <3>2. PICK i \in Indices(key) : AddPreset([key |-> key, name |-> name, index |-> i])
      BY <3>1 DEF Give
    <3>3. i \in Nat
      BY <3>2, ListingAssumption DEF Indices
    <3>4. PICK preset : preset = [key |-> key, name |-> name, index |-> i]
      OBVIOUS
    <3>5. preset \in Slot /\ AddPreset(preset)
      BY <3>2, <3>3, <3>4 DEF Slot
    <3>6. CatalogTypeOK'
      BY <2>0, <3>5, AddPresetTypes
    <3>7. UNCHANGED <<jsonVars, streaming, lossy, copied>> /\ slots' = slots + 1
      BY <3>1 DEF Give
    <3>8. DocumentInv'
      BY <2>0, <3>7, DocumentUnchanged
    <3> QED
      BY <2>0, <2>1, <3>6, <3>7, <3>8
  <2>4. CASE \E incomplete \in BOOLEAN : EndStream(incomplete)
    <3>1. PICK incomplete \in BOOLEAN : EndStream(incomplete)
      BY <2>4
    <3>2. /\ streaming' = FALSE /\ jpc' = "idle" /\ lossy' = incomplete /\ copied' = given
          /\ UNCHANGED <<catalogVars, out, doc, truncated, flag, slots>>
          /\ CopyCatalogSnapshot(incomplete \/ Overflowed)
      BY <3>1 DEF EndStream
    <3>3. PICK lost \in BOOLEAN : lost = (incomplete \/ Overflowed)
      OBVIOUS
    <3>4. snapshot' \in [folders : Seq(ListedFolder), presetCount : Nat, incomplete : BOOLEAN,
                         generation : Nat]
      BY <2>0, <3>2, <3>3, CopyTypes
    <3>5. CatalogTypeOK'
      BY <2>0, <3>2 DEF CatalogTypeOK, catalogVars
    <3>6. JsonTypeOK'
      BY <2>0, <3>2, <3>4 DEF DocumentInv, JsonTypeOK
    <3>7. Reserve' /\ CompleteDocument'
      BY <2>0, <3>2 DEF DocumentInv, Reserve, CompleteDocument
    <3>8. copied' \in Seq(Slot)
      BY <2>0, <3>2 DEF CatalogTypeOK
    <3> QED
      BY <2>0, <2>1, <3>1, <3>2, <3>5, <3>6, <3>7, <3>8 DEF DocumentInv
  <2>5. CASE Encode
    <3>1. JsonNext /\ UNCHANGED <<catalogVars, streaming, slots, lossy, copied>>
      BY <2>5 DEF Encode
    <3>2. CatalogTypeOK'
      BY <2>0, <3>1 DEF CatalogTypeOK, catalogVars
    <3>3. DocumentInv'
      BY <2>0, <3>1, DocumentKeeps
    <3> QED
      BY <2>0, <2>1, <3>1, <3>2, <3>3
  <2>6. CASE UNCHANGED vars
    <3>1. CatalogTypeOK'
      BY <2>0, <2>6 DEF vars, CatalogTypeOK, catalogVars
    <3>2. DocumentInv'
      BY <2>0, <2>6, DocumentUnchanged DEF vars
    <3> QED
      BY <2>0, <2>1, <2>6, <3>1, <3>2 DEF vars
  <2> QED
    BY <2>2, <2>3, <2>4, <2>5, <2>6 DEF Next
<1> QED
  BY <1>1, <1>2, PTL DEF Spec

(* Types, the catalog within its storage and the document within its       *)
(* buffer.                                                                 *)
THEOREM TypeCorrect == Spec => []TypeOK
<1>1. ListingInv => TypeOK
  BY DEF ListingInv
<1> QED
  BY <1>1, ListingInvHolds, PTL

(* The document is never cut at the end of the buffer: what RoomFor()      *)
(* reserves for a folder or preset is enough for it, for the closing and   *)
(* for the preset change that is added later, for which the code reserves  *)
(* nothing of its own.                                                     *)
THEOREM DocumentIsWhole == Spec => []CompleteDocument
<1>1. ListingInv => CompleteDocument
  BY DEF ListingInv
<1> QED
  BY <1>1, ListingInvHolds, PTL

---------------------------------------------------------------------------
(* Counting                                                                *)

Below(S, m) == {n \in S : n < m}

(* The elements of a set of positions have different numbers of smaller    *)
(* ones, each less than the size of the set.                               *)
LEMMA Ranks ==
  ASSUME NEW S, S \subseteq Nat, IsFiniteSet(S)
  PROVE  /\ \A m \in S : Cardinality(Below(S, m)) \in Nat
         /\ \A m \in S : Cardinality(Below(S, m)) < Cardinality(S)
         /\ \A m, n \in S : Cardinality(Below(S, m)) = Cardinality(Below(S, n)) => m = n
<1>1. \A T \in SUBSET S : IsFiniteSet(T) /\ Cardinality(T) \in Nat
  BY FS_Subset, FS_CardinalityType
<1>2. \A m : Below(S, m) \in SUBSET S
  BY DEF Below
<1>3. ASSUME NEW U \in SUBSET S, NEW T \in SUBSET U, T # U
      PROVE  Cardinality(T) < Cardinality(U)
  <2>1. Cardinality(T) <= Cardinality(U) /\ Cardinality(T) # Cardinality(U)
    BY <1>1, <1>3, FS_Subset
  <2> QED
    BY <1>1, <2>1
<1>4. \A m \in S : Cardinality(Below(S, m)) < Cardinality(S)
  <2> SUFFICES ASSUME NEW m \in S PROVE Cardinality(Below(S, m)) < Cardinality(S)
    OBVIOUS
  <2>1. Below(S, m) # S
    BY DEF Below
  <2>2. Below(S, m) \in SUBSET S /\ S \in SUBSET S
    BY <1>2
  <2> QED
    BY <1>3, <2>1, <2>2
<1>5. ASSUME NEW m \in S, NEW n \in S, m < n
      PROVE  Cardinality(Below(S, m)) < Cardinality(Below(S, n))
  <2>1. \A k \in Below(S, m) : k \in Below(S, n)
    BY <1>5 DEF Below
  <2>2. m \in Below(S, n) /\ m \notin Below(S, m)
    BY <1>5 DEF Below
  <2>3. Below(S, m) \in SUBSET Below(S, n) /\ Below(S, m) # Below(S, n)
    BY <2>1, <2>2
  <2> QED
    BY <1>2, <1>3, <2>3
<1>6. ASSUME NEW m \in S, NEW n \in S, Cardinality(Below(S, m)) = Cardinality(Below(S, n))
      PROVE  m = n
  <2>1. Cardinality(Below(S, m)) \in Nat /\ Cardinality(Below(S, n)) \in Nat
    BY <1>1, <1>2
  <2>2. ~(m < n) /\ ~(n < m)
    BY <1>5, <1>6, <2>1
  <2> QED
    BY <2>2
<1> QED
  BY <1>1, <1>2, <1>4, <1>6

(* The j-th element is the one with j - 1 smaller ones.                    *)
LEMMA NthIs ==
  ASSUME NEW S, S \subseteq Nat, IsFiniteSet(S), NEW j, NEW m \in S,
         Cardinality(Below(S, m)) = j - 1
  PROVE  Nth(S, j) = m
<1>1. \A n \in S : Cardinality(Below(S, n)) = j - 1 => n = m
  BY Ranks
<1>2. Nth(S, j) = CHOOSE n \in S : Cardinality(Below(S, n)) = j - 1
  BY DEF Nth, Below
<1> QED
  BY <1>1, <1>2

(* There is one for every number up to the size of the set.                *)
LEMMA NthIn ==
  ASSUME NEW S, S \subseteq Nat, IsFiniteSet(S), NEW j \in 1 .. Cardinality(S)
  PROVE  Nth(S, j) \in S /\ Cardinality(Below(S, Nth(S, j))) = j - 1
<1>1. PICK c \in Nat : c = Cardinality(S)
  BY FS_CardinalityType
<1>2. PICK rank : rank = [m \in S |-> Cardinality(Below(S, m)) + 1]
  OBVIOUS
<1>3. /\ \A m \in S : Cardinality(Below(S, m)) \in Nat
      /\ \A m \in S : Cardinality(Below(S, m)) < c
      /\ \A m, n \in S : Cardinality(Below(S, m)) = Cardinality(Below(S, n)) => m = n
  BY <1>1, Ranks
<1>4. /\ \A m \in S : rank[m] \in 1 .. c
      /\ \A m, n \in S : rank[m] = rank[n] => m = n
  BY <1>2, <1>3
<1>5. rank \in Injection(S, 1 .. c)
  BY <1>2, <1>4 DEF Injection, IsInjective
<1>6. IsFiniteSet(1 .. c) /\ Cardinality(1 .. c) = c
  <2>1. 1 \in Int /\ c \in Int /\ (IF 1 > c THEN 0 ELSE c - 1 + 1) = c
    BY <1>1
  <2>2. IsFiniteSet(1 .. c) /\ Cardinality(1 .. c) = IF 1 > c THEN 0 ELSE c - 1 + 1
    BY <2>1, FS_Interval, Zenon
  <2> QED
    BY <2>1, <2>2
<1>7. rank \in Surjection(S, 1 .. c)
  BY <1>1, <1>5, <1>6, FS_Injection
<1>8. PICK m \in S : rank[m] = j
  BY <1>1, <1>7 DEF Surjection
<1>9. Cardinality(Below(S, m)) = j - 1
  BY <1>2, <1>3, <1>8
<1>10. Nth(S, j) = m
  BY <1>9, NthIs
<1> QED
  BY <1>9, <1>10

(* One more position, after the others, is the last.                       *)
LEMMA NthMore ==
  ASSUME NEW S, S \subseteq Nat, IsFiniteSet(S), NEW last \in Nat, \A m \in S : m < last
  PROVE  /\ Cardinality(S) \in Nat
         /\ Cardinality(S \cup {last}) = Cardinality(S) + 1
         /\ \A j \in 1 .. Cardinality(S) : Nth(S \cup {last}, j) = Nth(S, j)
         /\ Nth(S \cup {last}, Cardinality(S) + 1) = last
<1>1. PICK T : T = S \cup {last}
  OBVIOUS
<1>2. PICK c \in Nat : c = Cardinality(S)
  BY FS_CardinalityType
<1>3. T \subseteq Nat /\ last \notin S
  BY <1>1
<1>4. IsFiniteSet(T) /\ Cardinality(T) = c + 1
  BY <1>1, <1>2, <1>3, FS_AddElement
<1>5. ASSUME NEW j \in 1 .. c
      PROVE  Nth(T, j) = Nth(S, j)
  <2>1. PICK m \in S : m = Nth(S, j) /\ Cardinality(Below(S, m)) = j - 1
    BY <1>2, NthIn
  <2>2. Below(T, m) = Below(S, m) /\ m \in T
    BY <1>1 DEF Below
  <2> QED
    BY <1>3, <1>4, <2>1, <2>2, NthIs
<1>6. Nth(T, c + 1) = last
  <2>1. Below(T, last) = S /\ last \in T
    <3>1. \A k : k \in Below(T, last) <=> k \in T /\ k < last
      BY DEF Below
    <3>2. ~(last < last)
      OBVIOUS
    <3>3. \A k : k \in T /\ k < last <=> k \in S
      BY <1>1, <1>3, <3>2, Zenon
    <3> QED
      BY <1>1, <3>1, <3>3
  <2>2. Cardinality(Below(T, last)) = c /\ (c + 1) - 1 = c
    BY <1>2, <2>1
  <2> QED
    BY <1>3, <1>4, <2>1, <2>2, NthIs
<1> QED
  BY <1>1, <1>2, <1>4, <1>5, <1>6

(* A list with one element more.                                           *)
Grown(p, q, e) == p = Append(q, e)

(* Its length and elements.                                                *)
LEMMA GrownIs ==
  ASSUME NEW X, NEW q \in Seq(X), NEW e \in X, NEW p, Grown(p, q, e)
  PROVE  /\ p \in Seq(X) /\ Len(q) \in Nat /\ Len(p) = Len(q) + 1
         /\ \A j \in 1 .. Len(q) : p[j] = q[j]
         /\ p[Len(q) + 1] = e
BY AppendProperties, LenProperties DEF Grown

(* What a function gives at a set of positions, in their order.            *)
Picked(S, f) == [j \in 1 .. Cardinality(S) |-> f[Nth(S, j)]]

(* A set of positions in a sequence.                                       *)
LEMMA PositionsCounted ==
  ASSUME NEW n \in Nat, NEW S, S \subseteq 1 .. n
  PROVE  S \subseteq Nat /\ IsFiniteSet(S) /\ Cardinality(S) \in Nat
<1>1. IsFiniteSet(1 .. n)
  <2>1. 1 \in Int /\ n \in Int
    OBVIOUS
  <2> QED
    BY <2>1, FS_Interval, Zenon
<1>2. IsFiniteSet(S)
  BY <1>1, FS_Subset
<1> QED
  BY <1>2, FS_CardinalityType

(* What is picked is a sequence of what is there.                          *)
LEMMA PickedIs ==
  ASSUME NEW X, NEW n \in Nat, NEW S, S \subseteq 1 .. n, NEW f, \A m \in S : f[m] \in X
  PROVE  Picked(S, f) \in Seq(X) /\ Len(Picked(S, f)) = Cardinality(S)
<1>1. PICK c \in Nat : c = Cardinality(S)
  BY PositionsCounted
<1>2. \A j \in 1 .. c : Nth(S, j) \in S
  BY <1>1, PositionsCounted, NthIn
<1>3. Picked(S, f) = [j \in 1 .. c |-> f[Nth(S, j)]]
  BY <1>1 DEF Picked
<1>4. PICK p : p = [j \in 1 .. c |-> f[Nth(S, j)]]
  OBVIOUS
<1>5. p \in [1 .. c -> X]
  BY <1>2, <1>4
<1>6. p \in Seq(X)
  BY <1>5, SeqDef
<1>7. Len(p) = c
  BY <1>4
<1> QED
  BY <1>1, <1>3, <1>4, <1>6, <1>7

(* It depends on these positions only.                                     *)
LEMMA PickedSame ==
  ASSUME NEW n \in Nat, NEW S, S \subseteq 1 .. n, NEW f, NEW g, \A m \in S : g[m] = f[m]
  PROVE  Picked(S, g) = Picked(S, f)
<1>1. \A j \in 1 .. Cardinality(S) : Nth(S, j) \in S
  BY PositionsCounted, NthIn
<1> QED
  BY <1>1 DEF Picked

(* What is picked at one more position, the last, comes last.              *)
LEMMA PickedMore ==
  ASSUME NEW n \in Nat, NEW S, S \subseteq 1 .. n, NEW f, NEW g, \A m \in S : g[m] = f[m]
  PROVE  Grown(Picked(S \cup {n + 1}, g), Picked(S, f), g[n + 1])
<1>0. PICK T, e : T = S \cup {n + 1} /\ e = g[n + 1]
  OBVIOUS
<1>2. PICK X : X = {f[m] : m \in S} \cup {e}
  OBVIOUS
<1>1. PICK c \in Nat : c = Cardinality(S)
  BY PositionsCounted
<1>3. T \subseteq 1 .. n + 1 /\ n + 1 \in Nat
  BY <1>0
<1>4. /\ Cardinality(T) = c + 1
      /\ \A j \in 1 .. c : Nth(T, j) = Nth(S, j)
      /\ Nth(T, c + 1) = n + 1
  <2>1. \A m \in S : m < n + 1
    OBVIOUS
  <2> QED
    BY <1>0, <1>1, <1>3, <2>1, PositionsCounted, NthMore
<1>5. /\ Picked(S, f) \in Seq(X) /\ Len(Picked(S, f)) = c
      /\ \A j \in 1 .. c : Nth(S, j) \in S /\ Picked(S, f)[j] = f[Nth(S, j)]
  <2>1. \A m \in S : f[m] \in X
    BY <1>2
  <2>2. Picked(S, f) \in Seq(X) /\ Len(Picked(S, f)) = Cardinality(S)
    BY <2>1, PickedIs, Zenon
  <2>3. \A j \in 1 .. c : Nth(S, j) \in S
    BY <1>1, PositionsCounted, NthIn
  <2>4. \A j \in 1 .. c : Picked(S, f)[j] = f[Nth(S, j)]
    BY <1>1 DEF Picked
  <2> QED
    BY <1>1, <2>2, <2>3, <2>4
<1>6. e \in X /\ \A m \in T : g[m] \in X
  BY <1>0, <1>2
<1>7. /\ Picked(T, g) \in Seq(X) /\ Len(Picked(T, g)) = c + 1
      /\ \A j \in 1 .. c + 1 : Picked(T, g)[j] = g[Nth(T, j)]
  <2>1. Picked(T, g) \in Seq(X) /\ Len(Picked(T, g)) = Cardinality(T)
    BY <1>3, <1>6, PickedIs, Zenon
  <2>2. \A j \in 1 .. c + 1 : Picked(T, g)[j] = g[Nth(T, j)]
    BY <1>4 DEF Picked
  <2> QED
    BY <1>4, <2>1, <2>2
<1>8. PICK a : a = Append(Picked(S, f), e)
  OBVIOUS
<1>9. /\ a \in Seq(X) /\ Len(a) = c + 1
      /\ \A j \in 1 .. c : a[j] = Picked(S, f)[j]
      /\ a[c + 1] = e
  BY <1>5, <1>6, <1>8, AppendProperties
<1>10. \A j \in 1 .. c + 1 : Picked(T, g)[j] = a[j]
  <2> SUFFICES ASSUME NEW j \in 1 .. c + 1 PROVE Picked(T, g)[j] = a[j]
    OBVIOUS
  <2>1. CASE j = c + 1
    <3>1. Picked(T, g)[j] = g[n + 1] /\ a[j] = e
      BY <1>4, <1>7, <1>9, <2>1
    <3> QED
      BY <1>0, <3>1
  <2>2. CASE j \in 1 .. c
    <3>1. Picked(T, g)[j] = g[Nth(S, j)] /\ Nth(S, j) \in S
      BY <1>4, <1>5, <1>7, <2>2
    <3>2. a[j] = f[Nth(S, j)]
      BY <1>5, <1>9, <2>2
    <3> QED
      BY <3>1, <3>2
  <2> QED
    BY <2>1, <2>2
<1>11. Picked(T, g) = a
  BY <1>7, <1>9, <1>10, SeqEqual
<1> QED
  BY <1>0, <1>8, <1>11 DEF Grown

---------------------------------------------------------------------------
(* The slots given                                                         *)

(* The positions of named presets, of a folder's, and of its first.        *)
LEMMA PositionsIn ==
  ASSUME NEW s \in Seq(Slot)
  PROVE  /\ Len(s) \in Nat /\ DOMAIN s = 1 .. Len(s)
         /\ NamedIn(s) \subseteq 1 .. Len(s)
         /\ \A key : OwnIn(key, s) \subseteq 1 .. Len(s)
         /\ FirstsIn(s) \subseteq 1 .. Len(s)
         /\ \A m \in 1 .. Len(s) : s[m] \in Slot
<1>1. Len(s) \in Nat /\ DOMAIN s = 1 .. Len(s)
  BY LenProperties
<1> QED
  BY <1>1, ElementOfSeq DEF NamedIn, OwnIn, FirstsIn

(* The lists of a folder's presets and of the keys, as what is picked.     *)
LEMMA ListsArePicked ==
  ASSUME NEW s \in Seq(Slot)
  PROVE  /\ \A key : PresetsOf(key, s) = Picked(OwnIn(key, s), [m \in DOMAIN s |-> Stored(s[m])])
         /\ KeysOf(s) = Picked(FirstsIn(s), [m \in DOMAIN s |-> s[m].key])
<1>1. ASSUME NEW key
      PROVE  PresetsOf(key, s) = Picked(OwnIn(key, s), [m \in DOMAIN s |-> Stored(s[m])])
  <2>1. \A j \in 1 .. Cardinality(OwnIn(key, s)) : Nth(OwnIn(key, s), j) \in DOMAIN s
    BY PositionsIn, PositionsCounted, NthIn
  <2> QED
    BY <2>1 DEF PresetsOf, Picked
<1>2. \A j \in 1 .. Cardinality(FirstsIn(s)) : Nth(FirstsIn(s), j) \in DOMAIN s
  BY PositionsIn, PositionsCounted, NthIn
<1> QED
  BY <1>1, <1>2 DEF KeysOf, Picked

(* They are lists of presets, and of keys.                                 *)
LEMMA ListTypes ==
  ASSUME NEW s \in Seq(Slot)
  PROVE  /\ \A key : PresetsOf(key, s) \in Seq(Entry)
         /\ \A key : Len(PresetsOf(key, s)) = Cardinality(OwnIn(key, s))
         /\ KeysOf(s) \in Seq(Keys) /\ Len(KeysOf(s)) = Cardinality(FirstsIn(s))
<1>1. ASSUME NEW key
      PROVE  PresetsOf(key, s) \in Seq(Entry) /\ Len(PresetsOf(key, s)) = Cardinality(OwnIn(key, s))
  <2>1. PICK f : f = [m \in DOMAIN s |-> Stored(s[m])]
    OBVIOUS
  <2>2. \A m \in OwnIn(key, s) : m \in DOMAIN s /\ s[m] \in Slot /\ s[m].name # NoName
    BY PositionsIn DEF OwnIn, NamedIn
  <2>3. \A m \in OwnIn(key, s) : f[m] \in Entry
    BY <2>1, <2>2 DEF Stored, Entry, Slot
  <2>4. OwnIn(key, s) \subseteq 1 .. Len(s) /\ Len(s) \in Nat
    BY PositionsIn
  <2>5. PresetsOf(key, s) = Picked(OwnIn(key, s), f)
    BY <2>1, ListsArePicked, Zenon
  <2> QED
    BY <2>3, <2>4, <2>5, PickedIs, Zenon
<1>2. KeysOf(s) \in Seq(Keys) /\ Len(KeysOf(s)) = Cardinality(FirstsIn(s))
  <2>1. PICK f : f = [m \in DOMAIN s |-> s[m].key]
    OBVIOUS
  <2>2. \A m \in FirstsIn(s) : m \in DOMAIN s /\ s[m] \in Slot
    BY PositionsIn
  <2>3. \A m \in FirstsIn(s) : f[m] \in Keys
    BY <2>1, <2>2 DEF Slot
  <2>4. FirstsIn(s) \subseteq 1 .. Len(s) /\ Len(s) \in Nat
    BY PositionsIn
  <2>5. KeysOf(s) = Picked(FirstsIn(s), f)
    BY <2>1, ListsArePicked, Zenon
  <2> QED
    BY <2>3, <2>4, <2>5, PickedIs, Zenon
<1> QED
  BY <1>1, <1>2

(* One slot more changes nothing if it is empty; else it is the latest of  *)
(* its folder, and perhaps the first.                                      *)
LEMMA PositionsOfMore ==
  ASSUME NEW s \in Seq(Slot), NEW slot \in Slot
  PROVE  /\ slot.name = NoName =>
              /\ NamedIn(Append(s, slot)) = NamedIn(s)
              /\ \A key : OwnIn(key, Append(s, slot)) = OwnIn(key, s)
              /\ FirstsIn(Append(s, slot)) = FirstsIn(s)
         /\ slot.name # NoName =>
              /\ NamedIn(Append(s, slot)) = NamedIn(s) \cup {Len(s) + 1}
              /\ OwnIn(slot.key, Append(s, slot)) = OwnIn(slot.key, s) \cup {Len(s) + 1}
              /\ \A key : key # slot.key => OwnIn(key, Append(s, slot)) = OwnIn(key, s)
              /\ OwnIn(slot.key, s) # {} => FirstsIn(Append(s, slot)) = FirstsIn(s)
              /\ OwnIn(slot.key, s) = {} =>
                   FirstsIn(Append(s, slot)) = FirstsIn(s) \cup {Len(s) + 1}
<1>1. PICK t : t = Append(s, slot)
  OBVIOUS
<1>2. PICK n \in Nat : n = Len(s)
  BY LenProperties
<1>3. /\ t \in Seq(Slot) /\ Len(t) = n + 1
      /\ \A m \in 1 .. n : t[m] = s[m]
      /\ t[n + 1] = slot
  BY <1>1, <1>2, AppendProperties
<1>4. DOMAIN s = 1 .. n /\ DOMAIN t = 1 .. n + 1
  BY <1>2, <1>3, LenProperties
<1>5. \A m : m \in 1 .. n + 1 <=> m \in 1 .. n \/ m = n + 1
  OBVIOUS
<1>6. n + 1 \notin 1 .. n
  OBVIOUS
<1>7. \A m : m \in NamedIn(t) <=> m \in NamedIn(s) \/ (m = n + 1 /\ slot.name # NoName)
  BY <1>3, <1>4, <1>5, <1>6 DEF NamedIn
<1>8. NamedIn(s) \subseteq 1 .. n
  BY <1>4 DEF NamedIn
<1>9. \A key, m : m \in OwnIn(key, t) <=>
        m \in OwnIn(key, s) \/ (m = n + 1 /\ slot.name # NoName /\ slot.key = key)
  BY <1>3, <1>6, <1>7, <1>8 DEF OwnIn
<1>10. \A m \in NamedIn(s) : t[m].key = s[m].key /\ m <= n + 1
  BY <1>3, <1>8
<1>11. ASSUME NEW m \in NamedIn(s)
       PROVE  m \in FirstsIn(t) <=> m \in FirstsIn(s)
  BY <1>7, <1>9, <1>10 DEF FirstsIn
<1>12. ASSUME slot.name # NoName
       PROVE  n + 1 \in FirstsIn(t) <=> OwnIn(slot.key, s) = {}
  <2>1. n + 1 \in FirstsIn(t) <=> \A k \in OwnIn(slot.key, t) : n + 1 <= k
    BY <1>3, <1>7, <1>12 DEF FirstsIn
  <2>2. \A k \in OwnIn(slot.key, s) : k \in OwnIn(slot.key, t) /\ ~(n + 1 <= k)
    <3>1. OwnIn(slot.key, s) \subseteq 1 .. n
      BY <1>8 DEF OwnIn
    <3>2. \A k \in 1 .. n : ~(n + 1 <= k)
      OBVIOUS
    <3> QED
      BY <1>9, <3>1, <3>2
  <2>3. n + 1 <= n + 1
    OBVIOUS
  <2> QED
    BY <1>9, <2>1, <2>2, <2>3
<1>13. FirstsIn(s) \subseteq NamedIn(s) /\ FirstsIn(t) \subseteq NamedIn(t)
  BY DEF FirstsIn
<1>14. CASE slot.name = NoName
  <2>1. NamedIn(t) = NamedIn(s) /\ \A key : OwnIn(key, t) = OwnIn(key, s)
    <3>1. \A m : m \in NamedIn(t) <=> m \in NamedIn(s)
      BY <1>7, <1>14
    <3>2. ASSUME NEW key PROVE OwnIn(key, t) = OwnIn(key, s)
      <4>1. \A m : m \in OwnIn(key, t) <=> m \in OwnIn(key, s)
        BY <1>9, <1>14
      <4> QED
        BY <4>1
    <3>3. NamedIn(t) = NamedIn(s)
      BY <3>1
    <3> QED
      BY <3>2, <3>3
  <2>2. FirstsIn(t) = FirstsIn(s)
    BY <1>11, <1>13, <2>1
  <2> QED
    BY <1>1, <1>14, <2>1, <2>2
<1>15. CASE slot.name # NoName
  <2>1. /\ NamedIn(t) = NamedIn(s) \cup {n + 1}
        /\ OwnIn(slot.key, t) = OwnIn(slot.key, s) \cup {n + 1}
        /\ \A key : key # slot.key => OwnIn(key, t) = OwnIn(key, s)
    <3>1. \A m : m \in NamedIn(t) <=> m \in NamedIn(s) \cup {n + 1}
      BY <1>7, <1>15
    <3>2. \A m : m \in OwnIn(slot.key, t) <=> m \in OwnIn(slot.key, s) \cup {n + 1}
      BY <1>9, <1>15
    <3>3. ASSUME NEW key, key # slot.key PROVE OwnIn(key, t) = OwnIn(key, s)
      <4>1. \A m : m \in OwnIn(key, t) <=> m \in OwnIn(key, s)
        BY <1>9, <1>15, <3>3
      <4> QED
        BY <4>1
    <3>4. NamedIn(t) = NamedIn(s) \cup {n + 1}
      BY <3>1
    <3>5. OwnIn(slot.key, t) = OwnIn(slot.key, s) \cup {n + 1}
      BY <3>2
    <3> QED
      BY <3>3, <3>4, <3>5
  <2>2. OwnIn(slot.key, s) # {} => FirstsIn(t) = FirstsIn(s)
    BY <1>11, <1>12, <1>13, <1>15, <2>1
  <2>3. OwnIn(slot.key, s) = {} => FirstsIn(t) = FirstsIn(s) \cup {n + 1}
    BY <1>11, <1>12, <1>13, <1>15, <2>1
  <2> QED
    BY <1>1, <1>2, <1>15, <2>1, <2>2, <2>3
<1> QED
  BY <1>14, <1>15

(* The lists with one slot more.                                           *)
LEMMA ListsOfMore ==
  ASSUME NEW s \in Seq(Slot), NEW slot \in Slot
  PROVE  /\ Cardinality(NamedIn(s)) \in Nat
         /\ Cardinality(NamedIn(Append(s, slot))) =
              IF slot.name = NoName THEN Cardinality(NamedIn(s)) ELSE Cardinality(NamedIn(s)) + 1
         /\ \A key : slot.name = NoName \/ key # slot.key =>
              PresetsOf(key, Append(s, slot)) = PresetsOf(key, s)
         /\ slot.name # NoName =>
              Grown(PresetsOf(slot.key, Append(s, slot)), PresetsOf(slot.key, s), Stored(slot))
         /\ slot.name = NoName \/ OwnIn(slot.key, s) # {} => KeysOf(Append(s, slot)) = KeysOf(s)
         /\ slot.name # NoName /\ OwnIn(slot.key, s) = {} =>
              Grown(KeysOf(Append(s, slot)), KeysOf(s), slot.key)
<1>1. PICK t : t = Append(s, slot)
  OBVIOUS
<1>2. PICK n \in Nat : n = Len(s)
  BY LenProperties
<1>3. /\ t \in Seq(Slot) /\ Len(t) = n + 1
      /\ \A m \in 1 .. n : t[m] = s[m]
      /\ t[n + 1] = slot
  BY <1>1, <1>2, AppendProperties
<1>4. DOMAIN s = 1 .. n /\ DOMAIN t = 1 .. n + 1
  BY <1>2, <1>3, LenProperties
<1>5. PICK f : f = [m \in DOMAIN s |-> Stored(s[m])]
  OBVIOUS
<1>6. PICK g : g = [m \in DOMAIN t |-> Stored(t[m])]
  OBVIOUS
<1>7. PICK fk : fk = [m \in DOMAIN s |-> s[m].key]
  OBVIOUS
<1>8. PICK gk : gk = [m \in DOMAIN t |-> t[m].key]
  OBVIOUS
<1>9. /\ \A m \in 1 .. n : g[m] = f[m] /\ gk[m] = fk[m]
      /\ g[n + 1] = Stored(slot) /\ gk[n + 1] = slot.key
  BY <1>3, <1>4, <1>5, <1>6, <1>7, <1>8
<1>10. /\ \A key : PresetsOf(key, s) = Picked(OwnIn(key, s), f)
       /\ \A key : PresetsOf(key, t) = Picked(OwnIn(key, t), g)
       /\ KeysOf(s) = Picked(FirstsIn(s), fk)
       /\ KeysOf(t) = Picked(FirstsIn(t), gk)
  BY <1>3, <1>5, <1>6, <1>7, <1>8, ListsArePicked, Zenon
<1>11. /\ NamedIn(s) \subseteq 1 .. n /\ FirstsIn(s) \subseteq 1 .. n
       /\ \A key : OwnIn(key, s) \subseteq 1 .. n
  BY <1>2, PositionsIn
<1>12. Cardinality(NamedIn(s)) \in Nat
  BY <1>11, PositionsCounted
<1>13. CASE slot.name = NoName
  <2>1. NamedIn(t) = NamedIn(s) /\ FirstsIn(t) = FirstsIn(s)
    BY <1>1, <1>13, PositionsOfMore
  <2>2. ASSUME NEW key PROVE PresetsOf(key, t) = PresetsOf(key, s)
    <3>1. OwnIn(key, t) = OwnIn(key, s)
      BY <1>1, <1>13, PositionsOfMore
    <3>2. \A m \in OwnIn(key, s) : g[m] = f[m]
      BY <1>9, <1>11
    <3>3. Picked(OwnIn(key, s), g) = Picked(OwnIn(key, s), f)
      BY <1>11, <3>2, PickedSame, Zenon
    <3> QED
      BY <1>10, <3>1, <3>3
  <2>3. KeysOf(t) = KeysOf(s)
    <3>1. \A m \in FirstsIn(s) : gk[m] = fk[m]
      BY <1>9, <1>11
    <3>2. Picked(FirstsIn(s), gk) = Picked(FirstsIn(s), fk)
      BY <1>11, <3>1, PickedSame, Zenon
    <3> QED
      BY <1>10, <2>1, <3>2
  <2> QED
    BY <1>1, <1>12, <1>13, <2>1, <2>2, <2>3
<1>14. CASE slot.name # NoName
  <2>1. /\ NamedIn(t) = NamedIn(s) \cup {n + 1}
        /\ OwnIn(slot.key, t) = OwnIn(slot.key, s) \cup {n + 1}
        /\ \A key : key # slot.key => OwnIn(key, t) = OwnIn(key, s)
        /\ OwnIn(slot.key, s) # {} => FirstsIn(t) = FirstsIn(s)
        /\ OwnIn(slot.key, s) = {} => FirstsIn(t) = FirstsIn(s) \cup {n + 1}
    BY <1>1, <1>2, <1>14, PositionsOfMore
  <2>2. Cardinality(NamedIn(t)) = Cardinality(NamedIn(s)) + 1
    <3>1. n + 1 \in Nat /\ \A m \in NamedIn(s) : m < n + 1
      BY <1>11
    <3> QED
      BY <1>11, <2>1, <3>1, PositionsCounted, NthMore
  <2>3. ASSUME NEW key, key # slot.key PROVE PresetsOf(key, t) = PresetsOf(key, s)
    <3>1. OwnIn(key, t) = OwnIn(key, s)
      BY <2>1, <2>3
    <3>2. \A m \in OwnIn(key, s) : g[m] = f[m]
      BY <1>9, <1>11
    <3>3. Picked(OwnIn(key, s), g) = Picked(OwnIn(key, s), f)
      BY <1>11, <3>2, PickedSame, Zenon
    <3> QED
      BY <1>10, <3>1, <3>3
  <2>4. Grown(PresetsOf(slot.key, t), PresetsOf(slot.key, s), Stored(slot))
    <3>1. \A m \in OwnIn(slot.key, s) : g[m] = f[m]
      BY <1>9, <1>11
    <3>2. OwnIn(slot.key, t) = OwnIn(slot.key, s) \cup {n + 1}
      BY <2>1
    <3>3. Grown(Picked(OwnIn(slot.key, s) \cup {n + 1}, g), Picked(OwnIn(slot.key, s), f), g[n + 1])
      BY <1>2, <1>11, <3>1, PickedMore, Zenon
    <3> QED
      BY <1>9, <1>10, <3>2, <3>3, Zenon
  <2>5. ASSUME OwnIn(slot.key, s) # {} PROVE KeysOf(t) = KeysOf(s)
    <3>1. \A m \in FirstsIn(s) : gk[m] = fk[m]
      BY <1>9, <1>11
    <3>2. Picked(FirstsIn(s), gk) = Picked(FirstsIn(s), fk)
      BY <1>11, <3>1, PickedSame, Zenon
    <3> QED
      BY <1>10, <2>1, <2>5, <3>2
  <2>6. ASSUME OwnIn(slot.key, s) = {} PROVE Grown(KeysOf(t), KeysOf(s), slot.key)
    <3>1. \A m \in FirstsIn(s) : gk[m] = fk[m]
      BY <1>9, <1>11
    <3>2. FirstsIn(t) = FirstsIn(s) \cup {n + 1}
      BY <2>1, <2>6
    <3>3. Grown(Picked(FirstsIn(s) \cup {n + 1}, gk), Picked(FirstsIn(s), fk), gk[n + 1])
      BY <1>2, <1>11, <3>1, PickedMore, Zenon
    <3> QED
      BY <1>9, <1>10, <3>2, <3>3, Zenon
  <2> QED
    BY <1>1, <1>12, <1>14, <2>2, <2>3, <2>4, <2>5, <2>6
<1> QED
  BY <1>13, <1>14

(* Of nothing given there is nothing to list.                              *)
LEMMA ListsOfNone ==
  /\ NamedIn(<< >>) = {} /\ \A key : OwnIn(key, << >>) = {}
  /\ Cardinality(NamedIn(<< >>)) = 0
  /\ KeysOf(<< >>) = << >> /\ Listing(<< >>) = << >>
<1>1. NamedIn(<< >>) = {}
  BY DEF NamedIn
<1>2. FirstsIn(<< >>) = {} /\ \A key : OwnIn(key, << >>) = {}
  BY <1>1 DEF FirstsIn, OwnIn
<1>3. Cardinality({}) = 0
  BY FS_EmptySet, Zenon
<1>4. << >> \in Seq(Slot)
  BY EmptySeq
<1>5. KeysOf(<< >>) = << >>
  <2>1. KeysOf(<< >>) \in Seq(Keys) /\ Len(KeysOf(<< >>)) = 0
    BY <1>2, <1>3, <1>4, ListTypes
  <2> QED
    BY <2>1, EmptySeq
<1>6. Listing(<< >>) = << >>
  BY <1>5 DEF Listing
<1> QED
  BY <1>1, <1>2, <1>3, <1>5, <1>6

---------------------------------------------------------------------------
(* What the catalog keeps                                                  *)

(* What addPreset() does with a named preset: its folder is refused, the   *)
(* preset is dropped, kept in its folder, or kept in a new one.            *)
Refused(preset) ==
  /\ preset.name # NoName
  /\ \A i \in 1 .. Len(folders) : folders[i].id # preset.key
  /\ Len(folders) >= kMaxFolders
  /\ folderOverflowCount' = folderOverflowCount + 1
  /\ UNCHANGED <<folders, presetCount, presetOverflowCount>>

Dropped(preset, i) ==
  /\ preset.name # NoName
  /\ folders[i].id = preset.key
  /\ Len(folders[i].presets) >= kMaxPresetsPerFolder
  /\ presetOverflowCount' = presetOverflowCount + 1
  /\ UNCHANGED <<folders, presetCount, folderOverflowCount>>

KeptIn(preset, i) ==
  /\ preset.name # NoName
  /\ folders[i].id = preset.key
  /\ Len(folders[i].presets) < kMaxPresetsPerFolder
  /\ Len(folders') = Len(folders)
  /\ \A j \in 1 .. Len(folders) : j # i => folders'[j] = folders[j]
  /\ folders'[i].id = folders[i].id /\ folders'[i].name = folders[i].name
  /\ folders'[i].presets = Append(folders[i].presets, Stored(preset))
  /\ presetCount' = presetCount + 1
  /\ UNCHANGED <<presetOverflowCount, folderOverflowCount>>

KeptInNew(preset) ==
  /\ preset.name # NoName
  /\ \A i \in 1 .. Len(folders) : folders[i].id # preset.key
  /\ Len(folders) < kMaxFolders
  /\ Len(folders') = Len(folders) + 1
  /\ \A j \in 1 .. Len(folders) : folders'[j] = folders[j]
  /\ folders'[Len(folders) + 1].id = preset.key
  /\ folders'[Len(folders) + 1].name = LabelFor(preset.key)
  /\ folders'[Len(folders) + 1].presets = << Stored(preset) >>
  /\ presetCount' = presetCount + 1
  /\ UNCHANGED <<presetOverflowCount, folderOverflowCount>>

(* It does one of these, or nothing for an empty slot.                     *)
LEMMA Outcomes ==
  ASSUME CatalogTypeOK, NEW preset \in Slot, AddPreset(preset)
  PROVE  \/ /\ preset.name = NoName
            /\ UNCHANGED <<folders, presetCount, folderOverflowCount, presetOverflowCount>>
         \/ Refused(preset)
         \/ \E i \in 1 .. Len(folders) : Dropped(preset, i)
         \/ \E i \in 1 .. Len(folders) : KeptIn(preset, i)
         \/ KeptInNew(preset)
<1>0. /\ folders \in Seq(Folder) /\ Len(folders) \in Nat /\ DOMAIN folders = 1 .. Len(folders)
      /\ kMaxFolders \in Nat /\ kMaxPresetsPerFolder \in Nat /\ kMaxPresetsPerFolder > 0
  BY LenProperties, CatalogAssumption DEF CatalogTypeOK
<1>1. CASE preset.name = NoName
  BY <1>1 DEF AddPreset
<1>2. CASE preset.name # NoName
  <2>1. AddNamed(preset)
    BY <1>2 DEF AddPreset
  <2>2. CASE FindFolder(preset.key) = {} /\ Full(folders, kMaxFolders)
    BY <1>0, <1>2, <2>1, <2>2 DEF AddNamed, FindFolder, Full, Refused
  <2>3. CASE FindFolder(preset.key) = {} /\ ~Full(folders, kMaxFolders)
    <3>1. PICK new : new = NewFolder(preset.key)
      OBVIOUS
    <3>2. new \in Folder /\ new.presets = << >> /\ new.id = preset.key /\ new.name = LabelFor(preset.key)
      BY <3>1, EmptySeq DEF NewFolder, Folder, Slot
    <3>3. PICK candidates : candidates = Append(folders, new)
      OBVIOUS
    <3>4. PICK last \in Nat : last = Len(folders) + 1
      BY <1>0
    <3>5. /\ candidates \in Seq(Folder) /\ Len(candidates) = last
          /\ \A k \in 1 .. Len(folders) : candidates[k] = folders[k]
          /\ candidates[last] = new
      BY <1>0, <3>2, <3>3, <3>4, AppendProperties
    <3>6. Keep(preset, candidates, last) /\ folderOverflowCount' = folderOverflowCount
      BY <2>1, <2>3, <3>1, <3>3, <3>4 DEF AddNamed
    <3>7. ~Full(candidates[last].presets, kMaxPresetsPerFolder)
      BY <1>0, <3>2, <3>5, EmptySeq DEF Full
    <3>8. PICK e : e = Stored(preset)
      OBVIOUS
    <3>9. e \in Entry /\ << e >> = Append(<< >>, e)
      BY <1>2, <3>8 DEF Stored, Slot, Entry
    <3>10. << e >> \in Seq(Entry)
      BY <3>9
    <3>11. PICK c : c = [new EXCEPT !.presets = << e >>]
      OBVIOUS
    <3>12. c \in Folder /\ c.presets = << e >> /\ c.id = preset.key /\ c.name = LabelFor(preset.key)
      BY <3>2, <3>10, <3>11 DEF Folder
    <3>13. folders' = [candidates EXCEPT ![last] = c] /\ presetCount' = presetCount + 1
           /\ presetOverflowCount' = presetOverflowCount
      <4>1. folders' = [candidates EXCEPT ![last].presets = Append(@, Stored(preset))]
            /\ presetCount' = presetCount + 1 /\ presetOverflowCount' = presetOverflowCount
        BY <3>6, <3>7 DEF Keep
      <4> QED
        BY <3>2, <3>5, <3>8, <3>9, <3>11, <4>1
    <3>14. last \in 1 .. Len(candidates) /\ \A k \in 1 .. Len(folders) : k \in 1 .. last /\ k # last
      BY <1>0, <3>4, <3>5
    <3>15. /\ Len(folders') = last
           /\ \A k \in 1 .. last : folders'[k] = IF k = last THEN c ELSE candidates[k]
      BY <3>5, <3>12, <3>13, <3>14, ExceptSeq
    <3>16. /\ \A k \in 1 .. Len(folders) : folders'[k] = folders[k]
           /\ folders'[last] = c
      BY <3>5, <3>14, <3>15
    <3>17. Len(folders) < kMaxFolders /\ \A i \in 1 .. Len(folders) : folders[i].id # preset.key
      BY <1>0, <2>3 DEF Full, FindFolder
    <3>18. KeptInNew(preset)
      BY <1>2, <3>4, <3>6, <3>8, <3>12, <3>13, <3>15, <3>16, <3>17 DEF KeptInNew
    <3> QED
      BY <3>18
  <2>4. CASE FindFolder(preset.key) # {}
    <3>1. PICK i \in FindFolder(preset.key) : Keep(preset, folders, i)
      BY <2>1, <2>4 DEF AddNamed
    <3>2. i \in 1 .. Len(folders) /\ folders[i].id = preset.key
      BY <1>0, <3>1 DEF FindFolder
    <3>3. folderOverflowCount' = folderOverflowCount
      BY <2>1, <2>4 DEF AddNamed
    <3>4. folders[i] \in Folder
      BY <1>0, <3>2, ElementOfSeq
    <3>5. folders[i].presets \in Seq(Entry) /\ Len(folders[i].presets) \in Nat
      BY <3>4, LenProperties DEF Folder
    <3>6. CASE Full(folders[i].presets, kMaxPresetsPerFolder)
      <4>1. Dropped(preset, i)
        BY <1>2, <3>1, <3>2, <3>3, <3>6 DEF Keep, Full, Dropped
      <4> QED
        BY <3>2, <4>1
    <3>7. CASE ~Full(folders[i].presets, kMaxPresetsPerFolder)
      <4>1. PICK e : e = Stored(preset)
        OBVIOUS
      <4>2. e \in Entry
        BY <1>2, <4>1 DEF Stored, Slot, Entry
      <4>3. PICK ps : ps = Append(folders[i].presets, e)
        OBVIOUS
      <4>4. ps \in Seq(Entry)
        BY <3>5, <4>2, <4>3, AppendProperties
      <4>5. PICK c : c = [folders[i] EXCEPT !.presets = ps]
        OBVIOUS
      <4>6. c \in Folder /\ c.presets = ps /\ c.id = folders[i].id /\ c.name = folders[i].name
        BY <3>4, <4>4, <4>5 DEF Folder
      <4>7. folders' = [folders EXCEPT ![i] = c] /\ presetCount' = presetCount + 1
            /\ presetOverflowCount' = presetOverflowCount
        <5>1. folders' = [folders EXCEPT ![i].presets = Append(@, Stored(preset))]
              /\ presetCount' = presetCount + 1 /\ presetOverflowCount' = presetOverflowCount
          BY <3>1, <3>7 DEF Keep
        <5> QED
          BY <4>1, <4>3, <4>5, <5>1
      <4>8. /\ Len(folders') = Len(folders)
            /\ \A k \in 1 .. Len(folders) : folders'[k] = IF k = i THEN c ELSE folders[k]
        BY <1>0, <3>2, <4>6, <4>7, ExceptSeq
      <4>9. Len(folders[i].presets) < kMaxPresetsPerFolder
        BY <1>0, <3>5, <3>7 DEF Full
      <4>10. KeptIn(preset, i)
        BY <1>2, <3>2, <3>3, <4>1, <4>3, <4>6, <4>7, <4>8, <4>9 DEF KeptIn
      <4> QED
        BY <3>2, <4>10
    <3> QED
      BY <3>6, <3>7
  <2> QED
    BY <2>2, <2>3, <2>4
<1> QED
  BY <1>1, <1>2

(* A list is a beginning of another.                                       *)
Begins(s, t) == Len(s) <= Len(t) /\ \A k \in 1 .. Len(s) : s[k] = t[k]

(* A folder has the first of the presets given for it; not all of them.    *)
Holds(folder, s) == folder.presets # << >> /\ Begins(folder.presets, PresetsOf(folder.id, s))
Short(folder, s) == Len(folder.presets) < Len(PresetsOf(folder.id, s))

(* The keys listed are those with a named preset, each once.               *)
KeysListed ==
  /\ \A k \in Keys : OwnIn(k, given) # {} <=> \E i \in 1 .. Len(KeysOf(given)) : KeysOf(given)[i] = k
  /\ \A i, j \in 1 .. Len(KeysOf(given)) : KeysOf(given)[i] = KeysOf(given)[j] => i = j

(* The folders are those of the first keys, and of all of them unless      *)
(* folders were refused.                                                   *)
FoldersFirst ==
  /\ Len(folders) <= Len(KeysOf(given))
  /\ Len(folders) < Len(KeysOf(given)) <=> folderOverflowCount > 0
  /\ folderOverflowCount > 0 => Len(folders) >= kMaxFolders
  /\ \A i \in 1 .. Len(folders) :
       folders[i].id = KeysOf(given)[i] /\ folders[i].name = LabelFor(folders[i].id)

(* A folder has all its presets unless it is full and one was dropped.     *)
PresetsFirst ==
  /\ \A i \in 1 .. Len(folders) :
       /\ Holds(folders[i], given)
       /\ Short(folders[i], given) =>
            Len(folders[i].presets) >= kMaxPresetsPerFolder /\ presetOverflowCount > 0
  /\ presetOverflowCount > 0 => \E i \in 1 .. Len(folders) : Short(folders[i], given)

(* Each named preset is kept, or counted by one of the two counts.         *)
Counted ==
  /\ IsFiniteSet(Kept) /\ presetCount = Cardinality(Kept)
  /\ presetCount + folderOverflowCount + presetOverflowCount = Cardinality(NamedIn(given))

CatalogInv == KeysListed /\ FoldersFirst /\ PresetsFirst /\ Counted

(* The types that the steps below need.                                    *)
LEMMA CatalogHas ==
  ASSUME CatalogTypeOK
  PROVE  /\ folders \in Seq(Folder) /\ Len(folders) \in Nat /\ DOMAIN folders = 1 .. Len(folders)
         /\ \A i \in 1 .. Len(folders) : folders[i] \in Folder
         /\ presetCount \in Nat /\ folderOverflowCount \in Nat /\ presetOverflowCount \in Nat
         /\ given \in Seq(Slot)
         /\ KeysOf(given) \in Seq(Keys) /\ Len(KeysOf(given)) \in Nat
         /\ kMaxFolders \in Nat /\ kMaxPresetsPerFolder \in Nat
<1>1. folders \in Seq(Folder) /\ given \in Seq(Slot)
  BY DEF CatalogTypeOK
<1>2. KeysOf(given) \in Seq(Keys)
  BY <1>1, ListTypes
<1> QED
  BY <1>1, <1>2, LenProperties, ElementOfSeq, CatalogAssumption DEF CatalogTypeOK

(* A folder's presets are a list, and those given for it.                  *)
LEMMA FolderLists ==
  ASSUME NEW folder \in Folder, NEW s \in Seq(Slot)
  PROVE  /\ folder.presets \in Seq(Entry) /\ Len(folder.presets) \in Nat
         /\ PresetsOf(folder.id, s) \in Seq(Entry) /\ Len(PresetsOf(folder.id, s)) \in Nat
<1>1. folder.presets \in Seq(Entry) /\ PresetsOf(folder.id, s) \in Seq(Entry)
  BY ListTypes DEF Folder
<1> QED
  BY <1>1, LenProperties

(* The list of keys grows with the first preset of a folder.               *)
LEMMA KeysMore ==
  ASSUME CatalogTypeOK, KeysListed, NEW preset \in Slot, given' = Append(given, preset)
  PROVE  /\ KeysListed'
         /\ KeysOf(given') \in Seq(Keys) /\ Len(KeysOf(given')) \in Nat
         /\ Len(KeysOf(given)) <= Len(KeysOf(given'))
         /\ \A i \in 1 .. Len(KeysOf(given)) : KeysOf(given')[i] = KeysOf(given)[i]
         /\ preset.name = NoName => KeysOf(given') = KeysOf(given)
         /\ (\E i \in 1 .. Len(KeysOf(given)) : KeysOf(given)[i] = preset.key) =>
              KeysOf(given') = KeysOf(given)
         /\ preset.name # NoName /\ (\A i \in 1 .. Len(KeysOf(given)) : KeysOf(given)[i] # preset.key) =>
              /\ Len(KeysOf(given')) = Len(KeysOf(given)) + 1
              /\ KeysOf(given')[Len(KeysOf(given)) + 1] = preset.key
              /\ OwnIn(preset.key, given) = {}
<1>1. PICK keys : keys = KeysOf(given)
  OBVIOUS
<1>2. PICK more : more = KeysOf(given')
  OBVIOUS
<1>3. PICK n \in Nat : n = Len(keys)
  BY <1>1, CatalogHas
<1>4. given \in Seq(Slot) /\ keys \in Seq(Keys) /\ preset.key \in Keys
  BY <1>1, CatalogHas DEF Slot
<1>5. /\ \A k \in Keys : OwnIn(k, given) # {} <=> \E i \in 1 .. n : keys[i] = k
      /\ \A i, j \in 1 .. n : keys[i] = keys[j] => i = j
  BY <1>1, <1>3 DEF KeysListed
<1>6. CASE preset.name = NoName \/ OwnIn(preset.key, given) # {}
  <2>1. more = keys
    BY <1>1, <1>2, <1>4, <1>6, ListsOfMore
  <2>2. ASSUME NEW k \in Keys
        PROVE  OwnIn(k, given') # {} <=> OwnIn(k, given) # {}
    <3>1. CASE preset.name = NoName \/ k # preset.key
      BY <1>4, <3>1, PositionsOfMore
    <3>2. CASE preset.name # NoName /\ k = preset.key
      <4>1. OwnIn(k, given') = OwnIn(k, given) \cup {Len(given) + 1}
        BY <1>4, <3>2, PositionsOfMore
      <4> QED
        BY <1>6, <3>2, <4>1
    <3> QED
      BY <3>1, <3>2
  <2>3. KeysListed'
    BY <1>2, <1>3, <1>5, <2>1, <2>2 DEF KeysListed
  <2> QED
    BY <1>1, <1>2, <1>3, <1>4, <1>5, <1>6, <2>1, <2>3
<1>7. CASE preset.name # NoName /\ OwnIn(preset.key, given) = {}
  <2>1. Grown(more, keys, preset.key)
    BY <1>1, <1>2, <1>4, <1>7, ListsOfMore
  <2>2. /\ more \in Seq(Keys) /\ Len(more) = n + 1
        /\ \A j \in 1 .. n : more[j] = keys[j]
        /\ more[n + 1] = preset.key
    BY <1>3, <1>4, <2>1, GrownIs
  <2>3. \A i \in 1 .. n : keys[i] # preset.key
    BY <1>4, <1>5, <1>7
  <2>4. \A i \in 1 .. n + 1 : i \in 1 .. n \/ i = n + 1
    OBVIOUS
  <2>5. ASSUME NEW k \in Keys
        PROVE  OwnIn(k, given') # {} <=> OwnIn(k, given) # {} \/ k = preset.key
    <3>1. CASE k # preset.key
      BY <1>4, <1>7, <3>1, PositionsOfMore
    <3>2. CASE k = preset.key
      <4>1. OwnIn(k, given') = OwnIn(k, given) \cup {Len(given) + 1}
        BY <1>4, <1>7, <3>2, PositionsOfMore
      <4> QED
        BY <3>2, <4>1
    <3> QED
      BY <3>1, <3>2
  <2>6. ASSUME NEW k \in Keys
        PROVE  OwnIn(k, given') # {} <=> \E i \in 1 .. n + 1 : more[i] = k
    <3>1. OwnIn(k, given') # {} <=> (\E i \in 1 .. n : keys[i] = k) \/ k = preset.key
      BY <1>5, <2>5
    <3>2. n + 1 \in 1 .. n + 1 /\ \A i \in 1 .. n : i \in 1 .. n + 1
      OBVIOUS
    <3> QED
      BY <2>2, <2>4, <3>1, <3>2
  <2>7. \A i, j \in 1 .. n + 1 : more[i] = more[j] => i = j
    BY <1>5, <2>2, <2>3, <2>4
  <2>8. KeysListed'
    BY <1>2, <2>2, <2>6, <2>7 DEF KeysListed
  <2>9. n <= n + 1
    OBVIOUS
  <2> QED
    BY <1>1, <1>2, <1>3, <1>7, <2>2, <2>3, <2>8, <2>9
<1> QED
  BY <1>6, <1>7

(* The folders go on being those of the first keys.                        *)
LEMMA FoldersKeep ==
  ASSUME CatalogTypeOK, CatalogTypeOK', KeysListed, FoldersFirst, NEW preset \in Slot, AddPreset(preset)
  PROVE  FoldersFirst'
<1>0. PICK n, ks : n = Len(folders) /\ ks = KeysOf(given)
  OBVIOUS
<1>1. PICK ks2 : ks2 = KeysOf(given')
  OBVIOUS
<1>2. given' = Append(given, preset)
  BY DEF AddPreset
<1>3. /\ n \in Nat /\ Len(ks) \in Nat /\ kMaxFolders \in Nat
      /\ folderOverflowCount \in Nat /\ folderOverflowCount' \in Nat
  BY <1>0, CatalogHas DEF CatalogTypeOK
<1>4. /\ n <= Len(ks)
      /\ n < Len(ks) <=> folderOverflowCount > 0
      /\ folderOverflowCount > 0 => n >= kMaxFolders
      /\ \A i \in 1 .. n : folders[i].id = ks[i] /\ folders[i].name = LabelFor(folders[i].id)
  BY <1>0 DEF FoldersFirst
<1>5. /\ Len(ks2) \in Nat /\ Len(ks) <= Len(ks2)
      /\ \A i \in 1 .. Len(ks) : ks2[i] = ks[i]
      /\ preset.name = NoName => ks2 = ks
      /\ (\E i \in 1 .. Len(ks) : ks[i] = preset.key) => ks2 = ks
      /\ preset.name # NoName /\ (\A i \in 1 .. Len(ks) : ks[i] # preset.key) =>
           Len(ks2) = Len(ks) + 1 /\ ks2[Len(ks) + 1] = preset.key
  BY <1>0, <1>1, <1>2, KeysMore, Zenon
<1>6. \A i \in 1 .. n : i \in 1 .. Len(ks) /\ ks2[i] = ks[i]
  BY <1>3, <1>4, <1>5
<1>7. CASE preset.name = NoName /\ UNCHANGED <<folders, folderOverflowCount>>
  BY <1>0, <1>1, <1>4, <1>5, <1>7 DEF FoldersFirst
<1>8. CASE Refused(preset)
  <2>1. /\ \A i \in 1 .. n : folders[i].id # preset.key
        /\ n >= kMaxFolders /\ folderOverflowCount' = folderOverflowCount + 1 /\ folders' = folders
        /\ preset.name # NoName
    BY <1>0, <1>8 DEF Refused
  <2>2. n < Len(ks2)
    <3>1. CASE n < Len(ks)
      BY <1>3, <1>5, <3>1
    <3>2. CASE ~(n < Len(ks))
      <4>1. Len(ks) = n
        BY <1>3, <1>4, <3>2
      <4>2. \A i \in 1 .. Len(ks) : ks[i] # preset.key
        BY <1>4, <2>1, <4>1
      <4>3. Len(ks2) = Len(ks) + 1
        BY <1>5, <2>1, <4>2
      <4> QED
        BY <1>3, <4>1, <4>3
    <3> QED
      BY <3>1, <3>2
  <2>3. folderOverflowCount' > 0
    BY <1>3, <2>1
  <2>4. n <= Len(ks2)
    BY <1>3, <1>5, <2>2
  <2> QED
    BY <1>0, <1>1, <1>4, <1>6, <2>1, <2>2, <2>3, <2>4 DEF FoldersFirst
<1>9. ASSUME NEW i \in 1 .. n, folders[i].id = preset.key, Len(folders') = n,
             folderOverflowCount' = folderOverflowCount,
             \A j \in 1 .. n : folders'[j].id = folders[j].id /\ folders'[j].name = folders[j].name
      PROVE  FoldersFirst'
  <2>1. ks2 = ks
    BY <1>4, <1>5, <1>6, <1>9
  <2> QED
    BY <1>1, <1>4, <1>9, <2>1 DEF FoldersFirst
<1>10. CASE \E i \in 1 .. Len(folders) : Dropped(preset, i)
  BY <1>0, <1>9, <1>10 DEF Dropped
<1>11. CASE \E i \in 1 .. Len(folders) : KeptIn(preset, i)
  <2>1. PICK i \in 1 .. n : KeptIn(preset, i)
    BY <1>0, <1>11
  <2>2. \A j \in 1 .. n : folders'[j].id = folders[j].id /\ folders'[j].name = folders[j].name
    BY <1>0, <2>1 DEF KeptIn
  <2>3. folders[i].id = preset.key /\ Len(folders') = n /\ folderOverflowCount' = folderOverflowCount
    BY <1>0, <2>1 DEF KeptIn
  <2> QED
    BY <1>9, <2>2, <2>3
<1>12. CASE KeptInNew(preset)
  <2>1. /\ \A i \in 1 .. n : folders[i].id # preset.key /\ folders'[i] = folders[i]
        /\ n < kMaxFolders /\ folderOverflowCount' = folderOverflowCount
        /\ preset.name # NoName /\ Len(folders') = n + 1
        /\ folders'[n + 1].id = preset.key /\ folders'[n + 1].name = LabelFor(preset.key)
    BY <1>0, <1>12 DEF KeptInNew
  <2>2. ~(folderOverflowCount > 0) /\ Len(ks) = n
    BY <1>3, <1>4, <2>1
  <2>3. \A i \in 1 .. Len(ks) : ks[i] # preset.key
    BY <1>4, <2>1, <2>2
  <2>4. Len(ks2) = n + 1 /\ ks2[n + 1] = preset.key
    BY <1>5, <2>1, <2>2, <2>3
  <2>5. \A i \in 1 .. n + 1 : i \in 1 .. n \/ i = n + 1
    BY <1>3
  <2>6. \A i \in 1 .. n + 1 : folders'[i].id = ks2[i] /\ folders'[i].name = LabelFor(folders'[i].id)
    BY <1>4, <1>6, <2>1, <2>4, <2>5
  <2>7. n + 1 <= n + 1 /\ ~(n + 1 < n + 1)
    BY <1>3
  <2> QED
    BY <1>1, <2>1, <2>2, <2>4, <2>6, <2>7 DEF FoldersFirst
<1> QED
  BY <1>7, <1>8, <1>10, <1>11, <1>12, Outcomes

(* A folder to which nothing was given has what it had.                    *)
LEMMA OtherFolder ==
  ASSUME NEW s \in Seq(Slot), NEW preset \in Slot, NEW folder,
         preset.name = NoName \/ folder.id # preset.key
  PROVE  /\ Holds(folder, s) => Holds(folder, Append(s, preset))
         /\ Short(folder, Append(s, preset)) <=> Short(folder, s)
<1>1. PresetsOf(folder.id, Append(s, preset)) = PresetsOf(folder.id, s)
  BY ListsOfMore
<1> QED
  BY <1>1 DEF Holds, Short

(* A folder that does not take a preset it is given is short of it.        *)
LEMMA FullFolder ==
  ASSUME NEW s \in Seq(Slot), NEW preset \in Slot, preset.name # NoName,
         NEW folder \in Folder, folder.id = preset.key, Holds(folder, s)
  PROVE  Holds(folder, Append(s, preset)) /\ Short(folder, Append(s, preset))
<1>1. PICK p, q, more : p = folder.presets /\ q = PresetsOf(folder.id, s)
                        /\ more = PresetsOf(folder.id, Append(s, preset))
  OBVIOUS
<1>2. Stored(preset) \in Entry
  BY DEF Stored, Entry, Slot
<1>3. q \in Seq(Entry) /\ Grown(more, q, Stored(preset)) /\ Len(p) \in Nat
  BY <1>1, FolderLists, ListsOfMore
<1>4. /\ Len(q) \in Nat /\ Len(more) = Len(q) + 1
      /\ \A j \in 1 .. Len(q) : more[j] = q[j]
  BY <1>2, <1>3, GrownIs
<1>5. p # << >> /\ Len(p) <= Len(q) /\ \A j \in 1 .. Len(p) : p[j] = q[j]
  BY <1>1 DEF Holds, Begins
<1>6. Len(p) <= Len(more) /\ Len(p) < Len(more) /\ \A j \in 1 .. Len(p) : j \in 1 .. Len(q)
  BY <1>3, <1>4, <1>5
<1> QED
  BY <1>1, <1>4, <1>5, <1>6 DEF Holds, Begins, Short

(* A folder that has all its presets, and takes one more, has all again.   *)
LEMMA WholeFolder ==
  ASSUME NEW s \in Seq(Slot), NEW preset \in Slot, preset.name # NoName,
         NEW p \in Seq(Entry), Begins(p, PresetsOf(preset.key, s)),
         Len(p) = Len(PresetsOf(preset.key, s)),
         NEW folder, folder.id = preset.key, folder.presets = Append(p, Stored(preset))
  PROVE  Holds(folder, Append(s, preset)) /\ ~Short(folder, Append(s, preset))
<1>1. PICK q, more, r : q = PresetsOf(preset.key, s) /\ r = folder.presets
                        /\ more = PresetsOf(preset.key, Append(s, preset))
  OBVIOUS
<1>2. PICK e \in Entry : e = Stored(preset)
  BY DEF Stored, Entry, Slot
<1>3. q \in Seq(Entry) /\ Grown(more, q, e) /\ Grown(r, p, e)
  BY <1>1, <1>2, ListTypes, ListsOfMore DEF Grown
<1>4. PICK n \in Nat : n = Len(p)
  BY LenProperties
<1>5. /\ Len(more) = n + 1 /\ more[n + 1] = e
      /\ \A j \in 1 .. n : more[j] = q[j]
  BY <1>1, <1>2, <1>3, <1>4, GrownIs
<1>6. /\ Len(r) = n + 1 /\ r[n + 1] = e /\ r \in Seq(Entry)
      /\ \A j \in 1 .. n : r[j] = p[j]
  BY <1>2, <1>3, <1>4, GrownIs
<1>7. \A j \in 1 .. n : p[j] = q[j]
  BY <1>1, <1>4 DEF Begins
<1>8. \A j \in 1 .. n + 1 : j \in 1 .. n \/ j = n + 1
  OBVIOUS
<1>9. \A j \in 1 .. n + 1 : r[j] = more[j]
  BY <1>5, <1>6, <1>7, <1>8
<1>10. n + 1 <= n + 1 /\ ~(n + 1 < n + 1) /\ n + 1 # 0
  OBVIOUS
<1>11. r # << >>
  BY <1>6, <1>10, EmptySeq
<1> QED
  BY <1>1, <1>5, <1>6, <1>9, <1>10, <1>11 DEF Holds, Begins, Short

(* The folders go on having the first of their presets.                    *)
LEMMA PresetsKeep ==
  ASSUME CatalogTypeOK, CatalogTypeOK', KeysListed, FoldersFirst, PresetsFirst,
         NEW preset \in Slot, AddPreset(preset)
  PROVE  PresetsFirst'
<1>0. PICK n \in Nat : n = Len(folders)
  BY CatalogHas
<1>1. given \in Seq(Slot) /\ given' = Append(given, preset)
  BY CatalogHas DEF AddPreset
<1>2. /\ presetOverflowCount \in Nat /\ kMaxPresetsPerFolder \in Nat
      /\ \A i \in 1 .. n : /\ folders[i] \in Folder
                           /\ Len(folders[i].presets) \in Nat
                           /\ Len(PresetsOf(folders[i].id, given)) \in Nat
  BY <1>0, <1>1, CatalogHas, FolderLists
<1>3. /\ \A i \in 1 .. n :
           /\ Holds(folders[i], given)
           /\ Short(folders[i], given) =>
                Len(folders[i].presets) >= kMaxPresetsPerFolder /\ presetOverflowCount > 0
      /\ presetOverflowCount > 0 => \E i \in 1 .. n : Short(folders[i], given)
  BY <1>0 DEF PresetsFirst
<1>4. ASSUME NEW i \in 1 .. n, NEW j \in 1 .. n, folders[i].id = folders[j].id
      PROVE  i = j
  <2>1. n <= Len(KeysOf(given)) /\ Len(KeysOf(given)) \in Nat
    BY <1>0, CatalogHas DEF FoldersFirst
  <2>2. i \in 1 .. Len(KeysOf(given)) /\ j \in 1 .. Len(KeysOf(given))
    BY <2>1
  <2>3. folders[i].id = KeysOf(given)[i] /\ folders[j].id = KeysOf(given)[j]
    BY <1>0 DEF FoldersFirst
  <2> QED
    BY <1>4, <2>2, <2>3 DEF KeysListed
<1>5. ASSUME NEW i \in 1 .. n, preset.name = NoName \/ folders[i].id # preset.key
      PROVE  Holds(folders[i], given') /\ (Short(folders[i], given') <=> Short(folders[i], given))
  BY <1>1, <1>3, <1>5, OtherFolder
<1>6. CASE /\ preset.name = NoName \/ \A i \in 1 .. n : folders[i].id # preset.key
           /\ UNCHANGED <<folders, presetOverflowCount>>
  BY <1>0, <1>3, <1>5, <1>6 DEF PresetsFirst
<1>7. CASE Refused(preset)
  BY <1>0, <1>6, <1>7 DEF Refused
<1>8. CASE \E i \in 1 .. Len(folders) : Dropped(preset, i)
  <2>1. PICK i \in 1 .. n : Dropped(preset, i)
    BY <1>0, <1>8
  <2>2. /\ preset.name # NoName /\ folders[i].id = preset.key /\ folders' = folders
        /\ Len(folders[i].presets) >= kMaxPresetsPerFolder
        /\ presetOverflowCount' = presetOverflowCount + 1
    BY <2>1 DEF Dropped
  <2>3. Holds(folders[i], given') /\ Short(folders[i], given')
    BY <1>1, <1>2, <1>3, <2>2, FullFolder
  <2>4. presetOverflowCount' > 0
    BY <1>2, <2>2
  <2>5. ASSUME NEW j \in 1 .. n
        PROVE  /\ Holds(folders[j], given')
               /\ Short(folders[j], given') => Len(folders[j].presets) >= kMaxPresetsPerFolder
    <3>1. CASE j = i
      BY <2>2, <2>3, <3>1
    <3>2. CASE j # i
      BY <1>3, <1>4, <1>5, <2>2, <3>2
    <3> QED
      BY <3>1, <3>2
  <2> QED
    BY <1>0, <2>2, <2>3, <2>4, <2>5 DEF PresetsFirst
<1>9. CASE \E i \in 1 .. Len(folders) : KeptIn(preset, i)
  <2>1. PICK i \in 1 .. n : KeptIn(preset, i)
    BY <1>0, <1>9
  <2>2. /\ preset.name # NoName /\ folders[i].id = preset.key
        /\ Len(folders[i].presets) < kMaxPresetsPerFolder
        /\ Len(folders') = n /\ \A j \in 1 .. n : j # i => folders'[j] = folders[j]
        /\ folders'[i].id = preset.key
        /\ folders'[i].presets = Append(folders[i].presets, Stored(preset))
        /\ presetOverflowCount' = presetOverflowCount
    BY <1>0, <2>1 DEF KeptIn
  <2>3. ~Short(folders[i], given)
    BY <1>2, <1>3, <2>2
  <2>4. /\ Begins(folders[i].presets, PresetsOf(preset.key, given))
        /\ Len(folders[i].presets) = Len(PresetsOf(preset.key, given))
    <3>1. Begins(folders[i].presets, PresetsOf(preset.key, given))
      BY <1>3, <2>2 DEF Holds
    <3>2. /\ Len(folders[i].presets) <= Len(PresetsOf(preset.key, given))
          /\ ~(Len(folders[i].presets) < Len(PresetsOf(preset.key, given)))
      BY <2>2, <2>3, <3>1 DEF Begins, Short
    <3>3. Len(folders[i].presets) \in Nat /\ Len(PresetsOf(preset.key, given)) \in Nat
      BY <1>2, <2>2
    <3> QED
      BY <3>1, <3>2, <3>3
  <2>5. folders[i].presets \in Seq(Entry)
    BY <1>1, <1>2, FolderLists
  <2>6. Holds(folders'[i], given') /\ ~Short(folders'[i], given')
    BY <1>1, <2>2, <2>4, <2>5, WholeFolder
  <2>7. ASSUME NEW j \in 1 .. n, j # i
        PROVE  /\ folders'[j] = folders[j] /\ Holds(folders[j], given')
               /\ Short(folders[j], given') <=> Short(folders[j], given)
    BY <1>4, <1>5, <2>2, <2>7
  <2>8. presetOverflowCount' > 0 => \E j \in 1 .. n : j # i /\ Short(folders[j], given)
    BY <1>3, <2>2, <2>3
  <2>9. presetOverflowCount' > 0 => \E j \in 1 .. n : Short(folders'[j], given')
    BY <2>7, <2>8
  <2>10. ASSUME NEW j \in 1 .. n
         PROVE  /\ Holds(folders'[j], given')
                /\ Short(folders'[j], given') =>
                     Len(folders'[j].presets) >= kMaxPresetsPerFolder /\ presetOverflowCount' > 0
    <3>1. CASE j = i
      BY <2>6, <3>1
    <3>2. CASE j # i
      BY <1>3, <2>2, <2>7, <3>2
    <3> QED
      BY <3>1, <3>2
  <2> QED
    BY <2>2, <2>9, <2>10 DEF PresetsFirst
<1>10. CASE KeptInNew(preset)
  <2>1. /\ \A i \in 1 .. n : folders[i].id # preset.key /\ folders'[i] = folders[i]
        /\ preset.name # NoName /\ Len(folders) < kMaxFolders /\ Len(folders') = n + 1
        /\ folders'[n + 1].id = preset.key /\ folders'[n + 1].presets = << Stored(preset) >>
        /\ presetOverflowCount' = presetOverflowCount
    BY <1>0, <1>10 DEF KeptInNew
  <2>2. OwnIn(preset.key, given) = {}
    <3>1. /\ Len(folders) <= Len(KeysOf(given))
          /\ Len(folders) < Len(KeysOf(given)) <=> folderOverflowCount > 0
          /\ folderOverflowCount > 0 => Len(folders) >= kMaxFolders
          /\ \A i \in 1 .. Len(folders) : folders[i].id = KeysOf(given)[i]
      BY DEF FoldersFirst
    <3>2. Len(KeysOf(given)) \in Nat /\ kMaxFolders \in Nat
      BY CatalogHas
    <3>3. Len(KeysOf(given)) = n
      BY <1>0, <2>1, <3>1, <3>2
    <3>4. \A i \in 1 .. Len(KeysOf(given)) : KeysOf(given)[i] # preset.key
      BY <1>0, <2>1, <3>1, <3>3
    <3> QED
      BY <1>1, <2>1, <3>4, KeysMore, Zenon
  <2>3. Len(PresetsOf(preset.key, given)) = 0
    <3>1. Len(PresetsOf(preset.key, given)) = Cardinality({})
      BY <1>1, <2>2, ListTypes
    <3> QED
      BY <3>1, FS_EmptySet, Zenon
  <2>4. Begins(<< >>, PresetsOf(preset.key, given)) /\ Len(<< >>) = 0 /\ << >> \in Seq(Entry)
    BY <2>3, EmptySeq DEF Begins
  <2>5. folders'[n + 1].presets = Append(<< >>, Stored(preset))
    BY <2>1
  <2>6. Holds(folders'[n + 1], given') /\ ~Short(folders'[n + 1], given')
    BY <1>1, <2>1, <2>3, <2>4, <2>5, WholeFolder
  <2>7. \A i \in 1 .. n : /\ folders'[i] = folders[i] /\ Holds(folders[i], given')
                          /\ Short(folders[i], given') <=> Short(folders[i], given)
    BY <1>5, <2>1
  <2>8. \A i \in 1 .. n + 1 : i \in 1 .. n \/ i = n + 1
    OBVIOUS
  <2>9. \A i \in 1 .. n : i \in 1 .. n + 1
    OBVIOUS
  <2>10. presetOverflowCount' > 0 => \E i \in 1 .. n + 1 : Short(folders'[i], given')
    BY <1>3, <2>1, <2>7, <2>9
  <2>11. ASSUME NEW i \in 1 .. n + 1
         PROVE  /\ Holds(folders'[i], given')
                /\ Short(folders'[i], given') =>
                     Len(folders'[i].presets) >= kMaxPresetsPerFolder /\ presetOverflowCount' > 0
    <3>1. CASE i = n + 1
      BY <2>6, <3>1
    <3>2. CASE i \in 1 .. n
      BY <1>3, <2>1, <2>7, <3>2
    <3> QED
      BY <2>8, <3>1, <3>2
  <2> QED
    BY <2>1, <2>10, <2>11 DEF PresetsFirst
<1> QED
  BY <1>0, <1>6, <1>7, <1>8, <1>9, <1>10, Outcomes

(* What is kept, as pairs of a folder and a position in it.                *)
LEMMA KeptIs ==
  ASSUME NEW fs \in Seq(Folder)
  PROVE  \A x : x \in UNION {{i} \X DOMAIN fs[i].presets : i \in DOMAIN fs} <=>
           \E i \in 1 .. Len(fs) : \E k \in 1 .. Len(fs[i].presets) : x = <<i, k>>
<1>1. DOMAIN fs = 1 .. Len(fs)
  BY LenProperties
<1>2. \A i \in 1 .. Len(fs) : fs[i].presets \in Seq(Entry)
  <2>1. \A i \in 1 .. Len(fs) : fs[i] \in Folder
    BY ElementOfSeq
  <2> QED
    BY <2>1 DEF Folder
<1>3. \A i \in 1 .. Len(fs) : DOMAIN fs[i].presets = 1 .. Len(fs[i].presets)
  BY <1>2, LenProperties
<1> QED
  BY <1>1, <1>3

(* Another preset kept is one pair more.                                   *)
LEMMA CountedKeep ==
  ASSUME CatalogTypeOK, CatalogTypeOK', Counted, NEW preset \in Slot, AddPreset(preset)
  PROVE  Counted'
<1>0. PICK n \in Nat : n = Len(folders)
  BY CatalogHas
<1>1. given \in Seq(Slot) /\ given' = Append(given, preset)
  BY CatalogHas DEF AddPreset
<1>2. /\ presetCount \in Nat /\ folderOverflowCount \in Nat /\ presetOverflowCount \in Nat
      /\ \A i \in 1 .. n : folders[i].presets \in Seq(Entry) /\ Len(folders[i].presets) \in Nat
  BY <1>0, <1>1, CatalogHas, FolderLists
<1>3. PICK c \in Nat : c = Cardinality(NamedIn(given))
  BY <1>1, ListsOfMore
<1>4. Cardinality(NamedIn(given')) = IF preset.name = NoName THEN c ELSE c + 1
  BY <1>1, <1>3, ListsOfMore
<1>5. /\ IsFiniteSet(Kept) /\ presetCount = Cardinality(Kept)
      /\ presetCount + folderOverflowCount + presetOverflowCount = c
  BY <1>3 DEF Counted
<1>5n. /\ presetCount \in Nat /\ folderOverflowCount \in Nat /\ presetOverflowCount \in Nat
       /\ presetCount + folderOverflowCount + presetOverflowCount = c
  BY <1>2, <1>5
<1>6. CASE preset.name = NoName /\ UNCHANGED <<folders, presetCount, folderOverflowCount, presetOverflowCount>>
  BY <1>3, <1>4, <1>5, <1>6 DEF Counted, Kept
<1>7. CASE Refused(preset) \/ \E i \in 1 .. Len(folders) : Dropped(preset, i)
  <2>1. /\ preset.name # NoName /\ folders' = folders /\ presetCount' = presetCount
        /\ \/ folderOverflowCount' = folderOverflowCount + 1 /\ presetOverflowCount' = presetOverflowCount
           \/ folderOverflowCount' = folderOverflowCount /\ presetOverflowCount' = presetOverflowCount + 1
    BY <1>7 DEF Refused, Dropped
  <2>2. presetCount' + folderOverflowCount' + presetOverflowCount' = c + 1
    BY <1>5n, <2>1
  <2>3. IsFiniteSet(Kept') /\ presetCount' = Cardinality(Kept')
    BY <1>5, <2>1 DEF Kept
  <2>4. Cardinality(NamedIn(given')) = c + 1
    BY <1>4, <2>1
  <2> QED
    BY <2>2, <2>3, <2>4 DEF Counted
<1>8. ASSUME NEW x, x \notin Kept, \A y : y \in Kept' <=> y \in Kept \/ y = x,
             preset.name # NoName, presetCount' = presetCount + 1,
             UNCHANGED <<folderOverflowCount, presetOverflowCount>>
      PROVE  Counted'
  <2>1. Kept' = Kept \cup {x}
    BY <1>8
  <2>2. IsFiniteSet(Kept') /\ presetCount' = Cardinality(Kept')
    <3>1. IsFiniteSet(Kept) /\ x \notin Kept
      BY <1>5, <1>8
    <3>2. IsFiniteSet(Kept \cup {x}) /\ Cardinality(Kept \cup {x}) = Cardinality(Kept) + 1
      BY <3>1, FS_AddElement
    <3> QED
      BY <1>5, <1>8, <2>1, <3>2
  <2>3. presetCount' + folderOverflowCount' + presetOverflowCount' = c + 1
    <3>1. presetCount' = presetCount + 1 /\ folderOverflowCount' = folderOverflowCount
          /\ presetOverflowCount' = presetOverflowCount
      BY <1>8
    <3> QED
      BY <1>5n, <3>1
  <2>4. Cardinality(NamedIn(given')) = c + 1
    BY <1>4, <1>8
  <2> QED
    BY <2>2, <2>3, <2>4 DEF Counted
<1>9. \A x : x \in Kept <=> \E i \in 1 .. n : \E k \in 1 .. Len(folders[i].presets) : x = <<i, k>>
  BY <1>0, CatalogHas, KeptIs DEF Kept
<1>10. \A x : x \in Kept' <=>
         \E i \in 1 .. Len(folders') : \E k \in 1 .. Len(folders'[i].presets) : x = <<i, k>>
  <2>1. folders' \in Seq(Folder)
    BY DEF CatalogTypeOK
  <2> QED
    BY <2>1, KeptIs DEF Kept
<1>11. CASE \E i \in 1 .. Len(folders) : KeptIn(preset, i)
  <2>1. PICK i \in 1 .. n : KeptIn(preset, i)
    BY <1>0, <1>11
  <2>2. PICK m \in Nat : m = Len(folders[i].presets)
    BY <1>2
  <2>3. /\ preset.name # NoName /\ presetCount' = presetCount + 1
        /\ UNCHANGED <<folderOverflowCount, presetOverflowCount>>
        /\ Len(folders') = n /\ \A j \in 1 .. n : j # i => folders'[j] = folders[j]
        /\ folders'[i].presets = Append(folders[i].presets, Stored(preset))
    BY <1>0, <2>1 DEF KeptIn
  <2>4. Len(folders'[i].presets) = m + 1
    <3>1. Stored(preset) \in Entry
      BY <2>3 DEF Stored, Entry, Slot
    <3> QED
      BY <1>2, <2>2, <2>3, <3>1, AppendProperties
  <2>5. \A k : k \in 1 .. m + 1 <=> k \in 1 .. m \/ k = m + 1
    OBVIOUS
  <2>6. PICK x : x = <<i, m + 1>>
    OBVIOUS
  <2>7. x \notin Kept
    <3>1. m + 1 \notin 1 .. m
      OBVIOUS
    <3> QED
      BY <1>9, <2>2, <2>6, <3>1
  <2>8. ASSUME NEW y PROVE y \in Kept' <=> y \in Kept \/ y = x
    <3>1. y \in Kept' <=> \E j \in 1 .. n : \E k \in 1 .. Len(folders'[j].presets) : y = <<j, k>>
      BY <1>10, <2>3
    <3>2. ASSUME NEW j \in 1 .. n, NEW k \in 1 .. Len(folders'[j].presets), y = <<j, k>>
          PROVE  y \in Kept \/ y = x
      <4>1. CASE j = i
        BY <1>9, <2>2, <2>4, <2>5, <2>6, <3>2, <4>1
      <4>2. CASE j # i
        BY <1>9, <2>3, <3>2, <4>2
      <4> QED
        BY <4>1, <4>2
    <3>3. ASSUME NEW j \in 1 .. n, NEW k \in 1 .. Len(folders[j].presets)
          PROVE  k \in 1 .. Len(folders'[j].presets)
      <4>1. CASE j = i
        BY <2>2, <2>4, <2>5, <4>1
      <4>2. CASE j # i
        BY <2>3, <4>2
      <4> QED
        BY <4>1, <4>2
    <3>4. m + 1 \in 1 .. Len(folders'[i].presets)
      BY <2>4, <2>5
    <3> QED
      BY <1>9, <2>6, <3>1, <3>2, <3>3, <3>4
  <2> QED
    BY <1>8, <2>3, <2>7, <2>8
<1>12. CASE KeptInNew(preset)
  <2>1. /\ preset.name # NoName /\ presetCount' = presetCount + 1
        /\ UNCHANGED <<folderOverflowCount, presetOverflowCount>>
        /\ Len(folders') = n + 1 /\ \A j \in 1 .. n : folders'[j] = folders[j]
        /\ folders'[n + 1].presets = << Stored(preset) >>
    BY <1>0, <1>12 DEF KeptInNew
  <2>2. Len(folders'[n + 1].presets) = 1
    BY <2>1
  <2>3. \A k : k \in 1 .. n + 1 <=> k \in 1 .. n \/ k = n + 1
    OBVIOUS
  <2>4. PICK x : x = <<n + 1, 1>>
    OBVIOUS
  <2>5. x \notin Kept
    <3>1. n + 1 \notin 1 .. n
      OBVIOUS
    <3> QED
      BY <1>9, <2>4, <3>1
  <2>6. \A k : k \in 1 .. 1 <=> k = 1
    OBVIOUS
  <2>7. ASSUME NEW y PROVE y \in Kept' <=> y \in Kept \/ y = x
    <3>1. y \in Kept' <=> \E j \in 1 .. n + 1 : \E k \in 1 .. Len(folders'[j].presets) : y = <<j, k>>
      BY <1>10, <2>1
    <3>2. ASSUME NEW j \in 1 .. n + 1, NEW k \in 1 .. Len(folders'[j].presets), y = <<j, k>>
          PROVE  y \in Kept \/ y = x
      <4>1. CASE j = n + 1
        BY <2>2, <2>4, <2>6, <3>2, <4>1
      <4>2. CASE j \in 1 .. n
        BY <1>9, <2>1, <3>2, <4>2
      <4> QED
        BY <2>3, <4>1, <4>2
    <3>3. \A j \in 1 .. n : folders'[j] = folders[j] /\ j \in 1 .. n + 1
      BY <2>1, <2>3
    <3>4. n + 1 \in 1 .. n + 1 /\ 1 \in 1 .. Len(folders'[n + 1].presets)
      BY <2>2, <2>3, <2>6
    <3> QED
      BY <1>9, <2>4, <3>1, <3>2, <3>3, <3>4
  <2> QED
    BY <1>8, <2>1, <2>5, <2>7
<1> QED
  BY <1>6, <1>7, <1>11, <1>12, Outcomes

---------------------------------------------------------------------------
(* What the document tells                                                 *)

(* A list of folders is within another if its folders are the first of it, *)
(* each with the first of its presets.                                     *)
Within(a, b) ==
  /\ Len(a) <= Len(b)
  /\ \A i \in 1 .. Len(a) : a[i].name = b[i].name /\ Begins(a[i].presets, b[i].presets)

(* The snapshot lists what the device gave, and says when not all of it.   *)
SnapshotTells ==
  /\ Within(snapshot.folders, Listing(copied))
  /\ snapshot.incomplete <=> lossy \/ snapshot.folders # Listing(copied)

(* The document lists what the snapshot lists, and is flagged as such.     *)
EncoderTells ==
  /\ jpc # "idle" => Within(doc, snapshot.folders)
  /\ jpc = "folder" => \A i \in 1 .. Len(doc) : doc[i] = snapshot.folders[i]
  /\ jpc = "preset" => \A i \in 1 .. Len(doc) - 1 : doc[i] = snapshot.folders[i]
  /\ jpc \in {"close", "done", "changed"} => (truncated <=> doc # snapshot.folders)
  /\ jpc \in {"done", "changed"} => (flag <=> snapshot.incomplete \/ truncated)

(* Equal lists of folders, folder by folder and preset by preset.          *)
LEMMA SameFolder ==
  ASSUME NEW f \in ListedFolder, NEW g \in ListedFolder, f.name = g.name,
         Begins(f.presets, g.presets), ~(Len(f.presets) < Len(g.presets))
  PROVE  f = g
<1>1. f.presets \in Seq(ListedPreset) /\ g.presets \in Seq(ListedPreset)
  BY DEF ListedFolder
<1>2. Len(f.presets) = Len(g.presets)
  <2>1. Len(f.presets) \in Nat /\ Len(g.presets) \in Nat
    BY <1>1, LenProperties
  <2> QED
    BY <2>1 DEF Begins
<1>3. f.presets = g.presets
  BY <1>1, <1>2, SeqEqual DEF Begins
<1> QED
  BY <1>3 DEF ListedFolder

(* What lies between equal lists is equal to them.                         *)
LEMMA Squeezed ==
  ASSUME NEW a \in Seq(ListedFolder), NEW b \in Seq(ListedFolder),
         Within(a, b), Within(b, a)
  PROVE  a = b
<1>1. Len(a) \in Nat /\ Len(b) \in Nat
  BY LenProperties
<1>2. Len(a) = Len(b)
  BY <1>1 DEF Within
<1>3. ASSUME NEW i \in 1 .. Len(a) PROVE a[i] = b[i]
  <2>1. PICK f, g : f = a[i] /\ g = b[i]
    OBVIOUS
  <2>2. f \in ListedFolder /\ g \in ListedFolder
    BY <1>2, <2>1, ElementOfSeq
  <2>3. f.name = g.name /\ Begins(f.presets, g.presets) /\ Begins(g.presets, f.presets)
    BY <1>2, <2>1 DEF Within
  <2>4. ~(Len(f.presets) < Len(g.presets))
    <3>1. f.presets \in Seq(ListedPreset) /\ g.presets \in Seq(ListedPreset)
      BY <2>2 DEF ListedFolder
    <3>2. Len(f.presets) \in Nat /\ Len(g.presets) \in Nat
      BY <3>1, LenProperties
    <3> QED
      BY <2>3, <3>2 DEF Begins
  <2> QED
    BY <2>1, <2>2, <2>3, <2>4, SameFolder
<1> QED
  BY <1>2, <1>3, SeqEqual

(* The listing is one of texts that have a length.                         *)
LEMMA ListingIs ==
  ASSUME NEW s \in Seq(Slot)
  PROVE  /\ Listing(s) \in Seq(ListedFolder) /\ Len(Listing(s)) = Len(KeysOf(s))
         /\ Len(KeysOf(s)) \in Nat
         /\ \A i \in 1 .. Len(KeysOf(s)) :
              /\ Listing(s)[i].name = LabelFor(KeysOf(s)[i])
              /\ Listing(s)[i].presets = PresetsOf(KeysOf(s)[i], s)
<1>1. PICK keys : keys = KeysOf(s)
  OBVIOUS
<1>2. keys \in Seq(Keys)
  BY <1>1, ListTypes
<1>3. Len(keys) \in Nat /\ DOMAIN keys = 1 .. Len(keys)
  BY <1>2, LenProperties
<1>4. PICK n \in Nat : n = Len(keys)
  BY <1>3
<1>5. PICK l : l = [i \in 1 .. n |-> [name |-> LabelFor(keys[i]), presets |-> PresetsOf(keys[i], s)]]
  OBVIOUS
<1>6. Listing(s) = l
  BY <1>1, <1>3, <1>4, <1>5 DEF Listing
<1>7. ASSUME NEW i \in 1 .. n
      PROVE  [name |-> LabelFor(keys[i]), presets |-> PresetsOf(keys[i], s)] \in ListedFolder
  <2>1. keys[i] \in Keys
    BY <1>2, <1>4, ElementOfSeq
  <2>2. LabelFor(keys[i]) \in DOMAIN TextBytes
    BY <2>1, ListingAssumption
  <2>3. Entry \subseteq ListedPreset
    BY ListingAssumption DEF Entry, ListedPreset
  <2>4. PresetsOf(keys[i], s) \in Seq(ListedPreset)
    BY <2>3, ListTypes, SeqOfMore
  <2> QED
    BY <2>2, <2>4 DEF ListedFolder
<1>8. l \in [1 .. n -> ListedFolder]
  BY <1>5, <1>7
<1>9. l \in Seq(ListedFolder)
  BY <1>8, SeqDef
<1>10. Len(l) = n
  BY <1>5
<1>11. \A i \in 1 .. n : l[i].name = LabelFor(keys[i]) /\ l[i].presets = PresetsOf(keys[i], s)
  BY <1>5
<1> QED
  BY <1>1, <1>4, <1>6, <1>9, <1>10, <1>11

(* The catalog's copy lists what was given, all of it unless it overflowed.*)
LEMMA CopyTells ==
  ASSUME CatalogTypeOK, CatalogInv, NEW fs \in Seq(ListedFolder), Len(fs) = Len(folders),
         \A i \in 1 .. Len(folders) : fs[i].name = folders[i].name /\ fs[i].presets = folders[i].presets
  PROVE  /\ Within(fs, Listing(given))
         /\ Overflowed <=> fs # Listing(given)
<1>1. PICK keys, l : keys = KeysOf(given) /\ l = Listing(given)
  OBVIOUS
<1>2. PICK n \in Nat : n = Len(folders)
  BY CatalogHas
<1>3. /\ l \in Seq(ListedFolder) /\ Len(l) = Len(keys) /\ Len(keys) \in Nat
      /\ \A i \in 1 .. Len(keys) : l[i].name = LabelFor(keys[i]) /\ l[i].presets = PresetsOf(keys[i], given)
  BY <1>1, CatalogHas, ListingIs
<1>4. /\ n <= Len(keys) /\ (n < Len(keys) <=> folderOverflowCount > 0)
      /\ \A i \in 1 .. n : folders[i].id = keys[i] /\ folders[i].name = LabelFor(folders[i].id)
  BY <1>1, <1>2 DEF CatalogInv, FoldersFirst
<1>5. ASSUME NEW i \in 1 .. n
      PROVE  /\ i \in 1 .. Len(keys)
             /\ fs[i] \in ListedFolder /\ l[i] \in ListedFolder
             /\ fs[i].name = l[i].name /\ Begins(fs[i].presets, l[i].presets)
             /\ Short(folders[i], given) <=> Len(fs[i].presets) < Len(l[i].presets)
  <2>1. i \in 1 .. Len(keys)
    BY <1>3, <1>4
  <2>2. Holds(folders[i], given)
    BY <1>2 DEF CatalogInv, PresetsFirst
  <2>3. fs[i].presets = folders[i].presets /\ l[i].presets = PresetsOf(folders[i].id, given)
    BY <1>2, <1>3, <1>4, <2>1
  <2>4. fs[i].name = l[i].name
    BY <1>2, <1>3, <1>4, <2>1
  <2>5. fs[i] \in ListedFolder /\ l[i] \in ListedFolder
    BY <1>2, <1>3, <2>1, ElementOfSeq
  <2> QED
    BY <2>1, <2>2, <2>3, <2>4, <2>5 DEF Holds, Short
<1>6. Within(fs, l)
  BY <1>2, <1>3, <1>4, <1>5 DEF Within
<1>7. presetOverflowCount > 0 <=> \E i \in 1 .. n : Short(folders[i], given)
  BY <1>2 DEF CatalogInv, PresetsFirst
<1>8. ASSUME Overflowed PROVE fs # l
  <2>1. CASE folderOverflowCount > 0
    BY <1>2, <1>3, <1>4, <2>1
  <2>2. CASE presetOverflowCount > 0
    <3>1. PICK i \in 1 .. n : Short(folders[i], given)
      BY <1>7, <2>2
    <3>2. Len(fs[i].presets) < Len(l[i].presets) /\ Len(fs[i].presets) \in Nat
      <4>1. fs[i].presets \in Seq(ListedPreset)
        BY <1>5 DEF ListedFolder
      <4> QED
        BY <1>5, <3>1, <4>1, LenProperties
    <3> QED
      BY <3>2
  <2> QED
    BY <1>8, <2>1, <2>2 DEF Overflowed
<1>9. ASSUME ~Overflowed PROVE fs = l
  <2>1. n = Len(keys)
    BY <1>3, <1>4, <1>9 DEF Overflowed
  <2>2. \A i \in 1 .. n : fs[i] = l[i]
    BY <1>5, <1>7, <1>9, SameFolder DEF Overflowed
  <2> QED
    BY <1>2, <1>3, <2>1, <2>2, SeqEqual
<1> QED
  BY <1>1, <1>6, <1>8, <1>9

(* A finished document's flag tells the truth if these do.                 *)
LEMMA FlagFollows ==
  ASSUME JsonTypeOK, copied \in Seq(Slot), SnapshotTells, EncoderTells
  PROVE  FlagTellsTruth
<1> SUFFICES ASSUME jpc \in {"done", "changed"}
             PROVE  flag <=> lossy \/ doc # Listing(copied)
  BY DEF FlagTellsTruth
<1>1. PICK a, b, c : a = doc /\ b = snapshot.folders /\ c = Listing(copied)
  OBVIOUS
<1>2. a \in Seq(ListedFolder) /\ b \in Seq(ListedFolder) /\ c \in Seq(ListedFolder)
  BY <1>1, ListingIs DEF JsonTypeOK
<1>3. Within(a, b) /\ Within(b, c)
  BY <1>1 DEF EncoderTells, SnapshotTells
<1>4. a = c => a = b
  BY <1>2, <1>3, Squeezed
<1>5. snapshot.incomplete <=> lossy \/ b # c
  BY <1>1 DEF SnapshotTells
<1>6. truncated <=> a # b
  BY <1>1 DEF EncoderTells
<1>7. flag <=> snapshot.incomplete \/ truncated
  BY DEF EncoderTells
<1>8. flag <=> lossy \/ b # c \/ a # b
  BY <1>5, <1>6, <1>7, Zenon
<1>9. b # c \/ a # b <=> a # c
  BY <1>4
<1> QED
  BY <1>1, <1>8, <1>9, Zenon

(* A folder more is opened, empty.                                         *)
LEMMA WriteFolderTells ==
  ASSUME JsonTypeOK, EncoderTells, WriteFolder
  PROVE  EncoderTells'
<1>1. PICK l : l = snapshot.folders
  OBVIOUS
<1>2. PICK n \in Nat : n = Len(doc)
  BY LenProperties DEF JsonTypeOK
<1>3. doc \in Seq(ListedFolder) /\ l \in Seq(ListedFolder) /\ Len(l) \in Nat
  BY <1>1, LenProperties DEF JsonTypeOK
<1>4. n < Len(l) /\ jpc = "folder" /\ jpc' = "preset" /\ snapshot' = snapshot
  BY <1>1, <1>2 DEF WriteFolder
<1>5. n + 1 \in 1 .. Len(l)
  BY <1>3, <1>4
<1>6. PICK next \in ListedFolder : next = l[n + 1]
  BY <1>3, <1>5, ElementOfSeq
<1>7. PICK f : f = [name |-> next.name, presets |-> << >>]
  OBVIOUS
<1>8. f \in ListedFolder /\ f.presets = << >> /\ f.name = l[n + 1].name
  BY <1>6, <1>7, EmptySeq DEF ListedFolder
<1>9. doc' = Append(doc, f)
  BY <1>1, <1>2, <1>6, <1>7 DEF WriteFolder, NextFolder
<1>10. /\ Len(doc') = n + 1 /\ doc'[n + 1] = f
       /\ \A i \in 1 .. n : doc'[i] = doc[i]
  BY <1>2, <1>3, <1>8, <1>9, AppendProperties
<1>11. /\ \A i \in 1 .. n : doc[i] = l[i]
       /\ \A i \in 1 .. n : doc[i].name = l[i].name /\ Begins(doc[i].presets, l[i].presets)
  BY <1>1, <1>2, <1>4 DEF EncoderTells, Within
<1>12. Begins(<< >>, l[n + 1].presets)
  <2>1. l[n + 1].presets \in Seq(ListedPreset)
    BY <1>6 DEF ListedFolder
  <2>2. Len(l[n + 1].presets) \in Nat
    BY <2>1, LenProperties
  <2>3. Len(<< >>) = 0 /\ Len(<< >>) <= Len(l[n + 1].presets) /\ \A k \in 1 .. Len(<< >>) : FALSE
    BY <2>2
  <2> QED
    BY <2>3 DEF Begins
<1>13. \A i \in 1 .. n + 1 : i \in 1 .. n \/ i = n + 1
  OBVIOUS
<1>14. \A i \in 1 .. n + 1 : doc'[i].name = l[i].name /\ Begins(doc'[i].presets, l[i].presets)
  BY <1>8, <1>10, <1>11, <1>12, <1>13
<1>15. n + 1 <= Len(l) /\ \A i \in 1 .. (n + 1) - 1 : i \in 1 .. n
  BY <1>3, <1>4
<1>16. Within(doc', snapshot'.folders)
  BY <1>1, <1>4, <1>10, <1>14, <1>15 DEF Within
<1>17. \A i \in 1 .. Len(doc') - 1 : doc'[i] = snapshot'.folders[i]
  BY <1>1, <1>4, <1>10, <1>11, <1>15
<1> QED
  BY <1>4, <1>16, <1>17 DEF EncoderTells

(* The open folder has a preset more.                                      *)
LEMMA WritePresetTells ==
  ASSUME JsonTypeOK, EncoderTells, WritePreset
  PROVE  EncoderTells'
<1>1. PICK l : l = snapshot.folders
  OBVIOUS
<1>2. PICK n \in Nat : n = Len(doc)
  BY LenProperties DEF JsonTypeOK
<1>3. doc \in Seq(ListedFolder) /\ l \in Seq(ListedFolder) /\ Len(l) \in Nat
  BY <1>1, LenProperties DEF JsonTypeOK
<1>4. jpc = "preset" /\ jpc' = "preset" /\ snapshot' = snapshot
  BY DEF WritePreset
<1>5. doc # << >> /\ n <= Len(l)
  BY <1>1, <1>2, <1>4 DEF JsonTypeOK
<1>6. n \in 1 .. n /\ n \in 1 .. Len(l)
  <2>1. n # 0
    BY <1>2, <1>3, <1>5, EmptySeq
  <2> QED
    BY <1>3, <1>5, <2>1
<1>7. PICK open, whole : open = doc[n] /\ whole = l[n]
  OBVIOUS
<1>8. open \in ListedFolder /\ whole \in ListedFolder
  BY <1>2, <1>3, <1>6, <1>7, ElementOfSeq
<1>9. open.presets \in Seq(ListedPreset) /\ whole.presets \in Seq(ListedPreset)
  BY <1>8 DEF ListedFolder
<1>10. PICK m \in Nat : m = Len(open.presets)
  BY <1>9, LenProperties
<1>11. m < Len(whole.presets) /\ Len(whole.presets) \in Nat
  BY <1>1, <1>2, <1>7, <1>9, <1>10, LenProperties DEF WritePreset, Written, OpenedFolder
<1>12. PICK e \in ListedPreset : e = whole.presets[m + 1]
  <2>1. m + 1 \in 1 .. Len(whole.presets)
    BY <1>11
  <2> QED
    BY <1>9, <2>1, ElementOfSeq
<1>13. PICK ps : ps = Append(open.presets, e)
  OBVIOUS
<1>14. /\ ps \in Seq(ListedPreset) /\ Len(ps) = m + 1 /\ ps[m + 1] = e
       /\ \A k \in 1 .. m : ps[k] = open.presets[k]
  BY <1>9, <1>10, <1>13, AppendProperties
<1>15. PICK f : f = [open EXCEPT !.presets = ps]
  OBVIOUS
<1>16. f \in ListedFolder /\ f.presets = ps /\ f.name = open.name
  BY <1>8, <1>14, <1>15 DEF ListedFolder
<1>17. doc' = [doc EXCEPT ![n] = f]
  <2>1. NextPreset = e
    BY <1>1, <1>2, <1>7, <1>10, <1>12 DEF NextPreset, OpenedFolder, Written
  <2>2. doc' = [doc EXCEPT ![n].presets = Append(@, e)]
    BY <1>2, <2>1 DEF WritePreset
  <2> QED
    BY <1>7, <1>13, <1>15, <2>2
<1>18. /\ Len(doc') = n
       /\ \A i \in 1 .. n : doc'[i] = IF i = n THEN f ELSE doc[i]
  BY <1>2, <1>3, <1>6, <1>16, <1>17, ExceptSeq
<1>19. /\ \A i \in 1 .. n - 1 : doc[i] = l[i]
       /\ \A i \in 1 .. n : doc[i].name = l[i].name /\ Begins(doc[i].presets, l[i].presets)
  BY <1>1, <1>2, <1>4 DEF EncoderTells, Within
<1>20. Begins(ps, whole.presets)
  <2>1. \A k \in 1 .. m : open.presets[k] = whole.presets[k]
    BY <1>6, <1>7, <1>10, <1>19 DEF Begins
  <2>2. \A k \in 1 .. m + 1 : k \in 1 .. m \/ k = m + 1
    OBVIOUS
  <2>3. \A k \in 1 .. m + 1 : ps[k] = whole.presets[k]
    BY <1>12, <1>14, <2>1, <2>2
  <2>4. m + 1 <= Len(whole.presets)
    BY <1>11
  <2> QED
    BY <1>14, <2>3, <2>4 DEF Begins
<1>21. \A i \in 1 .. n : doc'[i].name = l[i].name /\ Begins(doc'[i].presets, l[i].presets)
  BY <1>6, <1>7, <1>16, <1>18, <1>19, <1>20
<1>22. \A i \in 1 .. n - 1 : i \in 1 .. n /\ i # n
  OBVIOUS
<1>23. Within(doc', snapshot'.folders)
  BY <1>1, <1>4, <1>5, <1>18, <1>21 DEF Within
<1>24. \A i \in 1 .. Len(doc') - 1 : doc'[i] = snapshot'.folders[i]
  BY <1>1, <1>4, <1>18, <1>19, <1>22
<1> QED
  BY <1>4, <1>23, <1>24 DEF EncoderTells

(* A folder is left when it has all its presets, or no more fit.           *)
LEMMA EndPresetsTells ==
  ASSUME JsonTypeOK, EncoderTells, EndPresets
  PROVE  EncoderTells'
<1>1. PICK l : l = snapshot.folders
  OBVIOUS
<1>2. PICK n \in Nat : n = Len(doc)
  BY LenProperties DEF JsonTypeOK
<1>3. doc \in Seq(ListedFolder) /\ l \in Seq(ListedFolder) /\ Len(l) \in Nat
  BY <1>1, LenProperties DEF JsonTypeOK
<1>4. jpc = "preset" /\ snapshot' = snapshot /\ doc' = doc
      /\ jpc' = (IF truncated' THEN "close" ELSE "folder")
  BY DEF EndPresets
<1>5. doc # << >> /\ n <= Len(l)
  BY <1>1, <1>2, <1>4 DEF JsonTypeOK
<1>6. n \in 1 .. n /\ n \in 1 .. Len(l)
  <2>1. n # 0
    BY <1>2, <1>3, <1>5, EmptySeq
  <2> QED
    BY <1>3, <1>5, <2>1
<1>7. PICK open, whole : open = doc[n] /\ whole = l[n]
  OBVIOUS
<1>8. open \in ListedFolder /\ whole \in ListedFolder
  BY <1>2, <1>3, <1>6, <1>7, ElementOfSeq
<1>9. truncated' <=> Len(open.presets) < Len(whole.presets)
  BY <1>1, <1>2, <1>7 DEF EndPresets, Written, OpenedFolder
<1>10. /\ Within(doc, l)
       /\ \A i \in 1 .. n - 1 : doc[i] = l[i]
       /\ open.name = whole.name /\ Begins(open.presets, whole.presets)
  BY <1>1, <1>2, <1>4, <1>6, <1>7 DEF EncoderTells, Within
<1>11. CASE truncated'
  <2>1. open # whole
    <3>1. Len(open.presets) < Len(whole.presets)
      BY <1>9, <1>11
    <3>2. open.presets \in Seq(ListedPreset)
      BY <1>8 DEF ListedFolder
    <3>3. Len(open.presets) \in Nat
      BY <3>2, LenProperties
    <3> QED
      BY <3>1, <3>3
  <2>2. doc' # snapshot'.folders
    BY <1>1, <1>4, <1>7, <2>1
  <2> QED
    BY <1>1, <1>4, <1>10, <1>11, <2>2 DEF EncoderTells
<1>12. CASE ~truncated'
  <2>1. open = whole
    BY <1>8, <1>9, <1>10, <1>12, SameFolder
  <2>2. \A i \in 1 .. n : i \in 1 .. n - 1 \/ i = n
    OBVIOUS
  <2>3. \A i \in 1 .. n : doc[i] = l[i]
    BY <1>7, <1>10, <2>1, <2>2
  <2>4. jpc' = "folder"
    BY <1>4, <1>12
  <2> QED
    BY <1>1, <1>2, <1>4, <1>10, <2>3, <2>4 DEF EncoderTells
<1> QED
  BY <1>11, <1>12

(* The encoder's steps, and appendLastChange(), keep to the snapshot.      *)
LEMMA EncodeTells ==
  ASSUME JsonTypeOK, EncoderTells, JsonNext
  PROVE  EncoderTells'
<1>1. CASE Begin
  <2>1. doc' = << >> /\ jpc' = "folder" /\ snapshot' = snapshot
    BY <1>1 DEF Begin
  <2>2. Len(snapshot.folders) \in Nat
    <3>1. snapshot.folders \in Seq(ListedFolder)
      BY DEF JsonTypeOK
    <3> QED
      BY <3>1, LenProperties
  <2>3. Len(<< >>) = 0 /\ Len(<< >>) <= Len(snapshot.folders) /\ \A i \in 1 .. Len(<< >>) : FALSE
    BY <2>2
  <2> QED
    BY <2>1, <2>3 DEF EncoderTells, Within
<1>2. CASE EndFolders
  <2>1. jpc = "folder" /\ jpc' = "close" /\ UNCHANGED <<snapshot, doc>>
        /\ truncated' = (Len(doc) < Len(snapshot.folders))
    BY <1>2 DEF EndFolders
  <2>2. /\ doc \in Seq(ListedFolder) /\ snapshot.folders \in Seq(ListedFolder)
        /\ Len(doc) \in Nat /\ Len(snapshot.folders) \in Nat
        /\ Len(doc) <= Len(snapshot.folders)
    BY <2>1, LenProperties DEF JsonTypeOK
  <2>3. Within(doc, snapshot.folders) /\ \A i \in 1 .. Len(doc) : doc[i] = snapshot.folders[i]
    BY <2>1 DEF EncoderTells
  <2>4. Len(doc) < Len(snapshot.folders) <=> doc # snapshot.folders
    <3>1. CASE Len(doc) < Len(snapshot.folders)
      BY <2>2, <3>1
    <3>2. CASE Len(doc) = Len(snapshot.folders)
      <4>1. doc = snapshot.folders
        BY <2>2, <2>3, <3>2, SeqEqual
      <4> QED
        BY <2>2, <3>2, <4>1
    <3> QED
      BY <2>2, <3>1, <3>2
  <2>5. truncated' <=> doc # snapshot.folders
    BY <2>1, <2>4, Zenon
  <2> QED
    BY <2>1, <2>3, <2>5 DEF EncoderTells
<1>3. CASE Close
  <2>1. jpc = "close" /\ jpc' = "done" /\ UNCHANGED <<snapshot, doc, truncated>>
        /\ flag' = (snapshot.incomplete \/ truncated)
    BY <1>3 DEF Close
  <2>2. Within(doc', snapshot'.folders)
    BY <2>1 DEF EncoderTells
  <2>3. truncated' <=> doc' # snapshot'.folders
    BY <2>1 DEF EncoderTells
  <2>4. flag' <=> snapshot'.incomplete \/ truncated'
    BY <2>1, Zenon
  <2> QED
    BY <2>1, <2>2, <2>3, <2>4 DEF EncoderTells
<1>4. CASE \E event \in Events : AppendLastChange(event)
  BY <1>4 DEF AppendLastChange, EncoderTells
<1> QED
  BY <1>1, <1>2, <1>3, <1>4, WriteFolderTells, WritePresetTells, EndPresetsTells DEF JsonNext

---------------------------------------------------------------------------
(* The catalog and the flag                                                *)

TruthInv == CatalogInv /\ SnapshotTells /\ EncoderTells

(* addPreset() keeps the catalog's invariant.                              *)
LEMMA CatalogKeeps ==
  ASSUME CatalogTypeOK, CatalogTypeOK', CatalogInv, NEW preset \in Slot, AddPreset(preset)
  PROVE  CatalogInv'
<1>1. KeysListed'
  BY KeysMore DEF CatalogInv, AddPreset
<1>2. FoldersFirst'
  BY FoldersKeep DEF CatalogInv
<1>3. PresetsFirst'
  BY PresetsKeep DEF CatalogInv
<1>4. Counted'
  BY CountedKeep DEF CatalogInv
<1> QED
  BY <1>1, <1>2, <1>3, <1>4 DEF CatalogInv

(* An empty catalog has it, if nothing was given.                          *)
LEMMA EmptyCatalog ==
  /\ (folders = << >> /\ presetCount = 0 /\ folderOverflowCount = 0
        /\ presetOverflowCount = 0 /\ given = << >>) => CatalogInv
  /\ (folders' = << >> /\ presetCount' = 0 /\ folderOverflowCount' = 0
        /\ presetOverflowCount' = 0 /\ given' = << >>) => CatalogInv'
<1>1. /\ \A k : OwnIn(k, << >>) = {}
      /\ KeysOf(<< >>) = << >> /\ Len(KeysOf(<< >>)) = 0
      /\ Cardinality(NamedIn(<< >>)) = 0
  BY ListsOfNone, EmptySeq
<1>2. IsFiniteSet({}) /\ Cardinality({}) = 0
  BY FS_EmptySet, Zenon
<1>3. UNION {{i} \X DOMAIN (<< >>)[i].presets : i \in DOMAIN << >>} = {}
  OBVIOUS
<1>4. ASSUME folders = << >>, presetCount = 0, folderOverflowCount = 0,
             presetOverflowCount = 0, given = << >>
      PROVE  CatalogInv
  <2>1. KeysListed
    BY <1>1, <1>4 DEF KeysListed
  <2>2. FoldersFirst
    BY <1>1, <1>4 DEF FoldersFirst
  <2>3. PresetsFirst
    BY <1>4 DEF PresetsFirst
  <2>4. Kept = {}
    BY <1>3, <1>4 DEF Kept
  <2>5. Counted
    BY <1>1, <1>2, <1>4, <2>4 DEF Counted
  <2> QED
    BY <2>1, <2>2, <2>3, <2>5 DEF CatalogInv
<1>5. ASSUME folders' = << >>, presetCount' = 0, folderOverflowCount' = 0,
             presetOverflowCount' = 0, given' = << >>
      PROVE  CatalogInv'
  <2>1. KeysListed'
    BY <1>1, <1>5 DEF KeysListed
  <2>2. FoldersFirst'
    BY <1>1, <1>5 DEF FoldersFirst
  <2>3. PresetsFirst'
    BY <1>5 DEF PresetsFirst
  <2>4. Kept' = {}
    BY <1>3, <1>5 DEF Kept
  <2>5. Counted'
    BY <1>1, <1>2, <1>5, <2>4 DEF Counted
  <2> QED
    BY <2>1, <2>2, <2>3, <2>5 DEF CatalogInv
<1> QED
  BY <1>4, <1>5

(* The catalog's invariant is about the catalog only.                      *)
LEMMA CatalogUnchanged ==
  ASSUME CatalogInv, UNCHANGED catalogVars
  PROVE  CatalogInv'
<1>1. KeysListed'
  BY DEF CatalogInv, KeysListed, catalogVars
<1>2. FoldersFirst'
  BY DEF CatalogInv, FoldersFirst, catalogVars
<1>3. PresetsFirst'
  BY DEF CatalogInv, PresetsFirst, catalogVars
<1>4. Counted'
  BY DEF CatalogInv, Counted, Kept, catalogVars
<1> QED
  BY <1>1, <1>2, <1>3, <1>4 DEF CatalogInv

(* Catalog, snapshot and document agree with what was given.               *)
LEMMA TruthInvHolds == Spec => []TruthInv
<1>1. Init => TruthInv
  <2> SUFFICES ASSUME Init PROVE TruthInv
    OBVIOUS
  <2>1. CatalogInv
    BY EmptyCatalog DEF Init, CatalogInit
  <2>2. snapshot.folders = << >> /\ snapshot.incomplete = TRUE /\ lossy = TRUE /\ copied = << >>
        /\ jpc = "idle"
    BY DEF Init, JsonInit
  <2>3. Listing(<< >>) = << >>
    BY ListsOfNone
  <2>4. Len(<< >>) <= Len(<< >>) /\ \A i \in 1 .. Len(<< >>) : FALSE
    OBVIOUS
  <2>5. Within(<< >>, << >>)
    BY <2>4 DEF Within
  <2>6. SnapshotTells
    BY <2>2, <2>3, <2>5 DEF SnapshotTells
  <2>7. EncoderTells
    BY <2>2 DEF EncoderTells
  <2> QED
    BY <2>1, <2>6, <2>7 DEF TruthInv
<1>2. ListingInv /\ ListingInv' /\ TruthInv /\ [Next]_vars => TruthInv'
  <2> SUFFICES ASSUME ListingInv, ListingInv', TruthInv, [Next]_vars
               PROVE  TruthInv'
    OBVIOUS
  <2>0. /\ CatalogTypeOK /\ CatalogTypeOK' /\ JsonTypeOK /\ JsonTypeOK'
        /\ CatalogInv /\ SnapshotTells /\ EncoderTells
    BY DEF ListingInv, TypeOK, TruthInv
  <2>1. ASSUME UNCHANGED <<jsonVars, lossy, copied>>
        PROVE  SnapshotTells' /\ EncoderTells'
    <3>1. SnapshotTells'
      BY <2>0, <2>1 DEF SnapshotTells, jsonVars
    <3>2. EncoderTells'
      BY <2>0, <2>1 DEF EncoderTells, jsonVars
    <3> QED
      BY <3>1, <3>2
  <2>2. CASE StartStream
    <3>1. CatalogInv'
      BY <2>2, EmptyCatalog DEF StartStream, Reset
    <3> QED
      BY <2>1, <2>2, <3>1 DEF StartStream, TruthInv
  <2>3. CASE \E key \in Keys, name \in Names \cup {NoName} : Give(key, name)
    <3>1. PICK key \in Keys, name \in Names \cup {NoName} : Give(key, name)
      BY <2>3
    <3>2. PICK i \in Indices(key) : AddPreset([key |-> key, name |-> name, index |-> i])
      BY <3>1 DEF Give
    <3>3. i \in Nat
      BY <3>2, ListingAssumption DEF Indices
    <3>4. PICK preset : preset = [key |-> key, name |-> name, index |-> i]
      OBVIOUS
    <3>5. preset \in Slot /\ AddPreset(preset)
      BY <3>2, <3>3, <3>4 DEF Slot
    <3>6. CatalogInv'
      BY <2>0, <3>5, CatalogKeeps
    <3>7. UNCHANGED <<jsonVars, lossy, copied>>
      BY <3>1 DEF Give
    <3> QED
      BY <2>1, <3>6, <3>7 DEF TruthInv
  <2>4. CASE \E incomplete \in BOOLEAN : EndStream(incomplete)
    <3>1. PICK incomplete \in BOOLEAN : EndStream(incomplete)
      BY <2>4
    <3>2. /\ jpc' = "idle" /\ lossy' = incomplete /\ copied' = given
          /\ UNCHANGED catalogVars
          /\ CopyCatalogSnapshot(incomplete \/ Overflowed)
      BY <3>1 DEF EndStream
    <3>3. CatalogInv'
      BY <2>0, <3>2, CatalogUnchanged
    <3>4. PICK fs : fs = snapshot'.folders
      OBVIOUS
    <3>5. DOMAIN folders = 1 .. Len(folders) /\ Len(folders) \in Nat
      BY <2>0, CatalogHas
    <3>6. /\ fs = [i \in DOMAIN folders |-> [name |-> folders[i].name, presets |-> folders[i].presets]]
          /\ snapshot'.incomplete = (incomplete \/ Overflowed)
      BY <3>2, <3>4 DEF CopyCatalogSnapshot
    <3>7. fs \in Seq(ListedFolder)
      BY <2>0, <3>4 DEF JsonTypeOK
    <3>8. Len(fs) = Len(folders)
      BY <3>5, <3>6
    <3>9. \A i \in 1 .. Len(folders) : fs[i].name = folders[i].name /\ fs[i].presets = folders[i].presets
      BY <3>5, <3>6
    <3>10. Within(fs, Listing(given)) /\ (Overflowed <=> fs # Listing(given))
      BY <2>0, <3>7, <3>8, <3>9, CopyTells
    <3>11. snapshot'.incomplete <=> lossy' \/ fs # Listing(given)
      BY <3>2, <3>6, <3>10, Zenon
    <3>12. SnapshotTells'
      BY <3>2, <3>4, <3>10, <3>11 DEF SnapshotTells
    <3>13. EncoderTells'
      BY <3>2 DEF EncoderTells
    <3> QED
      BY <3>3, <3>12, <3>13 DEF TruthInv
  <2>5. CASE Encode
    <3>1. JsonNext /\ UNCHANGED <<catalogVars, lossy, copied>>
      BY <2>5 DEF Encode
    <3>2. CatalogInv'
      BY <2>0, <3>1, CatalogUnchanged
    <3>3. EncoderTells'
      BY <2>0, <3>1, EncodeTells
    <3>4. snapshot' = snapshot
      BY <3>1 DEF JsonNext, Begin, WriteFolder, EndFolders, WritePreset, EndPresets, Close, AppendLastChange
    <3>5. SnapshotTells'
      BY <2>0, <3>1, <3>4 DEF SnapshotTells
    <3> QED
      BY <3>2, <3>3, <3>5 DEF TruthInv
  <2>6. CASE UNCHANGED vars
    <3>1. CatalogInv'
      BY <2>0, <2>6, CatalogUnchanged DEF vars
    <3> QED
      BY <2>1, <2>6, <3>1 DEF vars, TruthInv
  <2> QED
    BY <2>2, <2>3, <2>4, <2>5, <2>6 DEF Next
<1> QED
  BY <1>1, <1>2, ListingInvHolds, PTL DEF Spec

(* Every named preset the device gave is kept, in its folder, in its place *)
(* and with its own index, or counted by the overflow counts; and no key   *)
(* has two folders, however many share what is shown of them.              *)
THEOREM NoPresetIsLost == Spec => []KeptOrCounted
<1>1. ListingInv /\ TruthInv => KeptOrCounted
  <2> SUFFICES ASSUME ListingInv, TruthInv PROVE KeptOrCounted
    OBVIOUS
  <2>1. CatalogTypeOK /\ KeysListed /\ FoldersFirst /\ PresetsFirst /\ Counted
    BY DEF ListingInv, TypeOK, TruthInv, CatalogInv
  <2>2. /\ DOMAIN folders = 1 .. Len(folders) /\ Len(folders) \in Nat /\ given \in Seq(Slot)
        /\ Len(KeysOf(given)) \in Nat
        /\ \A i \in 1 .. Len(folders) : folders[i] \in Folder
    BY <2>1, CatalogHas
  <2>3. ASSUME NEW i \in 1 .. Len(folders), NEW j \in 1 .. Len(folders), folders[i].id = folders[j].id
        PROVE  i = j
    <3>1. i \in 1 .. Len(KeysOf(given)) /\ j \in 1 .. Len(KeysOf(given))
      BY <2>1, <2>2 DEF FoldersFirst
    <3>2. folders[i].id = KeysOf(given)[i] /\ folders[j].id = KeysOf(given)[j]
      BY <2>1 DEF FoldersFirst
    <3> QED
      BY <2>1, <2>3, <3>1, <3>2 DEF KeysListed
  <2>4. ASSUME NEW i \in 1 .. Len(folders)
        PROVE  folders[i].presets # << >> /\ IsPrefix(folders[i].presets, PresetsOf(folders[i].id, given))
    <3>1. Holds(folders[i], given)
      BY <2>1 DEF PresetsFirst
    <3>2. PICK s, t : s = folders[i].presets /\ t = PresetsOf(folders[i].id, given)
      OBVIOUS
    <3>3. s \in Seq(Entry) /\ t \in Seq(Entry)
      BY <2>2, <3>2, FolderLists
    <3>4. s # << >> /\ Len(s) <= Len(t) /\ \A k \in 1 .. Len(s) : s[k] = t[k]
      BY <3>1, <3>2 DEF Holds, Begins
    <3>5. SubSeq(s, 1, Len(s)) = SubSeq(t, 1, Len(s))
      BY <3>3, <3>4
    <3> QED
      BY <3>2, <3>4, <3>5 DEF IsPrefix
  <2> QED
    BY <2>1, <2>2, <2>3, <2>4 DEF Counted, KeptOrCounted
<1> QED
  BY <1>1, ListingInvHolds, TruthInvHolds, PTL

(* A finished document is flagged incomplete exactly when it lists less    *)
(* than the device gave, or the stream lost a part of that: a folder or a  *)
(* preset for which the catalog or the buffer had no room is told.         *)
THEOREM FlagIsTrue == Spec => []FlagTellsTruth
<1>1. ListingInv /\ TruthInv => FlagTellsTruth
  BY FlagFollows DEF ListingInv, TypeOK, TruthInv
<1> QED
  BY <1>1, ListingInvHolds, TruthInvHolds, PTL
=============================================================================
