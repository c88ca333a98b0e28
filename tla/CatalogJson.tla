---------------------------- MODULE CatalogJson ----------------------------
(***************************************************************************)
(* encodeCatalogJson() over a QcCatalogSnapshot, into a buffer of fixed    *)
(* capacity, and QcWifiWebTransport's appendLastChange() to the result.    *)
(* The text is abstracted to its length, to whether an append was cut at   *)
(* the capacity, and to the folders and presets that are in it.            *)
(***************************************************************************)
EXTENDS Naturals, Sequences, FiniteSets

CONSTANTS TextBytes,     \* the bytes of each name, once escaped
          JsonCapacity,  \* kJsonCapacity
          Events         \* the preset changes: a command and a count each

(* Names hold at most QcPresetCatalog::kNameCapacity = 32 bytes, of which  *)
(* escaping makes at most two each and drops the control characters; the   *)
(* buffer has room for the opening, the closing and a preset change.       *)
ASSUME JsonAssumption ==
  /\ TextBytes \in [DOMAIN TextBytes -> 0 .. 64]
  /\ JsonCapacity \in Nat /\ JsonCapacity >= 137
  /\ Events \subseteq [command : Nat, count : Nat]

VARIABLES
  snapshot,   \* catalogSnapshot_
  jpc,        \* "idle", "folder", "preset", "close", "done" or "changed"
  out,        \* the buffer: its size, and whether an append was cut
  doc,        \* the folders in it
  truncated,  \* the local
  flag        \* the document's "incomplete"

jsonVars == <<snapshot, jpc, out, doc, truncated, flag>>

JsonInit ==
  /\ snapshot = [folders |-> << >>, presetCount |-> 0, incomplete |-> TRUE, generation |-> 0]
  /\ jpc = "idle"
  /\ out = [size |-> 0, cut |-> FALSE] /\ doc = << >>
  /\ truncated = FALSE /\ flag = FALSE

kMaxUnitBytes == 160
kClosingSuffixBytes == 23
kReserve == kMaxUnitBytes + kClosingSuffixBytes

(* As if a name took no more than its 32 bytes.                            *)
RoomForUnescaped(size) == size + 63 + kClosingSuffixBytes <= JsonCapacity

RoomFor(size) == size + kReserve <= JsonCapacity

(* appendLiteral(), appendUInt() and appendJsonEscaped() stop when full.   *)
Appended(o, bytes) ==
  IF o.size + bytes <= JsonCapacity THEN [o EXCEPT !.size = o.size + bytes]
  ELSE [size |-> JsonCapacity, cut |-> TRUE]

(* appendUInt(), of 32 bits: at most ten digits.                           *)
Digits(n) == 1 + Cardinality({d \in 1 .. 9 : n >= 10 ^ d})
Quoted(name) == TextBytes[name] + 2
Comma(seq) == IF seq = << >> THEN 0 ELSE 1

OpeningBytes == 14 + Digits(snapshot.generation) + 15 + Digits(snapshot.presetCount) + 12
FolderBytes(folder) == Comma(doc) + 8 + Quoted(folder.name) + 12

NextFolder == snapshot.folders[Len(doc) + 1]
OpenedFolder == snapshot.folders[Len(doc)]
Written == doc[Len(doc)].presets
NextPreset == OpenedFolder.presets[Len(Written) + 1]
PresetBytes == Comma(Written) + 9 + Digits(NextPreset.index) + 8 + Quoted(NextPreset.name) + 1

(* out.clear() and the opening.                                            *)
Begin ==
  /\ jpc = "idle"
  /\ out' = Appended([size |-> 0, cut |-> FALSE], OpeningBytes)
  /\ doc' = << >> /\ truncated' = FALSE
  /\ jpc' = "folder"
  /\ UNCHANGED <<snapshot, flag>>

WriteFolder ==
  /\ jpc = "folder"
  /\ Len(doc) < Len(snapshot.folders)
  /\ RoomFor(out.size)
  /\ out' = Appended(out, FolderBytes(NextFolder))
  /\ doc' = Append(doc, [name |-> NextFolder.name, presets |-> << >>])
  /\ jpc' = "preset"
  /\ UNCHANGED <<snapshot, truncated, flag>>

(* All folders are in, or there is no room for the next one.               *)
EndFolders ==
  /\ jpc = "folder"
  /\ Len(doc) < Len(snapshot.folders) => ~RoomFor(out.size)
  /\ truncated' = (Len(doc) < Len(snapshot.folders))
  /\ jpc' = "close"
  /\ UNCHANGED <<snapshot, out, doc, flag>>

WritePreset ==
  /\ jpc = "preset"
  /\ Len(Written) < Len(OpenedFolder.presets)
  /\ RoomFor(out.size)
  /\ out' = Appended(out, PresetBytes)
  /\ doc' = [doc EXCEPT ![Len(doc)].presets = Append(@, NextPreset)]
  /\ UNCHANGED <<snapshot, jpc, truncated, flag>>

(* As if the presets' break only left the inner loop.                      *)
EndPresetsUntold ==
  /\ jpc = "preset"
  /\ Len(Written) < Len(OpenedFolder.presets) => ~RoomFor(out.size)
  /\ out' = Appended(out, 2)
  /\ jpc' = "folder"
  /\ UNCHANGED <<snapshot, doc, truncated, flag>>

(* All presets are in, or there is no room for the next one: then no       *)
(* further folder is tried.                                                *)
EndPresets ==
  /\ jpc = "preset"
  /\ Len(Written) < Len(OpenedFolder.presets) => ~RoomFor(out.size)
  /\ truncated' = (Len(Written) < Len(OpenedFolder.presets))
  /\ out' = Appended(out, 2)
  /\ jpc' = IF truncated' THEN "close" ELSE "folder"
  /\ UNCHANGED <<snapshot, doc, flag>>

Close ==
  /\ jpc = "close"
  /\ flag' = (snapshot.incomplete \/ truncated)
  /\ out' = Appended(out, 15 + (IF flag' THEN 4 ELSE 5) + 1)
  /\ jpc' = "done"
  /\ UNCHANGED <<snapshot, doc, truncated>>

(* appendLastChange(), to broadcast()'s copy: the last brace is rewritten. *)
AppendLastChange(event) ==
  /\ jpc = "done"
  /\ out' = Appended([out EXCEPT !.size = @ - 1],
                     25 + Digits(event.command) + 9 + Digits(event.count) + 2)
  /\ jpc' = "changed"
  /\ UNCHANGED <<snapshot, doc, truncated, flag>>

JsonNext ==
  \/ Begin \/ WriteFolder \/ EndFolders \/ WritePreset \/ EndPresets \/ Close
  \/ \E event \in Events : AppendLastChange(event)

---------------------------------------------------------------------------
(* Properties                                                              *)

ListedPreset == [index : Nat, name : DOMAIN TextBytes]
ListedFolder == [name : DOMAIN TextBytes, presets : Seq(ListedPreset)]
JsonTypeOK ==
  /\ jpc \in {"idle", "folder", "preset", "close", "done", "changed"}
  /\ out \in [size : 0 .. JsonCapacity, cut : BOOLEAN]
  /\ truncated \in BOOLEAN /\ flag \in BOOLEAN
  /\ snapshot \in [folders : Seq(ListedFolder), presetCount : Nat, incomplete : BOOLEAN,
                   generation : Nat]
  /\ doc \in Seq(ListedFolder)
  /\ jpc # "idle" => Len(doc) <= Len(snapshot.folders)
  /\ jpc = "preset" => doc # << >> /\ Len(Written) <= Len(OpenedFolder.presets)

(* "The result is always a complete, valid JSON document", never one cut   *)
(* off - nor is the one that appendLastChange() makes of it, for which     *)
(* nothing is reserved.                                                    *)
CompleteDocument == ~out.cut
=============================================================================
