--------------------------- MODULE PresetListing ---------------------------
(***************************************************************************)
(* A listing's way from the device's slots to the document the clients     *)
(* get: QcSession fills the catalog while a File stream is active, copies  *)
(* it when the stream ends and publishes the copy; qc_wifi_web or the HTTP *)
(* thread encodes that, while the next stream may be filling the catalog.  *)
(***************************************************************************)
EXTENDS PresetCatalog, CatalogJson

CONSTANTS MaxStreams, \* bound on the File streams
          MaxSlots    \* bound on the slots in all of them

(* Every text of a listing has a length.                                   *)
ASSUME ListingAssumption ==
  /\ MaxStreams \in Nat /\ MaxSlots \in Nat
  /\ Names \cup {LabelFor(k) : k \in Keys} \subseteq DOMAIN TextBytes

VARIABLES
  streaming,  \* fileStream_ is active
  slots,      \* the slots so far
  lossy,      \* history: the stream behind the snapshot was incomplete
  copied      \* history: the slots of that stream

vars == <<catalogVars, jsonVars, streaming, slots, lossy, copied>>

Init ==
  /\ CatalogInit /\ JsonInit
  /\ streaming = FALSE /\ slots = 0
  /\ lossy = TRUE /\ copied = << >>

(* startStream() resets the catalog.                                       *)
StartStream ==
  /\ ~streaming
  /\ generation < MaxStreams
  /\ Reset
  /\ streaming' = TRUE
  /\ UNCHANGED <<jsonVars, slots, lossy, copied>>

(* decodeFile() numbers the slots of a message, which is about one folder; *)
(* the next slot is that message's, or the first of another.               *)
Indices(key) ==
  {0} \cup {i \in 1 .. MaxSlots : given # << >> /\ Last(given).key = key /\ i = Last(given).index + 1}

Give(key, name) ==
  /\ streaming
  /\ slots < MaxSlots
  /\ \E i \in Indices(key) : AddPreset([key |-> key, name |-> name, index |-> i])
  /\ slots' = slots + 1
  /\ UNCHANGED <<jsonVars, streaming, lossy, copied>>

CopyCatalogSnapshot(incomplete) ==
  snapshot' = [folders |-> [i \in DOMAIN folders |->
                              [name |-> folders[i].name, presets |-> folders[i].presets]],
               presetCount |-> presetCount, incomplete |-> incomplete, generation |-> generation]

(* The stream ends: isListingIncomplete(), copyCatalogSnapshot() and       *)
(* publishCatalog(), which waits for an encoder that holds dataMutex_.     *)
EndStream(incomplete) ==
  /\ streaming
  /\ jpc \in {"idle", "done", "changed"}
  /\ streaming' = FALSE
  /\ CopyCatalogSnapshot(incomplete \/ Overflowed)
  /\ jpc' = "idle"
  /\ lossy' = incomplete /\ copied' = given
  /\ UNCHANGED <<catalogVars, out, doc, truncated, flag, slots>>

Encode ==
  /\ JsonNext
  /\ UNCHANGED <<catalogVars, streaming, slots, lossy, copied>>

Next ==
  \/ StartStream
  \/ \E key \in Keys, name \in Names \cup {NoName} : Give(key, name)
  \/ \E incomplete \in BOOLEAN : EndStream(incomplete)
  \/ Encode

Spec == Init /\ [][Next]_vars
---------------------------------------------------------------------------
(* Properties                                                              *)

(* Every variable has its type; the buffer holds no more than its capacity *)
(* and the catalog no more than its own.                                   *)
TypeOK ==
  /\ CatalogTypeOK /\ JsonTypeOK
  /\ streaming \in BOOLEAN /\ slots \in Nat /\ lossy \in BOOLEAN /\ copied \in Seq(Slot)

(* What a complete document lists: a folder for each key with a named      *)
(* preset, in the order of the first, with all its named presets.          *)
FirstsIn(given_) == {m \in NamedIn(given_) : \A n \in OwnIn(given_[m].key, given_) : m <= n}
KeysOf(given_) ==
  [i \in 1 .. Cardinality(FirstsIn(given_)) |-> given_[Nth(FirstsIn(given_), i)].key]
Listing(given_) ==
  [i \in DOMAIN KeysOf(given_) |-> [name |-> LabelFor(KeysOf(given_)[i]),
                                   presets |-> PresetsOf(KeysOf(given_)[i], given_)]]

(* A finished document says "incomplete" exactly when something is missing *)
(* from it: the stream lost a part, or the catalog or the buffer had no    *)
(* room for one - and what it lists is what the device gave.               *)
FlagTellsTruth ==
  jpc \in {"done", "changed"} => (flag <=> lossy \/ doc # Listing(copied))
=============================================================================
