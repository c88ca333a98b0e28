-------------------------- MODULE MCPresetListing --------------------------
EXTENDS PresetListing
CONSTANTS kUser, kPlugin, kPlugin2, shown, mine, downloads, short, long, none

(* Two plugin folders' long keys are shown alike; one folder has a name,   *)
(* kPlugin2 is the one that is labelled by the firmware.                   *)
TheKeys == {kUser, kPlugin, kPlugin2}
TheShown == (kUser :> kUser) @@ (kPlugin :> shown) @@ (kPlugin2 :> shown)
TheFolderNames == (kUser :> mine) @@ (kPlugin :> none) @@ (kPlugin2 :> none)
TheTextBytes == (mine :> 10) @@ (kPlugin :> 64) @@ (downloads :> 9) @@ (short :> 5) @@ (long :> 64)
TheEvents == {[command |-> 7, count |-> 1], [command |-> 2000000000, count |-> 2000000000]}
=============================================================================
