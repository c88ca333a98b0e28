---------------------------- MODULE MCQcSession ----------------------------
(* QcSession for TLC.  Two connections make a reconnect, with everything   *)
(* the first one left behind; two folders make a listing that can be cut   *)
(* in the middle; a quiet window of two ticks under an overall timeout of  *)
(* three ends a stream by either deadline.                                 *)
EXTENDS QcSession

(* The listing fits the catalog, or is one folder too long for it.         *)
ASSUME MCSizes == Folders - Capacity \in {0, 1}
=============================================================================
