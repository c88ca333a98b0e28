---------------------------- MODULE MCHidFraming ---------------------------
(***************************************************************************)
(* Messages of 0, 2, 3 and 7 bytes in reports of 2 with a buffer of 4: an  *)
(* empty message, a full single report, two reports, and four reports that *)
(* outgrow the buffer in the middle.  Two losses can hit two messages, or  *)
(* two reports of one.                                                     *)
(***************************************************************************)
EXTENDS HidFraming
=============================================================================
