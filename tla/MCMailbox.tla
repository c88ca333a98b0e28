----------------------------- MODULE MCMailbox -----------------------------
(***************************************************************************)
(* Two ordinary messages, one that does not fit and one gzip message that  *)
(* does not inflate; four calls of submit() let the slot be filled, found  *)
(* busy, freed and filled again in every interleaving.                     *)
(***************************************************************************)
EXTENDS Mailbox

CONSTANTS m1, m2, big, bad
=============================================================================
