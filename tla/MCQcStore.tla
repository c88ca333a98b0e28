----------------------------- MODULE MCQcStore -----------------------------
(* QcStore for TLC: two presets of one folder.                             *)
EXTENDS QcStore

OneFolder == {<<1, 1>>, <<1, 2>>}
=============================================================================
