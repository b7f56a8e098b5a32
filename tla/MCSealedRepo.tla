---------------------------- MODULE MCSealedRepo ----------------------------
(***************************************************************************)
(* Small instances of SealedRepo for TLC.                                  *)
(***************************************************************************)
EXTENDS SealedRepo
=============================================================================
