---------------------------- MODULE MCVaultExport ----------------------------
(***************************************************************************)
(* A model-checking instance of VaultExport: one note, one export cut      *)
(* short.                                                                  *)
(***************************************************************************)
EXTENDS VaultExport, TLC

CONSTANTS n1, x, index

OneNote == <<n1>>
AtX     == n1 :> x
=============================================================================
