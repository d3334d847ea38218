---------------------------- MODULE MC_Firmwares ----------------------------
(***************************************************************************)
(* FirmwaresInventory for TLC; the constants are given in the .cfg files. *)
(***************************************************************************)
EXTENDS FirmwaresInventory
=============================================================================
