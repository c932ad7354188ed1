----------------------------- MODULE MCBlockList -----------------------------
(***************************************************************************)
(* An instance of BlockList for TLC.                                          *)
(***************************************************************************)
EXTENDS BlockListProperties
=============================================================================
