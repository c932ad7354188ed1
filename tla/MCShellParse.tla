----------------------------- MODULE MCShellParse -----------------------------
(***************************************************************************)
(* Instances of ShellParse for TLC.                                         *)
(***************************************************************************)
EXTENDS ShellParseProperties
=============================================================================
