----------------------------- MODULE MCShellList -----------------------------
(***************************************************************************)
(* An instance of ShellList, under init_search_path and other callers, for  *)
(* TLC.                                                                     *)
(***************************************************************************)
EXTENDS SearchPath

CONSTANT MaxPath \* characters of PATH

\* PATH not set, and every PATH of two other characters and colons.
MCPaths == {NoPath} \cup UNION {[1 .. n -> Others \cup {Colon}] : n \in 0 .. MaxPath}

MCData == Others \cup {EmptyString} \cup 1 .. (MaxPath + 1)

=============================================================================
