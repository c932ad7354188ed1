------------------------------ MODULE SearchPath ------------------------------
(***************************************************************************)
(* The search path of lab1_shell: init_search_path (sh.c) cuts a copy of    *)
(* PATH at its colons and keeps, in a list, pointers to the directories in  *)
(* the copy.  It is the caller of list.c in this shell, and runs once: no   *)
(* line that is read later uses the list in this commit.  A program that    *)
(* uses list.h in any other way is the other caller here.                   *)
(***************************************************************************)
EXTENDS ShellListProperties

CONSTANTS
    Paths,         \* what PATH may be: sequences of characters, or
    NoPath,        \* not set
    Colon, Nul,    \* two characters
    path_dir_list, \* the list of the directories
    EmptyString,   \* a pointer to ""
    Others         \* data that other callers put in lists

VARIABLES
    path,      \* what getenv("PATH") returned
    buf,       \* the copy of it
    dir_start, \* a pointer into the copy, as an index
    stage      \* how far init_search_path has come, or "callers"

pathVars == <<path, buf, dir_start, stage>>

ASSUME PathAssumption ==
    /\ path_dir_list \in Lists
    /\ Nul \notin Others \cup {Colon}
    /\ Others \cup {EmptyString} \subseteq Data
    /\ EmptyString \notin Nat \* no pointer into the copy
    /\ Paths \ {NoPath} \subseteq Seq({Colon} \cup Others)
    /\ \A p \in Paths \ {NoPath} : 1 .. (Len(p) + 1) \subseteq Data

-----------------------------------------------------------------------------
(* init_search_path.                                                        *)

\* The end of the string that starts at k: "while (*s != ':' && *s != 0)".
DirEnd(k) ==
    CHOOSE s \in k .. Len(buf) :
        /\ buf[s] \in {Colon, Nul}
        /\ \A j \in k .. (s - 1) : buf[j] \notin {Colon, Nul}

\* insert_last
InsertDir(d) == Start(path_dir_list, d) \/ InsertLast(path_dir_list, d)

\* strlen(path) comes before the check for no path: what follows is undefined.
Unset ==
    /\ stage = "split" /\ path = NoPath
    /\ stage' = "crashed"
    /\ UNCHANGED <<heap, list, freeing, path, buf, dir_start>>

EmptyPath ==
    /\ stage = "split" /\ path = <<>>
    /\ Start(path_dir_list, EmptyString)
    /\ stage' = "done"
    /\ UNCHANGED <<path, buf, dir_start>>

\* Mutant of CutDir: the colon stays.
CutDirOpen ==
    /\ stage = "split" /\ path \notin {NoPath, <<>>}
    /\ buf[DirEnd(dir_start)] = Colon
    /\ InsertDir(dir_start)
    /\ dir_start' = DirEnd(dir_start) + 1
    /\ UNCHANGED <<path, stage, buf>>

\* A round of the loop that finds a colon.
CutDir ==
    /\ stage = "split" /\ path \notin {NoPath, <<>>}
    /\ buf[DirEnd(dir_start)] = Colon
    /\ buf' = [buf EXCEPT ![DirEnd(dir_start)] = Nul]
    /\ InsertDir(dir_start)
    /\ dir_start' = DirEnd(dir_start) + 1
    /\ UNCHANGED <<path, stage>>

\* The last round.
LastDir ==
    /\ stage = "split" /\ path \notin {NoPath, <<>>}
    /\ buf[DirEnd(dir_start)] = Nul
    /\ InsertDir(dir_start)
    /\ dir_start' = DirEnd(dir_start) + 1
    /\ stage' = "done"
    /\ UNCHANGED <<path, buf>>

Callers ==
    /\ stage = "callers"
    /\ \E l \in Lists : Remove(l) \/ \E d \in Others : Insert(l, d)
    /\ UNCHANGED <<path, buf, dir_start, stage>>

-----------------------------------------------------------------------------

PathInit ==
    /\ Init
    /\ path \in Paths
    /\ stage \in IF path = NoPath THEN {"split", "callers"} ELSE {"split"}
    /\ buf = IF path = NoPath THEN <<>> ELSE Append(path, Nul)
    /\ dir_start = 1

PathNext == Unset \/ EmptyPath \/ CutDir \/ LastDir \/ Callers

\* free_list runs on once it is called.
PathSpec ==
    /\ PathInit /\ [][PathNext]_<<vars, pathVars>>
    /\ \A l \in Lists : WF_vars(FreeNext(l) \/ FreeLast(l))

-----------------------------------------------------------------------------

\* The string that a pointer leads to.
StringAt(p) ==
    IF p = EmptyString THEN <<>>
    ELSE SubSeq(buf, p, (CHOOSE s \in p .. Len(buf) :
                            buf[s] = Nul /\ \A j \in p .. (s - 1) : buf[j] # Nul) - 1)

Seqs == INSTANCE SequencesExt

\* The directories of the list, each with a colon behind it.
Directories ==
    LET dirs == Contents[path_dir_list]
    IN  Seqs!FlattenSeq([k \in DOMAIN dirs |-> Append(StringAt(dirs[k]), Colon)])

\* No directory of PATH is lost, joined to another, cut short or moved: the ones in
\* the list, and what is still to be cut, are PATH.
PathKept ==
    /\ stage = "split" /\ path # NoPath => Directories \o StringAt(dir_start) = path
    /\ stage = "done" => Directories = Append(path, Colon)

=============================================================================
