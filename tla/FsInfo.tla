-------------------------------- MODULE FsInfo --------------------------------
(***************************************************************************)
(* The statistics of info_myfs (lab4_fs, info_myfs.c), a program that reads *)
(* the map and the directory off an unmounted disk and follows links until  *)
(* it meets an end.  It changes nothing: what it prints is a function of    *)
(* the disk.                                                                *)
(***************************************************************************)
EXTENDS SSFSProperties, FiniteSets, FiniteSetsExt

\* The rounds after which the loop "while (crtfb != end)" can stop.  A loop that
\* has not met its end after as many rounds as there are blocks never does.
Stops(m, b, end) == {k \in 0 .. FS_NBLOCKS : Walk(m, b)[k] = end}
Rounds(m, b, end) == Min(Stops(m, b, end))

\* freeblks
FreeBlks(m) == Rounds(m, FreeHead(m), BLKMAP_BID)

\* Mutant of UsedBlks: the first block of a file is not counted.
UsedBlksAfterFirst(d, m) ==
    MapThenSumSet(LAMBDA i : IF d[i].first = EOF_BLOCK THEN 0
                             ELSE Rounds(m, m[d[i].first], EOF_BLOCK), Live(d))

\* usedblks
UsedBlks(d, m) == MapThenSumSet(LAMBDA i : Rounds(m, d[i].first, EOF_BLOCK), Live(d))

\* "Missing blocks"
Missing(d, m) == FS_NBLOCKS - FreeBlks(m) - UsedBlks(d, m) - 2

\* While no allocation was lost, the loops of info_myfs end on the disk of a
\* filesystem at rest, and the number of blocks that it reports missing is the
\* number that do_truncate has cut loose: each other block is counted once, as
\* free or as a file's.
InfoAccounts ==
    ~lost /\ Idle =>
        /\ Stops(map, FreeHead(map), BLKMAP_BID) # {}
        /\ \A i \in Live(dir) : Stops(map, dir[i].first, EOF_BLOCK) # {}
        /\ Missing(dir, map) = Cardinality(Leaked(dir, map))

=============================================================================
