------------------------ MODULE SSFSThreadsProperties ------------------------
(***************************************************************************)
(* What the worker threads of ssfs.c keep of the filesystem that SSFS       *)
(* describes: all of it when there is one (-s), little when there are more. *)
(***************************************************************************)
EXTENDS SSFSThreads

-----------------------------------------------------------------------------
(* One thread.                                                              *)

\* The do_write in progress, at most one when there is one thread.
Writers == {t \in Threads : Begun(t)}
Writer  == CHOOSE t \in Writers : TRUE

\* What SSFS would have in memory.
SerialBmap == IF Writers = {} THEN ZeroMap ELSE bmap
SerialPc   == IF wild = "map" THEN "wild"
              ELSE IF Writers = {} THEN "idle"
              ELSE IF At(Writer, "savemap") THEN "save" ELSE "nav"
SerialOp   == IF Writers = {} THEN NoOp
              ELSE IF At(Writer, "start") THEN [Op(Writer) EXCEPT !.crtblk = Entry(Writer).first]
              ELSE Op(Writer)

Serial == INSTANCE SSFS WITH bmap <- SerialBmap, pc <- SerialPc, op <- SerialOp

\* On one thread, seeks, transfers and the caches come to what SSFS says: every
\* handler is atomic up to its block writes, and the caches and the offset that a
\* request leaves behind never show in a later one.
ImplementsSSFS == Serial!Spec

\* On one thread the model ends only where a write and a crash have left file data
\* in the block of the map: no transfer misses its block, and EOF_BLOCK is never
\* followed, written or allocated.
StraysOnlyOnLostMap == wild \in {"no", "map"}

-----------------------------------------------------------------------------
(* Any number of threads.                                                   *)

\* Every request is answered, though other threads reload and change the map
\* while do_write's loop follows it.
RequestsReturn == \A t \in Threads : Busy(t) ~> (~Busy(t) \/ wild # "no")

-----------------------------------------------------------------------------
(* What the comments say and several threads do not keep.                   *)

\* rawdisk.c:28: "Reads raw block blocknr from the open disk"; rawdisk.c:37:
\* "Writes the raw block blocknr from the given buffer to the open disk".  The
\* offset is the descriptor's, and another thread can move it in between.
TransfersHitTheirBlock == wild # "offset"

\* ssfs.c:373: "must save directory changes to disk!".  Between do_create's change
\* of bdir and its save_directory, another request's load_directory undoes it.
CreateSaves ==
    [][ \A t \in Threads :
          th[t].req.kind = "create" /\ SaveDir(t)
             => \E i \in Slots : dir'[i].name = th[t].req.name ]_vars

=============================================================================
