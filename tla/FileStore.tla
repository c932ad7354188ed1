------------------------------ MODULE FileStore ------------------------------
(***************************************************************************)
(* What the filesystem of lab4_fs promises its callers: a set of files,     *)
(* each with a length and the blocks that hold its contents, where a write  *)
(* changes one block of one file and no other byte of any file.             *)
(*                                                                          *)
(* A write keeps only what its request has for the block that it starts in, *)
(* though its length covers the rest and its caller is told that all is     *)
(* written.  It is not atomic.  The file's length grows when it begins; the *)
(* bytes it keeps appear, in one step, at some point before it returns; one *)
(* that is cut short has written all of them or none.                       *)
(*                                                                          *)
(* The promise has a hole: a write cut short after it made an empty file    *)
(* longer, and before the file had a block, breaks the store, and nothing   *)
(* is promised any more until it is formatted.                              *)
(***************************************************************************)
EXTENDS Naturals, Sequences

CONSTANTS BLOCK_SIZE,  \* bytes in a block
          Names,       \* file names
          Offsets,     \* where in its file a request can start, in bytes
          WriteSizes,  \* how many bytes a request can have
          Payloads,    \* what the bytes of a request can be
          NoFile,      \* what a name stands for when there is no such file
          NoWrite      \* no write is in progress

VARIABLES
    files,   \* from names to files
    pending, \* the write in progress
    broken   \* nothing is promised

vars == <<files, pending, broken>>

-----------------------------------------------------------------------------

Indices    == 0 .. (BLOCK_SIZE - 1)
EmptyFile  == [size |-> 0, blocks |-> <<>>]
Exists(n)  == files[n] # NoFile
Quiescent  == pending = NoWrite

\* What the store keeps of a request to write size bytes v to n from offset on:
\* the bytes from lo to hi-1 of block k (from 0), the block that offset is in.
WriteOf(n, offset, size, v) ==
    LET lo == offset % BLOCK_SIZE
    IN  [name |-> n, k |-> offset \div BLOCK_SIZE, lo |-> lo,
         hi |-> IF lo + size < BLOCK_SIZE THEN lo + size ELSE BLOCK_SIZE, v |-> v]

\* File f after bytes lo .. hi-1 of its k-th block (from 0) became v.  Blocks
\* that the file did not have before hold anything.
IsPut(f, g, w) ==
    /\ g.size = f.size
    /\ Len(g.blocks) = IF w.k < Len(f.blocks) THEN Len(f.blocks) ELSE w.k + 1
    /\ \A j \in DOMAIN f.blocks : j # w.k + 1 => g.blocks[j] = f.blocks[j]
    /\ \A b \in Indices : w.lo <= b /\ b < w.hi => g.blocks[w.k + 1][b] = w.v
    /\ w.k < Len(f.blocks) =>
          \A b \in Indices : ~(w.lo <= b /\ b < w.hi)
             => g.blocks[w.k + 1][b] = f.blocks[w.k + 1][b]

\* The bytes of write w are in file f.
Holds(f, w) ==
    /\ w.k < Len(f.blocks)
    /\ \A b \in Indices : w.lo <= b /\ b < w.hi => f.blocks[w.k + 1][b] = w.v

\* Only the file called n changes.
OnlyFile(n) == \A x \in Names \ {n} : files'[x] = files[x]

-----------------------------------------------------------------------------

Init ==
    /\ files = [n \in Names |-> NoFile]
    /\ pending = NoWrite
    /\ broken = FALSE

Create(n) ==
    /\ ~broken /\ Quiescent /\ ~Exists(n)
    /\ files' = [files EXCEPT ![n] = EmptyFile]
    /\ UNCHANGED <<pending, broken>>

\* A file becomes empty.
Clear(n) ==
    /\ ~broken /\ Quiescent /\ Exists(n)
    /\ files' = [files EXCEPT ![n] = EmptyFile]
    /\ UNCHANGED <<pending, broken>>

\* A write begins: the file reaches up to the end of the request.
Begin(n, offset, size, v) ==
    /\ ~broken /\ Quiescent /\ Exists(n)
    /\ pending' = WriteOf(n, offset, size, v)
    /\ OnlyFile(n)
    /\ files'[n].blocks = files[n].blocks
    /\ files'[n].size = IF offset + size > files[n].size THEN offset + size ELSE files[n].size
    /\ UNCHANGED broken

\* Its bytes appear, all at once.
Appear ==
    /\ ~broken /\ ~Quiescent
    /\ UNCHANGED <<pending, broken>>
    /\ OnlyFile(pending.name)
    /\ IsPut(files[pending.name], files'[pending.name], pending)

\* It returns: its bytes are in the file, now if not before.
Return ==
    /\ ~broken /\ ~Quiescent
    /\ pending' = NoWrite
    /\ UNCHANGED broken
    /\ \/ UNCHANGED files
       \/ /\ OnlyFile(pending.name)
          /\ IsPut(files[pending.name], files'[pending.name], pending)
    /\ Holds(files'[pending.name], pending)

\* It is cut short, by a full disk or the death of the process: the store
\* breaks if the file has a length and no block.
CutShort ==
    /\ ~broken /\ ~Quiescent
    /\ pending' = NoWrite
    /\ broken' = (files[pending.name].blocks = <<>>)
    /\ ~broken' => UNCHANGED files

\* Formatting begins to wipe a store that has contents, ...
Wipe ==
    /\ ~broken /\ Quiescent
    /\ \E n \in Names : Exists(n) /\ files[n].blocks # <<>>
    /\ broken' = TRUE /\ UNCHANGED pending

\* ... and ends with no file at all.
Format ==
    /\ Quiescent
    /\ files' = [n \in Names |-> NoFile]
    /\ broken' = FALSE
    /\ UNCHANGED pending

\* Nothing is promised of a broken store until it is formatted.
Broken == broken /\ broken'

Next ==
    \/ \E n \in Names :
          \/ Create(n) \/ Clear(n)
          \/ \E offset \in Offsets, size \in WriteSizes, v \in Payloads : Begin(n, offset, size, v)
    \/ Appear \/ Return \/ CutShort
    \/ Wipe \/ Format \/ Broken

Spec == Init /\ [][Next]_vars

=============================================================================
