------------------------------- MODULE MCFiles -------------------------------
(***************************************************************************)
(* Files for TLC: an image with the directory, a file of two and a *)
(* half blocks, and a file of the same size whose third block number is     *)
(* invalid.  Requests of 3 bytes start and end inside blocks and cross them,*)
(* and the last one exceeds the file.                                       *)
(***************************************************************************)
EXTENDS Files, TLC

Entry(n, t, i) == [fileName |-> n, filetype |-> t, inodeNumber |-> i]

ImageDentries == <<Entry("dot", "dir", 0),
                   Entry("good", "file", 1), Entry("bad", "file", 2)>>
ImageSizes    == [n \in 0 .. 2 |-> IF n = 0 THEN 0 ELSE 5]
ImageBlocks   == [n \in 0 .. 2 |-> [k \in 0 .. 4 |->
                     CASE n = 1 -> (k + 1) % 3
                       [] n = 2 /\ k = 2 -> 7
                       [] OTHER -> 0]]

Symmetry == Permutations(Procs)
=============================================================================
