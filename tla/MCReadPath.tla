----------------------------- MODULE MCReadPath -----------------------------
(***************************************************************************)
(* Instances of ReadPath for TLC: which mount each thread belongs to, and  *)
(* the blob lengths.                                                       *)
(***************************************************************************)
EXTENDS ReadPathRefinement, TLC

CONSTANTS m1, m2, t1, t2, t3, b1, b2, b3

OneMount  == [t \in Threads |-> m1]
TwoMounts == [t \in Threads |-> IF t = t3 THEN m2 ELSE m1]
\* Inode 1 is blob b1, inode 2 blob b2, inode 3 blob b3 (two views of a
\* blob, as in by-sha256 and by-date, are the inodes 1 and 4).
OneEach   == [i \in Inodes |-> CASE i = 2 -> b2 [] i = 3 -> b3 [] OTHER -> b1]
Peers     == Permutations({t1, t2})
UnitSize  == [b \in Blobs |-> 1]
MixedSize == [b \in Blobs |-> IF b = b3 THEN 2 ELSE 1]
=============================================================================
