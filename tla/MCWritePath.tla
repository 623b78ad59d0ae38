----------------------------- MODULE MCWritePath -----------------------------
(***************************************************************************)
(* Instances of WritePath for TLC.                                         *)
(***************************************************************************)
EXTENDS WritePath, TLC

CONSTANTS c

\* The server starts empty, or with the blob of a file of two chunks.
Nothing  == {}
TwoThere == {<<c, c>>}

Symmetric == Permutations(Threads) \union Permutations(Names)
=============================================================================
