-------------------------------- MODULE Lists --------------------------------
(***************************************************************************)
(* What Rust's retain and filter leave of a list.                          *)
(***************************************************************************)
EXTENDS Naturals, Sequences

\* The elements of s that are in S, in their order: SelectSeq, with a set for the
\* test so that proofs can be about it.
Only(s, S) ==
  LET only[k \in 0 .. Len(s)] ==
        IF k = 0 THEN <<>>
        ELSE IF s[k] \in S THEN Append(only[k - 1], s[k]) ELSE only[k - 1]
  IN  only[Len(s)]
=============================================================================
