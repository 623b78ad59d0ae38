---------------------------- MODULE MCWriteBuffer ----------------------------
(***************************************************************************)
(* Instances of WriteBuffer for TLC.                                       *)
(***************************************************************************)
EXTENDS FileSize

\* A new file, and a Static file of two bytes.
NewOrStatic == {<<>>, <<1, 1>>}
=============================================================================
