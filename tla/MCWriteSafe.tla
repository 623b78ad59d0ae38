---------------------------- MODULE MCWriteSafe ----------------------------
(***************************************************************************)
(* An instance of WritePath and one of FileSize for TLC.  They share a run *)
(* and nothing else: the calls of the write path move, or one handle's     *)
(* buffer does.                                                            *)
(***************************************************************************)
EXTENDS MCWritePath, MCWriteBuffer

\* No write() is left to this handle.
Parked ==
  /\ calls = MaxCalls + 1
  /\ bytes = <<>> /\ hashed = <<>> /\ file = <<>>
  /\ onDisk = FALSE /\ append = FALSE /\ forward = TRUE /\ inOrder = TRUE
  /\ written = 0 /\ shown = 0 /\ told = 0 /\ taken = 0 /\ by = "open"
  /\ flushed = FALSE /\ writing = FALSE /\ uploading = FALSE /\ missed = FALSE

BothInit == Init /\ (SizeInit \/ Parked)

BothSpec ==
  /\ BothInit
  /\ [][\/ calls > MaxCalls /\ Next /\ UNCHANGED <<bufferVars, sizeVars>>
        \/ calls <= MaxCalls /\ SizeNext /\ UNCHANGED vars]_<<vars, bufferVars, sizeVars>>
=============================================================================
