------------------------------ MODULE FileSize ------------------------------
(***************************************************************************)
(* What stat() says of a file while it is written: the size field of its   *)
(* tree node (src/src/fuse/tree.rs), beside the buffer of the one handle   *)
(* it is open with.  write() sets it from the buffer, setattr() -- that is *)
(* ftruncate() -- sets it and nothing else, and the upload sets it to the  *)
(* length of what it took, which the server tells it back.  The kernel     *)
(* lets no two write() or setattr() calls on one inode overlap, but a      *)
(* flush() overlaps with both: another descriptor of the handle is open.   *)
(***************************************************************************)
EXTENDS WriteBuffer

VARIABLES
  shown,      \* the size field of the node
  flushed,    \* a close() has taken the data
  writing,    \* a write() has filled the buffer and not set the size yet
  told,       \* its new_size
  uploading,  \* do_upload is under way
  taken,      \* the length of its data
  \* observations
  missed,     \* a write() has come since it was taken
  by          \* what was the last to set shown

sizeVars == <<shown, flushed, writing, told, uploading, taken, missed, by>>

SizeInit ==
  /\ BufferInit
  /\ shown = Len(bytes)
  /\ flushed = FALSE /\ writing = FALSE /\ uploading = FALSE /\ missed = FALSE
  /\ told = 0 /\ taken = 0
  /\ by = "open"

ShownBy(n, who) == shown' = n /\ by' = who

\* Variant: the end of this write() is taken for the end of the file.
SizedWriteEnd ==
  /\ ~writing
  /\ \E offset \in 0 .. MaxWriteBytes, d \in Data :
       WriteAt(offset, d) /\ told' = Effective(offset) + Len(d)
  /\ writing' = TRUE
  /\ missed' = uploading
  /\ UNCHANGED <<shown, flushed, uploading, taken, by>>

\* write(): the buffer, under its lock.
SizedWrite ==
  /\ ~writing
  /\ BufferNext
  /\ told' = Size'
  /\ writing' = TRUE
  /\ missed' = uploading
  /\ UNCHANGED <<shown, flushed, uploading, taken, by>>

\* write(): update_file_size, under the lock of the tree.
TellSize ==
  /\ writing
  /\ writing' = FALSE
  /\ ShownBy(told, "write")
  /\ UNCHANGED <<bufferVars, flushed, told, uploading, taken, missed>>

\* setattr(size)
SetSize(n) ==
  /\ ~writing
  /\ n # shown
  /\ ShownBy(n, "setattr")
  /\ UNCHANGED <<bufferVars, flushed, writing, told, uploading, taken, missed>>

\* flush(): the data is taken, once in the life of the handle.
Take ==
  /\ ~flushed /\ Size > 0
  /\ flushed' = TRUE
  /\ uploading' = TRUE
  /\ taken' = Len(bytes)
  /\ missed' = FALSE
  /\ UNCHANGED <<bufferVars, shown, writing, told, by>>

\* do_upload: uploaded, or found on the server, and the node gets its length.
PublishSize ==
  /\ uploading
  /\ uploading' = FALSE
  /\ ShownBy(taken, IF missed THEN "overtaken" ELSE "upload")
  /\ UNCHANGED <<bufferVars, flushed, writing, told, taken, missed>>

\* do_upload fails.
UploadFails ==
  /\ uploading
  /\ uploading' = FALSE
  /\ UNCHANGED <<bufferVars, shown, flushed, writing, told, taken, missed, by>>

SizeNext ==
  \/ SizedWrite \/ TellSize
  \/ \E n \in 0 .. MaxWriteBytes : SetSize(n)
  \/ Take \/ PublishSize \/ UploadFails

SizeSpec == SizeInit /\ [][SizeNext]_<<bufferVars, sizeVars>>

-----------------------------------------------------------------------------
\* As long as a file is written forward or kept in memory, what stat() says when
\* no write() is under way is the length of the buffer, however write(), close()
\* and the upload overlap, but in two cases: ftruncate() was the last to set it
\* (fs.rs:1158), or an upload that a write() has overtaken was (fs.rs:697, 803).
\* The next write() ends either; whether what is in the buffer is ever uploaded is
\* another question.
SizeShown ==
  (forward \/ ~onDisk) /\ ~writing /\ by \notin {"setattr", "overtaken"}
    => shown = Len(bytes)
=============================================================================
