----------------------------- MODULE WriteBuffer -----------------------------
(***************************************************************************)
(* The data of one WriteBuffer (src/src/fuse/fs.rs): what write() puts in  *)
(* memory or, past --spill-threshold, in a temporary file, and what it     *)
(* feeds to the streaming SHA-256 hasher, for calls at any offset.  Beside *)
(* it, the file the application thinks it is writing.                      *)
(*                                                                         *)
(* The bytes fed to the hasher stand for the hash: no two are taken to     *)
(* collide.  Calls on one handle are serialised by the write_state mutex.  *)
(***************************************************************************)
EXTENDS Naturals, Sequences

CONSTANTS
  Byte,            \* the bytes an application writes
  Zero,            \* the filler of a gap
  Initials,        \* the Static contents open() may start from
  MaxWriteBytes,   \* --max-write-mb
  SpillThreshold,  \* spill_threshold
  MaxChunk,        \* bound: bytes per write() call
  MaxCalls         \* bound: write() calls on the handle

ASSUME WriteBufferAssumption ==
  /\ Zero \in Byte
  /\ Initials \subseteq Seq(Byte)
  /\ MaxWriteBytes \in Nat
  /\ SpillThreshold \in Nat
  /\ MaxChunk \in Nat
  /\ MaxCalls \in Nat

VARIABLES
  onDisk,    \* WriteStorage::Disk instead of WriteStorage::Memory
  bytes,     \* what read_all() returns
  written,   \* the length field of WriteStorage::Disk
  hashed,    \* everything hasher.update() was given
  append,    \* O_APPEND
  \* observations
  file,      \* what the application wrote, by the rules of POSIX
  forward,   \* every write() started at or past the end of the file
  inOrder,   \* every write() started exactly at the end of the file
  calls

bufferVars == <<onDisk, bytes, written, hashed, append, file, forward, inOrder, calls>>

\* WriteStorage::len
Size == IF onDisk THEN written ELSE Len(bytes)

\* d written over s at offset off, a gap between them filled with Zero.
Overlay(s, off, d) ==
  LET end == off + Len(d) IN
  [i \in 1 .. (IF end > Len(s) THEN end ELSE Len(s)) |->
     IF i > off /\ i <= end THEN d[i - off]
     ELSE IF i <= Len(s) THEN s[i] ELSE Zero]

\* s followed by Zero up to length n.
Pad(s, n) == [i \in 1 .. (IF n > Len(s) THEN n ELSE Len(s)) |->
                IF i <= Len(s) THEN s[i] ELSE Zero]

\* A handle of create() starts empty, one of open() with the Static content.
BufferInit ==
  /\ onDisk = FALSE
  /\ bytes \in Initials
  /\ written = 0
  /\ hashed = bytes
  /\ append \in BOOLEAN
  /\ file = bytes
  /\ forward = TRUE
  /\ inOrder = TRUE
  /\ calls = 0

\* In memory: resize with zeros, copy over.
WriteMemory(off, d) ==
  /\ ~onDisk
  /\ off + Len(d) <= SpillThreshold
  /\ bytes' = Overlay(bytes, off, d)
  /\ UNCHANGED <<onDisk, written>>

\* Variant: the length starts with the data that caused the spill.
SpillForgetsLength(off, d) ==
  /\ ~onDisk
  /\ off + Len(d) > SpillThreshold
  /\ onDisk' = TRUE
  /\ bytes' = Pad(bytes, off) \o d
  /\ written' = Len(d)

\* Past the threshold: everything so far goes to a temporary file, padded up
\* to the offset if it is shorter, and the new data after it.
Spill(off, d) ==
  /\ ~onDisk
  /\ off + Len(d) > SpillThreshold
  /\ onDisk' = TRUE
  /\ bytes' = Pad(bytes, off) \o d
  /\ written' = off + Len(d)

\* On disk: seek and write; the length is taken to be the end of this write.
WriteDisk(off, d) ==
  /\ onDisk
  /\ bytes' = Overlay(bytes, off, d)
  /\ written' = off + Len(d)
  /\ UNCHANGED onDisk

\* Where the data goes: O_APPEND ignores the kernel's offset.
Effective(offset) == IF append THEN Size ELSE offset

\* write(fh, offset, d), when it does not end in EFBIG.
WriteAt(offset, d) ==
  LET off == Effective(offset)
      at  == IF append THEN Len(file) ELSE offset
  IN
  /\ calls < MaxCalls
  /\ off + Len(d) <= MaxWriteBytes
  /\ hashed' = hashed \o d
  /\ WriteMemory(off, d) \/ Spill(off, d) \/ WriteDisk(off, d)
  /\ file' = Overlay(file, at, d)
  /\ forward' = (forward /\ at >= Len(file))
  /\ inOrder' = (inOrder /\ at = Len(file))
  /\ calls' = calls + 1
  /\ UNCHANGED append

Data == UNION {[1 .. n -> Byte] : n \in 1 .. MaxChunk}

BufferNext == \E offset \in 0 .. MaxWriteBytes, d \in Data : WriteAt(offset, d)

BufferSpec == BufferInit /\ [][BufferNext]_bufferVars

-----------------------------------------------------------------------------
\* The length of a file on disk never exceeds --max-write-mb.
BufferTypeOK ==
  /\ onDisk \in BOOLEAN
  /\ bytes \in Seq(Byte)
  /\ written \in 0 .. MaxWriteBytes
  /\ hashed \in Seq(Byte)
  /\ append \in BOOLEAN
  /\ file \in Seq(Byte)
  /\ forward \in BOOLEAN
  /\ inOrder \in BOOLEAN
  /\ calls \in Nat

\* A file written front to back, by any chunks, is uploaded exactly, under its
\* own hash and with the right size, wherever the spill to disk falls.
InOrderExact ==
  inOrder => bytes = file /\ hashed = file /\ Size = Len(file)

\* O_APPEND handles are always written front to back: nothing the kernel sends
\* as an offset disturbs them.
AppendExact == append => bytes = file /\ hashed = file

\* Skipping forward leaves zeros, in memory, at the spill and on disk.
GapsZeroFilled == forward => bytes = file /\ Size = Len(file)

\* As long as it is in memory, the buffer is the file, whatever was
\* overwritten in whatever order.
MemoryExact == ~onDisk => bytes = file

\* What is uploaded is what the same calls make of a file, and in order it has
\* the hash that is signed, as far as the code keeps that promise: always in
\* memory, and on disk unless something is overwritten.
DataExact == InOrderExact /\ AppendExact /\ GapsZeroFilled /\ MemoryExact

(* What the documentation claims and the code does not do.                 *)

\* docs/design.md:339: the upload is signed for the "SHA-256 hash of the
\* data".
HashIsOfData == hashed = bytes
=============================================================================
