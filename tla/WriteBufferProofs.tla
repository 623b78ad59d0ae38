-------------------------- MODULE WriteBufferProofs --------------------------
(***************************************************************************)
(* Proofs about WriteBuffer and FileSize, for any limits, chunk lengths    *)
(* and numbers of calls.                                                   *)
(***************************************************************************)
EXTENDS FileSize, TLAPS

\* Chunks are non-empty sequences of bytes.
LEMMA DataType ==
  ASSUME NEW d \in Data
  PROVE  d \in Seq(Byte) /\ Len(d) \in Nat /\ Len(d) > 0
<1>1. PICK n \in 1 .. MaxChunk : d \in [1 .. n -> Byte]
  BY DEF Data
<1>2. n \in Nat /\ n > 0
  BY WriteBufferAssumption
<1>3. QED  BY <1>1, <1>2

\* Overlay gives a sequence that ends where the longer of the two ends.
LEMMA OverlayType ==
  ASSUME NEW s \in Seq(Byte), NEW d \in Seq(Byte), NEW off \in Nat
  PROVE  /\ Overlay(s, off, d) \in Seq(Byte)
         /\ Len(Overlay(s, off, d)) =
              IF off + Len(d) > Len(s) THEN off + Len(d) ELSE Len(s)
<1> DEFINE n == IF off + Len(d) > Len(s) THEN off + Len(d) ELSE Len(s)
<1>1. n \in Nat
  OBVIOUS
<1>2. \A i \in 1 .. n : i > off /\ i <= off + Len(d) => d[i - off] \in Byte
  OBVIOUS
<1>3. \A i \in 1 .. n : i <= Len(s) => s[i] \in Byte
  OBVIOUS
<1>4. Overlay(s, off, d) \in [1 .. n -> Byte]
  BY <1>2, <1>3, WriteBufferAssumption DEF Overlay
<1>5. QED  BY <1>1, <1>4

\* Padding gives a sequence that is at least as long as asked for.
LEMMA PadType ==
  ASSUME NEW s \in Seq(Byte), NEW n \in Nat
  PROVE  /\ Pad(s, n) \in Seq(Byte)
         /\ Len(Pad(s, n)) = IF n > Len(s) THEN n ELSE Len(s)
<1> DEFINE m == IF n > Len(s) THEN n ELSE Len(s)
<1>1. m \in Nat
  OBVIOUS
<1>2. Pad(s, n) \in [1 .. m -> Byte]
  BY WriteBufferAssumption DEF Pad
<1>3. QED  BY <1>1, <1>2

\* Writing past the end is padding and appending.
LEMMA PadThenAppend ==
  ASSUME NEW s \in Seq(Byte), NEW d \in Seq(Byte), NEW off \in Nat,
         off >= Len(s)
  PROVE  Pad(s, off) \o d = Overlay(s, off, d)
<1>1. Pad(s, off) \in Seq(Byte) /\ Len(Pad(s, off)) = off
  BY PadType
<1>2. Overlay(s, off, d) \in Seq(Byte)
      /\ Len(Overlay(s, off, d)) = off + Len(d)
  BY OverlayType
<1>3. Pad(s, off) \o d \in Seq(Byte) /\ Len(Pad(s, off) \o d) = off + Len(d)
  BY <1>1
<1>4. ASSUME NEW i \in 1 .. off + Len(d)
      PROVE  (Pad(s, off) \o d)[i] = Overlay(s, off, d)[i]
  <2>1. CASE i <= off
    <3>1. (Pad(s, off) \o d)[i] = Pad(s, off)[i]
      BY <1>1, <2>1
    <3>2. QED  BY <2>1, <3>1 DEF Pad, Overlay
  <2>2. CASE i > off
    <3>1. (Pad(s, off) \o d)[i] = d[i - off]
      BY <1>1, <2>2
    <3>2. QED  BY <2>2, <3>1 DEF Overlay
  <2>3. i \in Nat
    OBVIOUS
  <2>4. i <= off \/ i > off
    BY <2>3
  <2>5. QED  BY <2>1, <2>2, <2>4
<1>5. QED  BY <1>2, <1>3, <1>4

\* Writing at the end is appending.
LEMMA AppendIsOverlay ==
  ASSUME NEW s \in Seq(Byte), NEW d \in Seq(Byte)
  PROVE  s \o d = Overlay(s, Len(s), d)
<1>1. Len(s) \in Nat /\ Len(s) >= Len(s)
  OBVIOUS
<1>2. Pad(s, Len(s)) \o d = Overlay(s, Len(s), d)
  BY <1>1, PadThenAppend
<1>3. Pad(s, Len(s)) \in Seq(Byte) /\ Len(Pad(s, Len(s))) = Len(s)
  BY <1>1, PadType
<1>4. \A i \in 1 .. Len(s) : Pad(s, Len(s))[i] = s[i]
  BY DEF Pad
<1>5. Pad(s, Len(s)) = s
  BY <1>3, <1>4
<1>6. QED  BY <1>2, <1>5

\* The inductive invariant: what the four properties need of each other.
BufferInv ==
  /\ BufferTypeOK
  /\ append => inOrder
  /\ inOrder => hashed = file
  /\ inOrder => forward
  /\ GapsZeroFilled
  /\ MemoryExact

\* A write() keeps it.
LEMMA BufferStep ==
  ASSUME BufferInv, NEW offset \in 0 .. MaxWriteBytes, NEW d \in Data,
         WriteAt(offset, d)
  PROVE  BufferInv'
<1> DEFINE off == Effective(offset)
           at  == IF append THEN Len(file) ELSE offset
<1>1. d \in Seq(Byte) /\ Len(d) > 0
  BY DataType
<1>2. off \in Nat /\ at \in Nat
  BY WriteBufferAssumption DEF BufferInv, BufferTypeOK, Effective, Size
<1>3. at = off \/ (onDisk /\ ~forward)
  BY DEF BufferInv, Effective, Size, GapsZeroFilled, MemoryExact
<1>4. append => at = off
  BY DEF BufferInv, Effective, GapsZeroFilled
<1>5. /\ hashed' = hashed \o d
      /\ file' = Overlay(file, at, d)
      /\ forward' = (forward /\ at >= Len(file))
      /\ inOrder' = (inOrder /\ at = Len(file))
      /\ append' = append
      /\ calls' = calls + 1
  BY DEF WriteAt
<1>6. file' \in Seq(Byte)
      /\ Len(file') = IF at + Len(d) > Len(file) THEN at + Len(d) ELSE Len(file)
  BY <1>1, <1>2, <1>5, OverlayType DEF BufferInv, BufferTypeOK
<1>7. /\ bytes' \in Seq(Byte) /\ onDisk' \in BOOLEAN /\ written' \in Nat
      /\ onDisk' => written' = off + Len(d)
      /\ at = off /\ (bytes = file \/ ~onDisk) /\ (~onDisk' \/ onDisk \/ at >= Len(file))
           => (bytes = file => bytes' = file')
  <2>1. CASE WriteMemory(off, d)
    BY <1>1, <1>2, <1>5, <2>1, OverlayType
    DEF BufferInv, BufferTypeOK, WriteMemory
  <2>2. CASE WriteDisk(off, d)
    BY <1>1, <1>2, <1>5, <2>2, OverlayType DEF BufferInv, BufferTypeOK, WriteDisk
  <2>3. CASE Spill(off, d)
    <3>1. Pad(bytes, off) \in Seq(Byte)
      BY <1>2, PadType DEF BufferInv, BufferTypeOK
    <3>2. bytes' \in Seq(Byte)
      BY <1>1, <2>3, <3>1 DEF Spill
    <3>3. at = off /\ at >= Len(file) /\ bytes = file => bytes' = file'
      BY <1>1, <1>2, <1>5, <2>3, PadThenAppend DEF BufferInv, BufferTypeOK, Spill
    <3>4. QED  BY <1>1, <1>2, <2>3, <3>2, <3>3 DEF Spill
  <2>4. QED  BY <2>1, <2>2, <2>3 DEF WriteAt
<1>8. BufferTypeOK'
  <2>1. off + Len(d) <= MaxWriteBytes /\ (onDisk' \/ written' = written)
    BY DEF WriteAt, WriteMemory, Spill, WriteDisk
  <2>2. written' \in 0 .. MaxWriteBytes
    BY <1>1, <1>2, <1>7, <2>1 DEF BufferInv, BufferTypeOK
  <2>3. hashed' \in Seq(Byte) /\ forward' \in BOOLEAN /\ inOrder' \in BOOLEAN
        /\ append' \in BOOLEAN /\ calls' \in Nat
    BY <1>1, <1>5 DEF BufferInv, BufferTypeOK
  <2>4. QED  BY <1>6, <1>7, <2>2, <2>3, Zenon DEF BufferTypeOK
<1>9. inOrder' => hashed' = file'
  BY <1>1, <1>5, AppendIsOverlay DEF BufferInv, BufferTypeOK
<1>10. GapsZeroFilled'
  BY <1>1, <1>2, <1>3, <1>5, <1>6, <1>7
  DEF BufferInv, GapsZeroFilled, Size, BufferTypeOK
<1>11. MemoryExact'
  <2>1. ~onDisk' => ~onDisk
    BY DEF WriteAt, WriteMemory, Spill, WriteDisk
  <2>2. QED  BY <1>3, <1>7, <2>1 DEF BufferInv, MemoryExact
<1>12. (append' => inOrder') /\ (inOrder' => forward')
  <2>1. Len(file) \in Nat
    BY DEF BufferInv, BufferTypeOK
  <2>2. append' => inOrder'
    BY <1>5 DEF BufferInv
  <2>3. at = Len(file) => at >= Len(file)
    BY <2>1
  <2>4. inOrder' => forward'
    BY <1>5, <2>3 DEF BufferInv
  <2>5. QED  BY <2>2, <2>4
<1>13. QED  BY <1>8, <1>9, <1>10, <1>11, <1>12 DEF BufferInv

LEMMA InitBuffer == BufferInit => BufferInv
<1>1. BufferInit => bytes \in Seq(Byte)
  BY WriteBufferAssumption DEF BufferInit
<1>2. BufferInit => BufferTypeOK
  <2>1. BufferInit => written \in 0 .. MaxWriteBytes /\ calls \in Nat
    BY WriteBufferAssumption DEF BufferInit
  <2>2. QED  BY <1>1, <2>1, Zenon DEF BufferInit, BufferTypeOK
<1>3. BufferInit => GapsZeroFilled
  BY DEF BufferInit, GapsZeroFilled, Size
<1>4. QED  BY <1>2, <1>3 DEF BufferInit, BufferInv, MemoryExact

\* The inductive invariant holds always.
THEOREM BufferCorrect == BufferSpec => []BufferInv
<1>1. BufferInv /\ [BufferNext]_bufferVars => BufferInv'
  <2>1. ASSUME BufferInv, BufferNext
        PROVE  BufferInv'
    BY <2>1, BufferStep DEF BufferNext
  <2>2. ASSUME BufferInv, UNCHANGED bufferVars
        PROVE  BufferInv'
    BY <2>2
    DEF bufferVars, BufferInv, BufferTypeOK, GapsZeroFilled, MemoryExact, Size
  <2>3. QED  BY <2>1, <2>2
<1>2. QED  BY InitBuffer, <1>1, PTL DEF BufferSpec

\* The variables have their types; a file on disk stays within --max-write-mb.
THEOREM TypeCorrect == BufferSpec => []BufferTypeOK
BY BufferCorrect, PTL DEF BufferInv

\* A file written front to back is uploaded exactly, under its own hash.
THEOREM InOrderIsExact == BufferSpec => []InOrderExact
<1>1. BufferInv => InOrderExact
  BY DEF BufferInv, InOrderExact, GapsZeroFilled
<1>2. QED  BY <1>1, BufferCorrect, PTL

\* So is everything written through an O_APPEND handle.
THEOREM AppendIsExact == BufferSpec => []AppendExact
<1>1. BufferInv => AppendExact
  BY DEF BufferInv, AppendExact, GapsZeroFilled
<1>2. QED  BY <1>1, BufferCorrect, PTL

\* Gaps are zeros wherever the spill falls.
THEOREM GapsAreZeros == BufferSpec => []GapsZeroFilled
BY BufferCorrect, PTL DEF BufferInv

\* In memory, any order of writes gives the file.
THEOREM MemoryIsExact == BufferSpec => []MemoryExact
BY BufferCorrect, PTL DEF BufferInv

\* All four: what is uploaded is what the same calls make of a file.
THEOREM DataIsExact == BufferSpec => []DataExact
BY InOrderIsExact, AppendIsExact, GapsAreZeros, MemoryIsExact, PTL DEF DataExact

-----------------------------------------------------------------------------
(* FileSize: the size shown needs the buffer's invariant, since write()    *)
(* takes it from the buffer's own idea of its length.                      *)

\* A write() has the length to show, an upload that nothing overtook has that of
\* the buffer.
SizeInv ==
  /\ BufferInv
  /\ writing /\ (forward \/ ~onDisk) => told = Len(bytes)
  /\ uploading /\ ~missed => taken = Len(bytes)
  /\ SizeShown

LEMMA SizeStep == SizeInv /\ [SizeNext]_<<bufferVars, sizeVars>> => SizeInv'
<1> SUFFICES ASSUME SizeInv, [SizeNext]_<<bufferVars, sizeVars>> PROVE SizeInv'
  OBVIOUS
<1>1. ASSUME UNCHANGED bufferVars
      PROVE  /\ BufferInv'
             /\ UNCHANGED <<bytes, forward, onDisk>>
  BY <1>1 DEF SizeInv, bufferVars, BufferInv, BufferTypeOK, GapsZeroFilled, MemoryExact, Size
<1>2. CASE SizedWrite
  <2>1. BufferInv'
    BY <1>2, BufferStep DEF SizeInv, SizedWrite, BufferNext
  <2>2. (forward' \/ ~onDisk') => Size' = Len(bytes')
    BY <2>1 DEF BufferInv, GapsZeroFilled, Size
  <2>3. writing' /\ told' = Size' /\ (uploading' => missed')
    BY <1>2 DEF SizedWrite
  <2>4. QED  BY <2>1, <2>2, <2>3 DEF SizeInv, SizeShown
<1>3. CASE TellSize
  <2>1. BufferInv' /\ UNCHANGED <<bytes, forward, onDisk>>
    BY <1>1, <1>3 DEF TellSize
  <2>2. SizeShown'
    BY <1>3, <2>1 DEF TellSize, ShownBy, SizeInv, SizeShown
  <2>3. QED  BY <1>3, <2>1, <2>2 DEF TellSize, SizeInv
<1>4. ASSUME NEW n \in 0 .. MaxWriteBytes, SetSize(n) PROVE SizeInv'
  <2>1. BufferInv' /\ UNCHANGED <<bytes, forward, onDisk>>
    BY <1>1, <1>4 DEF SetSize
  <2>2. QED  BY <1>4, <2>1 DEF SetSize, ShownBy, SizeInv, SizeShown
<1>5. CASE Take
  <2>1. BufferInv' /\ UNCHANGED <<bytes, forward, onDisk>>
    BY <1>1, <1>5 DEF Take
  <2>2. QED  BY <1>5, <2>1 DEF Take, SizeInv, SizeShown
<1>6. CASE PublishSize
  <2>1. BufferInv' /\ UNCHANGED <<bytes, forward, onDisk>>
    BY <1>1, <1>6 DEF PublishSize
  <2>2. SizeShown'
    BY <1>6, <2>1 DEF PublishSize, ShownBy, SizeInv, SizeShown
  <2>3. QED  BY <1>6, <2>1, <2>2 DEF PublishSize, SizeInv
<1>7. CASE UploadFails
  <2>1. BufferInv' /\ UNCHANGED <<bytes, forward, onDisk>>
    BY <1>1, <1>7 DEF UploadFails
  <2>2. QED  BY <1>7, <2>1 DEF UploadFails, SizeInv, SizeShown
<1>8. CASE UNCHANGED <<bufferVars, sizeVars>>
  <2>1. BufferInv' /\ UNCHANGED <<bytes, forward, onDisk>>
    BY <1>1, <1>8
  <2>2. QED  BY <1>8, <2>1 DEF SizeInv, SizeShown, sizeVars
<1>9. QED  BY <1>2, <1>3, <1>4, <1>5, <1>6, <1>7, <1>8 DEF SizeNext

\* stat() tells the length of the buffer, however writes, spills, ftruncate(),
\* close() and the upload follow and overlap one another, but after a write that
\* went backward on disk, and after an ftruncate() or the end of an upload that a
\* write() has overtaken, up to the next write().
THEOREM SizeIsShown == SizeSpec => []SizeShown
<1>1. SizeInit => SizeInv
  <2>1. SizeInit => BufferInv
    BY InitBuffer DEF SizeInit
  <2>2. QED  BY <2>1 DEF SizeInit, SizeInv, SizeShown
<1>2. SizeInv => SizeShown
  BY DEF SizeInv
<1>3. QED  BY <1>1, <1>2, SizeStep, PTL DEF SizeSpec
=============================================================================
