--------------------------- MODULE WritePathProofs ---------------------------
(***************************************************************************)
(* Proofs about WritePath, for any numbers of names, threads, permits,     *)
(* files, handles and chunks.                                              *)
(***************************************************************************)
EXTENDS WritePath, FiniteSetTheorems, TLAPS

-----------------------------------------------------------------------------
(* The permits.                                                            *)

\* The holders are finitely many.
LEMMA HoldersFinite == IsFiniteSet(Holders) /\ Cardinality(Holders) \in Nat
<1>1. Holders \subseteq Threads
  BY DEF Holders
<1>2. IsFiniteSet(Holders)
  BY <1>1, WritePathAssumption, FS_Subset
<1>3. QED  BY <1>2, FS_CardinalityType

\* A thread that starts to hold a permit makes one holder more.
LEMMA HolderAdded ==
  ASSUME NEW t \in Threads, pc[t] \notin Holding,
         Holders' = Holders \union {t}
  PROVE  Cardinality(Holders') = Cardinality(Holders) + 1
<1>1. t \notin Holders
  BY DEF Holders
<1>2. QED  BY <1>1, HoldersFinite, FS_AddElement

\* A thread that stops makes one less, and there was one.
LEMMA HolderRemoved ==
  ASSUME NEW t \in Threads, pc[t] \in Holding,
         Holders' = Holders \ {t}
  PROVE  /\ Cardinality(Holders') = Cardinality(Holders) - 1
         /\ Cardinality(Holders) > 0
<1>1. t \in Holders
  BY DEF Holders
<1>2. Cardinality(Holders') = Cardinality(Holders) - 1
  BY <1>1, HoldersFinite, FS_RemoveElement
<1>3. Cardinality(Holders) # 0
  BY <1>1, HoldersFinite, FS_EmptySet
<1>4. QED  BY <1>2, <1>3, HoldersFinite

\* Every step keeps the sum of free and held permits.
LEMMA PermitsStep ==
  ASSUME TypeOK, PermitsExact, [Next]_vars
  PROVE  PermitsExact' /\ permits' \in 0 .. Permits
<1>1. Permits \in Nat /\ permits \in Nat
  BY WritePathAssumption DEF TypeOK
<1>2. ASSUME permits' = permits, Holders' = Holders
      PROVE  PermitsExact' /\ permits' \in 0 .. Permits
  BY <1>2 DEF PermitsExact, TypeOK
<1>3. ASSUME NEW t \in Threads, pc[t] \notin Holding,
             NEW p \in PCs \ Holding, pc' = [pc EXCEPT ![t] = p]
      PROVE  Holders' = Holders
  BY <1>3 DEF Holders, TypeOK
<1>4. ASSUME NEW t \in Threads, pc[t] \in Holding,
             NEW p \in Holding, pc' = [pc EXCEPT ![t] = p]
      PROVE  Holders' = Holders
  BY <1>4 DEF Holders, TypeOK
<1>5. ASSUME pc' = pc
      PROVE  Holders' = Holders
  BY <1>5 DEF Holders
<1>6. ASSUME NEW t \in Threads, AcquirePermit(t)
      PROVE  PermitsExact' /\ permits' \in 0 .. Permits
  <2>1. Holders' = Holders \union {t} /\ pc[t] \notin Holding
    BY <1>6 DEF AcquirePermit, Goto, Holders, Holding, TypeOK
  <2>2. permits > 0 /\ permits' = permits - 1
    BY <1>6 DEF AcquirePermit
  <2>3. Cardinality(Holders') = Cardinality(Holders) + 1
    BY <2>1, HolderAdded
  <2>4. permits' + Cardinality(Holders') = Permits /\ permits' \in 0 .. Permits
    BY <1>1, <2>2, <2>3, HoldersFinite DEF PermitsExact
  <2>5. QED  BY <2>4 DEF PermitsExact
<1>7. ASSUME NEW t \in Threads, Publish(t) \/ Fail(t)
      PROVE  PermitsExact' /\ permits' \in 0 .. Permits
  <2>1. Holders' = Holders \ {t} /\ pc[t] \in Holding
    BY <1>7 DEF Publish, Fail, Return, Holders, Holding, TypeOK
  <2>2. permits' = permits + 1
    BY <1>7 DEF Publish, Fail, Return
  <2>3. /\ Cardinality(Holders') = Cardinality(Holders) - 1
        /\ Cardinality(Holders) > 0
    BY <2>1, HolderRemoved
  <2>4. permits' + Cardinality(Holders') = Permits /\ permits' \in 0 .. Permits
    BY <1>1, <2>2, <2>3, HoldersFinite DEF PermitsExact
  <2>5. QED  BY <2>4 DEF PermitsExact
<1>8. ASSUME NEW t \in Threads,
             \/ HeadExists(t) \/ HeadMisses(t)
             \/ PreflightPasses(t) \/ PreflightRejects(t)
             \/ PutStores(t) \/ PutLost(t) \/ PutFails(t)
      PROVE  PermitsExact' /\ permits' \in 0 .. Permits
  <2>1. pc[t] \in Holding
        /\ \E p \in Holding : pc' = [pc EXCEPT ![t] = p]
    BY <1>8 DEF HeadExists, HeadMisses, PreflightPasses, PreflightRejects,
                PutStores, PutLost, PutFails, Goto, Holding
  <2>2. permits' = permits
    BY <1>8 DEF HeadExists, HeadMisses, PreflightPasses, PreflightRejects,
                PutStores, PutLost, PutFails
  <2>3. QED  BY <1>2, <1>4, <2>1, <2>2
<1>9. ASSUME NEW t \in Threads, DeleteBlob(t) \/ Remove(t)
      PROVE  PermitsExact' /\ permits' \in 0 .. Permits
  <2>1. pc[t] \notin Holding
        /\ \E p \in PCs \ Holding : pc' = [pc EXCEPT ![t] = p]
    BY <1>9 DEF DeleteBlob, Remove, Holding, PCs
  <2>2. permits' = permits
    BY <1>9 DEF DeleteBlob, Remove
  <2>3. QED  BY <1>2, <1>3, <2>1, <2>2
<1>10. ASSUME NEW t \in Threads, NEW n \in Names, Unlink(t, n)
       PROVE  PermitsExact' /\ permits' \in 0 .. Permits
  <2>1. pc[t] \notin Holding
        /\ \E p \in PCs \ Holding : pc' = [pc EXCEPT ![t] = p]
    BY <1>10 DEF Unlink, Holding, PCs
  <2>2. permits' = permits
    BY <1>10 DEF Unlink
  <2>3. QED  BY <1>2, <1>3, <2>1, <2>2
<1>11. ASSUME NEW t \in Threads, NEW fh \in Handles,
              Flush(t, fh) \/ Release(t, fh)
       PROVE  PermitsExact' /\ permits' \in 0 .. Permits
  <2>1. pc[t] \notin Holding
        /\ (pc' = pc \/ \E p \in PCs \ Holding : pc' = [pc EXCEPT ![t] = p])
    BY <1>11 DEF Flush, Release, StartUpload, Holding, PCs
  <2>2. permits' = permits
    BY <1>11 DEF Flush, Release
  <2>3. QED  BY <1>2, <1>3, <1>5, <2>1, <2>2
<1>12. ASSUME UNCHANGED <<permits, pc>>
       PROVE  PermitsExact' /\ permits' \in 0 .. Permits
  BY <1>2, <1>5, <1>12
<1>13. QED
  BY <1>6, <1>7, <1>8, <1>9, <1>10, <1>11, <1>12
  DEF Next, Answered, vars, SetFrozen, CreateNew, CreateTrunc, Open, Dup, Map,
      Unmap, Write

-----------------------------------------------------------------------------
(* Types.                                                                  *)

\* do_upload starts with a call of the right type.
LEMMA StartUploadType ==
  ASSUME TypeOK, NEW t \in Threads, NEW fh \in Handles,
         NEW op \in {"flush", "release"}, StartUpload(t, fh, op)
  PROVE  /\ pc' \in [Threads -> PCs]
         /\ call' \in [Threads -> Calls]
         /\ starts' \in [Handles -> Nat]
<1>1. buf[fh] \in Buffers
  BY DEF TypeOK
<1>2. [op |-> op, fh |-> fh, ino |-> buf[fh].ino,
       name |-> buf[fh].name, data |-> buf[fh].data] \in Calls
  BY <1>1 DEF Buffers, Calls, CallOps
<1>3. QED  BY <1>2 DEF StartUpload, TypeOK, PCs

\* A new handle is of the right type.
LEMMA NewHandleType ==
  ASSUME TypeOK, NEW i \in Inodes, NEW n \in Names \union {NoName},
         NewHandle(i, n)
  PROVE  /\ nextFh' \in 1 .. (MaxHandles + 1)
         /\ open' \in SUBSET Handles
         /\ buf' \in [Handles -> Buffers]
         /\ fds' \in [Handles -> Nat]
<1>1. [ino |-> i, name |-> n, data |-> <<>>, flushed |-> FALSE] \in Buffers
  BY DEF Buffers, Contents
<1>2. nextFh + 1 \in 1 .. (MaxHandles + 1)
  BY WritePathAssumption DEF NewHandle, Handles
<1>3. QED  BY <1>1, <1>2 DEF NewHandle, TypeOK

\* Every step keeps the types.
LEMMA TypeStep ==
  ASSUME TypeOK, [Next]_vars, permits' \in 0 .. Permits
  PROVE  TypeOK'
<1>1. ASSUME NEW n \in Names, CreateNew(n)
      PROVE  TypeOK'
  <2>1. nextIno \in Inodes /\ NewHandle(nextIno, n)
    BY <1>1 DEF CreateNew
  <2>2. /\ nextFh' \in 1 .. (MaxHandles + 1)
        /\ open' \in SUBSET Handles
        /\ buf' \in [Handles -> Buffers]
        /\ fds' \in [Handles -> Nat]
    BY <2>1, NewHandleType
  <2>3. nextIno' \in 1 .. (MaxInodes + 1)
    BY <1>1, WritePathAssumption DEF CreateNew, Inodes
  <2>4. dir' \in [Names -> Inodes \union {NoFile}]
    BY <1>1, <2>1 DEF CreateNew, TypeOK
  <2>5. QED  BY <1>1, <2>2, <2>3, <2>4 DEF CreateNew, TypeOK, seen
<1>2. ASSUME NEW n \in Names, CreateTrunc(n)
      PROVE  TypeOK'
  <2>1. dir[n] \in Inodes /\ NewHandle(dir[n], n)
    BY <1>2 DEF CreateTrunc, TypeOK
  <2>2. /\ nextFh' \in 1 .. (MaxHandles + 1)
        /\ open' \in SUBSET Handles
        /\ buf' \in [Handles -> Buffers]
        /\ fds' \in [Handles -> Nat]
    BY <2>1, NewHandleType
  <2>3. node' \in [Inodes -> [remote : BOOLEAN, hash : Contents]]
    BY <1>2 DEF CreateTrunc, TypeOK, Static, Contents
  <2>4. QED  BY <1>2, <2>2, <2>3 DEF CreateTrunc, TypeOK, seen
<1>3. ASSUME NEW n \in Names, Open(n)
      PROVE  TypeOK'
  <2>1. dir[n] \in Inodes /\ NewHandle(dir[n], NoName)
    BY <1>3 DEF Open, TypeOK
  <2>2. /\ nextFh' \in 1 .. (MaxHandles + 1)
        /\ open' \in SUBSET Handles
        /\ buf' \in [Handles -> Buffers]
        /\ fds' \in [Handles -> Nat]
    BY <2>1, NewHandleType
  <2>3. QED  BY <1>3, <2>2 DEF Open, TypeOK, seen
<1>4. ASSUME NEW fh \in Handles, NEW c \in Chunks, Write(fh, c)
      PROVE  TypeOK'
  <2>1. buf[fh] \in Buffers
    BY DEF TypeOK
  <2>2. Append(buf[fh].data, c) \in Contents
    BY <2>1 DEF Buffers, Contents
  <2>3. buf' \in [Handles -> Buffers]
    BY <1>4, <2>1, <2>2 DEF Write, TypeOK, Buffers
  <2>4. late' \in SUBSET Handles
    BY <1>4 DEF Write, TypeOK
  <2>5. QED  BY <1>4, <2>3, <2>4 DEF Write, TypeOK, kernel
<1>5. ASSUME NEW fh \in Handles, Dup(fh) \/ Map(fh) \/ Unmap(fh)
      PROVE  TypeOK'
  <2>1. fds' \in [Handles -> Nat]
    BY <1>5 DEF Dup, Map, Unmap, TypeOK
  <2>2. maps' \in [Handles -> Nat]
    BY <1>5 DEF Dup, Map, Unmap, TypeOK
  <2>3. QED  BY <1>5, <2>1, <2>2 DEF Dup, Map, Unmap, TypeOK, seen
<1>6. ASSUME NEW t \in Threads, NEW fh \in Handles, Flush(t, fh)
      PROVE  TypeOK'
  <2>1. fds' \in [Handles -> Nat]
    BY <1>6 DEF Flush, TypeOK
  <2>2. /\ pc' \in [Threads -> PCs]
        /\ call' \in [Threads -> Calls]
        /\ starts' \in [Handles -> Nat]
    <3>1. CASE StartUpload(t, fh, "flush")
      BY <3>1, StartUploadType
    <3>2. CASE UNCHANGED <<pc, call, starts>>
      BY <3>2 DEF TypeOK
    <3>3. QED  BY <1>6, <3>1, <3>2 DEF Flush
  <2>3. buf' \in [Handles -> Buffers]
    <3>1. buf[fh] \in Buffers
      BY DEF TypeOK
    <3>2. [buf[fh] EXCEPT !.flushed = TRUE] \in Buffers
      BY <3>1 DEF Buffers
    <3>3. CASE buf' = buf
      BY <3>3 DEF TypeOK
    <3>4. CASE buf' = [buf EXCEPT ![fh].flushed = TRUE]
      BY <3>2, <3>4 DEF TypeOK
    <3>5. QED  BY <1>6, <3>3, <3>4 DEF Flush
  <2>4. QED  BY <1>6, <2>1, <2>2, <2>3 DEF Flush, TypeOK
<1>7. ASSUME NEW t \in Threads, NEW fh \in Handles, Release(t, fh)
      PROVE  TypeOK'
  <2>1. /\ pc' \in [Threads -> PCs]
        /\ call' \in [Threads -> Calls]
        /\ starts' \in [Handles -> Nat]
    <3>1. CASE StartUpload(t, fh, "release")
      BY <3>1, StartUploadType
    <3>2. CASE UNCHANGED <<pc, call, starts>>
      BY <3>2 DEF TypeOK
    <3>3. QED  BY <1>7, <3>1, <3>2 DEF Release
  <2>2. open' \in SUBSET Handles
    BY <1>7 DEF Release, TypeOK
  <2>3. QED  BY <1>7, <2>1, <2>2 DEF Release, TypeOK, kernel
<1>8. ASSUME NEW t \in Threads,
             \/ AcquirePermit(t) \/ HeadExists(t) \/ HeadMisses(t)
             \/ PreflightPasses(t) \/ PreflightRejects(t)
             \/ PutStores(t) \/ PutLost(t) \/ PutFails(t)
      PROVE  TypeOK'
  <2>1. PICK here \in PCs, there \in PCs : Goto(t, here, there)
    BY <1>8 DEF AcquirePermit, HeadExists, HeadMisses, PreflightPasses,
                PreflightRejects, PutStores, PutLost, PutFails, PCs, Holding
  <2>2. pc' \in [Threads -> PCs]
    BY <2>1 DEF Goto, TypeOK
  <2>3. call[t].data \in Contents
    BY DEF TypeOK, Calls
  <2>4. server' \in SUBSET Contents
    BY <1>8, <2>3
    DEF AcquirePermit, HeadExists, HeadMisses, PreflightPasses,
        PreflightRejects, PutStores, PutLost, PutFails, TypeOK
  <2>5. QED  BY <2>1, <2>2, <2>4 DEF Goto, TypeOK, kernel, seen
<1>9. ASSUME NEW t \in Threads, Publish(t) \/ Fail(t)
      PROVE  TypeOK'
  <2>1. call[t] \in Calls
    BY DEF TypeOK
  <2>2. NoCall \in Calls
    BY DEF NoCall, Calls, CallOps, Contents
  <2>3. pc' \in [Threads -> PCs] /\ call' \in [Threads -> Calls]
    BY <1>9, <2>2 DEF Publish, Fail, Return, TypeOK, PCs
  <2>4. outcome' \in [Handles -> {"none", "stored", "eio", "dropped"}]
    BY <1>9 DEF Publish, Fail, Return, TypeOK
  <2>5. node' \in [Inodes -> [remote : BOOLEAN, hash : Contents]]
    <3>1. Remote(call[t].data) \in [remote : BOOLEAN, hash : Contents]
      BY <2>1 DEF Remote, Calls
    <3>2. CASE node' = node
      BY <3>2 DEF TypeOK
    <3>3. CASE node' = [node EXCEPT ![call[t].ino] = Remote(call[t].data)]
      BY <3>1, <3>3 DEF TypeOK
    <3>4. QED  BY <1>9, <3>2, <3>3 DEF Publish, Fail
  <2>6. dir' \in [Names -> Inodes \union {NoFile}]
    BY <1>9 DEF Publish, Fail, TypeOK
  <2>7. QED  BY <1>9, <2>3, <2>4, <2>5, <2>6 DEF Publish, Fail, TypeOK, kernel
<1>10. ASSUME NEW t \in Threads, NEW n \in Names, Unlink(t, n)
       PROVE  TypeOK'
  <2>1. dir[n] \in Inodes /\ node[dir[n]].hash \in Contents
    BY <1>10 DEF Unlink, TypeOK
  <2>2. [op |-> "unlink", fh |-> 0, ino |-> dir[n], name |-> n,
         data |-> node[dir[n]].hash] \in Calls
    BY <2>1 DEF Calls, CallOps
  <2>3. pc' \in [Threads -> PCs] /\ call' \in [Threads -> Calls]
    BY <1>10, <2>2 DEF Unlink, TypeOK, PCs
  <2>4. QED  BY <1>10, <2>3 DEF Unlink, TypeOK, kernel, seen
<1>11. ASSUME NEW t \in Threads, DeleteBlob(t)
       PROVE  TypeOK'
  <2>1. call[t].data \in Contents
    BY DEF TypeOK, Calls
  <2>2. server' \in SUBSET Contents /\ deleted' \in SUBSET Contents
    BY <1>11, <2>1 DEF DeleteBlob, TypeOK
  <2>3. pc' \in [Threads -> PCs]
    BY <1>11 DEF DeleteBlob, TypeOK, PCs
  <2>4. QED  BY <1>11, <2>2, <2>3 DEF DeleteBlob, TypeOK, kernel
<1>12. ASSUME NEW t \in Threads, Remove(t)
       PROVE  TypeOK'
  <2>1. NoCall \in Calls
    BY DEF NoCall, Calls, CallOps, Contents
  <2>2. pc' \in [Threads -> PCs] /\ call' \in [Threads -> Calls]
    BY <1>12, <2>1 DEF Remove, TypeOK, PCs
  <2>3. dir' \in [Names -> Inodes \union {NoFile}]
    BY <1>12 DEF Remove, TypeOK
  <2>4. QED  BY <1>12, <2>2, <2>3 DEF Remove, TypeOK, kernel, seen
<1>13. ASSUME NEW b \in BOOLEAN, SetFrozen(b)
       PROVE  TypeOK'
  BY <1>13 DEF SetFrozen, TypeOK, kernel, seen
<1>14. ASSUME UNCHANGED vars
       PROVE  TypeOK'
  BY <1>14 DEF vars, TypeOK, kernel, seen
<1>15. QED  BY <1>1, <1>2, <1>3, <1>4, <1>5, <1>6, <1>7, <1>8, <1>9, <1>10, <1>11, <1>12,
     <1>13, <1>14 DEF Next, Answered

-----------------------------------------------------------------------------
(* The permits and types, together.                                        *)

PermitsInv == TypeOK /\ PermitsExact

\* No permit is lost or returned twice, whatever the server answers.
THEOREM PermitsAreExact == Spec => []PermitsInv
<1>1. Init => PermitsInv
  <2>1. ASSUME Init
        PROVE  TypeOK
    <3>1. NoCall \in Calls /\ NoBuffer \in Buffers
      BY DEF NoCall, Calls, CallOps, Contents, NoBuffer, Buffers
    <3>2. Static \in [remote : BOOLEAN, hash : Contents]
      BY DEF Static, Contents
    <3>3. /\ dir \in [Names -> Inodes \union {NoFile}]
          /\ node \in [Inodes -> [remote : BOOLEAN, hash : Contents]]
          /\ buf \in [Handles -> Buffers]
          /\ fds \in [Handles -> Nat] /\ maps \in [Handles -> Nat]
      BY <2>1, <3>1, <3>2 DEF Init
    <3>4. /\ pc \in [Threads -> PCs] /\ call \in [Threads -> Calls]
          /\ outcome \in [Handles -> {"none", "stored", "eio", "dropped"}]
          /\ starts \in [Handles -> Nat]
      BY <2>1, <3>1 DEF Init, PCs
    <3>5. /\ nextIno \in 1 .. (MaxInodes + 1)
          /\ nextFh \in 1 .. (MaxHandles + 1)
          /\ permits \in 0 .. Permits
      BY <2>1, WritePathAssumption DEF Init
    <3>6. QED  BY <2>1, <3>3, <3>4, <3>5, WritePathAssumption DEF Init, TypeOK
  <2>2. ASSUME Init
        PROVE  PermitsExact
    <3>1. Holders = {}
      BY <2>2 DEF Init, Holders, Holding
    <3>2. Cardinality(Holders) = 0
      BY <3>1, FS_EmptySet
    <3>3. QED  BY <2>2, <3>2, WritePathAssumption DEF Init, PermitsExact
  <2>3. QED  BY <2>1, <2>2 DEF PermitsInv
<1>2. PermitsInv /\ [Next]_vars => PermitsInv'
  BY PermitsStep, TypeStep DEF PermitsInv
<1>3. QED  BY <1>1, <1>2, PTL DEF Spec

-----------------------------------------------------------------------------
(* The data: from the handle through the upload to the server.             *)

Uploads == Holding \union {"permit"}

\* flush() or release() has taken the data of the handle.
Taken(fh) == buf[fh].flushed \/ fh \notin open

\* A handle number not given out yet stands for nothing.
Fresh ==
  \A fh \in Handles : fh >= nextFh =>
    /\ fh \notin open /\ buf[fh] = NoBuffer /\ fds[fh] = 0
    /\ outcome[fh] = "none" /\ starts[fh] = 0

\* An upload started once, and only with the data taken.
Once ==
  \A fh \in Handles :
    /\ starts[fh] <= 1
    /\ starts[fh] = 1 \/ outcome[fh] # "none" => Taken(fh)

\* An upload under way has the file of its handle, and what was written to it
\* until the data was taken.
Faithful ==
  \A t \in Threads : pc[t] \in Uploads =>
    LET fh == call[t].fh IN
    /\ fh \in Handles /\ fh < nextFh
    /\ Taken(fh)
    /\ call[t].ino = buf[fh].ino
    /\ IsPrefix(call[t].data, buf[fh].data)
    /\ fh \notin late => call[t].data = buf[fh].data

\* Only a stored blob is about to be published.
PublishKept == \A t \in Threads : pc[t] = "publish" => Kept(call[t].data)

DataInv ==
  /\ TypeOK
  /\ Fresh /\ Once /\ Faithful
  /\ PublishKept /\ RemoteIsStored /\ StoredIsAll /\ OwnContent

\* What the kernel does by itself, and the freeze switch, disturb nothing.
LEMMA DataFrame ==
  ASSUME DataInv, TypeOK',
         UNCHANGED <<open, buf, nextFh, outcome, starts, late, pc, call, node,
                     server, deleted>>,
         \A fh \in Handles : fds[fh] = 0 => fds'[fh] = 0
  PROVE  DataInv'
<1>1. Fresh'
  BY DEF DataInv, Fresh
<1>2. Once' /\ Faithful'
  BY DEF DataInv, Once, Faithful, Taken
<1>3. PublishKept' /\ RemoteIsStored' /\ StoredIsAll' /\ OwnContent'
  BY DEF DataInv, PublishKept, RemoteIsStored, StoredIsAll, OwnContent, Kept
<1>4. QED  BY <1>1, <1>2, <1>3 DEF DataInv

\* A new handle disturbs nothing: its number was unused.
LEMMA NewHandleData ==
  ASSUME DataInv, TypeOK', NEW i \in Inodes, NEW n \in Names \union {NoName},
         NewHandle(i, n),
         UNCHANGED <<pc, call, late, outcome, starts, server, deleted>>,
         \A j \in Inodes : node'[j] = node[j] \/ ~node'[j].remote
  PROVE  DataInv'
<1>1. nextFh \in Handles /\ nextFh' = nextFh + 1 /\ nextFh \in Nat
  BY DEF NewHandle, Handles
<1>2. buf[nextFh].ino \notin Inodes /\ nextFh \notin open
      /\ outcome[nextFh] = "none" /\ starts[nextFh] = 0
  BY <1>1 DEF DataInv, Fresh, NoBuffer, NoFile, Inodes
<1>3. \A fh \in Handles : fh # nextFh =>
        buf'[fh] = buf[fh] /\ fds'[fh] = fds[fh] /\ (fh \in open' <=> fh \in open)
  BY DEF NewHandle, DataInv, TypeOK
<1>4. Fresh'
  <2>1. ASSUME NEW fh \in Handles, fh >= nextFh'
        PROVE  fh # nextFh /\ fh >= nextFh
    BY <1>1, <2>1 DEF Handles
  <2>2. QED  BY <1>3, <2>1 DEF DataInv, Fresh
<1>5. Once'
  BY <1>2, <1>3 DEF DataInv, Once, Taken
<1>6. Faithful'
  <2>1. ASSUME NEW t \in Threads, pc[t] \in Uploads
        PROVE  LET fh == call[t].fh IN
               /\ fh \in Handles /\ fh < nextFh /\ fh < nextFh' /\ fh # nextFh
               /\ Taken(fh)
               /\ call[t].ino = buf[fh].ino
               /\ IsPrefix(call[t].data, buf[fh].data)
               /\ fh \notin late => call[t].data = buf[fh].data
    BY <1>1, <2>1 DEF DataInv, Faithful, Handles
  <2>2. QED  BY <1>3, <2>1 DEF Faithful, Taken
<1>7. PublishKept'
  BY DEF DataInv, PublishKept, Kept
<1>8. RemoteIsStored'
  BY DEF DataInv, RemoteIsStored, Kept
<1>9. StoredIsAll'
  BY <1>2, <1>3 DEF DataInv, StoredIsAll, Kept
<1>10. OwnContent'
  <2>1. ASSUME NEW j \in Inodes, node'[j].remote
        PROVE  \E fh \in Handles :
                 buf'[fh].ino = j /\ IsPrefix(node'[j].hash, buf'[fh].data)
    <3>1. node'[j] = node[j]
      BY <2>1
    <3>2. PICK fh \in Handles :
            buf[fh].ino = j /\ IsPrefix(node[j].hash, buf[fh].data)
      BY <2>1, <3>1 DEF DataInv, OwnContent
    <3>3. fh # nextFh
      BY <1>2, <3>2
    <3>4. QED  BY <1>3, <3>1, <3>2, <3>3
  <2>2. QED  BY <2>1 DEF OwnContent
<1>11. QED  BY <1>4, <1>5, <1>6, <1>7, <1>8, <1>9, <1>10 DEF DataInv

\* More written makes a longer prefix.
LEMMA PrefixGrows ==
  ASSUME NEW s \in Contents, NEW u \in Contents, NEW c \in Chunks, IsPrefix(s, u)
  PROVE  IsPrefix(s, Append(u, c))
<1>1. Len(s) \in Nat /\ Len(u) \in Nat /\ Len(Append(u, c)) = Len(u) + 1
  BY DEF Contents
<1>2. SubSeq(Append(u, c), 1, Len(s)) = SubSeq(u, 1, Len(s))
  BY <1>1 DEF IsPrefix, Contents
<1>3. QED  BY <1>1, <1>2 DEF IsPrefix

\* Everything is a prefix of itself.
LEMMA PrefixOfItself ==
  ASSUME NEW s \in Contents
  PROVE  IsPrefix(s, s)
BY DEF IsPrefix, Contents

\* write() disturbs nothing: data already taken makes the handle late.
LEMMA WriteData ==
  ASSUME DataInv, TypeOK', NEW w \in Handles, NEW c \in Chunks, Write(w, c)
  PROVE  DataInv'
<1>1. /\ w \in open /\ w < nextFh
      /\ buf[w].data \in Contents /\ buf[w] \in Buffers
  <2>1. w \in open /\ buf[w] \in Buffers
    BY DEF Write, DataInv, TypeOK
  <2>2. ~(w >= nextFh)
    BY <2>1 DEF DataInv, Fresh
  <2>3. nextFh \in Nat /\ w \in Nat
    BY DEF DataInv, TypeOK, Handles
  <2>4. QED  BY <2>1, <2>2, <2>3 DEF Buffers
<1>2. /\ UNCHANGED <<open, nextFh, fds, pc, call, outcome, starts, node, server,
                     deleted>>
      /\ late' = IF buf[w].flushed THEN late \union {w} ELSE late
  BY DEF Write, kernel
<1>3. /\ \A fh \in Handles : fh # w => buf'[fh] = buf[fh]
      /\ buf'[w].ino = buf[w].ino /\ buf'[w].flushed = buf[w].flushed
      /\ buf'[w].data = Append(buf[w].data, c)
  BY <1>1 DEF Write, DataInv, TypeOK, Buffers
<1>4. Taken(w) => buf[w].flushed /\ w \in late'
  BY <1>1, <1>2 DEF Taken
<1>5. \A fh \in Handles : Taken(fh)' <=> Taken(fh)
  BY <1>2, <1>3 DEF Taken
<1>6. Fresh'
  <2>1. \A fh \in Handles : fh >= nextFh => fh # w
    BY <1>1 DEF DataInv, TypeOK, Handles
  <2>2. QED  BY <1>2, <1>3, <2>1 DEF DataInv, Fresh
<1>7. Once'
  BY <1>2, <1>5 DEF DataInv, Once
<1>8. Faithful'
  <2>1. ASSUME NEW t \in Threads, pc[t] \in Uploads, call[t].fh = w
        PROVE  /\ call[t].fh \in Handles /\ call[t].fh < nextFh
               /\ Taken(w)' /\ call[t].ino = buf'[w].ino
               /\ IsPrefix(call[t].data, buf'[w].data)
               /\ w \in late'
    <3>1. Taken(w) /\ call[t].ino = buf[w].ino
          /\ IsPrefix(call[t].data, buf[w].data)
      BY <2>1 DEF DataInv, Faithful
    <3>2. call[t].data \in Contents
      BY DEF DataInv, TypeOK, Calls
    <3>3. QED  BY <1>1, <1>3, <1>4, <1>5, <2>1, <3>1, <3>2, PrefixGrows
  <2>2. ASSUME NEW t \in Threads, pc[t] \in Uploads, call[t].fh # w
        PROVE  LET fh == call[t].fh IN
               /\ fh \in Handles /\ fh < nextFh /\ Taken(fh)'
               /\ call[t].ino = buf'[fh].ino
               /\ IsPrefix(call[t].data, buf'[fh].data)
               /\ fh \notin late' => call[t].data = buf'[fh].data
    BY <1>2, <1>3, <1>5, <2>2 DEF DataInv, Faithful
  <2>3. QED  BY <1>2, <2>1, <2>2 DEF Faithful
<1>9. PublishKept' /\ RemoteIsStored'
  BY <1>2 DEF DataInv, PublishKept, RemoteIsStored, Kept
<1>10. StoredIsAll'
  <2>1. outcome[w] = "stored" => w \in late'
    BY <1>4 DEF DataInv, Once
  <2>2. QED  BY <1>2, <1>3, <2>1 DEF DataInv, StoredIsAll, Kept
<1>11. OwnContent'
  <2>1. ASSUME NEW j \in Inodes, node[j].remote
        PROVE  \E fh \in Handles :
                 buf'[fh].ino = j /\ IsPrefix(node[j].hash, buf'[fh].data)
    <3>1. PICK fh \in Handles :
            buf[fh].ino = j /\ IsPrefix(node[j].hash, buf[fh].data)
      BY <2>1 DEF DataInv, OwnContent
    <3>2. node[j].hash \in Contents
      BY DEF DataInv, TypeOK
    <3>3. IsPrefix(node[j].hash, buf'[fh].data)
      BY <1>1, <1>3, <3>1, <3>2, PrefixGrows
    <3>4. QED  BY <1>3, <3>1, <3>3
  <2>2. QED  BY <1>2, <2>1 DEF OwnContent
<1>12. QED  BY <1>6, <1>7, <1>8, <1>9, <1>10, <1>11 DEF DataInv

\* Handle w is given up or marked as taken; nothing else happens to handles.
Marked(w) ==
  /\ open' \subseteq open
  /\ \A fh \in Handles : fh # w => buf'[fh] = buf[fh] /\ (fh \in open <=> fh \in open')
  /\ buf'[w].ino = buf[w].ino /\ buf'[w].data = buf[w].data
  /\ buf[w].flushed => buf'[w].flushed
  /\ \A fh \in Handles : fds[fh] = 0 => fds'[fh] = 0
  /\ UNCHANGED <<nextFh, outcome, late, node, server, deleted>>

\* What is left of the invariant when a handle is marked.
LEMMA MarkedData ==
  ASSUME DataInv, NEW w \in Handles, w \in open, Marked(w)
  PROVE  /\ \A fh \in Handles : Taken(fh) => Taken(fh)'
         /\ \A fh \in Handles :
              fh >= nextFh' => /\ fh # w
                               /\ fh \notin open' /\ buf'[fh] = NoBuffer
                               /\ fds'[fh] = 0 /\ outcome'[fh] = "none"
         /\ RemoteIsStored' /\ StoredIsAll' /\ OwnContent'
<1>1. \A fh \in Handles : Taken(fh) => Taken(fh)'
  BY DEF Marked, Taken
<1>2. \A fh \in Handles :
        fh >= nextFh' => /\ fh # w
                         /\ fh \notin open' /\ buf'[fh] = NoBuffer
                         /\ fds'[fh] = 0 /\ outcome'[fh] = "none"
  BY DEF Marked, DataInv, Fresh
<1>3. RemoteIsStored'
  BY DEF Marked, DataInv, RemoteIsStored, Kept
<1>4. StoredIsAll'
  BY DEF Marked, DataInv, StoredIsAll, Kept
<1>5. OwnContent'
  <2>1. \A fh \in Handles :
          buf'[fh].ino = buf[fh].ino /\ buf'[fh].data = buf[fh].data
    BY DEF Marked
  <2>2. node' = node
    BY DEF Marked
  <2>3. QED  BY <2>1, <2>2 DEF DataInv, OwnContent
<1>6. QED  BY <1>1, <1>2, <1>3, <1>4, <1>5

\* Giving up a handle that has nothing to upload disturbs nothing.
LEMMA GiveUpData ==
  ASSUME DataInv, TypeOK', NEW w \in Handles, w \in open, Marked(w),
         UNCHANGED <<pc, call, starts>>
  PROVE  DataInv'
<1>1. Fresh'
  BY MarkedData DEF DataInv, Fresh, Marked
<1>2. Once'
  BY MarkedData DEF DataInv, Once, Marked
<1>3. Faithful'
  <2>1. ASSUME NEW t \in Threads, pc[t] \in Uploads
        PROVE  LET fh == call[t].fh IN
               /\ fh \in Handles /\ fh < nextFh /\ Taken(fh)'
               /\ call[t].ino = buf'[fh].ino
               /\ IsPrefix(call[t].data, buf'[fh].data)
               /\ fh \notin late => call[t].data = buf'[fh].data
    BY <2>1, MarkedData DEF DataInv, Faithful, Marked
  <2>2. QED  BY <2>1 DEF Faithful, Marked
<1>4. PublishKept'
  BY DEF DataInv, PublishKept, Kept, Marked
<1>5. QED  BY <1>1, <1>2, <1>3, <1>4, MarkedData DEF DataInv

\* An upload starts with the handle taken, and had not started before.
LEMMA StartData ==
  ASSUME DataInv, TypeOK', NEW u \in Threads, NEW w \in Handles,
         NEW op \in {"flush", "release"},
         w \in open, ToUpload(w), StartUpload(u, w, op), Marked(w), Taken(w)'
  PROVE  DataInv'
<1>1. starts[w] = 0
  <2>1. ~Taken(w)
    BY DEF ToUpload, Taken
  <2>2. starts[w] \in Nat /\ starts[w] <= 1 /\ starts[w] # 1
    BY <2>1 DEF DataInv, Once, TypeOK
  <2>3. QED  BY <2>2
<1>2. /\ starts'[w] = 1
      /\ \A fh \in Handles : fh # w => starts'[fh] = starts[fh]
  BY <1>1 DEF StartUpload, DataInv, TypeOK
<1>3. Fresh'
  BY <1>2, MarkedData DEF DataInv, Fresh, Marked
<1>4. Once'
  BY <1>2, MarkedData DEF DataInv, Once, Marked
<1>5. /\ pc'[u] = "permit"
      /\ call'[u].fh = w /\ call'[u].ino = buf[w].ino /\ call'[u].data = buf[w].data
      /\ \A t \in Threads : t # u => pc'[t] = pc[t] /\ call'[t] = call[t]
  BY DEF StartUpload, DataInv, TypeOK
<1>6. Faithful'
  <2>1. ASSUME NEW t \in Threads, t # u, pc[t] \in Uploads
        PROVE  LET fh == call[t].fh IN
               /\ fh \in Handles /\ fh < nextFh /\ Taken(fh)'
               /\ call[t].ino = buf'[fh].ino
               /\ IsPrefix(call[t].data, buf'[fh].data)
               /\ fh \notin late => call[t].data = buf'[fh].data
    <3>1. \A fh \in Handles : Taken(fh) => Taken(fh)'
      BY MarkedData
    <3>2. \A fh \in Handles : buf'[fh].ino = buf[fh].ino
                             /\ buf'[fh].data = buf[fh].data
      BY DEF Marked
    <3>3. QED  BY <1>5, <2>1, <3>1, <3>2 DEF DataInv, Faithful, Taken
  <2>2. /\ call'[u].fh \in Handles /\ call'[u].fh < nextFh /\ Taken(w)'
        /\ call'[u].ino = buf'[w].ino
        /\ call'[u].data = buf'[w].data
    <3>1. ~(w >= nextFh)
      BY DEF DataInv, Fresh
    <3>2. w < nextFh
      BY <3>1 DEF DataInv, TypeOK, Handles
    <3>3. QED  BY <1>5, <3>2 DEF Marked
  <2>3. IsPrefix(call'[u].data, buf'[w].data)
    <3>1. buf[w].data \in Contents
      BY DEF DataInv, TypeOK, Buffers
    <3>2. QED  BY <2>2, <3>1, PrefixOfItself DEF Marked
  <2>4. QED  BY <1>5, <2>1, <2>2, <2>3 DEF Faithful, Marked, Taken
<1>7. PublishKept'
  BY <1>5 DEF DataInv, PublishKept, Kept, Marked
<1>8. QED  BY <1>3, <1>4, <1>6, <1>7, MarkedData DEF DataInv

\* A request answered moves the upload on; the server only gains blobs.
LEMMA RequestData ==
  ASSUME DataInv, TypeOK', NEW u \in Threads,
         NEW here \in Uploads, NEW there \in Holding, Goto(u, here, there),
         server \subseteq server',
         there = "publish" => call[u].data \in server'
  PROVE  DataInv'
<1>1. /\ pc[u] \in Uploads /\ pc'[u] = there
      /\ \A t \in Threads : t # u => pc'[t] = pc[t]
      /\ UNCHANGED <<open, nextFh, buf, fds, call, outcome, starts, node, late,
                     deleted>>
  BY DEF Goto, kernel, seen, DataInv, TypeOK
<1>2. \A h : Kept(h) => Kept(h)'
  BY <1>1 DEF Kept
<1>3. Fresh' /\ Once'
  BY <1>1 DEF DataInv, Fresh, Once, Taken
<1>4. Faithful'
  BY <1>1 DEF DataInv, Faithful, Taken
<1>5. PublishKept'
  BY <1>1, <1>2 DEF DataInv, PublishKept, Kept
<1>6. RemoteIsStored' /\ StoredIsAll' /\ OwnContent'
  BY <1>1, <1>2 DEF DataInv, RemoteIsStored, StoredIsAll, OwnContent
<1>7. QED  BY <1>3, <1>4, <1>5, <1>6 DEF DataInv

\* The end of a call: only a kept blob is reported or shown as stored.
LEMMA ReturnData ==
  ASSUME DataInv, TypeOK', NEW u \in Threads, NEW how \in {"stored", "eio", "dropped"},
         pc[u] \in Uploads, Return(u, how),
         how = "stored" => Kept(call[u].data),
         \/ node' = node
         \/ (node' = [node EXCEPT ![call[u].ino] = Remote(call[u].data)]
             /\ how = "stored"),
         UNCHANGED <<open, buf, fds, nextFh, late, starts, server, deleted>>
  PROVE  DataInv'
<1> DEFINE w == call[u].fh
<1>1. /\ w \in Handles /\ w < nextFh /\ Taken(w)
      /\ call[u].ino = buf[w].ino
      /\ IsPrefix(call[u].data, buf[w].data)
      /\ w \notin late => call[u].data = buf[w].data
  BY DEF DataInv, Faithful
<1>2. /\ outcome'[w] = how
      /\ \A fh \in Handles : fh # w => outcome'[fh] = outcome[fh]
  BY <1>1 DEF Return, DataInv, TypeOK
<1>3. /\ pc'[u] = "idle"
      /\ \A t \in Threads : t # u => pc'[t] = pc[t] /\ call'[t] = call[t]
  BY DEF Return, DataInv, TypeOK
<1>4. Fresh'
  <2>1. \A fh \in Handles : fh >= nextFh => fh # w
    BY <1>1 DEF Handles, DataInv, TypeOK
  <2>2. QED  BY <1>2, <2>1 DEF DataInv, Fresh
<1>5. Once'
  BY <1>1, <1>2 DEF DataInv, Once, Taken
<1>6. Faithful'
  BY <1>3 DEF DataInv, Faithful, Taken, Uploads, Holding
<1>7. PublishKept'
  BY <1>3 DEF DataInv, PublishKept, Kept
<1>8. RemoteIsStored'
  <2>1. ASSUME NEW i \in Inodes, node'[i].remote
        PROVE  Kept(node'[i].hash)
    <3>1. CASE node'[i] = node[i]
      BY <2>1, <3>1 DEF DataInv, RemoteIsStored
    <3>2. CASE node'[i] # node[i]
      <4>1. how = "stored" /\ node'[i] = Remote(call[u].data)
        BY <3>2 DEF DataInv, TypeOK
      <4>2. QED  BY <4>1 DEF Remote
    <3>3. QED  BY <3>1, <3>2
  <2>2. QED  BY <2>1 DEF RemoteIsStored, Kept
<1>9. StoredIsAll'
  BY <1>1, <1>2 DEF DataInv, StoredIsAll, Kept
<1>10. OwnContent'
  <2>1. ASSUME NEW i \in Inodes, node'[i].remote
        PROVE  \E fh \in Handles :
                 buf[fh].ino = i /\ IsPrefix(node'[i].hash, buf[fh].data)
    <3>1. CASE node'[i] = node[i]
      BY <2>1, <3>1 DEF DataInv, OwnContent
    <3>2. CASE node'[i] # node[i]
      <4>1. i = call[u].ino /\ node'[i] = Remote(call[u].data)
        BY <3>2 DEF DataInv, TypeOK
      <4>2. QED  BY <1>1, <4>1 DEF Remote
    <3>3. QED  BY <3>1, <3>2
  <2>2. QED  BY <2>1 DEF OwnContent
<1>11. QED  BY <1>4, <1>5, <1>6, <1>7, <1>8, <1>9, <1>10 DEF DataInv

\* unlink() disturbs no upload: what it deletes is remembered as deleted.
LEMMA UnlinkData ==
  ASSUME DataInv, TypeOK', NEW u \in Threads,
         pc[u] \notin Uploads, pc'[u] \notin Uploads,
         \A t \in Threads : t # u => pc'[t] = pc[t] /\ call'[t] = call[t],
         \A h : Kept(h) => h \in server' \union deleted',
         UNCHANGED <<open, buf, fds, nextFh, late, starts, outcome, node>>
  PROVE  DataInv'
<1>1. Fresh' /\ Once'
  BY DEF DataInv, Fresh, Once, Taken
<1>2. Faithful'
  BY DEF DataInv, Faithful, Taken
<1>3. PublishKept'
  BY DEF DataInv, PublishKept, Kept, Uploads, Holding
<1>4. RemoteIsStored' /\ StoredIsAll' /\ OwnContent'
  BY DEF DataInv, RemoteIsStored, StoredIsAll, OwnContent, Kept
<1>5. QED  BY <1>1, <1>2, <1>3, <1>4 DEF DataInv

\* Every step keeps the invariant of the data.
LEMMA DataStep ==
  ASSUME DataInv, TypeOK', [Next]_vars
  PROVE  DataInv'
<1>1. ASSUME NEW n \in Names, CreateNew(n) \/ CreateTrunc(n) \/ Open(n)
      PROVE  DataInv'
  <2>1. PICK i \in Inodes, m \in Names \union {NoName} : NewHandle(i, m)
    BY <1>1 DEF CreateNew, CreateTrunc, Open, DataInv, TypeOK
  <2>2. UNCHANGED <<pc, call, late, outcome, starts, server, deleted>>
    BY <1>1 DEF CreateNew, CreateTrunc, Open, seen
  <2>3. \A j \in Inodes : node'[j] = node[j] \/ ~node'[j].remote
    BY <1>1 DEF CreateNew, CreateTrunc, Open, Static, DataInv, TypeOK
  <2>4. QED  BY <2>1, <2>2, <2>3, NewHandleData
<1>2. ASSUME NEW fh \in Handles, NEW c \in Chunks, Write(fh, c)
      PROVE  DataInv'
  BY <1>2, WriteData
<1>3. ASSUME NEW fh \in Handles, Dup(fh) \/ Map(fh) \/ Unmap(fh)
      PROVE  DataInv'
  <2>1. UNCHANGED <<open, buf, nextFh, outcome, starts, late, pc, call, node,
                    server, deleted>>
    BY <1>3 DEF Dup, Map, Unmap, seen
  <2>2. \A h \in Handles : fds[h] = 0 => fds'[h] = 0
    BY <1>3 DEF Dup, Map, Unmap, DataInv, TypeOK
  <2>3. QED  BY <2>1, <2>2, DataFrame
<1>4. ASSUME NEW t \in Threads, NEW fh \in Handles, Flush(t, fh)
      PROVE  DataInv'
  <2>1. /\ \A h \in Handles : fds[h] = 0 => fds'[h] = 0
        /\ UNCHANGED <<open, nextFh, outcome, late, node, server, deleted>>
    BY <1>4 DEF Flush, DataInv, TypeOK
  <2>2. CASE fh \in open /\ ToUpload(fh)
    <3>1. StartUpload(t, fh, "flush") /\ buf' = [buf EXCEPT ![fh].flushed = TRUE]
      BY <1>4, <2>2 DEF Flush
    <3>2. buf[fh] \in Buffers
      BY DEF DataInv, TypeOK
    <3>3. Marked(fh)
      BY <2>1, <3>1, <3>2 DEF Marked, DataInv, TypeOK, Buffers
    <3>4. Taken(fh)'
      BY <3>1, <3>2 DEF Taken, DataInv, TypeOK, Buffers
    <3>5. QED  BY <2>2, <3>1, <3>3, <3>4, StartData
  <2>3. CASE ~(fh \in open /\ ToUpload(fh))
    BY <1>4, <2>1, <2>3, DataFrame DEF Flush
  <2>4. QED  BY <2>2, <2>3
<1>5. ASSUME NEW t \in Threads, NEW fh \in Handles, Release(t, fh)
      PROVE  DataInv'
  <2>1. fh \in open /\ open' = open \ {fh}
    BY <1>5 DEF Release
  <2>2. Marked(fh)
    BY <1>5, <2>1 DEF Release, Marked, kernel
  <2>3. Taken(fh)'
    BY <2>1 DEF Taken
  <2>4. CASE ToUpload(fh)
    BY <1>5, <2>1, <2>2, <2>3, <2>4, StartData DEF Release
  <2>5. CASE ~ToUpload(fh)
    BY <1>5, <2>1, <2>2, <2>5, GiveUpData DEF Release
  <2>6. QED  BY <2>4, <2>5
<1>6. ASSUME NEW t \in Threads,
             \/ AcquirePermit(t) \/ HeadMisses(t)
             \/ PreflightPasses(t) \/ PreflightRejects(t)
             \/ PutLost(t) \/ PutFails(t)
      PROVE  DataInv'
  <2>1. PICK here \in Uploads, there \in Holding :
          Goto(t, here, there) /\ there # "publish"
    BY <1>6 DEF AcquirePermit, HeadMisses, PreflightPasses, PreflightRejects,
                PutLost, PutFails, Uploads, Holding
  <2>2. server \subseteq server'
    BY <1>6 DEF AcquirePermit, HeadMisses, PreflightPasses, PreflightRejects,
                PutLost, PutFails
  <2>3. QED  BY <2>1, <2>2, RequestData
<1>7. ASSUME NEW t \in Threads, HeadExists(t) \/ PutStores(t)
      PROVE  DataInv'
  <2>1. PICK here \in Uploads : Goto(t, here, "publish")
    BY <1>7 DEF HeadExists, PutStores, Uploads, Holding
  <2>2. server \subseteq server' /\ call[t].data \in server'
    BY <1>7 DEF HeadExists, PutStores
  <2>3. "publish" \in Holding
    BY DEF Holding
  <2>4. QED  BY <2>1, <2>2, <2>3, RequestData
<1>8. ASSUME NEW t \in Threads, Publish(t)
      PROVE  DataInv'
  <2>1. pc[t] \in Uploads /\ Kept(call[t].data)
    BY <1>8 DEF Publish, Uploads, Holding, DataInv, PublishKept
  <2>2. UNCHANGED <<open, buf, fds, nextFh, late, starts, server, deleted>>
    BY <1>8 DEF Publish, kernel
  <2>3. QED  BY <1>8, <2>1, <2>2, ReturnData DEF Publish
<1>9. ASSUME NEW t \in Threads, Fail(t)
      PROVE  DataInv'
  <2>1. pc[t] \in Uploads
    BY <1>9 DEF Fail, Uploads, Holding
  <2>2. UNCHANGED <<open, buf, fds, nextFh, late, starts, server, deleted, node>>
    BY <1>9 DEF Fail, kernel
  <2>3. PICK how \in {"eio", "dropped"} : Return(t, how)
    BY <1>9 DEF Fail
  <2>4. QED  BY <2>1, <2>2, <2>3, ReturnData
<1>10. ASSUME NEW t \in Threads,
              DeleteBlob(t) \/ Remove(t) \/ \E n \in Names : Unlink(t, n)
       PROVE  DataInv'
  <2>1. pc[t] \notin Uploads /\ pc'[t] \notin Uploads
    BY <1>10 DEF DeleteBlob, Remove, Unlink, Uploads, Holding, DataInv, TypeOK
  <2>2. \A u \in Threads : u # t => pc'[u] = pc[u] /\ call'[u] = call[u]
    BY <1>10 DEF DeleteBlob, Remove, Unlink, DataInv, TypeOK
  <2>3. \A h : Kept(h) => h \in server' \union deleted'
    BY <1>10 DEF DeleteBlob, Remove, Unlink, Kept, seen
  <2>4. UNCHANGED <<open, buf, fds, nextFh, late, starts, outcome, node>>
    BY <1>10 DEF DeleteBlob, Remove, Unlink, kernel, seen
  <2>5. QED  BY <2>1, <2>2, <2>3, <2>4, UnlinkData
<1>11. ASSUME UNCHANGED vars \/ \E b \in BOOLEAN : SetFrozen(b)
       PROVE  DataInv'
  BY <1>11, DataFrame DEF vars, SetFrozen, kernel, seen
<1>12. QED
  BY <1>1, <1>2, <1>3, <1>4, <1>5, <1>6, <1>7, <1>8, <1>9, <1>10, <1>11
  DEF Next, Answered

\* The invariant of the data holds always.
THEOREM DataCorrect == Spec => []DataInv
<1>1. Init /\ TypeOK => DataInv
  <2>1. ASSUME Init
        PROVE  Fresh /\ Once
    BY <2>1 DEF Init, Fresh, Once
  <2>2. ASSUME Init
        PROVE  Faithful /\ PublishKept
    BY <2>2 DEF Init, Faithful, PublishKept, Uploads, Holding
  <2>3. ASSUME Init
        PROVE  RemoteIsStored /\ StoredIsAll /\ OwnContent
    BY <2>3 DEF Init, RemoteIsStored, StoredIsAll, OwnContent, Static
  <2>4. QED  BY <2>1, <2>2, <2>3 DEF DataInv
<1>2. DataInv /\ TypeOK' /\ [Next]_vars => DataInv'
  BY DataStep
<1>3. Spec => []TypeOK
  BY PermitsAreExact, PTL DEF PermitsInv
<1>4. QED  BY <1>1, <1>2, <1>3, PTL DEF Spec

\* Every reachable state has the types of TypeOK.
THEOREM TypeCorrect == Spec => []TypeOK
BY PermitsAreExact, PTL DEF PermitsInv

\* upload_sem has all its permits back when no upload is under way.
THEOREM PermitsReturn == Spec => []PermitsExact
BY PermitsAreExact, PTL DEF PermitsInv

\* A Remote file's blob is on the server, or was deleted by unlink().
THEOREM RemoteFilesAreStored == Spec => []RemoteIsStored
BY DataCorrect, PTL DEF DataInv

\* An upload reported as successful stored all that was written, unless more was
\* written after it took the data.
THEOREM StoredHandlesAreWhole == Spec => []StoredIsAll
BY DataCorrect, PTL DEF DataInv

\* No handle is uploaded twice.
THEOREM HandlesUploadOnce == Spec => []UploadedOnce
<1>1. DataInv => UploadedOnce
  BY DEF DataInv, Once, UploadedOnce
<1>2. QED  BY <1>1, DataCorrect, PTL

\* A Remote file shows what was written to a handle of that file.
THEOREM FilesShowTheirOwn == Spec => []OwnContent
BY DataCorrect, PTL DEF DataInv
=============================================================================
