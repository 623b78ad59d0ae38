--------------------------- MODULE ReadPathProofs ---------------------------
(***************************************************************************)
(* Proofs about ReadPath, for any number of mounts, threads, inodes and    *)
(* blobs, any sizes, any cache limit, and with unlink, rewriting and       *)
(* crashes allowed or not.                                                 *)
(***************************************************************************)
EXTENDS CacheGauges, Induction, TLAPS

USE DEF dirVars, mountVars, evictVars, dataVars, callVars

-----------------------------------------------------------------------------
(* Type correctness.                                                       *)

\* The initial state has the types of TypeOK.
LEMMA InitType == Init => TypeOK
<1>1. (CHOOSE i \in Inodes : TRUE) \in Inodes
  BY ReadPathAssumption
<1>2. (CHOOSE b \in Blobs : TRUE) \in Blobs
  BY ReadPathAssumption
<1>3. QED
  BY <1>1, <1>2, ReadPathAssumption
  DEF Init, TypeOK, NoStamps, ListedExpiry, PCs, Contents, Bytes, Paths,
      Results

\* Bytes about to be renamed into the cache, and bytes of a read() that has
\* only its eviction and its bookkeeping left, have been verified; and a read()
\* that is still running has no result.
VerifiedThread(t) ==
  /\ result[t] = "ok" /\ via[t] # "range206" => data[t] = "good"
  /\ pc[t] \in {"write", "persist", "count", "release", "walk", "evict", "expire"}
       => data[t] = "good" /\ via[t] # "range206"
  /\ pc[t] # "idle" => result[t] = "none"

VerifiedInv ==
  /\ CacheIntegrity
  /\ \A t \in Threads : VerifiedThread(t)

\* The control points.
LEMMA Names ==
  {"idle", "lookup", "readHit", "acquire", "blocked", "recheck", "readHit2",
   "range", "fullLookup", "fullRead", "get", "write", "persist", "count", "stale",
   "release", "walk", "evict", "expire"} \subseteq PCs
BY DEF PCs, FetchPCs

\* The content of a cache file can be handed out.
LEMMA CachedBytes ==
  ASSUME TypeOK, NEW b \in Blobs, Cached(b)
  PROVE  cache[b] \in Bytes
BY DEF TypeOK, Cached, Contents, Bytes

\* Giving up a registration keeps the types of what it changes.
LEMMA DeregisterType ==
  ASSUME TypeOK, NEW t \in Threads, NEW l \in PCs, Deregister(t, l)
  PROVE  /\ pc' \in [Threads -> PCs]
         /\ fetchInProgress' \in [Mounts -> SUBSET Blobs]
<1>1. pc' \in [Threads -> PCs]
  BY Names DEF TypeOK, Deregister
<1>2. fetchInProgress' \in [Mounts -> SUBSET Blobs]
  BY ReadPathAssumption DEF TypeOK, Deregister
<1>3. QED  BY <1>1, <1>2

\* Every step of a running read() keeps the types.
LEMMA ReadStepType ==
  ASSUME TypeOK, VerifiedInv, NEW t \in Threads, ReadStep(t)
  PROVE  TypeOK'
<1> USE DEF TypeOK
<1>1. CASE Lookup(t)
  <2>1. pc' \in [Threads -> PCs]
    BY <1>1, Names DEF Lookup, Goto
  <2>2. QED  BY <1>1, <2>1 DEF Lookup
<1>2. CASE ReadHit(t)
  <2>1. Cached(blob[t]) => cache[blob[t]] \in Bytes
    BY CachedBytes
  <2>2. pc' \in [Threads -> PCs]
    BY <1>2, Names DEF ReadHit, Goto
  <2>3. data' \in [Threads -> Bytes]
    BY <1>2, <2>1 DEF ReadHit, Deliver
  <2>4. via' \in [Threads -> Paths]
    BY <1>2 DEF ReadHit, Deliver, Paths
  <2>5. result' \in [Threads -> Results]
    BY <1>2 DEF ReadHit, Returns, Results
  <2>6. QED  BY <1>2, <2>2, <2>3, <2>4, <2>5 DEF ReadHit
<1>3. CASE Acquire(t)
  <2>1. fetchInProgress[MountOf[t]] \union {blob[t]} \in SUBSET Blobs
    BY ReadPathAssumption
  <2>2. pc' \in [Threads -> PCs]
    BY <1>3, Names DEF Acquire, Goto
  <2>3. fetchInProgress' \in [Mounts -> SUBSET Blobs]
    <3>1. CASE blob[t] \in fetchInProgress[MountOf[t]]
      BY <1>3, <3>1 DEF Acquire
    <3>2. CASE blob[t] \notin fetchInProgress[MountOf[t]]
      BY <1>3, <2>1, <3>2 DEF Acquire
    <3>3. QED  BY <3>1, <3>2
  <2>4. QED  BY <1>3, <2>2, <2>3 DEF Acquire
<1>4. CASE Recheck(t)
  <2>1. /\ pc' \in [Threads -> PCs]
        /\ fetchInProgress' \in [Mounts -> SUBSET Blobs]
    BY <1>4, Names, DeregisterType DEF Recheck, Goto
  <2>2. QED  BY <1>4, <2>1 DEF Recheck
<1>5. CASE ReadHit2(t)
  <2>1. Cached(blob[t]) => cache[blob[t]] \in Bytes
    BY CachedBytes
  <2>2. pc' \in [Threads -> PCs]
    BY <1>5, Names DEF ReadHit2, Goto
  <2>3. data' \in [Threads -> Bytes]
    BY <1>5, <2>1 DEF ReadHit2, Deliver
  <2>4. via' \in [Threads -> Paths]
    BY <1>5 DEF ReadHit2, Deliver, Paths
  <2>5. result' \in [Threads -> Results]
    BY <1>5 DEF ReadHit2, Returns, Results
  <2>6. QED  BY <1>5, <2>2, <2>3, <2>4, <2>5 DEF ReadHit2
<1>6. CASE RangePartial(t)
  <2>1. /\ pc' \in [Threads -> PCs]
        /\ fetchInProgress' \in [Mounts -> SUBSET Blobs]
    BY <1>6, Names, DeregisterType DEF RangePartial, Goto
  <2>2. data' \in [Threads -> Bytes]
    BY <1>6 DEF RangePartial, Deliver, Bytes
  <2>3. via' \in [Threads -> Paths]
    BY <1>6 DEF RangePartial, Deliver, Paths
  <2>4. result' \in [Threads -> Results]
    BY <1>6 DEF RangePartial, Returns, Results
  <2>5. QED  BY <1>6, <2>1, <2>2, <2>3, <2>4 DEF RangePartial
<1>7. CASE RangeWhole(t)
  <2>1. /\ pc' \in [Threads -> PCs]
        /\ fetchInProgress' \in [Mounts -> SUBSET Blobs]
    BY <1>7, Names, DeregisterType DEF RangeWhole, Goto
  <2>2. data' \in [Threads -> Bytes]
    BY <1>7 DEF RangeWhole, Deliver, Bytes
  <2>3. via' \in [Threads -> Paths]
    BY <1>7 DEF RangeWhole, Deliver, Paths
  <2>4. result' \in [Threads -> Results]
    BY <1>7 DEF RangeWhole, Returns, Results
  <2>5. QED  BY <1>7, <2>1, <2>2, <2>3, <2>4 DEF RangeWhole
<1>8. CASE RangeFails(t)
  <2>1. pc' \in [Threads -> PCs]
    BY <1>8, Names DEF RangeFails, Goto
  <2>2. QED  BY <1>8, <2>1 DEF RangeFails
<1>9. CASE FullLookup(t)
  <2>1. pc' \in [Threads -> PCs]
    BY <1>9, Names DEF FullLookup, Goto
  <2>2. QED  BY <1>9, <2>1 DEF FullLookup
<1>10. CASE FullRead(t)
  <2>1. Cached(blob[t]) => cache[blob[t]] \in Bytes
    BY CachedBytes
  <2>2. pc' \in [Threads -> PCs]
    BY <1>10, Names DEF FullRead, Goto
  <2>3. data' \in [Threads -> Bytes]
    BY <1>10, <2>1 DEF FullRead, Deliver
  <2>4. via' \in [Threads -> Paths]
    BY <1>10 DEF FullRead, Deliver, Paths
  <2>5. QED  BY <1>10, <2>2, <2>3, <2>4 DEF FullRead
<1>11. CASE GetWhole(t)
  <2>1. pc' \in [Threads -> PCs]
    <3>1. Goto(t, "write") \/ Goto(t, "stale")
      BY <1>11 DEF GetWhole
    <3>2. QED  BY <3>1, Names DEF Goto
  <2>2. data' \in [Threads -> Bytes]
    BY <1>11 DEF GetWhole, Deliver, Bytes
  <2>3. via' \in [Threads -> Paths]
    BY <1>11 DEF GetWhole, Deliver, Paths
  <2>4. expiry' \in [Threads -> BOOLEAN]
    BY <1>11, ReadPathAssumption DEF GetWhole
  <2>5. QED  BY <1>11, <2>1, <2>2, <2>3, <2>4 DEF GetWhole
<1>12. CASE GetFails(t)
  <2>1. pc' \in [Threads -> PCs]
    BY <1>12, Names DEF GetFails, Goto
  <2>2. QED  BY <1>12, <2>1 DEF GetFails
<1>13. CASE Persist(t)
  <2>1. data[t] \in Contents
    BY <1>13 DEF Persist, VerifiedInv, VerifiedThread, Contents
  <2>2. cache' \in [Blobs -> Contents]
    BY <1>13, <2>1 DEF Persist
  <2>3. /\ mtime' \in [Blobs -> Nat]
        /\ temp' \in [Threads -> Nat]
    BY <1>13 DEF Persist
  <2>4. pc' \in [Threads -> PCs]
    BY <1>13, Names DEF Persist, Goto
  <2>5. since' \in [Threads -> SUBSET Blobs]
    BY <1>13 DEF Persist
  <2>6. QED  BY <1>13, <2>2, <2>3, <2>4, <2>5 DEF Persist
<1>13a. CASE Write(t)
  <2>1. pc' \in [Threads -> PCs]
    BY <1>13a, Names DEF Write, Goto
  <2>2. clock' \in Nat /\ temp' \in [Threads -> Nat]
    <3>1. PICK d \in Ticks : clock' = clock + d /\ temp' = [temp EXCEPT ![t] = clock + d]
      BY <1>13a DEF Write
    <3>2. clock + d \in Nat
      BY <3>1, ReadPathAssumption
    <3>3. QED  BY <3>1, <3>2
  <2>3. QED  BY <1>13a, <2>1, <2>2 DEF Write
<1>13b. CASE Count(t)
  <2>1. pc' \in [Threads -> PCs]
    BY <1>13b, Names DEF Count, Goto
  <2>2. QED  BY <1>13b, <2>1 DEF Count
<1>14. CASE PersistFails(t)
  <2>1. /\ pc' \in [Threads -> PCs]
        /\ fetchInProgress' \in [Mounts -> SUBSET Blobs]
    BY <1>14, Names, DeregisterType DEF PersistFails, Goto
  <2>2. data' \in [Threads -> Bytes]
    BY <1>14 DEF PersistFails, Deliver, Bytes
  <2>3. via' \in [Threads -> Paths]
    BY <1>14 DEF PersistFails, Deliver, Paths
  <2>4. result' \in [Threads -> Results]
    BY <1>14 DEF PersistFails, Returns, Results
  <2>5. expiry' \in [Threads -> BOOLEAN] /\ temp' \in [Threads -> Nat]
    BY <1>14 DEF PersistFails
  <2>6. QED  BY <1>14, <2>1, <2>2, <2>3, <2>4, <2>5 DEF PersistFails
<1>15. CASE Stale(t)
  <2>1. Cached(blob[t]) => cache[blob[t]] \in Bytes
    BY CachedBytes
  <2>2. /\ pc' \in [Threads -> PCs]
        /\ fetchInProgress' \in [Mounts -> SUBSET Blobs]
    BY <1>15, Names, DeregisterType DEF Stale, Goto
  <2>3. data' \in [Threads -> Bytes]
    BY <1>15, <2>1 DEF Stale, Deliver
  <2>4. via' \in [Threads -> Paths]
    BY <1>15 DEF Stale, Deliver, Paths
  <2>5. result' \in [Threads -> Results]
    BY <1>15 DEF Stale, Returns, Results
  <2>6. QED  BY <1>15, <2>2, <2>3, <2>4, <2>5 DEF Stale
<1>16. CASE Release(t)
  <2>1. /\ pc' \in [Threads -> PCs]
        /\ fetchInProgress' \in [Mounts -> SUBSET Blobs]
    BY <1>16, Names, DeregisterType DEF Release, Goto
  <2>2. /\ unseen' \in [Threads -> SUBSET Blobs]
        /\ since' \in [Threads -> SUBSET Blobs]
    <3>1. Present \in SUBSET Blobs
      BY DEF Present
    <3>2. CASE unseen' = unseen /\ since' = since
      BY <3>2
    <3>3. CASE /\ unseen' = [unseen EXCEPT ![t] = Blobs]
               /\ since' = [since EXCEPT ![t] = Present]
      BY <3>1, <3>3
    <3>4. QED  BY <1>16, <3>2, <3>3 DEF Release
  <2>3. QED  BY <1>16, <2>1, <2>2 DEF Release
<1>17. CASE Walk(t)
  <2>1. PICK b \in unseen[t] :
          /\ unseen' = [unseen EXCEPT ![t] = @ \ {b}]
          /\ \/ /\ todo' = [todo EXCEPT ![t] = @ \union {b}]
                /\ stamp' = [stamp EXCEPT ![t][b] = mtime[b]]
             \/ UNCHANGED <<todo, stamp>>
    BY <1>17 DEF Walk
  <2>2. b \in Blobs /\ mtime[b] \in Nat
    BY <2>1
  <2>3. /\ unseen[t] \ {b} \in SUBSET Blobs
        /\ todo[t] \union {b} \in SUBSET Blobs
        /\ [stamp[t] EXCEPT ![b] = mtime[b]] \in [Blobs -> Nat]
    BY <2>2
  <2>4. unseen' \in [Threads -> SUBSET Blobs]
    BY <2>1, <2>3
  <2>5. todo' \in [Threads -> SUBSET Blobs]
    BY <2>1, <2>3
  <2>6. stamp' \in [Threads -> [Blobs -> Nat]]
    BY <2>1, <2>3
  <2>7. QED  BY <1>17, <2>4, <2>5, <2>6 DEF Walk
<1>17a. CASE WalkDone(t)
  <2>1. pc' \in [Threads -> PCs]
    BY <1>17a, Names DEF WalkDone, Goto
  <2>2. QED  BY <1>17a, <2>1 DEF WalkDone
<1>18. CASE EvictOne(t)
  <2>1. todo' \in [Threads -> SUBSET Blobs]
    BY <1>18 DEF EvictOne
  <2>2. \/ UNCHANGED dirVars
        \/ \E b \in Blobs : RemoveFile(b)
    BY <1>18 DEF EvictOne
  <2>3. /\ cache' \in [Blobs -> Contents]
        /\ mtime' \in [Blobs -> Nat]
        /\ since' \in [Threads -> SUBSET Blobs]
        /\ temp' \in [Threads -> Nat]
        /\ clock' \in Nat
    <3>1. CASE UNCHANGED dirVars
      BY <3>1
    <3>2. ASSUME NEW b \in Blobs, RemoveFile(b)
          PROVE  /\ cache' \in [Blobs -> Contents]
                 /\ mtime' \in [Blobs -> Nat]
                 /\ since' \in [Threads -> SUBSET Blobs]
                 /\ UNCHANGED <<temp, clock>>
      BY <3>2 DEF RemoveFile, Contents
    <3>3. QED  BY <2>2, <3>1, <3>2
  <2>4. QED  BY <1>18, <2>1, <2>3 DEF EvictOne
<1>19. CASE EvictDone(t)
  <2>1. pc' \in [Threads -> PCs]
    BY <1>19, Names DEF EvictDone, Goto
  <2>2. /\ todo' \in [Threads -> SUBSET Blobs]
        /\ since' \in [Threads -> SUBSET Blobs]
    BY <1>19 DEF EvictDone
  <2>3. stamp' \in [Threads -> [Blobs -> Nat]]
    BY <1>19 DEF EvictDone, NoStamps
  <2>4. QED  BY <1>19, <2>1, <2>2, <2>3 DEF EvictDone
<1>20. CASE RecordExpiry(t)
  <2>1. MountOf[t] \in Mounts /\ ino[t] \in Inodes /\ blob[t] \in Blobs
    BY ReadPathAssumption
  <2>2. pc' \in [Threads -> PCs]
    BY <1>20, Names DEF RecordExpiry, Goto
  <2>3. result' \in [Threads -> Results]
    BY <1>20 DEF RecordExpiry, Returns, Results
  <2>4. expires' \in [Mounts -> [Inodes -> Blobs \union {NoBlob}]]
    <3>1. CASE expires' = expires
      BY <3>1
    <3>2. CASE expires' = [expires EXCEPT ![MountOf[t]][ino[t]] = blob[t]]
      BY <2>1, <3>2
    <3>3. QED  BY <1>20, <3>1, <3>2 DEF RecordExpiry
  <2>5. QED  BY <1>20, <2>2, <2>3, <2>4 DEF RecordExpiry
<1>21. QED  BY ReadStep(t), <1>1, <1>2, <1>3, <1>4, <1>5, <1>6, <1>7, <1>8, <1>9, <1>10,
     <1>11, <1>12, <1>13, <1>13a, <1>13b, <1>14, <1>15, <1>16, <1>17, <1>17a, <1>18,
     <1>19, <1>20 DEF ReadStep, LocalStep, Answered

\* A new read(), and whatever happens around the readers, keeps the types.
LEMMA OtherStepType ==
  ASSUME TypeOK, (\E t \in Threads : Start(t)) \/ Environment
  PROVE  TypeOK'
<1> USE DEF TypeOK
<1>1. ASSUME NEW t \in Threads, Start(t)
      PROVE  TypeOK'
  <2>1. pc' \in [Threads -> PCs]
    BY <1>1, Names DEF Start, Goto
  <2>2. /\ ino' \in [Threads -> Inodes]
        /\ blob' \in [Threads -> Blobs]
    <3>1. PICK i \in Inodes :
            /\ blobOf[MountOf[t]][i] # NoBlob
            /\ ino' = [ino EXCEPT ![t] = i]
            /\ blob' = [blob EXCEPT ![t] = blobOf[MountOf[t]][i]]
      BY <1>1 DEF Start
    <3>2. blobOf[MountOf[t]][i] \in Blobs
      <4>1. MountOf[t] \in Mounts
        BY ReadPathAssumption
      <4>2. blobOf[MountOf[t]][i] \in Blobs \union {NoBlob}
        BY <4>1
      <4>3. QED  BY <3>1, <4>2
    <3>3. QED  BY <3>1, <3>2
  <2>3. /\ reads' \in [Threads -> Nat]
        /\ expiry' \in [Threads -> BOOLEAN]
    BY <1>1 DEF Start
  <2>4. /\ data' \in [Threads -> Bytes]
        /\ via' \in [Threads -> Paths]
    BY <1>1 DEF Start, Deliver, Bytes, Paths
  <2>5. result' \in [Threads -> Results]
    BY <1>1 DEF Start, Returns, Results
  <2>6. QED  BY <1>1, <2>1, <2>2, <2>3, <2>4, <2>5 DEF Start
<1>2. ASSUME NEW b \in Blobs, UnlinkCached(b)
      PROVE  TypeOK'
  <2>1. cache' \in [Blobs -> Contents]
    BY <1>2 DEF UnlinkCached, RemoveFile, Contents
  <2>2. mtime' \in [Blobs -> Nat] /\ since' \in [Threads -> SUBSET Blobs]
    BY <1>2 DEF UnlinkCached, RemoveFile
  <2>3. QED  BY <1>2, <2>1, <2>2 DEF UnlinkCached, RemoveFile
<1>3. ASSUME NEW m \in Mounts, NEW i \in Inodes, Truncate(m, i)
      PROVE  TypeOK'
  BY <1>3 DEF Truncate
<1>4. ASSUME NEW m \in Mounts, NEW i \in Inodes, NEW b \in Blobs,
             Publish(m, i, b)
      PROVE  TypeOK'
  BY <1>4 DEF Publish
<1>5. ASSUME NEW m \in Mounts, Crash(m)
      PROVE  TypeOK'
  <2>1. /\ fetchInProgress' \in [Mounts -> SUBSET Blobs]
        /\ blobOf' \in [Mounts -> [Inodes -> Blobs \union {NoBlob}]]
        /\ expires' \in [Mounts -> [Inodes -> Blobs \union {NoBlob}]]
    <3>1. ListedExpiry \in [Inodes -> Blobs \union {NoBlob}]
      BY ReadPathAssumption DEF ListedExpiry
    <3>2. QED  BY <1>5, <3>1, ReadPathAssumption DEF Crash
  <2>2. pc' \in [Threads -> PCs]
    BY <1>5, Names DEF Crash
  <2>3. /\ data' \in [Threads -> Bytes]
        /\ via' \in [Threads -> Paths]
        /\ expiry' \in [Threads -> BOOLEAN]
    BY <1>5 DEF Crash, Bytes, Paths
  <2>4. /\ todo' \in [Threads -> SUBSET Blobs]
        /\ unseen' \in [Threads -> SUBSET Blobs]
        /\ since' \in [Threads -> SUBSET Blobs]
        /\ stamp' \in [Threads -> [Blobs -> Nat]]
        /\ temp' \in [Threads -> Nat]
    BY <1>5 DEF Crash, NoStamps
  <2>5. result' \in [Threads -> Results]
    BY <1>5 DEF Crash, Results
  <2>6. QED  BY <1>5, <2>1, <2>2, <2>3, <2>4, <2>5 DEF Crash
<1>6. QED  BY <1>1, <1>2, <1>3, <1>4, <1>5 DEF Environment

-----------------------------------------------------------------------------
(* Verified bytes.                                                         *)

\* A thread's step does nothing to another thread but wake it.
LEMMA OthersUntouched ==
  ASSUME TypeOK, NEW t \in Threads, NEW u \in Threads, u # t,
         Start(t) \/ ReadStep(t)
  PROVE  /\ \/ pc'[u] = pc[u]
            \/ pc[u] = "blocked" /\ pc'[u] = "acquire"
         /\ blob'[u] = blob[u]
         /\ data'[u] = data[u]
         /\ via'[u] = via[u]
         /\ result'[u] = result[u]
<1> USE DEF TypeOK, Goto, Deregister, Deliver, Returns
<1>1. CASE Start(t)
  BY <1>1 DEF Start
<1>2. CASE Lookup(t)
  BY <1>2 DEF Lookup
<1>3. CASE ReadHit(t)
  BY <1>3 DEF ReadHit
<1>4. CASE Acquire(t)
  BY <1>4 DEF Acquire
<1>5. CASE Recheck(t)
  BY <1>5 DEF Recheck
<1>6. CASE ReadHit2(t)
  BY <1>6 DEF ReadHit2
<1>7. CASE RangePartial(t)
  BY <1>7 DEF RangePartial
<1>8. CASE RangeWhole(t)
  BY <1>8 DEF RangeWhole
<1>9. CASE RangeFails(t)
  BY <1>9 DEF RangeFails
<1>10. CASE FullLookup(t)
  BY <1>10 DEF FullLookup
<1>11. CASE FullRead(t)
  BY <1>11 DEF FullRead
<1>12. CASE GetWhole(t)
  BY <1>12 DEF GetWhole
<1>13. CASE GetFails(t)
  BY <1>13 DEF GetFails
<1>14. CASE Persist(t)
  BY <1>14 DEF Persist
<1>15. CASE PersistFails(t)
  BY <1>15 DEF PersistFails
<1>16. CASE Stale(t)
  BY <1>16 DEF Stale
<1>17. CASE Release(t)
  BY <1>17 DEF Release
<1>18. CASE Walk(t)
  BY <1>18 DEF Walk
<1>19. CASE EvictOne(t)
  BY <1>19 DEF EvictOne
<1>20. CASE EvictDone(t)
  BY <1>20 DEF EvictDone
<1>21. CASE RecordExpiry(t)
  BY <1>21 DEF RecordExpiry
<1>22. CASE Write(t)
  BY <1>22 DEF Write
<1>23. CASE Count(t)
  BY <1>23 DEF Count
<1>24. CASE WalkDone(t)
  BY <1>24 DEF WalkDone
<1>25. QED  BY <1>1, <1>2, <1>3, <1>4, <1>5, <1>6, <1>7, <1>8, <1>9, <1>10,
     <1>11, <1>12, <1>13, <1>14, <1>15, <1>16, <1>17, <1>18, <1>19, <1>20,
     <1>21, <1>22, <1>23, <1>24 DEF ReadStep, LocalStep, Answered

\* The thread that takes the step keeps its own part of the invariant.
LEMMA ReadStepVerifiesOwn ==
  ASSUME TypeOK, VerifiedInv, NEW t \in Threads, ReadStep(t)
  PROVE  VerifiedThread(t)'
<1>1. Cached(blob[t]) => cache[blob[t]] = "good"
  BY DEF TypeOK, VerifiedInv, CacheIntegrity, Cached, Contents
<1>2. VerifiedThread(t)
  BY DEF VerifiedInv
<1> USE DEF TypeOK, VerifiedThread, Goto, Deregister, Deliver, Returns
<1>3. CASE Lookup(t)
  BY <1>1, <1>2, <1>3 DEF Lookup
<1>4. CASE ReadHit(t)
  BY <1>1, <1>2, <1>4 DEF ReadHit
<1>5. CASE Acquire(t)
  BY <1>1, <1>2, <1>5 DEF Acquire
<1>6. CASE Recheck(t)
  BY <1>1, <1>2, <1>6 DEF Recheck
<1>7. CASE ReadHit2(t)
  BY <1>1, <1>2, <1>7 DEF ReadHit2
<1>8. CASE RangePartial(t)
  BY <1>1, <1>2, <1>8 DEF RangePartial
<1>9. CASE RangeWhole(t)
  BY <1>1, <1>2, <1>9 DEF RangeWhole
<1>10. CASE RangeFails(t)
  BY <1>1, <1>2, <1>10 DEF RangeFails
<1>11. CASE FullLookup(t)
  BY <1>1, <1>2, <1>11 DEF FullLookup
<1>12. CASE FullRead(t)
  BY <1>1, <1>2, <1>12 DEF FullRead
<1>13. CASE GetWhole(t)
  BY <1>1, <1>2, <1>13 DEF GetWhole
<1>14. CASE GetFails(t)
  BY <1>1, <1>2, <1>14 DEF GetFails
<1>15. CASE Persist(t)
  BY <1>1, <1>2, <1>15 DEF Persist
<1>16. CASE PersistFails(t)
  BY <1>1, <1>2, <1>16 DEF PersistFails
<1>17. CASE Stale(t)
  BY <1>1, <1>2, <1>17 DEF Stale
<1>18. CASE Release(t)
  BY <1>1, <1>2, <1>18 DEF Release
<1>19. CASE Walk(t)
  BY <1>1, <1>2, <1>19 DEF Walk
<1>20. CASE EvictOne(t)
  BY <1>1, <1>2, <1>20 DEF EvictOne
<1>21. CASE EvictDone(t)
  BY <1>1, <1>2, <1>21 DEF EvictDone
<1>22. CASE RecordExpiry(t)
  BY <1>1, <1>2, <1>22 DEF RecordExpiry
<1>23. CASE Write(t)
  BY <1>1, <1>2, <1>23 DEF Write
<1>24. CASE Count(t)
  BY <1>1, <1>2, <1>24 DEF Count
<1>25. CASE WalkDone(t)
  BY <1>1, <1>2, <1>25 DEF WalkDone
<1>26. QED  BY <1>3, <1>4, <1>5, <1>6, <1>7, <1>8, <1>9, <1>10, <1>11, <1>12,
     <1>13, <1>14, <1>15, <1>16, <1>17, <1>18, <1>19, <1>20, <1>21, <1>22, <1>23,
     <1>24, <1>25 DEF ReadStep, LocalStep, Answered

\* Every step keeps the cache verified: only a rename adds a file to it.
LEMMA CacheStaysVerified ==
  ASSUME TypeOK, VerifiedInv, [Next]_vars
  PROVE  CacheIntegrity'
<1> USE DEF TypeOK, VerifiedInv, CacheIntegrity
<1>1. ASSUME NEW t \in Threads, Persist(t)
      PROVE  CacheIntegrity'
  BY <1>1 DEF Persist, VerifiedThread
<1>2. ASSUME NEW t \in Threads, EvictOne(t)
      PROVE  CacheIntegrity'
  BY <1>2 DEF EvictOne, RemoveFile
<1>3. ASSUME NEW b \in Blobs, UnlinkCached(b)
      PROVE  CacheIntegrity'
  BY <1>3 DEF UnlinkCached, RemoveFile
<1>4. CASE cache' = cache
  BY <1>4
<1>5. \/ cache' = cache
      \/ \E t \in Threads : Persist(t) \/ EvictOne(t)
      \/ \E b \in Blobs : UnlinkCached(b)
  BY DEF Next, Environment, ReadStep, LocalStep, Answered, Start, Truncate, Publish,
         Crash, vars, Lookup, ReadHit, Acquire, Recheck, ReadHit2, RangePartial,
         RangeWhole, RangeFails, FullLookup, FullRead, GetWhole, GetFails, Write,
         PersistFails, Count, Stale, Release, Walk, WalkDone, EvictDone, RecordExpiry
<1>6. QED  BY <1>1, <1>2, <1>3, <1>4, <1>5

\* Every step keeps the threads' part of the invariant.
LEMMA ThreadsStayVerified ==
  ASSUME TypeOK, VerifiedInv, [Next]_vars
  PROVE  \A u \in Threads : VerifiedThread(u)'
<1> SUFFICES ASSUME NEW u \in Threads
             PROVE  VerifiedThread(u)'
  OBVIOUS
<1>1. VerifiedThread(u)
  BY DEF VerifiedInv
<1>2. ASSUME NEW t \in Threads, ReadStep(t)
      PROVE  VerifiedThread(u)'
  <2>1. CASE t = u
    BY <1>2, <2>1, ReadStepVerifiesOwn
  <2>2. CASE t # u
    BY <1>1, <1>2, <2>2, OthersUntouched DEF VerifiedThread
  <2>3. QED  BY <2>1, <2>2
<1>3. ASSUME NEW t \in Threads, Start(t)
      PROVE  VerifiedThread(u)'
  <2>1. CASE t = u
    BY <1>3, <2>1
    DEF TypeOK, VerifiedThread, Start, Goto, Deliver, Returns
  <2>2. CASE t # u
    BY <1>1, <1>3, <2>2, OthersUntouched DEF VerifiedThread
  <2>3. QED  BY <2>1, <2>2
<1>4. ASSUME NEW m \in Mounts, Crash(m)
      PROVE  VerifiedThread(u)'
  BY <1>1, <1>4 DEF TypeOK, VerifiedThread, Crash
<1>5. CASE UNCHANGED <<pc, data, via, result>>
  BY <1>1, <1>5 DEF VerifiedThread
<1>6. \/ \E t \in Threads : Start(t) \/ ReadStep(t)
      \/ \E m \in Mounts : Crash(m)
      \/ UNCHANGED <<pc, data, via, result>>
  BY DEF Next, Environment, UnlinkCached, Truncate, Publish, vars
<1>7. QED  BY <1>2, <1>3, <1>4, <1>5, <1>6

\* The types and the verified bytes are invariants of the specification.
THEOREM TypeCorrect == Spec => [](TypeOK /\ VerifiedInv)
<1>1. Init => TypeOK /\ VerifiedInv
  <2> SUFFICES ASSUME Init
               PROVE  TypeOK /\ VerifiedInv
    OBVIOUS
  <2>1. TypeOK
    BY InitType
  <2>2. VerifiedInv
    BY DEF Init, VerifiedInv, VerifiedThread, CacheIntegrity
  <2>3. QED  BY <2>1, <2>2
<1>2. TypeOK /\ VerifiedInv /\ [Next]_vars => (TypeOK /\ VerifiedInv)'
  <2> SUFFICES ASSUME TypeOK, VerifiedInv, [Next]_vars
               PROVE  TypeOK' /\ VerifiedInv'
    OBVIOUS
  <2>1. TypeOK'
    <3>1. CASE \E t \in Threads : ReadStep(t)
      BY <3>1, ReadStepType
    <3>2. CASE (\E t \in Threads : Start(t)) \/ Environment
      BY <3>2, OtherStepType
    <3>3. CASE UNCHANGED vars
      BY <3>3 DEF TypeOK, vars
    <3>4. QED  BY <3>1, <3>2, <3>3 DEF Next
  <2>2. VerifiedInv'
    BY CacheStaysVerified, ThreadsStayVerified DEF VerifiedInv
  <2>3. QED  BY <2>1, <2>2
<1>3. QED  BY <1>1, <1>2, PTL DEF Spec

\* Nothing but verified bytes is ever cached, for any number of mounts sharing
\* the directory, any answers of the servers, and with crashes.
THEOREM CacheIsVerified == Spec => []CacheIntegrity
BY TypeCorrect, PTL DEF VerifiedInv

\* Every successful read() outside the 206 path returns verified bytes.
THEOREM ReadsAreVerified == Spec => []WholeBlobVerified
<1>1. VerifiedInv => WholeBlobVerified
  BY DEF VerifiedInv, VerifiedThread, WholeBlobVerified
<1>2. QED  BY <1>1, TypeCorrect, PTL

\* Nothing but bytes that hash to the blob's name is cached or read, except
\* from a 206 answer.
THEOREM BytesAreVerified == Spec => []OnlyVerified
BY CacheIsVerified, ReadsAreVerified, PTL DEF OnlyVerified

-----------------------------------------------------------------------------
(* The registrations: no waiter is forgotten.                              *)

\* What a step of t can do to the registrations.  Move: t goes on, and does
\* not drop out of the fetch.
Move(t) ==
  /\ \E l \in PCs \ {"blocked"} :
       Goto(t, l) /\ (pc[t] \in FetchPCs => l \in FetchPCs)
  /\ UNCHANGED <<fetchInProgress, blob>>

Register(t) ==
  /\ pc[t] = "acquire"
  /\ blob[t] \notin fetchInProgress[MountOf[t]]
  /\ Goto(t, "recheck")
  /\ fetchInProgress' = [fetchInProgress EXCEPT ![MountOf[t]] = @ \union {blob[t]}]
  /\ UNCHANGED blob

Sleep(t) ==
  /\ pc[t] = "acquire"
  /\ blob[t] \in fetchInProgress[MountOf[t]]
  /\ Goto(t, "blocked")
  /\ UNCHANGED <<fetchInProgress, blob>>

Leave(t) ==
  /\ pc[t] \in FetchPCs
  /\ \E l \in (PCs \ {"blocked"}) \ FetchPCs : Deregister(t, l)
  /\ UNCHANGED blob

\* Every step of a running read() is one of the four, or leaves them alone.
LEMMA RegistrationSteps ==
  ASSUME TypeOK, NEW t \in Threads, ReadStep(t)
  PROVE  \/ Move(t) \/ Register(t) \/ Sleep(t) \/ Leave(t)
         \/ UNCHANGED <<pc, fetchInProgress, blob>>
<1> USE Names DEF Move, Register, Sleep, Leave, FetchPCs
<1>1. CASE Lookup(t)
  BY <1>1 DEF Lookup
<1>2. CASE ReadHit(t)
  BY <1>2 DEF ReadHit
<1>3. CASE Acquire(t)
  BY <1>3 DEF Acquire
<1>4. CASE Recheck(t)
  BY <1>4 DEF Recheck
<1>5. CASE ReadHit2(t)
  BY <1>5 DEF ReadHit2
<1>6. CASE RangePartial(t)
  BY <1>6 DEF RangePartial
<1>7. CASE RangeWhole(t)
  BY <1>7 DEF RangeWhole
<1>8. CASE RangeFails(t)
  BY <1>8 DEF RangeFails
<1>9. CASE FullLookup(t)
  BY <1>9 DEF FullLookup
<1>10. CASE FullRead(t)
  BY <1>10 DEF FullRead
<1>11. CASE GetWhole(t)
  BY <1>11 DEF GetWhole
<1>12. CASE GetFails(t)
  BY <1>12 DEF GetFails
<1>13. CASE Persist(t)
  BY <1>13 DEF Persist
<1>14. CASE PersistFails(t)
  BY <1>14 DEF PersistFails
<1>15. CASE Stale(t)
  BY <1>15 DEF Stale
<1>16. CASE Release(t)
  BY <1>16 DEF Release
<1>17. CASE Walk(t)
  BY <1>17 DEF Walk
<1>18. CASE EvictOne(t)
  BY <1>18 DEF EvictOne
<1>19. CASE EvictDone(t)
  BY <1>19 DEF EvictDone
<1>20. CASE RecordExpiry(t)
  BY <1>20 DEF RecordExpiry
<1>21. CASE Write(t)
  BY <1>21 DEF Write
<1>22. CASE Count(t)
  BY <1>22 DEF Count
<1>23. CASE WalkDone(t)
  BY <1>23 DEF WalkDone
<1>24. QED  BY <1>1, <1>2, <1>3, <1>4, <1>5, <1>6, <1>7, <1>8, <1>9, <1>10,
     <1>11, <1>12, <1>13, <1>14, <1>15, <1>16, <1>17, <1>18, <1>19, <1>20, <1>21,
     <1>22, <1>23 DEF ReadStep, LocalStep, Answered

\* The invariant survives each of the four.
LEMMA RegistrationKept ==
  ASSUME TypeOK, WaiterHasFetcher, NEW t \in Threads,
         Move(t) \/ Register(t) \/ Sleep(t) \/ Leave(t)
  PROVE  WaiterHasFetcher'
<1> USE ReadPathAssumption DEF TypeOK, WaiterHasFetcher
<1>1. CASE Move(t)
  BY <1>1 DEF Move, Goto
<1>2. CASE Register(t)
  <2>1. pc'[t] \in FetchPCs
    BY <1>2 DEF Register, Goto, FetchPCs
  <2>2. QED  BY <1>2, <2>1 DEF Register, Goto
<1>3. CASE Sleep(t)
  <2>1. pc[t] \notin FetchPCs
    BY <1>3 DEF Sleep, FetchPCs
  <2>2. \A u \in Threads : pc[u] \in FetchPCs => pc'[u] = pc[u]
    BY <1>3, <2>1 DEF Sleep, Goto
  <2>3. QED  BY <1>3, <2>2 DEF Sleep, Goto
<1>4. CASE Leave(t)
  <2>1. PICK l \in (PCs \ {"blocked"}) \ FetchPCs : Deregister(t, l)
    BY <1>4 DEF Leave
  <2>2. ASSUME NEW u \in Threads, pc'[u] = "blocked"
        PROVE  blob'[u] \in fetchInProgress'[MountOf[u]]
    <3>1. u # t /\ pc[u] = "blocked" /\ MountOf[u] # MountOf[t]
      BY <2>1, <2>2 DEF Deregister
    <3>2. QED  BY <1>4, <2>1, <3>1 DEF Leave, Deregister
  <2>3. ASSUME NEW m \in Mounts, NEW b \in fetchInProgress'[m]
        PROVE  \E u \in Threads :
                 MountOf[u] = m /\ blob'[u] = b /\ pc'[u] \in FetchPCs
    <3>1. b \in fetchInProgress[m] /\ ~(m = MountOf[t] /\ b = blob[t])
      BY <2>1, <2>3 DEF Deregister
    <3>2. PICK u \in Threads :
            MountOf[u] = m /\ blob[u] = b /\ pc[u] \in FetchPCs
      BY <3>1
    <3>3. u # t /\ pc[u] # "blocked"
      BY <3>1, <3>2 DEF FetchPCs
    <3>4. pc'[u] = pc[u] /\ blob'[u] = blob[u]
      BY <1>4, <2>1, <3>3 DEF Leave, Deregister
    <3>5. QED  BY <3>2, <3>4
  <2>4. QED  BY <2>2, <2>3
<1>5. QED  BY <1>1, <1>2, <1>3, <1>4

\* A thread asleep on the condition variable always waits for a hash that a
\* thread of its mount is fetching.
THEOREM NoForgottenWaiter == Spec => []WaiterHasFetcher
<1>1. Init => WaiterHasFetcher
  BY DEF Init, WaiterHasFetcher
<1>2. TypeOK /\ WaiterHasFetcher /\ [Next]_vars => WaiterHasFetcher'
  <2> SUFFICES ASSUME TypeOK, WaiterHasFetcher, [Next]_vars
               PROVE  WaiterHasFetcher'
    OBVIOUS
  <2>1. ASSUME NEW t \in Threads, ReadStep(t)
        PROVE  WaiterHasFetcher'
    BY <2>1, RegistrationSteps, RegistrationKept DEF WaiterHasFetcher
  <2>2. ASSUME NEW t \in Threads, Start(t)
        PROVE  WaiterHasFetcher'
    <3>1. /\ fetchInProgress' = fetchInProgress
          /\ pc[t] \notin FetchPCs /\ pc'[t] # "blocked"
          /\ \A u \in Threads : u # t => pc'[u] = pc[u] /\ blob'[u] = blob[u]
      BY <2>2 DEF Start, Goto, TypeOK, FetchPCs
    <3>2. QED  BY <3>1 DEF WaiterHasFetcher
  <2>3. ASSUME NEW m \in Mounts, Crash(m)
        PROVE  WaiterHasFetcher'
    BY <2>3, ReadPathAssumption DEF Crash, TypeOK, WaiterHasFetcher
  <2>4. CASE UNCHANGED <<pc, fetchInProgress, blob>>
    BY <2>4 DEF WaiterHasFetcher
  <2>5. QED
    BY <2>1, <2>2, <2>3, <2>4
    DEF Next, Environment, UnlinkCached, Truncate, Publish, vars
<1>3. QED  BY <1>1, <1>2, TypeCorrect, PTL DEF Spec

-----------------------------------------------------------------------------
(* Single flight, when nothing removes cache files.                        *)

NoRemoval == MaxCacheBytes = 0 /\ Unlinkable = {}

\* A thread inside the fetch is registered, it is the only one of its mount
\* there for its blob, and a file found by cache_exists is still there when
\* it is opened, so that no thread enters the fetch by falling through.
FlightInv ==
  /\ \A t \in Threads :
       pc[t] \in FetchPCs => blob[t] \in fetchInProgress[MountOf[t]]
  /\ \A t, u \in Threads :
       t # u /\ MountOf[t] = MountOf[u] /\ blob[t] = blob[u]
         => ~(pc[t] \in FetchPCs /\ pc[u] \in FetchPCs)
  /\ \A t \in Threads :
       pc[t] \in {"readHit", "readHit2"} => Cached(blob[t])
  /\ \A t \in Threads : pc[t] \notin {"walk", "evict"}

\* Without removals a step neither falls through nor reaches the eviction.
LEMMA FlightSteps ==
  ASSUME NoRemoval, TypeOK, VerifiedInv, FlightInv, NEW t \in Threads,
         ReadStep(t)
  PROVE  /\ \/ Move(t) /\ (pc'[t] \in FetchPCs => pc[t] \in FetchPCs)
            \/ Register(t) \/ Sleep(t) \/ Leave(t)
         /\ pc'[t] \in {"readHit", "readHit2"} => Cached(blob[t])'
         /\ pc'[t] \notin {"walk", "evict"}
         /\ \A b \in Blobs : Cached(b) => Cached(b)'
         /\ UNCHANGED blob
<1>1. /\ pc[t] \in {"readHit", "readHit2"} => Cached(blob[t])
      /\ pc[t] \notin {"walk", "evict"}
      /\ pc[t] = "persist" => data[t] = "good"
      /\ pc \in [Threads -> PCs] /\ blob[t] \in Blobs
      /\ cache \in [Blobs -> Contents]
      /\ MaxCacheBytes = 0
  BY DEF FlightInv, VerifiedInv, VerifiedThread, TypeOK, NoRemoval
<1> USE <1>1, Names
    DEF Move, Register, Sleep, Leave, FetchPCs, Goto, Deregister, Cached
<1>2. CASE Lookup(t)
  BY <1>2 DEF Lookup
<1>3. CASE ReadHit(t)
  BY <1>3 DEF ReadHit
<1>4. CASE Acquire(t)
  BY <1>4 DEF Acquire
<1>5. CASE Recheck(t)
  BY <1>5 DEF Recheck
<1>6. CASE ReadHit2(t)
  BY <1>6 DEF ReadHit2
<1>7. CASE RangePartial(t)
  BY <1>7 DEF RangePartial
<1>8. CASE RangeWhole(t)
  BY <1>8 DEF RangeWhole
<1>9. CASE RangeFails(t)
  BY <1>9 DEF RangeFails
<1>10. CASE FullLookup(t)
  BY <1>10 DEF FullLookup
<1>11. CASE FullRead(t)
  BY <1>11 DEF FullRead
<1>12. CASE GetWhole(t)
  BY <1>12 DEF GetWhole
<1>13. CASE GetFails(t)
  BY <1>13 DEF GetFails
<1>14. CASE Persist(t)
  BY <1>14 DEF Persist
<1>15. CASE PersistFails(t)
  BY <1>15 DEF PersistFails
<1>16. CASE Stale(t)
  BY <1>16 DEF Stale
<1>17. CASE Release(t)
  BY <1>17 DEF Release
<1>18. CASE Walk(t)
  BY <1>18 DEF Walk
<1>19. CASE EvictOne(t)
  BY <1>19 DEF EvictOne
<1>20. CASE EvictDone(t)
  BY <1>20 DEF EvictDone
<1>21. CASE RecordExpiry(t)
  BY <1>21 DEF RecordExpiry
<1>22. CASE Write(t)
  BY <1>22 DEF Write
<1>23. CASE Count(t)
  BY <1>23 DEF Count
<1>24. CASE WalkDone(t)
  BY <1>24 DEF WalkDone
<1>25. QED  BY <1>2, <1>3, <1>4, <1>5, <1>6, <1>7, <1>8, <1>9, <1>10, <1>11,
     <1>12, <1>13, <1>14, <1>15, <1>16, <1>17, <1>18, <1>19, <1>20, <1>21, <1>22,
     <1>23, <1>24 DEF ReadStep, LocalStep, Answered

\* Each of the four keeps the invariant.
LEMMA FlightKept ==
  ASSUME NoRemoval, TypeOK, VerifiedInv, FlightInv, NEW t \in Threads,
         ReadStep(t)
  PROVE  FlightInv'
<1>1. /\ UNCHANGED blob
      /\ \A u \in Threads \ {t} :
           pc'[u] = pc[u] \/ (pc[u] = "blocked" /\ pc'[u] = "acquire")
  <2>1. UNCHANGED blob
    BY FlightSteps
  <2>2. ASSUME NEW u \in Threads \ {t}
        PROVE  pc'[u] = pc[u] \/ (pc[u] = "blocked" /\ pc'[u] = "acquire")
    <3>1. u \in Threads /\ u # t
      OBVIOUS
    <3>2. QED  BY <3>1, OthersUntouched
  <2>3. QED  BY <2>1, <2>2
<1>2. /\ pc'[t] \in {"readHit", "readHit2"} => Cached(blob[t])'
      /\ pc'[t] \notin {"walk", "evict"}
      /\ \A b \in Blobs : Cached(b) => Cached(b)'
  BY FlightSteps
<1>3. \A u \in Threads : pc'[u] \notin {"walk", "evict"}
  BY <1>1, <1>2 DEF FlightInv
<1>4. \A u \in Threads :
        pc'[u] \in {"readHit", "readHit2"} => Cached(blob[u])'
  <2> SUFFICES ASSUME NEW u \in Threads, pc'[u] \in {"readHit", "readHit2"}
               PROVE  Cached(blob[u])'
    OBVIOUS
  <2>1. CASE u = t
    BY <1>2, <2>1
  <2>2. CASE u # t
    <3>1. pc[u] \in {"readHit", "readHit2"} /\ blob[u] \in Blobs
      BY <1>1, <2>2 DEF TypeOK
    <3>2. Cached(blob[u])
      BY <3>1 DEF FlightInv
    <3>3. QED  BY <1>1, <1>2, <3>1, <3>2 DEF Cached
  <2>3. QED  BY <2>1, <2>2
<1>5. \A u \in Threads \ {t} : pc'[u] \in FetchPCs => pc[u] \in FetchPCs
  BY <1>1 DEF FetchPCs
<1> USE ReadPathAssumption DEF TypeOK
<1>6. CASE Move(t) /\ (pc'[t] \in FetchPCs => pc[t] \in FetchPCs)
  BY <1>3, <1>4, <1>5, <1>6 DEF Move, FlightInv
<1>7. CASE Register(t)
  <2>1. \A u \in Threads : MountOf[u] = MountOf[t] /\ blob[u] = blob[t]
                             => pc[u] \notin FetchPCs
    BY <1>7 DEF Register, FlightInv
  <2>2. \A u \in Threads :
          pc'[u] \in FetchPCs => blob'[u] \in fetchInProgress'[MountOf[u]]
    BY <1>1, <1>5, <1>7 DEF Register, FlightInv
  <2>3. \A u, v \in Threads :
          u # v /\ MountOf[u] = MountOf[v] /\ blob'[u] = blob'[v]
            => ~(pc'[u] \in FetchPCs /\ pc'[v] \in FetchPCs)
    BY <1>1, <1>5, <2>1 DEF FlightInv
  <2>4. QED  BY <1>3, <1>4, <2>2, <2>3 DEF FlightInv
<1>8. CASE Sleep(t)
  <2>1. pc'[t] \notin FetchPCs
    BY <1>8 DEF Sleep, Goto, FetchPCs
  <2>2. QED  BY <1>3, <1>4, <1>5, <1>8, <2>1 DEF Sleep, FlightInv
<1>9. CASE Leave(t)
  <2>1. pc'[t] \notin FetchPCs
    BY <1>9 DEF Leave, Deregister
  <2>2. \A u \in Threads :
          pc'[u] \in FetchPCs => blob'[u] \in fetchInProgress'[MountOf[u]]
    <3> SUFFICES ASSUME NEW u \in Threads, pc'[u] \in FetchPCs
                 PROVE  blob[u] \in fetchInProgress'[MountOf[u]]
      BY <1>1
    <3>1. u # t /\ pc[u] \in FetchPCs
      BY <1>5, <2>1
    <3>2. ~(MountOf[u] = MountOf[t] /\ blob[u] = blob[t])
      BY <1>9, <3>1 DEF Leave, FlightInv
    <3>3. QED  BY <1>9, <3>1, <3>2 DEF Leave, Deregister, FlightInv
  <2>3. QED  BY <1>1, <1>3, <1>4, <1>5, <2>1, <2>2 DEF FlightInv
<1>10. QED  BY FlightSteps, <1>6, <1>7, <1>8, <1>9

\* With eviction disabled and no deletions, a mount never has two requests for
\* one blob open: fetch_in_progress does prevent duplicate downloads then.
THEOREM OneFlight ==
  ASSUME NoRemoval
  PROVE  Spec => []SingleFlight
<1>1. Init => FlightInv
  BY DEF Init, FlightInv, FetchPCs
<1>2. /\ TypeOK /\ VerifiedInv
      /\ FlightInv /\ [Next]_vars
      => FlightInv'
  <2> SUFFICES ASSUME TypeOK, VerifiedInv, FlightInv, [Next]_vars
               PROVE  FlightInv'
    OBVIOUS
  <2>1. ASSUME NEW t \in Threads, ReadStep(t)
        PROVE  FlightInv'
    BY <2>1, FlightKept
  <2>2. ASSUME NEW t \in Threads, Start(t)
        PROVE  FlightInv'
    <3>1. /\ UNCHANGED <<fetchInProgress, cache>>
          /\ pc'[t] = "lookup"
          /\ \A u \in Threads : u # t => pc'[u] = pc[u] /\ blob'[u] = blob[u]
      BY <2>2 DEF Start, Goto, TypeOK
    <3>2. QED  BY <3>1 DEF FlightInv, FetchPCs, Cached
  <2>3. ASSUME NEW m \in Mounts, Crash(m)
        PROVE  FlightInv'
    BY <2>3, ReadPathAssumption
    DEF Crash, TypeOK, FlightInv, FetchPCs, Cached
  <2>4. CASE UNCHANGED <<pc, fetchInProgress, blob, cache>>
    BY <2>4 DEF FlightInv, Cached
  <2>5. QED
    BY <2>1, <2>2, <2>3, <2>4
    DEF Next, Environment, UnlinkCached, Truncate, Publish, vars, NoRemoval
<1>3. FlightInv => SingleFlight
  BY DEF FlightInv, SingleFlight, Downloading, FetchPCs
<1>4. QED  BY <1>1, <1>2, <1>3, TypeCorrect, PTL DEF Spec

-----------------------------------------------------------------------------
(* What the steps do to the files and to the evictions.                    *)

\* Between the rename of a fetched file and the end of the eviction after it.
Evicting == {"count", "release", "walk", "evict"}

\* Neither the files nor an eviction change; no eviction goes on, none ends, and
\* no file has just been put in the cache.
Bystands ==
  /\ UNCHANGED <<cache, mtime, since, todo, stamp, unseen, total>>
  /\ \A u \in Threads :
       \/ pc'[u] = pc[u] /\ blob'[u] = blob[u]
       \/ pc[u] \notin Evicting /\ pc'[u] # "count"

\* The steps of a read() before its eviction, but for the rename, and after it.
Aside(t) ==
  \/ Lookup(t) \/ ReadHit(t) \/ Acquire(t) \/ Recheck(t) \/ ReadHit2(t)
  \/ RangePartial(t) \/ RangeWhole(t) \/ RangeFails(t)
  \/ FullLookup(t) \/ FullRead(t) \/ GetWhole(t) \/ GetFails(t)
  \/ Write(t) \/ PersistFails(t) \/ Stale(t) \/ RecordExpiry(t)

LEMMA AsideBystands ==
  ASSUME TypeOK, NEW t \in Threads, Start(t) \/ Aside(t)
  PROVE  Bystands
<1>1. CASE Start(t)
  BY <1>1 DEF Start, Goto, TypeOK, Bystands, Evicting
<1>2. CASE Aside(t)
  <2>1. UNCHANGED <<cache, mtime, since, todo, stamp, unseen, total, blob>>
    BY <1>2 DEF Aside, Lookup, ReadHit, Acquire, Recheck, ReadHit2, RangePartial,
       RangeWhole, RangeFails, FullLookup, FullRead, GetWhole, GetFails, Write,
       PersistFails, Stale, RecordExpiry
  <2>2. pc[t] \notin Evicting
    BY <1>2 DEF Aside, Lookup, ReadHit, Acquire, Recheck, ReadHit2, RangePartial,
       RangeWhole, RangeFails, FullLookup, FullRead, GetWhole, GetFails, Write,
       PersistFails, Stale, RecordExpiry, Evicting
  <2>3. pc'[t] # "count"
    <3> USE DEF TypeOK, Goto, Deregister
    <3>1. CASE Lookup(t) \/ ReadHit(t) \/ Acquire(t) \/ ReadHit2(t) \/ RangeFails(t)
      BY <3>1 DEF Lookup, ReadHit, Acquire, ReadHit2, RangeFails
    <3>2. CASE FullLookup(t) \/ FullRead(t) \/ GetWhole(t) \/ GetFails(t)
      BY <3>2 DEF FullLookup, FullRead, GetWhole, GetFails
    <3>3. CASE Recheck(t) \/ RangePartial(t) \/ RangeWhole(t)
      BY <3>3 DEF Recheck, RangePartial, RangeWhole
    <3>4. CASE Write(t) \/ PersistFails(t) \/ Stale(t) \/ RecordExpiry(t)
      BY <3>4 DEF Write, PersistFails, Stale, RecordExpiry
    <3>5. QED  BY <1>2, <3>1, <3>2, <3>3, <3>4 DEF Aside
  <2>4. ReadStep(t)
    BY <1>2 DEF Aside, ReadStep, LocalStep, Answered
  <2>5. ASSUME NEW u \in Threads, u # t
        PROVE  pc'[u] = pc[u] \/ (pc[u] = "blocked" /\ pc'[u] = "acquire")
    BY <2>4, <2>5, OthersUntouched
  <2>6. QED  BY <2>1, <2>2, <2>3, <2>5 DEF Bystands, Evicting
<1>3. QED  BY <1>1, <1>2

\* The steps that have to do with files and evictions, and all others.
LEMMA CacheSteps ==
  ASSUME TypeOK, [Next]_vars
  PROVE  \/ \E t \in Threads :
              \/ Persist(t) \/ Count(t) \/ Release(t) \/ Walk(t) \/ WalkDone(t)
              \/ EvictOne(t) \/ EvictDone(t)
         \/ \E b \in Blobs : UnlinkCached(b)
         \/ \E m \in Mounts : Crash(m)
         \/ Bystands
<1>1. \A t \in Threads : Start(t) \/ Aside(t) => Bystands
  BY AsideBystands
<1>2. CASE UNCHANGED <<dirVars, evictVars, pc, blob>>
  BY <1>2 DEF Bystands
<1>3. QED
  BY <1>1, <1>2
  DEF Next, ReadStep, LocalStep, Answered, Aside, Environment, Truncate, Publish, vars

\* Removing and writing a file change what is present by that file.
LEMMA RemovalShrinks ==
  ASSUME TypeOK, NEW b \in Blobs, RemoveFile(b)
  PROVE  Present' = Present \ {b}
BY DEF RemoveFile, TypeOK, Present, Cached

LEMMA PersistGrows ==
  ASSUME TypeOK, NEW t \in Threads, Persist(t)
  PROVE  blob[t] \in Blobs /\ Present' = Present \union {blob[t]}
<1>1. blob[t] \in Blobs /\ data[t] # "absent"
  BY DEF TypeOK, Bytes
<1>2. cache' = [cache EXCEPT ![blob[t]] = data[t]]
  BY DEF Persist
<1>3. QED  BY <1>1, <1>2 DEF TypeOK, Present, Cached

-----------------------------------------------------------------------------
(* The order of eviction.                                                  *)

\* A file that has been in its place since the walk of t began: the walk comes
\* to it yet, or t has it among its entries with the age it has, or t visited it
\* as the one to keep.
Accounted(t, x) ==
  /\ Cached(x)
  /\ \/ pc[t] = "walk" /\ x \in unseen[t]
     \/ pc[t] \in {"walk", "evict"} /\ x \in todo[t] /\ stamp[t][x] = mtime[x]
     \/ pc[t] = "evict" /\ x = blob[t]

OrderInv == \A t \in Threads : \A x \in since[t] : Accounted(t, x)

\* What leaves an eviction and the files it began with alone keeps its account.
LEMMA OrderFramed ==
  ASSUME TypeOK, OrderInv, NEW t \in Threads,
         since'[t] \subseteq since[t],
         \A x \in since'[t] : cache'[x] = cache[x] /\ mtime'[x] = mtime[x],
         todo'[t] = todo[t], stamp'[t] = stamp[t], unseen'[t] = unseen[t],
         pc[t] \in {"walk", "evict"} => pc'[t] = pc[t] /\ blob'[t] = blob[t]
  PROVE  \A x \in since'[t] : Accounted(t, x)'
<1> SUFFICES ASSUME NEW x \in since'[t]
             PROVE  Accounted(t, x)'
  OBVIOUS
<1>1. Accounted(t, x)
  BY DEF OrderInv
<1>2. QED  BY <1>1 DEF Accounted, Cached

\* Removing a file takes it out of the account of everybody.
LEMMA RemovalKeepsOrder ==
  ASSUME TypeOK, NEW b \in Blobs, RemoveFile(b), NEW u \in Threads
  PROVE  /\ since'[u] \subseteq since[u]
         /\ \A x \in since'[u] : cache'[x] = cache[x] /\ mtime'[x] = mtime[x]
BY DEF RemoveFile, TypeOK

\* So does the rename of a new file over it.
LEMMA PersistKeepsOrder ==
  ASSUME TypeOK, OrderInv, NEW t \in Threads, Persist(t)
  PROVE  OrderInv'
<1>1. /\ cache' = [cache EXCEPT ![blob[t]] = data[t]]
      /\ mtime' = [mtime EXCEPT ![blob[t]] = temp[t]]
      /\ since' = [u \in Threads |-> since[u] \ {blob[t]}]
      /\ UNCHANGED <<evictVars, blob>>
      /\ pc[t] = "persist" /\ \A u \in Threads : u # t => pc'[u] = pc[u]
  BY DEF Persist, Goto, TypeOK
<1>2. ASSUME NEW u \in Threads
      PROVE  /\ since'[u] \subseteq since[u]
             /\ \A x \in since'[u] : cache'[x] = cache[x] /\ mtime'[x] = mtime[x]
  BY <1>1 DEF TypeOK
<1>3. \A u \in Threads : pc[u] \in {"walk", "evict"} => pc'[u] = pc[u]
  BY <1>1
<1>4. QED  BY <1>1, <1>2, <1>3, OrderFramed DEF OrderInv

\* The walk: everything is to be come to; then one file after the other is an
\* entry with the age it has; then all that is there since is among them.
LEMMA ReleaseKeepsOrder ==
  ASSUME TypeOK, OrderInv, NEW t \in Threads, Release(t)
  PROVE  OrderInv'
<1>1. /\ UNCHANGED <<cache, mtime, todo, stamp, blob>> /\ pc[t] = "release"
      /\ \A u \in Threads : u # t =>
           /\ unseen'[u] = unseen[u] /\ since'[u] = since[u]
           /\ pc'[u] = pc[u] \/ pc[u] = "blocked"
  BY DEF Release, Deregister, TypeOK
<1>2. ASSUME NEW x \in since'[t]
      PROVE  Accounted(t, x)'
  <2>1. CASE MaxCacheBytes > 0
    <3>1. pc'[t] = "walk" /\ since'[t] = Present /\ unseen'[t] = Blobs
      BY <2>1 DEF Release, Deregister, TypeOK
    <3>2. x \in Blobs /\ cache'[x] # "absent"
      BY <1>1, <1>2, <3>1 DEF Present, Cached
    <3>3. QED  BY <3>1, <3>2 DEF Accounted, Cached
  <2>2. CASE ~(MaxCacheBytes > 0)
    <3>1. since'[t] = since[t]
      BY <2>2 DEF Release
    <3>2. QED  BY <1>1, <1>2, <3>1 DEF OrderInv, Accounted
  <2>3. QED  BY <2>1, <2>2
<1>3. ASSUME NEW u \in Threads, u # t
      PROVE  \A x \in since'[u] : Accounted(u, x)'
  BY <1>1, <1>3, OrderFramed
<1>4. QED  BY <1>2, <1>3 DEF OrderInv

LEMMA WalkKeepsOrder ==
  ASSUME TypeOK, OrderInv, NEW t \in Threads, Walk(t)
  PROVE  OrderInv'
<1>1. PICK b \in unseen[t] :
        /\ unseen' = [unseen EXCEPT ![t] = @ \ {b}]
        /\ IF Cached(b)
           THEN /\ todo' = [todo EXCEPT ![t] = @ \union {b}]
                /\ stamp' = [stamp EXCEPT ![t][b] = mtime[b]]
           ELSE UNCHANGED <<todo, stamp>>
  BY DEF Walk
<1>2. /\ UNCHANGED <<cache, mtime, since, blob, pc>> /\ pc[t] = "walk" /\ b \in Blobs
  BY DEF Walk, TypeOK
<1>3. unseen'[t] = unseen[t] \ {b} /\ \A u \in Threads : u # t => unseen'[u] = unseen[u]
  BY <1>1 DEF TypeOK
<1>4. \A u \in Threads : u # t => todo'[u] = todo[u] /\ stamp'[u] = stamp[u]
  BY <1>1 DEF TypeOK
<1>5. /\ todo[t] \subseteq todo'[t]
      /\ \A x \in Blobs : x # b => stamp'[t][x] = stamp[t][x]
      /\ Cached(b) => b \in todo'[t] /\ stamp'[t][b] = mtime[b]
  BY <1>1, <1>2 DEF TypeOK
<1>6. ASSUME NEW x \in since'[t]
      PROVE  Accounted(t, x)'
  <2>1. Accounted(t, x) /\ x \in Blobs
    BY <1>2, <1>6 DEF OrderInv, TypeOK
  <2>2. CASE x = b
    BY <1>2, <1>5, <2>1, <2>2 DEF Accounted, Cached
  <2>3. CASE x # b
    BY <1>2, <1>3, <1>5, <2>1, <2>3 DEF Accounted, Cached
  <2>4. QED  BY <2>2, <2>3
<1>7. ASSUME NEW u \in Threads, u # t
      PROVE  \A x \in since'[u] : Accounted(u, x)'
  BY <1>2, <1>3, <1>4, <1>7, OrderFramed
<1>8. QED  BY <1>6, <1>7 DEF OrderInv

LEMMA WalkDoneKeepsOrder ==
  ASSUME TypeOK, OrderInv, NEW t \in Threads, WalkDone(t)
  PROVE  OrderInv'
<1>1. /\ UNCHANGED <<cache, mtime, since, todo, stamp, unseen, blob>>
      /\ pc[t] = "walk" /\ unseen[t] = {} /\ pc'[t] = "evict"
      /\ \A u \in Threads : u # t => pc'[u] = pc[u]
  BY DEF WalkDone, Goto, TypeOK
<1>2. \A x \in since'[t] : Accounted(t, x)'
  BY <1>1 DEF OrderInv, Accounted, Cached
<1>3. ASSUME NEW u \in Threads, u # t
      PROVE  \A x \in since'[u] : Accounted(u, x)'
  BY <1>1, <1>3, OrderFramed
<1>4. QED  BY <1>2, <1>3 DEF OrderInv

\* One entry: it is the oldest of those left, and what is older and still there
\* has been visited, so that it is the one to keep.
LEMMA EvictOneKeepsOrder ==
  ASSUME TypeOK, OrderInv, NEW t \in Threads, EvictOne(t)
  PROVE  /\ OrderInv'
         /\ \A b \in todo[t] \ todo'[t] : mtime[b] = stamp[t][b]
              => \A x \in since[t] : mtime[x] < mtime[b] => x = blob[t]
<1>1. PICK c \in Blobs :
        /\ IsNext(t, c)
        /\ todo' = [todo EXCEPT ![t] = @ \ {c}]
        /\ IF c # blob[t] /\ Cached(c)
           THEN RemoveFile(c)
           ELSE UNCHANGED dirVars
  BY DEF EvictOne
<1>2. UNCHANGED <<stamp, unseen, blob, pc>> /\ pc[t] = "evict"
  BY DEF EvictOne
<1>3. todo'[t] = todo[t] \ {c} /\ \A u \in Threads : u # t => todo'[u] = todo[u]
  BY <1>1 DEF TypeOK
<1>4. ASSUME NEW u \in Threads
      PROVE  /\ since'[u] \subseteq since[u]
             /\ \A x \in since'[u] : cache'[x] = cache[x] /\ mtime'[x] = mtime[x]
  BY <1>1, RemovalKeepsOrder
<1>5. c \in since'[t] => c = blob[t]
  <2>1. CASE c # blob[t] /\ Cached(c)
    BY <1>1, <2>1 DEF RemoveFile, TypeOK
  <2>2. CASE c # blob[t] /\ ~Cached(c)
    BY <1>4, <2>2 DEF OrderInv, Accounted
  <2>3. QED  BY <2>1, <2>2
<1>6. ASSUME NEW x \in since'[t]
      PROVE  Accounted(t, x)'
  <2>1. Accounted(t, x)
    BY <1>4, <1>6 DEF OrderInv
  <2>2. Cached(x)' /\ mtime'[x] = mtime[x]
    BY <1>4, <1>6, <2>1 DEF Accounted, Cached
  <2>3. QED  BY <1>2, <1>3, <1>5, <1>6, <2>1, <2>2 DEF Accounted
<1>7. ASSUME NEW u \in Threads, u # t
      PROVE  \A x \in since'[u] : Accounted(u, x)'
  <2>1. /\ since'[u] \subseteq since[u]
        /\ \A x \in since'[u] : cache'[x] = cache[x] /\ mtime'[x] = mtime[x]
    BY <1>4
  <2>2. todo'[u] = todo[u]
    BY <1>3, <1>7
  <2>3. QED  BY <1>2, <2>1, <2>2, OrderFramed
<1>8. ASSUME NEW b \in todo[t] \ todo'[t], mtime[b] = stamp[t][b],
             NEW x \in since[t], mtime[x] < mtime[b]
      PROVE  x = blob[t]
  <2>1. b = c /\ b \in Blobs
    BY <1>3, <1>8
  <2>2. Accounted(t, x) /\ x \in Blobs
    BY DEF OrderInv, TypeOK
  <2>3. x \in todo[t] => stamp[t][c] <= stamp[t][x]
    BY <1>1 DEF IsNext
  <2>4. stamp[t][x] = mtime[x] => x \notin todo[t]
    <3>1. mtime[x] \in Nat /\ mtime[c] \in Nat
      BY <2>2 DEF TypeOK
    <3>2. QED  BY <1>8, <2>1, <2>3, <3>1
  <2>5. QED  BY <1>2, <2>2, <2>4 DEF Accounted
<1>9. QED  BY <1>6, <1>7, <1>8 DEF OrderInv

\* The end of an eviction, and the death of its mount, end the account.
LEMMA EndKeepsOrder ==
  ASSUME TypeOK, OrderInv,
         (\E t \in Threads : EvictDone(t)) \/ (\E m \in Mounts : Crash(m))
  PROVE  OrderInv'
<1>1. UNCHANGED <<cache, mtime, blob>>
  BY DEF EvictDone, Crash
<1>2. ASSUME NEW u \in Threads
      PROVE  \/ since'[u] = {}
             \/ /\ since'[u] = since[u] /\ todo'[u] = todo[u] /\ stamp'[u] = stamp[u]
                /\ unseen'[u] = unseen[u] /\ pc'[u] = pc[u]
  <2>1. CASE \E t \in Threads : EvictDone(t)
    BY <2>1 DEF EvictDone, Goto, TypeOK
  <2>2. CASE \E m \in Mounts : Crash(m)
    BY <2>2 DEF Crash
  <2>3. QED  BY <2>1, <2>2
<1>3. ASSUME NEW u \in Threads
      PROVE  \A x \in since'[u] : Accounted(u, x)'
  BY <1>1, <1>2, OrderFramed
<1>4. QED  BY <1>3 DEF OrderInv

\* Every step keeps the account, and only an eviction removes what it visits.
LEMMA OrderKept ==
  ASSUME TypeOK, OrderInv, [Next]_vars
  PROVE  /\ OrderInv'
         /\ \A t \in Threads : \A b \in todo[t] \ todo'[t] :
              Cached(b) /\ ~Cached(b)' => EvictOne(t)
<1>1. ASSUME NEW t \in Threads, EvictOne(t)
      PROVE  /\ OrderInv'
             /\ \A u \in Threads : u # t => todo'[u] = todo[u]
  BY <1>1, EvictOneKeepsOrder DEF EvictOne, TypeOK
<1>2. ASSUME NEW t \in Threads, Persist(t)
      PROVE  OrderInv' /\ UNCHANGED todo
  BY <1>2, PersistKeepsOrder DEF Persist
<1>3. ASSUME NEW t \in Threads, Release(t) \/ Walk(t) \/ WalkDone(t)
      PROVE  OrderInv' /\ UNCHANGED cache
  BY <1>3, ReleaseKeepsOrder, WalkKeepsOrder, WalkDoneKeepsOrder
  DEF Release, Walk, WalkDone
<1>4. CASE (\E t \in Threads : EvictDone(t)) \/ (\E m \in Mounts : Crash(m))
  <2>1. UNCHANGED cache
    BY <1>4 DEF EvictDone, Crash
  <2>2. OrderInv'
    BY <1>4, EndKeepsOrder
  <2>3. QED  BY <2>1, <2>2 DEF Cached
<1>5. ASSUME NEW t \in Threads, Count(t)
      PROVE  OrderInv' /\ UNCHANGED cache
  <2>1. UNCHANGED <<dirVars, evictVars, blob>> /\ pc[t] = "count"
        /\ \A u \in Threads : u # t => pc'[u] = pc[u]
    BY <1>5 DEF Count, Goto, TypeOK
  <2>2. \A u \in Threads : \A x \in since'[u] : Accounted(u, x)'
    BY <2>1, OrderFramed
  <2>3. QED  BY <2>1, <2>2 DEF OrderInv
<1>6. ASSUME NEW b \in Blobs, UnlinkCached(b)
      PROVE  OrderInv' /\ UNCHANGED todo
  <2>1. RemoveFile(b) /\ UNCHANGED <<evictVars, blob, pc>>
    BY <1>6 DEF UnlinkCached
  <2>2. ASSUME NEW u \in Threads
        PROVE  \A x \in since'[u] : Accounted(u, x)'
    <3>1. /\ since'[u] \subseteq since[u]
          /\ \A x \in since'[u] : cache'[x] = cache[x] /\ mtime'[x] = mtime[x]
      BY <2>1, RemovalKeepsOrder
    <3>2. QED  BY <2>1, <3>1, OrderFramed
  <2>3. QED  BY <2>1, <2>2 DEF OrderInv
<1>7. CASE Bystands
  <2>1. \A u \in Threads : pc[u] \in {"walk", "evict"} => pc'[u] = pc[u] /\ blob'[u] = blob[u]
    BY <1>7 DEF Bystands, Evicting
  <2>2. UNCHANGED <<cache, mtime, since, todo, stamp, unseen>>
    BY <1>7 DEF Bystands
  <2>3. \A u \in Threads : \A x \in since'[u] : Accounted(u, x)'
    BY <2>1, <2>2, OrderFramed
  <2>4. QED  BY <2>2, <2>3 DEF OrderInv
<1>8. QED  BY <1>1, <1>2, <1>3, <1>4, <1>5, <1>6, <1>7, CacheSteps DEF Cached

\* evict_oldest goes oldest first, however many threads of however many mounts
\* evict, write, fetch, unlink and are killed meanwhile, as far as the files are
\* concerned that have been in their places since its walk began.
THEOREM OldestFirst == Spec => EvictsOldestFirst
<1> DEFINE Oldest(t, b) ==
      Cached(b) /\ ~Cached(b)' /\ mtime[b] = stamp[t][b]
        => \A x \in since[t] : mtime[x] < mtime[b] => x = blob[t]
<1>1. Init => OrderInv
  BY DEF Init, OrderInv
<1>2. TypeOK /\ OrderInv /\ [Next]_vars => OrderInv'
  BY OrderKept
<1>3. TypeOK /\ OrderInv /\ [Next]_vars
      => \A t \in Threads : \A b \in todo[t] \ todo'[t] : Oldest(t, b)
  <2> SUFFICES ASSUME TypeOK, OrderInv, [Next]_vars,
                      NEW t \in Threads, NEW b \in todo[t] \ todo'[t],
                      Cached(b), ~Cached(b)', mtime[b] = stamp[t][b]
               PROVE  \A x \in since[t] : mtime[x] < mtime[b] => x = blob[t]
    OBVIOUS
  <2>1. EvictOne(t)
    BY OrderKept
  <2>2. QED  BY <2>1, EvictOneKeepsOrder
<1>4. TypeOK /\ OrderInv /\ [Next]_vars
      => [\A t \in Threads : \A b \in todo[t] \ todo'[t] : Oldest(t, b)]_vars
  BY <1>3
<1>5. QED  BY <1>1, <1>2, <1>4, TypeCorrect, PTL DEF Spec, EvictsOldestFirst

-----------------------------------------------------------------------------
(* The limit of the cache.                                                 *)

\* BytesOf is a sum of sizes.
LEMMA BytesAreSums ==
  ASSUME NEW S \in SUBSET Blobs, IsFiniteSet(S)
  PROVE  /\ BytesOf(S) = SumOf(Size, S)
         /\ \A b \in S : Size[b] \in Nat
BY ReadPathAssumption DEF BytesOf, SumOf

\* The length of some files is a number, and none is shorter than a part of it.
LEMMA BytesType ==
  ASSUME NEW S \in SUBSET Blobs, IsFiniteSet(S)
  PROVE  BytesOf(S) \in Nat
BY BytesAreSums, SumType

LEMMA BytesMonotone ==
  ASSUME NEW S \in SUBSET Blobs, IsFiniteSet(S), NEW T \in SUBSET S
  PROVE  BytesOf(T) <= BytesOf(S)
<1>1. IsFiniteSet(T) /\ T \in SUBSET Blobs
  BY FS_Subset
<1>2. QED  BY <1>1, BytesAreSums, SumMonotone

\* One file less.
LEMMA BytesRemove ==
  ASSUME NEW S \in SUBSET Blobs, IsFiniteSet(S), NEW b \in S
  PROVE  /\ BytesOf(S) = Size[b] + BytesOf(S \ {b})
         /\ Size[b] \in Nat /\ BytesOf(S \ {b}) \in Nat
<1>1. IsFiniteSet(S \ {b}) /\ S \ {b} \in SUBSET Blobs
  BY FS_Subset
<1>2. SumOf(Size, S) = Size[b] + SumOf(Size, S \ {b})
  BY BytesAreSums, SumRemove
<1>3. QED  BY <1>1, <1>2, BytesAreSums, BytesType

\* One file more, if it is one more.
LEMMA BytesAdd ==
  ASSUME NEW S \in SUBSET Blobs, IsFiniteSet(S), NEW b \in Blobs
  PROVE  /\ IsFiniteSet(S \union {b})
         /\ BytesOf(S \union {b}) \in Nat
         /\ BytesOf(S \union {b}) <= BytesOf(S) + Size[b]
<1>1. Size[b] \in Nat /\ BytesOf(S) \in Nat
  BY BytesType, ReadPathAssumption
<1>2. IsFiniteSet(S \union {b}) /\ S \union {b} \in SUBSET Blobs
  BY FS_AddElement
<1>3. BytesOf(S \union {b}) \in Nat
  BY <1>2, BytesType
<1>4. BytesOf(S \union {b}) <= BytesOf(S) + Size[b]
  <2>1. CASE b \in S
    <3>1. S \union {b} = S
      BY <2>1
    <3>2. QED  BY <1>1, <3>1
  <2>2. CASE b \notin S
    <3>1. b \in S \union {b} /\ (S \union {b}) \ {b} = S
      BY <2>2
    <3>2. BytesOf(S \union {b}) = Size[b] + BytesOf((S \union {b}) \ {b})
      BY <1>2, <3>1, BytesRemove
    <3>3. BytesOf((S \union {b}) \ {b}) = BytesOf(S)
      BY <3>1
    <3>4. QED  BY <1>1, <3>2, <3>3
  <2>3. QED  BY <2>1, <2>2
<1>5. QED  BY <1>2, <1>3, <1>4

\* total_size covers what is left to visit, wherever its thread is.
TotalInv ==
  /\ IsFiniteSet(Present)
  /\ total \in [Threads -> Nat]
  /\ \A t \in Threads : IsFiniteSet(todo[t]) /\ BytesOf(todo[t]) <= total[t]

\* With a limit, an excess of more than one file has a thread that is about to
\* walk the directory, or one that has come or will come to all of it, or one that
\* has all of it before it and its length in total_size.
InHand(t) ==
  \/ pc[t] \in {"count", "release"}
  \/ /\ pc[t] = "walk"
     /\ Present \subseteq todo[t] \union unseen[t]
  \/ /\ pc[t] = "evict"
     /\ Present \subseteq todo[t] \union {blob[t]}
     /\ BytesOf(Present) <= total[t]

Excess == ~(BytesOf(Present) <= MaxCacheBytes \/ Cardinality(Present) <= 1)

LimitInv == MaxCacheBytes > 0 /\ Excess => \E t \in Threads : InHand(t)

\* What is removed and visited, one entry of evict_oldest at a time.
LEMMA EvictOneShape ==
  ASSUME TypeOK, TotalInv, NEW t \in Threads, EvictOne(t)
  PROVE  /\ UNCHANGED <<pc, blob, unseen>> /\ pc[t] = "evict"
         /\ \A u \in Threads : u # t => todo'[u] = todo[u] /\ total'[u] = total[u]
         /\ \E b \in todo[t] :
              /\ b \in Blobs
              /\ todo'[t] = todo[t] \ {b}
              /\ \/ /\ b # blob[t] /\ b \in Present
                    /\ Present' = Present \ {b}
                    /\ total' = [total EXCEPT ![t] = total[t] - Size[b]]
                 \/ /\ b = blob[t] \/ b \notin Present
                    /\ UNCHANGED <<cache, total>>
<1>1. PICK b \in Blobs :
        /\ IsNext(t, b)
        /\ todo' = [todo EXCEPT ![t] = @ \ {b}]
        /\ IF b # blob[t] /\ Cached(b)
           THEN RemoveFile(b) /\ total' = [total EXCEPT ![t] = @ - Size[b]]
           ELSE UNCHANGED <<dirVars, total>>
  BY DEF EvictOne
<1>2. UNCHANGED <<pc, blob, unseen>> /\ pc[t] = "evict"
  BY DEF EvictOne
<1>3. b \in todo[t] /\ todo'[t] = todo[t] \ {b}
      /\ \A u \in Threads : u # t => todo'[u] = todo[u]
  BY <1>1 DEF IsNext, TypeOK
<1>4. Cached(b) <=> b \in Present
  BY DEF Present
<1>5. CASE b # blob[t] /\ Cached(b)
  <2>1. Present' = Present \ {b}
    BY <1>1, <1>5, RemovalShrinks
  <2>2. total' = [total EXCEPT ![t] = total[t] - Size[b]]
    BY <1>1, <1>5
  <2>3. \A u \in Threads : u # t => total'[u] = total[u]
    BY <2>2 DEF TotalInv
  <2>4. QED  BY <1>2, <1>3, <1>4, <1>5, <2>1, <2>2, <2>3
<1>6. CASE ~(b # blob[t] /\ Cached(b))
  <2>1. UNCHANGED <<cache, total>>
    BY <1>1, <1>6
  <2>2. QED  BY <1>2, <1>3, <1>4, <1>6, <2>1
<1>7. QED  BY <1>5, <1>6

\* The sum of an eviction's entries stays covered by its total_size, which is
\* therefore never less than the size subtracted from it.
LEMMA EvictOneKeepsTotal ==
  ASSUME TypeOK, TotalInv, NEW t \in Threads, EvictOne(t)
  PROVE  TotalInv'
<1>1. PICK b \in todo[t] :
        /\ b \in Blobs
        /\ todo'[t] = todo[t] \ {b}
        /\ \/ /\ b # blob[t] /\ b \in Present
              /\ Present' = Present \ {b}
              /\ total' = [total EXCEPT ![t] = total[t] - Size[b]]
           \/ /\ b = blob[t] \/ b \notin Present
              /\ UNCHANGED <<cache, total>>
  BY EvictOneShape
<1>2. \A u \in Threads : u # t => todo'[u] = todo[u] /\ total'[u] = total[u]
  BY EvictOneShape
<1>3. todo[t] \in SUBSET Blobs /\ IsFiniteSet(todo[t]) /\ IsFiniteSet(todo[t] \ {b})
  BY FS_Subset DEF TypeOK, TotalInv
<1>4. /\ BytesOf(todo[t]) = Size[b] + BytesOf(todo[t] \ {b})
      /\ Size[b] \in Nat /\ BytesOf(todo[t] \ {b}) \in Nat
  BY <1>3, BytesRemove
<1>5. total[t] \in Nat /\ BytesOf(todo[t]) <= total[t]
  BY DEF TotalInv
<1>6. total[t] - Size[b] \in Nat /\ BytesOf(todo[t] \ {b}) <= total[t] - Size[b]
  BY <1>4, <1>5
<1>7. IsFiniteSet(Present')
  <2>1. Present' \subseteq Present
    BY <1>1 DEF Present, Cached
  <2>2. QED  BY <2>1, FS_Subset DEF TotalInv
<1>8. total' \in [Threads -> Nat]
  BY <1>1, <1>6 DEF TotalInv
<1>9. IsFiniteSet(todo'[t]) /\ BytesOf(todo'[t]) <= total'[t]
  <2>1. CASE total' = [total EXCEPT ![t] = total[t] - Size[b]]
    BY <1>1, <1>3, <1>6, <2>1 DEF TotalInv
  <2>2. CASE UNCHANGED total
    BY <1>1, <1>3, <1>4, <1>5, <2>2
  <2>3. QED  BY <1>1, <2>1, <2>2
<1>10. \A u \in Threads : u # t => IsFiniteSet(todo'[u]) /\ BytesOf(todo'[u]) <= total'[u]
  BY <1>2 DEF TotalInv
<1>11. \A u \in Threads : IsFiniteSet(todo'[u]) /\ BytesOf(todo'[u]) <= total'[u]
  BY <1>9, <1>10
<1>12. QED  BY <1>7, <1>8, <1>11 DEF TotalInv

\* What leaves each eviction as it is, ends it, or keeps its account right.
LEMMA TotalFramed ==
  ASSUME TypeOK, TotalInv, IsFiniteSet(Present'), total' \in [Threads -> Nat],
         \A u \in Threads :
           \/ todo'[u] = todo[u] /\ total'[u] = total[u]
           \/ todo'[u] = {}
           \/ IsFiniteSet(todo'[u]) /\ BytesOf(todo'[u]) <= total'[u]
  PROVE  TotalInv'
<1>1. IsFiniteSet({}) /\ BytesOf({}) = 0
  <2>1. IsFiniteSet({})
    BY FS_EmptySet
  <2>2. BytesOf({}) = SumOf(Size, {})
    BY DEF BytesOf, SumOf
  <2>3. QED  BY <2>1, <2>2, SumEmpty
<1>2. ASSUME NEW u \in Threads
      PROVE  IsFiniteSet(todo'[u]) /\ BytesOf(todo'[u]) <= total'[u]
  <2>1. total'[u] \in Nat
    OBVIOUS
  <2>2. CASE todo'[u] = todo[u] /\ total'[u] = total[u]
    BY <2>2 DEF TotalInv
  <2>3. CASE todo'[u] = {}
    BY <1>1, <2>1, <2>3
  <2>4. QED  BY <2>2, <2>3
<1>3. QED  BY <1>2 DEF TotalInv

\* An entry of the walk comes with its size.
LEMMA WalkKeepsTotal ==
  ASSUME TypeOK, TotalInv, NEW t \in Threads, Walk(t)
  PROVE  TotalInv'
<1>1. PICK b \in unseen[t] :
        \/ /\ todo' = [todo EXCEPT ![t] = @ \union {b}]
           /\ total' = [total EXCEPT ![t] = @ + Size[b]]
        \/ UNCHANGED <<todo, total>>
  BY DEF Walk
<1>2. UNCHANGED cache /\ b \in Blobs
  BY DEF Walk, TypeOK
<1>3. IsFiniteSet(Present')
  BY <1>2 DEF TotalInv, Present, Cached
<1>4. CASE UNCHANGED <<todo, total>>
  BY <1>3, <1>4, TotalFramed DEF TotalInv
<1>5. CASE /\ todo' = [todo EXCEPT ![t] = @ \union {b}]
           /\ total' = [total EXCEPT ![t] = @ + Size[b]]
  <2>1. /\ todo[t] \in SUBSET Blobs /\ IsFiniteSet(todo[t])
        /\ total[t] \in Nat /\ BytesOf(todo[t]) <= total[t]
    BY DEF TypeOK, TotalInv
  <2>2. /\ Size[b] \in Nat /\ BytesOf(todo[t]) \in Nat
        /\ IsFiniteSet(todo[t] \union {b})
        /\ BytesOf(todo[t] \union {b}) \in Nat
        /\ BytesOf(todo[t] \union {b}) <= BytesOf(todo[t]) + Size[b]
    BY <1>2, <2>1, BytesType, BytesAdd, ReadPathAssumption
  <2>3. total[t] + Size[b] \in Nat
        /\ BytesOf(todo[t] \union {b}) <= total[t] + Size[b]
    BY <2>1, <2>2
  <2>4. todo'[t] = todo[t] \union {b} /\ total'[t] = total[t] + Size[b]
    BY <1>5 DEF TypeOK, TotalInv
  <2>5. total' \in [Threads -> Nat]
    BY <1>5, <2>3 DEF TotalInv
  <2>6. \A u \in Threads : u # t => todo'[u] = todo[u] /\ total'[u] = total[u]
    BY <1>5 DEF TypeOK, TotalInv
  <2>7. IsFiniteSet(todo'[t]) /\ BytesOf(todo'[t]) <= total'[t]
    BY <2>2, <2>3, <2>4
  <2>8. QED  BY <1>3, <2>5, <2>6, <2>7, TotalFramed
<1>6. QED  BY <1>1, <1>4, <1>5

\* Every step keeps the totals.
LEMMA TotalKept ==
  ASSUME TypeOK, TotalInv, [Next]_vars
  PROVE  TotalInv'
<1>1. Present \in SUBSET Blobs /\ IsFiniteSet(Present) /\ BytesOf(Present) \in Nat
  BY BytesType DEF Present, TotalInv
<1>2. ASSUME NEW t \in Threads, Persist(t)
      PROVE  TotalInv'
  <2>1. UNCHANGED <<todo, total>>
    BY <1>2 DEF Persist
  <2>2. IsFiniteSet(Present')
    <3>1. Present' = Present \union {blob[t]}
      BY <1>2, PersistGrows
    <3>2. IsFiniteSet(Present \union {blob[t]})
      BY <1>1, FS_AddElement
    <3>3. QED  BY <3>1, <3>2
  <2>3. QED  BY <2>1, <2>2, TotalFramed DEF TotalInv
<1>3. ASSUME NEW t \in Threads, Count(t) \/ Release(t) \/ WalkDone(t)
      PROVE  TotalInv'
  <2>1. UNCHANGED <<cache, todo, total>>
    BY <1>3 DEF Count, Release, WalkDone
  <2>2. IsFiniteSet(Present')
    BY <1>1, <2>1 DEF Present, Cached
  <2>3. QED  BY <2>1, <2>2, TotalFramed DEF TotalInv
<1>5. ASSUME NEW t \in Threads, EvictDone(t)
      PROVE  TotalInv'
  <2>1. /\ UNCHANGED cache
        /\ todo' = [todo EXCEPT ![t] = {}]
        /\ total' = [total EXCEPT ![t] = 0]
    BY <1>5 DEF EvictDone
  <2>2. IsFiniteSet(Present')
    BY <1>1, <2>1 DEF Present, Cached
  <2>3. total' \in [Threads -> Nat]
    BY <2>1 DEF TotalInv
  <2>4. \A u \in Threads : (todo'[u] = todo[u] /\ total'[u] = total[u]) \/ todo'[u] = {}
    BY <2>1 DEF TypeOK, TotalInv
  <2>5. QED  BY <2>2, <2>3, <2>4, TotalFramed
<1>6. ASSUME NEW b \in Blobs, UnlinkCached(b)
      PROVE  TotalInv'
  <2>1. RemoveFile(b) /\ UNCHANGED <<todo, total>>
    BY <1>6 DEF UnlinkCached
  <2>2. IsFiniteSet(Present')
    BY <1>1, <2>1, RemovalShrinks, FS_Subset
  <2>3. QED  BY <2>1, <2>2, TotalFramed DEF TotalInv
<1>7. ASSUME NEW m \in Mounts, Crash(m)
      PROVE  TotalInv'
  <2>1. /\ UNCHANGED cache
        /\ todo' = [t \in Threads |-> IF MountOf[t] = m THEN {} ELSE todo[t]]
        /\ total' = [t \in Threads |-> IF MountOf[t] = m THEN 0 ELSE total[t]]
    BY <1>7 DEF Crash
  <2>2. IsFiniteSet(Present')
    BY <1>1, <2>1 DEF Present, Cached
  <2>3. total' \in [Threads -> Nat]
    BY <2>1 DEF TotalInv
  <2>4. \A u \in Threads : (todo'[u] = todo[u] /\ total'[u] = total[u]) \/ todo'[u] = {}
    BY <2>1
  <2>5. QED  BY <2>2, <2>3, <2>4, TotalFramed
<1>8. CASE Bystands
  <2>1. UNCHANGED <<cache, todo, total>>
    BY <1>8 DEF Bystands
  <2>2. IsFiniteSet(Present')
    BY <1>1, <2>1 DEF Present, Cached
  <2>3. QED  BY <2>1, <2>2, TotalFramed DEF TotalInv
<1>9. QED
  BY <1>2, <1>3, <1>5, <1>6, <1>7, <1>8, CacheSteps, WalkKeepsTotal, EvictOneKeepsTotal

\* Fewer files are no excess that was not one.
LEMMA ExcessShrinks ==
  ASSUME TotalInv, Present' \subseteq Present, Excess'
  PROVE  Excess /\ BytesOf(Present') <= BytesOf(Present)
<1>1. Present \in SUBSET Blobs /\ IsFiniteSet(Present) /\ BytesOf(Present) \in Nat
  BY BytesType DEF Present, TotalInv
<1>2. /\ IsFiniteSet(Present') /\ Present' \in SUBSET Blobs
      /\ Cardinality(Present') <= Cardinality(Present)
  BY <1>1, FS_Subset
<1>3. /\ Cardinality(Present) \in Nat /\ Cardinality(Present') \in Nat
  BY <1>1, <1>2, FS_CardinalityType
<1>4. BytesOf(Present') \in Nat /\ BytesOf(Present') <= BytesOf(Present)
  BY <1>1, <1>2, BytesType, BytesMonotone
<1>5. MaxCacheBytes \in Nat
  BY ReadPathAssumption
<1>6. ~(BytesOf(Present') <= MaxCacheBytes \/ Cardinality(Present') <= 1)
  BY DEF Excess
<1>7. QED  BY <1>1, <1>2, <1>3, <1>4, <1>5, <1>6 DEF Excess

\* Whoever has the excess in hand has it still when files go that he does not
\* keep account of, or that he has just removed himself.
LEMMA InHandFramed ==
  ASSUME TypeOK, TotalInv, NEW t \in Threads, InHand(t),
         pc'[t] = pc[t], blob'[t] = blob[t],
         todo'[t] = todo[t], total'[t] = total[t], unseen'[t] = unseen[t],
         Present' \subseteq Present
  PROVE  InHand(t)'
<1>1. Present \in SUBSET Blobs /\ IsFiniteSet(Present) /\ BytesOf(Present) \in Nat
  BY BytesType DEF Present, TotalInv
<1>2. BytesOf(Present') <= BytesOf(Present)
  BY <1>1, BytesMonotone
<1>3. /\ IsFiniteSet(Present') /\ Present' \in SUBSET Blobs
  BY <1>1, FS_Subset
<1>4. BytesOf(Present') \in Nat /\ total[t] \in Nat
  BY <1>3, BytesType DEF TotalInv
<1>5. BytesOf(Present) <= total[t] => BytesOf(Present') <= total'[t]
  BY <1>1, <1>2, <1>4
<1>6. QED  BY <1>5 DEF InHand

\* An excess that is in somebody's hand stays there while he evicts.
LEMMA EvictOneInHand ==
  ASSUME TypeOK, TotalInv, NEW t \in Threads, EvictOne(t), InHand(t)
  PROVE  InHand(t)'
<1>1. PICK b \in todo[t] :
        /\ b \in Blobs
        /\ todo'[t] = todo[t] \ {b}
        /\ \/ /\ b # blob[t] /\ b \in Present
              /\ Present' = Present \ {b}
              /\ total' = [total EXCEPT ![t] = total[t] - Size[b]]
           \/ /\ b = blob[t] \/ b \notin Present
              /\ UNCHANGED <<cache, total>>
  BY EvictOneShape
<1>2. UNCHANGED <<pc, blob, unseen>> /\ pc[t] = "evict"
  BY EvictOneShape
<1>3. Present \subseteq todo[t] \union {blob[t]} /\ BytesOf(Present) <= total[t]
  BY <1>2 DEF InHand
<1>4. CASE b # blob[t] /\ b \in Present /\ Present' = Present \ {b}
           /\ total' = [total EXCEPT ![t] = total[t] - Size[b]]
  <2>1. Present' \subseteq todo'[t] \union {blob'[t]}
    BY <1>1, <1>2, <1>3, <1>4
  <2>2. total'[t] = total[t] - Size[b] /\ total[t] \in Nat
    BY <1>4 DEF TotalInv
  <2>3. /\ BytesOf(Present) = Size[b] + BytesOf(Present \ {b})
        /\ Size[b] \in Nat /\ BytesOf(Present \ {b}) \in Nat
    <3>1. Present \in SUBSET Blobs /\ IsFiniteSet(Present)
      BY DEF Present, TotalInv
    <3>2. QED  BY <1>4, <3>1, BytesRemove
  <2>4. BytesOf(Present \ {b}) <= total'[t]
    BY <1>3, <2>2, <2>3
  <2>5. BytesOf(Present') <= total'[t]
    BY <1>4, <2>4
  <2>6. QED  BY <1>2, <2>1, <2>5 DEF InHand
<1>5. CASE (b = blob[t] \/ b \notin Present) /\ UNCHANGED <<cache, total>>
  <2>1. Present' = Present
    BY <1>5 DEF Present, Cached
  <2>2. Present' \subseteq todo'[t] \union {blob'[t]}
    BY <1>1, <1>2, <1>3, <1>5, <2>1
  <2>3. BytesOf(Present') <= total'[t]
    BY <1>3, <1>5, <2>1
  <2>4. QED  BY <1>2, <2>2, <2>3 DEF InHand
<1>6. QED  BY <1>1, <1>4, <1>5

\* It stays there while he walks, and when the walk is over its length is known.
LEMMA WalkInHand ==
  ASSUME TypeOK, NEW t \in Threads, Walk(t), InHand(t)
  PROVE  InHand(t)'
<1>1. PICK b \in unseen[t] :
        /\ unseen' = [unseen EXCEPT ![t] = @ \ {b}]
        /\ IF Cached(b)
           THEN todo' = [todo EXCEPT ![t] = @ \union {b}]
           ELSE UNCHANGED todo
  BY DEF Walk
<1>2. UNCHANGED <<cache, pc>> /\ pc[t] = "walk"
  BY DEF Walk
<1>3. Present' = Present /\ Present \subseteq todo[t] \union unseen[t]
  BY <1>2 DEF InHand, Present, Cached
<1>4. unseen'[t] = unseen[t] \ {b} /\ todo[t] \subseteq todo'[t]
      /\ (b \in Present => b \in todo'[t])
  BY <1>1 DEF TypeOK, Present
<1>5. Present' \subseteq todo'[t] \union unseen'[t]
  BY <1>3, <1>4
<1>6. QED  BY <1>2, <1>5 DEF InHand

LEMMA WalkDoneInHand ==
  ASSUME TypeOK, TotalInv, NEW t \in Threads, WalkDone(t), InHand(t)
  PROVE  InHand(t)'
<1>1. /\ UNCHANGED <<cache, todo, total, blob>>
      /\ pc[t] = "walk" /\ pc'[t] = "evict" /\ unseen[t] = {}
  BY DEF WalkDone, Goto, TypeOK
<1>2. Present \subseteq todo[t] /\ todo[t] \in SUBSET Blobs /\ IsFiniteSet(todo[t])
  BY <1>1 DEF InHand, TypeOK, TotalInv
<1>3. BytesOf(Present) <= BytesOf(todo[t]) /\ BytesOf(todo[t]) <= total[t]
  BY <1>2, BytesMonotone DEF TotalInv
<1>4. BytesOf(Present) \in Nat /\ BytesOf(todo[t]) \in Nat /\ total[t] \in Nat
  BY <1>2, BytesType DEF Present, TotalInv
<1>5. BytesOf(Present) <= total[t]
  BY <1>3, <1>4
<1>6. Present' = Present
  BY <1>1 DEF Present, Cached
<1>7. Present' \subseteq todo'[t] \union {blob'[t]}
  BY <1>1, <1>2, <1>6
<1>8. BytesOf(Present') <= total'[t]
  BY <1>1, <1>5, <1>6
<1>9. QED  BY <1>1, <1>7, <1>8 DEF InHand

\* A thread goes from the rename through its whole eviction, and what it leaves
\* behind is within the limit or the one file it keeps.
LEMMA LimitKept ==
  ASSUME TypeOK, TotalInv, LimitInv, [Next]_vars, ~MayCrash
  PROVE  LimitInv'
<1> SUFFICES ASSUME MaxCacheBytes > 0, Excess'
             PROVE  \E t \in Threads : InHand(t)'
  BY DEF LimitInv
<1>1. ASSUME NEW t \in Threads, Persist(t) \/ Count(t)
      PROVE  InHand(t)'
  <2>1. pc'[t] \in {"count", "release"}
    BY <1>1 DEF Persist, Count, Goto, TypeOK
  <2>2. QED  BY <2>1 DEF InHand
<1>2. ASSUME NEW t \in Threads, Release(t)
      PROVE  InHand(t)'
  <2>1. pc'[t] = "walk" /\ unseen'[t] = Blobs
    BY <1>2 DEF Release, Deregister, TypeOK
  <2>2. Present' \subseteq Blobs
    BY DEF Present
  <2>3. QED  BY <2>1, <2>2 DEF InHand
<1>3. ASSUME NEW t \in Threads, Walk(t) \/ WalkDone(t) \/ EvictOne(t)
      PROVE  \E u \in Threads : InHand(u)'
  <2>1. Present' \subseteq Present
    BY <1>3, EvictOneShape DEF Walk, WalkDone, Present, Cached
  <2>2. PICK u \in Threads : InHand(u)
    BY <2>1, ExcessShrinks DEF LimitInv
  <2>3. CASE u = t
    BY <1>3, <2>2, <2>3, WalkInHand, WalkDoneInHand, EvictOneInHand
  <2>4. CASE u # t
    <3>1. /\ pc'[u] = pc[u] /\ blob'[u] = blob[u] /\ unseen'[u] = unseen[u]
          /\ todo'[u] = todo[u] /\ total'[u] = total[u]
      <4>1. CASE Walk(t)
        BY <2>4, <4>1 DEF Walk, TypeOK, TotalInv
      <4>2. CASE WalkDone(t)
        BY <2>4, <4>2 DEF WalkDone, Goto, TypeOK
      <4>3. CASE EvictOne(t)
        BY <2>4, <4>3, EvictOneShape
      <4>4. QED  BY <1>3, <4>1, <4>2, <4>3
    <3>2. QED  BY <2>1, <2>2, <3>1, InHandFramed
  <2>5. QED  BY <2>3, <2>4
<1>4. ASSUME NEW t \in Threads, EvictDone(t)
      PROVE  \E u \in Threads : InHand(u)'
  <2>1. /\ UNCHANGED <<cache, blob, unseen>> /\ pc[t] = "evict"
        /\ total[t] <= MaxCacheBytes \/ todo[t] = {}
    BY <1>4 DEF EvictDone, EvictionOver
  <2>2. Present' = Present
    BY <2>1 DEF Present, Cached
  <2>3. \A u \in Threads : u # t =>
          /\ pc'[u] = pc[u] /\ todo'[u] = todo[u] /\ total'[u] = total[u]
    BY <1>4 DEF EvictDone, Goto, TypeOK, TotalInv
  <2>4. PICK u \in Threads : InHand(u)
    BY <2>2, ExcessShrinks DEF LimitInv
  <2>5. u # t
    <3>1. SUFFICES ASSUME u = t PROVE FALSE
      OBVIOUS
    <3>2. Present \subseteq todo[t] \union {blob[t]} /\ BytesOf(Present) <= total[t]
      BY <2>1, <2>4, <3>1 DEF InHand
    <3>3. Excess
      BY <2>2, ExcessShrinks
    <3>4. BytesOf(Present) \in Nat /\ total[t] \in Nat /\ MaxCacheBytes \in Nat
      BY BytesType, ReadPathAssumption DEF Present, TotalInv
    <3>5. todo[t] = {}
      BY <2>1, <3>2, <3>3, <3>4 DEF Excess
    <3>6. Present \subseteq {blob[t]}
      BY <3>2, <3>5
    <3>7. Cardinality(Present) <= 1
      <4>1. IsFiniteSet({blob[t]}) /\ Cardinality({blob[t]}) = 1
        BY FS_Singleton
      <4>2. Cardinality(Present) <= Cardinality({blob[t]})
        BY <3>6, <4>1, FS_Subset
      <4>3. QED  BY <4>1, <4>2
    <3>8. QED  BY <3>3, <3>7 DEF Excess
  <2>6. InHand(u)'
    BY <2>1, <2>2, <2>3, <2>4, <2>5, InHandFramed
  <2>7. QED  BY <2>6
<1>5. ASSUME Present' \subseteq Present,
             \A t \in Threads :
               InHand(t) => /\ pc'[t] = pc[t] /\ blob'[t] = blob[t]
                            /\ todo'[t] = todo[t] /\ total'[t] = total[t]
                            /\ unseen'[t] = unseen[t]
      PROVE  \E t \in Threads : InHand(t)'
  BY <1>5, ExcessShrinks, InHandFramed DEF LimitInv
<1>6. ASSUME NEW b \in Blobs, UnlinkCached(b)
      PROVE  \E t \in Threads : InHand(t)'
  <2>1. RemoveFile(b) /\ UNCHANGED <<todo, total, unseen, pc, blob>>
    BY <1>6 DEF UnlinkCached
  <2>2. Present' \subseteq Present
    BY <2>1, RemovalShrinks
  <2>3. QED  BY <1>5, <2>1, <2>2
<1>7. CASE Bystands
  <2>1. Present' \subseteq Present
    BY <1>7 DEF Bystands, Present, Cached
  <2>2. QED  BY <1>5, <1>7, <2>1 DEF Bystands, InHand, Evicting
<1>8. \A m \in Mounts : ~Crash(m)
  BY DEF Crash
<1>9. QED  BY <1>1, <1>2, <1>3, <1>4, <1>6, <1>7, <1>8, CacheSteps

\* Every eviction keeps account of what it has left to visit.
THEOREM TotalIsKept == Spec => []TotalInv
<1>1. Init => TotalInv
  <2> SUFFICES ASSUME Init
               PROVE  TotalInv
    OBVIOUS
  <2>1. Present = {}
    BY DEF Init, Present, Cached
  <2>2. IsFiniteSet({}) /\ BytesOf({}) = 0
    <3>1. BytesOf({}) = SumOf(Size, {})
      BY DEF BytesOf, SumOf
    <3>2. QED  BY <3>1, SumEmpty, FS_EmptySet
  <2>3. total = [t \in Threads |-> 0] /\ \A t \in Threads : todo[t] = {}
    BY DEF Init
  <2>4. QED  BY <2>1, <2>2, <2>3 DEF TotalInv
<1>2. TypeOK /\ TotalInv /\ [Next]_vars => TotalInv'
  BY TotalKept
<1>3. QED  BY <1>1, <1>2, TypeCorrect, PTL DEF Spec

\* total_size is never less than what is left to visit, so that the unsigned
\* subtraction in evict_oldest does not wrap, whatever other threads and mounts
\* fetch, evict, unlink or are killed meanwhile.
THEOREM TotalCovers == Spec => []TotalCoversTodo
<1>1. TypeOK /\ TotalInv => TotalCoversTodo
  <2> SUFFICES ASSUME TypeOK, TotalInv, NEW t \in Threads
               PROVE  total[t] >= BytesOf(todo[t])
    BY DEF TotalCoversTodo
  <2>1. todo[t] \in SUBSET Blobs /\ IsFiniteSet(todo[t])
    BY DEF TypeOK, TotalInv
  <2>2. BytesOf(todo[t]) \in Nat /\ total[t] \in Nat /\ BytesOf(todo[t]) <= total[t]
    BY <2>1, BytesType DEF TotalInv
  <2>3. QED  BY <2>2
<1>2. QED  BY <1>1, TypeCorrect, TotalIsKept, PTL

\* Evictions that race with fetches, with each other and with unlink() leave the
\* cache within --max-cache, or with one file that is larger by itself, whenever
\* no read() is running.  A kill in the middle of an eviction leaves the excess
\* to the next one, so nobody is killed here.
THEOREM CacheIsBounded ==
  ASSUME ~MayCrash
  PROVE  Spec => []CacheBounded
<1>1. Init => LimitInv
  <2> SUFFICES ASSUME Init, Excess
               PROVE  FALSE
    BY DEF LimitInv
  <2>1. Present = {}
    BY DEF Init, Present, Cached
  <2>2. Cardinality(Present) = 0
    BY <2>1, FS_EmptySet
  <2>3. QED  BY <2>2 DEF Excess
<1>2. TypeOK /\ TotalInv /\ LimitInv /\ [Next]_vars => LimitInv'
  BY LimitKept
<1>3. LimitInv => CacheWithinLimit
  BY DEF LimitInv, CacheWithinLimit, Quiet, InHand, Excess
<1>4. CacheWithinLimit /\ TotalCoversTodo => CacheBounded
  BY DEF CacheBounded
<1>5. QED  BY <1>1, <1>2, <1>3, <1>4, TypeCorrect, TotalIsKept, TotalCovers, PTL DEF Spec

-----------------------------------------------------------------------------
(* The gauges.                                                             *)

\* The gauged mounts do what the mounts do.
LEMMA GaugedStep ==
  ASSUME [GaugedNext]_<<vars, gaugeVars>>
  PROVE  [Next]_vars
BY DEF GaugedNext, GaugedCount, GaugedEvictOne, GaugedEvictDone, GaugedCrash, Ungauged,
   Next, ReadStep, LocalStep, Environment

THEOREM GaugedIsReadPath == GaugedSpec => Spec
<1>1. GaugedInit => Init
  BY DEF GaugedInit
<1>2. [GaugedNext]_<<vars, gaugeVars>> => [Next]_vars
  BY GaugedStep
<1>3. QED  BY <1>1, <1>2, PTL DEF GaugedSpec, Spec

GaugeType ==
  /\ gauge \in [Mounts -> Int]
  /\ removed \in [Threads -> Nat]
  /\ found \in [Mounts -> Nat]

\* What evictions under way have removed and not yet subtracted.
Unsubtracted == SumOf(removed, Threads)

\* What is in place and not yet added.
Unadded == SumOf(Uncounted, Threads)

\* The gauge of the only mount m covers the files.
Covers(m) == gauge[m] + found[m] + Unadded >= BytesOf(Present) + Unsubtracted

GaugeInv == GaugeType /\ \A m \in Mounts : Mounts = {m} => Covers(m)

\* The quantities are numbers.
LEMMA GaugeNumbers ==
  ASSUME TypeOK, TotalInv, GaugeType
  PROVE  /\ Present \in SUBSET Blobs /\ IsFiniteSet(Present)
         /\ BytesOf(Present) \in Nat /\ Unsubtracted \in Nat
         /\ Unadded \in Nat /\ Uncounted \in [Threads -> Nat]
         /\ \A m \in Mounts : gauge[m] \in Int /\ found[m] \in Nat
<1>1. Present \in SUBSET Blobs /\ IsFiniteSet(Present)
  BY DEF Present, TotalInv
<1>2. BytesOf(Present) \in Nat
  BY <1>1, BytesType
<1>3. Unsubtracted \in Nat
  BY SumType, ThreadsFinite DEF Unsubtracted, GaugeType
<1>4. Uncounted \in [Threads -> Nat]
  BY ReadPathAssumption DEF Uncounted, TypeOK
<1>5. Unadded \in Nat
  BY <1>4, SumType, ThreadsFinite DEF Unadded
<1>6. QED  BY <1>1, <1>2, <1>3, <1>4, <1>5 DEF GaugeType

\* What is still to be added changes by what one thread puts in the cache or adds.
LEMMA UnaddedChanges ==
  ASSUME TypeOK, TypeOK', NEW t \in Threads,
         \A u \in Threads : u # t => Uncounted'[u] = Uncounted[u]
  PROVE  Unadded' = (Unadded - Uncounted[t]) + Uncounted'[t]
<1>1. Uncounted \in [Threads -> Nat]
  BY ReadPathAssumption DEF Uncounted, TypeOK
<1>2. Uncounted' \in [Threads -> Nat]
  BY ReadPathAssumption DEF Uncounted, TypeOK
<1>3. SumOf(Uncounted', Threads) = (SumOf(Uncounted, Threads) - Uncounted[t]) + Uncounted'[t]
  BY <1>1, <1>2, SumChange, ThreadsFinite
<1>4. QED  BY <1>3 DEF Unadded

\* A thread that neither was nor is between its rename and its addition leaves
\* that of the others alone, too.
LEMMA UnaddedKept ==
  ASSUME TypeOK, NEW t \in Threads, Start(t) \/ ReadStep(t),
         pc[t] # "count", pc'[t] # "count"
  PROVE  Uncounted' = Uncounted
<1>1. ASSUME NEW u \in Threads
      PROVE  pc'[u] = "count" <=> pc[u] = "count"
  <2>1. CASE u = t
    BY <2>1
  <2>2. CASE u # t
    <3>1. \/ pc'[u] = pc[u]
          \/ /\ pc[u] = "blocked"
             /\ pc'[u] = "acquire"
      BY <2>2, OthersUntouched
    <3>2. QED  BY <3>1
  <2>3. QED  BY <2>1, <2>2
<1>2. ASSUME NEW u \in Threads, pc[u] = "count"
      PROVE  blob'[u] = blob[u]
  BY <1>2, OthersUntouched
<1>3. QED  BY <1>1, <1>2 DEF Uncounted

\* A file put in the cache is still to be added, whether or not it takes another's
\* place.
LEMMA PersistCovers ==
  ASSUME TypeOK, TypeOK', TotalInv, GaugeInv, NEW t \in Threads, Persist(t),
         UNCHANGED gaugeVars
  PROVE  GaugeInv'
<1> DEFINE b == blob[t]
<1>1. UNCHANGED <<gauge, removed, found>>
  BY DEF gaugeVars
<1>2. b \in Blobs /\ Present' = Present \union {b}
  BY PersistGrows
<1>3. /\ Present \in SUBSET Blobs /\ IsFiniteSet(Present)
      /\ BytesOf(Present) \in Nat /\ Unsubtracted \in Nat /\ Unadded \in Nat
  BY GaugeNumbers DEF GaugeInv
<1>4. /\ Size[b] \in Nat /\ BytesOf(Present') \in Nat
      /\ BytesOf(Present') <= BytesOf(Present) + Size[b]
  BY <1>2, <1>3, BytesAdd, ReadPathAssumption
<1>5. Unadded' = Unadded + Size[b]
  <2>1. /\ pc[t] = "persist" /\ pc'[t] = "count" /\ UNCHANGED blob
        /\ \A u \in Threads : u # t => pc'[u] = pc[u]
    BY DEF Persist, Goto, TypeOK
  <2>2. Uncounted[t] = 0 /\ Uncounted'[t] = Size[b]
        /\ \A u \in Threads : u # t => Uncounted'[u] = Uncounted[u]
    BY <2>1 DEF Uncounted
  <2>3. Unadded' = (Unadded - Uncounted[t]) + Uncounted'[t]
    BY <2>2, UnaddedChanges
  <2>4. QED  BY <1>3, <1>4, <2>2, <2>3
<1>6. GaugeType'
  BY <1>1 DEF GaugeInv, GaugeType
<1> HIDE DEF b
<1>7. ASSUME NEW m \in Mounts, Mounts = {m}
      PROVE  Covers(m)'
  <2>1. gauge[m] \in Int /\ found[m] \in Nat
    BY DEF GaugeInv, GaugeType
  <2>2. gauge[m] + found[m] + Unadded >= BytesOf(Present) + Unsubtracted
    BY <1>7 DEF GaugeInv, Covers
  <2>3. gauge[m] + found[m] + Unadded' >= BytesOf(Present') + Unsubtracted
    BY <1>3, <1>4, <1>5, <2>1, <2>2
  <2>4. Unsubtracted' = Unsubtracted
    BY <1>1 DEF Unsubtracted
  <2>5. QED  BY <1>1, <2>3, <2>4 DEF Covers
<1>8. QED  BY <1>6, <1>7 DEF GaugeInv

\* The addition moves it to the gauge.
LEMMA CountCovers ==
  ASSUME TypeOK, TypeOK', TotalInv, GaugeInv, NEW t \in Threads, GaugedCount(t)
  PROVE  GaugeInv'
<1> DEFINE b == blob[t]
<1>1. /\ Count(t) /\ UNCHANGED <<removed, found>>
      /\ gauge' = [gauge EXCEPT ![MountOf[t]] = gauge[MountOf[t]] + Size[b]]
  BY DEF GaugedCount, Added
<1>2. Present' = Present
  BY <1>1 DEF Count, Present, Cached
<1>3. BytesOf(Present) \in Nat /\ Unsubtracted \in Nat /\ Unadded \in Nat
  BY GaugeNumbers DEF GaugeInv
<1>4. Size[b] \in Nat
  BY ReadPathAssumption DEF TypeOK
<1>5. Unadded' = Unadded - Size[b]
  <2>1. /\ pc[t] = "count" /\ pc'[t] = "release" /\ UNCHANGED blob
        /\ \A u \in Threads : u # t => pc'[u] = pc[u]
    BY <1>1 DEF Count, Goto, TypeOK
  <2>2. Uncounted[t] = Size[b] /\ Uncounted'[t] = 0
        /\ \A u \in Threads : u # t => Uncounted'[u] = Uncounted[u]
    BY <2>1 DEF Uncounted
  <2>3. Unadded' = (Unadded - Uncounted[t]) + Uncounted'[t]
    BY <2>2, UnaddedChanges
  <2>4. QED  BY <1>3, <1>4, <2>2, <2>3
<1>6. GaugeType'
  BY <1>1, <1>4, ReadPathAssumption DEF GaugeInv, GaugeType
<1> HIDE DEF b
<1>7. ASSUME NEW m \in Mounts, Mounts = {m}
      PROVE  Covers(m)'
  <2>1. MountOf[t] = m
    BY <1>7, ReadPathAssumption
  <2>2. gauge'[m] = gauge[m] + Size[b] /\ gauge[m] \in Int /\ found[m] \in Nat
    BY <1>1, <2>1 DEF GaugeInv, GaugeType
  <2>3. gauge[m] + found[m] + Unadded >= BytesOf(Present) + Unsubtracted
    BY <1>7 DEF GaugeInv, Covers
  <2>4. gauge'[m] + found[m] + Unadded' >= BytesOf(Present) + Unsubtracted
    BY <1>3, <1>4, <1>5, <2>2, <2>3
  <2>5. Unsubtracted' = Unsubtracted
    BY <1>1 DEF Unsubtracted
  <2>6. QED  BY <1>1, <1>2, <2>4, <2>5 DEF Covers
<1>8. QED  BY <1>6, <1>7 DEF GaugeInv

\* A file removed by evict_oldest is counted at once and subtracted later.
LEMMA EvictOneCovers ==
  ASSUME TypeOK, TotalInv, GaugeInv, NEW t \in Threads, GaugedEvictOne(t)
  PROVE  GaugeInv'
<1> DEFINE gone == {b \in Blobs : Cached(b) /\ ~Cached(b)'}
<1>1. /\ EvictOne(t) /\ UNCHANGED <<gauge, found>>
      /\ removed' = [removed EXCEPT ![t] = removed[t] + BytesOf(gone)]
  BY DEF GaugedEvictOne
<1>2. gone = Present \ Present'
  BY DEF Present
<1>3. /\ Present \in SUBSET Blobs /\ IsFiniteSet(Present)
      /\ BytesOf(Present) \in Nat /\ Unsubtracted \in Nat /\ Unadded \in Nat
  BY GaugeNumbers DEF GaugeInv
<1>4. BytesOf(gone) \in Nat /\ BytesOf(Present) = BytesOf(gone) + BytesOf(Present')
      /\ BytesOf(Present') \in Nat
  <2>1. PICK b \in Blobs : \/ b \in Present /\ Present' = Present \ {b}
                          \/ UNCHANGED cache
    BY <1>1, EvictOneShape
  <2>2. IsFiniteSet({}) /\ BytesOf({}) = 0
    <3>1. BytesOf({}) = SumOf(Size, {})
      BY DEF BytesOf, SumOf
    <3>2. QED  BY <3>1, SumEmpty, FS_EmptySet
  <2>3. CASE b \in Present /\ Present' = Present \ {b}
    <3>1. /\ BytesOf(Present) = Size[b] + BytesOf(Present \ {b})
          /\ Size[b] \in Nat /\ BytesOf(Present \ {b}) \in Nat
      BY <1>3, <2>3, BytesRemove
    <3>2. gone = {b} /\ {b} \ {b} = {}
      BY <1>2, <2>3
    <3>3. IsFiniteSet({b})
      BY FS_Singleton
    <3>4. BytesOf({b}) = Size[b] + BytesOf({b} \ {b})
      BY <3>3, BytesRemove
    <3>5. BytesOf(gone) = Size[b]
      <4>1. BytesOf({b} \ {b}) = 0
        BY <2>2, <3>2
      <4>2. BytesOf(gone) = BytesOf({b})
        BY <3>2
      <4>3. QED  BY <3>1, <3>4, <4>1, <4>2
    <3> HIDE DEF gone
    <3>6. QED  BY <2>3, <3>1, <3>5
  <2>4. CASE UNCHANGED cache
    <3>1. Present' = Present /\ gone = {}
      BY <2>4 DEF Present, Cached
    <3> HIDE DEF gone
    <3>2. QED  BY <1>3, <2>2, <3>1
  <2>5. QED  BY <2>1, <2>3, <2>4
<1> HIDE DEF gone
<1>5. removed \in [Threads -> Nat] /\ removed[t] + BytesOf(gone) \in Nat
  BY <1>4 DEF GaugeInv, GaugeType
<1>6. GaugeType'
  BY <1>1, <1>5 DEF GaugeInv, GaugeType
<1>7. Unsubtracted' = Unsubtracted + BytesOf(gone)
  <2>1. SumOf(removed', Threads) = (SumOf(removed, Threads) - removed[t]) + removed'[t]
    <3>1. /\ removed' \in [Threads -> Nat]
          /\ \A u \in Threads : u # t => removed'[u] = removed[u]
      BY <1>1, <1>5
    <3>2. QED  BY <1>5, <3>1, SumChange, ThreadsFinite
  <2>2. removed'[t] = removed[t] + BytesOf(gone)
    BY <1>1, <1>5
  <2>3. Unsubtracted' = SumOf(removed', Threads)
    BY DEF Unsubtracted
  <2>4. removed[t] \in Nat
    BY <1>5
  <2>5. QED  BY <1>3, <1>4, <2>1, <2>2, <2>3, <2>4 DEF Unsubtracted
<1>8. Unadded' = Unadded
  BY <1>1 DEF EvictOne, Unadded, Uncounted
<1>8a. ASSUME NEW m \in Mounts, Mounts = {m}
      PROVE  Covers(m)'
  <2>1. gauge[m] \in Int /\ found[m] \in Nat
    BY DEF GaugeInv, GaugeType
  <2>2. gauge[m] + found[m] + Unadded >= BytesOf(Present) + Unsubtracted
    BY <1>8a DEF GaugeInv, Covers
  <2>3. gauge[m] + found[m] + Unadded >= BytesOf(Present') + Unsubtracted'
    BY <1>3, <1>4, <1>7, <2>1, <2>2
  <2>4. QED  BY <1>1, <1>8, <2>3 DEF Covers
<1>9. QED  BY <1>6, <1>8a DEF GaugeInv

\* The end of evict_oldest subtracts what it counted.
LEMMA EvictDoneCovers ==
  ASSUME TypeOK, TotalInv, GaugeInv, NEW t \in Threads, GaugedEvictDone(t)
  PROVE  GaugeInv'
<1>1. /\ EvictDone(t) /\ UNCHANGED found
      /\ gauge' = [gauge EXCEPT ![MountOf[t]] = gauge[MountOf[t]] + (-removed[t])]
      /\ removed' = [removed EXCEPT ![t] = 0]
  BY DEF GaugedEvictDone, Added
<1>2. Present' = Present
  BY <1>1 DEF EvictDone, Present, Cached
<1>3. removed \in [Threads -> Nat] /\ removed[t] \in Nat
  BY DEF GaugeInv, GaugeType
<1>4. BytesOf(Present) \in Nat /\ Unsubtracted \in Nat /\ Unadded \in Nat
  BY GaugeNumbers DEF GaugeInv
<1>5. GaugeType'
  <2>1. MountOf[t] \in Mounts /\ gauge[MountOf[t]] + (-removed[t]) \in Int
    BY <1>3, ReadPathAssumption DEF GaugeInv, GaugeType
  <2>2. QED  BY <1>1, <1>3, <2>1 DEF GaugeInv, GaugeType
<1>6. Unsubtracted' = Unsubtracted - removed[t]
  <2>1. SumOf(removed', Threads) = (SumOf(removed, Threads) - removed[t]) + removed'[t]
    <3>1. /\ removed' \in [Threads -> Nat]
          /\ \A u \in Threads : u # t => removed'[u] = removed[u]
      BY <1>1, <1>3
    <3>2. QED  BY <1>3, <3>1, SumChange, ThreadsFinite
  <2>3. removed'[t] = 0
    BY <1>1, <1>3
  <2>4. QED  BY <1>3, <1>4, <2>1, <2>3 DEF Unsubtracted
<1>7. Unadded' = Unadded
  <2>1. ReadStep(t)
    BY <1>1 DEF ReadStep, LocalStep
  <2>2. pc[t] = "evict" /\ pc'[t] = "expire"
    BY <1>1 DEF EvictDone, Goto, TypeOK
  <2>3. Uncounted' = Uncounted
    BY <2>1, <2>2, UnaddedKept
  <2>4. QED  BY <2>3 DEF Unadded
<1>8. ASSUME NEW m \in Mounts, Mounts = {m}
      PROVE  Covers(m)'
  <2>1. MountOf[t] = m
    BY <1>8, ReadPathAssumption
  <2>2. gauge'[m] = gauge[m] + (-removed[t]) /\ gauge[m] \in Int /\ found[m] \in Nat
    BY <1>1, <2>1 DEF GaugeInv, GaugeType
  <2>3. gauge[m] + found[m] + Unadded >= BytesOf(Present) + Unsubtracted
    BY <1>8 DEF GaugeInv, Covers
  <2>4. gauge'[m] + found[m] + Unadded >= BytesOf(Present) + Unsubtracted'
    BY <1>3, <1>4, <1>6, <2>2, <2>3
  <2>5. QED  BY <1>1, <1>2, <1>7, <2>4 DEF Covers
<1>9. QED  BY <1>5, <1>8 DEF GaugeInv

\* A mount starts with its gauge at 0 and with what the directory holds.
LEMMA CrashCovers ==
  ASSUME TypeOK, TotalInv, GaugeInv, NEW m \in Mounts, GaugedCrash(m)
  PROVE  GaugeInv'
<1>1. /\ Crash(m)
      /\ gauge' = [gauge EXCEPT ![m] = 0]
      /\ removed' = [t \in Threads |-> IF MountOf[t] = m THEN 0 ELSE removed[t]]
      /\ found' = [found EXCEPT ![m] = BytesOf(Present)]
  BY DEF GaugedCrash
<1>2. Present' = Present
  BY <1>1 DEF Crash, Present, Cached
<1>3. BytesOf(Present) \in Nat
  BY GaugeNumbers DEF GaugeInv
<1>4. GaugeType'
  BY <1>1, <1>3 DEF GaugeInv, GaugeType
<1>5. ASSUME NEW n \in Mounts, Mounts = {n}
      PROVE  Covers(n)'
  <2>1. n = m
    BY <1>5
  <2>2. gauge'[n] = 0 /\ found'[n] = BytesOf(Present)
    BY <1>1, <2>1 DEF GaugeInv, GaugeType
  <2>3. \A t \in Threads : removed'[t] = 0
    BY <1>1, <1>5, <2>1, ReadPathAssumption
  <2>4. SumOf(removed', Threads) = 0
    BY <2>3, SumZero, ThreadsFinite
  <2>5. \A t \in Threads : Uncounted'[t] = 0
    BY <1>1, <1>5, <2>1, ReadPathAssumption DEF Crash, Uncounted
  <2>6. SumOf(Uncounted', Threads) = 0
    BY <2>5, SumZero, ThreadsFinite
  <2>7. Unadded' = 0 /\ Unsubtracted' = 0
    BY <2>4, <2>6 DEF Unadded, Unsubtracted
  <2>8. gauge'[n] + found'[n] + Unadded' >= BytesOf(Present') + Unsubtracted'
    BY <1>2, <1>3, <2>2, <2>7
  <2>9. QED  BY <2>8 DEF Covers
<1>6. QED  BY <1>4, <1>5 DEF GaugeInv

\* Nothing else is counted, and adds no file.
LEMMA OthersCover ==
  ASSUME TypeOK, TotalInv, GaugeInv, UNCHANGED gaugeVars, Present' \subseteq Present,
         Uncounted' = Uncounted
  PROVE  GaugeInv'
<1>1. UNCHANGED <<gauge, removed, found>>
  BY DEF gaugeVars
<1>2. /\ Present \in SUBSET Blobs /\ IsFiniteSet(Present)
      /\ BytesOf(Present) \in Nat /\ Unsubtracted \in Nat /\ Unadded \in Nat
      /\ \A m \in Mounts : gauge[m] \in Int /\ found[m] \in Nat
  BY GaugeNumbers DEF GaugeInv
<1>3. BytesOf(Present') <= BytesOf(Present)
  BY <1>2, BytesMonotone
<1>4. BytesOf(Present') \in Nat
  <2>1. IsFiniteSet(Present') /\ Present' \in SUBSET Blobs
    BY <1>2, FS_Subset
  <2>2. QED  BY <2>1, BytesType
<1>5. GaugeType'
  BY <1>1 DEF GaugeInv, GaugeType
<1>6. ASSUME NEW m \in Mounts, Mounts = {m}
      PROVE  Covers(m)'
  <2>1. gauge[m] + found[m] + Unadded >= BytesOf(Present) + Unsubtracted
    BY <1>6 DEF GaugeInv, Covers
  <2>2. gauge[m] + found[m] + Unadded >= BytesOf(Present') + Unsubtracted
    BY <1>2, <1>3, <1>4, <2>1
  <2>3. Unsubtracted' = Unsubtracted /\ Unadded' = Unadded
    BY <1>1 DEF Unsubtracted, Unadded
  <2>4. QED  BY <1>1, <2>2, <2>3 DEF Covers
<1>7. QED  BY <1>5, <1>6 DEF GaugeInv

\* The steps that the gauges do not see.
LEMMA UngaugedCovers ==
  ASSUME TypeOK, TypeOK', TotalInv, GaugeInv, NEW t \in Threads, Ungauged(t),
         UNCHANGED gaugeVars
  PROVE  GaugeInv'
<1>1. CASE Persist(t)
  BY <1>1, PersistCovers
<1>2. CASE Start(t) \/ Aside(t)
  <2>1. Bystands
    BY <1>2, AsideBystands
  <2>2. Present' = Present
    BY <2>1 DEF Bystands, Present, Cached
  <2>3. Uncounted' = Uncounted
    BY <2>1 DEF Bystands, Evicting, Uncounted
  <2>4. QED  BY <2>2, <2>3, OthersCover
<1>3. CASE Release(t) \/ Walk(t) \/ WalkDone(t)
  <2>1. UNCHANGED cache /\ pc[t] # "count"
    BY <1>3 DEF Release, Walk, WalkDone
  <2>2. pc'[t] # "count"
    BY <1>3 DEF Release, Walk, WalkDone, Goto, Deregister, TypeOK
  <2>3. ReadStep(t)
    BY <1>3 DEF ReadStep, LocalStep
  <2>4. Uncounted' = Uncounted
    BY <2>1, <2>2, <2>3, UnaddedKept
  <2>5. Present' = Present
    BY <2>1 DEF Present, Cached
  <2>6. QED  BY <2>4, <2>5, OthersCover
<1>4. QED  BY <1>1, <1>2, <1>3 DEF Ungauged, Answered, Aside

\* The gauge never tells less than the mount has put into the directory, but for
\* what is on its way to it, for any number of threads, evictions that overlap,
\* files that unlink() takes away from under them, and restarts.
THEOREM GaugeIsCovering == GaugedSpec => []GaugeCovers
<1>1. GaugedInit => GaugeInv
  <2> SUFFICES ASSUME GaugedInit
               PROVE  GaugeInv
    OBVIOUS
  <2>1. Present = {}
    BY DEF GaugedInit, Init, Present, Cached
  <2>2. BytesOf({}) = SumOf(Size, {})
    BY DEF BytesOf, SumOf
  <2>3. BytesOf(Present) = 0
    BY <2>1, <2>2, SumEmpty
  <2>4. \A t \in Threads : removed[t] = 0
    BY DEF GaugedInit
  <2>5. SumOf(removed, Threads) = 0
    BY <2>4, SumZero, ThreadsFinite
  <2>6. GaugeType
    BY DEF GaugedInit, GaugeType
  <2>7. \A m \in Mounts : gauge[m] = 0 /\ found[m] = 0
    BY DEF GaugedInit
  <2>8. \A t \in Threads : Uncounted[t] = 0
    BY DEF GaugedInit, Init, Uncounted
  <2>9. SumOf(Uncounted, Threads) = 0
    BY <2>8, SumZero, ThreadsFinite
  <2>10. QED  BY <2>3, <2>5, <2>6, <2>7, <2>9 DEF GaugeInv, Covers, Unsubtracted, Unadded
<1>2. TypeOK /\ TypeOK' /\ TotalInv /\ GaugeInv /\ [GaugedNext]_<<vars, gaugeVars>>
        => GaugeInv'
  <2> SUFFICES ASSUME TypeOK, TypeOK', TotalInv, GaugeInv,
                      [GaugedNext]_<<vars, gaugeVars>>
               PROVE  GaugeInv'
    OBVIOUS
  <2>1. ASSUME NEW b \in Blobs, UnlinkCached(b), UNCHANGED gaugeVars
        PROVE  GaugeInv'
    <3>1. Present' \subseteq Present
      BY <2>1, RemovalShrinks DEF UnlinkCached
    <3>2. Uncounted' = Uncounted
      BY <2>1 DEF UnlinkCached, Uncounted
    <3>3. QED  BY <2>1, <3>1, <3>2, OthersCover
  <2>2. CASE UNCHANGED gaugeVars /\ UNCHANGED <<cache, pc, blob>>
    <3>1. Present' = Present
      BY <2>2 DEF Present, Cached
    <3>2. Uncounted' = Uncounted
      BY <2>2 DEF Uncounted
    <3>3. QED  BY <2>2, <3>1, <3>2, OthersCover
  <2>3. QED
    BY <2>1, <2>2, UngaugedCovers, CountCovers, EvictOneCovers, EvictDoneCovers, CrashCovers
    DEF GaugedNext, Truncate, Publish, vars
<1>3. GaugeInv => GaugeCovers
  BY DEF GaugeInv, Covers, GaugeCovers, Unsubtracted, Unadded, SumOf
<1>4. QED  BY <1>1, <1>2, <1>3, GaugedIsReadPath, TypeCorrect, TotalIsKept, PTL DEF GaugedSpec

-----------------------------------------------------------------------------
(* ReadPath implements BlobService.                                        *)

\* The initial states correspond.
LEMMA ServiceInit == Init => Service!Init
<1> SUFFICES ASSUME Init
             PROVE  Service!Init
  OBVIOUS
<1> USE DEF Init
<1>1. {b \in Blobs : cache[b] = "good"} = {}
  OBVIOUS
<1>2. [t \in Threads |-> Asked(t)] = [t \in Threads |-> NoBlob]
  BY DEF Asked
<1>3. [t \in Threads |-> Sure(t)] = [t \in Threads |-> FALSE]
  BY DEF Sure
<1>4. [t \in Threads |-> Reply(t)] = [t \in Threads |-> "none"]
  BY DEF Reply
<1>5. QED  BY <1>1, <1>2, <1>3, <1>4 DEF Service!Init

\* What a step of t does to the reader's question, its reliance on the cache,
\* and its answer.  Continue: none of them changes.
Continue(t) ==
  /\ UNCHANGED <<cache, blob>>
  /\ pc[t] # "idle" /\ pc'[t] # "idle"
  /\ Sure(t)' = Sure(t)
  /\ result'[t] = "none"

Finish(t) ==
  /\ UNCHANGED <<cache, blob>>
  /\ pc[t] # "idle" /\ pc'[t] = "idle"
  /\ Reply(t)' \in Service!Replies \ {"none"}
  /\ Sure(t) => Reply(t)' = "whole"

\* Every step of a running read() is one of the two, or touches the cache.
LEMMA ServiceSteps ==
  ASSUME TypeOK, VerifiedInv, NEW t \in Threads, ReadStep(t)
  PROVE  Continue(t) \/ Finish(t) \/ Persist(t) \/ EvictOne(t)
<1>1. /\ VerifiedThread(t)
      /\ Cached(blob[t]) => cache[blob[t]] = "good"
      /\ data[t] \in Bytes
  BY DEF VerifiedInv, CacheIntegrity, TypeOK, Cached, Contents
<1> USE <1>1
    DEF TypeOK, VerifiedThread, Continue, Finish, Sure, Reply, Cached,
        Service!Replies, Goto, Deregister, Deliver, Returns
<1>2. CASE Lookup(t)
  BY <1>2 DEF Lookup
<1>3. CASE ReadHit(t)
  BY <1>3 DEF ReadHit
<1>4. CASE Acquire(t)
  BY <1>4 DEF Acquire
<1>5. CASE Recheck(t)
  BY <1>5 DEF Recheck
<1>6. CASE ReadHit2(t)
  BY <1>6 DEF ReadHit2
<1>7. CASE RangePartial(t)
  BY <1>7 DEF RangePartial
<1>8. CASE RangeWhole(t)
  BY <1>8 DEF RangeWhole
<1>9. CASE RangeFails(t)
  BY <1>9 DEF RangeFails
<1>10. CASE FullLookup(t)
  BY <1>10 DEF FullLookup
<1>11. CASE FullRead(t)
  BY <1>11 DEF FullRead
<1>12. CASE GetWhole(t)
  BY <1>12 DEF GetWhole
<1>13. CASE GetFails(t)
  BY <1>13 DEF GetFails
<1>14. CASE PersistFails(t)
  BY <1>14 DEF PersistFails
<1>15. CASE Stale(t)
  BY <1>15 DEF Stale
<1>16. CASE Release(t)
  BY <1>16 DEF Release
<1>17. CASE Walk(t)
  BY <1>17 DEF Walk
<1>18. CASE EvictDone(t)
  BY <1>18 DEF EvictDone
<1>19. CASE RecordExpiry(t)
  BY <1>19 DEF RecordExpiry
<1>20. CASE Write(t)
  BY <1>20 DEF Write
<1>21. CASE Count(t)
  BY <1>21 DEF Count
<1>22. CASE WalkDone(t)
  BY <1>22 DEF WalkDone
<1>23. QED  BY <1>2, <1>3, <1>4, <1>5, <1>6, <1>7, <1>8, <1>9, <1>10, <1>11,
     <1>12, <1>13, <1>14, <1>15, <1>16, <1>17, <1>18, <1>19, <1>20, <1>21, <1>22
  DEF ReadStep, LocalStep, Answered

\* What the other readers ask for, and were answered, is not touched.
LEMMA ServiceOthers ==
  ASSUME TypeOK, NEW t \in Threads, NEW u \in Threads, u # t,
         Start(t) \/ ReadStep(t)
  PROVE  /\ Asked(u)' = Asked(u)
         /\ Reply(u)' = Reply(u)
         /\ UNCHANGED cache => Sure(u)' = Sure(u)
<1>1. /\ pc'[u] = pc[u] \/ (pc[u] = "blocked" /\ pc'[u] = "acquire")
      /\ blob'[u] = blob[u]
      /\ data'[u] = data[u]
      /\ via'[u] = via[u]
      /\ result'[u] = result[u]
  BY OthersUntouched
<1>2. Asked(u)' = Asked(u)
  BY <1>1 DEF Asked
<1>3. Reply(u)' = Reply(u)
  BY <1>1 DEF Reply
<1>4. UNCHANGED cache => Sure(u)' = Sure(u)
  BY <1>1 DEF Sure, Cached
<1>5. QED  BY <1>2, <1>3, <1>4

\* Removing a cache file is a Drop, wherever the readers are.
LEMMA ServiceDrop ==
  ASSUME TypeOK, VerifiedInv, NEW b \in Blobs, Cached(b), RemoveFile(b),
         UNCHANGED <<pc, blob, data, via, result>>
  PROVE  Service!Drop(b)
<1>1. cache' = [cache EXCEPT ![b] = "absent"] /\ cache[b] = "good"
  BY DEF RemoveFile, VerifiedInv, CacheIntegrity, TypeOK, Cached, Contents
<1>2. {x \in Blobs : cache[x] = "good"}' =
        {x \in Blobs : cache[x] = "good"} \ {b}
  BY <1>1 DEF TypeOK
<1>3. [t \in Threads |-> Sure(t)]' =
        [t \in Threads |-> [u \in Threads |-> Sure(u)][t]
                           /\ [u \in Threads |-> Asked(u)][t] # b]
  <2>1. \A t \in Threads : Sure(t)' = (Sure(t) /\ Asked(t) # b)
    BY <1>1 DEF Sure, Asked, Cached, TypeOK
  <2>2. QED  BY <2>1
<1>4. UNCHANGED <<[t \in Threads |-> Asked(t)], [t \in Threads |-> Reply(t)]>>
  BY DEF Asked, Reply
<1>5. b \in {x \in Blobs : cache[x] = "good"}
  BY <1>1
<1>6. QED  BY <1>2, <1>3, <1>4, <1>5 DEF Service!Drop

\* A step of a running read() is a step of the service, or none.
LEMMA ServiceReadStep ==
  ASSUME TypeOK, VerifiedInv, NEW t \in Threads, ReadStep(t)
  PROVE  [Service!Next]_(Service!vars)
<1>1. \A u \in Threads : u # t =>
        /\ Asked(u)' = Asked(u)
        /\ Reply(u)' = Reply(u)
        /\ UNCHANGED cache => Sure(u)' = Sure(u)
  BY ServiceOthers
<1>2. pc[t] # "idle" => Reply(t) = "none"
  BY DEF VerifiedInv, VerifiedThread, Reply
<1>3. pc[t] # "idle" => Asked(t) = blob[t] /\ Asked(t) # NoBlob
  BY ReadPathAssumption DEF Asked, TypeOK
<1>4. CASE Continue(t)
  <2>1. Asked(t)' = Asked(t) /\ Reply(t)' = Reply(t) /\ Sure(t)' = Sure(t)
    BY <1>2, <1>4 DEF Continue, Asked, Reply
  <2>2. \A u \in Threads :
          Asked(u)' = Asked(u) /\ Reply(u)' = Reply(u) /\ Sure(u)' = Sure(u)
    BY <1>1, <1>4, <2>1 DEF Continue
  <2>3. UNCHANGED {b \in Blobs : cache[b] = "good"}
    BY <1>4 DEF Continue
  <2>4. QED  BY <2>2, <2>3 DEF Service!vars
<1>5. CASE Finish(t)
  <2>1. Asked(t)' = NoBlob /\ Sure(t)' = FALSE
    BY <1>5 DEF Finish, Asked, Sure
  <2>2. [u \in Threads |-> Asked(u)]' =
          [[u \in Threads |-> Asked(u)] EXCEPT ![t] = NoBlob]
    BY <1>1, <2>1
  <2>3. [u \in Threads |-> Sure(u)]' =
          [[u \in Threads |-> Sure(u)] EXCEPT ![t] = FALSE]
    BY <1>1, <1>5, <2>1 DEF Finish
  <2>4. [u \in Threads |-> Reply(u)]' =
          [[u \in Threads |-> Reply(u)] EXCEPT ![t] = Reply(t)']
    BY <1>1
  <2>5. UNCHANGED {b \in Blobs : cache[b] = "good"}
    BY <1>5 DEF Finish
  <2>6. /\ Reply(t)' \in Service!Replies \ {"none"}
        /\ Sure(t) => Reply(t)' = "whole"
        /\ [u \in Threads |-> Asked(u)][t] # NoBlob
        /\ [u \in Threads |-> Sure(u)][t] = Sure(t)
    BY <1>3, <1>5 DEF Finish
  <2>7. Service!Answer(t)
    BY <2>2, <2>3, <2>4, <2>5, <2>6 DEF Service!Answer
  <2>8. QED  BY <2>7 DEF Service!Next
<1>6. CASE Persist(t)
  <2>1. /\ pc[t] = "persist" /\ pc'[t] = "count" /\ data[t] = "good"
        /\ UNCHANGED <<blob, data, via, result>>
        /\ cache' = [cache EXCEPT ![blob[t]] = "good"]
    BY <1>6 DEF Persist, Goto, TypeOK, VerifiedInv, VerifiedThread
  <2>2. Asked(t)' = Asked(t) /\ Reply(t)' = Reply(t)
    BY <2>1 DEF Asked, Reply
  <2>3. \A u \in Threads : Asked(u)' = Asked(u) /\ Reply(u)' = Reply(u)
    BY <1>1, <2>2
  <2>4. {b \in Blobs : cache[b] = "good"}' =
          {b \in Blobs : cache[b] = "good"} \union {Asked(t)}
    BY <1>3, <2>1 DEF TypeOK
  <2>5. \A u \in Threads : Sure(u)' \in BOOLEAN
    BY DEF Sure
  <2>6. ASSUME NEW u \in Threads, Sure(u)' # Sure(u)
        PROVE  Asked(u) = Asked(t) /\ Sure(u)'
    <3>1. u # t
      BY <2>1, <2>6 DEF Sure
    <3>2. pc'[u] = pc[u] \/ (pc[u] = "blocked" /\ pc'[u] = "acquire")
      BY <3>1, OthersUntouched
    <3>3. pc'[u] = pc[u] /\ pc[u] \in {"lookup", "readHit"}
      BY <2>6, <3>2 DEF Sure
    <3>4. blob[u] \in Blobs /\ blob[t] \in Blobs
      BY DEF TypeOK
    <3>5. blob[u] = blob[t]
      BY <2>1, <2>6, <3>3, <3>4 DEF Sure, Cached, TypeOK
    <3>6. Sure(u)'
      BY <2>1, <3>3, <3>4, <3>5 DEF Sure, Cached, TypeOK
    <3>7. Asked(u) = Asked(t)
      BY <2>1, <3>3, <3>5 DEF Asked
    <3>8. QED  BY <3>6, <3>7
  <2>7. Service!Store(t)
    BY <1>3, <2>1, <2>3, <2>4, <2>5, <2>6 DEF Service!Store
  <2>8. QED  BY <2>7 DEF Service!Next
<1>7. CASE EvictOne(t)
  <2>1. /\ pc[t] = "evict"
        /\ UNCHANGED <<blob, data, via, result, pc>>
    BY <1>7 DEF EvictOne
  <2>2. UNCHANGED <<[u \in Threads |-> Asked(u)], [u \in Threads |-> Reply(u)]>>
    BY <2>1 DEF Asked, Reply
  <2>3. CASE UNCHANGED cache
    <3>1. UNCHANGED {b \in Blobs : cache[b] = "good"}
      BY <2>3
    <3>2. UNCHANGED [u \in Threads |-> Sure(u)]
      BY <2>1, <2>3 DEF Sure, Cached
    <3>3. QED  BY <2>2, <3>1, <3>2 DEF Service!vars
  <2>4. ASSUME NEW b \in Blobs, Cached(b), RemoveFile(b)
        PROVE  Service!Drop(b)
    BY <2>1, <2>4, ServiceDrop
  <2>5. QED  BY <1>7, <2>3, <2>4 DEF EvictOne, Service!Next
<1>8. QED  BY ServiceSteps, <1>4, <1>5, <1>6, <1>7

\* A new read() is a new question.
LEMMA ServiceStart ==
  ASSUME TypeOK, VerifiedInv, NEW t \in Threads, Start(t)
  PROVE  \E b \in Blobs : Service!Ask(t, b)
<1>1. /\ pc[t] = "idle" /\ pc'[t] = "lookup"
      /\ UNCHANGED cache
      /\ blob'[t] \in Blobs
      /\ result'[t] = "none"
  <2>1. blob' \in [Threads -> Blobs]
    BY OtherStepType DEF TypeOK
  <2>2. QED  BY <2>1 DEF Start, Goto, Returns, TypeOK
<1>2. \A u \in Threads : u # t =>
        Asked(u)' = Asked(u) /\ Reply(u)' = Reply(u) /\ Sure(u)' = Sure(u)
  BY <1>1, ServiceOthers
<1>3. Asked(t) = NoBlob /\ Asked(t)' = blob'[t] /\ Reply(t)' = "none"
  BY <1>1 DEF Asked, Reply
<1>4. Sure(t)' = (blob'[t] \in {b \in Blobs : cache[b] = "good"})
  BY <1>1 DEF Sure, Cached, VerifiedInv, CacheIntegrity, TypeOK, Contents
<1>5. [u \in Threads |-> Asked(u)]' =
        [[u \in Threads |-> Asked(u)] EXCEPT ![t] = blob'[t]]
  BY <1>2, <1>3
<1>6. [u \in Threads |-> Sure(u)]' =
        [[u \in Threads |-> Sure(u)]
           EXCEPT ![t] = blob'[t] \in {b \in Blobs : cache[b] = "good"}]
  BY <1>2, <1>4
<1>7. [u \in Threads |-> Reply(u)]' =
        [[u \in Threads |-> Reply(u)] EXCEPT ![t] = "none"]
  BY <1>2, <1>3
<1>8. UNCHANGED {b \in Blobs : cache[b] = "good"}
  BY <1>1
<1>9. Service!Ask(t, blob'[t])
  BY <1>3, <1>5, <1>6, <1>7, <1>8 DEF Service!Ask
<1>10. QED  BY <1>1, <1>9

\* The death of a mount aborts the questions of its threads and no other.
LEMMA ServiceCrash ==
  ASSUME TypeOK, NEW m \in Mounts, Crash(m)
  PROVE  \E S \in SUBSET Threads : Service!Abort(S)
<1> DEFINE S == {t \in Threads : MountOf[t] = m}
<1>1. \A t \in Threads :
        /\ t \in S => pc'[t] = "idle" /\ result'[t] = "none"
        /\ t \notin S => /\ pc'[t] = pc[t] /\ result'[t] = result[t]
                         /\ data'[t] = data[t] /\ via'[t] = via[t]
  BY DEF Crash
<1>2. UNCHANGED <<cache, blob>>
  BY DEF Crash
<1>3. \A t \in Threads : Asked(t)' = IF t \in S THEN NoBlob ELSE Asked(t)
  BY <1>1, <1>2 DEF Asked
<1>4. \A t \in Threads : Sure(t)' = (t \notin S /\ Sure(t))
  BY <1>1, <1>2 DEF Sure, Cached
<1>5. \A t \in Threads : Reply(t)' = IF t \in S THEN "none" ELSE Reply(t)
  BY <1>1 DEF Reply
<1>6. UNCHANGED {b \in Blobs : cache[b] = "good"}
  BY <1>2
<1>7. Service!Abort(S)
  BY <1>3, <1>4, <1>5, <1>6 DEF Service!Abort
<1>8. S \in SUBSET Threads
  OBVIOUS
<1>9. QED  BY <1>7, <1>8

\* ReadPath implements BlobService: whatever the servers answer, however the
\* mounts sharing the cache interleave, are killed, evict and delete, a read()
\* of a blob that stays in the cache returns the blob, no read() passes other
\* bytes off as the whole blob, and only readers of a blob store it.
THEOREM Implementation == Spec => ServiceSafety
<1>1. /\ TypeOK /\ VerifiedInv
      /\ [Next]_vars
      => [Service!Next]_(Service!vars)
  <2> SUFFICES ASSUME TypeOK, VerifiedInv, [Next]_vars
               PROVE  [Service!Next]_(Service!vars)
    OBVIOUS
  <2>1. ASSUME NEW t \in Threads, ReadStep(t)
        PROVE  [Service!Next]_(Service!vars)
    BY <2>1, ServiceReadStep
  <2>2. ASSUME NEW t \in Threads, Start(t)
        PROVE  Service!Next
    BY <2>2, ServiceStart DEF Service!Next
  <2>3. ASSUME NEW m \in Mounts, Crash(m)
        PROVE  Service!Next
    BY <2>3, ServiceCrash DEF Service!Next
  <2>4. ASSUME NEW b \in Blobs, UnlinkCached(b)
        PROVE  Service!Next
    BY <2>4, ServiceDrop DEF UnlinkCached, Service!Next
  <2>5. CASE UNCHANGED <<cache, pc, blob, data, via, result>>
    <3>1. UNCHANGED {b \in Blobs : cache[b] = "good"}
      BY <2>5
    <3>2. UNCHANGED <<[t \in Threads |-> Asked(t)],
                      [t \in Threads |-> Reply(t)]>>
      BY <2>5 DEF Asked, Reply
    <3>3. UNCHANGED [t \in Threads |-> Sure(t)]
      BY <2>5 DEF Sure, Cached
    <3>4. QED  BY <3>1, <3>2, <3>3 DEF Service!vars
  <2>6. QED
    BY <2>1, <2>2, <2>3, <2>4, <2>5
    DEF Next, Environment, Truncate, Publish, vars
<1>2. QED  BY <1>1, ServiceInit, TypeCorrect, PTL DEF Spec, ServiceSafety, Service!Spec
=============================================================================
