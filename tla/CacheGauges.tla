----------------------------- MODULE CacheGauges -----------------------------
(***************************************************************************)
(* The gauge blossomfs_cache_size_bytes (src/src/metrics.rs) of the mounts *)
(* of ReadPath: every file put in the cache is added (src/src/cache/       *)
(* fetch.rs), and what evict_oldest removed is subtracted when it is done  *)
(* (src/src/cache/object_cache.rs).  The directory is never looked at: the *)
(* gauge of a mount starts at 0 whatever the directory holds, files put in *)
(* place of others are added again, and what unlink() or another mount     *)
(* removes is not subtracted.                                              *)
(***************************************************************************)
EXTENDS ReadPathRefinement, Integers

\* The kernel and fuser run finitely many callbacks at a time.
ASSUME ThreadsFinite == IsFiniteSet(Threads)

VARIABLES
  gauge,    \* CACHE_SIZE_BYTES, of every mount
  removed,  \* evict_oldest: removed_bytes
  \* observation
  found     \* what the directory held when the mount was started

gaugeVars == <<gauge, removed, found>>

GaugedInit ==
  /\ Init
  /\ gauge = [m \in Mounts |-> 0]
  /\ removed = [t \in Threads |-> 0]
  /\ found = [m \in Mounts |-> 0]

Added(m, n) == gauge' = [gauge EXCEPT ![m] = @ + n]

\* What was put in the cache is added once it is there.
GaugedCount(t) ==
  /\ Count(t)
  /\ Added(MountOf[t], Size[blob[t]])
  /\ UNCHANGED <<removed, found>>

\* Variant: every file visited is counted as removed.
GaugedEvictOneVisited(t) ==
  /\ EvictOne(t)
  /\ removed' = [removed EXCEPT ![t] = @ + BytesOf(todo[t] \ todo'[t])]
  /\ UNCHANGED <<gauge, found>>

\* Only what was removed counts.
GaugedEvictOne(t) ==
  /\ EvictOne(t)
  /\ removed' = [removed EXCEPT ![t] = @ + BytesOf({b \in Blobs : Cached(b) /\ ~Cached(b)'})]
  /\ UNCHANGED <<gauge, found>>

GaugedEvictDone(t) ==
  /\ EvictDone(t)
  /\ Added(MountOf[t], -removed[t])
  /\ removed' = [removed EXCEPT ![t] = 0]
  /\ UNCHANGED found

GaugedCrash(m) ==
  /\ Crash(m)
  /\ gauge' = [gauge EXCEPT ![m] = 0]
  /\ removed' = [t \in Threads |-> IF MountOf[t] = m THEN 0 ELSE removed[t]]
  /\ found' = [found EXCEPT ![m] = BytesOf(Present)]

Ungauged(t) ==
  \/ Start(t) \/ Answered(t)
  \/ Lookup(t) \/ ReadHit(t) \/ Acquire(t) \/ Recheck(t) \/ ReadHit2(t)
  \/ FullLookup(t) \/ FullRead(t)
  \/ Write(t) \/ Persist(t) \/ PersistFails(t) \/ Stale(t) \/ Release(t)
  \/ Walk(t) \/ WalkDone(t) \/ RecordExpiry(t)

GaugedNext ==
  \/ \E t \in Threads :
       \/ GaugedCount(t) \/ GaugedEvictOne(t) \/ GaugedEvictDone(t)
       \/ Ungauged(t) /\ UNCHANGED gaugeVars
  \/ \E m \in Mounts : GaugedCrash(m)
  \/ (\E b \in Blobs : UnlinkCached(b)) /\ UNCHANGED gaugeVars
  \/ (\E m \in Mounts, i \in Inodes : Truncate(m, i)) /\ UNCHANGED gaugeVars
  \/ (\E m \in Mounts, i \in Inodes, b \in Blobs : Publish(m, i, b)) /\ UNCHANGED gaugeVars

GaugedSpec == GaugedInit /\ [][GaugedNext]_<<vars, gaugeVars>> /\ Fairness

-----------------------------------------------------------------------------
\* What each thread has put in the cache and has still to add.
Uncounted == [t \in Threads |-> IF pc[t] = "count" THEN Size[blob[t]] ELSE 0]

\* The gauge of the only mount of a cache directory tells no less than the
\* mount has put there but for what is on its way to it, however evictions
\* overlap, fail or are overtaken by downloads and by unlink(): with what the
\* directory held at the start, and the files in place that are still to be
\* added (fetch.rs:164, 166), it covers the files and what evictions have still
\* to subtract.  So it does not drift below: when no read() is running it tells
\* at least what was put there and is left.  (It may tell more: fetch.rs:166.)
GaugeCovers ==
  \A m \in Mounts : Mounts = {m} =>
    gauge[m] + found[m] + MapThenSumSet(LAMBDA t : Uncounted[t], Threads)
      >= BytesOf(Present) + MapThenSumSet(LAMBDA t : removed[t], Threads)
=============================================================================
