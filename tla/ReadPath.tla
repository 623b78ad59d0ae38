------------------------------ MODULE ReadPath ------------------------------
(***************************************************************************)
(* The remote-file branch of BlossomFS::read_content (src/src/fuse/fs.rs)  *)
(* together with the functions it calls: fetch_range, fetch_and_cache and  *)
(* verify_and_cache (src/src/cache/fetch.rs), cache_exists, read_cached    *)
(* and evict_oldest (src/src/cache/object_cache.rs).                       *)
(*                                                                         *)
(* A thread is a FUSE callback thread inside one mount process.  The       *)
(* fetch_in_progress set and its condition variable belong to a mount; the *)
(* cache directory is shared by every mount that was given the same        *)
(* --cache-dir.  Every file-system call and every lock section is a step   *)
(* of its own, so that two threads interleave exactly where they can.      *)
(*                                                                         *)
(* Abstracted: offsets, sizes and slices of the data (only whether the     *)
(* bytes are the blob's own, "good", or not, "bad"), URLs, the shard       *)
(* directories, metrics and logging.  The servers answer anything.         *)
(***************************************************************************)
EXTENDS Naturals, FiniteSets, FiniteSetsExt

CONSTANTS
  Mounts,         \* mount processes sharing one cache directory
  Threads,        \* FUSE callback threads, of all mounts
  MountOf,        \* the mount each thread belongs to
  Blobs,          \* SHA-256 values
  NoBlob,         \* "no blob": content that is not Remote, no expiry known
  Inodes,         \* remote files of a mount's tree
  Listing,        \* the blob each of them has when a mount starts
  Announced,      \* those whose expiration the server's list gives
  Size,           \* the length of each blob
  MaxCacheBytes,  \* --max-cache; 0 disables eviction
  MaxReads,       \* bound: read() calls per thread
  Unlinkable,     \* blobs whose cache files unlink() may remove in this instance
  Ticks,          \* what the clock may advance between two writes: 0 is a tie
  MaySunset,      \* whether an answer may have a Sunset header
  MayRewrite,     \* whether an upload may give an inode another blob
  MayCrash        \* whether a mount may be killed and restarted

ASSUME ReadPathAssumption ==
  /\ Inodes # {} /\ Blobs # {} /\ NoBlob \notin Blobs
  /\ MountOf \in [Threads -> Mounts]
  /\ Listing \in [Inodes -> Blobs]
  /\ Announced \subseteq Inodes
  /\ Size \in [Blobs -> Nat]
  /\ MaxCacheBytes \in Nat
  /\ MaxReads \in Nat
  /\ Unlinkable \subseteq Blobs
  /\ Ticks \subseteq Nat /\ Ticks # {}
  /\ MaySunset \in BOOLEAN
  /\ MayRewrite \in BOOLEAN
  /\ MayCrash \in BOOLEAN

VARIABLES
  \* the cache directory, durable and shared
  cache,            \* what the file objects/aa/bb/<sha256> holds
  mtime,            \* the modification time of that file
  temp,             \* that of a thread's temporary file in .tmp
  clock,            \* the time on the file system's clock
  \* per mount, lost when the process dies
  fetchInProgress,  \* the set guarded by the mutex of the condvar pair
  blobOf,           \* the sha256 of the inode's content; NoBlob: not Remote
  expires,          \* its expires field, named by the blob that announced it
  \* locals of read_content, one copy per thread
  pc,
  ino,
  blob,             \* the sha256 cloned before the tree lock is dropped
  data,             \* the bytes to be returned
  expiry,           \* the expiry local of fs.rs: a Sunset to be recorded
  todo,             \* evict_oldest: entries not visited yet
  stamp,            \* evict_oldest: the mtime each entry was found with
  unseen,           \* evict_oldest: what WalkDir has not come to yet
  total,            \* evict_oldest: total_size
  \* observations, never read by the code
  since,            \* blobs whose file is the one of when the walk began
  via,              \* which path delivered the data
  result,           \* what the last read() of the thread returned
  reads             \* read() calls made so far

dirVars   == <<cache, mtime, temp, clock, since>>
mountVars == <<fetchInProgress, blobOf, expires>>
evictVars == <<todo, stamp, unseen, total>>
dataVars  == <<data, expiry, via>>
callVars  == <<ino, blob, reads>>
vars == <<dirVars, mountVars, evictVars, dataVars, callVars, pc, result>>

-----------------------------------------------------------------------------
(* Program counters of read_content; the comment of each action names the  *)
(* statement.                                                              *)

\* Between inserting the hash in fetch_in_progress and removing it.
FetchPCs == {"recheck", "range", "fullLookup", "fullRead", "get", "write",
             "persist", "count", "stale", "release"}
PCs == FetchPCs \union {"idle", "lookup", "readHit", "acquire", "blocked",
                        "readHit2", "walk", "evict", "expire"}

Contents == {"absent", "good", "bad"}
Bytes    == {"none", "good", "bad"}
Paths    == {"none", "cache", "range206", "range200", "get", "stale"}
Results  == {"none", "ok", "err"}

Cached(b) == cache[b] # "absent"
Present   == {b \in Blobs : Cached(b)}
BytesOf(S) == MapThenSumSet(LAMBDA b : Size[b], S)

TypeOK ==
  /\ cache \in [Blobs -> Contents]
  /\ mtime \in [Blobs -> Nat]
  /\ temp \in [Threads -> Nat]
  /\ clock \in Nat
  /\ since \in [Threads -> SUBSET Blobs]
  /\ fetchInProgress \in [Mounts -> SUBSET Blobs]
  /\ blobOf \in [Mounts -> [Inodes -> Blobs \union {NoBlob}]]
  /\ expires \in [Mounts -> [Inodes -> Blobs \union {NoBlob}]]
  /\ pc \in [Threads -> PCs]
  /\ ino \in [Threads -> Inodes]
  /\ blob \in [Threads -> Blobs]
  /\ data \in [Threads -> Bytes]
  /\ expiry \in [Threads -> BOOLEAN]
  /\ todo \in [Threads -> SUBSET Blobs]
  /\ stamp \in [Threads -> [Blobs -> Nat]]
  /\ unseen \in [Threads -> SUBSET Blobs]
  /\ via \in [Threads -> Paths]
  /\ result \in [Threads -> Results]
  /\ reads \in [Threads -> Nat]

NoStamps == [b \in Blobs |-> 0]

\* The expiry fields of a tree built from the servers' lists.
ListedExpiry == [i \in Inodes |-> IF i \in Announced THEN Listing[i] ELSE NoBlob]

\* First mounts: an empty cache directory, threads idle.
Init ==
  /\ cache = [b \in Blobs |-> "absent"]
  /\ mtime = NoStamps
  /\ temp = [t \in Threads |-> 0]
  /\ clock = 0
  /\ since = [t \in Threads |-> {}]
  /\ fetchInProgress = [m \in Mounts |-> {}]
  /\ blobOf = [m \in Mounts |-> Listing]
  /\ expires = [m \in Mounts |-> ListedExpiry]
  /\ pc = [t \in Threads |-> "idle"]
  /\ ino = [t \in Threads |-> CHOOSE i \in Inodes : TRUE]
  /\ blob = [t \in Threads |-> CHOOSE b \in Blobs : TRUE]
  /\ data = [t \in Threads |-> "none"]
  /\ expiry = [t \in Threads |-> FALSE]
  /\ todo = [t \in Threads |-> {}]
  /\ stamp = [t \in Threads |-> NoStamps]
  /\ unseen = [t \in Threads |-> {}]
  /\ total = [t \in Threads |-> 0]
  /\ via = [t \in Threads |-> "none"]
  /\ result = [t \in Threads |-> "none"]
  /\ reads = [t \in Threads |-> 0]

-----------------------------------------------------------------------------
(* The mutex-protected set and its condition variable.                     *)

Goto(t, l) == pc' = [pc EXCEPT ![t] = l]

\* Variant: the hash is removed, but notify_all() is forgotten.
DeregisterSilently(t, l) ==
  /\ fetchInProgress' = [fetchInProgress EXCEPT ![MountOf[t]] = @ \ {blob[t]}]
  /\ Goto(t, l)

\* remove(&sha256) and notify_all() under the lock: every waiter of the
\* mount is woken, whatever hash it waits for, and t goes on to l.
Deregister(t, l) ==
  LET m == MountOf[t] IN
  /\ fetchInProgress' = [fetchInProgress EXCEPT ![m] = @ \ {blob[t]}]
  /\ pc' = [u \in Threads |->
              IF u = t THEN l
              ELSE IF MountOf[u] = m /\ pc[u] = "blocked" THEN "acquire"
              ELSE pc[u]]

\* read_content returns r; the caller sees the bytes delivered so far.
Returns(t, r) == result' = [result EXCEPT ![t] = r]

Deliver(t, bytes, path) ==
  /\ data' = [data EXCEPT ![t] = bytes]
  /\ via' = [via EXCEPT ![t] = path]

-----------------------------------------------------------------------------
(* The steps of one read() call.                                           *)

\* read(ino): clone url and sha256 under the tree lock, then drop it.
Start(t) ==
  /\ pc[t] = "idle"
  /\ reads[t] < MaxReads
  /\ \E i \in Inodes :
       /\ blobOf[MountOf[t]][i] # NoBlob
       /\ ino' = [ino EXCEPT ![t] = i]
       /\ blob' = [blob EXCEPT ![t] = blobOf[MountOf[t]][i]]
  /\ reads' = [reads EXCEPT ![t] = @ + 1]
  /\ Deliver(t, "none", "none")
  /\ expiry' = [expiry EXCEPT ![t] = FALSE]
  /\ Returns(t, "none")
  /\ Goto(t, "lookup")
  /\ UNCHANGED <<dirVars, mountVars, evictVars>>

\* Variant: the cache is only consulted once registered.
LookupSkipped(t) ==
  /\ pc[t] = "lookup"
  /\ Goto(t, "acquire")
  /\ UNCHANGED <<dirVars, mountVars, evictVars, dataVars, callVars, result>>

\* The first cache_exists, without any lock.
Lookup(t) ==
  /\ pc[t] = "lookup"
  /\ Goto(t, IF Cached(blob[t]) THEN "readHit" ELSE "acquire")
  /\ UNCHANGED <<dirVars, mountVars, evictVars, dataVars, callVars, result>>

\* read_cached after the first cache_exists; a file gone since then is not
\* an error, the fetch goes ahead.
ReadHit(t) ==
  /\ pc[t] = "readHit"
  /\ IF Cached(blob[t])
     THEN /\ Deliver(t, cache[blob[t]], "cache")
          /\ Returns(t, "ok")
          /\ Goto(t, "idle")
     ELSE /\ Goto(t, "acquire")
          /\ UNCHANGED <<data, via, result>>
  /\ UNCHANGED <<dirVars, mountVars, evictVars, callVars, expiry>>

\* The wait loop: register the hash, or wait on the condition variable.
Acquire(t) ==
  LET m == MountOf[t] IN
  /\ pc[t] = "acquire"
  /\ IF blob[t] \in fetchInProgress[m]
     THEN /\ Goto(t, "blocked")
          /\ UNCHANGED fetchInProgress
     ELSE /\ Goto(t, "recheck")
          /\ fetchInProgress' =
               [fetchInProgress EXCEPT ![m] = @ \union {blob[t]}]
  /\ UNCHANGED <<dirVars, blobOf, expires, evictVars, dataVars, callVars,
                 result>>

\* Variant: the lock section ends before the download starts.
RecheckReleases(t) ==
  /\ pc[t] = "recheck"
  /\ Deregister(t, IF Cached(blob[t]) THEN "readHit2" ELSE "range")
  /\ UNCHANGED <<dirVars, blobOf, expires, evictVars, dataVars, callVars,
                 result>>

\* cache_exists once registered.  On a hit the registration is given up
\* before the file is opened.
Recheck(t) ==
  /\ pc[t] = "recheck"
  /\ IF Cached(blob[t])
     THEN Deregister(t, "readHit2")
     ELSE Goto(t, "range") /\ UNCHANGED fetchInProgress
  /\ UNCHANGED <<dirVars, blobOf, expires, evictVars, dataVars, callVars,
                 result>>

\* read_cached after giving up the registration.  When the file has gone in
\* between, the code falls through to the fetch without registering again.
ReadHit2(t) ==
  /\ pc[t] = "readHit2"
  /\ IF Cached(blob[t])
     THEN /\ Deliver(t, cache[blob[t]], "cache")
          /\ Returns(t, "ok")
          /\ Goto(t, "idle")
     ELSE /\ Goto(t, "range")
          /\ UNCHANGED <<data, via, result>>
  /\ UNCHANGED <<dirVars, mountVars, evictVars, callVars, expiry>>

\* fetch_range answered 206: the bytes of the range are returned as they are.
RangePartial(t) ==
  /\ pc[t] = "range"
  /\ \E bytes \in {"good", "bad"} : Deliver(t, bytes, "range206")
  /\ Returns(t, "ok")
  /\ Deregister(t, "idle")
  /\ UNCHANGED <<dirVars, blobOf, expires, evictVars, callVars, expiry>>

\* Variant: the body of a 200 answer is cached without hashing it.
RangeWholeUnverified(t) ==
  /\ pc[t] = "range"
  /\ \E bytes \in {"good", "bad"} : Deliver(t, bytes, "range200")
  /\ Goto(t, "write")
  /\ UNCHANGED <<dirVars, mountVars, evictVars, callVars, expiry, result>>

\* fetch_range answered 200 with a whole body: verify_and_cache hashes it.
\* The Sunset header of this answer is not looked at (expiry is None).
RangeWhole(t) ==
  /\ pc[t] = "range"
  /\ \E bytes \in {"good", "bad"} :
       IF bytes = "good"
       THEN /\ Deliver(t, bytes, "range200")
            /\ Goto(t, "write")
            /\ UNCHANGED <<fetchInProgress, result>>
       ELSE /\ Deregister(t, "idle")
            /\ Returns(t, "err")
            /\ UNCHANGED <<data, via>>
  /\ UNCHANGED <<dirVars, blobOf, expires, evictVars, callVars, expiry>>

\* fetch_range failed after its retries (416 included): full fetch instead.
RangeFails(t) ==
  /\ pc[t] = "range"
  /\ Goto(t, "fullLookup")
  /\ UNCHANGED <<dirVars, mountVars, evictVars, dataVars, callVars, result>>

\* fetch_and_cache: its own cache_exists.
FullLookup(t) ==
  /\ pc[t] = "fullLookup"
  /\ Goto(t, IF Cached(blob[t]) THEN "fullRead" ELSE "get")
  /\ UNCHANGED <<dirVars, mountVars, evictVars, dataVars, callVars, result>>

\* fetch_and_cache: read_cached; its failure is the failure of the fetch.
FullRead(t) ==
  /\ pc[t] = "fullRead"
  /\ IF Cached(blob[t])
     THEN /\ Deliver(t, cache[blob[t]], "cache")
          /\ Goto(t, "release")
     ELSE /\ Goto(t, "stale")
          /\ UNCHANGED <<data, via>>
  /\ UNCHANGED <<dirVars, mountVars, evictVars, callVars, expiry, result>>

\* fetch_and_cache: GET answered; its Sunset is kept, the body is hashed.
GetWhole(t) ==
  /\ pc[t] = "get"
  /\ \E bytes \in {"good", "bad"}, sun \in {FALSE, MaySunset} :
       IF bytes = "good"
       THEN /\ Deliver(t, bytes, "get")
            /\ expiry' = [expiry EXCEPT ![t] = sun]
            /\ Goto(t, "write")
       ELSE /\ Goto(t, "stale")
            /\ UNCHANGED <<data, via, expiry>>
  /\ UNCHANGED <<dirVars, mountVars, evictVars, callVars, result>>

\* fetch_and_cache: GET failed after its retries.
GetFails(t) ==
  /\ pc[t] = "get"
  /\ Goto(t, "stale")
  /\ UNCHANGED <<dirVars, mountVars, evictVars, dataVars, callVars, result>>

\* verify_and_cache: the verified bytes are written to a temporary file, which
\* has its modification time from now on.
Write(t) ==
  /\ pc[t] = "write"
  /\ \E d \in Ticks :
       /\ clock' = clock + d
       /\ temp' = [temp EXCEPT ![t] = clock + d]
  /\ Goto(t, "persist")
  /\ UNCHANGED <<cache, mtime, since, mountVars, evictVars, dataVars, callVars,
                 result>>

\* verify_and_cache: the temporary file is renamed over the cache path and
\* keeps its modification time.
Persist(t) ==
  LET b == blob[t] IN
  /\ pc[t] = "persist"
  /\ cache' = [cache EXCEPT ![b] = data[t]]
  /\ mtime' = [mtime EXCEPT ![b] = temp[t]]
  /\ temp' = [temp EXCEPT ![t] = 0]
  /\ since' = [u \in Threads |-> since[u] \ {b}]
  /\ Goto(t, "count")
  /\ UNCHANGED <<clock, mountVars, evictVars, dataVars, callVars, result>>

\* verify_and_cache: an I/O error before the rename leaves no cache file.
\* The 200 answer to a range ends there; the full fetch tries the stale copy.
PersistFails(t) ==
  /\ pc[t] \in {"write", "persist"}
  /\ temp' = [temp EXCEPT ![t] = 0]
  /\ Deliver(t, "none", "none")
  /\ expiry' = [expiry EXCEPT ![t] = FALSE]
  /\ IF via[t] = "range200"
     THEN Deregister(t, "idle") /\ Returns(t, "err")
     ELSE Goto(t, "stale") /\ UNCHANGED <<fetchInProgress, result>>
  /\ UNCHANGED <<cache, mtime, clock, since, blobOf, expires, evictVars,
                 callVars>>

\* verify_and_cache: what follows the rename (the gauges, CacheGauges).
Count(t) ==
  /\ pc[t] = "count"
  /\ Goto(t, "release")
  /\ UNCHANGED <<dirVars, mountVars, evictVars, dataVars, callVars, result>>

\* Variant: the error exit forgets the registration.
StaleKeepsRegistration(t) ==
  /\ pc[t] = "stale"
  /\ IF Cached(blob[t])
     THEN /\ Deliver(t, cache[blob[t]], "stale")
          /\ Goto(t, "release")
          /\ UNCHANGED result
     ELSE /\ Goto(t, "idle")
          /\ Returns(t, "err")
          /\ UNCHANGED <<data, via>>
  /\ UNCHANGED <<dirVars, mountVars, evictVars, callVars, expiry>>

\* The full fetch failed: serve what the cache holds by now, or EIO.
Stale(t) ==
  /\ pc[t] = "stale"
  /\ IF Cached(blob[t])
     THEN /\ Deliver(t, cache[blob[t]], "stale")
          /\ Goto(t, "release")
          /\ UNCHANGED <<fetchInProgress, result>>
     ELSE /\ Deregister(t, "idle")
          /\ Returns(t, "err")
          /\ UNCHANGED <<data, via>>
  /\ UNCHANGED <<dirVars, blobOf, expires, evictVars, callVars, expiry>>

\* The fetch is over: remove the registration, wake the waiters, and begin to
\* evict.
Release(t) ==
  /\ pc[t] = "release"
  /\ IF MaxCacheBytes > 0
     THEN /\ Deregister(t, "walk")
          /\ unseen' = [unseen EXCEPT ![t] = Blobs]
          /\ since' = [since EXCEPT ![t] = Present]
     ELSE Deregister(t, "expire") /\ UNCHANGED <<unseen, since>>
  /\ UNCHANGED <<cache, mtime, temp, clock, blobOf, expires, todo, stamp, total,
                 dataVars, callVars, result>>

-----------------------------------------------------------------------------
(* evict_oldest(cache_base, max_cache_bytes, keep = the blob just read).   *)

\* Variant: the size of the blob to keep is left out of total_size.
WalkWithoutKeep(t) ==
  /\ pc[t] = "walk"
  /\ \E b \in unseen[t] :
       /\ unseen' = [unseen EXCEPT ![t] = @ \ {b}]
       /\ IF Cached(b)
          THEN /\ todo' = [todo EXCEPT ![t] = @ \union {b}]
               /\ stamp' = [stamp EXCEPT ![t][b] = mtime[b]]
               /\ total' = [total EXCEPT ![t] = IF b = blob[t] THEN @ ELSE @ + Size[b]]
          ELSE UNCHANGED <<todo, stamp, total>>
  /\ UNCHANGED <<dirVars, mountVars, dataVars, callVars, pc, result>>

\* WalkDir comes to the place of the next blob, in no particular order, while
\* files come and go: a file that is there is an entry, with the size and the
\* mtime it has now.
Walk(t) ==
  /\ pc[t] = "walk"
  /\ \E b \in unseen[t] :
       /\ unseen' = [unseen EXCEPT ![t] = @ \ {b}]
       /\ IF Cached(b)
          THEN /\ todo' = [todo EXCEPT ![t] = @ \union {b}]
               /\ stamp' = [stamp EXCEPT ![t][b] = mtime[b]]
               /\ total' = [total EXCEPT ![t] = @ + Size[b]]
          ELSE UNCHANGED <<todo, stamp, total>>
  /\ UNCHANGED <<dirVars, mountVars, dataVars, callVars, pc, result>>

\* The walk is over; the loop below is left at once when total_size fits.
WalkDone(t) ==
  /\ pc[t] = "walk"
  /\ unseen[t] = {}
  /\ Goto(t, "evict")
  /\ UNCHANGED <<dirVars, mountVars, evictVars, dataVars, callVars, result>>

EvictionOver(t) == total[t] <= MaxCacheBytes \/ todo[t] = {}

\* Variant: the entries are sorted the wrong way round.
IsNewest(t, b) ==
  b \in todo[t] /\ \A x \in todo[t] : stamp[t][x] <= stamp[t][b]

\* The oldest entry of those not visited yet.
IsNext(t, b) ==
  b \in todo[t] /\ \A x \in todo[t] : stamp[t][b] <= stamp[t][x]

RemoveFile(b) ==
  /\ cache' = [cache EXCEPT ![b] = "absent"]
  /\ mtime' = [mtime EXCEPT ![b] = 0]
  /\ since' = [t \in Threads |-> since[t] \ {b}]
  /\ UNCHANGED <<temp, clock>>

\* One iteration: keep is passed over; a file that is gone already fails to
\* be removed and its size stays in total_size.  The path is removed whatever
\* file is there by now.
EvictOne(t) ==
  /\ pc[t] = "evict"
  /\ ~EvictionOver(t)
  /\ \E b \in Blobs :
       /\ IsNext(t, b)
       /\ todo' = [todo EXCEPT ![t] = @ \ {b}]
       /\ IF b # blob[t] /\ Cached(b)
          THEN /\ RemoveFile(b)
               /\ total' = [total EXCEPT ![t] = @ - Size[b]]
          ELSE UNCHANGED <<dirVars, total>>
  /\ UNCHANGED <<mountVars, stamp, unseen, dataVars, callVars, pc, result>>

EvictDone(t) ==
  /\ pc[t] = "evict"
  /\ EvictionOver(t)
  /\ todo' = [todo EXCEPT ![t] = {}]
  /\ stamp' = [stamp EXCEPT ![t] = NoStamps]
  /\ total' = [total EXCEPT ![t] = 0]
  /\ since' = [since EXCEPT ![t] = {}]
  /\ Goto(t, "expire")
  /\ UNCHANGED <<cache, mtime, temp, clock, mountVars, unseen, dataVars,
                 callVars, result>>

\* set_expires on the inode the read started from, if its content is Remote
\* (whatever blob that is by now), then return the slice.
RecordExpiry(t) ==
  LET m == MountOf[t] IN
  /\ pc[t] = "expire"
  /\ IF expiry[t] /\ blobOf[m][ino[t]] # NoBlob
     THEN expires' = [expires EXCEPT ![m][ino[t]] = blob[t]]
     ELSE UNCHANGED expires
  /\ Returns(t, "ok")
  /\ Goto(t, "idle")
  /\ UNCHANGED <<dirVars, fetchInProgress, blobOf, evictVars, dataVars,
                 callVars>>

-----------------------------------------------------------------------------
(* What happens around the readers.                                        *)

\* unlink() removes the cache file of the deleted blob, without any lock.
UnlinkCached(b) ==
  /\ b \in Unlinkable
  /\ Cached(b)
  /\ RemoveFile(b)
  /\ UNCHANGED <<mountVars, evictVars, dataVars, callVars, pc, result>>

\* create() with O_TRUNC: the inode's content becomes Static(empty).
Truncate(m, i) ==
  /\ MayRewrite
  /\ blobOf[m][i] # NoBlob
  /\ blobOf' = [blobOf EXCEPT ![m][i] = NoBlob]
  /\ expires' = [expires EXCEPT ![m][i] = NoBlob]
  /\ UNCHANGED <<dirVars, fetchInProgress, evictVars, dataVars, callVars,
                 pc, result>>

\* do_upload: the inode's content becomes Remote(b), with the Sunset of the
\* HEAD request when the server already had the blob.  A second handle of the
\* file may upload over the blob of the first.
Publish(m, i, b) ==
  /\ MayRewrite
  /\ blobOf' = [blobOf EXCEPT ![m][i] = b]
  /\ \E e \in {NoBlob, b} : expires' = [expires EXCEPT ![m][i] = e]
  /\ UNCHANGED <<dirVars, fetchInProgress, evictVars, dataVars, callVars,
                 pc, result>>

\* The mount process is killed and started again: the cache directory stays,
\* the tree is rebuilt from the servers' lists.  A temporary file that was
\* not renamed yet stays in .tmp, which no lookup reads.
Crash(m) ==
  LET Lost(f, v) == [t \in Threads |-> IF MountOf[t] = m THEN v ELSE f[t]]
  IN
  /\ MayCrash
  /\ fetchInProgress' = [fetchInProgress EXCEPT ![m] = {}]
  /\ blobOf' = [blobOf EXCEPT ![m] = Listing]
  /\ expires' = [expires EXCEPT ![m] = ListedExpiry]
  /\ pc' = Lost(pc, "idle")
  /\ data' = Lost(data, "none")
  /\ via' = Lost(via, "none")
  /\ expiry' = Lost(expiry, FALSE)
  /\ todo' = Lost(todo, {})
  /\ stamp' = Lost(stamp, NoStamps)
  /\ unseen' = Lost(unseen, {})
  /\ total' = Lost(total, 0)
  /\ since' = Lost(since, {})
  /\ temp' = Lost(temp, 0)
  /\ result' = Lost(result, "none")
  /\ UNCHANGED <<cache, mtime, clock, callVars>>

-----------------------------------------------------------------------------
\* A request to a server is open: the answer, or the error of the client.
Downloading(t) == pc[t] \in {"range", "get"}

Answered(t) ==
  \/ RangePartial(t) \/ RangeWhole(t) \/ RangeFails(t)
  \/ GetWhole(t) \/ GetFails(t)

LocalStep(t) ==
  \/ Lookup(t) \/ ReadHit(t) \/ Acquire(t) \/ Recheck(t) \/ ReadHit2(t)
  \/ FullLookup(t) \/ FullRead(t)
  \/ Write(t) \/ Persist(t) \/ PersistFails(t) \/ Count(t) \/ Stale(t)
  \/ Release(t) \/ Walk(t) \/ WalkDone(t) \/ EvictOne(t) \/ EvictDone(t)
  \/ RecordExpiry(t)

ReadStep(t) == LocalStep(t) \/ Answered(t)

Environment ==
  \/ \E b \in Blobs : UnlinkCached(b)
  \/ \E m \in Mounts, i \in Inodes : Truncate(m, i)
  \/ \E m \in Mounts, i \in Inodes, b \in Blobs : Publish(m, i, b)
  \/ \E m \in Mounts : Crash(m)

Next ==
  \/ \E t \in Threads : Start(t) \/ ReadStep(t)
  \/ Environment

Spec == Init /\ [][Next]_vars

\* A running callback thread is scheduled.  The clients of fetch.rs have no
\* timeout: nothing obliges a server to answer, nor the kernel to issue a read().
Fairness == \A t \in Threads : WF_vars(LocalStep(t))
FairSpec == Spec /\ Fairness

-----------------------------------------------------------------------------
(* Safety.                                                                 *)

\* Only bytes that hash to the blob's name are ever in the cache directory,
\* whatever the servers answer, whichever mounts share it, and whenever one
\* is killed ("never cache bad data", object_cache.rs and fetch.rs).
CacheIntegrity == \A b \in Blobs : cache[b] # "bad"

\* A read() that succeeds by any path other than a 206 answer hands out bytes
\* that were hashed against the blob's name: from the cache, from the stale
\* copy after a failed fetch, from a 200 answer or from the full fetch.
WholeBlobVerified ==
  \A t \in Threads :
    result[t] = "ok" /\ via[t] # "range206" => data[t] = "good"

\* Neither the cache nor a reader is ever given bytes for a blob that do not hash
\* to its name, but for a reader that is given a 206 answer.
OnlyVerified == CacheIntegrity /\ WholeBlobVerified

\* A thread asleep on the condition variable waits for a hash that is still
\* registered, and every registered hash is registered while some thread of
\* the mount is fetching it: no waiter is forgotten, and no hash stays
\* registered once its fetch has returned by whichever of its seven exits.
WaiterHasFetcher ==
  /\ \A t \in Threads :
       pc[t] = "blocked" => blob[t] \in fetchInProgress[MountOf[t]]
  /\ \A m \in Mounts : \A b \in fetchInProgress[m] :
       \E t \in Threads : MountOf[t] = m /\ blob[t] = b /\ pc[t] \in FetchPCs

\* Two read() calls of a mount never have requests for the same blob open at
\* the same time (fetch_in_progress).  It holds as long as nothing removes
\* cache files.
SingleFlight ==
  \A t, u \in Threads :
    /\ t # u
    /\ MountOf[t] = MountOf[u]
    /\ blob[t] = blob[u]
    => ~(Downloading(t) /\ Downloading(u))

Quiet == \A t \in Threads : pc[t] = "idle"

\* When no read() is running, the cache is within --max-cache, or what is
\* left is one single blob larger than the limit: concurrent evictions that
\* started from different snapshots never leave an excess behind.
CacheWithinLimit ==
  Quiet /\ MaxCacheBytes > 0
    => BytesOf(Present) <= MaxCacheBytes \/ Cardinality(Present) <= 1

\* While evict_oldest runs, total_size covers every entry still to be visited,
\* so that the unsigned subtraction never wraps, whatever other threads remove
\* or write meanwhile.
TotalCoversTodo ==
  \A t \in Threads : pc[t] = "evict" => total[t] >= BytesOf(todo[t])

\* Evictions that race keep the cache to its limit, and their books right.
CacheBounded == CacheWithinLimit /\ TotalCoversTodo

\* Eviction goes oldest first (README.md:198, "FIFO") however many threads and
\* mounts evict at once: when a thread removes the file it found in its walk, no
\* file that has been in its place since the walk began is older, but the one of
\* the blob the thread keeps.
EvictsOldestFirst ==
  [][\A t \in Threads : \A b \in todo[t] \ todo'[t] :
       Cached(b) /\ ~Cached(b)' /\ mtime[b] = stamp[t][b]
       => \A x \in since[t] : mtime[x] < mtime[b] => x = blob[t]]_vars

-----------------------------------------------------------------------------
(* Liveness.                                                               *)

\* Every read() of a file returns, whatever other reads of the mount do, unless
\* a server leaves a request for the same blob unanswered for ever: a silent
\* server holds up the readers of its blob and nobody else.
ReadsReturn ==
  \A t \in Threads :
    \/ []<>(pc[t] = "idle")
    \/ \E u \in Threads :
         <>[](Downloading(u) /\ MountOf[u] = MountOf[t] /\ blob[u] = blob[t])

=============================================================================
