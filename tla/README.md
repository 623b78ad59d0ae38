# BlossomFS in TLA+

BlossomFS mounts Blossom blob servers as a file system (FUSE, Rust, `src/src/`).
This directory holds TLA+ modules of its concurrent and stateful parts, TLC
configurations that check them on small instances, and TLAPS proofs that hold for
instances of any size.

Run from this directory: `tlc -config ReadShared.cfg MCReadPath.tla` (any `.cfg`
with the module `PROJECT.json` names for it) and `tlapm ReadPathProofs.tla`.

1. Inventory - 2. Modules - 3. Runs and bounds - 4. Fairness - 5. Proofs -
6. Where code and documentation disagree - 7. What is left out - 8. Plan

## 1. Inventory

| Part | State | Operations | Hard behaviour | What makes it correct |
|---|---|---|---|---|
| Read path (`fuse/fs.rs` read_content) | `fetch_in_progress` set and condvar per mount; expiry in the tree | `read()` | several FUSE threads per mount, lock sections, six ways to get the data, seven exits | no forgotten waiter, one request per blob, only verified bytes, every read() returns |
| Blob cache (`cache/fetch.rs`, `cache/object_cache.rs`) | files `objects/aa/bb/<sha256>`, `.tmp`; shared by mounts | lookup, verify and rename, evict | processes without a common lock, kills, walks over a directory that changes, files older than their arrival | integrity, size limit, eviction order |
| Write buffer (`fuse/fs.rs` WriteBuffer) | bytes in memory or in a file, hasher | `write()` | any order of offsets, spill in the middle, O_APPEND | what is uploaded is the file, under its own hash |
| Write path (`fuse/fs.rs`) | `write_state` (handle to buffer), `next_fh`, tree nodes, `frozen`, `upload_sem` | open, create, write, flush, release, unlink | handles of one file, flush and release racing writes, unlink during uploads, failed uploads | no permit lost, Remote means stored, one upload per handle, own content |
| Upload protocol (`do_upload`, `blossom/client.rs`, `payment/`) | server's blobs, session files, payments | dedup HEAD, lease extension, preflight, single-shot with retry, multipart with resume, 402 | lost answers, retries of what was done, resumed and overwritten sessions, double payment | success iff stored, no part skipped that is missing, no second payment answered by 402 |
| Tree (`fuse/tree.rs`) | append-only inode vector, children lists | add, lookup, populate lazily, tags, remove | sanitised names, restored structure on top of a built one, population while others look up | a tree; views exact; a repository walked once |
| Listing (`blossom/client.rs`) | cursor, blobs seen | paged GET | blobs come and go between pages | nothing that stayed is missed |
| Persist (`nostr/persist.rs`, `tree.rs`) | a Nostr event | publish at unmount, apply at mount | round trip through tags, kill before publish | what was saved is what is restored |
| Expiry (`fs.rs`, `client.rs`) | `expires` and `uploaded` of a node; the server's lease | upload, dedup hit, extension, fetch, getxattr | a fetch or an extension overtaken by truncation and upload | what is shown was granted |
| Sizes (`tree.rs`, `fs.rs`) | `size` of a node | write, setattr, upload | a size set from elsewhere than the buffer, uploads overtaken by writes | stat() tells the length of the buffer |
| Start-up (`main.rs`) | arguments, servers, the tree being built, keys, payment strategy | load, validate, ask seven sources, build, restore, mount, publish | every source may fail or answer with something invalid | each source's files at their place, whatever the others do; the user's server is uploaded to; the start ends |
| Sources (`nostr/`, `blossom/`, loops of `main.rs`) | none | events and descriptors to files | untrusted names, repeated and missing tags | every file the answers have, and no other |
| Configuration (`config.rs`, `cli.rs`) | merged options | merge, validate | four layers, option by option | flags first (they are not: 6.22) |
| Names (`util/path.rs`) | none | sanitise | sanitised when stored, not when looked up | safe, stable, kept when in order |
| Git browsing (`nostr/nip34.rs`, `git/browse.rs`) | lazy directories, clones on disk | clone, walk | long clone without a lock, kill in the middle | every file shown once at its path |
| Control (`control.rs`) | `frozen` flag, socket file in the cache directory | bind, freeze, unfreeze, status | killed daemons' files, two daemons, races with FUSE calls | a daemon alone is the one its socket leads to; see write path |
| Payment (`payment/`, `client.rs`) | requests and answers on a relay | pay with a token file or a wallet | uncorrelated, late, doubled or missing answers | one payment per call, no old answer, every call ends |
| CBOR (`payment/cbor.rs`) | none | decode requests and tokens | repeated keys, any order | what is there is decoded, what is not whole is refused |
| Metrics (`metrics.rs`) | gauges and counters | inc, add, sub | drift from the directory they describe | the gauge covers the directory, with what is on its way |
| Keys, auth, text of virtual files, inode map | none or unused | signing, formatting | none | not state machines |

FUSE threads call into the tree (an `RwLock`), the write buffers (a `Mutex`), the
`fetch_in_progress` pair and the cache directory; uploads and fetches leave all
locks before they wait for a server. That is where the interleavings come from.
The read path, the write path and the upload protocol meet in two places only: the
content and expiry of a tree node, and the cache directory. Each module therefore
has the others as environment actions of its own (ReadPath: Publish, Truncate,
UnlinkCached; WritePath: PutStores, PutLost, PutFails; Mount: Uploaded), and each
such action allows at least what the other module does there. Mount processes meet in the
cache directory only: its objects (ReadPath), its session files (UploadProtocol)
and its control socket (Daemon); and, through the relays, in the wallet (Wallet) and in
the published structure (Mount).

docs/design.md:69-71 says that fuser serves callbacks from a thread pool. Should a
build run them on one thread, its behaviours are among those checked here.

## 2. Modules

| Module | Models | Extends or instantiates |
|---|---|---|
| BlobService | what reading promises: a blob at hand is returned whole, other bytes are never passed off as it, only its readers bring a blob in | |
| ReadPath | read_content with everything it calls; mounts, threads, the shared cache | |
| ReadPathRefinement | ReadPath implements BlobService | both |
| CacheGauges | the cache gauge of each mount, beside ReadPath's steps | ReadPathRefinement |
| WriteBuffer | one handle's bytes, spill, hasher and O_APPEND | |
| FileSize | the size shown, beside WriteBuffer's steps: setattr, close and an upload | WriteBuffer |
| WritePath | handles, upload steps, semaphore, unlink, freeze | |
| UploadService | what an upload promises: it ends, and success means stored | |
| UploadProtocol | do_upload's requests from several mounts; implements UploadService | UploadService |
| Lease | the expiry of one file and the lease of its blob | |
| Tree | the operators of `tree.rs` and walk_repo_tree on the value of a tree | |
| DriveService | what `--persist` promises of a user's directories and files | |
| Mount | mounts in a row: listing, building, restoring, directory calls, publication; implements DriveService | Tree, DriveService |
| Names | the sanitisers of `util/path.rs` | |
| Config | flags, environment and file to the arguments of a mount; validation; keys | |
| Sources | answers of servers and relays to the tree; the parsers and filters on the way | Tree |
| Daemon | processes from command line to exit, each with Config and Sources, and their sockets | Config, Sources |
| Cashu | the decoders of payment requests and tokens | |
| Wallet | paid calls: token file, wallet over a relay, or none | Cashu |
| Lists | `Only`, what Rust's retain and filter leave of a list | |
| MC* | instances for TLC | the module |
| Induction | lemmas: induction over numbers, intervals and finite sets, recursive functions, sums | TLAPS |
| ReadPathProofs | theorems on ReadPath and CacheGauges | both, Induction, TLAPS |
| WriteBufferProofs | theorems on WriteBuffer and FileSize | both, TLAPS |
| WritePathProofs | theorems on WritePath | it, TLAPS |
| UploadProtocolProofs | theorems on UploadProtocol and Lease | both, TLAPS |
| WalletProofs | theorems on Wallet and Cashu | Wallet, Induction, TLAPS |
| DaemonProofs | theorems on Daemon and Names | both, Induction, TLAPS |
| MountProofs | theorems on Mount and Tree | Mount, Induction, TLAPS |

Tree, Config, Sources, Cashu and Wallet filter with `Only` and not with SelectSeq, which is
declared RECURSIVE and cannot be reasoned about.

**ReadPath.** `cache` is what each file of the object directory holds: nothing, the
blob's bytes (`good`) or others (`bad`). `clock` is the file system's, `temp` the mtime of a
thread's temporary file and `mtime` that of a file in its place, which the rename does not
change. Each thread has a `pc` whose values are the places of read_content between which another
thread can act; every file-system call and every lock section is one action, named
for the statement (`Lookup`, `Acquire`, `Recheck`, `RangePartial`, ...). `data`,
`expiry`, `todo`, `stamp`, `unseen` and `total` are the locals: `unseen` is what WalkDir has
not come to, `todo` and `stamp` the entries it found and their mtimes. `since` observes which
blobs have had the same file since the walk began. The HTTP client answers anything at
any time. Around the readers, `UnlinkCached`, `Truncate`, `Publish` and `Crash`
change what they work on. Spurious wake-ups only repeat the test under the lock
and are left out. WalkDir comes to one blob's place at a time, in any order, and reads size and
mtime there at once. An upper-case `keep` that matches no file, a file of size 0 and
a directory that is not empty at first are left out.

**WriteBuffer.** `bytes`, `onDisk` and `written` are WriteStorage, `hashed` is what
the hasher was fed, `file` is what the same calls make of a POSIX file. Bytes are
values; Overlay and Pad are resize and copy_from_slice, or seek and write.

**FileSize.** `shown` is the size field. write() has two lock sections, of the buffer (`SizedWrite`)
and of the tree (`TellSize`), `told` is new_size between them. flush() takes the data (`Take`,
`taken` is its length) and do_upload publishes it whenever it ends (`PublishSize`, `UploadFails`);
write() and ftruncate() through another descriptor come in between. `missed` (a write() since the data
was taken) and `by` (what set the size last) only observe. The server tells back the length it was sent.

**CacheGauges.** Each action is one of ReadPath joined with what the same step does to
`gauge`, CACHE_SIZE_BYTES, and `removed`, the local of evict_oldest; the rename (`Persist`) and the
gauge's add (`GaugedCount`) are two steps. `found` only observes.

**WritePath.** A handle's data is the sequence of chunks written to it and stands for
its own hash (that the hash is right is WriteBuffer's matter). `dir` and `node` are
the directory and its inodes, `buf` is write_state, `fds` and `maps` count the
kernel's references, of which mappings send no FLUSH when they end. A call that
needs no server is one action; flush, release and unlink hold their place in `pc`
and `call`. Calls that end in EACCES, EBADF, EEXIST or EROFS change nothing and
have no action. The kernel serialises create and unlink in one directory. A
server keeps what it has until a DELETE.

**UploadProtocol.** Session files are named by the content's hash, so only uploads
of equal content meet; the model has one. `received`, `alive` and `nextId` are
the server's sessions; `file`, `saved` and `writers` are the session file, which
`fs::write` truncates and writes in two steps; `session`, `attempt` and `pc` are
locals. A request is obeyed and answered, obeyed and not answered, or refused.
An answer that is lost is obeyed when the client gives up, not later. load's
three system calls are one step. The wallet is one step that succeeds or fails.

**Lease.** `entry` is the node, `granted` the end of each blob's lease at the server, `clock`
counts days. `Head`, `Extend` and `Known` are the dedup branch of do_upload, `Put` what follows
when it finds nothing, `Fetch`, `Answers` and `Fetched` a read whose request is under way while
the file changes, `EffectiveExpiry` is compute_effective_expiry. The server never shortens
a lease. `misled` marks the one case in which the code shows another blob's Sunset (6.18).

**Tree, Mount.** A tree is a sequence of records, one per inode. Names and blobs are
values, sanitize_path_component is the constant `San`, the by-date view has one
directory level instead of three, sizes and times are left out. Mount goes through
`down`, `list`, `listed` and `up`; `Kill` leads back from anywhere without a
publication. While `list` lasts, blobs arrive and vanish. The user works in the
root and his own directories. `TakeLazy` and `Cloned` (or `CloneFails`) are the
two lock sections of populate_if_lazy, and everything else may happen between
them. `handle` is one listing of a directory in several readdir() calls. The
kernel takes its lock of a directory for each lookup and readdir in it (init()
does not ask for FUSE_PARALLEL_DIROPS), so that nobody sees a repository between
the two sections from inside; other directories stay in use. One public key,
server, repository and lazy directory stand for several; all of them, the all-servers
view and the other sources are in Daemon. `event` is what relays
return: the event published last, or no answer.

**Config, Sources, Daemon.** A layer of options is a function on the options it gives; which
names merge_into asks is_explicit for, and which of them it can find, is `OneWord`; the others
fall to the file and the environment. A tag is a
sequence, a descriptor or event a value whose fields are constants. Sources has one operator per
parser and per loop of run_mount, each from a tree and an answer to a tree; `count` is
blob_count. Daemon's `phase` follows run_mount, one action per source; a source is asked under the
code's conditions and answers or fails. `heard` notes the answers, so that SourcesExact can say what
the tree should show without building one. `Ends` is whatever ends a process: it leaves the
socket file. The control task removes, then binds (`RemoveSocket`, `Bind`); mount2's return
removes again (`Unmounted`), whoever bound. `shared` notes that another daemon had a control task
in the same directory.

**Names.** A name is a sequence of characters, of which one stands for each class the code tells
apart: a letter and its capital, a two-byte letter, dot, underscore, slash, newline.

**Wallet, Cashu.** A payer is an upload of a mount, which all die together, or an extend command, a
process each. `open` are the requests the wallet has, `answers` what the relay keeps. Fetch
takes the first decidable answer since `since`, whoever asked. Payment requests and
tokens are CBOR values from a set that has whole ones and ones that are wrong in one place;
CreqExact and CashubExact compare the loops with definitions without loops: which values are
requests and tokens at all, and what stands in them. The wallet's created_at is read off the same
clock as the client's `now`.

## 3. Runs and bounds

Each line's run finishes within about two minutes. Properties are explained where
they are defined. Where a run names one property for several things (OnlyVerified,
SessionsExact, DataExact, PublicWhole, SourcesExact, StatusTold, DecodersExact,
NamesSound) it is the conjunction of named parts that are defined and explained above it.

| Run | Instance | Shows |
|---|---|---|
| ReadShared | 2 mounts, 3 threads of 2 reads, 1 blob, no removals, O_TRUNC and uploads, kills | one request per blob and mount; waiters have a fetcher; BlobService |
| ReadBound | 1 mount, 2 threads of 2 reads, 3 blobs of lengths 1, 1, 2, room for 2, one may be unlinked, mtimes that may tie | the limit holds again once readers are done, the unsigned total never wraps, oldest first among the files in place since the walk began |
| ReadAnswered | 1 mount, 2 threads, 2 blobs, 1 inode, room for 1, uploads, O_TRUNC, unlink, kills, fairness | only verified bytes cached and served; every read() returns unless a server of its blob is silent; the gauge covers the cache, with what is on its way |
| BufferHash | 3 write() calls of 1 or 2 bytes at any offset, spill past 3, limit 5 | violated: the hash is not the data's after an overwrite |
| WriteSafe | 2 threads, 2 names, 2 inodes, 2 handles, 1 permit; a buffer as in BufferHash with setattr, close and an upload | permits, Remote means stored, success means stored, one upload per handle, own content; in-order, appended and gapped files are exact, memory is always exact; the size shown |
| WriteLive | 2 threads, 1 file, 2 handles with a dup'ed descriptor each, 1 permit, fairness | calls return, every written handle is uploaded or fails |
| WriteLate | 2 threads, 2 handles | violated: data written after the first close of a dup is never uploaded |
| UploadSafe | 2 mounts, 1 upload each, 2 parts, 2 attempts, 2 sessions, one killable; 1 file, 2 contents (one small), 3 days, free period of 2 | sessions are truthful, complete is whole, one answered payment, UploadService and its liveness; what is shown was granted |
| DriveCycle | 2 mounts in a row, 2 blobs, pages of 1, 3 pages, 3 changes, depth 2, 2 names | complete listings, exact views, repositories shown, whole directory listings, DriveService |
| Startup | 1 daemon with each of 12 command lines and every source answering in 2 or 3 ways or failing; 2 daemons, 2 starts each, 1 or 2 cache directories; every name of up to 5 characters of 7 classes, at most 4 bytes | sources shown exactly, restored exactly, STATUS.txt, dates, whose server is uploaded to, whose socket it is, every start ends unless a blob server is silent; names |
| Precedence | the same | violated: with `--read-only true` and `BLOSSOMFS_READ_ONLY=false` the mount is writable |
| Wallet | 1 upload, 1 extend command, 2 calls each, 2 seconds, 7 payment requests, 7 tokens, 3 strategies | no old answer, one payment per call, decoders exact, calls end unless an extend command's server is silent |

Four runs check two modules that share no variable. In UploadSafe either the uploads or the lease
moves (`BothSpec`; a clock past `Horizon` says that it is the uploads), in WriteSafe either the
calls of the write path or one handle's buffer (more than `MaxCalls` calls say that it is the
write path), in Startup a name is given in the behaviours in which no daemon starts (`Idle`), and
in Wallet the decoders are looked at in each state. Each state belongs to one of the two, so that
nothing is hidden by the other.

Why these bounds are enough to meet the cases. Two threads meet at a registered
hash, and a third in another mount shares only the directory: a fourth adds no new
pair. Three blobs are the one kept, the one evicted and one that is evicted by
somebody else. Two reads per thread let the second find what the first left. In ReadShared, where
nothing is evicted, no step reads an mtime and the clock stands still. In ReadBound two reads
of each of two threads fill the cache beyond its limit, have a file written before and renamed after
another's walk, and let two evictions remove and fetch the same file; without its condition on the
mtime a file was found with, or with all files for `since`, EvictsOldestFirst is violated there.
In WriteBuffer three calls are what a write, a spill and a write after the spill
take. In WritePath two handles and one permit make an upload wait, and two names
and two inodes make a name change its owner during an upload. Single-shot attempts are reached
by falling back from multipart, in the same state as directly. Two sessions let
one upload overwrite the file of another, two parts let one be missing. Three
changes over two mounts make a directory, a file in it and one more thing, or
make, restore and remove; three pages of one are two full pages and the request after
the last. In Startup each command line meets one combination of keys,
servers, files and variables, so that every layer is once the first that gives an
option and once not; among the answers of each source are none, an empty or an invalid
one, one that repeats a name, a hash or a tag, and one longer than `max_blobs`; the
civil dates are a leap day, a last of December and a first of January. Two daemons with two
starts are a killed one, the one after it and a neighbour. Two calls of two payers
over two seconds are an old answer, a second request in the same second and in the
next. In Lease three days and a free period of two make a lease run out, be extended, and be
extended too late; two contents make a fetch of one meet an upload of the other. Five
characters are the least in which a component can have dots, a separator
and something on both sides. Symmetry is over threads of one mount, names or blobs that nothing
tells apart, and only in runs without liveness properties.

`CHECK_DEADLOCK FALSE` is set where the instance may stop: all reads made, all
handles used, all mounts done.

Each property of a passing run has in `PROJECT.json` a variant of a definition
(marked "Variant" in the modules) under which TLC finds it violated.

## 4. Fairness

- ReadPath, `WF(LocalStep(t))`: a callback thread that waits for nobody is scheduled. The clients that
  fetch blobs have no timeout (fetch.rs:78, 202), so nothing is assumed of a request, and ReadsReturn
  excuses a reader exactly if a request of its mount for its own blob is never answered: the
  answer to one reader may end another's wait, and a silent server holds up no reader of
  another blob. That a waiter which is woken again and again finds the hash registered each
  time, by readers that keep coming, is not seen with a bounded number of reads: neither the
  mutex nor the condition variable is first come first served. Nothing
  obliges the kernel to issue a read() or anybody to unlink.
- WritePath, `WF(Answered(t))`: `--http-timeout-secs` bounds each request.
  `SF(AcquirePermit(t))`: tokio's semaphore is first come first served.
  `SF(Release)`: the kernel queues a RELEASE until a thread takes it.
- UploadProtocol, `WF(Step(u))`: the same timeout, and the wallet's.
- Daemon, `WF(~AwaitsListing(d) /\ StartStep(d))`: each query to relays has a timeout. The client of
  the listing has none (main.rs:322, client.rs:151), so nothing is assumed of it and StartDecided
  excuses a start whose listing is never answered. `WF(RemoveSocket)` and
  `WF(Bind)`: the runtime runs a spawned task. Nobody has to launch, stop, kill or
  connect to a daemon.
- Wallet, `WF(~AwaitsServer(p) /\ PayStep(p))`: fetch_events waits thirty seconds, an upload's client
  has a timeout (fs.rs:660), tasks are scheduled. The client of an extend command has none
  (main.rs:191): CallsEnd excuses one whose server is never heard of again. The wallet
  and the relay owe no answer.
- Mount, WriteBuffer, FileSize, CacheGauges and Lease have safety properties only.

That every upload ends is part of `ServiceSpec`: UploadService's own fairness says that what was
begun ends, and UploadProtocol under its fairness implements it.

## 5. Proofs

Every theorem holds for all values of the constants under named assumptions, which say
which sets the constants are from (`ReadPathAssumption`, `WriteBufferAssumption` and so on),
and in these modules a little more:

- CacheGauges: a mount has finitely many threads (`ThreadsFinite`);
- Mount: names are sanitised to names, a server has each blob once, WalkDir comes to a
  directory before what is in it (`NameAssumption`, `BlobAssumption`, `RepoAssumption`);
  sanitising twice is sanitising once and leaves the words that main.rs and tree.rs write
  down, and the user works elsewhere than in `/public` and `/git`, which are the drive's own
  (`CleanAssumption`); for ServiceHolds alone, the user's names are ones sanitising does not
  change and none is README.txt at the top, which is the mount's (`UserAssumption`: `mkdir a..b`
  twice makes one path twice, 6.15, so that nothing could be promised of such a name); a blob is known by its hash, and a file's name, `<sha256>.<ext>`, is
  that of no type and no day (`ViewAssumption`); what is in an entry of a repository is in a
  directory, siblings have different names once sanitised, and none at the top is called
  INFO.md (`CheckoutAssumption`; the last two are about the repository and not the code:
  of two entries that get one path, as a repository's own INFO.md and the note
  of the drive do, only the first made is found);
- Daemon: configured servers are URLs of a known scheme, a tag is a sequence of strings
  (`UrlAssumption`, `TagAssumption`); whatever answers does so with a list, servers for every
  public key that a start may ask them for, and `--max-blobs` is a number
  (`AnswerAssumption`, `ListingAssumption`); times are Unix times (`TimeAssumption`);
  sanitising leaves the names main.rs makes in the root (`WordAssumption`); a drive's own event
  is one that an unmount publishes: its names are sanitised, no path is a file and a
  directory, and one path is one string (`SavedAssumption`, for RestoredIsExact alone: it leaves out
  the names of 6.15 and 6.35, of which nothing could be promised; the user's other events of the
  kind are unrestricted, and so is what an event has inside the generated directories);
- Names: lower case stays lower case, `_` takes one byte (`LetterAssumption`);
- Wallet: what is in a CBOR value is a CBOR value (`CborAssumption`);
- Lease: the clock is past the first free period (`LeaseAssumption`).

CacheIsBounded and OneFlight have a hypothesis of their own, named below.

- **Induction.** The library's induction theorems take an operator, which these provers
  cannot instantiate. Here a property is the set of the things that have it, and every
  lemma comes from one of the library's facts without an operator, that < is well founded on
  Nat: a set that has 0 and each successor has all numbers, one that has {} and each
  extension by an element has all finite sets. Recursion says what a function defined by
  recursion over an interval is at each step, Iterates that what one step keeps is kept by all;
  SumOf, a fold over a set, gains by each element its size; Only keeps the elements in order.
- **ReadPathProofs.** `TypeOK /\ VerifiedInv` is inductive: CacheIntegrity alone is
  not, since a thread renames bytes it verified earlier, so VerifiedInv adds what is
  known of `data` at each place of read_content. Hence BytesAreVerified (OnlyVerified).
  NoForgottenWaiter is inductive with the types. OneFlight needs
  FlightInv (a fetching thread is registered and alone) and assumes
  that nothing removes files (`MaxCacheBytes = 0`, no unlink), since the code does not keep
  it otherwise (6.3). OldestFirst (EvictsOldestFirst) needs OrderInv: a file in its place since the walk began is
  still before WalkDir, or is an entry with the mtime it has, or is that of the blob the thread keeps;
  what is written anew or removed leaves `since`. TotalCovers
  (the unsigned total of an eviction never wraps) needs TotalInv: the total is at least the bytes of
  what is still to be visited, which the removals of others only lower. CacheIsBounded needs
  LimitInv: whenever the directory is over its limit, some thread has yet to walk it, or has all
  of it but its own blob still before it and all of it in its total (InHand). A kill of that thread leaves
  the excess to the next eviction, so CacheIsBounded assumes `~MayCrash`. GaugeIsCovering is
  an invariant of two sums over the threads, of what is in place and not yet added and of what
  was removed and not yet subtracted, of which each step moves one thread's part.
  Implementation maps each step to one of BlobService or a stutter.
- **WriteBufferProofs.** BufferInv relates the buffer to the POSIX file: exact in
  memory, exact for forward writers on disk, hash exact for in-order ones; DataIsExact
  follows. SizeIsShown adds to BufferInv, which FileSize's steps keep as they are WriteBuffer's or leave
  it alone, what each of the lengths on their way is: `told` is the buffer's while a write() has not
  told it, `taken` is the buffer's unless `missed`, and `shown` is unless `by` says otherwise.
- **WritePathProofs.** PermitsInv counts permits against threads between acquire and
  release. DataInv strengthens the four data properties with: what a thread is about to
  publish is stored (PublishKept), uploads in flight are of their handle's prefix (Faithful),
  a handle not `flushed` never started (Once), and handles not yet opened are
  empty (Fresh).
- **UploadProtocolProofs.** UploadInv is TypeOK, SessionTruthful and three facts:
  the blob is stored where the code goes on as if it were (StoredInv), a completing
  session has all parts (CompleteInv), and `spent` counts the payment in hand (SpentInv).
  SessionsAreExact follows. Implementation follows from a frame lemma on steps (StepShape).
  Of Lease, ShownIsGranted speaks of the node only; what a step stores there was heard
  from the server earlier. LeaseInv therefore says the same of every answer on its way, of a
  fetch or of the dedup check: it is within the lease, which only grows. A small file's free
  period is within it too; for a dedup hit, whose upload time is 0, because the clock is past the first
  free period (`LeaseAssumption`). Overtaken fetches are left out by `misled` (6.18).
- **WalletProofs.** FreshAnswer needs that a query's `since` is no earlier than the begin of
  its payment, and that no payment was begun later than now; PaidOnce that nothing was sent
  until the request is. DecodersAreExact is about values of any length: After says in one formula
  what the loop over a request's map has after k of its pairs (of each key the last value, or failure), and
  a step of the loop leads from After k to After k + 1. For tokens Sound says of an entry's
  loop that it goes on exactly as long as each pair is Good, that each proof it has stands in the
  entry, and that the keyset proofs were given is the last one so far (KeysetSoFar), which is the
  entry's when none comes late (KeysetIs). Joined proofs of all entries add no proof and lose
  none (TokensAreDecoded); Worth adds up the sums of a token's entries.
- **DaemonProofs.** AloneServed is not inductive: a neighbour in the same directory may do
  anything to the file. SocketInv adds Apart (control tasks of unshared daemons are in
  different directories) and Owned (between removing the old file and binding there is none).
  TypeCorrect adds to the types what each daemon Holds while alive or not. UploadsToTheUsers
  needs ArgsInv, that a started daemon's arguments are the merged options of a line of its plan
  that validated, and ServerInv: a user's first server stays
  first, because what an event or the manifest adds comes after (FoundComeAfter).
  StatusIsTold needs TellInv, which relates what a start has counted to the listings it has
  heard: each builder of Sources is shown to count as much or more than before, whatever
  the source has (the lemmas that end in Grow), and AddServers at least as much as any one
  listing that has no refused blob, so that a listing which was cut reaches the limit
  (ListTells) and stays there through the drives, records and repositories that come after.
  RestoredIsExact adds that whatever the sources answer, the root has only what main.rs makes
  in it (Standing): each builder of Sources works below a node that comes after the root. The
  tags of the event are then applied one by one. After k of them the nodes of the user's
  are exactly the directories on the way to the first k paths (Lanes) and the first file at each
  (Laid), each path once (Bears, from one name to a path, a tag and the loop: LoopAdds), and a path
  inside a generated directory changes none of them. That folder tags and x tags are
  kept in order among all tags, that folder tags make Prefixes and x tags the front of theirs, and
  that the event taken is the first the loop over the answer fits (FetchPersistEvent), gives Structure.
  NamesAreSound is about the sanitisers alone: each loop over characters is unfolded,
  and truncation is shown to leave the longest prefix that fits.
- **MountProofs.** A tree is what recursive functions compute, one entry after another. TypesHold
  shows for a single Add that it keeps the types and TreeShape and that the new tree Grows from
  the old; Iterates carries that over to each builder, restore and walk, and TypeInv
  to every step. ListingIsComplete needs ListedInv: what was on the server from the first page on is
  in `all` or Ahead, behind the cursor, and stays so although blobs come and go between the pages.
  ListingIsWhole needs HandleInv: a listing has returned no entry twice and none that stands behind its
  offset, and all up to the offset unless one was removed meanwhile (Shown); what is added
  stands behind (Grows), what is removed leaves the others in order (DropKeeps).
  PublicIsWhole has two halves. What is built: every descriptor puts its blob into each of
  the three views, and once into by-sha256, because everything get_or_create_dir finds or makes
  there stays in the view it began in (Shape, Presents; DescriptorShows, PublicShows). What
  is left alone afterwards: PublicInv says that the nodes of `/public` stay as they were built
  and that whatever else is in the tree hangs below something else (Spares), that a clone is of a
  directory elsewhere, and that no published path begins with `/public` -- the last is
  needed since the next mount applies those paths to the tree it has just built, and holds because
  collect_persist turns back at `/public` (PublishedElsewhere). The two together with what
  Linked and PathOf are give PublicExact (UnderView).
  RepoIsShown adds the walk. RepoInv says that `/git/repo` is there with a set I of nodes
  below it, closed both ways (Holds: who has a parent in I or the repository is in I), and in which
  of its states: waiting for its first listing or being cloned, with the note alone (Noted), or
  walked, with entry k of the clone as node w + k (Checkout). Only the first listing
  takes the mark, which no step sets again, so that the walk, which is what adds to I, happens
  once; everything else adds Outside (Keeping; KeepsRepo). What is restored stops short
  of the repository (PathStops), since RepoShown is about mounts in which nothing was
  published below it, and published paths are sanitised (PurePublished), so that what is
  restored is found under the name it is looked up by. EntriesShown then follows a path name by name
  (ResolveIs): the entry's parent by induction, and in it no other child of that name.
  ServiceHolds is the refinement of DriveService: every step of Mount is one of its steps on
  DriveOn(tree), the pairs of a path and a content of the nodes whose path begins
  with a name of the user's, or leaves them and SavedBy(event) alone (DriveSteps: Starts, Alters,
  Stops, Rests). DriveInv says that no two linked nodes of the user share a path (Sole),
  that a node is a directory exactly if it has no content and that what is lazy or being cloned is
  below `/git` (Marked), and that the published structure is one: each path has one content and the
  directories above it (Mapped), and a folder tag has none (Folders). Sole needs that
  Lookup finds what is there; FreePath and AddDrive give it to each adder, DropDrive to the removals.
  A round trip loses nothing: collect_persist reaches every node of the user's from the
  root and nothing else that would pass for one (TagsReach, Publishes), and applying the tags makes each
  of them again and no other, folders first or not (PersistedBears, from StepBears for one
  name, PathBears for a path and TagBears for a tag). What the drive itself adds, `/public`, `/git`
  and the walk of a repository, adds nothing of the user's (BuiltBears, WalkBears).

The type invariants of ReadPath, WriteBuffer, WritePath, UploadProtocol, Wallet and
Daemon are proved, so no run repeats them; Mount's is also checked by DriveCycle, with the shape
of the tree in it.

Only model-checked:

- liveness (ReadsReturn, CallsReturn, UploadDecided, StartDecided, CallsEnd, the fair half
  of UploadProtocol's refinement): liveness under fairness and ENABLED are out of the
  prover's reach;
- of Daemon SourcesExact. It says what the loops of Sources make of the answers of seven
  sources, which is only so where no two paths of them are one when
  sanitised (6.15, 6.33, 6.35): the runs have such answers, a theorem would have to
  assume them away source by source (section 8).

## 6. Where code and documentation disagree

Shown by a run (`findings` in `PROJECT.json`): the hash of overwritten data
(BufferHash), data after a dup's close (WriteLate), flags overridden by the
environment and the file (Precedence, 22).

Met while modelling, without a run of their own:

1. A 206 answer is handed out unverified (`read_content`), README.md:40 promises
   verification of everything. WholeBlobVerified excludes that path by name.
2. The Sunset of a 200 answer to a range request is dropped (fs.rs:426), against
   docs/CACHING.md, Source 1.
3. When the file found by the re-check is gone again, the code goes on to download
   without being registered (fs.rs:392), against fs.rs:115. SingleFlight is therefore
   checked and proved without removals.
4. An eviction that works from an old walk removes a path whatever file is there by now
   (object_cache.rs:132), and a file is in its place later than its mtime says (fetch.rs:163-164), so
   that one which arrives after the walk may be older than what is evicted: against README.md:198 (FIFO).
   EvictsOldestFirst is about the files that were in place since the walk began.
5. The length of a spilled buffer is the end of the last write (fs.rs:1442), so
   an overwrite on disk makes the file look shorter; tree.rs:612 says the size is
   for getattr during writes.
6. A flush() whose upload fails gets no second try and no cleanup by release()
   (fs.rs:1473), against docs/design.md:331.
7. release() cleans up after a failed upload by parent and name (fs.rs:846), which may
   be another file by then, against the comment at fs.rs:843.
8. flush() and release() upload while frozen (fs.rs:1470), against fs.rs:118.
9. unlink() during an upload leaves the blob on the server (fs.rs:1237), against
   README.md:107-109.
10. persist_tags publishes every directory and Remote file outside `/public`, not only the
    user's (tree.rs:372, against tree.rs:345-349): `/git/...`, `/nip94/...`. The next mount restores a
    repository's directories into the lazy directory, and the walk adds them again
    behind the restored ones, which are empty: the files are no longer reachable
    (README.md:113 "Each repo exposes its file tree"). TLC finds this in DriveCycle,
    twelve states deep, as soon as `~restored` is dropped from RepoShown.
11. A kill in the middle of a clone leaves a `.git` that clone_repo takes for a whole
    clone for ever (browse.rs:34), against README.md:113.
12. The skip is by text: a user's `/publications` is not published either
    (tree.rs:371), against tree.rs:347-349.
13. When the published structure cannot be fetched, the mount goes on without it and its
    unmount publishes the poorer one (main.rs:598), against the purpose of `--persist`
    in cli.rs:362-364. DriveService has to allow a Start with an empty drive because of it.
14. fetch_persist_event asks for ten events without a filter on the drive's name
    (persist.rs), so with many drives one may not be found, which counts as 13.
15. Names are sanitised when stored and not when looked up: `mkdir a..b` makes `a__b`,
    and a second one makes another. `UserAssumption` leaves such names out of DriveCycle and of
    ServiceHolds; NamesSound is about what the sanitisers do.
16. A server that caps pages below the requested limit ends the listing after
    the first (client.rs:223).
17. `shallow git clone` (README.md:113) is a full clone (browse.rs:44), and a repository's own
    INFO.md or `issues` is shadowed by the generated ones.

Expiry and sizes:

18. A fetch that began before O_TRUNC and a new upload stores the old blob's Sunset on the new
    content (fs.rs:494). `misled` marks it, and ShownIsGranted leaves it out.
19. A dedup hit stores the Sunset announced before the extension and an upload time of 0
    (fs.rs:700), so that a small file without a Sunset shows 1970 plus the free period, against
    docs/CACHING.md, Source 3.
20. ftruncate() is acknowledged and the buffer keeps its bytes (fs.rs:1156): the size shown and
    what is uploaded differ until the next write() or upload. An upload that ends after a write() it did
    not see sets the size back to what it took (fs.rs:697, 803), and what was written since is
    not uploaded (WriteLate). SizeShown leaves both out, until the next write().
21. An overwrite by the write() that crosses the threshold is appended behind the
    old bytes (fs.rs:1429), against docs/design.md:327 "at the given offset". DataExact leaves
    overwrites on disk out.

Configuration:

22. is_explicit finds no argument of two words, as clap's ids have underscores and it is asked
    with hyphens (main.rs:143; a debug build panics). For thirteen options the file and the
    environment therefore override the flags, against README.md:131, :135, :153, :157 and
    contrib/blossomfs.toml.example:4. FlagsOverride states what README.md:131 says and is violated
    (Precedence). That the environment goes before the file, also where both go before a flag, is in
    the model; no property repeats it.
23. A `--config` file that does not exist counts as an empty one (config.rs:82), against
    README.md:366.
24. A list variable such as BLOSSOMFS_SERVER without brackets is a start-up error, against README.md:157
    ("any config field"). Eight flags besides `--config`
    are no config field (`--persist`, `--max-blobs`, `--daemon` and others), against README.md:131,
    which excepts two.
25. validate_args accepts 64 hexadecimal digits as `--npub` (config.rs:194), parse_npub drops
    them: the mount lists `all`.
26. `--server` alone is refused (config.rs:188), against README.md:203.
27. `--max-write-mb` is 1024 by default (cli.rs:332), against README.md:194 and docs/CACHING.md:179.

Start-up, sources and sockets:

28. Two daemons on one cache directory take each other's socket: the second unlinks the first's
    (control.rs:43), and whichever ends first removes the other's (main.rs:719). AloneServed speaks of
    daemons that are alone. A failed mount2 and a kill leave the file.
29. systemd is told READY before mount2 is called (main.rs:690). With `Type=simple`
    (contrib/blossomfs@.service) nobody listens.
30. Directories are named by hexadecimal keys, against docs/design.md:139 (npub).
31. "capped" in STATUS.txt compares the sum over all sources with the limit of each listing, and
    counts no descriptor that was refused: it is told too often, and missed when
    refused descriptors fill a page. CappedTold states the half that holds.
32. STATUS.txt says that it is "regenerated on each read" (vfiles.rs:107) and is made once, at the start;
    Sunsets heard later never get there, against docs/CACHING.md:147-148.
33. Servers on one host with different ports share a directory, as do drives of one id; their
    files lie side by side under the same names, and lookup finds the first. So do cover letters and
    metadata records of one name.
34. An `x` tag whose path ends in a slash makes the directories and no file.
35. A drive's or persisted path with `..` in it is looked up raw and made sanitised
    (tree.rs:658), so that each entry under it makes the directory again, as in 15.

Payment, names and metrics:

36. The wallet's answer to another request of the same second is taken for this one's
    (nwc.rs:213): requests and answers are matched by time alone. FreshAnswer states what that leaves.
37. The token strategy sends the same token for every 402, whatever the request says
    (token.rs:39): decoding only logs.
38. sanitize_hostname cuts at 255 bytes and panics inside a character of several
    (path.rs:50). Names has it as `Panic`, which NamesSound leaves out.
39. "Current cache size in bytes" (metrics.rs:41) may tell too much, after an unlink or
    another mount's eviction, and too little while a file is in its place and not yet added
    (fetch.rs:164, 166). GaugeCovers states that with what is on its way to it, it never tells too little.
40. docs/CACHING.md, Known Limitations 1 and 4: there is eviction, and there are
    range requests.
41. The proofs of an entry of a token that come before its keyset id get an empty one
    (cbor.rs:227), although CBOR maps have no order. CashubExact leaves their ids out by name (LateKeyset).
42. A blob server that accepts and stays silent holds up for ever: a read() and all that wait for
    the same blob in its mount, a start that lists it, an extend command. `BlossomClient::new` is documented as
    "without a timeout (for tests and CLI commands)" (client.rs:151) and is used by run_mount too.
43. A lone `.` passes sanitize_path_component, and makes a name for which the kernel asks no file system.
    IsName accepts it.

## 7. What is left out

Not modelled, because nothing reaches it: `upload_blob`, `mirror_blob`, `get_blob`, `head_blob` and
`upload_blob_multipart` of `client.rs`, called by tests only; `InodeAllocator` (`fuse/inode.rs`), since the
tree numbers its nodes; `TokenStrategy::from_file`, since main.rs reads the file itself.

Not modelled, because it keeps no state that two steps could disagree about: signing and
encoding (auth headers, Bech32, Base64, the bytes of CBOR); parsing of JSON, TOML
and the command line; the text of README.txt, STATUS.txt, INFO.md, issues and
patches; MIME tables; listxattr, statfs, access; logging; counters that are only
increased, and the HTTP endpoint that prints them.

Abstracted inside the modules: the auth header, valid for an hour and used for all parts of a
multipart upload (client.rs:743), whose refusal is a refused part; panics on a full disk or a
poisoned lock, which are a kill; several contents in UploadProtocol, which never meet; multipart
without a cache directory, which has no session file to go wrong; the server's clock.

What remains of the code is tests, formatting and the above. `PROJECT.json` lists each
component with its reason, and each hazard of the code with the properties that watch it; four
hazards have none, with the reason: release()'s cleanup by name (6.7), a Sunset dropped or stored on
another blob's content (6.2, 6.18), one blob
of two files (`unlink` of one deletes it for both), and a `.git` left by a kill (6.11). The
code does go wrong in each, so that a property that covers one would be a
finding, and documents say too little to quote.

## 8. Plan

What could still be added, in this order.

1. Theorems: in Daemon SourcesExact, for answers whose paths stay apart.
2. Mount: several repositories and lazy directories that overlap in time; unlink in `/public`.
3. Wallet as the abstract specification of UploadProtocol's one payment step.

A new run has to share a configuration with an existing one, or replace one whose
question it answers too: the set of runs is meant to stay this small.
