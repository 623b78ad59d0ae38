------------------------------ MODULE WritePath ------------------------------
(***************************************************************************)
(* The write path of one read-write mount (src/src/fuse/fs.rs): create,    *)
(* open, write, flush, release and unlink of the files of one directory,   *)
(* do_upload with its dedup check, preflight and PUT, the semaphore of     *)
(* concurrent uploads, and the freeze switch of the control socket.        *)
(*                                                                         *)
(* Several FUSE threads serve calls at once and hold no lock while they    *)
(* wait for the server.  Calls that take one lock section are one action;  *)
(* the others keep their place in pc.  A handle's data is a sequence of    *)
(* appended chunks (WriteBuffer models offsets and the spill), and stands  *)
(* for its SHA-256.  The kernel serialises create and unlink in one        *)
(* directory, and sends RELEASE once, after the last reference is gone.    *)
(***************************************************************************)
EXTENDS Naturals, Sequences, FiniteSets

CONSTANTS
  Names,       \* the names in the directory
  NoName,      \* the empty name a handle of open() has
  Threads,     \* FUSE threads that may wait for the server
  Chunks,      \* what one write() appends
  OnServer,    \* blobs the server has at the mount
  Permits,     \* the permits of upload_sem
  MaxInodes,   \* bound: files created
  MaxHandles,  \* bound: writable handles
  MaxLen,      \* bound: chunks per handle
  MaxRefs,     \* bound: descriptors of one handle
  MaxMaps      \* bound: mappings of one handle

Contents == Seq(Chunks)

ASSUME WritePathAssumption ==
  /\ NoName \notin Names
  /\ IsFiniteSet(Threads)
  /\ OnServer \subseteq Contents
  /\ Permits \in Nat \ {0}
  /\ MaxInodes \in Nat
  /\ MaxHandles \in Nat
  /\ MaxLen \in Nat
  /\ MaxRefs \in Nat \ {0}
  /\ MaxMaps \in Nat

NoFile  == 0
Inodes  == 1 .. MaxInodes
Handles == 1 .. MaxHandles

VARIABLES
  frozen,   \* the flag the control socket sets
  dir,      \* the directory: name -> inode
  node,     \* tree nodes: Remote or Static, with the hash of a Remote one
  nextIno,
  nextFh,
  open,     \* the handles in write_state
  buf,      \* their WriteBuffers; those of released handles stay for reference
  fds,      \* kernel: descriptors of each handle
  maps,     \* kernel: writable mappings of each handle
  server,   \* the blobs the server has
  permits,  \* free permits of upload_sem
  pc, call, \* what each thread is doing, and for whom
  \* observations
  late,     \* handles written to after flush() took their data
  outcome,  \* how the last upload of each handle ended
  starts,   \* uploads started for each handle
  deleted   \* blobs unlink() asked the server to delete

kernel == <<fds, maps>>
seen   == <<late, outcome, starts, deleted>>
vars   == <<frozen, dir, node, nextIno, nextFh, open, buf, kernel, server,
            permits, pc, call, seen>>

Static    == [remote |-> FALSE, hash |-> <<>>]
Remote(h) == [remote |-> TRUE, hash |-> h]
NoBuffer  == [ino |-> NoFile, name |-> NoName, data |-> <<>>, flushed |-> FALSE]
NoCall    == [op |-> "none", fh |-> 0, ino |-> NoFile, name |-> NoName, data |-> <<>>]

Holding == {"head", "preflight", "put", "publish", "failed"}
PCs     == Holding \union {"idle", "permit", "delete", "remove"}

Init ==
  /\ frozen = FALSE
  /\ dir = [n \in Names |-> NoFile]
  /\ node = [i \in Inodes |-> Static]
  /\ nextIno = 1 /\ nextFh = 1
  /\ open = {} /\ buf = [fh \in Handles |-> NoBuffer]
  /\ fds = [fh \in Handles |-> 0] /\ maps = [fh \in Handles |-> 0]
  /\ server = OnServer
  /\ permits = Permits
  /\ pc = [t \in Threads |-> "idle"] /\ call = [t \in Threads |-> NoCall]
  /\ late = {} /\ deleted = {}
  /\ outcome = [fh \in Handles |-> "none"]
  /\ starts = [fh \in Handles |-> 0]

-----------------------------------------------------------------------------
(* The control socket.                                                     *)

\* {"cmd":"freeze"} and {"cmd":"unfreeze"}
SetFrozen(b) ==
  /\ frozen' = b
  /\ UNCHANGED <<dir, node, nextIno, nextFh, open, buf, kernel, server, permits,
                 pc, call, seen>>

-----------------------------------------------------------------------------
(* Calls that finish in one step.                                          *)

\* The kernel holds the directory while it waits for an unlink.
DirectoryFree == \A t \in Threads : pc[t] \notin {"delete", "remove"}

\* A new WriteBuffer under the next handle number.
NewHandle(i, n) ==
  /\ nextFh \in Handles
  /\ nextFh' = nextFh + 1
  /\ open' = open \union {nextFh}
  /\ buf' = [buf EXCEPT ![nextFh] =
               [ino |-> i, name |-> n, data |-> <<>>, flushed |-> FALSE]]
  /\ fds' = [fds EXCEPT ![nextFh] = 1]

\* create() of a new name.
CreateNew(n) ==
  /\ ~frozen /\ DirectoryFree
  /\ dir[n] = NoFile /\ nextIno \in Inodes
  /\ dir' = [dir EXCEPT ![n] = nextIno]
  /\ nextIno' = nextIno + 1
  /\ NewHandle(nextIno, n)
  /\ UNCHANGED <<frozen, node, maps, server, permits, pc, call, seen>>

\* create() with O_TRUNC of a name that is there.
CreateTrunc(n) ==
  /\ ~frozen /\ DirectoryFree
  /\ dir[n] # NoFile
  /\ node' = [node EXCEPT ![dir[n]] = Static]
  /\ NewHandle(dir[n], n)
  /\ UNCHANGED <<frozen, dir, nextIno, maps, server, permits, pc, call, seen>>

\* open() for writing: only a Static file, which is still empty; EACCES for a
\* Remote one, and a handle that cannot write while frozen.
Open(n) ==
  /\ ~frozen
  /\ dir[n] # NoFile /\ ~node[dir[n]].remote
  /\ NewHandle(dir[n], NoName)
  /\ UNCHANGED <<frozen, dir, node, nextIno, maps, server, permits, pc, call, seen>>

\* write() at the end of the file, through a descriptor or a mapping.
Write(fh, c) ==
  /\ ~frozen
  /\ fh \in open /\ fds[fh] + maps[fh] > 0
  /\ Len(buf[fh].data) < MaxLen
  /\ buf' = [buf EXCEPT ![fh].data = Append(@, c)]
  /\ late' = IF buf[fh].flushed THEN late \union {fh} ELSE late
  /\ UNCHANGED <<frozen, dir, node, nextIno, nextFh, open, kernel, server, permits,
                 pc, call, outcome, starts, deleted>>

\* The kernel alone: dup() or fork(), mmap() and munmap().
Dup(fh) ==
  /\ fds[fh] \in 1 .. (MaxRefs - 1)
  /\ fds' = [fds EXCEPT ![fh] = @ + 1]
  /\ UNCHANGED <<frozen, dir, node, nextIno, nextFh, open, buf, maps, server,
                 permits, pc, call, seen>>

Map(fh) ==
  /\ fds[fh] > 0 /\ maps[fh] < MaxMaps
  /\ maps' = [maps EXCEPT ![fh] = @ + 1]
  /\ UNCHANGED <<frozen, dir, node, nextIno, nextFh, open, buf, fds, server,
                 permits, pc, call, seen>>

Unmap(fh) ==
  /\ maps[fh] > 0
  /\ maps' = [maps EXCEPT ![fh] = @ - 1]
  /\ UNCHANGED <<frozen, dir, node, nextIno, nextFh, open, buf, fds, server,
                 permits, pc, call, seen>>

-----------------------------------------------------------------------------
(* flush(), release() and do_upload().                                     *)

ToUpload(fh) == ~buf[fh].flushed /\ buf[fh].data # <<>>

\* do_upload(ino, data, hash) is entered by thread t.
StartUpload(t, fh, op) ==
  /\ pc' = [pc EXCEPT ![t] = "permit"]
  /\ call' = [call EXCEPT ![t] = [op |-> op, fh |-> fh, ino |-> buf[fh].ino,
                                  name |-> buf[fh].name, data |-> buf[fh].data]]
  /\ starts' = [starts EXCEPT ![fh] = @ + 1]

\* Variant: the buffer is not marked.
FlushUnmarked(t, fh) ==
  /\ pc[t] = "idle"
  /\ fds[fh] > 0
  /\ fds' = [fds EXCEPT ![fh] = @ - 1]
  /\ IF fh \in open /\ ToUpload(fh)
     THEN StartUpload(t, fh, "flush")
     ELSE UNCHANGED <<pc, call, starts>>
  /\ UNCHANGED <<frozen, dir, node, nextIno, nextFh, open, buf, maps, server,
                 permits, late, outcome, deleted>>

\* close() of a descriptor: flush() marks the buffer and takes its data, in
\* one lock section.
Flush(t, fh) ==
  /\ pc[t] = "idle"
  /\ fds[fh] > 0
  /\ fds' = [fds EXCEPT ![fh] = @ - 1]
  /\ IF fh \in open /\ ToUpload(fh)
     THEN /\ buf' = [buf EXCEPT ![fh].flushed = TRUE]
          /\ StartUpload(t, fh, "flush")
     ELSE UNCHANGED <<buf, pc, call, starts>>
  /\ UNCHANGED <<frozen, dir, node, nextIno, nextFh, open, maps, server, permits,
                 late, outcome, deleted>>

\* Variant: no fallback upload.
ReleaseDrops(t, fh) ==
  /\ pc[t] = "idle"
  /\ fh \in open /\ fds[fh] + maps[fh] = 0
  /\ \A u \in Threads : pc[u] # "idle" => call[u].fh # fh
  /\ open' = open \ {fh}
  /\ UNCHANGED <<frozen, dir, node, nextIno, nextFh, buf, kernel, server, permits,
                 pc, call, seen>>

\* The last reference is gone: release() drops the buffer, and uploads what no
\* flush() has taken.
Release(t, fh) ==
  /\ pc[t] = "idle"
  /\ fh \in open /\ fds[fh] + maps[fh] = 0
  /\ \A u \in Threads : pc[u] # "idle" => call[u].fh # fh
  /\ open' = open \ {fh}
  /\ IF ToUpload(fh) THEN StartUpload(t, fh, "release")
                     ELSE UNCHANGED <<pc, call, starts>>
  /\ UNCHANGED <<frozen, dir, node, nextIno, nextFh, buf, kernel, server, permits,
                 late, outcome, deleted>>

Goto(t, here, there) ==
  /\ pc[t] = here
  /\ pc' = [pc EXCEPT ![t] = there]
  /\ UNCHANGED <<frozen, dir, node, nextIno, nextFh, open, buf, kernel, call, seen>>

\* upload_sem.acquire()
AcquirePermit(t) ==
  /\ permits > 0
  /\ Goto(t, "permit", "head")
  /\ permits' = permits - 1
  /\ UNCHANGED server

\* HEAD finds the blob: nothing to upload.
HeadExists(t) ==
  /\ call[t].data \in server
  /\ Goto(t, "head", "publish")
  /\ UNCHANGED <<permits, server>>

\* Variant: a failed HEAD is taken for a blob that is there.
HeadErrorIsHit(t) ==
  /\ Goto(t, "head", "publish")
  /\ UNCHANGED <<permits, server>>

\* HEAD says there is none, or fails.
HeadMisses(t) ==
  /\ Goto(t, "head", "preflight")
  /\ UNCHANGED <<permits, server>>

PreflightPasses(t) ==
  /\ Goto(t, "preflight", "put")
  /\ UNCHANGED <<permits, server>>

\* HTTP 413, 415 or 429.
PreflightRejects(t) ==
  /\ Goto(t, "preflight", "failed")
  /\ UNCHANGED <<permits, server>>

\* Multipart or single-shot, with all its attempts: the blob is stored ...
PutStores(t) ==
  /\ server' = server \union {call[t].data}
  /\ Goto(t, "put", "publish")
  /\ UNCHANGED permits

\* ... or stored but every answer lost ...
PutLost(t) ==
  /\ server' = server \union {call[t].data}
  /\ Goto(t, "put", "failed")
  /\ UNCHANGED permits

\* Variant: the error of the last attempt is ignored.
PutErrorIgnored(t) ==
  /\ Goto(t, "put", "publish")
  /\ UNCHANGED <<permits, server>>

\* ... or not stored.
PutFails(t) ==
  /\ Goto(t, "put", "failed")
  /\ UNCHANGED <<permits, server>>

\* Variant: the permit is kept.
ReturnKeepsPermit(t, how) ==
  /\ pc' = [pc EXCEPT ![t] = "idle"]
  /\ call' = [call EXCEPT ![t] = NoCall]
  /\ permits' = permits
  /\ outcome' = [outcome EXCEPT ![call[t].fh] = how]

\* The call of thread t returns, and its permit with it.
Return(t, how) ==
  /\ pc' = [pc EXCEPT ![t] = "idle"]
  /\ call' = [call EXCEPT ![t] = NoCall]
  /\ permits' = permits + 1
  /\ outcome' = [outcome EXCEPT ![call[t].fh] = how]

\* Variant: the node is found by its name.
PublishByName(t) ==
  LET i == IF call[t].name \in Names /\ dir[call[t].name] # NoFile
           THEN dir[call[t].name] ELSE call[t].ino IN
  /\ pc[t] = "publish"
  /\ node' = [node EXCEPT ![i] = Remote(call[t].data)]
  /\ Return(t, "stored")
  /\ UNCHANGED <<frozen, dir, nextIno, nextFh, open, buf, kernel, server, late,
                 starts, deleted>>

\* The node becomes Remote.
Publish(t) ==
  /\ pc[t] = "publish"
  /\ node' = [node EXCEPT ![call[t].ino] = Remote(call[t].data)]
  /\ Return(t, "stored")
  /\ UNCHANGED <<frozen, dir, nextIno, nextFh, open, buf, kernel, server, late,
                 starts, deleted>>

\* flush() reports EIO; release() takes the file out of the directory, by the
\* name the buffer was created under.
Fail(t) ==
  LET name == call[t].name IN
  /\ pc[t] = "failed"
  /\ dir' = IF call[t].op = "release" /\ name \in Names
            THEN [dir EXCEPT ![name] = NoFile] ELSE dir
  /\ Return(t, IF call[t].op = "release" THEN "dropped" ELSE "eio")
  /\ UNCHANGED <<frozen, node, nextIno, nextFh, open, buf, kernel, server, late,
                 starts, deleted>>

-----------------------------------------------------------------------------
(* unlink().                                                               *)

\* The node is looked up under the read lock, which is then given up.
Unlink(t, n) ==
  /\ pc[t] = "idle" /\ ~frozen /\ DirectoryFree
  /\ dir[n] # NoFile
  /\ pc' = [pc EXCEPT ![t] = IF node[dir[n]].remote THEN "delete" ELSE "remove"]
  /\ call' = [call EXCEPT ![t] = [op |-> "unlink", fh |-> 0, ino |-> dir[n],
                                  name |-> n, data |-> node[dir[n]].hash]]
  /\ UNCHANGED <<frozen, dir, node, nextIno, nextFh, open, buf, kernel, server,
                 permits, seen>>

\* The DELETE request is obeyed, or fails and is only logged.
DeleteBlob(t) ==
  /\ pc[t] = "delete"
  /\ server' \in {server, server \ {call[t].data}}
  /\ deleted' = deleted \union {call[t].data}
  /\ pc' = [pc EXCEPT ![t] = "remove"]
  /\ UNCHANGED <<frozen, dir, node, nextIno, nextFh, open, buf, kernel, permits,
                 call, late, outcome, starts>>

\* The name goes, whatever it stands for by now.
Remove(t) ==
  /\ pc[t] = "remove"
  /\ dir' = [dir EXCEPT ![call[t].name] = NoFile]
  /\ pc' = [pc EXCEPT ![t] = "idle"]
  /\ call' = [call EXCEPT ![t] = NoCall]
  /\ UNCHANGED <<frozen, node, nextIno, nextFh, open, buf, kernel, server, permits,
                 seen>>

-----------------------------------------------------------------------------
Answered(t) ==
  \/ HeadExists(t) \/ HeadMisses(t)
  \/ PreflightPasses(t) \/ PreflightRejects(t)
  \/ PutStores(t) \/ PutLost(t) \/ PutFails(t)
  \/ Publish(t) \/ Fail(t)
  \/ DeleteBlob(t) \/ Remove(t)

Next ==
  \/ \E b \in BOOLEAN : SetFrozen(b)
  \/ \E n \in Names : CreateNew(n) \/ CreateTrunc(n) \/ Open(n)
  \/ \E fh \in Handles : Dup(fh) \/ Map(fh) \/ Unmap(fh)
  \/ \E fh \in Handles, c \in Chunks : Write(fh, c)
  \/ \E t \in Threads, fh \in Handles : Flush(t, fh) \/ Release(t, fh)
  \/ \E t \in Threads, n \in Names : Unlink(t, n)
  \/ \E t \in Threads : AcquirePermit(t) \/ Answered(t)

Spec == Init /\ [][Next]_vars

\* Requests end within --http-timeout-secs, upload_sem is first come first
\* served, and the kernel keeps a queue of the RELEASEs it owes.
Fairness ==
  /\ \A t \in Threads : WF_vars(Answered(t)) /\ SF_vars(AcquirePermit(t))
  /\ \A fh \in Handles : SF_vars(\E t \in Threads : Release(t, fh))

FairSpec == Spec /\ Fairness

-----------------------------------------------------------------------------
CallOps == {"none", "flush", "release", "unlink"}
Calls   == [op : CallOps, fh : Handles \union {0}, ino : Inodes \union {NoFile},
            name : Names \union {NoName}, data : Contents]
Buffers == [ino : Inodes \union {NoFile}, name : Names \union {NoName},
            data : Contents, flushed : BOOLEAN]

\* Handle and inode numbers are in step with what was created, and the free
\* permits are a number of permits.
TypeOK ==
  /\ frozen \in BOOLEAN
  /\ dir \in [Names -> Inodes \union {NoFile}]
  /\ node \in [Inodes -> [remote : BOOLEAN, hash : Contents]]
  /\ nextIno \in 1 .. (MaxInodes + 1)
  /\ nextFh \in 1 .. (MaxHandles + 1)
  /\ open \in SUBSET Handles
  /\ buf \in [Handles -> Buffers]
  /\ fds \in [Handles -> Nat]
  /\ maps \in [Handles -> Nat]
  /\ server \in SUBSET Contents
  /\ permits \in 0 .. Permits
  /\ pc \in [Threads -> PCs]
  /\ call \in [Threads -> Calls]
  /\ late \in SUBSET Handles
  /\ outcome \in [Handles -> {"none", "stored", "eio", "dropped"}]
  /\ starts \in [Handles -> Nat]
  /\ deleted \in SUBSET Contents

Holders == {t \in Threads : pc[t] \in Holding}

\* However uploads end, upload_sem has its permits back: none is lost on an
\* error path and none is returned twice.
PermitsExact == permits + Cardinality(Holders) = Permits

\* The server has the blob, unless unlink() had it deleted.
Kept(h) == h \in server \union deleted

\* A file is shown as Remote only when the server has its blob: found by the
\* dedup check or answered to a PUT, never on a request that failed.
RemoteIsStored == \A i \in Inodes : node[i].remote => Kept(node[i].hash)

\* When the upload of a handle ended well and nothing was written after it
\* took the data, all that was ever written to the handle is on the server.
StoredIsAll ==
  \A fh \in Handles :
    outcome[fh] = "stored" /\ fh \notin late => Kept(buf[fh].data)

\* One close() of many, of any of dup'ed descriptors, or the release() that
\* follows, uploads: none starts the upload of a handle a second time.
UploadedOnce == \A fh \in Handles : starts[fh] <= 1

IsPrefix(s, u) == Len(s) <= Len(u) /\ s = SubSeq(u, 1, Len(s))

\* A Remote file shows what was written to a handle of that very file, however
\* names were removed and given to other files during the upload.
OwnContent ==
  \A i \in Inodes :
    node[i].remote =>
      \E fh \in Handles : buf[fh].ino = i /\ IsPrefix(node[i].hash, buf[fh].data)

\* No call hangs: upload_sem is always handed on.
CallsReturn ==
  \A t \in Threads : pc[t] # "idle" ~> pc[t] = "idle"

\* A handle that was written to and given up is uploaded, or its upload fails,
\* even if no close() saw the data (it came through a mapping).
UploadDecided ==
  \A fh \in Handles :
    buf[fh].data # <<>> /\ fds[fh] + maps[fh] = 0 ~> outcome[fh] # "none"

(* What the documentation claims and the code does not do.                 *)

Released(fh) ==
  /\ fh < nextFh /\ fh \notin open
  /\ \A t \in Threads : call[t].fh # fh

\* README.md:107: "BlossomFS uploads the content on close".
ContentUploaded ==
  \A fh \in Handles :
    Released(fh) /\ outcome[fh] = "stored" => Kept(buf[fh].data)
=============================================================================
