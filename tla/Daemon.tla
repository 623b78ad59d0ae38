------------------------------- MODULE Daemon -------------------------------
(***************************************************************************)
(* Mount processes from their command line to their end: main() and        *)
(* run_mount of src/src/main.rs, and the control socket                    *)
(* (src/src/control.rs) that every one of them binds in its cache          *)
(* directory.  Config makes the arguments, Sources the tree.               *)
(*                                                                         *)
(* A process goes through its start-up alone; the sockets, one per cache   *)
(* directory, are shared.  What happens in the mounted file system is in   *)
(* Mount, ReadPath and WritePath.                                          *)
(***************************************************************************)
EXTENDS Config, Sources, FiniteSets

CONSTANTS
  Daemons,
  Plans,          \* sets of [Daemons -> sets of command lines], one for each
                  \* behaviour: a line has its flags, environment and file, and
                  \* whether the mountpoint exists
  Manifests,      \* what --manifest may hold, as answers
  ServerEvents,   \* answers to the query for servers: their tags
  Listings,       \* [public keys -> [URLs -> answers]]
  DriveEvents, MetaEvents, RepoEvents, IssueEvents, SavedEvents,
  Now,            \* the time of the start
  MaxLaunches     \* bound: starts of each daemon

ASSUME DaemonAssumption == MaxLaunches \in Nat /\ PersistLimit \in Nat

\* Whoever writes servers down writes URLs.
ASSUME UrlAssumption ==
  /\ \A u \in DOMAIN Scheme : Scheme[u] = "http" => u \in WebUrls
  /\ \A p \in Plans, d \in Daemons : \A l \in p[d] :
       Extracts(l.file, l.env) => LoadMerged(l.flags, l.file, l.env).server \in Seq(DOMAIN Scheme)

\* A tag is a sequence of strings.
ASSUME TagAssumption == \A a \in ServerEvents : a.is \in Seq(Seq(STRING))

\* What has come is a list, of what a manifest has, of tags or of events.
IsList(s) == s \in Seq(Range(s))
Listed(answers) == \A a \in answers : IsList(a.is)
ASSUME AnswerAssumption ==
  /\ Listed(Manifests) /\ Listed(DriveEvents) /\ Listed(MetaEvents)
  /\ Listed(RepoEvents) /\ Listed(IssueEvents)
  /\ \A a \in Manifests : Range(a.is) \subseteq DOMAIN Desc
  /\ \A a \in DriveEvents : \A k \in DOMAIN a.is :
       /\ IsList(a.is[k])
       /\ \A g \in Range(a.is[k]) : IsEntry(g) => IsList(IF g[1] = "x" THEN g[3] ELSE g[2])

\* Every server answers for every public key, with a list if at all; the limit of
\* one is a number.
IsAnswer(a) ==
  a = [ok |-> a.ok, is |-> a.is] /\ IsList(a.is) /\ Range(a.is) \subseteq DOMAIN Desc
ASSUME ListingAssumption ==
  \A p \in Plans, d \in Daemons : \A l \in p[d] :
    LET a == LoadMerged(l.flags, l.file, l.env) IN
    Extracts(l.file, l.env) =>
      /\ IsList(a.npub) /\ IsList(a.pubkey) /\ a.max_blobs \in Nat
      /\ \A list \in Listings : \A pk \in Range(Pubkeys(PubkeyHexes(a))) :
           \A u \in WebUrls : IsAnswer(list[pk][u])

\* What main.rs makes in the root, with names that sanitising leaves.
Generated == {"public", "drives", "metadata", "nip94", "tollgate", "git", "README.txt",
              "STATUS.txt"}
ASSUME WordAssumption == \A w \in Generated : San[w] = w

\* The directories and files that an event of the drive has beside these.
TagPairs(e)      == {<<e[k][1], e[k][2]>> : k \in {j \in DOMAIN e : Len(e[j]) >= 2}}
FolderTags(e) == {k \in DOMAIN e : Len(e[k]) >= 2 /\ e[k][1] = "folder"}
XTags(e)      == {k \in DOMAIN e : Len(e[k]) >= 4 /\ e[k][1] = "x"}
Ways(e) == {Named(e[k][2]) : k \in FolderTags(e)} \union {Named(Front(e[k][3])) : k \in XTags(e)}
Beside(p) == p # <<>> /\ p[1] \notin Generated
SavedDirs(e) == {p \in UNION {Prefixes(w) : w \in Ways(e)} : Beside(p)}
FileTags(e)  == {k \in XTags(e) : Last(e[k][3]) # "" /\ Beside(Named(e[k][3]))}

\* What has not come has no events.  A mount publishes what is in its tree: names that
\* are sanitised, and no path as a file and as a directory.
ASSUME SavedAssumption ==
  \A a \in SavedEvents :
    /\ IsList(a.is) /\ (a.ok \/ a.is = <<>>)
    /\ \A e \in Range(a.is) :
         /\ IsList(e) /\ \A k \in DOMAIN e : Len(e[k]) \in Nat
         /\ <<"l", "blossomfs">> \in TagPairs(e) =>
              LET path(k) == Named(e[k][3]) IN
              /\ \A k \in FolderTags(e) : IsList(e[k][2])
              /\ \A k \in XTags(e) : IsList(e[k][3]) /\ e[k][3] # <<>>
              /\ \A p \in SavedDirs(e) \union {path(k) : k \in FileTags(e)} :
                   \A j \in DOMAIN p : San[p[j]] = p[j]
              /\ \A j, k \in FileTags(e) :
                   /\ path(j) \notin SavedDirs(e)
                   /\ path(j) = path(k) => e[j][3] = e[k][3]

\* Times are Unix times, a day is year, month and day.
ASSUME TimeAssumption ==
  /\ Now \in Nat
  /\ \A b \in DOMAIN Desc : Desc[b].ends \in Nat /\ IsList(DayOf[b])

VARIABLES
  plan,      \* the command lines of this behaviour
  phase,     \* where run_mount is
  launch,    \* the command line
  args,      \* MountArgs, once merged
  servers,   \* effective_servers
  built,     \* the tree and blob_count
  heard,     \* observation: the answers so far
  keys,      \* whether the secret key was read
  pays,      \* the payment strategy: none, token, nwc
  rw,        \* mounted read-write
  \* control socket
  task,      \* run_control_socket: none, spawned, unlinked, bound, dead
  frozen,
  sock,      \* [cache directories -> who bound the socket file there]
  client,    \* the daemon a client is connected to, or Nobody
  shared,    \* observation: another daemon had the cache directory meanwhile
  starts

startVars == <<launch, args, servers, built, heard, keys, pays>>
sockVars  == <<frozen, sock, client>>
vars == <<plan, phase, startVars, rw, task, sockVars, shared, starts>>

Nobody  == "nobody"
NoArgs  == [cache_dir |-> Unset]
NoTree  == [tree |-> <<>>, count |-> 0]
NoLaunch == [flags |-> <<>>, env |-> <<>>, file |-> NoFile, exists |-> TRUE]
Unheard == [n \in {"servers", "manifest", "drives", "meta", "repos", "issues", "saved"} |->
              NoAnswer]
NoHeard == [answers |-> Unheard, listings |-> <<>>]

Off == {"off"}
Alive(d) == phase[d] \notin Off
DirOf(d) == args[d].cache_dir
Dirs == {LoadMerged(l.flags, l.file, l.env).cache_dir :
           l \in UNION {p[d] : p \in Plans, d \in Daemons}}

Init ==
  /\ plan \in Plans
  /\ phase = [d \in Daemons |-> "off"]
  /\ launch = [d \in Daemons |-> NoLaunch]
  /\ args = [d \in Daemons |-> NoArgs]
  /\ servers = [d \in Daemons |-> <<>>]
  /\ built = [d \in Daemons |-> NoTree]
  /\ heard = [d \in Daemons |-> NoHeard]
  /\ keys = [d \in Daemons |-> FALSE]
  /\ pays = [d \in Daemons |-> "none"]
  /\ rw = [d \in Daemons |-> FALSE]
  /\ task = [d \in Daemons |-> "none"]
  /\ frozen = [d \in Daemons |-> FALSE]
  /\ sock = [c \in Dirs |-> Nobody]
  /\ client = Nobody
  /\ shared = [d \in Daemons |-> FALSE]
  /\ starts = [d \in Daemons |-> 0]

-----------------------------------------------------------------------------
(* Start-up.                                                               *)

Goto(d, p) == phase' = [phase EXCEPT ![d] = p]

\* run_mount begins with validate_args, and the mountpoint must exist.
Accepted(l, a) == Valid(a) /\ l.exists

\* main: load_merged, the fork of --daemon, run_mount.  Any of them failing is
\* the end.
Launch(d, l) ==
  LET a == LoadMerged(l.flags, l.file, l.env) IN
  /\ phase[d] = "off" /\ starts[d] < MaxLaunches
  /\ starts' = [starts EXCEPT ![d] = @ + 1]
  /\ \E forked \in IF a.daemon THEN BOOLEAN ELSE {TRUE} :
     IF Extracts(l.file, l.env) /\ forked /\ Accepted(l, a)
     THEN /\ Goto(d, "servers")
          /\ launch' = [launch EXCEPT ![d] = l]
          /\ args' = [args EXCEPT ![d] = a]
          /\ servers' = [servers EXCEPT ![d] = a.server]
          /\ built' = [built EXCEPT ![d] = Empty]
          /\ heard' = [heard EXCEPT ![d] = NoHeard]
     ELSE UNCHANGED <<phase, launch, args, servers, built, heard>>
  /\ UNCHANGED <<keys, pays, rw, task, sockVars, shared>>

Keys(d) == PubkeyHexes(args[d])

\* A source is asked if its conditions hold, and its answer noted.
Hears(d, what, a) == heard' = [heard EXCEPT ![d].answers[what] = a]
Builds(d, b) == built' = [built EXCEPT ![d] = b]

Asks(d) == args[d].relay # <<>> /\ Keys(d) # <<>>

\* Servers from the relays, and /public if there is something to put there.
Discover(d) ==
  /\ phase[d] = "servers"
  /\ Goto(d, "manifest")
  /\ \E a \in IF Asks(d) THEN ServerEvents ELSE {NoAnswer} :
       LET found == IF a.ok THEN ServerUrls(a.is) ELSE <<>>
           all   == EffectiveServers(args[d].server, found)
       IN
       /\ Hears(d, "servers", a)
       /\ servers' = [servers EXCEPT ![d] = all]
       /\ Builds(d, IF args[d].manifest # Unset \/ all # <<>>
                    THEN [built[d] EXCEPT !.tree = AddDirectory(@, Root, "public")]
                    ELSE built[d])
  /\ UNCHANGED <<launch, args, keys, pays, rw, task, sockVars, shared, starts>>

\* What a process leaves behind when it ends, however it ends: the socket file.
Ends(d) ==
  /\ Goto(d, "off")
  /\ launch' = [launch EXCEPT ![d] = NoLaunch]
  /\ args' = [args EXCEPT ![d] = NoArgs]
  /\ servers' = [servers EXCEPT ![d] = <<>>]
  /\ built' = [built EXCEPT ![d] = NoTree]
  /\ heard' = [heard EXCEPT ![d] = NoHeard]
  /\ keys' = [keys EXCEPT ![d] = FALSE]
  /\ pays' = [pays EXCEPT ![d] = "none"]
  /\ rw' = [rw EXCEPT ![d] = FALSE]
  /\ task' = [task EXCEPT ![d] = "none"]
  /\ frozen' = [frozen EXCEPT ![d] = FALSE]
  /\ shared' = [shared EXCEPT ![d] = FALSE]
  /\ client' = IF client = d THEN Nobody ELSE client
  /\ UNCHANGED starts

\* A manifest that cannot be read or parsed ends the mount.
Manifest(d) ==
  /\ phase[d] = "manifest"
  /\ IF args[d].manifest = Unset
     THEN /\ Goto(d, "list")
          /\ UNCHANGED <<startVars, rw, task, sockVars, shared, starts>>
     ELSE \E a \in Manifests :
            IF a.ok
            THEN /\ Goto(d, "list")
                 /\ Hears(d, "manifest", a)
                 /\ Builds(d, AddManifest(built[d], a.is))
                 /\ UNCHANGED <<launch, args, servers, keys, pays, rw, task, sockVars,
                                shared, starts>>
            ELSE Ends(d) /\ UNCHANGED sock

\* list_all_blobs of every server for every public key, at most --max-blobs.
List(d) ==
  /\ phase[d] = "list"
  /\ Goto(d, "drives")
  /\ IF servers[d] = <<>> THEN UNCHANGED <<heard, built>>
     ELSE \E l \in Listings :
            LET max == args[d].max_blobs
                cut(a) == IF max > 0 /\ Len(a.is) > max
                          THEN [a EXCEPT !.is = SubSeq(@, 1, max)] ELSE a
            IN
            /\ heard' = [heard EXCEPT ![d].listings = l]
            /\ Builds(d, AddServers(built[d], Keys(d), servers[d],
                 [p \in Range(Pubkeys(Keys(d))) |->
                    [u \in Range(servers[d]) |-> cut(l[p][u])]]))
  /\ UNCHANGED <<launch, args, servers, keys, pays, rw, task, sockVars, shared, starts>>

Drives(d) ==
  /\ phase[d] = "drives"
  /\ Goto(d, "meta")
  /\ \E a \in IF Asks(d) THEN DriveEvents ELSE {NoAnswer} :
       /\ Hears(d, "drives", a)
       /\ Builds(d, IF Fetched(a) THEN AddDrives(built[d], Keys(d)[1], a.is) ELSE built[d])
  /\ UNCHANGED <<launch, args, servers, keys, pays, rw, task, sockVars, shared, starts>>

Metadata(d) ==
  /\ phase[d] = "meta"
  /\ Goto(d, "repos")
  /\ \E a \in IF Asks(d) THEN MetaEvents ELSE {NoAnswer} :
       /\ Hears(d, "meta", a)
       /\ Builds(d, IF Fetched(a) THEN AddNip94(built[d], Keys(d)[1], a.is) ELSE built[d])
  /\ UNCHANGED <<launch, args, servers, keys, pays, rw, task, sockVars, shared, starts>>

\* The key of --nip34-pubkey: an npub, or anything else as it is.
RepoKey(k) == IF ParsesAsNpub(k) THEN HexOf[k] ELSE k

\* Two queries; without the second there is nothing.
Repos(d) ==
  LET pk    == args[d].nip34_pubkey
      asked == args[d].nip34_relay # <<>> /\ pk # Unset
  IN
  /\ phase[d] = "repos"
  /\ Goto(d, "files")
  /\ \E r \in IF asked THEN RepoEvents ELSE {NoAnswer} :
     \E e \in IF r.ok THEN IssueEvents ELSE {NoAnswer} :
       /\ heard' = [heard EXCEPT ![d].answers = [@ EXCEPT !["repos"] = r, !["issues"] = e]]
       /\ Builds(d, IF r.ok /\ e.ok
                    THEN AddNip34(built[d], RepoKey(pk), r.is, e.is, args[d].nip34_clone)
                    ELSE built[d])
  /\ UNCHANGED <<launch, args, servers, keys, pays, rw, task, sockVars, shared, starts>>

\* STATUS.txt says "capped".
Capped(b, max) == max > 0 /\ b.count >= max

\* README.txt and STATUS.txt; then the cache directory is made, or the mount
\* ends.
Files(d) ==
  /\ phase[d] = "files"
  /\ \/ /\ Goto(d, "keys")
        /\ Builds(d, [built[d] EXCEPT !.tree =
                        AddStaticFile(AddStaticFile(@, Root, "README.txt"),
                            Root, "STATUS.txt")])
        /\ UNCHANGED <<launch, args, servers, heard, keys, pays, rw, task, sockVars, shared,
                       starts>>
     \/ Ends(d) /\ UNCHANGED sock

\* --nsec-file goes before --dangerous-nsec-arg; what cannot be read or parsed
\* is no key.
ReadKeys(d) ==
  LET need  == ~args[d].read_only \/ args[d].persist # Unset
      given == args[d].nsec_file # Unset \/ args[d].dangerous_nsec_arg # Unset
  IN
  /\ phase[d] = "keys"
  /\ Goto(d, "saved")
  /\ \E read \in IF need /\ given THEN BOOLEAN ELSE {FALSE} :
       keys' = [keys EXCEPT ![d] = read]
  /\ UNCHANGED <<launch, args, servers, built, heard, pays, rw, task, sockVars, shared,
                 starts>>

\* Variant: with --persist, a key is waited for.
RestoreWaits(d) ==
  /\ phase[d] = "saved" /\ (args[d].persist # Unset => keys[d])
  /\ Goto(d, "pay")
  /\ \E a \in IF args[d].persist # Unset /\ args[d].relay # <<>> THEN SavedEvents ELSE {NoAnswer} :
       LET saved == IF a.ok THEN FetchPersistEvent(a.is, args[d].persist) ELSE NoAnswer IN
       /\ Hears(d, "saved", a)
       /\ Builds(d, IF saved.ok THEN [built[d] EXCEPT !.tree = ApplyPersisted(@, Applied(saved.is))]
                    ELSE built[d])
  /\ UNCHANGED <<launch, args, servers, keys, pays, rw, task, sockVars, shared, starts>>

\* --persist: fetch_persist_event, apply_persisted.
Restore(d) ==
  /\ phase[d] = "saved"
  /\ Goto(d, "pay")
  /\ \E a \in IF args[d].persist # Unset /\ keys[d] /\ args[d].relay # <<>>
              THEN SavedEvents ELSE {NoAnswer} :
       LET saved == IF a.ok THEN FetchPersistEvent(a.is, args[d].persist) ELSE NoAnswer IN
       /\ Hears(d, "saved", a)
       /\ Builds(d, IF saved.ok THEN [built[d] EXCEPT !.tree = ApplyPersisted(@, Applied(saved.is))]
                    ELSE built[d])
  /\ UNCHANGED <<launch, args, servers, keys, pays, rw, task, sockVars, shared, starts>>

\* The token file goes before the wallet; what cannot be read pays nothing.
ChoosePayment(d) ==
  /\ phase[d] = "pay"
  /\ Goto(d, "make")
  /\ \E p \in IF args[d].cashu_token_file # Unset THEN {"token", "none"}
              ELSE IF args[d].nwc_uri # Unset THEN {"nwc", "none"}
              ELSE {"none"} :
       pays' = [pays EXCEPT ![d] = p]
  /\ UNCHANGED <<launch, args, servers, built, heard, keys, rw, task, sockVars, shared,
                 starts>>

\* The file system is made, read-write with a key and a server; systemd is told
\* that it is ready; the control task is spawned.
Ready(d) ==
  /\ phase[d] = "make"
  /\ Goto(d, "mounting")
  /\ rw' = [rw EXCEPT ![d] = keys[d] /\ servers[d] # <<>> /\ ~args[d].read_only]
  /\ task' = [task EXCEPT ![d] = "spawned"]
  /\ shared' = [e \in Daemons |->
       \/ shared[e]
       \/ e = d /\ \E f \in Daemons \ {d} : task[f] # "none" /\ DirOf(f) = DirOf(d)
       \/ e # d /\ task[e] # "none" /\ DirOf(e) = DirOf(d)]
  /\ UNCHANGED <<startVars, sockVars, starts>>

\* fuser::mount2 succeeds and serves; the tree is the file system's from now on.
Mounted(d) ==
  /\ phase[d] = "mounting"
  /\ Goto(d, "up")
  /\ built' = [built EXCEPT ![d] = NoTree]
  /\ heard' = [heard EXCEPT ![d] = NoHeard]
  /\ UNCHANGED <<launch, args, servers, keys, pays, rw, task, sockVars, shared, starts>>

\* mount2 fails: the process ends, the socket file stays.
MountFails(d) == phase[d] = "mounting" /\ Ends(d) /\ UNCHANGED sock

\* mount2 returns: the file at the socket's path is removed, whoever bound it.
Unmounted(d) ==
  /\ phase[d] = "up"
  /\ Goto(d, "publish")
  /\ sock' = [sock EXCEPT ![DirOf(d)] = Nobody]
  /\ UNCHANGED <<startVars, rw, task, frozen, client, shared, starts>>

\* The structure is published if --persist, a key and a relay are there (what
\* of it is in Mount); the runtime is dropped.
Exit(d) == phase[d] = "publish" /\ Ends(d) /\ UNCHANGED sock

Kill(d) == Alive(d) /\ Ends(d) /\ UNCHANGED sock

-----------------------------------------------------------------------------
(* run_control_socket and its clients.                                     *)

\* Variant: what a killed daemon left is not removed.
LeaveSocket(d) ==
  /\ task[d] = "spawned"
  /\ task' = [task EXCEPT ![d] = "unlinked"]
  /\ UNCHANGED <<phase, startVars, rw, sockVars, shared, starts>>

RemoveSocket(d) ==
  /\ task[d] = "spawned"
  /\ task' = [task EXCEPT ![d] = "unlinked"]
  /\ sock' = [sock EXCEPT ![DirOf(d)] = Nobody]
  /\ UNCHANGED <<phase, startVars, rw, frozen, client, shared, starts>>

\* A file that has come there meanwhile makes bind fail, and the task ends
\* without a word.
Bind(d) ==
  /\ task[d] = "unlinked"
  /\ IF sock[DirOf(d)] = Nobody
     THEN /\ sock' = [sock EXCEPT ![DirOf(d)] = d]
          /\ task' = [task EXCEPT ![d] = "bound"]
     ELSE /\ task' = [task EXCEPT ![d] = "dead"]
          /\ UNCHANGED sock
  /\ UNCHANGED <<phase, startVars, rw, frozen, client, shared, starts>>

Listens(d) == d # Nobody /\ task[d] = "bound"

\* accept: a task of its own serves the connection.
Connect(c) ==
  /\ client = Nobody
  /\ Listens(sock[c])
  /\ client' = sock[c]
  /\ UNCHANGED <<phase, startVars, rw, task, frozen, sock, shared, starts>>

\* handle_connection: one line, one answer.  freeze and unfreeze set the
\* switch, status and what is no command change nothing.
Command ==
  /\ client # Nobody
  /\ \E f \in {TRUE, FALSE, frozen[client]} : frozen' = [frozen EXCEPT ![client] = f]
  /\ client' = Nobody
  /\ UNCHANGED <<phase, startVars, rw, task, sock, shared, starts>>

-----------------------------------------------------------------------------
StartStep(d) ==
  \/ Discover(d) \/ Manifest(d) \/ List(d) \/ Drives(d) \/ Metadata(d) \/ Repos(d)
  \/ Files(d) \/ ReadKeys(d) \/ Restore(d) \/ ChoosePayment(d) \/ Ready(d)
  \/ Mounted(d) \/ MountFails(d)

Next ==
  /\ UNCHANGED plan
  /\ \/ \E d \in Daemons :
          \/ \E l \in plan[d] : Launch(d, l)
          \/ StartStep(d) \/ Unmounted(d) \/ Exit(d) \/ Kill(d)
          \/ RemoveSocket(d) \/ Bind(d)
     \/ \E c \in Dirs : Connect(c)
     \/ Command

Spec == Init /\ [][Next]_vars

\* list_all_blobs is on its way.
AwaitsListing(d) == phase[d] = "list" /\ servers[d] # <<>>

\* Queries to relays have timeouts, tasks are scheduled.  The client of the
\* listing has no timeout: nothing obliges a server to answer it.  Nobody has to
\* start, stop or talk to a daemon.
Fairness ==
  \A d \in Daemons :
    /\ WF_vars(UNCHANGED plan /\ ~AwaitsListing(d) /\ StartStep(d))
    /\ WF_vars(UNCHANGED plan /\ RemoveSocket(d))
    /\ WF_vars(UNCHANGED plan /\ Bind(d))
FairSpec == Spec /\ Fairness

-----------------------------------------------------------------------------
(* Properties.                                                             *)

\* The variables have their types, and who is not alive has nothing.
TypeOK ==
  /\ phase \in [Daemons -> {"off", "servers", "manifest", "list", "drives", "meta",
                             "repos", "files", "keys", "saved", "pay", "make",
                             "mounting", "up", "publish"}]
  /\ \A d \in Daemons :
       /\ Alive(d) => launch[d] \in plan[d] /\ DOMAIN args[d] = Options
       /\ ~Alive(d) => args[d] = NoArgs /\ task[d] = "none" /\ ~rw[d] /\ ~frozen[d]
       /\ task[d] # "none" <=> phase[d] \in {"mounting", "up", "publish"}
  /\ keys \in [Daemons -> BOOLEAN] /\ rw \in [Daemons -> BOOLEAN]
  /\ pays \in [Daemons -> {"none", "token", "nwc"}]
  /\ task \in [Daemons -> {"none", "spawned", "unlinked", "bound", "dead"}]
  /\ frozen \in [Daemons -> BOOLEAN]
  /\ sock \in [Dirs -> Daemons \union {Nobody}]
  /\ client = Nobody \/ (client \in Daemons /\ task[client] = "bound")
  /\ starts \in [Daemons -> 0 .. MaxLaunches]

\* What README.md:131 says, that "CLI arguments override config values": a mount
\* has of every option what its command line gives.  It has not where merge_into
\* asks for an option of two words (OneWord).
FlagsOverride ==
  \A d \in Daemons : Alive(d) =>
    \A o \in DOMAIN launch[d].flags : args[d][o] = launch[d].flags[o]

\* Whatever the relays answer, only web servers are asked for blobs, and a
\* read-write mount uploads to the first server of the user's own
\* (README.md:203), never to one that was discovered.
UploadServerIsUsers ==
  \A d \in Daemons :
    /\ Range(servers[d]) \subseteq WebUrls
    /\ rw[d] => /\ args[d].server # <<>> /\ servers[d][1] = args[d].server[1]
                /\ keys[d] /\ ~args[d].read_only

\* What the sources that answered should show, each by itself.
In(dir, files) == {<<dir \o f[1], f[2]>> : f \in files}

ByHash(ds) ==
  {<<<<"by-sha256", NameOf[ds[k]]>>, ds[k]>> :
     k \in {j \in DOMAIN ds : \A i \in 1 .. j - 1 : ShaOf[ds[i]] # ShaOf[ds[j]]}}
Views(ds) ==
  ByHash(ds)
    \union {<<<<"by-type", TypeOf[b], NameOf[b]>>, b>> : b \in Range(ds)}
    \union {<<<<"by-date">> \o DayOf[b] \o <<NameOf[b]>>, b>> : b \in Range(ds)}
Good(ds) == SelectSeq(ds, LAMBDA b : Validates(b) /\ Desc[b].valid)

Cut(d, a) ==
  LET max == args[d].max_blobs
  IN  IF a.ok THEN Good(SubSeq(a.is, 1, IF max = 0 \/ max > Len(a.is) THEN Len(a.is) ELSE max))
      ELSE <<>>

OfServers(d, pk) ==
  LET listing(k) == Cut(d, heard[d].listings[pk][servers[d][k]])
  IN  UNION {In(<<"public", pk, "servers", HostDir[servers[d][k]]>>, Views(listing(k))) :
               k \in DOMAIN servers[d]}
      \union In(<<"public", pk, "all-servers">>,
                ByHash(FlattenSeq([k \in DOMAIN servers[d] |-> listing(k)])))

OfDrive(pk, tags) ==
  {<<<<"drives", pk, LastTag(tags, "d", "default")>> \o Named(tags[k][3]), tags[k][2]>> :
     k \in {j \in DOMAIN tags : /\ Len(tags[j]) >= 3 /\ tags[j][1] = "x"
                               /\ tags[j][2] \in Shas
                               /\ tags[j][3] # <<>> /\ Last(tags[j][3]) # ""}}

OfRecords(pk, records) ==
  LET m(k)   == Meta(records[k])
      name(k) == IF m(k).filename = Absent THEN m(k).sha ELSE m(k).filename
      there  == {k \in DOMAIN records : m(k).sha \in Shas}
      files  == {k \in there : m(k).url # Absent}
      taken(k) == \E j \in files : j < k /\ name(j) = name(k)
      rel    == {Release(records[k]) : k \in there}
  IN  {<<<<"metadata", m(k).sha \o ".json">>, Static>> : k \in there}
        \union {<<<<"nip94", pk, IF taken(k) THEN m(k).sha \o "-" \o name(k) ELSE name(k)>>,
                  m(k).sha>> : k \in files}
        \union {<<<<"tollgate">> \o ReleasePath(r) \o <<r.filename>>, r.sha>> :
                  r \in {q \in rel : IsRelease(q) /\ q.urls # <<>>}}

OfRepos(pk, repos, events) ==
  UNION {In(<<"git", pk, r.id>>,
            {<<f, Static>> : f \in
               {<<"INFO.md">>}
                 \union (IF r.clone = <<>> THEN {} ELSE {<<"CLONE_URLS.txt">>})
                 \union {Filed(e) : e \in {x \in Range(events) : About(x) = r.addr}}}) :
           r \in Range(ReposOf(pk, repos))}

Expected(d) ==
  LET a == heard[d].answers IN
  In(<<"public", "local", "servers", "manifest">>, Views(Good(a["manifest"].is)))
    \union (IF servers[d] = <<>> THEN {}
            ELSE UNION {OfServers(d, pk) : pk \in Range(Pubkeys(Keys(d)))})
    \union UNION {OfDrive(Keys(d)[1], e) : e \in Range(a["drives"].is)}
    \union (IF a["meta"].is = <<>> THEN {} ELSE OfRecords(Keys(d)[1], a["meta"].is))
    \union (IF a["issues"].ok
            THEN OfRepos(RepoKey(args[d].nip34_pubkey), a["repos"].is, a["issues"].is) ELSE {})
    \union {<<<<"README.txt">>, Static>>, <<<<"STATUS.txt">>, Static>>}

Clean(path) == [k \in DOMAIN path |-> San[path[k]]]

\* The civil date of a Unix time, counting years and months.
Leap(y) == (y % 4 = 0 /\ y % 100 # 0) \/ y % 400 = 0
MonthDays(y, m) == IF m = 2 THEN IF Leap(y) THEN 29 ELSE 28
                   ELSE IF m \in {4, 6, 9, 11} THEN 30 ELSE 31
Calendar(ts) ==
  LET days == ts \div 86400
      new[y \in 1970 .. 2200] ==
        IF y = 1970 THEN 0 ELSE new[y - 1] + (IF Leap(y - 1) THEN 366 ELSE 365)
      year == CHOOSE y \in 1970 .. 2199 : new[y] <= days /\ days < new[y + 1]
      first[m \in 1 .. 13] ==
        IF m = 1 THEN new[year] ELSE first[m - 1] + MonthDays(year, m - 1)
      month == CHOOSE m \in 1 .. 12 : first[m] <= days /\ days < first[m + 1]
  IN  <<year, month, days - first[month] + 1>>

\* A blob lies in the by-date directory of the day it was uploaded, on the
\* last and first days of months, years and leap years too.
DatesExact ==
  \A d \in Daemons : phase[d] = "keys" =>
    LET t == built[d].tree
        at == PathOf(t)
    IN  \A i \in Linked(t) :
          IsFile(t, i) /\ "by-date" \in Range(at[i]) =>
            SubSeq(at[i], Len(at[i]) - 3, Len(at[i]) - 1)
              = [k \in 1 .. 3 |-> ToString(Calendar(Desc[t[i].content].uploaded)[k])]

\* The tree shows exactly what the sources that answered have, every source at
\* its own place, whichever of the others fail.
FilesExact ==
  \A d \in Daemons : phase[d] = "keys" =>
    LET t == built[d].tree
        at == PathOf(t)
    IN  {<<at[i], t[i].content>> : i \in {j \in Linked(t) : IsFile(t, j)}}
          = {<<Clean(f[1]), f[2]>> : f \in Expected(d)}

\* Both: every file of every source that answered, at its place, and no other.
SourcesExact == FilesExact /\ DatesExact

\* What stands beside the generated directories, by the newest event of the
\* drive that the relays' answer has.
Structure(events, name) ==
  LET fits   == {k \in DOMAIN events : /\ k <= PersistLimit
                                       /\ {<<"d", name>>, <<"l", "blossomfs">>} \subseteq TagPairs(events[k])}
      newest == IF fits = {} THEN <<>> ELSE events[Min(fits)]
      files  == FileTags(newest)
      firsts == {k \in files : \A j \in files : newest[j][3] = newest[k][3] => k <= j}
  IN  {<<Clean(p), None>> : p \in SavedDirs(newest)}
        \union {<<Clean(Named(newest[k][3])), newest[k][2]>> : k \in firsts}

\* --persist brings back the directories and files of the drive as they were
\* published last, each at its path and no others, whatever else of the user's
\* the relays have under the same kind; older events and those of other programs
\* or drives are passed over (fetch_persist_event, apply_persisted).
RestoredExact ==
  \A d \in Daemons : phase[d] = "pay" =>
    LET t  == built[d].tree
        at == PathOf(t)
    IN  {<<at[i], t[i].content>> : i \in {j \in Linked(t) \ {Root} : at[j][1] \notin Generated}}
          = Structure(heard[d].answers["saved"].is, args[d].persist)

\* When a listing was cut at --max-blobs, STATUS.txt says that more may exist
\* (vfiles.rs), unless a descriptor in it was refused.
CappedTold ==
  \A d \in Daemons : phase[d] = "keys" /\ servers[d] # <<>> =>
    \A pk \in Range(Pubkeys(Keys(d))), u \in Range(servers[d]) :
      LET a == heard[d].listings[pk][u] IN
      /\ a.ok /\ args[d].max_blobs \in 1 .. Len(a.is) - 1
      /\ \A b \in Range(a.is) : Validates(b)
      => Capped(built[d], args[d].max_blobs)

\* STATUS.txt warns of every blob of the mount that ends within seven days,
\* even if an earlier descriptor of the same blob hides it in by-sha256, and of
\* no other.
ExpiringTold ==
  \A d \in Daemons : phase[d] = "keys" =>
    LET shown == {b \in DOMAIN Desc : \E i \in DOMAIN built[d].tree :
                    IsFile(built[d].tree, i) /\ built[d].tree[i].content = b}
    IN  {built[d].tree[i].content : i \in Expiring(built[d].tree, Now, 7 * 86400)}
          = {b \in shown : Desc[b].ends > Now /\ Desc[b].ends - Now <= 7 * 86400}

\* STATUS.txt tells what the mount does not show and will lose.
StatusTold == CappedTold /\ ExpiringTold

\* A daemon that has its cache directory for itself is the one its socket
\* leads to once it is bound, whatever killed daemons left there.
AloneServed ==
  \A d \in Daemons : ~shared[d] =>
    /\ task[d] # "dead"
    /\ task[d] = "bound" /\ phase[d] # "publish" => sock[DirOf(d)] = d

(* Liveness, under FairSpec.                                               *)

\* A start comes to a mounted file system or to its end, whichever of the relays,
\* keys and files it has to do without, unless a blob server leaves its listing
\* unanswered for ever.
StartDecided ==
  \A d \in Daemons :
    \/ phase[d] = "servers" ~> phase[d] \in {"up", "off"}
    \/ <>[]AwaitsListing(d)
=============================================================================
