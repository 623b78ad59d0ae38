------------------------------- MODULE Mount -------------------------------
(***************************************************************************)
(* One mount after another of the same drive (run_mount of                 *)
(* src/src/main.rs): list the server's blobs page by page, build the tree, *)
(* apply the structure published last, serve directory operations, and     *)
(* publish the structure at unmount; or be killed on the way.              *)
(*                                                                         *)
(* The kernel serialises the calls on one directory, so that two of them   *)
(* never overlap; those on different directories do.  There is one blob    *)
(* server, one repository and one listing of a directory at a time.        *)
(***************************************************************************)
EXTENDS Tree, FiniteSets

CONSTANTS
  Blobs,
  Servers,      \* what the server may hold when a listing begins, newest first
  PageSize,
  MaxPages,
  Limits,       \* the values of --max-blobs, 0 for no limit
  UserNames,    \* names the user gives
  Chunk,        \* directory entries that fit in one reply
  MaxOps,       \* bound: changes by the user, and listings
  MaxMounts,    \* bound: mounts
  MaxDepth      \* bound: depth of the user's paths

ASSUME MountAssumption ==
  /\ PageSize \in Nat \ {0} /\ MaxPages \in Nat \ {0} /\ Limits \subseteq Nat
  /\ Chunk \in Nat \ {0}
  /\ MaxOps \in Nat /\ MaxMounts \in Nat /\ MaxDepth \in Nat

AllNames == DOMAIN San

\* A name is sanitised to a name, and so is each of those main.rs and tree.rs
\* write down.
ASSUME NameAssumption ==
  /\ San \in [AllNames -> AllNames]
  /\ {"/", "public", "host", "by-sha256", "by-type", "by-date", "git", "repo",
      "INFO.md", "README.txt", "CLONE_FAILED.txt"} \subseteq AllNames
  /\ UserNames \subseteq AllNames

\* Sanitising a name again leaves it, as it leaves main.rs's words; the user works
\* elsewhere than in /public and /git.
ASSUME CleanAssumption ==
  /\ \A n \in AllNames : San[San[n]] = San[n]
  /\ \A n \in {"public", "host", "by-sha256", "by-type", "by-date", "git", "repo",
              "INFO.md", "README.txt", "CLONE_FAILED.txt"} : San[n] = n
  /\ "public" \in Published
  /\ \A n \in UserNames : San[n] \notin {"public", "git"}

\* The user gives names that sanitising leaves as they are, and makes nothing in
\* the place of the mount's README.txt.
ASSUME UserAssumption ==
  \A n \in UserNames : San[n] = n /\ n \notin {"", "README.txt"}

\* A blob is known by its hash; no file of a view is called like a directory of one.
ASSUME ViewAssumption ==
  \A a, b \in Blobs :
    /\ ShaOf[a] = ShaOf[b] => a = b
    /\ San[NameOf[a]] \notin {TypeOf[b]} \union Range(DayOf[b])

\* Blobs are no other contents and have their names; a server has each once.
ASSUME BlobAssumption ==
  /\ Blobs \cap {Static, Local, None} = {}
  /\ \A b \in Blobs : /\ TypeOf[b] \in AllNames /\ NameOf[b] \in AllNames
                      /\ DayOf[b] \in Seq(AllNames)
  /\ \A s \in Servers : s \in Seq(Blobs) /\ IsInjective(s)

\* WalkDir comes to a directory before what is in it.
ASSUME RepoAssumption ==
  /\ Repo \in Seq([kind : {"dir", "file"}, name : AllNames, up : Nat])
  /\ \A k \in DOMAIN Repo : Repo[k].up < k

\* What is in something is in a directory, and what is in the same one has
\* different names, also once they are sanitised; nothing at the top is called
\* INFO.md.
ASSUME CheckoutAssumption ==
  \A j, k \in DOMAIN Repo :
    /\ Repo[j].up = Repo[k].up /\ San[Repo[j].name] = San[Repo[k].name] => j = k
    /\ Repo[k].up # 0 => Repo[Repo[k].up].kind = "dir"
    /\ Repo[k].up = 0 => San[Repo[k].name] # "INFO.md"

VARIABLES
  phase,    \* down, list, listed, up
  \* list_all_blobs, against a server that changes meanwhile
  srv,      \* the server's blobs, newest first
  all,
  cursor,   \* a blob, or None
  pages,
  max,      \* --max-blobs of this mount
  \* the mounted tree
  tree,
  cloning,  \* the directory whose repository is being cloned, or 0
  disk,     \* the clone in the cache directory: none, partial, whole
  handle,   \* the listing of a directory under way, or NoHandle
  \* the relays
  event,    \* the tags published last
  \* observations
  steady,   \* blobs the server has had since the listing began
  ops, mounts

listVars == <<srv, all, cursor, pages, max, steady>>
treeVars == <<tree, cloning, disk, handle>>
vars == <<phase, listVars, treeVars, event, ops, mounts>>

NoHandle == [dir |-> 0, offset |-> 0, seen |-> <<>>, start |-> {}, intact |-> TRUE,
             done |-> FALSE]

Init ==
  /\ phase = "down"
  /\ srv = <<>> /\ all = <<>> /\ cursor = None /\ pages = 0 /\ max = 0 /\ steady = {}
  /\ tree = <<>> /\ cloning = 0 /\ disk = "none" /\ handle = NoHandle
  /\ event = <<>>
  /\ ops = 0 /\ mounts = 0

-----------------------------------------------------------------------------
(* list_all_blobs.                                                         *)

StartMount ==
  /\ phase = "down" /\ mounts < MaxMounts
  /\ phase' = "list"
  /\ mounts' = mounts + 1
  /\ srv' \in Servers
  /\ steady' = Range(srv')
  /\ all' = <<>> /\ cursor' = None /\ pages' = 0
  /\ max' \in Limits
  /\ UNCHANGED <<treeVars, event, ops>>

\* Others upload and delete blobs.
Arrives(b) ==
  /\ phase = "list" /\ b \notin Range(srv)
  /\ srv' = <<b>> \o srv
  /\ UNCHANGED <<phase, all, cursor, pages, max, steady, treeVars, event, ops, mounts>>

Vanishes(b) ==
  /\ phase = "list" /\ b \in Range(srv)
  /\ srv' = Only(srv, Range(srv) \ {b})
  /\ steady' = steady \ {b}
  /\ UNCHANGED <<phase, all, cursor, pages, max, treeVars, event, ops, mounts>>

\* The answer to ?cursor=...&limit=PageSize.
Page ==
  LET from == IF cursor = None THEN 1 ELSE SelectInSeq(srv, LAMBDA b : b = cursor) + 1
  IN  SubSeq(srv, from, IF from + PageSize - 1 < Len(srv) THEN from + PageSize - 1
                                                          ELSE Len(srv))

\* Variant: a full page is the last one.
CursorBeyond == IF Len(Page) > PageSize THEN Last(Page) ELSE None

\* list_blobs: a full page is followed by another that starts after its last.
NextCursor == IF Len(Page) >= PageSize THEN Last(Page) ELSE None

ListPage ==
  /\ phase = "list"
  /\ cursor = None \/ cursor \in Range(srv)
  /\ LET got == all \o Page IN
     /\ pages' = pages + 1
     /\ IF max > 0 /\ Len(got) >= max
        THEN all' = SubSeq(got, 1, max) /\ phase' = "listed"
        ELSE /\ all' = got
             /\ phase' = IF NextCursor = None \/ pages' = MaxPages THEN "listed" ELSE "list"
     /\ cursor' = NextCursor
  /\ UNCHANGED <<srv, max, steady, treeVars, event, ops, mounts>>

\* No answer or an error, as for a cursor the server does not know: the pages
\* got so far are lost, the mount goes on.
ListFails ==
  /\ phase = "list"
  /\ phase' = "listed"
  /\ all' = <<>> /\ steady' = {}
  /\ UNCHANGED <<srv, cursor, pages, max, treeVars, event, ops, mounts>>

-----------------------------------------------------------------------------
(* The tree is built and mounted.                                          *)

\* /public, /git with a lazy repository, README.txt.
BuiltTree ==
  LET public == AddDirectory(NewTree, Root, "public")
      blobs  == BuildFromDescriptors(AddDirectory(public, 2, "host"), 3, all)
      git    == AddDirectory(blobs, Root, "git")
      repo   == AddLazyDir(git, Len(git), "repo")
      info   == AddStaticFile(repo, Len(repo), "INFO.md")
  IN  AddStaticFile(info, Root, "README.txt")

\* The published structure is applied, or could not be fetched.
MountUp ==
  /\ phase = "listed"
  /\ phase' = "up"
  /\ tree' \in {ApplyPersisted(BuiltTree, event), BuiltTree}
  /\ srv' = <<>> /\ cursor' = None /\ pages' = 0 /\ max' = 0 /\ steady' = {}
  /\ UNCHANGED <<all, cloning, disk, handle, event, ops, mounts>>

Down ==
  /\ phase' = "down"
  /\ tree' = <<>> /\ cloning' = 0 /\ handle' = NoHandle
  /\ srv' = <<>> /\ all' = <<>> /\ cursor' = None /\ pages' = 0 /\ max' = 0
  /\ steady' = {}
  /\ UNCHANGED <<ops, mounts>>

\* Nothing is open any more; the structure is published, or that fails.
Unmount ==
  /\ phase = "up" /\ cloning = 0 /\ handle = NoHandle
  /\ Down
  /\ event' \in {PersistTags(tree), event}
  /\ UNCHANGED disk

\* A kill in the middle of a clone may leave a directory with a .git in it.
Kill ==
  /\ phase # "down"
  /\ Down
  /\ disk' \in IF cloning # 0 /\ disk = "none" THEN {"none", "partial"} ELSE {disk}
  /\ UNCHANGED event

-----------------------------------------------------------------------------
(* populate_if_lazy, which lookup() and readdir() of a directory begin     *)
(* with.                                                                   *)

\* Variant: the mark stays until the clone is done, and nobody takes it then.
TakeKeepsMark(d) ==
  /\ phase = "up" /\ IsDir(tree, d) /\ tree[d].lazy
  /\ cloning' = d
  /\ UNCHANGED <<phase, listVars, tree, disk, handle, event, ops, mounts>>

\* The first lock section takes the mark.
TakeLazy(d) ==
  /\ phase = "up" /\ IsDir(tree, d) /\ tree[d].lazy
  /\ tree' = [tree EXCEPT ![d].lazy = FALSE]
  /\ cloning' = d
  /\ UNCHANGED <<phase, listVars, disk, handle, event, ops, mounts>>

\* clone_repo finds a .git there, or clones; what is there becomes the tree.
\* A partial clone has no files yet.
Cloned ==
  /\ cloning # 0
  /\ disk' = IF disk = "none" THEN "whole" ELSE disk
  /\ tree' = IF disk' = "whole" THEN WalkRepo(tree, cloning) ELSE tree
  /\ cloning' = 0
  /\ UNCHANGED <<phase, listVars, handle, event, ops, mounts>>

CloneFails ==
  /\ cloning # 0 /\ disk = "none"
  /\ tree' = AddStaticFile(tree, cloning, "CLONE_FAILED.txt")
  /\ cloning' = 0
  /\ UNCHANGED <<phase, listVars, disk, handle, event, ops, mounts>>

-----------------------------------------------------------------------------
(* Directory operations.                                                   *)

\* Where the user makes and removes things: the root and what he made there.
UserDirs ==
  LET path == PathOf(tree) IN
  {d \in Linked(tree) :
     /\ IsDir(tree, d)
     /\ Len(path[d]) < MaxDepth
     /\ d = Root \/ path[d][1] \in UserNames}

UserOp == phase = "up" /\ ops < MaxOps /\ ops' = ops + 1

\* The listing under way of d is no longer of an unchanged directory.
Disturb(d) == handle' = [handle EXCEPT !.intact = @ /\ handle.dir # d]

Mkdir(d, n) ==
  /\ UserOp
  /\ Lookup(tree, d, n) = 0
  /\ tree' = AddDirectory(tree, d, n)
  /\ UNCHANGED <<phase, listVars, cloning, disk, handle, event, mounts>>

\* create(), with the new file still to be written.
Create(d, n) ==
  /\ UserOp
  /\ Lookup(tree, d, n) = 0
  /\ tree' = AddFileToDir(tree, d, n)
  /\ UNCHANGED <<phase, listVars, cloning, disk, handle, event, mounts>>

\* do_upload of a file, linked or not by now.
Uploaded(i, b) ==
  /\ phase = "up"
  /\ IsFile(tree, i) /\ tree[i].name \in UserNames /\ tree[i].content = Static
  /\ tree' = SetContent(tree, i, b)
  /\ UNCHANGED <<phase, listVars, cloning, disk, handle, event, ops, mounts>>

Unlink(d, n) ==
  /\ UserOp
  /\ LET i == Lookup(tree, d, n) IN
     /\ IsFile(tree, i)
     /\ tree' = Drop(tree, d, i)
  /\ Disturb(d)
  /\ UNCHANGED <<phase, listVars, cloning, disk, event, mounts>>

Rmdir(d, n) ==
  /\ UserOp
  /\ LET i == Lookup(tree, d, n) IN
     /\ IsDir(tree, i) /\ tree[i].children = <<>>
     /\ tree' = Drop(tree, d, i)
  /\ Disturb(d)
  /\ UNCHANGED <<phase, listVars, cloning, disk, event, mounts>>

-----------------------------------------------------------------------------
(* readdir(), called until it returns no more.                             *)

Opendir(d) ==
  /\ UserOp
  /\ handle = NoHandle
  /\ handle' = [NoHandle EXCEPT !.dir = d, !.start = Range(tree[d].children)]
  /\ UNCHANGED <<phase, listVars, tree, cloning, disk, event, mounts>>

\* list_directory, asked again for every reply.
Entries == tree[handle.dir].children

\* Variant: the next offset is that of the entry which did not fit.
ReaddirSkips ==
  LET last == IF handle.offset + Chunk < Len(Entries) THEN handle.offset + Chunk
              ELSE Len(Entries)
  IN
  /\ handle # NoHandle /\ ~handle.done
  /\ handle' = IF handle.offset >= Len(Entries) THEN [handle EXCEPT !.done = TRUE]
               ELSE [handle EXCEPT !.offset = last + 1,
                       !.seen = @ \o SubSeq(Entries, handle.offset + 1, last)]
  /\ UNCHANGED <<phase, listVars, tree, cloning, disk, event, ops, mounts>>

\* The children after the offset, as many as fit; the next offset is the
\* position of the last.
Readdir ==
  LET last == IF handle.offset + Chunk < Len(Entries) THEN handle.offset + Chunk
              ELSE Len(Entries)
  IN
  /\ handle # NoHandle /\ ~handle.done
  /\ handle' = IF handle.offset >= Len(Entries) THEN [handle EXCEPT !.done = TRUE]
               ELSE [handle EXCEPT !.offset = last,
                       !.seen = @ \o SubSeq(Entries, handle.offset + 1, last)]
  /\ UNCHANGED <<phase, listVars, tree, cloning, disk, event, ops, mounts>>

Closedir ==
  /\ handle.done
  /\ handle' = NoHandle
  /\ UNCHANGED <<phase, listVars, tree, cloning, disk, event, ops, mounts>>

-----------------------------------------------------------------------------
Next ==
  \/ StartMount \/ ListPage \/ ListFails
  \/ \E b \in Blobs : Arrives(b) \/ Vanishes(b)
  \/ MountUp \/ Unmount \/ Kill
  \/ \E d \in DOMAIN tree : TakeLazy(d)
  \/ Cloned \/ CloneFails
  \/ \E d \in UserDirs :
       \/ \E n \in UserNames : Mkdir(d, n) \/ Create(d, n) \/ Unlink(d, n) \/ Rmdir(d, n)
       \/ Opendir(d)
  \/ \E i \in DOMAIN tree, b \in Blobs : Uploaded(i, b)
  \/ Readdir \/ Closedir

Spec == Init /\ [][Next]_vars

-----------------------------------------------------------------------------
(* Properties.                                                             *)

\* The nodes form a tree whose parents come before their children, files have
\* no children, and a directory lists only its own, each once.
TreeShape(t) ==
  \A i \in DOMAIN t :
    /\ t[i].parent < i
    /\ t[i].kind = "file" => t[i].children = <<>> /\ ~t[i].lazy
    /\ IsInjective(t[i].children)
    /\ \A c \in Range(t[i].children) : c \in DOMAIN t /\ t[c].parent = i

\* The variables have their types, and the tree of tree.rs has its shape.
TypeOK ==
  /\ phase \in {"down", "list", "listed", "up"}
  /\ srv \in Seq(Blobs) /\ all \in Seq(Blobs)
  /\ cursor \in Blobs \union {None} /\ pages \in 0 .. MaxPages
  /\ max \in Limits \union {0}
  /\ TreeShape(tree)
  /\ cloning \in {0} \union {d \in DOMAIN tree : IsDir(tree, d)}
  /\ disk \in {"none", "partial", "whole"}
  /\ handle.dir \in {0} \union DOMAIN tree
  /\ steady \subseteq Blobs
  /\ ops \in 0 .. MaxOps /\ mounts \in 0 .. MaxMounts

\* list_all_blobs returns every blob that was on the server all the while,
\* whatever came and went between two pages, unless --max-blobs or MAX_PAGES
\* ended it.
ListingComplete ==
  phase = "listed" =>
    steady \subseteq Range(all) \/ (max > 0 /\ Len(all) = max) \/ pages = MaxPages

\* What the kernel finds at a path, one lookup() after another, or 0.
Resolve(path) ==
  LET at[k \in 0 .. Len(path)] ==
        IF k = 0 THEN Root ELSE Lookup(tree, at[k - 1], path[k])
  IN  at[Len(path)]

\* The linked nodes below a path.
Beneath(path) ==
  LET at == PathOf(tree) IN
  {i \in Linked(tree) : Len(at[i]) > Len(path) /\ SubSeq(at[i], 1, Len(path)) = path}

\* Nothing restored from an earlier mount shows up in /public: its three views
\* have the blobs of this mount's listing, and by-sha256 each of them once even
\* if the listing has it twice.
PublicExact ==
  phase = "up" =>
    LET view(n) == <<"public", "host", n>>
        contents(n) == {tree[i].content : i \in
                          {j \in Beneath(view(n)) : IsFile(tree, j)}}
    IN
    /\ \A n \in {"by-sha256", "by-type", "by-date"} : contents(n) = Range(all)
    /\ Cardinality(Beneath(view("by-sha256"))) = Cardinality(Range(all))

\* What stayed on the server from the first page to the last is in /public,
\* in each of its views, and nothing else that was not listed.
PublicWhole == ListingComplete /\ PublicExact

\* Where each entry of the repository shows up; 0 stands for the repository.
EntryPath ==
  LET path[k \in 0 .. Len(Repo)] ==
        IF k = 0 THEN <<"git", "repo">>
        ELSE Append(path[Repo[k].up], San[Repo[k].name])
  IN  path

\* A repository is walked at most once per mount, however lookups and listings
\* of it interleave with the clone, and a directory whose clone is whole then
\* shows every file at its path -- unless the structure published last has
\* directories beneath it.
RepoShown ==
  LET repo == <<"git", "repo">>
      restored == \E g \in Range(event) :
                    Len(g.path) > 2 /\ SubSeq(g.path, 1, 2) = repo
      shown == Beneath(repo)
      at    == PathOf(tree)
  IN
  phase = "up" /\ ~restored =>
    /\ \A i, j \in shown : at[i] = at[j] => i = j
    /\ cloning = 0 /\ disk = "whole" /\ ~tree[Resolve(repo)].lazy =>
         \A k \in DOMAIN Repo : Resolve(EntryPath[k]) \in shown

\* A listing of a directory while entries are added to it returns no entry
\* twice and none of the first ones late; only a removal may hide one.
ListingWhole ==
  /\ IsInjective(handle.seen)
  /\ handle.done /\ handle.intact => handle.start \subseteq Range(handle.seen)

\* The user's directories and files, on the tree and in the event.
Paths == UNION {[1 .. k -> UserNames] : k \in 1 .. MaxDepth}
OfUser(path) == path # <<>> /\ path[1] \in UserNames \ Published

DriveOf ==
  LET path == PathOf(tree) IN
  {<<path[i], tree[i].content>> : i \in {j \in Linked(tree) : OfUser(path[j])}}

SavedOf ==
  {<<g.path, g.content>> : g \in {h \in Range(event) : OfUser(h.path)}}

Drive == INSTANCE DriveService WITH
  up <- phase = "up", drive <- IF phase = "up" THEN DriveOf ELSE {},
  saved <- SavedOf, Folder <- None, Pending <- Static

\* --persist: mounting, changing, unmounting and being killed do to the user's
\* directories and files what DriveService says.
ServiceSafety == Drive!Spec
=============================================================================
