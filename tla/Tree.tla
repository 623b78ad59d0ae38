-------------------------------- MODULE Tree --------------------------------
(***************************************************************************)
(* The virtual tree of src/src/fuse/tree.rs, as operators on its value:    *)
(* a sequence of nodes indexed by inode number, node 1 the root.           *)
(*                                                                         *)
(* Names, blobs and contents are values; sizes and times are left out.     *)
(***************************************************************************)
EXTENDS Naturals, Sequences, SequencesExt, Lists

CONSTANTS
  San,         \* [names -> names], sanitize_path_component
  Published,   \* names that begin with "public"
  \* of each blob (or descriptor of one, as servers describe a blob differently)
  ShaOf,       \* its SHA-256
  TypeOf,      \* the name of its by-type directory
  DayOf,       \* the names of its by-date directories: year, month, day
  NameOf,      \* "<sha256>.<ext>"
  Repo         \* the repository's entries in the order of WalkDir, each with
               \* its kind, name and up, the position of its parent or 0

Static == "static"  \* contents other than blobs
Local  == "local"
None   == "none"    \* of a directory

Dir(p, n)     == [kind |-> "dir", name |-> n, parent |-> p, children |-> <<>>,
                  lazy |-> FALSE, content |-> None]
File(p, n, c) == [kind |-> "file", name |-> n, parent |-> p, children |-> <<>>,
                  lazy |-> FALSE, content |-> c]

Root == 1
NewTree == <<Dir(0, "/")>>

IsDir(t, i)  == i \in DOMAIN t /\ t[i].kind = "dir"
IsFile(t, i) == i \in DOMAIN t /\ t[i].kind = "file"

\* The first child of that name, or 0.
Lookup(t, p, n) ==
  LET list  == t[p].children
      named == {k \in DOMAIN list : t[list[k]].name = n}
  IN  IF IsDir(t, p) /\ named # {} THEN list[Min(named)] ELSE 0

\* Variant: lists the number of the node before.
AddOneOff(t, node) ==
  LET more == Append(t, [node EXCEPT !.name = San[@]])
  IN  IF IsDir(t, node.parent)
      THEN [more EXCEPT ![node.parent].children = Append(@, Len(t))]
      ELSE more

\* What the add_ functions do; under a parent that is no directory the node is
\* made and listed nowhere.
Add(t, node) ==
  LET more == Append(t, [node EXCEPT !.name = San[@]])
  IN  IF IsDir(t, node.parent)
      THEN [more EXCEPT ![node.parent].children = Append(@, Len(more))]
      ELSE more

\* Nodes some directory lists.
Linked(t) ==
  LET linked[i \in 1 .. Len(t)] ==
        i = Root \/ LET p == t[i].parent IN
                    p # 0 /\ linked[p] /\ i \in Range(t[p].children)
  IN  {i \in 1 .. Len(t) : linked[i]}

AddDirectory(t, p, n)     == Add(t, Dir(p, n))
AddStaticFile(t, p, n)    == Add(t, File(p, n, Static))
AddRemoteFile(t, p, n, b) == Add(t, File(p, n, b))
AddLocalFile(t, p, n)     == Add(t, File(p, n, Local))

\* create() makes a file that is Static and empty.
AddFileToDir(t, p, n) == Add(t, File(p, n, Static))

AddLazyDir(t, p, n) == Add(t, [Dir(p, n) EXCEPT !.lazy = TRUE])

\* The tree, and the inode the caller goes on with.
GetOrCreateDir(t, p, n) ==
  LET found == Lookup(t, p, n)
  IN  IF found # 0 THEN [tree |-> t, ino |-> found]
      ELSE [tree |-> AddDirectory(t, p, n), ino |-> Len(t) + 1]

\* Goes down a path, making what is missing.
GetOrCreateFrom(t, p, path) ==
  LET at[k \in 0 .. Len(path)] ==
        IF k = 0 THEN [tree |-> t, ino |-> p]
        ELSE GetOrCreateDir(at[k - 1].tree, at[k - 1].ino, path[k])
  IN  at[Len(path)]

GetOrCreatePath(t, path) == GetOrCreateFrom(t, Root, path)

\* children.retain
Drop(t, p, i) == [t EXCEPT ![p].children = Only(@, Range(@) \ {i})]

SetContent(t, i, c) == [t EXCEPT ![i].content = c]

-----------------------------------------------------------------------------
(* Building.                                                               *)

\* by-sha256 has a blob of that hash.
Seen(t, dir, b) == \E c \in Range(t[dir].children) : ShaOf[t[c].content] = ShaOf[b]

\* by-sha256 has each blob once, by-type and by-date once per descriptor.
AddDescriptor(t, dirs, b) ==
  LET one == IF Seen(t, dirs.sha, b) THEN t ELSE AddRemoteFile(t, dirs.sha, NameOf[b], b)
      ty  == GetOrCreateDir(one, dirs.type, TypeOf[b])
      two == AddRemoteFile(ty.tree, ty.ino, NameOf[b], b)
      day == GetOrCreateFrom(two, dirs.date, DayOf[b])
  IN  AddRemoteFile(day.tree, day.ino, NameOf[b], b)

BuildFromDescriptors(t, p, blobs) ==
  LET dirs == [sha |-> Len(t) + 1, type |-> Len(t) + 2, date |-> Len(t) + 3]
      base == AddDirectory(AddDirectory(AddDirectory(t, p, "by-sha256"), p, "by-type"),
                  p, "by-date")
      add[k \in 0 .. Len(blobs)] ==
        IF k = 0 THEN base ELSE AddDescriptor(add[k - 1], dirs, blobs[k])
  IN  add[Len(blobs)]

\* by-sha256 alone, of what all servers have together.
BuildBySha256Only(t, p, blobs) ==
  LET dir == Len(t) + 1
      add[k \in 0 .. Len(blobs)] ==
        IF k = 0 THEN AddDirectory(t, p, "by-sha256")
        ELSE IF Seen(add[k - 1], dir, blobs[k]) THEN add[k - 1]
        ELSE AddRemoteFile(add[k - 1], dir, NameOf[blobs[k]], blobs[k])
  IN  add[Len(blobs)]

\* walk_repo_tree: one new node per entry, whatever the directory has already.
WalkRepo(t, d) ==
  LET ino(k) == IF k = 0 THEN d ELSE Len(t) + k
      walk[k \in 0 .. Len(Repo)] ==
        IF k = 0 THEN t
        ELSE LET e == Repo[k] IN
             IF e.kind = "dir" THEN AddDirectory(walk[k - 1], ino(e.up), e.name)
             ELSE AddLocalFile(walk[k - 1], ino(e.up), e.name)
  IN  walk[Len(Repo)]

-----------------------------------------------------------------------------
(* Persistence.                                                            *)

\* The path of a node from the root.  Parents come before their children.
PathOf(t) ==
  LET path[i \in 0 .. Len(t)] ==
        IF i <= Root THEN <<>> ELSE Append(path[t[i].parent], t[i].name)
  IN  path

\* collect_persist: a node's own tag, then those of its children, but for what
\* begins with "/public".
PersistTags(t) ==
  LET path == PathOf(t)
      own(i) == IF t[i].kind = "dir"
                THEN <<[tag |-> "folder", path |-> path[i], content |-> None]>>
                ELSE IF t[i].content \in {Static, Local} THEN <<>>
                ELSE <<[tag |-> "x", path |-> path[i], content |-> t[i].content]>>
      below[i \in 1 .. Len(t)] ==  \* children come after their parents
        LET sub == Only(t[i].children,
                        {c \in Range(t[i].children) : path[c][1] \notin Published})
        IN  (IF i = Root THEN <<>> ELSE own(i))
              \o FlattenSeq([k \in 1 .. Len(sub) |-> below[sub[k]]])
  IN  below[Root]

\* An x tag makes the directories on its way; a name that is taken stays, and
\* no name is no file.
ApplyTag(t, tag) ==
  IF tag.tag = "folder" THEN GetOrCreatePath(t, tag.path).tree
  ELSE LET dir == GetOrCreatePath(t, Front(tag.path))
           n   == Last(tag.path)
       IN  IF n = "" \/ Lookup(dir.tree, dir.ino, n) # 0 THEN dir.tree
           ELSE AddRemoteFile(dir.tree, dir.ino, n, tag.content)

\* Variant: the x tags make the directories they need, so do without folders.
ApplyFilesOnly(t, tags) ==
  LET files == Only(tags, {g \in Range(tags) : g.tag = "x"})
      apply[k \in 0 .. Len(files)] ==
        IF k = 0 THEN t ELSE ApplyTag(apply[k - 1], files[k])
  IN  apply[Len(files)]

\* First the folders, then the files.
ApplyPersisted(t, tags) ==
  LET is(kind) == Only(tags, {g \in Range(tags) : g.tag = kind})
      all == is("folder") \o is("x")
      apply[k \in 0 .. Len(all)] ==
        IF k = 0 THEN t ELSE ApplyTag(apply[k - 1], all[k])
  IN  apply[Len(all)]
=============================================================================
