------------------------------ MODULE Sources ------------------------------
(***************************************************************************)
(* What a mount makes of the answers of servers and relays: the parsers of *)
(* src/src/nostr, the filters of src/src/blossom and the tree they become, *)
(* as the loops of run_mount (src/src/main.rs) build it.                   *)
(*                                                                         *)
(* An answer is [ok, is]: whether it came, and what it has.  A tag is a    *)
(* sequence of strings; the path of a drive entry is the sequence of what  *)
(* stands between its slashes.  A builder takes and returns [tree, count], *)
(* count being blob_count.  Texts, URLs in nodes and sizes are left out.   *)
(***************************************************************************)
EXTENDS Tree

CONSTANTS
  Desc,         \* [descriptors -> what a server says of a blob]: sha, valid
                \* (64 digits), http (the scheme of its url), size, mime (or
                \* ""), suffix (of the url), uploaded, ends (or 0)
  MaxBlobSize,
  GuessExt,     \* [MIME types -> extensions], crate mime_guess; "" for none
  HostDir,      \* [URLs -> names], sanitize_hostname: without the port
  WebUrls,      \* the URLs that are http or https
  Shas,         \* 64 hexadecimal digits
  PrimalUrls,   \* URLs with primal.net in them
  OrangeUrls,   \* URLs with orangesync.tech in them
  TollgateNames, \* names that begin with "tollgate-"
  PersistLimit  \* 10, of fetch_persist_event

Absent == "absent"  \* of a field no tag has

NoAnswer   == [ok |-> FALSE, is |-> <<>>]
Answer(x)  == [ok |-> TRUE, is |-> x]
\* The fetch functions take an answer without events for an error.
Fetched(a) == a.ok /\ a.is # <<>>

Empty == [tree |-> NewTree, count |-> 0]

-----------------------------------------------------------------------------
(* Tags.                                                                   *)

Tagged(tags, name, len) ==
  Only(tags, {g \in Range(tags) : Len(g) >= len /\ g[1] = name})

\* A loop over the tags leaves the last value.
LastTag(tags, name, default) ==
  LET found == Tagged(tags, name, 2) IN IF found = <<>> THEN default ELSE Last(found)[2]

Values(tags, name) ==
  LET found == Tagged(tags, name, 2) IN [k \in DOMAIN found |-> found[k][2]]

\* The last x, or else the first ox.
ShaTag(tags) ==
  IF Values(tags, "x") # <<>> THEN Last(Values(tags, "x"))
  ELSE IF Values(tags, "ox") # <<>> THEN Values(tags, "ox")[1]
  ELSE Absent

-----------------------------------------------------------------------------
(* Servers (discovery.rs) and blobs (descriptor.rs, mime.rs, tree.rs).     *)

\* extract_server_urls, over the tags of every event of kind 10063.
ServerUrls(tags) == Only(Values(tags, "server"), WebUrls)

\* run_mount: those of the command line, then the ones found that are new.
EffectiveServers(own, found) ==
  LET add[k \in 0 .. Len(found)] ==
        IF k = 0 THEN own
        ELSE IF Contains(add[k - 1], found[k]) THEN add[k - 1]
        ELSE Append(add[k - 1], found[k])
  IN  add[Len(found)]

Validates(d) == Desc[d].http /\ Desc[d].size <= MaxBlobSize
Validated(ds) == Only(ds, {d \in Range(ds) : Validates(d)})

MimeToExtension(mime) ==
  CASE mime = "image/jpeg" -> "jpg"
    [] mime = "text/plain" -> "txt"
    [] mime \in {"", "application/octet-stream"} -> ""
    [] OTHER -> GuessExt[mime]

UrlExtension(suffix) == IF Len(suffix) \in 1 .. 5 THEN suffix ELSE ""

FileName(d) ==
  LET byMime == MimeToExtension(Desc[d].mime)
      ext    == IF byMime # "" THEN byMime ELSE UrlExtension(Desc[d].suffix)
  IN  IF ext = "" THEN Desc[d].sha ELSE Desc[d].sha \o "." \o ext

TypeDir(d) == IF Desc[d].mime = "" THEN "application_octet-stream" ELSE Desc[d].mime

\* Year, month and day of a Unix time.
UnixToYmd(ts) ==
  LET z   == (ts \div 86400) + 719468
      era == z \div 146097
      doe == z % 146097
      yoe == (doe - (doe \div 1460) + (doe \div 36524) - (doe \div 146096)) \div 365
      doy == doe - (365 * yoe + (yoe \div 4) - (yoe \div 100))
      mp  == (5 * doy + 2) \div 153
      m   == IF mp < 10 THEN mp + 3 ELSE mp - 9
  IN  <<yoe + (era * 400) + (IF m <= 2 THEN 1 ELSE 0), m, doy - ((153 * mp + 2) \div 5) + 1>>

DayDirs(d) == [k \in 1 .. 3 |-> ToString(UnixToYmd(Desc[d].uploaded)[k])]

\* build_from_descriptors passes over what has no SHA-256; blob_count does not.
AddBlobs(b, dir, ds) ==
  [tree |-> BuildFromDescriptors(b.tree, dir, Only(ds, {d \in Range(ds) : Desc[d].valid})),
   count |-> b.count + Len(ds)]

Public(t) == Lookup(t, Root, "public")

AddManifest(b, all) ==
  LET t   == b.tree
      dir == AddDirectory(AddDirectory(AddDirectory(t, Public(t), "local"), Len(t) + 1, "servers"),
                 Len(t) + 2, "manifest")
  IN  AddBlobs([b EXCEPT !.tree = dir], Len(dir), Validated(all))

\* One public key: a directory per server, also for one that does not answer,
\* and all-servers if anything was listed.
AddListings(b, pk, servers, answer) ==
  LET home   == Len(b.tree) + 1
      base   == AddDirectory(AddDirectory(b.tree, Public(b.tree), pk), home, "servers")
      host   == home + 1
      got(k) == Validated(answer[servers[k]].is)
      add[k \in 0 .. Len(servers)] ==
        IF k = 0 THEN [tree |-> base, count |-> b.count]
        ELSE LET with == [add[k - 1] EXCEPT !.tree = AddDirectory(@, host, HostDir[servers[k]])]
             IN  IF answer[servers[k]].ok THEN AddBlobs(with, Len(with.tree), got(k)) ELSE with
      listed == FlattenSeq([k \in DOMAIN servers |-> got(k)])
      all    == add[Len(servers)]
  IN  IF listed = <<>> THEN all
      ELSE [all EXCEPT !.tree =
              BuildBySha256Only(AddDirectory(@, home, "all-servers"), Len(@) + 1,
                                Only(listed, {d \in Range(listed) : Desc[d].valid}))]

Pubkeys(pks) == IF pks = <<>> THEN <<"all">> ELSE pks

AddServers(b, pks, servers, answers) ==
  LET add[k \in 0 .. Len(Pubkeys(pks))] ==
        IF k = 0 THEN b
        ELSE AddListings(add[k - 1], Pubkeys(pks)[k], servers, answers[Pubkeys(pks)[k]])
  IN  add[Len(Pubkeys(pks))]

\* Variant: what has ended is warned of as well.
EndedToo(t, now, within) ==
  {i \in DOMAIN t : /\ t[i].kind = "file" /\ t[i].content \in DOMAIN Desc
                    /\ Desc[t[i].content].ends > 0 /\ Desc[t[i].content].ends <= now + within}

\* collect_expiring_blobs, over every node of the tree.
Expiring(t, now, within) ==
  {i \in DOMAIN t : /\ t[i].kind = "file" /\ t[i].content \in DOMAIN Desc
                    /\ Desc[t[i].content].ends \in now + 1 .. now + within}

-----------------------------------------------------------------------------
(* Drives (legacy_drive.rs).                                               *)

IsEntry(g) ==
  \/ Len(g) >= 3 /\ g[1] = "x" /\ g[2] # "" /\ g[3] # <<>>
  \/ Len(g) >= 2 /\ g[1] = "folder"

Named(path) == Only(path, Range(path) \ {""})

\* Variant: what stands before the last slash is passed over.
AddDriveFileFlat(b, drive, g) ==
  IF g[2] \notin Shas \/ Last(g[3]) = "" THEN b
  ELSE [tree |-> AddRemoteFile(b.tree, drive, Last(g[3]), g[2]), count |-> b.count + 1]

\* add_drive_file
AddDriveFile(b, drive, g) ==
  IF g[2] \notin Shas \/ Last(g[3]) = "" THEN b
  ELSE LET dir == GetOrCreateFrom(b.tree, drive, Named(Front(g[3])))
       IN  [tree |-> AddRemoteFile(dir.tree, dir.ino, Last(g[3]), g[2]), count |-> b.count + 1]

AddDrive(b, pkDir, tags) ==
  LET entries == Only(tags, {g \in Range(tags) : IsEntry(g)})
      drive   == Len(b.tree) + 1
      add[k \in 0 .. Len(entries)] ==
        IF k = 0 THEN [b EXCEPT !.tree = AddDirectory(@, pkDir, LastTag(tags, "d", "default"))]
        ELSE IF entries[k][1] = "x" THEN AddDriveFile(add[k - 1], drive, entries[k])
        ELSE [add[k - 1] EXCEPT !.tree = GetOrCreateFrom(@, drive, Named(entries[k][2])).tree]
  IN  add[Len(entries)]

AddDrives(b, pk, events) ==
  LET base  == AddDirectory(AddDirectory(b.tree, Root, "drives"), Len(b.tree) + 1, pk)
      add[k \in 0 .. Len(events)] ==
        IF k = 0 THEN [b EXCEPT !.tree = base]
        ELSE AddDrive(add[k - 1], Len(b.tree) + 2, events[k])
  IN  add[Len(events)]

-----------------------------------------------------------------------------
(* File metadata (nip94.rs) and releases (tollgate.rs).                    *)

Meta(tags) ==
  [sha |-> ShaTag(tags), url |-> LastTag(tags, "url", Absent),
   filename |-> LastTag(tags, "filename", Absent)]

\* The name in /nip94; one that was used already gets a piece of the hash.
UniqueName(meta, seen) ==
  LET name == IF meta.filename # Absent THEN meta.filename ELSE meta.sha
  IN  [shown |-> IF name \in seen THEN meta.sha \o "-" \o name ELSE name, name |-> name]

\* parse_tollgate_release, before its required fields are asked for; a
\* namespace counts wherever it is.
Release(tags) ==
  [sha |-> ShaTag(tags), urls |-> Values(tags, "url"),
   filename |-> LastTag(tags, "filename", Absent), namespace |-> LastTag(tags, "n", Absent),
   channel |-> LastTag(tags, "c", Absent), version |-> LastTag(tags, "v", Absent),
   architecture |-> LastTag(tags, "A", Absent), device |-> LastTag(tags, "device_id", Absent),
   tollgate |-> Range(Values(tags, "n")) \intersect TollgateNames # {}]

IsRelease(r) ==
  r.tollgate /\ Absent \notin {r.sha, r.filename, r.namespace, r.channel, r.version, r.architecture}

BestUrl(urls) ==
  LET at(S) == SelectSeq(urls, LAMBDA u : u \in S)
  IN  IF at(PrimalUrls) # <<>> THEN at(PrimalUrls)[1]
      ELSE IF at(OrangeUrls) # <<>> THEN at(OrangeUrls)[1]
      ELSE IF urls # <<>> THEN urls[1] ELSE ""

Category(namespace) ==
  CASE namespace = "tollgate-os" -> "os"
    [] namespace = "tollgate-wrt" -> "packages"
    [] OTHER -> namespace

ReleasePath(r) ==
  <<Category(r.namespace), r.channel, r.version,
    IF r.device # Absent THEN r.device ELSE r.architecture>>

\* build_tollgate_tree: the directories also of a release without a URL.
AddReleases(b, releases) ==
  LET root == Len(b.tree) + 1
      add[k \in 0 .. Len(releases)] ==
        IF k = 0 THEN [b EXCEPT !.tree = AddDirectory(@, Root, "tollgate")]
        ELSE LET r   == releases[k]
                 dir == GetOrCreateFrom(add[k - 1].tree, root, ReleasePath(r))
             IN  IF BestUrl(r.urls) = "" THEN [add[k - 1] EXCEPT !.tree = dir.tree]
                 ELSE [tree |-> AddRemoteFile(dir.tree, dir.ino, r.filename, r.sha),
                       count |-> add[k - 1].count + 1]
  IN  IF releases = <<>> THEN b ELSE add[Len(releases)]

ReleasesOf(records) ==
  LET parsed == [k \in DOMAIN records |-> Release(records[k])]
  IN  Only(parsed, {r \in Range(parsed) : IsRelease(r) /\ r.sha \in Shas})

AddNip94(b, pk, records) ==
  LET meta == Len(b.tree) + 1
      dir  == Len(b.tree) + 3
      base == AddDirectory(AddDirectory(AddDirectory(b.tree, Root, "metadata"), Root, "nip94"),
                  Len(b.tree) + 2, pk)
      add[k \in 0 .. Len(records)] ==
        IF k = 0 THEN [tree |-> base, count |-> b.count, seen |-> {}]
        ELSE LET was == add[k - 1]
                 m   == Meta(records[k])
                 one == AddStaticFile(was.tree, meta, m.sha \o ".json")
                 u   == UniqueName(m, was.seen)
             IN  IF m.sha \notin Shas THEN was
                 ELSE IF m.url = Absent THEN [was EXCEPT !.tree = one]
                 ELSE [tree |-> AddRemoteFile(one, dir, u.shown, m.sha),
                       count |-> was.count + 1, seen |-> was.seen \union {u.name}]
      files == add[Len(records)]
  IN  AddReleases([tree |-> files.tree, count |-> files.count], ReleasesOf(records))

-----------------------------------------------------------------------------
(* Repositories (nip34.rs).  An event is [id, tags], or with its kind.     *)

ParseRepo(pk, e) ==
  LET id == LastTag(e.tags, "d", Absent) IN
  [id |-> id, clone |-> Values(e.tags, "clone"), addr |-> "30617:" \o pk \o ":" \o id]

ReposOf(pk, events) ==
  LET parsed == [k \in DOMAIN events |-> ParseRepo(pk, events[k])]
  IN  Only(parsed, {r \in Range(parsed) : r.id # Absent})

\* parse_issue_from_tags, parse_patch_from_tags: which repository, which file.
About(e) == LastTag(e.tags, "a", Absent)

PatchName(e) ==
  IF "cover-letter" \in Range(Values(e.tags, "t")) THEN "0000-cover-letter.patch"
  ELSE e.id \o ".patch"

Filed(e) == IF e.kind = "issue" THEN <<"issues", e.id \o ".md">> ELSE <<"patches", PatchName(e)>>

\* The issues, then the patches of a repository.
FilesOf(repo, events) ==
  LET of(kind) == Only(events, {e \in Range(events) : e.kind = kind /\ About(e) = repo.addr})
      all == of("issue") \o of("patch")
  IN  [k \in DOMAIN all |-> Filed(all[k])]

AddRepo(b, pkDir, repo, events, clone) ==
  LET lazy  == clone /\ repo.clone # <<>>
      dir   == IF lazy THEN [tree |-> AddLazyDir(b.tree, pkDir, repo.id), ino |-> Len(b.tree) + 1]
               ELSE GetOrCreateDir(b.tree, pkDir, repo.id)
      own   == <<<<"INFO.md">>>> \o (IF repo.clone # <<>> THEN <<<<"CLONE_URLS.txt">>>> ELSE <<>>)
      files == own \o FilesOf(repo, events)
      add[k \in 0 .. Len(files)] ==
        IF k = 0 THEN dir.tree
        ELSE LET at == GetOrCreateFrom(add[k - 1], dir.ino, Front(files[k]))
             IN  AddStaticFile(at.tree, at.ino, Last(files[k]))
  IN  [tree |-> add[Len(files)], count |-> b.count + Len(files)]

\* build_nip34_tree; repositories of whom and events of anyone.
AddNip34(b, pk, repoEvents, events, clone) ==
  LET repos == ReposOf(pk, repoEvents)
      git   == AddDirectory(b.tree, Root, "git")
      mine  == GetOrCreateDir(git, Len(git), pk)
      add[k \in 0 .. Len(repos)] ==
        IF k = 0 THEN [b EXCEPT !.tree = mine.tree]
        ELSE AddRepo(add[k - 1], mine.ino, repos[k], events, clone)
  IN  IF repos = <<>> THEN b ELSE add[Len(repos)]
-----------------------------------------------------------------------------
(* The structure published last (persist.rs).  An event is its tags; relays *)
(* answer the newest of the user's application data first.                  *)

\* Variant: the label is not looked at, so that another program's data will do.
IsDriveOfAny(tags, name) == \E g \in Range(tags) : Len(g) >= 2 /\ g[1] = "d" /\ g[2] = name

IsDrive(tags, name) ==
  LET has(t, v) == \E g \in Range(tags) : Len(g) >= 2 /\ g[1] = t /\ g[2] = v
  IN  has("d", name) /\ has("l", "blossomfs")

\* event_to_tags
EventToTags(tags) ==
  Only(tags, {g \in Range(tags) : Len(g) >= 1 /\ g[1] \in {"folder", "x"}})

\* The first that fits among as many as the filter asks for.
FetchPersistEvent(events, name) ==
  LET asked == SubSeq(events, 1, IF Len(events) < PersistLimit THEN Len(events) ELSE PersistLimit)
      found == Only(asked, {e \in Range(asked) : IsDrive(e, name)})
  IN  IF found = <<>> THEN NoAnswer ELSE Answer(EventToTags(found[1]))

\* The tags apply_persisted does something with.
Applied(tags) ==
  LET applies(g) == \/ g[1] = "folder" /\ Len(g) >= 2
                    \/ g[1] = "x" /\ Len(g) >= 4 /\ Named(g[3]) # <<>>
      use == Only(tags, {g \in Range(tags) : applies(g)})
  IN  [k \in DOMAIN use |->
         IF use[k][1] = "folder"
         THEN [tag |-> "folder", path |-> Named(use[k][2]), content |-> None]
         ELSE [tag |-> "x", path |-> Append(Named(Front(use[k][3])), Last(use[k][3])),
               content |-> use[k][2]]]
=============================================================================
