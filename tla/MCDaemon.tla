------------------------------ MODULE MCDaemon ------------------------------
(***************************************************************************)
(* An instance of Daemon for TLC: one daemon that is started with several  *)
(* command lines, environments and files against sources that answer or do *)
(* not, and one that only mounts a manifest in the same cache directory.   *)
(***************************************************************************)
EXTENDS Daemon, Names

At == 1700000000
Day == 86400

Forms == [k \in {"npub1a", "npub1x", "aa", "bb", "junk"} |->
            CASE k = "npub1a" -> "npub" [] k = "npub1x" -> "mistyped"
              [] k = "junk" -> "other" [] OTHER -> "hex"]
Hexes == [k \in {"npub1a"} |-> "aa"]
Web   == {"http://h:1", "http://h:2", "http://g"}
Hosts == [u \in Web |-> IF u = "http://g" THEN "g" ELSE "h"]
Schemes == [u \in Web \union {"ws://r", "ftp://x"} |->
              IF u \in Web THEN "http" ELSE IF u = "ws://r" THEN "ws" ELSE "other"]

\* Blobs as servers describe them: s1 in two ways, s2 on a leap day, one that is
\* too big and one without a hash.
Blob(sha, mime, suffix, up, ends) ==
  [sha |-> sha, valid |-> TRUE, http |-> TRUE, size |-> 1, mime |-> mime,
   suffix |-> suffix, uploaded |-> up, ends |-> ends]
Descriptors ==
  [d \in {"d1", "d2", "d3", "d4", "d5", "d6"} |->
     CASE d = "d1" -> Blob("s1", "image/jpeg", "png", 951782400, 0)
       [] d = "d2" -> Blob("s1", "", "png", 1735603200, At + Day)
       [] d = "d3" -> Blob("s2", "video/x", "", 1709164800, At + 7 * Day)
       [] d = "d4" -> Blob("s3", "text/plain", "", 1704067200, At)
       [] d = "d5" -> [Blob("s4", "", "", 0, At + Day) EXCEPT !.size = 3]
       [] d = "d6" -> [Blob("zz", "", "", 0, At + Day) EXCEPT !.valid = FALSE]]

Ext     == [m \in {"video/x"} |-> "vid"]
Sha(d)  == Desc[d].sha
Hashes  == [d \in DOMAIN Desc \union {Static, "s1", "s2", "s3"} |->
              IF d \in DOMAIN Desc THEN Desc[d].sha ELSE d]
TypesOf == [d \in DOMAIN Desc |-> TypeDir(d)]
DaysOf  == [d \in DOMAIN Desc |-> DayDirs(d)]
NamesOf == [d \in DOMAIN Desc |-> FileName(d)]
Sanitized == [n \in STRING |-> IF n = "v1..2" THEN "v1__2" ELSE n]
Digits  == [c \in {"a", "A"} |-> "a"]
NoRepo  == <<>>

Said(tags) == Answer(tags)
FoundServers == {NoAnswer,
  Answer(<<<<"server", "http://g">>, <<"server", "ftp://x">>, <<"server", "http://h:1">>>>)}
ManifestFiles == {NoAnswer, Answer(<<"d5", "d4", "d6">>)}

ListingOf(one, two, three) ==
  [p \in {"aa", "bb", "all"} |->
     [u \in Web |-> IF p = "bb" THEN NoAnswer
                    ELSE CASE u = "http://h:1" -> one [] u = "http://h:2" -> two
                           [] OTHER -> three]]
BlobLists == {ListingOf(NoAnswer, NoAnswer, NoAnswer),
              ListingOf(Answer(<<"d1", "d3">>), Answer(<<"d2", "d5", "d6">>), Answer(<<"d4">>)),
              ListingOf(Answer(<<"d3", "d4", "d1">>), NoAnswer, Answer(<<"d1">>))}

DriveLists == {Answer(<<>>), Answer(
  <<<<<<"d", "v1..2">>, <<"x", "s1", <<"a", "b.txt">>>>, <<"folder", <<"a", "", "c">>>>,
      <<>>, <<"x", "zz", <<"c">>>>, <<"x", "s2", <<"a", "">>>>, <<"x", "s3", <<>>>>,
      <<"x", "s2", <<"a", "", "c", "d">>>>>>,
    <<<<"x", "s3", <<"c">>>>>>>>)}

Firmware(sha, url) ==
  <<<<"x", sha>>, <<"filename", "f">>, <<"n", "tollgate-os">>, <<"c", "stable">>,
    <<"v", "1">>, <<"A", "mips">>>> \o url
MetaLists == {NoAnswer, Answer(
  <<<<<<"ox", "s3">>, <<"x", "s1">>, <<"url", "u1">>, <<"filename", "f">>>>,
    Firmware("s2", <<<<"url", "u2">>, <<"url", "u3">>, <<"device_id", "dev">>>>),
    <<<<"x", "zz">>, <<"url", "u1">>>>,
    Firmware("s3", <<>>),
    <<<<"ox", "s3">>, <<"url", "u1">>>>>>)}

RepoLists == {NoAnswer, Answer(
  <<[id |-> "e1", tags |-> <<<<"d", "lib">>, <<"clone", "git://x">>>>],
    [id |-> "e2", tags |-> <<<<"name", "nameless">>>>],
    [id |-> "e3", tags |-> <<<<"d", "app">>>>]>>)}
IssueLists == {NoAnswer, Answer(
  <<[id |-> "i1", kind |-> "issue", tags |-> <<<<"a", "30617:aa:app">>>>],
    [id |-> "p1", kind |-> "patch", tags |-> <<<<"a", "30617:aa:lib">>, <<"t", "cover-letter">>>>],
    [id |-> "p2", kind |-> "patch", tags |-> <<<<"a", "30617:aa:lib">>>>],
    [id |-> "i2", kind |-> "issue", tags |-> <<<<"a", "30617:bb:app">>>>]>>)}
Drive(name, label) == <<<<"d", name>>, <<"l", label>>>>
SavedLists == {NoAnswer, Answer(<<>>),
  Answer(<<Drive("drive", "notes") \o <<<<"folder", <<"theirs">>>>>>,
           Drive("drive", "blossomfs")
             \o <<<<"x", "s1", <<"mine", "deep", "f">>, "1", "">>, <<"title", "my drive">>,
                  <<"folder", <<"", "mine", "", "empty">>>>, <<"x", "s2", <<"mine", "deep", "f">>, "1">>,
                  <<"x", "s2", <<"top">>, "1", "text/plain">>, <<"x", "s3", <<"mine", "g">>>>,
                  <<"x", "s3", <<"nothing", "">>, "1">>, <<"folder", <<"drives", "aa", "mine">>>>,
                  <<"x", "s1", <<"metadata", "s1.json">>, "1">>, <<"x", "s3", <<"git", "own">>, "1">>>>,
           Drive("drive", "blossomfs") \o <<<<"folder", <<"before">>>>>>>>),
  Answer(<<Drive("other", "blossomfs"), <<<<"d", "drive">>>>, Drive("drive", "notes"),
           Drive("drive", "blossomfs") \o <<<<"folder", <<"late">>>>>>>>)}

Line(f, e, c) == [flags |-> f, env |-> e, file |-> c, exists |-> TRUE]
Home   == [manifest |-> "m.json", pubkey |-> <<"bb">>]
User   == [daemon |-> TRUE, npub |-> <<"npub1a">>, relay |-> <<"ws://r">>, max_blobs |-> 2]
Secret == [nsec_file |-> "key", persist |-> "drive", nwc_uri |-> "uri"]
Git    == [nip34_relay |-> <<"ws://r">>, nip34_pubkey |-> "aa", nip34_clone |-> TRUE]
Rw     == [read_only |-> FALSE, server |-> <<"http://h:1">>]
Lines ==
  {Line(User @@ Secret @@ [server |-> <<"http://h:2">>, read_only |-> TRUE], Rw, NoFile),
   Line(User @@ Git, [server |-> <<"http://h:2", "http://h:1">>, nip34_relay |-> <<>>],
        Toml([server |-> <<"http://g">>, nip34_relay |-> <<"ws://x">>])),
   Line(User @@ Secret, <<>>, Toml([read_only |-> FALSE])),
   Line(User @@ [nip34_pubkey |-> "junk"], Rw, Toml([nsec_file |-> "key", relay |-> <<>>])),
   Line([npub |-> <<"npub1x">>, server |-> <<"http://h:1">>], <<>>, Missing),
   Line([pubkey |-> <<"aa">>], [npub |-> "npub1a"], Toml([pubkey |-> "bb"] @@ Git)),
   Line(Home, [cache_dir |-> "/c"], Toml([manifest |-> "n.json"])),
   Line(Home, [server |-> Plain], NoFile),
   Line(Home, <<>>, Garbled),
   Line(Home, <<>>, Toml([max_blobs |-> 1])),
   Line([server |-> <<"http://h:1">>], <<>>, NoFile),
   [Line(Home, <<>>, NoFile) EXCEPT !.exists = FALSE]}

\* One daemon with a line of its own, or two that are started again and again,
\* in one cache directory or in two.
Alone(l) == [d \in Daemons |-> IF d = "d1" THEN {l} ELSE {}]
Together == [d \in Daemons |-> {Line(Home, <<>>, NoFile)}
               \union (IF d = "d1" THEN {Line(Home @@ [cache_dir |-> "/c"], <<>>, NoFile)} ELSE {})]
Idle     == [d \in Daemons |-> {}]
CommandLines == {Alone(l) : l \in Lines} \union {Together, Idle}

\* Names are given to nobody in particular: where no daemon starts.
NamedInit == Init /\ given \in (IF plan = Idle THEN Strings ELSE {<<>>})
NamedSpec == NamedInit /\ [][Next /\ UNCHANGED given]_<<vars, given>> /\ Fairness
=============================================================================
