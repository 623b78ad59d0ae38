------------------------------ MODULE MCMount ------------------------------
(***************************************************************************)
(* An instance of Mount for TLC: two blobs of one type and day, a          *)
(* repository with a file in a directory, and a name that is sanitised.    *)
(***************************************************************************)
EXTENDS Mount, TLC

CONSTANTS b1, b2, n1, n2

Clean   == [n \in {"v1..2"} |-> "v1__2"]
Names   == {"/", "public", "host", "by-sha256", "by-type", "by-date", "type",
            "day", "git", "repo", "INFO.md", "README.txt", "CLONE_FAILED.txt",
            "src", "v1..2", "v1__2"} \union Blobs \union UserNames
Cleaned == [n \in Names |-> IF n \in DOMAIN Clean THEN Clean[n] ELSE n]
OneType == [b \in Blobs |-> "type"]
OneDay  == [b \in Blobs |-> <<"day">>]
Itself  == [b \in Blobs |-> b]
SmallRepo == <<[kind |-> "dir", name |-> "src", up |-> 0],
               [kind |-> "file", name |-> "v1..2", up |-> 1]>>
Listings  == {<<b1, b2>>, <<b2, b1>>}
Alike     == Permutations(Blobs) \union Permutations(UserNames)
=============================================================================
