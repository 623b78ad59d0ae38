------------------------------- MODULE Names --------------------------------
(***************************************************************************)
(* The names of src/src/util/path.rs: what a mount makes of a name, a type *)
(* or a server somebody else chose.  A name is a sequence of characters;   *)
(* the words the code falls back to are one character each.                *)
(***************************************************************************)
EXTENDS Naturals, Sequences, FiniteSets, SequencesExt, Functions

CONSTANTS
  Chars,      \* the characters names are made of
  Controls,   \* those of them that are control characters
  HostUnsafe, \* those a host may not have: NUL, line ends, * ? " < > | \ /
  Wide,       \* those that take two bytes in UTF-8
  LowerOf,    \* [hexadecimal digits -> their lower case]
  MaxBytes,   \* 255
  HashLength  \* 64

\* Letters are what they are called, and lower case stays lower case.
ASSUME LetterAssumption ==
  /\ MaxBytes \in Nat \ {0} /\ HashLength \in Nat
  /\ {"_", "unnamed", "unknown"} \intersect (Wide \union Controls) = {}
  /\ \A c \in DOMAIN LowerOf : /\ c \notin Wide /\ LowerOf[c] \in DOMAIN LowerOf
                              /\ LowerOf[LowerOf[c]] = LowerOf[c]

VARIABLE given  \* what somebody else chose

Unnamed == <<"unnamed">>
Unknown == <<"unknown">>
Invalid == <<"invalid">>  \* sanitize_sha256 returns an error
Panic   == <<"panic">>    \* String::truncate inside a character

Bytes(s) == Len(s) + Cardinality({k \in DOMAIN s : s[k] \in Wide})

\* The positions of the pairs of dots, from the left, that str::replace finds.
Paired(s) ==
  LET second[k \in 0 .. Len(s)] ==
        k > 1 /\ s[k] = "." /\ s[k - 1] = "." /\ ~second[k - 1]
  IN  {k \in DOMAIN s : second[k] \/ (k < Len(s) /\ second[k + 1])}

\* Variant: a pair becomes one dot.
OneDot(s) ==
  LET pairs(k) == Cardinality(Paired(SubSeq(s, 1, k))) \div 2
      at(k)    == CHOOSE j \in DOMAIN s : k = j - pairs(j)
  IN  [k \in 1 .. Len(s) - pairs(Len(s)) |-> s[at(k)]]

\* str::replace("..", "__")
NoDotDot(s) == [k \in DOMAIN s |-> IF k \in Paired(s) THEN "_" ELSE s[k]]

\* result.pop() until it fits.
Shortened(s) ==
  LET fits == {k \in 0 .. Len(s) : Bytes(SubSeq(s, 1, k)) <= MaxBytes}
  IN  SubSeq(s, 1, CHOOSE k \in fits : \A j \in fits : j <= k)

\* Slashes, backslashes and control characters become "_".
Replaced(s) ==
  [k \in DOMAIN s |-> IF s[k] \in {"/", "\\"} \union Controls THEN "_" ELSE s[k]]

Hidden(s) == \A c \in Range(s) : c = "_"  \* nothing left, or nothing but "_"

\* Variant: ".." becomes ".".
DotForTwo(s) ==
  LET cut == Shortened(OneDot(Replaced(s))) IN IF Hidden(cut) THEN Unnamed ELSE cut

SanitizePathComponent(s) ==
  LET cut == Shortened(NoDotDot(Replaced(s))) IN IF Hidden(cut) THEN Unnamed ELSE cut

SanitizeMimeForPath(s) ==
  IF s = <<>> THEN Unknown
  ELSE SanitizePathComponent([k \in DOMAIN s |-> IF s[k] = "/" THEN "_" ELSE s[k]])

\* What precedes the first character that ends a host.
HostPart(s) ==
  LET ends == {k \in DOMAIN s : s[k] \in {"/", ":", "?", "#"}}
  IN  IF ends = {} THEN s
      ELSE SubSeq(s, 1, (CHOOSE k \in ends : \A j \in ends : k <= j) - 1)

StripScheme(s) ==
  IF s # <<>> /\ Head(s) \in {"https://", "http://"} THEN Tail(s) ELSE s

SanitizeHostname(s) ==
  LET host == HostPart(StripScheme(s))
      kept == NoDotDot([k \in DOMAIN host |-> IF host[k] \in HostUnsafe
                                              THEN "_" ELSE host[k]])
      cut  == Shortened(kept)
  IN  IF Bytes(kept) > MaxBytes /\ Bytes(cut) < MaxBytes THEN Panic
      ELSE IF cut = <<>> THEN Unknown ELSE cut

\* The names of directories for servers: the tree sanitises them once more.
ServerDir(s) ==
  IF SanitizeHostname(s) = Panic THEN Panic
  ELSE SanitizePathComponent(SanitizeHostname(s))

SanitizeSha256(s) ==
  IF Bytes(s) = HashLength /\ Range(s) \subseteq DOMAIN LowerOf
  THEN [k \in DOMAIN s |-> LowerOf[s[k]]] ELSE Invalid

-----------------------------------------------------------------------------
(* What the tree and the mount rely on, of any name they are given.        *)

Strings == BoundedSeq(Chars, MaxBytes + 1)

IsName(s) ==
  /\ ~Hidden(s) /\ Bytes(s) <= MaxBytes
  /\ Range(s) \intersect ({"/", "\\"} \union Controls) = {}
  /\ \A k \in 2 .. Len(s) : ~(s[k] = "." /\ s[k - 1] = ".")

\* Whatever a server, a relay or a program calls a blob, a type or a directory,
\* the tree gives it a name a kernel can use as one component: not empty, no
\* separator, no control character, no "..", not too long
\* (sanitize_path_component, sanitize_mime_for_path).
NamesSafe ==
  IsName(SanitizePathComponent(given)) /\ IsName(SanitizeMimeForPath(given))

\* A name of the tree is its own name, though the add_ functions sanitise what
\* was sanitised before: get_or_create_dir finds the directory it made, a
\* persisted path leads where it led, and the hash of a blob is one hash however
\* often it is normalised.
NamesStable ==
  /\ \A n \in {SanitizePathComponent(given), SanitizeMimeForPath(given), ServerDir(given)} :
       n # Panic => SanitizePathComponent(n) = n
  /\ LET type == SanitizeMimeForPath(given) IN SanitizeMimeForPath(type) = type
  /\ LET hash == SanitizeSha256(given)
     IN  hash # Invalid => SanitizeSha256(hash) = hash

\* A host, with nothing around it.
IsHost(s) ==
  /\ Range(s) \intersect (HostUnsafe \union {":", "/", "?", "#"}) = {}
  /\ Head(s) \notin {"https://", "http://"}

\* A name that is in order is kept, so that the file a program creates is found
\* under the name it gave; and a server's directory is called by its host,
\* whatever scheme, port, path or query its URL has.
NamesKept ==
  IsName(given) =>
    /\ SanitizePathComponent(given) = given
    /\ IsHost(given) => \A scheme \in {<<>>, <<"https://">>, <<"http://">>} :
       \A rest \in {<<>>} \union {<<c>> \o given : c \in {":", "/", "?", "#"}} :
          ServerDir(scheme \o given \o rest) = given

\* Whatever names are given, the tree's are safe, stay what they are, and are the
\* given ones where those are in order.
NamesSound == NamesSafe /\ NamesStable /\ NamesKept
=============================================================================
