------------------------------- MODULE Config -------------------------------
(***************************************************************************)
(* From the command line, the environment and the configuration file to    *)
(* the arguments of a mount: MountArgs of src/src/cli.rs, load_merged and  *)
(* validate_args of src/src/config.rs, is_explicit of src/src/main.rs, and *)
(* the key parsers of src/src/nostr/keys.rs.                               *)
(*                                                                         *)
(* A layer (flags, environment, file) is a function on the options it      *)
(* gives.  Repeatable options have sequences, the others single values.    *)
(* The parsing of TOML and of the command line is left out.                *)
(***************************************************************************)
EXTENDS Naturals, Sequences, TLC, Lists

CONSTANTS
  KeyForm,     \* [keys -> {"npub", "hex", "mistyped", "other"}]; "mistyped"
               \* begins with npub1 and is no public key
  HexOf,       \* [keys -> keys], the hexadecimal form of those that are one
  Scheme       \* [URLs -> {"http", "ws", "other"}]

\* Options a configuration may have, by the name of their field.
Lists   == {"server", "relay", "nip34_relay"}
Single  == {"npub", "pubkey"}  \* repeatable as flags, one in a file
Scalars == {"manifest", "cache_dir", "read_only", "nsec_file", "nip34_pubkey",
            "nip34_clone", "ttl_secs", "max_write_mb", "free_period_days",
            "max_free_size_mb", "max_cache_size", "multipart_threshold_mb",
            "metrics_port"}
Fields  == Lists \union Single \union Scalars

EnvFields == Fields

Unset == "unset"

\* Flags no configuration has, and what every option is when nobody gives it.
Default ==
  [mountpoint |-> Unset, npub |-> <<>>, pubkey |-> <<>>, server |-> <<>>,
   manifest |-> Unset, cache_dir |-> "/tmp/blossomfs", read_only |-> TRUE,
   nsec_file |-> Unset, dangerous_nsec_arg |-> Unset, relay |-> <<>>,
   nip34_relay |-> <<>>, nip34_pubkey |-> Unset, nip34_clone |-> FALSE,
   ttl_secs |-> 31536000, max_write_mb |-> 1024, multipart_threshold_mb |-> 50,
   write_buffer_mb |-> 64, max_concurrent_uploads |-> 5, http_timeout_secs |-> 30,
   free_period_days |-> 30, max_free_size_mb |-> 1, max_cache_size |-> 0,
   persist |-> Unset, max_blobs |-> 1000, metrics_port |-> Unset,
   config |-> Unset, daemon |-> FALSE, cashu_token_file |-> Unset, nwc_uri |-> Unset]

Options == DOMAIN Default

\* The names merge_into asks is_explicit for.  Those of two words have a
\* hyphen, the ids of the arguments an underscore: a release build finds no
\* argument of that name (a debug build panics).
OneWord == {"npub", "pubkey", "manifest", "server", "relay"}

Explicit(flags, o) == o \in DOMAIN flags /\ o \in OneWord

-----------------------------------------------------------------------------
(* The layers.                                                             *)

\* A file: none given, one that is not there or not TOML, or its options.
NoFile    == [is |-> "none", gives |-> <<>>]
Missing   == [is |-> "missing", gives |-> <<>>]
Garbled   == [is |-> "garbled", gives |-> <<>>]
Toml(f)   == [is |-> "toml", gives |-> f]

\* Figment::merge: the later layer wins, option by option.
Figment(file, env) ==
  LET set == DOMAIN env \intersect EnvFields
  IN  [o \in set \union DOMAIN file.gives |-> IF o \in set THEN env[o] ELSE file.gives[o]]

\* Text that stands where a list is expected, as BLOSSOMFS_SERVER without
\* brackets does.
Plain == <<"plain text">>

\* extract: deny_unknown_fields, and every value has its type.  A file that is
\* not there is an empty one.
Extracts(file, env) ==
  LET c == Figment(file, env) IN
  /\ file.is # "garbled"
  /\ DOMAIN c \subseteq Fields
  /\ \A o \in DOMAIN c \intersect Lists : c[o] # Plain

\* merge_into: what the configuration gives goes over what is not explicit;
\* an empty list gives nothing.
Merged(flags, c) ==
  [o \in Options |->
     IF /\ o \in DOMAIN c
        /\ ~Explicit(flags, o)
        /\ o \in Lists => c[o] # <<>>
     THEN IF o \in Single THEN <<c[o]>> ELSE c[o]
     ELSE IF o \in DOMAIN flags THEN flags[o]
     ELSE Default[o]]

LoadMerged(flags, file, env) == Merged(flags, Figment(file, env))

-----------------------------------------------------------------------------
(* What is mounted with.                                                   *)

IsHex64(k) == KeyForm[k] = "hex"

\* Variant: the rule that read-write mode needs a server is left out.
ValidReadOnlyOrNot(args) ==
  /\ \/ args.npub # <<>> \/ args.pubkey # <<>>
     \/ args.manifest # Unset \/ args.nip34_pubkey # Unset
  /\ \A k \in DOMAIN args.npub : KeyForm[args.npub[k]] # "other"
  /\ \A k \in DOMAIN args.pubkey : IsHex64(args.pubkey[k])
  /\ \A k \in DOMAIN args.server : Scheme[args.server[k]] = "http"
  /\ \A k \in DOMAIN args.relay : Scheme[args.relay[k]] = "ws"
  /\ args.ttl_secs # 0

\* validate_args
Valid(args) ==
  /\ \/ args.npub # <<>> \/ args.pubkey # <<>>
     \/ args.manifest # Unset \/ args.nip34_pubkey # Unset
  /\ \A k \in DOMAIN args.npub : KeyForm[args.npub[k]] # "other"
  /\ \A k \in DOMAIN args.pubkey : IsHex64(args.pubkey[k])
  /\ \A k \in DOMAIN args.server : Scheme[args.server[k]] = "http"
  /\ \A k \in DOMAIN args.relay : Scheme[args.relay[k]] = "ws"
  /\ args.read_only \/ args.server # <<>>
  /\ args.ttl_secs # 0

\* parse_npub: Bech32 only, although Valid lets hexadecimal digits through.
ParsesAsNpub(k) == KeyForm[k] = "npub"

\* resolve_pubkey_hexes: those of --pubkey as they are, then every --npub that
\* can be parsed; the others are passed over.
PubkeyHexes(args) ==
  LET parsed == Only(args.npub, {k \in DOMAIN KeyForm : ParsesAsNpub(k)})
  IN  args.pubkey \o [k \in DOMAIN parsed |-> HexOf[parsed[k]]]
=============================================================================
