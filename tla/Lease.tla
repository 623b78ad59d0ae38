------------------------------- MODULE Lease -------------------------------
(***************************************************************************)
(* How long the server keeps a file's blob, and what the mount says of it: *)
(* the xattr user.blossom.expiry of one file, while the file is truncated, *)
(* read and uploaded and its blob's lease is extended.                     *)
(*                                                                         *)
(* The server is external: it grants every small blob the free period, a   *)
(* paid one what it likes, extends or refuses, and announces a Sunset or   *)
(* does not.  UploadProtocol has the requests' retries and payments and    *)
(* ReadPath the fetch; here each is asked and answered.                    *)
(***************************************************************************)
EXTENDS Naturals

CONSTANTS
  Leased,      \* contents the file may have
  Small,       \* those of at most --max-free-size-mb
  FreePeriod,  \* --free-period-days
  Today,       \* the clock's first value
  Horizon      \* bound: its last

ASSUME LeaseAssumption ==
  /\ Small \subseteq Leased /\ FreePeriod \in Nat \ {0}
  /\ Today \in Nat /\ FreePeriod <= Today /\ Horizon \in Nat

VARIABLES
  clock,
  granted,   \* server: the end of each blob's lease, 0 if it never had the blob
  entry,     \* the tree's node
  putting,   \* do_upload of the file
  getting,   \* the fetches that reads of the file have begun
  misled     \* observation: the node's expiry came from a fetch of other content

leaseVars == <<clock, granted, entry, putting, getting, misled>>

Never     == 0
Written   == [remote |-> FALSE]
File(c, e, u) == [remote |-> TRUE, content |-> c, expires |-> e, uploaded |-> u]
NoPut     == [at |-> "idle"]

Has(c) == granted[c] > clock

\* The file was just created, or its blob is listed, with its expiration or not.
LeaseInit ==
  /\ clock = Today
  /\ granted \in [Leased -> {Never, Today + 1, Today + FreePeriod}]
  /\ \/ entry = Written
     \/ \E c \in Leased :
          /\ Has(c)
          /\ \E e \in {Never, granted[c]} : entry = File(c, e, Today + 1 - FreePeriod)
  /\ putting = NoPut /\ getting = {} /\ misled = FALSE

Tick ==
  /\ clock < Horizon
  /\ clock' = clock + 1
  /\ UNCHANGED <<granted, entry, putting, getting, misled>>

\* create() with O_TRUNC.
Rewrite ==
  /\ entry.remote
  /\ entry' = Written /\ misled' = FALSE
  /\ UNCHANGED <<clock, granted, putting, getting>>

\* read_content takes the content from the node and lets go of the tree, ...
Fetch ==
  /\ entry.remote
  /\ getting' = getting \union {[content |-> entry.content, sunset |-> Never]}
  /\ UNCHANGED <<clock, granted, entry, putting, misled>>

\* ... the server answers, with a Sunset or without, or not at all, ...
Answers(g) ==
  /\ g \in getting /\ g.sunset = Never
  /\ getting' \in {getting \ {g},
                   (getting \ {g}) \union {[g EXCEPT !.sunset = granted[g.content]]}}
  /\ UNCHANGED <<clock, granted, entry, putting, misled>>

\* ... and what it announced is stored, if the file is still, or again, a remote
\* one.
Fetched(g) ==
  /\ g \in getting /\ g.sunset # Never
  /\ getting' = getting \ {g}
  /\ IF entry.remote
     THEN /\ entry' = [entry EXCEPT !.expires = g.sunset]
          /\ misled' = (entry.content # g.content)
     ELSE UNCHANGED <<entry, misled>>
  /\ UNCHANGED <<clock, granted, putting>>

\* A HEAD request that finds the blob, with or without a Sunset.
Head(c) ==
  /\ putting = NoPut /\ ~entry.remote /\ Has(c)
  /\ \E s \in {Never, granted[c]} :
       putting' = [at |-> IF s < clock + FreePeriod THEN "extend" ELSE "known",
                   content |-> c, sunset |-> s, desired |-> clock + FreePeriod]
  /\ UNCHANGED <<clock, granted, entry, getting, misled>>

\* The extension is obeyed or not, and that is answered or not.
Extend ==
  /\ putting.at = "extend"
  /\ putting' = [putting EXCEPT !.at = "known"]
  /\ granted' \in
       {granted, [granted EXCEPT ![putting.content] =
                    IF @ < putting.desired THEN putting.desired ELSE @]}
  /\ UNCHANGED <<clock, entry, getting, misled>>

\* Variant: the extension is taken as granted.
KnownAsDesired ==
  /\ putting.at = "known"
  /\ entry' = File(putting.content,
                   IF putting.sunset < putting.desired THEN putting.desired
                                                       ELSE putting.sunset, Never)
  /\ misled' = FALSE
  /\ putting' = NoPut
  /\ UNCHANGED <<clock, granted, getting>>

\* The file becomes the blob that was found; its expiry is the one announced
\* before the extension.
Known ==
  /\ putting.at = "known"
  /\ entry' = File(putting.content, putting.sunset, Never)
  /\ misled' = FALSE
  /\ putting' = NoPut
  /\ UNCHANGED <<clock, granted, getting>>

\* A PUT, after a HEAD that found nothing or failed: the server grants a new
\* lease, and its descriptor has the time of the upload.
Put(c) ==
  /\ putting = NoPut /\ ~entry.remote
  /\ \E end \in (clock + 1) .. (clock + FreePeriod) :
       /\ c \in Small => end = clock + FreePeriod
       /\ granted' = [granted EXCEPT ![c] = IF @ < end THEN end ELSE @]
  /\ entry' = File(c, Never, clock) /\ misled' = FALSE
  /\ UNCHANGED <<clock, putting, getting>>

LeaseNext ==
  \/ Tick \/ Rewrite \/ Fetch \/ Extend \/ Known
  \/ \E c \in Leased : Head(c) \/ Put(c)
  \/ \E g \in getting : Answers(g) \/ Fetched(g)

LeaseSpec == LeaseInit /\ [][LeaseNext]_leaseVars

-----------------------------------------------------------------------------
\* compute_effective_expiry, Never for none: what the server announced, or the
\* free period of a small file.
EffectiveExpiry ==
  IF ~entry.remote THEN Never
  ELSE IF entry.expires # Never THEN entry.expires
  ELSE IF entry.content \in Small THEN entry.uploaded + FreePeriod
  ELSE Never

\* getxattr of user.blossom.expiry: Never is ENODATA.
Getxattr == EffectiveExpiry

\* user.blossom.expiry promises no more than the server has granted the blob the
\* file shows, whether the expiry was listed, announced to a fetch or to the
\* dedup check, or computed, whether or not a lease extension got through, and
\* however truncation and upload overtake a fetch -- but for the one case that
\* `misled` tells: a fetch begun before a truncation ends after the upload.
ShownIsGranted ==
  entry.remote /\ ~misled => Getxattr <= granted[entry.content]
=============================================================================
