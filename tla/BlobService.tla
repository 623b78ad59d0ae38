---------------------------- MODULE BlobService ----------------------------
(***************************************************************************)
(* What reading remote files promises, with no cache protocol in sight: a  *)
(* lossy store of verified blobs and readers that each ask for one blob    *)
(* and get one answer.  ReadPath implements it (ReadPathRefinement).       *)
(***************************************************************************)
EXTENDS FiniteSets

CONSTANTS Threads, Blobs, NoBlob

VARIABLES
  stored,   \* the verified blobs at hand
  asked,    \* the blob a reader waits for; NoBlob when it is not reading
  sure,     \* the blob has been at hand ever since some moment of the read
            \* from which on the reader relies on it
  reply     \* the answer to the reader's last question

vars == <<stored, asked, sure, reply>>

\* whole: the blob's own bytes.  part: a range of unverified bytes.
Replies == {"none", "whole", "part", "error"}

Init ==
  /\ stored = {}
  /\ asked = [t \in Threads |-> NoBlob]
  /\ sure = [t \in Threads |-> FALSE]
  /\ reply = [t \in Threads |-> "none"]

\* A reader that asks for a blob at hand is sure to be given it.
Ask(t, b) ==
  /\ asked[t] = NoBlob
  /\ asked' = [asked EXCEPT ![t] = b]
  /\ sure' = [sure EXCEPT ![t] = b \in stored]
  /\ reply' = [reply EXCEPT ![t] = "none"]
  /\ UNCHANGED stored

\* Only a reader of the blob brings it in; the other readers of the blob may
\* come to rely on it, and none that did stops.
Store(t) ==
  /\ asked[t] # NoBlob
  /\ stored' = stored \union {asked[t]}
  /\ sure' \in [Threads -> BOOLEAN]
  /\ \A u \in Threads :
       sure'[u] # sure[u] => asked[u] = asked[t] /\ sure'[u]
  /\ UNCHANGED <<asked, reply>>

\* Blobs are evicted and deleted at any time.
Drop(b) ==
  /\ b \in stored
  /\ stored' = stored \ {b}
  /\ sure' = [t \in Threads |-> sure[t] /\ asked[t] # b]
  /\ UNCHANGED <<asked, reply>>

\* A reader that is sure of its blob gets all of it and no error, and no
\* reader is ever told wrong bytes are the whole blob.
Answer(t) ==
  /\ asked[t] # NoBlob
  /\ \E r \in Replies \ {"none"} :
       /\ sure[t] => r = "whole"
       /\ reply' = [reply EXCEPT ![t] = r]
  /\ asked' = [asked EXCEPT ![t] = NoBlob]
  /\ sure' = [sure EXCEPT ![t] = FALSE]
  /\ UNCHANGED stored

\* A mount dies with all its readers; the store outlives it.
Abort(S) ==
  /\ asked' = [t \in Threads |-> IF t \in S THEN NoBlob ELSE asked[t]]
  /\ sure' = [t \in Threads |-> t \notin S /\ sure[t]]
  /\ reply' = [t \in Threads |-> IF t \in S THEN "none" ELSE reply[t]]
  /\ UNCHANGED stored

Next ==
  \/ \E t \in Threads, b \in Blobs : Ask(t, b)
  \/ \E t \in Threads : Store(t) \/ Answer(t)
  \/ \E b \in Blobs : Drop(b)
  \/ \E S \in SUBSET Threads : Abort(S)

Spec == Init /\ [][Next]_vars
=============================================================================
