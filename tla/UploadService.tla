--------------------------- MODULE UploadService ---------------------------
(***************************************************************************)
(* What uploading one content promises, with no sessions, attempts or      *)
(* payments in sight.  UploadProtocol implements it; WritePath builds on   *)
(* it: its PutStores, PutLost and PutFails are Store and End here.         *)
(***************************************************************************)
CONSTANT Uploads

VARIABLES
  there,  \* the server has the blob
  at      \* idle, busy, or how the last upload ended

vars == <<there, at>>

Init == there = FALSE /\ at = [u \in Uploads |-> "idle"]

Begin(u) ==
  /\ at[u] # "busy"
  /\ at' = [at EXCEPT ![u] = "busy"]
  /\ UNCHANGED there

\* The blob only appears on the server while some upload runs.
Store(u) ==
  /\ at[u] = "busy"
  /\ there' = TRUE
  /\ UNCHANGED at

\* Success is reported only for a blob that is there; failure says nothing.
End(u) ==
  /\ at[u] = "busy"
  /\ \E r \in {"ok", "err"} :
       /\ at' = [at EXCEPT ![u] = r]
       /\ there' \in {there, TRUE}
       /\ r = "ok" => there'

\* The mounts of these uploads die.
Abort(S) ==
  /\ at' = [u \in Uploads |-> IF u \in S THEN "idle" ELSE at[u]]
  /\ UNCHANGED there

Next ==
  \/ \E u \in Uploads : Begin(u) \/ Store(u) \/ End(u)
  \/ \E S \in SUBSET Uploads : Abort(S)

Spec == Init /\ [][Next]_vars

\* Every upload ends.
FairSpec == Spec /\ \A u \in Uploads : WF_vars(End(u))
=============================================================================
