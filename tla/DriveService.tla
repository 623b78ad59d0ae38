---------------------------- MODULE DriveService ----------------------------
(***************************************************************************)
(* What --persist promises of a user's directories and files, with no tree *)
(* and no tags in sight.  Mount implements it.                             *)
(***************************************************************************)
CONSTANTS
  Paths,
  Blobs,
  Folder,   \* what a directory holds
  Pending   \* what a file holds that is not uploaded

VARIABLES
  up,       \* mounted
  drive,    \* the user's things: pairs of a path and what is there
  saved     \* those of the structure last published

vars == <<up, drive, saved>>

Init == ~up /\ drive = {} /\ saved = {}

\* A mount begins with what was saved, or with nothing if that is not fetched.
Start ==
  /\ ~up /\ up'
  /\ drive' \in {saved, {}}
  /\ UNCHANGED saved

\* What one change makes of a drive.
Makes(was, p, c) == IF \E d \in was : d[1] = p THEN {} ELSE {was \union {<<p, c>>}}
Uploads(was, p, b) ==
  IF <<p, Pending>> \in was THEN {(was \ {<<p, Pending>>}) \union {<<p, b>>}} ELSE {}
Removes(was, p) == {{d \in was : d[1] # p}}

Changed(was) ==
  UNION {Makes(was, p, Folder) \union Makes(was, p, Pending) \union Removes(was, p)
           \union UNION {Uploads(was, p, b) : b \in Blobs} : p \in Paths}

Change ==
  /\ up
  /\ drive' \in Changed(drive)
  /\ UNCHANGED <<up, saved>>

\* Unmounting saves everything but what is not uploaded, or fails to.
Stop ==
  /\ up /\ ~up'
  /\ drive' = {}
  /\ saved' \in {saved, {d \in drive : d[2] # Pending}}

Next == Start \/ Change \/ Stop

Spec == Init /\ [][Next]_vars
=============================================================================
