-------------------------- MODULE MCUploadProtocol --------------------------
(***************************************************************************)
(* Instances of UploadProtocol and of Lease for TLC.  They share a run and *)
(* nothing else: the uploads move, or the lease does.                      *)
(***************************************************************************)
EXTENDS UploadProtocol, Lease

CONSTANTS m1, m2, u1, u2

\* Two mounts with the same cache directory.
Apart == [u \in Uploads |-> IF u = u1 THEN m1 ELSE m2]

OldLease ==
  /\ clock = Horizon + 1 /\ granted = [c \in Leased |-> Never] /\ entry = Written
  /\ putting = NoPut /\ getting = {} /\ misled = FALSE

BothInit == Init /\ (LeaseInit \/ OldLease)

BothSpec ==
  /\ BothInit
  /\ [][\/ clock > Horizon /\ Next /\ UNCHANGED leaseVars
        \/ clock <= Horizon /\ LeaseNext /\ UNCHANGED vars]_<<vars, leaseVars>>
  /\ \A u \in Uploads : WF_<<vars, leaseVars>>(clock > Horizon /\ Step(u) /\ UNCHANGED leaseVars)
=============================================================================
