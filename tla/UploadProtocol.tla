--------------------------- MODULE UploadProtocol ---------------------------
(***************************************************************************)
(* The requests behind do_upload (src/src/fuse/fs.rs) and their retries:   *)
(* dedup HEAD and lease extension, preflight, the resumable multipart      *)
(* upload with its session file, the single-shot PUT it falls back to, and *)
(* payment on HTTP 402 (src/src/blossom/client.rs).                        *)
(*                                                                         *)
(* Session files are named by the content's hash, so only uploads of the   *)
(* same content meet: there is one content here, one blob, one session     *)
(* file, and several uploads in mounts that share a cache directory.  The  *)
(* server is external: it answers anything, drops sessions when it likes,  *)
(* and an answer may be lost after the request was obeyed.                 *)
(***************************************************************************)
EXTENDS Naturals, FiniteSets

CONSTANTS
  Uploads,      \* FUSE threads that upload the content
  Mounts,
  MountOf,      \* the mount of each
  Multipart,    \* those of mounts whose multipart_threshold the content exceeds
  Total,        \* the number of parts the server divides it into
  MaxAttempts,  \* 3 in do_upload
  MaxSessions,  \* bound: sessions the server opens
  MaxCalls,     \* bound: do_upload calls per thread
  MayExpire,    \* whether sessions end, on the server or by expires_at
  Killable      \* the mounts that may be killed

ASSUME UploadAssumption ==
  /\ MountOf \in [Uploads -> Mounts]
  /\ Multipart \subseteq Uploads
  /\ Total \in Nat \ {0}
  /\ MaxAttempts \in Nat \ {0}
  /\ MaxSessions \in Nat
  /\ MaxCalls \in Nat
  /\ MayExpire \in BOOLEAN
  /\ Killable \subseteq Mounts

Parts    == 1 .. Total
Ids      == 1 .. MaxSessions
NoId     == 0
Sessions == [id : Ids \union {NoId}, parts : SUBSET Parts]

VARIABLES
  \* the server
  stored,     \* it has the blob
  received,   \* the parts it has of each session
  alive,      \* the sessions it accepts requests for
  nextId,
  \* the session file, shared and durable
  file,       \* missing, empty (truncated), torn, or whole
  saved,      \* what a whole one says
  writers,    \* uploads that have the present file open for writing
  past,       \* sessions whose expires_at is over
  \* locals of each upload
  pc,
  session,    \* MultipartSession
  attempt,
  \* observations
  result,
  calls,
  spent       \* payments of this call, but for those sent with a request that
              \* ended without a proper answer

serverVars == <<stored, received, alive, nextId>>
fileVars   == <<file, saved, writers, past>>
vars == <<serverVars, fileVars, pc, session, attempt, result, calls, spent>>

NoSession == [id |-> NoId, parts |-> {}]

PCs == {"idle", "head", "extend", "extendPay", "extendPaid", "preflight",
        "load", "init", "open", "write", "part", "complete", "delete",
        "put", "pay", "putPaid"}

Init ==
  /\ stored = FALSE
  /\ received = [i \in Ids |-> {}]
  /\ alive = {} /\ nextId = 1
  /\ file = "missing" /\ saved = NoSession /\ writers = {} /\ past = {}
  /\ pc = [u \in Uploads |-> "idle"]
  /\ session = [u \in Uploads |-> NoSession]
  /\ attempt = [u \in Uploads |-> 0]
  /\ result = [u \in Uploads |-> "none"]
  /\ calls = [u \in Uploads |-> 0]
  /\ spent = [u \in Uploads |-> 0]

Goto(u, here, there) == pc[u] = here /\ pc' = [pc EXCEPT ![u] = there]

\* do_upload returns; its locals go.
Done(u, r) ==
  /\ pc' = [pc EXCEPT ![u] = "idle"]
  /\ session' = [session EXCEPT ![u] = NoSession]
  /\ attempt' = [attempt EXCEPT ![u] = 0]
  /\ result' = [result EXCEPT ![u] = r]
  /\ spent' = [spent EXCEPT ![u] = 0]

\* The multipart upload is given up for upload_with_retry's first attempt.
FallBack(u, here) ==
  /\ Goto(u, here, "put")
  /\ session' = [session EXCEPT ![u] = NoSession]
  /\ attempt' = [attempt EXCEPT ![u] = 1]

-----------------------------------------------------------------------------
(* Dedup, lease extension, preflight.                                      *)

Begin(u) ==
  /\ calls[u] < MaxCalls
  /\ Goto(u, "idle", "head")
  /\ calls' = [calls EXCEPT ![u] = @ + 1]
  /\ result' = [result EXCEPT ![u] = "none"]
  /\ UNCHANGED <<serverVars, fileVars, session, attempt, spent>>

\* The blob exists: its lease is extended first when it ends too soon.
HeadExists(u) ==
  /\ pc[u] = "head" /\ stored
  /\ \/ /\ Goto(u, "head", "extend")
        /\ UNCHANGED <<session, attempt, result, spent>>
     \/ Done(u, "ok")
  /\ UNCHANGED <<serverVars, fileVars, calls>>

\* It does not exist, or the check failed.
HeadMisses(u) ==
  /\ Goto(u, "head", "preflight")
  /\ UNCHANGED <<serverVars, fileVars, session, attempt, result, calls, spent>>

\* extend_attempt: success or failure, the upload is over.
ExtendAnswered(u) ==
  /\ pc[u] \in {"extend", "extendPaid"}
  /\ Done(u, "ok")
  /\ UNCHANGED <<serverVars, fileVars, calls>>

ExtendDemandsPayment(u) ==
  /\ Goto(u, "extend", "extendPay")
  /\ UNCHANGED <<serverVars, fileVars, session, attempt, result, calls, spent>>

ExtendPays(u) ==
  /\ Goto(u, "extendPay", "extendPaid")
  /\ spent' = [spent EXCEPT ![u] = @ + 1]
  /\ UNCHANGED <<serverVars, fileVars, session, attempt, result, calls>>

ExtendPayFails(u) ==
  /\ pc[u] = "extendPay"
  /\ Done(u, "ok")
  /\ UNCHANGED <<serverVars, fileVars, calls>>

\* HTTP 413, 415 or 429.
PreflightRejects(u) ==
  /\ pc[u] = "preflight"
  /\ Done(u, "err")
  /\ UNCHANGED <<serverVars, fileVars, calls>>

\* 200, 402, any other status, or no answer.
PreflightPasses(u) ==
  /\ IF u \in Multipart
     THEN Goto(u, "preflight", "load") /\ UNCHANGED attempt
     ELSE /\ Goto(u, "preflight", "put")
          /\ attempt' = [attempt EXCEPT ![u] = 1]
  /\ UNCHANGED <<serverVars, fileVars, session, result, calls, spent>>

-----------------------------------------------------------------------------
(* upload_blob_multipart_resumable.                                        *)

RemoveSessionFile == file' = "missing" /\ saved' = NoSession /\ writers' = {}

\* MultipartSession::load: resume, ...
LoadResumes(u) ==
  /\ file = "whole" /\ saved.id \notin past
  /\ Goto(u, "load", "part")
  /\ session' = [session EXCEPT ![u] = saved]
  /\ UNCHANGED <<serverVars, fileVars, attempt, result, calls, spent>>

\* ... nothing to resume, the file of an expired session is removed, ...
LoadNone(u) ==
  /\ Goto(u, "load", "init")
  /\ \/ file = "missing" /\ UNCHANGED <<file, saved, writers>>
     \/ file = "whole" /\ saved.id \in past /\ RemoveSessionFile
  /\ UNCHANGED <<serverVars, past, session, attempt, result, calls, spent>>

\* ... or a file that does not parse.
LoadFails(u) ==
  /\ file \in {"empty", "torn"}
  /\ FallBack(u, "load")
  /\ UNCHANGED <<serverVars, fileVars, result, calls, spent>>

InitAccepted(u) ==
  /\ nextId \in Ids
  /\ Goto(u, "init", "open")
  /\ nextId' = nextId + 1
  /\ alive' = alive \union {nextId}
  /\ session' = [session EXCEPT ![u] = [id |-> nextId, parts |-> {}]]
  /\ UNCHANGED <<stored, received, fileVars, attempt, result, calls, spent>>

\* 404, 405, 402, any other failure.
InitFails(u) ==
  /\ FallBack(u, "init")
  /\ UNCHANGED <<serverVars, fileVars, result, calls, spent>>

\* save: the file is created or truncated in place ...
SaveOpens(u) ==
  /\ Goto(u, "open", "write")
  /\ file' = "empty"
  /\ saved' = NoSession
  /\ writers' = writers \union {u}
  /\ UNCHANGED <<serverVars, past, session, attempt, result, calls, spent>>

\* ... and written.  Over another upload's text the shorter of the two leaves
\* a tail that does not parse; a file removed meanwhile takes the text along.
SaveWrites(u) ==
  /\ Goto(u, "write", "part")
  /\ IF u \in writers
     THEN /\ \/ file' = "whole" /\ saved' = session[u]
             \/ file # "empty" /\ file' = "torn" /\ saved' = NoSession
          /\ writers' = writers \ {u}
     ELSE UNCHANGED <<file, saved, writers>>
  /\ UNCHANGED <<serverVars, past, session, attempt, result, calls, spent>>

\* An I/O error: fatal for the first save, ignored by the later ones.
SaveFails(u) ==
  /\ pc[u] \in {"open", "write"}
  /\ IF session[u].parts = {}
     THEN FallBack(u, pc[u])
     ELSE /\ pc' = [pc EXCEPT ![u] = "part"]
          /\ UNCHANGED <<session, attempt>>
  /\ writers' = writers \ {u}
  /\ UNCHANGED <<serverVars, file, saved, past, result, calls, spent>>

NextPart(u, p) ==
  /\ p \in Parts \ session[u].parts
  /\ \A q \in Parts \ session[u].parts : p <= q

\* Variant: the part is counted as uploaded whatever the answer.
PartFailureCounted(u) ==
  /\ \E p \in Parts :
       /\ NextPart(u, p)
       /\ session' = [session EXCEPT ![u].parts = @ \union {p}]
  /\ Goto(u, "part", "open")
  /\ UNCHANGED <<serverVars, fileVars, attempt, result, calls, spent>>

\* upload_multipart_part: the part is received and the answer too ...
PartAccepted(u) ==
  /\ session[u].id \in alive
  /\ \E p \in Parts :
       /\ NextPart(u, p)
       /\ received' = [received EXCEPT ![session[u].id] = @ \union {p}]
       /\ session' = [session EXCEPT ![u].parts = @ \union {p}]
  /\ Goto(u, "part", "open")
  /\ UNCHANGED <<stored, alive, nextId, fileVars, attempt, result, calls, spent>>

\* ... or refused, or received and the answer lost: the session file stays and
\* the single-shot upload is next.
PartFails(u) ==
  /\ \E p \in Parts :
       /\ NextPart(u, p)
       /\ \/ UNCHANGED received
          \/ /\ session[u].id \in alive
             /\ received' = [received EXCEPT ![session[u].id] = @ \union {p}]
  /\ FallBack(u, "part")
  /\ UNCHANGED <<stored, alive, nextId, fileVars, result, calls, spent>>

PartsOver(u) ==
  /\ session[u].parts = Parts
  /\ Goto(u, "part", "complete")
  /\ UNCHANGED <<serverVars, fileVars, session, attempt, result, calls, spent>>

\* The server puts the parts of the session together and closes it.
Assemble(i) ==
  /\ i \in alive
  /\ received[i] = Parts
  /\ stored' = TRUE
  /\ alive' = alive \ {i}
  /\ UNCHANGED <<received, nextId>>

\* complete_multipart_upload
CompleteAccepted(u) ==
  /\ Assemble(session[u].id)
  /\ Goto(u, "complete", "delete")
  /\ UNCHANGED <<fileVars, session, attempt, result, calls, spent>>

\* Refused, or obeyed and the answer lost.
CompleteFails(u) ==
  /\ FallBack(u, "complete")
  /\ Assemble(session[u].id) \/ UNCHANGED serverVars
  /\ UNCHANGED <<fileVars, result, calls, spent>>

\* MultipartSession::delete, whichever session the file is of by now.
DeleteSession(u) ==
  /\ pc[u] = "delete"
  /\ RemoveSessionFile
  /\ Done(u, "ok")
  /\ UNCHANGED <<serverVars, past, calls>>

-----------------------------------------------------------------------------
(* upload_with_retry and upload_blob_with_payment.                         *)

Putting(u) == pc[u] \in {"put", "putPaid"}

PutAccepted(u) ==
  /\ Putting(u)
  /\ stored' = TRUE
  /\ Done(u, "ok")
  /\ UNCHANGED <<received, alive, nextId, fileVars, calls>>

WriteOff(u) ==
  spent' = [spent EXCEPT ![u] = IF pc[u] = "putPaid" THEN @ - 1 ELSE @]

\* Variant: the last attempt's failure ends the loop without an error.
RetryForgetsError(u) ==
  IF attempt[u] < MaxAttempts
  THEN /\ attempt' = [attempt EXCEPT ![u] = @ + 1]
       /\ pc' = [pc EXCEPT ![u] = "put"]
       /\ WriteOff(u)
       /\ UNCHANGED <<session, result>>
  ELSE Done(u, "ok")

\* Variant: the attempts are not counted.
RetryForever(u) ==
  /\ pc' = [pc EXCEPT ![u] = "put"]
  /\ WriteOff(u)
  /\ UNCHANGED <<attempt, session, result>>

\* The next attempt starts over without a payment.
Retry(u) ==
  IF attempt[u] < MaxAttempts
  THEN /\ attempt' = [attempt EXCEPT ![u] = @ + 1]
       /\ pc' = [pc EXCEPT ![u] = "put"]
       /\ WriteOff(u)
       /\ UNCHANGED <<session, result>>
  ELSE Done(u, "err")

\* No answer, 429, 5xx, or an answer that does not parse; the blob may have
\* been stored all the same.
PutFailsTransiently(u) ==
  /\ Putting(u)
  /\ stored' \in {stored, TRUE}
  /\ Retry(u)
  /\ UNCHANGED <<received, alive, nextId, fileVars, calls>>

\* Variant: a second 402 is paid as well.
RefusedPaysAgain(u) ==
  /\ Goto(u, "putPaid", "pay")
  /\ UNCHANGED <<serverVars, fileVars, session, attempt, result, calls, spent>>

\* Any other status; after a payment, 402 too.
PutRefused(u) ==
  /\ Putting(u)
  /\ Done(u, "err")
  /\ UNCHANGED <<serverVars, fileVars, calls>>

PutDemandsPayment(u) ==
  /\ Goto(u, "put", "pay")
  /\ UNCHANGED <<serverVars, fileVars, session, attempt, result, calls, spent>>

Pay(u) ==
  /\ Goto(u, "pay", "putPaid")
  /\ spent' = [spent EXCEPT ![u] = @ + 1]
  /\ UNCHANGED <<serverVars, fileVars, session, attempt, result, calls>>

PayFails(u) ==
  /\ pc[u] = "pay"
  /\ Done(u, "err")
  /\ UNCHANGED <<serverVars, fileVars, calls>>

-----------------------------------------------------------------------------
(* Around the uploads.                                                     *)

\* The server forgets a session, or the session's expires_at passes.
ServerDrops(i) ==
  /\ MayExpire /\ i \in alive
  /\ alive' = alive \ {i}
  /\ UNCHANGED <<stored, received, nextId, fileVars, pc, session, attempt, result,
                 calls, spent>>

Expires(i) ==
  /\ MayExpire /\ i < nextId
  /\ past' = past \union {i}
  /\ UNCHANGED <<serverVars, file, saved, writers, pc, session, attempt, result,
                 calls, spent>>

\* A mount is killed: the session file stays as it is.
Kill(m) ==
  LET Lost(f, v) == [u \in Uploads |-> IF MountOf[u] = m THEN v ELSE f[u]] IN
  /\ m \in Killable
  /\ pc' = Lost(pc, "idle")
  /\ session' = Lost(session, NoSession)
  /\ attempt' = Lost(attempt, 0)
  /\ result' = Lost(result, "none")
  /\ spent' = Lost(spent, 0)
  /\ writers' = {u \in writers : MountOf[u] # m}
  /\ UNCHANGED <<serverVars, file, saved, past, calls>>

-----------------------------------------------------------------------------
Step(u) ==
  \/ HeadExists(u) \/ HeadMisses(u) \/ ExtendAnswered(u)
  \/ ExtendDemandsPayment(u) \/ ExtendPays(u) \/ ExtendPayFails(u)
  \/ PreflightRejects(u) \/ PreflightPasses(u)
  \/ LoadResumes(u) \/ LoadNone(u) \/ LoadFails(u)
  \/ InitAccepted(u) \/ InitFails(u)
  \/ SaveOpens(u) \/ SaveWrites(u) \/ SaveFails(u)
  \/ PartAccepted(u) \/ PartFails(u) \/ PartsOver(u)
  \/ CompleteAccepted(u) \/ CompleteFails(u) \/ DeleteSession(u)
  \/ PutAccepted(u) \/ PutFailsTransiently(u) \/ PutRefused(u)
  \/ PutDemandsPayment(u) \/ Pay(u) \/ PayFails(u)

Next ==
  \/ \E u \in Uploads : Begin(u) \/ Step(u)
  \/ \E i \in Ids : ServerDrops(i) \/ Expires(i)
  \/ \E m \in Mounts : Kill(m)

Spec == Init /\ [][Next]_vars

\* --http-timeout-secs ends every request, and the wallet has a timeout too.
FairSpec == Spec /\ \A u \in Uploads : WF_vars(Step(u))

-----------------------------------------------------------------------------
\* Among the types: no upload makes more than MaxAttempts single-shot attempts.
TypeOK ==
  /\ stored \in BOOLEAN
  /\ received \in [Ids -> SUBSET Parts]
  /\ alive \in SUBSET Ids
  /\ nextId \in 1 .. (MaxSessions + 1)
  /\ file \in {"missing", "empty", "torn", "whole"}
  /\ saved \in Sessions
  /\ writers \in SUBSET Uploads
  /\ past \in SUBSET Ids
  /\ pc \in [Uploads -> PCs]
  /\ session \in [Uploads -> Sessions]
  /\ attempt \in [Uploads -> 0 .. MaxAttempts]
  /\ result \in [Uploads -> {"none", "ok", "err"}]
  /\ calls \in [Uploads -> Nat]
  /\ spent \in [Uploads -> Nat]

\* Every part that session s lists is among the received ones, rcv.
Truthful(s, rcv) ==
  s.parts = {} \/ (s.id \in Ids /\ s.parts \subseteq rcv[s.id])

\* Neither the session file nor any upload that resumed it claims a part the
\* server never received under that upload_id, however uploads in several
\* mounts overwrite, resume and remove each other's session file, and whenever
\* they are killed: skipping the parts of a session loses none.
SessionTruthful ==
  /\ Truthful(saved, received)
  /\ \A u \in Uploads : Truthful(session[u], received)

\* The server is asked to complete a session only when it has all parts of it.
CompleteIsWhole ==
  \A u \in Uploads :
    pc[u] = "complete" =>
      session[u].id \in Ids /\ received[session[u].id] = Parts

\* Resuming loses no part: what is claimed was received, and what is completed
\* is whole.
SessionsExact == SessionTruthful /\ CompleteIsWhole

\* An upload pays a second time only after a paid request that ended without a
\* proper answer: a server that answers a payment with 402 again is paid once.
PaidAgainOnlyUnheard == \A u \in Uploads : spent[u] <= 1

\* What do_upload's callers see of an upload.
Seen(u) == IF pc[u] # "idle" THEN "busy"
           ELSE IF result[u] = "none" THEN "idle" ELSE result[u]

Service == INSTANCE UploadService
             WITH there <- stored, at <- [u \in Uploads |-> Seen(u)]

\* Uploading implements UploadService: success is only reported for a blob the
\* server has, whichever of HEAD, sessions, fallbacks and attempts it took.
ServiceSafety == Service!Spec

\* The same, and every upload ends.
ServiceSpec == Service!FairSpec
=============================================================================
