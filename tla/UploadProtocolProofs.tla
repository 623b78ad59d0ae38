------------------------- MODULE UploadProtocolProofs -------------------------
(***************************************************************************)
(* Proofs about UploadProtocol, for any number of uploads, mounts, parts,  *)
(* sessions and attempts, and about Lease, whatever the contents, the free *)
(* period and the clock.                                                   *)
(***************************************************************************)
EXTENDS UploadProtocol, Lease, TLAPS

-----------------------------------------------------------------------------
(* Types.                                                                  *)

\* The empty session is a session.
LEMMA NoSessionType == NoSession \in Sessions
BY DEF NoSession, Sessions

\* Moving to another program counter.
LEMMA GotoType ==
  ASSUME TypeOK, NEW u \in Uploads, NEW here, NEW there \in PCs, Goto(u, here, there)
  PROVE  pc' \in [Uploads -> PCs]
BY DEF TypeOK, Goto

\* The end of a call.
LEMMA DoneType ==
  ASSUME TypeOK, NEW u \in Uploads, NEW r \in {"ok", "err"}, Done(u, r)
  PROVE  /\ pc' \in [Uploads -> PCs]
         /\ session' \in [Uploads -> Sessions]
         /\ attempt' \in [Uploads -> 0 .. MaxAttempts]
         /\ result' \in [Uploads -> {"none", "ok", "err"}]
         /\ spent' \in [Uploads -> Nat]
<1>1. pc' \in [Uploads -> PCs]
  BY DEF TypeOK, Done, PCs
<1>2. session' \in [Uploads -> Sessions]
  BY NoSessionType DEF TypeOK, Done
<1>3. attempt' \in [Uploads -> 0 .. MaxAttempts]
  BY UploadAssumption DEF TypeOK, Done
<1>4. result' \in [Uploads -> {"none", "ok", "err"}]
  BY DEF TypeOK, Done
<1>5. spent' \in [Uploads -> Nat]
  BY DEF TypeOK, Done
<1>6. QED  BY <1>1, <1>2, <1>3, <1>4, <1>5

\* The first single-shot attempt.
LEMMA FallBackType ==
  ASSUME TypeOK, NEW u \in Uploads, NEW here, FallBack(u, here)
  PROVE  /\ pc' \in [Uploads -> PCs]
         /\ session' \in [Uploads -> Sessions]
         /\ attempt' \in [Uploads -> 0 .. MaxAttempts]
<1>1. pc' \in [Uploads -> PCs]
  BY DEF TypeOK, FallBack, Goto, PCs
<1>2. session' \in [Uploads -> Sessions]
  BY NoSessionType DEF TypeOK, FallBack
<1>3. attempt' \in [Uploads -> 0 .. MaxAttempts]
  BY UploadAssumption DEF TypeOK, FallBack
<1>4. QED  BY <1>1, <1>2, <1>3

\* What an upload has paid and not written off: one payment, and only while
\* the paid request is under way.
SpentInv ==
  \A u \in Uploads :
    spent[u] = IF pc[u] \in {"extendPaid", "putPaid"} THEN 1 ELSE 0

\* Every step of an upload keeps the types.
LEMMA StepType ==
  ASSUME TypeOK, SpentInv, NEW u \in Uploads, Step(u)
  PROVE  TypeOK'
<1>1. CASE HeadExists(u)
  <2>1. UNCHANGED <<serverVars, fileVars, calls>>
    BY <1>1 DEF HeadExists
  <2>2. CASE Done(u, "ok")
    BY <2>1, <2>2, DoneType DEF TypeOK, serverVars, fileVars
  <2>3. CASE Goto(u, "head", "extend") /\ UNCHANGED <<session, attempt, result, spent>>
    <3>1. pc' \in [Uploads -> PCs]
      BY <2>3, GotoType DEF PCs
    <3>2. QED  BY <2>1, <2>3, <3>1 DEF TypeOK, serverVars, fileVars
  <2>4. QED  BY <1>1, <2>2, <2>3 DEF HeadExists
<1>2. CASE HeadMisses(u)
  BY <1>2 DEF TypeOK, HeadMisses, Goto, serverVars, fileVars, PCs, Sessions, NoSession
<1>3. CASE ExtendAnswered(u)
  <2>1. Done(u, "ok")
    BY <1>3 DEF ExtendAnswered
  <2>2. UNCHANGED <<serverVars, fileVars, calls>>
    BY <1>3 DEF ExtendAnswered
  <2>3. QED  BY <2>1, <2>2, DoneType DEF TypeOK, serverVars, fileVars
<1>4. CASE ExtendDemandsPayment(u)
  BY <1>4 DEF TypeOK, ExtendDemandsPayment, Goto, serverVars, fileVars, PCs, Sessions, NoSession
<1>5. CASE ExtendPays(u)
  BY <1>5 DEF TypeOK, ExtendPays, Goto, serverVars, fileVars, PCs, Sessions, NoSession
<1>6. CASE ExtendPayFails(u)
  <2>1. Done(u, "ok")
    BY <1>6 DEF ExtendPayFails
  <2>2. UNCHANGED <<serverVars, fileVars, calls>>
    BY <1>6 DEF ExtendPayFails
  <2>3. QED  BY <2>1, <2>2, DoneType DEF TypeOK, serverVars, fileVars
<1>7. CASE PreflightRejects(u)
  <2>1. Done(u, "err")
    BY <1>7 DEF PreflightRejects
  <2>2. UNCHANGED <<serverVars, fileVars, calls>>
    BY <1>7 DEF PreflightRejects
  <2>3. QED  BY <2>1, <2>2, DoneType DEF TypeOK, serverVars, fileVars
<1>8. CASE PreflightPasses(u)
  <2>1. pc' \in [Uploads -> PCs]
    BY <1>8, GotoType DEF PreflightPasses, PCs
  <2>2. attempt' \in [Uploads -> 0 .. MaxAttempts]
    BY <1>8, UploadAssumption DEF PreflightPasses, TypeOK
  <2>3. QED  BY <1>8, <2>1, <2>2 DEF PreflightPasses, TypeOK, serverVars, fileVars
<1>9. CASE LoadResumes(u)
  BY <1>9 DEF TypeOK, LoadResumes, Goto, serverVars, fileVars, PCs, Sessions, NoSession
<1>10. CASE LoadNone(u)
  BY <1>10 DEF TypeOK, LoadNone, Goto, RemoveSessionFile, serverVars, PCs, Sessions, NoSession
<1>11. CASE LoadFails(u)
  <2>1. FallBack(u, "load") /\ UNCHANGED <<serverVars, fileVars, result, calls, spent>>
    BY <1>11 DEF LoadFails
  <2>2. QED  BY <2>1, FallBackType DEF TypeOK, serverVars, fileVars
<1>12. CASE InitAccepted(u)
  <2>1. pc' \in [Uploads -> PCs]
    BY <1>12, GotoType DEF InitAccepted, PCs
  <2>2. nextId' \in 1 .. (MaxSessions + 1) /\ alive' \in SUBSET Ids
    BY <1>12, UploadAssumption DEF InitAccepted, TypeOK, Ids
  <2>3. [id |-> nextId, parts |-> {}] \in Sessions
    BY <1>12 DEF InitAccepted, Sessions
  <2>4. session' \in [Uploads -> Sessions]
    BY <1>12, <2>3 DEF InitAccepted, TypeOK
  <2>5. QED  BY <1>12, <2>1, <2>2, <2>4 DEF InitAccepted, TypeOK, fileVars
<1>13. CASE InitFails(u)
  <2>1. FallBack(u, "init") /\ UNCHANGED <<serverVars, fileVars, result, calls, spent>>
    BY <1>13 DEF InitFails
  <2>2. QED  BY <2>1, FallBackType DEF TypeOK, serverVars, fileVars
<1>14. CASE SaveOpens(u)
  BY <1>14 DEF TypeOK, SaveOpens, Goto, serverVars, PCs, Sessions, NoSession
<1>15. CASE SaveWrites(u)
  BY <1>15 DEF TypeOK, SaveWrites, Goto, serverVars, PCs, Sessions, NoSession
<1>16. CASE SaveFails(u)
  <2>1. writers' \in SUBSET Uploads
    BY <1>16 DEF SaveFails, TypeOK
  <2>2. /\ pc' \in [Uploads -> PCs]
        /\ session' \in [Uploads -> Sessions]
        /\ attempt' \in [Uploads -> 0 .. MaxAttempts]
    <3>1. CASE FallBack(u, pc[u])
      BY <3>1, FallBackType
    <3>2. CASE pc' = [pc EXCEPT ![u] = "part"] /\ UNCHANGED <<session, attempt>>
      BY <3>2 DEF TypeOK, PCs
    <3>3. QED  BY <1>16, <3>1, <3>2 DEF SaveFails
  <2>3. QED  BY <1>16, <2>1, <2>2 DEF SaveFails, TypeOK, serverVars
<1>17. CASE PartAccepted(u)
  BY <1>17 DEF TypeOK, PartAccepted, Goto, NextPart, fileVars, PCs, Sessions, NoSession
<1>18. CASE PartFails(u)
  <2>1. received' \in [Ids -> SUBSET Parts]
    BY <1>18 DEF PartFails, TypeOK
  <2>2. FallBack(u, "part")
        /\ UNCHANGED <<stored, alive, nextId, fileVars, result, calls, spent>>
    BY <1>18 DEF PartFails
  <2>3. QED  BY <2>1, <2>2, FallBackType DEF TypeOK, fileVars
<1>19. CASE PartsOver(u)
  BY <1>19 DEF TypeOK, PartsOver, Goto, serverVars, fileVars, PCs, Sessions, NoSession
<1>20. CASE CompleteAccepted(u)
  BY <1>20 DEF TypeOK, CompleteAccepted, Goto, Assemble, fileVars, PCs, Sessions, NoSession
<1>21. CASE CompleteFails(u)
  <2>1. stored' \in BOOLEAN /\ alive' \in SUBSET Ids /\ UNCHANGED <<received, nextId>>
    BY <1>21 DEF CompleteFails, Assemble, TypeOK, serverVars
  <2>2. FallBack(u, "complete") /\ UNCHANGED <<fileVars, result, calls, spent>>
    BY <1>21 DEF CompleteFails
  <2>3. QED  BY <2>1, <2>2, FallBackType DEF TypeOK, fileVars
<1>22. CASE DeleteSession(u)
  <2>1. Done(u, "ok") /\ UNCHANGED <<serverVars, past, calls>>
    BY <1>22 DEF DeleteSession
  <2>2. file' = "missing" /\ saved' \in Sessions /\ writers' = {}
    BY <1>22, NoSessionType DEF DeleteSession, RemoveSessionFile
  <2>3. QED  BY <2>1, <2>2, DoneType DEF TypeOK, serverVars
<1>23. CASE PutAccepted(u)
  <2>1. Done(u, "ok") /\ stored' = TRUE
        /\ UNCHANGED <<received, alive, nextId, fileVars, calls>>
    BY <1>23 DEF PutAccepted
  <2>2. QED  BY <2>1, DoneType DEF TypeOK, fileVars
<1>24. CASE PutFailsTransiently(u)
  <2>1. stored' \in BOOLEAN /\ UNCHANGED <<received, alive, nextId, fileVars, calls>>
    BY <1>24 DEF PutFailsTransiently, TypeOK
  <2>2. CASE Done(u, "err")
    BY <2>1, <2>2, DoneType DEF TypeOK, fileVars
  <2>3. CASE attempt[u] < MaxAttempts
    <3>1. /\ attempt' = [attempt EXCEPT ![u] = @ + 1]
          /\ pc' = [pc EXCEPT ![u] = "put"]
          /\ WriteOff(u)
          /\ UNCHANGED <<session, result>>
      BY <1>24, <2>3 DEF PutFailsTransiently, Retry
    <3>2. attempt' \in [Uploads -> 0 .. MaxAttempts]
      BY <2>3, <3>1, UploadAssumption DEF TypeOK
    <3>3. pc' \in [Uploads -> PCs]
      BY <3>1 DEF TypeOK, PCs
    <3>4. spent' \in [Uploads -> Nat]
      <4>1. pc[u] = "putPaid" => spent[u] = 1
        BY DEF SpentInv
      <4>2. QED  BY <3>1, <4>1 DEF TypeOK, WriteOff
    <3>5. QED  BY <2>1, <3>1, <3>2, <3>3, <3>4 DEF TypeOK, fileVars
  <2>4. QED  BY <1>24, <2>2, <2>3 DEF PutFailsTransiently, Retry
<1>25. CASE PutRefused(u)
  <2>1. Done(u, "err")
    BY <1>25 DEF PutRefused
  <2>2. UNCHANGED <<serverVars, fileVars, calls>>
    BY <1>25 DEF PutRefused
  <2>3. QED  BY <2>1, <2>2, DoneType DEF TypeOK, serverVars, fileVars
<1>26. CASE PutDemandsPayment(u)
  BY <1>26 DEF TypeOK, PutDemandsPayment, Goto, serverVars, fileVars, PCs, Sessions, NoSession
<1>27. CASE Pay(u)
  BY <1>27 DEF TypeOK, Pay, Goto, serverVars, fileVars, PCs, Sessions, NoSession
<1>28. CASE PayFails(u)
  <2>1. Done(u, "err")
    BY <1>28 DEF PayFails
  <2>2. UNCHANGED <<serverVars, fileVars, calls>>
    BY <1>28 DEF PayFails
  <2>3. QED  BY <2>1, <2>2, DoneType DEF TypeOK, serverVars, fileVars
<1>29. QED
  BY <1>1, <1>2, <1>3, <1>4, <1>5, <1>6, <1>7, <1>8, <1>9, <1>10, <1>11, <1>12, <1>13, <1>14, <1>15, <1>16, <1>17, <1>18, <1>19, <1>20, <1>21, <1>22, <1>23, <1>24, <1>25, <1>26, <1>27, <1>28 DEF Step

\* The other actions keep the types.
LEMMA BeginType ==
  ASSUME TypeOK, NEW u \in Uploads, Begin(u)
  PROVE  TypeOK'
BY DEF TypeOK, Begin, Goto, serverVars, fileVars, PCs

LEMMA KillType ==
  ASSUME TypeOK, NEW m \in Mounts, Kill(m)
  PROVE  TypeOK'
<1>1. pc' \in [Uploads -> PCs]
  BY DEF TypeOK, Kill, PCs
<1>2. session' \in [Uploads -> Sessions]
  BY NoSessionType DEF TypeOK, Kill
<1>3. attempt' \in [Uploads -> 0 .. MaxAttempts]
  BY UploadAssumption DEF TypeOK, Kill
<1>4. result' \in [Uploads -> {"none", "ok", "err"}]
  BY DEF TypeOK, Kill
<1>5. spent' \in [Uploads -> Nat]
  BY DEF TypeOK, Kill
<1>6. writers' \in SUBSET Uploads
  BY DEF TypeOK, Kill
<1>7. QED  BY <1>1, <1>2, <1>3, <1>4, <1>5, <1>6 DEF TypeOK, Kill, serverVars

LEMMA ServerType ==
  ASSUME TypeOK, NEW i \in Ids, ServerDrops(i) \/ Expires(i)
  PROVE  TypeOK'
BY DEF TypeOK, ServerDrops, Expires, serverVars, fileVars

-----------------------------------------------------------------------------
(* What every step of an upload has in common.                             *)

\* A session that has completed, or a HEAD that found the blob, leaves it on
\* the server.
StoredInv ==
  \A u \in Uploads :
    pc[u] \in {"extend", "extendPay", "extendPaid", "delete"} => stored

\* A step of an upload touches no other upload, never removes the blob, and
\* ends the call with success only when the blob is there.
LEMMA StepShape ==
  ASSUME TypeOK, StoredInv, NEW u \in Uploads, Step(u)
  PROVE  /\ pc[u] # "idle"
         /\ calls' = calls
         /\ stored => stored'
         /\ stored' \in {stored, TRUE}
         /\ \A w \in Uploads : w # u =>
              /\ pc'[w] = pc[w]
              /\ session'[w] = session[w]
              /\ spent'[w] = spent[w]
              /\ result'[w] = result[w]
         /\ pc'[u] # "idle" => result'[u] = result[u]
         /\ pc'[u] = "idle" =>
              /\ result'[u] \in {"ok", "err"}
              /\ result'[u] = "ok" => stored'
<1>1. CASE HeadExists(u)
  BY <1>1 DEF HeadExists, Goto, Done, serverVars, fileVars, TypeOK, StoredInv
<1>2. CASE HeadMisses(u)
  BY <1>2 DEF HeadMisses, Goto, serverVars, fileVars, TypeOK, StoredInv
<1>3. CASE ExtendAnswered(u)
  BY <1>3 DEF ExtendAnswered, Done, serverVars, fileVars, TypeOK, StoredInv
<1>4. CASE ExtendDemandsPayment(u)
  BY <1>4 DEF ExtendDemandsPayment, Goto, serverVars, fileVars, TypeOK, StoredInv
<1>5. CASE ExtendPays(u)
  BY <1>5 DEF ExtendPays, Goto, serverVars, fileVars, TypeOK, StoredInv
<1>6. CASE ExtendPayFails(u)
  BY <1>6 DEF ExtendPayFails, Done, serverVars, fileVars, TypeOK, StoredInv
<1>7. CASE PreflightRejects(u)
  BY <1>7 DEF PreflightRejects, Done, serverVars, fileVars, TypeOK, StoredInv
<1>8. CASE PreflightPasses(u)
  BY <1>8 DEF PreflightPasses, Goto, serverVars, fileVars, TypeOK, StoredInv
<1>9. CASE LoadResumes(u)
  BY <1>9 DEF LoadResumes, Goto, serverVars, fileVars, TypeOK, StoredInv
<1>10. CASE LoadNone(u)
  BY <1>10 DEF LoadNone, Goto, RemoveSessionFile, serverVars, TypeOK, StoredInv
<1>11. CASE LoadFails(u)
  BY <1>11 DEF LoadFails, FallBack, serverVars, fileVars, Goto, TypeOK, StoredInv
<1>12. CASE InitAccepted(u)
  BY <1>12 DEF InitAccepted, Goto, fileVars, TypeOK, StoredInv
<1>13. CASE InitFails(u)
  BY <1>13 DEF InitFails, FallBack, serverVars, fileVars, Goto, TypeOK, StoredInv
<1>14. CASE SaveOpens(u)
  BY <1>14 DEF SaveOpens, Goto, serverVars, TypeOK, StoredInv
<1>15. CASE SaveWrites(u)
  BY <1>15 DEF SaveWrites, Goto, serverVars, TypeOK, StoredInv
<1>16. CASE SaveFails(u)
  BY <1>16 DEF SaveFails, FallBack, serverVars, Goto, TypeOK, StoredInv
<1>17. CASE PartAccepted(u)
  BY <1>17 DEF PartAccepted, Goto, NextPart, fileVars, TypeOK, StoredInv
<1>18. CASE PartFails(u)
  BY <1>18 DEF PartFails, FallBack, NextPart, fileVars, Goto, TypeOK, StoredInv
<1>19. CASE PartsOver(u)
  BY <1>19 DEF PartsOver, Goto, serverVars, fileVars, TypeOK, StoredInv
<1>20. CASE CompleteAccepted(u)
  BY <1>20 DEF CompleteAccepted, Goto, Assemble, fileVars, TypeOK, StoredInv
<1>21. CASE CompleteFails(u)
  BY <1>21 DEF CompleteFails, FallBack, Assemble, serverVars, fileVars, Goto, TypeOK, StoredInv
<1>22. CASE DeleteSession(u)
  BY <1>22 DEF DeleteSession, Done, RemoveSessionFile, serverVars, TypeOK, StoredInv
<1>23. CASE PutAccepted(u)
  BY <1>23 DEF PutAccepted, Done, Putting, fileVars, TypeOK, StoredInv
<1>24. CASE PutFailsTransiently(u)
  <2>0. pc[u] # "idle" /\ calls' = calls /\ stored' \in {stored, TRUE}
    BY <1>24 DEF PutFailsTransiently, Putting
  <2>1. pc[u] # "idle" /\ calls' = calls
        /\ (stored => stored') /\ stored' \in {stored, TRUE}
    <3>1. CASE stored' = stored
      BY <2>0, <3>1
    <3>2. CASE stored' = TRUE
      BY <2>0, <3>2
    <3>3. QED  BY <2>0, <3>1, <3>2
  <2>2. CASE Done(u, "err")
    BY <2>1, <2>2 DEF Done, TypeOK
  <2>3. CASE /\ pc' = [pc EXCEPT ![u] = "put"]
             /\ WriteOff(u)
             /\ UNCHANGED <<session, result>>
    BY <2>1, <2>3 DEF WriteOff, TypeOK
  <2>4. QED  BY <1>24, <2>2, <2>3 DEF PutFailsTransiently, Retry
<1>25. CASE PutRefused(u)
  BY <1>25 DEF PutRefused, Done, Putting, serverVars, fileVars, TypeOK, StoredInv
<1>26. CASE PutDemandsPayment(u)
  BY <1>26 DEF PutDemandsPayment, Goto, serverVars, fileVars, TypeOK, StoredInv
<1>27. CASE Pay(u)
  BY <1>27 DEF Pay, Goto, serverVars, fileVars, TypeOK, StoredInv
<1>28. CASE PayFails(u)
  BY <1>28 DEF PayFails, Done, serverVars, fileVars, TypeOK, StoredInv
<1>29. QED
  BY <1>1, <1>2, <1>3, <1>4, <1>5, <1>6, <1>7, <1>8, <1>9, <1>10, <1>11, <1>12, <1>13, <1>14, <1>15, <1>16, <1>17, <1>18, <1>19, <1>20, <1>21, <1>22, <1>23, <1>24, <1>25, <1>26, <1>27, <1>28 DEF Step

\* A server keeps what it received.
LEMMA ReceivedGrows ==
  ASSUME TypeOK, NEW u \in Uploads, Step(u)
  PROVE  \A i \in Ids : received[i] \subseteq received'[i]
<1>1. CASE PartAccepted(u)
  BY <1>1 DEF TypeOK, PartAccepted
<1>2. CASE PartFails(u)
  BY <1>2 DEF TypeOK, PartFails
<1>3. CASE received' = received
  BY <1>3
<1>4. QED
  BY <1>1, <1>2, <1>3
     DEF Step, serverVars, Assemble, HeadExists, HeadMisses, ExtendAnswered, ExtendDemandsPayment,
         ExtendPays, ExtendPayFails, PreflightRejects, PreflightPasses,
         LoadResumes, LoadNone, LoadFails, InitAccepted, InitFails, SaveOpens,
         SaveWrites, SaveFails, PartsOver, CompleteAccepted, CompleteFails,
         DeleteSession, PutAccepted, PutFailsTransiently, PutRefused,
         PutDemandsPayment, Pay, PayFails

-----------------------------------------------------------------------------
(* The parts of the inductive invariant.                                   *)

LEMMA StepStored ==
  ASSUME TypeOK, StoredInv, NEW u \in Uploads, Step(u)
  PROVE  StoredInv'
<1> SUFFICES pc'[u] \in {"extend", "extendPay", "extendPaid", "delete"} => stored'
  BY StepShape DEF StoredInv
<1>1. CASE HeadExists(u)
  BY <1>1 DEF HeadExists, Goto, Done, serverVars, fileVars, TypeOK, StoredInv, PCs
<1>2. CASE HeadMisses(u)
  BY <1>2 DEF HeadMisses, Goto, serverVars, fileVars, TypeOK, StoredInv, PCs
<1>3. CASE ExtendAnswered(u)
  BY <1>3 DEF ExtendAnswered, Done, serverVars, fileVars, TypeOK, StoredInv, PCs
<1>4. CASE ExtendDemandsPayment(u)
  BY <1>4 DEF ExtendDemandsPayment, Goto, serverVars, fileVars, TypeOK, StoredInv, PCs
<1>5. CASE ExtendPays(u)
  BY <1>5 DEF ExtendPays, Goto, serverVars, fileVars, TypeOK, StoredInv, PCs
<1>6. CASE ExtendPayFails(u)
  BY <1>6 DEF ExtendPayFails, Done, serverVars, fileVars, TypeOK, StoredInv, PCs
<1>7. CASE PreflightRejects(u)
  BY <1>7 DEF PreflightRejects, Done, serverVars, fileVars, TypeOK, StoredInv, PCs
<1>8. CASE PreflightPasses(u)
  BY <1>8 DEF PreflightPasses, Goto, serverVars, fileVars, TypeOK, StoredInv, PCs
<1>9. CASE LoadResumes(u)
  BY <1>9 DEF LoadResumes, Goto, serverVars, fileVars, TypeOK, StoredInv, PCs
<1>10. CASE LoadNone(u)
  BY <1>10 DEF LoadNone, Goto, RemoveSessionFile, serverVars, TypeOK, StoredInv, PCs
<1>11. CASE LoadFails(u)
  BY <1>11 DEF LoadFails, FallBack, serverVars, fileVars, Goto, TypeOK, StoredInv, PCs
<1>12. CASE InitAccepted(u)
  BY <1>12 DEF InitAccepted, Goto, fileVars, TypeOK, StoredInv, PCs
<1>13. CASE InitFails(u)
  BY <1>13 DEF InitFails, FallBack, serverVars, fileVars, Goto, TypeOK, StoredInv, PCs
<1>14. CASE SaveOpens(u)
  BY <1>14 DEF SaveOpens, Goto, serverVars, TypeOK, StoredInv, PCs
<1>15. CASE SaveWrites(u)
  BY <1>15 DEF SaveWrites, Goto, serverVars, TypeOK, StoredInv, PCs
<1>16. CASE SaveFails(u)
  BY <1>16 DEF SaveFails, FallBack, serverVars, Goto, TypeOK, StoredInv, PCs
<1>17. CASE PartAccepted(u)
  BY <1>17 DEF PartAccepted, Goto, NextPart, fileVars, TypeOK, StoredInv, PCs
<1>18. CASE PartFails(u)
  BY <1>18 DEF PartFails, FallBack, NextPart, fileVars, Goto, TypeOK, StoredInv, PCs
<1>19. CASE PartsOver(u)
  BY <1>19 DEF PartsOver, Goto, serverVars, fileVars, TypeOK, StoredInv, PCs
<1>20. CASE CompleteAccepted(u)
  BY <1>20 DEF CompleteAccepted, Goto, Assemble, fileVars, TypeOK, StoredInv, PCs
<1>21. CASE CompleteFails(u)
  BY <1>21 DEF CompleteFails, FallBack, Assemble, serverVars, fileVars, Goto, TypeOK, StoredInv, PCs
<1>22. CASE DeleteSession(u)
  BY <1>22 DEF DeleteSession, Done, RemoveSessionFile, serverVars, TypeOK, StoredInv, PCs
<1>23. CASE PutAccepted(u)
  BY <1>23 DEF PutAccepted, Done, Putting, fileVars, TypeOK, StoredInv, PCs
<1>24. CASE PutFailsTransiently(u)
  BY <1>24 DEF PutFailsTransiently, Putting, Retry, fileVars, Done, WriteOff, TypeOK, StoredInv, PCs
<1>25. CASE PutRefused(u)
  BY <1>25 DEF PutRefused, Done, Putting, serverVars, fileVars, TypeOK, StoredInv, PCs
<1>26. CASE PutDemandsPayment(u)
  BY <1>26 DEF PutDemandsPayment, Goto, serverVars, fileVars, TypeOK, StoredInv, PCs
<1>27. CASE Pay(u)
  BY <1>27 DEF Pay, Goto, serverVars, fileVars, TypeOK, StoredInv, PCs
<1>28. CASE PayFails(u)
  BY <1>28 DEF PayFails, Done, serverVars, fileVars, TypeOK, StoredInv, PCs
<1>29. QED
  BY <1>1, <1>2, <1>3, <1>4, <1>5, <1>6, <1>7, <1>8, <1>9, <1>10, <1>11, <1>12, <1>13, <1>14, <1>15, <1>16, <1>17, <1>18, <1>19, <1>20, <1>21, <1>22, <1>23, <1>24, <1>25, <1>26, <1>27, <1>28 DEF Step

LEMMA StepSpent ==
  ASSUME TypeOK, SpentInv, StoredInv, NEW u \in Uploads, Step(u)
  PROVE  SpentInv'
<1> SUFFICES spent'[u] = IF pc'[u] \in {"extendPaid", "putPaid"} THEN 1 ELSE 0
  BY StepShape DEF SpentInv
<1>1. CASE HeadExists(u)
  BY <1>1 DEF HeadExists, Goto, Done, serverVars, fileVars, TypeOK, SpentInv, PCs
<1>2. CASE HeadMisses(u)
  BY <1>2 DEF HeadMisses, Goto, serverVars, fileVars, TypeOK, SpentInv, PCs
<1>3. CASE ExtendAnswered(u)
  BY <1>3 DEF ExtendAnswered, Done, serverVars, fileVars, TypeOK, SpentInv, PCs
<1>4. CASE ExtendDemandsPayment(u)
  BY <1>4 DEF ExtendDemandsPayment, Goto, serverVars, fileVars, TypeOK, SpentInv, PCs
<1>5. CASE ExtendPays(u)
  BY <1>5 DEF ExtendPays, Goto, serverVars, fileVars, TypeOK, SpentInv, PCs
<1>6. CASE ExtendPayFails(u)
  BY <1>6 DEF ExtendPayFails, Done, serverVars, fileVars, TypeOK, SpentInv, PCs
<1>7. CASE PreflightRejects(u)
  BY <1>7 DEF PreflightRejects, Done, serverVars, fileVars, TypeOK, SpentInv, PCs
<1>8. CASE PreflightPasses(u)
  BY <1>8 DEF PreflightPasses, Goto, serverVars, fileVars, TypeOK, SpentInv, PCs
<1>9. CASE LoadResumes(u)
  BY <1>9 DEF LoadResumes, Goto, serverVars, fileVars, TypeOK, SpentInv, PCs
<1>10. CASE LoadNone(u)
  BY <1>10 DEF LoadNone, Goto, RemoveSessionFile, serverVars, TypeOK, SpentInv, PCs
<1>11. CASE LoadFails(u)
  BY <1>11 DEF LoadFails, FallBack, serverVars, fileVars, Goto, TypeOK, SpentInv, PCs
<1>12. CASE InitAccepted(u)
  BY <1>12 DEF InitAccepted, Goto, fileVars, TypeOK, SpentInv, PCs
<1>13. CASE InitFails(u)
  BY <1>13 DEF InitFails, FallBack, serverVars, fileVars, Goto, TypeOK, SpentInv, PCs
<1>14. CASE SaveOpens(u)
  BY <1>14 DEF SaveOpens, Goto, serverVars, TypeOK, SpentInv, PCs
<1>15. CASE SaveWrites(u)
  BY <1>15 DEF SaveWrites, Goto, serverVars, TypeOK, SpentInv, PCs
<1>16. CASE SaveFails(u)
  BY <1>16 DEF SaveFails, FallBack, serverVars, Goto, TypeOK, SpentInv, PCs
<1>17. CASE PartAccepted(u)
  BY <1>17 DEF PartAccepted, Goto, NextPart, fileVars, TypeOK, SpentInv, PCs
<1>18. CASE PartFails(u)
  BY <1>18 DEF PartFails, FallBack, NextPart, fileVars, Goto, TypeOK, SpentInv, PCs
<1>19. CASE PartsOver(u)
  BY <1>19 DEF PartsOver, Goto, serverVars, fileVars, TypeOK, SpentInv, PCs
<1>20. CASE CompleteAccepted(u)
  BY <1>20 DEF CompleteAccepted, Goto, Assemble, fileVars, TypeOK, SpentInv, PCs
<1>21. CASE CompleteFails(u)
  BY <1>21 DEF CompleteFails, FallBack, Assemble, serverVars, fileVars, Goto, TypeOK, SpentInv, PCs
<1>22. CASE DeleteSession(u)
  BY <1>22 DEF DeleteSession, Done, RemoveSessionFile, serverVars, TypeOK, SpentInv, PCs
<1>23. CASE PutAccepted(u)
  BY <1>23 DEF PutAccepted, Done, Putting, fileVars, TypeOK, SpentInv, PCs
<1>24. CASE PutFailsTransiently(u)
  BY <1>24 DEF PutFailsTransiently, Putting, Retry, fileVars, Done, WriteOff, TypeOK, SpentInv, PCs
<1>25. CASE PutRefused(u)
  BY <1>25 DEF PutRefused, Done, Putting, serverVars, fileVars, TypeOK, SpentInv, PCs
<1>26. CASE PutDemandsPayment(u)
  BY <1>26 DEF PutDemandsPayment, Goto, serverVars, fileVars, TypeOK, SpentInv, PCs
<1>27. CASE Pay(u)
  BY <1>27 DEF Pay, Goto, serverVars, fileVars, TypeOK, SpentInv, PCs
<1>28. CASE PayFails(u)
  BY <1>28 DEF PayFails, Done, serverVars, fileVars, TypeOK, SpentInv, PCs
<1>29. QED
  BY <1>1, <1>2, <1>3, <1>4, <1>5, <1>6, <1>7, <1>8, <1>9, <1>10, <1>11, <1>12, <1>13, <1>14, <1>15, <1>16, <1>17, <1>18, <1>19, <1>20, <1>21, <1>22, <1>23, <1>24, <1>25, <1>26, <1>27, <1>28 DEF Step

\* An upload completes a session only after all its parts.
CompleteInv == \A u \in Uploads : pc[u] = "complete" => session[u].parts = Parts

LEMMA StepComplete ==
  ASSUME TypeOK, StoredInv, CompleteInv, NEW u \in Uploads, Step(u)
  PROVE  CompleteInv'
<1> SUFFICES pc'[u] = "complete" => session'[u].parts = Parts
  BY StepShape DEF CompleteInv
<1>1. CASE HeadExists(u)
  BY <1>1 DEF HeadExists, Goto, Done, serverVars, fileVars, TypeOK
<1>2. CASE HeadMisses(u)
  BY <1>2 DEF HeadMisses, Goto, serverVars, fileVars, TypeOK
<1>3. CASE ExtendAnswered(u)
  BY <1>3 DEF ExtendAnswered, Done, serverVars, fileVars, TypeOK
<1>4. CASE ExtendDemandsPayment(u)
  BY <1>4 DEF ExtendDemandsPayment, Goto, serverVars, fileVars, TypeOK
<1>5. CASE ExtendPays(u)
  BY <1>5 DEF ExtendPays, Goto, serverVars, fileVars, TypeOK
<1>6. CASE ExtendPayFails(u)
  BY <1>6 DEF ExtendPayFails, Done, serverVars, fileVars, TypeOK
<1>7. CASE PreflightRejects(u)
  BY <1>7 DEF PreflightRejects, Done, serverVars, fileVars, TypeOK
<1>8. CASE PreflightPasses(u)
  BY <1>8 DEF PreflightPasses, Goto, serverVars, fileVars, TypeOK
<1>9. CASE LoadResumes(u)
  BY <1>9 DEF LoadResumes, Goto, serverVars, fileVars, TypeOK
<1>10. CASE LoadNone(u)
  BY <1>10 DEF LoadNone, Goto, RemoveSessionFile, serverVars, TypeOK
<1>11. CASE LoadFails(u)
  BY <1>11 DEF LoadFails, FallBack, serverVars, fileVars, Goto, TypeOK
<1>12. CASE InitAccepted(u)
  BY <1>12 DEF InitAccepted, Goto, fileVars, TypeOK
<1>13. CASE InitFails(u)
  BY <1>13 DEF InitFails, FallBack, serverVars, fileVars, Goto, TypeOK
<1>14. CASE SaveOpens(u)
  BY <1>14 DEF SaveOpens, Goto, serverVars, TypeOK
<1>15. CASE SaveWrites(u)
  BY <1>15 DEF SaveWrites, Goto, serverVars, TypeOK
<1>16. CASE SaveFails(u)
  BY <1>16 DEF SaveFails, FallBack, serverVars, Goto, TypeOK
<1>17. CASE PartAccepted(u)
  BY <1>17 DEF PartAccepted, Goto, NextPart, fileVars, TypeOK
<1>18. CASE PartFails(u)
  BY <1>18 DEF PartFails, FallBack, NextPart, fileVars, Goto, TypeOK
<1>19. CASE PartsOver(u)
  BY <1>19 DEF PartsOver, Goto, serverVars, fileVars, TypeOK
<1>20. CASE CompleteAccepted(u)
  BY <1>20 DEF CompleteAccepted, Goto, Assemble, fileVars, TypeOK
<1>21. CASE CompleteFails(u)
  BY <1>21 DEF CompleteFails, FallBack, Assemble, serverVars, fileVars, Goto, TypeOK
<1>22. CASE DeleteSession(u)
  BY <1>22 DEF DeleteSession, Done, RemoveSessionFile, serverVars, TypeOK
<1>23. CASE PutAccepted(u)
  BY <1>23 DEF PutAccepted, Done, Putting, fileVars, TypeOK
<1>24. CASE PutFailsTransiently(u)
  BY <1>24 DEF PutFailsTransiently, Putting, Retry, fileVars, Done, WriteOff, TypeOK
<1>25. CASE PutRefused(u)
  BY <1>25 DEF PutRefused, Done, Putting, serverVars, fileVars, TypeOK
<1>26. CASE PutDemandsPayment(u)
  BY <1>26 DEF PutDemandsPayment, Goto, serverVars, fileVars, TypeOK
<1>27. CASE Pay(u)
  BY <1>27 DEF Pay, Goto, serverVars, fileVars, TypeOK
<1>28. CASE PayFails(u)
  BY <1>28 DEF PayFails, Done, serverVars, fileVars, TypeOK
<1>29. QED
  BY <1>1, <1>2, <1>3, <1>4, <1>5, <1>6, <1>7, <1>8, <1>9, <1>10, <1>11, <1>12, <1>13, <1>14, <1>15, <1>16, <1>17, <1>18, <1>19, <1>20, <1>21, <1>22, <1>23, <1>24, <1>25, <1>26, <1>27, <1>28 DEF Step

\* The parts of a session, once received, stay received.
LEMMA TruthStays ==
  ASSUME NEW s, NEW rcv, NEW more, Truthful(s, rcv),
         \A i \in Ids : rcv[i] \subseteq more[i]
  PROVE  Truthful(s, more)
BY DEF Truthful

LEMMA NoSessionTrue == ASSUME NEW rcv PROVE Truthful(NoSession, rcv)
BY DEF Truthful, NoSession

\* A step leaves an upload's session, drops it, resumes the file's, starts a
\* new one, or adds a part that the server has just received.
LEMMA SessionChange ==
  ASSUME TypeOK, SessionTruthful, NEW u \in Uploads, Step(u)
  PROVE  Truthful(session'[u], received')
<1>1. Truthful(session[u], received') /\ Truthful(saved, received')
  BY ReceivedGrows, TruthStays DEF SessionTruthful
<1>2. CASE LoadResumes(u)
  <2>1. session'[u] = saved
    BY <1>2 DEF LoadResumes, TypeOK
  <2>2. QED  BY <1>1, <2>1
<1>3. CASE InitAccepted(u)
  <2>1. session'[u] = [id |-> nextId, parts |-> {}]
    BY <1>3 DEF InitAccepted, TypeOK
  <2>2. QED  BY <2>1 DEF Truthful
<1>4. CASE PartAccepted(u)
  <2>1. PICK p \in Parts :
          /\ received' = [received EXCEPT ![session[u].id] = @ \union {p}]
          /\ session' = [session EXCEPT ![u].parts = @ \union {p}]
    BY <1>4 DEF PartAccepted
  <2>2. session[u].id \in Ids
    BY <1>4 DEF PartAccepted, TypeOK
  <2>3. session[u].parts \subseteq received[session[u].id]
    BY <2>2 DEF SessionTruthful, Truthful
  <2>4. /\ session'[u].id = session[u].id
        /\ session'[u].parts = session[u].parts \union {p}
    BY <2>1 DEF TypeOK, Sessions
  <2>5. received'[session[u].id] = received[session[u].id] \union {p}
    BY <2>1, <2>2 DEF TypeOK
  <2>6. QED  BY <2>2, <2>3, <2>4, <2>5 DEF Truthful
<1>5. CASE session'[u] \in {session[u], NoSession}
  BY <1>1, <1>5, NoSessionTrue
<1>6. ~LoadResumes(u) /\ ~InitAccepted(u) /\ ~PartAccepted(u)
        => session'[u] \in {session[u], NoSession}
  <2>1. CASE HeadExists(u)
    BY <2>1 DEF HeadExists, Goto, Done, serverVars, fileVars, TypeOK
  <2>2. CASE HeadMisses(u)
    BY <2>2 DEF HeadMisses, Goto, serverVars, fileVars, TypeOK
  <2>3. CASE ExtendAnswered(u)
    BY <2>3 DEF ExtendAnswered, Done, serverVars, fileVars, TypeOK
  <2>4. CASE ExtendDemandsPayment(u)
    BY <2>4 DEF ExtendDemandsPayment, Goto, serverVars, fileVars, TypeOK
  <2>5. CASE ExtendPays(u)
    BY <2>5 DEF ExtendPays, Goto, serverVars, fileVars, TypeOK
  <2>6. CASE ExtendPayFails(u)
    BY <2>6 DEF ExtendPayFails, Done, serverVars, fileVars, TypeOK
  <2>7. CASE PreflightRejects(u)
    BY <2>7 DEF PreflightRejects, Done, serverVars, fileVars, TypeOK
  <2>8. CASE PreflightPasses(u)
    BY <2>8 DEF PreflightPasses, Goto, serverVars, fileVars, TypeOK
  <2>9. CASE LoadNone(u)
    BY <2>9 DEF LoadNone, Goto, RemoveSessionFile, serverVars, TypeOK
  <2>10. CASE LoadFails(u)
    BY <2>10 DEF LoadFails, FallBack, serverVars, fileVars, Goto, TypeOK
  <2>11. CASE InitFails(u)
    BY <2>11 DEF InitFails, FallBack, serverVars, fileVars, Goto, TypeOK
  <2>12. CASE SaveOpens(u)
    BY <2>12 DEF SaveOpens, Goto, serverVars, TypeOK
  <2>13. CASE SaveWrites(u)
    BY <2>13 DEF SaveWrites, Goto, serverVars, TypeOK
  <2>14. CASE SaveFails(u)
    BY <2>14 DEF SaveFails, FallBack, serverVars, Goto, TypeOK
  <2>15. CASE PartFails(u)
    BY <2>15 DEF PartFails, FallBack, NextPart, fileVars, Goto, TypeOK
  <2>16. CASE PartsOver(u)
    BY <2>16 DEF PartsOver, Goto, serverVars, fileVars, TypeOK
  <2>17. CASE CompleteAccepted(u)
    BY <2>17 DEF CompleteAccepted, Goto, Assemble, fileVars, TypeOK
  <2>18. CASE CompleteFails(u)
    BY <2>18 DEF CompleteFails, FallBack, Assemble, serverVars, fileVars, Goto, TypeOK
  <2>19. CASE DeleteSession(u)
    BY <2>19 DEF DeleteSession, Done, RemoveSessionFile, serverVars, TypeOK
  <2>20. CASE PutAccepted(u)
    BY <2>20 DEF PutAccepted, Done, Putting, fileVars, TypeOK
  <2>21. CASE PutFailsTransiently(u)
    BY <2>21 DEF PutFailsTransiently, Putting, Retry, fileVars, Done, WriteOff, TypeOK
  <2>22. CASE PutRefused(u)
    BY <2>22 DEF PutRefused, Done, Putting, serverVars, fileVars, TypeOK
  <2>23. CASE PutDemandsPayment(u)
    BY <2>23 DEF PutDemandsPayment, Goto, serverVars, fileVars, TypeOK
  <2>24. CASE Pay(u)
    BY <2>24 DEF Pay, Goto, serverVars, fileVars, TypeOK
  <2>25. CASE PayFails(u)
    BY <2>25 DEF PayFails, Done, serverVars, fileVars, TypeOK
  <2>26. QED
    BY <2>1, <2>2, <2>3, <2>4, <2>5, <2>6, <2>7, <2>8, <2>9, <2>10, <2>11, <2>12, <2>13, <2>14, <2>15, <2>16, <2>17, <2>18, <2>19, <2>20, <2>21, <2>22, <2>23, <2>24, <2>25 DEF Step
<1>7. QED  BY <1>2, <1>3, <1>4, <1>5, <1>6

LEMMA StepTruthful ==
  ASSUME TypeOK, StoredInv, SessionTruthful, NEW u \in Uploads, Step(u)
  PROVE  SessionTruthful'
<1>1. ASSUME NEW w \in Uploads
      PROVE  Truthful(session'[w], received')
  <2>1. CASE w = u
    BY <2>1, SessionChange
  <2>2. CASE w # u
    <3>1. session'[w] = session[w]
      BY <2>2, StepShape
    <3>2. Truthful(session[w], received')
      BY ReceivedGrows, TruthStays DEF SessionTruthful
    <3>3. QED  BY <3>1, <3>2
  <2>3. QED  BY <2>1, <2>2
<1>2. Truthful(saved, received') /\ Truthful(session[u], received')
  BY ReceivedGrows, TruthStays DEF SessionTruthful
<1>3. saved' \in {saved, NoSession, session[u]}
  <2>1. CASE HeadExists(u)
    BY <2>1 DEF HeadExists, Goto, Done, serverVars, fileVars, TypeOK
  <2>2. CASE HeadMisses(u)
    BY <2>2 DEF HeadMisses, Goto, serverVars, fileVars, TypeOK
  <2>3. CASE ExtendAnswered(u)
    BY <2>3 DEF ExtendAnswered, Done, serverVars, fileVars, TypeOK
  <2>4. CASE ExtendDemandsPayment(u)
    BY <2>4 DEF ExtendDemandsPayment, Goto, serverVars, fileVars, TypeOK
  <2>5. CASE ExtendPays(u)
    BY <2>5 DEF ExtendPays, Goto, serverVars, fileVars, TypeOK
  <2>6. CASE ExtendPayFails(u)
    BY <2>6 DEF ExtendPayFails, Done, serverVars, fileVars, TypeOK
  <2>7. CASE PreflightRejects(u)
    BY <2>7 DEF PreflightRejects, Done, serverVars, fileVars, TypeOK
  <2>8. CASE PreflightPasses(u)
    BY <2>8 DEF PreflightPasses, Goto, serverVars, fileVars, TypeOK
  <2>9. CASE LoadResumes(u)
    BY <2>9 DEF LoadResumes, Goto, serverVars, fileVars, TypeOK
  <2>10. CASE LoadNone(u)
    BY <2>10 DEF LoadNone, Goto, RemoveSessionFile, serverVars, TypeOK
  <2>11. CASE LoadFails(u)
    BY <2>11 DEF LoadFails, FallBack, serverVars, fileVars, Goto, TypeOK
  <2>12. CASE InitAccepted(u)
    BY <2>12 DEF InitAccepted, Goto, fileVars, TypeOK
  <2>13. CASE InitFails(u)
    BY <2>13 DEF InitFails, FallBack, serverVars, fileVars, Goto, TypeOK
  <2>14. CASE SaveOpens(u)
    BY <2>14 DEF SaveOpens, Goto, serverVars, TypeOK
  <2>15. CASE SaveWrites(u)
    BY <2>15 DEF SaveWrites, Goto, serverVars, TypeOK
  <2>16. CASE SaveFails(u)
    BY <2>16 DEF SaveFails, FallBack, serverVars, Goto, TypeOK
  <2>17. CASE PartAccepted(u)
    BY <2>17 DEF PartAccepted, Goto, NextPart, fileVars, TypeOK
  <2>18. CASE PartFails(u)
    BY <2>18 DEF PartFails, FallBack, NextPart, fileVars, Goto, TypeOK
  <2>19. CASE PartsOver(u)
    BY <2>19 DEF PartsOver, Goto, serverVars, fileVars, TypeOK
  <2>20. CASE CompleteAccepted(u)
    BY <2>20 DEF CompleteAccepted, Goto, Assemble, fileVars, TypeOK
  <2>21. CASE CompleteFails(u)
    BY <2>21 DEF CompleteFails, FallBack, Assemble, serverVars, fileVars, Goto, TypeOK
  <2>22. CASE DeleteSession(u)
    BY <2>22 DEF DeleteSession, Done, RemoveSessionFile, serverVars, TypeOK
  <2>23. CASE PutAccepted(u)
    BY <2>23 DEF PutAccepted, Done, Putting, fileVars, TypeOK
  <2>24. CASE PutFailsTransiently(u)
    BY <2>24 DEF PutFailsTransiently, Putting, Retry, fileVars, Done, WriteOff, TypeOK
  <2>25. CASE PutRefused(u)
    BY <2>25 DEF PutRefused, Done, Putting, serverVars, fileVars, TypeOK
  <2>26. CASE PutDemandsPayment(u)
    BY <2>26 DEF PutDemandsPayment, Goto, serverVars, fileVars, TypeOK
  <2>27. CASE Pay(u)
    BY <2>27 DEF Pay, Goto, serverVars, fileVars, TypeOK
  <2>28. CASE PayFails(u)
    BY <2>28 DEF PayFails, Done, serverVars, fileVars, TypeOK
  <2>29. QED
    BY <2>1, <2>2, <2>3, <2>4, <2>5, <2>6, <2>7, <2>8, <2>9, <2>10, <2>11, <2>12, <2>13, <2>14, <2>15, <2>16, <2>17, <2>18, <2>19, <2>20, <2>21, <2>22, <2>23, <2>24, <2>25, <2>26, <2>27, <2>28 DEF Step
<1>4. Truthful(saved', received')
  BY <1>2, <1>3, NoSessionTrue
<1>5. QED  BY <1>1, <1>4 DEF SessionTruthful

-----------------------------------------------------------------------------
(* The inductive invariant.                                                *)

UploadInv ==
  /\ TypeOK
  /\ StoredInv
  /\ SpentInv
  /\ CompleteInv
  /\ SessionTruthful

LEMMA InitInv ==
  ASSUME Init
  PROVE  UploadInv
<1>1. TypeOK
  <2>1. 1 \in 1 .. (MaxSessions + 1) /\ 0 \in 0 .. MaxAttempts
    BY UploadAssumption
  <2>2. received \in [Ids -> SUBSET Parts]
    BY DEF Init
  <2>3. saved \in Sessions /\ session \in [Uploads -> Sessions]
    BY NoSessionType DEF Init
  <2>4. stored \in BOOLEAN
    BY DEF Init
  <2>5. QED  BY <2>1, <2>2, <2>3, <2>4 DEF Init, TypeOK, PCs
<1>2. StoredInv /\ SpentInv /\ CompleteInv
  BY DEF Init, StoredInv, SpentInv, CompleteInv
<1>3. SessionTruthful
  BY NoSessionTrue DEF Init, SessionTruthful
<1>4. QED  BY <1>1, <1>2, <1>3 DEF UploadInv

\* Sessions of the server end, and a new call begins.
LEMMA AroundInv ==
  ASSUME UploadInv,
         \/ \E u \in Uploads : Begin(u)
         \/ \E i \in Ids : ServerDrops(i) \/ Expires(i)
         \/ UNCHANGED vars
  PROVE  UploadInv'
<1> USE DEF UploadInv
<1>1. CASE \E u \in Uploads : Begin(u)
  <2>1. PICK u \in Uploads : Begin(u)
    BY <1>1
  <2>2. TypeOK'
    BY <2>1, BeginType
  <2>3. StoredInv' /\ SpentInv' /\ CompleteInv'
    BY <2>1 DEF Begin, Goto, serverVars, StoredInv, SpentInv, CompleteInv, TypeOK
  <2>4. SessionTruthful'
    BY <2>1 DEF Begin, serverVars, fileVars, SessionTruthful
  <2>5. QED  BY <2>2, <2>3, <2>4
<1>2. CASE \E i \in Ids : ServerDrops(i) \/ Expires(i)
  <2>1. PICK i \in Ids : ServerDrops(i) \/ Expires(i)
    BY <1>2
  <2>2. TypeOK'
    BY <2>1, ServerType
  <2>3. UNCHANGED <<stored, received, saved, pc, session, spent>>
    BY <2>1 DEF ServerDrops, Expires, serverVars, fileVars
  <2>4. StoredInv' /\ SpentInv' /\ CompleteInv' /\ SessionTruthful'
    BY <2>3 DEF StoredInv, SpentInv, CompleteInv, SessionTruthful
  <2>5. QED  BY <2>2, <2>4
<1>3. CASE UNCHANGED vars
  BY <1>3 DEF vars, serverVars, fileVars, TypeOK, StoredInv, SpentInv,
              CompleteInv, SessionTruthful
<1>4. QED  BY <1>1, <1>2, <1>3

\* A kill takes the uploads of its mount back to idle, with no session.
LEMMA KillInv ==
  ASSUME UploadInv, NEW m \in Mounts, Kill(m)
  PROVE  UploadInv'
<1> USE DEF UploadInv
<1>1. TypeOK'
  BY KillType
<1>2. /\ \A u \in Uploads :
           IF MountOf[u] = m
           THEN pc'[u] = "idle" /\ session'[u] = NoSession /\ spent'[u] = 0
           ELSE /\ pc'[u] = pc[u]
                /\ session'[u] = session[u]
                /\ spent'[u] = spent[u]
      /\ UNCHANGED <<stored, received, saved>>
  BY DEF Kill, serverVars
<1>3. StoredInv' /\ SpentInv' /\ CompleteInv'
  BY <1>2 DEF StoredInv, SpentInv, CompleteInv
<1>4. SessionTruthful'
  BY <1>2, NoSessionTrue DEF SessionTruthful
<1>5. QED  BY <1>1, <1>3, <1>4

LEMMA NextInv ==
  ASSUME UploadInv, [Next]_vars
  PROVE  UploadInv'
<1>1. CASE \E u \in Uploads : Step(u)
  <2>1. PICK u \in Uploads : Step(u)
    BY <1>1
  <2>2. QED
    BY <2>1, StepType, StepStored, StepSpent, StepComplete, StepTruthful
       DEF UploadInv
<1>2. CASE \E m \in Mounts : Kill(m)
  BY <1>2, KillInv
<1>3. QED  BY <1>1, <1>2, AroundInv DEF Next

THEOREM Invariance == Spec => []UploadInv
BY InitInv, NextInv, PTL DEF Spec

\* Every variable keeps its type; among them, no upload makes more than
\* MaxAttempts single-shot attempts.
THEOREM TypeCorrect == Spec => []TypeOK
<1>1. UploadInv => TypeOK
  BY DEF UploadInv
<1>2. QED  BY <1>1, Invariance, PTL

\* Session files, and the uploads that resume them, list no part the server
\* lacks.
THEOREM SessionsAreTruthful == Spec => []SessionTruthful
<1>1. UploadInv => SessionTruthful
  BY DEF UploadInv
<1>2. QED  BY <1>1, Invariance, PTL

\* A session is completed only when the server has all its parts.
THEOREM CompletionsAreWhole == Spec => []CompleteIsWhole
<1>1. ASSUME UploadInv
      PROVE  CompleteIsWhole
  <2>1. SUFFICES ASSUME NEW u \in Uploads, pc[u] = "complete"
                 PROVE  session[u].id \in Ids /\ received[session[u].id] = Parts
    BY DEF CompleteIsWhole
  <2>2. session[u].parts = Parts /\ Truthful(session[u], received)
    BY <1>1, <2>1 DEF UploadInv, CompleteInv, SessionTruthful
  <2>3. Parts # {}
    BY UploadAssumption DEF Parts
  <2>4. session[u].id \in Ids /\ Parts \subseteq received[session[u].id]
    BY <2>2, <2>3 DEF Truthful
  <2>5. received[session[u].id] \subseteq Parts
    BY <1>1, <2>4 DEF UploadInv, TypeOK
  <2>6. QED  BY <2>4, <2>5
<1>2. QED  BY <1>1, Invariance, PTL

\* Resuming a multipart upload loses no part: what a session claims the server
\* has, and what is completed is whole.
THEOREM SessionsAreExact == Spec => []SessionsExact
BY SessionsAreTruthful, CompletionsAreWhole, PTL DEF SessionsExact

\* A payment that was answered is never followed by another for the same call.
THEOREM NoPayLoop == Spec => []PaidAgainOnlyUnheard
<1>1. UploadInv => PaidAgainOnlyUnheard
  BY DEF UploadInv, SpentInv, PaidAgainOnlyUnheard
<1>2. QED  BY <1>1, Invariance, PTL

-----------------------------------------------------------------------------
(* UploadProtocol implements UploadService.                                *)

LEMMA InitImplements == Init => Service!Init
BY DEF Init, Service!Init, Seen

\* A step of an upload stores the blob, ends the call, or is not seen.
LEMMA StepImplements ==
  ASSUME TypeOK, TypeOK', StoredInv, NEW u \in Uploads, Step(u)
  PROVE  [Service!Next]_Service!vars
<1> DEFINE at == [w \in Uploads |-> Seen(w)]
           atN == [w \in Uploads |-> Seen(w)']
<1>1. \A w \in Uploads : w # u => Seen(w)' = Seen(w)
  BY StepShape DEF Seen
<1>2. at[u] = "busy"
  BY StepShape DEF Seen
<1>3. CASE pc'[u] # "idle"
  <2>1. Seen(u)' = "busy"
    BY <1>3 DEF Seen
  <2>2. atN = at
    BY <1>1, <1>2, <2>1
  <2>3. CASE stored' = stored
    BY <2>2, <2>3 DEF Service!vars
  <2>4. CASE stored' = TRUE
    <3>1. Service!Store(u)
      BY <1>2, <2>2, <2>4 DEF Service!Store
    <3>2. QED  BY <3>1 DEF Service!Next
  <2>5. QED  BY <2>3, <2>4, StepShape
<1>4. CASE pc'[u] = "idle"
  <2>1. /\ result'[u] \in {"ok", "err"}
        /\ result'[u] = "ok" => stored'
        /\ stored' \in {stored, TRUE}
    BY <1>4, StepShape
  <2>2. Seen(u)' = result'[u]
    BY <1>4, <2>1 DEF Seen
  <2>3. atN = [at EXCEPT ![u] = result'[u]]
    BY <1>1, <2>2
  <2>4. Service!End(u)
    BY <1>2, <2>1, <2>3 DEF Service!End
  <2>5. QED  BY <2>4 DEF Service!Next
<1>5. QED  BY <1>3, <1>4

LEMMA NextImplements ==
  ASSUME UploadInv, UploadInv', [Next]_vars
  PROVE  [Service!Next]_Service!vars
<1> DEFINE at == [w \in Uploads |-> Seen(w)]
           atN == [w \in Uploads |-> Seen(w)']
<1>1. CASE \E u \in Uploads : Step(u)
  BY <1>1, StepImplements DEF UploadInv
<1>2. CASE \E u \in Uploads : Begin(u)
  <2>1. PICK u \in Uploads : Begin(u)
    BY <1>2
  <2>2. /\ pc[u] = "idle" /\ pc'[u] = "head"
        /\ \A w \in Uploads : w # u => pc'[w] = pc[w] /\ result'[w] = result[w]
        /\ UNCHANGED stored
    BY <2>1 DEF Begin, Goto, serverVars, UploadInv, TypeOK
  <2>3. at[u] # "busy"
    BY <2>2 DEF Seen, UploadInv, TypeOK
  <2>4. atN = [at EXCEPT ![u] = "busy"]
    BY <2>2 DEF Seen
  <2>5. Service!Begin(u)
    BY <2>2, <2>3, <2>4 DEF Service!Begin
  <2>6. QED  BY <2>5 DEF Service!Next
<1>3. CASE \E i \in Ids : ServerDrops(i) \/ Expires(i)
  <2>1. UNCHANGED <<stored, pc, result>>
    BY <1>3 DEF ServerDrops, Expires, serverVars
  <2>2. QED  BY <2>1 DEF Service!vars, Seen
<1>4. CASE \E m \in Mounts : Kill(m)
  <2>1. PICK m \in Mounts : Kill(m)
    BY <1>4
  <2>2. DEFINE S == {w \in Uploads : MountOf[w] = m}
  <2>3. \A w \in Uploads :
          Seen(w)' = IF w \in S THEN "idle" ELSE Seen(w)
    BY <2>1 DEF Kill, Seen
  <2>4. atN = [w \in Uploads |-> IF w \in S THEN "idle" ELSE at[w]]
    BY <2>3
  <2>5. Service!Abort(S)
    BY <2>1, <2>4 DEF Service!Abort, Kill, serverVars
  <2>6. QED  BY <2>5 DEF Service!Next
<1>5. CASE UNCHANGED vars
  BY <1>5 DEF vars, serverVars, Service!vars, Seen
<1>6. QED  BY <1>1, <1>2, <1>3, <1>4, <1>5 DEF Next

\* Whichever of HEAD, sessions, fallbacks and attempts an upload goes through,
\* success is reported only for a blob that the server has.
THEOREM Implementation == Spec => ServiceSafety
BY InitImplements, NextImplements, Invariance, PTL
   DEF Spec, ServiceSafety, Service!Spec

-----------------------------------------------------------------------------
(* The expiry a file shows was granted (ShownIsGranted of Lease).  The     *)
(* invariant adds what the steps on the way carry: a Sunset read by the    *)
(* dedup check or by a fetch is no later than the lease, which only grows, *)
(* and a small file's free period is within it -- for a file found by the  *)
(* dedup check because its upload time is 0 and the server's clock is past *)
(* the free period.                                                        *)

Files == [remote : {TRUE}, content : Leased, expires : Nat, uploaded : Nat]
Puts  == [at : {"extend", "known"}, content : Leased, sunset : Nat, desired : Nat]
Gets  == [content : Leased, sunset : Nat]

LeaseType ==
  /\ clock \in Nat /\ clock >= Today
  /\ granted \in [Leased -> Nat]
  /\ entry \in {Written} \union Files
  /\ putting \in {NoPut} \union Puts
  /\ getting \in SUBSET Gets
  /\ misled \in BOOLEAN

\* What the node e of file content says is within the leases g.
Within(e, g, m) ==
  e \in Files =>
    /\ ~m => e.expires <= g[e.content]
    /\ e.content \in Small => e.uploaded + FreePeriod <= g[e.content]

PutWithin(p, g) ==
  p \in Puts => p.sunset <= g[p.content] /\ FreePeriod <= g[p.content]

GetsWithin(s, g) == \A r \in s : r.sunset <= g[r.content]

LeaseInv ==
  /\ LeaseType
  /\ Within(entry, granted, misled)
  /\ PutWithin(putting, granted)
  /\ GetsWithin(getting, granted)

\* Leases that only grow keep what was within them.
LEMMA GrowthKeeps ==
  ASSUME NEW g \in [Leased -> Nat], NEW h \in [Leased -> Nat],
         \A c \in Leased : g[c] <= h[c],
         NEW e, NEW m \in BOOLEAN, NEW p, NEW s \in SUBSET Gets,
         Within(e, g, m), PutWithin(p, g), GetsWithin(s, g)
  PROVE  Within(e, h, m) /\ PutWithin(p, h) /\ GetsWithin(s, h)
<1>1. Within(e, h, m)
BY LeaseAssumption DEF Within, Files
<1>2. PutWithin(p, h)
BY LeaseAssumption DEF PutWithin, Puts
<1>3. GetsWithin(s, h)
BY DEF GetsWithin, Gets
<1>4. QED  BY <1>1, <1>2, <1>3

\* A file is remote exactly when its node is one of Files.
LEMMA RemoteIsFile ==
  ASSUME LeaseType
  PROVE  entry.remote <=> entry \in Files
<1>1. ASSUME entry = Written PROVE ~entry.remote /\ entry \notin Files
  <2>1. entry.remote = FALSE
    BY <1>1 DEF Written
  <2>2. QED  BY <2>1 DEF Files
<1>2. ASSUME entry \in Files PROVE entry.remote
  <2>1. entry.remote = TRUE
    BY <1>2 DEF Files
  <2>2. QED  BY <2>1
<1>3. QED  BY <1>1, <1>2 DEF LeaseType

LEMMA InitLease == LeaseInit => LeaseInv
<1> SUFFICES ASSUME LeaseInit PROVE LeaseInv
OBVIOUS
<1> USE LeaseAssumption
<1>1. clock \in Nat /\ clock >= Today /\ granted \in [Leased -> Nat]
BY DEF LeaseInit, Never
<1>2. putting = NoPut /\ getting = {} /\ misled = FALSE
BY DEF LeaseInit
<1>3. CASE entry = Written
  <2>1. LeaseType
    BY <1>1, <1>2, <1>3 DEF LeaseType
  <2>2. entry \notin Files /\ putting \notin Puts
    BY <1>2, <1>3 DEF Files, Written, NoPut, Puts
  <2>3. QED  BY <2>1, <2>2, <1>2 DEF LeaseInv, Within, PutWithin, GetsWithin
<1>4. CASE \E c \in Leased :
             /\ Has(c)
             /\ \E e \in {Never, granted[c]} : entry = File(c, e, Today + 1 - FreePeriod)
  <2>0. PICK c \in Leased :
          Has(c) /\ \E e \in {Never, granted[c]} : entry = File(c, e, Today + 1 - FreePeriod)
    BY <1>4
  <2>1. PICK e \in {Never, granted[c]} : entry = File(c, e, Today + 1 - FreePeriod)
    BY <2>0
  <2>2. e \in Nat /\ e <= granted[c] /\ Today + 1 <= granted[c]
    BY <1>1, <2>0, <2>1 DEF Has, Never, LeaseInit
  <2>3. Today + 1 - FreePeriod \in Nat
    OBVIOUS
  <2>4. entry \in Files
    BY <2>1, <2>2, <2>3 DEF File, Files
  <2>5. Within(entry, granted, misled)
    BY <2>1, <2>2, <2>3, <1>1 DEF Within, File
  <2>6. LeaseType
    BY <1>1, <1>2, <2>4 DEF LeaseType
  <2>7. putting \notin Puts
    BY <1>2 DEF NoPut, Puts
  <2>8. QED  BY <2>5, <2>6, <2>7, <1>2 DEF LeaseInv, PutWithin, GetsWithin
<1>5. QED  BY <1>3, <1>4 DEF LeaseInit

LEMMA StepLease == LeaseInv /\ [LeaseNext]_leaseVars => LeaseInv'
<1> SUFFICES ASSUME LeaseInv, [LeaseNext]_leaseVars PROVE LeaseInv'
OBVIOUS
<1> USE LeaseAssumption
<1>0. /\ LeaseType /\ Within(entry, granted, misled) /\ PutWithin(putting, granted)
      /\ GetsWithin(getting, granted)
BY DEF LeaseInv
<1>1. CASE Tick
BY <1>0, <1>1 DEF Tick, LeaseInv, LeaseType
<1>2. CASE Rewrite
  <2>1. LeaseType'
    BY <1>0, <1>2 DEF Rewrite, LeaseType
  <2>2. entry' \notin Files
    BY <1>2 DEF Rewrite, Written, Files
  <2>3. QED  BY <1>0, <1>2, <2>1, <2>2 DEF Rewrite, LeaseInv, Within
<1>3. CASE Fetch
  <2>1. entry \in Files
    BY <1>0, <1>3, RemoteIsFile DEF Fetch
  <2> DEFINE r == [content |-> entry.content, sunset |-> Never]
  <2>2. r \in Gets /\ r.sunset <= granted[r.content]
    BY <1>0, <2>1 DEF Files, Gets, Never, LeaseType
  <2>3. GetsWithin(getting', granted)
    BY <1>0, <1>3, <2>2 DEF Fetch, GetsWithin
  <2>4. LeaseType'
    BY <1>0, <1>3, <2>2 DEF Fetch, LeaseType
  <2>5. QED  BY <1>0, <1>3, <2>3, <2>4 DEF Fetch, LeaseInv
<1>4. ASSUME NEW g \in getting, Answers(g) PROVE LeaseInv'
  <2> DEFINE r == [g EXCEPT !.sunset = granted[g.content]]
  <2>1. r \in Gets /\ r.sunset <= granted[r.content]
    BY <1>0 DEF LeaseType, Gets
  <2>2. getting' \subseteq getting \union {r}
    BY <1>4 DEF Answers
  <2>3. GetsWithin(getting', granted)
    BY <1>0, <2>1, <2>2 DEF GetsWithin
  <2>4. LeaseType'
    BY <1>0, <1>4, <2>1, <2>2 DEF Answers, LeaseType
  <2>5. QED  BY <1>0, <1>4, <2>3, <2>4 DEF Answers, LeaseInv
<1>5. ASSUME NEW g \in getting, Fetched(g) PROVE LeaseInv'
  <2>1. g \in Gets /\ g.sunset <= granted[g.content]
    BY <1>0 DEF LeaseType, GetsWithin
  <2>2. GetsWithin(getting', granted)
    BY <1>0, <1>5 DEF Fetched, GetsWithin
  <2>3. CASE entry \in Files
    <3>1. entry.remote
      BY <2>3 DEF Files
    <3>2. /\ entry' = [entry EXCEPT !.expires = g.sunset]
          /\ misled' = (entry.content # g.content)
      BY <1>5, <3>1 DEF Fetched
    <3>3. /\ entry' \in Files
          /\ entry'.content = entry.content /\ entry'.uploaded = entry.uploaded
          /\ entry'.expires = g.sunset
      BY <2>1, <2>3, <3>2 DEF Files, Gets
    <3>4. Within(entry', granted, misled')
      BY <1>0, <2>1, <2>3, <3>2, <3>3 DEF Within
    <3>5. LeaseType'
      BY <1>0, <1>5, <3>2, <3>3 DEF Fetched, LeaseType
    <3>6. QED  BY <1>0, <1>5, <2>2, <3>4, <3>5 DEF Fetched, LeaseInv
  <2>4. CASE entry \notin Files
    <3>1. ~entry.remote
      BY <1>0, <2>4, RemoteIsFile
    <3>2. LeaseType'
      BY <1>0, <1>5, <3>1 DEF Fetched, LeaseType
    <3>3. QED  BY <1>0, <1>5, <2>2, <3>1, <3>2 DEF Fetched, LeaseInv
  <2>5. QED  BY <2>3, <2>4
<1>6. ASSUME NEW c \in Leased, Head(c) PROVE LeaseInv'
  <2>1. PICK s \in {Never, granted[c]} :
          putting' = [at |-> IF s < clock + FreePeriod THEN "extend" ELSE "known",
                      content |-> c, sunset |-> s, desired |-> clock + FreePeriod]
    BY <1>6 DEF Head
  <2>2. s \in Nat /\ s <= granted[c] /\ FreePeriod <= granted[c]
    BY <1>0, <1>6, <2>1 DEF Head, Has, Never, LeaseType
  <2>3. /\ putting' \in Puts /\ putting'.sunset = s /\ putting'.content = c
    BY <1>0, <2>1, <2>2 DEF Puts, LeaseType
  <2>4. PutWithin(putting', granted)
    BY <2>2, <2>3 DEF PutWithin
  <2>5. LeaseType'
    BY <1>0, <1>6, <2>3 DEF Head, LeaseType
  <2>6. QED  BY <1>0, <1>6, <2>4, <2>5 DEF Head, LeaseInv
<1>7. CASE Extend
  <2>1. putting \in Puts
    BY <1>0, <1>7 DEF Extend, LeaseType, NoPut
  <2>2. /\ putting' \in Puts /\ putting'.sunset = putting.sunset
        /\ putting'.content = putting.content
    BY <1>7, <2>1 DEF Extend, Puts
  <2>3. granted' \in [Leased -> Nat] /\ \A c \in Leased : granted[c] <= granted'[c]
    BY <1>0, <1>7, <2>1 DEF Extend, LeaseType, Puts
  <2>4. PutWithin(putting', granted)
    BY <1>0, <2>1, <2>2 DEF PutWithin
  <2>5. LeaseType'
    BY <1>0, <1>7, <2>2, <2>3 DEF Extend, LeaseType
  <2>6. /\ Within(entry, granted', misled) /\ PutWithin(putting', granted')
        /\ GetsWithin(getting, granted')
    BY <1>0, <2>3, <2>4, GrowthKeeps DEF LeaseType
  <2>7. QED  BY <1>7, <2>5, <2>6 DEF Extend, LeaseInv
<1>8. CASE Known
  <2>1. putting \in Puts
    BY <1>0, <1>8 DEF Known, LeaseType, NoPut
  <2>2. /\ putting.content \in Leased /\ putting.sunset \in Nat
        /\ putting.sunset <= granted[putting.content]
        /\ FreePeriod <= granted[putting.content]
    BY <1>0, <2>1 DEF PutWithin, Puts
  <2>3. entry' = File(putting.content, putting.sunset, Never) /\ entry' \in Files
    BY <1>8, <2>2 DEF Known, File, Files, Never
  <2>4. Within(entry', granted, misled')
    BY <2>2, <2>3 DEF Within, File, Never
  <2>5. putting' \notin Puts
    BY <1>8 DEF Known, NoPut, Puts
  <2>6. LeaseType'
    BY <1>0, <1>8, <2>3 DEF Known, LeaseType
  <2>7. QED  BY <1>0, <1>8, <2>4, <2>5, <2>6 DEF Known, LeaseInv, PutWithin
<1>9. ASSUME NEW c \in Leased, Put(c) PROVE LeaseInv'
  <2>1. PICK end \in (clock + 1) .. (clock + FreePeriod) :
          /\ c \in Small => end = clock + FreePeriod
          /\ granted' = [granted EXCEPT ![c] = IF @ < end THEN end ELSE @]
    BY <1>9 DEF Put
  <2>2. end \in Nat /\ clock \in Nat
    BY <1>0 DEF LeaseType
  <2>3. /\ granted' \in [Leased -> Nat] /\ end <= granted'[c]
        /\ \A b \in Leased : granted[b] <= granted'[b]
    BY <1>0, <2>1, <2>2 DEF LeaseType
  <2>4. entry' = File(c, Never, clock) /\ entry' \in Files
    BY <1>9, <2>2 DEF Put, File, Files, Never
  <2>5. Within(entry', granted', misled')
    BY <2>1, <2>2, <2>3, <2>4 DEF Within, File, Never
  <2>6. LeaseType'
    BY <1>0, <1>9, <2>3, <2>4 DEF Put, LeaseType
  <2>7. PutWithin(putting, granted') /\ GetsWithin(getting, granted')
    BY <1>0, <2>3, GrowthKeeps DEF LeaseType
  <2>8. QED  BY <1>9, <2>5, <2>6, <2>7 DEF Put, LeaseInv
<1>10. CASE UNCHANGED leaseVars
BY <1>0, <1>10 DEF leaseVars, LeaseInv, LeaseType, Has
<1>11. QED  BY <1>1, <1>2, <1>3, <1>4, <1>5, <1>6, <1>7, <1>8, <1>9, <1>10 DEF LeaseNext

\* For all contents, free periods and clocks, user.blossom.expiry promises no
\* more than the server granted the content shown (getxattr against do_upload,
\* read_content and the server's leases), unless a fetch of content that was
\* truncated away reported late.
THEOREM ExpiryGranted == LeaseSpec => []ShownIsGranted
<1>1. LeaseInv => ShownIsGranted
  <2> SUFFICES ASSUME LeaseInv, entry.remote, ~misled
               PROVE  Getxattr <= granted[entry.content]
    BY DEF ShownIsGranted
  <2>1. entry \in Files
    BY RemoteIsFile DEF LeaseInv
  <2>2. granted[entry.content] \in Nat
    BY <2>1 DEF LeaseInv, LeaseType, Files
  <2>3. QED  BY <2>1, <2>2 DEF LeaseInv, Within, Getxattr, EffectiveExpiry, Never
<1>2. QED  BY <1>1, InitLease, StepLease, PTL DEF LeaseSpec
=============================================================================
