---------------------------- MODULE WalletProofs ----------------------------
(***************************************************************************)
(* Proofs about Wallet, for any payers, requests, tokens, times and        *)
(* numbers of calls; and about Cashu, whose loops are shown to decode what *)
(* a request or a token says, however long it is.                          *)
(*                                                                         *)
(* FreshAnswer is not inductive: an answer is fresh because it is looked   *)
(* for since a second that is not before the one the payment was begun in, *)
(* and a payment was never begun later than now.  PaidOnce needs to know   *)
(* that nothing was sent until the request is.                             *)
(***************************************************************************)
EXTENDS Wallet, Induction, TLAPS

PCs == {"idle", "first", "pay", "send", "fetch", "second"}
Taken == Answers \union {Nothing} \union {OfFile(t) : t \in 0 .. MaxTime}

\* The values of one payer's variables fit each other, at time n with strategy s.
Fits(c, k, b, f, a, x, n, s) ==
  /\ c \in PCs /\ k \in 0 .. MaxCalls
  /\ b \in 0 .. MaxTime /\ f \in 0 .. MaxTime /\ a \in Taken /\ x \in 0 .. 1
  /\ c # "idle" => k > 0
  /\ c \in {"send", "fetch"} => s = "nwc"
  /\ c = "second" => a.says = "token"
  /\ b <= n
  /\ c \in {"send", "fetch"} => b <= f
  /\ c = "second" => b <= a.at
  /\ c # "second" => a = Nothing
  /\ c \in {"idle", "first", "pay", "send"} => x = 0
  /\ s # "nwc" => x = 0

Fine(p, n) ==
  Fits(pc[p], calls[p], begun[p], since[p], took[p], sent[p], n, strategy)

Locals ==
  /\ pc \in [Payers -> PCs]
  /\ calls \in [Payers -> 0 .. MaxCalls]
  /\ begun \in [Payers -> 0 .. MaxTime] /\ since \in [Payers -> 0 .. MaxTime]
  /\ took \in [Payers -> Taken] /\ sent \in [Payers -> 0 .. 1]

Shared ==
  /\ strategy \in Strategies /\ now \in 0 .. MaxTime
  /\ open \subseteq Payers \X (1 .. MaxCalls)
  /\ answers \subseteq Answers

WalletInv == Locals /\ Shared /\ \A p \in Payers : Fine(p, now)

-----------------------------------------------------------------------------
\* One payer moves, the others keep what they have.
LEMMA OneMoves ==
  ASSUME WalletInv, Shared', Locals', now' = now, strategy' = strategy,
         NEW p \in Payers,
         \A q \in Payers : q # p =>
           /\ pc'[q] = pc[q] /\ calls'[q] = calls[q] /\ begun'[q] = begun[q]
           /\ since'[q] = since[q] /\ took'[q] = took[q] /\ sent'[q] = sent[q],
         Fits(pc'[p], calls'[p], begun'[p], since'[p], took'[p], sent'[p], now, strategy)
  PROVE  WalletInv'
<1>1. ASSUME NEW q \in Payers PROVE Fine(q, now)'
  <2>1. CASE q = p
    BY <2>1 DEF Fine
  <2>2. CASE q # p
    BY <2>2 DEF WalletInv, Fine
  <2>3. QED  BY <2>1, <2>2
<1>2. QED  BY <1>1 DEF WalletInv

\* Payers whose calls return know nothing any more.
LEMMA ReturnKeeps ==
  ASSUME WalletInv, NEW ps \in SUBSET Payers, Return(ps), Shared', now' = now,
         strategy' = strategy
  PROVE  WalletInv'
<1>1. 0 \in 0 .. MaxTime /\ Nothing \in Taken
  BY WalletAssumption DEF Taken
<1>2. /\ pc' = [q \in Payers |-> IF q \in ps THEN "idle" ELSE pc[q]]
      /\ took' = [q \in Payers |-> IF q \in ps THEN Nothing ELSE took[q]]
      /\ sent' = [q \in Payers |-> IF q \in ps THEN 0 ELSE sent[q]]
      /\ begun' = [q \in Payers |-> IF q \in ps THEN 0 ELSE begun[q]]
      /\ since' = [q \in Payers |-> IF q \in ps THEN 0 ELSE since[q]]
      /\ calls' = calls
  BY DEF Return
<1>3. Locals'
  BY <1>1, <1>2 DEF WalletInv, Locals, PCs
<1>4. ASSUME NEW q \in Payers PROVE Fine(q, now)'
  <2>1. CASE q \in ps
    <3>1. Fits("idle", calls[q], 0, 0, Nothing, 0, now, strategy)
      BY <1>1 DEF Fits, WalletInv, Locals, Shared, PCs
    <3>2. QED  BY <1>2, <2>1, <3>1 DEF Fine
  <2>2. CASE q \notin ps
    BY <1>2, <2>2 DEF WalletInv, Fine
  <2>3. QED  BY <2>1, <2>2
<1>5. QED  BY <1>3, <1>4 DEF WalletInv

LEMMA InitWallet == Init => WalletInv
<1> SUFFICES ASSUME Init PROVE WalletInv
  OBVIOUS
<1>1. 0 \in 0 .. MaxTime /\ 0 \in 0 .. MaxCalls /\ Nothing \in Taken
  BY WalletAssumption DEF Taken
<1>2. Locals
  BY <1>1 DEF Init, Locals, PCs
<1>3. Shared
  BY <1>1 DEF Init, Shared
<1>4. ASSUME NEW p \in Payers PROVE Fine(p, now)
  <2>1. Fits("idle", 0, 0, 0, Nothing, 0, 0, strategy)
    BY <1>1 DEF Fits, PCs
  <2>2. QED  BY <2>1 DEF Init, Fine
<1>5. QED  BY <1>2, <1>3, <1>4 DEF WalletInv

\* A step of a payer, and the start of a call.
LEMMA PayerKeeps ==
  ASSUME WalletInv, NEW p \in Payers, Begin(p) \/ PayStep(p)
  PROVE  WalletInv'
<1> USE DEF Goto
<1>0. /\ Locals /\ Shared /\ {p} \in SUBSET Payers
      /\ Fits(pc[p], calls[p], begun[p], since[p], took[p], sent[p], now, strategy)
  BY DEF WalletInv, Fine
<1>1. CASE Begin(p)
  <2>1. calls[p] + 1 \in 0 .. MaxCalls /\ calls[p] + 1 > 0
    BY <1>0, <1>1, WalletAssumption DEF Begin, Locals
  <2>2. Locals' /\ Shared'
    BY <1>0, <1>1, <2>1 DEF Begin, Locals, Shared, PCs
  <2>3. took[p] = took'[p] /\ begun[p] = begun'[p] /\ since[p] = since'[p]
        /\ sent'[p] = sent[p] /\ pc'[p] = "first" /\ calls'[p] = calls[p] + 1
    BY <1>0, <1>1 DEF Begin, Locals
  <2>4. Fits("first", calls[p] + 1, begun[p], since[p], took[p], sent[p], now, strategy)
    BY <1>0, <1>1, <2>1 DEF Begin, Fits, PCs
  <2>5. \A q \in Payers : q # p =>
          /\ pc'[q] = pc[q] /\ calls'[q] = calls[q] /\ begun'[q] = begun[q]
          /\ since'[q] = since[q] /\ took'[q] = took[q] /\ sent'[q] = sent[q]
    BY <1>0, <1>1 DEF Begin, Locals
  <2>6. now' = now /\ strategy' = strategy
    BY <1>1 DEF Begin
  <2>7. QED  BY <2>2, <2>3, <2>4, <2>5, <2>6, OneMoves
<1>2. CASE First(p)
  <2>1. Shared' /\ now' = now /\ strategy' = strategy /\ pc[p] = "first"
    BY <1>0, <1>2 DEF First, Shared
  <2>2. CASE Return({p})
    BY <1>0, <2>1, <2>2, ReturnKeeps
  <2>3. CASE ~Return({p})
    <3>1. /\ pc' = [pc EXCEPT ![p] = "pay"] /\ begun' = [begun EXCEPT ![p] = now]
          /\ UNCHANGED <<calls, since, took, sent>>
      BY <1>2, <2>3 DEF First
    <3>2. Locals'
      BY <1>0, <3>1 DEF Locals, Shared, PCs
    <3>4. Fits("pay", calls[p], now, since[p], took[p], sent[p], now, strategy)
      BY <1>0, <2>1 DEF Fits, PCs, Shared
    <3>5. QED  BY <1>0, <2>1, <3>1, <3>2, <3>4, OneMoves DEF Locals
  <2>4. QED  BY <2>2, <2>3
<1>3. CASE PayNone(p)
  BY <1>0, <1>3, ReturnKeeps DEF PayNone, Shared
<1>4. CASE PayToken(p)
  <2>1. OfFile(now) \in Taken /\ OfFile(now).says = "token" /\ OfFile(now).at = now
    BY <1>0 DEF Taken, OfFile, Shared
  <2>2. /\ pc' = [pc EXCEPT ![p] = "second"] /\ took' = [took EXCEPT ![p] = OfFile(now)]
        /\ UNCHANGED <<calls, begun, since, sent>> /\ pc[p] = "pay"
    BY <1>4 DEF PayToken
  <2>3. Locals' /\ Shared' /\ now' = now /\ strategy' = strategy
    BY <1>0, <1>4, <2>1, <2>2 DEF PayToken, Locals, Shared, PCs
  <2>4. Fits("second", calls[p], begun[p], since[p], OfFile(now), sent[p], now, strategy)
    BY <1>0, <2>1, <2>2 DEF Fits, PCs
  <2>5. QED  BY <1>0, <2>2, <2>3, <2>4, OneMoves DEF Locals
<1>5. CASE Ask(p)
  <2>1. Shared' /\ now' = now /\ strategy' = strategy /\ pc[p] = "pay" /\ strategy = "nwc"
    BY <1>0, <1>5 DEF Ask, Shared
  <2>2. CASE Return({p})
    BY <1>0, <2>1, <2>2, ReturnKeeps
  <2>3. CASE ~Return({p})
    <3>1. /\ pc' = [pc EXCEPT ![p] = "send"] /\ since' = [since EXCEPT ![p] = now]
          /\ UNCHANGED <<calls, begun, took, sent>>
      BY <1>5, <2>3 DEF Ask
    <3>2. Locals'
      BY <1>0, <3>1 DEF Locals, Shared, PCs
    <3>3. Fits("send", calls[p], begun[p], now, took[p], sent[p], now, strategy)
      BY <1>0, <2>1 DEF Fits, PCs, Shared
    <3>4. QED  BY <1>0, <2>1, <3>1, <3>2, <3>3, OneMoves DEF Locals
  <2>4. QED  BY <2>2, <2>3
<1>6. CASE Send(p)
  <2>1. now' = now /\ strategy' = strategy /\ pc[p] = "send" /\ UNCHANGED answers
    BY <1>6 DEF Send
  <2>2. Call(p) \in Payers \X (1 .. MaxCalls)
    <3>1. calls[p] \in 0 .. MaxCalls /\ calls[p] > 0
      BY <1>0, <2>1 DEF Fits
    <3>2. QED  BY <3>1, WalletAssumption DEF Call
  <2>3. Shared'
    BY <1>0, <1>6, <2>1, <2>2 DEF Send, Shared
  <2>4. CASE Return({p})
    BY <1>0, <2>1, <2>3, <2>4, ReturnKeeps
  <2>5. CASE ~Return({p})
    <3>1. /\ pc' = [pc EXCEPT ![p] = "fetch"] /\ sent' = [sent EXCEPT ![p] = @ + 1]
          /\ UNCHANGED <<calls, begun, since, took>>
      BY <1>6, <2>5 DEF Send
    <3>2. sent[p] + 1 = 1
      BY <1>0, <2>1 DEF Fits
    <3>3. Locals'
      BY <1>0, <3>1, <3>2 DEF Locals, PCs
    <3>4. Fits("fetch", calls[p], begun[p], since[p], took[p], 1, now, strategy)
      BY <1>0, <2>1 DEF Fits, PCs
    <3>5. QED  BY <1>0, <2>1, <2>3, <3>1, <3>2, <3>3, <3>4, OneMoves DEF Locals
  <2>6. QED  BY <2>4, <2>5
<1>7. CASE Fetch(p)
  <2>1. Shared' /\ now' = now /\ strategy' = strategy /\ pc[p] = "fetch"
    BY <1>0, <1>7 DEF Fetch, Shared
  <2>2. CASE Return({p})
    BY <1>0, <2>1, <2>2, ReturnKeeps
  <2>3. CASE ~Return({p})
    <3>1. PICK a \in Heard(p) :
            /\ a.says = "token"
            /\ pc' = [pc EXCEPT ![p] = "second"] /\ took' = [took EXCEPT ![p] = a]
            /\ UNCHANGED <<calls, begun, since, sent>>
      BY <1>7, <2>3 DEF Fetch
    <3>2. a \in Answers /\ a.at >= since[p]
      BY <1>0 DEF Heard, Shared
    <3>3. a \in Taken /\ begun[p] <= a.at
      BY <1>0, <2>1, <3>2 DEF Taken, Fits, Answers
    <3>4. Locals'
      BY <1>0, <3>1, <3>3 DEF Locals, PCs
    <3>5. Fits("second", calls[p], begun[p], since[p], a, sent[p], now, strategy)
      BY <1>0, <2>1, <3>1, <3>3 DEF Fits, PCs
    <3>6. QED  BY <1>0, <2>1, <3>1, <3>4, <3>5, OneMoves DEF Locals
  <2>4. QED  BY <2>2, <2>3
<1>8. CASE Second(p)
  BY <1>0, <1>8, ReturnKeeps DEF Second, Shared
<1>9. QED
  BY <1>1, <1>2, <1>3, <1>4, <1>5, <1>6, <1>7, <1>8 DEF PayStep

LEMMA StepWallet == WalletInv /\ [Next]_vars => WalletInv'
<1> SUFFICES ASSUME WalletInv, [Next]_vars PROVE WalletInv'
  OBVIOUS
<1>0. Locals /\ Shared /\ \A p \in Payers : Fine(p, now)
  BY DEF WalletInv
<1>1. ASSUME NEW p \in Payers, Begin(p) \/ PayStep(p) PROVE WalletInv'
  BY <1>1, PayerKeeps
<1>2. ASSUME NEW ps \in Processes, Kill(ps) PROVE WalletInv'
  <2>1. ps \in SUBSET Payers
    BY WalletAssumption DEF Processes
  <2>2. Return(ps) /\ Shared' /\ now' = now /\ strategy' = strategy
    BY <1>0, <1>2 DEF Kill, Shared
  <2>3. QED  BY <2>1, <2>2, ReturnKeeps
<1>3. ASSUME NEW call \in open, NEW says \in {"token", "error", "unreadable"},
             Reply(call, says)
      PROVE  WalletInv'
  <2>1. call \in Payers \X (1 .. MaxCalls)
    BY <1>0 DEF Shared
  <2>2. [call |-> call, at |-> now, says |-> says] \in Answers
    BY <1>0, <2>1 DEF Answers, Shared
  <2>3. Shared'
    BY <1>0, <1>3, <2>2 DEF Reply, Shared
  <2>4. Locals' /\ \A p \in Payers : Fine(p, now)'
    BY <1>0, <1>3 DEF Reply, payerVars, Locals, Fine
  <2>5. QED  BY <2>3, <2>4 DEF WalletInv
<1>4. CASE Tick
  <2>1. now' = now + 1 /\ now' \in 0 .. MaxTime
    BY <1>0, <1>4, WalletAssumption DEF Tick, Shared
  <2>2. Locals' /\ Shared'
    BY <1>0, <1>4, <2>1 DEF Tick, payerVars, Locals, Shared
  <2>3. ASSUME NEW p \in Payers PROVE Fine(p, now)'
    <3>1. Fits(pc[p], calls[p], begun[p], since[p], took[p], sent[p], now + 1, strategy)
      BY <1>0 DEF Fine, Fits, Shared
    <3>2. QED  BY <1>4, <2>1, <3>1 DEF Tick, payerVars, Fine
  <2>4. QED  BY <2>2, <2>3 DEF WalletInv
<1>5. CASE UNCHANGED vars
  BY <1>0, <1>5 DEF vars, payerVars, WalletInv, Locals, Shared, Fine
<1>6. QED
  BY <1>1, <1>2, <1>3, <1>4, <1>5 DEF Next

THEOREM WalletCorrect == Spec => []WalletInv
  BY InitWallet, StepWallet, PTL DEF Spec

\* The variables have their types, and only who pays by wallet waits for one.
THEOREM TypeCorrect == Spec => []TypeOK
<1>1. WalletInv => TypeOK
  <2> SUFFICES ASSUME WalletInv PROVE TypeOK
    OBVIOUS
  <2>1. sent \in [Payers -> Nat]
    BY DEF WalletInv, Locals
  <2>2. ASSUME NEW p \in Payers
        PROVE  /\ pc[p] # "idle" => calls[p] > 0
               /\ pc[p] \in {"send", "fetch"} => strategy = "nwc"
               /\ pc[p] = "second" => took[p].says = "token"
    BY DEF WalletInv, Fine, Fits
  <2>3. QED  BY <2>1, <2>2 DEF WalletInv, Locals, Shared, PCs, Taken, TypeOK
<1>2. QED  BY <1>1, WalletCorrect, PTL

\* The answer a payment takes was given in the second the payment began in, or
\* later, however many payments of how many processes ask the wallet at once.
THEOREM AnswersAreFresh == Spec => []FreshAnswer
<1>1. WalletInv => FreshAnswer
  <2> SUFFICES ASSUME WalletInv, NEW p \in Payers, took[p] # Nothing
               PROVE  took[p].at >= begun[p]
    BY DEF FreshAnswer
  <2>1. Fine(p, now)
    BY DEF WalletInv
  <2>2. pc[p] = "second" /\ begun[p] <= took[p].at
    BY <2>1 DEF Fine, Fits
  <2>3. took[p].at \in Nat /\ begun[p] \in Nat
    BY <2>1 DEF Fine, Fits, Taken, Answers, Nothing, OfFile
  <2>4. QED  BY <2>2, <2>3
<1>2. QED  BY <1>1, WalletCorrect, PTL

\* No call has the wallet pay twice.
THEOREM CallsPayOnce == Spec => []PaidOnce
<1>1. WalletInv => PaidOnce
  BY DEF WalletInv, Fine, Fits, PaidOnce
<1>2. QED  BY <1>1, WalletCorrect, PTL

-----------------------------------------------------------------------------
(* Payment requests and tokens.                                            *)

\* What FieldsOf has after k of a map's pairs.
Fit(v, kinds, k) ==
  \A j \in 1 .. k : v.of[j][1] \in DOMAIN kinds => OfKind(v.of[j][2], kinds[v.of[j][1]])
Held(v, kinds, k) == {key \in DOMAIN kinds : \E j \in 1 .. k : v.of[j][1] = key}
IsLast(v, key, k, j) ==
  j \in 1 .. k /\ v.of[j][1] = key /\ \A i \in j + 1 .. k : v.of[i][1] # key
LastAt(v, key, k) == CHOOSE j \in 1 .. k : IsLast(v, key, k, j)
Gathered(v, kinds, k) == [key \in Held(v, kinds, k) |-> v.of[LastAt(v, key, k)][2].of]
After(v, kinds, k) == IF Fit(v, kinds, k) THEN Decoded(Gathered(v, kinds, k)) ELSE Failed

\* What one more pair makes of it.
NextField(v, kinds, was, k) ==
  IF ~was.ok \/ v.of[k][1] \notin DOMAIN kinds THEN was
  ELSE IF OfKind(v.of[k][2], kinds[v.of[k][1]]) THEN Put(was, v.of[k][1], v.of[k][2].of)
  ELSE Failed

LEMMA LastIs ==
  ASSUME NEW v, NEW key, NEW k \in Nat, NEW j, IsLast(v, key, k, j)
  PROVE  LastAt(v, key, k) = j
<1>1. LastAt(v, key, k) \in 1 .. k /\ IsLast(v, key, k, LastAt(v, key, k))
  BY DEF LastAt, IsLast
<1> DEFINE i == LastAt(v, key, k)
<1> HIDE DEF i
<1>2. i \in 1 .. k /\ IsLast(v, key, k, i)
  BY <1>1 DEF i
<1>3. ~ (i < j) /\ ~ (j < i)
  BY <1>2 DEF IsLast
<1>4. i = j
  BY <1>2, <1>3 DEF IsLast
<1>5. QED
  BY <1>4 DEF i

\* The last pair with a key, among the first k, is there or there is none.
LEMMA LastExists ==
  ASSUME NEW v, NEW key, NEW k \in Nat, \E j \in 1 .. k : v.of[j][1] = key
  PROVE  IsLast(v, key, k, LastAt(v, key, k))
<1> DEFINE S == {n \in Nat : n <= k /\ \E j \in 1 .. k : v.of[j][1] = key /\ n = k - j}
<1>1. PICK j \in 1 .. k : v.of[j][1] = key
  OBVIOUS
<1>2. k - j \in S
  BY <1>1
<1>3. PICK n \in S : \A m \in S : n <= m
  BY <1>2, LeastNumber
<1>4. PICK l \in 1 .. k : v.of[l][1] = key /\ n = k - l
  BY <1>3
<1>5. ASSUME NEW i \in l + 1 .. k, v.of[i][1] = key
      PROVE  FALSE
  <2>1. k - i \in S
    BY <1>4, <1>5
  <2>2. n <= k - i
    BY <1>3, <2>1
  <2>3. QED
    BY <1>4, <2>2
<1>6. IsLast(v, key, k, l)
  BY <1>4, <1>5 DEF IsLast
<1>7. QED
  BY <1>6, LastIs

\* The loop of FieldsOf.
LEMMA AfterBegins == \A v, kinds : After(v, kinds, 0) = Decoded(<<>>)
<1>1. ASSUME NEW v, NEW kinds
      PROVE  After(v, kinds, 0) = Decoded(<<>>)
  <2>1. Fit(v, kinds, 0) /\ Held(v, kinds, 0) = {}
    BY DEF Fit, Held
  <2>2. Gathered(v, kinds, 0) = <<>>
    BY <2>1 DEF Gathered
  <2>3. QED
    BY <2>1, <2>2 DEF After
<1>2. QED
  BY <1>1

LEMMA AfterGoesOn ==
  ASSUME NEW v, NEW kinds, NEW k \in Nat, k > 0
  PROVE  After(v, kinds, k) = NextField(v, kinds, After(v, kinds, k - 1), k)
<1> DEFINE was == After(v, kinds, k - 1)
           key == v.of[k][1]
           val == v.of[k][2]
<1>0. k - 1 \in Nat /\ 1 .. k = (1 .. k - 1) \union {k}
  OBVIOUS
<1>1. was.ok <=> Fit(v, kinds, k - 1)
  BY DEF After, Decoded, Failed
<1>2. Fit(v, kinds, k) <=> Fit(v, kinds, k - 1)
                           /\ (key \in DOMAIN kinds => OfKind(val, kinds[key]))
  BY <1>0 DEF Fit
<1>3. Held(v, kinds, k) = Held(v, kinds, k - 1) \union ({key} \cap DOMAIN kinds)
  BY <1>0 DEF Held
<1>4. ASSUME NEW x \in Held(v, kinds, k)
      PROVE  LastAt(v, x, k) = IF x = key THEN k ELSE LastAt(v, x, k - 1)
  <2>1. CASE x = key
    <3>1. IsLast(v, x, k, k)
      BY <2>1 DEF IsLast
    <3>2. QED
      BY <2>1, <3>1, LastIs
  <2>2. CASE x # key
    <3>1. \E j \in 1 .. k - 1 : v.of[j][1] = x
      BY <1>0, <2>2 DEF Held
    <3>2. IsLast(v, x, k - 1, LastAt(v, x, k - 1))
      BY <1>0, <3>1, LastExists
    <3>3. IsLast(v, x, k, LastAt(v, x, k - 1))
      BY <1>0, <2>2, <3>2 DEF IsLast
    <3>4. QED
      BY <2>2, <3>3, LastIs
  <2>3. QED
    BY <2>1, <2>2
<1>5. CASE ~Fit(v, kinds, k - 1)
  BY <1>1, <1>2, <1>5 DEF After, NextField
<1>6. CASE Fit(v, kinds, k - 1) /\ key \notin DOMAIN kinds
  <2>1. Gathered(v, kinds, k) = Gathered(v, kinds, k - 1)
    <3>1. Held(v, kinds, k) = Held(v, kinds, k - 1)
      BY <1>3, <1>6
    <3>2. \A x \in Held(v, kinds, k) : LastAt(v, x, k) = LastAt(v, x, k - 1)
      BY <1>4, <1>6 DEF Held
    <3>3. QED
      BY <3>1, <3>2 DEF Gathered
  <2>2. QED
    BY <1>1, <1>2, <1>6, <2>1 DEF After, NextField
<1>7. CASE Fit(v, kinds, k - 1) /\ key \in DOMAIN kinds /\ OfKind(val, kinds[key])
  <2>1. Gathered(v, kinds, k)
          = [x \in Held(v, kinds, k - 1) \union {key} |->
               IF x = key THEN val.of ELSE Gathered(v, kinds, k - 1)[x]]
    <3>1. Held(v, kinds, k) = Held(v, kinds, k - 1) \union {key}
      BY <1>3, <1>7
    <3>2. \A x \in Held(v, kinds, k) :
            v.of[LastAt(v, x, k)][2].of
              = IF x = key THEN val.of ELSE Gathered(v, kinds, k - 1)[x]
      BY <1>4, <3>1 DEF Gathered
    <3>3. QED
      BY <3>1, <3>2 DEF Gathered
  <2>2. was = Decoded(Gathered(v, kinds, k - 1))
    BY <1>7 DEF After
  <2>3. DOMAIN Gathered(v, kinds, k - 1) = Held(v, kinds, k - 1)
    BY DEF Gathered
  <2>4. Put(was, key, val.of) = Decoded(Gathered(v, kinds, k))
    <3> DEFINE g == Gathered(v, kinds, k - 1)
    <3> HIDE DEF g, was, key, val
    <3>1. was.is = g
      BY <2>2 DEF Decoded, g
    <3>2. Put(was, key, val.of)
            = Decoded([x \in DOMAIN g \union {key} |-> IF x = key THEN val.of ELSE g[x]])
      BY <3>1 DEF Put
    <3>3. QED
      BY <2>1, <2>3, <3>2 DEF g
  <2>5. QED
    BY <1>1, <1>2, <1>7, <2>4 DEF After, NextField
<1>8. CASE Fit(v, kinds, k - 1) /\ key \in DOMAIN kinds /\ ~OfKind(val, kinds[key])
  BY <1>1, <1>2, <1>8 DEF After, NextField
<1>9. QED
  BY <1>5, <1>6, <1>7, <1>8

\* FieldsOf has the last value of each key, if every one is of its kind.
LEMMA FieldsAre ==
  ASSUME NEW v, NEW kinds, NEW T, v.is = "map" => v.of \in Seq(T)
  PROVE  FieldsOf(v, kinds) = IF v.is = "map" THEN After(v, kinds, Len(v.of)) ELSE Failed
<1>1. CASE v.is # "map"
  BY <1>1 DEF FieldsOf
<1>2. CASE v.is = "map"
  <2> DEFINE n == Len(v.of)
             D == 0 .. n
             h == [k \in D |-> After(v, kinds, k)]
             Rec(f) == [k \in D |-> IF k = 0 THEN Decoded(<<>>)
                                    ELSE NextField(v, kinds, f[k - 1], k)]
             at == CHOOSE f : f = Rec(f)
  <2>0. n \in Nat
    BY <1>2
  <2>1. FieldsOf(v, kinds) = at[n]
    BY <1>2 DEF FieldsOf, NextField
  <2>2. h = Rec(h)
    <3> HIDE DEF n
    <3>1. \A k \in D : h[k] = IF k = 0 THEN Decoded(<<>>) ELSE NextField(v, kinds, h[k - 1], k)
      <4>1. ASSUME NEW k \in D
            PROVE  h[k] = IF k = 0 THEN Decoded(<<>>) ELSE NextField(v, kinds, h[k - 1], k)
        <5>1. CASE k = 0
          BY <2>0, <5>1, AfterBegins
        <5>2. CASE k # 0
          <6>1. k \in Nat /\ k > 0 /\ k - 1 \in D
            BY <2>0, <5>2
          <6>2. QED
            BY <5>2, <6>1, AfterGoesOn
        <5>3. QED
          BY <5>1, <5>2
      <4>2. QED
        BY <4>1
    <3>2. QED
      BY <3>1
  <2>3. at = Rec(at)
    <3> HIDE DEF h, Rec
    <3> QED BY <2>2
  <2>4. \A k \in 0 .. n : at[k] = h[k]
    <3> DEFINE S == {k \in 0 .. n : at[k] = h[k]}
    <3>0. /\ \A k \in D : at[k] = Rec(at)[k]
          /\ \A k \in D : h[k] = Rec(h)[k]
      <4> HIDE DEF h, Rec, at
      <4> QED BY <2>2, <2>3
    <3>1. 0 \in S
      <4> HIDE DEF at, h, n
      <4> QED BY <2>0, <3>0
    <3>2. \A k \in 1 .. n : k - 1 \in S => k \in S
      <4> HIDE DEF at, h, n
      <4> QED BY <2>0, <3>0
    <3>3. 0 .. n \subseteq S
      <4> HIDE DEF S, n
      <4> QED BY <2>0, <3>1, <3>2, IntervalInduction
    <3>4. QED
      BY <3>3
  <2>5. QED
    <3> HIDE DEF at, n
    <3>1. at[n] = After(v, kinds, n)
      BY <2>0, <2>4
    <3>2. QED
      BY <1>2, <2>1, <3>1 DEF n
<1>3. QED
  BY <1>1, <1>2

\* Pairs has the pairs with a key; the last of them is the last in the map.
LEMMA PairsAre ==
  ASSUME NEW v, NEW T, v.of \in Seq(T), NEW key
  PROVE  /\ Pairs(v, key) \in Seq(T)
         /\ \A k \in DOMAIN Pairs(v, key) :
              Pairs(v, key)[k][1] = key /\ Pairs(v, key)[k] \in Range(v.of)
         /\ \A pair \in Range(v.of) :
              pair[1] = key => \E k \in DOMAIN Pairs(v, key) : Pairs(v, key)[k] = pair
         /\ Pairs(v, key) # <<>> <=> \E j \in 1 .. Len(v.of) : v.of[j][1] = key
         /\ Pairs(v, key) # <<>> => LastOf(v, key) = v.of[LastAt(v, key, Len(v.of))][2].of
<1> DEFINE s == v.of
           n == Len(s)
           S == {pair \in Range(s) : pair[1] = key}
           o == Pairs(v, key)
<1>1. \A i \in 1 .. n : s[i] \in S <=> s[i][1] = key
  BY DEF Range
<1>2. o = Only(s, S)
  BY DEF Pairs
<1> HIDE DEF s, n, o, S
<1>3. s \in Seq(T) /\ n = Len(s)
  BY DEF s, n
<1>4. o \in Seq(T) /\ \E pick : Picks(s, S, o, n, pick)
  BY <1>2, <1>3, OnlyPicks
<1>5. PICK pick : Picks(s, S, o, n, pick)
  BY <1>4
<1>6. n \in Nat /\ Len(o) \in Nat /\ DOMAIN o = 1 .. Len(o) /\ DOMAIN s = 1 .. n
  BY <1>3, <1>4
<1>7. ASSUME NEW k \in DOMAIN o
      PROVE  o[k][1] = key /\ o[k] \in Range(s)
  <2>1. pick[k] \in 1 .. n /\ o[k] = s[pick[k]]
    BY <1>5, <1>6 DEF Picks
  <2>2. s[pick[k]] \in S
    BY <1>5, <1>6, <2>1 DEF Picks
  <2>3. QED
    BY <1>1, <1>6, <2>1, <2>2 DEF Range
<1>8. o # <<>> <=> \E j \in 1 .. n : s[j][1] = key
  <2>1. o # <<>> <=> Len(o) > 0
    BY <1>4
  <2>2. Len(o) > 0 <=> \E j \in 1 .. Len(o) : TRUE
    BY <1>6
  <2>3. (\E j \in 1 .. Len(o) : TRUE) <=> \E j \in 1 .. n : s[j] \in S
    BY <1>5 DEF Picks
  <2>4. QED
    BY <1>1, <2>1, <2>2, <2>3
<1>9. ASSUME o # <<>>
      PROVE  LastOf(v, key) = s[LastAt(v, key, n)][2].of
  <2> DEFINE m == Len(o)
  <2>1. m \in 1 .. Len(o)
    BY <1>4, <1>6, <1>9
  <2>2. pick[m] \in 1 .. n /\ o[m] = s[pick[m]] /\ s[pick[m]] \in S
    BY <1>5, <2>1 DEF Picks
  <2>3. ASSUME NEW i \in pick[m] + 1 .. n
        PROVE  s[i][1] # key
    <3>1. SUFFICES ASSUME s[i] \in S
                   PROVE  FALSE
      BY <1>1, <2>2, <2>3
    <3>2. i \in 1 .. n
      BY <1>6, <2>2
    <3>3. PICK j \in 1 .. Len(o) : pick[j] = i
      BY <1>5, <3>1, <3>2 DEF Picks
    <3>4. j < m
      BY <1>6, <2>2, <3>3
    <3>5. pick[j] < pick[m]
      BY <1>5, <2>1, <3>4 DEF Picks
    <3>6. QED
      BY <1>6, <2>2, <3>2, <3>3, <3>5
  <2>4. IsLast(v, key, n, pick[m])
    BY <1>1, <2>2, <2>3 DEF IsLast, s
  <2>5. LastAt(v, key, n) = pick[m]
    <3> HIDE DEF m
    <3> QED BY <1>6, <2>4, LastIs
  <2>6. LastOf(v, key) = o[m][2].of
    BY DEF LastOf, o
  <2>7. QED
    BY <2>2, <2>5, <2>6
<1>10. ASSUME NEW pair \in Range(s), pair[1] = key
       PROVE  \E k \in DOMAIN o : o[k] = pair
  <2>1. PICK i \in 1 .. n : s[i] = pair
    BY <1>6, <1>10 DEF Range
  <2>2. PICK j \in 1 .. Len(o) : pick[j] = i
    BY <1>1, <1>5, <1>10, <2>1 DEF Picks
  <2>3. o[j] = s[pick[j]]
    BY <1>5, <2>2 DEF Picks
  <2>4. QED
    BY <1>6, <2>1, <2>2, <2>3
<1>11. QED
  BY <1>4, <1>7, <1>8, <1>9, <1>10 DEF o, s, n

\* FieldsOf is complete if every key is there and everything under it of its
\* kind, and has what is under the last of each then.
LEMMA CompleteIs ==
  ASSUME NEW v, NEW kinds, NEW T, v.is = "map" => v.of \in Seq(T)
  PROVE  /\ Complete(FieldsOf(v, kinds), kinds)
              <=> /\ v.is = "map"
                  /\ \A key \in DOMAIN kinds : Pairs(v, key) # <<>>
                  /\ Fit(v, kinds, Len(v.of))
         /\ Complete(FieldsOf(v, kinds), kinds) =>
              \A key \in DOMAIN kinds :
                FieldsOf(v, kinds).is[key] = LastOf(v, key)
<1> DEFINE n == Len(v.of)
           f == FieldsOf(v, kinds)
<1>1. CASE v.is # "map"
  <2>1. f = Failed
    BY <1>1, FieldsAre
  <2>2. QED
    BY <1>1, <2>1 DEF Complete, Failed
<1>2. CASE v.is = "map"
  <2>1. f = After(v, kinds, n)
    BY <1>2, FieldsAre
  <2>2. \A key : Pairs(v, key) # <<>> <=> \E j \in 1 .. n : v.of[j][1] = key
    BY <1>2, PairsAre
  <2>3. CASE ~Fit(v, kinds, n)
    <3>1. f = Failed
      BY <2>1, <2>3 DEF After
    <3>2. QED
      BY <2>3, <3>1 DEF Complete, Failed
  <2>4. CASE Fit(v, kinds, n)
    <3>1. f.ok /\ f.is = Gathered(v, kinds, n)
      BY <2>1, <2>4 DEF After, Decoded
    <3>2. DOMAIN f.is = Held(v, kinds, n)
      BY <3>1 DEF Gathered
    <3>3. Held(v, kinds, n) = DOMAIN kinds <=> \A key \in DOMAIN kinds : Pairs(v, key) # <<>>
      BY <2>2 DEF Held
    <3>4. ASSUME NEW key \in DOMAIN kinds, Held(v, kinds, n) = DOMAIN kinds
          PROVE  f.is[key] = LastOf(v, key)
      <4>1. f.is[key] = v.of[LastAt(v, key, n)][2].of
        BY <3>1, <3>4 DEF Gathered
      <4>2. Pairs(v, key) # <<>>
        BY <3>3, <3>4
      <4>3. QED
        BY <1>2, <4>1, <4>2, PairsAre
    <3> HIDE DEF f
    <3>5. Complete(f, kinds) <=> Held(v, kinds, n) = DOMAIN kinds
      BY <3>1, <3>2 DEF Complete
    <3>6. QED
      BY <1>2, <2>4, <3>3, <3>4, <3>5 DEF f
  <2>5. QED
    BY <2>3, <2>4
<1>3. QED
  BY <1>1, <1>2

\* decode_creq.
LEMMA CreqsAreDecoded ==
  ASSUME NEW v \in Cbor
  PROVE  LET fits == /\ v.is = "map"
                     /\ \A key \in {"a", "u", "m"} : Pairs(v, key) # <<>>
                     /\ \A k \in DOMAIN v.of :
                          CASE v.of[k][1] = "a" -> AsU64(v.of[k][2])
                            [] v.of[k][1] = "u" -> AsString(v.of[k][2])
                            [] v.of[k][1] = "m" -> AsStrings(v.of[k][2])
                            [] OTHER -> TRUE
         IN  DecodeCreq(v)
               = IF fits THEN Decoded([amount |-> LastOf(v, "a"), unit |-> LastOf(v, "u"),
                                       mints |-> Texts(LastOf(v, "m"))])
                 ELSE Failed
<1> DEFINE f == FieldsOf(v, CreqKinds)
           Right(k) == CASE v.of[k][1] = "a" -> AsU64(v.of[k][2])
                         [] v.of[k][1] = "u" -> AsString(v.of[k][2])
                         [] v.of[k][1] = "m" -> AsStrings(v.of[k][2])
                         [] OTHER -> TRUE
           fits == /\ v.is = "map"
                   /\ \A key \in {"a", "u", "m"} : Pairs(v, key) # <<>>
                   /\ \A k \in DOMAIN v.of : Right(k)
<1> SUFFICES DecodeCreq(v)
               = IF fits THEN Decoded([amount |-> LastOf(v, "a"), unit |-> LastOf(v, "u"),
                                       mints |-> Texts(LastOf(v, "m"))])
                 ELSE Failed
  OBVIOUS
<1>1. v.is = "map" => v.of \in Seq(STRING \X Cbor)
  BY CborAssumption
<1>2. /\ DOMAIN CreqKinds = {"a", "u", "m"}
      /\ CreqKinds["a"] = "u64" /\ CreqKinds["u"] = "text" /\ CreqKinds["m"] = "texts"
  BY DEF CreqKinds
<1>3. v.is = "map" => (Fit(v, CreqKinds, Len(v.of)) <=> \A k \in DOMAIN v.of : Right(k))
  <2> SUFFICES ASSUME v.is = "map"
               PROVE  Fit(v, CreqKinds, Len(v.of)) <=> \A k \in DOMAIN v.of : Right(k)
    OBVIOUS
  <2>1. DOMAIN v.of = 1 .. Len(v.of)
    BY <1>1
  <2>2. ASSUME NEW k \in 1 .. Len(v.of)
        PROVE  (v.of[k][1] \in DOMAIN CreqKinds => OfKind(v.of[k][2], CreqKinds[v.of[k][1]]))
                 <=> Right(k)
    BY <1>2 DEF OfKind, Right
  <2> HIDE DEF Right
  <2>3. QED
    BY <2>1, <2>2 DEF Fit
<1>4. Complete(f, CreqKinds) <=> fits
  <2>1. Complete(f, CreqKinds)
          <=> /\ v.is = "map"
              /\ \A key \in DOMAIN CreqKinds : Pairs(v, key) # <<>>
              /\ Fit(v, CreqKinds, Len(v.of))
    BY <1>1, CompleteIs
  <2> HIDE DEF f, Right
  <2>2. QED
    BY <1>2, <1>3, <2>1
<1>5. Complete(f, CreqKinds) =>
        f.is["a"] = LastOf(v, "a") /\ f.is["u"] = LastOf(v, "u") /\ f.is["m"] = LastOf(v, "m")
  <2>1. Complete(f, CreqKinds) => \A key \in DOMAIN CreqKinds : f.is[key] = LastOf(v, key)
    BY <1>1, CompleteIs
  <2> HIDE DEF f
  <2>2. QED
    BY <1>2, <2>1
<1>6. QED
  <2> HIDE DEF fits, f
  <2>1. DecodeCreq(v) = IF Complete(f, CreqKinds)
          THEN Decoded([amount |-> f.is["a"], unit |-> f.is["u"], mints |-> Texts(f.is["m"])])
          ELSE Failed
    BY DEF DecodeCreq, f
  <2>2. QED
    BY <1>4, <1>5, <2>1

-----------------------------------------------------------------------------
(* Sums over sequences.                                                    *)

\* up has the sums of the first k of n values.
Adds(s, n, up) ==
  up \in [0 .. n -> Nat] /\ up[0] = 0 /\ \A k \in 1 .. n : up[k] = up[k - 1] + s[k]

LEMMA AddsExist ==
  ASSUME NEW n \in Nat, NEW s, \A k \in 1 .. n : s[k] \in Nat
  PROVE  \E up : Adds(s, n, up)
<1> DEFINE G == [k \in 1 .. n |-> [x \in Nat |-> x + s[k]]]
<1>1. G \in [1 .. n -> [Nat -> Nat]]
  OBVIOUS
<1>2. PICK up : Iteration(n, Nat, 0, G, up)
  <2> HIDE DEF G
  <2> QED BY <1>1, Iterates
<1>3. \A k \in 1 .. n : up[k] = up[k - 1] + s[k]
  <2>1. \A k \in 1 .. n : k - 1 \in 0 .. n
    OBVIOUS
  <2>2. QED
    BY <1>2, <2>1 DEF Iteration
<1>4. QED
  BY <1>2, <1>3 DEF Iteration, Adds

\* Total is what the last of them is.
LEMMA SumIsLast ==
  ASSUME NEW s, NEW n \in Nat, Len(s) = n, NEW up, Adds(s, n, up)
  PROVE  Total(s) = up[n]
<1> DEFINE Eq(f) == f = [k \in 0 .. n |-> IF k = 0 THEN 0 ELSE f[k - 1] + s[k]]
           at == CHOOSE f : Eq(f)
<1>1. Total(s) = at[n]
  BY DEF Total
<1>2. Eq(up)
  <2>1. \A k \in 0 .. n : up[k] = IF k = 0 THEN 0 ELSE up[k - 1] + s[k]
    BY DEF Adds
  <2>2. QED
    BY <2>1 DEF Adds
<1>3. Eq(at)
  <2> HIDE DEF Eq
  <2> QED BY <1>2
<1>4. \A k \in 0 .. n : at[k] = IF k = 0 THEN 0 ELSE at[k - 1] + s[k]
  <2> HIDE DEF at
  <2> QED BY <1>3
<1> HIDE DEF at
<1> DEFINE R == {k \in 0 .. n : at[k] = up[k]}
<1>5. 0 \in R
  BY <1>4 DEF Adds
<1>6. \A k \in 1 .. n : k - 1 \in R => k \in R
  BY <1>4 DEF Adds
<1>7. 0 .. n \subseteq R
  <2> HIDE DEF R
  <2> QED BY <1>5, <1>6, IntervalInduction
<1>8. QED
  BY <1>1, <1>7

LEMMA SumIsNat ==
  ASSUME NEW s \in Seq(Nat)
  PROVE  Total(s) \in Nat
<1>1. Len(s) \in Nat /\ \A k \in 1 .. Len(s) : s[k] \in Nat
  OBVIOUS
<1>2. PICK up : Adds(s, Len(s), up)
  BY <1>1, AddsExist
<1>3. Total(s) = up[Len(s)] /\ Len(s) \in 0 .. Len(s)
  BY <1>1, <1>2, SumIsLast
<1>4. QED
  BY <1>2, <1>3 DEF Adds

LEMMA SumOfNone == Total(<<>>) = 0
<1> DEFINE up == [k \in 0 .. 0 |-> 0]
<1>1. Adds(<<>>, 0, up)
  BY DEF Adds
<1>2. up[0] = 0 /\ Len(<<>>) = 0
  OBVIOUS
<1>3. QED
  <2> HIDE DEF up
  <2> QED BY <1>1, <1>2, SumIsLast

\* The sum over two sequences, one after the other.
LEMMA SumOfTwo ==
  ASSUME NEW s \in Seq(Nat), NEW t \in Seq(Nat)
  PROVE  Total(s \o t) = Total(s) + Total(t)
<1> DEFINE n == Len(s)
           m == Len(t)
           u == s \o t
<1>1. n \in Nat /\ m \in Nat /\ Len(u) = n + m
  OBVIOUS
<1>2. /\ \A k \in 1 .. n : u[k] = s[k] /\ s[k] \in Nat
      /\ \A k \in 1 .. m : u[n + k] = t[k] /\ t[k] \in Nat
  BY ConcatProperties
<1> HIDE DEF u, n, m
<1>3. PICK up : Adds(s, n, up)
  BY <1>1, <1>2, AddsExist
<1>4. PICK vp : Adds(t, m, vp)
  BY <1>1, <1>2, AddsExist
<1> DEFINE h == [k \in 0 .. n + m |-> IF k <= n THEN up[k] ELSE up[n] + vp[k - n]]
<1>5. Adds(u, n + m, h)
  <2>1. ASSUME NEW k \in 0 .. n + m
        PROVE  h[k] \in Nat
    <3>1. k <= n => k \in 0 .. n
      BY <1>1
    <3>2. ~(k <= n) => k - n \in 0 .. m
      BY <1>1
    <3>3. n \in 0 .. n
      BY <1>1
    <3>4. CASE k <= n
      BY <1>3, <3>1, <3>4 DEF Adds
    <3>5. CASE ~(k <= n)
      <4>1. up[n] \in Nat /\ vp[k - n] \in Nat
        BY <1>3, <1>4, <3>2, <3>3, <3>5 DEF Adds
      <4>2. h[k] = up[n] + vp[k - n]
        BY <3>5
      <4> HIDE DEF h
      <4>3. QED
        BY <4>1, <4>2
    <3>6. QED
      BY <3>4, <3>5
  <2>2. h[0] = 0
    BY <1>1, <1>3 DEF Adds
  <2>3. ASSUME NEW k \in 1 .. n + m
        PROVE  h[k] = h[k - 1] + u[k]
    <3>1. CASE k <= n
      <4>1. k \in 1 .. n /\ k - 1 <= n
        BY <1>1, <3>1
      <4>2. h[k] = up[k] /\ h[k - 1] = up[k - 1]
        BY <1>1, <4>1
      <4>3. QED
        BY <1>2, <1>3, <4>1, <4>2 DEF Adds
    <3>2. CASE k = n + 1
      <4>1. 1 \in 1 .. m /\ 0 \in 0 .. m /\ n \in 0 .. n
        BY <1>1, <3>2
      <4>2. h[k] = up[n] + vp[1] /\ h[k - 1] = up[n]
        BY <1>1, <3>2
      <4>3. vp[1] = vp[0] + t[1] /\ vp[0] = 0 /\ u[k] = t[1] /\ t[1] \in Nat
        BY <1>2, <1>4, <3>2, <4>1 DEF Adds
      <4>4. up[n] \in Nat
        BY <1>3, <4>1 DEF Adds
      <4>5. QED
        BY <4>2, <4>3, <4>4
    <3>3. CASE k > n + 1
      <4> DEFINE i == k - n
      <4>1. i \in 1 .. m /\ i - 1 \in 0 .. m /\ n \in 0 .. n /\ k - 1 - n = i - 1 /\ n + i = k
        BY <1>1, <3>3
      <4>2. h[k] = up[n] + vp[i] /\ h[k - 1] = up[n] + vp[i - 1]
        BY <1>1, <3>3, <4>1
      <4> HIDE DEF i, h
      <4>3. vp[i] = vp[i - 1] + t[i] /\ u[k] = t[i] /\ t[i] \in Nat
        BY <1>2, <1>4, <4>1 DEF Adds
      <4>4. up[n] \in Nat /\ vp[i - 1] \in Nat
        BY <1>3, <1>4, <4>1 DEF Adds
      <4>5. QED
        BY <4>2, <4>3, <4>4
    <3>4. QED
      BY <1>1, <3>1, <3>2, <3>3
  <2>4. QED
    BY <2>1, <2>2, <2>3 DEF Adds
<1>6. h[n + m] = up[n] + vp[m]
  <2>1. m = 0 => vp[m] = 0 /\ up[n] \in Nat
    BY <1>1, <1>3, <1>4 DEF Adds
  <2>2. n + m - n = m
    BY <1>1
  <2>3. CASE m = 0
    BY <1>1, <2>1, <2>3
  <2>4. CASE m # 0
    BY <1>1, <2>2, <2>4
  <2>5. QED
    BY <2>3, <2>4
<1>7. Total(u) = h[n + m] /\ n + m \in Nat
  <2> HIDE DEF h
  <2> QED BY <1>1, <1>5, SumIsLast
<1>8. Total(s) = up[n] /\ Total(t) = vp[m]
  BY <1>1, <1>3, <1>4, SumIsLast DEF n, m
<1>9. QED
  BY <1>6, <1>7, <1>8 DEF u

\* One value more.
LEMMA SumOfMore ==
  ASSUME NEW s \in Seq(Nat), NEW x \in Nat
  PROVE  Total(Append(s, x)) = Total(s) + x
<1> DEFINE n == Len(s)
           u == Append(s, x)
<1>1. n \in Nat /\ n + 1 \in Nat /\ Len(u) = n + 1
  OBVIOUS
<1>2. u[n + 1] = x /\ \A k \in 1 .. n : u[k] = s[k] /\ s[k] \in Nat
  OBVIOUS
<1> HIDE DEF u, n
<1>3. \A k \in 1 .. n + 1 : u[k] \in Nat
  BY <1>1, <1>2
<1>4. PICK up : Adds(u, n + 1, up)
  BY <1>1, <1>3, AddsExist
<1> DEFINE lo == [k \in 0 .. n |-> up[k]]
<1>5. Adds(s, n, lo)
  <2>1. \A k \in 0 .. n : k \in 0 .. n + 1 /\ lo[k] = up[k]
    BY <1>1
  <2>2. \A k \in 1 .. n : k \in 1 .. n + 1 /\ k - 1 \in 0 .. n
    BY <1>1
  <2>3. 0 \in 0 .. n
    BY <1>1
  <2>4. lo \in [0 .. n -> Nat]
    BY <1>4, <2>1 DEF Adds
  <2> HIDE DEF lo
  <2>5. QED
    BY <1>2, <1>4, <2>1, <2>2, <2>3, <2>4 DEF Adds
<1>6. lo[n] = up[n] /\ up[n + 1] = up[n] + x
  <2>1. n + 1 \in 1 .. n + 1 /\ (n + 1) - 1 = n /\ n \in 0 .. n
    BY <1>1
  <2>2. QED
    BY <1>2, <1>4, <2>1 DEF Adds
<1>7. Total(u) = up[n + 1]
  BY <1>1, <1>4, SumIsLast
<1>8. Total(s) = lo[n]
  <2> HIDE DEF lo
  <2> QED BY <1>1, <1>5, SumIsLast DEF n
<1>9. QED
  BY <1>6, <1>7, <1>8 DEF u

\* What proofs are worth.
Worth(ps) == Total([k \in DOMAIN ps |-> ps[k].amount])

LEMMA WorthOfTwo ==
  ASSUME NEW P, \A p \in P : p.amount \in Nat, NEW ps \in Seq(P), NEW qs \in Seq(P)
  PROVE  Worth(ps) \in Nat /\ Worth(ps \o qs) = Worth(ps) + Worth(qs)
<1> DEFINE Amounts(s) == [k \in DOMAIN s |-> s[k].amount]
           u == ps \o qs
<1>1. ASSUME NEW s \in Seq(P)
      PROVE  Amounts(s) \in Seq(Nat) /\ Len(Amounts(s)) = Len(s)
  <2>1. Len(s) \in Nat /\ DOMAIN s = 1 .. Len(s) /\ \A k \in 1 .. Len(s) : s[k].amount \in Nat
    BY <1>1
  <2>2. QED
    BY <2>1
<1>2. /\ u \in Seq(P) /\ Len(u) = Len(ps) + Len(qs)
      /\ \A k \in 1 .. Len(ps) : u[k] = ps[k]
      /\ \A k \in 1 .. Len(qs) : u[Len(ps) + k] = qs[k]
  BY ConcatProperties
<1>3. Amounts(u) = Amounts(ps) \o Amounts(qs)
  <2> DEFINE w == Amounts(ps) \o Amounts(qs)
             n == Len(ps)
             m == Len(qs)
  <2>0. n \in Nat /\ m \in Nat /\ DOMAIN ps = 1 .. n /\ DOMAIN qs = 1 .. m
    OBVIOUS
  <2>1. /\ w \in Seq(Nat) /\ Len(w) = n + m
        /\ \A k \in 1 .. n : w[k] = Amounts(ps)[k]
        /\ \A k \in 1 .. m : w[n + k] = Amounts(qs)[k]
    <3>1. Amounts(ps) \in Seq(Nat) /\ Amounts(qs) \in Seq(Nat)
      BY <1>1
    <3>2. Len(Amounts(ps)) = n /\ Len(Amounts(qs)) = m
      BY <1>1
    <3> DEFINE a == Amounts(ps)
               b == Amounts(qs)
    <3>3. a \in Seq(Nat) /\ b \in Seq(Nat) /\ Len(a) = n /\ Len(b) = m
      BY <3>1, <3>2
    <3> HIDE DEF a, b, n, m
    <3>4. /\ a \o b \in Seq(Nat) /\ Len(a \o b) = n + m
          /\ \A k \in 1 .. n : (a \o b)[k] = a[k]
          /\ \A k \in 1 .. m : (a \o b)[n + k] = b[k]
      <4>1. /\ a \o b \in Seq(Nat) /\ Len(a \o b) = Len(a) + Len(b)
            /\ \A k \in 1 .. Len(a) + Len(b) :
                 (a \o b)[k] = IF k <= Len(a) THEN a[k] ELSE b[k - Len(a)]
        BY <3>3, ConcatProperties
      <4>2. \A k \in 1 .. n : k \in 1 .. n + m /\ k <= n
        BY <2>0
      <4>3. \A k \in 1 .. m : n + k \in 1 .. n + m /\ ~(n + k <= n) /\ (n + k) - n = k
        BY <2>0
      <4>4. \A k \in 1 .. n : (a \o b)[k] = a[k]
        BY <3>3, <4>1, <4>2
      <4>5. \A k \in 1 .. m : (a \o b)[n + k] = b[k]
        BY <3>3, <4>1, <4>3
      <4>6. QED
        BY <3>3, <4>1, <4>4, <4>5
    <3>5. QED
      BY <3>4 DEF a, b
  <2> HIDE DEF w, u
  <2>2. Amounts(u) \in Seq(Nat) /\ Len(Amounts(u)) = n + m /\ DOMAIN u = 1 .. n + m
    BY <1>1, <1>2
  <2>3. ASSUME NEW k \in 1 .. n + m
        PROVE  Amounts(u)[k] = w[k]
    <3>1. Amounts(u)[k] = u[k].amount
      BY <2>2
    <3>2. CASE k <= n
      <4>1. k \in 1 .. n
        BY <2>0, <3>2
      <4>2. Amounts(ps)[k] = ps[k].amount
        BY <2>0, <4>1
      <4>3. QED
        BY <1>2, <2>1, <3>1, <4>1, <4>2
    <3>3. CASE ~(k <= n)
      <4> DEFINE j == k - n
      <4>1. j \in 1 .. m /\ n + j = k
        BY <2>0, <3>3
      <4> HIDE DEF j
      <4>2. Amounts(qs)[j] = qs[j].amount
        BY <2>0, <4>1
      <4>3. u[k] = qs[j] /\ w[k] = Amounts(qs)[j]
        BY <1>2, <2>1, <4>1
      <4>4. QED
        BY <3>1, <4>2, <4>3
    <3>4. QED
      BY <3>2, <3>3
  <2>4. Amounts(u) = w
    <3> HIDE DEF Amounts, n, m
    <3> QED BY <2>1, <2>2, <2>3, SeqEqual
  <2>5. QED
    BY <2>4 DEF w
<1>4. Total(Amounts(ps)) \in Nat /\ Total(Amounts(u)) = Total(Amounts(ps)) + Total(Amounts(qs))
  <2>1. Amounts(ps) \in Seq(Nat) /\ Amounts(qs) \in Seq(Nat)
    BY <1>1
  <2> HIDE DEF Amounts, u
  <2>2. QED
    BY <1>3, <2>1, SumIsNat, SumOfTwo
<1>5. QED
  BY <1>4 DEF Worth

\* Lists one after another.
LEMMA JoinedIs ==
  ASSUME NEW P, \A p \in P : p.amount \in Nat, NEW lists \in Seq(Seq(P))
  PROVE  /\ Joined(lists) \in Seq(P)
         /\ [k \in DOMAIN lists |-> Worth(lists[k])] \in Seq(Nat)
         /\ Worth(Joined(lists)) = Total([k \in DOMAIN lists |-> Worth(lists[k])])
<1> DEFINE n == Len(lists)
           X == Seq(P)
           Eq(f) == f = [k \in 0 .. n |-> IF k = 0 THEN <<>> ELSE f[k - 1] \o lists[k]]
           at == CHOOSE f : Eq(f)
           G == [k \in 1 .. n |-> [x \in X |-> x \o lists[k]]]
           sums == [k \in DOMAIN lists |-> Worth(lists[k])]
<1>1. Joined(lists) = at[n]
  BY DEF Joined
<1>2. n \in Nat /\ <<>> \in X /\ DOMAIN lists = 1 .. n /\ \A k \in 1 .. n : lists[k] \in X
  OBVIOUS
<1>3. \A x, y \in X : x \o y \in X
  OBVIOUS
<1>4. \A x, y \in X : Worth(x) \in Nat /\ Worth(x \o y) = Worth(x) + Worth(y)
  BY WorthOfTwo
<1>5. Worth(<<>>) = 0
  <2>1. [k \in DOMAIN <<>> |-> <<>>[k].amount] = <<>>
    OBVIOUS
  <2>2. QED
    BY <2>1, SumOfNone DEF Worth
<1> HIDE DEF n, X
<1>6. PICK g : Iteration(n, X, <<>>, G, g)
  <2>1. G \in [1 .. n -> [X -> X]]
    BY <1>2, <1>3
  <2> HIDE DEF G
  <2>2. QED
    BY <1>2, <2>1, Iterates
<1>7. /\ g \in [0 .. n -> X] /\ g[0] = <<>>
      /\ \A k \in 1 .. n : g[k] = g[k - 1] \o lists[k]
  <2>1. \A k \in 1 .. n : k - 1 \in 0 .. n
    BY <1>2
  <2>2. QED
    BY <1>6, <2>1 DEF Iteration
<1>8. Eq(g)
  <2>0. \A k \in 0 .. n : k = 0 \/ k \in 1 .. n
    BY <1>2
  <2>1. \A k \in 0 .. n : g[k] = IF k = 0 THEN <<>> ELSE g[k - 1] \o lists[k]
    BY <1>7, <2>0
  <2>2. QED
    BY <1>7, <2>1
<1>9. Eq(at)
  <2> HIDE DEF Eq
  <2> QED BY <1>8
<1>10. at[0] = <<>> /\ \A k \in 1 .. n : at[k] = at[k - 1] \o lists[k]
  <2> HIDE DEF at
  <2> QED BY <1>2, <1>9
<1> HIDE DEF at
<1> DEFINE R == {k \in 0 .. n : at[k] = g[k]}
<1>11. 0 .. n \subseteq R
  <2>1. 0 \in R
    BY <1>2, <1>7, <1>10
  <2>2. ASSUME NEW k \in 1 .. n, k - 1 \in R
        PROVE  k \in R
    <3>1. at[k - 1] = g[k - 1]
      BY <2>2
    <3>2. at[k] = at[k - 1] \o lists[k] /\ g[k] = g[k - 1] \o lists[k]
      BY <1>7, <1>10
    <3>3. k \in 0 .. n
      BY <1>2
    <3>4. QED
      BY <3>1, <3>2, <3>3
  <2> HIDE DEF R
  <2>3. QED
    BY <1>2, <2>1, <2>2, IntervalInduction
<1>12. at[n] = g[n] /\ g[n] \in X
  BY <1>2, <1>7, <1>11
<1>13. sums \in Seq(Nat) /\ Len(sums) = n
  <2>1. \A k \in 1 .. n : Worth(lists[k]) \in Nat
    BY <1>2, <1>4
  <2>2. sums = [k \in 1 .. n |-> Worth(lists[k])]
    BY <1>2
  <2> HIDE DEF sums
  <2>3. QED
    BY <1>2, <2>1, <2>2
<1> DEFINE up == [k \in 0 .. n |-> Worth(g[k])]
<1>14. Adds(sums, n, up)
  <2>1. up \in [0 .. n -> Nat]
    BY <1>4, <1>7
  <2>2. up[0] = 0
    BY <1>2, <1>5, <1>7
  <2>3. ASSUME NEW k \in 1 .. n
        PROVE  up[k] = up[k - 1] + sums[k]
    <3>1. k \in 0 .. n /\ k - 1 \in 0 .. n /\ g[k - 1] \in X /\ lists[k] \in X
      BY <1>2, <1>7
    <3>2. Worth(g[k]) = Worth(g[k - 1]) + Worth(lists[k])
      BY <1>4, <1>7, <3>1
    <3>3. sums[k] = Worth(lists[k])
      BY <1>2
    <3>4. QED
      BY <3>1, <3>2, <3>3
  <2>4. QED
    BY <2>1, <2>2, <2>3 DEF Adds
<1>15. Total(sums) = up[n] /\ up[n] = Worth(g[n])
  <2>1. up[n] = Worth(g[n])
    BY <1>2
  <2> HIDE DEF up, sums
  <2>2. QED
    BY <1>2, <1>13, <1>14, <2>1, SumIsLast
<1>16. QED
  BY <1>1, <1>12, <1>13, <1>15 DEF X

-----------------------------------------------------------------------------
(* Tokens.                                                                 *)

Things == {v.of : v \in Cbor} \union {""}
Proofs == [id : Things, amount : Nat, secret : Things, c : Things]

\* What is under the last of a key that has a kind is of it.
LEMMA LastFits ==
  ASSUME NEW v \in Cbor, v.is = "map", NEW kinds, Fit(v, kinds, Len(v.of)),
         NEW key \in DOMAIN kinds, Pairs(v, key) # <<>>
  PROVE  \E w \in Cbor : LastOf(v, key) = w.of /\ OfKind(w, kinds[key])
<1> DEFINE n == Len(v.of)
           j == LastAt(v, key, n)
<1>1. v.of \in Seq(STRING \X Cbor) /\ n \in Nat
  BY CborAssumption
<1>2. LastOf(v, key) = v.of[j][2].of /\ \E i \in 1 .. n : v.of[i][1] = key
  BY <1>1, PairsAre
<1>3. IsLast(v, key, n, j)
  BY <1>1, <1>2, LastExists
<1> HIDE DEF j, n
<1>4. j \in 1 .. n /\ v.of[j][1] = key
  BY <1>3 DEF IsLast
<1>5. v.of[j] \in STRING \X Cbor
  BY <1>1, <1>4 DEF n
<1>6. OfKind(v.of[j][2], kinds[key])
  BY <1>4 DEF Fit, n
<1>7. QED
  BY <1>2, <1>5, <1>6

\* A proof that is decoded has what is said last of each field.
Tells(proof, r) ==
  r.amount = LastOf(proof, "a") /\ r.secret = LastOf(proof, "s") /\ r.c = LastOf(proof, "c")

LEMMA ProofIs ==
  ASSUME NEW v \in Cbor, NEW id \in Things, ProofOf(v, id).ok
  PROVE  /\ ProofOf(v, id).is \in Proofs
         /\ Tells(v, ProofOf(v, id).is) /\ ProofOf(v, id).is.id = id
<1> DEFINE f == FieldsOf(v, ProofKinds)
           x == ProofOf(v, id)
<1>1. v.is = "map" => v.of \in Seq(STRING \X Cbor)
  BY CborAssumption
<1>2. /\ DOMAIN ProofKinds = {"a", "s", "c"}
      /\ ProofKinds["a"] = "u64" /\ ProofKinds["s"] = "text" /\ ProofKinds["c"] = "text"
  BY DEF ProofKinds
<1>3. /\ Complete(f, ProofKinds)
      /\ x.is = [id |-> id, amount |-> f.is["a"], secret |-> f.is["s"], c |-> f.is["c"]]
  <2> HIDE DEF f
  <2>1. x = IF Complete(f, ProofKinds)
            THEN Decoded([id |-> id, amount |-> f.is["a"], secret |-> f.is["s"], c |-> f.is["c"]])
            ELSE Failed
    BY DEF ProofOf, f
  <2>2. x.ok
    OBVIOUS
  <2> HIDE DEF x
  <2>3. QED
    BY <2>1, <2>2 DEF Failed, Decoded
<1>4. /\ v.is = "map" /\ Fit(v, ProofKinds, Len(v.of))
      /\ \A key \in DOMAIN ProofKinds : Pairs(v, key) # <<>>
      /\ \A key \in DOMAIN ProofKinds : f.is[key] = LastOf(v, key)
  BY <1>1, <1>3, CompleteIs
<1> HIDE DEF f, x
<1>5. \A key \in DOMAIN ProofKinds :
        \E w \in Cbor : LastOf(v, key) = w.of /\ OfKind(w, ProofKinds[key])
  BY <1>4, LastFits
<1>6. LastOf(v, "a") \in Nat
  <2>1. PICK w \in Cbor : LastOf(v, "a") = w.of /\ OfKind(w, "u64")
    BY <1>2, <1>5
  <2>2. AsU64(w)
    BY <2>1 DEF OfKind
  <2>3. QED
    BY <2>1, <2>2, CborAssumption DEF AsU64
<1>7. LastOf(v, "s") \in Things /\ LastOf(v, "c") \in Things
  BY <1>2, <1>5 DEF Things
<1>8. f.is["a"] \in Nat /\ f.is["s"] \in Things /\ f.is["c"] \in Things
      /\ f.is["a"] = LastOf(v, "a") /\ f.is["s"] = LastOf(v, "s") /\ f.is["c"] = LastOf(v, "c")
  BY <1>2, <1>4, <1>6, <1>7
<1>9. x.is \in Proofs /\ Tells(v, x.is) /\ x.is.id = id
  BY <1>3, <1>8 DEF Proofs, Tells
<1>10. QED
  BY <1>9 DEF x

\* The proofs of one list are worth what its proofs are.
ProofsIn(val, id) == AllOrNone([p \in DOMAIN val.of |-> ProofOf(val.of[p], id)])
Listed(val) == [p \in DOMAIN val.of |-> LastOf(val.of[p], "a")]

LEMMA ListIs ==
  ASSUME NEW val \in Cbor, val.is = "array", NEW id \in Things, ProofsIn(val, id).ok
  PROVE  /\ ProofsIn(val, id).is \in Seq(Proofs)
         /\ Worth(ProofsIn(val, id).is) = Total(Listed(val))
<1> DEFINE got == [p \in DOMAIN val.of |-> ProofOf(val.of[p], id)]
           ps == ProofsIn(val, id).is
           n == Len(val.of)
<1>1. /\ val.of \in Seq(Cbor) /\ n \in Nat /\ DOMAIN val.of = 1 .. n
      /\ \A p \in 1 .. n : val.of[p] \in Cbor
  BY CborAssumption
<1>2. (\A p \in DOMAIN got : got[p].ok) /\ ps = [p \in DOMAIN got |-> got[p].is]
  BY DEF ProofsIn, AllOrNone, Failed, Decoded
<1>3. ps = [p \in 1 .. n |-> ProofOf(val.of[p], id).is] /\ \A p \in 1 .. n : ProofOf(val.of[p], id).ok
  BY <1>1, <1>2
<1>4. \A p \in 1 .. n : /\ ProofOf(val.of[p], id).is \in Proofs
                        /\ ProofOf(val.of[p], id).is.amount = LastOf(val.of[p], "a")
  BY <1>1, <1>3, ProofIs DEF Tells
<1> HIDE DEF ps, n, got
<1>5. ps \in Seq(Proofs)
  BY <1>1, <1>3, <1>4
<1>6. [p \in DOMAIN ps |-> ps[p].amount] = Listed(val)
  BY <1>1, <1>3, <1>4 DEF Listed
<1>7. QED
  BY <1>5, <1>6 DEF Worth, ps

LEMMA AmountsAre == \A p \in Proofs : p.amount \in Nat
  BY DEF Proofs

\* The loop of EntryOf.
EntryStep(v, was, k) ==
  LET key == v.of[k][1]
      val == v.of[k][2]
      got == IF val.is = "array" THEN ProofsIn(val, was.id) ELSE Failed
  IN  IF ~was.ok \/ key \notin {"i", "p"} THEN was
      ELSE IF key = "i"
      THEN IF AsString(val) THEN [was EXCEPT !.id = val.of] ELSE [was EXCEPT !.ok = FALSE]
      ELSE IF got.ok THEN Push(was, got.is) ELSE [was EXCEPT !.ok = FALSE]

Entries == [ok : BOOLEAN, id : Things, is : Seq(Proofs)]
NoEntry == [ok |-> TRUE, id |-> "", is |-> <<>>]

\* What one pair adds.
LEMMA EntryGoesOn ==
  ASSUME NEW v \in Cbor, v.is = "map", NEW k \in 1 .. Len(v.of), NEW was \in Entries
  PROVE  /\ EntryStep(v, was, k) \in Entries
         /\ EntryStep(v, was, k).ok =>
              /\ was.ok
              /\ v.of[k][1] # "p" => EntryStep(v, was, k).is = was.is
              /\ v.of[k][1] = "p" =>
                   \E ps \in Seq(Proofs) : /\ EntryStep(v, was, k).is = was.is \o ps
                                           /\ Worth(ps) = Total(Listed(v.of[k][2]))
<1> DEFINE key == v.of[k][1]
           val == v.of[k][2]
           x == EntryStep(v, was, k)
<1>1. key \in STRING /\ val \in Cbor /\ val.of \in Things
  <2>1. v.of \in Seq(STRING \X Cbor)
    BY CborAssumption
  <2>2. v.of[k] \in STRING \X Cbor
    BY <2>1
  <2>3. QED
    BY <2>2 DEF Things
<1>2. was.ok \in BOOLEAN /\ was.id \in Things /\ was.is \in Seq(Proofs)
  BY DEF Entries
<1>3. CASE ~was.ok \/ key \notin {"i", "p"}
  <2>1. x = was
    BY <1>3 DEF EntryStep
  <2>2. QED
    BY <1>3, <2>1
<1>4. CASE was.ok /\ key = "i"
  <2>1. x = IF AsString(val) THEN [was EXCEPT !.id = val.of] ELSE [was EXCEPT !.ok = FALSE]
    BY <1>4 DEF EntryStep
  <2>2. CASE AsString(val)
    <3>1. x = [was EXCEPT !.id = val.of]
      BY <2>1, <2>2
    <3> HIDE DEF x, val
    <3>2. x \in Entries /\ x.is = was.is
      BY <1>1, <3>1 DEF Entries
    <3>3. QED
      BY <1>4, <3>2 DEF x
  <2>3. CASE ~AsString(val)
    <3>1. x = [was EXCEPT !.ok = FALSE]
      BY <2>1, <2>3
    <3> HIDE DEF x, val
    <3>2. x \in Entries /\ ~x.ok
      BY <3>1 DEF Entries
    <3>3. QED
      BY <3>2 DEF x
  <2>4. QED
    BY <2>2, <2>3
<1>5. CASE was.ok /\ key = "p"
  <2> DEFINE got == IF val.is = "array" THEN ProofsIn(val, was.id) ELSE Failed
  <2>1. x = IF got.ok THEN Push(was, got.is) ELSE [was EXCEPT !.ok = FALSE]
    BY <1>5 DEF EntryStep
  <2>2. CASE got.ok
    <3>1. val.is = "array" /\ got = ProofsIn(val, was.id)
      BY <2>2 DEF Failed
    <3>2. got.is \in Seq(Proofs) /\ Worth(got.is) = Total(Listed(val))
      BY <1>1, <1>2, <2>2, <3>1, ListIs
    <3>3. x = [was EXCEPT !.is = @ \o got.is]
      BY <2>1, <2>2 DEF Push
    <3> DEFINE ps == got.is
    <3>4. was.is \o ps \in Seq(Proofs)
      BY <1>2, <3>2
    <3> HIDE DEF x, val, got
    <3>5. x \in Entries /\ x.is = was.is \o ps
      BY <3>3, <3>4 DEF Entries
    <3> HIDE DEF ps
    <3>6. ps \in Seq(Proofs) /\ Worth(ps) = Total(Listed(val))
      BY <3>2 DEF ps
    <3>7. QED
      BY <1>5, <3>5, <3>6 DEF x, val
  <2>3. CASE ~got.ok
    <3>1. x = [was EXCEPT !.ok = FALSE]
      BY <2>1, <2>3
    <3> HIDE DEF x, val, got
    <3>2. x \in Entries /\ ~x.ok
      BY <3>1 DEF Entries
    <3>3. QED
      BY <3>2 DEF x
  <2>4. QED
    BY <2>2, <2>3
<1>6. QED
  BY <1>3, <1>4, <1>5

\* The loop of an entry: what it has after every pair, and what comes of it.
Runs(v, at) ==
  /\ at \in [0 .. Len(v.of) -> Entries]
  /\ at[0] = NoEntry
  /\ \A k \in 1 .. Len(v.of) : at[k] = EntryStep(v, at[k - 1], k)
  /\ EntryOf(v) = IF at[Len(v.of)].ok THEN Decoded(at[Len(v.of)].is) ELSE Failed

LEMMA EntryRuns ==
  ASSUME NEW v \in Cbor, v.is = "map"
  PROVE  \E at : Runs(v, at)
<1> DEFINE n == Len(v.of)
           Eq(f) == f = [k \in 0 .. n |-> IF k = 0 THEN NoEntry ELSE EntryStep(v, f[k - 1], k)]
           at == CHOOSE f : Eq(f)
           G == [k \in 1 .. n |-> [x \in Entries |-> EntryStep(v, x, k)]]
<1>1. EntryOf(v) = IF at[n].ok THEN Decoded(at[n].is) ELSE Failed
  <2>1. EntryOf(v) = IF v.is = "map" /\ at[n].ok THEN Decoded(at[n].is) ELSE Failed
    BY DEF EntryOf, EntryStep, NoEntry, ProofsIn
  <2> HIDE DEF at
  <2>2. QED
    BY <2>1
<1>2. n \in Nat
  BY CborAssumption
<1>3. NoEntry \in Entries
  BY DEF NoEntry, Entries, Things
<1>4. \A k \in 1 .. n : \A x \in Entries : EntryStep(v, x, k) \in Entries
  BY EntryGoesOn
<1> HIDE DEF n
<1>5. PICK g : Iteration(n, Entries, NoEntry, G, g)
  <2>1. G \in [1 .. n -> [Entries -> Entries]]
    BY <1>4
  <2> HIDE DEF G
  <2>2. QED
    BY <1>2, <1>3, <2>1, Iterates
<1>6. /\ g \in [0 .. n -> Entries] /\ g[0] = NoEntry
      /\ \A k \in 1 .. n : g[k] = EntryStep(v, g[k - 1], k)
  <2>1. \A k \in 1 .. n : k - 1 \in 0 .. n
    BY <1>2
  <2>2. QED
    BY <1>5, <2>1 DEF Iteration
<1>7. Eq(g)
  <2>0. \A k \in 0 .. n : k = 0 \/ k \in 1 .. n
    BY <1>2
  <2>1. \A k \in 0 .. n : g[k] = IF k = 0 THEN NoEntry ELSE EntryStep(v, g[k - 1], k)
    BY <1>6, <2>0
  <2>2. QED
    BY <1>6, <2>1
<1>8. Eq(at)
  <2> HIDE DEF Eq
  <2> QED BY <1>7
<1>9. /\ at[0] = NoEntry
      /\ \A k \in 1 .. n : at[k] = EntryStep(v, at[k - 1], k)
      /\ at = [k \in 0 .. n |-> at[k]]
  <2> HIDE DEF at
  <2> QED BY <1>2, <1>8
<1> HIDE DEF at
<1> DEFINE R == {k \in 0 .. n : at[k] \in Entries}
<1>10. 0 .. n \subseteq R
  <2>1. 0 \in R
    BY <1>2, <1>3, <1>9
  <2>2. ASSUME NEW k \in 1 .. n, k - 1 \in R
        PROVE  k \in R
    <3>1. at[k - 1] \in Entries /\ at[k] = EntryStep(v, at[k - 1], k) /\ k \in 0 .. n
      BY <1>2, <1>9, <2>2
    <3>2. QED
      BY <1>4, <3>1
  <2> HIDE DEF R
  <2>3. QED
    BY <1>2, <2>1, <2>2, IntervalInduction
<1>11. at \in [0 .. n -> Entries]
  <2>1. \A k \in 0 .. n : at[k] \in Entries
    BY <1>10
  <2> HIDE DEF R
  <2>2. QED
    BY <1>9, <2>1
<1>12. QED
  BY <1>1, <1>9, <1>11 DEF Runs, n

\* What the pairs of "p" are worth, one after another.
Worths(o) == [j \in DOMAIN o |-> Total(Listed(o[j][2]))]

LEMMA WorthsAppend ==
  ASSUME NEW T, NEW o \in Seq(T), NEW x \in T, Worths(o) \in Seq(Nat), Total(Listed(x[2])) \in Nat
  PROVE  /\ Worths(Append(o, x)) \in Seq(Nat)
         /\ Total(Worths(Append(o, x))) = Total(Worths(o)) + Total(Listed(x[2]))
<1> DEFINE u == Append(o, x)
           y == Total(Listed(x[2]))
           n == Len(o)
<1>1. /\ u \in Seq(T) /\ n \in Nat /\ Len(u) = n + 1
      /\ DOMAIN o = 1 .. n /\ DOMAIN u = 1 .. n + 1
      /\ u[n + 1] = x /\ \A k \in 1 .. n : u[k] = o[k]
  OBVIOUS
<1> HIDE DEF u, y, n
<1>2. Worths(u) = Append(Worths(o), y)
  <2>1. /\ Worths(u) = [j \in 1 .. n + 1 |-> Total(Listed(u[j][2]))]
        /\ Worths(o) = [j \in 1 .. n |-> Total(Listed(o[j][2]))]
    BY <1>1 DEF Worths
  <2>2. Len(Worths(o)) = n
    BY <1>1, <2>1
  <2>3. /\ Append(Worths(o), y) \in Seq(Nat) /\ Len(Append(Worths(o), y)) = n + 1
        /\ \A k \in 1 .. n : Append(Worths(o), y)[k] = Worths(o)[k]
        /\ Append(Worths(o), y)[n + 1] = y
    <3> DEFINE w == Worths(o)
    <3>1. w \in Seq(Nat) /\ Len(w) = n /\ y \in Nat
      BY <2>2 DEF y
    <3> HIDE DEF w
    <3>2. /\ Append(w, y) \in Seq(Nat) /\ Len(Append(w, y)) = n + 1
          /\ \A k \in 1 .. n : Append(w, y)[k] = w[k]
          /\ Append(w, y)[n + 1] = y
      BY <3>1
    <3>3. QED
      BY <3>2 DEF w
  <2>4. ASSUME NEW k \in 1 .. n + 1
        PROVE  Worths(u)[k] = Append(Worths(o), y)[k]
    <3>1. CASE k = n + 1
      BY <1>1, <2>1, <2>3, <3>1 DEF y
    <3>2. CASE k # n + 1
      <4>1. k \in 1 .. n
        BY <1>1, <3>2
      <4>2. Worths(u)[k] = Total(Listed(u[k][2])) /\ Worths(o)[k] = Total(Listed(o[k][2]))
        BY <2>1, <4>1
      <4>3. QED
        BY <1>1, <2>3, <4>1, <4>2
    <3>3. QED
      BY <3>1, <3>2
  <2> DEFINE a == Append(Worths(o), y)
  <2>5. a \in Seq(Nat) /\ DOMAIN a = 1 .. n + 1
    BY <2>3
  <2> HIDE DEF a
  <2>6. a = [k \in 1 .. n + 1 |-> a[k]]
    BY <2>5
  <2>7. \A k \in 1 .. n + 1 : Total(Listed(u[k][2])) = a[k]
    BY <2>1, <2>4 DEF a
  <2>8. QED
    BY <2>1, <2>6, <2>7 DEF a
<1>3. Append(Worths(o), y) \in Seq(Nat) /\ Total(Append(Worths(o), y)) = Total(Worths(o)) + y
  BY SumOfMore DEF y
<1>4. QED
  BY <1>2, <1>3 DEF u, y

\* After k pairs, what is gathered is worth what the pairs of "p" are.
Balanced(was, o) == was.ok => Worths(o) \in Seq(Nat) /\ Worth(was.is) = Total(Worths(o))

\* An entry is worth what is under its "p"s.
LEMMA EntryIs ==
  ASSUME NEW v \in Cbor, EntryOf(v).ok
  PROVE  /\ EntryOf(v).is \in Seq(Proofs)
         /\ Worths(Pairs(v, "p")) \in Seq(Nat)
         /\ Worth(EntryOf(v).is) = Total(Worths(Pairs(v, "p")))
<1> DEFINE n == Len(v.of)
           T == STRING \X Cbor
           S == {pair \in Range(v.of) : pair[1] = "p"}
<1>1. v.is = "map"
  BY DEF EntryOf, Failed
<1>2. PICK at : Runs(v, at)
  BY <1>1, EntryRuns
<1>3. /\ v.of \in Seq(T) /\ n \in Nat
      /\ \A i \in 1 .. n : v.of[i] \in T /\ (v.of[i] \in S <=> v.of[i][1] = "p")
  <2>1. v.of \in Seq(T)
    BY <1>1, CborAssumption
  <2>2. QED
    BY <2>1 DEF Range
<1>4. Pairs(v, "p") = Only(v.of, S)
  BY DEF Pairs
<1> HIDE DEF n, T, S
<1>5. PICK only : Left(v.of, S, T, only) /\ Only(v.of, S) = only[n]
  BY <1>3, OnlyIs DEF n
<1>6. /\ only \in [0 .. n -> Seq(T)] /\ only[0] = <<>>
      /\ \A k \in 1 .. n :
           only[k] = IF v.of[k] \in S THEN Append(only[k - 1], v.of[k]) ELSE only[k - 1]
  BY <1>5 DEF Left, n
<1>7. /\ at \in [0 .. n -> Entries] /\ at[0] = NoEntry
      /\ \A k \in 1 .. n : at[k] = EntryStep(v, at[k - 1], k)
      /\ EntryOf(v) = IF at[n].ok THEN Decoded(at[n].is) ELSE Failed
  BY <1>2 DEF Runs, n
<1>8. at[n].ok /\ EntryOf(v).is = at[n].is
  BY <1>7 DEF Failed, Decoded
<1> DEFINE R == {k \in 0 .. n : at[k] \in Entries /\ Balanced(at[k], only[k])}
<1>9. 0 \in R
  <2>1. Worths(<<>>) = <<>>
    BY DEF Worths
  <2>2. Worth(<<>>) = 0
    <3>1. [k \in DOMAIN <<>> |-> <<>>[k].amount] = <<>>
      OBVIOUS
    <3>2. QED
      BY <3>1, SumOfNone DEF Worth
  <2>3. Balanced(NoEntry, <<>>)
    <3>1. <<>> \in Seq(Nat) /\ NoEntry.is = <<>>
      BY DEF NoEntry
    <3>2. QED
      BY <2>1, <2>2, <3>1, SumOfNone DEF Balanced
  <2>4. QED
    BY <1>3, <1>6, <1>7, <2>3
<1>10. ASSUME NEW k \in 1 .. n, k - 1 \in R
       PROVE  k \in R
  <2> DEFINE was == at[k - 1]
             o == only[k - 1]
             x == EntryStep(v, was, k)
             key == v.of[k][1]
  <2>1. was \in Entries /\ Balanced(was, o)
    BY <1>10
  <2>2. /\ o \in Seq(T) /\ at[k] = x /\ k \in 0 .. n /\ v.of[k] \in T
        /\ only[k] = IF key = "p" THEN Append(o, v.of[k]) ELSE o
    <3>1. k - 1 \in 0 .. n /\ k \in 0 .. n
      BY <1>3
    <3>2. QED
      BY <1>3, <1>6, <1>7, <3>1
  <2>3. /\ x \in Entries
        /\ x.ok =>
             /\ was.ok
             /\ key # "p" => x.is = was.is
             /\ key = "p" => \E ps \in Seq(Proofs) : /\ x.is = was.is \o ps
                                                    /\ Worth(ps) = Total(Listed(v.of[k][2]))
    BY <1>1, <2>1, EntryGoesOn DEF n
  <2> HIDE DEF was, o, x
  <2>4. ASSUME x.ok
        PROVE  Balanced(x, only[k])
    <3>1. was.ok /\ Worths(o) \in Seq(Nat) /\ Worth(was.is) = Total(Worths(o))
      BY <2>1, <2>3, <2>4 DEF Balanced
    <3>2. CASE key # "p"
      BY <2>2, <2>3, <2>4, <3>1, <3>2 DEF Balanced
    <3>3. CASE key = "p"
      <4>1. PICK ps \in Seq(Proofs) : x.is = was.is \o ps /\ Worth(ps) = Total(Listed(v.of[k][2]))
        BY <2>3, <2>4, <3>3
      <4>2. was.is \in Seq(Proofs)
        BY <2>1 DEF Entries
      <4>3. Worth(ps) \in Nat /\ Worth(was.is \o ps) = Worth(was.is) + Worth(ps)
        BY <4>2, WorthOfTwo, AmountsAre
      <4>4. /\ Worths(Append(o, v.of[k])) \in Seq(Nat)
            /\ Total(Worths(Append(o, v.of[k]))) = Total(Worths(o)) + Total(Listed(v.of[k][2]))
        BY <2>2, <3>1, <4>1, <4>3, WorthsAppend
      <4>5. only[k] = Append(o, v.of[k])
        BY <2>2, <3>3
      <4>6. Worth(x.is) = Total(Worths(only[k]))
        BY <3>1, <4>1, <4>3, <4>4, <4>5
      <4>7. QED
        BY <4>4, <4>5, <4>6 DEF Balanced
    <3>4. QED
      BY <3>2, <3>3
  <2>5. Balanced(x, only[k])
    BY <2>4 DEF Balanced
  <2>6. QED
    BY <2>2, <2>3, <2>5
<1>11. 0 .. n \subseteq R
  <2>1. \A k \in 1 .. n : k - 1 \in R => k \in R
    BY <1>10
  <2> HIDE DEF R
  <2>2. QED
    BY <1>3, <1>9, <2>1, IntervalInduction
<1>12. at[n] \in Entries /\ Balanced(at[n], only[n])
  BY <1>3, <1>11
<1>13. /\ at[n].is \in Seq(Proofs) /\ Worths(only[n]) \in Seq(Nat)
       /\ Worth(at[n].is) = Total(Worths(only[n]))
  BY <1>8, <1>12 DEF Entries, Balanced
<1>14. QED
  BY <1>4, <1>5, <1>8, <1>13

-----------------------------------------------------------------------------
(* What is decoded and what stands in a token.                             *)

\* A sequence and what it is of.
LEMMA SeqWithin ==
  ASSUME NEW A, NEW P, NEW s \in Seq(A), \A r \in Range(s) : r \in P
  PROVE  s \in Seq(P)
<1>1. \A k \in 1 .. Len(s) : s[k] \in P
  BY DEF Range
<1>2. QED
  BY <1>1

LEMMA RangeWithin ==
  ASSUME NEW P, NEW s \in Seq(P)
  PROVE  \A r \in Range(s) : r \in P
  BY DEF Range

\* A proof is decoded if it is one.
LEMMA ProofsGoWell ==
  ASSUME NEW v \in Cbor, NEW id
  PROVE  ProofOf(v, id).ok <=> IsProof(v)
<1> DEFINE f == FieldsOf(v, ProofKinds)
           Right(pair) == /\ pair[1] = "a" => AsU64(pair[2])
                          /\ pair[1] \in {"s", "c"} => AsString(pair[2])
<1>1. v.is = "map" => v.of \in Seq(STRING \X Cbor)
  BY CborAssumption
<1>2. /\ DOMAIN ProofKinds = {"a", "s", "c"}
      /\ ProofKinds["a"] = "u64" /\ ProofKinds["s"] = "text" /\ ProofKinds["c"] = "text"
  BY DEF ProofKinds
<1>3. ASSUME v.is = "map"
      PROVE  Fit(v, ProofKinds, Len(v.of)) <=> \A pair \in Range(v.of) : Right(pair)
  <2>1. DOMAIN v.of = 1 .. Len(v.of)
    BY <1>1, <1>3
  <2>2. \A pair : (pair[1] \in DOMAIN ProofKinds => OfKind(pair[2], ProofKinds[pair[1]]))
                    <=> Right(pair)
    BY <1>2 DEF OfKind
  <2> HIDE DEF Right
  <2>3. QED
    BY <2>1, <2>2 DEF Fit, Range
<1>4. Complete(f, ProofKinds)
        <=> /\ v.is = "map"
            /\ \A key \in DOMAIN ProofKinds : Pairs(v, key) # <<>>
            /\ Fit(v, ProofKinds, Len(v.of))
  BY <1>1, CompleteIs
<1>5. IsProof(v) <=> /\ v.is = "map"
                     /\ \A key \in {"a", "s", "c"} : Pairs(v, key) # <<>>
                     /\ \A pair \in Range(v.of) : Right(pair)
  BY DEF IsProof
<1> HIDE DEF f, Right
<1>6. ProofOf(v, id).ok <=> Complete(f, ProofKinds)
  BY DEF ProofOf, Failed, Decoded, f
<1>7. QED
  BY <1>2, <1>3, <1>4, <1>5, <1>6

\* A list of proofs is decoded if all of it is, into what they tell.
LEMMA ListGoesWell ==
  ASSUME NEW val \in Cbor, val.is = "array", NEW id \in Things
  PROVE  /\ ProofsIn(val, id).ok <=> \A x \in Range(val.of) : IsProof(x)
         /\ ProofsIn(val, id).ok =>
              \A r \in Range(ProofsIn(val, id).is) :
                \E x \in Range(val.of) : Tells(x, r) /\ r.id = id
<1> DEFINE got == [p \in DOMAIN val.of |-> ProofOf(val.of[p], id)]
           n == Len(val.of)
<1>1. /\ DOMAIN val.of = 1 .. n /\ \A p \in 1 .. n : val.of[p] \in Cbor
  BY CborAssumption
<1>2. ProofsIn(val, id)
        = IF \A k \in DOMAIN got : got[k].ok THEN Decoded([k \in DOMAIN got |-> got[k].is])
          ELSE Failed
  BY DEF ProofsIn, AllOrNone
<1>3. DOMAIN got = 1 .. n /\ \A p \in 1 .. n : got[p] = ProofOf(val.of[p], id)
  BY <1>1
<1>4. \A p \in 1 .. n : /\ got[p].ok <=> IsProof(val.of[p])
                        /\ got[p].ok => Tells(val.of[p], got[p].is) /\ got[p].is.id = id
  BY <1>1, <1>3, ProofsGoWell, ProofIs
<1> HIDE DEF got, n
<1>5. ProofsIn(val, id).ok <=> \A k \in 1 .. n : got[k].ok
  BY <1>2, <1>3 DEF Failed, Decoded
<1>6. (\A x \in Range(val.of) : IsProof(x)) <=> \A k \in 1 .. n : IsProof(val.of[k])
  BY <1>1 DEF Range
<1>7. ASSUME ProofsIn(val, id).ok, NEW r \in Range(ProofsIn(val, id).is)
      PROVE  \E x \in Range(val.of) : Tells(x, r) /\ r.id = id
  <2>0. \A k \in 1 .. n : got[k].ok
    BY <1>5, <1>7
  <2> DEFINE is == [k \in DOMAIN got |-> got[k].is]
  <2>1. ProofsIn(val, id).is = is /\ DOMAIN is = 1 .. n /\ \A k \in 1 .. n : is[k] = got[k].is
    BY <1>2, <1>3, <2>0 DEF Decoded
  <2>2. PICK k \in 1 .. n : r = got[k].is
    <3> HIDE DEF is
    <3> QED BY <1>7, <2>1 DEF Range
  <2>3. val.of[k] \in Range(val.of)
    BY <1>1 DEF Range
  <2>4. QED
    BY <1>4, <2>0, <2>2, <2>3
<1>8. QED
  BY <1>4, <1>5, <1>6, <1>7

\* What is under a key of a map.
LEMMA UnderHas ==
  ASSUME NEW v, NEW T, v.of \in Seq(T), NEW k \in 1 .. Len(v.of), NEW x \in Range(v.of[k][2].of)
  PROVE  x \in Under(v, v.of[k][1])
<1>1. v.of[k] \in {q \in Range(v.of) : q[1] = v.of[k][1]}
  BY DEF Range
<1>2. QED
  BY <1>1 DEF Under

\* What makes an entry good, pair by pair, and the keyset it has after k of them.
Good(pair) ==
  /\ pair[1] = "i" => AsString(pair[2])
  /\ pair[1] = "p" => pair[2].is = "array" /\ \A x \in Range(pair[2].of) : IsProof(x)
KeysetSoFar(v, k, id) ==
  /\ (\A j \in 1 .. k : v.of[j][1] # "i") => id = ""
  /\ \A j \in 1 .. k : IsLast(v, "i", k, j) => id = v.of[j][2].of
FromList(val, id, r) == \E x \in Range(val.of) : Tells(x, r) /\ r.id = id

\* One pair of an entry.
LEMMA EntryGoesWell ==
  ASSUME NEW v \in Cbor, v.is = "map", NEW k \in 1 .. Len(v.of), NEW was \in Entries
  PROVE  /\ EntryStep(v, was, k).ok <=> was.ok /\ Good(v.of[k])
         /\ EntryStep(v, was, k).ok =>
              /\ EntryStep(v, was, k).id = IF v.of[k][1] = "i" THEN v.of[k][2].of ELSE was.id
              /\ \A r \in Range(EntryStep(v, was, k).is) :
                   \/ r \in Range(was.is)
                   \/ v.of[k][1] = "p" /\ FromList(v.of[k][2], was.id, r)
<1> DEFINE key == v.of[k][1]
           val == v.of[k][2]
           x == EntryStep(v, was, k)
<1>1. val \in Cbor
  <2>1. v.of \in Seq(STRING \X Cbor)
    BY CborAssumption
  <2>2. v.of[k] \in STRING \X Cbor
    BY <2>1
  <2>3. QED
    BY <2>2
<1>2. was.ok \in BOOLEAN /\ was.id \in Things /\ was.is \in Seq(Proofs)
  BY DEF Entries
<1>3. was = [ok |-> was.ok, id |-> was.id, is |-> was.is]
  BY DEF Entries
<1>4. CASE ~was.ok
  <2>1. x = was
    BY <1>4 DEF EntryStep
  <2>2. QED
    BY <1>4, <2>1
<1>5. CASE was.ok /\ key \notin {"i", "p"}
  <2>1. x = was
    BY <1>5 DEF EntryStep
  <2>2. Good(v.of[k])
    BY <1>5 DEF Good
  <2>3. QED
    BY <1>5, <2>1, <2>2
<1>6. CASE was.ok /\ key = "i"
  <2>1. x = IF AsString(val) THEN [was EXCEPT !.id = val.of] ELSE [was EXCEPT !.ok = FALSE]
    BY <1>6 DEF EntryStep
  <2>2. Good(v.of[k]) <=> AsString(val)
    BY <1>6 DEF Good
  <2> HIDE DEF x
  <2>3. AsString(val) => x.ok /\ x.id = val.of /\ x.is = was.is
    BY <1>3, <1>6, <2>1
  <2>4. ~AsString(val) => ~x.ok
    BY <1>3, <2>1
  <2>5. QED
    BY <1>6, <2>2, <2>3, <2>4 DEF x
<1>7. CASE was.ok /\ key = "p"
  <2> DEFINE got == IF val.is = "array" THEN ProofsIn(val, was.id) ELSE Failed
  <2>1. x = IF got.ok THEN Push(was, got.is) ELSE [was EXCEPT !.ok = FALSE]
    BY <1>7 DEF EntryStep
  <2>2. got.ok <=> Good(v.of[k])
    <3>1. Good(v.of[k]) <=> val.is = "array" /\ \A y \in Range(val.of) : IsProof(y)
      BY <1>7 DEF Good
    <3>2. CASE val.is = "array"
      <4>1. got = ProofsIn(val, was.id)
        BY <3>2
      <4>2. ProofsIn(val, was.id).ok <=> \A y \in Range(val.of) : IsProof(y)
        BY <1>1, <1>2, <3>2, ListGoesWell
      <4> HIDE DEF got, val
      <4>3. QED
        BY <3>1, <3>2, <4>1, <4>2
    <3>3. CASE val.is # "array"
      BY <3>1, <3>3 DEF Failed
    <3>4. QED
      BY <3>2, <3>3
  <2>3. ASSUME got.ok
        PROVE  /\ x.ok /\ x.id = was.id
               /\ \A r \in Range(x.is) : r \in Range(was.is) \/ FromList(val, was.id, r)
    <3>1. val.is = "array" /\ got = ProofsIn(val, was.id)
      BY <2>3 DEF Failed
    <3>2. got.is \in Seq(Proofs)
      BY <1>1, <1>2, <2>3, <3>1, ListIs
    <3>3. \A r \in Range(got.is) : FromList(val, was.id, r)
      BY <1>1, <1>2, <2>3, <3>1, ListGoesWell DEF FromList
    <3>4. x = [was EXCEPT !.is = @ \o got.is]
      BY <2>1, <2>3 DEF Push
    <3> DEFINE ps == got.is
    <3> HIDE DEF x, val, got
    <3>5. x.ok /\ x.id = was.id /\ x.is = was.is \o ps
      BY <1>3, <1>7, <3>4
    <3>6. ASSUME NEW r \in Range(x.is)
          PROVE  r \in Range(was.is) \/ r \in Range(ps)
      <4>1. PICK j \in DOMAIN (was.is \o ps) : r = (was.is \o ps)[j]
        BY <3>5, <3>6 DEF Range
      <4> DEFINE ws == was.is
      <4>2. ws \in Seq(Proofs) /\ ps \in Seq(Proofs)
        BY <1>2, <3>2
      <4> HIDE DEF ws, ps
      <4>3. j \in 1 .. Len(ws) + Len(ps) /\ r = (ws \o ps)[j]
        BY <4>1, <4>2 DEF ws
      <4>4. CASE j <= Len(ws)
        <5>1. r = ws[j] /\ j \in DOMAIN ws
          BY <4>2, <4>3, <4>4
        <5>2. QED
          BY <5>1 DEF Range, ws
      <4>5. CASE j > Len(ws)
        <5>1. r = ps[j - Len(ws)] /\ j - Len(ws) \in DOMAIN ps
          BY <4>2, <4>3, <4>5
        <5>2. QED
          BY <5>1 DEF Range
      <4>6. QED
        BY <4>2, <4>3, <4>4, <4>5
    <3>7. QED
      BY <3>3, <3>5, <3>6
  <2>4. ASSUME ~got.ok
        PROVE  ~x.ok
    <3>1. x = [was EXCEPT !.ok = FALSE]
      BY <2>1, <2>4
    <3> HIDE DEF x
    <3>2. QED
      BY <1>3, <3>1
  <2> HIDE DEF x, got
  <2>5. QED
    BY <1>7, <2>2, <2>3, <2>4 DEF x
<1>8. QED
  BY <1>4, <1>5, <1>6, <1>7

\* The keyset proofs get is the entry's, if none comes late.
LEMMA KeysetIs ==
  ASSUME NEW v \in Cbor, v.is = "map", NEW k \in 1 .. Len(v.of), v.of[k][1] = "p",
         ~LateKeyset(v), NEW id, KeysetSoFar(v, k - 1, id)
  PROVE  id = Keyset(v)
<1> DEFINE n == Len(v.of)
           l == LastAt(v, "i", n)
<1>1. v.of \in Seq(STRING \X Cbor) /\ n \in Nat /\ DOMAIN v.of = 1 .. n /\ k \in 1 .. n
  BY CborAssumption
<1>2. /\ Pairs(v, "i") # <<>> <=> \E j \in 1 .. n : v.of[j][1] = "i"
      /\ Pairs(v, "i") # <<>> => LastOf(v, "i") = v.of[l][2].of
  <2>1. v.of \in Seq(STRING \X Cbor)
    BY <1>1
  <2>2. QED
    BY <2>1, PairsAre, SMTT(40)
<1>3. \A j \in 1 .. n : v.of[j][1] = "i" => j \in 1 .. k - 1
  <2> SUFFICES ASSUME NEW j \in 1 .. n, v.of[j][1] = "i"
               PROVE  j \in 1 .. k - 1
    OBVIOUS
  <2>1. ~(k < j)
    BY DEF LateKeyset
  <2>2. j # k
    BY SMT
  <2>3. QED
    BY <1>1, <2>1, <2>2
<1> HIDE DEF n
<1>4. CASE Pairs(v, "i") = <<>>
  <2>1. \A j \in 1 .. k - 1 : v.of[j][1] # "i"
    BY <1>1, <1>2, <1>4
  <2>2. QED
    BY <1>4, <2>1 DEF KeysetSoFar, Keyset
<1>5. CASE Pairs(v, "i") # <<>>
  <2>1. IsLast(v, "i", n, l)
    BY <1>1, <1>2, <1>5, LastExists
  <2> HIDE DEF l
  <2>2. l \in 1 .. n /\ v.of[l][1] = "i" /\ \A i \in l + 1 .. n : v.of[i][1] # "i"
    BY <2>1 DEF IsLast
  <2>3. l \in 1 .. k - 1
    BY <1>3, <2>2
  <2>4. IsLast(v, "i", k - 1, l)
    BY <1>1, <2>2, <2>3 DEF IsLast
  <2>5. QED
    BY <1>2, <1>5, <2>3, <2>4 DEF KeysetSoFar, Keyset
<1>6. QED
  BY <1>4, <1>5

\* What the loop of an entry has after k of its pairs.
Sound(v, k, was) ==
  /\ was \in Entries
  /\ was.ok <=> \A j \in 1 .. k : Good(v.of[j])
  /\ was.ok => KeysetSoFar(v, k, was.id) /\ \A r \in Range(was.is) : Stands(v, r)

LEMMA SoundBegins ==
  ASSUME NEW v
  PROVE  Sound(v, 0, NoEntry)
<1>1. NoEntry \in Entries
  BY DEF NoEntry, Entries, Things
<1>2. NoEntry.ok /\ NoEntry.id = "" /\ Range(NoEntry.is) = {}
  BY DEF NoEntry, Range
<1>3. 1 .. 0 = {}
  OBVIOUS
<1>4. KeysetSoFar(v, 0, NoEntry.id)
  BY <1>2, <1>3 DEF KeysetSoFar
<1>5. QED
  BY <1>1, <1>2, <1>3, <1>4 DEF Sound

LEMMA SoundGoesOn ==
  ASSUME NEW v \in Cbor, v.is = "map", NEW k \in 1 .. Len(v.of), NEW was, Sound(v, k - 1, was)
  PROVE  Sound(v, k, EntryStep(v, was, k))
<1> DEFINE x == EntryStep(v, was, k)
           n == Len(v.of)
<1>1. v.of \in Seq(STRING \X Cbor) /\ n \in Nat /\ k \in 1 .. n
  BY CborAssumption
<1>2. was \in Entries
  BY DEF Sound
<1>3. x \in Entries
  BY <1>2, EntryGoesOn
<1>4. /\ x.ok <=> was.ok /\ Good(v.of[k])
      /\ x.ok => /\ x.id = IF v.of[k][1] = "i" THEN v.of[k][2].of ELSE was.id
                 /\ \A r \in Range(x.is) :
                      \/ r \in Range(was.is)
                      \/ v.of[k][1] = "p" /\ FromList(v.of[k][2], was.id, r)
  BY <1>2, EntryGoesWell
<1> HIDE DEF x, n
<1>5. x.ok <=> \A j \in 1 .. k : Good(v.of[j])
  <2>1. \A j \in 1 .. k : j = k \/ j \in 1 .. k - 1
    BY <1>1
  <2>2. k \in 1 .. k /\ \A j \in 1 .. k - 1 : j \in 1 .. k
    BY <1>1
  <2>3. QED
    BY <1>4, <2>1, <2>2 DEF Sound
<1>6. ASSUME x.ok
      PROVE  KeysetSoFar(v, k, x.id)
  <2>0. KeysetSoFar(v, k - 1, was.id)
    BY <1>4, <1>6 DEF Sound
  <2>1. CASE v.of[k][1] = "i"
    <3>1. k \in 1 .. k
      BY <1>1
    <3>2. ASSUME NEW j \in 1 .. k, IsLast(v, "i", k, j)
          PROVE  j = k
      <4>1. SUFFICES ASSUME j # k PROVE FALSE
        OBVIOUS
      <4>2. k \in j + 1 .. k
        BY <1>1, <4>1
      <4>3. QED
        BY <2>1, <3>2, <4>2 DEF IsLast
    <3>3. QED
      BY <1>4, <1>6, <2>1, <3>1, <3>2 DEF KeysetSoFar
  <2>2. CASE v.of[k][1] # "i"
    <3>1. x.id = was.id
      BY <1>4, <1>6, <2>2
    <3>2. \A j \in 1 .. k - 1 : j \in 1 .. k
      BY <1>1
    <3>3. ASSUME NEW j \in 1 .. k, IsLast(v, "i", k, j)
          PROVE  j \in 1 .. k - 1 /\ IsLast(v, "i", k - 1, j)
      <4>1. v.of[j][1] = "i" /\ \A i \in j + 1 .. k : v.of[i][1] # "i"
        BY <3>3 DEF IsLast
      <4>2. j \in 1 .. k - 1
        BY <1>1, <2>2, <4>1
      <4>3. \A i \in j + 1 .. k - 1 : i \in j + 1 .. k
        BY <1>1, <4>2
      <4>4. QED
        BY <4>1, <4>2, <4>3 DEF IsLast
    <3>4. (\A j \in 1 .. k : v.of[j][1] # "i") => x.id = ""
      BY <2>0, <3>1, <3>2 DEF KeysetSoFar
    <3>5. QED
      BY <2>0, <3>1, <3>3, <3>4 DEF KeysetSoFar
  <2>3. QED
    BY <2>1, <2>2
<1>7. ASSUME x.ok, NEW r \in Range(x.is)
      PROVE  Stands(v, r)
  <2>1. was.ok /\ KeysetSoFar(v, k - 1, was.id) /\ \A q \in Range(was.is) : Stands(v, q)
    BY <1>4, <1>7 DEF Sound
  <2>2. CASE r \in Range(was.is)
    BY <2>1, <2>2
  <2>3. CASE v.of[k][1] = "p" /\ FromList(v.of[k][2], was.id, r)
    <3>1. PICK proof \in Range(v.of[k][2].of) : Tells(proof, r) /\ r.id = was.id
      BY <2>3 DEF FromList
    <3>2. proof \in Under(v, "p")
      BY <1>1, <2>3, <3>1, UnderHas DEF n
    <3>3. LateKeyset(v) \/ was.id = Keyset(v)
      BY <2>1, <2>3, KeysetIs
    <3>4. QED
      BY <3>1, <3>2, <3>3 DEF Stands, Tells
  <2>4. QED
    BY <1>4, <1>7, <2>2, <2>3
<1>8. Sound(v, k, x)
  BY <1>3, <1>5, <1>6, <1>7 DEF Sound
<1>9. QED
  BY <1>8 DEF x

\* An entry is decoded if it is one, into proofs that stand in it.
LEMMA EntrySays ==
  ASSUME NEW v \in Cbor
  PROVE  /\ EntryOf(v).ok <=> IsEntry(v)
         /\ EntryOf(v).ok => \A r \in Range(EntryOf(v).is) : Stands(v, r)
<1>1. CASE v.is # "map"
  <2>1. EntryOf(v) = Failed
    BY <1>1 DEF EntryOf
  <2>2. QED
    BY <1>1, <2>1 DEF IsEntry, Failed
<1>2. CASE v.is = "map"
  <2> DEFINE n == Len(v.of)
  <2>1. PICK at : Runs(v, at)
    BY <1>2, EntryRuns
  <2>2. n \in Nat /\ DOMAIN v.of = 1 .. n
    BY <1>2, CborAssumption
  <2> DEFINE S == {k \in 0 .. n : Sound(v, k, at[k])}
  <2>3. 0 \in S
    BY <2>1, <2>2, SoundBegins DEF Runs
  <2>4. ASSUME NEW k \in 1 .. n, k - 1 \in S
        PROVE  k \in S
    <3>1. Sound(v, k - 1, at[k - 1])
      BY <2>4
    <3>2. Sound(v, k, EntryStep(v, at[k - 1], k))
      BY <1>2, <3>1, SoundGoesOn
    <3>3. at[k] = EntryStep(v, at[k - 1], k) /\ k \in 0 .. n
      BY <2>1, <2>2 DEF Runs
    <3>4. QED
      BY <3>2, <3>3
  <2> HIDE DEF n
  <2>5. 0 .. n \subseteq S
    <3> HIDE DEF S
    <3> QED BY <2>2, <2>3, <2>4, IntervalInduction
  <2>6. Sound(v, n, at[n])
    BY <2>2, <2>5
  <2>7. EntryOf(v) = IF at[n].ok THEN Decoded(at[n].is) ELSE Failed
    BY <2>1 DEF Runs, n
  <2>8. IsEntry(v) <=> \A j \in 1 .. n : Good(v.of[j])
    BY <1>2, <2>2 DEF IsEntry, Good, Range
  <2> HIDE DEF S
  <2>9. CASE at[n].ok
    <3>1. EntryOf(v).ok /\ EntryOf(v).is = at[n].is
      BY <2>7, <2>9 DEF Decoded
    <3>2. QED
      BY <2>6, <2>8, <2>9, <3>1 DEF Sound
  <2>10. CASE ~at[n].ok
    <3>1. ~EntryOf(v).ok
      BY <2>7, <2>10 DEF Failed
    <3>2. QED
      BY <2>6, <2>8, <2>10, <3>1 DEF Sound
  <2>11. QED
    BY <2>9, <2>10
<1>3. QED
  BY <1>1, <1>2

\* What an entry and a list of entries are worth.
EntryWorth(entry) == Total(Worths(Pairs(entry, "p")))
ListWorth(val) == Total([j \in DOMAIN val.of |-> EntryWorth(val.of[j])])

\* The results of one list of entries.
EntriesIn(val) ==
  IF val.is = "array" THEN AllOrNone([j \in DOMAIN val.of |-> EntryOf(val.of[j])]) ELSE Failed

LEMMA EntriesAre ==
  ASSUME NEW val \in Cbor, EntriesIn(val).ok
  PROVE  /\ Joined(EntriesIn(val).is) \in Seq(Proofs)
         /\ Worth(Joined(EntriesIn(val).is)) = ListWorth(val)
<1> DEFINE got == [j \in DOMAIN val.of |-> EntryOf(val.of[j])]
           lists == EntriesIn(val).is
           n == Len(val.of)
<1>1. val.is = "array" /\ EntriesIn(val) = AllOrNone(got)
  BY DEF EntriesIn, Failed
<1>2. (\A j \in DOMAIN got : got[j].ok) /\ lists = [j \in DOMAIN got |-> got[j].is]
  <2> HIDE DEF got
  <2> QED BY <1>1 DEF AllOrNone, Failed, Decoded
<1>3. /\ n \in Nat /\ DOMAIN val.of = 1 .. n /\ \A j \in 1 .. n : val.of[j] \in Cbor
  <2>1. val.of \in Seq(Cbor)
    BY <1>1, CborAssumption
  <2>2. QED
    BY <2>1
<1>4. lists = [j \in 1 .. n |-> EntryOf(val.of[j]).is] /\ \A j \in 1 .. n : EntryOf(val.of[j]).ok
  BY <1>2, <1>3
<1>5. \A j \in 1 .. n : /\ EntryOf(val.of[j]).is \in Seq(Proofs)
                        /\ Worth(EntryOf(val.of[j]).is) = EntryWorth(val.of[j])
  BY <1>3, <1>4, EntryIs DEF EntryWorth
<1> HIDE DEF lists, n, got
<1>6. lists \in Seq(Seq(Proofs))
  <2> DEFINE T == Seq(Proofs)
  <2>1. \A j \in 1 .. n : EntryOf(val.of[j]).is \in T
    BY <1>5
  <2> HIDE DEF T
  <2>2. lists \in Seq(T)
    BY <1>3, <1>4, <2>1
  <2>3. QED
    BY <2>2 DEF T
<1>7. Joined(lists) \in Seq(Proofs) /\ Worth(Joined(lists)) = Total([k \in DOMAIN lists |-> Worth(lists[k])])
  BY <1>6, AmountsAre, JoinedIs
<1>8. [k \in DOMAIN lists |-> Worth(lists[k])] = [j \in DOMAIN val.of |-> EntryWorth(val.of[j])]
  BY <1>3, <1>4, <1>5
<1>9. QED
  BY <1>7, <1>8 DEF ListWorth, lists

\* A token is worth what is under its "t"s.
LEMMA TokenIs ==
  ASSUME NEW v \in Cbor, v.is = "map", ProofsOf(v).ok
  PROVE  Worth(ProofsOf(v).is) = Total([k \in DOMAIN Pairs(v, "t") |-> ListWorth(Pairs(v, "t")[k][2])])
<1> DEFINE ts == Pairs(v, "t")
           all == [k \in DOMAIN ts |-> EntriesIn(ts[k][2])]
           got == AllOrNone(all)
           n == Len(ts)
           lists == [k \in DOMAIN got.is |-> Joined(got.is[k])]
<1>1. got.ok /\ ProofsOf(v).is = Joined(lists)
  <2>1. ProofsOf(v) = IF got.ok THEN Decoded(Joined(lists)) ELSE Failed
    BY DEF ProofsOf, EntriesIn, Pairs
  <2> HIDE DEF got, lists
  <2>2. QED
    BY <2>1 DEF Failed, Decoded
<1>2. (\A k \in DOMAIN all : all[k].ok) /\ got.is = [k \in DOMAIN all |-> all[k].is]
  <2> HIDE DEF all
  <2> QED BY <1>1 DEF AllOrNone, Failed, Decoded
<1>3. n \in Nat /\ DOMAIN ts = 1 .. n /\ \A k \in 1 .. n : ts[k][2] \in Cbor
  <2>1. v.of \in Seq(STRING \X Cbor)
    BY CborAssumption
  <2>2. ts \in Seq(STRING \X Cbor)
    BY <2>1, PairsAre
  <2> HIDE DEF ts
  <2>3. \A k \in 1 .. n : ts[k] \in STRING \X Cbor
    BY <2>2
  <2>4. QED
    BY <2>2, <2>3
<1> HIDE DEF ts, n
<1>4. /\ DOMAIN got.is = 1 .. n
      /\ \A k \in 1 .. n : EntriesIn(ts[k][2]).ok /\ got.is[k] = EntriesIn(ts[k][2]).is
  BY <1>2, <1>3
<1> HIDE DEF got, all
<1>5. lists = [k \in 1 .. n |-> Joined(EntriesIn(ts[k][2]).is)]
  BY <1>4
<1>6. \A k \in 1 .. n : /\ Joined(EntriesIn(ts[k][2]).is) \in Seq(Proofs)
                        /\ Worth(Joined(EntriesIn(ts[k][2]).is)) = ListWorth(ts[k][2])
  BY <1>3, <1>4, EntriesAre
<1> HIDE DEF lists
<1>7. lists \in Seq(Seq(Proofs))
  <2> DEFINE T == Seq(Proofs)
  <2>1. \A k \in 1 .. n : Joined(EntriesIn(ts[k][2]).is) \in T
    BY <1>6
  <2> HIDE DEF T
  <2>2. lists \in Seq(T)
    BY <1>3, <1>5, <2>1
  <2>3. QED
    BY <2>2 DEF T
<1>8. Worth(Joined(lists)) = Total([k \in DOMAIN lists |-> Worth(lists[k])])
  BY <1>7, AmountsAre, JoinedIs
<1>9. [k \in DOMAIN lists |-> Worth(lists[k])] = [k \in DOMAIN ts |-> ListWorth(ts[k][2])]
  BY <1>3, <1>5, <1>6
<1>10. QED
  BY <1>1, <1>8, <1>9 DEF ts

\* A list of entries is decoded if all of it is, into proofs that stand in them.
AreEntries(val) == val.is = "array" /\ \A x \in Range(val.of) : IsEntry(x)
StandsIn(val, r) == \E entry \in Range(val.of) : Stands(entry, r)

LEMMA EntriesSay ==
  ASSUME NEW val \in Cbor
  PROVE  /\ EntriesIn(val).ok <=> AreEntries(val)
         /\ EntriesIn(val).ok => \A r \in Range(Joined(EntriesIn(val).is)) : StandsIn(val, r)
<1> DEFINE got == [j \in DOMAIN val.of |-> EntryOf(val.of[j])]
           lists == EntriesIn(val).is
           n == Len(val.of)
<1>1. CASE val.is # "array"
  <2>1. EntriesIn(val) = Failed
    BY <1>1 DEF EntriesIn
  <2>2. QED
    BY <1>1, <2>1 DEF AreEntries, Failed
<1>2. CASE val.is = "array"
  <2>1. /\ n \in Nat /\ DOMAIN val.of = 1 .. n /\ \A j \in 1 .. n : val.of[j] \in Cbor
    <3>1. val.of \in Seq(Cbor)
      BY <1>2, CborAssumption
    <3>2. QED
      BY <3>1
  <2>2. EntriesIn(val) = AllOrNone(got)
    BY <1>2 DEF EntriesIn
  <2>3. DOMAIN got = 1 .. n /\ \A j \in 1 .. n : got[j] = EntryOf(val.of[j])
    BY <2>1
  <2> HIDE DEF got
  <2>4. EntriesIn(val).ok <=> \A j \in 1 .. n : got[j].ok
    BY <2>2, <2>3 DEF AllOrNone, Failed, Decoded
  <2>5. \A j \in 1 .. n : /\ got[j].ok <=> IsEntry(val.of[j])
                          /\ got[j].ok => /\ got[j].is \in Seq(Proofs)
                                          /\ \A r \in Range(got[j].is) : Stands(val.of[j], r)
    BY <2>1, <2>3, EntrySays, EntryIs
  <2>6. AreEntries(val) <=> \A j \in 1 .. n : IsEntry(val.of[j])
    BY <1>2, <2>1 DEF AreEntries, Range
  <2> HIDE DEF n
  <2>7. ASSUME EntriesIn(val).ok
        PROVE  \A r \in Range(Joined(lists)) : StandsIn(val, r)
    <3> DEFINE P == {r \in Proofs : StandsIn(val, r)}
    <3>1. \A j \in 1 .. n : got[j].ok
      BY <2>4, <2>7
    <3>2. lists = [j \in DOMAIN got |-> got[j].is]
      BY <2>2, <2>3, <3>1 DEF AllOrNone, Decoded
    <3> HIDE DEF lists
    <3>3. \A j \in 1 .. n : got[j].is \in Seq(P)
      <4>1. SUFFICES ASSUME NEW j \in 1 .. n
                     PROVE  got[j].is \in Seq(P)
        OBVIOUS
      <4>2. got[j].is \in Seq(Proofs) /\ \A r \in Range(got[j].is) : Stands(val.of[j], r)
        BY <2>5, <3>1
      <4>3. \A r \in Range(got[j].is) : r \in Proofs
        BY <4>2, RangeWithin
      <4>4. val.of[j] \in Range(val.of)
        BY <2>1 DEF Range
      <4>5. \A r \in Range(got[j].is) : r \in P
        BY <4>2, <4>3, <4>4 DEF StandsIn
      <4> HIDE DEF P
      <4>6. QED
        BY <4>2, <4>5, SeqWithin
    <3>4. \A p \in P : p.amount \in Nat
      BY AmountsAre
    <3> HIDE DEF P
    <3>5. lists \in Seq(Seq(P))
      <4> DEFINE T == Seq(P)
      <4>1. \A j \in 1 .. n : got[j].is \in T
        BY <3>3
      <4> HIDE DEF T
      <4>2. lists \in Seq(T)
        BY <2>1, <2>3, <3>2, <4>1
      <4>3. QED
        BY <4>2 DEF T
    <3>6. Joined(lists) \in Seq(P)
      BY <3>4, <3>5, JoinedIs
    <3>7. \A r \in Range(Joined(lists)) : r \in P
      BY <3>6, RangeWithin
    <3>8. QED
      BY <3>7 DEF P
  <2>8. QED
    BY <2>4, <2>5, <2>6, <2>7 DEF lists
<1>3. QED
  BY <1>1, <1>2

\* The entries of a token are decoded if they are, into proofs that stand in them.
AreTokens(v) == \A pair \in Range(v.of) : pair[1] = "t" => AreEntries(pair[2])

LEMMA TokenSays ==
  ASSUME NEW v \in Cbor, v.is = "map"
  PROVE  /\ ProofsOf(v).ok <=> AreTokens(v)
         /\ ProofsOf(v).ok =>
              \A r \in Range(ProofsOf(v).is) : \E entry \in Under(v, "t") : Stands(entry, r)
<1> DEFINE ts == Pairs(v, "t")
           all == [k \in DOMAIN ts |-> EntriesIn(ts[k][2])]
           got == AllOrNone(all)
           n == Len(ts)
           lists == [k \in DOMAIN got.is |-> Joined(got.is[k])]
<1>1. ProofsOf(v) = IF got.ok THEN Decoded(Joined(lists)) ELSE Failed
  BY DEF ProofsOf, EntriesIn, Pairs
<1>2. v.of \in Seq(STRING \X Cbor)
  BY CborAssumption
<1>3. /\ ts \in Seq(STRING \X Cbor)
      /\ \A k \in DOMAIN ts : ts[k][1] = "t" /\ ts[k] \in Range(v.of)
      /\ \A pair \in Range(v.of) : pair[1] = "t" => \E k \in DOMAIN ts : ts[k] = pair
  BY <1>2, PairsAre
<1> HIDE DEF ts
<1>4. n \in Nat /\ DOMAIN ts = 1 .. n /\ \A k \in 1 .. n : ts[k][2] \in Cbor
  <2>1. \A k \in 1 .. n : ts[k] \in STRING \X Cbor
    BY <1>3
  <2>2. QED
    BY <1>3, <2>1
<1>5. DOMAIN all = 1 .. n /\ \A k \in 1 .. n : all[k] = EntriesIn(ts[k][2])
  BY <1>4
<1> HIDE DEF all, n
<1>6. got.ok <=> \A k \in 1 .. n : all[k].ok
  BY <1>5 DEF AllOrNone, Failed, Decoded
<1>7. AreTokens(v) <=> \A k \in 1 .. n : AreEntries(ts[k][2])
  BY <1>3, <1>4 DEF AreTokens
<1>8. \A k \in 1 .. n : /\ all[k].ok <=> AreEntries(ts[k][2])
                        /\ all[k].ok => /\ Joined(all[k].is) \in Seq(Proofs)
                                        /\ \A r \in Range(Joined(all[k].is)) : StandsIn(ts[k][2], r)
  BY <1>4, <1>5, EntriesAre, EntriesSay
<1>9. ASSUME got.ok
      PROVE  \A r \in Range(Joined(lists)) : \E entry \in Under(v, "t") : Stands(entry, r)
  <2> DEFINE P == {r \in Proofs : \E entry \in Under(v, "t") : Stands(entry, r)}
  <2>1. \A k \in 1 .. n : all[k].ok
    BY <1>6, <1>9
  <2>2. got.is = [k \in DOMAIN all |-> all[k].is]
    BY <1>5, <2>1 DEF AllOrNone, Decoded
  <2> HIDE DEF got
  <2>3. lists = [k \in 1 .. n |-> Joined(all[k].is)]
    BY <1>5, <2>2
  <2> HIDE DEF lists
  <2>4. \A k \in 1 .. n : Joined(all[k].is) \in Seq(P)
    <3>1. SUFFICES ASSUME NEW k \in 1 .. n
                   PROVE  Joined(all[k].is) \in Seq(P)
      OBVIOUS
    <3>2. Joined(all[k].is) \in Seq(Proofs) /\ \A r \in Range(Joined(all[k].is)) : StandsIn(ts[k][2], r)
      BY <1>8, <2>1
    <3>3. \A r \in Range(Joined(all[k].is)) : r \in Proofs
      BY <3>2, RangeWithin
    <3>4. Range(ts[k][2].of) \subseteq Under(v, "t")
      BY <1>3, <1>4 DEF Under
    <3>5. \A r \in Range(Joined(all[k].is)) : r \in P
      BY <3>2, <3>3, <3>4 DEF StandsIn
    <3> HIDE DEF P
    <3>6. QED
      BY <3>2, <3>5, SeqWithin
  <2>5. \A p \in P : p.amount \in Nat
    BY AmountsAre
  <2> HIDE DEF P
  <2>6. lists \in Seq(Seq(P))
    <3> DEFINE T == Seq(P)
    <3>1. \A k \in 1 .. n : Joined(all[k].is) \in T
      BY <2>4
    <3> HIDE DEF T
    <3>2. lists \in Seq(T)
      BY <1>4, <2>3, <3>1
    <3>3. QED
      BY <3>2 DEF T
  <2>7. Joined(lists) \in Seq(P)
    BY <2>5, <2>6, JoinedIs
  <2>8. \A r \in Range(Joined(lists)) : r \in P
    BY <2>7, RangeWithin
  <2>9. QED
    BY <2>8 DEF P
<1> HIDE DEF got, lists
<1>10. ProofsOf(v).ok <=> got.ok
  BY <1>1 DEF Failed, Decoded
<1>11. got.ok => ProofsOf(v).is = Joined(lists)
  BY <1>1 DEF Decoded
<1>12. QED
  BY <1>6, <1>7, <1>8, <1>9, <1>10, <1>11

\* decode_cashub_token.
LEMMA TokensAreDecoded ==
  ASSUME NEW v \in Cbor
  PROVE  /\ DecodeCashub(v).ok <=> IsToken(v)
         /\ DecodeCashub(v).ok =>
              /\ DecodeCashub(v).is.mint = LastOf(v, "m")
              /\ DecodeCashub(v).is.unit = LastOf(v, "u")
              /\ \A r \in Range(DecodeCashub(v).is.proofs) :
                   \E entry \in Under(v, "t") : Stands(entry, r)
              /\ Worth(DecodeCashub(v).is.proofs)
                   = Total([k \in DOMAIN Pairs(v, "t") |-> ListWorth(Pairs(v, "t")[k][2])])
<1> DEFINE f == FieldsOf(v, TokenKinds)
           got == DecodeCashub(v)
           Right(pair) == pair[1] \in {"m", "u"} => AsString(pair[2])
<1>1. v.is = "map" => v.of \in Seq(STRING \X Cbor)
  BY CborAssumption
<1>2. DOMAIN TokenKinds = {"m", "u"} /\ TokenKinds["m"] = "text" /\ TokenKinds["u"] = "text"
  BY DEF TokenKinds
<1>3. ASSUME v.is = "map"
      PROVE  Fit(v, TokenKinds, Len(v.of)) <=> \A pair \in Range(v.of) : Right(pair)
  <2>1. DOMAIN v.of = 1 .. Len(v.of)
    BY <1>1, <1>3
  <2>2. \A pair : (pair[1] \in DOMAIN TokenKinds => OfKind(pair[2], TokenKinds[pair[1]]))
                    <=> Right(pair)
    BY <1>2 DEF OfKind
  <2> HIDE DEF Right
  <2>3. QED
    BY <2>1, <2>2 DEF Fit, Range
<1>4. /\ Complete(f, TokenKinds)
           <=> /\ v.is = "map"
               /\ \A key \in DOMAIN TokenKinds : Pairs(v, key) # <<>>
               /\ Fit(v, TokenKinds, Len(v.of))
      /\ Complete(f, TokenKinds) => \A key \in DOMAIN TokenKinds : f.is[key] = LastOf(v, key)
  BY <1>1, CompleteIs
<1>5. IsToken(v) <=> /\ v.is = "map"
                     /\ \A key \in {"m", "u"} : Pairs(v, key) # <<>>
                     /\ \A pair \in Range(v.of) : Right(pair)
                     /\ AreTokens(v)
  BY DEF IsToken, AreTokens, AreEntries
<1>6. got = IF Complete(f, TokenKinds) /\ ProofsOf(v).ok
            THEN Decoded([mint |-> f.is["m"], unit |-> f.is["u"], proofs |-> ProofsOf(v).is])
            ELSE Failed
  BY DEF DecodeCashub
<1> HIDE DEF f, got, Right
<1>7. got.ok <=> Complete(f, TokenKinds) /\ ProofsOf(v).ok
  BY <1>6 DEF Failed, Decoded
<1>8. v.is = "map" => (ProofsOf(v).ok <=> AreTokens(v))
  BY TokenSays
<1>9. got.ok <=> IsToken(v)
  BY <1>2, <1>3, <1>4, <1>5, <1>7, <1>8
<1>10. ASSUME got.ok
       PROVE  /\ got.is.mint = LastOf(v, "m") /\ got.is.unit = LastOf(v, "u")
              /\ got.is.proofs = ProofsOf(v).is
              /\ v.is = "map" /\ ProofsOf(v).ok
  <2>1. got.is = [mint |-> f.is["m"], unit |-> f.is["u"], proofs |-> ProofsOf(v).is]
    BY <1>6, <1>7, <1>10 DEF Decoded
  <2>2. QED
    BY <1>2, <1>4, <1>7, <1>10, <2>1
<1>11. ASSUME got.ok
       PROVE  /\ \A r \in Range(got.is.proofs) : \E entry \in Under(v, "t") : Stands(entry, r)
              /\ Worth(got.is.proofs)
                   = Total([k \in DOMAIN Pairs(v, "t") |-> ListWorth(Pairs(v, "t")[k][2])])
  BY <1>10, <1>11, TokenSays, TokenIs
<1>12. QED
  BY <1>9, <1>10, <1>11 DEF got

\* The request and the token are of those there are.
Named == file \in DOMAIN Tokens /\ creq \in [Payers -> DOMAIN Requests \union {None}]

LEMMA ReadIs == \A S : S # {} => Read(S) \subseteq S
  BY DEF Read

LEMMA InitNamed == Init => Named
<1> SUFFICES ASSUME Init PROVE Named
  OBVIOUS
<1>1. file \in Read(DOMAIN Tokens) /\ creq = [p \in Payers |-> None]
  BY DEF Init
<1>2. QED  BY <1>1, ReadIs, CborAssumption DEF Named

LEMMA NextNamed == Named /\ [Next]_vars => Named'
<1> SUFFICES ASSUME Named, [Next]_vars PROVE Named'
  OBVIOUS
<1>1. \A ps : Return(ps) => creq' \in [Payers -> DOMAIN Requests \union {None}]
  BY DEF Named, Return
<1>2. file' = file
  BY DEF Next, PayStep, Begin, First, PayNone, PayToken, Ask, Send, Fetch, Second, Kill, Reply,
         Tick, vars
<1>3. creq' \in [Payers -> DOMAIN Requests \union {None}]
  <2>1. ASSUME NEW p \in Payers, First(p)
        PROVE  creq' \in [Payers -> DOMAIN Requests \union {None}]
    <3>1. CASE Return({p})
      BY <1>1, <3>1
    <3>2. CASE \E r \in Read(DOMAIN Requests) : creq' = [creq EXCEPT ![p] = r]
      <4>1. PICK r \in DOMAIN Requests : creq' = [creq EXCEPT ![p] = r]
        BY <3>2, ReadIs, CborAssumption
      <4>2. QED  BY <4>1 DEF Named
    <3>3. QED  BY <2>1, <3>1, <3>2 DEF First
  <2>2. ASSUME NEW p \in Payers, Begin(p) \/ PayStep(p), ~First(p)
        PROVE  creq' = creq \/ Return({p})
    BY <2>2 DEF PayStep, Begin, PayNone, PayToken, Ask, Send, Fetch, Second
  <2>3. ASSUME NEW ps \in Processes, Kill(ps)
        PROVE  Return(ps)
    BY <2>3 DEF Kill
  <2>4. ASSUME NEW call \in open, NEW says \in {"token", "error", "unreadable"},
               Reply(call, says)
        PROVE  creq' = creq
    BY <2>4 DEF Reply, payerVars
  <2>5. Tick \/ UNCHANGED vars => creq' = creq
    BY DEF Tick, payerVars, vars
  <2>6. creq' = creq => creq' \in [Payers -> DOMAIN Requests \union {None}]
    BY DEF Named
  <2>7. QED
    BY <1>1, <2>1, <2>2, <2>3, <2>4, <2>5, <2>6 DEF Next
<1>4. QED  BY <1>2, <1>3 DEF Named

\* Every payment request and every token is decoded to what it says, the last of
\* each field wherever it stands, and refused exactly if a field is missing or
\* of another type.  Every proof that comes out of a token stands in it, under
\* its keyset unless that came late, and they are worth the sum over all the
\* entries and proofs (cbor.rs).
THEOREM DecodersAreExact == Spec => []DecodersExact
<1>1. Named => CreqExact
  <2> SUFFICES ASSUME Named, NEW p \in Payers, creq[p] # None
               PROVE  LET v    == Requests[creq[p]]
                          fits == /\ v.is = "map"
                                  /\ \A key \in {"a", "u", "m"} : Pairs(v, key) # <<>>
                                  /\ \A k \in DOMAIN v.of :
                                       CASE v.of[k][1] = "a" -> AsU64(v.of[k][2])
                                         [] v.of[k][1] = "u" -> AsString(v.of[k][2])
                                         [] v.of[k][1] = "m" -> AsStrings(v.of[k][2])
                                         [] OTHER -> TRUE
                      IN  DecodeCreq(v)
                            = IF fits
                              THEN Decoded([amount |-> LastOf(v, "a"), unit |-> LastOf(v, "u"),
                                            mints |-> Texts(LastOf(v, "m"))])
                              ELSE Failed
    BY Zenon DEF CreqExact
  <2>1. Requests[creq[p]] \in Cbor
    BY CborAssumption DEF Named
  <2>2. QED
    BY <2>1, CreqsAreDecoded, Zenon
<1>2. Named => CashubExact
  <2> SUFFICES ASSUME Named PROVE CashubExact
    OBVIOUS
  <2> DEFINE v == Tokens[file]
             got == DecodeCashub(v)
             worth == Total([k \in DOMAIN Pairs(v, "t") |-> ListWorth(Pairs(v, "t")[k][2])])
  <2>1. v \in Cbor
    BY CborAssumption DEF Named
  <2>2. SUFFICES /\ got.ok <=> IsToken(v)
                 /\ got.ok =>
                      /\ got.is.mint = LastOf(v, "m") /\ got.is.unit = LastOf(v, "u")
                      /\ \A r \in Range(got.is.proofs) : \E entry \in Under(v, "t") : Stands(entry, r)
                      /\ Worth(got.is.proofs) = worth
    BY DEF CashubExact, Over, Worth, ListWorth, EntryWorth, Worths, Listed
  <2> HIDE DEF v
  <2>3. QED
    BY <2>1, TokensAreDecoded
<1>3. Named => DecodersExact
  BY <1>1, <1>2 DEF DecodersExact
<1>4. QED  BY <1>3, InitNamed, NextNamed, PTL DEF Spec
=============================================================================
