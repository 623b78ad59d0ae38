------------------------------- MODULE Wallet -------------------------------
(***************************************************************************)
(* Paying for an upload or an extension: upload_blob_with_payment and      *)
(* extend_blob_with_payment (src/src/blossom/client.rs), run_extend        *)
(* (src/src/main.rs), and the strategies of src/src/payment: a pre-funded  *)
(* token, a wallet reached over a relay (Nostr Wallet Connect), or none.   *)
(*                                                                         *)
(* A payer makes one call after another; the calls of several payers are   *)
(* interleaved.  A call is <<payer, number>>; the wallet answers a call,   *)
(* later or never, with a token, an error or something unreadable; the     *)
(* relay keeps the answers.  The client looks at every answer since the    *)
(* second in which it asked.  UploadProtocol has the retries around this.  *)
(***************************************************************************)
EXTENDS Cashu

CONSTANTS
  Payers,
  Extends,     \* the payers that are extend commands; the others upload
  Strategies,  \* what the program may be configured with
  Cbor,        \* the CBOR values there are
  Requests,    \* [names -> CBOR of payment requests]
  Tokens,      \* [names -> CBOR of tokens]
  MaxTime,     \* bound: seconds
  MaxCalls     \* bound: calls of a payer

ASSUME WalletAssumption ==
  /\ Extends \subseteq Payers
  /\ Strategies \subseteq {"none", "token", "nwc"}
  /\ MaxTime \in Nat /\ MaxCalls \in Nat

\* What is in a CBOR value is one, and there are some to choose from.
ASSUME CborAssumption ==
  /\ DOMAIN Requests # {} /\ DOMAIN Tokens # {}
  /\ \A r \in DOMAIN Requests : Requests[r] \in Cbor
  /\ \A t \in DOMAIN Tokens : Tokens[t] \in Cbor
  /\ \A v \in Cbor : /\ v.is = "map" => v.of \in Seq(STRING \X Cbor)
                     /\ v.is = "array" => v.of \in Seq(Cbor)
                     /\ v.is = "int" => v.of \in Int

VARIABLES
  strategy,  \* of the whole behaviour
  file,      \* the token of the token file
  now,       \* Timestamp::now(), in seconds
  pc, calls,
  creq,      \* the X-Cashu header of the 402, by name
  begun,     \* observation: the second in which pay() was called
  since,     \* `now` of pay_async
  took,      \* the answer pay() took
  sent,      \* observation: requests a call published
  open,      \* wallet: calls it has a request of and has not answered
  answers    \* relay: its answers

payerVars == <<pc, calls, creq, begun, since, took, sent>>
vars == <<strategy, file, now, payerVars, open, answers>>

None   == "none"
Nobody == <<"none", 0>>
Answers == [call : Payers \X (1 .. MaxCalls), at : 0 .. MaxTime,
            says : {"token", "error", "unreadable"}]
Nothing == [call |-> Nobody, at |-> 0, says |-> "unreadable"]
\* The token of the file as an answer, so that what a call took has one form.
OfFile(t) == [call |-> Nobody, at |-> t, says |-> "token"]

Call(p) == <<p, calls[p]>>

\* Only the strategy of the token looks into requests and has a token: for the
\* others one stands for all.
Read(names) == IF strategy = "token" THEN names ELSE {CHOOSE n \in names : TRUE}

Init ==
  /\ strategy \in Strategies
  /\ file \in Read(DOMAIN Tokens)
  /\ now = 0
  /\ pc = [p \in Payers |-> "idle"]
  /\ calls = [p \in Payers |-> 0]
  /\ creq = [p \in Payers |-> None]
  /\ begun = [p \in Payers |-> 0]
  /\ since = [p \in Payers |-> 0]
  /\ took = [p \in Payers |-> Nothing]
  /\ sent = [p \in Payers |-> 0]
  /\ open = {} /\ answers = {}

-----------------------------------------------------------------------------
Goto(p, where) == pc' = [pc EXCEPT ![p] = where]

\* A call returns, with a descriptor or an error; what it knew is gone.
Return(ps) ==
  LET Reset(f, x) == [p \in Payers |-> IF p \in ps THEN x ELSE f[p]] IN
  /\ pc' = Reset(pc, "idle")
  /\ creq' = Reset(creq, None) /\ took' = Reset(took, Nothing) /\ sent' = Reset(sent, 0)
  /\ begun' = Reset(begun, 0) /\ since' = Reset(since, 0)
  /\ UNCHANGED calls

\* run_extend wants a key and a way to pay before it asks the server; an upload
\* comes with both.
Begin(p) ==
  /\ pc[p] = "idle" /\ calls[p] < MaxCalls
  /\ p \in Extends => strategy # "none"
  /\ calls' = [calls EXCEPT ![p] = @ + 1]
  /\ Goto(p, "first")
  /\ UNCHANGED <<strategy, file, now, creq, begun, since, took, sent, open, answers>>

\* upload_attempt, extend_attempt without a token: done, 402 with a payment
\* request, or an error.
First(p) ==
  /\ pc[p] = "first"
  /\ \/ Return({p})
     \/ /\ Goto(p, "pay")
        /\ \E r \in Read(DOMAIN Requests) : creq' = [creq EXCEPT ![p] = r]
        /\ begun' = [begun EXCEPT ![p] = now]
        /\ UNCHANGED <<calls, since, took, sent>>
  /\ UNCHANGED <<strategy, file, now, open, answers>>

\* NoPayment::pay
PayNone(p) ==
  /\ pc[p] = "pay" /\ strategy = "none"
  /\ Return({p})
  /\ UNCHANGED <<strategy, file, now, open, answers>>

\* TokenStrategy::pay: the token, whether the request can be decoded or not.
PayToken(p) ==
  /\ pc[p] = "pay" /\ strategy = "token"
  /\ Goto(p, "second")
  /\ took' = [took EXCEPT ![p] = OfFile(now)]
  /\ UNCHANGED <<strategy, file, now, calls, creq, begun, since, sent, open, answers>>

\* NwcStrategy::pay, on a thread of its own: the request is encrypted and
\* signed, then the time is taken.  Any of it may fail, and the thread may die.
Ask(p) ==
  /\ pc[p] = "pay" /\ strategy = "nwc"
  /\ \/ Return({p})
     \/ /\ Goto(p, "send")
        /\ since' = [since EXCEPT ![p] = now]
        /\ UNCHANGED <<calls, creq, begun, took, sent>>
  /\ UNCHANGED <<strategy, file, now, open, answers>>

\* add_relay, send_event: an error may come of a request the wallet has got.
Send(p) ==
  /\ pc[p] = "send"
  /\ \/ /\ Goto(p, "fetch")
        /\ open' = open \union {Call(p)}
        /\ sent' = [sent EXCEPT ![p] = @ + 1]
        /\ UNCHANGED <<calls, creq, begun, since, took>>
     \/ Return({p}) /\ open' \in {open, open \union {Call(p)}}
  /\ UNCHANGED <<strategy, file, now, answers>>

\* Variant: every answer to this client is looked at.
HeardEver(p) == answers

\* The filter of pay_async: answers since `now`, to whichever request.
Heard(p) == {a \in answers : a.at >= since[p]}

\* Variant: an answer is waited for as long as it takes.
FetchForever(p) ==
  LET decide == {a \in Heard(p) : a.says # "unreadable"} IN
  /\ pc[p] = "fetch"
  /\ \/ (\E a \in decide : a.says = "error") /\ Return({p})
     \/ \E a \in decide :
          /\ a.says = "token"
          /\ Goto(p, "second") /\ took' = [took EXCEPT ![p] = a]
          /\ UNCHANGED <<calls, creq, begun, since, sent>>
  /\ UNCHANGED <<strategy, file, now, open, answers>>

\* fetch_events returns what the relay has, in whatever order: the first answer
\* that can be read decides.  Without one, and after an error or the timeout,
\* the payment has failed, whatever the wallet does later.
Fetch(p) ==
  LET decide == {a \in Heard(p) : a.says # "unreadable"} IN
  /\ pc[p] = "fetch"
  /\ \/ Return({p})
     \/ \E a \in decide :
          /\ a.says = "token"
          /\ Goto(p, "second") /\ took' = [took EXCEPT ![p] = a]
          /\ UNCHANGED <<calls, creq, begun, since, sent>>
  /\ UNCHANGED <<strategy, file, now, open, answers>>

\* Variant: a second 402 is paid as the first was.
SecondPays(p) ==
  /\ pc[p] = "second"
  /\ \/ Goto(p, "pay") /\ UNCHANGED <<calls, creq, begun, since, took, sent>>
     \/ Return({p})
  /\ UNCHANGED <<strategy, file, now, open, answers>>

\* The attempt with the token in X-Cashu.  A second 402 is an error like another.
Second(p) ==
  /\ pc[p] = "second"
  /\ Return({p})
  /\ UNCHANGED <<strategy, file, now, open, answers>>

\* The process of some payers is killed: an extend command, or the mount.
Kill(ps) ==
  /\ Return(ps)
  /\ UNCHANGED <<strategy, file, now, open, answers>>
Processes == {{p} : p \in Extends} \union {Payers \ Extends}

\* The wallet answers a request.
Reply(call, says) ==
  /\ call \in open
  /\ open' = open \ {call}
  /\ answers' = answers \union {[call |-> call, at |-> now, says |-> says]}
  /\ UNCHANGED <<strategy, file, now, payerVars>>

Tick ==
  /\ now < MaxTime /\ now' = now + 1
  /\ UNCHANGED <<strategy, file, payerVars, open, answers>>

PayStep(p) ==
  First(p) \/ PayNone(p) \/ PayToken(p) \/ Ask(p) \/ Send(p) \/ Fetch(p) \/ Second(p)

Next ==
  \/ \E p \in Payers : Begin(p) \/ PayStep(p)
  \/ \E ps \in Processes : Kill(ps)
  \/ \E call \in open, says \in {"token", "error", "unreadable"} : Reply(call, says)
  \/ Tick

Spec == Init /\ [][Next]_vars

\* run_extend has a client without a timeout.
AwaitsServer(p) == p \in Extends /\ pc[p] \in {"first", "second"}

\* The requests of an upload and the queries of the wallet's relay have timeouts.
\* Neither the wallet nor the server of an extend command owes anything.
Fairness == \A p \in Payers : WF_vars(~AwaitsServer(p) /\ PayStep(p))
FairSpec == Spec /\ Fairness

-----------------------------------------------------------------------------
(* Properties.                                                             *)

\* The variables have their types; only who is paying by wallet waits for one.
TypeOK ==
  /\ strategy \in Strategies /\ now \in 0 .. MaxTime
  /\ pc \in [Payers -> {"idle", "first", "pay", "send", "fetch", "second"}]
  /\ calls \in [Payers -> 0 .. MaxCalls]
  /\ \A p \in Payers :
       /\ pc[p] # "idle" => calls[p] > 0
       /\ pc[p] \in {"send", "fetch"} => strategy = "nwc"
       /\ pc[p] = "second" => took[p].says = "token"
  /\ begun \in [Payers -> 0 .. MaxTime] /\ since \in [Payers -> 0 .. MaxTime]
  /\ took \in [Payers -> Answers \union {Nothing} \union {OfFile(t) : t \in 0 .. MaxTime}]
  /\ sent \in [Payers -> Nat]
  /\ open \subseteq Payers \X (1 .. MaxCalls)
  /\ answers \subseteq Answers

\* The answer a payment takes is never one the wallet gave in an earlier second
\* than the payment was begun in, to a call that was given up, killed or paid
\* before (nwc.rs:195-213).  In the same second it may be another call's.
FreshAnswer == \A p \in Payers : took[p] # Nothing => took[p].at >= begun[p]

\* One call has the wallet pay at most once, whatever the server makes of the
\* token, and a call that was paid from the file asks no wallet.
PaidOnce == \A p \in Payers : sent[p] <= (IF strategy = "nwc" THEN 1 ELSE 0)

\* What a payment request must have, whatever else it has and in whatever
\* order: an amount, a unit and mints, of their types wherever they stand.
Pairs(v, key) == Only(v.of, {pair \in Range(v.of) : pair[1] = key})
LastOf(v, key) == Pairs(v, key)[Len(Pairs(v, key))][2].of

CreqExact ==
  \A p \in Payers : creq[p] # None =>
    LET v    == Requests[creq[p]]
        fits == /\ v.is = "map"
                /\ \A key \in {"a", "u", "m"} : Pairs(v, key) # <<>>
                /\ \A k \in DOMAIN v.of :
                     CASE v.of[k][1] = "a" -> AsU64(v.of[k][2])
                       [] v.of[k][1] = "u" -> AsString(v.of[k][2])
                       [] v.of[k][1] = "m" -> AsStrings(v.of[k][2])
                       [] OTHER -> TRUE
    IN  DecodeCreq(v)
          = IF fits THEN Decoded([amount |-> LastOf(v, "a"), unit |-> LastOf(v, "u"),
                                  mints |-> Texts(LastOf(v, "m"))])
            ELSE Failed

\* A token is one if its fields, entries and proofs are of their types wherever
\* they stand, and it has a mint and a unit and every proof its amount, secret
\* and signature.  Entries and keysets may be missing.
IsProof(v) ==
  /\ v.is = "map"
  /\ \A key \in {"a", "s", "c"} : Pairs(v, key) # <<>>
  /\ \A pair \in Range(v.of) :
       /\ pair[1] = "a" => AsU64(pair[2])
       /\ pair[1] \in {"s", "c"} => AsString(pair[2])
IsEntry(v) ==
  /\ v.is = "map"
  /\ \A pair \in Range(v.of) :
       /\ pair[1] = "i" => AsString(pair[2])
       /\ pair[1] = "p" => pair[2].is = "array" /\ \A x \in Range(pair[2].of) : IsProof(x)
IsToken(v) ==
  /\ v.is = "map"
  /\ \A key \in {"m", "u"} : Pairs(v, key) # <<>>
  /\ \A pair \in Range(v.of) :
       /\ pair[1] \in {"m", "u"} => AsString(pair[2])
       /\ pair[1] = "t" => pair[2].is = "array" /\ \A x \in Range(pair[2].of) : IsEntry(x)

\* What the arrays under a key hold.
Under(v, key) == UNION {Range(pair[2].of) : pair \in {q \in Range(v.of) : q[1] = key}}

\* The keyset of an entry.  The code misses one that comes after proofs of it
\* (cbor.rs:227).
Keyset(entry) == IF Pairs(entry, "i") = <<>> THEN "" ELSE LastOf(entry, "i")
LateKeyset(entry) ==
  \E j, k \in DOMAIN entry.of : j < k /\ entry.of[j][1] = "p" /\ entry.of[k][1] = "i"

\* r is a proof that stands in the entry.
Stands(entry, r) ==
  \E proof \in Under(entry, "p") :
    /\ r.amount = LastOf(proof, "a") /\ r.secret = LastOf(proof, "s") /\ r.c = LastOf(proof, "c")
    /\ LateKeyset(entry) \/ r.id = Keyset(entry)

Total(values) ==
  LET upTo[k \in 0 .. Len(values)] == IF k = 0 THEN 0 ELSE upTo[k - 1] + values[k]
  IN  upTo[Len(values)]
Over(v, key, Value(_)) ==
  LET found == Pairs(v, key)
  IN  Total([k \in DOMAIN found |->
               Total([j \in DOMAIN found[k][2].of |-> Value(found[k][2].of[j])])])

\* A token is decoded if it is one, and refused if not.  Every proof that comes out
\* stands in it, under its keyset unless that came late, and however they are spread
\* over entries none of what they are worth is lost or counted twice.
CashubExact ==
  LET v   == Tokens[file]
      got == DecodeCashub(v)
  IN  /\ got.ok <=> IsToken(v)
      /\ got.ok =>
           /\ got.is.mint = LastOf(v, "m") /\ got.is.unit = LastOf(v, "u")
           /\ \A r \in Range(got.is.proofs) : \E entry \in Under(v, "t") : Stands(entry, r)
           /\ Total([k \in DOMAIN got.is.proofs |-> got.is.proofs[k].amount])
                = Over(v, "t", LAMBDA entry : Over(entry, "p", LAMBDA proof : LastOf(proof, "a")))

\* Payment requests and tokens are decoded to what they say, and refused if they
\* do not say it, whatever the order of their fields; but for keysets that come
\* after their proofs.
DecodersExact == CreqExact /\ CashubExact

\* (Under FairSpec.)  Every call ends, also when the wallet never answers; but an
\* extend command lasts as long as its server is silent.
CallsEnd ==
  \A p \in Payers :
    \/ pc[p] = "first" ~> pc[p] = "idle"
    \/ <>[]AwaitsServer(p)
=============================================================================
