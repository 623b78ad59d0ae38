------------------------------- MODULE Cashu -------------------------------
(***************************************************************************)
(* The decoders of payment requests and Cashu tokens (src/src/payment/     *)
(* cbor.rs).  A CBOR value is [is, of]: a "map" of pairs <<key, value>>,   *)
(* an "array" of values, an "int", a "text", "bytes" that are UTF-8, or    *)
(* "raw" bytes that are not.  Keys that are no text are "other".  Base64   *)
(* and the bytes of CBOR are left out: what is not CBOR is "raw".          *)
(*                                                                         *)
(* The loops of the code go on from what they have so far; CreqExact and   *)
(* CashubExact of Wallet say what comes out without a loop.                *)
(***************************************************************************)
EXTENDS Integers, Sequences, Functions, Lists

Failed     == [ok |-> FALSE, is |-> <<>>]
Decoded(x) == [ok |-> TRUE, is |-> x]

AsU64(v)     == v.is = "int" /\ v.of >= 0
AsString(v)  == v.is \in {"text", "bytes"}
AsStrings(v) == v.is = "array" /\ \A k \in DOMAIN v.of : AsString(v.of[k])

Put(was, key, x) ==
  Decoded([k \in DOMAIN was.is \union {key} |-> IF k = key THEN x ELSE was.is[k]])

OfKind(v, kind) ==
  CASE kind = "u64" -> AsU64(v) [] kind = "text" -> AsString(v) [] kind = "texts" -> AsStrings(v)

\* A loop over a map: the last value of every key that has a kind, and the end
\* at the first that is not of it.
FieldsOf(map, kinds) ==
  LET at[k \in 0 .. Len(map.of)] ==
        IF k = 0 THEN Decoded(<<>>)
        ELSE LET pair == map.of[k]
                 was  == at[k - 1]
             IN  IF ~was.ok \/ pair[1] \notin DOMAIN kinds THEN was
                 ELSE IF OfKind(pair[2], kinds[pair[1]]) THEN Put(was, pair[1], pair[2].of)
                 ELSE Failed
  IN  IF map.is = "map" THEN at[Len(map.of)] ELSE Failed

Complete(fields, kinds) == fields.ok /\ DOMAIN fields.is = DOMAIN kinds

Texts(values) == [k \in DOMAIN values |-> values[k].of]

CreqKinds  == [a |-> "u64", u |-> "text", m |-> "texts"]
ProofKinds == [a |-> "u64", s |-> "text", c |-> "text"]
TokenKinds == [m |-> "text", u |-> "text"]

\* decode_creq
DecodeCreq(v) ==
  LET f == FieldsOf(v, CreqKinds)
  IN  IF Complete(f, CreqKinds)
      THEN Decoded([amount |-> f.is["a"], unit |-> f.is["u"], mints |-> Texts(f.is["m"])])
      ELSE Failed

\* One proof, with the keyset id its entry has so far.
ProofOf(v, id) ==
  LET f == FieldsOf(v, ProofKinds)
  IN  IF Complete(f, ProofKinds)
      THEN Decoded([id |-> id, amount |-> f.is["a"], secret |-> f.is["s"], c |-> f.is["c"]])
      ELSE Failed

\* Results one after another, all or none.
AllOrNone(got) ==
  IF \A k \in DOMAIN got : got[k].ok THEN Decoded([k \in DOMAIN got |-> got[k].is]) ELSE Failed

Joined(lists) ==
  LET at[k \in 0 .. Len(lists)] == IF k = 0 THEN <<>> ELSE at[k - 1] \o lists[k]
  IN  at[Len(lists)]

\* Variant: a second "p" takes the place of the first.
PushOver(entry, proofs) == [entry EXCEPT !.is = proofs]

Push(entry, proofs) == [entry EXCEPT !.is = @ \o proofs]

\* The entry of a keyset: the proofs of every "p", each with the id of the last
\* "i" before it, or none.
EntryOf(v) ==
  LET at[k \in 0 .. Len(v.of)] ==
        IF k = 0 THEN [ok |-> TRUE, id |-> "", is |-> <<>>]
        ELSE LET key == v.of[k][1]
                 val == v.of[k][2]
                 was == at[k - 1]
                 got == IF val.is = "array"
                        THEN AllOrNone([p \in DOMAIN val.of |-> ProofOf(val.of[p], was.id)])
                        ELSE Failed
             IN  IF ~was.ok \/ key \notin {"i", "p"} THEN was
                 ELSE IF key = "i"
                 THEN IF AsString(val) THEN [was EXCEPT !.id = val.of] ELSE [was EXCEPT !.ok = FALSE]
                 ELSE IF got.ok THEN Push(was, got.is) ELSE [was EXCEPT !.ok = FALSE]
      end == at[Len(v.of)]
  IN  IF v.is = "map" /\ end.ok THEN Decoded(end.is) ELSE Failed

\* The proofs of the entries under every "t", one after another.
ProofsOf(map) ==
  LET ts == Only(map.of, {pair \in Range(map.of) : pair[1] = "t"})
      entries(v) == IF v.is = "array" THEN AllOrNone([k \in DOMAIN v.of |-> EntryOf(v.of[k])])
                    ELSE Failed
      got == AllOrNone([k \in DOMAIN ts |-> entries(ts[k][2])])
  IN  IF got.ok THEN Decoded(Joined([k \in DOMAIN got.is |-> Joined(got.is[k])])) ELSE Failed

\* decode_cashub_token
DecodeCashub(v) ==
  LET f == FieldsOf(v, TokenKinds)
  IN  IF Complete(f, TokenKinds) /\ ProofsOf(v).ok
      THEN Decoded([mint |-> f.is["m"], unit |-> f.is["u"], proofs |-> ProofsOf(v).is])
      ELSE Failed
=============================================================================
