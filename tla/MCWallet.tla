------------------------------ MODULE MCWallet ------------------------------
(***************************************************************************)
(* An instance of Wallet for TLC: an upload and an extend command, with    *)
(* payment requests and tokens that are whole, or wrong in one place.      *)
(***************************************************************************)
EXTENDS Wallet

Number(n)  == [is |-> "int", of |-> n]
Text(s) == [is |-> "text", of |-> s]
Utf8(s) == [is |-> "bytes", of |-> s]
Raw     == [is |-> "raw", of |-> "?"]
List(s) == [is |-> "array", of |-> s]
Map(s)  == [is |-> "map", of |-> s]

Amount == <<"a", Number(3)>>
Unit   == <<"u", Text("sat")>>
Mints  == <<"m", List(<<Text("m1"), Utf8("m2")>>)>>
Creqs ==
  [r \in {"whole", "again", "negative", "unit", "mint", "amountless", "list"} |->
     CASE r = "whole"      -> Map(<<Mints, <<"other", Raw>>, Unit, Amount>>)
       [] r = "again"      -> Map(<<Amount, Unit, Mints, <<"a", Number(4)>>>>)
       [] r = "negative"   -> Map(<<<<"a", Number(-1)>>, Unit, Mints>>)
       [] r = "unit"       -> Map(<<Amount, Unit, <<"u", Raw>>, Mints>>)
       [] r = "mint"       -> Map(<<Amount, Unit, <<"m", List(<<Text("m1"), Number(1)>>)>>>>)
       [] r = "amountless" -> Map(<<Unit, Mints>>)
       [] r = "list"       -> List(<<Number(3)>>)]

ProofMap(n)   == Map(<<<<"a", Number(n)>>, <<"s", Text(IF n = 1 THEN "s1" ELSE "s2")>>, <<"c", Utf8("c")>>>>)
Entry(id, ps) == Map(<<<<"i", Utf8(id)>>, <<"p", List(ps)>>>>)
Token(ts)  == Map(<<<<"m", Text("m1")>>, <<"t", List(ts)>>, Unit>>)
Cashubs ==
  [t \in {"whole", "late", "twice", "parts", "keyless", "empty", "mintless", "proof", "secret", "entry", "keyset"} |->
     CASE t = "whole"    -> Token(<<Entry("k1", <<ProofMap(1), ProofMap(2)>>), Entry("k2", <<ProofMap(4)>>)>>)
       [] t = "late"     -> Token(<<Map(<<<<"p", List(<<ProofMap(1)>>)>>, <<"i", Text("k1")>>,
                                          <<"p", List(<<ProofMap(2), ProofMap(8)>>)>>>>)>>)
       [] t = "twice"    -> Map(Token(<<Entry("k1", <<ProofMap(1)>>)>>).of
                                \o Token(<<Entry("k1", <<ProofMap(2)>>)>>).of)
       [] t = "parts"    -> Token(<<Map(Entry("k1", <<ProofMap(1)>>).of
                                          \o Entry("k2", <<ProofMap(2)>>).of),
                                    Map(Entry("k3", <<>>).of \o <<<<"p", List(<<ProofMap(4)>>)>>>>)>>)
       [] t = "keyless"  -> Token(<<Map(<<<<"p", List(<<ProofMap(1)>>)>>>>)>>)
       [] t = "empty"    -> Map(<<<<"m", Text("m1")>>, Unit>>)
       [] t = "mintless" -> Map(<<<<"t", List(<<>>)>>, Unit>>)
       [] t = "proof"    -> Token(<<Entry("k1", <<ProofMap(-1)>>)>>)
       [] t = "secret"   -> Token(<<Entry("k1", <<Map(<<<<"a", Number(1)>>, <<"c", Text("c")>>>>)>>)>>)
       [] t = "entry"    -> Token(<<Raw>>)
       [] t = "keyset"   -> Token(<<Map(<<<<"i", Number(1)>>>>)>>)]

Parts(vs) ==
  vs \union UNION {{v.of[k][2] : k \in DOMAIN v.of} : v \in {w \in vs : w.is = "map"}}
     \union UNION {{v.of[k] : k \in DOMAIN v.of} : v \in {w \in vs : w.is = "array"}}
Values == Parts(Parts(Parts(Parts(Parts(Parts(Range(Creqs) \union Range(Cashubs)))))))
=============================================================================
