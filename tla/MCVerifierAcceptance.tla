------------------------ MODULE MCVerifierAcceptance ------------------------
(* Payloads and disclosures over three digests and a decoy; the value      *)
(* behind a digest refers to larger digests only, as hashes allow.         *)
EXTENDS VerifierAcceptance

MCKeys  == <<"a", "b", "iss", "cnf", "_sd", "...">>
MCIndex == <<>>

X        == Leaf("x")
Member(v) == Object("a" :> v, <<>>)
Hiding(ds) == Object(NoClaims, ds)

MCPayloads ==
  {Object(f, ds) :
     f \in {NoClaims, "a" :> X, "a" :> Array(<<Ref(1)>>), "a" :> Array(<<Ref(2), X, Ref(4)>>),
            "a" :> Hiding(<<2>>), "a" :> Ref(3), "b" :> Array(<<Array(<<Ref(3)>>)>>)},
     ds \in {<<>>} \cup {<<d>> : d \in 1..4} \cup {<<d, e>> : d \in 1..3, e \in 1..3}}

Kinds(d, v) == {Property(d, "a", v), Property(d, "b", v), Element(d, v)}

First  == UNION {Kinds(1, v) : v \in {X, Hiding(<<2>>), Hiding(<<2, 3>>), Hiding(<<3, 3>>),
                                       Object("a" :> X, <<3>>), Array(<<Ref(2)>>),
                                       Array(<<Ref(3), Hiding(<<2>>)>>), Array(<<Ref(2), Ref(2)>>)}}
Second == UNION {Kinds(2, v) : v \in {X, Hiding(<<3>>), Member(Ref(3)), Array(<<>>),
                                       Array(<<X, Ref(3)>>), Member(Array(<<Ref(3)>>))}}
Third  == UNION {Kinds(3, v) : v \in {X, Array(<<X>>), Member(Member(X))}}
            \cup {Property(3, "_sd", X), Property(3, "...", X)}

MCDisclosureLists ==
  {<<>>} \cup {<<d>> : d \in First \cup Second \cup Third}
    \cup {<<d, d>> : d \in Third}
    \cup {<<e, d>> : d \in First, e \in Second} \cup {<<d, e>> : d \in First, e \in Third}
    \cup {<<d, f, e>> : d \in First, e \in Second, f \in Third}
=============================================================================
