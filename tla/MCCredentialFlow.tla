-------------------------- MODULE MCCredentialFlow --------------------------
(* Small claim sets with nested objects and arrays for CredentialFlow.     *)
EXTENDS CredentialFlow

MCKeys  == <<"iss", "name", "address", "street", "list", "cnf", "_sd">>
MCIndex == <<"[0]", "[1]", "[2]">>

Address == Object(("street" :> Leaf("street")) @@ ("name" :> Leaf("town")), <<>>)
Nested  == Array(<<Leaf("first"), Object("street" :> Leaf("second"), <<>>)>>)
Iss     == "iss" :> Leaf("issuer")

Flat    == Iss @@ ("name" :> Leaf("alice")) @@ ("cnf" :> Leaf("other jwk"))
Deep    == Iss @@ ("address" :> Address) @@ ("name" :> Leaf("alice"))
Listed  == Iss @@ ("list" :> Array(<<Leaf("zero"), Nested>>))
Mixed   == "address" :> Object("list" :> Nested, <<>>)
Deepest == Iss @@ ("address" :> Object("address" :> Object("list" :> Nested, <<>>), <<>>))
Empties == Iss @@ ("list" :> Array(<<Array(<<>>), Leaf("x")>>))
Private == Iss @@ ("cnf" :> PrivateKey)
Marked  == "address" :> Object("_sd" :> Leaf("x"), <<>>)

MCClaimSets == {Flat, Deep, Listed, Mixed, Deepest, Empties, Marked, Private}

MCStrategies ==
  {Strategy("none"), Strategy("top"), Strategy("all"),
   Custom({<<"address">>, <<"address", "street">>, <<"list", "[1]">>, <<"list", "[1]", "[0]">>}),
   Custom({<<"address", "list">>, <<"address", "list", "[1]", "street">>, <<"list", "[0]">>,
           <<"iss">>})}

Up(n)     == [i \in 1..n |-> i]
MCOptions ==
  {[salts |-> Up(30), decoys |-> 2, key |-> FALSE, form |-> "flattened"],
   [salts |-> Up(30), decoys |-> 0, key |-> TRUE, form |-> "general"],
   [salts |-> Reverse(Up(30)), decoys |-> 1, key |-> TRUE, form |-> "compact"]}

MCEnvelope == ("compact" :> 0) @@ ("flattened" :> 2) @@ ("general" :> 3)

(* The requests that mirror a value, to the depth of the value.            *)
RECURSIVE MCWants(_)
MCMaps(claims) ==
  FoldSet(LAMBDA n, fs : fs \cup {(n :> w) @@ f : w \in MCWants(claims[n]), f \in fs},
          {NoClaims}, DOMAIN claims)
MCLists(items) ==
  FoldLeft(LAMBDA ss, v : ss \cup {Append(s, w) : w \in MCWants(v), s \in ss},
           {<<>>}, items)
MCWants(v) ==
  CASE v.kind = "object" -> {Yes, No} \cup {Map(f) : f \in MCMaps(v.claims)}
    [] v.kind = "array"  -> {Yes, No} \cup {List(s) : s \in MCLists(v.items)}
    [] OTHER             -> {Yes, No, Text}

Unknown == {"street" :> Yes, "street" :> List(<<Yes>>), "iss" :> List(<<Yes>>)}
Absent  == {"street" :> Map("name" :> Yes), "name" :> Map("name" :> Yes)}

MCRequests    == [claims \in MCClaimSets |-> MCMaps(claims) \cup Unknown]
MCBadRequests == [claims \in MCClaimSets |-> Unknown \cup Absent]
=============================================================================
