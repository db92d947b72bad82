----------------------------- MODULE Selection ------------------------------
(***************************************************************************)
(* SDJWTHolder::select_disclosures and its companion for lists             *)
(* (src/holder.rs): the disclosures, by digest, that a request asks for.   *)
(*                                                                         *)
(* A request mirrors the claims: "yes" is true, "text" a number or a       *)
(* string, "no" is false or null, a list or a map asks for what is inside. *)
(***************************************************************************)
EXTENDS ClaimTrees

Yes      == [kind |-> "yes"]
Text     == [kind |-> "text"]
No       == [kind |-> "no"]
List(s)  == [kind |-> "list", items |-> s]
Map(f)   == [kind |-> "map", claims |-> f]

Picked(ds) == [kind |-> "ok", picked |-> ds]
Error      == [kind |-> "error", picked |-> <<>>]
Panic      == [kind |-> "panic", picked |-> <<>>]   \* an index without entry

Then(acc, next) ==
  CASE acc.kind # "ok"  -> acc
    [] acc.kind = "ok" /\ next.kind # "ok" -> next
    [] OTHER -> Picked(acc.picked \o next.picked)

(* sd_map: the digest of each member the object withholds, by name.        *)
SdMap(v, table) ==
  LET ds == {d \in Range(v.sd) \cap DOMAIN table : table[d].kind = "property"}
  IN  [n \in {table[d].name : d \in ds} |-> CHOOSE d \in ds : table[d].name = n]

RECURSIVE SelectObject(_, _, _), SelectList(_, _, _)

\* Slip: members that are withheld are not looked into
SelectInsideVisible(v, want, n, table) ==
  LET Shows(kind) == n \in DOMAIN v.claims /\ v.claims[n].kind = kind
  IN  IF want.kind = "list" /\ Shows("array")
      THEN SelectList(v.claims[n].items, want.items, table)
      ELSE IF want.kind = "map" /\ Shows("object")
      THEN SelectObject(v.claims[n], want.claims, table)
      ELSE Picked(<<>>)

(* What a request for one member asks for inside the member.               *)
SelectInside(v, want, n, table) ==
  LET sd          == SdMap(v, table)
      Behind      == table[sd[n]].value
      Shows(kind) == n \in DOMAIN v.claims /\ v.claims[n].kind = kind
      Hides(kind) == ~Shows(kind) /\ n \in DOMAIN sd /\ Behind.kind = kind
      Descends    == want.kind = "map" /\ want.claims # NoClaims
  IN CASE want.kind = "list" /\ Shows("array") ->
            SelectList(v.claims[n].items, want.items, table)
       [] want.kind = "list" /\ Hides("array") -> SelectList(Behind.items, want.items, table)
       [] Descends /\ Shows("object") -> SelectObject(v.claims[n], want.claims, table)
       [] Descends /\ Hides("object") -> SelectObject(Behind, want.claims, table)
       [] Descends /\ ~Shows("object") /\ ~Hides("object") ->
            IF n \in DOMAIN sd THEN Error ELSE Panic
       [] OTHER -> Picked(<<>>)

\* Slip: false is taken for a request
SelectMemberAlways(v, want, n, table) ==
  LET sd  == SdMap(v, table)
      own == IF n \in DOMAIN v.claims THEN Picked(<<>>)
             ELSE IF n \in DOMAIN sd THEN Picked(<<sd[n]>>) ELSE Error
  IN  Then(SelectInside(v, want, n, table), own)

(* The disclosure of the member itself, after those inside it.             *)
SelectMember(v, want, n, table) ==
  LET sd  == SdMap(v, table)
      own == CASE n \in DOMAIN v.claims -> Picked(<<>>)
               [] n \notin DOMAIN v.claims /\ n \in DOMAIN sd -> Picked(<<sd[n]>>)
               [] OTHER -> Error
  IN  IF want.kind = "no" THEN Picked(<<>>)
      ELSE Then(SelectInside(v, want, n, table), own)

SelectObject(v, wants, table) ==
  FoldLeft(LAMBDA acc, n : Then(acc, SelectMember(v, wants[n], n, table)),
           Picked(<<>>), Names(wants))

\* Slip: what is inside a withheld item without the item
SelectRefInside(d, want, table) ==
  LET behind == table[d].value
  IN  IF want.kind = "list" /\ behind.kind = "array"
      THEN SelectList(behind.items, want.items, table)
      ELSE IF want.kind = "map" /\ behind.kind = "object"
      THEN SelectObject(behind, want.claims, table)
      ELSE Picked(IF want.kind = "yes" THEN <<d>> ELSE <<>>)

(* A withheld item is picked before what is inside it; a number or a       *)
(* string asks for nothing here.                                           *)
SelectRef(d, want, table) ==
  IF d \notin DOMAIN table
  THEN Panic
  ELSE LET behind == table[d].value
       IN CASE want.kind = "yes" -> Picked(<<d>>)
            [] want.kind = "list" /\ behind.kind = "array" ->
                 Then(Picked(<<d>>), SelectList(behind.items, want.items, table))
            [] want.kind = "map" /\ behind.kind = "object" ->
                 Then(Picked(<<d>>), SelectObject(behind, want.claims, table))
            [] OTHER -> Picked(<<>>)

SelectItem(item, want, table) ==
  CASE item.kind = "ref" -> SelectRef(item.digest, want, table)
    [] item.kind = "object" /\ want.kind = "map" -> SelectObject(item, want.claims, table)
    [] item.kind = "array" /\ want.kind = "list" -> SelectList(item.items, want.items, table)
    [] OTHER -> Picked(<<>>)

(* zip: the longer of the two lists is cut.                                *)
SelectList(items, wants, table) ==
  LET shared == IF Len(items) < Len(wants) THEN Len(items) ELSE Len(wants)
  IN  FoldLeft(LAMBDA acc, i : Then(acc, SelectItem(items[i], wants[i], table)),
               Picked(<<>>), [i \in 1..shared |-> i])
=============================================================================
