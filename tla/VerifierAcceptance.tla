------------------------- MODULE VerifierAcceptance -------------------------
(***************************************************************************)
(* The verifier on issuer-signed payloads of any make: which payloads and  *)
(* disclosures SDJWTVerifier::extract_sd_claims (src/verifier.rs) accepts, *)
(* against a definition that knows no order of traversal.                  *)
(***************************************************************************)
EXTENDS Unpacking

CONSTANTS Payloads,        (* decoded issuer-signed payloads               *)
          DisclosureLists  (* what a presentation may carry                *)

VARIABLES payload, disclosures, verdict

vars == <<payload, disclosures, verdict>>

Pending == [kind |-> "pending"]

Init ==
  /\ payload \in Payloads
  /\ disclosures \in DisclosureLists
  /\ verdict = Pending

Verify ==
  /\ verdict = Pending
  /\ verdict' = Unpacked(payload, disclosures)
  /\ UNCHANGED <<payload, disclosures>>

Spec == Init /\ [][Verify]_vars

-----------------------------------------------------------------------------
(* The containers inside a value, itself included, and the references of a *)
(* value, in its digests and its items; digests are not followed.          *)

RECURSIVE Containers(_), References(_)
Containers(v) ==
  CASE v.kind = "object" -> {v} \cup UNION {Containers(v.claims[n]) : n \in DOMAIN v.claims}
    [] v.kind = "array"  -> {v} \cup UNION {Containers(v.items[i]) : i \in 1..Len(v.items)}
    [] OTHER             -> {}

Places(ds, kind) == [i \in 1..Len(ds) |-> [digest |-> ds[i], kind |-> kind]]

References(v) ==
  CASE v.kind = "object" ->
         FlattenSeq([i \in 1..Len(Names(v.claims)) |-> References(v.claims[Names(v.claims)[i]])])
           \o Places(v.sd, "property")
    [] v.kind = "array" ->
         FlattenSeq([i \in 1..Len(v.items) |->
           IF v.items[i].kind = "ref" THEN Places(<<v.items[i].digest>>, "element")
           ELSE References(v.items[i])])
    [] OTHER -> <<>>

Digests(v) == {References(v)[i].digest : i \in 1..Len(References(v))}

(* The disclosures the payload reaches, directly or through others.        *)
Reached(table) ==
  LET Grow(ds) == ds \cup (DOMAIN table \cap UNION {Digests(table[d].value) : d \in ds})
  IN  FoldLeft(LAMBDA ds, d : Grow(ds), Digests(payload) \cap DOMAIN table, SetToSeq(DOMAIN table))

(* The values a reader of the presentation meets, and their references.    *)
Met(table)  == {payload} \cup {table[d].value : d \in Reached(table)}
AllPlaces(table) ==
  References(payload)
    \o FlattenSeq([i \in 1..Cardinality(Reached(table)) |->
                     References(table[Ascending(Reached(table))[i]].value)])

ReferredOnce(table) ==
  LET all == AllPlaces(table)
  IN  \A i, j \in 1..Len(all) : all[i].digest = all[j].digest => i = j

InTheirPlace(table) ==
  LET all == AllPlaces(table)
  IN  \A i \in 1..Len(all) :
        all[i].digest \in DOMAIN table => table[all[i].digest].kind = all[i].kind

(* Members of one object have different names, none of them a marker.      *)
NoClash(object, table) ==
  LET ds == {d \in Range(object.sd) \cap DOMAIN table : table[d].kind = "property"}
  IN  /\ \A d \in ds : table[d].name \notin Reserved \cup DOMAIN object.claims
      /\ \A d, e \in ds : table[d].name = table[e].name => d = e

RECURSIVE OpenDepth(_, _)
Deepest(vs, table) == Max({0} \cup {OpenDepth(v, table) : v \in vs})
OpenDepth(v, table) ==
  CASE v.kind = "object" ->
         1 + Deepest({v.claims[n] : n \in DOMAIN v.claims}
                       \cup {table[d].value : d \in Range(v.sd) \cap DOMAIN table}, table)
    [] v.kind = "array" ->
         1 + Deepest({v.items[i] : i \in {k \in 1..Len(v.items) : v.items[k].kind # "ref"}}
                       \cup {table[d].value : d \in Digests(v) \cap DOMAIN table}, table)
    [] v.kind = "ref"  -> 1
    [] v.kind = "leaf" -> 0

WellFormed(table) ==
  /\ Reached(table) = DOMAIN table
  /\ ReferredOnce(table)
  /\ InTheirPlace(table)
  /\ \A v \in Met(table) : \A c \in Containers(v) :
       IF c.kind = "object" THEN NoClash(c, table) ELSE c.items # <<>>
  /\ OpenDepth(payload, table) <= MaxDepth

DistinctDigests == Cardinality(DOMAIN Table(disclosures)) = Len(disclosures)

(* The verifier accepts exactly the presentations that are well formed as  *)
(* a whole: every disclosure reached, no digest referred to twice anywhere,*)
(* each disclosure in a place of its kind, no clash of names, no empty     *)
(* array, no more than MaxDepth containers inside one another - although   *)
(* it decides while it walks, with one set of digests.                     *)
AcceptsExactlyWellFormed ==
  verdict # Pending =>
    verdict.ok = (DistinctDigests /\ WellFormed(Table(disclosures)))
=============================================================================
