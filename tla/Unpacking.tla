----------------------------- MODULE Unpacking ------------------------------
(***************************************************************************)
(* SDJWTVerifier::extract_sd_claims (src/verifier.rs): the payload is      *)
(* walked depth first with one set of digests met so far, opening the      *)
(* disclosure of each digest that has one, and afterwards every disclosure *)
(* presented must have been met.                                           *)
(***************************************************************************)
EXTENDS ClaimTrees

CONSTANT MaxDepth   (* MAX_PROCESSED_SD_JWT_DEPTH *)

ASSUME MaxDepthAssumption == MaxDepth \in Nat

(* Outcomes of a walk: a value, with the digests met; or a rejection.      *)
Walked(v, met) == [ok |-> TRUE, out |-> v, met |-> met]
Rejected       == [ok |-> FALSE]

(* enter_processed_container, record_digest.                               *)
\* Slip: names are compared with the visible members of no object
UnfitByKind(disclosure, kind, claims) ==
  disclosure.kind # kind \/ (kind = "property" /\ disclosure.name \in Reserved)

TooDeep(depth)        == depth + 1 > MaxDepth
Repeated(d, met)      == d \in met
Unfit(disclosure, kind, claims) ==
  \/ disclosure.kind # kind
  \/ kind = "property" /\ disclosure.name \in Reserved \cup DOMAIN claims

RECURSIVE Walk(_, _, _, _)

(* One digest of an array: an element without a disclosure is left out.    *)
WalkRef(d, depth, acc, table) ==
  CASE Repeated(d, acc.met) -> Rejected
    [] ~Repeated(d, acc.met) /\ d \notin DOMAIN table ->
         Walked(acc.out, acc.met \cup {d})
    [] OTHER ->
         IF Unfit(table[d], "element", NoClaims) THEN Rejected
         ELSE LET inner == Walk(table[d].value, depth, acc.met \cup {d}, table)
              IN  IF inner.ok THEN Walked(Append(acc.out, inner.out), inner.met)
                  ELSE Rejected

WalkArray(v, depth, met, table) ==
  LET Item(acc, item) ==
        IF ~acc.ok THEN acc
        ELSE IF item.kind = "ref" THEN WalkRef(item.digest, depth, acc, table)
        ELSE LET inner == Walk(item, depth, acc.met, table)
             IN  IF inner.ok THEN Walked(Append(acc.out, inner.out), inner.met)
                 ELSE Rejected
      walk == FoldLeft(Item, Walked(<<>>, met), v.items)
  IN  IF v.items = <<>> \/ ~walk.ok THEN Rejected
      ELSE Walked(Array(walk.out), walk.met)

(* One digest of an object's "_sd".                                        *)
WalkDigest(d, depth, acc, table) ==
  CASE Repeated(d, acc.met) -> Rejected
    [] ~Repeated(d, acc.met) /\ d \notin DOMAIN table ->
         Walked(acc.out, acc.met \cup {d})
    [] OTHER ->
         IF Unfit(table[d], "property", acc.out) THEN Rejected
         ELSE LET inner == Walk(table[d].value, depth, acc.met \cup {d}, table)
              IN  IF inner.ok
                  THEN Walked((table[d].name :> inner.out) @@ acc.out, inner.met)
                  ELSE Rejected

WalkObject(v, depth, met, table) ==
  LET Member(acc, n) ==
        IF ~acc.ok THEN acc
        ELSE LET inner == Walk(v.claims[n], depth, acc.met, table)
             IN  IF inner.ok THEN Walked((n :> inner.out) @@ acc.out, inner.met)
                 ELSE Rejected
      Digest(acc, d) == IF acc.ok THEN WalkDigest(d, depth, acc, table) ELSE acc
      members == FoldLeft(Member, Walked(NoClaims, met), Names(v.claims))
      walk    == FoldLeft(Digest, members, v.sd)
  IN  IF walk.ok THEN Walked(Object(walk.out, <<>>), walk.met) ELSE Rejected

(* A digest object that is no array item is an object like any other.      *)
Walk(v, depth, met, table) ==
  CASE v.kind = "leaf" -> Walked(v, met)
    [] v.kind # "leaf" /\ TooDeep(depth) -> Rejected
    [] OTHER ->
         CASE v.kind = "array"  -> WalkArray(v, depth + 1, met, table)
           [] v.kind = "object" -> WalkObject(v, depth + 1, met, table)
           [] v.kind = "ref"    -> Walked(v, met)

\* Slip: disclosures nothing refers to are ignored
NothingUnreferenced(table, met) == {}

Unreferenced(table, met) == DOMAIN table \ met

(* The whole of it: two presented disclosures with one digest are refused  *)
(* by preprocessing, before the walk.                                      *)
Unpacked(payload, disclosures) ==
  LET table == Table(disclosures)
      walk  == Walk(payload, 0, {}, table)
  IN  IF Cardinality(DOMAIN table) # Len(disclosures) \/ ~walk.ok THEN Rejected
      ELSE IF Unreferenced(table, walk.met) # {} THEN Rejected
      ELSE [ok |-> TRUE, out |-> walk.out]
=============================================================================
