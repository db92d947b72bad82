----------------------------- MODULE ClaimTrees -----------------------------
(***************************************************************************)
(* The JSON values an SD-JWT is made of, the disclosures that stand for    *)
(* parts of them, and what an issuer makes of a claim set                  *)
(* (src/issuer.rs, src/issuer/issuance_plan.rs, src/disclosure.rs).        *)
(*                                                                         *)
(* A digest is a positive number: salts are fresh, so every disclosure and *)
(* every decoy has a digest of its own, dealt from the random source in    *)
(* the order salts are drawn.  JSON objects keep their insertion order,    *)
(* which is that of the constant Keys; array index i is the key Index[i].  *)
(***************************************************************************)
EXTENDS Integers, Sequences, FiniteSets, SequencesExt, TLC

CONSTANTS Keys,     (* every claim name, in the order objects list them    *)
          Index,    (* the strategy keys "[0]", "[1]", ... of array items  *)
          Reserved, (* the structural markers "_sd" and "..."              *)
          Always,   (* "iss", "iat" and "exp"                              *)
          Cnf       (* the confirmation claim                              *)

ASSUME ClaimTreesAssumption ==
  Reserved \cup Always \cup {Cnf} \subseteq Range(Keys)

NoClaims        == <<>>          \* the object without members
Leaf(x)         == [kind |-> "leaf", value |-> x]
Object(f, ds)   == [kind |-> "object", claims |-> f, sd |-> ds]
Array(items)    == [kind |-> "array", items |-> items]
Ref(d)          == [kind |-> "ref", digest |-> d]      \* {"...": d}

Property(d, n, v) == [kind |-> "property", digest |-> d, name |-> n, value |-> v]
Element(d, v)     == [kind |-> "element", digest |-> d, value |-> v]

Names(claims)        == SelectSeq(Keys, LAMBDA n : n \in DOMAIN claims)
Without(claims, ns)  == Restrict(claims, DOMAIN claims \ ns)
Ascending(ds)        == SetToSortSeq(ds, LAMBDA a, b : a < b)

-----------------------------------------------------------------------------
(* ClaimsForSelectiveDisclosureStrategy: a custom strategy is a set of     *)
(* paths, each a sequence of keys.                                         *)

Strategy(kind) == [kind |-> kind, paths |-> {}]
Custom(paths)  == [kind |-> "custom", paths |-> paths]

NextLevel(st, key) ==
  CASE st.kind \in {"none", "top"} -> Strategy("none")
    [] st.kind = "all"             -> st
    [] st.kind = "custom" ->
         Custom({Tail(p) : p \in {q \in st.paths : Len(q) > 1 /\ Head(q) = key}})

SdForKey(st, key) == st.kind \in {"top", "all"} \/ <<key>> \in st.paths

-----------------------------------------------------------------------------
(* What planning and assembling a value yields: the value with digests in  *)
(* place of what may be withheld, and the log of disclosures made so far.  *)
(* A child is planned before the salt of its own disclosure is drawn, an   *)
(* object's decoys after all its members; the digests of an object are     *)
(* sorted.                                                                 *)

EmptyLog == [made |-> <<>>, drawn |-> 0]

Draw(log, salts) == salts[log.drawn + 1]


Record(log, disclosure) ==
  [made |-> Append(log.made, disclosure), drawn |-> log.drawn + 1]

SdDigests(digests) == Ascending(Range(digests))

RECURSIVE Emit(_, _, _, _)

EmitObject(v, st, log, opt) ==
  LET Entry(acc, n) ==
        LET child == Emit(v.claims[n], NextLevel(st, n), acc.log, opt)
            d     == Draw(child.log, opt.salts)
        IN  IF SdForKey(st, n)
            THEN [acc EXCEPT !.digests = Append(@, d),
                             !.log = Record(child.log, Property(d, n, child.value))]
            ELSE [acc EXCEPT !.claims = (n :> child.value) @@ @, !.log = child.log]
      members == FoldLeft(Entry, [claims |-> NoClaims, digests |-> <<>>, log |-> log],
                          Names(v.claims))
      decoys  == [i \in 1..opt.decoys |-> opt.salts[members.log.drawn + i]]
  IN  [value |-> Object(members.claims, SdDigests(members.digests \o decoys)),
       log   |-> [members.log EXCEPT !.drawn = @ + opt.decoys]]

EmitArray(v, st, log, opt) ==
  LET Entry(acc, i) ==
        LET child == Emit(v.items[i], NextLevel(st, Index[i]), acc.log, opt)
            d     == Draw(child.log, opt.salts)
        IN  IF SdForKey(st, Index[i])
            THEN [items |-> Append(acc.items, Ref(d)),
                  log   |-> Record(child.log, Element(d, child.value))]
            ELSE [items |-> Append(acc.items, child.value), log |-> child.log]
      entries == FoldLeft(Entry, [items |-> <<>>, log |-> log],
                          [i \in 1..Len(v.items) |-> i])
  IN  [value |-> Array(entries.items), log |-> entries.log]

Emit(v, st, log, opt) ==
  CASE v.kind = "object" -> EmitObject(v, st, log, opt)
    [] v.kind = "array"  -> EmitArray(v, st, log, opt)
    [] OTHER             -> [value |-> v, log |-> log]

(* check_for_sd_claim: no member of the claims may have a marker's name.   *)
RECURSIVE UsesReserved(_)
UsesReserved(v) ==
  CASE v.kind = "object" ->
         \/ DOMAIN v.claims \cap Reserved # {}
         \/ \E n \in DOMAIN v.claims : UsesReserved(v.claims[n])
    [] v.kind = "array"  -> \E i \in 1..Len(v.items) : UsesReserved(v.items[i])
    [] OTHER             -> FALSE

(* validate_public_confirmation_claim.                                     *)
PrivateKey == Leaf("private jwk")
ConfirmsPrivateKey(claims) == Cnf \in DOMAIN claims /\ claims[Cnf] = PrivateKey

(* SDJWTIssuerPlanner::prepare: a holder key replaces the confirmation     *)
(* claim, the registered claims never go through the strategy, and the     *)
(* confirmation claim of a holder key is added after it.                   *)
UserClaims(claims, key) == IF key THEN Without(claims, {Cnf}) ELSE claims
HolderKey == Leaf("holder jwk")

Issued(claims, st, opt) ==
  LET user     == UserClaims(claims, opt.key)
      assembly == Emit(Object(Without(user, Always), <<>>), st, EmptyLog, opt)
      visible  == Restrict(user, DOMAIN user \cap Always)
      bound    == IF opt.key THEN Cnf :> HolderKey ELSE NoClaims
  IN  [payload     |-> [assembly.value EXCEPT !.claims = bound @@ visible @@ @],
       disclosures |-> assembly.log.made]

(* The disclosures by digest: hash_to_decoded_disclosure.                  *)
Table(disclosures) ==
  [d \in {disclosures[i].digest : i \in 1..Len(disclosures)} |->
     disclosures[CHOOSE i \in 1..Len(disclosures) : disclosures[i].digest = d]]
=============================================================================
