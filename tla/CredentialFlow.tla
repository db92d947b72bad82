--------------------------- MODULE CredentialFlow ---------------------------
(***************************************************************************)
(* One credential from its issuer to a verifier: prepared and written in   *)
(* one of three forms (src/issuer.rs), read and presented in part by its   *)
(* holder (src/holder.rs), with or without a key binding, carried over a   *)
(* channel that may reorder, lose or duplicate disclosures or cut the text *)
(* short, read and verified (src/verifier.rs).  Signatures always verify.  *)
(***************************************************************************)
EXTENDS Unpacking, Selection, SdJwtForms

CONSTANTS ClaimSets,   (* user claims the issuer is given                  *)
          Strategies,  (* its strategies                                   *)
          Options,     (* [salts, decoys, key, form]: draws of the random
                          source, decoys for each object, a holder key or
                          none, the form everybody writes and reads        *)
          Issuer,      (* the claim "iss"                                  *)
          Requests     (* what a holder may ask for, for each claim set    *)

VARIABLES issued,     (* the inputs of prepare and what it returned        *)
          held,       (* what the holder was built from                    *)
          shown,      (* the holder's request and its outcome              *)
          received,   (* the text that reached the verifier                *)
          verdict     (* what verifying it gave                            *)

vars == <<issued, held, shown, received, verdict>>

Pending == [kind |-> "pending"]

Init ==
  /\ issued = Pending /\ held = Pending /\ shown = Pending
  /\ received = Pending /\ verdict = Pending

Disclosures == issued.credential.disclosures
Payload     == issued.credential.payload
Form        == issued.opt.form

Refused(claims) == UsesReserved(Object(claims, <<>>)) \/ ConfirmsPrivateKey(claims)

(* SDJWTIssuerPlanner::prepare, and complete with the issuer's signature.  *)
Prepare(claims, st, opt) ==
  /\ issued = Pending
  /\ ~Refused(claims)
  /\ issued' = [kind |-> "prepared", claims |-> claims, strategy |-> st, opt |-> opt,
                credential |-> Issued(claims, st, opt)]
  /\ UNCHANGED <<held, shown, received, verdict>>

PrepareRefused(claims) ==
  /\ issued = Pending
  /\ Refused(claims)
  /\ issued' = [kind |-> "refused", claims |-> claims]
  /\ UNCHANGED <<held, shown, received, verdict>>

Sealed == Written(Form, Jwt(Payload), Disclosures, {})

(* A compact text that loses its last separator and what follows it.       *)
CutShort(text) == [text EXCEPT !.parts = Front(@)]

(* SDJWTHolder::new, build: an SD-JWT that seems to carry a key binding    *)
(* JWT is refused, and one that does not name its issuer.                  *)
Build(text) ==
  LET contents == Parsed(Form, text)
      accepted == contents.ok /\ contents.kb = {} /\ Issuer \in DOMAIN Payload.claims
  IN  /\ issued.kind = "prepared" /\ held = Pending
      /\ held' = [kind |-> IF accepted THEN "built" ELSE "refused", text |-> text]
      /\ UNCHANGED <<issued, shown, received, verdict>>

Kept(outcome) == [i \in 1..Len(outcome.picked) |-> Table(Disclosures)[outcome.picked[i]]]

(* SDJWTHolder::create_presentation, or prepare_key_binding_presentation   *)
(* and complete, which need the holder's key in the payload. Neither reads *)
(* anything an earlier presentation left.                                  *)
Present(wants, bound) ==
  LET outcome == SelectObject(Payload, wants, Table(Disclosures))
      kept    == Kept(outcome)
  IN  /\ held.kind = "built" /\ shown = Pending
      /\ shown' = IF outcome.kind = "ok" /\ bound => issued.opt.key
                  THEN [kind |-> "asked", wants |-> wants, bound |-> bound, outcome |-> outcome,
                        text |-> Written(Form, Jwt(Payload), kept,
                                      IF bound THEN {Kb(Jwt(Payload), kept)} ELSE {})]
                  ELSE [kind |-> "asked", wants |-> wants, bound |-> bound, outcome |-> Error]
      /\ UNCHANGED <<issued, held, received, verdict>>

-----------------------------------------------------------------------------
(* The channel.                                                            *)

Sent == Kept(shown.outcome)

Carrying(ds) ==
  IF Form = "compact"
  THEN [shown.text EXCEPT !.parts = <<Head(@)>> \o ds \o <<Last(@)>>]
  ELSE [shown.text EXCEPT !.disclosures = ds]

Arrives(text) ==
  /\ received = Pending
  /\ received' = [kind |-> "arrived", text |-> text]
  /\ UNCHANGED <<issued, held, shown, verdict>>

Delivers ==
  \/ Arrives(shown.text)
  \/ Arrives(Carrying(Reverse(Sent)))
  \/ \E i \in 1..Len(Sent) : Arrives(Carrying(RemoveAt(Sent, i)))
  \/ \E i \in 1..Len(Sent) : Arrives(Carrying(Append(Sent, Sent[i])))
  \/ Form = "compact" /\ Arrives(CutShort(shown.text))
  \/ Form = "general" /\ Arrives([shown.text EXCEPT !.signatures = 2])

(* SDJWTVerifier::new: parse, create_verifier_hash_mappings, verify_sd_jwt,*)
(* extract_sd_claims, and verify_key_binding_jwt when a binding is         *)
(* expected.                                                               *)
BindingHolds(contents) == contents.kb = {Kb(contents.jwt, contents.disclosures)}

Judged(contents, expects) ==
  IF ~contents.ok THEN Rejected
  ELSE IF expects /\ ~BindingHolds(contents) THEN Rejected
  ELSE Unpacked(contents.jwt.payload, contents.disclosures)

Verify(expects) ==
  /\ received # Pending /\ verdict = Pending
  /\ verdict' = Judged(Parsed(Form, received.text), expects)
                  @@ [kind |-> "verdict", expects |-> expects]
  /\ UNCHANGED <<issued, held, shown, received>>

Next ==
  \/ \E claims \in ClaimSets, st \in Strategies, opt \in Options : Prepare(claims, st, opt)
  \/ \E claims \in ClaimSets : PrepareRefused(claims)
  \/ /\ issued.kind = "prepared"
     /\ Build(Sealed) \/ (Form = "compact" /\ Build(CutShort(Sealed)))
  \/ /\ held.kind = "built"
     /\ \E wants \in Requests[issued.claims], bound \in BOOLEAN : Present(wants, bound)
  \/ shown.kind = "asked" /\ shown.outcome.kind = "ok" /\ Delivers
  \/ \E expects \in BOOLEAN : Verify(expects)

Spec == Init /\ [][Next]_vars

-----------------------------------------------------------------------------
(* What a verifier is meant to see, from the claims, the strategy and the  *)
(* request alone: members that may be withheld are there when asked for,   *)
(* items when asked for by a request of their shape.                       *)

WantOf(want, n) ==
  IF want.kind = "map" /\ n \in DOMAIN want.claims THEN want.claims[n] ELSE No

ItemWant(want, i) ==
  IF want.kind = "list" /\ i <= Len(want.items) THEN want.items[i] ELSE No

AsksForItem(want, v) ==
  \/ want.kind = "yes"
  \/ want.kind = "list" /\ v.kind = "array"
  \/ want.kind = "map" /\ v.kind = "object"

RECURSIVE Redacted(_, _, _)
Redacted(v, st, want) ==
  CASE v.kind = "object" ->
         LET kept == {n \in DOMAIN v.claims :
                        SdForKey(st, n) => WantOf(want, n).kind # "no"}
         IN  Object([n \in kept |-> Redacted(v.claims[n], NextLevel(st, n), WantOf(want, n))],
                    <<>>)
    [] v.kind = "array" ->
         LET kept == SelectSeq([i \in 1..Len(v.items) |-> i],
                       LAMBDA i : SdForKey(st, Index[i]) =>
                                    AsksForItem(ItemWant(want, i), v.items[i]))
         IN  Array([k \in 1..Len(kept) |->
               Redacted(v.items[kept[k]], NextLevel(st, Index[kept[k]]), ItemWant(want, kept[k]))])
    [] OTHER -> v

Expected(wants) ==
  LET user == UserClaims(issued.claims, issued.opt.key)
      rest == Redacted(Object(Without(user, Always), <<>>), issued.strategy, Map(wants))
      kept == Restrict(user, DOMAIN user \cap Always)
      key  == IF issued.opt.key THEN Cnf :> HolderKey ELSE NoClaims
  IN  [rest EXCEPT !.claims = key @@ kept @@ @]

RECURSIVE Depth(_), HasEmptyArray(_), Leaves(_)
Depth(v) ==
  LET Deeper(x, d) == IF Depth(x) > d THEN Depth(x) ELSE d
  IN
  CASE v.kind = "object" -> 1 + FoldSet(LAMBDA n, d : Deeper(v.claims[n], d), 0, DOMAIN v.claims)
    [] v.kind = "array"  -> 1 + FoldLeft(LAMBDA d, item : Deeper(item, d), 0, v.items)
    [] OTHER             -> 0

HasEmptyArray(v) ==
  CASE v.kind = "object" -> \E n \in DOMAIN v.claims : HasEmptyArray(v.claims[n])
    [] v.kind = "array"  -> v.items = <<>> \/ \E i \in 1..Len(v.items) : HasEmptyArray(v.items[i])
    [] OTHER             -> FALSE

Leaves(v) ==
  CASE v.kind = "object" -> UNION {Leaves(v.claims[n]) : n \in DOMAIN v.claims}
    [] v.kind = "array"  -> UNION {Leaves(v.items[i]) : i \in 1..Len(v.items)}
    [] v.kind = "leaf"   -> {v.value}
    [] v.kind = "ref"    -> {}

Verified  == verdict # Pending
Accepted  == Verified /\ verdict.ok
Undamaged == received.text \in {shown.text, Carrying(Reverse(Sent))}
Got       == Parsed(Form, received.text).disclosures

(* The digests a value refers to, not following them.                      *)
RECURSIVE Mentions(_)
Mentions(v) ==
  CASE v.kind = "object" -> Range(v.sd) \cup UNION {Mentions(v.claims[n]) : n \in DOMAIN v.claims}
    [] v.kind = "array"  -> UNION {Mentions(v.items[i]) : i \in 1..Len(v.items)}
    [] v.kind = "ref"    -> {v.digest}
    [] OTHER             -> {}

(* Every disclosure of the list is referred to by the payload or by        *)
(* another one of the list.                                                *)
ClosedUnderParents(ds) ==
  {ds[i].digest : i \in 1..Len(ds)}
    \subseteq Mentions(Payload) \cup UNION {Mentions(ds[i].value) : i \in 1..Len(ds)}

DistinctDigests(ds) == \A i, j \in 1..Len(ds) : ds[i].digest = ds[j].digest => i = j

-----------------------------------------------------------------------------

(* A presentation names no disclosure twice and never one whose parent it  *)
(* leaves out: the verifier would refuse it (holder.rs select_disclosures).*)
PresentationClosed ==
  shown.kind = "asked" /\ shown.outcome.kind = "ok" =>
    DistinctDigests(Sent) /\ ClosedUnderParents(Sent)

(* The limits do not depend on the form: a holder refuses a credential     *)
(* exactly when it has too many disclosures, one too large or too long a   *)
(* text, when it names no issuer, or when the end of a compact text was    *)
(* lost (lib.rs parse_sd_jwt, holder.rs build).                            *)
SameLimitsInEveryForm ==
  held # Pending =>
    (held.kind = "built" <=>
       /\ held.text = Sealed
       /\ Issuer \in DOMAIN issued.claims
       /\ TextBytes(Sealed) <= MaxInputBytes
       /\ Len(Disclosures) <= MaxDisclosures
       /\ \A i \in 1..Len(Disclosures) : PartBytes(Disclosures[i]) <= MaxDisclosureBytes)

(* What the holder asked for is what the verifier sees, in all three forms *)
(* and whatever order the disclosures arrive in, for claims without empty  *)
(* arrays that fit the depth limit, when the text fits the input limit     *)
(* with its key binding JWT; a binding is accepted for the order it was    *)
(* made for.                                                               *)
FaithfulDelivery ==
  Verified /\ Undamaged /\ ~HasEmptyArray(Object(issued.claims, <<>>)) =>
    LET expected == Expected(shown.wants)
    IN  IF \/ Depth(expected) > MaxDepth
           \/ shown.bound /\ TextBytes(shown.text) > MaxInputBytes
           \/ verdict.expects /\ (~shown.bound \/ received.text # shown.text)
        THEN ~verdict.ok
        ELSE verdict.ok /\ verdict.out = expected

(* Whatever happened on the way, an accepted presentation shows all that   *)
(* was always visible and nothing the holder kept back.                    *)
NothingUnselected ==
  Accepted => /\ Leaves(Expected(NoClaims)) \subseteq Leaves(verdict.out)
              /\ Leaves(verdict.out) \subseteq Leaves(Expected(shown.wants))

(* A presentation that lost the parent of a disclosure, or repeats one, is *)
(* never accepted (verifier.rs, the check for unreferenced disclosures),   *)
(* and none is accepted as bound unless it arrived exactly as the holder   *)
(* wrote it: nothing was lost, moved or taken for another part             *)
(* (verify_key_binding_jwt).                                               *)
DamageDetected ==
  Accepted => /\ DistinctDigests(Got) /\ ClosedUnderParents(Got)
              /\ verdict.expects => received.text = shown.text

(* holder.rs answers a request for a claim that is not there with an error *)
(* ("Requested claim doesn't exist"); it does not stop the program.        *)
UnknownClaimsAreErrors == shown.kind = "asked" => shown.outcome.kind # "panic"
=============================================================================
