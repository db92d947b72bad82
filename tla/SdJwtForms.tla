----------------------------- MODULE SdJwtForms -----------------------------
(***************************************************************************)
(* The three forms an SD-JWT is written in and read back from: compact,    *)
(* flattened JSON and general JSON (src/lib.rs parse_sd_jwt, src/issuer.rs *)
(* complete_encoded_signature, src/holder.rs render_presentation).         *)
(*                                                                         *)
(* A compact text is the sequence of its parts, a JSON text the record of  *)
(* its members; the size of a part counts the values it encodes.           *)
(***************************************************************************)
EXTENDS ClaimTrees

CONSTANTS MaxInputBytes,       (* MAX_SD_JWT_INPUT_BYTES                   *)
          MaxDisclosures,      (* MAX_SD_JWT_DISCLOSURES                   *)
          MaxDisclosureBytes,  (* MAX_SD_JWT_DISCLOSURE_BYTES              *)
          Envelope,            (* bytes each form adds around the parts    *)
          KbBytes              (* size of a key binding JWT                *)

Forms == {"compact", "flattened", "general"}

ASSUME SdJwtFormsAssumption ==
  /\ {MaxInputBytes, MaxDisclosures, MaxDisclosureBytes, KbBytes} \subseteq Nat
  /\ Envelope \in [Forms -> Nat]

Jwt(payload)  == [kind |-> "jwt", payload |-> payload]
Kb(jwt, ds)   == [kind |-> "kb", hash |-> <<jwt, ds>>]   \* its sd_hash
NoPart        == [kind |-> "none"]                       \* after a last "~"

RECURSIVE Weight(_)
Weight(v) ==
  CASE v.kind = "object" ->
         FoldSet(LAMBDA n, sum : sum + Weight(v.claims[n]), 1 + Len(v.sd), DOMAIN v.claims)
    [] v.kind = "array"  -> FoldLeft(LAMBDA sum, item : sum + Weight(item), 1, v.items)
    [] OTHER             -> 1

PartBytes(part) ==
  CASE part.kind = "jwt"  -> 1 + Weight(part.payload)
    [] part.kind = "kb"   -> KbBytes
    [] part.kind = "none" -> 0
    [] OTHER              -> 1 + Weight(part.value)

(* Every part is followed by a separator, in all three forms.              *)
BytesOf(parts) == FoldLeft(LAMBDA sum, part : sum + PartBytes(part) + 1, 0, parts)

-----------------------------------------------------------------------------
(* Writing. A key binding JWT is an Option: {} or {kb}.                    *)

Written(form, jwt, ds, kb) ==
  IF form = "compact"
  THEN [form |-> form, parts |-> <<jwt>> \o ds \o (IF kb = {} THEN <<NoPart>> ELSE SetToSeq(kb))]
  ELSE [form |-> form, jwt |-> jwt, disclosures |-> ds, kb |-> kb, signatures |-> 1]

TextBytes(text) ==
  Envelope[text.form] +
    IF text.form = "compact" THEN BytesOf(text.parts) - 1
    ELSE BytesOf(<<text.jwt>> \o text.disclosures \o SetToSeq(text.kb))

-----------------------------------------------------------------------------
(* Reading: parse_sd_jwt and the parser of each form.                      *)

Unreadable             == [ok |-> FALSE]
Contents(jwt, ds, kb)  == [ok |-> TRUE, jwt |-> jwt, disclosures |-> ds, kb |-> kb]

SeparatorsOf(text) == Len(text.parts) - 1

TooManySeparatorsWithoutKb(text) == SeparatorsOf(text) > MaxDisclosures   \* slip

TooManySeparators(text) == SeparatorsOf(text) > MaxDisclosures + 1

(* parse_compact_sd_jwt: whatever follows the last separator is taken for  *)
(* a key binding JWT.                                                      *)
ParsedCompact(text) ==
  IF TooManySeparators(text) \/ SeparatorsOf(text) < 1 THEN Unreadable
  ELSE Contents(Head(text.parts), SubSeq(text.parts, 2, SeparatorsOf(text)),
                {text.parts[SeparatorsOf(text) + 1]} \ {NoPart})

(* parse_flattened_json_sd_jwt, parse_general_json_sd_jwt.                 *)
ParsedJson(text) ==
  IF text.signatures # 1 THEN Unreadable
  ELSE Contents(text.jwt, text.disclosures, text.kb)

(* A text in another form than the reader was told is none of its syntax.  *)
Parsed(form, text) ==
  LET contents == IF form = "compact" THEN ParsedCompact(text) ELSE ParsedJson(text)
  IN  IF TextBytes(text) > MaxInputBytes \/ text.form # form THEN Unreadable
      ELSE IF ~contents.ok THEN Unreadable
      ELSE IF \/ Len(contents.disclosures) > MaxDisclosures
              \/ \E i \in 1..Len(contents.disclosures) :
                   PartBytes(contents.disclosures[i]) > MaxDisclosureBytes
      THEN Unreadable ELSE contents
=============================================================================
