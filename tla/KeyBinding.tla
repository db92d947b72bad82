----------------------------- MODULE KeyBinding -----------------------------
(***************************************************************************)
(* Signing by opaque key services, and key binding between a holder and a  *)
(* verifier: PreparedSDJWT (src/issuer.rs), PreparedKeyBindingPresentation *)
(* and SDJWTHolder (src/holder.rs), verify_remote_signature                *)
(* (src/signature_validation.rs), SDJWTVerifier (src/verifier.rs).         *)
(*                                                                         *)
(* A signature is its key and what was signed; a hash is what was hashed;  *)
(* an Option is a set of at most one element. Key services answer late,    *)
(* for another request, or with another key. Time (iat, exp, nbf) and      *)
(* serialization are left out.                                             *)
(***************************************************************************)
EXTENDS Sequences, SequencesExt

CONSTANTS Payloads,      (* issuer-signed payloads                         *)
          Keys,          (* holder keys                                    *)
          CnfJwk,        (* the cnf.jwk of each payload: {} or {key}       *)
          Algorithms,    (* JOSE algorithms                                *)
          DeclaredAlg,   (* the "alg" member of each key: {} or {alg}      *)
          Policy,        (* algorithms the verifier allows                 *)
          Selections,    (* sequences of disclosures                       *)
          Acceptable,    (* those extract_sd_claims accepts                *)
          Audiences,
          Nonces,
          Holders,
          Requests       (* calls of prepare_key_binding_presentation      *)

ASSUME KeyBindingAssumption ==
  /\ CnfJwk \in [Payloads -> SUBSET Keys]
  /\ \A c \in Payloads : \A k, l \in CnfJwk[c] : k = l
  /\ DeclaredAlg \in [Keys -> SUBSET Algorithms]

VARIABLES planned,       (* PreparedSDJWTs awaiting their signature        *)
          issuerSigned,  (* payloads the issuer's service has signed       *)
          issued,        (* SD-JWTs returned by PreparedSDJWT::complete    *)
          holding,       (* the SD-JWT of each holder object: {} or {s}    *)
          hsDisclosures, (* hs_disclosures of each                         *)
          kbPayload,     (* key_binding_jwt_payload of each: {} or {input} *)
          called,        (* requests made                                  *)
          pending,       (* PreparedKeyBindingPresentations                *)
          signatures,    (* what holders' key services returned            *)
          presentations, (* presentations handed out                       *)
          bound          (* what verification last accepted as key bound   *)

issuing   == <<planned, issuerSigned, issued>>
holder    == <<holding, hsDisclosures, kbPayload>>
preparing == <<called, pending, signatures>>
vars      == <<issuing, holder, preparing, presentations, bound>>

SdJwts    == [payload : Payloads, signedFor : Payloads]
Hashes    == SdJwts \X Selections
Inputs    == [alg : Algorithms, aud : Audiences, nonce : Nonces, hash : Hashes]
Sigs      == [key : Keys, input : Inputs]

Hash(s, ds) == <<s, ds>>   \* sd_hash, over the SD-JWT and the disclosures in order

Init ==
  /\ planned = {} /\ issuerSigned = {} /\ issued = {}
  /\ holding = [h \in Holders |-> {}]
  /\ hsDisclosures = [h \in Holders |-> <<>>]
  /\ kbPayload = [h \in Holders |-> {}]
  /\ called = {} /\ pending = {} /\ signatures = {}
  /\ presentations = {}
  /\ bound = {}

-----------------------------------------------------------------------------
(* Issuance.                                                               *)

Plan(c) ==
  /\ c \notin planned
  /\ \A s \in issued : s.payload # c
  /\ planned' = planned \cup {c}
  /\ UNCHANGED <<issuerSigned, issued, holder, preparing, presentations, bound>>

IssuerSign(c) ==
  /\ c \in planned
  /\ issuerSigned' = issuerSigned \cup {c}
  /\ UNCHANGED <<planned, issued, holder, preparing, presentations, bound>>

SignatureUnchecked(c, signedFor) == TRUE   \* slip

SignatureFits(c, signedFor) == signedFor = c

(* PreparedSDJWT::complete consumes the plan, whichever payload the        *)
(* signature turns out to be for.                                          *)
CompleteSDJWT(c, signedFor) ==
  /\ c \in planned /\ signedFor \in issuerSigned
  /\ planned' = planned \ {c}
  /\ issued' = IF SignatureFits(c, signedFor)
               THEN issued \cup {[payload |-> c, signedFor |-> signedFor]}
               ELSE issued
  /\ UNCHANGED <<issuerSigned, holder, preparing, presentations, bound>>

-----------------------------------------------------------------------------
(* The holder.                                                             *)

(* build refuses an SD-JWT that already carries a key binding JWT; those   *)
(* that an issuer completes carry none.                                    *)
Build(h, s) ==
  /\ s \in issued
  /\ holding[h] = {}
  /\ holding' = [holding EXCEPT ![h] = {s}]
  /\ UNCHANGED <<issuing, hsDisclosures, kbPayload, preparing, presentations, bound>>

(* validate_key_binding_jwk_policy.                                        *)
Usable(key, alg) == DeclaredAlg[key] \subseteq {alg}

(* A signature the key verifies over exactly this signing input.           *)
Verifies(key, input, signature) == signature = [key |-> key, input |-> input]

(* Selection fails: the fields are reset, the disclosures are not.         *)
SelectionFails(h) ==
  /\ holding[h] # {}
  /\ kbPayload' = [kbPayload EXCEPT ![h] = {}]
  /\ UNCHANGED <<issuing, holding, hsDisclosures, preparing, presentations, bound>>

(* prepare_key_binding_presentation: what was written to the holder stays  *)
(* when the credential has no key for the algorithm.                       *)
PrepareKeyBinding(h, r, ds, aud, nonce, alg) ==
  \E s \in holding[h] :
    LET input == [alg |-> alg, aud |-> aud, nonce |-> nonce, hash |-> Hash(s, ds)]
    IN  /\ r \notin called
        /\ called' = called \cup {r}
        /\ hsDisclosures' = [hsDisclosures EXCEPT ![h] = ds]
        /\ kbPayload' = [kbPayload EXCEPT ![h] = {input}]
        /\ pending' = pending \cup
             {[request |-> r, owner |-> h, sdjwt |-> s, disclosures |-> ds, input |-> input, key |-> k] :
                k \in {l \in CnfJwk[s.payload] : Usable(l, alg)}}
        /\ UNCHANGED <<issuing, holding, signatures, presentations, bound>>

(* create_presentation.                                                    *)
CreatePresentation(h, ds) ==
  \E s \in holding[h] :
    /\ hsDisclosures' = [hsDisclosures EXCEPT ![h] = ds]
    /\ kbPayload' = [kbPayload EXCEPT ![h] = {}]
    /\ presentations' = presentations \cup {[sdjwt |-> s, disclosures |-> ds, kb |-> {}]}
    /\ UNCHANGED <<issuing, holding, preparing, bound>>

(* A key service signs what it was sent, with one of its keys.             *)
Sign(p, key) ==
  /\ signatures' = signatures \cup {[key |-> key, input |-> p.input]}
  /\ UNCHANGED <<issuing, holder, called, pending, presentations, bound>>

AssembledFromHolder(p, signature) ==   \* slip
  [sdjwt |-> p.sdjwt, disclosures |-> hsDisclosures[p.owner], kb |-> {signature}]

(* PreparedKeyBindingPresentation::complete: the snapshot, not the holder. *)
Assembled(p, signature) ==
  [sdjwt |-> p.sdjwt, disclosures |-> p.disclosures, kb |-> {signature}]

Complete(p, signature) ==
  /\ pending' = pending \ {p}
  /\ presentations' = IF Verifies(p.key, p.input, signature)
                      THEN presentations \cup {Assembled(p, signature)}
                      ELSE presentations
  /\ UNCHANGED <<issuing, holder, called, signatures, bound>>

-----------------------------------------------------------------------------
(* The verifier: the SD-JWT of one presentation arrives with the key       *)
(* binding JWT of this or another one, and with the disclosures in any     *)
(* order, some of them lost. An expected audience or nonce is an Option.   *)

BindingIgnoresHash(s, ds, kb, aud, nonce) ==   \* slip
  \E key \in CnfJwk[s.payload], jwt \in kb :
    /\ jwt.input.alg \in Policy
    /\ Usable(key, jwt.input.alg)
    /\ Verifies(key, jwt.input, jwt)
    /\ {jwt.input.aud} = aud
    /\ {jwt.input.nonce} = nonce

BindingVerifies(s, ds, kb, aud, nonce) ==
  \E key \in CnfJwk[s.payload], jwt \in kb :
    /\ jwt.input.alg \in Policy
    /\ Usable(key, jwt.input.alg)
    /\ Verifies(key, jwt.input, jwt)
    /\ {jwt.input.aud} = aud
    /\ {jwt.input.nonce} = nonce
    /\ jwt.input.hash = Hash(s, ds)

Judgement(s, ds, kb, aud, nonce) ==
  IF s.signedFor # s.payload \/ ds \notin Acceptable THEN "claims"
  ELSE IF aud = {} /\ nonce = {} THEN "unbound"
  ELSE IF aud = {} \/ nonce = {} THEN "input"
  ELSE IF BindingVerifies(s, ds, kb, aud, nonce) THEN "bound" ELSE "binding"

Verify(p, q, ds, aud, nonce) ==
  /\ ToSet(ds) \subseteq ToSet(p.disclosures)
  /\ bound' = IF Judgement(p.sdjwt, ds, q.kb, aud, nonce) = "bound"
              THEN {[key |-> k, presented |-> Hash(p.sdjwt, ds), aud |-> a, nonce |-> n] :
                      k \in CnfJwk[p.sdjwt.payload], a \in aud, n \in nonce}
              ELSE {}
  /\ UNCHANGED <<issuing, holder, preparing, presentations>>

Expected(S) == {{}} \cup {{x} : x \in S}

Next ==
  \/ \E c \in Payloads : Plan(c) \/ IssuerSign(c)
  \/ \E c, d \in Payloads : CompleteSDJWT(c, d)
  \/ \E h \in Holders, s \in issued : Build(h, s)
  \/ \E h \in Holders : SelectionFails(h)
  \/ \E h \in Holders, r \in Requests, ds \in Selections, aud \in Audiences, nonce \in Nonces,
        alg \in Algorithms : PrepareKeyBinding(h, r, ds, aud, nonce, alg)
  \/ \E h \in Holders, ds \in Selections : CreatePresentation(h, ds)
  \/ \E p \in pending, key \in Keys : Sign(p, key)
  \/ \E p \in pending, s \in signatures : Complete(p, s)
  \/ \E p, q \in presentations, ds \in Selections, aud \in Expected(Audiences),
        nonce \in Expected(Nonces) : Verify(p, q, ds, aud, nonce)

Spec == Init /\ [][Next]_vars

-----------------------------------------------------------------------------
TypeOK ==
  /\ planned \subseteq Payloads /\ issuerSigned \subseteq Payloads
  /\ issued \subseteq SdJwts
  /\ holding \in [Holders -> SUBSET SdJwts]
  /\ hsDisclosures \in [Holders -> Selections \cup {<<>>}]
  /\ kbPayload \in [Holders -> SUBSET Inputs]
  /\ called \subseteq Requests
  /\ pending \subseteq [request : Requests, owner : Holders, sdjwt : SdJwts,
                        disclosures : Selections, input : Inputs, key : Keys]
  /\ signatures \subseteq Sigs
  /\ presentations \subseteq [sdjwt : SdJwts, disclosures : Selections, kb : SUBSET Sigs]
  /\ bound \subseteq [key : Keys, presented : Hashes, aud : Audiences, nonce : Nonces]

(* What a key has signed, in the terms of BindingPromise.                  *)
Said(sig) == [key |-> sig.key, presented |-> sig.input.hash,
              aud |-> sig.input.aud, nonce |-> sig.input.nonce]

Promise == INSTANCE BindingPromise WITH
  Statements <- [key : Keys, presented : Hashes, aud : Audiences, nonce : Nonces],
  consented  <- {Said(sig) : sig \in signatures},
  accepted   <- bound

(* Whatever is lost, reordered or swapped between presentations, and       *)
(* whichever key services answer, SDJWTVerifier accepts a key binding only *)
(* for a statement that the credential's own key has signed.               *)
KeepsPromise == Promise!Spec

(* Every presentation that carries a key binding JWT is the snapshot that  *)
(* was signed, by the credential's key, however many presentations the     *)
(* holder prepared or created between prepare and complete; and no SD-JWT  *)
(* leaves the issuer with the signature of another.                        *)
SnapshotKept ==
  \A p \in presentations :
    /\ p.sdjwt.signedFor = p.sdjwt.payload
    /\ \A jwt \in p.kb : /\ jwt.input.hash = Hash(p.sdjwt, p.disclosures)
                         /\ jwt.key \in CnfJwk[p.sdjwt.payload]

(* What the holder hands out, untouched, the verifier accepts: unbound     *)
(* when no binding is expected, bound for the audience and nonce that were *)
(* asked for when the policy allows the algorithm. complete refuses what   *)
(* verification would.                                                     *)
HonestAccepted ==
  \A p \in presentations :
    p.disclosures \in Acceptable =>
      /\ Judgement(p.sdjwt, p.disclosures, p.kb, {}, {}) = "unbound"
      /\ \A jwt \in p.kb :
           jwt.input.alg \in Policy =>
             Judgement(p.sdjwt, p.disclosures, p.kb, {jwt.input.aud}, {jwt.input.nonce}) = "bound"

(* The holder's fields agree with one another after any sequence of calls, *)
(* failing ones included: a key binding payload left in the holder hashes  *)
(* the disclosures left beside it.                                         *)
HolderConsistent ==
  \A h \in Holders : \A input \in kbPayload[h] :
    \E s \in holding[h] : input.hash = Hash(s, hsDisclosures[h])
=============================================================================
