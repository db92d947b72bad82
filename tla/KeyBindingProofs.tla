-------------------------- MODULE KeyBindingProofs --------------------------
(***************************************************************************)
(* Key binding keeps its promise for any number of holders, credentials,   *)
(* keys and requests. The inductive invariant follows a statement on its   *)
(* way: what a request froze (PendingSound), what was handed out           *)
(* (PresentedSound), and that both stem from what the issuer completed.    *)
(***************************************************************************)
EXTENDS KeyBinding, TLAPS

IssuedSound == \A s \in issued : s.signedFor = s.payload

HeldSound == \A h \in Holders : holding[h] \subseteq issued

PendingSound ==
  \A p \in pending : /\ p.sdjwt \in issued
                     /\ p.input.hash = Hash(p.sdjwt, p.disclosures)
                     /\ p.key \in CnfJwk[p.sdjwt.payload]
                     /\ Usable(p.key, p.input.alg)

PresentedSound ==
  \A p \in presentations :
    /\ p.sdjwt \in issued
    /\ \A jwt \in p.kb : /\ jwt \in signatures
                         /\ jwt.input.hash = Hash(p.sdjwt, p.disclosures)
                         /\ jwt.key \in CnfJwk[p.sdjwt.payload]
                         /\ Usable(jwt.key, jwt.input.alg)

Inv == TypeOK /\ IssuedSound /\ HeldSound /\ PendingSound /\ PresentedSound /\ HolderConsistent

(* Nothing is issued, held, prepared or presented at first.                *)
LEMMA InitInv == Init => Inv
  BY DEF Init, Inv, TypeOK, IssuedSound, HeldSound, PendingSound, PresentedSound,
         HolderConsistent

(* Issuing only adds SD-JWTs that carry their own signature.               *)
LEMMA IssuingStep ==
  ASSUME Inv, NEW c \in Payloads, NEW d \in Payloads,
         Plan(c) \/ IssuerSign(c) \/ CompleteSDJWT(c, d)
  PROVE  Inv'
<1>1. CASE Plan(c)
  BY <1>1, Zenon DEF Plan, Inv, TypeOK, IssuedSound, HeldSound, PendingSound, PresentedSound,
         HolderConsistent, holder, preparing
<1>2. CASE IssuerSign(c)
  BY <1>2, Zenon DEF IssuerSign, Inv, TypeOK, IssuedSound, HeldSound, PendingSound, PresentedSound,
         HolderConsistent, holder, preparing
<1>3. CASE CompleteSDJWT(c, d)
  <2>1. /\ planned' \subseteq planned /\ issued \subseteq issued'
        /\ issued' \subseteq SdJwts
        /\ \A s \in issued' : s.signedFor = s.payload
    BY <1>3 DEF CompleteSDJWT, SignatureFits, Inv, TypeOK, IssuedSound, SdJwts
  <2>2. UNCHANGED <<issuerSigned, holder, preparing, presentations, bound>>
    BY <1>3 DEF CompleteSDJWT
  <2> QED BY <2>1, <2>2 DEF Inv, TypeOK, IssuedSound, HeldSound, PendingSound, PresentedSound,
         HolderConsistent, holder, preparing
<1> QED BY <1>1, <1>2, <1>3

(* A holder only takes what was issued.                                    *)
LEMMA BuildStep ==
  ASSUME Inv, NEW h \in Holders, NEW s \in issued, Build(h, s)
  PROVE  Inv'
<1>1. holding' \in [Holders -> SUBSET SdJwts] /\ \A g \in Holders : holding'[g] \subseteq issued
  BY DEF Build, Inv, TypeOK, HeldSound
<1>2. HolderConsistent'
  BY <1>1 DEF Build, Inv, TypeOK, HolderConsistent
<1> QED BY <1>1, <1>2 DEF Build, Inv, TypeOK, IssuedSound, HeldSound, PendingSound, PresentedSound,
         issuing, preparing

(* A failed selection clears the payload it no longer agrees with.         *)
LEMMA SelectionFailsStep ==
  ASSUME Inv, NEW h \in Holders, SelectionFails(h)
  PROVE  Inv'
<1>1. kbPayload' \in [Holders -> SUBSET Inputs]
  BY DEF SelectionFails, Inv, TypeOK
<1>2. HolderConsistent'
  BY DEF SelectionFails, Inv, TypeOK, HolderConsistent
<1> QED BY <1>1, <1>2 DEF SelectionFails, Inv, TypeOK, IssuedSound, HeldSound, PendingSound,
         PresentedSound, issuing, preparing

(* A request freezes the SD-JWT, the disclosures, their hash and the key.  *)
LEMMA PrepareStep ==
  ASSUME Inv, NEW h \in Holders, NEW r \in Requests, NEW ds \in Selections,
         NEW aud \in Audiences, NEW nonce \in Nonces, NEW alg \in Algorithms,
         PrepareKeyBinding(h, r, ds, aud, nonce, alg)
  PROVE  Inv'
<1>1. PICK s \in holding[h] : PrepareKeyBinding(h, r, ds, aud, nonce, alg)!(s)
  BY Zenon DEF PrepareKeyBinding
<1> DEFINE input == [alg |-> alg, aud |-> aud, nonce |-> nonce, hash |-> Hash(s, ds)]
           fresh == {[request |-> r, owner |-> h, sdjwt |-> s, disclosures |-> ds,
                      input |-> input, key |-> k] :
                       k \in {l \in CnfJwk[s.payload] : Usable(l, alg)}}
<1>2. s \in SdJwts /\ s \in issued
  BY DEF Inv, TypeOK, HeldSound
<1>3. input \in Inputs /\ input.hash = Hash(s, ds) /\ input.alg = alg
  BY <1>2 DEF Inputs, Hashes, Hash
<1>4. /\ called' = called \cup {r}
      /\ hsDisclosures' = [hsDisclosures EXCEPT ![h] = ds]
      /\ kbPayload' = [kbPayload EXCEPT ![h] = {input}]
      /\ pending' = pending \cup fresh
      /\ UNCHANGED <<issuing, holding, signatures, presentations, bound>>
  BY <1>1, Zenon
<1> HIDE DEF input
<1>5. CnfJwk[s.payload] \subseteq Keys
  BY <1>2, KeyBindingAssumption DEF SdJwts
<1>6. \A p \in fresh :
        /\ p \in [request : Requests, owner : Holders, sdjwt : SdJwts,
                  disclosures : Selections, input : Inputs, key : Keys]
        /\ p.sdjwt \in issued
        /\ p.input.hash = Hash(p.sdjwt, p.disclosures)
        /\ p.key \in CnfJwk[p.sdjwt.payload]
        /\ Usable(p.key, p.input.alg)
  BY <1>2, <1>3, <1>5
<1> HIDE DEF fresh
<1>7. PendingSound'
  BY <1>4, <1>6 DEF PendingSound, Inv, issuing
<1>8. HolderConsistent'
  BY <1>3, <1>4 DEF HolderConsistent, Inv, TypeOK
<1>9. TypeOK'
  BY <1>3, <1>4, <1>6 DEF TypeOK, Inv, issuing
<1> QED BY <1>4, <1>7, <1>8, <1>9 DEF Inv, IssuedSound, HeldSound, PresentedSound, issuing

(* A presentation without key binding carries nothing to agree with.       *)
LEMMA CreateStep ==
  ASSUME Inv, NEW h \in Holders, NEW ds \in Selections, CreatePresentation(h, ds)
  PROVE  Inv'
<1>1. PICK s \in holding[h] : CreatePresentation(h, ds)!(s)
  BY Zenon DEF CreatePresentation
<1>2. s \in SdJwts /\ s \in issued
  BY DEF Inv, TypeOK, HeldSound
<1>3. TypeOK'
  BY <1>1, <1>2 DEF Inv, TypeOK, issuing, preparing
<1>4. PresentedSound'
  BY <1>1, <1>2 DEF Inv, PresentedSound, issuing, preparing
<1>5. HolderConsistent'
  BY <1>1 DEF Inv, TypeOK, HolderConsistent
<1> QED BY <1>1, <1>3, <1>4, <1>5 DEF Inv, IssuedSound, HeldSound, PendingSound, issuing, preparing

(* Key services only add signatures.                                       *)
LEMMA SignStep ==
  ASSUME Inv, NEW p \in pending, NEW key \in Keys, Sign(p, key)
  PROVE  Inv'
<1>1. [key |-> key, input |-> p.input] \in Sigs
  BY DEF Inv, TypeOK, Sigs
<1> QED BY <1>1 DEF Sign, Inv, TypeOK, IssuedSound, HeldSound, PendingSound, PresentedSound,
         HolderConsistent, issuing, holder

(* Completion hands out the snapshot, and only with its key's signature.   *)
LEMMA CompleteStep ==
  ASSUME Inv, NEW p \in pending, NEW s \in signatures, Complete(p, s)
  PROVE  Inv'
<1>1. /\ pending' = pending \ {p}
      /\ UNCHANGED <<issuing, holder, called, signatures, bound>>
  BY DEF Complete
<1>2. \A q \in presentations' \ presentations :
        /\ q = Assembled(p, s)
        /\ s = [key |-> p.key, input |-> p.input]
  BY DEF Complete, Verifies
<1>3. /\ p.sdjwt \in SdJwts /\ p.disclosures \in Selections
      /\ s \in Sigs
  BY DEF Inv, TypeOK
<1>4. PresentedSound'
  BY <1>1, <1>2 DEF PresentedSound, PendingSound, Inv, Assembled, issuing
<1>5. TypeOK'
  BY <1>1, <1>2, <1>3 DEF TypeOK, Inv, Assembled, issuing, holder
<1> QED BY <1>1, <1>4, <1>5 DEF Inv, IssuedSound, HeldSound, PendingSound, HolderConsistent,
         issuing, holder

(* What the verifier accepts is nothing, or the one statement that the key *)
(* of the credential has signed.                                           *)
LEMMA Bound ==
  ASSUME Inv, NEW p \in presentations, NEW q \in presentations, NEW ds \in Selections,
         NEW aud \in Expected(Audiences), NEW nonce \in Expected(Nonces),
         Verify(p, q, ds, aud, nonce)
  PROVE  bound' = {} \/ \E sig \in signatures : bound' = {Said(sig)}
<1>1. CASE Judgement(p.sdjwt, ds, q.kb, aud, nonce) # "bound"
  BY <1>1 DEF Verify
<1>2. CASE Judgement(p.sdjwt, ds, q.kb, aud, nonce) = "bound"
  <2>1. BindingVerifies(p.sdjwt, ds, q.kb, aud, nonce)
    BY <1>2 DEF Judgement
  <2>2. PICK key \in CnfJwk[p.sdjwt.payload], jwt \in q.kb :
          BindingVerifies(p.sdjwt, ds, q.kb, aud, nonce)!(key, jwt)
    BY <2>1, Zenon DEF BindingVerifies
  <2>3. p.sdjwt.payload \in Payloads
    BY DEF Inv, TypeOK, SdJwts
  <2>4. CnfJwk[p.sdjwt.payload] = {key}
    BY <2>2, <2>3, KeyBindingAssumption
  <2>5. jwt.key = key
    BY <2>2 DEF Verifies
  <2>6. bound' = {[key |-> k, presented |-> Hash(p.sdjwt, ds), aud |-> a, nonce |-> n] :
                    k \in {key}, a \in {jwt.input.aud}, n \in {jwt.input.nonce}}
    BY <1>2, <2>2, <2>4 DEF Verify
  <2>7. bound' = {Said(jwt)}
    BY <2>2, <2>5, <2>6 DEF Said
  <2> QED BY <2>2, <2>7 DEF Inv, PresentedSound
<1> QED BY <1>1, <1>2

(* A signature says something that could be promised.                      *)
LEMMA SaidType ==
  ASSUME NEW sig \in Sigs
  PROVE  Said(sig) \in [key : Keys, presented : Hashes, aud : Audiences, nonce : Nonces]
BY DEF Said, Sigs, Inputs

(* Verification changes nothing else.                                      *)
LEMMA VerifyStep ==
  ASSUME Inv, NEW p \in presentations, NEW q \in presentations, NEW ds \in Selections,
         NEW aud \in Expected(Audiences), NEW nonce \in Expected(Nonces),
         Verify(p, q, ds, aud, nonce)
  PROVE  Inv'
<1>1. bound' \subseteq [key : Keys, presented : Hashes, aud : Audiences, nonce : Nonces]
  <2>1. signatures \subseteq Sigs
    BY DEF Inv, TypeOK
  <2> QED BY <2>1, Bound, SaidType
<1>2. UNCHANGED <<issuing, holder, preparing, presentations>>
  BY DEF Verify
<1> QED BY <1>1, <1>2 DEF Inv, TypeOK, IssuedSound, HeldSound, PendingSound, PresentedSound,
         HolderConsistent, issuing, holder, preparing

(* Every step preserves the invariant.                                     *)
LEMMA NextInv == Inv /\ [Next]_vars => Inv'
<1> SUFFICES ASSUME Inv, [Next]_vars
             PROVE  Inv'
  OBVIOUS
<1>1. ASSUME NEW c \in Payloads, Plan(c) \/ IssuerSign(c)
      PROVE  Inv'
  BY <1>1, IssuingStep
<1>2. ASSUME NEW c \in Payloads, NEW d \in Payloads, CompleteSDJWT(c, d)
      PROVE  Inv'
  BY <1>2, IssuingStep
<1>3. ASSUME NEW h \in Holders, NEW s \in issued, Build(h, s)
      PROVE  Inv'
  BY <1>3, BuildStep
<1>4. ASSUME NEW h \in Holders, SelectionFails(h)
      PROVE  Inv'
  BY <1>4, SelectionFailsStep
<1>5. ASSUME NEW h \in Holders, NEW r \in Requests, NEW ds \in Selections, NEW aud \in Audiences,
             NEW nonce \in Nonces, NEW alg \in Algorithms,
             PrepareKeyBinding(h, r, ds, aud, nonce, alg)
      PROVE  Inv'
  BY <1>5, PrepareStep
<1>6. ASSUME NEW h \in Holders, NEW ds \in Selections, CreatePresentation(h, ds)
      PROVE  Inv'
  BY <1>6, CreateStep
<1>7. ASSUME NEW p \in pending, NEW key \in Keys, Sign(p, key)
      PROVE  Inv'
  BY <1>7, SignStep
<1>8. ASSUME NEW p \in pending, NEW s \in signatures, Complete(p, s)
      PROVE  Inv'
  BY <1>8, CompleteStep
<1>9. ASSUME NEW p \in presentations, NEW q \in presentations, NEW ds \in Selections,
             NEW aud \in Expected(Audiences), NEW nonce \in Expected(Nonces),
             Verify(p, q, ds, aud, nonce)
      PROVE  Inv'
  BY <1>9, VerifyStep
<1>10. CASE UNCHANGED vars
  BY <1>10 DEF vars, issuing, holder, preparing, Inv, TypeOK, IssuedSound, HeldSound, PendingSound,
         PresentedSound, HolderConsistent
<1> QED BY <1>1, <1>2, <1>3, <1>4, <1>5, <1>6, <1>7, <1>8, <1>9, <1>10, Zenon DEF Next

(* The state of the key binding protocol is what its comments say.         *)
THEOREM Invariance == Spec => []Inv
BY InitInv, NextInv, PTL DEF Spec

(* Key binding JWTs are handed out with exactly what was signed.           *)
THEOREM SnapshotsAreKept == Spec => []SnapshotKept
<1>1. Inv => SnapshotKept
  BY DEF Inv, SnapshotKept, PresentedSound, IssuedSound
<1> QED BY <1>1, Invariance, PTL

(* What a holder hands out is accepted.                                    *)
THEOREM HonestPresentations == Spec => []HonestAccepted
<1>1. Inv => HonestAccepted
  <2> SUFFICES ASSUME Inv, NEW p \in presentations, p.disclosures \in Acceptable
               PROVE  /\ Judgement(p.sdjwt, p.disclosures, p.kb, {}, {}) = "unbound"
                      /\ \A jwt \in p.kb : jwt.input.alg \in Policy =>
                           Judgement(p.sdjwt, p.disclosures, p.kb,
                                     {jwt.input.aud}, {jwt.input.nonce}) = "bound"
    BY DEF HonestAccepted
  <2>1. p.sdjwt.signedFor = p.sdjwt.payload
    BY DEF Inv, PresentedSound, IssuedSound
  <2>2. ASSUME NEW jwt \in p.kb, jwt.input.alg \in Policy
        PROVE  BindingVerifies(p.sdjwt, p.disclosures, p.kb, {jwt.input.aud}, {jwt.input.nonce})
    <3>1. jwt \in Sigs
      BY DEF Inv, TypeOK
    <3>2. jwt = [key |-> jwt.key, input |-> jwt.input]
      BY <3>1 DEF Sigs
    <3> QED BY <2>2, <3>2 DEF BindingVerifies, Verifies, Inv, PresentedSound
  <2> QED BY <2>1, <2>2 DEF Judgement
<1> QED BY <1>1, Invariance, PTL

(* The holder's fields never disagree.                                     *)
THEOREM HoldersAreConsistent == Spec => []HolderConsistent
<1>1. Inv => HolderConsistent
  BY DEF Inv
<1> QED BY <1>1, Invariance, PTL

-----------------------------------------------------------------------------
(* The refinement: Sign consents, Verify accepts or refuses, and whatever  *)
(* else happens is invisible.                                              *)

Consented == {Said(sig) : sig \in signatures}

(* Initially nothing is said and nothing accepted.                         *)
LEMMA PromiseInit == Init => Promise!Init
BY DEF Init, Promise!Init

(* Every step is a step of BindingPromise, or invisible to it.             *)
LEMMA PromiseStep == Inv /\ [Next]_vars => [Promise!Next]_<<Consented, bound>>
<1> SUFFICES ASSUME Inv, [Next]_vars
             PROVE  [Promise!Next]_<<Consented, bound>>
  OBVIOUS
<1>1. ASSUME UNCHANGED <<signatures, bound>>
      PROVE  UNCHANGED <<Consented, bound>>
  BY <1>1 DEF Consented
<1>2. ASSUME NEW p \in pending, NEW key \in Keys, Sign(p, key)
      PROVE  Promise!Next
  <2> DEFINE sig == [key |-> key, input |-> p.input]
  <2>1. sig \in Sigs
    BY DEF Inv, TypeOK, Sigs
  <2>2. signatures' = signatures \cup {sig} /\ UNCHANGED bound
    BY <1>2 DEF Sign
  <2> HIDE DEF sig
  <2>3. Consented' = Consented \cup {Said(sig)}
    BY <2>2 DEF Consented, Said
  <2>4. Said(sig) \in [key : Keys, presented : Hashes, aud : Audiences, nonce : Nonces]
    BY <2>1, SaidType
  <2> QED BY <2>2, <2>3, <2>4 DEF Promise!Next, Promise!Consent, Consented
<1>3. ASSUME NEW p \in presentations, NEW q \in presentations, NEW ds \in Selections,
             NEW aud \in Expected(Audiences), NEW nonce \in Expected(Nonces),
             Verify(p, q, ds, aud, nonce)
      PROVE  Promise!Next
  <2>1. UNCHANGED Consented
    BY <1>3 DEF Verify, preparing, Consented
  <2>2. CASE bound' = {}
    BY <2>1, <2>2 DEF Promise!Next, Promise!Refuse, Consented
  <2>3. ASSUME NEW sig \in signatures, bound' = {Said(sig)}
        PROVE  Promise!Next
    <3>1. Said(sig) \in [key : Keys, presented : Hashes, aud : Audiences, nonce : Nonces]
      BY SaidType DEF Inv, TypeOK
    <3> QED BY <2>1, <2>3, <3>1 DEF Promise!Next, Promise!Accept, Consented
  <2> QED BY <1>3, <2>2, <2>3, Bound
<1>4. ASSUME Next,
             ~\E p \in pending, key \in Keys : Sign(p, key),
             ~\E p, q \in presentations, ds \in Selections, aud \in Expected(Audiences),
                nonce \in Expected(Nonces) : Verify(p, q, ds, aud, nonce)
      PROVE  UNCHANGED <<signatures, bound>>
  BY <1>4 DEF Next, Plan, IssuerSign, CompleteSDJWT, Build, SelectionFails, PrepareKeyBinding,
              CreatePresentation, Complete, preparing
<1>5. CASE UNCHANGED vars
  BY <1>1, <1>5 DEF vars, preparing
<1> QED BY <1>1, <1>2, <1>3, <1>4, <1>5

(* A verifier accepts a key binding only for a statement that the          *)
(* credential's own key has signed.                                        *)
THEOREM PromiseKept == Spec => KeepsPromise
<1>1. Init => Promise!Init
  BY PromiseInit
<1>2. Inv /\ [Next]_vars => [Promise!Next]_<<Consented, bound>>
  BY PromiseStep
<1> QED BY <1>1, <1>2, Invariance, PTL DEF Spec, KeepsPromise, Promise!Spec, Consented
=============================================================================
