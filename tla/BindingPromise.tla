--------------------------- MODULE BindingPromise ---------------------------
(***************************************************************************)
(* What key binding promises a verifier: a presentation it accepts for an  *)
(* audience and a nonce is one that the credential's key signed for - that *)
(* credential, those disclosures in that order, that audience, that nonce. *)
(***************************************************************************)
CONSTANT Statements  (* [key, presented, aud, nonce]                       *)

VARIABLES consented,   (* the statements keys have signed                  *)
          accepted     (* what the verifier last accepted: {} or {x}       *)

Init == consented = {} /\ accepted = {}

Consent(x) == consented' = consented \cup {x} /\ UNCHANGED accepted

Accept(x) == x \in consented /\ accepted' = {x} /\ UNCHANGED consented

Refuse == accepted' = {} /\ UNCHANGED consented

Next == (\E x \in Statements : Consent(x) \/ Accept(x)) \/ Refuse

Spec == Init /\ [][Next]_<<consented, accepted>>
=============================================================================
