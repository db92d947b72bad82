---------------------------- MODULE MCKeyBinding ----------------------------
(***************************************************************************)
(* Two credentials, one per key; the first key is declared for one of the  *)
(* two algorithms only, and the verifier allows that one.                  *)
(***************************************************************************)
EXTENDS KeyBinding, FiniteSets, TLC

CONSTANTS c1, c2, k1, k2, es, ed, d1, d2, h1, h2, r1, r2, n1, n2, MaxPresentations

MCPayloads    == {c1, c2}
MCCnfJwk      == (c1 :> {k1}) @@ (c2 :> {k2})
MCDeclaredAlg == (k1 :> {es}) @@ (k2 :> {})
MCPolicy      == {es}
MCTwo         == {<<d1, d2>>, <<d2, d1>>}

(* Bounds: presentations in circulation; bindings are asked for one nonce, *)
(* verified with another one too.                                          *)
FewPresentations == Cardinality(presentations) <= MaxPresentations
OneNonceAsked    == \A h \in Holders : \A input \in kbPayload[h] : input.nonce = n1

Symmetric == Permutations({r1, r2}) \cup Permutations({h1, h2})
=============================================================================
