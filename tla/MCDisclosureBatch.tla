-------------------------- MODULE MCDisclosureBatch --------------------------
(***************************************************************************)
(* Two executors and a serial call, one plan more than there are           *)
(* identities; batches meet every limit exactly or exceed it by one.       *)
(***************************************************************************)
EXTENDS DisclosureBatch, TLC

MCEncoded   == {"a", "b", "x", "y", "huge"}
MCMalformed == {"x", "y"}
MCDigest    == [e \in MCEncoded |-> <<"digest of", e>>]
MCSize      == [e \in MCEncoded |-> IF e = "huge" THEN 3 ELSE 1]

MCBatches ==
  { << >>,
    << <<"a">>, <<"a">> >>,                \* shared by two credentials
    << <<"y">>, <<>>, <<"x">> >>,          \* two errors, an empty credential
    << <<"b", "b">> >>,                    \* a repetition
    << <<>>, <<>>, <<>>, <<>> >>,          \* too many credentials
    << <<"a", "b">>, <<"a">> >>,           \* too many disclosures
    << <<"huge">> >> }                     \* too large a disclosure, and an input

(* Used in runs without temporal properties.                               *)
CallerSymmetry == Permutations(Callers)
=============================================================================
