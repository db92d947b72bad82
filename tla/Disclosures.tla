---------------------------- MODULE Disclosures ----------------------------
(***************************************************************************)
(* Processing one disclosure, and turning the outcomes of several into     *)
(* mappings: the functions of src/disclosure_preprocessing.rs without      *)
(* state of their own, as the single-credential path and the batch         *)
(* (src/batch.rs) share them.                                              *)
(*                                                                         *)
(* A disclosure is a member of Encoded.  What processing it yields is a    *)
(* function of its encoded form: it is malformed, or it has a digest.      *)
(* Ordinals count from 1.                                                  *)
(***************************************************************************)
EXTENDS Integers, Sequences, FiniteSetsExt, Lists

CONSTANTS Encoded,     (* encoded disclosures                              *)
          Malformed,   (* those that do not decode or parse                *)
          Digest,      (* the digest of each                               *)
          Size         (* the encoded length of each                       *)

ASSUME DisclosuresAssumption ==
  /\ Malformed \subseteq Encoded
  /\ DOMAIN Digest = Encoded
  /\ Size \in [Encoded -> Nat]

Bad == <<>>   \* in place of a digest: a base64 or JSON error

(* process_disclosure: the digest of one disclosure, and of job i of an    *)
(* input with the identity its outcome carries.                            *)
DigestOf(e) == IF e \in Malformed THEN Bad ELSE Digest[e]

Outcome(in, i) == [ordinal |-> i, encoded |-> in[i], digest |-> DigestOf(in[i])]

Processed(in) == [i \in 1..Len(in) |-> Outcome(in, i)]

Bytes(in, ordinals) == MapThenSumSet(LAMBDA i : Size[in[i]], ordinals)
Total(in) == Bytes(in, 1..Len(in))

-----------------------------------------------------------------------------
(* Mappings and errors.                                                    *)

Published(os) ==
  [kind  |-> "ok",
   order |-> [i \in 1..Len(os) |-> os[i].digest],
   encodedOf |-> {<<os[i].digest, os[i].encoded>> : i \in 1..Len(os)}]

Invalid(e) == [kind |-> "invalid", encoded |-> e]
Failure(k) == [kind |-> k]
NoAnswer   == Failure("none")

(* The disclosures that end the loop: malformed, or seen before.           *)
Repeats(os, i)  == \E j \in 1..(i - 1) : os[j].digest = os[i].digest
Rejected(os)    == {i \in 1..Len(os) : os[i].digest = Bad \/ Repeats(os, i)}

Verdict(os) ==
  IF Rejected(os) = {} THEN Published(os)
  ELSE LET first == os[Min(Rejected(os))]
       IN  IF first.digest = Bad THEN Invalid(first.encoded) ELSE Failure("duplicate")

(* The loop over the disclosures one after the other, as a definition.     *)
Oracle(in) == Verdict(Processed(in))

(* sort_by_key on the ordinal, then validate_outcome_contract: exactly one *)
(* outcome for each job, carrying the job's own encoded disclosure.        *)
OrdinalFirst(os) ==
  {p \in (1..Len(os)) \X (1..Len(os)) :
     \/ os[p[1]].ordinal < os[p[2]].ordinal
     \/ os[p[1]].ordinal = os[p[2]].ordinal /\ p[1] < p[2]}

Sorted(os) == Arranged(os, OrdinalFirst(os))

KeepsContract(in, os) ==
  /\ Len(os) = Len(in)
  /\ \A i \in 1..Len(os) : os[i].ordinal = i /\ os[i].encoded = in[i]

Assembled(in, os) ==
  LET sorted == Sorted(os)
  IN  IF KeepsContract(in, sorted) THEN Verdict(sorted) ELSE Failure("contract")
=============================================================================
