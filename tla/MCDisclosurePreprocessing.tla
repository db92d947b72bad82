---------------------- MODULE MCDisclosurePreprocessing ----------------------
(***************************************************************************)
(* Small instances of DisclosurePreprocessing.  With four permits, inputs  *)
(* of up to five disclosures and cutoffs of three disclosures and four     *)
(* bytes, every branch of the policy is taken: too few, too light, a       *)
(* single thread, no permits, unbalanced, and chunk layouts that leave     *)
(* some of the leased workers without a chunk.                             *)
(***************************************************************************)
EXTENDS DisclosurePreprocessing

MCEncoded   == {"a", "b", "c", "d", "e", "heavy", "x", "y"}
MCMalformed == {"x", "y"}
MCDigest    == [e \in MCEncoded |-> <<"digest of", e>>]
MCSize      == [e \in MCEncoded |-> IF e = "heavy" THEN 4 ELSE 1]

ManyInputs ==
  { <<>>,
    <<"a", "b">>,                      \* too few
    <<"a", "x", "y">>,                 \* too light
    <<"heavy", "a", "b">>,             \* one dominant disclosure
    <<"a", "b", "c", "d", "heavy">>,   \* the heavy one in a last, partial chunk
    <<"a", "b", "c", "d">>,
    <<"a", "b", "c", "d", "e">>,       \* three chunks on four workers
    <<"a", "y", "b", "x">>,            \* two malformed, in different chunks
    <<"a", "b", "a", "x", "c">> }      \* a repetition before a malformed one

FewInputs == { <<"a", "b", "c", "d", "e">>, <<"a", "b", "a", "x">> }

-----------------------------------------------------------------------------

CONSTANT Watched   \* a request

(* The watched request has any input, the others some that load the pool. *)
Load(r) == IF r \in HolderRequests THEN { <<"heavy", "a", "b">> } ELSE FewInputs
LoadedInit ==
  /\ Init
  /\ \A r \in Requests \ {Watched} : input[r] \in Load(r)

(* Only the threads of one request are sure to be scheduled: the others    *)
(* may stop anywhere, with permits in their hands.                         *)
WatchedSpec == LoadedInit /\ [][Next]_vars /\ Scheduled(Watched)

(* The budget never makes a request wait: it is answered even when no      *)
(* other request ever takes a step again.                                  *)
AnsweredAlone == <>(pc[Watched] = "done")
=============================================================================
