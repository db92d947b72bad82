------------------------ MODULE MCOutcomeRestoration ------------------------
(***************************************************************************)
(* Batches of none to two jobs, one of them with an identity used twice,   *)
(* against every sequence of up to three outcomes over three identities,   *)
(* two places and four results.                                            *)
(***************************************************************************)
EXTENDS OutcomeRestoration, SequencesExt

MCProductOf == [p \in {"here", "there"} |-> IF p = "here" THEN "disclosure" ELSE "digest"]

Id(job, place) == [job |-> job, place |-> place]

MCExpectations ==
  {<<>>, <<Id(1, "here")>>, <<Id(1, "here"), Id(2, "there")>>, <<Id(1, "here"), Id(1, "there")>>}

MCOutcomes == [job : JobIds, place : Places, result : Results]

MCArrivals == BoundedSeq(MCOutcomes, 3)
=============================================================================
