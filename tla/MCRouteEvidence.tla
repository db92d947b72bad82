--------------------------- MODULE MCRouteEvidence ---------------------------
(***************************************************************************)
(* The whole matrix with disclosure counts of one and three: fifteen       *)
(* fixtures and sixty routes. Selected are a serial oracle and candidates  *)
(* at both stages, one with decoys in nested objects and one with nested   *)
(* batches.                                                                *)
(***************************************************************************)
EXTENDS RouteEvidence

MCDisclosureCounts == <<1, 3>>
=============================================================================
