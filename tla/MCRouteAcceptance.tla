-------------------------- MODULE MCRouteAcceptance --------------------------
(***************************************************************************)
(* Batches of up to three jobs that weigh up to three bytes each: two of   *)
(* them may overflow. Up to two batches.                                   *)
(***************************************************************************)
EXTENDS RouteAcceptance

MCWorkloads == UNION {[1..n -> 0..3] : n \in 1..3}
MCStarting  == {<<1>>, <<0, 0>>, <<1, 2>>, <<3, 3>>, <<1, 0, 2>>}
=============================================================================
