------------------------- MODULE MCIssuanceExecution -------------------------
(***************************************************************************)
(* Plans with nested batches, decoys, arrays in objects and a batch large  *)
(* enough for three workers.                                               *)
(***************************************************************************)
EXTENDS IssuanceExecution

CONSTANT Watched   \* a request

P(last, kind, sd, decoys, heavy) ==
  [last |-> last, kind |-> kind, sd |-> sd, decoys |-> decoys, heavy |-> heavy]

O == "object"
A == "array"
S == "scalar"

Flat   == P(<<4, 2, 3, 4>>, <<O, S, S, S>>, <<FALSE, TRUE, TRUE, TRUE>>, <<0, 0, 0, 0>>,
            <<TRUE, FALSE, FALSE, FALSE>>)
Nested == P(<<5, 4, 3, 4, 5>>, <<O, O, S, S, S>>, <<FALSE, TRUE, TRUE, TRUE, TRUE>>, <<1, 1, 0, 0, 0>>,
            <<TRUE, TRUE, FALSE, FALSE, FALSE>>)
List   == P(<<6, 5, 4, 4, 5, 6>>, <<O, A, O, S, S, S>>, <<FALSE, TRUE, FALSE, TRUE, TRUE, FALSE>>,
            <<1, 0, 1, 0, 0, 0>>, <<FALSE, TRUE, TRUE, FALSE, FALSE, FALSE>>)
Bare   == P(<<2, 2>>, <<O, S>>, <<FALSE, FALSE>>, <<0, 0>>, <<TRUE, FALSE>>)

AllPlans == {Flat, Nested, List, Bare}

WatchedSpec == Spec /\ Scheduled(Watched)

(* No issuance waits for permits: one whose threads are scheduled is       *)
(* answered, even if the other stops with its permits in its hands.        *)
IssuedAlone == <>(pc[Watched] = "done")
=============================================================================
