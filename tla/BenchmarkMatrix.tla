--------------------------- MODULE BenchmarkMatrix ---------------------------
(***************************************************************************)
(* The frozen matrix of the issuance benchmarks                            *)
(* (src/issuer/issuance_benchmark.rs): the fixtures, the identities of     *)
(* their Criterion benchmarks, the canonical order of the routes, the      *)
(* qualification manifest, and the invocation that selects one route.      *)
(*                                                                         *)
(* An identity is the tuple of what its string is formatted from.          *)
(***************************************************************************)
EXTENDS Integers, Sequences, FiniteSets, SequencesExt

CONSTANT DisclosureCounts   \* ISSUANCE_DISCLOSURE_COUNTS

ASSUME DisclosureCountsAssumption == DisclosureCounts \in Seq(Nat \ {0})

(* IssuanceBenchmarkFixtureKind: what is not standard has no payload class. *)
Standard(payload, decoys, n) ==
  [kind |-> "standard", payload_class |-> payload, add_decoy_claims |-> decoys,
   disclosure_count |-> n]
Structural(kind, n) ==
  [kind |-> kind, payload_class |-> "none", add_decoy_claims |-> FALSE, disclosure_count |-> n]

PayloadCode(class) ==
  CASE class = "small" -> "s" [] class = "medium" -> "mn"
    [] class = "large" -> "l64" [] class = "mixed" -> "mx"
StageCode(stage)   == CASE stage = "executor_assembly" -> "ea" [] stage = "full_issuance" -> "fi"
RouteCode(route)   == CASE route = "serial_oracle" -> "so" [] route = "adaptive_candidate" -> "ac"

Stages == <<"executor_assembly", "full_issuance">>
Routes == <<"serial_oracle", "adaptive_candidate">>

(* issuance_benchmark_cases.                                               *)
BenchmarkCases ==
  LET counts == Len(DisclosureCounts)
      Cross(payloads, decoys) ==
        [k \in 1..(Len(payloads) * counts) |->
           Standard(payloads[((k - 1) \div counts) + 1], decoys,
                    DisclosureCounts[((k - 1) % counts) + 1])]
  IN  Cross(<<"small", "medium", "large", "mixed">>, FALSE)
        \o Cross(<<"small", "mixed">>, TRUE)
        \o <<Structural("all_levels_nested_objects", 7), Structural("all_levels_array_dag", 8),
             Structural("top_level_imbalanced", 8)>>

FixtureId(c) ==
  CASE c.kind = "standard" ->
         <<"payload", c.payload_class, "decoys", c.add_decoy_claims, "n", c.disclosure_count>>
    [] c.kind = "all_levels_nested_objects" -> <<"al_nested_obj_n0007">>
    [] c.kind = "all_levels_array_dag"      -> <<"al_array_dag_n0008">>
    [] c.kind = "top_level_imbalanced"      -> <<"tl_imbalanced_n0008">>

BenchmarkId(c, stage, route) ==
  <<"v2", StageCode(stage), RouteCode(route)>> \o
    IF c.kind = "standard"
    THEN <<PayloadCode(c.payload_class), c.add_decoy_claims, c.disclosure_count>>
    ELSE FixtureId(c)

AllLevels(c) == c.kind \in {"all_levels_nested_objects", "all_levels_array_dag"}

FullCriterionId(c, stage, route) == <<"sd_jwt_issuance", BenchmarkId(c, stage, route)>>

(* qualification_routes: of each case, first by route, then by stage.      *)
QualificationRoutes(cases) ==
  [i \in 1..(4 * Len(cases)) |->
     LET c     == cases[((i - 1) \div 4) + 1]
         stage == Stages[((i - 1) % 2) + 1]
         route == Routes[(((i - 1) % 4) \div 2) + 1]
     IN  [benchmark_id |-> FullCriterionId(c, stage, route), fixture_id |-> FixtureId(c),
          stage |-> stage, requested |-> route]]

(* qualification_paired_cells: of each case, by stage.                     *)
PairedCells(cases) ==
  [j \in 1..(2 * Len(cases)) |->
     LET c     == cases[((j - 1) \div 2) + 1]
         stage == Stages[((j - 1) % 2) + 1]
     IN  [fixture_id  |-> FixtureId(c),
          stage       |-> stage,
          serial_id   |-> FullCriterionId(c, stage, "serial_oracle"),
          adaptive_id |-> FullCriterionId(c, stage, "adaptive_candidate")]]

(* issuance_qualification_manifest_value, with the facts of the policy:    *)
(* none of its thresholds has been qualified.                              *)
PolicyFacts ==
  [mechanical_min_jobs |-> 2, mechanical_min_estimated_work_bytes |-> 1,
   qualified_min_jobs |-> <<>>, qualified_min_estimated_work_bytes |-> <<>>]

Manifest(cases, cap) ==
  [cases         |-> [i \in DOMAIN cases |-> [fixture_id |-> FixtureId(cases[i]),
                                              disclosure_count |-> cases[i].disclosure_count]],
   criterion_ids |-> [i \in DOMAIN QualificationRoutes(cases) |->
                        QualificationRoutes(cases)[i].benchmark_id],
   paired_cells  |-> PairedCells(cases),
   worker_cap    |-> cap,
   mechanical_benchmark_thresholds |-> <<PolicyFacts.mechanical_min_jobs,
                                         PolicyFacts.mechanical_min_estimated_work_bytes>>,
   qualified_issuance_thresholds   |-> PolicyFacts.qualified_min_jobs
                                         \o PolicyFacts.qualified_min_estimated_work_bytes]

(* validate_issuance_route_invocation: null destination and selector ask   *)
(* for no evidence; otherwise both are given, the selector is one of the   *)
(* canonical ids, the arguments are the frozen ones for it, and the        *)
(* destination is absolute.                                                *)
FrozenArguments(id) == [filter |-> id, exact |-> TRUE, sampling |-> "frozen", baseline |-> "base"]

Invocation(destination, selector, arguments) ==
  LET routes == QualificationRoutes(BenchmarkCases)
      chosen == {i \in DOMAIN routes : <<routes[i].benchmark_id>> = selector}
  IN  IF destination = <<>> /\ selector = <<>> THEN [kind |-> "no_evidence"]
      ELSE IF /\ destination # <<>> /\ selector # <<>>
              /\ chosen # {}
              /\ arguments = FrozenArguments(selector[1])
              /\ destination[1].absolute
      THEN [kind |-> "selected", destination |-> destination[1],
            index |-> CHOOSE i \in chosen : \A j \in chosen : i <= j]
      ELSE [kind |-> "rejected"]
=============================================================================
