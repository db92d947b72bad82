---------------------------- MODULE RouteEvidence ----------------------------
(***************************************************************************)
(* A process of the issuance benchmark (benches/sd_jwt_issuance.rs, behind *)
(* its launch barrier): it takes every fixture of the matrix through an    *)
(* untimed preflight of both stages, keeps one route record for each       *)
(* benchmark id, measures the one Criterion is told to, and at the end     *)
(* publishes the record of the selected one if all of them hold together.  *)
(* The process is single-threaded but for the workers of its ready         *)
(* batches.                                                                *)
(*                                                                         *)
(* The host may change how many threads it offers while the process runs,  *)
(* and a thread may fail to spawn. What execution computes is left to      *)
(* IssuanceExecution; an assembly is the disclosures of its plan.          *)
(***************************************************************************)
EXTENDS BenchmarkFixtures, RouteRecords

CONSTANTS WorkerCap,    (* MAX_PARALLEL_ISSUANCE_WORKERS                    *)
          Hosts,        (* answers of available_parallelism                 *)
          MaxChanges,   (* bound: changes of that answer during the run     *)
          Selectable    (* the selected routes, by their canonical place    *)

ASSUME RouteEvidenceAssumption ==
  WorkerCap \in Nat \ {0, 1} /\ Hosts \subseteq Nat \ {0} /\ MaxChanges \in Nat

VARIABLES target,      (* "x86_64", or a target without native executor     *)
          selected,    (* selected_route_index of the sink                  *)
          filter,      (* the route Criterion's arguments name              *)
          host,        (* threads the host offers                           *)
          changes,     (* how often that changed                            *)
          permits,     (* left of PARALLEL_ISSUANCE_WORKER_BUDGET           *)
          case,        (* the fixture                                       *)
          pc,
          exec,        (* of a preflight, the execution it is at            *)
          tape,        (* the randomness left to that execution             *)
          batch,       (* the ready batch it is at                          *)
          leased,      (* permits that batch holds                          *)
          trace,       (* BenchmarkExecutionTrace.ready_batches             *)
          stageRoutes, (* the candidate record of each stage                *)
          records,     (* route_records                                     *)
          outcome,
          ran,         (* the batches of the candidate at the selected      *)
                       (* route's stage, in the order they were executed    *)
          measuring,   (* likewise of the iteration being measured          *)
          measured,    (* and of those measured before                      *)
          sampled      (* every answer of the host that evidence rests on   *)

run      == <<target, selected, filter, case, pc>>
evidence == <<trace, stageRoutes, records, sampled>>
ghosts   == <<ran, measuring, measured>>
vars     == <<run, host, changes, permits, exec, tape, batch, leased, evidence, outcome, ghosts>>

NoTape == [disclosure_salts |-> 0, decoy_counts |-> <<>>, decoy_salts |-> 0, exhausted |-> FALSE]

-----------------------------------------------------------------------------
(* The fixtures, worked out once.                                          *)

Claims == [c \in DOMAIN BenchmarkCases |-> SelectiveClaims(BenchmarkCases[c])]
Tapes  == [c \in DOMAIN BenchmarkCases |-> Tape(Claims[c], BenchmarkCases[c])]
PlanOf ==
  [c \in DOMAIN BenchmarkCases |->
     [stage \in Range(Stages) |->
        Planned(IF stage = "executor_assembly" THEN Claims[c]
                ELSE PlannedOfFull(FullClaims(Claims[c])),
                BenchmarkCases[c], Tapes[c])]]
BatchesOf ==
  [c \in DOMAIN BenchmarkCases |-> ReadyBatches(Claims[c], PlanOf[c]["executor_assembly"].plan)]
Canonical == QualificationRoutes(BenchmarkCases)
ASSUME SelectableAssumption == Selectable \subseteq DOMAIN Canonical
EmptyTrace == <<>>

(* What preflight executes, in order.                                      *)
Executions == <<<<"executor_assembly", "serial_oracle">>, <<"executor_assembly", "adaptive_candidate">>,
                <<"full_issuance", "serial_oracle">>, <<"full_issuance", "adaptive_candidate">>>>
Stage     == Executions[exec][1]
Requested == Executions[exec][2]

Cap           == IF target = "x86_64" THEN WorkerCap ELSE 1
Measured      == Canonical[filter]
MeasuredCase  == ((filter - 1) \div 4) + 1
SelectedCase  == ((selected - 1) \div 4) + 1
SelectedRoute == Canonical[selected]
Watching      == case = SelectedCase /\ Stage = SelectedRoute.stage

Init ==
  /\ target \in {"x86_64", "other"} /\ selected = 0 /\ filter = 0
  /\ host \in Hosts /\ changes = 0
  /\ permits = WorkerCap
  /\ case = 1 /\ pc = "invoke" /\ exec = 1
  /\ tape = NoTape /\ batch = 1 /\ leased = 0
  /\ trace = EmptyTrace /\ stageRoutes = <<>> /\ records = <<>>
  /\ outcome = "running"
  /\ ran = <<>> /\ measuring = <<>> /\ measured = {} /\ sampled = {}

Goto(l) == pc' = l /\ UNCHANGED <<target, selected, filter, case>>
Ends(how) == outcome' = how /\ Goto("ended")

-----------------------------------------------------------------------------
(* The destination, the selector and the arguments of Criterion. A process *)
(* that is asked for no evidence is not followed any further.              *)

Asked(i) == Canonical[i].benchmark_id

Invoke ==
  /\ pc = "invoke"
  /\ \E destination \in {Null, Some([absolute |-> TRUE]), Some([absolute |-> FALSE])},
        selector \in {Null, Some(<<"no such benchmark">>)} \cup {Some(Asked(i)) : i \in Selectable},
        i \in Selectable, sampling \in {"frozen", "quick"} :
       LET arguments == [FrozenArguments(Asked(i)) EXCEPT !.sampling = sampling]
           invoked   == Invocation(destination, selector, arguments)
       IN  CASE invoked.kind = "no_evidence" -> Ends("no_evidence")
             [] invoked.kind = "rejected"    -> Ends("rejected")
             [] invoked.kind = "selected"    ->
                  /\ selected' = invoked.index /\ filter' = i
                  /\ pc' = "begin" /\ UNCHANGED <<target, case, outcome>>
  /\ UNCHANGED <<host, changes, permits, exec, tape, batch, leased, evidence, ghosts>>

-----------------------------------------------------------------------------
(* One execution: its plan, its ready batches one by one, its end.         *)

(* prepare_executor and prepare_full_issuance; only the executor stage     *)
(* looks at the tape before it executes.                                   *)
Begin ==
  LET drawn == PlanOf[case][Stage].tape
  IN  /\ pc \in {"begin", "measure"}
      /\ tape' = drawn
      /\ IF drawn.exhausted \/ (Stage = "executor_assembly" /\ ~ Consumed(drawn))
         THEN Ends("tape_panic")
         ELSE /\ Goto(IF \/ Requested = "serial_oracle" \/ target = "other"
                         \/ BatchesOf[case] = <<>>
                      THEN IF pc = "begin" THEN "end" ELSE "iterated"
                      ELSE IF pc = "begin" THEN "select" ELSE "select_untraced")
              /\ UNCHANGED outcome
      /\ batch' = 1 /\ trace' = EmptyTrace /\ measuring' = <<>>
      /\ UNCHANGED <<host, changes, permits, exec, leased, stageRoutes, records, sampled>>
      /\ UNCHANGED <<ran, measured>>

Jobs    == BatchesOf[case][batch]
Threads == WorkerCount(Jobs, WorkerCap, host)

ChunkSizeFloor(jobs, workers) == jobs \div workers   \* Slip: the remainder is a chunk of its own
ChunkSize(jobs, workers)      == CeilDiv(jobs, workers)

(* How a batch is executed: serially, or by one thread per chunk.          *)
Chunks(jobs, size) == [k \in 1..CeilDiv(jobs, size) |-> Lesser(size, jobs - (k - 1) * size)]
BatchRun ==
  [jobs    |-> Len(Jobs),
   workers |-> IF leased = 0 THEN 1 ELSE leased,
   chunks  |-> IF leased = 0 THEN <<Len(Jobs)>>
               ELSE Chunks(Len(Jobs), ChunkSize(Len(Jobs), leased))]

Leases == IF Native(Jobs, WorkerCap, host, permits)
          THEN leased' = Threads /\ permits' = permits - Threads
          ELSE leased' = 0 /\ UNCHANGED permits

(* select_execution_with_benchmark_trace.                                  *)
SelectTraced ==
  /\ pc = "select"
  /\ Leases
  /\ trace' = Append(trace, ReadyBatch(Len(trace), Jobs, WorkerCap, host, permits))
  /\ sampled' = IF ParallelismGate(Jobs) THEN sampled \cup {host} ELSE sampled
  /\ Goto("join")
  /\ UNCHANGED <<host, changes, exec, tape, batch, stageRoutes, records, outcome, ghosts>>

(* Slip: what is measured runs under the qualified thresholds; none are.   *)
SelectQualified ==
  /\ pc = "select_untraced"
  /\ leased' = 0 /\ UNCHANGED permits
  /\ Goto("join_untraced")
  /\ UNCHANGED <<host, changes, exec, tape, batch, evidence, outcome, ghosts>>

(* select_execution, in what is timed.                                     *)
SelectUntraced ==
  /\ pc = "select_untraced"
  /\ Leases
  /\ Goto("join_untraced")
  /\ UNCHANGED <<host, changes, exec, tape, batch, evidence, outcome, ghosts>>

AtLastBatch == batch = Len(BatchesOf[case])

ReturnedAtEnd == IF AtLastBatch THEN WorkerCap - permits ELSE 0   \* Slip: kept between batches
Returned      == leased

(* The workers are joined and the lease dropped before anything else       *)
(* happens to the batch.                                                   *)
Join ==
  /\ pc \in {"join", "join_untraced"}
  /\ permits' = permits + Returned
  /\ leased' = 0
  /\ IF pc = "join"
     THEN ran' = (IF Watching THEN Append(ran, BatchRun) ELSE ran) /\ UNCHANGED measuring
     ELSE measuring' = Append(measuring, BatchRun) /\ UNCHANGED ran
  /\ batch' = batch + 1
  /\ Goto(IF pc = "join" THEN IF AtLastBatch THEN "end" ELSE "select"
          ELSE IF AtLastBatch THEN "iterated" ELSE "select_untraced")
  /\ UNCHANGED <<host, changes, exec, tape, evidence, outcome, measured>>

(* A thread of a native batch fails to spawn: what was spawned is joined   *)
(* and the execution fails, which the benchmark does not survive.          *)
SpawnFails ==
  /\ pc \in {"join", "join_untraced"} /\ leased > 0
  /\ permits' = permits + leased
  /\ leased' = 0
  /\ Ends("spawn_panic")
  /\ UNCHANGED <<host, changes, exec, tape, batch, evidence, ghosts>>

(* The end of a preflight execution: the tape of the full stage, the route *)
(* record of a candidate with its assertions, and after the second and the *)
(* fourth the number of disclosures.                                       *)
EndExecution ==
  LET summary == IF target = "x86_64" THEN Summary(trace) ELSE TargetFallback
      traced  == Requested = "adaptive_candidate"
      counted == DisclosuresOf(PlanOf[case][Stage].plan) = BenchmarkCases[case].disclosure_count
  IN  /\ pc = "end"
      /\ IF ~ Consumed(tape) THEN Ends("tape_panic") /\ UNCHANGED <<stageRoutes, sampled>>
         ELSE IF traced /\ ~ SummaryAsserted(summary, WorkerCap)
         THEN Ends("assertion_panic") /\ UNCHANGED <<stageRoutes, sampled>>
         ELSE IF traced /\ ~ counted
         THEN Ends("preflight_panic") /\ UNCHANGED <<stageRoutes, sampled>>
         ELSE /\ IF traced
                 THEN /\ stageRoutes' = Append(stageRoutes, Candidate(summary, host))
                      /\ sampled' = sampled \cup {host}
                 ELSE UNCHANGED <<stageRoutes, sampled>>
              /\ Goto(IF exec = 4 THEN "record" ELSE "begin")
              /\ UNCHANGED outcome
      /\ exec' = IF exec = 4 THEN 1 ELSE exec + 1
      /\ UNCHANGED <<host, changes, permits, tape, batch, leased, trace, records, ghosts>>

(* The four records of a case, by route and then by stage.                 *)
Record ==
  LET k     == (Len(records) % 4) + 1
      stage == Stages[2 - (k % 2)]
      route == Routes[(k + 1) \div 2]
      r     == IF route = "serial_oracle" THEN SerialOracle(host) ELSE stageRoutes[2 - (k % 2)]
  IN  /\ pc = "record"
      /\ records' = Append(records,
           MachineRecord(r, FullCriterionId(BenchmarkCases[case], stage, route),
                         FixtureId(BenchmarkCases[case]), stage, Cap))
      /\ sampled' = IF route = "serial_oracle" THEN sampled \cup {host} ELSE sampled
      /\ Goto(IF k < 4 THEN "record" ELSE IF case = MeasuredCase THEN "measure" ELSE "next")
      /\ exec' = IF k = 4 /\ case = MeasuredCase
                 THEN CHOOSE e \in 1..4 : Executions[e] = <<Measured.stage, Measured.requested>>
                 ELSE exec
      /\ UNCHANGED <<host, changes, permits, tape, batch, leased, trace, stageRoutes, outcome, ghosts>>

(* bench_function measures only the benchmark the filter names, over and   *)
(* over.                                                                   *)
Iterated ==
  /\ pc = "iterated"
  /\ measured' = measured \cup {measuring}
  /\ measuring' = <<>>
  /\ \/ Goto("measure") /\ UNCHANGED exec
     \/ Goto("next") /\ exec' = 1
  /\ UNCHANGED <<host, changes, permits, tape, batch, leased, evidence, outcome, ran>>

NextCase ==
  /\ pc = "next"
  /\ IF case < Len(BenchmarkCases)
     THEN case' = case + 1 /\ pc' = "begin"
     ELSE UNCHANGED case /\ pc' = "finish"
  /\ stageRoutes' = <<>> /\ trace' = EmptyTrace /\ tape' = NoTape
  /\ UNCHANGED <<target, selected, filter, host, changes, permits, exec, batch, leased, records,
                 sampled, outcome, ghosts>>

Payload == SelectedPayload(records, Canonical, Cap, selected)

Finish ==
  /\ pc = "finish"
  /\ Ends(IF Payload = Null THEN "refused" ELSE "published")
  /\ UNCHANGED <<host, changes, permits, exec, tape, batch, leased, evidence, ghosts>>

(* The process is given more or fewer processors.                          *)
HostChanges ==
  /\ outcome = "running" /\ changes < MaxChanges
  /\ \E h \in Hosts \ {host} : host' = h
  /\ changes' = changes + 1
  /\ UNCHANGED <<run, permits, exec, tape, batch, leased, evidence, outcome, ghosts>>

Next ==
  \/ Invoke \/ Begin \/ SelectTraced \/ SelectUntraced \/ Join \/ SpawnFails \/ EndExecution
  \/ Record \/ Iterated \/ NextCase \/ Finish \/ HostChanges

Spec == Init /\ [][Next]_vars

-----------------------------------------------------------------------------
(* The tapes are exact, the assertions and the validator agree with the    *)
(* selector and the order of the records with that of the routes: a        *)
(* process ends without its evidence only when the host changed or a       *)
(* thread could not be spawned (IssuanceBenchmarkFixture::preflight,       *)
(* IssuanceBenchmarkRouteSink::finish).                                    *)
EvidenceSurvives ==
  /\ outcome \notin {"tape_panic", "assertion_panic", "preflight_panic"}
  /\ outcome = "refused" => changes > 0

(* What is published is about the benchmark that was measured, under the   *)
(* names the manifest pairs it by, and the ready batches in it are those   *)
(* its own stage executed, each on as many workers and in as many chunks   *)
(* as it says (IssuanceBenchmarkRouteRecord::machine_record,               *)
(* issuance_qualification_manifest_value).                                 *)
AsRan(b) == [jobs    |-> b.job_count,
             workers |-> IF b.leased_worker_count = Null THEN 1 ELSE b.leased_worker_count[1],
             chunks  |-> IF b.static_chunks = Null THEN <<b.job_count>>
                         ELSE [k \in DOMAIN b.static_chunks[1] |->
                                 b.static_chunks[1][k].job_count]]

PublishedTrue ==
  outcome = "published" =>
    LET r        == records[selected]
        manifest == Manifest(BenchmarkCases, Cap)
        cell     == manifest.paired_cells[((filter - 1) \div 4) * 2
                                            + (IF Measured.stage = "executor_assembly" THEN 1 ELSE 2)]
    IN  /\ r.benchmark_id = manifest.criterion_ids[filter]
        /\ r.benchmark_id =
             IF r.requested = "serial_oracle" THEN cell.serial_id ELSE cell.adaptive_id
        /\ cell.fixture_id = r.fixture_id /\ cell.stage = r.stage
        /\ r.worker_cap = manifest.worker_cap
        /\ r.requested = "adaptive_candidate" /\ target = "x86_64" =>
             [i \in DOMAIN r.ready_batches[1] |-> AsRan(r.ready_batches[1][i])] = ran

(* The evidence of a process is about one host: everything it sampled for  *)
(* a record it publishes was the same (validated_selected_route_payload).  *)
OneHost == outcome = "published" => Cardinality(sampled) = 1

(* A process never contends with itself: the permits of a ready batch are  *)
(* back before the next one asks (AdaptiveIssuanceExecutor::execute).      *)
NoSelfContention ==
  /\ \A i \in DOMAIN trace : ~ IsBudgetFallback(trace[i])
  /\ pc \in {"invoke", "begin", "measure", "record", "next", "ended"} => permits = WorkerCap

(* On a host that does not change, every measured iteration of a candidate *)
(* takes the route its record tells of (execute_benchmark_candidate and    *)
(* execute_benchmark_candidate_with_trace).                                *)
MeasuredAsRecorded ==
  outcome = "published" /\ changes = 0 /\ SelectedRoute.requested = "adaptive_candidate" =>
    measured = {ran}
=============================================================================
