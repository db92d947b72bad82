---------------------------- MODULE RouteRecords ----------------------------
(***************************************************************************)
(* The evidence an issuance benchmark keeps of how a candidate executed:   *)
(* how the selector traces a ready batch (src/issuer/issuance_plan.rs),    *)
(* how the trace becomes a route record, and how the records of a process  *)
(* are validated before one of them is published                           *)
(* (src/issuer/issuance_benchmark.rs). Producer and validator are written  *)
(* separately there, and so they are here.                                 *)
(*                                                                         *)
(* Optional fields are sequences of at most one element, <<>> being null.  *)
(* A ready batch is the sequence of the work estimates of its jobs. The    *)
(* encoding of a record as one line of JSON, its version labels and its    *)
(* size limit are left out.                                                *)
(***************************************************************************)
EXTENDS Integers, Sequences, FiniteSets, SequencesExt, FiniteSetsExt

CONSTANT UsizeMax   \* largest usize

ASSUME UsizeAssumption == UsizeMax \in Nat

Null    == <<>>
Some(x) == <<x>>

Lesser(a, b)   == IF a <= b THEN a ELSE b
CeilDiv(a, b)  == a \div b + (IF a % b = 0 THEN 0 ELSE 1)
Total(numbers) ==
  LET upTo[i \in 0..Len(numbers)] == IF i = 0 THEN 0 ELSE upTo[i - 1] + numbers[i]
  IN  upTo[Len(numbers)]

Count(s, Test(_)) == Cardinality({i \in DOMAIN s : Test(s[i])})

-----------------------------------------------------------------------------
(* The selector.                                                           *)

(* BENCHMARK_ISSUANCE_THRESHOLDS.                                          *)
MinJobs               == 2
MinEstimatedWorkBytes == 1

(* estimate_ready_job_work_bytes: null when a sum overflows.               *)
Estimate(jobs) == IF Total(jobs) > UsizeMax THEN Null ELSE Some(Total(jobs))

WorkerCount(jobs, cap, threads) == Lesser(Lesser(threads, cap), Len(jobs))

(* The gates of select_execution_with_estimate, each reached through the   *)
(* ones before it.                                                         *)
WorkGate(jobs)        == Len(jobs) >= MinJobs
ParallelismGate(jobs) == /\ WorkGate(jobs)
                         /\ Estimate(jobs) # Null
                         /\ Estimate(jobs)[1] >= MinEstimatedWorkBytes
BudgetGate(jobs, cap, threads) ==
  ParallelismGate(jobs) /\ WorkerCount(jobs, cap, threads) >= 2
Native(jobs, cap, threads, permits) ==
  BudgetGate(jobs, cap, threads) /\ WorkerCount(jobs, cap, threads) <= permits

Reason(jobs, cap, threads, permits) ==
  CASE ~ WorkGate(jobs)                               -> "below_min_jobs"
    [] WorkGate(jobs) /\ Estimate(jobs) = Null        -> "work_estimate_overflow"
    [] WorkGate(jobs) /\ Estimate(jobs) # Null /\ ~ ParallelismGate(jobs)
                                                      -> "below_min_estimated_work_bytes"
    [] ParallelismGate(jobs) /\ ~ BudgetGate(jobs, cap, threads)
                                                      -> "insufficient_available_parallelism"
    [] BudgetGate(jobs, cap, threads) /\ ~ Native(jobs, cap, threads, permits)
                                                      -> "worker_budget_unavailable"
    [] Native(jobs, cap, threads, permits)            -> "bounded_native"

StaticChunks(jobs, size) ==
  [k \in 1..CeilDiv(Len(jobs), size) |->
     LET chunk == SubSeq(jobs, (k - 1) * size + 1, Lesser(k * size, Len(jobs)))
     IN  [ordinal |-> k - 1, job_count |-> Len(chunk), estimated_work_bytes |-> Total(chunk)]]

(* record_benchmark_ready_batch, after the selector has decided.           *)
ReadyBatch(ordinal, jobs, cap, threads, permits) ==
  LET workers == WorkerCount(jobs, cap, threads)
      native  == Native(jobs, cap, threads, permits)
      size    == CeilDiv(Len(jobs), workers)
  IN  [ordinal                    |-> ordinal,
       job_count                  |-> Len(jobs),
       estimated_work_bytes       |-> IF WorkGate(jobs) THEN Estimate(jobs) ELSE Null,
       work_estimate_status       |-> IF ~ WorkGate(jobs) THEN "not_evaluated"
                                      ELSE IF Estimate(jobs) = Null THEN "overflow"
                                      ELSE "available",
       work_gate_evaluated        |-> WorkGate(jobs),
       parallelism_gate_evaluated |-> ParallelismGate(jobs),
       budget_gate_evaluated      |-> BudgetGate(jobs, cap, threads),
       available_parallelism      |-> IF ParallelismGate(jobs) THEN Some(threads) ELSE Null,
       selected_worker_count      |-> IF ParallelismGate(jobs) THEN Some(workers) ELSE Null,
       leased_worker_count        |-> IF native THEN Some(workers) ELSE Null,
       budget_acquisition_result  |-> IF native THEN "acquired"
                                      ELSE IF BudgetGate(jobs, cap, threads) THEN "unavailable"
                                      ELSE "not_evaluated",
       selected_mode              |-> IF native THEN "native_parallel" ELSE "serial",
       selection_reason           |-> Reason(jobs, cap, threads, permits),
       static_chunk_size          |-> IF native THEN Some(size) ELSE Null,
       static_chunks              |-> IF native THEN Some(StaticChunks(jobs, size)) ELSE Null]

-----------------------------------------------------------------------------
(* From the trace to a route record.                                       *)

IsNative(b)         == b.selected_mode = "native_parallel"
IsBudgetFallback(b) == b.selection_reason = "worker_budget_unavailable"
MostWorkers(batches) ==
  Max({0} \cup {batches[i].leased_worker_count[1] :
                  i \in {j \in DOMAIN batches : batches[j].leased_worker_count # Null}})

(* BenchmarkExecutionTrace::summary; a target without the native executor  *)
(* has no ready batches to report.                                         *)
Summary(batches) ==
  [target_serial_fallback  |-> FALSE,
   executor_batches        |-> Len(batches),
   serial_batches          |-> Len(batches) - Count(batches, IsNative),
   native_batches          |-> Count(batches, IsNative),
   budget_fallback_batches |-> Count(batches, IsBudgetFallback),
   max_worker_count        |-> MostWorkers(batches),
   ready_batches           |-> Some(batches)]

TargetFallback ==
  [target_serial_fallback |-> TRUE, executor_batches |-> 0, serial_batches |-> 0,
   native_batches |-> 0, budget_fallback_batches |-> 0, max_worker_count |-> 0,
   ready_batches |-> Null]

(* assert_ready_batch_trace, in its order.                                 *)
TraceAsserted(ordinal, b, cap) ==
  /\ b.ordinal = ordinal
  /\ b.work_gate_evaluated = (b.work_estimate_status # "not_evaluated")
  /\ (b.estimated_work_bytes # Null) = (b.work_estimate_status = "available")
  /\ b.parallelism_gate_evaluated = (b.available_parallelism # Null)
  /\ b.selected_worker_count =
       IF b.available_parallelism = Null THEN Null
       ELSE Some(Lesser(Lesser(b.available_parallelism[1], cap), b.job_count))
  /\ b.budget_gate_evaluated = (b.budget_acquisition_result # "not_evaluated")
  /\ b.selection_reason = "below_min_jobs" =>
       /\ b.work_estimate_status = "not_evaluated"
       /\ ~ b.parallelism_gate_evaluated /\ ~ b.budget_gate_evaluated
  /\ b.selection_reason = "work_estimate_overflow" =>
       /\ b.work_estimate_status = "overflow"
       /\ ~ b.parallelism_gate_evaluated /\ ~ b.budget_gate_evaluated
  /\ b.selection_reason = "below_min_estimated_work_bytes" =>
       /\ b.work_estimate_status = "available"
       /\ ~ b.parallelism_gate_evaluated /\ ~ b.budget_gate_evaluated
  /\ b.selection_reason = "insufficient_available_parallelism" =>
       /\ b.work_estimate_status = "available"
       /\ b.parallelism_gate_evaluated /\ ~ b.budget_gate_evaluated
  /\ b.selection_reason = "worker_budget_unavailable" =>
       b.budget_acquisition_result = "unavailable"
  /\ b.selection_reason = "bounded_native" =>
       b.budget_acquisition_result = "acquired"
  /\ ~ IsNative(b) =>
       /\ b.selection_reason # "bounded_native"
       /\ b.leased_worker_count = Null /\ b.static_chunk_size = Null /\ b.static_chunks = Null
  /\ IsNative(b) =>
       /\ b.selection_reason = "bounded_native"
       /\ b.budget_acquisition_result = "acquired"
       /\ b.leased_worker_count = b.selected_worker_count
       /\ b.static_chunk_size = Some(CeilDiv(b.job_count, b.selected_worker_count[1]))
       /\ LET chunks == b.static_chunks[1]
          IN  /\ Total([k \in DOMAIN chunks |-> chunks[k].job_count]) = b.job_count
              /\ Total([k \in DOMAIN chunks |-> chunks[k].estimated_work_bytes])
                   = b.estimated_work_bytes[1]
              /\ \A k \in DOMAIN chunks :
                   /\ chunks[k].ordinal = k - 1
                   /\ chunks[k].job_count <= b.static_chunk_size[1]

(* The assertions of IssuanceBenchmarkRouteRecord::candidate.              *)
SummaryAsserted(s, cap) ==
  /\ s.target_serial_fallback = (s.ready_batches = Null)
  /\ s.ready_batches # Null =>
       /\ \A i \in DOMAIN s.ready_batches[1] : TraceAsserted(i - 1, s.ready_batches[1][i], cap)
       /\ s = Summary(s.ready_batches[1])

EffectiveRoute(s) ==
  IF s.target_serial_fallback THEN "target_serial_fallback"
  ELSE IF s.native_batches # 0 /\ s.serial_batches # 0 THEN "mixed_native_and_serial"
  ELSE IF s.native_batches # 0 THEN "bounded_native"
  ELSE IF s.budget_fallback_batches # 0 THEN "budget_serial_fallback"
  ELSE "ready_batch_serial_fallback"

SerialOracle(host) ==
  [requested |-> "serial_oracle", effective |-> "serial_oracle",
   executor_batches |-> Null, serial_batches |-> Null, native_batches |-> Null,
   budget_fallback_batches |-> Null, max_native_worker_count |-> 0,
   host_available_parallelism |-> host, ready_batches |-> Null]

Candidate(s, host) ==
  LET counted(n) == IF s.target_serial_fallback THEN Null ELSE Some(n)
  IN  [requested                  |-> "adaptive_candidate",
       effective                  |-> EffectiveRoute(s),
       executor_batches           |-> counted(s.executor_batches),
       serial_batches             |-> counted(s.serial_batches),
       native_batches             |-> counted(s.native_batches),
       budget_fallback_batches    |-> counted(s.budget_fallback_batches),
       max_native_worker_count    |-> s.max_worker_count,
       host_available_parallelism |-> host,
       ready_batches              |-> s.ready_batches]

MachineRecord(record, benchmark, fixture, stage, cap) ==
  [benchmark_id               |-> benchmark,
   fixture_id                 |-> fixture,
   stage                      |-> stage,
   requested                  |-> record.requested,
   effective                  |-> record.effective,
   executor_batches           |-> record.executor_batches,
   serial_batches             |-> record.serial_batches,
   native_batches             |-> record.native_batches,
   budget_fallback_batches    |-> record.budget_fallback_batches,
   max_native_worker_count    |-> record.max_native_worker_count,
   worker_cap                 |-> cap,
   host_available_parallelism |-> record.host_available_parallelism,
   ready_batches              |-> record.ready_batches]

-----------------------------------------------------------------------------
(* The validator, which restates the selector's thresholds and its static  *)
(* partition.                                                              *)

(* has_exact_keys and the canonical shape: the fields of a record, of a    *)
(* ready batch and of a chunk.                                             *)
RouteRecordFields ==
  {"benchmark_id", "fixture_id", "stage", "requested", "effective", "executor_batches",
   "serial_batches", "native_batches", "budget_fallback_batches", "max_native_worker_count",
   "worker_cap", "host_available_parallelism", "ready_batches"}
ReadyBatchFields ==
  {"ordinal", "job_count", "estimated_work_bytes", "work_estimate_status",
   "work_gate_evaluated", "parallelism_gate_evaluated", "budget_gate_evaluated",
   "available_parallelism", "selected_worker_count", "leased_worker_count",
   "budget_acquisition_result", "selected_mode", "selection_reason", "static_chunk_size",
   "static_chunks"}
StaticChunkFields == {"ordinal", "job_count", "estimated_work_bytes"}

NullableUnsigned(v) == v = Null \/ (Len(v) = 1 /\ v[1] \in Nat)

ChunkShaped(chunk) ==
  DOMAIN chunk = StaticChunkFields /\ \A field \in StaticChunkFields : chunk[field] \in Nat

BatchShaped(b) ==
  /\ DOMAIN b = ReadyBatchFields
  /\ b.ordinal \in Nat /\ b.job_count \in Nat
  /\ \A field \in {"estimated_work_bytes", "available_parallelism", "selected_worker_count",
                   "leased_worker_count", "static_chunk_size"} : NullableUnsigned(b[field])
  /\ \A field \in {"work_gate_evaluated", "parallelism_gate_evaluated",
                   "budget_gate_evaluated"} : b[field] \in BOOLEAN
  /\ b.static_chunks # Null =>
       \A k \in DOMAIN b.static_chunks[1] : ChunkShaped(b.static_chunks[1][k])

CanonicalShape(r) ==
  /\ DOMAIN r = RouteRecordFields
  /\ \A field \in {"executor_batches", "serial_batches", "native_batches",
                   "budget_fallback_batches"} : NullableUnsigned(r[field])
  /\ \A field \in {"max_native_worker_count", "worker_cap", "host_available_parallelism"} :
       r[field] \in Nat
  /\ r.ready_batches # Null =>
       \A i \in DOMAIN r.ready_batches[1] : BatchShaped(r.ready_batches[1][i])

(* What follows the last gate a serial batch reached.                      *)
NothingLeased(b) == /\ b.selected_mode = "serial"
                    /\ b.leased_worker_count = Null
                    /\ b.static_chunk_size = Null
                    /\ b.static_chunks = Null
SerialTailUnevaluated(b) == /\ ~ b.parallelism_gate_evaluated
                            /\ b.available_parallelism = Null
                            /\ b.selected_worker_count = Null
                            /\ ~ b.budget_gate_evaluated
                            /\ b.budget_acquisition_result = "not_evaluated"
                            /\ NothingLeased(b)

ChunksValid(b, work, workers) ==
  LET size   == CeilDiv(b.job_count, workers)
      count  == CeilDiv(b.job_count, size)
      chunks == b.static_chunks[1]
  IN  /\ workers # 0
      /\ b.static_chunk_size = Some(size)
      /\ b.static_chunks # Null
      /\ Len(chunks) = count /\ count \in 1..workers
      /\ \A k \in DOMAIN chunks :
           /\ chunks[k].ordinal = k - 1
           /\ chunks[k].job_count =
                IF k = count THEN b.job_count - size * (count - 1) ELSE size
           /\ chunks[k].job_count \in 1..size
      /\ Total([k \in DOMAIN chunks |-> chunks[k].job_count]) = b.job_count
      /\ Total([k \in DOMAIN chunks |-> chunks[k].estimated_work_bytes]) = work

(* ready_batch_semantics_are_valid: what every batch must agree on, then   *)
(* what the gate it stopped at asks of it.                                 *)
GatesConsistent(b) ==
  /\ b.work_gate_evaluated = (b.work_estimate_status # "not_evaluated")
  /\ (b.estimated_work_bytes # Null) = (b.work_estimate_status = "available")
  /\ b.parallelism_gate_evaluated =
       (b.available_parallelism # Null /\ b.selected_worker_count # Null)
  /\ b.budget_gate_evaluated = (b.budget_acquisition_result # "not_evaluated")

AfterBudgetGate(b, work, workers) ==
  IF b.budget_acquisition_result = "unavailable"
  THEN /\ b.selection_reason = "worker_budget_unavailable"
       /\ b.budget_gate_evaluated
       /\ NothingLeased(b)
  ELSE /\ b.budget_acquisition_result = "acquired"
       /\ b.selection_reason = "bounded_native"
       /\ b.budget_gate_evaluated
       /\ b.selected_mode = "native_parallel"
       /\ b.leased_worker_count = Some(workers)
       /\ ChunksValid(b, work, workers)

WorkersOfHost(b, host, cap)   == Lesser(host, b.job_count)   \* Slip: the cap is not restated
WorkersExpected(b, host, cap) == Lesser(Lesser(host, cap), b.job_count)

AfterWorkGate(b, host, cap) ==
  /\ b.available_parallelism = Some(host)
  /\ host # 0
  /\ b.parallelism_gate_evaluated
  /\ b.selected_worker_count = Some(WorkersExpected(b, host, cap))
  /\ IF b.selected_worker_count[1] < 2
     THEN /\ b.selection_reason = "insufficient_available_parallelism"
          /\ ~ b.budget_gate_evaluated
          /\ b.budget_acquisition_result = "not_evaluated"
          /\ NothingLeased(b)
     ELSE AfterBudgetGate(b, b.estimated_work_bytes[1], b.selected_worker_count[1])

BatchValid(b, ordinal, host, cap) ==
  /\ b.ordinal = ordinal /\ b.job_count # 0
  /\ GatesConsistent(b)
  /\ IF b.job_count < 2
     THEN /\ b.selection_reason = "below_min_jobs"
          /\ b.work_estimate_status = "not_evaluated"
          /\ SerialTailUnevaluated(b)
     ELSE IF b.work_estimate_status = "overflow"
     THEN b.selection_reason = "work_estimate_overflow" /\ SerialTailUnevaluated(b)
     ELSE IF b.estimated_work_bytes = Null THEN FALSE
     ELSE IF b.estimated_work_bytes[1] < 1
     THEN b.selection_reason = "below_min_estimated_work_bytes" /\ SerialTailUnevaluated(b)
     ELSE AfterWorkGate(b, host, cap)

(* route_record_semantics_are_valid.                                       *)
Uncounted(r) == /\ \A field \in {"executor_batches", "serial_batches", "native_batches",
                                 "budget_fallback_batches"} : r[field] = Null
                /\ r.max_native_worker_count = 0
                /\ r.ready_batches = Null

RecountAgrees(r, batches) ==
  LET native   == Count(batches, IsNative)
      serial   == Len(batches) - native
      fallback == Count(batches, IsBudgetFallback)
  IN  /\ r.executor_batches = Some(Len(batches))
      /\ r.serial_batches = Some(serial)
      /\ r.native_batches = Some(native)
      /\ r.budget_fallback_batches = Some(fallback)
      /\ fallback <= serial
      /\ r.max_native_worker_count = MostWorkers(batches)
      /\ r.max_native_worker_count <= r.worker_cap
      /\ r.effective = IF native > 0 /\ serial > 0 THEN "mixed_native_and_serial"
                       ELSE IF native > 0 THEN "bounded_native"
                       ELSE IF fallback > 0 THEN "budget_serial_fallback"
                       ELSE "ready_batch_serial_fallback"

RecordValid(r, requested, cap) ==
  /\ r.worker_cap = cap /\ r.host_available_parallelism # 0
  /\ IF requested = "serial_oracle" THEN r.effective = "serial_oracle" /\ Uncounted(r)
     ELSE IF cap = 1 THEN r.effective = "target_serial_fallback" /\ Uncounted(r)
     ELSE /\ r.ready_batches # Null
          /\ \A i \in DOMAIN r.ready_batches[1] :
               BatchValid(r.ready_batches[1][i], i - 1, r.host_available_parallelism, cap)
          /\ RecountAgrees(r, r.ready_batches[1])

(* validated_selected_route_payload: every record, in the order of the     *)
(* canonical routes, before the selected one is published; null when it    *)
(* refuses.                                                                *)
MatchesRoute(r, route) == /\ r.benchmark_id = route.benchmark_id
                          /\ r.fixture_id = route.fixture_id
                          /\ r.stage = route.stage
                          /\ r.requested = route.requested

RecordsValidEachAlone(records, routes, cap) ==   \* Slip: the hosts of the records are not compared
  /\ Len(records) = Len(routes)
  /\ \A i \in DOMAIN records :
       /\ CanonicalShape(records[i])
       /\ MatchesRoute(records[i], routes[i])
       /\ RecordValid(records[i], routes[i].requested, cap)
  /\ \A i, j \in DOMAIN records : records[i].benchmark_id = records[j].benchmark_id => i = j

RecordsValid(records, routes, cap) ==
  /\ Len(records) = Len(routes)
  /\ \A i \in DOMAIN records :
       /\ CanonicalShape(records[i])
       /\ MatchesRoute(records[i], routes[i])
       /\ RecordValid(records[i], routes[i].requested, cap)
  /\ \A i, j \in DOMAIN records :
       /\ records[i].benchmark_id = records[j].benchmark_id => i = j
       /\ records[i].host_available_parallelism = records[j].host_available_parallelism

SelectedPayload(records, routes, cap, selected) ==
  IF RecordsValid(records, routes, cap) /\ selected \in DOMAIN records
  THEN Some(records[selected]) ELSE Null
=============================================================================
