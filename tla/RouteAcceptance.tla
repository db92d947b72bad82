--------------------------- MODULE RouteAcceptance ---------------------------
(***************************************************************************)
(* Route evidence is data when it is validated: a record as a candidate    *)
(* makes it, of which some fields have come out differently. The validator *)
(* of src/issuer/issuance_benchmark.rs restates the thresholds, the worker *)
(* counts and the static partition of the selector; here it is compared    *)
(* with every record an execution can leave.                               *)
(***************************************************************************)
EXTENDS RouteRecords

CONSTANTS WorkerCap,      (* MAX_PARALLEL_ISSUANCE_WORKERS                  *)
          Hosts,          (* threads the host may offer                     *)
          Workloads,      (* ready batches, as the estimates of their jobs  *)
          MaxAltered,     (* bound: fields that come out differently        *)
          Starting        (* the workloads of the records altered           *)

VARIABLES claimed,    \* the route record, without its identity
          requested,  \* the canonical route it is validated against
          workerCap,
          altered     \* how many of its fields are not what execution left

vars == <<claimed, requested, workerCap, altered>>

(* The ready batches an execution can leave, on a host and at a place in   *)
(* it; the permits may be out with other issuers.                          *)
Batches(workloads) ==
  {<<h, ReadyBatch(ordinal, w, WorkerCap, h, permits)>> :
     h \in Hosts, ordinal \in 0..1, w \in workloads, permits \in {0, WorkerCap}}
Left           == Batches(Workloads)
LeftAtStarting == Batches(Starting)

Traces(h) ==
  LET At(place) == {b[2] : b \in {c \in LeftAtStarting : c[1] = h /\ c[2].ordinal = place - 1}}
  IN  {<<>>} \cup {<<a>> : a \in At(1)} \cup {<<a, b>> : a \in At(1), b \in At(2)}
Honest(h) == {Candidate(Summary(t), h) : t \in Traces(h)}

Capped(records, c) == {MachineRecord(r, "benchmark", "fixture", "stage", c) : r \in records}

Init ==
  /\ requested \in {"serial_oracle", "adaptive_candidate"}
  /\ workerCap \in {1, WorkerCap}
  /\ \E h \in Hosts :
       claimed \in Capped(IF requested = "serial_oracle" THEN {SerialOracle(h)}
                          ELSE IF workerCap = 1 THEN {Candidate(TargetFallback, h)}
                          ELSE Honest(h), workerCap)
  /\ altered = 0

Small    == 0..3
Optional == {Null} \cup {Some(n) : n \in Small}

Values(field) ==
  CASE field \in {"executor_batches", "serial_batches", "native_batches", "budget_fallback_batches",
                  "estimated_work_bytes", "available_parallelism", "selected_worker_count",
                  "leased_worker_count", "static_chunk_size"} -> Optional
    [] field \in {"max_native_worker_count", "host_available_parallelism", "worker_cap",
                  "ordinal", "job_count"} -> Small
    [] field \in {"work_gate_evaluated", "parallelism_gate_evaluated", "budget_gate_evaluated"} -> BOOLEAN
    [] field = "effective" ->
         {"serial_oracle", "bounded_native", "mixed_native_and_serial", "ready_batch_serial_fallback",
          "budget_serial_fallback", "target_serial_fallback"}
    [] field = "work_estimate_status" -> {"not_evaluated", "available", "overflow"}
    [] field = "budget_acquisition_result" -> {"not_evaluated", "acquired", "unavailable"}
    [] field = "selected_mode" -> {"serial", "native_parallel"}
    [] field = "selection_reason" ->
         {"below_min_jobs", "work_estimate_overflow", "below_min_estimated_work_bytes",
          "insufficient_available_parallelism", "worker_budget_unavailable", "bounded_native"}

RecordFields == {"effective", "executor_batches", "serial_batches", "native_batches",
                 "budget_fallback_batches", "max_native_worker_count", "worker_cap",
                 "host_available_parallelism"}

Told == IF claimed.ready_batches = Null THEN <<>> ELSE claimed.ready_batches[1]

AlterRecord ==
  \E field \in RecordFields : \E v \in Values(field) :
    claimed' = [claimed EXCEPT ![field] = v]

(* A record loses its ready batches, or has some where none are told of.   *)
AlterBatches ==
  \/ Told # <<>> /\ claimed' = [claimed EXCEPT !.ready_batches = Some(Front(Told))]
  \/ claimed' = [claimed EXCEPT !.ready_batches = IF claimed.ready_batches = Null THEN Some(<<>>) ELSE Null]

AlterBatch ==
  \E i \in DOMAIN Told :
    \/ \E field \in ReadyBatchFields \ {"static_chunks"} : \E v \in Values(field) :
         claimed' = [claimed EXCEPT !.ready_batches[1][i][field] = v]
    \/ Told[i].static_chunks # Null /\ claimed' = [claimed EXCEPT !.ready_batches[1][i].static_chunks = Null]

AlterChunk ==
  \E i \in DOMAIN Told :
    /\ Told[i].static_chunks # Null
    /\ LET chunks == Told[i].static_chunks[1]
       IN  \/ \E k \in DOMAIN chunks : \E field \in StaticChunkFields : \E v \in Small :
                claimed' = [claimed EXCEPT !.ready_batches[1][i].static_chunks[1][k][field] = v]
           \/ chunks # <<>>
              /\ claimed' = [claimed EXCEPT !.ready_batches[1][i].static_chunks[1] = Front(@)]

Alter ==
  /\ altered < MaxAltered
  /\ altered' = altered + 1
  /\ \/ AlterRecord \/ AlterBatches \/ AlterBatch \/ AlterChunk
  /\ UNCHANGED <<requested, workerCap>>

Spec == Init /\ [][Alter]_vars

Leaves(host, batch) == \E b \in Left : /\ b[1] = host
                                       /\ b[2].job_count = batch.job_count
                                       /\ b[2].estimated_work_bytes = batch.estimated_work_bytes
                                       /\ b[2] = batch

(* Some execution on this host leaves this record for the route.           *)
Produced(host) ==
  claimed \in
    Capped(IF requested = "serial_oracle" THEN {SerialOracle(host)}
           ELSE IF workerCap = 1 THEN {Candidate(TargetFallback, host)}
           ELSE IF /\ claimed.ready_batches # Null
                   /\ \A i \in DOMAIN Told : Told[i].ordinal = i - 1 /\ Leaves(host, Told[i])
           THEN {Candidate(Summary(Told), host)}
           ELSE {}, workerCap)

(* The validator accepts a record exactly when some execution under the    *)
(* cap, on the host the record names, could have left it                   *)
(* (route_record_semantics_are_valid).                                     *)
AcceptsExactlyProduced ==
  RecordValid(claimed, requested, workerCap)
    <=> claimed.host_available_parallelism # 0 /\ Produced(claimed.host_available_parallelism)
=============================================================================
