-------------------------- MODULE IssuanceExecution --------------------------
(***************************************************************************)
(* Execution of issuance plans with AdaptiveIssuanceExecutor               *)
(* (src/issuer/issuance_plan.rs). Every request walks its plan depth       *)
(* first, in its own thread. When it leaves a container, the jobs gathered *)
(* there - the disclosures of its entries and its decoys - are one ready   *)
(* batch, executed serially or on leased worker threads, and restored      *)
(* before the walk goes on. The requests of a process share the permits.   *)
(*                                                                         *)
(* The frames of the recursion are kept by location; the order that sort   *)
(* gives the digests of an object is left out.                             *)
(***************************************************************************)
EXTENDS IssuancePlans, Permits

CONSTANTS Requests,      (* calls of IssuancePlan::execute...              *)
          Capacity,      (* MAX_PARALLEL_ISSUANCE_WORKERS                  *)
          MinJobs,       (* thresholds.min_jobs                            *)
          ThreadCounts   (* answers of available_parallelism               *)

ASSUME IssuanceAssumption ==
  /\ IsFiniteSet(Requests)
  /\ Capacity \in Nat \ {0, 1} /\ MinJobs \in Nat
  /\ ThreadCounts \subseteq Nat \ {0}

VARIABLES plan,         (* the plan of each request                        *)
          at,           (* the location its walk is about to leave, by its *)
                        (* place in PostOrder                              *)
          pc,           (* what it is doing there                          *)
          taken,        (* jobs taken from the registry                    *)
          outcomes,     (* what the executor returned for the batch        *)
          ready,        (* the jobs vector of each enclosing container     *)
          built,        (* digest lists assembled so far, by container     *)
          disclosures,  (* results recorded by ordinal: {} or {disclosure} *)
          available,    (* permits left in the process-wide budget         *)
          lease,        (* permits the request holds                       *)
          spawned,      (* threads spawned for the batch                   *)
          spawnFailed,
          thread,       (* and the state of each                           *)
          answer

walk     == <<plan, at, taken, ready, built, disclosures>>
executor == <<available, lease, outcomes, spawned, spawnFailed, thread>>
vars     == <<walk, pc, executor, answer>>

NoAnswer  == [kind |-> "none"]
NoThreads == [k \in 1..Capacity |-> "none"]

Init ==
  /\ plan \in [Requests -> Plans]
  /\ at = [r \in Requests |-> 1]
  /\ pc = [r \in Requests |-> "begin"]
  /\ taken = [r \in Requests |-> {}]
  /\ ready = [r \in Requests |-> [l \in Locations(plan[r]) |-> <<>>]]
  /\ built = [r \in Requests |-> <<>>]
  /\ disclosures = [r \in Requests |-> [o \in DOMAIN DisclosureJobIds[plan[r]] |-> {}]]
  /\ available = Capacity
  /\ lease = [r \in Requests |-> 0]
  /\ outcomes = [r \in Requests |-> <<>>]
  /\ spawned = [r \in Requests |-> 0]
  /\ spawnFailed = [r \in Requests |-> FALSE]
  /\ thread = [r \in Requests |-> NoThreads]
  /\ answer = [r \in Requests |-> NoAnswer]

Goto(r, l) == pc' = [pc EXCEPT ![r] = l]

Answer(r, a) == Goto(r, "done") /\ answer' = [answer EXCEPT ![r] = a]

Fails(r, why) == Answer(r, [kind |-> why])

Here(r) == PostOrder[plan[r]][at[r]]

-----------------------------------------------------------------------------
(* The walk.                                                               *)

(* SerialAssembler::new validates the plan before anything is assembled.   *)
Begin(r) ==
  /\ pc[r] = "begin"
  /\ IF RegistryValid(plan[r]) THEN Goto(r, "gather") /\ UNCHANGED answer
                              ELSE Fails(r, "invalid")
  /\ UNCHANGED <<walk, executor>>

(* IssuancePlan::execute has no qualified thresholds, so an issuance that  *)
(* does not ask for the candidate neither leases nor spawns.               *)
IssueSerially(r) ==
  /\ pc[r] = "begin"
  /\ RegistryValid(plan[r])
  /\ Answer(r, [kind |-> "assembly",
                claims |-> SerialAssembly[plan[r]].claims,
                disclosures |-> SerialAssembly[plan[r]].disclosures])
  /\ UNCHANGED <<walk, executor>>

(* take_planned_job, for every id of a set.                                *)
Takes(r, ids, l, kind) ==
  /\ ids \cap taken[r] = {}
  /\ \A id \in ids :
       id \in DOMAIN Jobs[plan[r]] /\ Jobs[plan[r]][id] = [location |-> l, kind |-> kind]

(* The entries of the location are behind: its decoys join the batch.      *)
Gather(r) ==
  LET l      == Here(r)
      decoys == DecoyIds[plan[r]][l]
  IN  /\ pc[r] = "gather"
      /\ \/ /\ plan[r].kind[l] = "scalar"
            /\ Goto(r, "leave")
            /\ UNCHANGED <<taken, ready, answer>>
         \/ /\ plan[r].kind[l] # "scalar"
            /\ ~ Takes(r, ToSet(decoys), l, "decoy")
            /\ Fails(r, "invalid")
            /\ UNCHANGED <<taken, ready>>
         \/ /\ plan[r].kind[l] # "scalar"
            /\ Takes(r, ToSet(decoys), l, "decoy")
            /\ taken' = [taken EXCEPT ![r] = @ \cup ToSet(decoys)]
            /\ ready' = [ready EXCEPT ![r][l] =
                           @ \o [i \in DOMAIN decoys |->
                                   [job |-> decoys[i], ordinal |-> 0, value |-> <<>>]]]
            /\ Goto(r, IF ready'[r][l] = <<>> THEN "restore" ELSE "select")
            /\ UNCHANGED answer
      /\ UNCHANGED <<plan, at, built, disclosures, executor>>

(* Slip: the value is taken without what is nested in it.                  *)
InsideShallow(r, l) == [m \in {l} \cap DOMAIN built[r] |-> built[r][m]]

(* What has been assembled inside the value at l.                          *)
Inside(r, l) == [m \in Containers(plan[r], l) \cap DOMAIN built[r] |-> built[r][m]]

Leave(r) ==
  LET l  == Here(r)
      id == DisclosureId[plan[r]][l]
  IN  /\ pc[r] = "leave"
      /\ l # 1
      /\ \/ /\ ~ plan[r].sd[l]
            /\ Goto(r, "gather")
            /\ UNCHANGED <<taken, ready, answer>>
         \/ /\ plan[r].sd[l]
            /\ ~ Takes(r, {id}, l, DisclosureKind(plan[r], l))
            /\ Fails(r, "invalid")
            /\ UNCHANGED <<taken, ready>>
         \/ /\ plan[r].sd[l]
            /\ Takes(r, {id}, l, DisclosureKind(plan[r], l))
            /\ taken' = [taken EXCEPT ![r] = @ \cup {id}]
            /\ ready' = [ready EXCEPT ![r][Parent[plan[r]][l]] =
                           Append(@, [job     |-> id,
                                      ordinal |-> Ordinal[plan[r]][id],
                                      value   |-> Inside(r, l)])]
            /\ Goto(r, "gather")
            /\ UNCHANGED answer
      /\ at' = [at EXCEPT ![r] = @ + 1]
      /\ UNCHANGED <<plan, built, disclosures, executor>>

Finish(r) ==
  /\ pc[r] = "leave"
  /\ Here(r) = 1
  /\ IF taken[r] = DOMAIN Jobs[plan[r]] /\ \A o \in DOMAIN disclosures[r] : disclosures[r][o] # {}
     THEN Answer(r, [kind |-> "assembly",
                     claims |-> Inside(r, 1),
                     disclosures |-> [o \in DOMAIN disclosures[r] |->
                                        CHOOSE d \in disclosures[r][o] : TRUE]])
     ELSE Fails(r, "invalid")
  /\ UNCHANGED <<walk, executor>>

-----------------------------------------------------------------------------
(* A ready batch.                                                          *)

Lesser(a, b) == IF a <= b THEN a ELSE b

Batch(r) == ready[r][Here(r)]

WorkerCount(r, t) == Lesser(Lesser(t, Capacity), Len(Batch(r)))

Parallel(r, t) ==
  /\ Len(Batch(r)) >= MinJobs
  /\ plan[r].heavy[Here(r)]
  /\ WorkerCount(r, t) >= 2

Leases(r, n) ==
  /\ available' = available - n
  /\ lease' = [lease EXCEPT ![r] = n]
  /\ Goto(r, "spawn")
  /\ UNCHANGED outcomes

(* SerialIssuanceExecutor neither leases nor spawns.                       *)
Serially(r) ==
  /\ outcomes' = [outcomes EXCEPT ![r] = Batch(r)]
  /\ Goto(r, "restore")
  /\ UNCHANGED <<available, lease>>

(* Slip: the batch waits for its permits.                                  *)
SelectWaits(r, t) ==
  /\ pc[r] = "select"
  /\ \/ ~ Parallel(r, t) /\ Serially(r)
     \/ Parallel(r, t) /\ WorkerCount(r, t) <= available /\ Leases(r, WorkerCount(r, t))
  /\ UNCHANGED <<walk, spawned, spawnFailed, thread, answer>>

(* select_execution_with_estimate.                                         *)
Select(r, t) ==
  /\ pc[r] = "select"
  /\ \/ ~ Parallel(r, t) /\ Serially(r)
     \/ Parallel(r, t) /\ WorkerCount(r, t) <= available /\ Leases(r, WorkerCount(r, t))
     \/ Parallel(r, t) /\ available < WorkerCount(r, t) /\ Serially(r)
  /\ UNCHANGED <<walk, spawned, spawnFailed, thread, answer>>

(* NativeParallelIssuanceExecutor::new, from the workers of the lease.     *)
Workers(r) == IF lease[r] < 1 THEN 1 ELSE Lesser(lease[r], Capacity)

ChunkSize(r) ==
  Len(Batch(r)) \div Workers(r) + (IF Len(Batch(r)) % Workers(r) = 0 THEN 0 ELSE 1)

MoreChunks(r) == spawned[r] * ChunkSize(r) < Len(Batch(r))

Spawn(r) ==
  /\ pc[r] = "spawn"
  /\ MoreChunks(r)
  /\ \/ /\ spawned' = [spawned EXCEPT ![r] = @ + 1]
        /\ thread' = [thread EXCEPT ![r][spawned[r] + 1] = "running"]
        /\ UNCHANGED <<pc, spawnFailed>>
     \/ /\ spawnFailed' = [spawnFailed EXCEPT ![r] = TRUE]
        /\ Goto(r, "join")
        /\ UNCHANGED <<spawned, thread>>
  /\ UNCHANGED <<walk, available, lease, outcomes, answer>>

SpawnEnd(r) ==
  /\ pc[r] = "spawn"
  /\ ~ MoreChunks(r)
  /\ Goto(r, "join")
  /\ UNCHANGED <<walk, executor, answer>>

WorkerEnds(r, k) ==
  /\ thread[r][k] = "running"
  /\ \E end \in {"finished", "panicked"} : thread' = [thread EXCEPT ![r][k] = end]
  /\ UNCHANGED <<walk, pc, available, lease, outcomes, spawned, spawnFailed, answer>>

(* What the joined threads return, in the order of the chunks.             *)
Returned(r) == SubSeq(Batch(r), 1, Lesser(spawned[r] * ChunkSize(r), Len(Batch(r))))

(* After every scoped thread has been joined.                              *)
Collect(r) ==
  /\ pc[r] = "join"
  /\ \A k \in 1..Capacity : thread[r][k] # "running"
  /\ spawned' = [spawned EXCEPT ![r] = 0]
  /\ spawnFailed' = [spawnFailed EXCEPT ![r] = FALSE]
  /\ thread' = [thread EXCEPT ![r] = NoThreads]
  /\ \/ /\ spawnFailed[r] \/ \E k \in 1..Capacity : thread[r][k] = "panicked"
        /\ Fails(r, "executor failed")
        /\ UNCHANGED outcomes
     \/ /\ ~ spawnFailed[r] /\ \A k \in 1..Capacity : thread[r][k] # "panicked"
        /\ outcomes' = [outcomes EXCEPT ![r] = Returned(r)]
        /\ Goto(r, "restore")
        /\ UNCHANGED answer
  /\ UNCHANGED walk

(* Slip: one permit back for each thread spawned.                          *)
DropsSpawned(r) ==
  /\ available' = available + spawned[r]
  /\ lease' = [lease EXCEPT ![r] = 0]

(* The Drop of ParallelIssuanceWorkerLease.                                *)
Drops(r) ==
  /\ available' = available + lease[r]
  /\ lease' = [lease EXCEPT ![r] = 0]

(* The lease is dropped before the outcomes are restored, or the failure   *)
(* returned.                                                               *)
ExecuteEnd(r) == Collect(r) /\ Drops(r)

(* The outcomes are restored to their planned places (OutcomeRestoration): *)
(* disclosures are recorded by ordinal, digests put in the container.      *)
Restored(r, o) == {j \in ToSet(Batch(r)) : j.ordinal = o}

Recordable(r, o) ==
  \A j \in Restored(r, o) : DisclosureJobIds[plan[r]][o] = j.job /\ disclosures[r][o] = {}

(* A product of either kind leaves its digest.                             *)
RestoredDigests(r) == [i \in DOMAIN Batch(r) |-> Batch(r)[i].job]

Restore(r) ==
  LET l    == Here(r)
      fits == /\ ToSet(outcomes[r]) = ToSet(Batch(r))
              /\ \A o \in DOMAIN disclosures[r] : Recordable(r, o)
  IN  /\ pc[r] = "restore"
      /\ \/ /\ ~ fits
            /\ Fails(r, "invalid")
            /\ UNCHANGED <<built, disclosures, ready>>
         \/ /\ fits
            /\ disclosures' = [disclosures EXCEPT ![r] = [o \in DOMAIN @ |->
                 @[o] \cup {[job |-> j.job, value |-> j.value] : j \in Restored(r, o)}]]
            /\ built' = [built EXCEPT ![r] = [m \in DOMAIN @ \cup {l} |->
                 IF m = l THEN RestoredDigests(r) ELSE @[m]]]
            /\ ready' = [ready EXCEPT ![r][l] = <<>>]
            /\ Goto(r, "leave")
            /\ UNCHANGED answer
      /\ outcomes' = [outcomes EXCEPT ![r] = <<>>]
      /\ UNCHANGED <<plan, at, taken, available, lease, spawned, spawnFailed, thread>>

-----------------------------------------------------------------------------
CallerStep(r) ==
  \/ Begin(r) \/ IssueSerially(r)
  \/ Gather(r) \/ Leave(r) \/ Finish(r)
  \/ \E t \in ThreadCounts : Select(r, t)
  \/ Spawn(r) \/ SpawnEnd(r) \/ ExecuteEnd(r)
  \/ Restore(r)

Next == \E r \in Requests : CallerStep(r) \/ \E k \in 1..Capacity : WorkerEnds(r, k)

Spec == Init /\ [][Next]_vars

(* The operating system schedules the threads of request r.                *)
Scheduled(r) == WF_vars(CallerStep(r)) /\ \A k \in 1..Capacity : WF_vars(WorkerEnds(r, k))

-----------------------------------------------------------------------------
(* Whatever the batches were executed with, an issuance that succeeds      *)
(* yields the serial assembly: every disclosure under its ordinal, with    *)
(* the digests that belong inside it, and every digest list complete.      *)
SameAsSerial ==
  \A r \in Requests :
    answer[r].kind = "assembly" =>
      /\ answer[r].claims = SerialAssembly[plan[r]].claims
      /\ answer[r].disclosures = SerialAssembly[plan[r]].disclosures

(* The identities in the plan's tree and those of its registry agree       *)
(* whatever the shape, and its chunks cover every batch: an issuance fails *)
(* only when threads cannot be spawned or panic.                           *)
NeverInvalid == \A r \in Requests : answer[r].kind # "invalid"

(* Every worker thread that runs occupies a permit of its request, and     *)
(* permits are neither lost nor made by failed spawns and panics.          *)
ThreadsWithinBudget ==
  /\ available + Cardinality(PermitsOf(Requests, Capacity, lease)) = Capacity
  /\ {p \in Requests \X (1..Capacity) : thread[p[1]][p[2]] = "running"}
       \subseteq PermitsOf(Requests, Capacity, lease)
=============================================================================
