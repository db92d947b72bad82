-------------------- MODULE DisclosurePreprocessingProofs --------------------
(***************************************************************************)
(* Disclosure preprocessing respects its budget for any requests, inputs,  *)
(* cutoffs and thread counts: permits are conserved, every running worker  *)
(* thread occupies one, and the process never runs more worker threads     *)
(* than the capacity. And it answers as the serial loop does, however the  *)
(* workers finish, or tells the failure of the request's own threads.      *)
(***************************************************************************)
EXTENDS DisclosurePreprocessing, CountingLemmas, SequenceTheorems, TLAPS

USE DEF CallerLabels, ThreadStates

-----------------------------------------------------------------------------
(* The chunk layout.                                                       *)

(* static_chunk_size: the chunks of as many workers cover all the jobs.    *)
LEMMA ChunksCover ==
  ASSUME NEW n \in Nat, NEW w \in Nat \ {0}
  PROVE  /\ StaticChunkSize(n, w) \in Nat
         /\ w * StaticChunkSize(n, w) >= n
BY CeilingCovers DEF StaticChunkSize, Ceiling

(* So whoever still finds jobs behind s chunks has spawned fewer workers   *)
(* than it has leased.                                                     *)
LEMMA ChunkCountBounded ==
  ASSUME NEW n \in Nat, NEW w \in Nat \ {0}, NEW s \in Nat,
         s * StaticChunkSize(n, w) < n
  PROVE  s < w
BY CeilingBounds DEF StaticChunkSize, Ceiling

-----------------------------------------------------------------------------
(* The inductive invariant.                                                *)

(* A lease is held exactly from its acquisition to the end of the executor *)
(* and is as large as the layout asks for.                                 *)
LeaseMatchesPc(r) ==
  /\ pc[r] \in {"balance", "spawn", "join"} => lease[r] > 1 /\ Len(input[r]) > 1
  /\ pc[r] \notin {"balance", "spawn", "join"} => lease[r] = 0
  /\ pc[r] = "acquire" => WorkerCount(input[r], threads[r]) > 1

(* The executor's three counters: what is joined was spawned, what was     *)
(* spawned was leased, and when no executor runs everything is joined.     *)
CountersOrdered(r) ==
  /\ joined[r] <= spawned[r]
  /\ pc[r] \in {"spawn", "join"} => spawned[r] <= lease[r]
  /\ pc[r] \in {"start", "acquire", "balance", "serial"} => spawned[r] = 0 /\ ~ spawnFailed[r]
  /\ pc[r] \notin {"spawn", "join"} => joined[r] = spawned[r]

(* Threads exist from spawn on, and a joined thread has ended.             *)
ThreadsMatchCounters(r) ==
  \A k \in 1..Capacity :
    /\ thread[r][k] = "none" <=> k > spawned[r]
    /\ k <= joined[r] => thread[r][k] # "running"

RequestInv(r) ==
  /\ LeaseMatchesPc(r)
  /\ CountersOrdered(r)
  /\ ThreadsMatchCounters(r)

IInv ==
  /\ TypeOK
  /\ Conservation
  /\ \A r \in Requests : RequestInv(r)

LEMMA BudgetConstants == Capacity \in Nat /\ Capacity > 1 /\ IsFiniteSet(Requests)
BY PreprocessingAssumption

LEMMA InputsAreLists ==
  ASSUME NEW in \in Inputs
  PROVE  in \in Seq(Encoded) /\ Len(in) \in Nat
BY PreprocessingAssumption

(* A worker count that passed the filter on more than one fits the budget. *)
LEMMA WorkerCountFits ==
  ASSUME NEW in \in Inputs, NEW t \in Nat, WorkerCount(in, t) > 1
  PROVE  /\ WorkerCount(in, t) \in Nat
         /\ WorkerCount(in, t) <= Capacity
         /\ Len(in) > 1
<1>1. Len(in) \in Nat /\ Capacity \in Nat
  BY BudgetConstants, InputsAreLists
<1>2. \A n, c \in Nat : Lesser(Lesser(t, n), c) > 1 =>
          /\ Lesser(Lesser(t, n), c) \in Nat
          /\ Lesser(Lesser(t, n), c) <= c
          /\ n > 1
  BY DEF Lesser
<1> QED
  BY <1>1, <1>2 DEF WorkerCount

LEMMA InitHolds == Init => IInv
<1> SUFFICES ASSUME Init PROVE IInv
  OBVIOUS
<1> USE BudgetConstants DEF Init
<1>1. TypeOK
  BY DEF TypeOK, NoThreads
<1>2. PermitsOf(Requests, Capacity, lease) = {}
  BY DEF PermitsOf
<1>3. Cardinality(PermitsOf(Requests, Capacity, lease)) = 0
  BY <1>2, FS_EmptySet
<1>4. \A r \in Requests : RequestInv(r)
  BY DEF RequestInv, LeaseMatchesPc, CountersOrdered, ThreadsMatchCounters, NoThreads
<1> QED
  BY <1>1, <1>3, <1>4 DEF IInv, Conservation

-----------------------------------------------------------------------------
(* Steps that leave the budget alone keep the permits conserved; the two   *)
(* that do not are treated on their own.                                   *)

LEMMA AcquireConserves ==
  ASSUME IInv, NEW r \in Requests, NEW w \in 0..Capacity, lease[r] = 0,
         available' = available - w, lease' = [lease EXCEPT ![r] = w]
  PROVE  Conservation'
<1> DEFINE Out(f) == Cardinality(PermitsOf(Requests, Capacity, f))
<1> USE BudgetConstants
<1>1. lease \in [Requests -> Nat] /\ available \in Nat /\ available + Out(lease) = Capacity
  BY DEF IInv, TypeOK, Conservation
<1>2. Out(lease) \in Nat
  BY <1>1, PermitsFinite
<1>3. Out([lease EXCEPT ![r] = w]) = Out(lease) + w
  BY <1>1, PermitsGrow
<1> QED
  BY <1>1, <1>2, <1>3 DEF Conservation

LEMMA ReleaseConserves ==
  ASSUME IInv, NEW r \in Requests, ReleaseLease(r)
  PROVE  Conservation' /\ available' \in Nat
<1> DEFINE Out(f) == Cardinality(PermitsOf(Requests, Capacity, f))
<1> USE BudgetConstants
<1>1. lease \in [Requests -> Nat] /\ available \in Nat /\ available + Out(lease) = Capacity
  BY DEF IInv, TypeOK, Conservation
<1>2. Out(lease) \in Nat /\ lease[r] \in 0..Capacity
  BY <1>1, PermitsFinite DEF IInv, TypeOK
<1>3. Out([lease EXCEPT ![r] = 0]) = Out(lease) - lease[r]
  BY <1>1, <1>2, PermitsShrink
<1>4. available' = available + lease[r] /\ lease' = [lease EXCEPT ![r] = 0]
  BY DEF ReleaseLease
<1> QED
  BY <1>1, <1>2, <1>3, <1>4 DEF Conservation

LEMMA UntouchedConserves ==
  ASSUME IInv, UNCHANGED budget
  PROVE  Conservation'
BY DEF IInv, Conservation, budget

-----------------------------------------------------------------------------
(* One lemma per action.                                                   *)

LEMMA SelectStep ==
  ASSUME IInv, NEW r \in Requests, Select(r)
  PROVE  IInv'
<1> USE DEF Select, Goto, pool, budget
<1>1. TypeOK'
  BY PreprocessingAssumption DEF IInv, TypeOK
<1>2. PICK l \in {"serial", "acquire"} :
        /\ pc[r] = "start"
        /\ pc' = [pc EXCEPT ![r] = l]
        /\ UNCHANGED <<input, budget, pool>>
        /\ \A q \in Requests : q # r => threads'[q] = threads[q]
        /\ l = "acquire" => WorkerCount(input[r], threads'[r]) > 1
  BY DEF IInv, TypeOK
<1>3. ASSUME NEW q \in Requests PROVE RequestInv(q)'
  BY <1>2, <1>3 DEF IInv, TypeOK, RequestInv, LeaseMatchesPc, CountersOrdered, ThreadsMatchCounters
<1>4. Conservation'
  BY UntouchedConserves
<1> QED
  BY <1>1, <1>3, <1>4 DEF IInv

LEMMA TryAcquireStep ==
  ASSUME IInv, NEW r \in Requests, TryAcquire(r)
  PROVE  IInv'
<1> DEFINE w == WorkerCount(input[r], threads[r])
<1>1. w \in Nat /\ w > 1 /\ w <= Capacity /\ Len(input[r]) > 1 /\ lease[r] = 0
  BY WorkerCountFits DEF TryAcquire, IInv, TypeOK, RequestInv, LeaseMatchesPc
<1>2. pc[r] = "acquire" /\ UNCHANGED <<input, threads, pool>>
  BY DEF TryAcquire
<1>3. \/ /\ w <= available
         /\ available' = available - w
         /\ lease' = [lease EXCEPT ![r] = w]
         /\ pc' = [pc EXCEPT ![r] = "balance"]
      \/ /\ pc' = [pc EXCEPT ![r] = "serial"]
         /\ UNCHANGED budget
  BY DEF TryAcquire, Goto
<1> HIDE DEF w
<1>4. ASSUME w <= available, available' = available - w,
             lease' = [lease EXCEPT ![r] = w], pc' = [pc EXCEPT ![r] = "balance"]
      PROVE  IInv'
  <2>1. TypeOK'
    BY <1>1, <1>2, <1>4, BudgetConstants DEF IInv, TypeOK, pool
  <2>2. ASSUME NEW q \in Requests PROVE RequestInv(q)'
    BY <1>1, <1>2, <1>4, <2>2
       DEF IInv, TypeOK, pool, RequestInv, LeaseMatchesPc, CountersOrdered, ThreadsMatchCounters
  <2>3. w \in 0..Capacity
    BY <1>1, BudgetConstants
  <2>4. Conservation'
    BY <1>1, <1>4, <2>3, AcquireConserves
  <2> QED
    BY <2>1, <2>2, <2>4 DEF IInv
<1>5. ASSUME pc' = [pc EXCEPT ![r] = "serial"], UNCHANGED budget
      PROVE  IInv'
  <2>1. TypeOK'
    BY <1>2, <1>5 DEF IInv, TypeOK, pool, budget
  <2>2. ASSUME NEW q \in Requests PROVE RequestInv(q)'
    BY <1>1, <1>2, <1>5, <2>2
       DEF IInv, TypeOK, pool, budget, RequestInv, LeaseMatchesPc, CountersOrdered, ThreadsMatchCounters
  <2>3. Conservation'
    BY <1>5, UntouchedConserves
  <2> QED
    BY <2>1, <2>2, <2>3 DEF IInv
<1> QED
  BY <1>3, <1>4, <1>5

LEMMA SelectModeStep ==
  ASSUME IInv, NEW r \in Requests, SelectMode(r)
  PROVE  IInv'
<1> USE DEF SelectMode, Goto, pool, budget
<1>1. CASE Goto(r, "spawn") /\ UNCHANGED budget
  <2>1. TypeOK'
    BY <1>1 DEF IInv, TypeOK
  <2>2. ASSUME NEW q \in Requests PROVE RequestInv(q)'
    BY <1>1, <2>2 DEF IInv, TypeOK, RequestInv, LeaseMatchesPc, CountersOrdered, ThreadsMatchCounters
  <2>3. Conservation'
    BY <1>1, UntouchedConserves
  <2> QED
    BY <2>1, <2>2, <2>3 DEF IInv
<1>2. CASE ReleaseLease(r) /\ Goto(r, "serial")
  <2>1. Conservation' /\ available' \in Nat
    BY <1>2, ReleaseConserves
  <2>2. TypeOK'
    BY <1>2, <2>1, BudgetConstants DEF IInv, TypeOK, ReleaseLease
  <2>3. ASSUME NEW q \in Requests PROVE RequestInv(q)'
    BY <1>2, <2>3, BudgetConstants
       DEF IInv, TypeOK, ReleaseLease, RequestInv, LeaseMatchesPc, CountersOrdered, ThreadsMatchCounters
  <2> QED
    BY <2>1, <2>2, <2>3 DEF IInv
<1> QED
  BY <1>1, <1>2

(* The serial loop touches no counter, thread or permit.                   *)
LEMMA SerialSteps ==
  ASSUME IInv, NEW r \in Requests, SerialStep(r) \/ SerialEnd(r)
  PROVE  IInv'
<1>1. /\ pc[r] = "serial"
      /\ pc' = [pc EXCEPT ![r] = "done"] \/ UNCHANGED pc
      /\ UNCHANGED <<input, threads, budget, pool>>
  BY DEF SerialStep, SerialEnd, Answer, Goto
<1>2. TypeOK'
  BY <1>1 DEF IInv, TypeOK, budget, pool
<1>3. ASSUME NEW q \in Requests PROVE RequestInv(q)'
  BY <1>1, <1>3 DEF IInv, TypeOK, budget, pool,
                    RequestInv, LeaseMatchesPc, CountersOrdered, ThreadsMatchCounters
<1>4. Conservation'
  BY <1>1, UntouchedConserves
<1> QED
  BY <1>2, <1>3, <1>4 DEF IInv

(* The spawn loop stops before it outgrows the lease: with s threads       *)
(* spawned there is a further chunk only if s is below the worker count.   *)
LEMMA SpawnFits ==
  ASSUME IInv, NEW r \in Requests, pc[r] = "spawn", MoreChunks(r)
  PROVE  spawned[r] + 1 <= lease[r]
<1> DEFINE n == Len(input[r])
           w == Lesser(lease[r], n)
<1>1. n \in Nat /\ n > 1 /\ lease[r] \in Nat /\ lease[r] > 1 /\ spawned[r] \in Nat
  BY InputsAreLists, BudgetConstants DEF IInv, TypeOK, RequestInv, LeaseMatchesPc
<1>2. w \in Nat \ {0} /\ w <= lease[r]
  BY <1>1 DEF Lesser
<1>3. spawned[r] * StaticChunkSize(n, w) < n
  BY DEF MoreChunks, ExecutorChunkSize
<1> HIDE DEF n, w
<1>4. spawned[r] < w
  BY <1>1, <1>2, <1>3, ChunkCountBounded
<1> QED
  BY <1>1, <1>2, <1>4

LEMMA SpawnStep ==
  ASSUME IInv, NEW r \in Requests, Spawn(r)
  PROVE  IInv'
<1>1. pc[r] = "spawn" /\ MoreChunks(r) /\ UNCHANGED <<input, threads, budget, joined>>
  BY DEF Spawn
<1>2. \/ /\ spawned' = [spawned EXCEPT ![r] = spawned[r] + 1]
         /\ thread' = [thread EXCEPT ![r] = [thread[r] EXCEPT ![spawned[r] + 1] = "running"]]
         /\ UNCHANGED <<pc, spawnFailed>>
      \/ /\ spawnFailed' = [spawnFailed EXCEPT ![r] = TRUE]
         /\ pc' = [pc EXCEPT ![r] = "join"]
         /\ UNCHANGED <<spawned, thread>>
  BY DEF Spawn, Goto
<1>3. spawned[r] \in Nat /\ spawned[r] + 1 <= lease[r] /\ lease[r] <= Capacity
  BY <1>1, SpawnFits, BudgetConstants DEF IInv, TypeOK
<1>4. Conservation'
  BY <1>1, UntouchedConserves
<1>5. ASSUME spawned' = [spawned EXCEPT ![r] = spawned[r] + 1],
             thread' = [thread EXCEPT ![r] = [thread[r] EXCEPT ![spawned[r] + 1] = "running"]],
             UNCHANGED <<pc, spawnFailed>>
      PROVE  IInv'
  <2>1. TypeOK'
    BY <1>1, <1>3, <1>5, BudgetConstants DEF IInv, TypeOK, budget
  <2>2. ASSUME NEW q \in Requests PROVE LeaseMatchesPc(q)' /\ CountersOrdered(q)'
    BY <1>1, <1>3, <1>5, <2>2, BudgetConstants
       DEF IInv, TypeOK, budget, RequestInv, LeaseMatchesPc, CountersOrdered
  <2>3. ASSUME NEW q \in Requests PROVE ThreadsMatchCounters(q)'
    <3>1. CASE q = r
      BY <1>1, <1>3, <1>5, <2>3, <3>1, BudgetConstants
         DEF IInv, TypeOK, RequestInv, CountersOrdered, ThreadsMatchCounters
    <3>2. CASE q # r
      BY <1>1, <1>5, <2>3, <3>2 DEF IInv, TypeOK, RequestInv, ThreadsMatchCounters
    <3> QED
      BY <3>1, <3>2
  <2> QED
    BY <1>4, <2>1, <2>2, <2>3 DEF IInv, RequestInv
<1>6. ASSUME spawnFailed' = [spawnFailed EXCEPT ![r] = TRUE],
             pc' = [pc EXCEPT ![r] = "join"],
             UNCHANGED <<spawned, thread>>
      PROVE  IInv'
  <2>1. TypeOK'
    BY <1>1, <1>6 DEF IInv, TypeOK, budget
  <2>2. ASSUME NEW q \in Requests PROVE RequestInv(q)'
    BY <1>1, <1>6, <2>2 DEF IInv, TypeOK, budget,
       RequestInv, LeaseMatchesPc, CountersOrdered, ThreadsMatchCounters
  <2> QED
    BY <1>4, <2>1, <2>2 DEF IInv
<1> QED
  BY <1>2, <1>5, <1>6

LEMMA SpawnEndStep ==
  ASSUME IInv, NEW r \in Requests, SpawnEnd(r)
  PROVE  IInv'
<1> USE DEF SpawnEnd, Goto, pool, budget
<1>1. TypeOK'
  BY DEF IInv, TypeOK
<1>2. ASSUME NEW q \in Requests PROVE RequestInv(q)'
  BY <1>2 DEF IInv, TypeOK, RequestInv, LeaseMatchesPc, CountersOrdered, ThreadsMatchCounters
<1>3. Conservation'
  BY UntouchedConserves
<1> QED
  BY <1>1, <1>2, <1>3 DEF IInv

LEMMA WorkerEndsStep ==
  ASSUME IInv, NEW r \in Requests, NEW k \in 1..Capacity, WorkerEnds(r, k)
  PROVE  IInv'
<1>1. PICK end \in {"finished", "panicked"} :
        thread' = [thread EXCEPT ![r] = [thread[r] EXCEPT ![k] = end]]
  BY DEF WorkerEnds
<1>2. thread[r][k] = "running" /\ UNCHANGED <<input, pc, threads, budget, spawned, spawnFailed, joined>>
  BY DEF WorkerEnds
<1>3. TypeOK'
  BY <1>1, <1>2 DEF IInv, TypeOK, budget
<1>4. ASSUME NEW q \in Requests PROVE RequestInv(q)'
  BY <1>1, <1>2, <1>4 DEF IInv, TypeOK, budget,
     RequestInv, LeaseMatchesPc, CountersOrdered, ThreadsMatchCounters
<1>5. Conservation'
  BY <1>2, UntouchedConserves
<1> QED
  BY <1>3, <1>4, <1>5 DEF IInv

LEMMA JoinStep ==
  ASSUME IInv, NEW r \in Requests, Join(r)
  PROVE  IInv'
<1>1. /\ pc[r] = "join"
      /\ joined[r] + 1 <= spawned[r]
      /\ thread[r][joined[r] + 1] \in {"finished", "panicked"}
      /\ joined' = [joined EXCEPT ![r] = joined[r] + 1]
      /\ UNCHANGED <<input, pc, threads, budget, spawned, spawnFailed, thread>>
  BY DEF Join
<1>2. joined[r] \in Nat /\ spawned[r] \in 0..Capacity
  BY BudgetConstants DEF IInv, TypeOK
<1>3. TypeOK'
  BY <1>1, <1>2, BudgetConstants DEF IInv, TypeOK, budget
<1>4. ASSUME NEW q \in Requests PROVE LeaseMatchesPc(q)' /\ CountersOrdered(q)'
  BY <1>1, <1>2, <1>4, BudgetConstants
     DEF IInv, TypeOK, budget, RequestInv, LeaseMatchesPc, CountersOrdered
<1>5. ASSUME NEW q \in Requests, NEW i \in 1..Capacity
      PROVE  /\ thread'[q][i] = "none" <=> i > spawned'[q]
             /\ i <= joined'[q] => thread'[q][i] # "running"
  <2>1. CASE q = r /\ i = joined[r] + 1
    BY <1>1, <1>2, <1>5, <2>1, BudgetConstants DEF IInv, RequestInv, ThreadsMatchCounters
  <2>2. CASE q = r /\ i # joined[r] + 1
    <3>1. i <= joined[r] + 1 => i <= joined[r]
      BY <1>2, <1>5, <2>2, BudgetConstants
    <3> QED
      BY <1>1, <1>5, <2>2, <3>1 DEF IInv, TypeOK, RequestInv, ThreadsMatchCounters
  <2>3. CASE q # r
    BY <1>1, <1>5, <2>3 DEF IInv, TypeOK, RequestInv, ThreadsMatchCounters
  <2> QED
    BY <2>1, <2>2, <2>3
<1>6. Conservation'
  BY <1>1, UntouchedConserves
<1> QED
  BY <1>3, <1>4, <1>5, <1>6 DEF IInv, RequestInv, ThreadsMatchCounters

LEMMA ExecuteEndStep ==
  ASSUME IInv, NEW r \in Requests, ExecuteEnd(r)
  PROVE  IInv'
<1>1. PICK l \in {"assemble", "done"} : pc' = [pc EXCEPT ![r] = l]
  BY DEF ExecuteEnd, Answer, Goto
<1>2. /\ pc[r] = "join"
      /\ joined[r] = spawned[r]
      /\ lease' = [lease EXCEPT ![r] = 0]
      /\ UNCHANGED <<input, threads, pool>>
  BY DEF ExecuteEnd, ReleaseLease
<1>3. Conservation' /\ available' \in Nat
  BY ReleaseConserves DEF ExecuteEnd
<1>4. TypeOK'
  BY <1>1, <1>2, <1>3, BudgetConstants DEF IInv, TypeOK, pool
<1>5. ASSUME NEW q \in Requests PROVE RequestInv(q)'
  BY <1>1, <1>2, <1>5 DEF IInv, TypeOK, pool,
     RequestInv, LeaseMatchesPc, CountersOrdered, ThreadsMatchCounters
<1> QED
  BY <1>3, <1>4, <1>5 DEF IInv

LEMMA AssembleStep ==
  ASSUME IInv, NEW r \in Requests, Assemble(r)
  PROVE  IInv'
<1>1. /\ pc[r] = "assemble"
      /\ pc' = [pc EXCEPT ![r] = "done"]
      /\ UNCHANGED <<input, threads, budget, pool>>
  BY DEF Assemble, Answer, Goto
<1>2. TypeOK'
  BY <1>1 DEF IInv, TypeOK, budget, pool
<1>3. ASSUME NEW q \in Requests PROVE RequestInv(q)'
  BY <1>1, <1>3 DEF IInv, TypeOK, budget, pool,
     RequestInv, LeaseMatchesPc, CountersOrdered, ThreadsMatchCounters
<1>4. Conservation'
  BY <1>1, UntouchedConserves
<1> QED
  BY <1>2, <1>3, <1>4 DEF IInv

LEMMA StutterStep ==
  ASSUME IInv, UNCHANGED vars
  PROVE  IInv'
<1>1. TypeOK'
  BY DEF IInv, TypeOK, vars
<1>2. ASSUME NEW q \in Requests PROVE RequestInv(q)'
  BY <1>2 DEF IInv, vars, RequestInv, LeaseMatchesPc, CountersOrdered, ThreadsMatchCounters
<1>3. Conservation'
  BY DEF IInv, vars, Conservation
<1> QED
  BY <1>1, <1>2, <1>3 DEF IInv

-----------------------------------------------------------------------------

(* The inductive invariant of disclosure preprocessing.                    *)
THEOREM Invariance == Spec => []IInv
<1>1. ASSUME IInv, [Next]_vars
      PROVE  IInv'
  <2>1. CASE UNCHANGED vars
    BY <1>1, <2>1, StutterStep
  <2>2. CASE Next
    <3>1. PICK r \in Requests :
            CallerStep(r) \/ \E k \in 1..Capacity : WorkerEnds(r, k)
      BY <2>2 DEF Next
    <3>2. CASE CallerStep(r)
      BY <1>1, <3>2, SelectStep, TryAcquireStep, SelectModeStep, SerialSteps, SpawnStep,
         SpawnEndStep, JoinStep, ExecuteEndStep, AssembleStep DEF CallerStep
    <3>3. CASE \E k \in 1..Capacity : WorkerEnds(r, k)
      BY <1>1, <3>3, WorkerEndsStep
    <3> QED
      BY <3>1, <3>2, <3>3
  <2> QED
    BY <1>1, <2>1, <2>2
<1> QED
  BY InitHolds, <1>1, PTL DEF Spec

(* Every variable that indexes or bounds something keeps its domain: the   *)
(* spawn loop never outgrows its thread array, the counter never wraps.    *)
THEOREM TypeCorrect == Spec => []TypeOK
<1>1. IInv => TypeOK
  BY DEF IInv
<1> QED
  BY Invariance, <1>1, PTL

(* No path through the policy or the executor leaks a permit.              *)
THEOREM PermitsConserved == Spec => []Conservation
<1>1. IInv => Conservation
  BY DEF IInv
<1> QED
  BY Invariance, <1>1, PTL

(* The serial loop and the assembly run without permits.                   *)
THEOREM PermitsScoped == Spec => []PermitsOnlyWhileExecuting
<1>1. IInv => PermitsOnlyWhileExecuting
  BY DEF IInv, RequestInv, LeaseMatchesPc, PermitsOnlyWhileExecuting
<1> QED
  BY Invariance, <1>1, PTL

(* A running worker's number is below what its request holds.              *)
LEMMA RunningIsLeased == IInv => ThreadsHavePermits
<1> SUFFICES ASSUME IInv, NEW r \in Requests, NEW k \in 1..Capacity,
                    thread[r][k] = "running"
             PROVE  k <= lease[r]
  BY DEF ThreadsHavePermits, LiveThreads, PermitsOf
<1>1. k <= spawned[r] /\ ~ (k <= joined[r])
  BY BudgetConstants DEF IInv, TypeOK, RequestInv, ThreadsMatchCounters
<1>2. joined[r] # spawned[r]
  BY <1>1
<1>3. pc[r] \in {"spawn", "join"}
  BY <1>2 DEF IInv, RequestInv, CountersOrdered
<1>4. spawned[r] <= lease[r]
  BY <1>3 DEF IInv, RequestInv, CountersOrdered
<1> QED
  BY <1>1, <1>4, BudgetConstants DEF IInv, TypeOK

(* Every running worker thread occupies a permit of its own request: the   *)
(* lease outlives the scope it was taken for.                              *)
THEOREM ThreadsLeased == Spec => []ThreadsHavePermits
BY Invariance, RunningIsLeased, PTL

(* All requests of the process together never run more worker threads than *)
(* the capacity of the budget.                                             *)
THEOREM ThreadsCapped == Spec => []ProcessWideThreadCap
<1>1. IInv => ProcessWideThreadCap
  <2> SUFFICES ASSUME IInv PROVE ProcessWideThreadCap
    OBVIOUS
  <2> DEFINE Out == PermitsOf(Requests, Capacity, lease)
  <2>1. LiveThreads \in SUBSET Out
    BY RunningIsLeased DEF ThreadsHavePermits
  <2>2. lease \in [Requests -> Nat]
    BY BudgetConstants DEF IInv, TypeOK
  <2>3. /\ Cardinality(LiveThreads) \in Nat
        /\ Cardinality(LiveThreads) <= Cardinality(Out)
    BY <2>1, <2>2, OccupantsBounded, BudgetConstants
  <2>4. Cardinality(Out) \in Nat /\ available \in Nat /\ available + Cardinality(Out) = Capacity
    BY <2>2, PermitsFinite, BudgetConstants DEF IInv, TypeOK, Conservation
  <2> QED
    BY <2>3, <2>4, BudgetConstants DEF ProcessWideThreadCap
<1> QED
  BY Invariance, <1>1, PTL

-----------------------------------------------------------------------------
(* Answers.  What a request has collected is always a prefix of what the   *)
(* serial loop would collect.                                              *)

Prefix(in, m) == SubSeq(Processed(in), 1, m)

OutcomesOf(in) == {Outcome(in, i) : i \in 1..Len(in)}

LEMMA ProcessedIsSeq ==
  ASSUME NEW in, Len(in) \in Nat
  PROVE  /\ Processed(in) \in Seq(OutcomesOf(in))
         /\ Len(Processed(in)) = Len(in)
         /\ \A i \in 1..Len(in) : Processed(in)[i] = Outcome(in, i)
BY SeqDef DEF Processed, OutcomesOf

LEMMA PrefixIsSeq ==
  ASSUME NEW in, Len(in) \in Nat, NEW m \in 0..Len(in)
  PROVE  /\ Prefix(in, m) \in Seq(OutcomesOf(in))
         /\ Len(Prefix(in, m)) = m
         /\ \A i \in 1..m : Prefix(in, m)[i] = Outcome(in, i)
<1> DEFINE n == Len(in)
           P == Processed(in)
<1>1. P \in Seq(OutcomesOf(in)) /\ Len(P) = n /\ \A i \in 1..n : P[i] = Outcome(in, i)
  BY ProcessedIsSeq
<1>2. \A i \in 1..m : P[i] \in OutcomesOf(in) /\ P[i] = Outcome(in, i)
  BY <1>1, ElementOfSeq
<1> HIDE DEF P, n
<1>3. /\ SubSeq(P, 1, m) \in Seq(OutcomesOf(in))
      /\ Len(SubSeq(P, 1, m)) = IF 1 <= m THEN m - 1 + 1 ELSE 0
      /\ \A i \in 1..(m - 1 + 1) : SubSeq(P, 1, m)[i] = P[1 + i - 1]
  BY <1>2, SubSeqProperties
<1> QED
  BY <1>2, <1>3 DEF P, Prefix, n

(* One more outcome, or those of one more chunk, make a longer prefix.     *)
LEMMA PrefixGrows ==
  ASSUME NEW in, Len(in) \in Nat, NEW a \in 0..Len(in), NEW b \in a..Len(in)
  PROVE  Prefix(in, a) \o SubSeq(Processed(in), a + 1, b) = Prefix(in, b)
<1>1. Processed(in) \in Seq(OutcomesOf(in)) /\ Len(Processed(in)) = Len(in)
  BY ProcessedIsSeq
<1>2. 1 \in 1..(Len(in) + 1) /\ a \in (1 - 1)..Len(in)
  OBVIOUS
<1> QED
  BY <1>1, <1>2, ConcatAdjacentSubSeq DEF Prefix

LEMMA PrefixAppends ==
  ASSUME NEW in, Len(in) \in Nat, NEW m \in 1..Len(in)
  PROVE  Append(Prefix(in, m - 1), Outcome(in, m)) = Prefix(in, m)
<1>1. /\ Prefix(in, m - 1) \in Seq(OutcomesOf(in))
      /\ Len(Prefix(in, m - 1)) = m - 1
      /\ \A i \in 1..(m - 1) : Prefix(in, m - 1)[i] = Outcome(in, i)
  BY PrefixIsSeq
<1>2. /\ Prefix(in, m) \in Seq(OutcomesOf(in))
      /\ Len(Prefix(in, m)) = m
      /\ \A i \in 1..m : Prefix(in, m)[i] = Outcome(in, i)
  BY PrefixIsSeq
<1>3. Outcome(in, m) \in OutcomesOf(in)
  BY DEF OutcomesOf
<1> HIDE DEF Prefix
<1> QED
  BY <1>1, <1>2, <1>3, SeqEqual

LEMMA PrefixWhole ==
  ASSUME NEW in, Len(in) \in Nat
  PROVE  Prefix(in, 0) = <<>> /\ Prefix(in, Len(in)) = Processed(in)
BY ProcessedIsSeq, SubSeqFull, SubSeqEmpty DEF Prefix

(* Whether a disclosure is rejected depends on it and those before it.     *)
LEMMA RejectedInPrefix ==
  ASSUME NEW in, Len(in) \in Nat, NEW m \in 0..Len(in), NEW i \in 1..m
  PROVE  i \in Rejected(Prefix(in, m)) <=> i \in Rejected(Processed(in))
<1>1. /\ Len(Prefix(in, m)) = m
      /\ \A j \in 1..m : Prefix(in, m)[j] = Outcome(in, j)
  BY PrefixIsSeq
<1>2. /\ Len(Processed(in)) = Len(in)
      /\ \A j \in 1..Len(in) : Processed(in)[j] = Outcome(in, j)
  BY ProcessedIsSeq
<1>3. \A j \in 1..i : j \in 1..m /\ j \in 1..Len(in)
  OBVIOUS
<1>4. \A j \in 1..i : Prefix(in, m)[j] = Processed(in)[j]
  BY <1>1, <1>2, <1>3
<1>5. Repeats(Prefix(in, m), i) <=> Repeats(Processed(in), i)
  BY <1>4 DEF Repeats
<1>6. i \in 1..i
  OBVIOUS
<1> HIDE DEF Prefix
<1> QED
  BY <1>1, <1>2, <1>3, <1>4, <1>5, <1>6 DEF Rejected

(* A prefix without rejected disclosures, followed by a rejected one, is   *)
(* where the serial loop ends.                                             *)
LEMMA FirstRejected ==
  ASSUME NEW in, Len(in) \in Nat, NEW m \in 1..Len(in),
         Rejected(Prefix(in, m - 1)) = {}, m \in Rejected(Prefix(in, m))
  PROVE  Rejected(Processed(in)) # {} /\ Min(Rejected(Processed(in))) = m
<1> DEFINE R == Rejected(Processed(in))
<1>1. m \in R
  BY RejectedInPrefix
<1>2. ASSUME NEW i \in R PROVE m <= i
  <2>1. i \in 1..Len(in)
    BY ProcessedIsSeq DEF Rejected
  <2>2. ASSUME i < m PROVE FALSE
    <3>1. m - 1 \in 0..Len(in) /\ i \in 1..(m - 1)
      BY <2>1, <2>2
    <3>2. i \in Rejected(Prefix(in, m - 1))
      BY <3>1, RejectedInPrefix
    <3> QED
      BY <3>2
  <2> QED
    BY <2>1, <2>2
<1>3. R \subseteq Nat
  BY ProcessedIsSeq DEF Rejected
<1> HIDE DEF R
<1>4. Min(R) \in R /\ Min(R) <= m
  BY <1>1, <1>3, MinIsLeast
<1>5. Min(R) \in Nat /\ m <= Min(R)
  BY <1>2, <1>3, <1>4
<1> QED
  BY <1>1, <1>4, <1>5 DEF R

(* If the serial loop rejects nothing, it publishes what it collected.     *)
LEMMA NoneRejected ==
  ASSUME NEW in, Len(in) \in Nat, Rejected(Prefix(in, Len(in))) = {}
  PROVE  Oracle(in) = Published(Prefix(in, Len(in)))
BY PrefixWhole DEF Oracle, Verdict

LEMMA OutcomeNames ==
  ASSUME NEW in, NEW i
  PROVE  Outcome(in, i).ordinal = i /\ Outcome(in, i).encoded = in[i]
BY DEF Outcome

(* The assembly of all outcomes, in the order of the jobs.                 *)
LEMMA ProcessedSorted ==
  ASSUME NEW in, Len(in) \in Nat
  PROVE  Sorted(Processed(in)) = Processed(in)
<1> DEFINE P == Processed(in)
<1>1. Len(P) = Len(in) /\ \A i \in 1..Len(in) : P[i].ordinal = i
  BY ProcessedIsSeq, OutcomeNames
<1>2. P = [k \in 1..Len(P) |-> P[k]]
  BY <1>1 DEF Processed
<1> HIDE DEF P
<1>3. \A i, j \in 1..Len(P) : <<j, i>> \in OrdinalFirst(P) <=> j < i
  BY <1>1 DEF OrdinalFirst
<1>4. Arranged(P, OrdinalFirst(P)) = [k \in 1..Len(P) |-> P[k]]
  BY <1>1, <1>3, ArrangedInOrder
<1> QED
  BY <1>2, <1>4 DEF P, Sorted

LEMMA AssembledIsOracle ==
  ASSUME NEW in, Len(in) \in Nat
  PROVE  Assembled(in, Processed(in)) = Oracle(in)
<1>1. KeepsContract(in, Processed(in))
  BY ProcessedIsSeq, OutcomeNames DEF KeepsContract
<1> QED
  BY <1>1, ProcessedSorted DEF Assembled, Oracle

LEMMA FailureKind == \A k : Failure(k).kind = k
BY DEF Failure

(* The serial loop's answers are of a kind of their own.                   *)
LEMMA OracleKind ==
  ASSUME NEW in
  PROVE  Oracle(in).kind \in {"ok", "invalid", "duplicate"}
BY DEF Oracle, Verdict, Published, Invalid, Failure

-----------------------------------------------------------------------------
(* The invariant of the answers, on top of the inductive one.              *)

Collected(r, m) == m \in 0..Len(input[r]) /\ outcomes[r] = Prefix(input[r], m)

(* The serial loop has collected a prefix and rejected none of it.         *)
SerialProgress(r) ==
  /\ \E m \in 0..Len(input[r]) : Collected(r, m)
  /\ Rejected(outcomes[r]) = {}

(* The executor has collected every job up to the end of the last chunk it *)
(* joined, unless one of the joined workers panicked.                      *)
JoinProgress(r) ==
  \/ \E k \in 1..joined[r] : thread[r][k] = "panicked"
  \/ Collected(r, ChunkLast(Len(input[r]), ExecutorChunkSize(r), joined[r]))

Answered(r) ==
  /\ answer[r] = Oracle(input[r]) \/ answer[r].kind \in ExecutorFailures
  /\ answer[r].kind = "spawn failed" <=> spawnFailed[r]
  /\ answer[r].kind = "worker panicked" <=> ~ spawnFailed[r] /\ WorkerPanicked(r)

AnswerInv(r) ==
  /\ pc[r] \in {"start", "acquire", "balance"} => Collected(r, 0)
  /\ pc[r] = "serial" => SerialProgress(r)
  /\ pc[r] \in {"spawn", "join"} => JoinProgress(r)
  /\ pc[r] = "spawn" => joined[r] = 0 /\ ~ spawnFailed[r]
  /\ pc[r] = "join" /\ ~ spawnFailed[r] => ~ MoreChunks(r)
  /\ pc[r] = "assemble" =>
       Collected(r, Len(input[r])) /\ ~ spawnFailed[r] /\ ~ WorkerPanicked(r)
  /\ pc[r] = "done" => Answered(r)

PerRequest(f) == f = [r \in Requests |-> f[r]]

AnswersInv ==
  /\ PerRequest(outcomes) /\ PerRequest(answer)
  /\ \A r \in Requests : AnswerInv(r)

USE DEF ExecutorFailures

LEMMA InputLength == ASSUME IInv, NEW r \in Requests PROVE Len(input[r]) \in Nat
BY InputsAreLists DEF IInv, TypeOK

LEMMA AnswersInit == Init => AnswersInv
<1> SUFFICES ASSUME Init PROVE AnswersInv
  OBVIOUS
<1>1. ASSUME NEW r \in Requests PROVE AnswerInv(r)
  <2>1. Len(input[r]) \in Nat
    BY InputsAreLists DEF Init
  <2>2. Collected(r, 0)
    BY <2>1, PrefixWhole DEF Init, Collected
  <2> QED
    BY <2>2 DEF AnswerInv, Init
<1> QED
  BY <1>1 DEF AnswersInv, PerRequest, Init

(* A step of one request leaves the others as they are.                    *)
Row(q) == <<input[q], pc[q], lease[q], spawned[q], spawnFailed[q], thread[q],
            joined[q], outcomes[q], answer[q]>>

LEMMA RowKept ==
  ASSUME NEW q \in Requests, AnswerInv(q), UNCHANGED Row(q)
  PROVE  AnswerInv(q)'
BY DEF Row, AnswerInv, Collected, SerialProgress, JoinProgress, Answered, WorkerPanicked,
       MoreChunks, ExecutorChunkSize

Apart(r) ==
  /\ PerRequest(outcomes)' /\ PerRequest(answer)'
  /\ \A q \in Requests \ {r} : UNCHANGED Row(q)

LEMMA StepsApart ==
  ASSUME IInv, AnswersInv, NEW r \in Requests,
         CallerStep(r) \/ \E k \in 1..Capacity : WorkerEnds(r, k)
  PROVE  Apart(r)
<1> USE DEF IInv, TypeOK, AnswersInv, PerRequest, Apart, Row, pool, budget, Goto, Answer, ReleaseLease
<1>1. CASE Select(r)
  BY <1>1 DEF Select
<1>2. CASE TryAcquire(r)
  BY <1>2 DEF TryAcquire
<1>3. CASE SelectMode(r)
  BY <1>3 DEF SelectMode
<1>4. CASE SerialStep(r)
  BY <1>4 DEF SerialStep
<1>5. CASE SerialEnd(r)
  BY <1>5 DEF SerialEnd
<1>6. CASE Spawn(r)
  BY <1>6 DEF Spawn
<1>7. CASE SpawnEnd(r)
  BY <1>7 DEF SpawnEnd
<1>8. CASE Join(r)
  BY <1>8 DEF Join
<1>9. CASE ExecuteEnd(r)
  BY <1>9 DEF ExecuteEnd
<1>10. CASE Assemble(r)
  BY <1>10 DEF Assemble
<1>11. CASE \E k \in 1..Capacity : WorkerEnds(r, k)
  BY <1>11 DEF WorkerEnds
<1> QED
  BY <1>1, <1>2, <1>3, <1>4, <1>5, <1>6, <1>7, <1>8, <1>9, <1>10, <1>11 DEF CallerStep

(* Whoever turns to the serial loop has collected nothing yet.             *)
LEMMA EntersSerial ==
  ASSUME IInv, NEW r \in Requests, Collected(r, 0), pc'[r] = "serial",
         input'[r] = input[r], outcomes'[r] = outcomes[r]
  PROVE  AnswerInv(r)'
<1>1. Len(input[r]) \in Nat
  BY InputLength
<1>2. outcomes[r] = <<>>
  BY <1>1, PrefixWhole DEF Collected
<1>3. Rejected(outcomes[r]) = {}
  BY <1>2 DEF Rejected
<1> QED
  BY <1>1, <1>3 DEF AnswerInv, SerialProgress, Collected

LEMMA BeforeAnswers ==
  ASSUME IInv, AnswersInv, NEW r \in Requests, Select(r) \/ TryAcquire(r)
  PROVE  AnswerInv(r)'
<1>1. Collected(r, 0)
  BY DEF AnswersInv, AnswerInv, Select, TryAcquire
<1>2. pc'[r] \in {"serial", "acquire", "balance"} /\ UNCHANGED <<input, outcomes>>
  BY DEF IInv, TypeOK, Select, TryAcquire, Goto
<1>3. CASE pc'[r] = "serial"
  BY <1>1, <1>2, <1>3, EntersSerial
<1>4. CASE pc'[r] # "serial"
  BY <1>1, <1>2, <1>4 DEF AnswerInv, Collected
<1> QED
  BY <1>3, <1>4

(* The size of a chunk, wherever an executor is at work.                   *)
LEMMA ChunkSizeIsNat ==
  ASSUME IInv, NEW r \in Requests, pc[r] \in {"balance", "spawn", "join"}
  PROVE  ExecutorChunkSize(r) \in Nat
<1>1. Len(input[r]) \in Nat /\ Len(input[r]) > 1 /\ lease[r] \in Nat /\ lease[r] > 1
  BY InputLength, BudgetConstants DEF IInv, TypeOK, RequestInv, LeaseMatchesPc
<1>2. Lesser(lease[r], Len(input[r])) \in Nat \ {0}
  BY <1>1 DEF Lesser
<1> QED
  BY <1>1, <1>2, ChunksCover DEF ExecutorChunkSize

LEMMA BalanceAnswers ==
  ASSUME IInv, AnswersInv, NEW r \in Requests, SelectMode(r)
  PROVE  AnswerInv(r)'
<1>1. pc[r] = "balance" /\ Collected(r, 0)
  BY DEF AnswersInv, AnswerInv, SelectMode
<1>2. UNCHANGED <<input, outcomes, thread, joined, spawnFailed>>
  BY DEF SelectMode, pool
<1>3. CASE pc'[r] = "serial"
  BY <1>1, <1>2, <1>3, EntersSerial
<1>4. CASE pc'[r] = "spawn" /\ UNCHANGED budget
  <2>1. joined[r] = 0 /\ ~ spawnFailed[r]
    BY <1>1 DEF IInv, RequestInv, CountersOrdered
  <2>2. ChunkLast(Len(input[r]), ExecutorChunkSize(r), 0) = 0
    BY <1>1, InputLength, ChunkSizeIsNat DEF ChunkLast, Lesser
  <2>3. JoinProgress(r)'
    BY <1>1, <1>2, <1>4, <2>1, <2>2 DEF JoinProgress, Collected, budget, ExecutorChunkSize
  <2> QED
    BY <1>2, <1>4, <2>1, <2>3 DEF AnswerInv
<1>5. pc'[r] = "serial" \/ (pc'[r] = "spawn" /\ UNCHANGED budget)
  BY DEF IInv, TypeOK, SelectMode, Goto
<1> QED
  BY <1>3, <1>4, <1>5

(* The serial loop answers as the oracle does, with no executor to blame.  *)
LEMMA SerialAnswered ==
  ASSUME IInv, NEW r \in Requests, pc[r] = "serial", pc'[r] = "done",
         UNCHANGED <<input, spawned, spawnFailed, thread>>,
         answer'[r] = Oracle(input[r])
  PROVE  AnswerInv(r)'
<1>1. spawned[r] = 0 /\ ~ spawnFailed[r]
  BY DEF IInv, RequestInv, CountersOrdered
<1>2. ~ WorkerPanicked(r)'
  BY <1>1 DEF WorkerPanicked
<1>3. answer'[r].kind \notin ExecutorFailures
  BY OracleKind
<1> QED
  BY <1>1, <1>2, <1>3 DEF AnswerInv, Answered

LEMMA SerialAnswers ==
  ASSUME IInv, AnswersInv, NEW r \in Requests, SerialStep(r)
  PROVE  AnswerInv(r)'
<1> DEFINE in == input[r]
           m == Len(outcomes[r]) + 1
           os == Append(outcomes[r], Outcome(in, m))
<1>1. Len(in) \in Nat /\ UNCHANGED <<input, spawned, spawnFailed, thread>> /\ pc[r] = "serial"
  BY InputLength DEF SerialStep, pool
<1>2. /\ outcomes[r] = Prefix(in, m - 1)
      /\ Rejected(outcomes[r]) = {}
      /\ m \in 1..Len(in)
  <2>1. PICK k \in 0..Len(in) : outcomes[r] = Prefix(in, k)
    BY <1>1 DEF AnswersInv, AnswerInv, SerialProgress, Collected
  <2>2. Len(outcomes[r]) = k
    BY <1>1, <2>1, PrefixIsSeq
  <2>3. Rejected(outcomes[r]) = {} /\ m <= Len(in)
    BY <1>1 DEF AnswersInv, AnswerInv, SerialProgress, SerialStep
  <2>4. m - 1 = k
    BY <2>2
  <2> QED
    BY <2>1, <2>2, <2>3, <2>4
<1>3. \/ /\ os[m].digest = Bad
         /\ Answer(r, Invalid(os[m].encoded))
      \/ /\ os[m].digest # Bad
         /\ Repeats(os, m)
         /\ Answer(r, Failure("duplicate"))
      \/ /\ os[m].digest # Bad
         /\ ~ Repeats(os, m)
         /\ outcomes' = [outcomes EXCEPT ![r] = os]
         /\ UNCHANGED <<pc, answer>>
  BY DEF SerialStep
<1> HIDE DEF m
<1>4. os = Prefix(in, m)
  BY <1>1, <1>2, PrefixAppends
<1>5. Len(os) = m /\ os[m] = Outcome(in, m) /\ Processed(in)[m] = Outcome(in, m)
  BY <1>1, <1>2, <1>4, PrefixIsSeq, ProcessedIsSeq
<1> HIDE DEF os, in
<1>6. ASSUME m \in Rejected(os),
             answer'[r] = IF os[m].digest = Bad THEN Invalid(os[m].encoded)
                                                 ELSE Failure("duplicate"),
             pc'[r] = "done"
      PROVE  AnswerInv(r)'
  <2>1. Rejected(Processed(in)) # {} /\ Min(Rejected(Processed(in))) = m
    BY <1>1, <1>2, <1>4, <1>6, FirstRejected
  <2>2. answer'[r] = Oracle(in)
    BY <1>5, <1>6, <2>1 DEF Oracle, Verdict
  <2> QED
    BY <1>1, <1>6, <2>2, SerialAnswered DEF in
<1>7. CASE Answer(r, Invalid(os[m].encoded)) /\ os[m].digest = Bad
  <2>1. m \in Rejected(os)
    BY <1>2, <1>5, <1>7 DEF Rejected
  <2>2. answer'[r] = Invalid(os[m].encoded) /\ pc'[r] = "done"
    BY <1>7 DEF Answer, Goto, IInv, TypeOK, AnswersInv, PerRequest
  <2> QED
    BY <1>6, <1>7, <2>1, <2>2
<1>8. CASE Answer(r, Failure("duplicate")) /\ os[m].digest # Bad /\ Repeats(os, m)
  <2>1. m \in Rejected(os)
    BY <1>2, <1>5, <1>8 DEF Rejected
  <2>2. answer'[r] = Failure("duplicate") /\ pc'[r] = "done"
    BY <1>8 DEF Answer, Goto, IInv, TypeOK, AnswersInv, PerRequest
  <2> QED
    BY <1>6, <1>8, <2>1, <2>2
<1>9. CASE /\ os[m].digest # Bad /\ ~ Repeats(os, m)
           /\ outcomes' = [outcomes EXCEPT ![r] = os]
           /\ UNCHANGED <<pc, answer>>
  <2>1. outcomes'[r] = os /\ pc'[r] = "serial"
    BY <1>1, <1>9 DEF AnswersInv, PerRequest
  <2>2. \A i \in Rejected(os) : i \in 1..m
    BY <1>5 DEF Rejected
  <2>3. m \notin Rejected(os)
    BY <1>9 DEF Rejected
  <2>4. \A i \in 1..(m - 1) : i \notin Rejected(os)
    <3>1. ASSUME NEW i \in 1..(m - 1), i \in Rejected(os) PROVE FALSE
      <4>1. m \in 0..Len(in) /\ m - 1 \in 0..Len(in) /\ i \in 1..m
        BY <1>1, <1>2, <3>1
      <4>2. i \in Rejected(Processed(in))
        BY <1>1, <1>4, <3>1, <4>1, RejectedInPrefix
      <4>3. i \in Rejected(Prefix(in, m - 1))
        BY <1>1, <3>1, <4>1, <4>2, RejectedInPrefix
      <4> QED
        BY <1>2, <4>3
    <3> QED
      BY <3>1
  <2>5. Rejected(os) = {}
    BY <1>2, <2>2, <2>3, <2>4
  <2>6. m \in 0..Len(in)
    BY <1>1, <1>2
  <2> QED
    BY <1>1, <1>4, <2>1, <2>5, <2>6 DEF AnswerInv, SerialProgress, Collected, in
<1> QED
  BY <1>3, <1>7, <1>8, <1>9

LEMMA SerialEndAnswers ==
  ASSUME IInv, AnswersInv, NEW r \in Requests, SerialEnd(r)
  PROVE  AnswerInv(r)'
<1> DEFINE in == input[r]
<1>1. /\ Len(in) \in Nat /\ pc[r] = "serial" /\ Len(outcomes[r]) = Len(in)
      /\ UNCHANGED <<input, spawned, spawnFailed, thread>>
  BY InputLength DEF SerialEnd, pool
<1>2. PICK m \in 0..Len(in) : outcomes[r] = Prefix(in, m)
  BY <1>1 DEF AnswersInv, AnswerInv, SerialProgress, Collected
<1>3. Rejected(outcomes[r]) = {}
  BY <1>1 DEF AnswersInv, AnswerInv, SerialProgress
<1>4. m = Len(in)
  BY <1>1, <1>2, PrefixIsSeq
<1>5. Oracle(in) = Published(outcomes[r])
  BY <1>1, <1>2, <1>3, <1>4, NoneRejected
<1>6. answer'[r] = Published(outcomes[r]) /\ pc'[r] = "done"
  BY DEF SerialEnd, Answer, Goto, IInv, TypeOK, AnswersInv, PerRequest
<1> QED
  BY <1>1, <1>5, <1>6, SerialAnswered

(* While workers are spawned, and while they run, nothing is collected.    *)
LEMMA SpawnAnswers ==
  ASSUME IInv, AnswersInv, NEW r \in Requests, Spawn(r)
  PROVE  AnswerInv(r)'
<1>1. pc[r] = "spawn" /\ UNCHANGED <<input, lease, joined, outcomes>>
  BY DEF Spawn, budget
<1>2. joined[r] = 0 /\ ~ spawnFailed[r] /\ JoinProgress(r)
  BY <1>1 DEF AnswersInv, AnswerInv
<1>3. JoinProgress(r)'
  BY <1>1, <1>2 DEF JoinProgress, Collected, ExecutorChunkSize
<1>4. \/ pc'[r] = "spawn" /\ spawnFailed'[r] = spawnFailed[r]
      \/ pc'[r] = "join" /\ spawnFailed'[r]
  BY <1>1 DEF Spawn, Goto, IInv, TypeOK
<1> QED
  BY <1>1, <1>2, <1>3, <1>4 DEF AnswerInv

LEMMA SpawnEndAnswers ==
  ASSUME IInv, AnswersInv, NEW r \in Requests, SpawnEnd(r)
  PROVE  AnswerInv(r)'
<1>1. /\ pc[r] = "spawn" /\ pc'[r] = "join" /\ ~ MoreChunks(r)
      /\ UNCHANGED <<input, lease, spawned, spawnFailed, thread, joined, outcomes>>
  BY DEF SpawnEnd, Goto, budget, pool, IInv, TypeOK
<1>2. JoinProgress(r)
  BY <1>1 DEF AnswersInv, AnswerInv
<1> QED
  BY <1>1, <1>2 DEF AnswerInv, JoinProgress, Collected, ExecutorChunkSize, MoreChunks

LEMMA WorkerAnswers ==
  ASSUME IInv, AnswersInv, NEW r \in Requests, NEW k \in 1..Capacity, WorkerEnds(r, k)
  PROVE  AnswerInv(r)'
<1>1. /\ thread[r][k] = "running"
      /\ UNCHANGED <<input, pc, lease, spawned, spawnFailed, joined, outcomes>>
  BY DEF WorkerEnds, budget
<1>2. ~ (k <= joined[r]) /\ k <= spawned[r]
  BY <1>1, BudgetConstants DEF IInv, TypeOK, RequestInv, ThreadsMatchCounters
<1>3. pc[r] \in {"spawn", "join"}
  BY <1>2 DEF IInv, RequestInv, CountersOrdered
<1>4. JoinProgress(r) /\ (pc[r] = "spawn" => joined[r] = 0 /\ ~ spawnFailed[r])
      /\ (pc[r] = "join" /\ ~ spawnFailed[r] => ~ MoreChunks(r))
  BY <1>3 DEF AnswersInv, AnswerInv
<1>5. \A i \in 1..joined[r] : thread'[r][i] = thread[r][i]
  <2>1. \A i \in 1..Capacity : i # k => thread'[r][i] = thread[r][i]
    BY DEF WorkerEnds, IInv, TypeOK
  <2>2. joined[r] \in 0..Capacity
    BY DEF IInv, TypeOK
  <2> QED
    BY <1>2, <2>1, <2>2, BudgetConstants
<1>6. JoinProgress(r)'
  BY <1>1, <1>4, <1>5 DEF JoinProgress, Collected, ExecutorChunkSize
<1> QED
  BY <1>1, <1>3, <1>4, <1>6 DEF AnswerInv, MoreChunks, ExecutorChunkSize

(* The outcomes of the next chunk continue those of the chunks before.     *)
LEMMA ChunksConcatenate ==
  ASSUME NEW in, Len(in) \in Nat, NEW c \in Nat, NEW j \in Nat
  PROVE  /\ ChunkLast(Len(in), c, j + 1) \in 0..Len(in)
         /\ Prefix(in, ChunkLast(Len(in), c, j))
              \o SubSeq(Processed(in), ChunkFirst(c, j + 1), ChunkLast(Len(in), c, j + 1))
              = Prefix(in, ChunkLast(Len(in), c, j + 1))
<1> DEFINE n == Len(in)
           a == j * c
           b == (j + 1) * c
<1>1. a \in Nat /\ b \in Nat /\ b = a + c /\ ChunkFirst(c, j + 1) = a + 1
  BY DEF ChunkFirst
<1>2. ChunkLast(n, c, j) = Lesser(a, n) /\ ChunkLast(n, c, j + 1) = Lesser(b, n)
  BY DEF ChunkLast
<1> HIDE DEF a, b
<1>3. n \in Nat /\ Lesser(b, n) \in 0..n
  BY <1>1 DEF Lesser
<1>4. CASE a <= n
  <2>1. Lesser(a, n) = a /\ a \in 0..n /\ Lesser(b, n) \in a..n
    BY <1>1, <1>3, <1>4 DEF Lesser
  <2>2. Prefix(in, a) \o SubSeq(Processed(in), a + 1, Lesser(b, n)) = Prefix(in, Lesser(b, n))
    BY <2>1, PrefixGrows
  <2> QED
    BY <1>1, <1>2, <1>3, <2>1, <2>2
<1>5. CASE a > n
  <2>1. Lesser(a, n) = n /\ Lesser(b, n) = n
    BY <1>1, <1>3, <1>5 DEF Lesser
  <2>2. SubSeq(Processed(in), a + 1, n) = <<>>
    BY <1>1, <1>3, <1>5, SubSeqEmpty
  <2>3. n \in 0..n
    BY <1>3
  <2>4. Prefix(in, n) \in Seq(OutcomesOf(in))
    BY <1>3, <2>3, PrefixIsSeq
  <2>5. Prefix(in, n) \o <<>> = Prefix(in, n)
    BY <2>4, ConcatEmptySeq
  <2> QED
    BY <1>1, <1>2, <1>3, <2>1, <2>2, <2>5
<1>6. a <= n \/ a > n
  BY <1>1, <1>3
<1>7. ChunkLast(n, c, j + 1) \in 0..n
  BY <1>2, <1>3
<1> QED
  BY <1>4, <1>5, <1>6, <1>7, Zenon

LEMMA JoinAnswers ==
  ASSUME IInv, AnswersInv, NEW r \in Requests, Join(r)
  PROVE  AnswerInv(r)'
<1> DEFINE in == input[r]
           j == joined[r]
           c == ExecutorChunkSize(r)
<1>1. /\ pc[r] = "join" /\ joined'[r] = j + 1
      /\ UNCHANGED <<input, pc, lease, spawned, spawnFailed, thread, answer>>
      /\ \/ /\ thread[r][j + 1] = "finished"
            /\ outcomes'[r] = outcomes[r] \o ChunkOutcomes(r, j + 1)
         \/ /\ thread[r][j + 1] = "panicked"
            /\ outcomes'[r] = outcomes[r]
  BY DEF Join, budget, IInv, TypeOK, AnswersInv, PerRequest
<1>2. Len(in) \in Nat /\ c \in Nat /\ j \in Nat
  BY <1>1, InputLength, ChunkSizeIsNat, BudgetConstants DEF IInv, TypeOK
<1>3. \/ \E k \in 1..j : thread[r][k] = "panicked"
      \/ outcomes[r] = Prefix(in, ChunkLast(Len(in), c, j))
  BY <1>1 DEF AnswersInv, AnswerInv, JoinProgress, Collected
<1>4. ExecutorChunkSize(r)' = c
  BY <1>1 DEF ExecutorChunkSize
<1>5. JoinProgress(r)'
  <2>1. CASE \E k \in 1..(j + 1) : thread[r][k] = "panicked"
    BY <1>1, <2>1 DEF JoinProgress
  <2>2. CASE ~ \E k \in 1..(j + 1) : thread[r][k] = "panicked"
    <3>1. thread[r][j + 1] # "panicked" /\ ~ \E k \in 1..j : thread[r][k] = "panicked"
      BY <1>2, <2>2
    <3>2. outcomes[r] = Prefix(in, ChunkLast(Len(in), c, j))
      BY <1>3, <3>1
    <3>3. outcomes'[r] = Prefix(in, ChunkLast(Len(in), c, j)) \o ChunkOutcomes(r, j + 1)
      BY <1>1, <3>1, <3>2
    <3>4. ChunkOutcomes(r, j + 1)
            = SubSeq(Processed(in), ChunkFirst(c, j + 1), ChunkLast(Len(in), c, j + 1))
      BY DEF ChunkOutcomes
    <3> HIDE DEF in, c, j
    <3>5. /\ outcomes'[r] = Prefix(in, ChunkLast(Len(in), c, j + 1))
          /\ ChunkLast(Len(in), c, j + 1) \in 0..Len(in)
      BY <1>2, <3>3, <3>4, ChunksConcatenate
    <3> QED
      BY <1>1, <1>4, <3>5 DEF JoinProgress, Collected, in
  <2> QED
    BY <2>1, <2>2
<1>6. ~ spawnFailed[r] => ~ MoreChunks(r)
  BY <1>1 DEF AnswersInv, AnswerInv
<1> QED
  BY <1>1, <1>4, <1>5, <1>6 DEF AnswerInv, MoreChunks

LEMMA ExecuteEndAnswers ==
  ASSUME IInv, AnswersInv, NEW r \in Requests, ExecuteEnd(r)
  PROVE  AnswerInv(r)'
<1>1. /\ pc[r] = "join" /\ joined[r] = spawned[r]
      /\ UNCHANGED <<input, spawned, spawnFailed, thread, outcomes>>
  BY DEF ExecuteEnd, pool
<1>2. WorkerPanicked(r)' <=> WorkerPanicked(r)
  BY <1>1 DEF WorkerPanicked
<1>3. CASE spawnFailed[r] /\ Answer(r, Failure("spawn failed"))
  <2>1. pc'[r] = "done" /\ answer'[r] = Failure("spawn failed")
    BY <1>3 DEF Answer, Goto, IInv, TypeOK, AnswersInv, PerRequest
  <2>2. answer'[r].kind = "spawn failed"
    BY <2>1, FailureKind
  <2>3. spawnFailed'[r]
    BY <1>1, <1>3, Zenon
  <2>4. Answered(r)'
    BY <2>2, <2>3 DEF Answered
  <2> QED
    BY <2>1, <2>4 DEF AnswerInv
<1>4. CASE ~ spawnFailed[r] /\ WorkerPanicked(r) /\ Answer(r, Failure("worker panicked"))
  <2>1. pc'[r] = "done" /\ answer'[r] = Failure("worker panicked")
    BY <1>4 DEF Answer, Goto, IInv, TypeOK, AnswersInv, PerRequest
  <2>2. answer'[r].kind = "worker panicked"
    BY <2>1, FailureKind
  <2>3. ~ spawnFailed'[r] /\ WorkerPanicked(r)'
    BY <1>1, <1>2, <1>4, Zenon
  <2>4. Answered(r)'
    BY <2>2, <2>3 DEF Answered
  <2> QED
    BY <2>1, <2>4 DEF AnswerInv
<1>5. CASE ~ spawnFailed[r] /\ ~ WorkerPanicked(r) /\ Goto(r, "assemble")
  <2> DEFINE n == Len(input[r])
             c == ExecutorChunkSize(r)
  <2>1. n \in Nat /\ c \in Nat /\ spawned[r] \in Nat
    BY <1>1, InputLength, ChunkSizeIsNat, BudgetConstants DEF IInv, TypeOK
  <2>2. ~ MoreChunks(r) /\ JoinProgress(r)
    BY <1>1, <1>5 DEF AnswersInv, AnswerInv
  <2>3. Collected(r, ChunkLast(n, c, spawned[r]))
    BY <1>1, <1>5, <2>2 DEF JoinProgress, WorkerPanicked
  <2>4. ~ (spawned[r] * c < n)
    BY <2>2 DEF MoreChunks
  <2>5. spawned[r] * c \in Nat
    BY <2>1
  <2>6. ChunkLast(n, c, spawned[r]) = n
    BY <2>1, <2>4, <2>5 DEF ChunkLast, Lesser
  <2>7. pc'[r] = "assemble"
    BY <1>5 DEF Goto, IInv, TypeOK
  <2> QED
    BY <1>1, <1>2, <1>5, <2>3, <2>6, <2>7 DEF AnswerInv, Collected
<1> QED
  BY <1>3, <1>4, <1>5 DEF ExecuteEnd

LEMMA AssembleAnswers ==
  ASSUME IInv, AnswersInv, NEW r \in Requests, Assemble(r)
  PROVE  AnswerInv(r)'
<1>1. /\ Len(input[r]) \in Nat
      /\ outcomes[r] = Prefix(input[r], Len(input[r]))
      /\ ~ spawnFailed[r] /\ ~ WorkerPanicked(r)
  BY InputLength DEF AnswersInv, AnswerInv, Collected, Assemble
<1>2. Assembled(input[r], outcomes[r]) = Oracle(input[r])
  BY <1>1, PrefixWhole, AssembledIsOracle
<1>3. pc'[r] = "done" /\ answer'[r] = Assembled(input[r], outcomes[r])
  BY DEF Assemble, Answer, Goto, IInv, TypeOK, AnswersInv, PerRequest
<1>4. UNCHANGED <<input, spawned, spawnFailed, thread>>
  BY DEF Assemble, pool
<1>5. ~ spawnFailed'[r] /\ ~ WorkerPanicked(r)'
  BY <1>1, <1>4 DEF WorkerPanicked
<1>6. answer'[r] = Oracle(input'[r]) /\ answer'[r].kind \notin ExecutorFailures
  BY <1>2, <1>3, <1>4, OracleKind
<1> QED
  BY <1>3, <1>5, <1>6 DEF AnswerInv, Answered

LEMMA AnswersStep == IInv /\ AnswersInv /\ [Next]_vars => AnswersInv'
<1> SUFFICES ASSUME IInv, AnswersInv, [Next]_vars PROVE AnswersInv'
  OBVIOUS
<1>1. CASE UNCHANGED vars
  <2>1. ASSUME NEW q \in Requests PROVE UNCHANGED Row(q)
    BY <1>1 DEF vars, Row
  <2>2. \A q \in Requests : AnswerInv(q)'
    BY <2>1, RowKept DEF AnswersInv
  <2> QED
    BY <1>1, <2>2 DEF AnswersInv, PerRequest, vars
<1>2. CASE Next
  <2>1. PICK r \in Requests : CallerStep(r) \/ \E k \in 1..Capacity : WorkerEnds(r, k)
    BY <1>2 DEF Next
  <2>2. AnswerInv(r)'
    <3>1. CASE CallerStep(r)
      BY <3>1, BeforeAnswers, BalanceAnswers, SerialAnswers, SerialEndAnswers, SpawnAnswers,
         SpawnEndAnswers, JoinAnswers, ExecuteEndAnswers, AssembleAnswers DEF CallerStep
    <3>2. CASE \E k \in 1..Capacity : WorkerEnds(r, k)
      BY <3>2, WorkerAnswers
    <3> QED
      BY <2>1, <3>1, <3>2
  <2>3. Apart(r)
    BY <2>1, StepsApart
  <2>4. \A q \in Requests \ {r} : AnswerInv(q)'
    BY <2>3, RowKept DEF Apart, AnswersInv
  <2> QED
    BY <2>2, <2>3, <2>4 DEF Apart, AnswersInv
<1> QED
  BY <1>1, <1>2

THEOREM AnswersInvariance == Spec => []AnswersInv
BY Invariance, AnswersInit, AnswersStep, PTL DEF Spec

(* However a request was served, by whatever workers in whatever order, it *)
(* is answered as the serial loop would, or told that its executor failed. *)
THEOREM Deterministic == Spec => []AnswersAsSerial
<1>1. AnswersInv => AnswersAsSerial
  BY DEF AnswersInv, AnswerInv, Answered, AnswersAsSerial
<1> QED
  BY AnswersInvariance, <1>1, PTL

(* It is told so exactly when its own executor failed, of the failure that *)
(* takes precedence.                                                       *)
THEOREM FailuresTold == Spec => []FailuresAttributed
<1>1. AnswersInv => FailuresAttributed
  BY DEF AnswersInv, AnswerInv, Answered, FailuresAttributed
<1> QED
  BY AnswersInvariance, <1>1, PTL
=============================================================================
