----------------------- MODULE DisclosurePreprocessing -----------------------
(***************************************************************************)
(* src/disclosure_preprocessing.rs: turning the disclosures of a compact   *)
(* SD-JWT into digest mappings.                                            *)
(*                                                                         *)
(* Many requests run at once in one process.  The holder's go through the  *)
(* serial loop.  A verifier's go through the adaptive policy: small, light *)
(* or unbalanced inputs, and those that find no free permits, take the     *)
(* serial loop too; the others lease their worker permits, spawn scoped    *)
(* threads over contiguous chunks, join them all, give the permits back    *)
(* and assemble.  Requests meet only at the worker budget, whose atomic    *)
(* behaviour (LeasePool) WorkerBudget implements.  What a disclosure and   *)
(* its outcomes are is said in Disclosures.                                *)
(***************************************************************************)
EXTENDS Integers, Sequences, FiniteSets, Disclosures, Permits

CONSTANTS Requests,        (* calls running in the process                 *)
          HolderRequests,  (* those made by SDJWTHolder                    *)
          Capacity,        (* MAX_PARALLEL_WORKERS                         *)
          MinDisclosures,  (* PARALLEL_MIN_DISCLOSURES                     *)
          MinTotalBytes,   (* PARALLEL_MIN_TOTAL_ENCODED_BYTES             *)
          Inputs,          (* the disclosure lists requests come with      *)
          ThreadCounts     (* answers of available_parallelism             *)

ASSUME PreprocessingAssumption ==
  /\ IsFiniteSet(Requests)
  /\ HolderRequests \subseteq Requests
  /\ Capacity \in Nat \ {0, 1}
  /\ MinDisclosures \in Nat
  /\ MinTotalBytes \in Nat
  /\ Inputs \subseteq Seq(Encoded)
  /\ ThreadCounts \subseteq Nat \ {0}

VARIABLES input,        (* input_disclosures of each request               *)
          pc,           (* where its calling thread is                     *)
          threads,      (* its available_threads                           *)
          available,    (* permits left in the process-wide budget         *)
          lease,        (* permits it holds                                *)
          spawned,      (* worker threads it has spawned                   *)
          spawnFailed,  (* a spawn failed                                  *)
          thread,       (* the state of each of its worker threads         *)
          joined,       (* worker threads it has joined                    *)
          outcomes,     (* outcomes collected, in the order they arrived   *)
          answer        (* its mappings, or its error                      *)

vars == <<input, pc, threads, available, lease, spawned, spawnFailed, thread,
          joined, outcomes, answer>>

budget == <<available, lease>>
pool   == <<spawned, spawnFailed, thread, joined>>

-----------------------------------------------------------------------------
(* The adaptive policy.                                                    *)

Lesser(a, b) == IF a <= b THEN a ELSE b

Eligible(in) == Len(in) >= MinDisclosures /\ Total(in) >= MinTotalBytes

(* bounded_worker_count before its filter on more than one.                *)
WorkerCount(in, t) == Lesser(Lesser(t, Len(in)), Capacity)

StaticChunkSize(n, w) == (n \div w) + (IF n % w = 0 THEN 0 ELSE 1)

ChunkFirst(c, k)   == (k - 1) * c + 1
ChunkLast(n, c, k) == Lesser(k * c, n)
Chunk(n, c, k)     == ChunkFirst(c, k)..ChunkLast(n, c, k)

HalfRoundedUp(total) == (total \div 2) + (total % 2)

Balanced(in, w) ==
  LET n == Len(in)
      c == StaticChunkSize(n, w)
  IN  \A k \in 1..w : Bytes(in, Chunk(n, c, k)) <= HalfRoundedUp(Total(in))

-----------------------------------------------------------------------------

NoThreads == [k \in 1..Capacity |-> "none"]

Init ==
  /\ input \in [Requests -> Inputs]
  /\ pc = [r \in Requests |-> "start"]
  /\ threads = [r \in Requests |-> 0]
  /\ available = Capacity
  /\ lease = [r \in Requests |-> 0]
  /\ spawned = [r \in Requests |-> 0]
  /\ spawnFailed = [r \in Requests |-> FALSE]
  /\ thread = [r \in Requests |-> NoThreads]
  /\ joined = [r \in Requests |-> 0]
  /\ outcomes = [r \in Requests |-> <<>>]
  /\ answer = [r \in Requests |-> NoAnswer]

Goto(r, l) == pc' = [pc EXCEPT ![r] = l]

Answer(r, a) ==
  /\ Goto(r, "done")
  /\ answer' = [answer EXCEPT ![r] = a]

(* Count, bytes and threads decide whether permits are asked for at all.   *)
Select(r) ==
  /\ pc[r] = "start"
  /\ \/ /\ r \in HolderRequests \/ ~ Eligible(input[r])
        /\ Goto(r, "serial")
        /\ UNCHANGED threads
     \/ /\ r \notin HolderRequests /\ Eligible(input[r])
        /\ \E t \in ThreadCounts :
             /\ threads' = [threads EXCEPT ![r] = t]
             /\ Goto(r, IF WorkerCount(input[r], t) > 1 THEN "acquire" ELSE "serial")
  /\ UNCHANGED <<input, budget, pool, outcomes, answer>>

(* Slip: a request waits for its permits.                                  *)
AcquireWaits(r) ==
  LET w == WorkerCount(input[r], threads[r])
  IN  /\ pc[r] = "acquire"
      /\ w <= available
      /\ available' = available - w
      /\ lease' = [lease EXCEPT ![r] = w]
      /\ Goto(r, "balance")
      /\ UNCHANGED <<input, threads, pool, outcomes, answer>>

(* try_acquire, at its linearization point.                                *)
TryAcquire(r) ==
  LET w == WorkerCount(input[r], threads[r])
  IN  /\ pc[r] = "acquire"
      /\ \/ /\ w <= available
            /\ available' = available - w
            /\ lease' = [lease EXCEPT ![r] = w]
            /\ Goto(r, "balance")
         \/ /\ available < w
            /\ Goto(r, "serial")
            /\ UNCHANGED budget
      /\ UNCHANGED <<input, threads, pool, outcomes, answer>>

(* Slip: one permit back for each thread instead of each leased permit.    *)
ReleaseSpawned(r) ==
  /\ available' = available + spawned[r]
  /\ lease' = [lease EXCEPT ![r] = 0]

ReleaseLease(r) ==
  /\ available' = available + lease[r]
  /\ lease' = [lease EXCEPT ![r] = 0]

(* With the permits in hand, the balance scan may still choose the serial  *)
(* loop; the lease is dropped before that loop starts.                     *)
SelectMode(r) ==
  /\ pc[r] = "balance"
  /\ \/ /\ Balanced(input[r], WorkerCount(input[r], threads[r]))
        /\ Goto(r, "spawn")
        /\ UNCHANGED budget
     \/ /\ ~ Balanced(input[r], WorkerCount(input[r], threads[r]))
        /\ ReleaseLease(r)
        /\ Goto(r, "serial")
  /\ UNCHANGED <<input, threads, pool, outcomes, answer>>

(* SerialDisclosureExecutor: one disclosure at a time, ending at the first *)
(* that is malformed or repeats a digest.                                  *)
SerialStep(r) ==
  LET i  == Len(outcomes[r]) + 1
      os == Append(outcomes[r], Outcome(input[r], i))
  IN  /\ pc[r] = "serial"
      /\ i <= Len(input[r])
      /\ \/ /\ os[i].digest = Bad
            /\ Answer(r, Invalid(os[i].encoded))
            /\ UNCHANGED outcomes
         \/ /\ os[i].digest # Bad
            /\ Repeats(os, i)
            /\ Answer(r, Failure("duplicate"))
            /\ UNCHANGED outcomes
         \/ /\ os[i].digest # Bad
            /\ ~ Repeats(os, i)
            /\ outcomes' = [outcomes EXCEPT ![r] = os]
            /\ UNCHANGED <<pc, answer>>
      /\ UNCHANGED <<input, threads, budget, pool>>

SerialEnd(r) ==
  /\ pc[r] = "serial"
  /\ Len(outcomes[r]) = Len(input[r])
  /\ Answer(r, Published(outcomes[r]))
  /\ UNCHANGED <<input, threads, budget, pool, outcomes>>

-----------------------------------------------------------------------------
(* NativeParallelDisclosureExecutor, built for the lease's worker count.   *)

ExecutorChunkSize(r) ==
  StaticChunkSize(Len(input[r]), Lesser(lease[r], Len(input[r])))

(* Slip: only full chunks are handed out.                                  *)
MoreFullChunks(r) == (spawned[r] + 1) * ExecutorChunkSize(r) <= Len(input[r])

MoreChunks(r) == spawned[r] * ExecutorChunkSize(r) < Len(input[r])

Spawn(r) ==
  /\ pc[r] = "spawn"
  /\ MoreChunks(r)
  /\ \/ /\ spawned' = [spawned EXCEPT ![r] = @ + 1]
        /\ thread' = [thread EXCEPT ![r][spawned[r] + 1] = "running"]
        /\ UNCHANGED <<pc, spawnFailed>>
     \/ /\ spawnFailed' = [spawnFailed EXCEPT ![r] = TRUE]
        /\ Goto(r, "join")
        /\ UNCHANGED <<spawned, thread>>
  /\ UNCHANGED <<input, threads, budget, joined, outcomes, answer>>

SpawnEnd(r) ==
  /\ pc[r] = "spawn"
  /\ ~ MoreChunks(r)
  /\ Goto(r, "join")
  /\ UNCHANGED <<input, threads, budget, pool, outcomes, answer>>

(* A worker maps its whole chunk, or panics.                               *)
WorkerEnds(r, k) ==
  /\ thread[r][k] = "running"
  /\ \E end \in {"finished", "panicked"} : thread' = [thread EXCEPT ![r][k] = end]
  /\ UNCHANGED <<input, pc, threads, budget, spawned, spawnFailed, joined, outcomes, answer>>

ChunkOutcomes(r, k) ==
  LET n == Len(input[r])
      c == ExecutorChunkSize(r)
  IN  SubSeq(Processed(input[r]), ChunkFirst(c, k), ChunkLast(n, c, k))

(* Every handle is joined, in spawn order, whatever has failed before.     *)
Join(r) ==
  LET k == joined[r] + 1
  IN  /\ pc[r] = "join"
      /\ k <= spawned[r]
      /\ \/ /\ thread[r][k] = "finished"
            /\ outcomes' = [outcomes EXCEPT ![r] = @ \o ChunkOutcomes(r, k)]
         \/ /\ thread[r][k] = "panicked"
            /\ UNCHANGED outcomes
      /\ joined' = [joined EXCEPT ![r] = k]
      /\ UNCHANGED <<input, pc, threads, budget, spawned, spawnFailed, thread, answer>>

WorkerPanicked(r) == \E k \in 1..spawned[r] : thread[r][k] = "panicked"

(* Slip: a failed spawn returns at once, without joining what runs.        *)
ExecuteEndUnjoined(r) ==
  /\ pc[r] = "join"
  /\ joined[r] = spawned[r] \/ spawnFailed[r]
  /\ ReleaseLease(r)
  /\ \/ spawnFailed[r] /\ Answer(r, Failure("spawn failed"))
     \/ ~ spawnFailed[r] /\ WorkerPanicked(r) /\ Answer(r, Failure("worker panicked"))
     \/ ~ spawnFailed[r] /\ ~ WorkerPanicked(r) /\ Goto(r, "assemble") /\ UNCHANGED answer
  /\ UNCHANGED <<input, threads, pool, outcomes>>

(* Slip: the panic is looked at first.                                     *)
ExecuteEndPanicFirst(r) ==
  /\ pc[r] = "join"
  /\ joined[r] = spawned[r]
  /\ ReleaseLease(r)
  /\ \/ WorkerPanicked(r) /\ Answer(r, Failure("worker panicked"))
     \/ ~ WorkerPanicked(r) /\ spawnFailed[r] /\ Answer(r, Failure("spawn failed"))
     \/ ~ WorkerPanicked(r) /\ ~ spawnFailed[r] /\ Goto(r, "assemble") /\ UNCHANGED answer
  /\ UNCHANGED <<input, threads, pool, outcomes>>

(* execute returns and the lease is dropped, before its error is returned  *)
(* or its outcomes are assembled.                                          *)
ExecuteEnd(r) ==
  /\ pc[r] = "join"
  /\ joined[r] = spawned[r]
  /\ ReleaseLease(r)
  /\ \/ /\ spawnFailed[r]
        /\ Answer(r, Failure("spawn failed"))
     \/ /\ ~ spawnFailed[r]
        /\ WorkerPanicked(r)
        /\ Answer(r, Failure("worker panicked"))
     \/ /\ ~ spawnFailed[r]
        /\ ~ WorkerPanicked(r)
        /\ Goto(r, "assemble")
        /\ UNCHANGED answer
  /\ UNCHANGED <<input, threads, pool, outcomes>>

Assemble(r) ==
  /\ pc[r] = "assemble"
  /\ Answer(r, Assembled(input[r], outcomes[r]))
  /\ UNCHANGED <<input, threads, budget, pool, outcomes>>

-----------------------------------------------------------------------------

CallerStep(r) ==
  \/ Select(r)
  \/ TryAcquire(r)
  \/ SelectMode(r)
  \/ SerialStep(r)
  \/ SerialEnd(r)
  \/ Spawn(r)
  \/ SpawnEnd(r)
  \/ Join(r)
  \/ ExecuteEnd(r)
  \/ Assemble(r)

Next ==
  \E r \in Requests :
    \/ CallerStep(r)
    \/ \E k \in 1..Capacity : WorkerEnds(r, k)

Spec == Init /\ [][Next]_vars

(* The operating system schedules the threads of request r: its caller,    *)
(* and the workers it spawned.                                             *)
Scheduled(r) ==
  /\ WF_vars(CallerStep(r))
  /\ \A k \in 1..Capacity : WF_vars(WorkerEnds(r, k))

-----------------------------------------------------------------------------
(* What disclosure preprocessing owes its callers and its process.         *)

CallerLabels == {"start", "acquire", "balance", "serial", "spawn", "join", "assemble", "done"}
ThreadStates == {"none", "running", "finished", "panicked"}

(* The domain of every variable that bounds a loop or indexes another one. *)
TypeOK ==
  /\ input \in [Requests -> Inputs]
  /\ pc \in [Requests -> CallerLabels]
  /\ threads \in [Requests -> Nat]
  /\ available \in Nat
  /\ lease \in [Requests -> 0..Capacity]
  /\ spawned \in [Requests -> 0..Capacity]
  /\ spawnFailed \in [Requests -> BOOLEAN]
  /\ thread \in [Requests -> [1..Capacity -> ThreadStates]]
  /\ joined \in [Requests -> 0..Capacity]

LiveThreads ==
  {p \in Requests \X (1..Capacity) : thread[p[1]][p[2]] = "running"}

(* Permits and leases always add up: no path through the policy, a failed  *)
(* spawn or a panicked worker leaks a permit or returns one twice.         *)
Conservation == available + Cardinality(PermitsOf(Requests, Capacity, lease)) = Capacity

(* Every worker thread that is running occupies a permit its request still *)
(* holds: the lease outlives the scope, even when spawning failed half way *)
(* or another worker panicked.                                             *)
ThreadsHavePermits == LiveThreads \subseteq PermitsOf(Requests, Capacity, lease)

(* "A non-blocking, process-wide cap on OS threads": all requests together *)
(* never run more worker threads than the capacity.                        *)
ProcessWideThreadCap == Cardinality(LiveThreads) <= Capacity

(* Permits are held only to decide the layout and to run workers; neither  *)
(* the serial loop nor the serial assembly keeps others from having them.  *)
PermitsOnlyWhileExecuting ==
  \A r \in Requests : lease[r] # 0 => pc[r] \in {"balance", "spawn", "join"}

-----------------------------------------------------------------------------

ExecutorFailures == {"spawn failed", "worker panicked"}

(* However a request was served, with whatever workers in whatever order,  *)
(* its answer is the serial loop's: the same mappings, the same order of   *)
(* digests, the same first error; only an executor failure may replace it, *)
(* and that never publishes anything.                                      *)
AnswersAsSerial ==
  \A r \in Requests :
    pc[r] = "done" => answer[r] = Oracle(input[r]) \/ answer[r].kind \in ExecutorFailures

(* An executor failure is reported exactly when this request's own         *)
(* executor failed; a failed spawn takes precedence over a panic.          *)
FailuresAttributed ==
  \A r \in Requests :
    pc[r] = "done" =>
      /\ answer[r].kind = "spawn failed" <=> spawnFailed[r]
      /\ answer[r].kind = "worker panicked" <=> ~ spawnFailed[r] /\ WorkerPanicked(r)
=============================================================================
