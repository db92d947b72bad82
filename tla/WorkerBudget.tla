---------------------------- MODULE WorkerBudget ----------------------------
(***************************************************************************)
(* ParallelWorkerBudget and ParallelWorkerLease of                         *)
(* src/disclosure_preprocessing.rs: a lock-free, process-wide cap on the   *)
(* worker threads.  One atomic counter is loaded, compared and swapped by  *)
(* try_acquire and incremented by the Drop of the lease.  A caller is one  *)
(* call of preprocess_disclosures: it calls try_acquire once and owns at   *)
(* most one lease.                                                         *)
(***************************************************************************)
EXTENDS Integers, FiniteSets, Permits

CONSTANTS Callers,       (* the calls that reach try_acquire               *)
          Capacity,      (* the budget's capacity                          *)
          WorkerCounts   (* the arguments of try_acquire                   *)

ASSUME BudgetAssumption ==
  /\ IsFiniteSet(Callers)
  /\ Capacity \in Nat
  /\ WorkerCounts \subseteq Nat

VARIABLES available,   (* the AtomicUsize                                  *)
          pc,          (* where the caller is                              *)
          want,        (* its worker_count argument                        *)
          seen,        (* its local copy of available                      *)
          lease        (* worker_count of the lease it owns, 0 for none    *)

vars == <<available, pc, want, seen, lease>>

Init ==
  /\ available = Capacity
  /\ pc = [c \in Callers |-> "idle"]
  /\ want = [c \in Callers |-> 0]
  /\ seen = [c \in Callers |-> 0]
  /\ lease = [c \in Callers |-> 0]

Goto(c, l) == pc' = [pc EXCEPT ![c] = l]

-----------------------------------------------------------------------------

Call(c, n) ==
  /\ pc[c] = "idle"
  /\ Goto(c, "called")
  /\ want' = [want EXCEPT ![c] = n]
  /\ UNCHANGED <<available, seen, lease>>

(* worker_count < 2 || worker_count > self.capacity                        *)
Unacceptable(n) == n < 2 \/ n > Capacity

Reject(c) ==
  /\ pc[c] = "called"
  /\ Unacceptable(want[c])
  /\ Goto(c, "denied")
  /\ UNCHANGED <<available, want, seen, lease>>

(* The top of the loop, with the value just read: give up or try to swap.  *)
Judge(c) ==
  Goto(c, IF available < want[c] THEN "denied" ELSE "swap")

Load(c) ==
  /\ pc[c] = "called"
  /\ ~ Unacceptable(want[c])
  /\ seen' = [seen EXCEPT ![c] = available]
  /\ Judge(c)
  /\ UNCHANGED <<available, want, lease>>

(* Slip: a plain store of the decremented value.                           *)
StoreUnchecked(c) ==
  /\ pc[c] = "swap"
  /\ available' = seen[c] - want[c]
  /\ lease' = [lease EXCEPT ![c] = want[c]]
  /\ Goto(c, "leased")
  /\ UNCHANGED <<want, seen>>

SwapSucceeds(c) ==
  /\ pc[c] = "swap"
  /\ available = seen[c]
  /\ available' = seen[c] - want[c]
  /\ lease' = [lease EXCEPT ![c] = want[c]]
  /\ Goto(c, "leased")
  /\ UNCHANGED <<want, seen>>

(* Slip: any failed swap is taken for a missing permit.                    *)
SwapFailureDenies(c) ==
  /\ pc[c] = "swap"
  /\ seen' = [seen EXCEPT ![c] = available]
  /\ Goto(c, "denied")
  /\ UNCHANGED <<available, want, lease>>

(* Slip: the loop starts over with the value it had.                       *)
SwapFailureKeepsStale(c) ==
  /\ pc[c] = "swap"
  /\ UNCHANGED vars

(* compare_exchange_weak may fail although the values agree; it returns    *)
(* the value it observed, and the loop starts over with it.                *)
SwapFails(c) ==
  /\ pc[c] = "swap"
  /\ seen' = [seen EXCEPT ![c] = available]
  /\ Judge(c)
  /\ UNCHANGED <<available, want, lease>>

(* Drop of the lease: one fetch_add.                                       *)
Drop(c) ==
  /\ pc[c] = "leased"
  /\ available' = available + lease[c]
  /\ lease' = [lease EXCEPT ![c] = 0]
  /\ Goto(c, "dropped")
  /\ UNCHANGED <<want, seen>>

Next ==
  \E c \in Callers :
    \/ \E n \in WorkerCounts : Call(c, n)
    \/ Reject(c)
    \/ Load(c)
    \/ SwapSucceeds(c)
    \/ SwapFails(c)
    \/ Drop(c)

Spec == Init /\ [][Next]_vars

(* The thread that runs try_acquire is scheduled, and a scope that owns a  *)
(* lease ends.  A swap that stays possible is not refused forever: a       *)
(* spurious failure leaves the state as it was, so WF is all it takes.     *)
Fairness ==
  \A c \in Callers :
    /\ WF_vars(Reject(c) \/ Load(c))
    /\ WF_vars(SwapSucceeds(c) \/ SwapFails(c))
    /\ WF_vars(Drop(c))

FairSpec == Spec /\ Fairness

-----------------------------------------------------------------------------

Labels == {"idle", "called", "swap", "leased", "denied", "dropped"}

(* The domain of every variable; the counter is a usize, so it must not go *)
(* below zero, and seen never holds less than want while a swap is tried.  *)
TypeOK ==
  /\ available \in Nat
  /\ pc \in [Callers -> Labels]
  /\ want \in [Callers -> Nat]
  /\ seen \in [Callers -> Nat]
  /\ lease \in [Callers -> Nat]

(* No permit is lost and none is invented: what the counter says and what  *)
(* the leases hold add up to the capacity in every state, whatever swaps   *)
(* were lost or repeated in between.                                       *)
Conservation == available + Cardinality(PermitsOf(Callers, Capacity, lease)) = Capacity

(* The debug_assert in Drop ("parallel worker budget over-release"): the   *)
(* counter before the release leaves room for the lease.                   *)
NoOverRelease ==
  \A c \in Callers : pc[c] = "leased" => available <= Capacity - lease[c]

(* try_acquire never blocks: with the leases of the others coming and      *)
(* going, every call comes back with a lease or with none.                 *)
CallsReturn ==
  \A c \in Callers : pc[c] = "called" ~> pc[c] \in {"leased", "denied", "dropped"}

-----------------------------------------------------------------------------

(* The caller's phase as the callers of the budget see it.                 *)
Phase(l) ==
  CASE l = "idle" -> "new"
    [] l \in {"called", "swap"} -> "asking"
    [] l = "leased" -> "granted"
    [] l = "dropped" -> "returned"
    [] OTHER -> "denied"

Pool == INSTANCE LeasePool WITH
          Requests <- Callers,
          free <- available,
          phase <- [c \in Callers |-> Phase(pc[c])],
          amount <- want

(* The loop is linearizable: it grants and denies as the atomic allocator  *)
(* does, so a request is only ever turned away at a moment at which its    *)
(* permits are really missing.                                             *)
ImplementsLeasePool == Pool!Spec
=============================================================================
