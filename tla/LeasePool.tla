----------------------------- MODULE LeasePool -----------------------------
(***************************************************************************)
(* What the process-wide worker budget of src/disclosure_preprocessing.rs  *)
(* promises its callers, as an atomic allocator.                           *)
(*                                                                         *)
(* A request asks for an exact number of worker permits.  It is granted    *)
(* all of them in one step, or it is denied at a moment at which they are  *)
(* not there; it never waits and never gets a part.  A granted lease is    *)
(* given back once, whole.  WorkerBudget, the compare-and-swap loop, is    *)
(* shown to implement this specification; DisclosurePreprocessing uses     *)
(* its atomic steps.                                                       *)
(***************************************************************************)
EXTENDS Integers

CONSTANTS Requests,      (* calls of preprocess_disclosures                *)
          Capacity,      (* permits of the budget, MAX_PARALLEL_WORKERS    *)
          WorkerCounts   (* what a request may ask for                     *)

VARIABLES free,    (* permits nobody holds                                 *)
          phase,   (* where each request is with its lease                 *)
          amount   (* what each request asked for                          *)

poolVars == <<free, phase, amount>>

Init ==
  /\ free = Capacity
  /\ phase = [r \in Requests |-> "new"]
  /\ amount = [r \in Requests |-> 0]

Ask(r, n) ==
  /\ phase[r] = "new"
  /\ phase' = [phase EXCEPT ![r] = "asking"]
  /\ amount' = [amount EXCEPT ![r] = n]
  /\ UNCHANGED free

(* A single permit would only move the work to another thread.             *)
Acceptable(n) == n >= 2 /\ n <= Capacity

Grant(r) ==
  /\ phase[r] = "asking"
  /\ Acceptable(amount[r])
  /\ amount[r] <= free
  /\ free' = free - amount[r]
  /\ phase' = [phase EXCEPT ![r] = "granted"]
  /\ UNCHANGED amount

Deny(r) ==
  /\ phase[r] = "asking"
  /\ Acceptable(amount[r]) => free < amount[r]
  /\ phase' = [phase EXCEPT ![r] = "denied"]
  /\ UNCHANGED <<free, amount>>

Return(r) ==
  /\ phase[r] = "granted"
  /\ free' = free + amount[r]
  /\ phase' = [phase EXCEPT ![r] = "returned"]
  /\ UNCHANGED amount

Next ==
  \E r \in Requests :
    \/ \E n \in WorkerCounts : Ask(r, n)
    \/ Grant(r)
    \/ Deny(r)
    \/ Return(r)

Spec == Init /\ [][Next]_poolVars
=============================================================================
