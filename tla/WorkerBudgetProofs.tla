------------------------- MODULE WorkerBudgetProofs -------------------------
(***************************************************************************)
(* The lock-free budget is right for every finite set of callers and every *)
(* capacity: its counter never goes negative and never exceeds what is     *)
(* not leased, and the compare-and-swap loop implements the atomic pool.   *)
(***************************************************************************)
EXTENDS WorkerBudget, CountingLemmas, TLAPS

(* What a caller's position says of its lease, and that a swap is only     *)
(* ever tried from a value that covers the request.                        *)
LeaseMatchesPc ==
  \A c \in Callers :
    /\ lease[c] = IF pc[c] = "leased" THEN want[c] ELSE 0
    /\ pc[c] \in {"swap", "leased"} => ~ Unacceptable(want[c])
    /\ pc[c] = "swap" => want[c] <= seen[c]

(* The counter is what the leases leave of the capacity.                   *)
IInv == TypeOK /\ LeaseMatchesPc /\ Conservation

USE DEF Labels

-----------------------------------------------------------------------------

(* Every step keeps the variables in their domains.  The counter stays a   *)
(* natural number because a successful swap compares equal to a value the  *)
(* caller has already found large enough.                                  *)
LEMMA StepTyped ==
  ASSUME TypeOK, LeaseMatchesPc, [Next]_vars
  PROVE  TypeOK'
<1> USE BudgetAssumption DEF TypeOK
<1>1. ASSUME NEW c \in Callers, NEW n \in WorkerCounts, Call(c, n)
      PROVE  TypeOK'
  BY <1>1 DEF Call, Goto
<1>2. ASSUME NEW c \in Callers, Reject(c)
      PROVE  TypeOK'
  BY <1>2 DEF Reject, Goto
<1>3. ASSUME NEW c \in Callers, Load(c)
      PROVE  TypeOK'
  BY <1>3 DEF Load, Judge, Goto
<1>4. ASSUME NEW c \in Callers, SwapSucceeds(c)
      PROVE  TypeOK'
  <2>1. want[c] <= seen[c]
    BY <1>4 DEF SwapSucceeds, LeaseMatchesPc
  <2>2. available' \in Nat
    BY <1>4, <2>1 DEF SwapSucceeds
  <2> QED
    BY <1>4, <2>2 DEF SwapSucceeds, Goto
<1>5. ASSUME NEW c \in Callers, SwapFails(c)
      PROVE  TypeOK'
  BY <1>5 DEF SwapFails, Judge, Goto
<1>6. ASSUME NEW c \in Callers, Drop(c)
      PROVE  TypeOK'
  BY <1>6 DEF Drop, Goto
<1>7. CASE UNCHANGED vars
  BY <1>7 DEF vars
<1> QED
  BY <1>1, <1>2, <1>3, <1>4, <1>5, <1>6, <1>7 DEF Next

(* Every step keeps the leases in agreement with the callers' positions.   *)
LEMMA StepLeases ==
  ASSUME TypeOK, LeaseMatchesPc, [Next]_vars
  PROVE  LeaseMatchesPc'
<1> USE BudgetAssumption DEF TypeOK, LeaseMatchesPc, Unacceptable
<1>1. ASSUME NEW c \in Callers, NEW n \in WorkerCounts, Call(c, n)
      PROVE  LeaseMatchesPc'
  BY <1>1 DEF Call, Goto
<1>2. ASSUME NEW c \in Callers, Reject(c)
      PROVE  LeaseMatchesPc'
  BY <1>2 DEF Reject, Goto
<1>3. ASSUME NEW c \in Callers, Load(c)
      PROVE  LeaseMatchesPc'
  BY <1>3 DEF Load, Judge, Goto
<1>4. ASSUME NEW c \in Callers, SwapSucceeds(c)
      PROVE  LeaseMatchesPc'
  BY <1>4 DEF SwapSucceeds, Goto
<1>5. ASSUME NEW c \in Callers, SwapFails(c)
      PROVE  LeaseMatchesPc'
  BY <1>5 DEF SwapFails, Judge, Goto
<1>6. ASSUME NEW c \in Callers, Drop(c)
      PROVE  LeaseMatchesPc'
  BY <1>6 DEF Drop, Goto
<1>7. CASE UNCHANGED vars
  BY <1>7 DEF vars
<1> QED
  BY <1>1, <1>2, <1>3, <1>4, <1>5, <1>6, <1>7 DEF Next

(* Only a successful swap and a drop move permits, each as many as it adds *)
(* to or takes from the counter.                                           *)
LEMMA StepConserves ==
  ASSUME IInv, [Next]_vars
  PROVE  Conservation'
<1> USE BudgetAssumption
<1> DEFINE Out(f) == Cardinality(PermitsOf(Callers, Capacity, f))
<1>1. lease \in [Callers -> Nat] /\ available \in Nat /\ available + Out(lease) = Capacity
  BY DEF IInv, TypeOK, Conservation
<1>2. Out(lease) \in Nat
  BY <1>1, PermitsFinite
<1>3. ASSUME NEW c \in Callers, SwapSucceeds(c)
      PROVE  Conservation'
  <2>1. want[c] \in 0..Capacity /\ lease[c] = 0
    BY <1>3 DEF SwapSucceeds, IInv, TypeOK, LeaseMatchesPc, Unacceptable
  <2>2. Out([lease EXCEPT ![c] = want[c]]) = Out(lease) + want[c]
    BY <1>1, <2>1, PermitsGrow
  <2>3. available' = available - want[c] /\ lease' = [lease EXCEPT ![c] = want[c]]
    BY <1>3 DEF SwapSucceeds
  <2> QED
    BY <1>1, <1>2, <2>1, <2>2, <2>3 DEF Conservation
<1>4. ASSUME NEW c \in Callers, Drop(c)
      PROVE  Conservation'
  <2>1. lease[c] \in 0..Capacity
    BY <1>4 DEF Drop, IInv, TypeOK, LeaseMatchesPc, Unacceptable
  <2>2. Out([lease EXCEPT ![c] = 0]) = Out(lease) - lease[c]
    BY <1>1, <2>1, PermitsShrink
  <2>3. available' = available + lease[c] /\ lease' = [lease EXCEPT ![c] = 0]
    BY <1>4 DEF Drop
  <2> QED
    BY <1>1, <1>2, <2>1, <2>2, <2>3 DEF Conservation
<1>5. CASE UNCHANGED <<available, lease>>
  BY <1>1, <1>5 DEF Conservation
<1>6. CASE \A c \in Callers : ~ SwapSucceeds(c) /\ ~ Drop(c)
  BY <1>5, <1>6 DEF Next, vars, Call, Reject, Load, SwapFails
<1> QED
  BY <1>3, <1>4, <1>6

LEMMA InitHolds == Init => IInv
<1> SUFFICES ASSUME Init PROVE IInv
  OBVIOUS
<1> USE BudgetAssumption DEF Init
<1>1. TypeOK /\ LeaseMatchesPc
  BY DEF TypeOK, LeaseMatchesPc
<1>2. PermitsOf(Callers, Capacity, lease) = {}
  BY DEF PermitsOf
<1>3. Cardinality(PermitsOf(Callers, Capacity, lease)) = 0
  BY <1>2, FS_EmptySet
<1> QED
  BY <1>1, <1>3 DEF IInv, Conservation

(* The inductive invariant of the budget.                                  *)
THEOREM Invariance == Spec => []IInv
<1>1. IInv /\ [Next]_vars => IInv'
  BY StepTyped, StepLeases, StepConserves DEF IInv
<1> QED
  BY InitHolds, <1>1, PTL DEF Spec

(* The counter is a natural number and every variable has its domain, for  *)
(* any callers: the usize of try_acquire cannot wrap.                      *)
THEOREM TypeCorrect == Spec => []TypeOK
<1>1. IInv => TypeOK
  BY DEF IInv
<1> QED
  BY Invariance, <1>1, PTL

(* Permits are conserved: the lost and repeated swaps of any number of     *)
(* callers never lose or invent one.                                       *)
THEOREM PermitsConserved == Spec => []Conservation
<1>1. IInv => Conservation
  BY DEF IInv
<1> QED
  BY Invariance, <1>1, PTL

(* The debug_assert of Drop can never fire.                                *)
THEOREM ReleaseFits == Spec => []NoOverRelease
<1>1. IInv => NoOverRelease
  <2> SUFFICES ASSUME IInv, NEW c \in Callers, pc[c] = "leased"
               PROVE  available <= Capacity - lease[c]
    BY DEF NoOverRelease
  <2> DEFINE Block == {c} \X (1..lease[c])
             Out == PermitsOf(Callers, Capacity, lease)
  <2>1. lease \in [Callers -> Nat] /\ lease[c] \in 0..Capacity
    BY BudgetAssumption DEF IInv, TypeOK, LeaseMatchesPc, Unacceptable
  <2>2. Block \in SUBSET Out
    BY <2>1, BudgetAssumption DEF PermitsOf
  <2>3. Cardinality(Block) = lease[c]
    BY <2>1, BlockCardinality, Zenon DEF Block
  <2>4. Cardinality(Block) <= Cardinality(Out) /\ Cardinality(Out) \in Nat
    BY <2>1, <2>2, OccupantsBounded, PermitsFinite, BudgetAssumption
  <2> QED
    BY <2>1, <2>3, <2>4, BudgetAssumption DEF IInv, TypeOK, Conservation
<1> QED
  BY Invariance, <1>1, PTL

-----------------------------------------------------------------------------

(* The compare-and-swap loop implements the atomic pool: Load and a failed *)
(* swap are the pool's Deny when they give up and stutter when they go on. *)
THEOREM Linearizable == Spec => ImplementsLeasePool
<1> DEFINE phase == [c \in Callers |-> Phase(pc[c])]
<1> USE DEF Phase, Pool!poolVars
<1>1. Init => Pool!Init
  BY DEF Init, Pool!Init
<1>2. IInv /\ [Next]_vars => [Pool!Next]_(Pool!poolVars)
  <2> SUFFICES ASSUME IInv, [Next]_vars
               PROVE  [Pool!Next]_(Pool!poolVars)
    OBVIOUS
  <2> USE DEF IInv, TypeOK, LeaseMatchesPc, Goto, Unacceptable
  <2>1. ASSUME NEW c \in Callers, NEW n \in WorkerCounts, Call(c, n)
        PROVE  Pool!Ask(c, n)
    BY <2>1 DEF Call, Pool!Ask
  <2>2. ASSUME NEW c \in Callers, Reject(c)
        PROVE  Pool!Deny(c)
    <3>1. want[c] \in Nat /\ Unacceptable(want[c])
      BY <2>2 DEF Reject
    <3>2. ~ Pool!Acceptable(want[c])
      BY <3>1, BudgetAssumption DEF Pool!Acceptable
    <3> QED
      BY <2>2, <3>2 DEF Reject, Pool!Deny
  <2>3. ASSUME NEW c \in Callers, Load(c) \/ SwapFails(c)
        PROVE  Pool!Deny(c) \/ UNCHANGED Pool!poolVars
    BY <2>3 DEF Load, SwapFails, Judge, Pool!Deny, Pool!Acceptable
  <2>4. ASSUME NEW c \in Callers, SwapSucceeds(c)
        PROVE  Pool!Grant(c)
    <3>1. want[c] \in Nat /\ ~ Unacceptable(want[c]) /\ want[c] <= available
      BY <2>4 DEF SwapSucceeds
    <3>2. Pool!Acceptable(want[c])
      BY <3>1, BudgetAssumption DEF Pool!Acceptable
    <3> QED
      BY <2>4, <3>1, <3>2 DEF SwapSucceeds, Pool!Grant
  <2>5. ASSUME NEW c \in Callers, Drop(c)
        PROVE  Pool!Return(c)
    BY <2>5 DEF Drop, Pool!Return
  <2>6. CASE UNCHANGED vars
    BY <2>6 DEF vars
  <2> QED
    BY <2>1, <2>2, <2>3, <2>4, <2>5, <2>6 DEF Next, Pool!Next
<1> QED
  BY <1>1, <1>2, Invariance, PTL DEF Spec, ImplementsLeasePool, Pool!Spec
=============================================================================
