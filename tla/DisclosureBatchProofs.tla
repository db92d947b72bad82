------------------------ MODULE DisclosureBatchProofs ------------------------
(***************************************************************************)
(* For any number of calls, any batches and limits and any executors: no   *)
(* two plans share an identity, and what is published is complete and what *)
(* the credentials would be answered alone.                                *)
(***************************************************************************)
EXTENDS DisclosureBatch, CountingLemmas, SequenceTheorems, TLAPS

(* The counter is ahead of every identity it gave out, and only a call     *)
(* that has left "start" has one.                                          *)
IInv ==
  /\ plan \in [AllCallers -> Nat]
  /\ pc \in [AllCallers -> Labels]
  /\ nextPlanId \in Nat \ {0}
  /\ \A c \in AllCallers : plan[c] < nextPlanId
  /\ \A c \in AllCallers : pc[c] = "start" => plan[c] = 0
  /\ PlanIdsDistinct

LEMMA InitHolds == Init => IInv
BY DEF Init, IInv, PlanIdsDistinct, Labels

(* Taking the next identity, or none.                                      *)
LEMMA TakesFresh ==
  ASSUME IInv, NEW c \in AllCallers, pc[c] = "start", TakePlanId(c),
         pc' \in [AllCallers -> Labels], pc'[c] # "start",
         \A d \in AllCallers : d # c => pc'[d] = pc[d]
  PROVE  IInv'
<1>1. plan' = [plan EXCEPT ![c] = nextPlanId] /\ nextPlanId' = nextPlanId + 1
  BY DEF TakePlanId
<1>2. plan' \in [AllCallers -> Nat] /\ nextPlanId' \in Nat \ {0}
  BY <1>1 DEF IInv
<1>3. plan'[c] = nextPlanId /\ \A d \in AllCallers : d # c => plan'[d] = plan[d]
  BY <1>1 DEF IInv
<1>4. \A d \in AllCallers : plan'[d] < nextPlanId'
  BY <1>1, <1>3 DEF IInv
<1>5. \A d \in AllCallers : pc'[d] = "start" => plan'[d] = 0
  BY <1>3 DEF IInv
<1>6. PlanIdsDistinct'
  <2> SUFFICES ASSUME NEW d \in AllCallers, NEW e \in AllCallers, d # e, plan'[d] # 0
               PROVE  plan'[d] # plan'[e]
    BY DEF PlanIdsDistinct
  <2>1. CASE d # c /\ e # c
    BY <1>3, <2>1 DEF IInv, PlanIdsDistinct
  <2>2. CASE d = c
    <3>1. plan'[e] = plan[e] /\ plan[e] \in Nat /\ plan[e] < nextPlanId
      BY <1>3, <2>2 DEF IInv
    <3> QED
      BY <1>3, <2>2, <3>1 DEF IInv
  <2>3. CASE e = c
    <3>1. plan'[d] = plan[d] /\ plan[d] \in Nat /\ plan[d] < nextPlanId
      BY <1>3, <2>3 DEF IInv
    <3> QED
      BY <1>3, <2>3, <3>1 DEF IInv
  <2> QED
    BY <2>1, <2>2, <2>3
<1> QED
  BY <1>2, <1>4, <1>5, <1>6 DEF IInv

(* Steps after the plan, and those that end without one.                   *)
LEMMA KeepsIds ==
  ASSUME IInv, UNCHANGED <<nextPlanId, plan>>,
         pc' \in [AllCallers -> Labels],
         \A d \in AllCallers : pc'[d] = "start" => pc[d] = "start"
  PROVE  IInv'
BY DEF IInv, PlanIdsDistinct

LEMMA MovesOn ==
  ASSUME IInv, NEW c \in AllCallers, NEW l \in Labels \ {"start"}, Goto(c, l)
  PROVE  /\ pc' \in [AllCallers -> Labels]
         /\ pc'[c] # "start"
         /\ \A d \in AllCallers : d # c => pc'[d] = pc[d]
         /\ \A d \in AllCallers : pc'[d] = "start" => pc[d] = "start"
BY DEF IInv, Goto, Labels

LEMMA NextPreserves == IInv /\ [Next]_vars => IInv'
<1> SUFFICES ASSUME IInv, [Next]_vars PROVE IInv'
  OBVIOUS
<1>1. ASSUME UNCHANGED vars PROVE IInv'
  BY <1>1 DEF IInv, PlanIdsDistinct, vars
<1>2. ASSUME NEW c \in AllCallers, NewPlan(c) PROVE IInv'
  <2>1. pc[c] = "start" /\ TakePlanId(c)
    BY <1>2 DEF NewPlan
  <2>2. Goto(c, "execute") \/ Goto(c, "done")
    BY <1>2 DEF NewPlan, Answer
  <2> QED
    BY <2>1, <2>2, MovesOn, TakesFresh DEF Labels
<1>3. ASSUME NEW c \in AllCallers,
             Refuse(c) \/ PlanSpaceExhausted(c) \/ Execute(c) \/ SerialExecute(c) \/ Assemble(c)
      PROVE  IInv'
  <2>1. UNCHANGED <<nextPlanId, plan>>
    BY <1>3 DEF Refuse, PlanSpaceExhausted, Execute, SerialExecute, Assemble
  <2>2. Goto(c, "assemble") \/ Goto(c, "done")
    BY <1>3 DEF Refuse, PlanSpaceExhausted, Execute, SerialExecute, Assemble, Answer
  <2> QED
    BY <2>1, <2>2, MovesOn, KeepsIds DEF Labels
<1> QED
  BY <1>1, <1>2, <1>3 DEF Next

(* No two plans of the process ever have the same identity, however many   *)
(* calls race for one and wherever the counter ends.                       *)
THEOREM IdsNeverReused == Spec => []PlanIdsDistinct
<1>1. IInv => PlanIdsDistinct
  BY DEF IInv
<1> QED
  BY <1>1, InitHolds, NextPreserves, PTL DEF Spec

-----------------------------------------------------------------------------
(* The jobs of a plan.                                                     *)

LEMMA JobsUpToEquation ==
  ASSUME NEW p, NEW b, Len(b) \in Nat
  PROVE  JobsUpTo(p, b) =
           [k \in 0..Len(b) |->
              IF k = 0 THEN <<>> ELSE JobsUpTo(p, b)[k - 1] \o CredentialJobs(p, b, k)]
<1> DEFINE n == Len(b)
           parts == [k \in 1..n |-> CredentialJobs(p, b, k)]
<1>1. n \in Nat
  OBVIOUS
<1>2. Len(parts) = n /\ \A k \in 1..n : parts[k] = CredentialJobs(p, b, k)
  <2> HIDE DEF n
  <2> QED
    BY <1>1
<1>3. JobsUpTo(p, b) = Joined(parts)
  BY DEF JobsUpTo
<1> HIDE DEF parts, n
<1>4. Joined(parts) =
        [k \in 0..n |-> IF k = 0 THEN <<>> ELSE Joined(parts)[k - 1] \o parts[k]]
  BY <1>1, <1>2, JoinedEquation
<1>5. \A k \in 0..n : k = 0 \/ k \in 1..n
  BY <1>1
<1>6. Joined(parts) =
        [k \in 0..n |->
           IF k = 0 THEN <<>> ELSE Joined(parts)[k - 1] \o CredentialJobs(p, b, k)]
  BY <1>2, <1>4, <1>5
<1> QED
  BY <1>3, <1>6 DEF n

JobRecords == [plan : Nat, cred : Nat, ordinal : Nat, encoded : Encoded]

(* The identities of a job belong together: it is the job of disclosure    *)
(* "ordinal" of credential "cred".                                         *)
IsJobOf(j, p, b) ==
  /\ j.plan = p
  /\ j.cred \in 1..Len(b)
  /\ j.ordinal \in 1..Len(b[j.cred])
  /\ j.encoded = b[j.cred][j.ordinal]

IsBatch(b) == Len(b) \in Nat /\ \A k \in 1..Len(b) : b[k] \in Seq(Encoded)

LEMMA BatchesAreLists == ASSUME NEW b \in Batches PROVE IsBatch(b)
<1>1. b \in Seq(Seq(Encoded))
  BY BatchAssumption
<1> QED
  BY <1>1, LenProperties, ElementOfSeq DEF IsBatch

AreJobsOf(js, p, b, k) ==
  /\ js \in Seq(JobRecords) /\ Len(js) = Len(b[k]) /\ Len(b[k]) \in Nat
  /\ \A i \in 1..Len(b[k]) : IsJobOf(js[i], p, b) /\ js[i].cred = k /\ js[i].ordinal = i

LEMMA JobsOfCredential ==
  ASSUME NEW p \in Nat, NEW b, IsBatch(b), NEW k \in 1..Len(b)
  PROVE  AreJobsOf(CredentialJobs(p, b, k), p, b, k)
<1> DEFINE js == CredentialJobs(p, b, k)
           n == Len(b[k])
<1>1. n \in Nat /\ \A i \in 1..n : b[k][i] \in Encoded
  BY LenProperties, ElementOfSeq DEF IsBatch
<1>2. js = [i \in 1..n |-> [plan |-> p, cred |-> k, ordinal |-> i, encoded |-> b[k][i]]]
  BY DEF CredentialJobs
<1>3. k \in Nat
  BY DEF IsBatch
<1>4. \A i \in 1..n : js[i] \in JobRecords /\ IsJobOf(js[i], p, b) /\ js[i].cred = k /\ js[i].ordinal = i
  BY <1>1, <1>2, <1>3 DEF JobRecords, IsJobOf
<1>5. js \in [1..n -> JobRecords]
  BY <1>2, <1>4
<1> HIDE DEF js, n
<1>6. js \in Seq(JobRecords) /\ Len(js) = n
  BY <1>1, <1>5, SeqDef
<1> QED
  BY <1>1, <1>4, <1>6 DEF js, n, AreJobsOf

(* The jobs of the first m credentials: each is a job of one of them, and  *)
(* stands where the jobs of the credentials before it end.                 *)
Placed(p, b, m) ==
  LET J == JobsUpTo(p, b)
  IN  /\ J[m] \in Seq(JobRecords)
      /\ \A q \in 1..Len(J[m]) :
           /\ IsJobOf(J[m][q], p, b)
           /\ J[m][q].cred \in 1..m
           /\ q = Len(J[J[m][q].cred - 1]) + J[m][q].ordinal
      /\ \A k \in 0..m :
           /\ Len(J[k]) \in 0..Len(J[m])
           /\ \A q \in 1..Len(J[k]) : J[k][q] = J[m][q]

LEMMA PlacedFirst == ASSUME NEW p \in Nat, NEW b, IsBatch(b) PROVE Placed(p, b, 0)
<1>1. JobsUpTo(p, b)[0] = <<>>
  <2> DEFINE J == JobsUpTo(p, b)
  <2>1. Len(b) \in Nat /\ 0 \in 0..Len(b)
    BY DEF IsBatch
  <2>2. J = [k \in 0..Len(b) |-> IF k = 0 THEN <<>> ELSE J[k - 1] \o CredentialJobs(p, b, k)]
    BY <2>1, JobsUpToEquation
  <2> HIDE DEF J
  <2>3. J[0] = IF 0 = 0 THEN <<>> ELSE J[0 - 1] \o CredentialJobs(p, b, 0)
    BY <2>1, <2>2, Zenon
  <2> QED
    BY <2>3 DEF J
<1>2. Len(<<>>) = 0 /\ <<>> \in Seq(JobRecords)
  OBVIOUS
<1> QED
  BY <1>1, <1>2 DEF Placed

LEMMA PlacedNext ==
  ASSUME NEW p \in Nat, NEW b, IsBatch(b), NEW m \in 1..Len(b), Placed(p, b, m - 1)
  PROVE  Placed(p, b, m)
<1> DEFINE J == JobsUpTo(p, b)
           old == J[m - 1]
           js == CredentialJobs(p, b, m)
           new == J[m]
<1>1. m \in 0..Len(b) /\ m # 0 /\ m \in 1..m /\ m \in Nat /\ Len(b) \in Nat
  BY DEF IsBatch
<1>2. new = old \o js
  BY <1>1, JobsUpToEquation
<1>3. /\ js \in Seq(JobRecords)
      /\ \A i \in 1..Len(js) : IsJobOf(js[i], p, b) /\ js[i].cred = m /\ js[i].ordinal = i
  <2>1. AreJobsOf(js, p, b, m)
    BY JobsOfCredential
  <2> HIDE DEF js
  <2> QED
    BY <2>1, Zenon DEF AreJobsOf
<1>4. /\ old \in Seq(JobRecords)
      /\ \A q \in 1..Len(old) :
           /\ IsJobOf(old[q], p, b)
           /\ old[q].cred \in 1..(m - 1)
           /\ q = Len(J[old[q].cred - 1]) + old[q].ordinal
      /\ \A k \in 0..(m - 1) :
           /\ Len(J[k]) \in 0..Len(old)
           /\ \A q \in 1..Len(J[k]) : J[k][q] = old[q]
  BY DEF Placed
<1> HIDE DEF js, new
<1>5. Len(old) \in Nat /\ Len(js) \in Nat
  BY <1>3, <1>4, LenProperties
<1>6. /\ new \in Seq(JobRecords)
      /\ Len(new) = Len(old) + Len(js)
      /\ \A q \in 1..(Len(old) + Len(js)) :
           new[q] = IF q <= Len(old) THEN old[q] ELSE js[q - Len(old)]
  BY <1>2, <1>3, <1>4, ConcatProperties
<1>7. ASSUME NEW q \in 1..Len(new)
      PROVE  /\ IsJobOf(new[q], p, b)
             /\ new[q].cred \in 1..m
             /\ q = Len(J[new[q].cred - 1]) + new[q].ordinal
  <2>1. CASE q <= Len(old)
    <3>1. q \in 1..Len(old) /\ new[q] = old[q]
      BY <1>5, <1>6, <2>1
    <3>2. old[q].cred \in 1..(m - 1)
      BY <1>4, <3>1
    <3>3. old[q].cred \in 1..m
      BY <1>1, <3>2
    <3> QED
      BY <1>4, <3>1, <3>3
  <2>2. CASE q > Len(old)
    <3> DEFINE i == q - Len(old)
    <3>1. i \in 1..Len(js) /\ new[q] = js[i] /\ q = Len(old) + i
      BY <1>5, <1>6, <2>2
    <3> HIDE DEF i
    <3>2. IsJobOf(new[q], p, b) /\ new[q].cred = m /\ new[q].ordinal = i
      BY <1>3, <3>1
    <3> QED
      BY <1>1, <3>1, <3>2
  <2> QED
    BY <1>5, <1>6, <2>1, <2>2
<1>8. ASSUME NEW k \in 0..m
      PROVE  Len(J[k]) \in 0..Len(new) /\ \A q \in 1..Len(J[k]) : J[k][q] = new[q]
  <2>1. CASE k = m
    BY <1>5, <1>6, <2>1 DEF new
  <2>2. CASE k # m
    <3>1. k \in 0..(m - 1)
      BY <1>1, <2>2
    <3>2. Len(J[k]) \in 0..Len(old) /\ \A q \in 1..Len(J[k]) : J[k][q] = old[q]
      BY <1>4, <3>1
    <3>3. Len(J[k]) \in 0..Len(new)
      BY <1>5, <1>6, <3>2
    <3>4. \A q \in 1..Len(J[k]) : new[q] = old[q]
      BY <1>5, <1>6, <3>2
    <3> QED
      BY <3>2, <3>3, <3>4
  <2> QED
    BY <2>1, <2>2
<1> QED
  BY <1>6, <1>7, <1>8 DEF Placed, new

LEMMA AllPlaced ==
  ASSUME NEW p \in Nat, NEW b, IsBatch(b), NEW m \in 0..Len(b)
  PROVE  Placed(p, b, m)
<1> DEFINE S == {k \in 0..Len(b) : Placed(p, b, k)}
<1>1. 0 \in S /\ Len(b) \in Nat
  BY PlacedFirst DEF IsBatch
<1>2. \A k \in 1..Len(b) : k - 1 \in S => k \in S
  BY PlacedNext
<1> HIDE DEF S
<1>3. 0..Len(b) \subseteq S
  BY <1>1, <1>2, UpTo
<1> QED
  BY <1>3 DEF S

(* The jobs of a whole batch, and where each is.                           *)
LEMMA JobsOfBatch ==
  ASSUME NEW p \in Nat, NEW b, IsBatch(b)
  PROVE  /\ Jobs(p, b) \in Seq(JobRecords)
         /\ Len(Jobs(p, b)) \in Nat
         /\ \A q \in 1..Len(Jobs(p, b)) :
              /\ Jobs(p, b)[q] \in JobRecords
              /\ IsJobOf(Jobs(p, b)[q], p, b)
              /\ q = Len(JobsUpTo(p, b)[Jobs(p, b)[q].cred - 1]) + Jobs(p, b)[q].ordinal
<1>1. Len(b) \in 0..Len(b)
  BY DEF IsBatch
<1>2. Placed(p, b, Len(b))
  BY <1>1, AllPlaced
<1> QED
  BY <1>2, LenProperties, ElementOfSeq DEF Placed, Jobs

LEMMA JobOfPlan ==
  ASSUME NEW p \in Nat, NEW b, IsBatch(b), NEW q \in 1..Len(Jobs(p, b))
  PROVE  Jobs(p, b)[q] \in JobRecords /\ Jobs(p, b)[q].plan = p
<1>1. Jobs(p, b)[q] \in JobRecords /\ IsJobOf(Jobs(p, b)[q], p, b)
  BY JobsOfBatch
<1> QED
  BY <1>1 DEF IsJobOf

(* The position of disclosure i of credential k.                           *)
PositionOf(p, b, k, i) == Len(JobsUpTo(p, b)[k - 1]) + i

StandsAt(js, q, b, k, i) ==
  /\ q \in 1..Len(js)
  /\ js[q].cred = k /\ js[q].ordinal = i /\ js[q].encoded = b[k][i]

LEMMA JobStands ==
  ASSUME NEW p \in Nat, NEW b, IsBatch(b), NEW k \in 1..Len(b), NEW i \in 1..Len(b[k])
  PROVE  StandsAt(Jobs(p, b), PositionOf(p, b, k, i), b, k, i)
<1> DEFINE q == PositionOf(p, b, k, i)
           J == JobsUpTo(p, b)
           old == J[k - 1]
           js == CredentialJobs(p, b, k)
<1>0. q = Len(old) + i
  BY DEF PositionOf
<1>1. /\ k \in 0..Len(b) /\ k - 1 \in 0..Len(b) /\ Len(b) \in 0..Len(b) /\ k # 0
      /\ Len(b) \in Nat
  BY DEF IsBatch
<1>2. Placed(p, b, k - 1) /\ Placed(p, b, Len(b))
  BY <1>1, AllPlaced
<1>3. old \in Seq(JobRecords) /\ Len(old) \in Nat
  BY <1>2, LenProperties DEF Placed
<1>4. /\ js \in Seq(JobRecords) /\ Len(js) = Len(b[k]) /\ Len(b[k]) \in Nat
      /\ IsJobOf(js[i], p, b) /\ js[i].cred = k /\ js[i].ordinal = i
  <2>1. AreJobsOf(js, p, b, k)
    BY JobsOfCredential
  <2> HIDE DEF js
  <2> QED
    BY <2>1, Zenon DEF AreJobsOf
<1>5. J[k] = old \o js
  BY <1>1, JobsUpToEquation
<1> HIDE DEF old, js, q
<1>6. Len(J[k]) = Len(old) + Len(js) /\ q \in 1..Len(J[k]) /\ J[k][q] = js[i]
  <2>1. Len(old \o js) = Len(old) + Len(js)
    BY <1>3, <1>4, ConcatProperties
  <2>2. q \in 1..(Len(old) + Len(js)) /\ ~ (q <= Len(old)) /\ q - Len(old) = i
    BY <1>0, <1>3, <1>4
  <2>3. (old \o js)[q] = IF q <= Len(old) THEN old[q] ELSE js[q - Len(old)]
    <3>1. \A x \in 1..(Len(old) + Len(js)) :
            (old \o js)[x] = IF x <= Len(old) THEN old[x] ELSE js[x - Len(old)]
      BY <1>3, <1>4, ConcatProperties
    <3> QED
      BY <2>2, <3>1
  <2> QED
    BY <1>5, <2>1, <2>2, <2>3
<1>7. Len(J[k]) \in 0..Len(Jobs(p, b)) /\ \A x \in 1..Len(J[k]) : J[k][x] = Jobs(p, b)[x]
  BY <1>1, <1>2 DEF Placed, Jobs
<1>8. q \in 1..Len(Jobs(p, b)) /\ Jobs(p, b)[q] = js[i]
  <2> DEFINE all == Jobs(p, b)
             some == J[k]
  <2>1. Len(some) \in 0..Len(all) /\ \A x \in 1..Len(some) : some[x] = all[x]
    BY <1>7
  <2>2. q \in 1..Len(some) /\ some[q] = js[i]
    BY <1>6
  <2>3. Len(all) \in Nat
    BY JobsOfBatch
  <2> HIDE DEF all, some
  <2>4. q \in 1..Len(all) /\ all[q] = js[i]
    BY <2>1, <2>2, <2>3
  <2> QED
    BY <2>4 DEF all
<1> QED
  BY <1>4, <1>8 DEF IsJobOf, q, StandsAt

LEMMA JobAt ==
  ASSUME NEW p \in Nat, NEW b, IsBatch(b), NEW k \in 1..Len(b), NEW i \in 1..Len(b[k])
  PROVE  /\ PositionOf(p, b, k, i) \in 1..Len(Jobs(p, b))
         /\ Jobs(p, b)[PositionOf(p, b, k, i)].cred = k
         /\ Jobs(p, b)[PositionOf(p, b, k, i)].ordinal = i
         /\ Jobs(p, b)[PositionOf(p, b, k, i)].encoded = b[k][i]
<1>1. StandsAt(Jobs(p, b), PositionOf(p, b, k, i), b, k, i)
  BY JobStands
<1> QED
  BY <1>1, Zenon DEF StandsAt

LEMMA CredAt ==
  ASSUME NEW p \in Nat, NEW b, IsBatch(b), NEW l \in 1..Len(b), NEW j \in 1..Len(b[l])
  PROVE  Jobs(p, b)[PositionOf(p, b, l, j)].cred = l
<1>1. StandsAt(Jobs(p, b), PositionOf(p, b, l, j), b, l, j)
  BY JobStands
<1> QED
  BY <1>1, Zenon DEF StandsAt

(* Where the jobs of a credential end.                                     *)
LEMMA JobsEnd ==
  ASSUME NEW p \in Nat, NEW b, IsBatch(b), NEW k \in 1..Len(b)
  PROVE  /\ Len(JobsUpTo(p, b)[k - 1]) \in Nat
         /\ Len(b[k]) \in Nat
         /\ Len(JobsUpTo(p, b)[k]) = Len(JobsUpTo(p, b)[k - 1]) + Len(b[k])
<1> DEFINE old == JobsUpTo(p, b)[k - 1]
           js == CredentialJobs(p, b, k)
<1>1. k \in 0..Len(b) /\ k - 1 \in 0..Len(b) /\ k # 0 /\ Len(b) \in Nat
  BY DEF IsBatch
<1>2. JobsUpTo(p, b)[k] = old \o js
  BY <1>1, JobsUpToEquation
<1>3. js \in Seq(JobRecords) /\ Len(js) = Len(b[k]) /\ Len(b[k]) \in Nat
  <2>1. AreJobsOf(js, p, b, k)
    BY JobsOfCredential
  <2> HIDE DEF js
  <2> QED
    BY <2>1, Zenon DEF AreJobsOf
<1>4. old \in Seq(JobRecords)
  BY <1>1, AllPlaced DEF Placed
<1> HIDE DEF old, js
<1>5. Len(old \o js) = Len(old) + Len(js) /\ Len(old) \in Nat
  BY <1>3, <1>4, ConcatProperties, LenProperties
<1> QED
  BY <1>2, <1>3, <1>5 DEF old

LEMMA JobsEndLater ==
  ASSUME NEW p \in Nat, NEW b, IsBatch(b), NEW k \in 1..Len(b), NEW l \in 1..Len(b), k < l
  PROVE  Len(JobsUpTo(p, b)[k]) <= Len(JobsUpTo(p, b)[l - 1])
<1>1. l - 1 \in 0..Len(b) /\ k \in 0..(l - 1)
  BY DEF IsBatch
<1>2. Placed(p, b, l - 1)
  BY <1>1, AllPlaced
<1>3. Len(JobsUpTo(p, b)[k]) \in 0..Len(JobsUpTo(p, b)[l - 1])
  BY <1>1, <1>2 DEF Placed
<1> QED
  BY <1>3

Bounds(p, b, x, k, i) ==
  /\ k \in 1..Len(b) /\ i \in 1..Len(b[k]) /\ i \in Nat
  /\ Len(JobsUpTo(p, b)[k - 1]) \in Nat
  /\ x = Len(JobsUpTo(p, b)[k - 1]) + i
  /\ x <= Len(JobsUpTo(p, b)[k])

LEMMA JobBounds ==
  ASSUME NEW p \in Nat, NEW b, IsBatch(b), NEW x \in 1..Len(Jobs(p, b))
  PROVE  Bounds(p, b, x, Jobs(p, b)[x].cred, Jobs(p, b)[x].ordinal)
<1> DEFINE k == Jobs(p, b)[x].cred
           i == Jobs(p, b)[x].ordinal
<1>1. IsJobOf(Jobs(p, b)[x], p, b) /\ x = Len(JobsUpTo(p, b)[k - 1]) + i
  BY JobsOfBatch
<1>2. k \in 1..Len(b) /\ i \in 1..Len(b[k])
  BY <1>1 DEF IsJobOf
<1>3. /\ Len(JobsUpTo(p, b)[k - 1]) \in Nat
      /\ Len(b[k]) \in Nat
      /\ Len(JobsUpTo(p, b)[k]) = Len(JobsUpTo(p, b)[k - 1]) + Len(b[k])
  BY <1>2, JobsEnd
<1> DEFINE start == Len(JobsUpTo(p, b)[k - 1])
           count == Len(b[k])
           end == Len(JobsUpTo(p, b)[k])
<1>4. /\ x = start + i /\ i \in 1..count /\ k \in 1..Len(b)
      /\ start \in Nat /\ count \in Nat /\ end = start + count
  BY <1>1, <1>2, <1>3
<1> HIDE DEF start, count, end
<1>5. i \in Nat /\ x <= end
  BY <1>4
<1> QED
  BY <1>4, <1>5 DEF start, count, end, Bounds

(* They are in the order of their identities, no two of them the same.     *)
LEMMA JobsInOrder ==
  ASSUME NEW p \in Nat, NEW b, IsBatch(b),
         NEW q \in 1..Len(Jobs(p, b)), NEW s \in 1..Len(Jobs(p, b))
  PROVE  q < s <=> ComesBefore(Jobs(p, b)[q], Jobs(p, b)[s])
<1> DEFINE k == Jobs(p, b)[q].cred
           i == Jobs(p, b)[q].ordinal
           l == Jobs(p, b)[s].cred
           j == Jobs(p, b)[s].ordinal
           startQ == Len(JobsUpTo(p, b)[k - 1])
           endQ   == Len(JobsUpTo(p, b)[k])
           startS == Len(JobsUpTo(p, b)[l - 1])
           endS   == Len(JobsUpTo(p, b)[l])
<1>1. /\ k \in 1..Len(b) /\ i \in 1..Len(b[k]) /\ i \in Nat /\ startQ \in Nat
      /\ q = startQ + i /\ q <= endQ
  <2>1. Bounds(p, b, q, k, i)
    BY JobBounds
  <2> QED
    BY <2>1, Zenon DEF Bounds
<1>2. /\ l \in 1..Len(b) /\ j \in 1..Len(b[l]) /\ j \in Nat /\ startS \in Nat
      /\ s = startS + j /\ s <= endS
  <2>1. Bounds(p, b, s, l, j)
    BY JobBounds
  <2> QED
    BY <2>1, Zenon DEF Bounds
<1>3. ComesBefore(Jobs(p, b)[q], Jobs(p, b)[s]) <=> k < l \/ (k = l /\ i < j)
  BY DEF ComesBefore
<1>4. k < l => endQ <= startS
  BY <1>1, <1>2, JobsEndLater
<1>5. l < k => endS <= startQ
  BY <1>1, <1>2, JobsEndLater
<1>6. k = l => startQ = startS
  OBVIOUS
<1>7. endQ \in Nat /\ endS \in Nat
  <2>1. /\ Len(b[k]) \in Nat /\ endQ = startQ + Len(b[k])
        /\ Len(b[l]) \in Nat /\ endS = startS + Len(b[l])
    BY <1>1, <1>2, JobsEnd
  <2> DEFINE m == Len(b[k])
             n == Len(b[l])
  <2>2. m \in Nat /\ endQ = startQ + m /\ n \in Nat /\ endS = startS + n
    BY <2>1
  <2>3. startQ \in Nat /\ startS \in Nat
    BY <1>1, <1>2
  <2> HIDE DEF m, n, startQ, startS, endQ, endS
  <2> QED
    BY <2>2, <2>3
<1>8. k \in Nat /\ l \in Nat /\ i >= 1 /\ j >= 1
  <2>1. Len(b) \in Nat
    BY DEF IsBatch
  <2> HIDE DEF k, l, i, j
  <2>2. k \in Nat /\ l \in Nat
    BY <1>1, <1>2, <2>1
  <2>3. i >= 1 /\ j >= 1
    <3> DEFINE m == Len(b[k])
               n == Len(b[l])
    <3>1. i \in 1..m /\ j \in 1..n
      BY <1>1, <1>2
    <3> HIDE DEF m, n
    <3> QED
      BY <1>1, <1>2, <3>1
  <2> QED
    BY <2>2, <2>3
<1> HIDE DEF k, l, i, j, startQ, endQ, startS, endS
<1>9. q < s <=> k < l \/ (k = l /\ i < j)
  BY <1>1, <1>2, <1>4, <1>5, <1>6, <1>7, <1>8
<1> QED
  BY <1>3, <1>9

-----------------------------------------------------------------------------
(* Sorting outcomes.                                                       *)

OutcomeRecords == {Process(j) : j \in JobRecords}

LEMMA OutcomeFields ==
  ASSUME NEW j \in JobRecords
  PROVE  /\ Process(j).plan = j.plan
         /\ Process(j).cred = j.cred /\ j.cred \in Nat
         /\ Process(j).ordinal = j.ordinal /\ j.ordinal \in Nat
         /\ Process(j).encoded = j.encoded
         /\ Process(j).digest = DigestOf(j.encoded)
BY DEF Process, JobRecords

(* A job is all there is to know of it.                                    *)
LEMMA SameFieldsSameJob ==
  ASSUME NEW i \in JobRecords, NEW j \in JobRecords,
         i.plan = j.plan, i.cred = j.cred, i.ordinal = j.ordinal, i.encoded = j.encoded
  PROVE  i = j
BY DEF JobRecords

LEMMA IdsOrderOutcomes ==
  ASSUME NEW os \in Seq(OutcomeRecords)
  PROVE  [i \in 1..Len(os) |-> Place(Len(os), IdFirst(os), i)] \in Bijection(1..Len(os), 1..Len(os))
<1> DEFINE n == Len(os)
           before == IdFirst(os)
<1>1. n \in Nat
  BY LenProperties
<1>2. \A i \in 1..n : os[i].cred \in Nat /\ os[i].ordinal \in Nat
  <2> SUFFICES ASSUME NEW i \in 1..n PROVE os[i].cred \in Nat /\ os[i].ordinal \in Nat
    OBVIOUS
  <2>1. PICK j \in JobRecords : os[i] = Process(j)
    BY ElementOfSeq DEF OutcomeRecords
  <2> QED
    BY <2>1, OutcomeFields
<1>3. \A i, j \in 1..n : <<i, j>> \in before <=>
        ComesBefore(os[i], os[j]) \/ (~ ComesBefore(os[j], os[i]) /\ i < j)
  BY DEF IdFirst
<1>4. before \in SUBSET ((1..n) \X (1..n))
  BY DEF IdFirst
<1> HIDE DEF n, before
<1>5. \A i \in 1..n : <<i, i>> \notin before
  BY <1>1, <1>2, <1>3 DEF ComesBefore
<1>6. ASSUME NEW i \in 1..n, NEW j \in 1..n, NEW k \in 1..n, <<i, j>> \in before, <<j, k>> \in before
      PROVE  <<i, k>> \in before
  <2> DEFINE ci == os[i].cred  oi == os[i].ordinal
             cj == os[j].cred  oj == os[j].ordinal
             ck == os[k].cred  ok == os[k].ordinal
  <2>1. /\ ci \in Nat /\ oi \in Nat /\ cj \in Nat /\ oj \in Nat /\ ck \in Nat /\ ok \in Nat
        /\ i \in Nat /\ j \in Nat /\ k \in Nat
    BY <1>1, <1>2
  <2>2. /\ ci < cj \/ (ci = cj /\ oi < oj)
             \/ (~ (cj < ci \/ (cj = ci /\ oj < oi)) /\ i < j)
        /\ cj < ck \/ (cj = ck /\ oj < ok)
             \/ (~ (ck < cj \/ (ck = cj /\ ok < oj)) /\ j < k)
    BY <1>3, <1>6 DEF ComesBefore
  <2>3. <<i, k>> \in before <=>
          ci < ck \/ (ci = ck /\ oi < ok)
             \/ (~ (ck < ci \/ (ck = ci /\ ok < oi)) /\ i < k)
    BY <1>3 DEF ComesBefore
  <2> HIDE DEF ci, oi, cj, oj, ck, ok
  <2> QED
    BY <2>1, <2>2, <2>3
<1>7. \A i, j \in 1..n : i = j \/ <<i, j>> \in before \/ <<j, i>> \in before
  <2> SUFFICES ASSUME NEW i \in 1..n, NEW j \in 1..n, i # j
               PROVE  <<i, j>> \in before \/ <<j, i>> \in before
    OBVIOUS
  <2> DEFINE earlier == ComesBefore(os[i], os[j])
             later == ComesBefore(os[j], os[i])
  <2>1. <<i, j>> \in before <=> earlier \/ (~ later /\ i < j)
    BY <1>3
  <2>2. <<j, i>> \in before <=> later \/ (~ earlier /\ j < i)
    BY <1>3
  <2>3. i < j \/ j < i
    BY <1>1
  <2> HIDE DEF earlier, later
  <2> QED
    BY <2>1, <2>2, <2>3
<1>8. [i \in 1..n |-> Place(n, before, i)] \in Bijection(1..n, 1..n)
  BY <1>1, <1>4, <1>5, <1>6, <1>7, PlacesAreDistinct
<1> QED
  BY <1>8 DEF n, before

LEMMA SortedOutcomes ==
  ASSUME NEW os \in Seq(OutcomeRecords)
  PROVE  /\ Len(SortedById(os)) = Len(os) /\ Len(os) \in Nat
         /\ \A k \in 1..Len(os) : \E i \in 1..Len(os) : SortedById(os)[k] = os[i]
         /\ \A i \in 1..Len(os) : \E k \in 1..Len(os) : SortedById(os)[k] = os[i]
<1>1. Len(os) \in Nat
  BY LenProperties
<1>2. /\ \A k \in 1..Len(os) : \E i \in 1..Len(os) : Arranged(os, IdFirst(os))[k] = os[i]
      /\ \A i \in 1..Len(os) : \E k \in 1..Len(os) : Arranged(os, IdFirst(os))[k] = os[i]
  <2>1. /\ \A k \in 1..Len(os) : \E i \in 1..Len(os) : Arranged(os, IdFirst(os))[k] = os[i]
        /\ \A i \in 1..Len(os) :
             /\ Place(Len(os), IdFirst(os), i) \in 1..Len(os)
             /\ Arranged(os, IdFirst(os))[Place(Len(os), IdFirst(os), i)] = os[i]
    <3>1. [i \in 1..Len(os) |-> Place(Len(os), IdFirst(os), i)] \in Bijection(1..Len(os), 1..Len(os))
      BY IdsOrderOutcomes
    <3> QED
      BY <1>1, <3>1, ArrangedPermutes, Zenon
  <2> QED
    BY <2>1
<1>3. Arranged(os, IdFirst(os)) \in Seq(OutcomeRecords)
      /\ Len(Arranged(os, IdFirst(os))) = Len(os)
  <2>1. \A i \in 1..Len(os) : os[i] \in OutcomeRecords
    BY ElementOfSeq
  <2>2. \A k \in 1..Len(os) : Arranged(os, IdFirst(os))[k] \in OutcomeRecords
    BY <1>2, <2>1
  <2>3. Arranged(os, IdFirst(os)) \in [1..Len(os) -> OutcomeRecords]
    BY <2>2 DEF Arranged
  <2> QED
    BY <1>1, <2>3, SeqDef
<1> QED
  BY <1>1, <1>2, <1>3 DEF SortedById

(* One outcome for each job, and of that job: what an executor owes.       *)
OneEach(p, b, os) ==
  /\ Len(os) = Len(Jobs(p, b))
  /\ {os[i] : i \in 1..Len(os)} = {Process(j) : j \in JobSet(p, b)}

Restored(p, b, os) ==
  /\ Len(os) = Len(Jobs(p, b))
  /\ \A q \in 1..Len(Jobs(p, b)) : SortedById(os)[q] = Process(Jobs(p, b)[q])

(* Outcomes that pass the validation are one of each, restored to order.   *)
LEMMA MatchRestores ==
  ASSUME NEW p \in Nat, NEW b, IsBatch(b), NEW os \in Seq(OutcomeRecords),
         OutcomesMatch(p, Jobs(p, b), SortedById(os))
  PROVE  Restored(p, b, os)
<1> DEFINE js == Jobs(p, b)
           sorted == SortedById(os)
<1>1. Len(sorted) = Len(os) /\ Len(os) = Len(js) /\ Len(os) \in Nat
  BY SortedOutcomes DEF OutcomesMatch
<1>2. ASSUME NEW q \in 1..Len(js) PROVE sorted[q] = Process(js[q])
  <2>1. PICK i \in 1..Len(os) : sorted[q] = os[i]
    BY <1>1, SortedOutcomes
  <2>2. PICK j \in JobRecords : os[i] = Process(j)
    BY ElementOfSeq DEF OutcomeRecords
  <2>3. /\ sorted[q].plan = p /\ sorted[q].cred = js[q].cred
        /\ sorted[q].ordinal = js[q].ordinal /\ sorted[q].encoded = js[q].encoded
    BY <1>1 DEF OutcomesMatch
  <2>4. js[q] \in JobRecords /\ js[q].plan = p
    BY JobOfPlan
  <2>5. j.plan = p /\ j.cred = js[q].cred /\ j.ordinal = js[q].ordinal /\ j.encoded = js[q].encoded
    BY <2>1, <2>2, <2>3, OutcomeFields
  <2>6. j = js[q]
    BY <2>4, <2>5, SameFieldsSameJob
  <2> QED
    BY <2>1, <2>2, <2>6
<1> QED
  BY <1>1, <1>2 DEF Restored

LEMMA RestoredIsOneEach ==
  ASSUME NEW p \in Nat, NEW b, IsBatch(b), NEW os \in Seq(OutcomeRecords), Restored(p, b, os)
  PROVE  OneEach(p, b, os) /\ OutcomesMatch(p, Jobs(p, b), SortedById(os))
<1> DEFINE js == Jobs(p, b)
           sorted == SortedById(os)
<1>1. Len(sorted) = Len(js) /\ Len(os) = Len(js) /\ \A q \in 1..Len(js) : sorted[q] = Process(js[q])
  BY SortedOutcomes DEF Restored
<1>2. {os[i] : i \in 1..Len(os)} = {Process(j) : j \in JobSet(p, b)}
  <2>1. ASSUME NEW i \in 1..Len(os) PROVE \E j \in JobSet(p, b) : os[i] = Process(j)
    <3>1. PICK q \in 1..Len(os) : sorted[q] = os[i]
      BY SortedOutcomes
    <3>2. js[q] \in JobSet(p, b)
      BY <1>1 DEF JobSet
    <3> QED
      BY <1>1, <3>1, <3>2
  <2>2. ASSUME NEW j \in JobSet(p, b) PROVE \E i \in 1..Len(os) : os[i] = Process(j)
    <3>1. PICK q \in 1..Len(js) : j = js[q]
      BY DEF JobSet
    <3>2. q \in 1..Len(os)
      BY <1>1
    <3>3. PICK i \in 1..Len(os) : sorted[q] = os[i]
      BY <3>2, SortedOutcomes
    <3> QED
      BY <1>1, <3>1, <3>3
  <2> QED
    BY <2>1, <2>2
<1>3. ASSUME NEW q \in 1..Len(js)
      PROVE  /\ sorted[q].plan = p /\ sorted[q].cred = js[q].cred
             /\ sorted[q].ordinal = js[q].ordinal /\ sorted[q].encoded = js[q].encoded
  <2>1. js[q] \in JobRecords /\ js[q].plan = p /\ sorted[q] = Process(js[q])
    BY <1>1, JobOfPlan
  <2> QED
    BY <2>1, OutcomeFields
<1> QED
  BY <1>1, <1>2, <1>3 DEF OneEach, OutcomesMatch

(* Whatever the order they come in, one outcome of each job is restored.   *)
LEMMA OneEachRestores ==
  ASSUME NEW p \in Nat, NEW b, IsBatch(b), NEW os \in Seq(OutcomeRecords), OneEach(p, b, os)
  PROVE  Restored(p, b, os)
<1> DEFINE js == Jobs(p, b)
           n == Len(js)
           At(i, q) == os[i] = Process(js[q])
           place == [i \in 1..n |-> CHOOSE q \in 1..n : At(i, q)]
<1>1. n \in Nat /\ Len(os) = n /\ {os[i] : i \in 1..n} = {Process(j) : j \in JobSet(p, b)}
  BY JobsOfBatch DEF OneEach
<1>2. \A i \in 1..n : \E q \in 1..n : At(i, q)
  BY <1>1 DEF JobSet
<1>3. \A q \in 1..n : \E i \in 1..n : At(i, q)
  <2>1. ASSUME NEW q \in 1..n PROVE \E i \in 1..n : At(i, q)
    <3>1. js[q] \in JobSet(p, b)
      BY DEF JobSet
    <3>2. Process(js[q]) \in {os[i] : i \in 1..n}
      BY <1>1, <3>1
    <3> QED
      BY <3>2
  <2> QED
    BY <2>1
<1>4. ASSUME NEW i \in 1..n, NEW q \in 1..n, At(i, q)
      PROVE  os[i].cred = js[q].cred /\ os[i].ordinal = js[q].ordinal
  BY <1>4, JobOfPlan, OutcomeFields
<1>5. ASSUME NEW q \in 1..n, NEW s \in 1..n
      PROVE  q < s <=> ComesBefore(js[q], js[s])
  BY JobsInOrder
<1> HIDE DEF js, n, At
<1>6. ASSUME NEW i \in 1..n, NEW k \in 1..n, NEW q \in 1..n, NEW s \in 1..n, At(i, q), At(k, s)
      PROVE  q < s <=> ComesBefore(os[i], os[k])
  BY <1>4, <1>5, <1>6 DEF ComesBefore
<1>7. \A i \in 1..n : place[i] \in 1..n /\ At(i, place[i])
  BY <1>2
<1>8. ASSUME NEW i \in 1..n, NEW q \in 1..n, At(i, q) PROVE place[i] = q
  <2>1. place[i] \in 1..n /\ At(i, place[i])
    BY <1>7
  <2>2. ~ (place[i] < q) /\ ~ (q < place[i])
    <3>1. place[i] < q <=> ComesBefore(os[i], os[i])
      BY <1>6, <1>8, <2>1
    <3>2. q < place[i] <=> ComesBefore(os[i], os[i])
      BY <1>6, <1>8, <2>1
    <3> QED
      BY <1>1, <2>1, <3>1, <3>2
  <2> HIDE DEF place
  <2> QED
    BY <1>1, <2>1, <2>2
<1> HIDE DEF place
<1>9. place \in Bijection(1..n, 1..n)
  <2>1. place \in [1..n -> 1..n]
    BY <1>7 DEF place
  <2>2. \A q \in 1..n : \E i \in 1..n : place[i] = q
    BY <1>3, <1>8
  <2>3. place \in Surjection(1..n, 1..n)
    BY <2>1, <2>2, Fun_IsSurj
  <2>4. IsFiniteSet(1..n)
    BY <1>1, FS_Interval
  <2>5. place \in Injection(1..n, 1..n)
    BY <2>3, <2>4, FS_Surjection
  <2> QED
    BY <2>3, <2>5, Fun_IsBij
<1>10. \A i, k \in 1..n : <<k, i>> \in IdFirst(os) <=> place[k] < place[i]
  <2> SUFFICES ASSUME NEW i \in 1..n, NEW k \in 1..n
               PROVE  <<k, i>> \in IdFirst(os) <=> place[k] < place[i]
    OBVIOUS
  <2>1. place[k] < place[i] <=> ComesBefore(os[k], os[i])
    BY <1>6, <1>7
  <2>2. place[i] < place[k] <=> ComesBefore(os[i], os[k])
    BY <1>6, <1>7
  <2>3. <<k, i>> \in IdFirst(os) <=>
          ComesBefore(os[k], os[i]) \/ (~ ComesBefore(os[i], os[k]) /\ k < i)
    BY <1>1 DEF IdFirst
  <2>4. place[k] = place[i] => k = i
    BY <1>9, PermutationMeans
  <2>5. place[k] \in Nat /\ place[i] \in Nat /\ k \in Nat /\ i \in Nat
    BY <1>1, <1>7
  <2> QED
    BY <2>1, <2>2, <2>3, <2>4, <2>5
<1>11. ASSUME NEW q \in 1..n PROVE SortedById(os)[q] = Process(js[q])
  <2>1. PICK i \in 1..n : At(i, q)
    BY <1>3
  <2>2. place[i] = q
    BY <1>8, <2>1
  <2>3. Arranged(os, IdFirst(os))[place[i]] = os[i]
    BY <1>1, <1>9, <1>10, ArrangedFollows
  <2> QED
    BY <2>1, <2>2, <2>3 DEF SortedById, At
<1> QED
  BY <1>1, <1>11 DEF Restored, js, n

-----------------------------------------------------------------------------
(* What a credential is answered.                                          *)

LEMMA ProcessedIsSeq ==
  ASSUME NEW in \in Seq(Encoded)
  PROVE  /\ Len(in) \in Nat /\ Len(Processed(in)) = Len(in)
         /\ \A i \in 1..Len(in) : Processed(in)[i] = Outcome(in, i)
<1>1. Len(in) \in Nat
  BY LenProperties
<1>2. Processed(in) \in [1..Len(in) -> {Outcome(in, i) : i \in 1..Len(in)}]
  BY DEF Processed
<1>3. Processed(in) \in Seq({Outcome(in, i) : i \in 1..Len(in)})
  BY <1>1, <1>2, SeqDef
<1> QED
  BY <1>1, <1>2, <1>3, LenProperties DEF Processed

LEMMA AssembledIsOracle ==
  ASSUME NEW in \in Seq(Encoded)
  PROVE  Assembled(in, Processed(in)) = Oracle(in)
<1> DEFINE P == Processed(in)
<1>1. Len(P) = Len(in) /\ Len(P) \in Nat /\ \A i \in 1..Len(in) : P[i] = Outcome(in, i)
  BY ProcessedIsSeq
<1>2. \A i \in 1..Len(P) : P[i].ordinal = i /\ P[i].encoded = in[i]
  <2>1. \A i : Outcome(in, i).ordinal = i /\ Outcome(in, i).encoded = in[i]
    BY DEF Outcome
  <2> QED
    BY <1>1, <2>1
<1>3. P = [k \in 1..Len(P) |-> P[k]]
  BY <1>1 DEF Processed
<1> HIDE DEF P
<1>4. \A i, j \in 1..Len(P) : <<j, i>> \in OrdinalFirst(P) <=> j < i
  BY <1>1, <1>2 DEF OrdinalFirst
<1>5. Arranged(P, OrdinalFirst(P)) = [k \in 1..Len(P) |-> P[k]]
  BY <1>1, <1>4, ArrangedInOrder
<1>6. Sorted(P) = P
  BY <1>3, <1>5 DEF Sorted
<1>7. KeepsContract(in, P)
  BY <1>1, <1>2 DEF KeepsContract
<1> QED
  BY <1>6, <1>7 DEF P, Assembled, Oracle

LEMMA OracleKind ==
  ASSUME NEW in
  PROVE  /\ Oracle(in).kind \in {"ok", "invalid", "duplicate"}
         /\ Oracle(in).kind = "ok" <=> Rejected(Processed(in)) = {}
BY DEF Oracle, Verdict, Published, Invalid, Failure

(* Restored outcomes, cut at the end of each credential, are the outcomes  *)
(* of that credential alone.                                               *)
LEMMA RestoredAlone ==
  ASSUME NEW p \in Nat, NEW b, IsBatch(b), NEW os \in Seq(OutcomeRecords),
         Restored(p, b, os), NEW k \in 1..Len(b)
  PROVE  Assembled(b[k], CredentialOutcomes(SortedById(os), p, b, k)) = Oracle(b[k])
<1> DEFINE before == Len(JobsUpTo(p, b)[k - 1])
           sorted == SortedById(os)
<1>1. ASSUME NEW i \in 1..Len(b[k])
      PROVE  [ordinal |-> sorted[before + i].ordinal,
              encoded |-> sorted[before + i].encoded,
              digest  |-> sorted[before + i].digest] = Outcome(b[k], i)
  <2>1. /\ before + i \in 1..Len(Jobs(p, b))
        /\ Jobs(p, b)[before + i].ordinal = i
        /\ Jobs(p, b)[before + i].encoded = b[k][i]
    BY JobAt DEF PositionOf
  <2>2. sorted[before + i] = Process(Jobs(p, b)[before + i])
    BY <2>1 DEF Restored
  <2>3. Jobs(p, b)[before + i] \in JobRecords
    BY <2>1, JobOfPlan
  <2>4. /\ sorted[before + i].ordinal = i
        /\ sorted[before + i].encoded = b[k][i]
        /\ sorted[before + i].digest = DigestOf(b[k][i])
    BY <2>1, <2>2, <2>3, OutcomeFields
  <2> QED
    BY <2>4 DEF Outcome
<1>2. CredentialOutcomes(sorted, p, b, k) = Processed(b[k])
  BY <1>1 DEF CredentialOutcomes, Processed
<1>3. b[k] \in Seq(Encoded)
  BY DEF IsBatch
<1> QED
  BY <1>2, <1>3, AssembledIsOracle

LEMMA VerdictsOf ==
  ASSUME NEW b, IsBatch(b)
  PROVE  LET verdicts == [k \in 1..Len(b) |-> Oracle(b[k])]
         IN  Len(verdicts) = Len(b) /\ \A k \in 1..Len(b) : verdicts[k] = Oracle(b[k])
<1> DEFINE verdicts == [k \in 1..Len(b) |-> Oracle(b[k])]
           n == Len(b)
           all == {Oracle(b[k]) : k \in 1..Len(b)}
<1>1. verdicts \in [1..n -> all] /\ n \in Nat
  BY DEF IsBatch
<1>2. \A k \in 1..n : verdicts[k] = Oracle(b[k])
  OBVIOUS
<1> HIDE DEF verdicts, n, all
<1>3. verdicts \in Seq(all) /\ Len(verdicts) = n
  BY <1>1, SeqDef
<1> QED
  BY <1>2, <1>3 DEF verdicts, n

LEMMA BatchOracleKind ==
  ASSUME NEW b, IsBatch(b)
  PROVE  BatchOracle(b).kind \in {"ok", "invalid", "duplicate"}
<1> DEFINE verdicts == [k \in 1..Len(b) |-> Oracle(b[k])]
           failed == {k \in 1..Len(verdicts) : verdicts[k].kind # "ok"}
<1>1. Len(verdicts) = Len(b) /\ \A k \in 1..Len(b) : verdicts[k] = Oracle(b[k])
  BY VerdictsOf
<1>2. BatchOracle(b) = AllOrFirstError(verdicts)
  BY DEF BatchOracle
<1> HIDE DEF verdicts
<1>3. CASE failed = {}
  BY <1>2, <1>3 DEF AllOrFirstError
<1>4. CASE failed # {}
  <2>1. failed \subseteq Nat
    BY <1>1 DEF IsBatch
  <2>2. Min(failed) \in failed
    BY <1>4, <2>1, MinIsLeast
  <2>3. BatchOracle(b) = Oracle(b[Min(failed)])
    BY <1>1, <1>2, <1>4, <2>2 DEF AllOrFirstError
  <2> QED
    BY <2>3, OracleKind
<1> QED
  BY <1>3, <1>4

(* What the serial executor computes.                                      *)
ProcessedJobs(p, b) == [q \in 1..Len(Jobs(p, b)) |-> Process(Jobs(p, b)[q])]

LEMMA ProcessedJobsAreOutcomes ==
  ASSUME NEW p \in Nat, NEW b, IsBatch(b)
  PROVE  /\ ProcessedJobs(p, b) \in Seq(OutcomeRecords)
         /\ Len(ProcessedJobs(p, b)) = Len(Jobs(p, b))
         /\ \A q \in 1..Len(Jobs(p, b)) : ProcessedJobs(p, b)[q] = Process(Jobs(p, b)[q])
<1>1. \A q \in 1..Len(Jobs(p, b)) : Process(Jobs(p, b)[q]) \in OutcomeRecords
  BY JobOfPlan DEF OutcomeRecords
<1>2. ProcessedJobs(p, b) \in [1..Len(Jobs(p, b)) -> OutcomeRecords]
  BY <1>1 DEF ProcessedJobs
<1>3. Len(Jobs(p, b)) \in Nat
  BY JobsOfBatch
<1> DEFINE os == ProcessedJobs(p, b)
           n == Len(Jobs(p, b))
<1>4. \A q \in 1..n : os[q] = Process(Jobs(p, b)[q])
  BY DEF ProcessedJobs
<1>5. os \in [1..n -> OutcomeRecords] /\ n \in Nat
  BY <1>2, <1>3
<1> HIDE DEF os, n
<1>6. os \in Seq(OutcomeRecords) /\ Len(os) = n
  BY <1>5, SeqDef
<1> QED
  BY <1>4, <1>6 DEF os, n

LEMMA ProcessedJobFields ==
  ASSUME NEW p \in Nat, NEW b, IsBatch(b), NEW q \in 1..Len(Jobs(p, b))
  PROVE  /\ ProcessedJobs(p, b)[q].cred = Jobs(p, b)[q].cred
         /\ ProcessedJobs(p, b)[q].encoded = Jobs(p, b)[q].encoded
         /\ ProcessedJobs(p, b)[q].digest = DigestOf(Jobs(p, b)[q].encoded)
<1>1. ProcessedJobs(p, b)[q] = Process(Jobs(p, b)[q])
  BY ProcessedJobsAreOutcomes
<1>2. Jobs(p, b)[q] \in JobRecords
  BY JobOfPlan
<1> QED
  BY <1>1, <1>2, OutcomeFields

(* The serial executor stops at a job exactly if the loop over its own     *)
(* credential would.                                                       *)
LEMMA SerialStopsAlone ==
  ASSUME NEW p \in Nat, NEW b, IsBatch(b), NEW k \in 1..Len(b), NEW i \in 1..Len(b[k])
  PROVE  PositionOf(p, b, k, i) \in SerialRejected(ProcessedJobs(p, b))
           <=> i \in Rejected(Processed(b[k]))
<1> DEFINE js == Jobs(p, b)
           os == ProcessedJobs(p, b)
           P == Processed(b[k])
           start == Len(JobsUpTo(p, b)[k - 1])
           q == PositionOf(p, b, k, i)
<1>1. /\ i \in Nat /\ start \in Nat /\ q = start + i /\ q \in 1..Len(js)
  <2>1. start \in Nat /\ Len(b[k]) \in Nat
    BY JobsEnd
  <2>2. i \in Nat
    <3> DEFINE n == Len(b[k])
    <3>1. n \in Nat /\ i \in 1..n
      BY <2>1
    <3> HIDE DEF n
    <3> QED
      BY <3>1
  <2>3. q \in 1..Len(js)
    BY JobAt
  <2>4. q = start + i
    BY DEF PositionOf
  <2> QED
    BY <2>1, <2>2, <2>3, <2>4
<1>2. b[k] \in Seq(Encoded) /\ Len(js) \in Nat
  BY JobsOfBatch DEF IsBatch
<1>3. /\ Len(b[k]) \in Nat /\ Len(P) = Len(b[k])
      /\ \A x \in 1..Len(b[k]) : P[x].digest = DigestOf(b[k][x])
  <2>1. \A x : Outcome(b[k], x).digest = DigestOf(b[k][x])
    BY DEF Outcome
  <2> QED
    BY <1>2, <2>1, ProcessedIsSeq
<1>4. Len(os) = Len(js)
  BY ProcessedJobsAreOutcomes
<1>5. ASSUME NEW x \in 1..Len(js)
      PROVE  os[x].cred = js[x].cred /\ os[x].digest = DigestOf(js[x].encoded)
  BY ProcessedJobFields
<1>6. ASSUME NEW y \in 1..Len(b[k])
      PROVE  /\ start + y \in 1..Len(js) /\ js[start + y].cred = k
             /\ os[start + y].cred = k /\ os[start + y].digest = P[y].digest
  <2> DEFINE x == PositionOf(p, b, k, y)
  <2>1. x \in 1..Len(js) /\ js[x].cred = k /\ js[x].encoded = b[k][y]
    <3>1. x \in 1..Len(js)
      BY JobAt
    <3>2. js[x].cred = k
      BY CredAt
    <3>3. js[x].encoded = b[k][y]
      BY JobAt
    <3> HIDE DEF x, js
    <3> QED
      BY <3>1, <3>2, <3>3
  <2> HIDE DEF x, js, os, P
  <2>2. os[x].cred = k /\ os[x].digest = P[y].digest
    BY <1>3, <1>5, <2>1
  <2>3. start + y = x
    BY DEF PositionOf, x
  <2> QED
    BY <2>1, <2>2, <2>3
<1>7. os[q].cred = k /\ os[q].digest = P[i].digest
  BY <1>1, <1>6
<1>8. (\E x \in 1..(q - 1) : os[x].cred = os[q].cred /\ os[x].digest = os[q].digest)
        <=> \E y \in 1..(i - 1) : P[y].digest = P[i].digest
  <2>1. ASSUME NEW x \in 1..(q - 1), os[x].cred = os[q].cred, os[x].digest = os[q].digest
        PROVE  \E y \in 1..(i - 1) : P[y].digest = P[i].digest
    <3>1. x \in 1..Len(js) /\ x < q
      <4> HIDE DEF js, q
      <4> QED
        BY <1>1, <1>2
    <3>2. js[x].cred = k
      BY <1>5, <1>7, <2>1, <3>1
    <3> DEFINE y == js[x].ordinal
    <3>3. y \in 1..Len(b[k]) /\ x = start + y
      BY <3>1, <3>2, JobBounds DEF Bounds
    <3>4. os[x].digest = P[y].digest
      BY <1>6, <3>3
    <3> HIDE DEF y, start
    <3>5. y \in 1..(i - 1)
      BY <1>1, <1>3, <3>1, <3>3
    <3> QED
      BY <1>7, <2>1, <3>4, <3>5
  <2>2. ASSUME NEW y \in 1..(i - 1), P[y].digest = P[i].digest
        PROVE  \E x \in 1..(q - 1) : os[x].cred = os[q].cred /\ os[x].digest = os[q].digest
    <3> DEFINE x == start + y
    <3>1. y \in 1..Len(b[k])
      <4> DEFINE n == Len(b[k])
      <4>1. n \in Nat /\ i \in 1..n
        BY <1>1, <1>3
      <4> HIDE DEF n
      <4>2. y \in 1..n
        BY <4>1
      <4> QED
        BY <4>2 DEF n
    <3>2. os[x].cred = k /\ os[x].digest = P[y].digest
      BY <1>6, <3>1
    <3>3. x \in 1..(q - 1)
      <4> HIDE DEF start
      <4> QED
        BY <1>1
    <3> HIDE DEF x
    <3> QED
      BY <1>7, <2>2, <3>2, <3>3
  <2> QED
    BY <2>1, <2>2
<1>9. q \in SerialRejected(os) <=> i \in Rejected(P)
  BY <1>1, <1>3, <1>4, <1>7, <1>8 DEF SerialRejected, Rejected, Repeats
<1> QED
  BY <1>9

FirstError(os) ==
  LET first == os[Min(SerialRejected(os))]
  IN  IF first.digest = Bad THEN Invalid(first.encoded) ELSE Failure("duplicate")

(* So the first job it stops at gives the error of the first credential    *)
(* that has one.                                                           *)
LEMMA SerialAlone ==
  ASSUME NEW p \in Nat, NEW b, IsBatch(b), SerialRejected(ProcessedJobs(p, b)) # {}
  PROVE  FirstError(ProcessedJobs(p, b)) = BatchOracle(b)
<1> DEFINE js == Jobs(p, b)
           os == ProcessedJobs(p, b)
           R == SerialRejected(os)
           first == Min(R)
           k == js[first].cred
           i == js[first].ordinal
           verdicts == [j \in 1..Len(b) |-> Oracle(b[j])]
           failed == {j \in 1..Len(verdicts) : verdicts[j].kind # "ok"}
<1>1. Len(js) \in Nat /\ Len(b) \in Nat
  BY JobsOfBatch DEF IsBatch
<1>2. R \subseteq 1..Len(js)
  BY ProcessedJobsAreOutcomes DEF SerialRejected
<1>3. first \in R /\ \A x \in R : first <= x
  <2>1. R \subseteq Nat
    BY <1>2
  <2> HIDE DEF R
  <2> QED
    BY <2>1, MinIsLeast DEF R
<1>4. first \in 1..Len(js)
  BY <1>2, <1>3
<1> HIDE DEF R, first
<1>5. /\ k \in 1..Len(b) /\ i \in 1..Len(b[k])
      /\ os[first].encoded = b[k][i] /\ os[first].digest = DigestOf(b[k][i])
      /\ i \in Rejected(Processed(b[k]))
  <2>1. /\ k \in 1..Len(b) /\ i \in 1..Len(b[k])
        /\ first = Len(JobsUpTo(p, b)[k - 1]) + i
    BY <1>4, JobBounds DEF Bounds
  <2>2. js[first].encoded = b[k][i]
    <3>1. IsJobOf(js[first], p, b)
      BY <1>4, JobsOfBatch
    <3> HIDE DEF js
    <3> QED
      BY <3>1 DEF IsJobOf
  <2>3. os[first].encoded = js[first].encoded /\ os[first].digest = DigestOf(js[first].encoded)
    BY <1>4, ProcessedJobFields
  <2> HIDE DEF k, i
  <2>4. PositionOf(p, b, k, i) = first
    BY <2>1 DEF PositionOf
  <2>5. PositionOf(p, b, k, i) \in SerialRejected(ProcessedJobs(p, b))
    BY <1>3, <2>4 DEF R
  <2>6. i \in Rejected(Processed(b[k]))
    BY <2>1, <2>5, SerialStopsAlone
  <2> QED
    BY <2>1, <2>2, <2>3, <2>6
<1>6. ASSUME NEW l \in 1..Len(b), NEW j \in Rejected(Processed(b[l]))
      PROVE  k < l \/ (k = l /\ i <= j)
  <2> DEFINE x == PositionOf(p, b, l, j)
  <2>1. j \in 1..Len(b[l])
    <3>1. b[l] \in Seq(Encoded)
      BY DEF IsBatch
    <3> QED
      BY <3>1, ProcessedIsSeq DEF Rejected
  <2>2. x \in 1..Len(js) /\ js[x].cred = l /\ js[x].ordinal = j
    BY <2>1, JobAt
  <2>3. x \in R
    BY <1>6, <2>1, SerialStopsAlone DEF R
  <2> HIDE DEF x
  <2>4. ~ (x < first)
    BY <1>1, <1>3, <1>4, <2>2, <2>3
  <2>5. ~ ComesBefore(js[x], js[first])
    BY <1>4, <2>2, <2>4, JobsInOrder
  <2>6. ~ (l < k \/ (l = k /\ j < i))
    BY <2>2, <2>5 DEF ComesBefore
  <2>7. l \in Nat /\ k \in Nat /\ i \in Nat /\ j \in Nat
    <3>1. i \in 1..Len(b[k]) /\ j \in 1..Len(b[l]) /\ k \in 1..Len(b)
      BY <1>5, <2>1
    <3> HIDE DEF k, i
    <3> QED
      BY <1>1, <3>1
  <2> HIDE DEF k, i
  <2> QED
    BY <2>6, <2>7
<1>7. Rejected(Processed(b[k])) # {} /\ Min(Rejected(Processed(b[k]))) = i
  <2> DEFINE S == Rejected(Processed(b[k]))
  <2>1. i \in S
    BY <1>5
  <2>2. S \subseteq Nat
    BY DEF Rejected
  <2>3. \A j \in S : ~ (j < i)
    <3>1. ASSUME NEW j \in S, j < i PROVE FALSE
      <4>1. k < k \/ (k = k /\ i <= j)
        BY <1>5, <1>6
      <4>2. k \in Nat /\ i \in Nat /\ j \in Nat
        <5>1. k \in 1..Len(b) /\ i \in S
          BY <1>5
        <5> HIDE DEF k, i, S
        <5> QED
          BY <1>1, <2>2, <5>1
      <4> HIDE DEF k, i
      <4> QED
        BY <3>1, <4>1, <4>2
    <3> QED
      BY <3>1
  <2> HIDE DEF S, i
  <2>5. Min(S) = i
    BY <2>1, <2>2, <2>3, LeastIsMin
  <2> QED
    BY <2>1, <2>5 DEF S
<1>8. Oracle(b[k]) = FirstError(os)
  <2>1. Processed(b[k])[i] = Outcome(b[k], i)
    <3>1. b[k] \in Seq(Encoded)
      BY <1>5 DEF IsBatch
    <3> QED
      BY <1>5, <3>1, ProcessedIsSeq
  <2>2. /\ Processed(b[k])[i].digest = os[first].digest
        /\ Processed(b[k])[i].encoded = os[first].encoded
    BY <1>5, <2>1 DEF Outcome
  <2> HIDE DEF k, i
  <2> QED
    BY <1>7, <2>2 DEF Oracle, Verdict, FirstError, R, first
<1>9. Len(verdicts) = Len(b) /\ \A j \in 1..Len(b) : verdicts[j] = Oracle(b[j])
  BY VerdictsOf
<1>10. failed # {} /\ Min(failed) = k
  <2>1. failed = {j \in 1..Len(b) : Rejected(Processed(b[j])) # {}}
    <3> HIDE DEF verdicts
    <3> QED
      BY <1>9, OracleKind
  <2> HIDE DEF failed
  <2>2. k \in failed /\ failed \subseteq Nat
    <3>1. k \in 1..Len(b) /\ Rejected(Processed(b[k])) # {}
      BY <1>5
    <3> HIDE DEF k
    <3> QED
      BY <1>1, <2>1, <3>1
  <2>3. \A l \in failed : ~ (l < k)
    <3>1. ASSUME NEW l \in failed PROVE ~ (l < k)
      <4>1. l \in 1..Len(b) /\ Rejected(Processed(b[l])) # {}
        BY <2>1
      <4>2. PICK j : j \in Rejected(Processed(b[l]))
        BY <4>1
      <4>3. k < l \/ k = l
        BY <1>6, <4>1, <4>2
      <4>4. k \in Nat /\ l \in Nat
        BY <2>2
      <4> HIDE DEF k
      <4> QED
        BY <4>3, <4>4
    <3> QED
      BY <3>1
  <2> HIDE DEF k
  <2>4. Min(failed) = k
    BY <2>2, <2>3, LeastIsMin
  <2> QED
    BY <2>2, <2>4
<1>11. BatchOracle(b) = verdicts[k]
  <2> HIDE DEF k
  <2> QED
    BY <1>10 DEF BatchOracle, AllOrFirstError
<1> QED
  BY <1>5, <1>8, <1>9, <1>11

-----------------------------------------------------------------------------
(* Assembling what an executor returns.                                    *)

AssembledAll(p, b, os) ==
  IF OutcomesMatch(p, Jobs(p, b), SortedById(os))
  THEN AllOrFirstError(
         [k \in 1..Len(b) |-> Assembled(b[k], CredentialOutcomes(SortedById(os), p, b, k))])
  ELSE Failure("contract")

LEMMA AssemblySettles ==
  ASSUME NEW p \in Nat, NEW b, IsBatch(b), NEW os \in Seq(OutcomeRecords)
  PROVE  LET a == AssembledAll(p, b, os)
         IN  /\ a.kind = "ok" => OneEach(p, b, os)
             /\ OneEach(p, b, os) => a.kind # "contract"
             /\ a.kind \notin BatchRefusals => a = BatchOracle(b)
<1>1. CASE OutcomesMatch(p, Jobs(p, b), SortedById(os))
  <2>1. Restored(p, b, os)
    BY <1>1, MatchRestores
  <2>2. OneEach(p, b, os)
    BY <2>1, RestoredIsOneEach
  <2>3. \A k \in 1..Len(b) :
          Assembled(b[k], CredentialOutcomes(SortedById(os), p, b, k)) = Oracle(b[k])
    BY <2>1, RestoredAlone
  <2>4. [k \in 1..Len(b) |-> Assembled(b[k], CredentialOutcomes(SortedById(os), p, b, k))]
          = [k \in 1..Len(b) |-> Oracle(b[k])]
    BY <2>3
  <2>5. AssembledAll(p, b, os) = BatchOracle(b)
    BY <1>1, <2>4 DEF AssembledAll, BatchOracle
  <2>6. BatchOracle(b).kind # "contract"
    BY BatchOracleKind
  <2> QED
    BY <2>2, <2>5, <2>6
<1>2. CASE ~ OutcomesMatch(p, Jobs(p, b), SortedById(os))
  <2>1. ~ OneEach(p, b, os)
    BY <1>2, OneEachRestores, RestoredIsOneEach
  <2>2. AssembledAll(p, b, os).kind = "contract"
    BY <1>2 DEF AssembledAll, Failure
  <2>3. "contract" \in BatchRefusals
    BY DEF BatchRefusals
  <2> QED
    BY <2>1, <2>2, <2>3
<1> QED
  BY <1>1, <1>2

-----------------------------------------------------------------------------
(* The answers.  Outcomes are those of jobs, whatever the executor did; an *)
(* answer is settled by them and by the batch.                             *)

Settled(c) ==
  /\ answer[c].kind = "ok" => Complete(c)
  /\ Complete(c) => answer[c].kind # "contract"
  /\ answer[c].kind \notin BatchRefusals => answer[c] = BatchOracle(batch[c])

CallInv(c) ==
  /\ outcomes[c] \in Seq(OutcomeRecords)
  /\ pc[c] # "done" => answer[c] = NoAnswer
  /\ pc[c] = "done" => Settled(c)

PerCall(f) == f = [c \in AllCallers |-> f[c]]

AnswersInv ==
  /\ batch \in [AllCallers -> Batches]
  /\ handed \subseteq JobRecords
  /\ PerCall(outcomes) /\ PerCall(answer)
  /\ \A c \in AllCallers : CallInv(c)

LEMMA AnswersInit == Init => AnswersInv
BY DEF Init, AnswersInv, CallInv, PerCall, JobRecords

(* A step of one call leaves the others as they are.                       *)
Row(d) == <<batch[d], pc[d], plan[d], outcomes[d], answer[d]>>

LEMMA RowKept ==
  ASSUME NEW d \in AllCallers, CallInv(d), UNCHANGED Row(d)
  PROVE  CallInv(d)'
BY DEF Row, CallInv, Settled, Complete

CallStep(c) ==
  Refuse(c) \/ NewPlan(c) \/ PlanSpaceExhausted(c) \/ Execute(c) \/ SerialExecute(c) \/ Assemble(c)

Apart(c) ==
  /\ batch' = batch
  /\ PerCall(outcomes)' /\ PerCall(answer)'
  /\ \A d \in AllCallers \ {c} : UNCHANGED Row(d)

LEMMA StepsApart ==
  ASSUME IInv, AnswersInv, NEW c \in AllCallers, CallStep(c)
  PROVE  Apart(c)
<1> USE DEF IInv, AnswersInv, PerCall, Apart, Row, Goto, Answer
<1>1. CASE Refuse(c)
  BY <1>1 DEF Refuse
<1>2. CASE NewPlan(c)
  BY <1>2 DEF NewPlan, TakePlanId
<1>3. CASE PlanSpaceExhausted(c)
  BY <1>3 DEF PlanSpaceExhausted
<1>4. CASE Execute(c)
  BY <1>4 DEF Execute
<1>5. CASE SerialExecute(c)
  BY <1>5 DEF SerialExecute
<1>6. CASE Assemble(c)
  BY <1>6 DEF Assemble
<1> QED
  BY <1>1, <1>2, <1>3, <1>4, <1>5, <1>6 DEF CallStep

LEMMA Answers ==
  ASSUME IInv, AnswersInv, NEW c \in AllCallers, NEW a, Answer(c, a)
  PROVE  pc'[c] = "done" /\ answer'[c] = a
BY DEF IInv, AnswersInv, PerCall, Answer, Goto

LEMMA GoesOn ==
  ASSUME IInv, AnswersInv, NEW c \in AllCallers, NEW l \in Labels \ {"done"}, Goto(c, l),
         pc[c] # "done", answer' = answer, outcomes'[c] \in Seq(OutcomeRecords)
  PROVE  CallInv(c)'
BY DEF IInv, AnswersInv, CallInv, Goto

(* A call that is turned away before its outcomes are assembled.           *)
LEMMA TurnedAway ==
  ASSUME IInv, AnswersInv, NEW c \in AllCallers,
         NEW k \in BatchRefusals \ {"contract"}, Answer(c, Failure(k)), outcomes' = outcomes
  PROVE  CallInv(c)'
<1>1. pc'[c] = "done" /\ answer'[c] = Failure(k)
  BY Answers
<1>2. Failure(k).kind = k /\ k # "ok" /\ k # "contract" /\ k \in BatchRefusals
  BY DEF Failure, BatchRefusals
<1>3. outcomes'[c] \in Seq(OutcomeRecords)
  BY DEF AnswersInv, CallInv
<1> QED
  BY <1>1, <1>2, <1>3 DEF CallInv, Settled

LEMMA PlanHandsOutJobs ==
  ASSUME IInv, AnswersInv, NEW c \in AllCallers, NewPlan(c)
  PROVE  handed' \subseteq JobRecords /\ CallInv(c)'
<1>1. plan'[c] \in Nat
  BY DEF NewPlan, TakePlanId, IInv
<1>2. IsBatch(batch[c])
  BY BatchesAreLists DEF AnswersInv
<1>3. JobSet(plan'[c], batch[c]) \subseteq JobRecords
  BY <1>1, <1>2, JobOfPlan DEF JobSet
<1>4. handed' \subseteq JobRecords
  BY <1>3 DEF NewPlan, AnswersInv
<1>5. CallInv(c)'
  <2>1. CASE Goto(c, "execute") /\ answer' = answer
    BY <2>1, GoesOn DEF NewPlan, Labels, AnswersInv, CallInv
  <2>2. CASE Answer(c, Failure("capacity"))
    BY <2>2, TurnedAway DEF NewPlan, BatchRefusals
  <2> QED
    BY <2>1, <2>2 DEF NewPlan
<1> QED
  BY <1>4, <1>5

LEMMA ExecutorsProcessJobs ==
  ASSUME IInv, AnswersInv, NEW c \in AllCallers, Execute(c)
  PROVE  CallInv(c)'
<1>1. CASE Answer(c, Failure("executor")) /\ outcomes' = outcomes
  BY <1>1, TurnedAway DEF BatchRefusals
<1>2. ASSUME NEW n \in 0..MaxOutcomes, NEW jobs \in [1..n -> handed],
             outcomes' = [outcomes EXCEPT ![c] = [i \in 1..n |-> Process(jobs[i])]],
             Goto(c, "assemble"), answer' = answer
      PROVE  CallInv(c)'
  <2> DEFINE os == [i \in 1..n |-> Process(jobs[i])]
  <2>1. outcomes'[c] = os
    BY <1>2 DEF AnswersInv, PerCall
  <2>2. \A i \in 1..n : Process(jobs[i]) \in OutcomeRecords
    BY DEF OutcomeRecords, AnswersInv
  <2>3. os \in [1..n -> OutcomeRecords] /\ n \in Nat
    BY <2>2
  <2> HIDE DEF os
  <2>4. os \in Seq(OutcomeRecords)
    BY <2>3, SeqDef
  <2>5. pc[c] # "done"
    BY DEF Execute
  <2> QED
    BY <1>2, <2>1, <2>4, <2>5, GoesOn DEF Labels
<1> QED
  BY <1>1, <1>2 DEF Execute

LEMMA SerialSettles ==
  ASSUME IInv, AnswersInv, NEW c \in AllCallers, SerialExecute(c)
  PROVE  CallInv(c)'
<1> DEFINE p == plan[c]
           b == batch[c]
           os == ProcessedJobs(p, b)
<1>1. p \in Nat /\ IsBatch(b) /\ b' = b
  BY BatchesAreLists DEF IInv, AnswersInv, SerialExecute
<1>2. \/ /\ outcomes' = [outcomes EXCEPT ![c] = os]
         /\ Goto(c, "assemble") /\ answer' = answer
      \/ SerialRejected(os) # {} /\ Answer(c, FirstError(os)) /\ outcomes' = outcomes
  BY DEF SerialExecute, ProcessedJobs, FirstError
<1>3. CASE outcomes' = [outcomes EXCEPT ![c] = os] /\ Goto(c, "assemble") /\ answer' = answer
  <2>1. outcomes'[c] = os
    BY <1>3 DEF AnswersInv, PerCall
  <2>2. os \in Seq(OutcomeRecords)
    BY <1>1, ProcessedJobsAreOutcomes
  <2>3. pc[c] # "done"
    BY DEF SerialExecute
  <2> HIDE DEF os
  <2> QED
    BY <1>3, <2>1, <2>2, <2>3, GoesOn DEF Labels
<1>4. CASE SerialRejected(os) # {} /\ Answer(c, FirstError(os)) /\ outcomes' = outcomes
  <2>1. FirstError(os) = BatchOracle(b)
    BY <1>1, <1>4, SerialAlone
  <2>2. pc'[c] = "done" /\ answer'[c] = BatchOracle(b)
    <3> HIDE DEF os, b
    <3> QED
      BY <1>4, <2>1, Answers
  <2>3. BatchOracle(b).kind \in {"invalid", "duplicate"}
    <3>1. FirstError(os).kind \in {"invalid", "duplicate"}
      BY DEF FirstError, Invalid, Failure
    <3> QED
      BY <2>1, <3>1
  <2>4. outcomes'[c] \in Seq(OutcomeRecords)
    BY <1>4 DEF AnswersInv, CallInv
  <2> QED
    BY <1>1, <2>2, <2>3, <2>4 DEF CallInv, Settled
<1> QED
  BY <1>2, <1>3, <1>4

LEMMA AssembleAnswers ==
  ASSUME IInv, AnswersInv, NEW c \in AllCallers, Assemble(c)
  PROVE  CallInv(c)'
<1> DEFINE p == plan[c]
           b == batch[c]
           os == outcomes[c]
           a == AssembledAll(p, b, os)
<1>1. p \in Nat /\ IsBatch(b) /\ os \in Seq(OutcomeRecords)
  BY BatchesAreLists DEF IInv, AnswersInv, CallInv
<1>2. UNCHANGED <<p, b, os>>
  BY DEF Assemble
<1>3. pc'[c] = "done" /\ answer'[c] = a
  BY Answers DEF Assemble, AssembleAll, AssembledAll
<1>4. Complete(c)' <=> OneEach(p, b, os)
  BY <1>2 DEF Complete, OneEach
<1>5. /\ a.kind = "ok" => OneEach(p, b, os)
      /\ OneEach(p, b, os) => a.kind # "contract"
      /\ a.kind \notin BatchRefusals => a = BatchOracle(b)
  BY <1>1, AssemblySettles
<1> QED
  BY <1>1, <1>2, <1>3, <1>4, <1>5 DEF CallInv, Settled

LEMMA AnswersPreserved == IInv /\ AnswersInv /\ [Next]_vars => AnswersInv'
<1> SUFFICES ASSUME IInv, AnswersInv, [Next]_vars PROVE AnswersInv'
  OBVIOUS
<1>1. CASE UNCHANGED vars
  <2>1. \A c \in AllCallers : UNCHANGED Row(c)
    BY <1>1, Zenon DEF Row, vars
  <2>2. \A c \in AllCallers : CallInv(c)'
    BY <2>1, RowKept, Zenon DEF AnswersInv
  <2> QED
    BY <1>1, <2>2, Zenon DEF AnswersInv, PerCall, vars
<1>2. ASSUME NEW c \in AllCallers, CallStep(c) PROVE AnswersInv'
  <2>1. Apart(c)
    BY <1>2, StepsApart
  <2>2. CallInv(c)' /\ handed' \subseteq JobRecords
    <3>1. CASE NewPlan(c)
      BY <3>1, PlanHandsOutJobs
    <3>2. CASE Refuse(c)
      BY <3>2, TurnedAway DEF Refuse, BatchRefusals, AnswersInv
    <3>3. CASE PlanSpaceExhausted(c)
      BY <3>3, TurnedAway DEF PlanSpaceExhausted, BatchRefusals, AnswersInv
    <3>4. CASE Execute(c)
      BY <3>4, ExecutorsProcessJobs DEF Execute, AnswersInv
    <3>5. CASE SerialExecute(c)
      BY <3>5, SerialSettles DEF SerialExecute, AnswersInv
    <3>6. CASE Assemble(c)
      BY <3>6, AssembleAnswers DEF Assemble, AnswersInv
    <3> QED
      BY <1>2, <3>1, <3>2, <3>3, <3>4, <3>5, <3>6 DEF CallStep
  <2>3. ASSUME NEW d \in AllCallers PROVE CallInv(d)'
    <3>1. CASE d = c
      BY <2>2, <3>1
    <3>2. CASE d # c
      BY <2>1, <3>2, RowKept DEF Apart, AnswersInv
    <3> QED
      BY <3>1, <3>2
  <2> QED
    BY <2>1, <2>2, <2>3 DEF AnswersInv, Apart
<1> QED
  BY <1>1, <1>2 DEF Next, CallStep

LEMMA AnswersInvariance == Spec => [](IInv /\ AnswersInv)
BY InitHolds, NextPreserves, AnswersInit, AnswersPreserved, PTL DEF Spec

(* Whatever an executor returns and keeps of other plans, mappings are     *)
(* only published from one outcome of each of the call's own jobs.         *)
THEOREM CompleteOnly == Spec => []PublishesOnlyComplete
<1>1. IInv /\ AnswersInv => PublishesOnlyComplete
  <2> SUFFICES ASSUME IInv, AnswersInv, NEW c \in AllCallers, answer[c].kind = "ok"
               PROVE  Complete(c)
    BY DEF PublishesOnlyComplete
  <2>1. pc[c] = "done"
    BY DEF AnswersInv, CallInv, NoAnswer, Failure
  <2> QED
    BY <2>1 DEF AnswersInv, CallInv, Settled
<1> QED
  BY <1>1, AnswersInvariance, PTL

(* What a batch is answered is what its credentials would be answered      *)
(* alone, by every executor and in whatever order the outcomes come.       *)
THEOREM Alone == Spec => []AnswersAsAlone
<1>1. IInv /\ AnswersInv => AnswersAsAlone
  BY DEF AnswersAsAlone, AnswersInv, CallInv, Settled
<1> QED
  BY <1>1, AnswersInvariance, PTL

(* An executor that returns one outcome of each job, in whatever order, is *)
(* never refused for it.                                                   *)
THEOREM CompleteAccepted == Spec => []CompleteNeverRefused
<1>1. IInv /\ AnswersInv => CompleteNeverRefused
  BY DEF CompleteNeverRefused, AnswersInv, CallInv, Settled
<1> QED
  BY <1>1, AnswersInvariance, PTL
=============================================================================
