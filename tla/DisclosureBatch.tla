--------------------------- MODULE DisclosureBatch ---------------------------
(***************************************************************************)
(* src/batch.rs: the disclosures of several credentials, preprocessed by   *)
(* an executor the caller provides, and published all or none.             *)
(*                                                                         *)
(* A plan takes an identity from a process-wide counter and hands its jobs *)
(* to the executor.  The fields of an outcome are private: an executor can *)
(* only obtain one by processing a job it was handed, but it keeps jobs of *)
(* earlier and concurrent plans, and may lose, repeat, reorder or mix up   *)
(* what it returns.  The library's own executor is serial and fail-fast.   *)
(* Credentials and ordinals count from 1.                                  *)
(***************************************************************************)
EXTENDS Integers, Sequences, FiniteSets, Disclosures

CONSTANTS Callers,             (* calls with an executor of their own        *)
          SerialCallers,       (* calls that use the serial executor         *)
          Batches,             (* the credentials calls come with            *)
          MaxCredentials,      (* MAX_DISCLOSURE_BATCH_CREDENTIALS           *)
          MaxDisclosures,      (* MAX_SD_JWT_DISCLOSURES                     *)
          MaxDisclosureBytes,  (* MAX_SD_JWT_DISCLOSURE_BYTES                *)
          MaxInputBytes,       (* MAX_SD_JWT_INPUT_BYTES                     *)
          LastPlanId,          (* usize::MAX                                 *)
          MaxOutcomes          (* bound of the model: outcomes returned      *)

ASSUME BatchAssumption ==
  /\ Batches \subseteq Seq(Seq(Encoded))
  /\ LastPlanId \in Nat \ {0}
  /\ MaxOutcomes \in Nat

VARIABLES batch,      (* the credentials of each call                       *)
          pc,         (* where the call is                                  *)
          nextPlanId, (* NEXT_PLAN_ID                                       *)
          plan,       (* the identity of the call's plan, 0 for none        *)
          handed,     (* every job an executor has been handed so far       *)
          outcomes,   (* what the call's executor returns                   *)
          answer      (* the mappings of all credentials, or an error       *)

vars == <<batch, pc, nextPlanId, plan, handed, outcomes, answer>>

AllCallers == Callers \union SerialCallers

-----------------------------------------------------------------------------
(* The plan of a batch.                                                    *)

CredentialJobs(p, b, k) ==
  [i \in 1..Len(b[k]) |-> [plan |-> p, cred |-> k, ordinal |-> i, encoded |-> b[k][i]]]

(* The jobs of the first k credentials, and of all, in caller order.       *)
JobsUpTo(p, b) == Joined([k \in 1..Len(b) |-> CredentialJobs(p, b, k)])

Jobs(p, b) == JobsUpTo(p, b)[Len(b)]

JobSet(p, b) == {Jobs(p, b)[i] : i \in 1..Len(Jobs(p, b))}

(* DisclosureVerificationJob::process.                                     *)
Process(job) ==
  [plan |-> job.plan, cred |-> job.cred, ordinal |-> job.ordinal,
   encoded |-> job.encoded, digest |-> DigestOf(job.encoded)]

(* The four limits, whichever is met first: an InvalidInput error.         *)
OverLimits(b) ==
  \/ Len(b) > MaxCredentials
  \/ \E k \in 1..Len(b) :
       MapThenSumSet(LAMBDA j : Len(b[j]), 1..k) > MaxDisclosures
  \/ \E k \in 1..Len(b) : \E i \in 1..Len(b[k]) : Size[b[k][i]] > MaxDisclosureBytes
  \/ MapThenSumSet(LAMBDA k : Total(b[k]), 1..Len(b)) > MaxInputBytes

-----------------------------------------------------------------------------

Init ==
  /\ batch \in [AllCallers -> Batches]
  /\ pc = [c \in AllCallers |-> "start"]
  /\ nextPlanId = 1
  /\ plan = [c \in AllCallers |-> 0]
  /\ handed = {}
  /\ outcomes = [c \in AllCallers |-> <<>>]
  /\ answer = [c \in AllCallers |-> NoAnswer]

Goto(c, l) == pc' = [pc EXCEPT ![c] = l]

Answer(c, a) ==
  /\ Goto(c, "done")
  /\ answer' = [answer EXCEPT ![c] = a]

Refuse(c) ==
  /\ pc[c] = "start"
  /\ OverLimits(batch[c])
  /\ Answer(c, Failure("limit"))
  /\ UNCHANGED <<batch, nextPlanId, plan, handed, outcomes>>

(* Slip: a load and a store instead of one update: the load may be stale.  *)
TakePlanIdInTwoSteps(c) ==
  \E loaded \in 1..nextPlanId :
    /\ loaded < LastPlanId
    /\ nextPlanId' = loaded + 1
    /\ plan' = [plan EXCEPT ![c] = loaded]

(* fetch_update with checked_add: one atomic step.                         *)
TakePlanId(c) ==
  /\ nextPlanId < LastPlanId
  /\ nextPlanId' = nextPlanId + 1
  /\ plan' = [plan EXCEPT ![c] = nextPlanId]

(* The jobs are reserved after the identity is taken, and either           *)
(* reservation may fail.                                                   *)
NewPlan(c) ==
  /\ pc[c] = "start"
  /\ ~ OverLimits(batch[c])
  /\ TakePlanId(c)
  /\ \/ /\ Goto(c, "execute")
        /\ handed' = IF c \in Callers THEN handed \union JobSet(plan'[c], batch[c]) ELSE handed
        /\ UNCHANGED answer
     \/ /\ Answer(c, Failure("capacity"))
        /\ UNCHANGED handed
  /\ UNCHANGED <<batch, outcomes>>

PlanSpaceExhausted(c) ==
  /\ pc[c] = "start"
  /\ ~ OverLimits(batch[c])
  /\ nextPlanId = LastPlanId
  /\ Answer(c, Failure("exhausted"))
  /\ UNCHANGED <<batch, nextPlanId, plan, handed, outcomes>>

-----------------------------------------------------------------------------
(* Executors.                                                              *)

(* An executor of the caller fails, or returns outcomes of any jobs it has *)
(* been handed by now, as often and in the order it likes.                 *)
Execute(c) ==
  /\ pc[c] = "execute"
  /\ c \in Callers
  /\ \/ /\ \E n \in 0..MaxOutcomes : \E jobs \in [1..n -> handed] :
            outcomes' = [outcomes EXCEPT ![c] = [i \in 1..n |-> Process(jobs[i])]]
        /\ Goto(c, "assemble")
        /\ UNCHANGED answer
     \/ /\ Answer(c, Failure("executor"))
        /\ UNCHANGED outcomes
  /\ UNCHANGED <<batch, nextPlanId, plan, handed>>

(* Slip: the observed digests are kept from one credential to the next.    *)
SerialRejectedAcross(os) ==
  {i \in 1..Len(os) : os[i].digest = Bad \/ Repeats(os, i)}

(* The first job the serial executor stops at: malformed, or repeating a   *)
(* digest of its own credential.                                           *)
SerialRejected(os) ==
  {i \in 1..Len(os) :
     \/ os[i].digest = Bad
     \/ \E j \in 1..(i - 1) : os[j].cred = os[i].cred /\ os[j].digest = os[i].digest}

(* SerialDisclosureVerificationExecutor::execute.                          *)
SerialExecute(c) ==
  LET jobs == Jobs(plan[c], batch[c])
      os   == [i \in 1..Len(jobs) |-> Process(jobs[i])]
  IN  /\ pc[c] = "execute"
      /\ c \in SerialCallers
      /\ \/ /\ SerialRejected(os) = {}
            /\ outcomes' = [outcomes EXCEPT ![c] = os]
            /\ Goto(c, "assemble")
            /\ UNCHANGED answer
         \/ /\ SerialRejected(os) # {}
            /\ LET first == os[Min(SerialRejected(os))]
               IN  Answer(c, IF first.digest = Bad THEN Invalid(first.encoded)
                                                   ELSE Failure("duplicate"))
            /\ UNCHANGED outcomes
      /\ UNCHANGED <<batch, nextPlanId, plan, handed>>

-----------------------------------------------------------------------------
(* Assembly.                                                               *)

(* Slip: the credential is left out of the sort key.                       *)
SortedByOrdinal(os) == Sorted(os)

(* sort_by_key on the credential and the ordinal.                          *)
ComesBefore(o, q) == o.cred < q.cred \/ (o.cred = q.cred /\ o.ordinal < q.ordinal)

IdFirst(os) ==
  {p \in (1..Len(os)) \X (1..Len(os)) :
     \/ ComesBefore(os[p[1]], os[p[2]])
     \/ ~ ComesBefore(os[p[2]], os[p[1]]) /\ p[1] < p[2]}

SortedById(os) == Arranged(os, IdFirst(os))

(* Slip: outcomes of another plan are told from one's own by position only. *)
OutcomesMatchById(p, jobs, os) ==
  /\ Len(os) = Len(jobs)
  /\ \A i \in 1..Len(os) :
       /\ os[i].cred = jobs[i].cred /\ os[i].ordinal = jobs[i].ordinal
       /\ os[i].encoded = jobs[i].encoded

(* validate_outcomes, on sorted outcomes.                                  *)
OutcomesMatch(p, jobs, os) ==
  /\ \A i \in 1..Len(os) : os[i].plan = p
  /\ Len(os) = Len(jobs)
  /\ \A i \in 1..Len(os) :
       /\ os[i].cred = jobs[i].cred /\ os[i].ordinal = jobs[i].ordinal
       /\ os[i].encoded = jobs[i].encoded

(* The outcomes of credential k, taken off the front of the sorted ones.   *)
CredentialOutcomes(os, p, b, k) ==
  LET before == Len(JobsUpTo(p, b)[k - 1])
  IN  [i \in 1..Len(b[k]) |->
         [ordinal |-> os[before + i].ordinal,
          encoded |-> os[before + i].encoded,
          digest  |-> os[before + i].digest]]

(* The mappings of every credential, or the error of the first that fails. *)
AllOrFirstError(verdicts) ==
  LET failed == {k \in 1..Len(verdicts) : verdicts[k].kind # "ok"}
  IN  IF failed = {} THEN [kind |-> "ok", credentials |-> verdicts]
      ELSE verdicts[Min(failed)]

AssembleAll(c) ==
  LET b  == batch[c]
      os == SortedById(outcomes[c])
  IN  IF OutcomesMatch(plan[c], Jobs(plan[c], b), os)
      THEN AllOrFirstError(
             [k \in 1..Len(b) |-> Assembled(b[k], CredentialOutcomes(os, plan[c], b, k))])
      ELSE Failure("contract")

Assemble(c) ==
  /\ pc[c] = "assemble"
  /\ Answer(c, AssembleAll(c))
  /\ UNCHANGED <<batch, nextPlanId, plan, handed, outcomes>>

Next ==
  \E c \in AllCallers :
    \/ Refuse(c)
    \/ NewPlan(c)
    \/ PlanSpaceExhausted(c)
    \/ Execute(c)
    \/ SerialExecute(c)
    \/ Assemble(c)

Spec == Init /\ [][Next]_vars

-----------------------------------------------------------------------------

Labels == {"start", "execute", "assemble", "done"}

(* An identity is never given to two plans, not even when the counter has  *)
(* run out: an outcome names the plan it was computed for.                 *)
PlanIdsDistinct ==
  \A c, d \in AllCallers : c # d /\ plan[c] # 0 => plan[c] # plan[d]

(* The executor returned one outcome for each job of the call's own plan.  *)
Complete(c) ==
  LET own == {Process(j) : j \in JobSet(plan[c], batch[c])}
  IN  /\ Len(outcomes[c]) = Len(Jobs(plan[c], batch[c]))
      /\ {outcomes[c][i] : i \in 1..Len(outcomes[c])} = own

(* Nothing is published from an incomplete return: no outcome of another   *)
(* plan stands in for one's own, even if it carries the same credential    *)
(* ordinal, job ordinal and disclosure; none is repeated, lost or added.   *)
PublishesOnlyComplete ==
  \A c \in AllCallers : answer[c].kind = "ok" => Complete(c)

(* The credentials one after the other, each through the single-credential *)
(* loop: all mappings, or the first error in caller order.                 *)
BatchOracle(b) == AllOrFirstError([k \in 1..Len(b) |-> Oracle(b[k])])

BatchRefusals == {"limit", "capacity", "exhausted", "executor", "contract"}

(* A batch that is answered is answered as its credentials would be alone, *)
(* by either executor and in whatever order outcomes came back: no digest  *)
(* and no error of one credential leaks into another.                      *)
AnswersAsAlone ==
  \A c \in AllCallers :
    pc[c] = "done" /\ answer[c].kind \notin BatchRefusals => answer[c] = BatchOracle(batch[c])

(* An executor that returns everything once is never accused of breaking   *)
(* its contract, whatever the order.                                       *)
CompleteNeverRefused ==
  \A c \in AllCallers : pc[c] = "done" /\ Complete(c) => answer[c].kind # "contract"
=============================================================================
