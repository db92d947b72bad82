---------------------------- MODULE IssuancePlans ----------------------------
(***************************************************************************)
(* The plan of an issuance, as Planner (src/issuer/issuance_plan.rs) lays  *)
(* it out, and what assembling it serially yields.                         *)
(*                                                                         *)
(* Locations are numbered as they are allocated, a value before what is    *)
(* inside it; p.last[l] is the last location inside l. Jobs are planned    *)
(* after what is inside the value they disclose: the decoys of an object   *)
(* when it ends, then its own disclosure. Locations and jobs count from 1. *)
(***************************************************************************)
EXTENDS Integers, Sequences, FiniteSets, SequencesExt, Lists

(* A plan is [last, kind, sd, decoys, heavy], each a sequence by location: *)
(* the last location inside it, its kind, whether it is disclosed, how     *)
(* many decoys it gets, whether the work in its batch reaches the cutoff.  *)
CONSTANT Plans

(* What Planner lays out: the first location is the whole of the claims,   *)
(* what is inside a location ends with it, nothing is inside a scalar, and *)
(* only objects have decoys.                                               *)
ASSUME PlansAssumption ==
  \A p \in Plans :
    /\ p.kind \in Seq({"object", "array", "scalar"}) /\ p.kind # <<>>
    /\ p.sd \in [DOMAIN p.kind -> BOOLEAN] /\ p.heavy \in [DOMAIN p.kind -> BOOLEAN]
    /\ p.decoys \in [DOMAIN p.kind -> Nat]
    /\ p.last \in [DOMAIN p.kind -> DOMAIN p.kind]
    /\ ~ p.sd[1] /\ p.last[1] = Len(p.kind)
    /\ \A l \in DOMAIN p.kind :
         /\ l <= p.last[l]
         /\ \A m \in l..p.last[l] : p.last[m] <= p.last[l]
         /\ p.kind[l] = "scalar" => p.last[l] = l
         /\ p.decoys[l] > 0 => p.kind[l] = "object"

Locations(p) == DOMAIN p.kind

Encloses(p, l, m) == l < m /\ m <= p.last[l]

(* The containers seen in the value at l: nothing disclosed hides them.    *)
Containers(p, l) ==
  {m \in l..p.last[l] :
     /\ p.kind[m] # "scalar"
     /\ \A k \in (l + 1)..m : m <= p.last[k] => ~ p.sd[k]}

Parent ==
  [p \in Plans |-> [m \in Locations(p) \ {1} |->
     CHOOSE l \in Locations(p) :
       /\ Encloses(p, l, m)
       /\ \A k \in Locations(p) : Encloses(p, k, m) => k <= l]]

(* The order in which the recursion leaves the locations.                  *)
LeftBefore(p, l, m) == p.last[l] < p.last[m] \/ (p.last[l] = p.last[m] /\ l > m)
LeftFirst(p) == {q \in Locations(p) \X Locations(p) : LeftBefore(p, q[1], q[2])}
PostOrder == [p \in Plans |-> Arranged([l \in Locations(p) |-> l], LeftFirst(p))]
Turn(p, l) == Place(Len(p.kind), LeftFirst(p), l)

(* PlannedJobOperation::kind, of the disclosure of the value at l.         *)
DisclosureKind(p, l) ==
  IF p.kind[Parent[p][l]] = "array" THEN "array disclosure" ELSE "object disclosure"

JobsAtDisclosureFirst(p, l) ==   \* Slip: the object's own disclosure before its decoys.
  (IF p.sd[l] THEN <<[location |-> l, kind |-> DisclosureKind(p, l)]>> ELSE <<>>)
    \o [i \in 1..p.decoys[l] |-> [location |-> l, kind |-> "decoy"]]

JobsAt(p, l) ==
  [i \in 1..p.decoys[l] |-> [location |-> l, kind |-> "decoy"]]
    \o (IF p.sd[l] THEN <<[location |-> l, kind |-> DisclosureKind(p, l)]>> ELSE <<>>)

(* The registry after each turn of the walk, IssuancePlan::jobs and        *)
(* IssuancePlan::disclosure_job_ids.                                       *)
Registry ==
  [p \in Plans |-> Joined([i \in 1..Len(p.kind) |-> JobsAt(p, PostOrder[p][i])])]
Jobs == [p \in Plans |-> Registry[p][Len(p.kind)]]
DisclosureJobIds ==
  [p \in Plans |-> Ascending({id \in DOMAIN Jobs[p] : Jobs[p][id].kind # "decoy"})]

(* PlannedJobOperation::disclosure_ordinal, a count of the disclosures     *)
(* planned before; 0 for a decoy, which has none.                          *)
Ordinal ==
  [p \in Plans |-> [id \in DOMAIN Jobs[p] |->
     IF Jobs[p][id].kind = "decoy" THEN 0
     ELSE 1 + Cardinality({j \in 1..(id - 1) : Jobs[p][j].kind # "decoy"})]]

(* Each disclosure is bound to its ordinal, in the registry of jobs and in *)
(* that of the disclosures.                                                *)
RegistryValid(p) ==
  /\ \A id \in DOMAIN Jobs[p] :
       \/ Ordinal[p][id] = 0
       \/ /\ Ordinal[p][id] \in DOMAIN DisclosureJobIds[p]
          /\ DisclosureJobIds[p][Ordinal[p][id]] = id
  /\ \A o \in DOMAIN DisclosureJobIds[p] :
       /\ DisclosureJobIds[p][o] \in DOMAIN Jobs[p]
       /\ Ordinal[p][DisclosureJobIds[p][o]] = o

(* The identities put into the tree of the plan: the length of the         *)
(* registry when the job is pushed.                                        *)
JobsBefore(p, l) == Len(Registry[p][Turn(p, l) - 1])
DecoyIds ==
  [p \in Plans |-> [l \in Locations(p) |-> [i \in 1..p.decoys[l] |-> JobsBefore(p, l) + i]]]
DisclosureId ==
  [p \in Plans |-> [l \in Locations(p) |-> JobsBefore(p, l) + p.decoys[l] + 1]]

-----------------------------------------------------------------------------
(* Serial assembly. Salts are unique, so a digest is known by its job; a   *)
(* disclosure is its job and the digest lists inside the value disclosed.  *)

Disclosed(p, l) == {m \in Locations(p) : m # 1 /\ p.sd[m] /\ Parent[p][m] = l}

Digests(p, l) ==
  Ascending({DisclosureId[p][m] : m \in Disclosed(p, l)}) \o DecoyIds[p][l]

Assembled(p, l) == [m \in Containers(p, l) |-> Digests(p, m)]

SerialAssembly ==
  [p \in Plans |->
     [claims      |-> Assembled(p, 1),
      disclosures |-> [o \in DOMAIN DisclosureJobIds[p] |->
                         LET id == DisclosureJobIds[p][o]
                         IN  [job |-> id, value |-> Assembled(p, Jobs[p][id].location)]]]]
=============================================================================
