----------------------- MODULE IssuanceExecutionProofs -----------------------
(***************************************************************************)
(* For any plans, any number of requests and any executors: an issuance    *)
(* that succeeds yields the serial assembly, none fails on a plan of the   *)
(* planner's, and worker threads stay within the permits. For any outcomes *)
(* of a batch: the order they arrive in does not matter to its             *)
(* restoration.                                                            *)
(***************************************************************************)
EXTENDS IssuanceExecution, OutcomeRestoration, CountingLemmas, TLAPS

-----------------------------------------------------------------------------
(* The order of the walk.                                                  *)

LEMMA PlanMeans ==
  ASSUME NEW p \in Plans
  PROVE  /\ Len(p.kind) \in Nat \ {0} /\ Locations(p) = 1..Len(p.kind) /\ 1 \in Locations(p)
         /\ p.sd \in [Locations(p) -> BOOLEAN] /\ p.decoys \in [Locations(p) -> Nat]
         /\ p.last \in [Locations(p) -> Locations(p)]
         /\ ~ p.sd[1] /\ p.last[1] = Len(p.kind)
         /\ \A l \in Locations(p) :
              /\ l <= p.last[l]
              /\ \A m \in l..p.last[l] : p.last[m] <= p.last[l]
              /\ p.kind[l] = "scalar" => p.last[l] = l /\ p.decoys[l] = 0
<1> DEFINE K == {"object", "array", "scalar"}
<1>1. p.kind \in Seq(K) /\ p.kind # <<>>
  BY PlansAssumption
<1> HIDE DEF K
<1>2. Len(p.kind) \in Nat \ {0} /\ DOMAIN p.kind = 1..Len(p.kind)
  BY <1>1, LenProperties, EmptySeq
<1>3. /\ p.sd \in [DOMAIN p.kind -> BOOLEAN] /\ p.decoys \in [DOMAIN p.kind -> Nat]
      /\ p.last \in [DOMAIN p.kind -> DOMAIN p.kind]
      /\ ~ p.sd[1] /\ p.last[1] = Len(p.kind)
      /\ \A l \in DOMAIN p.kind :
           /\ l <= p.last[l]
           /\ \A m \in l..p.last[l] : p.last[m] <= p.last[l]
           /\ p.kind[l] = "scalar" => p.last[l] = l
           /\ p.decoys[l] > 0 => p.kind[l] = "object"
  BY PlansAssumption
<1>4. ASSUME NEW l \in DOMAIN p.kind, p.kind[l] = "scalar" PROVE p.decoys[l] = 0
  <2>1. p.decoys[l] \in Nat /\ ~ (p.decoys[l] > 0)
    BY <1>3, <1>4
  <2> QED
    BY <2>1
<1>5. 1 \in DOMAIN p.kind
  BY <1>2
<1> QED
  BY <1>2, <1>3, <1>4, <1>5 DEF Locations

(* Every location has a turn of its own, after everything inside it.       *)
LEMMA Turns ==
  ASSUME NEW p \in Plans
  PROVE  /\ \A l \in Locations(p) :
              Turn(p, l) \in 1..Len(p.kind) /\ PostOrder[p][Turn(p, l)] = l
         /\ \A a \in 1..Len(p.kind) :
              PostOrder[p][a] \in Locations(p) /\ Turn(p, PostOrder[p][a]) = a
         /\ \A l, m \in Locations(p) : LeftBefore(p, l, m) => Turn(p, l) < Turn(p, m)
<1> DEFINE n == Len(p.kind)
           before == LeftFirst(p)
           all == [l \in Locations(p) |-> l]
           L == Locations(p)
<1>1. /\ n \in Nat \ {0} /\ L = 1..n /\ p.last \in [L -> L]
  BY PlanMeans
<1>2. /\ \A l \in L : <<l, l>> \notin before
      /\ \A l, m, k \in L : <<l, m>> \in before /\ <<m, k>> \in before => <<l, k>> \in before
      /\ \A l, m \in L : l = m \/ <<l, m>> \in before \/ <<m, l>> \in before
  <2>1. \A l, m \in L : <<l, m>> \in before <=> LeftBefore(p, l, m)
    BY DEF LeftFirst
  <2>2. \A l \in L : l \in Nat /\ p.last[l] \in Nat
    BY <1>1
  <2> HIDE DEF L, before
  <2> QED
    BY <2>1, <2>2 DEF LeftBefore
<1>3. Len(all) = n /\ \A l \in L : all[l] = l
  <2>1. all = [l \in 1..n |-> l]
    BY <1>1
  <2> HIDE DEF n
  <2> QED
    BY <1>1, <2>1
<1>4. \A l, m \in L : <<l, m>> \in before <=> LeftBefore(p, l, m)
  BY DEF LeftFirst
<1>5. PostOrder[p] = Arranged(all, before)
  BY DEF PostOrder
<1>6. \A l \in L : Turn(p, l) = Place(n, before, l)
  BY DEF Turn
<1> HIDE DEF L, before, all, n
<1>7. /\ \A l \in 1..n : Place(n, before, l) \in 1..n
      /\ \A l, m \in 1..n : <<l, m>> \in before => Place(n, before, l) < Place(n, before, m)
  BY <1>1, <1>2, PlacesAscend
<1>8. [l \in 1..n |-> Place(n, before, l)] \in Bijection(1..n, 1..n)
  <2>1. L = 1..n /\ n \in Nat
    BY <1>1
  <2>2. /\ \A l \in 1..n : <<l, l>> \notin before
        /\ \A l, m, k \in 1..n : <<l, m>> \in before /\ <<m, k>> \in before => <<l, k>> \in before
        /\ \A l, m \in 1..n : l = m \/ <<l, m>> \in before \/ <<m, l>> \in before
    BY <1>2, <2>1, Zenon
  <2> QED
    BY <2>1, <2>2, PlacesAreDistinct, Zenon
<1>9. /\ \A a \in 1..n : \E l \in 1..n : Place(n, before, l) = a
      /\ \A l, m \in 1..n : Place(n, before, l) = Place(n, before, m) => l = m
  <2> DEFINE place == [l \in 1..n |-> Place(n, before, l)]
  <2>1. place \in Bijection(1..n, 1..n)
    BY <1>8
  <2>2. \A l \in 1..n : place[l] = Place(n, before, l)
    OBVIOUS
  <2> HIDE DEF place
  <2>3. /\ \A l, m \in 1..n : place[l] = place[m] => l = m
        /\ \A a \in 1..n : \E l \in 1..n : place[l] = a
    BY <2>1, PermutationMeans, Zenon
  <2> QED
    BY <2>2, <2>3
<1>10. \A l \in 1..n : /\ Place(n, before, l) \in 1..n
                       /\ Arranged(all, before)[Place(n, before, l)] = all[l]
  <2>1. [l \in 1..Len(all) |-> Place(Len(all), before, l)]
          \in Bijection(1..Len(all), 1..Len(all))
    BY <1>3, <1>8
  <2>2. \A l \in 1..Len(all) :
          LET k == Place(Len(all), before, l)
          IN  k \in 1..Len(all) /\ Arranged(all, before)[k] = all[l]
    BY <1>1, <1>3, <2>1, ArrangedPermutes
  <2> QED
    BY <1>3, <2>2
<1>11. \A l \in L : Turn(p, l) \in 1..n /\ PostOrder[p][Turn(p, l)] = l
  <2>1. \A l \in L : l \in 1..n /\ all[l] = l
    BY <1>1, <1>3
  <2> QED
    BY <1>5, <1>6, <1>10, <2>1, Zenon
<1>12. \A a \in 1..n : PostOrder[p][a] \in L /\ Turn(p, PostOrder[p][a]) = a
  <2>1. ASSUME NEW a \in 1..n PROVE PostOrder[p][a] \in L /\ Turn(p, PostOrder[p][a]) = a
    <3>1. PICK l \in L : Turn(p, l) = a
      BY <1>1, <1>6, <1>9
    <3> QED
      BY <1>11, <3>1
  <2> QED
    BY <2>1
<1>13. \A l, m \in L : LeftBefore(p, l, m) => Turn(p, l) < Turn(p, m)
  BY <1>1, <1>4, <1>6, <1>7
<1> QED
  BY <1>11, <1>12, <1>13 DEF L, n

LEMMA SameTurn ==
  ASSUME NEW p \in Plans, NEW l \in Locations(p), NEW m \in Locations(p), Turn(p, l) = Turn(p, m)
  PROVE  l = m
BY Turns

LEMMA InsideIsLeftFirst ==
  ASSUME NEW p \in Plans, NEW l \in Locations(p), NEW m \in l..p.last[l]
  PROVE  /\ m \in Locations(p)
         /\ m # l => Turn(p, m) < Turn(p, l)
<1>1. /\ Len(p.kind) \in Nat /\ Locations(p) = 1..Len(p.kind) /\ p.last \in [Locations(p) -> Locations(p)]
      /\ p.last[m] <= p.last[l]
  BY PlanMeans
<1>2. m \in Locations(p) /\ l \in Nat /\ m \in Nat /\ m >= l
  BY <1>1
<1>3. p.last[m] \in Nat /\ p.last[l] \in Nat
  BY <1>1, <1>2
<1>4. m # l => LeftBefore(p, m, l)
  BY <1>1, <1>2, <1>3 DEF LeftBefore
<1> QED
  BY <1>2, <1>4, Turns

(* The walk ends with the whole of the claims.                             *)
LEMMA WholeIsLast ==
  ASSUME NEW p \in Plans
  PROVE  \A l \in Locations(p) : Turn(p, l) = Len(p.kind) <=> l = 1
<1>1. /\ Len(p.kind) \in Nat \ {0} /\ Locations(p) = 1..Len(p.kind) /\ 1 \in Locations(p)
      /\ p.last[1] = Len(p.kind)
  BY PlanMeans
<1>2. ASSUME NEW l \in Locations(p), l # 1 PROVE Turn(p, l) < Turn(p, 1)
  <2>1. l \in 1..p.last[1]
    BY <1>1
  <2> QED
    BY <1>1, <1>2, <2>1, InsideIsLeftFirst
<1>3. \A l \in Locations(p) : Turn(p, l) \in 1..Len(p.kind)
  BY Turns
<1>4. PICK z \in Locations(p) : Turn(p, z) = Len(p.kind)
  BY <1>1, Turns
<1>5. z = 1
  BY <1>1, <1>2, <1>3, <1>4
<1> QED
  BY <1>4, <1>5, SameTurn

(* The parent of a location is the innermost container around it.          *)
LEMMA Parents ==
  ASSUME NEW p \in Plans, NEW m \in Locations(p), m # 1
  PROVE  /\ Parent[p][m] \in Locations(p) /\ Encloses(p, Parent[p][m], m)
         /\ p.kind[Parent[p][m]] # "scalar"
         /\ Turn(p, m) < Turn(p, Parent[p][m])
<1> DEFINE n == Len(p.kind)
           Around == {l \in Locations(p) : Encloses(p, l, m)}
           Up == {x \in Nat : n - x \in Around}
<1>1. /\ n \in Nat \ {0} /\ Locations(p) = 1..n /\ p.last \in [Locations(p) -> Locations(p)]
      /\ p.last[1] = n /\ \A l \in Locations(p) : p.kind[l] = "scalar" => p.last[l] = l
  BY PlanMeans
<1>2. 1 \in Around
  BY <1>1 DEF Encloses
<1>3. \E l \in Around : \A k \in Around : k <= l
  <2>1. \A l \in Around : l \in Nat /\ l <= n
    BY <1>1
  <2> HIDE DEF Around, n
  <2>2. n - 1 \in Up
    BY <1>1, <1>2, <2>1
  <2>3. PICK x \in Up : \A y \in Up : x <= y
    <3>1. Up \subseteq Nat /\ Up # {}
      BY <2>2
    <3> HIDE DEF Up
    <3> QED
      BY <3>1, LeastElement
  <2>4. ASSUME NEW k \in Around PROVE k <= n - x
    <3>1. n - k \in Up
      BY <1>1, <2>1
    <3>2. x <= n - k /\ x \in Nat /\ k \in Nat
      BY <2>1, <2>3, <3>1
    <3> QED
      BY <1>1, <3>2
  <2> QED
    BY <2>3, <2>4
<1>4. Parent[p][m] = CHOOSE l \in Locations(p) :
                       /\ Encloses(p, l, m)
                       /\ \A k \in Locations(p) : Encloses(p, k, m) => k <= l
  BY DEF Parent
<1>5. Parent[p][m] \in Locations(p) /\ Encloses(p, Parent[p][m], m)
  BY <1>3, <1>4
<1>6. p.kind[Parent[p][m]] # "scalar"
  BY <1>1, <1>5 DEF Encloses
<1>7. m \in Parent[p][m]..p.last[Parent[p][m]] /\ m # Parent[p][m]
  BY <1>1, <1>5 DEF Encloses
<1> QED
  BY <1>5, <1>6, <1>7, InsideIsLeftFirst

-----------------------------------------------------------------------------
(* The registry of jobs.                                                   *)

JobRecords(p) ==
  [location : Locations(p), kind : {"decoy", "array disclosure", "object disclosure"}]

DecoyJob(l) == [location |-> l, kind |-> "decoy"]

DisclosureJob(p, l) == [location |-> l, kind |-> DisclosureKind(p, l)]

(* How many jobs are planned at a location.                                *)
JobCount(p, l) == p.decoys[l] + (IF p.sd[l] THEN 1 ELSE 0)

LEMMA JobsAtLocation ==
  ASSUME NEW p \in Plans, NEW l \in Locations(p)
  PROVE  /\ p.decoys[l] \in Nat /\ JobCount(p, l) \in Nat /\ p.decoys[l] <= JobCount(p, l)
         /\ JobsAt(p, l) \in Seq(JobRecords(p)) /\ Len(JobsAt(p, l)) = JobCount(p, l)
         /\ \A i \in 1..p.decoys[l] : JobsAt(p, l)[i] = DecoyJob(l)
         /\ p.sd[l] => /\ JobCount(p, l) = p.decoys[l] + 1
                       /\ JobsAt(p, l)[p.decoys[l] + 1] = DisclosureJob(p, l)
         /\ ~ p.sd[l] => JobCount(p, l) = p.decoys[l]
<1> DEFINE n == p.decoys[l]
           R == JobRecords(p)
           decoys == [i \in 1..n |-> DecoyJob(l)]
           own == IF p.sd[l] THEN <<DisclosureJob(p, l)>> ELSE <<>>
<1>1. n \in Nat /\ p.sd[l] \in BOOLEAN
  BY PlanMeans
<1>2. DecoyJob(l) \in R /\ DisclosureJob(p, l) \in R
  BY DEF JobRecords, DecoyJob, DisclosureJob, DisclosureKind
<1>3. JobsAt(p, l) = decoys \o own
  BY DEF JobsAt, DecoyJob, DisclosureJob
<1> HIDE DEF n, R
<1>4. decoys \in Seq(R) /\ Len(decoys) = n /\ \A i \in 1..n : decoys[i] = DecoyJob(l)
  BY <1>1, <1>2
<1>5. CASE p.sd[l]
  <2>1. own = <<DisclosureJob(p, l)>>
    BY <1>5
  <2>2. own \in Seq(R) /\ Len(own) = 1 /\ own[1] = DisclosureJob(p, l)
    BY <1>2, <2>1
  <2> HIDE DEF decoys, own
  <2>3. /\ decoys \o own \in Seq(R) /\ Len(decoys \o own) = n + 1
        /\ \A i \in 1..(n + 1) : (decoys \o own)[i] = IF i <= n THEN decoys[i] ELSE own[i - n]
    <3>1. /\ decoys \o own \in Seq(R) /\ Len(decoys \o own) = Len(decoys) + Len(own)
          /\ \A i \in 1..(Len(decoys) + Len(own)) :
               (decoys \o own)[i] = IF i <= Len(decoys) THEN decoys[i] ELSE own[i - Len(decoys)]
      BY <1>4, <2>2, ConcatProperties
    <3> QED
      BY <1>4, <2>2, <3>1
  <2>4. (decoys \o own)[n + 1] = DisclosureJob(p, l)
    <3>1. n + 1 \in 1..(n + 1) /\ ~ (n + 1 <= n) /\ (n + 1) - n = 1
      BY <1>1
    <3> QED
      BY <2>2, <2>3, <3>1
  <2>5. \A i \in 1..n : (decoys \o own)[i] = DecoyJob(l)
    BY <1>1, <1>4, <2>3
  <2>6. JobCount(p, l) = n + 1
    BY <1>5 DEF JobCount, n
  <2> QED
    <3>1. JobCount(p, l) \in Nat /\ n <= JobCount(p, l)
      BY <1>1, <2>6
    <3> QED
      BY <1>1, <1>3, <1>5, <2>3, <2>4, <2>5, <2>6, <3>1 DEF n, R
<1>6. CASE ~ p.sd[l]
  <2>1. own = <<>>
    BY <1>6
  <2> HIDE DEF decoys, own
  <2>2. decoys \o own = decoys
    BY <1>4, <2>1, ConcatEmptySeq
  <2>3. JobCount(p, l) = n
    BY <1>1, <1>6 DEF JobCount, n
  <2> QED
    BY <1>1, <1>3, <1>4, <1>6, <2>2, <2>3 DEF n, R
<1> QED
  BY <1>5, <1>6

Parts(p) == [a \in 1..Len(p.kind) |-> JobsAt(p, PostOrder[p][a])]

LEMMA RegistryJoins ==
  ASSUME NEW p \in Plans
  PROVE  /\ Len(p.kind) \in Nat
         /\ Parts(p) \in Seq(Seq(JobRecords(p))) /\ Len(Parts(p)) = Len(p.kind)
         /\ \A a \in 1..Len(p.kind) : Parts(p)[a] = JobsAt(p, PostOrder[p][a])
         /\ Registry[p] = Joined(Parts(p))
<1> DEFINE n == Len(p.kind)
           S == Seq(JobRecords(p))
<1>1. n \in Nat
  BY PlanMeans
<1>2. ASSUME NEW a \in 1..n PROVE JobsAt(p, PostOrder[p][a]) \in S
  BY Turns, JobsAtLocation
<1>3. Parts(p) = [a \in 1..n |-> JobsAt(p, PostOrder[p][a])]
  BY DEF Parts
<1>4. Registry[p] = Joined(Parts(p))
  BY DEF Registry, Parts
<1> HIDE DEF n, S
<1>5. /\ Parts(p) \in Seq(S) /\ Len(Parts(p)) = n
      /\ \A a \in 1..n : Parts(p)[a] = JobsAt(p, PostOrder[p][a])
  BY <1>1, <1>2, <1>3
<1> QED
  BY <1>1, <1>4, <1>5 DEF n, S

(* The jobs planned before the turn of a location.                         *)
LEMMA RegistryAt ==
  ASSUME NEW p \in Plans, NEW l \in Locations(p)
  PROVE  /\ Turn(p, l) \in 1..Len(Parts(p)) /\ Parts(p)[Turn(p, l)] = JobsAt(p, l)
         /\ JobsBefore(p, l) = Len(Joined(Parts(p))[Turn(p, l) - 1])
         /\ JobsBefore(p, l) \in Nat
         /\ Len(Registry[p][Turn(p, l)]) = JobsBefore(p, l) + JobCount(p, l)
<1> DEFINE a == Turn(p, l)
<1>1. a \in 1..Len(p.kind) /\ PostOrder[p][a] = l
  BY Turns
<1> HIDE DEF a
<1>2. /\ Parts(p) \in Seq(Seq(JobRecords(p))) /\ a \in 1..Len(Parts(p))
      /\ Parts(p)[a] = JobsAt(p, l) /\ Registry[p] = Joined(Parts(p))
  BY <1>1, RegistryJoins
<1>3. /\ Len(Joined(Parts(p))[a - 1]) \in Nat
      /\ Len(Joined(Parts(p))[a]) = Len(Joined(Parts(p))[a - 1]) + Len(Parts(p)[a])
  BY <1>2, JoinedStep DEF Continues
<1>4. JobsBefore(p, l) = Len(Joined(Parts(p))[a - 1])
  BY <1>2 DEF JobsBefore, a
<1>5. Len(JobsAt(p, l)) = JobCount(p, l)
  BY JobsAtLocation
<1>6. Len(Registry[p][a]) = JobsBefore(p, l) + JobCount(p, l)
  BY <1>2, <1>3, <1>4, <1>5
<1> QED
  BY <1>2, <1>3, <1>4, <1>6 DEF a

LEMMA JobsAre ==
  ASSUME NEW p \in Plans
  PROVE  /\ Jobs[p] = Joined(Parts(p))[Len(Parts(p))]
         /\ Jobs[p] \in Seq(JobRecords(p)) /\ Len(Jobs[p]) \in Nat
         /\ DOMAIN Jobs[p] = 1..Len(Jobs[p])
<1>1. /\ Len(p.kind) \in Nat /\ Parts(p) \in Seq(Seq(JobRecords(p)))
      /\ Len(Parts(p)) = Len(p.kind) /\ Registry[p] = Joined(Parts(p))
  BY RegistryJoins
<1>2. Jobs[p] = Joined(Parts(p))[Len(Parts(p))]
  BY <1>1 DEF Jobs
<1>3. Len(Parts(p)) \in 0..Len(Parts(p))
  BY <1>1
<1>4. Jobs[p] \in Seq(JobRecords(p))
  BY <1>1, <1>2, <1>3, JoinedParts
<1> QED
  BY <1>2, <1>4, LenProperties

LEMMA IdsAre ==
  ASSUME NEW p \in Plans, NEW l \in Locations(p)
  PROVE  /\ DecoyIds[p][l] = [i \in 1..p.decoys[l] |-> JobsBefore(p, l) + i]
         /\ DisclosureId[p][l] = JobsBefore(p, l) + (p.decoys[l] + 1)
<1>1. DisclosureId[p][l] = JobsBefore(p, l) + p.decoys[l] + 1
  BY DEF DisclosureId
<1>2. JobsBefore(p, l) \in Nat /\ p.decoys[l] \in Nat
  BY RegistryAt, PlanMeans
<1>3. DisclosureId[p][l] = JobsBefore(p, l) + (p.decoys[l] + 1)
  BY <1>1, <1>2
<1>4. DecoyIds[p][l] = [i \in 1..p.decoys[l] |-> JobsBefore(p, l) + i]
  BY DEF DecoyIds
<1> QED
  BY <1>3, <1>4

(* The identities in the tree of the plan are those of its jobs.           *)
LEMMA JobsPlanned ==
  ASSUME NEW p \in Plans, NEW l \in Locations(p)
  PROVE  /\ \A i \in 1..p.decoys[l] : /\ JobsBefore(p, l) + i \in DOMAIN Jobs[p]
                                      /\ Jobs[p][JobsBefore(p, l) + i] = DecoyJob(l)
         /\ p.sd[l] => /\ DisclosureId[p][l] \in DOMAIN Jobs[p]
                       /\ Jobs[p][DisclosureId[p][l]] = DisclosureJob(p, l)
<1> DEFINE a == Turn(p, l)
           J == Joined(Parts(p))
           part == Parts(p)[a]
<1>1. /\ a \in 1..Len(Parts(p)) /\ part = JobsAt(p, l) /\ JobsBefore(p, l) = Len(J[a - 1])
      /\ JobsBefore(p, l) \in Nat
  BY RegistryAt
<1>2. Parts(p) \in Seq(Seq(JobRecords(p)))
  BY RegistryJoins
<1>3. Jobs[p] = J[Len(Parts(p))] /\ DOMAIN Jobs[p] = 1..Len(Jobs[p])
  BY JobsAre
<1>4. ASSUME NEW j \in 1..Len(part)
      PROVE  JobsBefore(p, l) + j \in DOMAIN Jobs[p] /\ Jobs[p][JobsBefore(p, l) + j] = part[j]
  <2> HIDE DEF a
  <2> QED
    BY <1>1, <1>2, <1>3, <1>4, JoinedAt
<1> HIDE DEF a, J, part
<1>5. /\ p.decoys[l] \in Nat /\ JobCount(p, l) \in Nat /\ p.decoys[l] <= JobCount(p, l)
      /\ Len(part) = JobCount(p, l)
      /\ \A i \in 1..p.decoys[l] : part[i] = DecoyJob(l)
      /\ p.sd[l] => /\ JobCount(p, l) = p.decoys[l] + 1
                    /\ part[p.decoys[l] + 1] = DisclosureJob(p, l)
  BY <1>1, JobsAtLocation
<1>6. ASSUME NEW j \in 1..p.decoys[l]
      PROVE  /\ JobsBefore(p, l) + j \in DOMAIN Jobs[p]
             /\ Jobs[p][JobsBefore(p, l) + j] = DecoyJob(l)
  <2>1. j \in 1..Len(part)
    BY <1>5
  <2> QED
    BY <1>4, <1>5, <2>1
<1>7. ASSUME p.sd[l]
      PROVE  /\ DisclosureId[p][l] \in DOMAIN Jobs[p]
             /\ Jobs[p][DisclosureId[p][l]] = DisclosureJob(p, l)
  <2>1. p.decoys[l] + 1 \in 1..Len(part)
    BY <1>5, <1>7
  <2>2. DisclosureId[p][l] = JobsBefore(p, l) + (p.decoys[l] + 1)
    BY IdsAre
  <2>3. Jobs[p][JobsBefore(p, l) + (p.decoys[l] + 1)] = part[p.decoys[l] + 1]
        /\ JobsBefore(p, l) + (p.decoys[l] + 1) \in DOMAIN Jobs[p]
    BY <1>4, <2>1
  <2> QED
    BY <1>5, <1>7, <2>2, <2>3
<1> QED
  BY <1>6, <1>7

(* And there is no other job.                                              *)
LEMMA JobsFrom ==
  ASSUME NEW p \in Plans, NEW id \in DOMAIN Jobs[p]
  PROVE  \E l \in Locations(p) :
           \/ \E i \in 1..p.decoys[l] : id = JobsBefore(p, l) + i
           \/ p.sd[l] /\ id = DisclosureId[p][l]
<1>1. PICK a \in 1..Len(Parts(p)) :
        \E j \in 1..Len(Parts(p)[a]) : id = Len(Joined(Parts(p))[a - 1]) + j
  <2>1. Parts(p) \in Seq(Seq(JobRecords(p)))
    BY RegistryJoins
  <2>2. id \in 1..Len(Joined(Parts(p))[Len(Parts(p))])
    BY JobsAre
  <2> QED
    BY <2>1, <2>2, JoinedFrom
<1>0. PICK j \in 1..Len(Parts(p)[a]) : id = Len(Joined(Parts(p))[a - 1]) + j
  BY <1>1
<1> DEFINE l == PostOrder[p][a]
<1>2. l \in Locations(p) /\ Turn(p, l) = a
  BY Turns, RegistryJoins
<1> HIDE DEF l
<1>3. /\ Parts(p)[a] = JobsAt(p, l) /\ JobsBefore(p, l) = Len(Joined(Parts(p))[a - 1])
      /\ JobsBefore(p, l) \in Nat
  BY <1>2, RegistryAt
<1>4. /\ p.decoys[l] \in Nat /\ JobCount(p, l) \in Nat
      /\ Len(Parts(p)[a]) = JobCount(p, l)
      /\ p.sd[l] => JobCount(p, l) = p.decoys[l] + 1
      /\ ~ p.sd[l] => JobCount(p, l) = p.decoys[l]
  BY <1>2, <1>3, JobsAtLocation
<1>5. id = JobsBefore(p, l) + j /\ j \in 1..JobCount(p, l)
  BY <1>0, <1>3, <1>4
<1>6. CASE j \in 1..p.decoys[l]
  BY <1>2, <1>5, <1>6
<1>7. CASE p.sd[l] /\ j = p.decoys[l] + 1
  <2>1. id = DisclosureId[p][l]
    BY <1>2, <1>5, <1>7, IdsAre
  <2> QED
    BY <1>2, <1>7, <2>1
<1>8. j \in 1..p.decoys[l] \/ (p.sd[l] /\ j = p.decoys[l] + 1)
  BY <1>4, <1>5
<1> QED
  BY <1>6, <1>7, <1>8

(* Jobs are planned turn by turn.                                          *)
LEMMA JobsFollow ==
  ASSUME NEW p \in Plans, NEW l \in Locations(p)
  PROVE  /\ Turn(p, l) = 1 => JobsBefore(p, l) = 0
         /\ Turn(p, l) = Len(p.kind) => Len(Jobs[p]) = JobsBefore(p, l) + JobCount(p, l)
         /\ \A m \in Locations(p) :
              /\ Turn(p, m) = Turn(p, l) + 1 => JobsBefore(p, m) = JobsBefore(p, l) + JobCount(p, l)
              /\ Turn(p, l) < Turn(p, m) => JobsBefore(p, l) + JobCount(p, l) <= JobsBefore(p, m)
<1> DEFINE J == Joined(Parts(p))
           n == Len(Parts(p))
<1>1. /\ n \in Nat /\ n = Len(p.kind) /\ Parts(p) \in Seq(Seq(JobRecords(p)))
      /\ Registry[p] = J /\ Jobs[p] = J[n]
  BY RegistryJoins, JobsAre
<1>2. ASSUME NEW k \in Locations(p)
      PROVE  /\ Turn(p, k) \in 1..n /\ JobsBefore(p, k) = Len(J[Turn(p, k) - 1])
             /\ JobsBefore(p, k) \in Nat
             /\ Len(J[Turn(p, k)]) = JobsBefore(p, k) + JobCount(p, k)
  BY <1>1, RegistryAt
<1>3. Len(J[0]) = 0
  <2>1. J[0] = <<>>
    BY <1>1, JoinedParts
  <2> HIDE DEF J
  <2> QED
    BY <2>1, EmptySeq
<1>4. ASSUME NEW c \in 0..n, NEW d \in c..n PROVE Len(J[c]) <= Len(J[d])
  BY <1>1, JoinedGrows
<1> HIDE DEF J, n
<1>5. Turn(p, l) = 1 => JobsBefore(p, l) = 0
  BY <1>2, <1>3
<1>6. Turn(p, l) = Len(p.kind) => Len(Jobs[p]) = JobsBefore(p, l) + JobCount(p, l)
  BY <1>1, <1>2
<1>7. ASSUME NEW m \in Locations(p), Turn(p, m) = Turn(p, l) + 1
      PROVE  JobsBefore(p, m) = JobsBefore(p, l) + JobCount(p, l)
  <2>1. Turn(p, m) - 1 = Turn(p, l)
    BY <1>1, <1>2, <1>7
  <2> QED
    BY <1>2, <2>1
<1>8. ASSUME NEW m \in Locations(p), Turn(p, l) < Turn(p, m)
      PROVE  JobsBefore(p, l) + JobCount(p, l) <= JobsBefore(p, m)
  <2>1. Turn(p, l) \in 0..n /\ Turn(p, m) - 1 \in Turn(p, l)..n
    BY <1>1, <1>2, <1>8
  <2> QED
    BY <1>2, <1>4, <2>1
<1> QED
  BY <1>5, <1>6, <1>7, <1>8

(* A job that is not a decoy is the disclosure of its location.            *)
LEMMA JobMeans ==
  ASSUME NEW p \in Plans, NEW id \in DOMAIN Jobs[p]
  PROVE  LET l == Jobs[p][id].location
         IN  /\ l \in Locations(p)
             /\ Jobs[p][id].kind # "decoy" =>
                  l # 1 /\ p.sd[l] /\ id = DisclosureId[p][l]
             /\ Jobs[p][id].kind = "decoy" =>
                  \E i \in 1..p.decoys[l] : id = JobsBefore(p, l) + i
<1>1. PICK l \in Locations(p) :
        \/ \E i \in 1..p.decoys[l] : id = JobsBefore(p, l) + i
        \/ p.sd[l] /\ id = DisclosureId[p][l]
  BY JobsFrom
<1>2. CASE \E i \in 1..p.decoys[l] : id = JobsBefore(p, l) + i
  <2>1. Jobs[p][id] = DecoyJob(l)
    BY <1>2, JobsPlanned
  <2>2. Jobs[p][id].location = l /\ Jobs[p][id].kind = "decoy"
    BY <2>1 DEF DecoyJob
  <2> QED
    BY <1>2, <2>2
<1>3. CASE p.sd[l] /\ id = DisclosureId[p][l]
  <2>1. Jobs[p][id] = DisclosureJob(p, l)
    BY <1>3, JobsPlanned
  <2>2. Jobs[p][id].location = l /\ Jobs[p][id].kind # "decoy"
    <3>1. DisclosureKind(p, l) # "decoy"
      BY DEF DisclosureKind
    <3> QED
      BY <2>1, <3>1 DEF DisclosureJob
  <2>3. l # 1
    BY <1>3, PlanMeans
  <2> QED
    BY <1>3, <2>2, <2>3
<1> QED
  BY <1>1, <1>2, <1>3

DisclosuresOf(p) == {id \in DOMAIN Jobs[p] : Jobs[p][id].kind # "decoy"}

LEMMA DisclosureJobIdsAre ==
  ASSUME NEW p \in Plans
  PROVE  /\ DisclosuresOf(p) \subseteq Nat /\ IsFiniteSet(DisclosuresOf(p))
         /\ DisclosureJobIds[p] = Ascending(DisclosuresOf(p))
<1>1. DOMAIN Jobs[p] = 1..Len(Jobs[p]) /\ Len(Jobs[p]) \in Nat
  BY JobsAre
<1>2. IsFiniteSet(DOMAIN Jobs[p]) /\ DOMAIN Jobs[p] \subseteq Nat
  BY <1>1, FS_Interval
<1>3. DisclosuresOf(p) \in SUBSET DOMAIN Jobs[p]
  BY DEF DisclosuresOf
<1>4. DisclosureJobIds[p] = Ascending(DisclosuresOf(p))
  BY DEF DisclosureJobIds, DisclosuresOf
<1> QED
  BY <1>2, <1>3, <1>4, FS_Subset

LEMMA Ordinals ==
  ASSUME NEW p \in Plans
  PROVE  /\ 0 \notin DOMAIN DisclosureJobIds[p]
         /\ \A id \in DOMAIN Jobs[p] :
              /\ Jobs[p][id].kind = "decoy" => Ordinal[p][id] = 0
              /\ Jobs[p][id].kind # "decoy" =>
                   /\ Ordinal[p][id] \in DOMAIN DisclosureJobIds[p]
                   /\ DisclosureJobIds[p][Ordinal[p][id]] = id
         /\ \A o \in DOMAIN DisclosureJobIds[p] :
              /\ DisclosureJobIds[p][o] \in DOMAIN Jobs[p]
              /\ Jobs[p][DisclosureJobIds[p][o]].kind # "decoy"
              /\ Ordinal[p][DisclosureJobIds[p][o]] = o
<1> DEFINE D == DisclosuresOf(p)
           n == Cardinality(D)
           s == Ascending(D)
<1>1. D \subseteq Nat /\ IsFiniteSet(D) /\ DisclosureJobIds[p] = s
  BY DisclosureJobIdsAre
<1>2. /\ n \in Nat /\ s \in Seq(D) /\ Len(s) = n
      /\ \A k \in 1..n : s[k] \in D /\ Cardinality(Below(D, s[k])) = k - 1
      /\ \A x \in D : Cardinality(Below(D, x)) + 1 \in 1..n /\ s[Cardinality(Below(D, x)) + 1] = x
  <2> HIDE DEF D
  <2> QED
    BY <1>1, AscendingMeans
<1>3. DOMAIN s = 1..n
  <2> HIDE DEF D, s, n
  <2> QED
    BY <1>2, LenProperties
<1>4. ASSUME NEW id \in D PROVE Ordinal[p][id] = Cardinality(Below(D, id)) + 1
  <2>1. id \in DOMAIN Jobs[p] /\ Jobs[p][id].kind # "decoy"
    BY DEF DisclosuresOf
  <2>2. Ordinal[p][id] = 1 + Cardinality({j \in 1..(id - 1) : Jobs[p][j].kind # "decoy"})
    BY <2>1 DEF Ordinal
  <2>3. {j \in 1..(id - 1) : Jobs[p][j].kind # "decoy"} = Below(D, id)
    <3>1. DOMAIN Jobs[p] = 1..Len(Jobs[p]) /\ Len(Jobs[p]) \in Nat
      BY JobsAre
    <3>2. \A j : j \in 1..(id - 1) <=> j \in DOMAIN Jobs[p] /\ j < id
      BY <2>1, <3>1
    <3> QED
      BY <3>2 DEF Below, DisclosuresOf
  <2>4. Cardinality(Below(D, id)) \in Nat
    <3>1. Below(D, id) \in SUBSET D
      BY DEF Below
    <3> QED
      BY <1>1, <3>1, FS_Subset, FS_CardinalityType
  <2> HIDE DEF D
  <2>5. Ordinal[p][id] = 1 + Cardinality(Below(D, id))
    BY <2>2, <2>3
  <2> QED
    BY <2>4, <2>5
<1>5. ASSUME NEW id \in DOMAIN Jobs[p], Jobs[p][id].kind = "decoy" PROVE Ordinal[p][id] = 0
  BY <1>5 DEF Ordinal
<1>6. \A id \in DOMAIN Jobs[p] : Jobs[p][id].kind # "decoy" <=> id \in D
  BY DEF DisclosuresOf
<1>7. D \subseteq DOMAIN Jobs[p]
  BY DEF DisclosuresOf
<1> HIDE DEF D, n, s
<1>8. ASSUME NEW id \in DOMAIN Jobs[p], Jobs[p][id].kind # "decoy"
      PROVE  Ordinal[p][id] \in DOMAIN s /\ s[Ordinal[p][id]] = id
  BY <1>2, <1>3, <1>4, <1>6, <1>8
<1>9. ASSUME NEW o \in DOMAIN s
      PROVE  s[o] \in DOMAIN Jobs[p] /\ Jobs[p][s[o]].kind # "decoy" /\ Ordinal[p][s[o]] = o
  <2>1. o \in 1..n
    BY <1>3
  <2>2. s[o] \in D /\ Cardinality(Below(D, s[o])) = o - 1
    BY <1>2, <2>1
  <2>3. Ordinal[p][s[o]] = (o - 1) + 1
    BY <1>4, <2>2
  <2>4. (o - 1) + 1 = o
    BY <2>1
  <2> QED
    BY <1>6, <1>7, <2>2, <2>3, <2>4
<1>10. 0 \notin DOMAIN s
  BY <1>2, <1>3
<1> QED
  BY <1>1, <1>5, <1>8, <1>9, <1>10

(* So what the planner lays out passes the validation.                     *)
LEMMA PlansAreValid == \A p \in Plans : RegistryValid(p)
BY Ordinals DEF RegistryValid

(* The disclosures of a plan are known by their ordinals.                  *)
LEMMA DisclosureUnder ==
  ASSUME NEW p \in Plans, NEW o \in DOMAIN DisclosureJobIds[p]
  PROVE  LET id == DisclosureJobIds[p][o]
             l  == Jobs[p][id].location
         IN  /\ id \in DOMAIN Jobs[p] /\ Jobs[p][id].kind # "decoy" /\ Ordinal[p][id] = o
             /\ l \in Locations(p) /\ l # 1 /\ p.sd[l] /\ id = DisclosureId[p][l]
<1> DEFINE id == DisclosureJobIds[p][o]
           l  == Jobs[p][id].location
<1>1. id \in DOMAIN Jobs[p] /\ Jobs[p][id].kind # "decoy" /\ Ordinal[p][id] = o
  BY Ordinals
<1> HIDE DEF id
<1>2. l \in Locations(p) /\ l # 1 /\ p.sd[l] /\ id = DisclosureId[p][l]
  BY <1>1, JobMeans
<1> QED
  BY <1>1, <1>2, Zenon DEF id

-----------------------------------------------------------------------------
(* The state of a walk is a function of the plan p, the turn a it is at    *)
(* and what it is doing there, c.                                          *)

LeftBehind(p, a) == {l \in Locations(p) : Turn(p, l) < a}

(* The containers whose batch has been restored.                           *)
Complete(p, a, c) ==
  {l \in Locations(p) :
     /\ p.kind[l] # "scalar"
     /\ Turn(p, l) < a \/ (Turn(p, l) = a /\ c = "leave")}

(* The decoys of the location have joined its batch.                       *)
Batching == {"select", "spawn", "join", "restore"}

TakenBy(p, a, c) ==
  1..(JobsBefore(p, PostOrder[p][a])
       + (IF c \in {"begin", "gather"} THEN 0 ELSE p.decoys[PostOrder[p][a]]))

DisclosureIds(p, M) == {DisclosureId[p][m] : m \in M}

(* The jobs gathered for the container l.                                  *)
Gathered(p, a, c, l) ==
  IF l \in Complete(p, a, c) THEN <<>>
  ELSE IF Turn(p, l) = a /\ c \in Batching THEN Digests(p, l)
  ELSE Ascending(DisclosureIds(p, Disclosed(p, l) \cap LeftBehind(p, a)))

Entry(p, id) ==
  [job |-> id, ordinal |-> Ordinal[p][id],
   value |-> IF Jobs[p][id].kind = "decoy" THEN <<>> ELSE Assembled(p, Jobs[p][id].location)]

Entries(p, ids) == [i \in 1..Len(ids) |-> Entry(p, ids[i])]

RecordedUnder(p, a, c, o) ==
  LET id == DisclosureJobIds[p][o]
      l  == Jobs[p][id].location
  IN  IF Parent[p][l] \in Complete(p, a, c)
      THEN {[job |-> id, value |-> Assembled(p, l)]} ELSE {}

WalkOf(p, a, c, tk, rd, bt, ds, oc) ==
  /\ a \in 1..Len(p.kind)
  /\ c \in Batching => p.kind[PostOrder[p][a]] # "scalar"
  /\ tk = TakenBy(p, a, c)
  /\ rd = [l \in Locations(p) |-> Entries(p, Gathered(p, a, c, l))]
  /\ bt = [l \in Complete(p, a, c) |-> Digests(p, l)]
  /\ ds = [o \in DOMAIN DisclosureJobIds[p] |-> RecordedUnder(p, a, c, o)]
  /\ oc = IF c = "restore" THEN rd[PostOrder[p][a]] ELSE <<>>

(* What is disclosed inside a container is left before it.                 *)
LEMMA DisclosedMeans ==
  ASSUME NEW p \in Plans, NEW l \in Locations(p), NEW m \in Disclosed(p, l)
  PROVE  /\ m \in Locations(p) /\ m # 1 /\ p.sd[m] /\ Parent[p][m] = l
         /\ Turn(p, m) < Turn(p, l) /\ p.kind[l] # "scalar"
         /\ DisclosureId[p][m] \in DOMAIN Jobs[p]
         /\ Jobs[p][DisclosureId[p][m]] = DisclosureJob(p, m)
BY Parents, JobsPlanned DEF Disclosed

LEMMA IdsOfDisclosed ==
  ASSUME NEW p \in Plans, NEW l \in Locations(p), NEW M, M \subseteq Disclosed(p, l)
  PROVE  /\ DisclosureIds(p, M) \subseteq DOMAIN Jobs[p]
         /\ DisclosureIds(p, M) \subseteq Nat /\ IsFiniteSet(DisclosureIds(p, M))
<1>1. DisclosureIds(p, M) \in SUBSET DOMAIN Jobs[p]
  BY DisclosedMeans DEF DisclosureIds
<1>2. IsFiniteSet(DOMAIN Jobs[p]) /\ DOMAIN Jobs[p] \subseteq Nat
  <2>1. DOMAIN Jobs[p] = 1..Len(Jobs[p]) /\ Len(Jobs[p]) \in Nat
    BY JobsAre
  <2> QED
    BY <2>1, FS_Interval
<1> QED
  BY <1>1, <1>2, FS_Subset

LEMMA AscendingIds ==
  ASSUME NEW p \in Plans, NEW l \in Locations(p), NEW M, M \subseteq Disclosed(p, l)
  PROVE  LET s == Ascending(DisclosureIds(p, M))
         IN  /\ s \in Seq(DOMAIN Jobs[p]) /\ Len(s) \in Nat
             /\ \A i \in 1..Len(s) : \E m \in M : s[i] = DisclosureId[p][m]
             /\ \A m \in M : \E i \in 1..Len(s) : s[i] = DisclosureId[p][m]
<1> DEFINE S == DisclosureIds(p, M)
           s == Ascending(S)
           D == DOMAIN Jobs[p]
<1>1. S \subseteq D /\ S \subseteq Nat /\ IsFiniteSet(S)
  BY IdsOfDisclosed
<1>2. \A x : x \in S <=> \E m \in M : x = DisclosureId[p][m]
  BY DEF DisclosureIds
<1> HIDE DEF S, D
<1>3. /\ Cardinality(S) \in Nat /\ s \in Seq(S) /\ Len(s) = Cardinality(S)
      /\ \A k \in 1..Cardinality(S) : s[k] \in S
      /\ \A x \in S : Cardinality(Below(S, x)) + 1 \in 1..Cardinality(S)
                      /\ s[Cardinality(Below(S, x)) + 1] = x
  BY <1>1, AscendingMeans
<1> HIDE DEF s
<1>4. s \in Seq(D)
  BY <1>1, <1>3, SeqMonotonic
<1>5. \A i \in 1..Len(s) : s[i] \in S
  BY <1>3
<1>6. \A x \in S : \E i \in 1..Len(s) : s[i] = x
  BY <1>3
<1> QED
  BY <1>2, <1>3, <1>4, <1>5, <1>6 DEF s, S, D

LEMMA DigestsMeans ==
  ASSUME NEW p \in Plans, NEW l \in Locations(p)
  PROVE  /\ Digests(p, l) \in Seq(DOMAIN Jobs[p]) /\ Len(Digests(p, l)) \in Nat
         /\ DecoyIds[p][l] \in Seq(DOMAIN Jobs[p]) /\ Len(DecoyIds[p][l]) = p.decoys[l]
         /\ \A i \in 1..p.decoys[l] : DecoyIds[p][l][i] = JobsBefore(p, l) + i
         /\ \A i \in 1..Len(Digests(p, l)) :
              \/ \E m \in Disclosed(p, l) : Digests(p, l)[i] = DisclosureId[p][m]
              \/ \E j \in 1..p.decoys[l] : Digests(p, l)[i] = JobsBefore(p, l) + j
         /\ \A m \in Disclosed(p, l) :
              \E i \in 1..Len(Digests(p, l)) : Digests(p, l)[i] = DisclosureId[p][m]
<1> DEFINE D == DOMAIN Jobs[p]
           n == p.decoys[l]
           s == Ascending(DisclosureIds(p, Disclosed(p, l)))
           t == DecoyIds[p][l]
           d == Digests(p, l)
<1>1. n \in Nat /\ t = [i \in 1..n |-> JobsBefore(p, l) + i]
      /\ \A i \in 1..n : JobsBefore(p, l) + i \in D
  <2>1. n \in Nat
    BY PlanMeans
  <2>2. t = [i \in 1..n |-> JobsBefore(p, l) + i]
    BY IdsAre
  <2>3. \A i \in 1..n : JobsBefore(p, l) + i \in D
    BY JobsPlanned
  <2> QED
    BY <2>1, <2>2, <2>3
<1>2. d = s \o t
  BY DEF Digests, DisclosureIds
<1>3. /\ s \in Seq(D) /\ Len(s) \in Nat
      /\ \A i \in 1..Len(s) : \E m \in Disclosed(p, l) : s[i] = DisclosureId[p][m]
      /\ \A m \in Disclosed(p, l) : \E i \in 1..Len(s) : s[i] = DisclosureId[p][m]
  <2>1. Disclosed(p, l) \subseteq Disclosed(p, l)
    OBVIOUS
  <2> QED
    BY <2>1, AscendingIds
<1> HIDE DEF D, n, s, t, d
<1>4. t \in Seq(D) /\ Len(t) = n /\ \A i \in 1..n : t[i] = JobsBefore(p, l) + i
  BY <1>1
<1>5. /\ d \in Seq(D) /\ Len(d) = Len(s) + Len(t)
      /\ \A i \in 1..(Len(s) + Len(t)) : d[i] = IF i <= Len(s) THEN s[i] ELSE t[i - Len(s)]
  <2>1. s \in Seq(D) /\ t \in Seq(D) /\ d = s \o t
    BY <1>2, <1>3, <1>4, Zenon
  <2> QED
    BY <2>1, ConcatProperties, Zenon
<1>6. Len(d) = Len(s) + n /\ Len(d) \in Nat
  BY <1>1, <1>3, <1>4, <1>5
<1>7. ASSUME NEW i \in 1..Len(d)
      PROVE  \/ \E m \in Disclosed(p, l) : d[i] = DisclosureId[p][m]
             \/ \E j \in 1..n : d[i] = JobsBefore(p, l) + j
  <2>1. CASE i <= Len(s)
    <3>1. i \in 1..Len(s) /\ d[i] = s[i]
      BY <1>3, <1>5, <1>6, <2>1
    <3> QED
      BY <1>3, <3>1
  <2>2. CASE ~ (i <= Len(s))
    <3>1. i - Len(s) \in 1..n /\ d[i] = t[i - Len(s)]
      BY <1>1, <1>3, <1>4, <1>5, <1>6, <2>2
    <3> QED
      BY <1>4, <3>1
  <2> QED
    BY <2>1, <2>2
<1>8. ASSUME NEW m \in Disclosed(p, l) PROVE \E i \in 1..Len(d) : d[i] = DisclosureId[p][m]
  <2>1. PICK i \in 1..Len(s) : s[i] = DisclosureId[p][m]
    BY <1>3
  <2>2. i \in 1..Len(d) /\ d[i] = s[i]
    BY <1>1, <1>3, <1>4, <1>5, <1>6
  <2> QED
    BY <2>1, <2>2
<1> QED
  BY <1>4, <1>5, <1>6, <1>7, <1>8 DEF D, n, t, d

(* Where a walk is.                                                        *)
LEMMA AtTurn ==
  ASSUME NEW p \in Plans, NEW a \in 1..Len(p.kind)
  PROVE  /\ PostOrder[p][a] \in Locations(p) /\ Turn(p, PostOrder[p][a]) = a
         /\ \A l \in Locations(p) : Turn(p, l) \in Nat /\ (Turn(p, l) = a <=> l = PostOrder[p][a])
         /\ a \in Nat
<1>1. PostOrder[p][a] \in Locations(p) /\ Turn(p, PostOrder[p][a]) = a
  BY Turns
<1>2. \A l \in Locations(p) : Turn(p, l) \in Nat
  BY PlanMeans, Turns
<1> QED
  BY <1>1, <1>2, SameTurn

(* The next turn leaves one more location behind.                          *)
LEMMA LeavesOne ==
  ASSUME NEW p \in Plans, NEW a \in 1..Len(p.kind)
  PROVE  /\ LeftBehind(p, a + 1) = LeftBehind(p, a) \cup {PostOrder[p][a]}
         /\ \A c : c # "leave" => Complete(p, a + 1, c) = Complete(p, a, "leave")
BY AtTurn DEF LeftBehind, Complete

LEMMA CompleteAt ==
  ASSUME NEW p \in Plans, NEW a \in 1..Len(p.kind), NEW c, c # "leave"
  PROVE  LET h == PostOrder[p][a]
         IN  /\ h \notin Complete(p, a, c)
             /\ p.kind[h] # "scalar" => Complete(p, a, "leave") = Complete(p, a, c) \cup {h}
             /\ p.kind[h] = "scalar" => Complete(p, a, "leave") = Complete(p, a, c)
<1> DEFINE h == PostOrder[p][a]
<1>1. /\ h \in Locations(p) /\ a \in Nat
      /\ \A l \in Locations(p) : Turn(p, l) \in Nat /\ (Turn(p, l) = a <=> l = h)
  BY AtTurn
<1> HIDE DEF h
<1>2. \A l : l \in Complete(p, a, c) <=>
               l \in Locations(p) /\ p.kind[l] # "scalar" /\ Turn(p, l) < a
  BY DEF Complete
<1>3. \A l : l \in Complete(p, a, "leave") <=>
               l \in Locations(p) /\ p.kind[l] # "scalar" /\ (Turn(p, l) < a \/ Turn(p, l) = a)
  BY DEF Complete
<1>4. h \notin Complete(p, a, c)
  BY <1>1, <1>2
<1>5. ASSUME p.kind[h] # "scalar" PROVE Complete(p, a, "leave") = Complete(p, a, c) \cup {h}
  BY <1>1, <1>2, <1>3, <1>5
<1>6. ASSUME p.kind[h] = "scalar" PROVE Complete(p, a, "leave") = Complete(p, a, c)
  BY <1>1, <1>2, <1>3, <1>6
<1> QED
  BY <1>4, <1>5, <1>6 DEF h

LEMMA CompleteSame ==
  ASSUME NEW p, NEW a, NEW c, NEW d, c # "leave", d # "leave"
  PROVE  Complete(p, a, c) = Complete(p, a, d)
BY DEF Complete

LEMMA NothingGathered == Ascending({}) = <<>> /\ \A p : Entries(p, <<>>) = <<>>
<1>1. IsFiniteSet({}) /\ Cardinality({}) = 0
  BY FS_EmptySet
<1>2. Ascending({}) \in Seq({}) /\ Len(Ascending({})) = 0
  BY <1>1, AscendingMeans
<1>3. Ascending({}) = <<>>
  <2> DEFINE s == Ascending({})
  <2> HIDE DEF s
  <2>1. s \in Seq({}) /\ Len(s) = 0
    BY <1>2 DEF s
  <2>2. s = <<>>
    BY <2>1
  <2> QED
    BY <2>2 DEF s
<1>4. \A p : Entries(p, <<>>) = <<>>
  BY DEF Entries
<1> QED
  BY <1>3, <1>4

(* What is gathered when the decoys have joined: the digests of the        *)
(* container, in order.                                                    *)
LEMMA DecoysJoin ==
  ASSUME NEW p \in Plans, NEW a \in 1..Len(p.kind), NEW c \in Batching,
         p.kind[PostOrder[p][a]] # "scalar"
  PROVE  LET h == PostOrder[p][a]
         IN  /\ Gathered(p, a, c, h) = Digests(p, h)
             /\ Digests(p, h) = Gathered(p, a, "gather", h) \o DecoyIds[p][h]
             /\ Gathered(p, a, "gather", h) \in Seq(DOMAIN Jobs[p])
             /\ \A l \in Locations(p) :
                  l # h => Gathered(p, a, c, l) = Gathered(p, a, "gather", l)
<1> DEFINE h == PostOrder[p][a]
<1>1. /\ h \in Locations(p) /\ Turn(p, h) = a /\ a \in Nat
      /\ \A l \in Locations(p) : Turn(p, l) = a <=> l = h
  BY AtTurn
<1>2. c # "leave" /\ "gather" \notin Batching
  BY DEF Batching
<1>3. h \notin Complete(p, a, c) /\ h \notin Complete(p, a, "gather")
  BY <1>2, CompleteAt
<1>4. Complete(p, a, c) = Complete(p, a, "gather")
  BY <1>2, CompleteSame
<1> HIDE DEF h
<1>5. Disclosed(p, h) \cap LeftBehind(p, a) = Disclosed(p, h)
  BY <1>1, DisclosedMeans DEF LeftBehind
<1>6. Gathered(p, a, "gather", h) = Ascending(DisclosureIds(p, Disclosed(p, h)))
  BY <1>2, <1>3, <1>5 DEF Gathered
<1>7. Gathered(p, a, c, h) = Digests(p, h)
  BY <1>1, <1>3 DEF Gathered
<1>8. Digests(p, h) = Ascending(DisclosureIds(p, Disclosed(p, h))) \o DecoyIds[p][h]
  BY DEF Digests, DisclosureIds
<1>9. Ascending(DisclosureIds(p, Disclosed(p, h))) \in Seq(DOMAIN Jobs[p])
  <2>1. Disclosed(p, h) \subseteq Disclosed(p, h)
    OBVIOUS
  <2> QED
    BY <1>1, <2>1, AscendingIds
<1>10. \A l \in Locations(p) : l # h => Gathered(p, a, c, l) = Gathered(p, a, "gather", l)
  BY <1>1, <1>4 DEF Gathered
<1> QED
  BY <1>6, <1>7, <1>8, <1>9, <1>10 DEF h

LEMMA GatheredSame ==
  ASSUME NEW p, NEW a, NEW l, NEW c, NEW d, Complete(p, a, c) = Complete(p, a, d),
         c \in Batching <=> d \in Batching
  PROVE  Gathered(p, a, c, l) = Gathered(p, a, d, l)
BY DEF Gathered

(* After the batch of a container nothing is left there.                   *)
LEMMA BatchDone ==
  ASSUME NEW p \in Plans, NEW a \in 1..Len(p.kind), p.kind[PostOrder[p][a]] # "scalar"
  PROVE  LET h == PostOrder[p][a]
         IN  /\ Gathered(p, a, "leave", h) = <<>>
             /\ \A l \in Locations(p) :
                  l # h => Gathered(p, a, "leave", l) = Gathered(p, a, "restore", l)
<1> DEFINE h == PostOrder[p][a]
<1>1. /\ h \in Locations(p) /\ Turn(p, h) = a
      /\ \A l \in Locations(p) : Turn(p, l) = a <=> l = h
  BY AtTurn
<1>2. Complete(p, a, "leave") = Complete(p, a, "restore") \cup {h}
  BY CompleteAt
<1> HIDE DEF h
<1>3. Gathered(p, a, "leave", h) = <<>>
  BY <1>2 DEF Gathered
<1>4. ASSUME NEW l \in Locations(p), l # h
      PROVE  Gathered(p, a, "leave", l) = Gathered(p, a, "restore", l)
  <2>1. l \in Complete(p, a, "leave") <=> l \in Complete(p, a, "restore")
    BY <1>2, <1>4
  <2>2. Turn(p, l) # a
    BY <1>1, <1>4
  <2> QED
    BY <2>1, <2>2 DEF Gathered
<1> QED
  BY <1>3, <1>4 DEF h

(* The disclosure of a location joins what is gathered in its parent, and  *)
(* comes last there.                                                       *)
LEMMA DisclosureJoins ==
  ASSUME NEW p \in Plans, NEW a \in 1..Len(p.kind), NEW l \in Locations(p)
  PROVE  LET h == PostOrder[p][a]
         IN  /\ h # 1 /\ p.sd[h] /\ l = Parent[p][h] =>
                  Gathered(p, a + 1, "gather", l)
                    = Append(Gathered(p, a, "leave", l), DisclosureId[p][h])
             /\ ~ (h # 1 /\ p.sd[h] /\ l = Parent[p][h]) =>
                  Gathered(p, a + 1, "gather", l) = Gathered(p, a, "leave", l)
<1> DEFINE h == PostOrder[p][a]
           old == Disclosed(p, l) \cap LeftBehind(p, a)
           new == Disclosed(p, l) \cap LeftBehind(p, a + 1)
<1>1. /\ h \in Locations(p) /\ Turn(p, h) = a /\ a \in Nat
      /\ \A k \in Locations(p) : Turn(p, k) \in Nat
  BY AtTurn
<1>2. LeftBehind(p, a + 1) = LeftBehind(p, a) \cup {h}
      /\ Complete(p, a + 1, "gather") = Complete(p, a, "leave")
  BY LeavesOne
<1> HIDE DEF h
<1>3. h \in Disclosed(p, l) <=> h # 1 /\ p.sd[h] /\ l = Parent[p][h]
  BY <1>1 DEF Disclosed
<1>4. CASE h \in Disclosed(p, l)
  <2>1. new = old \cup {h}
    BY <1>2, <1>4
  <2>2. Turn(p, h) < Turn(p, l) /\ DisclosureId[p][h] \in Nat
    BY <1>4, DisclosedMeans, JobsAre
  <2>3. l \notin Complete(p, a, "leave")
    BY <1>1, <2>2 DEF Complete
  <2>4. DisclosureIds(p, new) = DisclosureIds(p, old) \cup {DisclosureId[p][h]}
    BY <2>1 DEF DisclosureIds
  <2>5. ASSUME NEW y \in DisclosureIds(p, old) PROVE y < DisclosureId[p][h]
    <3>1. PICK m \in old : y = DisclosureId[p][m]
      BY DEF DisclosureIds
    <3>2. m \in Locations(p) /\ Turn(p, m) < Turn(p, h) /\ p.sd[m]
      BY <1>1, DisclosedMeans DEF LeftBehind
    <3>3. JobsBefore(p, m) + JobCount(p, m) <= JobsBefore(p, h)
      BY <1>1, <3>2, JobsFollow
    <3>4. /\ y = JobsBefore(p, m) + (p.decoys[m] + 1)
          /\ DisclosureId[p][h] = JobsBefore(p, h) + (p.decoys[h] + 1)
      BY <1>1, <3>1, <3>2, IdsAre
    <3>5. JobCount(p, m) = p.decoys[m] + 1
      BY <3>2, JobsAtLocation
    <3>6. /\ JobsBefore(p, m) \in Nat /\ JobsBefore(p, h) \in Nat
          /\ p.decoys[m] \in Nat /\ p.decoys[h] \in Nat
      BY <1>1, <3>2, RegistryAt, PlanMeans
    <3> DEFINE following == JobsBefore(p, m) + JobCount(p, m)
               before == JobsBefore(p, h)
               id == DisclosureId[p][h]
    <3>7. y = following /\ following <= before /\ before \in Nat /\ id = before + (p.decoys[h] + 1)
      BY <3>3, <3>4, <3>5, <3>6, Zenon
    <3>8. following \in Nat
      BY <3>5, <3>6
    <3> HIDE DEF following, before, id
    <3>9. y < id
      BY <3>6, <3>7, <3>8
    <3> QED
      BY <3>9 DEF id
  <2>6. DisclosureIds(p, old) \subseteq Nat /\ IsFiniteSet(DisclosureIds(p, old))
    BY IdsOfDisclosed
  <2>7. Ascending(DisclosureIds(p, new))
          = Append(Ascending(DisclosureIds(p, old)), DisclosureId[p][h])
    <3> HIDE DEF old, new
    <3> QED
      BY <2>2, <2>4, <2>5, <2>6, AscendingAppends
  <2>8. Gathered(p, a + 1, "gather", l) = Ascending(DisclosureIds(p, new))
    BY <1>2, <2>3 DEF Gathered, Batching
  <2>9. Gathered(p, a, "leave", l) = Ascending(DisclosureIds(p, old))
    BY <2>3 DEF Gathered, Batching
  <2> QED
    BY <1>3, <1>4, <2>7, <2>8, <2>9 DEF h
<1>5. CASE h \notin Disclosed(p, l)
  <2>1. new = old
    BY <1>2, <1>5
  <2>2. Gathered(p, a + 1, "gather", l) = Gathered(p, a, "leave", l)
    <3> HIDE DEF old, new
    <3>1. Gathered(p, a + 1, "gather", l) =
            IF l \in Complete(p, a, "leave") THEN <<>> ELSE Ascending(DisclosureIds(p, new))
      BY <1>2 DEF Gathered, Batching, new
    <3>2. Gathered(p, a, "leave", l) =
            IF l \in Complete(p, a, "leave") THEN <<>> ELSE Ascending(DisclosureIds(p, old))
      BY DEF Gathered, Batching, old
    <3> QED
      BY <2>1, <3>1, <3>2
  <2> QED
    BY <1>3, <1>5, <2>2 DEF h
<1> QED
  BY <1>4, <1>5

(* The containers seen in a value are complete when it is left.            *)
LEMMA ContainersComplete ==
  ASSUME NEW p \in Plans, NEW a \in 1..Len(p.kind)
  PROVE  Containers(p, PostOrder[p][a]) \subseteq Complete(p, a, "leave")
<1> DEFINE h == PostOrder[p][a]
<1>1. /\ h \in Locations(p) /\ Turn(p, h) = a /\ a \in Nat
      /\ \A l \in Locations(p) : Turn(p, l) \in Nat
  BY AtTurn
<1> HIDE DEF h
<1>2. ASSUME NEW m \in Containers(p, h) PROVE m \in Complete(p, a, "leave")
  <2>1. m \in h..p.last[h] /\ p.kind[m] # "scalar"
    BY DEF Containers
  <2>2. m \in Locations(p) /\ (m = h \/ Turn(p, m) < Turn(p, h))
    BY <1>1, <2>1, InsideIsLeftFirst
  <2> QED
    BY <1>1, <2>1, <2>2 DEF Complete
<1> QED
  BY <1>2 DEF h

-----------------------------------------------------------------------------
(* What each operation makes of a walk.                                    *)

LEMMA WalkStarts ==
  ASSUME NEW p \in Plans
  PROVE  WalkOf(p, 1, "begin", {}, [l \in Locations(p) |-> <<>>], <<>>,
                [o \in DOMAIN DisclosureJobIds[p] |-> {}], <<>>)
<1> DEFINE h == PostOrder[p][1]
<1>1. 1 \in 1..Len(p.kind) /\ Len(p.kind) \in Nat
  BY PlanMeans
<1>2. /\ h \in Locations(p) /\ Turn(p, h) = 1
      /\ \A l \in Locations(p) : Turn(p, l) \in 1..Len(p.kind)
  BY <1>1, AtTurn, Turns
<1> HIDE DEF h
<1>3. \A l \in Locations(p) : ~ (Turn(p, l) < 1)
  BY <1>1, <1>2
<1>4. Complete(p, 1, "begin") = {} /\ LeftBehind(p, 1) = {}
  BY <1>3 DEF Complete, LeftBehind
<1>5. TakenBy(p, 1, "begin") = {}
  <2>1. JobsBefore(p, h) = 0
    BY <1>2, JobsFollow
  <2> QED
    BY <2>1 DEF TakenBy, h
<1>6. ASSUME NEW l \in Locations(p) PROVE Entries(p, Gathered(p, 1, "begin", l)) = <<>>
  <2>1. Gathered(p, 1, "begin", l) = Ascending(DisclosureIds(p, Disclosed(p, l) \cap {}))
    BY <1>4 DEF Gathered, Batching
  <2>2. DisclosureIds(p, Disclosed(p, l) \cap {}) = {}
    BY DEF DisclosureIds
  <2> QED
    BY <2>1, <2>2, NothingGathered
<1>7. ASSUME NEW o \in DOMAIN DisclosureJobIds[p] PROVE RecordedUnder(p, 1, "begin", o) = {}
  BY <1>4 DEF RecordedUnder
<1>8. [l \in Complete(p, 1, "begin") |-> Digests(p, l)] = <<>>
  <2>1. [l \in {} |-> Digests(p, l)] = <<>>
    OBVIOUS
  <2> QED
    BY <1>4, <2>1
<1> QED
  BY <1>1, <1>5, <1>6, <1>7, <1>8 DEF WalkOf, Batching

(* Between the same two changes of the walk, nothing about it changes.     *)
LEMMA WalkMoves ==
  ASSUME NEW p \in Plans, NEW a, NEW tk, NEW rd, NEW bt, NEW ds, NEW oc, NEW c, NEW d,
         WalkOf(p, a, c, tk, rd, bt, ds, oc),
         \/ c = "begin" /\ d = "gather"
         \/ c = "select" /\ d = "spawn"
         \/ c = "spawn" /\ d = "join"
  PROVE  WalkOf(p, a, d, tk, rd, bt, ds, oc)
<1>1. c # "leave" /\ d # "leave" /\ (c \in Batching <=> d \in Batching)
      /\ c # "restore" /\ d # "restore"
      /\ (c \in {"begin", "gather"} <=> d \in {"begin", "gather"})
  BY DEF Batching
<1>2. Complete(p, a, c) = Complete(p, a, d)
  BY <1>1, CompleteSame
<1>3. \A l : Gathered(p, a, c, l) = Gathered(p, a, d, l)
  BY <1>1, <1>2, GatheredSame
<1>4. \A o : RecordedUnder(p, a, c, o) = RecordedUnder(p, a, d, o)
  BY <1>2 DEF RecordedUnder
<1>5. TakenBy(p, a, c) = TakenBy(p, a, d)
  BY <1>1 DEF TakenBy
<1> QED
  BY <1>1, <1>2, <1>3, <1>4, <1>5 DEF WalkOf

(* The executor returns the batch.                                         *)
LEMMA WalkCollects ==
  ASSUME NEW p \in Plans, NEW a, NEW tk, NEW rd, NEW bt, NEW ds, NEW oc, NEW c \in {"select", "join"},
         WalkOf(p, a, c, tk, rd, bt, ds, oc)
  PROVE  WalkOf(p, a, "restore", tk, rd, bt, ds, rd[PostOrder[p][a]])
<1>1. c # "leave" /\ c \in Batching /\ "restore" \in Batching /\ c \notin {"begin", "gather"}
  BY DEF Batching
<1>2. Complete(p, a, c) = Complete(p, a, "restore")
  BY <1>1, CompleteSame
<1>3. \A l : Gathered(p, a, c, l) = Gathered(p, a, "restore", l)
  BY <1>1, <1>2, GatheredSame
<1>4. \A o : RecordedUnder(p, a, c, o) = RecordedUnder(p, a, "restore", o)
  BY <1>2 DEF RecordedUnder
<1>5. TakenBy(p, a, c) = TakenBy(p, a, "restore")
  BY <1>1 DEF TakenBy
<1> QED
  BY <1>1, <1>2, <1>3, <1>4, <1>5 DEF WalkOf

(* A scalar is passed.                                                     *)
LEMMA WalkPasses ==
  ASSUME NEW p \in Plans, NEW a, NEW tk, NEW rd, NEW bt, NEW ds, NEW oc,
         WalkOf(p, a, "gather", tk, rd, bt, ds, oc), p.kind[PostOrder[p][a]] = "scalar"
  PROVE  WalkOf(p, a, "leave", tk, rd, bt, ds, oc)
<1>0. a \in 1..Len(p.kind)
  BY DEF WalkOf
<1>1. Complete(p, a, "leave") = Complete(p, a, "gather")
  BY <1>0, CompleteAt
<1>2. "leave" \notin Batching /\ "gather" \notin Batching
  BY DEF Batching
<1>3. \A l : Gathered(p, a, "gather", l) = Gathered(p, a, "leave", l)
  BY <1>1, <1>2, GatheredSame
<1>4. \A o : RecordedUnder(p, a, "gather", o) = RecordedUnder(p, a, "leave", o)
  BY <1>1 DEF RecordedUnder
<1>5. TakenBy(p, a, "gather") = TakenBy(p, a, "leave")
  <2>1. p.decoys[PostOrder[p][a]] = 0
    BY <1>0, AtTurn, PlanMeans
  <2> QED
    BY <2>1 DEF TakenBy
<1> QED
  BY <1>1, <1>2, <1>3, <1>4, <1>5 DEF WalkOf

DecoyEntries(p, l) ==
  [i \in DOMAIN DecoyIds[p][l] |-> [job |-> DecoyIds[p][l][i], ordinal |-> 0, value |-> <<>>]]

LEMMA EntriesOfDecoys ==
  ASSUME NEW p \in Plans, NEW l \in Locations(p), NEW s \in Seq(DOMAIN Jobs[p])
  PROVE  Entries(p, s \o DecoyIds[p][l]) = Entries(p, s) \o DecoyEntries(p, l)
<1> DEFINE t == DecoyIds[p][l]
           D == DOMAIN Jobs[p]
           E == {Entry(p, id) : id \in D}
           u == Entries(p, s)
           v == DecoyEntries(p, l)
<1>1. t \in Seq(D) /\ Len(t) = p.decoys[l] /\ \A i \in 1..p.decoys[l] : t[i] = JobsBefore(p, l) + i
  BY DigestsMeans
<1>2. DOMAIN t = 1..p.decoys[l] /\ p.decoys[l] \in Nat
  <2> HIDE DEF t, D
  <2> QED
    BY <1>1, LenProperties, PlanMeans
<1>3. ASSUME NEW i \in 1..p.decoys[l] PROVE v[i] = Entry(p, t[i])
  <2>1. t[i] \in DOMAIN Jobs[p] /\ Jobs[p][t[i]] = DecoyJob(l)
    BY <1>1, JobsPlanned
  <2>2. Jobs[p][t[i]].kind = "decoy"
    BY <2>1 DEF DecoyJob
  <2>3. Ordinal[p][t[i]] = 0
    BY <2>1, <2>2, Ordinals
  <2>4. v[i] = [job |-> t[i], ordinal |-> 0, value |-> <<>>]
    BY <1>2 DEF DecoyEntries
  <2> QED
    BY <2>2, <2>3, <2>4 DEF Entry
<1>4. \A id \in D : Entry(p, id) \in E
  OBVIOUS
<1>5. v = [i \in 1..p.decoys[l] |-> v[i]]
  BY <1>2 DEF DecoyEntries
<1>6. u = [i \in 1..Len(s) |-> Entry(p, s[i])]
  BY DEF Entries
<1>7. Entries(p, s \o t) = [i \in 1..Len(s \o t) |-> Entry(p, (s \o t)[i])]
  BY DEF Entries
<1>8. s \in Seq(D)
  OBVIOUS
<1> HIDE DEF t, D, E, u, v
<1>9. Len(s) \in Nat /\ (\A i \in 1..Len(s) : s[i] \in D) /\ (\A i \in 1..Len(t) : t[i] \in D)
  BY <1>1, <1>8, LenProperties, ElementOfSeq
<1>10. u \in Seq(E) /\ Len(u) = Len(s) /\ \A i \in 1..Len(s) : u[i] = Entry(p, s[i])
  BY <1>4, <1>6, <1>9
<1>11. v \in Seq(E) /\ Len(v) = Len(t) /\ \A i \in 1..Len(t) : v[i] = Entry(p, t[i])
  <2> DEFINE n == p.decoys[l]
  <2>1. \A i \in 1..n : v[i] = Entry(p, t[i]) /\ v[i] \in E
    BY <1>1, <1>3, <1>4, <1>9
  <2>2. n \in Nat /\ Len(t) = n /\ v = [i \in 1..n |-> v[i]]
    BY <1>1, <1>2, <1>5
  <2> HIDE DEF n
  <2>3. v \in Seq(E) /\ Len(v) = n
    BY <2>1, <2>2
  <2> QED
    BY <2>1, <2>2, <2>3
<1>12. /\ Len(s \o t) = Len(s) + Len(t) /\ Len(t) \in Nat
       /\ \A i \in 1..(Len(s) + Len(t)) :
            (s \o t)[i] = IF i <= Len(s) THEN s[i] ELSE t[i - Len(s)]
  BY <1>1, <1>8, ConcatProperties, LenProperties
<1>13. /\ u \o v \in Seq(E) /\ Len(u \o v) = Len(u) + Len(v)
       /\ \A i \in 1..(Len(u) + Len(v)) :
            (u \o v)[i] = IF i <= Len(u) THEN u[i] ELSE v[i - Len(u)]
  <2>1. u \in Seq(E) /\ v \in Seq(E)
    BY <1>10, <1>11
  <2> QED
    BY <2>1, ConcatProperties
<1>14. ASSUME NEW i \in 1..(Len(s) + Len(t)) PROVE (u \o v)[i] = Entry(p, (s \o t)[i])
  <2>1. CASE i <= Len(s)
    <3>1. i \in 1..Len(s)
      BY <1>9, <1>12, <2>1
    <3> QED
      BY <1>10, <1>11, <1>12, <1>13, <2>1, <3>1
  <2>2. CASE ~ (i <= Len(s))
    <3>1. i - Len(s) \in 1..Len(t)
      BY <1>9, <1>12, <2>2
    <3> QED
      BY <1>10, <1>11, <1>12, <1>13, <2>2, <3>1
  <2> QED
    BY <2>1, <2>2
<1>15. u \o v = [i \in 1..(Len(s) + Len(t)) |-> Entry(p, (s \o t)[i])]
  <2>1. DOMAIN (u \o v) = 1..(Len(s) + Len(t)) /\ u \o v = [i \in DOMAIN (u \o v) |-> (u \o v)[i]]
    <3>1. Len(u \o v) = Len(s) + Len(t)
      BY <1>10, <1>11, <1>13
    <3> QED
      BY <1>13, <3>1, LenProperties
  <2> QED
    BY <1>14, <2>1
<1> QED
  BY <1>7, <1>12, <1>15 DEF t, u, v

(* The decoys of a container join its batch.                               *)
LEMMA WalkGathers ==
  ASSUME NEW p \in Plans, NEW a, NEW tk, NEW rd, NEW bt, NEW ds, NEW oc,
         WalkOf(p, a, "gather", tk, rd, bt, ds, oc), p.kind[PostOrder[p][a]] # "scalar"
  PROVE  LET h   == PostOrder[p][a]
             tk2 == tk \cup ToSet(DecoyIds[p][h])
             rd2 == [rd EXCEPT ![h] = @ \o DecoyEntries(p, h)]
         IN  /\ WalkOf(p, a, "select", tk2, rd2, bt, ds, oc)
             /\ rd2[h] = <<>> => WalkOf(p, a, "restore", tk2, rd2, bt, ds, oc)
<1> DEFINE h == PostOrder[p][a]
           tk2 == tk \cup ToSet(DecoyIds[p][h])
           rd2 == [rd EXCEPT ![h] = @ \o DecoyEntries(p, h)]
<1>1. a \in 1..Len(p.kind) /\ oc = <<>> /\ tk = TakenBy(p, a, "gather")
      /\ rd = [l \in Locations(p) |-> Entries(p, Gathered(p, a, "gather", l))]
      /\ bt = [l \in Complete(p, a, "gather") |-> Digests(p, l)]
      /\ ds = [o \in DOMAIN DisclosureJobIds[p] |-> RecordedUnder(p, a, "gather", o)]
  BY DEF WalkOf
<1>2. h \in Locations(p)
  BY <1>1, AtTurn
<1>3. JobsBefore(p, h) \in Nat /\ p.decoys[h] \in Nat
  BY <1>2, RegistryAt, PlanMeans
<1>4. ToSet(DecoyIds[p][h]) = (JobsBefore(p, h) + 1)..(JobsBefore(p, h) + p.decoys[h])
  <2> DEFINE b == JobsBefore(p, h)
             n == p.decoys[h]
             s == DecoyIds[p][h]
  <2>1. s = [i \in 1..n |-> b + i]
    BY <1>2, IdsAre
  <2>2. b \in Nat /\ n \in Nat
    BY <1>3
  <2> HIDE DEF s, b, n
  <2>3. ToSet(s) = {b + i : i \in 1..n}
    BY <2>1 DEF ToSet
  <2>4. ASSUME NEW x \in (b + 1)..(b + n) PROVE x \in {b + i : i \in 1..n}
    <3>1. x - b \in 1..n /\ x = b + (x - b)
      BY <2>2
    <3> QED
      BY <3>1
  <2>5. {b + i : i \in 1..n} = (b + 1)..(b + n)
    BY <2>2, <2>4
  <2> QED
    BY <2>3, <2>5 DEF s, b, n
<1>5. tk2 = TakenBy(p, a, "select") /\ TakenBy(p, a, "select") = TakenBy(p, a, "restore")
  <2> DEFINE b == JobsBefore(p, h)
             n == p.decoys[h]
  <2>1. tk = 1..(b + 0) /\ TakenBy(p, a, "select") = 1..(b + n) /\ TakenBy(p, a, "restore") = 1..(b + n)
    BY <1>1 DEF TakenBy
  <2>2. b \in Nat /\ n \in Nat /\ tk2 = tk \cup ((b + 1)..(b + n))
    BY <1>3, <1>4
  <2> HIDE DEF b, n, tk2
  <2> QED
    BY <2>1, <2>2
<1>6. /\ "select" \in Batching /\ "restore" \in Batching
      /\ \A c \in {"select", "restore"} : Complete(p, a, "gather") = Complete(p, a, c)
  BY CompleteSame DEF Batching
<1>7. ASSUME NEW c \in {"select", "restore"}
      PROVE  rd2 = [l \in Locations(p) |-> Entries(p, Gathered(p, a, c, l))]
  <2> DEFINE G(d, l) == Gathered(p, a, d, l)
  <2>1. c \in Batching
    BY <1>6
  <2>2. /\ G(c, h) = G("gather", h) \o DecoyIds[p][h]
        /\ G("gather", h) \in Seq(DOMAIN Jobs[p])
        /\ \A l \in Locations(p) : l # h => G(c, l) = G("gather", l)
    BY <1>1, <2>1, DecoysJoin
  <2>3. Entries(p, G(c, h)) = Entries(p, G("gather", h)) \o DecoyEntries(p, h)
    <3> HIDE DEF G, h
    <3> QED
      BY <1>2, <2>2, EntriesOfDecoys
  <2>4. rd = [l \in Locations(p) |-> Entries(p, G("gather", l))]
    BY <1>1
  <2> HIDE DEF G, h
  <2>5. rd2 = [l \in Locations(p) |-> Entries(p, G(c, l))]
    BY <1>2, <2>2, <2>3, <2>4
  <2> QED
    BY <2>5 DEF G
<1>8. ASSUME NEW c \in {"select", "restore"}
      PROVE  ds = [o \in DOMAIN DisclosureJobIds[p] |-> RecordedUnder(p, a, c, o)]
  <2>1. \A o : RecordedUnder(p, a, "gather", o) = RecordedUnder(p, a, c, o)
    BY <1>6 DEF RecordedUnder
  <2> QED
    BY <1>1, <2>1
<1>9. \A c \in {"select", "restore"} : bt = [l \in Complete(p, a, c) |-> Digests(p, l)]
  BY <1>1, <1>6
<1> HIDE DEF rd2, tk2
<1>10. WalkOf(p, a, "select", tk2, rd2, bt, ds, oc)
  BY <1>1, <1>5, <1>7, <1>8, <1>9 DEF WalkOf
<1>11. rd2[h] = <<>> => WalkOf(p, a, "restore", tk2, rd2, bt, ds, oc)
  BY <1>1, <1>5, <1>7, <1>8, <1>9 DEF WalkOf
<1> QED
  BY <1>10, <1>11 DEF rd2, tk2

(* The restored digests are those of the container.                        *)
LEMMA BatchRestores ==
  ASSUME NEW p \in Plans, NEW l \in Locations(p)
  PROVE  LET b == Entries(p, Digests(p, l))
         IN  /\ Len(b) \in Nat /\ DOMAIN b = 1..Len(b)
             /\ [i \in DOMAIN b |-> b[i].job] = Digests(p, l)
             /\ \A x \in ToSet(b) : \E id \in DOMAIN Jobs[p] :
                  /\ x = Entry(p, id)
                  /\ Jobs[p][id].kind # "decoy" => Parent[p][Jobs[p][id].location] = l
             /\ \A m \in Disclosed(p, l) : Entry(p, DisclosureId[p][m]) \in ToSet(b)
<1> DEFINE d == Digests(p, l)
           D == DOMAIN Jobs[p]
           b == Entries(p, d)
<1>1. /\ d \in Seq(D) /\ Len(d) \in Nat
      /\ \A i \in 1..Len(d) :
           \/ \E m \in Disclosed(p, l) : d[i] = DisclosureId[p][m]
           \/ \E j \in 1..p.decoys[l] : d[i] = JobsBefore(p, l) + j
      /\ \A m \in Disclosed(p, l) : \E i \in 1..Len(d) : d[i] = DisclosureId[p][m]
  BY DigestsMeans
<1>2. b = [i \in 1..Len(d) |-> Entry(p, d[i])]
  BY DEF Entries
<1>3. \A i \in 1..Len(d) : d[i] \in D
  <2> HIDE DEF d, D
  <2> QED
    BY <1>1, ElementOfSeq
<1>4. ASSUME NEW i \in 1..Len(d), Jobs[p][d[i]].kind # "decoy"
      PROVE  Parent[p][Jobs[p][d[i]].location] = l
  <2>1. CASE \E m \in Disclosed(p, l) : d[i] = DisclosureId[p][m]
    <3>1. PICK m \in Disclosed(p, l) : d[i] = DisclosureId[p][m]
      BY <2>1
    <3>2. Jobs[p][d[i]].location = m
      <4>1. Jobs[p][d[i]] = DisclosureJob(p, m)
        BY <3>1, DisclosedMeans
      <4> QED
        BY <4>1 DEF DisclosureJob
    <3> QED
      BY <3>2, DisclosedMeans
  <2>2. CASE \E j \in 1..p.decoys[l] : d[i] = JobsBefore(p, l) + j
    <3>1. Jobs[p][d[i]] = DecoyJob(l)
      BY <2>2, JobsPlanned
    <3> QED
      BY <1>4, <3>1 DEF DecoyJob
  <2> QED
    BY <1>1, <2>1, <2>2
<1>5. d = [i \in 1..Len(d) |-> d[i]]
  <2> HIDE DEF d, D
  <2> QED
    BY <1>1, LenProperties
<1> HIDE DEF d, D, b
<1>6. Len(b) = Len(d) /\ DOMAIN b = 1..Len(d)
  BY <1>1, <1>2
<1>7. [i \in DOMAIN b |-> b[i].job] = d
  <2>1. \A i \in 1..Len(d) : b[i].job = d[i]
    BY <1>2 DEF Entry
  <2>2. [i \in DOMAIN b |-> b[i].job] = [i \in 1..Len(d) |-> d[i]]
    BY <1>6, <2>1
  <2> QED
    BY <1>5, <2>2
<1>8. ASSUME NEW x \in ToSet(b)
      PROVE  \E id \in D : /\ x = Entry(p, id)
                           /\ Jobs[p][id].kind # "decoy" => Parent[p][Jobs[p][id].location] = l
  <2>1. PICK i \in 1..Len(d) : x = b[i]
    BY <1>6 DEF ToSet
  <2>2. x = Entry(p, d[i]) /\ d[i] \in D
    BY <1>2, <1>3, <2>1
  <2> QED
    BY <1>4, <2>2
<1>9. ASSUME NEW m \in Disclosed(p, l) PROVE Entry(p, DisclosureId[p][m]) \in ToSet(b)
  <2>1. PICK i \in 1..Len(d) : d[i] = DisclosureId[p][m]
    BY <1>1
  <2>2. b[i] = Entry(p, DisclosureId[p][m]) /\ i \in DOMAIN b
    BY <1>2, <1>6, <2>1
  <2> QED
    BY <2>2 DEF ToSet
<1> QED
  BY <1>1, <1>6, <1>7, <1>8, <1>9 DEF d, b, D

(* What the batch of a container has for an ordinal: the disclosure with   *)
(* that ordinal if it is one of the container's, and nothing otherwise.    *)
EntriesOf(p, l, o) == {j \in ToSet(Entries(p, Digests(p, l))) : j.ordinal = o}

OnlyInside(p, l, o, m, id) ==
  /\ Parent[p][m] = l => EntriesOf(p, l, o) = {Entry(p, id)}
  /\ Parent[p][m] # l => EntriesOf(p, l, o) = {}

LEMMA RestoredUnder ==
  ASSUME NEW p \in Plans, NEW l \in Locations(p), NEW o \in DOMAIN DisclosureJobIds[p]
  PROVE  OnlyInside(p, l, o, Jobs[p][DisclosureJobIds[p][o]].location, DisclosureJobIds[p][o])
<1> DEFINE id == DisclosureJobIds[p][o]
           m == Jobs[p][id].location
           b == Entries(p, Digests(p, l))
<1>1. /\ id \in DOMAIN Jobs[p] /\ Jobs[p][id].kind # "decoy" /\ Ordinal[p][id] = o
      /\ m \in Locations(p) /\ m # 1 /\ p.sd[m] /\ id = DisclosureId[p][m]
  BY DisclosureUnder
<1>2. ASSUME NEW j \in ToSet(b), j.ordinal = o
      PROVE  j = Entry(p, id) /\ Parent[p][m] = l
  <2>1. PICK i \in DOMAIN Jobs[p] :
          /\ j = Entry(p, i)
          /\ Jobs[p][i].kind # "decoy" => Parent[p][Jobs[p][i].location] = l
    BY BatchRestores
  <2>2. Ordinal[p][i] = o
    BY <1>2, <2>1 DEF Entry
  <2>3. Jobs[p][i].kind # "decoy" /\ i = id
    BY <2>2, Ordinals
  <2> QED
    BY <2>1, <2>3
<1>3. ASSUME Parent[p][m] = l PROVE Entry(p, id) \in ToSet(b) /\ Entry(p, id).ordinal = o
  <2>1. m \in Disclosed(p, l)
    BY <1>1, <1>3 DEF Disclosed
  <2>2. Entry(p, id) \in ToSet(b)
    BY <1>1, <2>1, BatchRestores
  <2>3. Entry(p, id).ordinal = o
    BY <1>1 DEF Entry
  <2> QED
    BY <2>2, <2>3
<1> HIDE DEF b, id, m
<1>4. Parent[p][m] = l => {j \in ToSet(b) : j.ordinal = o} = {Entry(p, id)}
  BY <1>2, <1>3
<1>5. Parent[p][m] # l => {j \in ToSet(b) : j.ordinal = o} = {}
  BY <1>2
<1> QED
  BY <1>4, <1>5 DEF b, id, m, OnlyInside, EntriesOf

(* Whether a batch fits its places, and what putting it there makes of the *)
(* containers, of the disclosures and of the batch.                        *)
FitsPlaces(p, b, ds) ==
  \A o \in DOMAIN ds : \A j \in ToSet(b) :
    j.ordinal = o => DisclosureJobIds[p][o] = j.job /\ ds[o] = {}

Emptied(h, rd) == [rd EXCEPT ![h] = <<>>]

BuiltWith(h, b, bt) ==
  [m \in DOMAIN bt \cup {h} |-> IF m = h THEN [i \in DOMAIN b |-> b[i].job] ELSE bt[m]]

RecordedWith(b, ds) ==
  [o \in DOMAIN ds |->
     ds[o] \cup {[job |-> j.job, value |-> j.value] : j \in {x \in ToSet(b) : x.ordinal = o}}]

(* Restoring a batch completes its container.                              *)
LEMMA WalkRestores ==
  ASSUME NEW p \in Plans, NEW a, NEW tk, NEW rd, NEW bt, NEW ds, NEW oc,
         WalkOf(p, a, "restore", tk, rd, bt, ds, oc)
  PROVE  LET h == PostOrder[p][a]
         IN  /\ h \in Locations(p) /\ rd[h] = Entries(p, Digests(p, h)) /\ oc = rd[h]
             /\ FitsPlaces(p, rd[h], ds)
             /\ WalkOf(p, a, "leave", tk, Emptied(h, rd), BuiltWith(h, rd[h], bt),
                       RecordedWith(rd[h], ds), <<>>)
<1> DEFINE h == PostOrder[p][a]
           b == rd[h]
           O == DOMAIN DisclosureJobIds[p]
           M(o) == Jobs[p][DisclosureJobIds[p][o]].location
           Under(o) == {x \in ToSet(b) : x.ordinal = o}
           rd2 == Emptied(h, rd)
           bt2 == BuiltWith(h, b, bt)
           ds2 == RecordedWith(b, ds)
<1>1. /\ a \in 1..Len(p.kind) /\ p.kind[h] # "scalar" /\ tk = TakenBy(p, a, "restore")
      /\ rd = [l \in Locations(p) |-> Entries(p, Gathered(p, a, "restore", l))]
      /\ bt = [l \in Complete(p, a, "restore") |-> Digests(p, l)]
      /\ ds = [o \in O |-> RecordedUnder(p, a, "restore", o)]
      /\ oc = b
  BY DEF WalkOf, Batching
<1>2. h \in Locations(p)
  BY <1>1, AtTurn
<1>3. Gathered(p, a, "restore", h) = Digests(p, h)
  <2>1. "restore" \in Batching
    BY DEF Batching
  <2> QED
    BY <1>1, <2>1, DecoysJoin
<1>4. b = Entries(p, Digests(p, h))
  BY <1>1, <1>2, <1>3
<1>5. h \notin Complete(p, a, "restore")
      /\ Complete(p, a, "leave") = Complete(p, a, "restore") \cup {h}
  BY <1>1, CompleteAt
<1>6. \A o \in O : /\ Parent[p][M(o)] = h => Under(o) = {Entry(p, DisclosureJobIds[p][o])}
                   /\ Parent[p][M(o)] # h => Under(o) = {}
  <2> HIDE DEF h, b
  <2>1. ASSUME NEW o \in O PROVE OnlyInside(p, h, o, M(o), DisclosureJobIds[p][o])
    BY <1>2, RestoredUnder
  <2>2. \A o \in O : Under(o) = EntriesOf(p, h, o)
    BY <1>4 DEF EntriesOf
  <2> HIDE DEF Under, O, M
  <2> QED
    BY <2>1, <2>2, Zenon DEF OnlyInside
<1>7. \A o \in O : /\ DisclosureJobIds[p][o] \in DOMAIN Jobs[p]
                   /\ Jobs[p][DisclosureJobIds[p][o]].kind # "decoy"
  BY DisclosureUnder
<1> HIDE DEF h, b, M, Under
<1>8. ASSUME NEW o \in O, Parent[p][M(o)] = h PROVE ds[o] = {}
  <2>1. ds[o] = RecordedUnder(p, a, "restore", o)
    BY <1>1
  <2> QED
    BY <1>5, <1>8, <2>1 DEF RecordedUnder, M
<1>9. ASSUME NEW o \in O, NEW j \in ToSet(b), j.ordinal = o
      PROVE  DisclosureJobIds[p][o] = j.job /\ ds[o] = {}
  <2>1. j \in Under(o)
    BY <1>9 DEF Under
  <2>2. Parent[p][M(o)] = h /\ j = Entry(p, DisclosureJobIds[p][o])
    BY <1>6, <2>1
  <2>3. j.job = DisclosureJobIds[p][o]
    BY <2>2 DEF Entry
  <2> QED
    BY <1>8, <2>2, <2>3
<1>10. bt2 = [l \in Complete(p, a, "leave") |-> Digests(p, l)]
  <2>1. [i \in DOMAIN b |-> b[i].job] = Digests(p, h)
    BY <1>2, <1>4, BatchRestores
  <2> QED
    BY <1>1, <1>5, <2>1 DEF BuiltWith
<1>11. rd2 = [l \in Locations(p) |-> Entries(p, Gathered(p, a, "leave", l))]
  <2>1. /\ Gathered(p, a, "leave", h) = <<>>
        /\ \A l \in Locations(p) :
             l # h => Gathered(p, a, "leave", l) = Gathered(p, a, "restore", l)
    BY <1>1, BatchDone DEF h
  <2>2. Entries(p, Gathered(p, a, "leave", h)) = <<>>
    BY <2>1, NothingGathered
  <2> QED
    BY <1>1, <1>2, <2>1, <2>2 DEF Emptied
<1>12. ASSUME NEW o \in O
       PROVE  ds[o] \cup {[job |-> j.job, value |-> j.value] : j \in Under(o)}
                = RecordedUnder(p, a, "leave", o)
  <2> DEFINE id == DisclosureJobIds[p][o]
             new == {[job |-> j.job, value |-> j.value] : j \in Under(o)}
             one == [job |-> id, value |-> Assembled(p, M(o))]
  <2>1. RecordedUnder(p, a, "leave", o)
          = IF Parent[p][M(o)] \in Complete(p, a, "restore") \cup {h} THEN {one} ELSE {}
    BY <1>5 DEF RecordedUnder, M
  <2>2. ds[o] = IF Parent[p][M(o)] \in Complete(p, a, "restore") THEN {one} ELSE {}
    BY <1>1 DEF RecordedUnder, M
  <2>3. CASE Parent[p][M(o)] = h
    <3>1. Under(o) = {Entry(p, id)}
      BY <1>6, <2>3
    <3>2. Entry(p, id).job = id /\ Entry(p, id).value = Assembled(p, M(o))
      BY <1>7 DEF Entry, M
    <3>3. new = {one}
      BY <3>1, <3>2
    <3> HIDE DEF new, one
    <3>4. ds[o] \cup new = RecordedUnder(p, a, "leave", o)
      BY <1>8, <2>1, <2>3, <3>3
    <3> QED
      BY <3>4 DEF new
  <2>4. CASE Parent[p][M(o)] # h
    <3>1. new = {}
      BY <1>6, <2>4
    <3> HIDE DEF new, one
    <3>2. ds[o] \cup new = RecordedUnder(p, a, "leave", o)
      BY <2>1, <2>2, <2>4, <3>1
    <3> QED
      BY <3>2 DEF new
  <2> QED
    BY <2>3, <2>4
<1>13. ds2 = [o \in O |-> RecordedUnder(p, a, "leave", o)]
  <2>1. DOMAIN ds = O
    BY <1>1
  <2>2. ds2 = [o \in DOMAIN ds |->
                 ds[o] \cup {[job |-> j.job, value |-> j.value] : j \in Under(o)}]
    BY DEF RecordedWith, Under
  <2> HIDE DEF ds2
  <2> QED
    BY <1>12, <2>1, <2>2
<1>14. TakenBy(p, a, "leave") = TakenBy(p, a, "restore") /\ "leave" \notin Batching
  BY DEF TakenBy, Batching
<1> HIDE DEF rd2, bt2, ds2
<1>15. WalkOf(p, a, "leave", tk, rd2, bt2, ds2, <<>>)
  BY <1>1, <1>10, <1>11, <1>13, <1>14 DEF WalkOf
<1>16. FitsPlaces(p, b, ds)
  <2>1. DOMAIN ds = O
    BY <1>1
  <2> QED
    BY <1>9, <2>1 DEF FitsPlaces
<1> QED
  BY <1>1, <1>2, <1>4, <1>15, <1>16 DEF h, b, rd2, bt2, ds2, Under

LEMMA EntriesAppend ==
  ASSUME NEW p \in Plans, NEW s \in Seq(DOMAIN Jobs[p]), NEW id \in DOMAIN Jobs[p]
  PROVE  Entries(p, Append(s, id)) = Append(Entries(p, s), Entry(p, id))
<1> DEFINE D == DOMAIN Jobs[p]
           E == {Entry(p, x) : x \in D}
           u == Entries(p, s)
<1>1. u = [i \in 1..Len(s) |-> Entry(p, s[i])]
      /\ Entries(p, Append(s, id)) = [i \in 1..Len(Append(s, id)) |-> Entry(p, Append(s, id)[i])]
  BY DEF Entries
<1>2. s \in Seq(D) /\ id \in D /\ \A x \in D : Entry(p, x) \in E
  OBVIOUS
<1> HIDE DEF D, E, u
<1>3. Len(s) \in Nat /\ \A i \in 1..Len(s) : s[i] \in D
  BY <1>2, LenProperties, ElementOfSeq
<1>4. u \in Seq(E) /\ Len(u) = Len(s) /\ \A i \in 1..Len(s) : u[i] = Entry(p, s[i])
  BY <1>1, <1>2, <1>3
<1>5. /\ Len(Append(s, id)) = Len(s) + 1
      /\ \A i \in 1..Len(s) : Append(s, id)[i] = s[i]
      /\ Append(s, id)[Len(s) + 1] = id
  BY <1>2, AppendProperties
<1>6. /\ Append(u, Entry(p, id)) \in Seq(E) /\ Len(Append(u, Entry(p, id))) = Len(s) + 1
      /\ \A i \in 1..Len(s) : Append(u, Entry(p, id))[i] = u[i]
      /\ Append(u, Entry(p, id))[Len(s) + 1] = Entry(p, id)
  BY <1>2, <1>4, AppendProperties
<1>7. ASSUME NEW i \in 1..(Len(s) + 1)
      PROVE  Append(u, Entry(p, id))[i] = Entry(p, Append(s, id)[i])
  <2>1. i \in 1..Len(s) \/ i = Len(s) + 1
    BY <1>3
  <2> QED
    BY <1>4, <1>5, <1>6, <2>1
<1> DEFINE w == Append(u, Entry(p, id))
<1>8. w = [i \in 1..(Len(s) + 1) |-> w[i]]
  <2> HIDE DEF w
  <2>1. w \in Seq(E) /\ Len(w) = Len(s) + 1
    BY <1>6 DEF w
  <2> QED
    BY <2>1, LenProperties
<1>9. [i \in 1..(Len(s) + 1) |-> w[i]] = [i \in 1..(Len(s) + 1) |-> Entry(p, Append(s, id)[i])]
  BY <1>7
<1> HIDE DEF w
<1>10. Entries(p, Append(s, id)) = w
  BY <1>1, <1>5, <1>8, <1>9
<1> QED
  BY <1>10 DEF w, u

SeenIn(p, l, bt) == [m \in Containers(p, l) \cap DOMAIN bt |-> bt[m]]

(* What has been assembled inside the location a walk is about to leave.   *)
LEMMA SeenInside ==
  ASSUME NEW p \in Plans, NEW a, NEW tk, NEW rd, NEW bt, NEW ds, NEW oc,
         WalkOf(p, a, "leave", tk, rd, bt, ds, oc)
  PROVE  SeenIn(p, PostOrder[p][a], bt) = Assembled(p, PostOrder[p][a])
<1> DEFINE h == PostOrder[p][a]
           C == Complete(p, a, "leave")
<1>1. a \in 1..Len(p.kind) /\ bt = [l \in C |-> Digests(p, l)]
  BY DEF WalkOf
<1>2. Containers(p, h) \subseteq C
  BY <1>1, ContainersComplete
<1> HIDE DEF C, h
<1>3. Containers(p, h) \cap DOMAIN bt = Containers(p, h)
      /\ \A m \in Containers(p, h) : bt[m] = Digests(p, m)
  BY <1>1, <1>2
<1>4. SeenIn(p, h, bt) = Assembled(p, h)
  BY <1>3 DEF Assembled, SeenIn
<1> QED
  BY <1>4 DEF h

(* Leaving a location that is not the whole of the claims.                 *)
LEMMA WalkLeaves ==
  ASSUME NEW p \in Plans, NEW a, NEW tk, NEW rd, NEW bt, NEW ds, NEW oc,
         WalkOf(p, a, "leave", tk, rd, bt, ds, oc), PostOrder[p][a] # 1
  PROVE  LET h  == PostOrder[p][a]
             id == DisclosureId[p][h]
         IN  /\ ~ p.sd[h] => WalkOf(p, a + 1, "gather", tk, rd, bt, ds, oc)
             /\ p.sd[h] =>
                  /\ id \notin tk /\ id \in DOMAIN Jobs[p] /\ Jobs[p][id] = DisclosureJob(p, h)
                  /\ WalkOf(p, a + 1, "gather", tk \cup {id},
                       [rd EXCEPT ![Parent[p][h]] =
                          Append(@, [job |-> id, ordinal |-> Ordinal[p][id],
                                     value |-> Assembled(p, h)])],
                       bt, ds, oc)
<1> DEFINE h == PostOrder[p][a]
           id == DisclosureId[p][h]
           up == Parent[p][h]
           k == PostOrder[p][a + 1]
           rd2 == [rd EXCEPT ![up] = Append(@, Entry(p, id))]
           n == Len(p.kind)
<1>1. /\ a \in 1..n /\ tk = TakenBy(p, a, "leave")
      /\ rd = [l \in Locations(p) |-> Entries(p, Gathered(p, a, "leave", l))]
      /\ bt = [l \in Complete(p, a, "leave") |-> Digests(p, l)]
      /\ ds = [o \in DOMAIN DisclosureJobIds[p] |-> RecordedUnder(p, a, "leave", o)]
      /\ oc = <<>>
  BY DEF WalkOf
<1>2. n \in Nat /\ h \in Locations(p) /\ Turn(p, h) = a
  BY <1>1, AtTurn, PlanMeans
<1>3. a + 1 \in 1..n
  <2>1. a # n
    BY <1>2, WholeIsLast
  <2> HIDE DEF n
  <2> QED
    BY <1>1, <1>2, <2>1
<1>4. k \in Locations(p) /\ Turn(p, k) = a + 1
  BY <1>3, AtTurn
<1>5. Complete(p, a + 1, "gather") = Complete(p, a, "leave")
  BY <1>1, LeavesOne
<1>6. JobsBefore(p, k) = JobsBefore(p, h) + JobCount(p, h)
      /\ JobsBefore(p, h) \in Nat /\ p.decoys[h] \in Nat
  <2>1. Turn(p, k) = Turn(p, h) + 1
    BY <1>2, <1>4
  <2> HIDE DEF h, k
  <2>2. JobsBefore(p, k) = JobsBefore(p, h) + JobCount(p, h)
    BY <1>2, <1>4, <2>1, JobsFollow
  <2>3. JobsBefore(p, h) \in Nat /\ p.decoys[h] \in Nat
    BY <1>2, RegistryAt, PlanMeans
  <2> QED
    BY <2>2, <2>3
<1>7. /\ TakenBy(p, a, "leave") = 1..(JobsBefore(p, h) + p.decoys[h])
      /\ TakenBy(p, a + 1, "gather") = 1..(JobsBefore(p, k) + 0)
  BY DEF TakenBy
<1>8. /\ p.sd[h] => JobCount(p, h) = p.decoys[h] + 1
      /\ ~ p.sd[h] => JobCount(p, h) = p.decoys[h]
      /\ id = JobsBefore(p, h) + (p.decoys[h] + 1)
  BY <1>2, JobsAtLocation, IdsAre
<1>9. bt = [l \in Complete(p, a + 1, "gather") |-> Digests(p, l)]
  BY <1>1, <1>5
<1>10. ds = [o \in DOMAIN DisclosureJobIds[p] |-> RecordedUnder(p, a + 1, "gather", o)]
  <2>1. \A o : RecordedUnder(p, a + 1, "gather", o) = RecordedUnder(p, a, "leave", o)
    BY <1>5 DEF RecordedUnder
  <2> QED
    BY <1>1, <2>1
<1>11. \A l \in Locations(p) :
         /\ p.sd[h] /\ l = up =>
              Gathered(p, a + 1, "gather", l) = Append(Gathered(p, a, "leave", l), id)
         /\ ~ (p.sd[h] /\ l = up) => Gathered(p, a + 1, "gather", l) = Gathered(p, a, "leave", l)
  <2>1. h # 1
    OBVIOUS
  <2> QED
    BY <1>1, <2>1, DisclosureJoins
<1>12. up \in Locations(p) /\ Turn(p, h) < Turn(p, up)
  BY <1>2, Parents
<1>13. "gather" \notin Batching /\ "leave" \notin Batching
  BY DEF Batching
<1>14. ASSUME ~ p.sd[h] PROVE WalkOf(p, a + 1, "gather", tk, rd, bt, ds, oc)
  <2>1. tk = TakenBy(p, a + 1, "gather")
    <3> HIDE DEF h, k, id
    <3>1. JobsBefore(p, k) + 0 = JobsBefore(p, h) + p.decoys[h]
      BY <1>6, <1>8, <1>14
    <3> QED
      BY <1>1, <1>7, <3>1
  <2>2. rd = [l \in Locations(p) |-> Entries(p, Gathered(p, a + 1, "gather", l))]
    BY <1>1, <1>11, <1>14
  <2> QED
    BY <1>1, <1>3, <1>9, <1>10, <1>13, <2>1, <2>2 DEF WalkOf
<1>15. ASSUME p.sd[h]
       PROVE  /\ id \notin tk /\ id \in DOMAIN Jobs[p] /\ Jobs[p][id] = DisclosureJob(p, h)
              /\ Entry(p, id) = [job |-> id, ordinal |-> Ordinal[p][id], value |-> Assembled(p, h)]
              /\ WalkOf(p, a + 1, "gather", tk \cup {id}, rd2, bt, ds, oc)
  <2>1. id \in DOMAIN Jobs[p] /\ Jobs[p][id] = DisclosureJob(p, h)
    BY <1>2, <1>15, JobsPlanned
  <2>2. id \notin tk /\ tk \cup {id} = TakenBy(p, a + 1, "gather")
    <3> DEFINE b == JobsBefore(p, h)
               d == p.decoys[h]
    <3>1. tk = 1..(b + d) /\ TakenBy(p, a + 1, "gather") = 1..(b + (d + 1) + 0) /\ id = b + (d + 1)
      BY <1>1, <1>6, <1>7, <1>8, <1>15
    <3>2. b \in Nat /\ d \in Nat
      BY <1>6
    <3> HIDE DEF b, d, id
    <3> QED
      BY <3>1, <3>2
  <2>3. /\ Entry(p, id) = [job |-> id, ordinal |-> Ordinal[p][id], value |-> Assembled(p, h)]
    <3> HIDE DEF id, h
    <3>1. DisclosureKind(p, h) # "decoy"
      BY DEF DisclosureKind
    <3>2. Jobs[p][id].location = h /\ Jobs[p][id].kind # "decoy"
      BY <2>1, <3>1 DEF DisclosureJob
    <3> QED
      BY <3>2 DEF Entry
  <2>4. Gathered(p, a, "leave", up) \in Seq(DOMAIN Jobs[p])
    <3>1. up \notin Complete(p, a, "leave")
      <4>1. a \in Nat /\ Turn(p, up) \in Nat
        BY <1>1, <1>12, AtTurn
      <4> QED
        BY <1>2, <1>12, <4>1 DEF Complete
    <3>2. Gathered(p, a, "leave", up)
            = Ascending(DisclosureIds(p, Disclosed(p, up) \cap LeftBehind(p, a)))
      BY <1>13, <3>1 DEF Gathered
    <3>3. Disclosed(p, up) \cap LeftBehind(p, a) \subseteq Disclosed(p, up)
      OBVIOUS
    <3> QED
      BY <1>12, <3>2, <3>3, AscendingIds
  <2>5. rd2 = [l \in Locations(p) |-> Entries(p, Gathered(p, a + 1, "gather", l))]
    <3>1. Entries(p, Gathered(p, a + 1, "gather", up))
            = Append(Entries(p, Gathered(p, a, "leave", up)), Entry(p, id))
      <4>1. Gathered(p, a + 1, "gather", up) = Append(Gathered(p, a, "leave", up), id)
        BY <1>11, <1>12, <1>15
      <4> QED
        BY <2>1, <2>4, <4>1, EntriesAppend
    <3>2. \A l \in Locations(p) :
            l # up => Gathered(p, a + 1, "gather", l) = Gathered(p, a, "leave", l)
      BY <1>11
    <3> HIDE DEF h, k, id, up
    <3> QED
      BY <1>1, <1>12, <3>1, <3>2 DEF rd2
  <2> HIDE DEF rd2
  <2>6. WalkOf(p, a + 1, "gather", tk \cup {id}, rd2, bt, ds, oc)
    <3> HIDE DEF id
    <3> QED
      BY <1>1, <1>3, <1>9, <1>10, <1>13, <2>2, <2>5 DEF WalkOf
  <2> QED
    BY <2>1, <2>2, <2>3, <2>6
<1>16. p.sd[h] =>
         WalkOf(p, a + 1, "gather", tk \cup {id},
                [rd EXCEPT ![up] = Append(@, [job |-> id, ordinal |-> Ordinal[p][id],
                                              value |-> Assembled(p, h)])],
                bt, ds, oc)
  BY <1>15
<1> QED
  BY <1>14, <1>15, <1>16

(* The decoys of a container are in the registry, and nobody took them.    *)
LEMMA DecoysUntaken ==
  ASSUME NEW p \in Plans, NEW a \in 1..Len(p.kind)
  PROVE  LET h   == PostOrder[p][a]
             ids == ToSet(DecoyIds[p][h])
         IN  /\ ids \cap TakenBy(p, a, "gather") = {}
             /\ \A id \in ids : id \in DOMAIN Jobs[p] /\ Jobs[p][id] = DecoyJob(h)
<1> DEFINE h == PostOrder[p][a]
           s == DecoyIds[p][h]
           b == JobsBefore(p, h)
           n == p.decoys[h]
<1>1. h \in Locations(p)
  BY AtTurn
<1>2. b \in Nat /\ n \in Nat /\ TakenBy(p, a, "gather") = 1..(b + 0)
  BY <1>1, RegistryAt, PlanMeans DEF TakenBy
<1>3. s = [i \in 1..n |-> b + i]
  BY <1>1, IdsAre
<1>4. \A i \in 1..n : b + i \in DOMAIN Jobs[p] /\ Jobs[p][b + i] = DecoyJob(h)
  BY <1>1, JobsPlanned
<1> HIDE DEF h, s, b, n
<1>5. \A id \in ToSet(s) : \E i \in 1..n : id = b + i
  BY <1>3 DEF ToSet
<1>6. ToSet(s) \cap TakenBy(p, a, "gather") = {}
  BY <1>2, <1>5
<1> QED
  BY <1>4, <1>5, <1>6 DEF h, s

(* A walk that leaves the whole of the claims has taken every job and      *)
(* recorded every disclosure: it is the serial assembly.                   *)
LEMMA WalkFinishes ==
  ASSUME NEW p \in Plans, NEW a, NEW tk, NEW rd, NEW bt, NEW ds, NEW oc,
         WalkOf(p, a, "leave", tk, rd, bt, ds, oc), PostOrder[p][a] = 1
  PROVE  /\ tk = DOMAIN Jobs[p]
         /\ \A o \in DOMAIN ds : ds[o] # {}
         /\ [o \in DOMAIN ds |-> CHOOSE d \in ds[o] : TRUE] = SerialAssembly[p].disclosures
         /\ SeenIn(p, 1, bt) = SerialAssembly[p].claims
<1> DEFINE O == DOMAIN DisclosureJobIds[p]
           n == Len(p.kind)
           id(o) == DisclosureJobIds[p][o]
           M(o) == Jobs[p][id(o)].location
           one(o) == [job |-> id(o), value |-> Assembled(p, M(o))]
           serial == [o \in O |-> one(o)]
<1>1. /\ a \in 1..n /\ tk = TakenBy(p, a, "leave")
      /\ ds = [o \in O |-> RecordedUnder(p, a, "leave", o)]
  BY DEF WalkOf
<1>2. /\ SerialAssembly[p].disclosures = serial
      /\ SerialAssembly[p].claims = Assembled(p, 1)
  BY DEF SerialAssembly
<1>3. 1 \in Locations(p) /\ Turn(p, 1) = n /\ a = n /\ n \in Nat
      /\ \A l \in Locations(p) : Turn(p, l) \in 1..n
  BY <1>1, AtTurn, WholeIsLast, PlanMeans, Turns
<1>4. tk = DOMAIN Jobs[p]
  <2>1. Len(Jobs[p]) = JobsBefore(p, 1) + JobCount(p, 1) /\ JobCount(p, 1) = p.decoys[1]
    BY <1>3, JobsFollow, JobsAtLocation, PlanMeans
  <2>2. tk = 1..(JobsBefore(p, 1) + p.decoys[1])
    BY <1>1 DEF TakenBy
  <2> QED
    BY <2>1, <2>2, JobsAre
<1>5. ASSUME NEW o \in O PROVE RecordedUnder(p, a, "leave", o) = {one(o)}
  <2>1. M(o) \in Locations(p) /\ M(o) # 1
    BY DisclosureUnder
  <2>2. Parent[p][M(o)] \in Locations(p) /\ p.kind[Parent[p][M(o)]] # "scalar"
    BY <2>1, Parents
  <2> HIDE DEF n
  <2>3. Turn(p, Parent[p][M(o)]) < a \/ Turn(p, Parent[p][M(o)]) = a
    <3> DEFINE turn == Turn(p, Parent[p][M(o)])
    <3>1. turn \in 1..n
      BY <1>3, <2>2
    <3> HIDE DEF turn
    <3>2. turn < a \/ turn = a
      BY <1>3, <3>1
    <3> QED
      BY <3>2 DEF turn
  <2>4. Parent[p][M(o)] \in Complete(p, a, "leave")
    BY <2>2, <2>3 DEF Complete
  <2> QED
    BY <2>4 DEF RecordedUnder
<1>6. SeenIn(p, 1, bt) = SerialAssembly[p].claims
  <2>1. SeenIn(p, PostOrder[p][a], bt) = Assembled(p, PostOrder[p][a])
    BY SeenInside
  <2> QED
    BY <1>2, <2>1
<1> HIDE DEF O, one, serial
<1>7. ds = [o \in O |-> {one(o)}]
  BY <1>1, <1>5
<1>8. [o \in DOMAIN ds |-> CHOOSE d \in ds[o] : TRUE] = [o \in O |-> one(o)]
  BY <1>7
<1>9. \A o \in DOMAIN ds : ds[o] # {}
  BY <1>7
<1> QED
  BY <1>2, <1>4, <1>6, <1>8, <1>9 DEF serial

(* A ready batch is what its container lists.                              *)
LEMMA BatchOf ==
  ASSUME NEW p \in Plans, NEW a, NEW tk, NEW rd, NEW bt, NEW ds, NEW oc, NEW c \in Batching,
         WalkOf(p, a, c, tk, rd, bt, ds, oc)
  PROVE  LET h == PostOrder[p][a]
         IN  /\ rd[h] = Entries(p, Digests(p, h))
             /\ Len(rd[h]) \in Nat
             /\ SubSeq(rd[h], 1, Len(rd[h])) = rd[h]
<1> DEFINE h == PostOrder[p][a]
           d == Digests(p, h)
           E == {Entry(p, d[i]) : i \in 1..Len(d)}
<1>1. a \in 1..Len(p.kind) /\ p.kind[h] # "scalar"
      /\ rd = [l \in Locations(p) |-> Entries(p, Gathered(p, a, c, l))]
  BY DEF WalkOf
<1>2. h \in Locations(p) /\ Gathered(p, a, c, h) = d
  BY <1>1, AtTurn, DecoysJoin
<1>3. rd[h] = Entries(p, d) /\ Entries(p, d) = [i \in 1..Len(d) |-> Entry(p, d[i])]
  BY <1>1, <1>2 DEF Entries
<1>4. Len(d) \in Nat
  BY <1>2, DigestsMeans
<1> DEFINE s == Entries(p, d)
<1>5. \A i \in 1..Len(d) : Entry(p, d[i]) \in E
  OBVIOUS
<1> HIDE DEF d, E, h
<1>6. s \in Seq(E) /\ Len(s) = Len(d)
  BY <1>3, <1>4, <1>5
<1> HIDE DEF s
<1>7. SubSeq(s, 1, Len(s)) = s
  BY <1>4, <1>6
<1> QED
  BY <1>3, <1>4, <1>6, <1>7 DEF s, h, d

-----------------------------------------------------------------------------
(* The inductive invariant.                                                *)

ThreadStates == {"none", "running", "finished", "panicked"}

PerRequest(f) == f = [r \in Requests |-> f[r]]

Shape ==
  /\ plan \in [Requests -> Plans]
  /\ PerRequest(at) /\ PerRequest(pc) /\ PerRequest(taken) /\ PerRequest(ready)
  /\ PerRequest(built) /\ PerRequest(disclosures) /\ PerRequest(outcomes)
  /\ PerRequest(lease) /\ PerRequest(spawned) /\ PerRequest(spawnFailed)
  /\ PerRequest(thread) /\ PerRequest(answer)

Conserved ==
  /\ available \in Nat
  /\ available + Cardinality(PermitsOf(Requests, Capacity, lease)) = Capacity

OnItsWay(r) ==
  pc[r] # "done" =>
    WalkOf(plan[r], at[r], pc[r], taken[r], ready[r], built[r], disclosures[r], outcomes[r])

(* A lease is held exactly while threads are spawned and joined, one       *)
(* permit for each at least.                                               *)
Leased(r) ==
  /\ IF pc[r] \in {"spawn", "join"} THEN lease[r] \in 2..Capacity ELSE lease[r] = 0
  /\ spawned[r] \in 0..lease[r]
  /\ thread[r] \in [1..Capacity -> ThreadStates]
  /\ \A k \in 1..Capacity : thread[r][k] = "none" <=> k > spawned[r]

(* When spawning ended well, every chunk has its thread.                   *)
AllSpawned(r) ==
  /\ spawnFailed[r] \in BOOLEAN
  /\ spawnFailed[r] => pc[r] = "join"
  /\ pc[r] = "join" /\ ~ spawnFailed[r] => ~ MoreChunks(r)

AnsweredWell(r) ==
  /\ answer[r].kind # "invalid"
  /\ answer[r].kind = "assembly" =>
       /\ answer[r].claims = SerialAssembly[plan[r]].claims
       /\ answer[r].disclosures = SerialAssembly[plan[r]].disclosures

RequestInv(r) == OnItsWay(r) /\ Leased(r) /\ AllSpawned(r) /\ AnsweredWell(r)

IInv == Shape /\ Conserved /\ \A r \in Requests : RequestInv(r)

LEMMA Constants ==
  /\ Capacity \in Nat /\ Capacity > 1 /\ MinJobs \in Nat /\ IsFiniteSet(Requests)
  /\ \A t \in ThreadCounts : t \in Nat
BY IssuanceAssumption

LEMMA InitHolds == Init => IInv
<1> SUFFICES ASSUME Init PROVE IInv
  OBVIOUS
<1>1. Shape
  BY DEF Init, Shape, PerRequest
<1>2. Conserved
  <2>1. PermitsOf(Requests, Capacity, lease) = {}
    BY DEF Init, PermitsOf
  <2>2. Cardinality(PermitsOf(Requests, Capacity, lease)) = 0
    BY <2>1, FS_EmptySet
  <2> QED
    BY <2>2, Constants DEF Init, Conserved
<1>3. ASSUME NEW r \in Requests PROVE RequestInv(r)
  <2>1. plan[r] \in Plans
    BY DEF Init
  <2>2. OnItsWay(r)
    BY <2>1, WalkStarts DEF Init, OnItsWay
  <2>3. Leased(r)
    BY Constants DEF Init, Leased, NoThreads, ThreadStates
  <2>4. AllSpawned(r)
    BY DEF Init, AllSpawned
  <2>5. AnsweredWell(r)
    BY DEF Init, AnsweredWell, NoAnswer
  <2> QED
    BY <2>2, <2>3, <2>4, <2>5 DEF RequestInv
<1> QED
  BY <1>1, <1>2, <1>3 DEF IInv

(* A step of one request leaves the others as they are.                    *)
Row(q) == <<plan[q], at[q], pc[q], taken[q], ready[q], built[q], disclosures[q], outcomes[q],
            lease[q], spawned[q], spawnFailed[q], thread[q], answer[q]>>

LEMMA RowKept ==
  ASSUME NEW q \in Requests, RequestInv(q), UNCHANGED Row(q)
  PROVE  RequestInv(q)'
<1>1. OnItsWay(q)'
  BY DEF Row, RequestInv, OnItsWay
<1>2. Leased(q)'
  BY DEF Row, RequestInv, Leased
<1>3. AllSpawned(q)'
  <2>1. MoreChunks(q)' = MoreChunks(q)
    BY DEF Row, MoreChunks, ChunkSize, Workers, Batch, Here
  <2> QED
    BY <2>1, Zenon DEF Row, RequestInv, AllSpawned
<1>4. AnsweredWell(q)'
  BY DEF Row, RequestInv, AnsweredWell
<1> QED
  BY <1>1, <1>2, <1>3, <1>4 DEF RequestInv

Apart(r) == Shape' /\ \A q \in Requests \ {r} : UNCHANGED Row(q)

LEMMA StepsApart ==
  ASSUME IInv, NEW r \in Requests, CallerStep(r) \/ \E k \in 1..Capacity : WorkerEnds(r, k)
  PROVE  Apart(r)
<1> USE DEF IInv, Shape, PerRequest, Apart, Row, walk, executor, Goto, Answer, Fails
<1>1. CASE Begin(r)
  BY <1>1 DEF Begin
<1>2. CASE IssueSerially(r)
  BY <1>2 DEF IssueSerially
<1>3. CASE Gather(r)
  BY <1>3 DEF Gather
<1>4. CASE Leave(r)
  BY <1>4 DEF Leave
<1>5. CASE Finish(r)
  BY <1>5 DEF Finish
<1>6. CASE \E t \in ThreadCounts : Select(r, t)
  BY <1>6 DEF Select, Serially, Leases
<1>7. CASE Spawn(r)
  BY <1>7 DEF Spawn
<1>8. CASE SpawnEnd(r)
  BY <1>8 DEF SpawnEnd
<1>9. CASE ExecuteEnd(r)
  BY <1>9 DEF ExecuteEnd, Collect, Drops
<1>10. CASE Restore(r)
  BY <1>10 DEF Restore
<1>11. CASE \E k \in 1..Capacity : WorkerEnds(r, k)
  BY <1>11 DEF WorkerEnds
<1> QED
  BY <1>1, <1>2, <1>3, <1>4, <1>5, <1>6, <1>7, <1>8, <1>9, <1>10, <1>11 DEF CallerStep

-----------------------------------------------------------------------------
(* The steps of the walk.                                                  *)

LEMMA BeginKeeps ==
  ASSUME IInv, NEW r \in Requests, Begin(r)
  PROVE  RequestInv(r)'
<1>1. plan[r] \in Plans /\ RequestInv(r)
  BY DEF IInv, Shape
<1>2. RegistryValid(plan[r])
  BY <1>1, PlansAreValid
<1>3. /\ pc[r] = "begin" /\ pc'[r] = "gather"
      /\ UNCHANGED <<plan, at, taken, ready, built, disclosures, outcomes>>
      /\ UNCHANGED <<lease, spawned, spawnFailed, thread, answer>>
  BY <1>2 DEF Begin, Goto, IInv, Shape, PerRequest, walk, executor
<1>4. OnItsWay(r)'
  BY <1>1, <1>3, WalkMoves DEF RequestInv, OnItsWay
<1>5. Leased(r)' /\ AllSpawned(r)' /\ AnsweredWell(r)'
  BY <1>1, <1>3 DEF RequestInv, Leased, AllSpawned, AnsweredWell
<1> QED
  BY <1>4, <1>5 DEF RequestInv

(* Whoever answers outside of a batch holds nothing.                       *)
LEMMA AnswersKeep ==
  ASSUME IInv, NEW r \in Requests, pc[r] \notin {"spawn", "join"}, pc'[r] = "done",
         UNCHANGED <<lease, spawned, spawnFailed, thread>>, AnsweredWell(r)'
  PROVE  RequestInv(r)'
<1>1. RequestInv(r)
  BY DEF IInv
<1>2. OnItsWay(r)'
  BY DEF OnItsWay
<1>3. Leased(r)' /\ AllSpawned(r)'
  BY <1>1 DEF RequestInv, Leased, AllSpawned
<1> QED
  BY <1>2, <1>3 DEF RequestInv

LEMMA IssueSeriallyKeeps ==
  ASSUME IInv, NEW r \in Requests, IssueSerially(r)
  PROVE  RequestInv(r)'
<1> DEFINE a == [kind |-> "assembly", claims |-> SerialAssembly[plan[r]].claims,
                 disclosures |-> SerialAssembly[plan[r]].disclosures]
<1>1. /\ pc[r] = "begin" /\ pc'[r] = "done" /\ answer'[r] = a
      /\ UNCHANGED <<plan, lease, spawned, spawnFailed, thread>>
  BY DEF IssueSerially, Answer, Goto, IInv, Shape, PerRequest, walk, executor
<1>2. a.kind = "assembly" /\ a.claims = SerialAssembly[plan[r]].claims
      /\ a.disclosures = SerialAssembly[plan[r]].disclosures
  OBVIOUS
<1>3. AnsweredWell(r)'
  BY <1>1, <1>2 DEF AnsweredWell
<1> QED
  BY <1>1, <1>3, AnswersKeep

LEMMA GatherKeeps ==
  ASSUME IInv, NEW r \in Requests, Gather(r)
  PROVE  RequestInv(r)'
<1> DEFINE p == plan[r]
           h == PostOrder[p][at[r]]
           ids == ToSet(DecoyIds[p][h])
           rd2 == [ready[r] EXCEPT ![h] = @ \o DecoyEntries(p, h)]
<1>1. p \in Plans /\ RequestInv(r)
  BY DEF IInv, Shape
<1>2. /\ pc[r] = "gather"
      /\ UNCHANGED <<plan, at, built, disclosures, outcomes, lease, spawned, spawnFailed, thread>>
  BY DEF Gather, executor
<1>3. WalkOf(p, at[r], "gather", taken[r], ready[r], built[r], disclosures[r], outcomes[r])
  BY <1>1, <1>2 DEF RequestInv, OnItsWay
<1>4. at[r] \in 1..Len(p.kind) /\ taken[r] = TakenBy(p, at[r], "gather")
  BY <1>3 DEF WalkOf
<1>5. Takes(r, ids, h, "decoy")
  BY <1>1, <1>4, DecoysUntaken DEF Takes, DecoyJob
<1>6. CASE /\ p.kind[h] = "scalar" /\ pc'[r] = "leave"
           /\ UNCHANGED <<taken, ready, answer>>
  <2>1. OnItsWay(r)'
    BY <1>1, <1>2, <1>3, <1>6, WalkPasses DEF OnItsWay
  <2>2. Leased(r)' /\ AllSpawned(r)' /\ AnsweredWell(r)'
    BY <1>1, <1>2, <1>6 DEF RequestInv, Leased, AllSpawned, AnsweredWell
  <2> QED
    BY <2>1, <2>2 DEF RequestInv
<1>7. CASE /\ p.kind[h] # "scalar" /\ taken'[r] = taken[r] \cup ids /\ ready'[r] = rd2
           /\ pc'[r] = IF rd2[h] = <<>> THEN "restore" ELSE "select"
           /\ UNCHANGED answer
  <2> DEFINE tk2 == taken[r] \cup ids
  <2>1. /\ WalkOf(p, at[r], "select", tk2, rd2, built[r], disclosures[r], outcomes[r])
        /\ rd2[h] = <<>> =>
             WalkOf(p, at[r], "restore", tk2, rd2, built[r], disclosures[r], outcomes[r])
    <3>1. p.kind[h] # "scalar"
      BY <1>7
    <3> QED
      BY <1>1, <1>3, <3>1, WalkGathers
  <2>2. taken'[r] = tk2 /\ ready'[r] = rd2
        /\ pc'[r] = IF rd2[h] = <<>> THEN "restore" ELSE "select"
    BY <1>7
  <2>3. OnItsWay(r)'
    <3> HIDE DEF tk2, rd2, h
    <3> QED
      BY <1>2, <2>1, <2>2 DEF OnItsWay
  <2>4. Leased(r)' /\ AllSpawned(r)' /\ AnsweredWell(r)'
    BY <1>1, <1>2, <1>7 DEF RequestInv, Leased, AllSpawned, AnsweredWell
  <2> QED
    BY <2>3, <2>4 DEF RequestInv
<1>8. \/ /\ p.kind[h] = "scalar" /\ pc'[r] = "leave"
         /\ UNCHANGED <<taken, ready, answer>>
      \/ /\ p.kind[h] # "scalar" /\ taken'[r] = taken[r] \cup ids /\ ready'[r] = rd2
         /\ pc'[r] = IF rd2[h] = <<>> THEN "restore" ELSE "select"
         /\ UNCHANGED answer
  BY <1>5 DEF Gather, Here, Goto, DecoyEntries, IInv, Shape, PerRequest
<1> QED
  BY <1>6, <1>7, <1>8

LEMMA LeaveKeeps ==
  ASSUME IInv, NEW r \in Requests, Leave(r)
  PROVE  RequestInv(r)'
<1> DEFINE p == plan[r]
           h == PostOrder[p][at[r]]
           id == DisclosureId[p][h]
           up == Parent[p][h]
           rd2 == [ready[r] EXCEPT ![up] =
                     Append(@, [job |-> id, ordinal |-> Ordinal[p][id],
                                value |-> Assembled(p, h)])]
<1>1. p \in Plans /\ RequestInv(r)
  BY DEF IInv, Shape
<1>2. /\ pc[r] = "leave" /\ h # 1 /\ at'[r] = at[r] + 1
      /\ UNCHANGED <<plan, built, disclosures, outcomes, lease, spawned, spawnFailed, thread>>
  BY DEF Leave, Here, executor, IInv, Shape, PerRequest
<1>3. WalkOf(p, at[r], "leave", taken[r], ready[r], built[r], disclosures[r], outcomes[r])
  BY <1>1, <1>2 DEF RequestInv, OnItsWay
<1>4. Inside(r, h) = Assembled(p, h)
  <2>1. SeenIn(p, h, built[r]) = Assembled(p, h)
    BY <1>1, <1>3, SeenInside
  <2> QED
    BY <2>1 DEF SeenIn, Inside
<1>5. /\ ~ p.sd[h] =>
           WalkOf(p, at[r] + 1, "gather", taken[r], ready[r], built[r], disclosures[r], outcomes[r])
      /\ p.sd[h] =>
           /\ id \notin taken[r] /\ id \in DOMAIN Jobs[p] /\ Jobs[p][id] = DisclosureJob(p, h)
           /\ WalkOf(p, at[r] + 1, "gather", taken[r] \cup {id}, rd2, built[r],
                     disclosures[r], outcomes[r])
  BY <1>1, <1>2, <1>3, WalkLeaves
<1>6. p.sd[h] => Takes(r, {id}, h, DisclosureKind(p, h))
  BY <1>5 DEF Takes, DisclosureJob
<1>7. /\ pc'[r] = "gather" /\ UNCHANGED answer
      /\ \/ ~ p.sd[h] /\ UNCHANGED <<taken, ready>>
         \/ p.sd[h] /\ taken'[r] = taken[r] \cup {id} /\ ready'[r] = rd2
  <2>1. \/ ~ p.sd[h] /\ Goto(r, "gather") /\ UNCHANGED <<taken, ready, answer>>
        \/ /\ p.sd[h]
           /\ taken' = [taken EXCEPT ![r] = @ \cup {id}]
           /\ ready' = [ready EXCEPT ![r][up] =
                          Append(@, [job |-> id, ordinal |-> Ordinal[p][id], value |-> Inside(r, h)])]
           /\ Goto(r, "gather")
           /\ UNCHANGED answer
    <3>1. Here(r) = h
      BY DEF Here
    <3> HIDE DEF h
    <3> QED
      BY <1>6, <3>1 DEF Leave
  <2>2. PerRequest(pc) /\ PerRequest(taken) /\ PerRequest(ready)
    BY DEF IInv, Shape
  <2> HIDE DEF h, id, up
  <2> QED
    BY <1>4, <2>1, <2>2 DEF Goto, PerRequest
<1>8. WalkOf(p, at'[r], "gather", taken'[r], ready'[r], built[r], disclosures[r], outcomes[r])
  BY <1>2, <1>5, <1>7
<1>9. OnItsWay(r)'
  BY <1>2, <1>7, <1>8 DEF OnItsWay
<1>10. Leased(r)' /\ AllSpawned(r)' /\ AnsweredWell(r)'
  BY <1>1, <1>2, <1>7 DEF RequestInv, Leased, AllSpawned, AnsweredWell
<1> QED
  BY <1>9, <1>10 DEF RequestInv

(* A walk that ends has put the serial assembly together.                  *)
LEMMA FinishKeeps ==
  ASSUME IInv, NEW r \in Requests, Finish(r)
  PROVE  RequestInv(r)'
<1> DEFINE p == plan[r]
           ds == disclosures[r]
           chosen == [o \in DOMAIN ds |-> CHOOSE d \in ds[o] : TRUE]
           a == [kind |-> "assembly", claims |-> Inside(r, 1), disclosures |-> chosen]
<1>1. p \in Plans /\ RequestInv(r)
  BY DEF IInv, Shape
<1>2. /\ pc[r] = "leave" /\ PostOrder[p][at[r]] = 1
      /\ UNCHANGED <<plan, lease, spawned, spawnFailed, thread>>
  BY DEF Finish, Here, walk, executor
<1>3. WalkOf(p, at[r], "leave", taken[r], ready[r], built[r], ds, outcomes[r])
  BY <1>1, <1>2 DEF RequestInv, OnItsWay
<1>4. /\ taken[r] = DOMAIN Jobs[p] /\ \A o \in DOMAIN ds : ds[o] # {}
      /\ chosen = SerialAssembly[p].disclosures
      /\ SeenIn(p, 1, built[r]) = SerialAssembly[p].claims
  BY <1>1, <1>2, <1>3, WalkFinishes
<1>5. pc'[r] = "done" /\ answer'[r] = a
  BY <1>4 DEF Finish, Answer, Goto, IInv, Shape, PerRequest
<1> HIDE DEF chosen
<1>6. a.kind = "assembly" /\ a.claims = Inside(r, 1) /\ a.disclosures = chosen
  OBVIOUS
<1>7. Inside(r, 1) = SerialAssembly[p].claims
  BY <1>4 DEF SeenIn, Inside
<1>8. AnsweredWell(r)'
  BY <1>2, <1>4, <1>5, <1>6, <1>7 DEF AnsweredWell
<1> QED
  BY <1>2, <1>5, <1>8, AnswersKeep

-----------------------------------------------------------------------------
(* The steps of a ready batch.                                             *)

(* A lease is taken for two workers at least, and no more than there are   *)
(* permits in all.                                                         *)
LEMMA WorkersWithinCapacity ==
  ASSUME NEW r \in Requests, NEW t \in ThreadCounts, Parallel(r, t), Len(Batch(r)) \in Nat
  PROVE  WorkerCount(r, t) \in 2..Capacity
<1> DEFINE b == Len(Batch(r))
<1>1. Capacity \in Nat /\ t \in Nat /\ b \in Nat
  BY Constants
<1>2. WorkerCount(r, t) >= 2 /\ WorkerCount(r, t) = Lesser(Lesser(t, Capacity), b)
  BY DEF Parallel, WorkerCount
<1> HIDE DEF b
<1>3. Lesser(t, Capacity) \in Nat /\ Lesser(t, Capacity) <= Capacity
  BY <1>1 DEF Lesser
<1> QED
  BY <1>1, <1>2, <1>3 DEF Lesser

(* What the walk says of the batch at hand.                                *)
LEMMA BatchAtHand ==
  ASSUME IInv, NEW r \in Requests, pc[r] \in Batching
  PROVE  /\ plan[r] \in Plans
         /\ WalkOf(plan[r], at[r], pc[r], taken[r], ready[r], built[r], disclosures[r], outcomes[r])
         /\ Batch(r) = ready[r][PostOrder[plan[r]][at[r]]]
         /\ Len(Batch(r)) \in Nat /\ SubSeq(Batch(r), 1, Len(Batch(r))) = Batch(r)
<1> DEFINE b == ready[r][PostOrder[plan[r]][at[r]]]
<1>1. plan[r] \in Plans
  BY DEF IInv, Shape
<1>2. WalkOf(plan[r], at[r], pc[r], taken[r], ready[r], built[r], disclosures[r], outcomes[r])
  BY DEF IInv, RequestInv, OnItsWay, Batching
<1>3. Len(b) \in Nat /\ SubSeq(b, 1, Len(b)) = b
  BY <1>1, <1>2, BatchOf
<1>4. Batch(r) = b
  BY DEF Batch, Here
<1> QED
  BY <1>1, <1>2, <1>3, <1>4

LEMMA SelectKeeps ==
  ASSUME IInv, NEW r \in Requests, NEW t \in ThreadCounts, Select(r, t)
  PROVE  RequestInv(r)'
<1> DEFINE n == WorkerCount(r, t)
           b == ready[r][PostOrder[plan[r]][at[r]]]
<1>1. /\ pc[r] = "select"
      /\ UNCHANGED <<plan, at, taken, ready, built, disclosures, spawned, spawnFailed, thread, answer>>
  BY DEF Select, walk
<1>2. pc[r] \in Batching /\ RequestInv(r)
  BY <1>1 DEF Batching, IInv
<1>3. /\ plan[r] \in Plans
      /\ WalkOf(plan[r], at[r], "select", taken[r], ready[r], built[r], disclosures[r], outcomes[r])
      /\ Batch(r) = b /\ Len(Batch(r)) \in Nat
  BY <1>1, <1>2, BatchAtHand
<1>4. AnsweredWell(r)'
  BY <1>1, <1>2 DEF RequestInv, AnsweredWell
<1>5. AllSpawned(r)'
  <2>1. pc'[r] # "join" /\ spawnFailed[r] = FALSE
    BY <1>1, <1>2 DEF Select, Serially, Leases, Goto, RequestInv, AllSpawned, IInv, Shape, PerRequest
  <2> QED
    BY <1>1, <2>1 DEF AllSpawned
<1>6. CASE Serially(r)
  <2>1. outcomes'[r] = b /\ pc'[r] = "restore" /\ UNCHANGED lease
    BY <1>3, <1>6 DEF Serially, Goto, IInv, Shape, PerRequest
  <2>2. WalkOf(plan[r], at[r], "restore", taken[r], ready[r], built[r], disclosures[r], b)
    BY <1>3, WalkCollects
  <2>3. OnItsWay(r)'
    BY <1>1, <2>1, <2>2 DEF OnItsWay
  <2>4. Leased(r)'
    BY <1>1, <1>2, <2>1 DEF RequestInv, Leased
  <2> QED
    BY <1>4, <1>5, <2>3, <2>4 DEF RequestInv
<1>7. CASE Parallel(r, t) /\ Leases(r, n)
  <2>1. n \in 2..Capacity
    BY <1>3, <1>7, WorkersWithinCapacity
  <2>2. lease'[r] = n /\ pc'[r] = "spawn" /\ UNCHANGED outcomes
    BY <1>7 DEF Leases, Goto, IInv, Shape, PerRequest
  <2>3. OnItsWay(r)'
    BY <1>1, <1>3, <2>2, WalkMoves DEF OnItsWay
  <2>4. /\ spawned[r] = 0 /\ thread[r] \in [1..Capacity -> ThreadStates]
        /\ \A k \in 1..Capacity : thread[r][k] = "none" <=> k > spawned[r]
    <3>1. lease[r] = 0 /\ spawned[r] \in 0..lease[r]
      BY <1>1, <1>2 DEF RequestInv, Leased
    <3> QED
      BY <1>2, <3>1 DEF RequestInv, Leased
  <2> HIDE DEF n
  <2>5. Leased(r)'
    BY <1>1, <2>1, <2>2, <2>4 DEF Leased
  <2> QED
    BY <1>4, <1>5, <2>3, <2>5 DEF RequestInv
<1> QED
  BY <1>6, <1>7 DEF Select

(* While there are chunks left, there are permits left for their threads.  *)
LEMMA ThreadsFit ==
  ASSUME IInv, NEW r \in Requests, pc[r] = "spawn", MoreChunks(r)
  PROVE  lease[r] \in 2..Capacity /\ spawned[r] \in Nat /\ spawned[r] < lease[r]
<1> DEFINE n == Len(Batch(r))
           w == lease[r]
<1>1. w \in 2..Capacity /\ spawned[r] \in 0..w /\ Capacity \in Nat
  BY Constants DEF IInv, RequestInv, Leased
<1>2. n \in Nat
  BY BatchAtHand DEF Batching
<1>3. Workers(r) = w
  BY <1>1 DEF Workers, Lesser
<1>4. ChunkSize(r) = Ceiling(n, w)
  BY <1>3 DEF ChunkSize, Ceiling
<1>5. spawned[r] * Ceiling(n, w) < n
  BY <1>4 DEF MoreChunks
<1> HIDE DEF n, w
<1>6. w \in Nat \ {0} /\ spawned[r] \in Nat
  BY <1>1
<1>7. spawned[r] < w
  BY <1>2, <1>5, <1>6, CeilingBounds
<1> QED
  BY <1>1, <1>6, <1>7 DEF w

LEMMA SpawnKeeps ==
  ASSUME IInv, NEW r \in Requests, Spawn(r)
  PROVE  RequestInv(r)'
<1>1. /\ pc[r] = "spawn" /\ MoreChunks(r)
      /\ UNCHANGED <<plan, at, taken, ready, built, disclosures, outcomes, lease, answer>>
  BY DEF Spawn, walk
<1>2. plan[r] \in Plans /\ RequestInv(r)
      /\ WalkOf(plan[r], at[r], "spawn", taken[r], ready[r], built[r], disclosures[r], outcomes[r])
  BY <1>1 DEF IInv, Shape, RequestInv, OnItsWay
<1>3. AnsweredWell(r)'
  BY <1>1, <1>2 DEF RequestInv, AnsweredWell
<1>4. /\ lease[r] \in 2..Capacity /\ Capacity \in Nat /\ spawned[r] \in Nat
      /\ spawned[r] < lease[r] /\ ~ spawnFailed[r]
      /\ thread[r] \in [1..Capacity -> ThreadStates]
      /\ \A k \in 1..Capacity : thread[r][k] = "none" <=> k > spawned[r]
  BY <1>1, <1>2, ThreadsFit, Constants DEF RequestInv, Leased, AllSpawned
<1>5. CASE /\ spawned'[r] = spawned[r] + 1
           /\ thread'[r] = [thread[r] EXCEPT ![spawned[r] + 1] = "running"]
           /\ UNCHANGED <<pc, spawnFailed>>
  <2>1. OnItsWay(r)'
    BY <1>1, <1>2, <1>5 DEF OnItsWay
  <2>2. spawned'[r] \in 0..lease[r] /\ spawned[r] + 1 \in 1..Capacity
    BY <1>4, <1>5
  <2>3. thread'[r] \in [1..Capacity -> ThreadStates]
    BY <1>4, <1>5 DEF ThreadStates
  <2>4. \A k \in 1..Capacity : thread'[r][k] = "none" <=> k > spawned'[r]
    BY <1>4, <1>5, <2>2
  <2>5. Leased(r)'
    BY <1>1, <1>4, <1>5, <2>2, <2>3, <2>4 DEF Leased
  <2>6. AllSpawned(r)'
    BY <1>1, <1>2, <1>5 DEF RequestInv, AllSpawned
  <2> QED
    BY <1>3, <2>1, <2>5, <2>6 DEF RequestInv
<1>6. CASE /\ spawnFailed'[r] = TRUE /\ pc'[r] = "join"
           /\ UNCHANGED <<spawned, thread>>
  <2>1. OnItsWay(r)'
    BY <1>1, <1>2, <1>6, WalkMoves DEF OnItsWay
  <2>2. Leased(r)'
    BY <1>1, <1>2, <1>6 DEF RequestInv, Leased
  <2>3. AllSpawned(r)'
    BY <1>6 DEF AllSpawned
  <2> QED
    BY <1>3, <2>1, <2>2, <2>3 DEF RequestInv
<1>7. \/ /\ spawned'[r] = spawned[r] + 1
         /\ thread'[r] = [thread[r] EXCEPT ![spawned[r] + 1] = "running"]
         /\ UNCHANGED <<pc, spawnFailed>>
      \/ /\ spawnFailed'[r] = TRUE /\ pc'[r] = "join"
         /\ UNCHANGED <<spawned, thread>>
  BY DEF Spawn, Goto, IInv, Shape, PerRequest
<1> QED
  BY <1>5, <1>6, <1>7

LEMMA SpawnEndKeeps ==
  ASSUME IInv, NEW r \in Requests, SpawnEnd(r)
  PROVE  RequestInv(r)'
<1>1. /\ pc[r] = "spawn" /\ pc'[r] = "join" /\ ~ MoreChunks(r)
      /\ UNCHANGED <<plan, at, taken, ready, built, disclosures, outcomes>>
      /\ UNCHANGED <<lease, spawned, spawnFailed, thread, answer>>
  BY DEF SpawnEnd, Goto, walk, executor, IInv, Shape, PerRequest
<1>2. plan[r] \in Plans /\ RequestInv(r)
      /\ WalkOf(plan[r], at[r], "spawn", taken[r], ready[r], built[r], disclosures[r], outcomes[r])
  BY <1>1 DEF IInv, Shape, RequestInv, OnItsWay
<1>3. OnItsWay(r)'
  BY <1>1, <1>2, WalkMoves DEF OnItsWay
<1>4. Leased(r)' /\ AnsweredWell(r)'
  BY <1>1, <1>2 DEF RequestInv, Leased, AnsweredWell
<1>5. ~ MoreChunks(r)'
  BY <1>1 DEF MoreChunks, ChunkSize, Workers, Batch, Here
<1>6. AllSpawned(r)'
  BY <1>1, <1>2, <1>5 DEF RequestInv, AllSpawned
<1> QED
  BY <1>3, <1>4, <1>6 DEF RequestInv

LEMMA WorkerEndsKeeps ==
  ASSUME IInv, NEW r \in Requests, NEW k \in 1..Capacity, WorkerEnds(r, k)
  PROVE  RequestInv(r)'
<1>1. /\ thread[r][k] = "running" /\ RequestInv(r)
      /\ UNCHANGED <<plan, at, pc, taken, ready, built, disclosures, outcomes>>
      /\ UNCHANGED <<lease, spawned, spawnFailed, answer>>
  BY DEF WorkerEnds, walk, IInv
<1>2. PICK end \in {"finished", "panicked"} : thread'[r] = [thread[r] EXCEPT ![k] = end]
  BY DEF WorkerEnds, IInv, Shape, PerRequest
<1>3. OnItsWay(r)' /\ AnsweredWell(r)'
  BY <1>1 DEF RequestInv, OnItsWay, AnsweredWell
<1>4. Leased(r)'
  <2>1. thread'[r] \in [1..Capacity -> ThreadStates]
    BY <1>1, <1>2 DEF RequestInv, Leased, ThreadStates
  <2>2. \A i \in 1..Capacity : thread'[r][i] = "none" <=> i > spawned[r]
    BY <1>1, <1>2 DEF RequestInv, Leased
  <2> QED
    BY <1>1, <2>1, <2>2 DEF RequestInv, Leased
<1>5. AllSpawned(r)'
  BY <1>1 DEF RequestInv, AllSpawned, MoreChunks, ChunkSize, Workers, Batch, Here
<1> QED
  BY <1>3, <1>4, <1>5 DEF RequestInv

(* What threads return for every chunk, in the order of the chunks, is the *)
(* batch.                                                                  *)
LEMMA ExecuteEndKeeps ==
  ASSUME IInv, NEW r \in Requests, ExecuteEnd(r)
  PROVE  RequestInv(r)'
<1> DEFINE b == ready[r][PostOrder[plan[r]][at[r]]]
<1>1. /\ pc[r] = "join" /\ spawned'[r] = 0 /\ spawnFailed'[r] = FALSE
      /\ thread'[r] = NoThreads /\ lease'[r] = 0
      /\ UNCHANGED <<plan, at, taken, ready, built, disclosures>>
  BY DEF ExecuteEnd, Collect, Drops, walk, IInv, Shape, PerRequest
<1>2. /\ plan[r] \in Plans
      /\ WalkOf(plan[r], at[r], "join", taken[r], ready[r], built[r], disclosures[r], outcomes[r])
      /\ Batch(r) = b /\ Len(Batch(r)) \in Nat /\ SubSeq(Batch(r), 1, Len(Batch(r))) = Batch(r)
  BY <1>1, BatchAtHand DEF Batching
<1>3. RequestInv(r)
  BY DEF IInv
<1>4. NoThreads \in [1..Capacity -> ThreadStates] /\ \A k \in 1..Capacity : NoThreads[k] = "none"
  BY DEF NoThreads, ThreadStates
<1>5. pc'[r] \in {"done", "restore"} => Leased(r)' /\ AllSpawned(r)'
  <2>1. \A k \in 1..Capacity : thread'[r][k] = "none" <=> k > spawned'[r]
    BY <1>1, <1>4, Constants
  <2>2. thread'[r] \in [1..Capacity -> ThreadStates] /\ spawned'[r] \in 0..lease'[r]
    BY <1>1, <1>4
  <2>3. pc'[r] \in {"done", "restore"} => Leased(r)'
    BY <1>1, <2>1, <2>2 DEF Leased
  <2>4. pc'[r] \in {"done", "restore"} => AllSpawned(r)'
    BY <1>1 DEF AllSpawned
  <2> QED
    BY <2>3, <2>4
<1>6. CASE pc'[r] = "done" /\ answer'[r] = [kind |-> "executor failed"]
  <2>1. AnsweredWell(r)'
    <3>1. \A why : [kind |-> why].kind = why
      OBVIOUS
    <3>2. answer'[r].kind = "executor failed"
      BY <1>6, <3>1
    <3> QED
      BY <3>2 DEF AnsweredWell
  <2>2. OnItsWay(r)'
    BY <1>6 DEF OnItsWay
  <2> QED
    BY <1>5, <1>6, <2>1, <2>2 DEF RequestInv
<1>7. CASE /\ ~ spawnFailed[r] /\ outcomes'[r] = Returned(r) /\ pc'[r] = "restore"
           /\ UNCHANGED answer
  <2>1. Returned(r) = b
    <3> DEFINE n == Len(Batch(r))
               s == spawned[r] * ChunkSize(r)
    <3>1. n \in Nat /\ s \in Nat
      <4>1. lease[r] \in 2..Capacity /\ spawned[r] \in 0..lease[r] /\ Capacity \in Nat
        BY <1>1, <1>3, Constants DEF RequestInv, Leased
      <4>2. Workers(r) = lease[r]
        BY <4>1 DEF Workers, Lesser
      <4>3. ChunkSize(r) = Ceiling(n, lease[r])
        BY <4>2 DEF ChunkSize, Ceiling
      <4> HIDE DEF n
      <4>4. n \in Nat /\ lease[r] \in Nat \ {0} /\ spawned[r] \in Nat
        BY <1>2, <4>1 DEF n
      <4>5. Ceiling(n, lease[r]) \in Nat
        BY <4>4, CeilingCovers
      <4> QED
        BY <4>3, <4>4, <4>5
    <3>2. ~ (s < n)
      BY <1>1, <1>3, <1>7 DEF RequestInv, AllSpawned, MoreChunks
    <3>3. Returned(r) = SubSeq(Batch(r), 1, Lesser(s, n))
      BY DEF Returned
    <3> HIDE DEF s, n
    <3>4. Lesser(s, n) = n
      BY <3>1, <3>2 DEF Lesser
    <3> QED
      BY <1>2, <3>3, <3>4 DEF n
  <2>2. WalkOf(plan[r], at[r], "restore", taken[r], ready[r], built[r], disclosures[r], b)
    BY <1>2, WalkCollects
  <2>3. OnItsWay(r)'
    BY <1>1, <1>7, <2>1, <2>2 DEF OnItsWay
  <2>4. AnsweredWell(r)'
    BY <1>1, <1>3, <1>7 DEF RequestInv, AnsweredWell
  <2> QED
    BY <1>5, <1>7, <2>3, <2>4 DEF RequestInv
<1>8. \/ pc'[r] = "done" /\ answer'[r] = [kind |-> "executor failed"]
      \/ /\ ~ spawnFailed[r] /\ outcomes'[r] = Returned(r) /\ pc'[r] = "restore"
         /\ UNCHANGED answer
  BY DEF ExecuteEnd, Collect, Fails, Answer, Goto, IInv, Shape, PerRequest
<1> QED
  BY <1>6, <1>7, <1>8

LEMMA RestoreKeeps ==
  ASSUME IInv, NEW r \in Requests, Restore(r)
  PROVE  RequestInv(r)'
<1> DEFINE p == plan[r]
           h == PostOrder[p][at[r]]
           b == ready[r][h]
           bt == built[r]
           ds == disclosures[r]
           rd2 == Emptied(h, ready[r])
           bt2 == BuiltWith(h, b, bt)
           ds2 == RecordedWith(b, ds)
<1>1. /\ pc[r] = "restore" /\ outcomes'[r] = <<>>
      /\ UNCHANGED <<plan, at, taken, lease, spawned, spawnFailed, thread>>
  BY DEF Restore, IInv, Shape, PerRequest
<1>2. p \in Plans /\ RequestInv(r) /\ Batch(r) = b /\ Here(r) = h
      /\ WalkOf(p, at[r], "restore", taken[r], ready[r], bt, ds, outcomes[r])
  BY <1>1, BatchAtHand DEF Batching, IInv, Here
<1>3. /\ outcomes[r] = b
      /\ FitsPlaces(p, b, ds)
      /\ WalkOf(p, at[r], "leave", taken[r], rd2, bt2, ds2, <<>>)
  BY <1>2, WalkRestores
<1>4. /\ ToSet(outcomes[r]) = ToSet(Batch(r))
      /\ \A o \in DOMAIN disclosures[r] : Recordable(r, o)
  BY <1>2, <1>3 DEF Recordable, Restored, FitsPlaces
<1>5. /\ disclosures' = [disclosures EXCEPT ![r] = [o \in DOMAIN @ |->
            @[o] \cup {[job |-> j.job, value |-> j.value] : j \in Restored(r, o)}]]
      /\ built' = [built EXCEPT ![r] = [m \in DOMAIN @ \cup {Here(r)} |->
            IF m = Here(r) THEN RestoredDigests(r) ELSE @[m]]]
      /\ ready' = [ready EXCEPT ![r][Here(r)] = <<>>]
      /\ Goto(r, "leave")
      /\ UNCHANGED answer
  BY <1>4 DEF Restore
<1>6. PerRequest(pc) /\ PerRequest(ready) /\ PerRequest(built) /\ PerRequest(disclosures)
  BY DEF IInv, Shape
<1>7. pc'[r] = "leave" /\ ready'[r] = rd2
  BY <1>2, <1>5, <1>6 DEF Goto, PerRequest, Emptied
<1>8. built'[r] = bt2
  BY <1>2, <1>5, <1>6 DEF PerRequest, RestoredDigests, BuiltWith
<1>9. disclosures'[r] = ds2
  BY <1>2, <1>5, <1>6 DEF PerRequest, Restored, RecordedWith
<1>10. OnItsWay(r)'
  <2> HIDE DEF rd2, bt2, ds2
  <2> QED
    BY <1>1, <1>3, <1>7, <1>8, <1>9 DEF OnItsWay
<1>11. Leased(r)' /\ AllSpawned(r)' /\ AnsweredWell(r)'
  BY <1>1, <1>2, <1>5, <1>7 DEF RequestInv, Leased, AllSpawned, AnsweredWell
<1> QED
  BY <1>10, <1>11 DEF RequestInv

-----------------------------------------------------------------------------
(* Permits are neither lost nor made.                                      *)

LEMMA LeasesAreNumbers ==
  ASSUME IInv
  PROVE  lease \in [Requests -> Nat] /\ \A r \in Requests : lease[r] \in 0..Capacity
<1>1. ASSUME NEW r \in Requests PROVE lease[r] \in 0..Capacity
  BY Constants DEF IInv, RequestInv, Leased
<1> QED
  BY <1>1 DEF IInv, Shape, PerRequest

LEMMA StepsConserve ==
  ASSUME IInv, NEW r \in Requests, CallerStep(r) \/ \E k \in 1..Capacity : WorkerEnds(r, k)
  PROVE  Conserved'
<1> DEFINE Out(f) == Cardinality(PermitsOf(Requests, Capacity, f))
<1>1. /\ lease \in [Requests -> Nat] /\ lease[r] \in 0..Capacity
      /\ available \in Nat /\ available + Out(lease) = Capacity
  BY LeasesAreNumbers DEF IInv, Conserved
<1>2. Out(lease) \in Nat
  BY <1>1, Constants, PermitsFinite
<1>3. CASE UNCHANGED <<available, lease>>
  BY <1>1, <1>3 DEF Conserved
<1>4. ASSUME NEW t \in ThreadCounts, Select(r, t) PROVE Conserved'
  <2> DEFINE n == WorkerCount(r, t)
  <2>1. CASE Serially(r)
    BY <1>3, <2>1 DEF Serially
  <2>2. CASE Parallel(r, t) /\ n <= available /\ Leases(r, n)
    <3>1. pc[r] = "select"
      BY <1>4 DEF Select
    <3>2. n \in 2..Capacity
      BY <2>2, <3>1, WorkersWithinCapacity, BatchAtHand DEF Batching
    <3>3. lease[r] = 0
      BY <3>1 DEF IInv, RequestInv, Leased
    <3>4. available' = available - n /\ lease' = [lease EXCEPT ![r] = n] /\ n <= available
      BY <2>2 DEF Leases
    <3> HIDE DEF n
    <3>5. n \in 0..Capacity /\ Capacity \in Nat
      BY <3>2, Constants
    <3>6. Out([lease EXCEPT ![r] = n]) = Out(lease) + n
      BY <1>1, <3>3, <3>5, Constants, PermitsGrow
    <3>7. available' \in Nat /\ available' + Out(lease') = Capacity
      <4> HIDE DEF Out
      <4> QED
        BY <1>1, <1>2, <3>4, <3>5, <3>6
    <3> QED
      BY <3>7 DEF Conserved
  <2> QED
    BY <1>4, <2>1, <2>2 DEF Select
<1>5. CASE ExecuteEnd(r)
  <2>1. available' = available + lease[r] /\ lease' = [lease EXCEPT ![r] = 0]
    BY <1>5 DEF ExecuteEnd, Drops
  <2>2. Out([lease EXCEPT ![r] = 0]) = Out(lease) - lease[r]
    BY <1>1, Constants, PermitsShrink
  <2>3. available' \in Nat /\ available' + Out(lease') = Capacity
    <3> HIDE DEF Out
    <3> QED
      BY <1>1, <1>2, <2>1, <2>2
  <2> QED
    BY <2>3 DEF Conserved
<1>6. \/ UNCHANGED <<available, lease>>
      \/ \E t \in ThreadCounts : Select(r, t)
      \/ ExecuteEnd(r)
  BY DEF CallerStep, WorkerEnds, Begin, IssueSerially, Gather, Leave, Finish, Spawn, SpawnEnd,
     Restore, executor
<1> QED
  BY <1>3, <1>4, <1>5, <1>6

-----------------------------------------------------------------------------
LEMMA StepsKeep ==
  ASSUME IInv, NEW r \in Requests, CallerStep(r) \/ \E k \in 1..Capacity : WorkerEnds(r, k)
  PROVE  RequestInv(r)'
<1>1. CASE CallerStep(r)
  BY <1>1, BeginKeeps, IssueSeriallyKeeps, GatherKeeps, LeaveKeeps, FinishKeeps, SelectKeeps,
     SpawnKeeps, SpawnEndKeeps, ExecuteEndKeeps, RestoreKeeps DEF CallerStep
<1>2. CASE \E k \in 1..Capacity : WorkerEnds(r, k)
  BY <1>2, WorkerEndsKeeps
<1> QED
  BY <1>1, <1>2

LEMMA NextHolds == IInv /\ [Next]_vars => IInv'
<1> SUFFICES ASSUME IInv, [Next]_vars PROVE IInv'
  OBVIOUS
<1>1. CASE UNCHANGED vars
  <2>1. UNCHANGED <<available, lease>> /\ \A q \in Requests : UNCHANGED Row(q)
    BY <1>1 DEF vars, walk, executor, Row
  <2>2. \A q \in Requests : RequestInv(q)'
    BY <2>1, RowKept DEF IInv
  <2>3. Conserved'
    BY <2>1 DEF IInv, Conserved
  <2>4. Shape'
    BY <1>1 DEF IInv, Shape, PerRequest, vars, walk, executor
  <2> QED
    BY <2>2, <2>3, <2>4 DEF IInv
<1>2. CASE Next
  <2>1. PICK r \in Requests : CallerStep(r) \/ \E k \in 1..Capacity : WorkerEnds(r, k)
    BY <1>2 DEF Next
  <2>2. RequestInv(r)' /\ Conserved' /\ Apart(r)
    BY <2>1, StepsKeep, StepsConserve, StepsApart
  <2>3. \A q \in Requests \ {r} : RequestInv(q)'
    BY <2>2, RowKept DEF Apart, IInv
  <2> QED
    BY <2>2, <2>3 DEF Apart, IInv
<1> QED
  BY <1>1, <1>2

(* While a request issues, the state of its walk is a function of how far  *)
(* it is: whatever executed its batches, nothing is missing, nothing is    *)
(* out of place, and a lease is held exactly while its threads run.        *)
THEOREM Invariance == Spec => []IInv
BY InitHolds, NextHolds, PTL DEF Spec

(* Whatever an issuance executed its batches with, in any process with any *)
(* number of requests, what it yields is the serial assembly of its plan:  *)
(* the digest lists of the claims and every disclosure under its ordinal.  *)
THEOREM Serializable == Spec => []SameAsSerial
<1>1. IInv => SameAsSerial
  BY DEF IInv, RequestInv, AnsweredWell, SameAsSerial
<1> QED
  BY Invariance, <1>1, PTL

(* No issuance of a plan the planner lays out is refused: the tree of the  *)
(* plan and its registry agree, every batch fits its places, and every job *)
(* and every disclosure is there in the end.                               *)
THEOREM PlansAccepted == Spec => []NeverInvalid
<1>1. IInv => NeverInvalid
  BY DEF IInv, RequestInv, AnsweredWell, NeverInvalid
<1> QED
  BY Invariance, <1>1, PTL

(* Permits of the process-wide budget are conserved through failed spawns  *)
(* and panics, and every thread that runs has a permit of its request.     *)
THEOREM ThreadsBounded == Spec => []ThreadsWithinBudget
<1>1. ASSUME IInv PROVE ThreadsWithinBudget
  <2>1. available + Cardinality(PermitsOf(Requests, Capacity, lease)) = Capacity
    BY <1>1 DEF IInv, Conserved
  <2>2. ASSUME NEW r \in Requests, NEW k \in 1..Capacity, thread[r][k] = "running"
        PROVE  k <= lease[r]
    <3>1. lease[r] \in Nat /\ spawned[r] \in 0..lease[r] /\ ~ (k > spawned[r])
      BY <1>1, <2>2, LeasesAreNumbers DEF IInv, RequestInv, Leased
    <3> QED
      BY <3>1
  <2>3. {q \in Requests \X (1..Capacity) : thread[q[1]][q[2]] = "running"}
          \subseteq PermitsOf(Requests, Capacity, lease)
    BY <2>2 DEF PermitsOf
  <2> QED
    BY <2>1, <2>3 DEF ThreadsWithinBudget
<1> QED
  BY Invariance, <1>1, PTL

-----------------------------------------------------------------------------
(* Restoration judges a batch by its outcomes, not by their order, for     *)
(* batches and outcomes of any number. The invariant says what the loop    *)
(* knows of the outcomes it has seen; a slot holds the first of its        *)
(* identity, so that misplacement is known exactly unless an identity was  *)
(* repeated, which takes precedence anyway.                                *)

Seen == {i \in Outcomes : i < next}

RestorationTyped ==
  /\ expected \in Seq([job : JobIds, place : Places])
  /\ arrived \in Seq([job : JobIds, place : Places, result : Results])
  /\ next \in Nat \ {0}
  /\ slots \in [Slots -> Nat]
  /\ unexpected \in BOOLEAN /\ duplicate \in BOOLEAN /\ misplaced \in BOOLEAN

FlagsKnow ==
  Unique =>
    /\ unexpected <=> \E i \in Seen : \A k \in Slots : ~ Fits(arrived[i], k)
    /\ duplicate <=> \E i, j \in Seen, k \in Slots :
                        i # j /\ Fits(arrived[i], k) /\ Fits(arrived[j], k)
    /\ misplaced => \E i \in Seen, k \in Slots :
                       Fits(arrived[i], k) /\ ~ AtItsPlace(arrived[i], k)
    /\ (\E k \in Slots : slots[k] # 0 /\ ~ AtItsPlace(arrived[slots[k]], k)) => misplaced

SlotsKnow ==
  Unique =>
    \A k \in Slots :
      /\ slots[k] = 0 => \A i \in Seen : ~ Fits(arrived[i], k)
      /\ slots[k] # 0 => slots[k] \in Seen /\ Fits(arrived[slots[k]], k)

VerdictKnows ==
  /\ verdict # Undecided /\ Unique => Seen = Outcomes
  /\ PrecedenceIndependentOfOrder
  /\ RestoresExactly

RestorationInv == RestorationTyped /\ FlagsKnow /\ SlotsKnow /\ VerdictKnows

(* What it is to be a sequence.                                            *)
LEMMA SeqType ==
  ASSUME NEW S, NEW s \in Seq(S)
  PROVE  Len(s) \in Nat /\ DOMAIN s = 1..Len(s) /\ \A i \in DOMAIN s : s[i] \in S
OBVIOUS

(* The places of the outcomes and of the identities.                       *)
LEMMA Indices ==
  ASSUME RestorationTyped
  PROVE  /\ Len(arrived) \in Nat /\ Outcomes = 1..Len(arrived)
         /\ Len(expected) \in Nat /\ Slots = 1..Len(expected)
         /\ \A i \in Outcomes : arrived[i] \in [job : JobIds, place : Places, result : Results]
         /\ \A k \in Slots : expected[k] \in [job : JobIds, place : Places]
BY SeqType, Zenon DEF RestorationTyped, Outcomes, Slots

(* While the verdict is open there is nothing to show of it.               *)
LEMMA Open == ASSUME verdict = Undecided PROVE VerdictKnows
BY DEF VerdictKnows, PrecedenceIndependentOfOrder, RestoresExactly, Undecided

(* Nothing is known before the loop.                                       *)
LEMMA InitRestoration == RestorationInit => RestorationInv
<1> SUFFICES ASSUME RestorationInit PROVE RestorationInv
  OBVIOUS
<1>1. RestorationTyped
  <2>1. /\ expected \in Seq([job : JobIds, place : Places])
        /\ arrived \in Seq([job : JobIds, place : Places, result : Results])
    BY RestorationAssumption, Zenon DEF RestorationInit
  <2>2. slots \in [Slots -> Nat]
    BY DEF RestorationInit
  <2>3. next \in Nat \ {0}
    BY DEF RestorationInit
  <2>4. unexpected \in BOOLEAN /\ duplicate \in BOOLEAN /\ misplaced \in BOOLEAN
    BY DEF RestorationInit
  <2> QED BY <2>1, <2>2, <2>3, <2>4, Zenon DEF RestorationTyped
<1>2. Seen = {}
  BY <1>1, Indices DEF RestorationInit, Seen
<1>3. FlagsKnow
  BY <1>2 DEF RestorationInit, FlagsKnow
<1>4. SlotsKnow
  BY <1>2 DEF RestorationInit, SlotsKnow
<1>5. VerdictKnows
  BY Open DEF RestorationInit
<1> QED BY <1>1, <1>3, <1>4, <1>5 DEF RestorationInv

(* One more outcome has been seen.                                         *)
LEMMA SeenGrows ==
  ASSUME RestorationTyped, Working
  PROVE  /\ Seen' = Seen \cup {next} /\ next \notin Seen /\ next \in Outcomes
         /\ UNCHANGED <<expected, arrived, verdict>> /\ Slots' = Slots /\ Outcomes' = Outcomes
         /\ next' \in Nat \ {0} /\ verdict = Undecided /\ Unique
<1>1. next \in Nat \ {0} /\ next' = next + 1 /\ next \in Outcomes
  BY DEF RestorationTyped, Working, Outcomes
<1>2. UNCHANGED <<expected, arrived, verdict>> /\ verdict = Undecided /\ Unique
  BY DEF Working, inputs
<1>3. Slots' = Slots /\ Outcomes' = Outcomes
  BY <1>2 DEF Slots, Outcomes
<1>4. \A i \in Outcomes : i < next' <=> i < next \/ i = next
  BY <1>1, Indices
<1> QED BY <1>1, <1>2, <1>3, <1>4, Indices DEF Seen

(* A foreign identity.                                                     *)
LEMMA ForeignStep == ASSUME RestorationInv, Foreign PROVE RestorationInv'
<1>1. RestorationTyped /\ Working
  BY DEF RestorationInv, Foreign
<1>2. /\ \A k \in Slots : ~ Fits(arrived[next], k)
      /\ unexpected' = TRUE /\ UNCHANGED <<slots, duplicate, misplaced>>
  BY DEF Foreign
<1>3. RestorationTyped'
  BY <1>1, <1>2, SeenGrows DEF RestorationTyped
<1>4. FlagsKnow'
  BY <1>1, <1>2, SeenGrows DEF FlagsKnow, RestorationInv, Unique, Fits, AtItsPlace
<1>5. SlotsKnow'
  BY <1>1, <1>2, SeenGrows DEF SlotsKnow, RestorationInv, Unique, Fits
<1>6. VerdictKnows'
  <2>1. verdict' = Undecided
    BY <1>1, SeenGrows
  <2> QED BY <2>1 DEF VerdictKnows, PrecedenceIndependentOfOrder, RestoresExactly, Undecided
<1> QED BY <1>3, <1>4, <1>5, <1>6 DEF RestorationInv

(* An identity whose slot is taken.                                        *)
LEMMA RepeatedStep == ASSUME RestorationInv, Repeated PROVE RestorationInv'
<1>1. RestorationTyped /\ Working
  BY DEF RestorationInv, Repeated
<1>2. PICK k \in Slots : Fits(arrived[next], k) /\ slots[k] # 0
  BY DEF Repeated
<1>3. duplicate' = TRUE /\ UNCHANGED <<slots, unexpected, misplaced>>
  BY DEF Repeated
<1>4. RestorationTyped'
  BY <1>1, <1>3, SeenGrows DEF RestorationTyped
<1>5. Unique /\ slots[k] \in Seen /\ Fits(arrived[slots[k]], k)
  BY <1>1, <1>2, SeenGrows DEF SlotsKnow, RestorationInv
<1>6. \A j \in Slots : Fits(arrived[next], j) => j = k
  BY <1>2, <1>5 DEF Unique, Fits
<1>7. FlagsKnow'
  BY <1>1, <1>2, <1>3, <1>5, SeenGrows DEF FlagsKnow, RestorationInv, Unique, Fits, AtItsPlace
<1>8. SlotsKnow'
  BY <1>1, <1>2, <1>3, <1>6, SeenGrows DEF SlotsKnow, RestorationInv, Unique, Fits
<1>9. VerdictKnows'
  <2>1. verdict' = Undecided
    BY <1>1, SeenGrows
  <2> QED BY <2>1 DEF VerdictKnows, PrecedenceIndependentOfOrder, RestoresExactly, Undecided
<1> QED BY <1>4, <1>7, <1>8, <1>9 DEF RestorationInv

(* The first outcome of an identity.                                       *)
LEMMA FillStep == ASSUME RestorationInv, FillSlot PROVE RestorationInv'
<1>1. RestorationTyped /\ Working /\ UNCHANGED <<unexpected, duplicate>>
  BY DEF RestorationInv, FillSlot
<1>2. PICK k \in Slots : /\ Fits(arrived[next], k)
                         /\ slots[k] = 0
                         /\ slots' = [slots EXCEPT ![k] = next]
                         /\ misplaced' = (misplaced \/ ~ AtItsPlace(arrived[next], k))
  BY DEF FillSlot
<1>3. RestorationTyped'
  BY <1>1, <1>2, SeenGrows DEF RestorationTyped
<1>4. Unique /\ \A i \in Seen : ~ Fits(arrived[i], k)
  BY <1>1, <1>2, SeenGrows DEF SlotsKnow, RestorationInv
<1>5. \A j \in Slots : Fits(arrived[next], j) => j = k
  BY <1>2, <1>4 DEF Unique, Fits
<1>6. /\ slots'[k] = next /\ next # 0
      /\ \A j \in Slots \ {k} : slots'[j] = slots[j]
  BY <1>1, <1>2 DEF RestorationTyped
<1>7. FlagsKnow'
  <2> SUFFICES ASSUME Unique' PROVE FlagsKnow!2'
    BY DEF FlagsKnow
  <2>1. unexpected' <=> \E i \in Seen' : \A j \in Slots' : ~ Fits(arrived[i], j)'
    BY <1>1, <1>2, <1>4, SeenGrows DEF FlagsKnow, RestorationInv, Fits
  <2>2. duplicate' <=> \E i, j \in Seen', l \in Slots' :
                          i # j /\ Fits(arrived[i], l)' /\ Fits(arrived[j], l)'
    BY <1>1, <1>4, <1>5, SeenGrows DEF FlagsKnow, RestorationInv, Fits
  <2>3. misplaced' => \E i \in Seen', l \in Slots' :
                         Fits(arrived[i], l)' /\ ~ AtItsPlace(arrived[i], l)'
    <3>1. misplaced => \E i \in Seen, l \in Slots :
                         Fits(arrived[i], l) /\ ~ AtItsPlace(arrived[i], l)
      BY <1>4 DEF FlagsKnow, RestorationInv
    <3>2. misplaced' => \E i \in Seen', l \in Slots :
                          Fits(arrived[i], l) /\ ~ AtItsPlace(arrived[i], l)
      BY <1>1, <1>2, <3>1, SeenGrows
    <3> QED BY <1>1, <3>2, SeenGrows DEF Fits, AtItsPlace
  <2>4. (\E l \in Slots' : slots'[l] # 0 /\ ~ AtItsPlace(arrived[slots[l]], l)') => misplaced'
    <3> SUFFICES ASSUME NEW l \in Slots, slots'[l] # 0,
                        ~ AtItsPlace(arrived[slots'[l]], l)
                 PROVE  misplaced'
      BY <1>1, SeenGrows DEF AtItsPlace
    <3>1. CASE l = k
      BY <1>2, <1>6, <3>1
    <3>2. CASE l # k
      BY <1>2, <1>4, <1>6, <3>2 DEF FlagsKnow, RestorationInv
    <3> QED BY <3>1, <3>2
  <2> QED BY <2>1, <2>2, <2>3, <2>4
<1>8. SlotsKnow'
  BY <1>1, <1>2, <1>4, <1>5, <1>6, SeenGrows DEF SlotsKnow, RestorationInv, Fits
<1>9. VerdictKnows'
  <2>1. verdict' = Undecided
    BY <1>1, SeenGrows
  <2> QED BY <2>1 DEF VerdictKnows, PrecedenceIndependentOfOrder, RestoresExactly, Undecided
<1> QED BY <1>3, <1>7, <1>8, <1>9 DEF RestorationInv

(* With everything seen, flags and slots are the judgement on the bag.     *)
LEMMA AllSeen ==
  ASSUME RestorationInv, Unique, next \notin Outcomes
  PROVE  /\ Seen = Outcomes
         /\ unexpected <=> Stray
         /\ duplicate <=> Twice
         /\ ~ Twice => (misplaced <=> Astray)
         /\ (\E k \in Slots : slots[k] = 0) <=> Lost
         /\ \A k \in Slots : slots[k] # 0 => slots[k] \in Outcomes /\ Fits(arrived[slots[k]], k)
<1>1. Seen = Outcomes
  <2>1. next \in Nat \ {0} /\ Len(arrived) \in Nat /\ Outcomes = 1..Len(arrived)
    BY Indices DEF RestorationInv, RestorationTyped
  <2>2. Len(arrived) < next
    BY <2>1
  <2> QED BY <2>1, <2>2 DEF Seen
<1>2. (unexpected <=> Stray) /\ (duplicate <=> Twice)
  BY <1>1 DEF RestorationInv, FlagsKnow, Stray, Twice
<1>3. \A k \in Slots :
        /\ slots[k] = 0 => \A i \in Outcomes : ~ Fits(arrived[i], k)
        /\ slots[k] # 0 => slots[k] \in Outcomes /\ Fits(arrived[slots[k]], k)
  BY <1>1 DEF RestorationInv, SlotsKnow
<1>4. (\E k \in Slots : slots[k] = 0) <=> Lost
  BY <1>3 DEF Lost
<1>5. ~ Twice => (misplaced <=> Astray)
  <2>1. misplaced => Astray
    BY <1>1 DEF RestorationInv, FlagsKnow, Astray, AtItsPlace
  <2>2. ASSUME ~ Twice, Astray PROVE misplaced
    <3>1. PICK i \in Outcomes, k \in Slots : Fits(arrived[i], k) /\ ~ AtItsPlace(arrived[i], k)
      BY <2>2 DEF Astray, AtItsPlace
    <3>2. slots[k] \in Outcomes /\ Fits(arrived[slots[k]], k) /\ slots[k] # 0
      BY <1>3, <3>1
    <3>3. slots[k] = i
      BY <2>2, <3>1, <3>2 DEF Twice
    <3> QED BY <3>1, <3>2, <3>3 DEF RestorationInv, FlagsKnow
  <2> QED BY <2>1, <2>2
<1> QED BY <1>1, <1>2, <1>3, <1>4, <1>5

(* Refusals are told apart by their kind.                                  *)
LEMMA Kinds ==
  ASSUME NEW result, NEW place
  PROVE  Fault(result, place) \in {"no output", "worker error", "wrong kind", "fine"}
BY DEF Fault

(* The verdict is the judgement on the bag.                                *)
LEMMA DecideStep == ASSUME RestorationInv, Decide PROVE VerdictKnows'
<1> DEFINE S == Stray  T == Twice  A == Astray  L == Lost
<1>1. Unique /\ next \notin Outcomes /\ UNCHANGED <<inputs, next, slots, flags>>
  BY DEF Decide, Outcomes
<1>2. /\ Seen' = Seen /\ Outcomes' = Outcomes /\ Slots' = Slots
      /\ expected' = expected /\ arrived' = arrived
  BY <1>1 DEF Seen, Outcomes, Slots, inputs
<1>3. (Stray' <=> S) /\ (Twice' <=> T) /\ (Astray' <=> A) /\ (Lost' <=> L) /\ (Unique' <=> Unique)
  BY <1>2 DEF Stray, Twice, Astray, Lost, Unique, Fits, AtItsPlace
<1>4. /\ Seen = Outcomes
      /\ unexpected <=> S
      /\ duplicate <=> T
      /\ ~ T => (misplaced <=> A)
      /\ (\E k \in Slots : slots[k] = 0) <=> L
      /\ \A k \in Slots : slots[k] # 0 => slots[k] \in Outcomes /\ Fits(arrived[slots[k]], k)
  BY <1>1, AllSeen
<1> HIDE DEF S, T, A, L
<1> DEFINE Goal == VerdictKnows'
<1>5. ASSUME verdict'.kind \notin {"unexpected identity", "repeated identity", "wrong place",
                                  "missing", "restored"},
             ~ S, ~ T, ~ A, ~ L
      PROVE  Goal
  BY <1>2, <1>3, <1>4, <1>5 DEF VerdictKnows, PrecedenceIndependentOfOrder, RestoresExactly
<1>6. CASE S /\ verdict' = Refusal("unexpected identity")
  BY <1>2, <1>3, <1>4, <1>6 DEF VerdictKnows, PrecedenceIndependentOfOrder, RestoresExactly, Refusal
<1>7. CASE ~ S /\ T /\ verdict' = Refusal("repeated identity")
  BY <1>2, <1>3, <1>4, <1>7 DEF VerdictKnows, PrecedenceIndependentOfOrder, RestoresExactly, Refusal
<1>8. CASE ~ S /\ ~ T /\ A /\ verdict' = Refusal("wrong place")
  BY <1>2, <1>3, <1>4, <1>8 DEF VerdictKnows, PrecedenceIndependentOfOrder, RestoresExactly, Refusal
<1>9. CASE ~ S /\ ~ T /\ ~ A /\ L /\ verdict' = Refusal("missing")
  BY <1>2, <1>3, <1>4, <1>9 DEF VerdictKnows, PrecedenceIndependentOfOrder, RestoresExactly, Refusal
<1>10. ASSUME ~ S, ~ T, ~ A, ~ L, NEW k \in Slots, FirstFault(k),
              verdict' = Refusal(Fault(arrived[slots[k]].result, expected[k].place))
       PROVE  Goal
  <2>1. verdict'.kind \in {"no output", "worker error", "wrong kind", "fine"}
    BY <1>10, Kinds DEF Refusal
  <2> QED BY <1>5, <1>10, <2>1
<1>11. ASSUME ~ S, ~ T, ~ A, ~ L, \A k \in Slots : Fine(k),
              verdict' = [kind |-> "restored",
                          results |-> [k \in Slots |-> arrived[slots[k]].result]]
       PROVE  Goal
  <2>1. \A k \in Slots, i \in Outcomes : Fits(arrived[i], k) => slots[k] = i
    BY <1>4, <1>11 DEF T, Twice
  <2>2. \A k \in Slots : Fault(arrived[slots[k]].result, expected[k].place) = "fine"
    BY <1>11 DEF Fine
  <2>3. \A k \in Slots : arrived[slots[k]].result = ProductOf[expected[k].place]
    BY <2>2 DEF Fault
  <2>4. RestoresExactly'
    BY <1>1, <1>2, <1>3, <1>11, <2>1, <2>3 DEF RestoresExactly, Fits
  <2>5. PrecedenceIndependentOfOrder'
    BY <1>3, <1>11 DEF PrecedenceIndependentOfOrder
  <2> QED BY <1>2, <1>4, <2>4, <2>5 DEF VerdictKnows
<1> QED
  <2>1. \/ unexpected /\ verdict' = Refusal("unexpected identity")
        \/ ~ unexpected /\ duplicate /\ verdict' = Refusal("repeated identity")
        \/ ~ unexpected /\ ~ duplicate /\ misplaced /\ verdict' = Refusal("wrong place")
        \/ /\ ~ unexpected /\ ~ duplicate /\ ~ misplaced
           /\ \E k \in Slots : slots[k] = 0
           /\ verdict' = Refusal("missing")
        \/ /\ ~ unexpected /\ ~ duplicate /\ ~ misplaced
           /\ \A k \in Slots : slots[k] # 0
           /\ \/ \E k \in Slots :
                   /\ FirstFault(k)
                   /\ verdict' = Refusal(Fault(arrived[slots[k]].result, expected[k].place))
              \/ /\ \A k \in Slots : Fine(k)
                 /\ verdict' = [kind |-> "restored",
                                results |-> [k \in Slots |-> arrived[slots[k]].result]]
    BY Zenon DEF Decide
  <2> QED BY <1>4, <1>6, <1>7, <1>8, <1>9, <1>10, <1>11, <2>1

(* Every step keeps what is known true.                                    *)
LEMMA NextRestoration == RestorationInv /\ [RestorationNext]_restorationVars => RestorationInv'
<1> SUFFICES ASSUME RestorationInv, [RestorationNext]_restorationVars PROVE RestorationInv'
  OBVIOUS
<1>1. CASE Foreign
  BY <1>1, ForeignStep
<1>2. CASE Repeated
  BY <1>2, RepeatedStep
<1>3. CASE FillSlot
  BY <1>3, FillStep
<1>4. ASSUME UNCHANGED <<inputs, next, slots, flags>>
      PROVE  RestorationTyped' /\ FlagsKnow' /\ SlotsKnow' /\ Slots' = Slots /\ Outcomes' = Outcomes
             /\ Seen' = Seen /\ (Unique' <=> Unique)
  BY <1>4 DEF RestorationInv, RestorationTyped, FlagsKnow, SlotsKnow, Slots, Outcomes, Seen,
              Unique, Fits, AtItsPlace, inputs, flags
<1>5. CASE Decide
  BY <1>4, <1>5, DecideStep DEF RestorationInv, Decide
<1>6. CASE NotUnique
  <2>1. UNCHANGED <<inputs, next, slots, flags>> /\ ~ Unique
        /\ verdict' = Refusal("identities are not unique")
    BY <1>6 DEF NotUnique
  <2> QED BY <1>4, <2>1 DEF RestorationInv, VerdictKnows, PrecedenceIndependentOfOrder,
                               RestoresExactly, Refusal
<1>7. CASE UNCHANGED restorationVars
  <2>1. UNCHANGED <<inputs, next, slots, flags>> /\ verdict' = verdict /\ UNCHANGED <<expected, arrived>>
    BY <1>7 DEF restorationVars, inputs
  <2>2. /\ Stray' <=> Stray
        /\ Twice' <=> Twice
        /\ Astray' <=> Astray
        /\ Lost' <=> Lost
    BY <1>4, <2>1 DEF Stray, Twice, Astray, Lost, Fits, AtItsPlace
  <2>3. RestoresExactly'
    BY <1>4, <2>1, <2>2 DEF RestorationInv, VerdictKnows, RestoresExactly, Fits
  <2>4. PrecedenceIndependentOfOrder'
    BY <1>4, <2>1, <2>2 DEF RestorationInv, VerdictKnows, PrecedenceIndependentOfOrder, Undecided
  <2>5. VerdictKnows'
    BY <1>4, <2>1, <2>3, <2>4 DEF RestorationInv, VerdictKnows, Undecided
  <2> QED BY <1>4, <2>1, <2>5 DEF RestorationInv
<1> QED BY <1>1, <1>2, <1>3, <1>5, <1>6, <1>7 DEF RestorationNext

(* What the loop knows is true of every execution.                         *)
THEOREM RestorationInvariance == RestorationSpec => []RestorationInv
BY InitRestoration, NextRestoration, PTL DEF RestorationSpec

(* Contract errors do not depend on the order in which workers finish.     *)
THEOREM OrderBlind == RestorationSpec => []PrecedenceIndependentOfOrder
<1>1. RestorationInv => PrecedenceIndependentOfOrder
  BY DEF RestorationInv, VerdictKnows
<1> QED BY <1>1, RestorationInvariance, PTL

(* Only a complete, faithful batch is restored.                            *)
THEOREM Exact == RestorationSpec => []RestoresExactly
<1>1. RestorationInv => RestoresExactly
  BY DEF RestorationInv, VerdictKnows
<1> QED BY <1>1, RestorationInvariance, PTL
=============================================================================
