------------------------- MODULE RouteEvidenceProofs -------------------------
(***************************************************************************)
(* What a process of the issuance benchmark publishes, for any matrix of   *)
(* disclosure counts, any worker cap, and a host that may change at every  *)
(* step. The invariant follows the evidence on its way: what the host      *)
(* answered and what the watched candidate ran stand in the trace, then in *)
(* the record of its stage, then in the records of the process.            *)
(***************************************************************************)
EXTENDS RouteEvidence, CountingLemmas, TLAPS

-----------------------------------------------------------------------------
(* The inductive invariant.                                                *)

IsSequence(s) == Len(s) \in Nat /\ s = [i \in 1..Len(s) |-> s[i]]

Preflight == {"begin", "select", "join", "end"}
Untraced  == {"select_untraced", "join_untraced"}
Timed     == Untraced \cup {"measure", "iterated"}
Invoked   == Preflight \cup Timed \cup {"record", "next", "finish"}

TypeOK ==
  /\ target \in {"x86_64", "other"}
  /\ pc \in Invoked \cup {"invoke", "ended"} /\ (pc = "ended" <=> outcome # "running")
  /\ case \in 1..Len(BenchmarkCases) /\ exec \in 1..4
  /\ host \in Nat \ {0} /\ changes \in Nat
  /\ permits \in Nat /\ leased \in Nat /\ batch \in Nat \ {0}
  /\ IsSequence(trace) /\ IsSequence(stageRoutes) /\ IsSequence(records)
  /\ IsSequence(ran) /\ IsSequence(measuring)

(* How far preflight is, by what it has recorded.                          *)
Progress ==
  /\ pc = "invoke" => case = 1 /\ exec = 1 /\ trace = <<>> /\ ran = <<>> /\ measured = {}
                      /\ changes \in Nat /\ sampled = {}
  /\ pc \in Preflight \cup {"invoke"} =>
       Len(stageRoutes) = (exec - 1) \div 2 /\ Len(records) = 4 * (case - 1)
  /\ pc = "record" => /\ exec = 1 /\ Len(stageRoutes) = 2
                      /\ Len(records) \in (4 * (case - 1))..(4 * case - 1)
  /\ pc \in Timed \cup {"next", "finish"} => Len(records) = 4 * case
  /\ pc \in Timed => /\ case = MeasuredCase
                     /\ Executions[exec] = <<Measured.stage, Measured.requested>>
  /\ pc = "next" => exec = 1
  /\ pc = "finish" => case = Len(BenchmarkCases)

(* Which batch an execution is at.                                         *)
Batching ==
  /\ pc \in {"select", "join"} \cup Untraced =>
       /\ target = "x86_64" /\ Requested = "adaptive_candidate"
       /\ batch \in 1..Len(BatchesOf[case])
  /\ pc = "select" => Len(trace) = batch - 1
  /\ pc = "join" => Len(trace) = batch
  /\ pc = "end" => Len(trace) = IF target = "other" \/ Requested = "serial_oracle" THEN 0
                                ELSE Len(BatchesOf[case])

Leasing ==
  /\ permits + leased = WorkerCap
  /\ pc \notin {"join", "join_untraced"} => leased = 0
  /\ \A i \in DOMAIN trace : ~ IsBudgetFallback(trace[i])

(* What is sampled of the host stands in some evidence of the process.     *)
ShownBy(h, r) ==
  \/ r.host_available_parallelism = h
  \/ r.ready_batches # Null
     /\ \E i \in DOMAIN r.ready_batches[1] : r.ready_batches[1][i].available_parallelism = Some(h)

Traced(h)   == \E i \in DOMAIN trace : trace[i].available_parallelism = Some(h)
Staged(h)   == \E s \in DOMAIN stageRoutes : ShownBy(h, stageRoutes[s])
Recorded(h) == \E i \in DOMAIN records : ShownBy(h, records[i])

Sampling ==
  /\ pc \in Invoked => \A h \in sampled : Traced(h) \/ Staged(h) \/ Recorded(h)
  /\ pc \in Invoked \ {"select", "join", "end"} => \A h \in sampled : Staged(h) \/ Recorded(h)
  /\ pc \in Timed \cup {"next", "finish"} => \A h \in sampled : Recorded(h)
  /\ pc = "record" /\ Len(records) = 4 * case - 1 =>
       \A h \in sampled : ShownBy(h, stageRoutes[2]) \/ Recorded(h)
  /\ records # <<>> => sampled # {}

Chosen ==
  pc \in Invoked => /\ selected \in DOMAIN Canonical /\ filter \in DOMAIN Canonical
                    /\ Canonical[selected].benchmark_id = Canonical[filter].benchmark_id

(* The execution that is watched: the candidate at the stage of the        *)
(* selected route. Its record is the third or the fourth of its case.      *)
SelectedStage == ((selected - 1) % 2) + 1
SelectedPlace == 4 * (SelectedCase - 1) + 2 + SelectedStage

Filed   == Len(records) >= SelectedPlace
Done    == Filed \/ (case = SelectedCase /\ Len(stageRoutes) >= SelectedStage)
Current == ~ Done /\ Watching /\ pc \in {"select", "join", "end"}
Kept    == IF Filed THEN records[SelectedPlace] ELSE stageRoutes[SelectedStage]

AsRun(batches) == [i \in DOMAIN batches |-> AsRan(batches[i])]

Following ==
  pc \in Invoked =>
    /\ ~ Done /\ ~ Current => ran = <<>>
    /\ Current => ran = [i \in 1..(Len(trace) - (IF pc = "join" THEN 1 ELSE 0)) |-> AsRan(trace[i])]
    /\ Done /\ target = "x86_64" =>
         /\ Kept.ready_batches # Null
         /\ Kept.ready_batches[1] = [i \in 1..Len(Kept.ready_batches[1]) |-> Kept.ready_batches[1][i]]
         /\ ran = AsRun(Kept.ready_batches[1])
    /\ pc = "join" => AsRan(trace[batch]) = BatchRun
    /\ Done /\ target = "other" => ran = <<>>

(* What a candidate does with the batches of a case on a host that stays   *)
(* as it is.                                                               *)
RunOf(jobs) ==
  LET workers == WorkerCount(jobs, WorkerCap, host)
  IN  IF Native(jobs, WorkerCap, host, WorkerCap)
      THEN [jobs |-> Len(jobs), workers |-> workers,
            chunks |-> Chunks(Len(jobs), ChunkSize(Len(jobs), workers))]
      ELSE [jobs |-> Len(jobs), workers |-> 1, chunks |-> <<Len(jobs)>>]
RunsOf(c, n) == [i \in 1..n |-> RunOf(BatchesOf[c][i])]
AllRuns(c)   == IF target = "other" THEN <<>> ELSE RunsOf(c, Len(BatchesOf[c]))

Repeating ==
  pc \in Invoked /\ changes = 0 =>
    /\ Done => ran = AllRuns(SelectedCase)
    /\ Current => Len(ran) = (IF pc = "join" THEN batch - 1 ELSE Len(trace))
                   /\ ran = RunsOf(case, Len(ran))
    /\ pc \in {"join", "join_untraced"} => BatchRun = RunOf(Jobs)
    /\ pc \in Untraced => measuring = RunsOf(case, batch - 1)
    /\ pc = "iterated" /\ Requested = "adaptive_candidate" => measuring = AllRuns(case)
    /\ Measured.requested = "adaptive_candidate" => measured \subseteq {AllRuns(MeasuredCase)}

Measuring ==
  pc \in Invoked /\ measured = {} =>
    case <= MeasuredCase /\ (pc \in {"next", "finish"} => case < MeasuredCase)

Evidence ==
  pc = "ended" => OneHost /\ PublishedTrue /\ MeasuredAsRecorded

Inv == /\ TypeOK /\ Progress /\ Batching /\ Leasing /\ Sampling /\ Chosen
       /\ Following /\ Repeating /\ Measuring /\ Evidence
-----------------------------------------------------------------------------
(* Sequences.                                                              *)

LEMMA OfSeq ==
  ASSUME NEW S, NEW s \in Seq(S)
  PROVE  IsSequence(s)
BY DEF IsSequence

LEMMA SomeSeq ==
  ASSUME NEW s, IsSequence(s)
  PROVE  s \in Seq({s[i] : i \in 1..Len(s)})
BY DEF IsSequence

LEMMA Concatenated ==
  ASSUME NEW s, IsSequence(s), NEW t, IsSequence(t)
  PROVE  IsSequence(s \o t) /\ Len(s \o t) = Len(s) + Len(t)
<1> DEFINE S == {s[i] : i \in 1..Len(s)}
           T == {t[i] : i \in 1..Len(t)}
<1>1. s \in Seq(S) /\ t \in Seq(T)
  BY SomeSeq
<1> HIDE DEF S, T
<1>2. s \in Seq(S \cup T) /\ t \in Seq(S \cup T)
  BY <1>1
<1> QED
  BY <1>2, ConcatProperties, OfSeq

LEMMA Appended ==
  ASSUME NEW s, IsSequence(s), NEW e
  PROVE  /\ IsSequence(Append(s, e)) /\ Len(Append(s, e)) = Len(s) + 1
         /\ \A i \in 1..Len(s) : Append(s, e)[i] = s[i]
         /\ Append(s, e)[Len(s) + 1] = e
<1> DEFINE S == {s[i] : i \in 1..Len(s)} \cup {e}
<1>1. Len(s) \in Nat
  BY DEF IsSequence
<1>2. s \in Seq(S)
  BY DEF IsSequence
<1>3. e \in S
  OBVIOUS
<1> HIDE DEF S
<1>4. /\ Append(s, e) \in Seq(S) /\ Len(Append(s, e)) = Len(s) + 1
      /\ \A i \in 1..Len(s) : Append(s, e)[i] = s[i]
      /\ Append(s, e)[Len(s) + 1] = e
  BY <1>2, <1>3, AppendProperties
<1>5. IsSequence(Append(s, e))
  BY <1>4, OfSeq
<1> QED
  BY <1>1, <1>4, <1>5 DEF IsSequence

LEMMA SequenceDomain ==
  ASSUME NEW s, IsSequence(s)
  PROVE  /\ Len(s) \in Nat /\ DOMAIN s = 1..Len(s)
         /\ (s = <<>> <=> Len(s) = 0)
<1>1. Len(s) \in Nat /\ DOMAIN s = 1..Len(s)
  BY DEF IsSequence
<1>2. s = <<>> => Len(s) = 0
  OBVIOUS
<1>3. ASSUME Len(s) = 0 PROVE s = <<>>
  <2>1. s = [i \in 1..0 |-> s[i]]
    BY <1>3 DEF IsSequence
  <2> QED
    BY <2>1
<1> QED
  BY <1>1, <1>2, <1>3

LEMMA EmptySequence == IsSequence(<<>>) /\ Len(<<>>) = 0
BY DEF IsSequence

(* A function on an interval from 1 is a sequence.                         *)
LEMMA Listed ==
  ASSUME NEW n \in Nat, NEW f, f = [i \in 1..n |-> f[i]]
  PROVE  IsSequence(f) /\ Len(f) = n
BY DEF IsSequence

-----------------------------------------------------------------------------
(* The matrix.                                                             *)

Payloads == {"small", "medium", "large", "mixed"}
CaseRecords ==
  {c \in [kind : {"standard", "all_levels_nested_objects", "all_levels_array_dag",
                  "top_level_imbalanced"},
          payload_class : Payloads \cup {"none"}, add_decoy_claims : BOOLEAN,
          disclosure_count : Nat \ {0}] :
     c.kind = "standard" <=> c.payload_class \in Payloads}

LEMMA CasesTyped == BenchmarkCases \in Seq(CaseRecords) /\ Len(BenchmarkCases) \in Nat \ {0}
<1> DEFINE counts == Len(DisclosureCounts)
           Cross(payloads, decoys) ==
             [k \in 1..(Len(payloads) * counts) |->
                Standard(payloads[((k - 1) \div counts) + 1], decoys,
                         DisclosureCounts[((k - 1) % counts) + 1])]
           plain  == Cross(<<"small", "medium", "large", "mixed">>, FALSE)
           decoyed == Cross(<<"small", "mixed">>, TRUE)
           structural == <<Structural("all_levels_nested_objects", 7),
                           Structural("all_levels_array_dag", 8),
                           Structural("top_level_imbalanced", 8)>>
<1>1. counts \in Nat /\ \A i \in 1..counts : DisclosureCounts[i] \in Nat \ {0}
  BY DisclosureCountsAssumption, LenProperties
<1>2. BenchmarkCases = (plain \o decoyed) \o structural
  BY DEF BenchmarkCases
<1>3. ASSUME NEW p \in Payloads, NEW d \in BOOLEAN, NEW n \in Nat \ {0}
      PROVE  Standard(p, d, n) \in CaseRecords
  BY DEF Standard, CaseRecords, Payloads
<1>4. ASSUME NEW ps, NEW m \in Nat, Len(ps) = m, \A i \in 1..m : ps[i] \in Payloads, NEW d \in BOOLEAN
      PROVE  Cross(ps, d) \in Seq(CaseRecords)
  <2>1. ASSUME NEW k \in 1..(m * counts)
        PROVE  Standard(ps[((k - 1) \div counts) + 1], d, DisclosureCounts[((k - 1) % counts) + 1])
                 \in CaseRecords
    <3> DEFINE q == (k - 1) \div counts
               r == (k - 1) % counts
    <3>1. counts # 0 /\ k \in Nat /\ k - 1 \in Nat /\ k - 1 < m * counts
      <4> HIDE DEF counts
      <4>1. m * counts \in Nat
        BY <1>1
      <4>2. counts = 0 => m * counts = 0
        BY <1>1
      <4> QED
        BY <1>1, <4>1, <4>2
    <3>2. q \in Nat /\ r \in 0..(counts - 1) /\ k - 1 = counts * q + r
      <4> HIDE DEF counts
      <4> QED
        BY <1>1, <3>1
    <3> HIDE DEF q, r, counts
    <3>3. q < m
      <4>1. ASSUME q >= m PROVE FALSE
        <5>1. PICK e \in Nat : q = m + e
          <6>1. q - m \in Nat /\ q = m + (q - m)
            BY <3>2, <4>1
          <6> QED
            BY <6>1
        <5>2. counts * q = m * counts + e * counts
          BY <1>1, <5>1
        <5>3. e * counts \in Nat /\ m * counts \in Nat
          BY <1>1, <5>1
        <5> QED
          BY <1>1, <3>1, <3>2, <5>2, <5>3
      <4> QED
        BY <3>2, <4>1
    <3>4. ps[q + 1] \in Payloads /\ DisclosureCounts[r + 1] \in Nat \ {0}
      BY <1>1, <1>4, <3>2, <3>3
    <3> QED
      BY <1>3, <3>4 DEF q, r
  <2>2. m * counts \in Nat
    BY <1>1
  <2> DEFINE At(k) == Standard(ps[((k - 1) \div counts) + 1], d, DisclosureCounts[((k - 1) % counts) + 1])
  <2>3. Cross(ps, d) = [k \in 1..(m * counts) |-> At(k)]
    BY <1>4
  <2>4. \A k \in 1..(m * counts) : At(k) \in CaseRecords
    BY <2>1
  <2> DEFINE n == m * counts
  <2> HIDE DEF At, n
  <2>5. [k \in 1..n |-> At(k)] \in Seq(CaseRecords)
    BY <2>2, <2>4 DEF n
  <2> QED
    BY <2>3, <2>5 DEF n
<1>5. plain \in Seq(CaseRecords) /\ decoyed \in Seq(CaseRecords)
  <2>1. /\ Len(<<"small", "medium", "large", "mixed">>) = 4
        /\ \A i \in 1..4 : <<"small", "medium", "large", "mixed">>[i] \in Payloads
    BY DEF Payloads
  <2>2. /\ Len(<<"small", "mixed">>) = 2
        /\ \A i \in 1..2 : <<"small", "mixed">>[i] \in Payloads
    BY DEF Payloads
  <2> HIDE DEF Cross
  <2>3. Cross(<<"small", "medium", "large", "mixed">>, FALSE) \in Seq(CaseRecords)
    BY <1>4, <2>1
  <2>4. Cross(<<"small", "mixed">>, TRUE) \in Seq(CaseRecords)
    BY <1>4, <2>2
  <2> QED
    BY <2>3, <2>4
<1>6. structural \in Seq(CaseRecords) /\ Len(structural) = 3
  <2>1. /\ Structural("all_levels_nested_objects", 7) \in CaseRecords
        /\ Structural("all_levels_array_dag", 8) \in CaseRecords
        /\ Structural("top_level_imbalanced", 8) \in CaseRecords
    BY DEF Structural, CaseRecords, Payloads
  <2> QED
    BY <2>1
<1> HIDE DEF plain, decoyed, structural
<1>7. plain \o decoyed \in Seq(CaseRecords)
      /\ Len(plain \o decoyed) = Len(plain) + Len(decoyed)
  BY <1>5, ConcatProperties
<1>8. /\ BenchmarkCases \in Seq(CaseRecords)
      /\ Len(BenchmarkCases) = Len(plain \o decoyed) + Len(structural)
  BY <1>2, <1>6, <1>7, ConcatProperties
<1>9. Len(plain \o decoyed) \in Nat
  BY <1>7, LenProperties
<1> QED
  BY <1>6, <1>8, <1>9

LEMMA CasesCounted == Len(BenchmarkCases) \in Nat \ {0}
BY CasesTyped

(* The routes in their canonical order, and how a place in it is one of a  *)
(* case.                                                                   *)
CaseAt(i)  == ((i - 1) \div 4) + 1
StageAt(i) == ((i - 1) % 2) + 1
RouteAt(i) == (((i - 1) % 4) \div 2) + 1

LEMMA Places ==
  ASSUME NEW i \in 1..(4 * Len(BenchmarkCases))
  PROVE  /\ CaseAt(i) \in 1..Len(BenchmarkCases) /\ StageAt(i) \in 1..2 /\ RouteAt(i) \in 1..2
         /\ i = 4 * (CaseAt(i) - 1) + 2 * (RouteAt(i) - 1) + StageAt(i)
BY CasesCounted DEF CaseAt, StageAt, RouteAt

LEMMA CanonicalMeans ==
  /\ IsSequence(Canonical) /\ Len(Canonical) = 4 * Len(BenchmarkCases)
  /\ DOMAIN Canonical = 1..(4 * Len(BenchmarkCases))
  /\ \A i \in 1..(4 * Len(BenchmarkCases)) :
       Canonical[i] =
         [benchmark_id |-> FullCriterionId(BenchmarkCases[CaseAt(i)], Stages[StageAt(i)],
                                           Routes[RouteAt(i)]),
          fixture_id   |-> FixtureId(BenchmarkCases[CaseAt(i)]),
          stage        |-> Stages[StageAt(i)],
          requested    |-> Routes[RouteAt(i)]]
<1> DEFINE n == 4 * Len(BenchmarkCases)
           At(i) == [benchmark_id |-> FullCriterionId(BenchmarkCases[CaseAt(i)], Stages[StageAt(i)],
                                                      Routes[RouteAt(i)]),
                     fixture_id   |-> FixtureId(BenchmarkCases[CaseAt(i)]),
                     stage        |-> Stages[StageAt(i)],
                     requested    |-> Routes[RouteAt(i)]]
<1>1. n \in Nat
  BY CasesCounted
<1>2. Canonical = [i \in 1..n |-> At(i)]
  BY DEF Canonical, QualificationRoutes, CaseAt, StageAt, RouteAt
<1> HIDE DEF n, At
<1>3. /\ IsSequence(Canonical) /\ Len(Canonical) = n /\ DOMAIN Canonical = 1..n
      /\ \A i \in 1..n : Canonical[i] = At(i)
  BY <1>1, <1>2, Listed
<1> QED
  BY <1>3 DEF n, At

LEMMA CanonicalPlaces == DOMAIN Canonical \subseteq Nat \ {0}
<1>1. DOMAIN Canonical = 1..(4 * Len(BenchmarkCases))
  BY CanonicalMeans, Zenon
<1> DEFINE n == 4 * Len(BenchmarkCases)
<1>2. 1..n \subseteq Nat \ {0}
  <2> HIDE DEF n
  <2> QED
    OBVIOUS
<1> QED
  BY <1>1, <1>2, Zenon

-----------------------------------------------------------------------------
(* The fixtures: their claims are sequences of nodes, and what is ready at *)
(* a location is a sequence of jobs.                                       *)

Nodes == [kind : {"scalar", "object", "array"}, size : Nat \ {0}, weight : Nat]

LEMMA ScalarNodes == ASSUME NEW w \in Nat PROVE Scalar(w) \in Seq(Nodes)
<1>1. [kind |-> "scalar", size |-> 1, weight |-> w] \in Nodes
  BY DEF Nodes
<1> QED
  BY <1>1 DEF Scalar

LEMMA NestNodes ==
  ASSUME NEW kind \in {"object", "array"}, NEW children \in Seq(Seq(Nodes))
  PROVE  Nest(kind, children) \in Seq(Nodes)
<1> DEFINE inside == Joined(children)[Len(children)]
           outside == [kind |-> kind, size |-> 1 + Len(inside), weight |-> 1]
<1>1. inside \in Seq(Nodes)
  <2>1. Len(children) \in 0..Len(children)
    BY LenProperties
  <2> QED
    BY <2>1, JoinedParts
<1>2. Nest(kind, children) = <<outside>> \o inside
  BY DEF Nest
<1> HIDE DEF inside
<1>3. outside \in Nodes
  BY <1>1, LenProperties DEF Nodes
<1> HIDE DEF outside
<1>4. <<outside>> \in Seq(Nodes)
  BY <1>3
<1> QED
  BY <1>1, <1>2, <1>4, ConcatProperties

LEMMA ValueNodes ==
  ASSUME NEW class \in {"small", "medium", "large", "mixed"}, NEW ordinal \in Nat
  PROVE  PayloadValue(class, ordinal) \in Seq(Nodes)
<1>1. Scalar(1) \in Seq(Nodes) /\ Scalar(2) \in Seq(Nodes) /\ Scalar(3) \in Seq(Nodes)
  BY ScalarNodes
<1>2. MediumValue \in Seq(Nodes)
  <2> DEFINE inner == Nest("object", <<Scalar(1), Scalar(1), Scalar(2)>>)
             list  == Nest("array", <<Scalar(1), Scalar(1), Scalar(1)>>)
  <2>1. <<Scalar(1), Scalar(1), Scalar(2)>> \in Seq(Seq(Nodes))
        /\ <<Scalar(1), Scalar(1), Scalar(1)>> \in Seq(Seq(Nodes))
    BY <1>1
  <2>2. inner \in Seq(Nodes) /\ list \in Seq(Nodes)
    BY <2>1, NestNodes
  <2> HIDE DEF inner, list
  <2>3. <<Scalar(1), inner, list>> \in Seq(Seq(Nodes))
    BY <1>1, <2>2
  <2>4. Nest("object", <<Scalar(1), inner, list>>) \in Seq(Nodes)
    BY <2>3, NestNodes
  <2> QED
    BY <2>4 DEF MediumValue, inner, list
<1>3. SmallValue \in Seq(Nodes) /\ LargeValue \in Seq(Nodes)
  BY <1>1 DEF SmallValue, LargeValue
<1>4. ordinal % 3 \in 0..2
  OBVIOUS
<1>5. <<SmallValue, MediumValue, LargeValue>>[(ordinal % 3) + 1] \in Seq(Nodes)
  BY <1>2, <1>3, <1>4
<1> QED
  BY <1>2, <1>3, <1>5 DEF PayloadValue

LEMMA ClaimsTyped ==
  ASSUME NEW c \in CaseRecords
  PROVE  SelectiveClaims(c) \in Seq(Nodes)
<1>1. Scalar(1) \in Seq(Nodes) /\ Scalar(3) \in Seq(Nodes)
  BY ScalarNodes
<1>2. CASE c.kind = "standard"
  <2> DEFINE n == c.disclosure_count
             Value(i) == PayloadValue(c.payload_class, i - 1)
  <2>1. n \in Nat /\ c.payload_class \in {"small", "medium", "large", "mixed"}
    BY <1>2 DEF CaseRecords, Payloads
  <2>2. ASSUME NEW i \in 1..n PROVE Value(i) \in Seq(Nodes)
    <3>1. i - 1 \in Nat
      BY <2>1
    <3> QED
      BY <2>1, <3>1, ValueNodes
  <2>3. SelectiveClaims(c) = Nest("object", [i \in 1..n |-> Value(i)])
    BY <1>2 DEF SelectiveClaims
  <2> HIDE DEF n, Value
  <2>4. [i \in 1..n |-> Value(i)] \in Seq(Seq(Nodes))
    BY <2>1, <2>2
  <2> QED
    BY <2>3, <2>4, NestNodes
<1>3. AllLevelsNestedObjects \in Seq(Nodes)
  <2> DEFINE two == Nest("object", <<Scalar(1), Scalar(1)>>)
  <2>1. <<Scalar(1), Scalar(1)>> \in Seq(Seq(Nodes))
    BY <1>1
  <2>2. two \in Seq(Nodes)
    BY <2>1, NestNodes
  <2> HIDE DEF two
  <2>3. <<two, two, Scalar(1)>> \in Seq(Seq(Nodes))
    BY <1>1, <2>2
  <2> QED
    BY <2>3, NestNodes DEF AllLevelsNestedObjects, two
<1>4. AllLevelsArrayDag \in Seq(Nodes)
  <2> DEFINE two  == Nest("array", <<Scalar(1), Scalar(1)>>)
             four == Nest("array", <<two, two>>)
  <2>1. <<Scalar(1), Scalar(1)>> \in Seq(Seq(Nodes))
    BY <1>1
  <2>2. two \in Seq(Nodes)
    BY <2>1, NestNodes
  <2> HIDE DEF two
  <2>3. <<two, two>> \in Seq(Seq(Nodes))
    BY <2>2
  <2>4. four \in Seq(Nodes)
    BY <2>3, NestNodes
  <2> HIDE DEF four
  <2>5. <<four, Scalar(1)>> \in Seq(Seq(Nodes))
    BY <1>1, <2>4
  <2> QED
    BY <2>5, NestNodes DEF AllLevelsArrayDag, four, two
<1>5. TopLevelImbalanced \in Seq(Nodes)
  <2> DEFINE heavy == <<Scalar(3), Scalar(3)>>
             light == [i \in 1..6 |-> Scalar(1)]
  <2>1. heavy \in Seq(Seq(Nodes)) /\ light \in Seq(Seq(Nodes))
    BY <1>1
  <2> HIDE DEF heavy, light
  <2>2. heavy \o light \in Seq(Seq(Nodes))
    BY <2>1, ConcatProperties
  <2> QED
    BY <2>2, NestNodes DEF TopLevelImbalanced, heavy, light
<1>6. CASE c.kind # "standard"
  <2>1. c.kind \in {"all_levels_nested_objects", "all_levels_array_dag", "top_level_imbalanced"}
    BY <1>6 DEF CaseRecords
  <2> QED
    BY <1>3, <1>4, <1>5, <2>1 DEF SelectiveClaims
<1> QED
  BY <1>2, <1>6

(* Locations are left one at a time, each once.                            *)
LEMMA LeavingPermutes ==
  ASSUME NEW claims \in Seq(Nodes)
  PROVE  /\ Len(Leaving(claims)) = Len(claims) /\ DOMAIN Leaving(claims) = 1..Len(claims)
         /\ \A i \in 1..Len(claims) : Leaving(claims)[i] \in 1..Len(claims)
<1> DEFINE n == Len(claims)
           os == [l \in 1..n |-> l]
           before == LeftBefore(claims)
           last == LastInside(claims)
<1>1. n \in Nat /\ DOMAIN claims = 1..n /\ \A l \in 1..n : claims[l].size \in Nat
  <2>1. n \in Nat /\ DOMAIN claims = 1..n
    BY LenProperties
  <2>2. ASSUME NEW l \in 1..n PROVE claims[l].size \in Nat
    <3>1. claims[l] \in Nodes
      BY ElementOfSeq
    <3> QED
      BY <3>1 DEF Nodes
  <2> QED
    BY <2>1, <2>2
<1>2. \A l \in 1..n : last[l] \in Int
  BY <1>1 DEF LastInside
<1>3. \A l, m \in 1..n : <<l, m>> \in before <=> last[l] < last[m] \/ (last[l] = last[m] /\ l > m)
  <2> HIDE DEF n
  <2> QED
    BY <1>1 DEF LeftBefore
<1> HIDE DEF before, last
<1>4. /\ \A i \in 1..n : <<i, i>> \notin before
      /\ \A i, j, k \in 1..n : <<i, j>> \in before /\ <<j, k>> \in before => <<i, k>> \in before
      /\ \A i, j \in 1..n : i = j \/ <<i, j>> \in before \/ <<j, i>> \in before
  <2> HIDE DEF n
  <2>1. \A i \in 1..n : <<i, i>> \notin before
    BY <1>1, <1>2, <1>3
  <2>2. \A i, j, k \in 1..n : <<i, j>> \in before /\ <<j, k>> \in before => <<i, k>> \in before
    BY <1>1, <1>2, <1>3
  <2>3. ASSUME NEW i \in 1..n, NEW j \in 1..n
        PROVE  i = j \/ <<i, j>> \in before \/ <<j, i>> \in before
    <3>1. last[i] \in Int /\ last[j] \in Int /\ i \in Int /\ j \in Int
      BY <1>1, <1>2
    <3>2. /\ last[i] < last[j] \/ (last[i] = last[j] /\ i > j) => <<i, j>> \in before
          /\ last[j] < last[i] \/ (last[j] = last[i] /\ j > i) => <<j, i>> \in before
      BY <1>3
    <3>3. \/ last[i] < last[j] \/ last[j] < last[i]
          \/ (last[i] = last[j] /\ i > j) \/ (last[j] = last[i] /\ j > i) \/ i = j
      BY <3>1
    <3> QED
      BY <3>2, <3>3, Zenon
  <2> QED
    BY <2>1, <2>2, <2>3
<1>5. [i \in 1..n |-> Place(n, before, i)] \in Bijection(1..n, 1..n)
  BY <1>1, <1>4, PlacesAreDistinct
<1>6. Len(os) = n /\ \A i \in 1..n : os[i] \in 1..n
  BY <1>1
<1>7. Leaving(claims) = Arranged(os, before)
  BY <1>1 DEF Leaving, before
<1> HIDE DEF os, n
<1>8. \A k \in 1..n : \E i \in 1..n : Arranged(os, before)[k] = os[i]
  <2>1. Len(os) \in Nat
    BY <1>1, <1>6, Zenon
  <2>2. [i \in 1..Len(os) |-> Place(Len(os), before, i)] \in Bijection(1..Len(os), 1..Len(os))
    BY <1>5, <1>6, Zenon
  <2>3. /\ \A k \in 1..Len(os) : \E i \in 1..Len(os) : Arranged(os, before)[k] = os[i]
        /\ \A i \in 1..Len(os) : /\ Place(Len(os), before, i) \in 1..Len(os)
                                 /\ Arranged(os, before)[Place(Len(os), before, i)] = os[i]
    BY <2>1, <2>2, ArrangedPermutes, Zenon
  <2> QED
    BY <1>6, <2>3, Zenon
<1>9. Len(Arranged(os, before)) = n /\ DOMAIN Arranged(os, before) = 1..n
  BY <1>1, <1>6 DEF Arranged
<1> QED
  BY <1>6, <1>7, <1>8, <1>9 DEF n

(* The members of a finite set of numbers, listed.                         *)
LEMMA AscendingSequence ==
  ASSUME NEW n \in Nat, NEW S, S \subseteq 1..n
  PROVE  /\ IsSequence(Ascending(S)) /\ DOMAIN Ascending(S) = 1..Len(Ascending(S))
         /\ \A k \in 1..Len(Ascending(S)) : Ascending(S)[k] \in S
<1>1. S \subseteq Nat /\ IsFiniteSet(S)
  <2>1. S \subseteq Nat
    OBVIOUS
  <2>2. 1 \in Int /\ n \in Int
    OBVIOUS
  <2>3. IsFiniteSet(1..n)
    BY <2>2, FS_Interval, Zenon
  <2>4. IsFiniteSet(S)
    BY <2>3, FS_Subset, Zenon
  <2> QED
    BY <2>1, <2>4
<1>2. /\ Cardinality(S) \in Nat /\ Len(Ascending(S)) = Cardinality(S) /\ Ascending(S) \in Seq(S)
      /\ \A k \in 1..Cardinality(S) : Ascending(S)[k] \in S
  BY <1>1, AscendingMeans
<1>3. IsSequence(Ascending(S))
  BY <1>2, OfSeq
<1> QED
  BY <1>2, <1>3, SequenceDomain

(* What is ready at a location.                                            *)
LEMMA BatchTyped ==
  ASSUME NEW claims \in Seq(Nodes), NEW plan, NEW l \in 1..Len(claims), plan.decoys[l] \in Nat
  PROVE  IsSequence(BatchAt(claims, plan, l))
<1> DEFINE entries == Ascending({m \in Entries(claims, l) : plan.sd[m]})
           Work(i) == JobWork(claims, plan, entries[i])
           decoys == plan.decoys[l]
<1>1. IsSequence(entries) /\ DOMAIN entries = 1..Len(entries)
  <2>1. {m \in Entries(claims, l) : plan.sd[m]} \subseteq 1..Len(claims)
    BY DEF Entries
  <2>2. Len(claims) \in Nat
    BY LenProperties
  <2> QED
    BY <2>1, <2>2, AscendingSequence
<1>2. BatchAt(claims, plan, l) = [i \in DOMAIN entries |-> Work(i)] \o [d \in 1..decoys |-> 1]
  BY DEF BatchAt
<1> HIDE DEF entries, Work, decoys
<1>3. Len(entries) \in Nat /\ decoys \in Nat
  BY <1>1 DEF IsSequence, decoys
<1>4. IsSequence([i \in DOMAIN entries |-> Work(i)]) /\ IsSequence([d \in 1..decoys |-> 1])
  BY <1>1, <1>3, Listed
<1> QED
  BY <1>2, <1>4, Concatenated

LEMMA DecoysTyped ==
  ASSUME NEW claims \in Seq(Nodes), NEW c, NEW l \in 1..Len(claims)
  PROVE  Planned(claims, c, Tape(claims, c)).plan.decoys[l] \in Nat
<1> DEFINE t == Tape(claims, c)
           drawing == IF Decoyed(c) THEN Objects(claims) ELSE {}
           turn == Cardinality({m \in drawing : <<m, l>> \in LeftBefore(claims)}) + 1
<1>1. DOMAIN claims = 1..Len(claims)
  OBVIOUS
<1>2. Planned(claims, c, t).plan.decoys[l] =
        IF l \in drawing /\ turn \in DOMAIN t.decoy_counts THEN t.decoy_counts[turn] ELSE 0
  BY <1>1 DEF Planned
<1>3. ASSUME NEW o \in DOMAIN t.decoy_counts PROVE t.decoy_counts[o] \in Nat
  <2>1. t.decoy_counts = IF Decoyed(c) THEN [i \in 1..ObjectCount(claims) |-> 2 + ((i - 1) % 3)] ELSE <<>>
    BY DEF Tape
  <2>2. CASE Decoyed(c)
    <3>1. o \in 1..ObjectCount(claims) /\ t.decoy_counts[o] = 2 + ((o - 1) % 3)
      BY <1>3, <2>1, <2>2
    <3>2. o - 1 \in Int /\ (o - 1) % 3 \in 0..2
      BY <3>1
    <3> QED
      BY <3>1, <3>2
  <2>3. CASE ~ Decoyed(c)
    BY <1>3, <2>1, <2>3
  <2> QED
    BY <2>2, <2>3
<1> HIDE DEF t, drawing, turn
<1> QED
  BY <1>2, <1>3 DEF t

LEMMA ReadyTyped ==
  ASSUME NEW claims \in Seq(Nodes), NEW plan,
         \A l \in 1..Len(claims) : plan.decoys[l] \in Nat
  PROVE  /\ IsSequence(ReadyBatches(claims, plan))
         /\ \A b \in 1..Len(ReadyBatches(claims, plan)) : IsSequence(ReadyBatches(claims, plan)[b])
<1> DEFINE leaving == Leaving(claims)
           ready == Ascending({i \in DOMAIN leaving : BatchAt(claims, plan, leaving[i]) # <<>>})
           At(k) == BatchAt(claims, plan, leaving[ready[k]])
<1>1. /\ Len(claims) \in Nat /\ DOMAIN leaving = 1..Len(claims)
      /\ \A i \in 1..Len(claims) : leaving[i] \in 1..Len(claims)
  BY LeavingPermutes, LenProperties
<1> HIDE DEF leaving
<1>2. /\ IsSequence(ready) /\ DOMAIN ready = 1..Len(ready)
      /\ \A k \in 1..Len(ready) : ready[k] \in 1..Len(claims)
  <2>1. {i \in DOMAIN leaving : BatchAt(claims, plan, leaving[i]) # <<>>} \subseteq 1..Len(claims)
    BY <1>1
  <2> QED
    BY <1>1, <2>1, AscendingSequence
<1>3. ReadyBatches(claims, plan) = [k \in 1..Len(ready) |-> At(k)]
  BY <1>2 DEF ReadyBatches, leaving
<1> HIDE DEF ready
<1>4. ASSUME NEW k \in 1..Len(ready) PROVE IsSequence(At(k))
  BY <1>1, <1>2, BatchTyped
<1> HIDE DEF At
<1>5. Len(ready) \in Nat
  BY <1>2 DEF IsSequence
<1>6. /\ IsSequence(ReadyBatches(claims, plan)) /\ Len(ReadyBatches(claims, plan)) = Len(ready)
      /\ \A k \in 1..Len(ready) : ReadyBatches(claims, plan)[k] = At(k)
  BY <1>3, <1>5, Listed
<1> QED
  BY <1>4, <1>6

(* So the batches of every case are sequences of jobs.                     *)
LEMMA BatchesTyped ==
  ASSUME NEW c \in 1..Len(BenchmarkCases)
  PROVE  /\ IsSequence(BatchesOf[c]) /\ Len(BatchesOf[c]) \in Nat
         /\ \A b \in 1..Len(BatchesOf[c]) : IsSequence(BatchesOf[c][b]) /\ Len(BatchesOf[c][b]) \in Nat
<1> DEFINE record == BenchmarkCases[c]
           claims == SelectiveClaims(record)
           plan   == Planned(claims, record, Tape(claims, record)).plan
<1>1. record \in CaseRecords /\ c \in DOMAIN BenchmarkCases
  BY CasesTyped
<1>2. claims \in Seq(Nodes)
  BY <1>1, ClaimsTyped
<1>3. Claims[c] = claims /\ Tapes[c] = Tape(claims, record)
  BY <1>1 DEF Claims, Tapes
<1>4. PlanOf[c]["executor_assembly"].plan = plan
  <2>1. "executor_assembly" \in Range(Stages)
    BY DEF Range, Stages
  <2> HIDE DEF record, claims
  <2> QED
    BY <1>1, <1>3, <2>1 DEF PlanOf, record
<1>5. BatchesOf[c] = ReadyBatches(claims, plan)
  BY <1>1, <1>3, <1>4 DEF BatchesOf
<1>6. \A l \in 1..Len(claims) : plan.decoys[l] \in Nat
  BY <1>2, DecoysTyped
<1> HIDE DEF record, claims, plan
<1>7. /\ IsSequence(BatchesOf[c])
      /\ \A b \in 1..Len(BatchesOf[c]) : IsSequence(BatchesOf[c][b])
  BY <1>2, <1>5, <1>6, ReadyTyped
<1> QED
  BY <1>7, Zenon DEF IsSequence

-----------------------------------------------------------------------------
(* Control: what is executed and how far preflight is.                     *)

LEMMA ExecutionMeans ==
  /\ \A e \in 1..4 : Executions[e] = <<IF e <= 2 THEN "executor_assembly" ELSE "full_issuance",
                                       IF e \in {1, 3} THEN "serial_oracle" ELSE "adaptive_candidate">>
  /\ Stages[1] = "executor_assembly" /\ Stages[2] = "full_issuance"
  /\ Routes[1] = "serial_oracle" /\ Routes[2] = "adaptive_candidate"
BY DEF Executions, Stages, Routes

(* Which execution a route is.                                             *)
LEMMA ExecutionOfRoute ==
  ASSUME NEW i \in DOMAIN Canonical
  PROVE  LET e == CHOOSE e \in 1..4 : Executions[e] = <<Canonical[i].stage, Canonical[i].requested>>
         IN  e \in 1..4 /\ Executions[e] = <<Canonical[i].stage, Canonical[i].requested>>
<1>1. /\ StageAt(i) \in 1..2 /\ RouteAt(i) \in 1..2
      /\ Canonical[i].stage = Stages[StageAt(i)] /\ Canonical[i].requested = Routes[RouteAt(i)]
  BY CanonicalMeans, Places
<1> DEFINE e == 2 * (StageAt(i) - 1) + RouteAt(i)
<1>2. e \in 1..4 /\ Executions[e] = <<Canonical[i].stage, Canonical[i].requested>>
  <2>1. CASE StageAt(i) = 1 /\ RouteAt(i) = 1
    BY <1>1, <2>1, ExecutionMeans
  <2>2. CASE StageAt(i) = 1 /\ RouteAt(i) = 2
    BY <1>1, <2>2, ExecutionMeans
  <2>3. CASE StageAt(i) = 2 /\ RouteAt(i) = 1
    BY <1>1, <2>3, ExecutionMeans
  <2>4. CASE StageAt(i) = 2 /\ RouteAt(i) = 2
    BY <1>1, <2>4, ExecutionMeans
  <2> QED
    BY <1>1, <2>1, <2>2, <2>3, <2>4
<1> HIDE DEF e
<1> QED
  BY <1>2, Zenon

Control == TypeOK /\ Progress /\ Batching /\ Leasing /\ Chosen

LEMMA InitControl == ASSUME Init PROVE Control
<1> USE DEF Init, Invoked, Preflight, Timed, Untraced
<1>1. TypeOK
  BY CasesCounted, EmptySequence, RouteEvidenceAssumption DEF TypeOK, EmptyTrace
<1>2. Progress
  BY EmptySequence DEF Progress, EmptyTrace
<1>3. Batching
  BY DEF Batching
<1>4. Leasing
  BY RouteEvidenceAssumption DEF Leasing, EmptyTrace
<1>5. Chosen
  BY DEF Chosen
<1> QED
  BY <1>1, <1>2, <1>3, <1>4, <1>5 DEF Control

(* The invocation selects the route that Criterion's arguments name.       *)
LEMMA InvokeMeans ==
  ASSUME Invoke
  PROVE  \/ pc' = "ended" /\ outcome' \in {"no_evidence", "rejected"}
            /\ UNCHANGED <<target, selected, filter, case>>
         \/ /\ selected' \in DOMAIN Canonical /\ filter' \in DOMAIN Canonical
            /\ Canonical[selected'].benchmark_id = Canonical[filter'].benchmark_id
            /\ pc' = "begin" /\ UNCHANGED <<target, case, outcome>>
<1>1. /\ pc = "invoke"
      /\ UNCHANGED <<host, changes, permits, exec, tape, batch, leased, evidence, ghosts>>
  BY DEF Invoke
<1>3. PICK destination \in {Null, Some([absolute |-> TRUE]), Some([absolute |-> FALSE])},
           selector \in {Null, Some(<<"no such benchmark">>)} \cup {Some(Asked(i)) : i \in Selectable},
           i \in Selectable, sampling \in {"frozen", "quick"} :
         LET arguments == [FrozenArguments(Asked(i)) EXCEPT !.sampling = sampling]
             invoked   == Invocation(destination, selector, arguments)
         IN  CASE invoked.kind = "no_evidence" -> Ends("no_evidence")
               [] invoked.kind = "rejected"    -> Ends("rejected")
               [] invoked.kind = "selected"    ->
                    /\ selected' = invoked.index /\ filter' = i
                    /\ pc' = "begin" /\ UNCHANGED <<target, case, outcome>>
  BY DEF Invoke
<1> DEFINE arguments == [FrozenArguments(Asked(i)) EXCEPT !.sampling = sampling]
           invoked   == Invocation(destination, selector, arguments)
<1>4. \/ invoked.kind = "no_evidence" \/ invoked.kind = "rejected"
      \/ /\ invoked.kind = "selected"
         /\ invoked.index \in DOMAIN Canonical
         /\ Canonical[invoked.index].benchmark_id = Asked(i)
  <2> DEFINE chosen == {r \in DOMAIN Canonical : <<Canonical[r].benchmark_id>> = selector}
  <2>1. invoked =
          IF destination = <<>> /\ selector = <<>> THEN [kind |-> "no_evidence"]
          ELSE IF /\ destination # <<>> /\ selector # <<>>
                  /\ chosen # {}
                  /\ arguments = FrozenArguments(selector[1])
                  /\ destination[1].absolute
          THEN [kind |-> "selected", destination |-> destination[1],
                index |-> CHOOSE r \in chosen : \A j \in chosen : r <= j]
          ELSE [kind |-> "rejected"]
    BY DEF Invocation, Canonical
  <2>2. CASE chosen # {} /\ arguments = FrozenArguments(selector[1])
    <3> DEFINE least == CHOOSE r \in chosen : \A j \in chosen : r <= j
    <3>1. least \in chosen
      <4>1. chosen \subseteq Nat
        BY CanonicalPlaces
      <4> HIDE DEF chosen
      <4>2. \E r \in chosen : \A j \in chosen : r <= j
        BY <2>2, <4>1, LeastElement
      <4> QED
        BY <4>2
    <3>2. selector = <<Canonical[least].benchmark_id>>
      BY <3>1
    <3>3. arguments.filter = Asked(i) /\ FrozenArguments(selector[1]).filter = selector[1]
      BY DEF FrozenArguments
    <3>5. least \in DOMAIN Canonical
      BY <3>1
    <3> HIDE DEF chosen, least, arguments, invoked
    <3>6. selector[1] = Canonical[least].benchmark_id
      BY <3>2
    <3>7. arguments.filter = selector[1]
      BY <2>2, <3>3, Zenon
    <3>4. Canonical[least].benchmark_id = Asked(i)
      BY <3>3, <3>6, <3>7, Zenon
    <3> QED
      BY <2>1, <3>4, <3>5 DEF least
  <2> HIDE DEF chosen, arguments, invoked
  <2>3. CASE ~ (chosen # {} /\ arguments = FrozenArguments(selector[1]))
    BY <2>1, <2>3
  <2> QED
    BY <2>2, <2>3
<1> HIDE DEF arguments, invoked
<1> QED
  BY <1>3, <1>4, SelectableAssumption DEF invoked, arguments, Ends, Goto, Asked

LEMMA InvokeControl == ASSUME Control, Invoke PROVE Control'
<1> USE DEF Control
<1>1. /\ pc = "invoke"
      /\ UNCHANGED <<host, changes, permits, exec, tape, batch, leased, evidence, ghosts>>
  BY Zenon DEF Invoke
<1>2. UNCHANGED <<trace, stageRoutes, records, sampled, ran, measuring, measured>>
  BY <1>1 DEF evidence, ghosts
<1>5. \/ pc' = "ended" /\ outcome' \in {"no_evidence", "rejected"}
         /\ UNCHANGED <<target, selected, filter, case>>
      \/ /\ selected' \in DOMAIN Canonical /\ filter' \in DOMAIN Canonical
         /\ Canonical[selected'].benchmark_id = Canonical[filter'].benchmark_id
         /\ pc' = "begin" /\ UNCHANGED <<target, case, outcome>>
  BY InvokeMeans
<1> USE DEF Invoked, Preflight, Timed, Untraced
<1>6. TypeOK'
  BY <1>1, <1>2, <1>5 DEF TypeOK
<1>7. Progress'
  BY <1>1, <1>2, <1>5 DEF Progress, TypeOK
<1>8. Batching'
  BY <1>1, <1>2, <1>5 DEF Batching
<1>9. Leasing'
  BY <1>1, <1>2, <1>5 DEF Leasing
<1>10. Chosen'
  BY <1>1, <1>5 DEF Chosen
<1> QED
  BY <1>6, <1>7, <1>8, <1>9, <1>10

(* The start of an execution.                                              *)
LEMMA BeginControl ==
  ASSUME Control, Begin,
         \A c \in 1..Len(BenchmarkCases) : IsSequence(BatchesOf[c])
  PROVE  Control'
<1> USE DEF Control, Invoked, Preflight, Timed, Untraced
<1>1. /\ pc \in {"begin", "measure"} /\ batch' = 1 /\ trace' = <<>> /\ measuring' = <<>>
      /\ UNCHANGED <<host, changes, permits, exec, leased, stageRoutes, records, sampled>>
      /\ UNCHANGED <<ran, measured, target, selected, filter, case>>
  BY DEF Begin, Goto, Ends, EmptyTrace
<1>2. \/ pc' = "ended" /\ outcome' = "tape_panic"
      \/ /\ Requested = "serial_oracle" \/ target = "other" \/ BatchesOf[case] = <<>>
         /\ pc' = (IF pc = "begin" THEN "end" ELSE "iterated") /\ UNCHANGED outcome
      \/ /\ ~ (Requested = "serial_oracle" \/ target = "other" \/ BatchesOf[case] = <<>>)
         /\ pc' = (IF pc = "begin" THEN "select" ELSE "select_untraced") /\ UNCHANGED outcome
  BY DEF Begin, Goto, Ends
<1>3. /\ Requested' = Requested /\ MeasuredCase' = MeasuredCase /\ Measured' = Measured
      /\ Requested \in {"serial_oracle", "adaptive_candidate"}
  BY <1>1, ExecutionMeans DEF Requested, MeasuredCase, Measured, TypeOK
<1>4. /\ Len(BatchesOf[case]) \in Nat
      /\ BatchesOf[case] = <<>> <=> Len(BatchesOf[case]) = 0
  BY SequenceDomain DEF TypeOK
<1>5. IsSequence(<<>>) /\ Len(<<>>) = 0
  BY EmptySequence
<1>6. TypeOK'
  BY <1>1, <1>2, <1>5 DEF TypeOK
<1>7. Progress'
  BY <1>1, <1>2, <1>3 DEF Progress, TypeOK
<1>8. Batching'
  BY <1>1, <1>2, <1>3, <1>4, <1>5 DEF Batching, TypeOK
<1>9. Leasing'
  BY <1>1, <1>2 DEF Leasing
<1>10. Chosen'
  BY <1>1, <1>2 DEF Chosen
<1> QED
  BY <1>6, <1>7, <1>8, <1>9, <1>10

(* What a batch leases it holds, and nothing is held when it asks.         *)
LEMMA LeasesControl ==
  ASSUME TypeOK, Leasing, Leases, pc \notin {"join", "join_untraced"}, Len(Jobs) \in Nat
  PROVE  /\ permits' \in Nat /\ leased' \in Nat /\ permits' + leased' = WorkerCap
         /\ permits = WorkerCap
         /\ leased' = IF Native(Jobs, WorkerCap, host, WorkerCap) THEN Threads ELSE 0
         /\ Native(Jobs, WorkerCap, host, WorkerCap) => Threads >= 2
         /\ BudgetGate(Jobs, WorkerCap, host) => Native(Jobs, WorkerCap, host, WorkerCap)
<1>1. permits = WorkerCap /\ WorkerCap \in Nat /\ host \in Nat
  BY RouteEvidenceAssumption DEF Leasing, TypeOK
<1>2. Threads \in Nat /\ Threads <= WorkerCap
  BY <1>1 DEF Threads, WorkerCount, Lesser
<1>3. /\ Native(Jobs, WorkerCap, host, WorkerCap) => Threads >= 2
      /\ BudgetGate(Jobs, WorkerCap, host) => Native(Jobs, WorkerCap, host, WorkerCap)
  BY <1>2 DEF Native, BudgetGate, Threads
<1>4. /\ Native(Jobs, WorkerCap, host, WorkerCap) => leased' = Threads /\ permits' = permits - Threads
      /\ ~ Native(Jobs, WorkerCap, host, WorkerCap) => leased' = 0 /\ permits' = permits
  BY <1>1 DEF Leases
<1> QED
  BY <1>1, <1>2, <1>3, <1>4

(* Its trace is not one of contention.                                     *)
LEMMA NotContended ==
  ASSUME NEW ordinal, NEW jobs, NEW cap, NEW threads, NEW left,
         BudgetGate(jobs, cap, threads) => Native(jobs, cap, threads, left)
  PROVE  ~ IsBudgetFallback(ReadyBatch(ordinal, jobs, cap, threads, left))
<1>1. ReadyBatch(ordinal, jobs, cap, threads, left).selection_reason = Reason(jobs, cap, threads, left)
  BY DEF ReadyBatch
<1>2. Reason(jobs, cap, threads, left) # "worker_budget_unavailable"
  <2>1. CASE ~ WorkGate(jobs)
    BY <2>1 DEF Reason, ParallelismGate, BudgetGate, Native
  <2>2. CASE WorkGate(jobs) /\ Estimate(jobs) = Null
    BY <2>2 DEF Reason, ParallelismGate, BudgetGate, Native
  <2>3. CASE WorkGate(jobs) /\ Estimate(jobs) # Null /\ ~ ParallelismGate(jobs)
    BY <2>3 DEF Reason, BudgetGate, Native
  <2>4. CASE ParallelismGate(jobs) /\ ~ BudgetGate(jobs, cap, threads)
    BY <2>4 DEF Reason, ParallelismGate, Native
  <2>5. CASE Native(jobs, cap, threads, left)
    BY <2>5 DEF Reason, ParallelismGate, BudgetGate, Native
  <2> QED
    BY <2>1, <2>2, <2>3, <2>4, <2>5
<1> QED
  BY <1>1, <1>2, Zenon DEF IsBudgetFallback

LEMMA SelectTracedControl ==
  ASSUME Control, SelectTraced, Len(Jobs) \in Nat
  PROVE  Control'
<1> USE DEF Control, Invoked, Preflight, Timed, Untraced
<1> DEFINE b == ReadyBatch(Len(trace), Jobs, WorkerCap, host, permits)
<1>1. /\ pc = "select" /\ pc' = "join" /\ Leases /\ trace' = Append(trace, b)
      /\ UNCHANGED <<target, selected, filter, case, host, changes, exec, tape, batch>>
      /\ UNCHANGED <<stageRoutes, records, outcome, ran, measuring, measured>>
  BY DEF SelectTraced, Goto, ghosts
<1>2. /\ permits' \in Nat /\ leased' \in Nat /\ permits' + leased' = WorkerCap
      /\ ~ IsBudgetFallback(b)
  <2>1. /\ permits' \in Nat /\ leased' \in Nat /\ permits' + leased' = WorkerCap
        /\ permits = WorkerCap
        /\ BudgetGate(Jobs, WorkerCap, host) => Native(Jobs, WorkerCap, host, WorkerCap)
    BY <1>1, LeasesControl
  <2> QED
    BY <2>1, NotContended
<1> HIDE DEF b
<1>3. /\ IsSequence(trace') /\ Len(trace') = Len(trace) + 1 /\ DOMAIN trace' = 1..Len(trace')
      /\ DOMAIN trace = 1..Len(trace) /\ Len(trace) \in Nat
      /\ \A i \in 1..Len(trace) : trace'[i] = trace[i]
      /\ trace'[Len(trace) + 1] = b
  BY <1>1, Appended, SequenceDomain DEF TypeOK
<1>4. /\ Requested' = Requested /\ MeasuredCase' = MeasuredCase /\ Measured' = Measured
  BY <1>1 DEF Requested, MeasuredCase, Measured
<1>6. TypeOK'
  BY <1>1, <1>2, <1>3 DEF TypeOK
<1>7. Progress'
  BY <1>1, <1>4 DEF Progress, TypeOK
<1>8. Batching'
  BY <1>1, <1>3, <1>4 DEF Batching, TypeOK
<1>9. Leasing'
  <2>1. \A i \in DOMAIN trace' : ~ IsBudgetFallback(trace'[i])
    <3>1. \A i \in 1..Len(trace) : ~ IsBudgetFallback(trace'[i])
      BY <1>3 DEF Leasing
    <3>2. \A i \in DOMAIN trace' : i \in 1..Len(trace) \/ i = Len(trace) + 1
      BY <1>3
    <3> QED
      BY <1>2, <1>3, <3>1, <3>2, Zenon
  <2> QED
    BY <1>1, <1>2, <2>1 DEF Leasing
<1>10. Chosen'
  BY <1>1 DEF Chosen
<1> QED
  BY <1>6, <1>7, <1>8, <1>9, <1>10

LEMMA SelectUntracedControl ==
  ASSUME Control, SelectUntraced, Len(Jobs) \in Nat
  PROVE  Control'
<1> USE DEF Control, Invoked, Preflight, Timed, Untraced
<1>1. /\ pc = "select_untraced" /\ pc' = "join_untraced" /\ Leases
      /\ UNCHANGED <<target, selected, filter, case, host, changes, exec, tape, batch>>
      /\ UNCHANGED <<trace, stageRoutes, records, sampled, outcome, ran, measuring, measured>>
  BY DEF SelectUntraced, Goto, ghosts, evidence
<1>2. permits' \in Nat /\ leased' \in Nat /\ permits' + leased' = WorkerCap
  BY <1>1, LeasesControl
<1>4. /\ Requested' = Requested /\ MeasuredCase' = MeasuredCase /\ Measured' = Measured
  BY <1>1 DEF Requested, MeasuredCase, Measured
<1>6. TypeOK'
  BY <1>1, <1>2 DEF TypeOK
<1>7. Progress'
  BY <1>1, <1>4 DEF Progress, TypeOK
<1>8. Batching'
  BY <1>1, <1>4 DEF Batching, TypeOK
<1>9. Leasing'
  BY <1>1, <1>2 DEF Leasing
<1>10. Chosen'
  BY <1>1 DEF Chosen
<1> QED
  BY <1>6, <1>7, <1>8, <1>9, <1>10

LEMMA JoinControl ==
  ASSUME Control, Join, IsSequence(BatchesOf[case])
  PROVE  Control'
<1> USE DEF Control, Invoked, Preflight, Timed, Untraced
<1>1. /\ pc \in {"join", "join_untraced"} /\ permits' = permits + leased /\ leased' = 0
      /\ batch' = batch + 1
      /\ pc' = IF pc = "join" THEN IF batch = Len(BatchesOf[case]) THEN "end" ELSE "select"
               ELSE IF batch = Len(BatchesOf[case]) THEN "iterated" ELSE "select_untraced"
      /\ UNCHANGED <<target, selected, filter, case, host, changes, exec, tape>>
      /\ UNCHANGED <<trace, stageRoutes, records, sampled, outcome, measured>>
  BY DEF Join, Goto, Returned, AtLastBatch, evidence
<1>2. IsSequence(ran') /\ IsSequence(measuring')
  <2>1. \/ ran' = ran \/ ran' = Append(ran, BatchRun)
    BY DEF Join
  <2>2. \/ measuring' = measuring \/ measuring' = Append(measuring, BatchRun)
    BY DEF Join
  <2>3. IsSequence(Append(ran, BatchRun)) /\ IsSequence(Append(measuring, BatchRun))
    BY Appended DEF TypeOK
  <2> QED
    BY <2>1, <2>2, <2>3 DEF TypeOK
<1>3. Len(BatchesOf[case]) \in Nat
  BY DEF IsSequence
<1>4. /\ Requested' = Requested /\ MeasuredCase' = MeasuredCase /\ Measured' = Measured
  BY <1>1 DEF Requested, MeasuredCase, Measured
<1>6. TypeOK'
  BY <1>1, <1>2 DEF TypeOK
<1>7. Progress'
  BY <1>1, <1>4 DEF Progress, TypeOK
<1>8. Batching'
  BY <1>1, <1>3, <1>4 DEF Batching, TypeOK
<1>9. Leasing'
  BY <1>1 DEF Leasing, TypeOK
<1>10. Chosen'
  BY <1>1 DEF Chosen
<1> QED
  BY <1>6, <1>7, <1>8, <1>9, <1>10

LEMMA SpawnFailsControl == ASSUME Control, SpawnFails PROVE Control'
<1> USE DEF Control, Invoked, Preflight, Timed, Untraced
<1>1. /\ pc \in {"join", "join_untraced"} /\ permits' = permits + leased /\ leased' = 0
      /\ pc' = "ended" /\ outcome' = "spawn_panic"
      /\ UNCHANGED <<target, selected, filter, case, host, changes, exec, tape, batch>>
      /\ UNCHANGED <<trace, stageRoutes, records, sampled, ran, measuring, measured>>
  BY DEF SpawnFails, Goto, Ends, evidence, ghosts
<1>2. TypeOK'
  BY <1>1 DEF TypeOK
<1>3. Leasing'
  BY <1>1 DEF Leasing, TypeOK
<1>4. Progress' /\ Batching' /\ Chosen'
  BY <1>1 DEF Progress, Batching, Chosen
<1> QED
  BY <1>2, <1>3, <1>4

LEMMA EndExecutionControl == ASSUME Control, EndExecution PROVE Control'
<1> USE DEF Control, Invoked, Preflight, Timed, Untraced
<1> DEFINE summary == IF target = "x86_64" THEN Summary(trace) ELSE TargetFallback
<1>1. /\ pc = "end" /\ exec' = IF exec = 4 THEN 1 ELSE exec + 1
      /\ UNCHANGED <<target, selected, filter, case, host, changes, permits, tape, batch, leased>>
      /\ UNCHANGED <<trace, records, ran, measuring, measured>>
  BY DEF EndExecution, Goto, Ends, ghosts
<1>2. \/ pc' = "ended" /\ outcome' # "running" /\ UNCHANGED stageRoutes
      \/ /\ pc' = (IF exec = 4 THEN "record" ELSE "begin") /\ UNCHANGED outcome
         /\ stageRoutes' = IF Requested = "adaptive_candidate"
                           THEN Append(stageRoutes, Candidate(summary, host)) ELSE stageRoutes
  BY DEF EndExecution, Goto, Ends
<1> HIDE DEF summary
<1>3. /\ IsSequence(stageRoutes) /\ Len(stageRoutes) \in Nat /\ Len(stageRoutes) = (exec - 1) \div 2
      /\ IsSequence(Append(stageRoutes, Candidate(summary, host)))
      /\ Len(Append(stageRoutes, Candidate(summary, host))) = Len(stageRoutes) + 1
  BY <1>1, Appended, SequenceDomain DEF TypeOK, Progress
<1>4. /\ MeasuredCase' = MeasuredCase /\ Measured' = Measured
      /\ Requested = IF exec \in {1, 3} THEN "serial_oracle" ELSE "adaptive_candidate"
  BY <1>1, ExecutionMeans DEF Requested, MeasuredCase, Measured, TypeOK
<1>5. IsSequence(stageRoutes')
  BY <1>2, <1>3, Zenon
<1>6. TypeOK'
  BY <1>1, <1>2, <1>5 DEF TypeOK
<1>7. Progress'
  <2>1. CASE pc' = "ended"
    BY <2>1 DEF Progress
  <2>2. CASE pc' # "ended"
    <3>1. pc' = IF exec = 4 THEN "record" ELSE "begin"
      BY <1>2, <2>2, Zenon
    <3>2. CASE exec \in {1, 3}
      <4>1. stageRoutes' = stageRoutes
        BY <1>2, <1>4, <2>2, <3>2
      <4> QED
        BY <1>1, <1>3, <3>1, <3>2, <4>1 DEF Progress
    <3>3. CASE exec \in {2, 4}
      <4>1. stageRoutes' = Append(stageRoutes, Candidate(summary, host))
        BY <1>2, <1>4, <2>2, <3>3
      <4>2. Len(stageRoutes') = Len(stageRoutes) + 1
        BY <1>3, <4>1
      <4> QED
        BY <1>1, <1>3, <3>1, <3>3, <4>2 DEF Progress, TypeOK
    <3> QED
      BY <3>2, <3>3 DEF TypeOK
  <2> QED
    BY <2>1, <2>2
<1>8. Batching'
  BY <1>1, <1>2 DEF Batching
<1>9. Leasing'
  BY <1>1, <1>2 DEF Leasing
<1>10. Chosen'
  BY <1>1, <1>2 DEF Chosen
<1> QED
  BY <1>6, <1>7, <1>8, <1>9, <1>10

(* Which of its four records a case is at.                                 *)
RecordAt == (Len(records) % 4) + 1

LEMMA RecordPlace ==
  ASSUME TypeOK, Progress, pc = "record"
  PROVE  RecordAt \in 1..4 /\ Len(records) = 4 * (case - 1) + (RecordAt - 1) /\ case \in Nat \ {0}
<1>1. /\ case \in Nat \ {0} /\ Len(records) \in Nat
      /\ Len(records) \in (4 * (case - 1))..(4 * case - 1)
  BY CasesCounted DEF TypeOK, Progress, IsSequence
<1> QED
  BY <1>1 DEF RecordAt

LEMMA RecordControl == ASSUME Control, Record PROVE Control'
<1> USE DEF Control, Invoked, Preflight, Timed, Untraced
<1>1. /\ pc = "record" /\ \E r : records' = Append(records, r)
      /\ pc' = IF RecordAt < 4 THEN "record" ELSE IF case = MeasuredCase THEN "measure" ELSE "next"
      /\ exec' = IF RecordAt = 4 /\ case = MeasuredCase
                 THEN CHOOSE e \in 1..4 : Executions[e] = <<Measured.stage, Measured.requested>>
                 ELSE exec
      /\ UNCHANGED <<target, selected, filter, case, host, changes, permits, tape, batch, leased>>
      /\ UNCHANGED <<trace, stageRoutes, outcome, ran, measuring, measured>>
  BY Zenon DEF Record, Goto, ghosts, RecordAt
<1>2. RecordAt \in 1..4 /\ Len(records) = 4 * (case - 1) + (RecordAt - 1) /\ case \in Nat \ {0}
  BY <1>1, RecordPlace
<1>3. IsSequence(records') /\ Len(records') = 4 * (case - 1) + RecordAt
  <2>1. PICK r : records' = Append(records, r)
    BY <1>1
  <2>2. IsSequence(Append(records, r)) /\ Len(Append(records, r)) = Len(records) + 1
    BY Appended DEF TypeOK
  <2> QED
    BY <1>2, <2>1, <2>2
<1>4. /\ MeasuredCase' = MeasuredCase /\ Measured' = Measured
      /\ RecordAt = 4 /\ case = MeasuredCase =>
           exec' \in 1..4 /\ Executions[exec'] = <<Measured.stage, Measured.requested>>
  <2>1. filter \in DOMAIN Canonical
    BY <1>1 DEF Chosen
  <2> QED
    BY <1>1, <2>1, ExecutionOfRoute, Zenon DEF MeasuredCase, Measured
<1>5. exec' \in 1..4
  BY <1>1, <1>4 DEF TypeOK
<1> HIDE DEF RecordAt
<1>6. TypeOK'
  BY <1>1, <1>3, <1>5 DEF TypeOK
<1>7. Progress'
  <2>1. exec = 1 /\ Len(stageRoutes) = 2
    BY <1>1 DEF Progress
  <2>2. CASE RecordAt < 4
    BY <1>1, <1>2, <1>3, <2>1, <2>2 DEF Progress
  <2>3. CASE RecordAt = 4 /\ case = MeasuredCase
    BY <1>1, <1>2, <1>3, <1>4, <2>3 DEF Progress
  <2>4. CASE RecordAt = 4 /\ case # MeasuredCase
    BY <1>1, <1>2, <1>3, <2>1, <2>4 DEF Progress
  <2> QED
    BY <1>2, <2>2, <2>3, <2>4
<1>8. Batching'
  BY <1>1 DEF Batching
<1>9. Leasing'
  BY <1>1 DEF Leasing
<1>10. Chosen'
  BY <1>1 DEF Chosen
<1> QED
  BY <1>6, <1>7, <1>8, <1>9, <1>10

LEMMA IteratedControl == ASSUME Control, Iterated PROVE Control'
<1> USE DEF Control, Invoked, Preflight, Timed, Untraced
<1>1. /\ pc = "iterated" /\ measuring' = <<>>
      /\ (pc' = "measure" /\ exec' = exec) \/ (pc' = "next" /\ exec' = 1)
      /\ UNCHANGED <<target, selected, filter, case, host, changes, permits, tape, batch, leased>>
      /\ UNCHANGED <<trace, stageRoutes, records, sampled, outcome, ran>>
  BY DEF Iterated, Goto, evidence
<1>2. MeasuredCase' = MeasuredCase /\ Measured' = Measured
  BY <1>1 DEF MeasuredCase, Measured
<1>6. TypeOK'
  BY <1>1, EmptySequence DEF TypeOK
<1>7. Progress'
  BY <1>1, <1>2 DEF Progress
<1>8. Batching'
  BY <1>1 DEF Batching
<1>9. Leasing'
  BY <1>1 DEF Leasing
<1>10. Chosen'
  BY <1>1 DEF Chosen
<1> QED
  BY <1>6, <1>7, <1>8, <1>9, <1>10

LEMMA NextCaseControl == ASSUME Control, NextCase PROVE Control'
<1> USE DEF Control, Invoked, Preflight, Timed, Untraced
<1>1. /\ pc = "next" /\ stageRoutes' = <<>> /\ trace' = <<>>
      /\ \/ case < Len(BenchmarkCases) /\ case' = case + 1 /\ pc' = "begin"
         \/ ~ (case < Len(BenchmarkCases)) /\ case' = case /\ pc' = "finish"
      /\ UNCHANGED <<target, selected, filter, host, changes, permits, exec, batch, leased>>
      /\ UNCHANGED <<records, sampled, outcome, ran, measuring, measured>>
  BY DEF NextCase, EmptyTrace, ghosts
<1>2. MeasuredCase' = MeasuredCase /\ Measured' = Measured
  BY <1>1 DEF MeasuredCase, Measured
<1>3. IsSequence(<<>>) /\ Len(<<>>) = 0 /\ DOMAIN <<>> = {}
  BY EmptySequence
<1>4. Len(BenchmarkCases) \in Nat /\ case \in Nat
  BY CasesCounted DEF TypeOK
<1>6. TypeOK'
  BY <1>1, <1>3, <1>4 DEF TypeOK
<1>7. Progress'
  BY <1>1, <1>2, <1>3, <1>4 DEF Progress, TypeOK
<1>8. Batching'
  BY <1>1 DEF Batching
<1>9. Leasing'
  BY <1>1, <1>3 DEF Leasing
<1>10. Chosen'
  BY <1>1 DEF Chosen
<1> QED
  BY <1>6, <1>7, <1>8, <1>9, <1>10

LEMMA FinishControl == ASSUME Control, Finish PROVE Control'
<1> USE DEF Control, Invoked, Preflight, Timed, Untraced
<1>1. /\ pc = "finish" /\ pc' = "ended" /\ outcome' # "running"
      /\ UNCHANGED <<target, selected, filter, case, host, changes, permits, exec, tape, batch, leased>>
      /\ UNCHANGED <<trace, stageRoutes, records, sampled, ran, measuring, measured>>
  BY DEF Finish, Ends, Goto, evidence, ghosts
<1>2. TypeOK' /\ Progress' /\ Batching' /\ Leasing' /\ Chosen'
  BY <1>1 DEF TypeOK, Progress, Batching, Leasing, Chosen
<1> QED
  BY <1>2

LEMMA HostChangesControl == ASSUME Control, HostChanges PROVE Control'
<1> USE DEF Control, Invoked, Preflight, Timed, Untraced
<1>1. /\ host' \in Nat \ {0} /\ changes' = changes + 1 /\ outcome = "running"
      /\ UNCHANGED <<target, selected, filter, case, pc, permits, exec, tape, batch, leased>>
      /\ UNCHANGED <<trace, stageRoutes, records, sampled, outcome, ran, measuring, measured>>
  BY RouteEvidenceAssumption DEF HostChanges, run, evidence, ghosts
<1>2. MeasuredCase' = MeasuredCase /\ Measured' = Measured /\ Requested' = Requested
  BY <1>1 DEF MeasuredCase, Measured, Requested
<1>3. TypeOK' /\ Progress' /\ Batching' /\ Leasing' /\ Chosen'
  BY <1>1, <1>2 DEF TypeOK, Progress, Batching, Leasing, Chosen
<1> QED
  BY <1>3

-----------------------------------------------------------------------------
(* What is sampled of the host stands in the evidence.                     *)

LEMMA InitSampling == ASSUME Init PROVE Sampling
<1>1. sampled = {} /\ records = <<>> /\ pc = "invoke"
  BY DEF Init
<1> QED
  BY <1>1 DEF Sampling, Invoked, Preflight, Timed, Untraced

(* Where evidence stands it stays while the rest goes on.                  *)
LEMMA EvidenceStands ==
  ASSUME UNCHANGED <<stageRoutes, records>>
  PROVE  \A h : Staged(h)' = Staged(h) /\ Recorded(h)' = Recorded(h)
BY DEF Staged, Recorded

LEMMA InvokeSampling == ASSUME Control, Sampling, Invoke PROVE Sampling'
<1>1. pc = "invoke" /\ UNCHANGED <<records, sampled>>
  BY Zenon DEF Invoke, evidence
<1>2. sampled = {} /\ Len(records) = 4 * (case - 1) /\ case = 1 /\ IsSequence(records)
  BY <1>1 DEF Control, Progress, TypeOK
<1>3. records = <<>>
  BY <1>2, SequenceDomain
<1> QED
  BY <1>1, <1>2, <1>3 DEF Sampling

LEMMA BeginSampling == ASSUME Control, Sampling, Begin PROVE Sampling'
<1> USE DEF Invoked, Preflight, Timed, Untraced
<1>1. /\ pc \in {"begin", "measure"} /\ UNCHANGED <<stageRoutes, records, sampled>>
      /\ pc = "begin" => pc' \in {"ended", "end", "select"}
      /\ pc = "measure" => pc' \in {"ended", "iterated", "select_untraced"}
  BY DEF Begin, Ends, Goto
<1>2. \A h : Staged(h)' = Staged(h) /\ Recorded(h)' = Recorded(h)
  BY <1>1, EvidenceStands
<1>3. records' # <<>> => sampled' # {}
  BY <1>1 DEF Sampling
<1>4. CASE pc = "begin"
  <2>1. \A h \in sampled : Staged(h) \/ Recorded(h)
    BY <1>4 DEF Sampling
  <2>2. \A h \in sampled' : Staged(h)' \/ Recorded(h)'
    BY <1>1, <1>2, <2>1, Zenon
  <2>3. pc' \in {"ended", "end", "select"}
    BY <1>1, <1>4
  <2> HIDE DEF Staged, Recorded
  <2> QED
    BY <1>3, <2>2, <2>3 DEF Sampling
<1>5. CASE pc = "measure"
  <2>1. \A h \in sampled : Recorded(h)
    BY <1>5 DEF Sampling
  <2>2. \A h \in sampled' : Recorded(h)'
    BY <1>1, <1>2, <2>1, Zenon
  <2>3. pc' \in {"ended", "iterated", "select_untraced"}
    BY <1>1, <1>5
  <2> HIDE DEF Staged, Recorded
  <2> QED
    BY <1>3, <2>2, <2>3 DEF Sampling
<1> QED
  BY <1>1, <1>4, <1>5

(* A batch that asks the host how many threads it offers shows the answer. *)
LEMMA SelectTracedSampling == ASSUME Control, Sampling, SelectTraced PROVE Sampling'
<1> USE DEF Invoked, Preflight, Timed, Untraced
<1> DEFINE b == ReadyBatch(Len(trace), Jobs, WorkerCap, host, permits)
<1>1. /\ pc = "select" /\ pc' = "join" /\ trace' = Append(trace, b)
      /\ sampled' = IF ParallelismGate(Jobs) THEN sampled \cup {host} ELSE sampled
      /\ UNCHANGED <<stageRoutes, records>>
  BY DEF SelectTraced, Goto
<1>2. ParallelismGate(Jobs) => b.available_parallelism = Some(host)
  BY DEF ReadyBatch
<1> HIDE DEF b
<1>3. /\ DOMAIN trace = 1..Len(trace) /\ DOMAIN trace' = 1..(Len(trace) + 1) /\ Len(trace) \in Nat
      /\ \A i \in 1..Len(trace) : trace'[i] = trace[i]
      /\ trace'[Len(trace) + 1] = b
  BY <1>1, Appended, SequenceDomain DEF Control, TypeOK
<1>4. \A h : Traced(h) => Traced(h)'
  BY <1>3 DEF Traced
<1>5. ASSUME NEW h, h = host, ParallelismGate(Jobs) PROVE Traced(h)'
  <2>1. Len(trace) + 1 \in DOMAIN trace'
    BY <1>3
  <2>2. trace'[Len(trace) + 1].available_parallelism = Some(h)
    BY <1>2, <1>3, <1>5
  <2> QED
    BY <2>1, <2>2, Zenon DEF Traced
<1>6. \A h : Staged(h)' = Staged(h) /\ Recorded(h)' = Recorded(h)
  BY <1>1, EvidenceStands
<1>7. \A h \in sampled : Traced(h) \/ Staged(h) \/ Recorded(h)
  BY <1>1 DEF Sampling
<1>8. records' # <<>> => sampled' # {}
  BY <1>1 DEF Sampling
<1>9. ASSUME NEW h \in sampled' PROVE Traced(h)' \/ Staged(h)' \/ Recorded(h)'
  <2>1. h \in sampled \/ (h = host /\ ParallelismGate(Jobs))
    BY <1>1
  <2>2. CASE h \in sampled
    BY <1>4, <1>6, <1>7, <2>2, Zenon
  <2>3. CASE h = host /\ ParallelismGate(Jobs)
    BY <1>5, <2>3, Zenon
  <2> QED
    BY <2>1, <2>2, <2>3
<1> HIDE DEF Traced, Staged, Recorded
<1> QED
  BY <1>1, <1>8, <1>9 DEF Sampling

(* What goes on without new evidence.                                      *)
LEMMA SteadySampling ==
  ASSUME Control, Sampling, SelectUntraced \/ Join \/ SpawnFails \/ Iterated \/ Finish \/ HostChanges
  PROVE  Sampling'
<1> USE DEF Invoked, Preflight, Timed, Untraced
<1>1. /\ UNCHANGED <<trace, stageRoutes, records, sampled, case>>
      /\ \/ pc' = "ended" \/ pc' = pc
         \/ pc \in {"select", "join", "end"} /\ pc' \in {"select", "join", "end"}
         \/ pc \in Timed /\ pc' \in Timed \cup {"next"}
  <2>1. CASE SelectUntraced
    BY <2>1 DEF SelectUntraced, Goto, evidence
  <2>2. CASE Join
    BY <2>2 DEF Join, Goto, evidence
  <2>3. CASE SpawnFails
    BY <2>3 DEF SpawnFails, Ends, Goto, evidence
  <2>4. CASE Iterated
    BY <2>4 DEF Iterated, Goto, evidence
  <2>5. CASE Finish
    BY <2>5 DEF Finish, Ends, Goto, evidence
  <2>6. CASE HostChanges
    BY <2>6 DEF HostChanges, run, evidence
  <2> QED
    BY <2>1, <2>2, <2>3, <2>4, <2>5, <2>6
<1>2. \A h : /\ Traced(h)' = Traced(h) /\ Staged(h)' = Staged(h) /\ Recorded(h)' = Recorded(h)
             /\ ShownBy(h, stageRoutes[2])' = ShownBy(h, stageRoutes[2])
  BY <1>1 DEF Traced, Staged, Recorded, ShownBy
<1> HIDE DEF Traced, Staged, Recorded, ShownBy
<1>3. CASE pc' = "ended"
  BY <1>1, <1>3 DEF Sampling
<1>4. CASE pc' = pc
  BY <1>1, <1>2, <1>4 DEF Sampling
<1>5. CASE pc \in {"select", "join", "end"} /\ pc' \in {"select", "join", "end"}
  BY <1>1, <1>2, <1>5 DEF Sampling
<1>6. CASE pc \in Timed /\ pc' \in Timed \cup {"next"}
  BY <1>1, <1>2, <1>6 DEF Sampling
<1> QED
  BY <1>1, <1>3, <1>4, <1>5, <1>6

LEMMA NextCaseSampling == ASSUME Control, Sampling, NextCase PROVE Sampling'
<1> USE DEF Invoked, Preflight, Timed, Untraced
<1>1. /\ pc = "next" /\ pc' \in {"begin", "finish"} /\ UNCHANGED <<records, sampled>>
  BY DEF NextCase
<1>2. \A h : Recorded(h)' = Recorded(h)
  BY <1>1 DEF Recorded
<1>3. \A h \in sampled : Recorded(h)
  BY <1>1 DEF Sampling
<1>4. \A h \in sampled' : Recorded(h)'
  BY <1>1, <1>2, <1>3, Zenon
<1> HIDE DEF Traced, Staged, Recorded
<1> QED
  BY <1>1, <1>4 DEF Sampling

(* The record of a candidate has its whole trace.                          *)
LEMMA EndExecutionSampling == ASSUME Control, Sampling, EndExecution PROVE Sampling'
<1> USE DEF Invoked, Preflight, Timed, Untraced
<1> DEFINE summary == IF target = "x86_64" THEN Summary(trace) ELSE TargetFallback
           r == Candidate(summary, host)
<1>1. /\ pc = "end" /\ UNCHANGED <<case, trace, records>>
      /\ \/ pc' = "ended" /\ UNCHANGED <<stageRoutes, sampled>>
         \/ /\ pc' \in {"begin", "record"}
            /\ \/ /\ Requested = "adaptive_candidate"
                  /\ stageRoutes' = Append(stageRoutes, r) /\ sampled' = sampled \cup {host}
               \/ /\ Requested # "adaptive_candidate"
                  /\ UNCHANGED <<stageRoutes, sampled>>
  BY DEF EndExecution, Goto, Ends
<1>2. /\ r.host_available_parallelism = host
      /\ target = "x86_64" => r.ready_batches = Some(trace)
  BY DEF Candidate, Summary
<1> HIDE DEF r
<1>3. /\ DOMAIN stageRoutes = 1..Len(stageRoutes) /\ Len(stageRoutes) \in Nat
      /\ stageRoutes' = Append(stageRoutes, r) =>
           /\ DOMAIN stageRoutes' = 1..(Len(stageRoutes) + 1)
           /\ \A i \in 1..Len(stageRoutes) : stageRoutes'[i] = stageRoutes[i]
           /\ stageRoutes'[Len(stageRoutes) + 1] = r
  BY Appended, SequenceDomain DEF Control, TypeOK
<1>4. \A h : Recorded(h)' = Recorded(h)
  BY <1>1 DEF Recorded
<1>5. target = "other" \/ Requested # "adaptive_candidate" => DOMAIN trace = {}
  <2>1. target = "other" \/ Requested # "adaptive_candidate" => Len(trace) = 0
    BY <1>1, ExecutionMeans DEF Control, Batching, Requested, TypeOK
  <2>2. DOMAIN trace = 1..Len(trace)
    BY SequenceDomain DEF Control, TypeOK
  <2> QED
    BY <2>1, <2>2
<1>6. \A h \in sampled : Traced(h) \/ Staged(h) \/ Recorded(h)
  BY <1>1 DEF Sampling
<1>7. pc' = "record" => Len(records') # 4 * case' - 1
  <2>1. pc = "end" /\ Len(records) = 4 * (case - 1) /\ case \in Nat /\ case' = case /\ records' = records
    BY <1>1, CasesCounted DEF Control, Progress, TypeOK
  <2> QED
    BY <2>1
<1>8. records' # <<>> => sampled' # {}
  BY <1>1 DEF Sampling
<1>9. CASE pc' = "ended"
  BY <1>8, <1>9 DEF Sampling
<1>10. ASSUME pc' # "ended", NEW h \in sampled' PROVE Staged(h)' \/ Recorded(h)'
  <2>1. CASE Requested # "adaptive_candidate"
    <3>1. UNCHANGED <<stageRoutes, sampled>>
      BY <1>1, <2>1
    <3>2. ~ Traced(h)
      BY <1>5, <2>1 DEF Traced
    <3>3. Staged(h)' = Staged(h)
      BY <3>1 DEF Staged
    <3> QED
      BY <1>4, <1>6, <3>1, <3>2, <3>3, Zenon
  <2>2. CASE Requested = "adaptive_candidate"
    <3>1. stageRoutes' = Append(stageRoutes, r) /\ sampled' = sampled \cup {host}
      BY <1>1, <1>10, <2>2
    <3>2. /\ Len(stageRoutes) + 1 \in DOMAIN stageRoutes'
          /\ stageRoutes'[Len(stageRoutes) + 1] = r
      BY <1>3, <3>1
    <3>3. ShownBy(h, r) => Staged(h)'
      BY <3>2, Zenon DEF Staged, ShownBy
    <3>4. Staged(h) => Staged(h)'
      BY <1>3, <3>1 DEF Staged
    <3>5. h = host \/ Traced(h) => ShownBy(h, r)
      <4>1. h = host => ShownBy(h, r)
        BY <1>2 DEF ShownBy
      <4>2. Traced(h) => target = "x86_64"
        BY <1>5 DEF Traced, Control, TypeOK
      <4>3. Traced(h) => r.ready_batches = Some(trace)
        BY <1>2, <4>2, Zenon
      <4>4. Some(trace) # Null /\ Some(trace)[1] = trace
        BY DEF Some, Null
      <4> QED
        BY <4>1, <4>3, <4>4, Zenon DEF Traced, ShownBy
    <3> QED
      BY <1>4, <1>6, <3>1, <3>3, <3>4, <3>5
  <2> QED
    BY <2>1, <2>2
<1> HIDE DEF Traced, Staged, Recorded
<1>11. CASE pc' # "ended"
  BY <1>1, <1>7, <1>8, <1>10, <1>11 DEF Sampling
<1> QED
  BY <1>9, <1>11

(* The first two records of a case are of its serial oracles, the others   *)
(* are the candidates of its stages.                                       *)
LEMMA RecordMeans ==
  ASSUME Control, Record
  PROVE  /\ RecordAt \in 1..4 /\ Len(records) = 4 * (case - 1) + (RecordAt - 1)
         /\ \E m : /\ records' = Append(records, m)
                   /\ RecordAt \in {1, 2} => /\ m.host_available_parallelism = host
                                             /\ sampled' = sampled \cup {host}
                   /\ RecordAt \in {3, 4} =>
                        /\ m.host_available_parallelism =
                             stageRoutes[RecordAt - 2].host_available_parallelism
                        /\ m.ready_batches = stageRoutes[RecordAt - 2].ready_batches
                        /\ sampled' = sampled
<1> DEFINE stage == Stages[2 - (RecordAt % 2)]
           route == Routes[(RecordAt + 1) \div 2]
           r     == IF route = "serial_oracle" THEN SerialOracle(host)
                    ELSE stageRoutes[2 - (RecordAt % 2)]
           m     == MachineRecord(r, FullCriterionId(BenchmarkCases[case], stage, route),
                                  FixtureId(BenchmarkCases[case]), stage, Cap)
<1>1. RecordAt \in 1..4 /\ Len(records) = 4 * (case - 1) + (RecordAt - 1)
  BY RecordPlace DEF Control, Record
<1>2. /\ records' = Append(records, m)
      /\ sampled' = IF route = "serial_oracle" THEN sampled \cup {host} ELSE sampled
  BY Zenon DEF Record, RecordAt
<1>3. /\ m.host_available_parallelism = r.host_available_parallelism
      /\ m.ready_batches = r.ready_batches
  BY DEF MachineRecord
<1>4. RecordAt \in {1, 2} => route = "serial_oracle"
  BY ExecutionMeans
<1>5. RecordAt \in {3, 4} => route = "adaptive_candidate" /\ 2 - (RecordAt % 2) = RecordAt - 2
  BY ExecutionMeans
<1>6. route = "serial_oracle" => r.host_available_parallelism = host
  BY DEF SerialOracle
<1>7. route = "adaptive_candidate" => r = stageRoutes[2 - (RecordAt % 2)]
  OBVIOUS
<1> HIDE DEF m, r, route
<1>8. RecordAt \in {1, 2} => m.host_available_parallelism = host /\ sampled' = sampled \cup {host}
  BY <1>2, <1>3, <1>4, <1>6
<1>9. RecordAt \in {3, 4} => r = stageRoutes[RecordAt - 2] /\ sampled' = sampled
  BY <1>2, <1>5, <1>7
<1> QED
  BY <1>1, <1>2, <1>3, <1>8, <1>9

LEMMA RecordSampling == ASSUME Control, Sampling, Record PROVE Sampling'
<1> USE DEF Invoked, Preflight, Timed, Untraced
<1>1. /\ pc = "record" /\ UNCHANGED <<case, stageRoutes>>
      /\ pc' \in {"record", "measure", "next"} /\ (pc' # "record" <=> RecordAt = 4)
  <2>1. RecordAt \in 1..4
    BY RecordMeans
  <2> QED
    BY <2>1 DEF Record, Goto, RecordAt
<1>2. /\ RecordAt \in 1..4 /\ Len(records) = 4 * (case - 1) + (RecordAt - 1)
      /\ case \in Nat \ {0} /\ IsSequence(records) /\ sampled \subseteq sampled'
  <2>1. RecordAt \in 1..4 /\ Len(records) = 4 * (case - 1) + (RecordAt - 1)
    BY RecordMeans
  <2> QED
    BY <2>1, CasesCounted DEF Control, TypeOK, Record
<1>3. PICK m : /\ records' = Append(records, m)
               /\ RecordAt \in {1, 2} => /\ m.host_available_parallelism = host
                                         /\ sampled' = sampled \cup {host}
               /\ RecordAt \in {3, 4} =>
                    /\ m.host_available_parallelism =
                         stageRoutes[RecordAt - 2].host_available_parallelism
                    /\ m.ready_batches = stageRoutes[RecordAt - 2].ready_batches
                    /\ sampled' = sampled
  BY RecordMeans, Zenon
<1>4. /\ DOMAIN records = 1..Len(records) /\ DOMAIN records' = 1..(Len(records) + 1)
      /\ Len(records') = Len(records) + 1 /\ Len(records) \in Nat
      /\ \A i \in 1..Len(records) : records'[i] = records[i]
      /\ records'[Len(records) + 1] = m
  BY <1>2, <1>3, Appended, SequenceDomain
<1>5. ASSUME NEW h PROVE Recorded(h) => Recorded(h)'
  BY <1>4 DEF Recorded, ShownBy
<1>6. ASSUME NEW h, ShownBy(h, m) PROVE Recorded(h)'
  <2>1. Len(records) + 1 \in DOMAIN records' /\ records'[Len(records) + 1] = m
    BY <1>4
  <2> QED
    BY <1>6, <2>1, Zenon DEF Recorded, ShownBy
<1>7. ASSUME NEW h PROVE /\ Staged(h)' = Staged(h)
                         /\ ShownBy(h, stageRoutes[2])' = ShownBy(h, stageRoutes[2])
  BY <1>1 DEF Staged, ShownBy
<1>8. sampled' # {}
  <2>1. CASE RecordAt = 1
    BY <1>3, <2>1
  <2>2. CASE RecordAt # 1
    <3>1. Len(records) # 0
      BY <1>2, <2>2
    <3>2. records # <<>>
      BY <3>1, EmptySequence
    <3> QED
      BY <1>2, <3>2 DEF Sampling
  <2> QED
    BY <2>1, <2>2
<1>9. Len(stageRoutes) = 2 /\ DOMAIN stageRoutes = 1..2
  BY <1>1, SequenceDomain DEF Control, Progress, TypeOK
<1>10. ASSUME NEW h \in sampled' PROVE Staged(h)' \/ Recorded(h)'
  <2>1. CASE h \in sampled
    <3>1. Staged(h) \/ Recorded(h)
      BY <1>1, <2>1 DEF Sampling
    <3> QED
      BY <1>5, <1>7, <3>1, Zenon
  <2>2. CASE h \notin sampled
    <3>1. h = host /\ m.host_available_parallelism = host
      BY <1>2, <1>3, <2>2
    <3>2. ShownBy(h, m)
      BY <3>1 DEF ShownBy
    <3> QED
      BY <1>6, <3>2, Zenon
  <2> QED
    BY <2>1, <2>2
<1>11. ASSUME RecordAt \in {3, 4}, NEW h
       PROVE  ShownBy(h, stageRoutes[RecordAt - 2]) => Recorded(h)'
  <2>1. ShownBy(h, stageRoutes[RecordAt - 2]) => ShownBy(h, m)
    BY <1>3, <1>11 DEF ShownBy
  <2> QED
    BY <1>6, <2>1, Zenon
<1> HIDE DEF Traced, Staged, Recorded, ShownBy
<1>12. CASE RecordAt = 4
  <2>1. ASSUME NEW h \in sampled' PROVE Recorded(h)'
    <3>1. sampled' = sampled /\ Len(records) = 4 * case - 1
      BY <1>2, <1>3, <1>12
    <3>2. ShownBy(h, stageRoutes[2]) \/ Recorded(h)
      BY <1>1, <3>1 DEF Sampling
    <3>3. RecordAt - 2 = 2
      BY <1>12
    <3> QED
      BY <1>5, <1>11, <1>12, <3>2, <3>3
  <2> QED
    BY <1>1, <1>8, <1>10, <1>12, <2>1 DEF Sampling
<1>13. CASE RecordAt = 3
  <2>1. ASSUME NEW h \in sampled' PROVE ShownBy(h, stageRoutes[2])' \/ Recorded(h)'
    <3>1. sampled' = sampled
      BY <1>3, <1>13
    <3>2. Staged(h) \/ Recorded(h)
      BY <1>1, <3>1 DEF Sampling
    <3>3. RecordAt - 2 = 1
      BY <1>13
    <3>4. Staged(h) => ShownBy(h, stageRoutes[1]) \/ ShownBy(h, stageRoutes[2])
      BY <1>9 DEF Staged
    <3> QED
      BY <1>5, <1>7, <1>11, <1>13, <3>2, <3>3, <3>4
  <2> QED
    BY <1>1, <1>8, <1>10, <1>13, <2>1 DEF Sampling
<1>14. CASE RecordAt \in {1, 2}
  <2>1. Len(records') # 4 * case' - 1
    BY <1>1, <1>2, <1>4, <1>14
  <2> QED
    BY <1>1, <1>8, <1>10, <1>14, <2>1 DEF Sampling
<1> QED
  BY <1>2, <1>12, <1>13, <1>14

-----------------------------------------------------------------------------
(* What the validator lets pass is about one host.                         *)

(* A batch it lets pass says of the host nothing but what the record says. *)
LEMMA ValidBatchHost ==
  ASSUME NEW b, NEW ordinal, NEW threads, NEW cap, BatchValid(b, ordinal, threads, cap),
         NEW h, b.available_parallelism = Some(h)
  PROVE  h = threads
<1>1. ~ SerialTailUnevaluated(b)
  BY DEF SerialTailUnevaluated, Some, Null
<1>2. AfterWorkGate(b, threads, cap)
  BY <1>1, Zenon DEF BatchValid
<1>3. Some(h) = Some(threads)
  BY <1>2, Zenon DEF AfterWorkGate
<1> QED
  BY <1>3 DEF Some

LEMMA ValidRecordHost ==
  ASSUME NEW r, NEW requested, NEW cap, RecordValid(r, requested, cap), NEW h, ShownBy(h, r)
  PROVE  h = r.host_available_parallelism
<1>1. CASE r.ready_batches = Null
  BY <1>1 DEF ShownBy
<1>2. CASE r.ready_batches # Null
  <2>1. ~ Uncounted(r)
    BY <1>2 DEF Uncounted
  <2>2. \A i \in DOMAIN r.ready_batches[1] :
          BatchValid(r.ready_batches[1][i], i - 1, r.host_available_parallelism, cap)
    BY <2>1, Zenon DEF RecordValid
  <2>3. ASSUME NEW i \in DOMAIN r.ready_batches[1],
               r.ready_batches[1][i].available_parallelism = Some(h)
        PROVE  h = r.host_available_parallelism
    BY <2>2, <2>3, ValidBatchHost, Zenon
  <2> QED
    BY <2>3 DEF ShownBy
<1> QED
  BY <1>1, <1>2

LEMMA PublishedIsValid ==
  ASSUME Finish
  PROVE  outcome' = "published" =>
           RecordsValid(records, Canonical, Cap) /\ selected \in DOMAIN records
BY DEF Finish, Ends, Goto, Payload, SelectedPayload, Null, Some

LEMMA FinishOneHost == ASSUME Control, Sampling, Finish PROVE OneHost'
<1> SUFFICES ASSUME outcome' = "published" PROVE Cardinality(sampled') = 1
  BY DEF OneHost
<1>1. RecordsValid(records, Canonical, Cap) /\ selected \in DOMAIN records
  BY PublishedIsValid
<1>2. pc = "finish" /\ sampled' = sampled
  BY Zenon DEF Finish, evidence
<1> DEFINE H == records[selected].host_available_parallelism
<1>3. ASSUME NEW h \in sampled PROVE h = H
  <2>1. Recorded(h)
    BY <1>2 DEF Sampling, Invoked, Timed
  <2>2. PICK i \in DOMAIN records : ShownBy(h, records[i])
    BY <2>1, Zenon DEF Recorded
  <2>3. /\ RecordValid(records[i], Canonical[i].requested, Cap)
        /\ records[i].host_available_parallelism = H
    BY <1>1, Zenon DEF RecordsValid
  <2> QED
    BY <2>2, <2>3, ValidRecordHost, Zenon
<1>4. sampled # {}
  <2>1. records # <<>>
    BY <1>1
  <2> QED
    BY <2>1 DEF Sampling
<1> HIDE DEF H
<1>5. sampled = {H}
  BY <1>3, <1>4
<1>6. Cardinality({H}) = 1
  BY FS_Singleton, Zenon
<1> QED
  BY <1>2, <1>5, <1>6, Zenon

-----------------------------------------------------------------------------
(* What a batch is traced as is what is executed.                          *)

(* A chunk before the last starts inside the batch.                        *)
LEMMA ChunkStarts ==
  ASSUME NEW n \in Nat \ {0}, NEW w \in Nat \ {0}
  PROVE  LET size == CeilDiv(n, w)
         IN  /\ size \in Nat \ {0} /\ CeilDiv(n, size) \in Nat
             /\ \A k \in 1..CeilDiv(n, size) : (k - 1) * size \in Nat /\ (k - 1) * size < n
<1> DEFINE size == CeilDiv(n, w)
<1>1. size \in Nat /\ w * size >= n
  BY CeilingCovers DEF CeilDiv, Ceiling
<1>2. size # 0
  <2> HIDE DEF size
  <2> QED
    BY <1>1
<1> HIDE DEF size
<1> DEFINE q == n \div size
           r == n % size
<1>3. q \in Nat /\ r \in 0..(size - 1) /\ n = size * q + r
  BY <1>1, <1>2
<1>4. CeilDiv(n, size) = q + (IF r = 0 THEN 0 ELSE 1)
  BY DEF CeilDiv
<1> HIDE DEF q, r
<1>5. ASSUME NEW k \in 1..CeilDiv(n, size) PROVE (k - 1) * size \in Nat /\ (k - 1) * size < n
  <2>1. k - 1 \in Nat /\ k - 1 <= q /\ (r = 0 => k - 1 < q)
    BY <1>3, <1>4
  <2>2. (k - 1) * size \in Nat
    BY <1>1, <2>1
  <2>3. CASE r = 0
    <3>1. PICK d \in Nat : q = (k - 1) + 1 + d
      <4>1. q - k \in Nat /\ q = (k - 1) + 1 + (q - k)
        BY <1>3, <2>1, <2>3
      <4> QED
        BY <4>1
    <3>2. size * q = (k - 1) * size + size + d * size
      BY <1>1, <2>1, <3>1
    <3>3. d * size \in Nat
      BY <1>1
    <3> QED
      BY <1>1, <1>2, <1>3, <2>2, <2>3, <3>2, <3>3
  <2>4. CASE r # 0
    <3>1. PICK d \in Nat : q = (k - 1) + d
      <4>1. q - (k - 1) \in Nat /\ q = (k - 1) + (q - (k - 1))
        BY <1>3, <2>1
      <4> QED
        BY <4>1
    <3>2. size * q = (k - 1) * size + d * size
      BY <1>1, <2>1, <3>1
    <3>3. d * size \in Nat
      BY <1>1
    <3> QED
      BY <1>3, <2>2, <2>4, <3>2, <3>3
  <2> QED
    BY <2>3, <2>4
<1>6. CeilDiv(n, size) \in Nat
  BY <1>3, <1>4
<1> QED
  BY <1>1, <1>2, <1>5, <1>6 DEF size

LEMMA ChunksTraced ==
  ASSUME NEW jobs, IsSequence(jobs), NEW w \in Nat \ {0}, Len(jobs) # 0
  PROVE  LET size == CeilDiv(Len(jobs), w)
         IN  [k \in DOMAIN StaticChunks(jobs, size) |-> StaticChunks(jobs, size)[k].job_count]
               = Chunks(Len(jobs), size)
<1> DEFINE n == Len(jobs)
           size == CeilDiv(n, w)
           count == CeilDiv(n, size)
           Chunk(k) == SubSeq(jobs, (k - 1) * size + 1, Lesser(k * size, n))
<1>1. n \in Nat \ {0}
  BY DEF IsSequence
<1>2. /\ size \in Nat \ {0} /\ count \in Nat
      /\ \A k \in 1..count : (k - 1) * size \in Nat /\ (k - 1) * size < n
  BY <1>1, ChunkStarts
<1>3. StaticChunks(jobs, size) =
        [k \in 1..count |-> [ordinal |-> k - 1, job_count |-> Len(Chunk(k)),
                             estimated_work_bytes |-> Total(Chunk(k))]]
  BY DEF StaticChunks
<1>4. Chunks(n, size) = [k \in 1..count |-> Lesser(size, n - (k - 1) * size)]
  BY DEF Chunks
<1> HIDE DEF n, size, count
<1>5. ASSUME NEW k \in 1..count PROVE Len(Chunk(k)) = Lesser(size, n - (k - 1) * size)
  <2> DEFINE from == (k - 1) * size
             to == Lesser(k * size, n)
  <2>1. k * size = from + size
    BY <1>2
  <2>2. from \in Nat /\ from < n
    BY <1>2
  <2> HIDE DEF from
  <2>3. to \in Nat /\ to <= n /\ from + 1 <= to /\ to = Lesser(from + size, n)
    BY <1>1, <1>2, <2>1, <2>2 DEF Lesser
  <2> HIDE DEF to
  <2>4. \A i \in (from + 1)..to : jobs[i] \in {jobs[j] : j \in 1..n}
    BY <1>1, <2>2, <2>3
  <2>5. Len(SubSeq(jobs, from + 1, to)) = to - (from + 1) + 1
    <3>1. from + 1 \in Int /\ to \in Int
      BY <2>2, <2>3
    <3>2. Len(SubSeq(jobs, from + 1, to)) = IF from + 1 <= to THEN to - (from + 1) + 1 ELSE 0
      BY <2>4, <3>1, SubSeqProperties, Zenon
    <3> QED
      BY <2>3, <3>2
  <2>6. to - (from + 1) + 1 = Lesser(size, n - from)
    BY <1>1, <1>2, <2>2, <2>3 DEF Lesser
  <2> QED
    BY <2>5, <2>6 DEF from, to
<1> HIDE DEF Chunk
<1>6. DOMAIN StaticChunks(jobs, size) = 1..count
      /\ \A k \in 1..count : StaticChunks(jobs, size)[k].job_count = Len(Chunk(k))
  BY <1>3
<1>7. [k \in DOMAIN StaticChunks(jobs, size) |-> StaticChunks(jobs, size)[k].job_count]
        = [k \in 1..count |-> Lesser(size, n - (k - 1) * size)]
  BY <1>5, <1>6
<1> QED
  BY <1>4, <1>7 DEF n, size

LEMMA SelectedAsRun ==
  ASSUME TypeOK, Leasing, Leases, pc \notin {"join", "join_untraced"}, IsSequence(Jobs),
         UNCHANGED <<case, batch>>, NEW ordinal
  PROVE  /\ AsRan(ReadyBatch(ordinal, Jobs, WorkerCap, host, permits)) = BatchRun'
         /\ BatchRun' = RunOf(Jobs) /\ Jobs' = Jobs
<1> DEFINE n == Len(Jobs)
           native == Native(Jobs, WorkerCap, host, permits)
           size == CeilDiv(n, Threads)
           b == ReadyBatch(ordinal, Jobs, WorkerCap, host, permits)
<1>1. n \in Nat /\ Jobs' = Jobs
  BY DEF Jobs, IsSequence
<1>2. /\ permits = WorkerCap
      /\ leased' = IF native THEN Threads ELSE 0
      /\ native => Threads >= 2
  BY <1>1, LeasesControl
<1>3. /\ b.job_count = n
      /\ b.leased_worker_count = IF native THEN Some(Threads) ELSE Null
      /\ b.static_chunks = IF native THEN Some(StaticChunks(Jobs, size)) ELSE Null
  BY DEF ReadyBatch, Threads
<1>4. BatchRun' = [jobs    |-> n,
                   workers |-> IF leased' = 0 THEN 1 ELSE leased',
                   chunks  |-> IF leased' = 0 THEN <<n>> ELSE Chunks(n, CeilDiv(n, leased'))]
  BY <1>1 DEF BatchRun, ChunkSize
<1>5. RunOf(Jobs) = IF native
                    THEN [jobs |-> n, workers |-> Threads, chunks |-> Chunks(n, size)]
                    ELSE [jobs |-> n, workers |-> 1, chunks |-> <<n>>]
  BY <1>2 DEF RunOf, ChunkSize, Threads
<1>6. Threads \in Int
  BY <1>1, <1>2, RouteEvidenceAssumption DEF Threads, WorkerCount, Lesser, TypeOK
<1> HIDE DEF n, b
<1>7. CASE native
  <2>1. n # 0
    <3>1. Threads <= n /\ Threads >= 2
      BY <1>1, <1>2, <1>7, RouteEvidenceAssumption DEF Threads, WorkerCount, Lesser, TypeOK, n
    <3> QED
      BY <1>1, <1>6, <3>1
  <2>2. [k \in DOMAIN StaticChunks(Jobs, size) |-> StaticChunks(Jobs, size)[k].job_count]
          = Chunks(n, size)
    BY <1>2, <1>6, <1>7, <2>1, ChunksTraced DEF n
  <2> HIDE DEF size
  <2>3. AsRan(b) = [jobs |-> n, workers |-> Threads, chunks |-> Chunks(n, size)]
    BY <1>3, <1>7, <2>2 DEF AsRan, Some, Null
  <2>4. leased' = Threads /\ leased' # 0
    BY <1>2, <1>7
  <2> QED
    BY <1>1, <1>4, <1>5, <1>7, <2>3, <2>4 DEF b, size
<1>8. CASE ~ native
  <2>1. AsRan(b) = [jobs |-> n, workers |-> 1, chunks |-> <<n>>]
    BY <1>3, <1>8 DEF AsRan, Null
  <2>2. leased' = 0
    BY <1>2, <1>8
  <2> QED
    BY <1>1, <1>4, <1>5, <1>8, <2>1, <2>2 DEF b
<1> QED
  BY <1>7, <1>8

-----------------------------------------------------------------------------
(* The candidate that is watched, from its batches to its record.          *)

LEMMA SelectedMeans ==
  ASSUME Chosen, pc \in Invoked
  PROVE  /\ SelectedCase \in 1..Len(BenchmarkCases) /\ SelectedStage \in {1, 2}
         /\ SelectedPlace = 4 * (SelectedCase - 1) + 2 + SelectedStage
         /\ SelectedRoute.stage = Stages[SelectedStage]
         /\ selected = 4 * (SelectedCase - 1) + 2 * (RouteAt(selected) - 1) + SelectedStage
         /\ RouteAt(selected) \in {1, 2} /\ SelectedRoute.requested = Routes[RouteAt(selected)]
<1>1. selected \in 1..(4 * Len(BenchmarkCases))
  BY CanonicalMeans DEF Chosen
<1>2. SelectedCase = CaseAt(selected) /\ SelectedStage = StageAt(selected)
  BY DEF SelectedCase, SelectedStage, CaseAt, StageAt
<1>3. /\ CaseAt(selected) \in 1..Len(BenchmarkCases) /\ StageAt(selected) \in 1..2
      /\ RouteAt(selected) \in 1..2
      /\ selected = 4 * (CaseAt(selected) - 1) + 2 * (RouteAt(selected) - 1) + StageAt(selected)
  BY <1>1, Places
<1>4. /\ Canonical[selected].stage = Stages[StageAt(selected)]
      /\ Canonical[selected].requested = Routes[RouteAt(selected)]
  BY <1>1, CanonicalMeans
<1> QED
  BY <1>2, <1>3, <1>4 DEF SelectedPlace, SelectedRoute

LEMMA WatchingMeans ==
  ASSUME TypeOK, Chosen, pc \in Invoked
  PROVE  Watching <=> case = SelectedCase /\ exec \in {2 * SelectedStage - 1, 2 * SelectedStage}
<1>1. SelectedStage \in {1, 2} /\ SelectedRoute.stage = Stages[SelectedStage]
  BY SelectedMeans
<1>2. exec \in 1..4 /\ Stage = IF exec <= 2 THEN "executor_assembly" ELSE "full_issuance"
  BY ExecutionMeans DEF Stage, TypeOK
<1>3. Stages[1] = "executor_assembly" /\ Stages[2] = "full_issuance"
  BY ExecutionMeans
<1>4. Stage = SelectedRoute.stage <=> exec \in {2 * SelectedStage - 1, 2 * SelectedStage}
  <2>1. CASE SelectedStage = 1
    BY <1>1, <1>2, <1>3, <2>1
  <2>2. CASE SelectedStage = 2
    BY <1>1, <1>2, <1>3, <2>2
  <2> QED
    BY <1>1, <2>1, <2>2
<1> QED
  BY <1>4 DEF Watching

(* In preflight the watched candidate is done when its execution is past.  *)
LEMMA DoneMeans ==
  ASSUME Control, pc \in Preflight
  PROVE  /\ Len(records) = 4 * (case - 1) /\ Len(stageRoutes) = (exec - 1) \div 2
         /\ case \in Nat /\ exec \in 1..4
         /\ Filed <=> case > SelectedCase
         /\ Done <=> case > SelectedCase \/ (case = SelectedCase /\ exec > 2 * SelectedStage)
         /\ Done => ~ Watching
<1>1. /\ SelectedCase \in Nat \ {0} /\ SelectedStage \in {1, 2}
      /\ SelectedPlace = 4 * (SelectedCase - 1) + 2 + SelectedStage
  BY CasesCounted, SelectedMeans DEF Control, Invoked
<1>2. /\ Len(records) = 4 * (case - 1) /\ Len(stageRoutes) = (exec - 1) \div 2
      /\ case \in Nat \ {0} /\ exec \in 1..4
  BY CasesCounted DEF Control, TypeOK, Progress
<1>3. Filed <=> case > SelectedCase
  BY <1>1, <1>2 DEF Filed
<1>4. Len(stageRoutes) >= SelectedStage <=> exec > 2 * SelectedStage
  BY <1>1, <1>2
<1>5. Done <=> case > SelectedCase \/ (case = SelectedCase /\ exec > 2 * SelectedStage)
  BY <1>3, <1>4 DEF Done
<1>6. Watching <=> case = SelectedCase /\ exec \in {2 * SelectedStage - 1, 2 * SelectedStage}
  BY WatchingMeans DEF Control, Invoked
<1> QED
  BY <1>1, <1>2, <1>3, <1>5, <1>6

LEMMA InitFollowing == ASSUME Init PROVE Following
BY DEF Init, Following, Invoked, Preflight, Timed, Untraced

(* As long as no execution is at a batch, what was run stays what it was.  *)
LEMMA SameFollowing ==
  ASSUME Control, Following, pc \in Invoked, pc \notin {"select", "join", "end"},
         pc' \notin {"select", "join", "end"},
         UNCHANGED <<target, ran, selected, case, stageRoutes, records>>
  PROVE  Following'
<1>1. Done' = Done /\ Kept' = Kept
  BY DEF Done, Kept, Filed, SelectedPlace, SelectedCase, SelectedStage
<1>2. ~ Current /\ ~ Current'
  BY DEF Current
<1> HIDE DEF Done, Current, Kept
<1>3. (~ Done)' => ran' = <<>>
  BY <1>1, <1>2 DEF Following
<1>4. Done' /\ target' = "x86_64" =>
         /\ Kept'.ready_batches # Null
         /\ Kept'.ready_batches[1] = [i \in 1..Len(Kept'.ready_batches[1]) |-> Kept'.ready_batches[1][i]]
         /\ ran' = AsRun(Kept'.ready_batches[1])
  <2>1. Done /\ target = "x86_64" =>
         /\ Kept.ready_batches # Null
         /\ Kept.ready_batches[1] = [i \in 1..Len(Kept.ready_batches[1]) |-> Kept.ready_batches[1][i]]
         /\ ran = AsRun(Kept.ready_batches[1])
    BY DEF Following
  <2> HIDE DEF AsRun
  <2> QED
    BY <1>1, <2>1
<1>5. Done' /\ target' = "other" => ran' = <<>>
  BY <1>1 DEF Following
<1> QED
  BY <1>2, <1>3, <1>4, <1>5, Zenon DEF Following

LEMMA SteadyFollowing ==
  ASSUME Control, Following, SelectUntraced \/ SpawnFails \/ Iterated \/ Finish
  PROVE  Following'
<1> USE DEF Invoked, Preflight, Timed, Untraced
<1>1. CASE SpawnFails \/ Finish
  <2>1. pc' = "ended"
    BY <1>1 DEF SpawnFails, Finish, Ends, Goto
  <2> QED
    BY <2>1 DEF Following
<1>2. CASE SelectUntraced \/ Iterated
  <2>1. /\ pc \in Timed /\ pc' \in Timed \cup {"next"}
        /\ UNCHANGED <<target, ran, selected, case, stageRoutes, records>>
    BY <1>2 DEF SelectUntraced, Iterated, Goto, evidence, ghosts
  <2> QED
    BY <2>1, SameFollowing
<1> QED
  BY <1>1, <1>2

LEMMA HostChangesFollowing == ASSUME Following, HostChanges PROVE Following'
<1>1. /\ UNCHANGED <<target, pc, ran, selected, case, exec, batch, leased>>
      /\ UNCHANGED <<trace, stageRoutes, records>>
  BY DEF HostChanges, run, evidence, ghosts
<1>2. /\ Done' = Done /\ Kept' = Kept /\ Current' = Current
      /\ BatchRun' = BatchRun
  BY <1>1 DEF Done, Kept, Filed, SelectedPlace, SelectedCase, SelectedStage, Current, Watching, Stage,
              SelectedRoute, BatchRun, Jobs
<1> HIDE DEF Done, Current, Kept, BatchRun, AsRun
<1> QED
  BY <1>1, <1>2 DEF Following

LEMMA InvokeDone ==
  ASSUME Control, Control', Invoke, pc' = "begin"
  PROVE  ~ Done' /\ ~ Current'
<1>1. pc = "invoke" /\ UNCHANGED <<stageRoutes, records>>
  BY Zenon DEF Invoke, evidence
<1>2. /\ exec = 1 /\ case = 1
      /\ Len(stageRoutes) = (exec - 1) \div 2 /\ Len(records) = 4 * (case - 1)
  BY <1>1 DEF Control, Progress
<1>3. Len(stageRoutes) = 0 /\ Len(records) = 0
  BY <1>2
<1>4. selected' \in 1..(4 * Len(BenchmarkCases))
  <2>1. selected' \in DOMAIN Canonical
    BY DEF Control, Chosen, Invoked, Preflight
  <2> QED
    BY <2>1, CanonicalMeans
<1>5. CaseAt(selected') \in 1..Len(BenchmarkCases) /\ StageAt(selected') \in 1..2
  BY <1>4, Places
<1>6. SelectedPlace' \in Nat \ {0} /\ SelectedStage' \in Nat \ {0}
  BY <1>5, CasesCounted DEF SelectedPlace, SelectedStage, SelectedCase, CaseAt, StageAt
<1> QED
  BY <1>1, <1>3, <1>6 DEF Done, Filed, Current

LEMMA InvokeFollowing ==
  ASSUME Control, Control', Invoke
  PROVE  Following'
<1> USE DEF Invoked, Preflight, Timed, Untraced
<1>1. pc' \in {"ended", "begin"}
  BY InvokeMeans
<1>2. ran' = <<>>
  <2>1. pc = "invoke" /\ ran' = ran
    BY Zenon DEF Invoke, ghosts
  <2> QED
    BY <2>1 DEF Control, Progress
<1>3. CASE pc' = "ended"
  BY <1>3 DEF Following
<1>4. CASE pc' = "begin"
  <2>1. ~ Done' /\ ~ Current'
    BY <1>4, InvokeDone
  <2> HIDE DEF Done, Current
  <2> QED
    BY <1>2, <1>4, <2>1 DEF Following
<1> QED
  BY <1>1, <1>3, <1>4

LEMMA BeginFollowing ==
  ASSUME Control, Following, Begin
  PROVE  Following'
<1> USE DEF Invoked, Preflight, Timed, Untraced
<1>1. /\ pc \in {"begin", "measure"} /\ trace' = <<>>
      /\ pc = "begin" => pc' \in {"ended", "end", "select"}
      /\ pc = "measure" => pc' \in {"ended", "iterated", "select_untraced"}
      /\ UNCHANGED <<ran, target, selected, case, exec, stageRoutes, records>>
  BY DEF Begin, Goto, Ends, EmptyTrace
<1>2. CASE pc' = "ended"
  BY <1>2 DEF Following
<1>3. CASE pc = "measure" /\ pc' # "ended"
  BY <1>1, <1>3, SameFollowing
<1>4. CASE pc = "begin" /\ pc' # "ended"
  <2>1. Done' = Done /\ Kept' = Kept
    BY <1>1 DEF Done, Kept, Filed, SelectedPlace, SelectedCase, SelectedStage
  <2>2. ~ Current
    BY <1>4 DEF Current
  <2>3. (~ Done)' => ran' = <<>>
    BY <1>1, <1>4, <2>1, <2>2 DEF Following
  <2>4. Current' => (~ Done)'
    BY DEF Current
  <2>5. [i \in 1..(Len(trace') - 0) |-> AsRan(trace'[i])] = <<>>
    BY <1>1
  <2>6. pc' # "join"
    BY <1>1, <1>4
  <2>7. Done' /\ target' = "x86_64" =>
         /\ Kept'.ready_batches # Null
         /\ Kept'.ready_batches[1] = [i \in 1..Len(Kept'.ready_batches[1]) |-> Kept'.ready_batches[1][i]]
         /\ ran' = AsRun(Kept'.ready_batches[1])
    <3>1. Done /\ target = "x86_64" =>
           /\ Kept.ready_batches # Null
           /\ Kept.ready_batches[1] = [i \in 1..Len(Kept.ready_batches[1]) |-> Kept.ready_batches[1][i]]
           /\ ran = AsRun(Kept.ready_batches[1])
      BY <1>4 DEF Following
    <3> HIDE DEF Done, Kept, AsRun
    <3> QED
      BY <1>1, <2>1, <3>1
  <2>8. Done' /\ target' = "other" => ran' = <<>>
    BY <1>1, <1>4, <2>1 DEF Following
  <2> HIDE DEF Done, Current, Kept, AsRun, AsRan
  <2> QED
    BY <1>4, <2>3, <2>4, <2>5, <2>6, <2>7, <2>8 DEF Following
<1> QED
  BY <1>1, <1>2, <1>3, <1>4

LEMMA SelectTracedFollowing ==
  ASSUME Control, Following, SelectTraced, IsSequence(Jobs)
  PROVE  Following'
<1> USE DEF Invoked, Preflight, Timed, Untraced
<1> DEFINE b == ReadyBatch(Len(trace), Jobs, WorkerCap, host, permits)
<1>1. /\ pc = "select" /\ pc' = "join" /\ Leases /\ trace' = Append(trace, b)
      /\ UNCHANGED <<ran, target, selected, case, exec, batch, stageRoutes, records>>
  BY DEF SelectTraced, Goto, ghosts
<1>2. AsRan(b) = BatchRun'
  BY <1>1, SelectedAsRun DEF Control
<1> HIDE DEF b
<1>3. /\ Len(trace) \in Nat /\ Len(trace') = Len(trace) + 1
      /\ \A i \in 1..Len(trace) : trace'[i] = trace[i]
      /\ trace'[Len(trace) + 1] = b
  BY <1>1, Appended, SequenceDomain DEF Control, TypeOK
<1>4. batch' = Len(trace) + 1
  BY <1>1 DEF Control, Batching, TypeOK
<1>5. Done' = Done /\ Kept' = Kept
  BY <1>1 DEF Done, Kept, Filed, SelectedPlace, SelectedCase, SelectedStage
<1>6. Current' = Current
  BY <1>1, <1>5 DEF Current, Watching, Stage, SelectedRoute, SelectedCase
<1> HIDE DEF Done, Current, Kept
<1>7. AsRan(trace'[batch']) = BatchRun'
  BY <1>2, <1>3, <1>4
<1>8. Current => ran' = [i \in 1..(Len(trace') - 1) |-> AsRan(trace'[i])]
  <2>1. Current => ran = [i \in 1..(Len(trace) - 0) |-> AsRan(trace[i])]
    BY <1>1 DEF Following
  <2> HIDE DEF AsRan
  <2>2. [i \in 1..(Len(trace) - 0) |-> AsRan(trace[i])]
          = [i \in 1..(Len(trace') - 1) |-> AsRan(trace'[i])]
    BY <1>3
  <2> QED
    BY <1>1, <2>1, <2>2
<1>9. ~ Done /\ ~ Current => ran = <<>>
  BY <1>1 DEF Following
<1>10. Done /\ target = "x86_64" =>
         /\ Kept.ready_batches # Null
         /\ Kept.ready_batches[1] = [i \in 1..Len(Kept.ready_batches[1]) |-> Kept.ready_batches[1][i]]
         /\ ran = AsRun(Kept.ready_batches[1])
  BY <1>1 DEF Following
<1>11. Done /\ target = "other" => ran = <<>>
  BY <1>1 DEF Following
<1> HIDE DEF AsRun, AsRan, BatchRun
<1> QED
  BY <1>1, <1>5, <1>6, <1>7, <1>8, <1>9, <1>10, <1>11 DEF Following

LEMMA JoinFollowing ==
  ASSUME Control, Following, Join
  PROVE  Following'
<1> USE DEF Invoked, Preflight, Timed, Untraced
<1>1. /\ pc \in {"join", "join_untraced"}
      /\ pc = "join" => /\ pc' \in {"end", "select"}
                        /\ ran' = (IF Watching THEN Append(ran, BatchRun) ELSE ran)
      /\ pc = "join_untraced" => pc' \in {"iterated", "select_untraced"} /\ ran' = ran
      /\ UNCHANGED <<target, selected, case, exec, trace, stageRoutes, records>>
  BY DEF Join, Goto, evidence
<1>2. CASE pc = "join_untraced"
  BY <1>1, <1>2, SameFollowing
<1>3. CASE pc = "join"
  <2>1. Done' = Done /\ Kept' = Kept /\ Watching' = Watching
    BY <1>1 DEF Done, Kept, Filed, SelectedPlace, SelectedCase, SelectedStage, Watching, Stage,
                SelectedRoute
  <2>2. /\ Current <=> Watching
        /\ Current' <=> Watching
        /\ Done => ~ Watching
    <3>1. Done => ~ Watching
      BY <1>3, DoneMeans
    <3> HIDE DEF Done, Watching
    <3> QED
      BY <1>1, <1>3, <2>1, <3>1 DEF Current
  <2> HIDE DEF Done, Current, Kept, Watching
  <2>3. ~ Done' /\ ~ Current' => ran' = <<>>
    BY <1>1, <1>3, <2>1, <2>2 DEF Following
  <2>4. Current' => ran' = [i \in 1..Len(trace') |-> AsRan(trace'[i])]
    <3> SUFFICES ASSUME Watching PROVE ran' = [i \in 1..Len(trace) |-> AsRan(trace[i])]
      BY <1>1, <2>2
    <3>1. Len(trace) \in Nat \ {0} /\ batch = Len(trace)
      BY <1>3 DEF Control, Batching, TypeOK
    <3>2. ran = [i \in 1..(Len(trace) - 1) |-> AsRan(trace[i])] /\ AsRan(trace[Len(trace)]) = BatchRun
      BY <1>3, <2>2, <3>1 DEF Following
    <3> HIDE DEF AsRan, BatchRun
    <3>3. /\ Len(ran) = Len(trace) - 1 /\ IsSequence(ran)
          /\ \A i \in 1..(Len(trace) - 1) : ran[i] = AsRan(trace[i])
      BY <3>1, <3>2, Listed
    <3>4. ran' = Append(ran, BatchRun)
      BY <1>1, <1>3
    <3>5. /\ IsSequence(ran') /\ Len(ran') = Len(trace)
          /\ \A i \in 1..(Len(trace) - 1) : ran'[i] = AsRan(trace[i])
          /\ ran'[Len(trace)] = AsRan(trace[Len(trace)])
      BY <3>1, <3>2, <3>3, <3>4, Appended
    <3>6. \A i \in 1..Len(trace) : ran'[i] = AsRan(trace[i])
      BY <3>1, <3>5
    <3>7. ran' = [i \in 1..Len(trace) |-> ran'[i]]
      BY <3>5 DEF IsSequence
    <3> QED
      BY <3>6, <3>7
  <2>5. [i \in 1..Len(trace') |-> AsRan(trace'[i])] = [i \in 1..(Len(trace') - 0) |-> AsRan(trace'[i])]
    <3>1. Len(trace') \in Nat /\ Len(trace') = Len(trace') - 0
      BY <1>1 DEF Control, TypeOK, IsSequence
    <3> QED
      BY <3>1, Zenon
  <2>6. Done => ran' = ran
    BY <1>1, <1>3, <2>2
  <2>7. Done /\ target = "x86_64" =>
          /\ Kept.ready_batches # Null
          /\ Kept.ready_batches[1] = [i \in 1..Len(Kept.ready_batches[1]) |-> Kept.ready_batches[1][i]]
          /\ ran = AsRun(Kept.ready_batches[1])
    BY <1>3 DEF Following
  <2>8. Done /\ target = "other" => ran = <<>>
    BY <1>3 DEF Following
  <2> HIDE DEF AsRun, AsRan, BatchRun
  <2> QED
    BY <1>1, <1>3, <2>1, <2>3, <2>4, <2>5, <2>6, <2>7, <2>8 DEF Following
<1> QED
  BY <1>1, <1>2, <1>3

(* Once it is recorded, what was run and its record stay.                  *)
LEMMA KeptFollowing ==
  ASSUME Following, pc \in Invoked, Done, Done', Kept'.ready_batches = Kept.ready_batches,
         UNCHANGED <<target, ran>>, ~ Current', pc' # "join"
  PROVE  Following'
<1>1. /\ target = "x86_64" =>
           /\ Kept.ready_batches # Null
           /\ Kept.ready_batches[1] = [i \in 1..Len(Kept.ready_batches[1]) |-> Kept.ready_batches[1][i]]
           /\ ran = AsRun(Kept.ready_batches[1])
      /\ target = "other" => ran = <<>>
  BY DEF Following
<1> HIDE DEF Done, Current, Kept, AsRun
<1> QED
  BY <1>1 DEF Following

LEMMA NotYetFollowing ==
  ASSUME ~ Done', ran' = <<>>, ~ Current', pc' # "join"
  PROVE  Following'
<1> HIDE DEF Done, Current
<1> QED
  BY DEF Following

(* The end of the watched candidate puts what it ran on record; no other   *)
(* end changes what is.                                                    *)
LEMMA EndExecutionDone ==
  ASSUME Control, EndExecution, pc' # "ended"
  PROVE  /\ Done => Done' /\ Kept' = Kept
         /\ Current /\ Requested = "adaptive_candidate" =>
              Done' /\ Kept' = Candidate(IF target = "x86_64" THEN Summary(trace) ELSE TargetFallback, host)
         /\ ~ Done /\ ~ (Current /\ Requested = "adaptive_candidate") => ~ Done'
<1> USE DEF Invoked, Preflight, Timed, Untraced
<1> DEFINE r == Candidate(IF target = "x86_64" THEN Summary(trace) ELSE TargetFallback, host)
<1>1. /\ pc = "end" /\ UNCHANGED <<selected, case, records>>
      /\ \/ Requested = "adaptive_candidate" /\ stageRoutes' = Append(stageRoutes, r)
         \/ Requested # "adaptive_candidate" /\ UNCHANGED stageRoutes
  BY DEF EndExecution, Goto, Ends
<1> HIDE DEF r
<1>2. /\ Len(stageRoutes) \in Nat
      /\ stageRoutes' = Append(stageRoutes, r) =>
           /\ Len(stageRoutes') = Len(stageRoutes) + 1
           /\ \A i \in 1..Len(stageRoutes) : stageRoutes'[i] = stageRoutes[i]
           /\ stageRoutes'[Len(stageRoutes) + 1] = r
  BY Appended, SequenceDomain DEF Control, TypeOK
<1>3. /\ Requested = IF exec \in {1, 3} THEN "serial_oracle" ELSE "adaptive_candidate"
      /\ exec \in 1..4
  BY ExecutionMeans DEF Requested, Control, TypeOK
<1>4. /\ SelectedCase' = SelectedCase /\ SelectedStage' = SelectedStage
      /\ SelectedPlace' = SelectedPlace /\ SelectedStage \in {1, 2}
  BY <1>1, SelectedMeans DEF SelectedCase, SelectedStage, SelectedPlace, Control
<1>5. /\ Len(stageRoutes) = (exec - 1) \div 2
      /\ case \in Nat /\ Filed' = Filed
      /\ Done <=> case > SelectedCase \/ (case = SelectedCase /\ exec > 2 * SelectedStage)
      /\ Filed <=> case > SelectedCase
  BY <1>1, <1>4, DoneMeans DEF Filed
<1>6. Current <=> ~ Done /\ case = SelectedCase
                  /\ exec \in {2 * SelectedStage - 1, 2 * SelectedStage}
  <2>1. Watching <=> case = SelectedCase /\ exec \in {2 * SelectedStage - 1, 2 * SelectedStage}
    BY <1>1, WatchingMeans DEF Control
  <2> QED
    BY <1>1, <2>1 DEF Current
<1>7. /\ Done <=> Filed \/ (case = SelectedCase /\ Len(stageRoutes) >= SelectedStage)
      /\ Done' <=> Filed' \/ (case = SelectedCase /\ Len(stageRoutes') >= SelectedStage)
      /\ Kept = IF Filed THEN records[SelectedPlace] ELSE stageRoutes[SelectedStage]
      /\ Kept' = IF Filed' THEN records[SelectedPlace] ELSE stageRoutes'[SelectedStage]
  BY <1>1, <1>4 DEF Done, Kept
<1> HIDE DEF Done, Current, Kept, Filed
<1>8. CASE Requested # "adaptive_candidate"
  <2>1. UNCHANGED stageRoutes
    BY <1>1, <1>8
  <2> QED
    BY <1>5, <1>7, <1>8, <2>1
<1>9. CASE Requested = "adaptive_candidate"
  <2>1. /\ exec \in {2, 4} /\ Len(stageRoutes') = Len(stageRoutes) + 1
        /\ \A i \in 1..Len(stageRoutes) : stageRoutes'[i] = stageRoutes[i]
        /\ stageRoutes'[Len(stageRoutes) + 1] = r
    BY <1>1, <1>2, <1>3, <1>9
  <2>2. ASSUME Done PROVE Done' /\ Kept' = Kept
    <3>1. Done'
      BY <1>2, <1>4, <1>5, <1>7, <2>1, <2>2
    <3>2. ~ Filed => SelectedStage \in 1..Len(stageRoutes)
      BY <1>2, <1>4, <1>7, <2>2
    <3> QED
      BY <1>5, <1>7, <2>1, <3>1, <3>2
  <2>3. ASSUME Current PROVE Done' /\ Kept' = r
    <3>1. exec = 2 * SelectedStage /\ case = SelectedCase /\ ~ Filed
      BY <1>4, <1>5, <1>6, <2>1, <2>3
    <3>2. Len(stageRoutes) + 1 = SelectedStage
      BY <1>4, <1>5, <3>1
    <3> QED
      BY <1>4, <1>5, <1>7, <2>1, <3>1, <3>2
  <2>4. ASSUME ~ Done, ~ Current PROVE ~ Done'
    <3>1. case = SelectedCase => exec <= 2 * SelectedStage - 2
      BY <1>3, <1>4, <1>5, <1>6, <2>1, <2>4
    <3>2. case = SelectedCase => Len(stageRoutes') < SelectedStage
      BY <1>4, <1>5, <2>1, <3>1
    <3>3. ~ Filed
      BY <1>5, <2>4
    <3> QED
      BY <1>2, <1>4, <1>5, <1>7, <2>1, <3>2, <3>3
  <2> QED
    BY <1>9, <2>2, <2>3, <2>4 DEF r
<1> QED
  BY <1>8, <1>9

LEMMA EndExecutionFollowing ==
  ASSUME Control, Following, EndExecution
  PROVE  Following'
<1> USE DEF Invoked, Preflight, Timed, Untraced
<1> DEFINE r == Candidate(IF target = "x86_64" THEN Summary(trace) ELSE TargetFallback, host)
<1>1. /\ pc = "end" /\ pc' \in {"ended", "begin", "record"} /\ UNCHANGED <<target, ran>>
  BY DEF EndExecution, Goto, Ends, ghosts
<1>2. target = "x86_64" => r.ready_batches # Null /\ r.ready_batches[1] = trace
  BY DEF Candidate, Summary, Some, Null
<1>3. pc' # "ended" =>
        /\ Done => Done' /\ Kept' = Kept
        /\ Current /\ Requested = "adaptive_candidate" => Done' /\ Kept' = r
        /\ ~ Done /\ ~ (Current /\ Requested = "adaptive_candidate") => ~ Done'
  BY EndExecutionDone
<1> HIDE DEF r
<1>4. /\ IsSequence(trace) /\ Len(trace) \in Nat
      /\ target = "other" \/ Requested # "adaptive_candidate" => Len(trace) = 0
  BY <1>1, SequenceDomain, ExecutionMeans DEF Control, TypeOK, Batching, Requested
<1>5. Current => ran = [i \in 1..Len(trace) |-> AsRan(trace[i])]
  <2>1. Current => ran = [i \in 1..(Len(trace) - 0) |-> AsRan(trace[i])]
    BY <1>1 DEF Following
  <2>2. Len(trace) - 0 = Len(trace)
    BY <1>4
  <2> QED
    BY <2>1, <2>2, Zenon
<1>6. /\ ~ Done /\ ~ Current => ran = <<>>
      /\ Current /\ Len(trace) = 0 => ran = <<>>
  BY <1>1, <1>5 DEF Following
<1>7. pc' \notin {"select", "join", "end"} /\ ~ Current' /\ pc \in Invoked
  BY <1>1 DEF Current
<1> HIDE DEF Done, Current, Kept, Invoked
<1>8. CASE pc' = "ended"
  BY <1>8 DEF Following, Invoked
<1>9. CASE pc' # "ended" /\ Done
  BY <1>1, <1>3, <1>7, <1>9, KeptFollowing
<1>10. CASE pc' # "ended" /\ Current /\ Requested = "adaptive_candidate"
  <2>1. ran' = [i \in 1..Len(trace) |-> AsRan(trace[i])] /\ target' = target
    BY <1>1, <1>5, <1>10
  <2>2. target = "x86_64" =>
           /\ r.ready_batches # Null
           /\ r.ready_batches[1] = [i \in 1..Len(r.ready_batches[1]) |-> r.ready_batches[1][i]]
           /\ ran' = AsRun(r.ready_batches[1])
    <3>1. trace = [i \in 1..Len(trace) |-> trace[i]] /\ DOMAIN trace = 1..Len(trace)
      BY <1>4, SequenceDomain DEF IsSequence
    <3>2. ran' = AsRun(trace)
      BY <2>1, <3>1, Zenon DEF AsRun
    <3> HIDE DEF AsRun
    <3> QED
      BY <1>2, <3>1, <3>2
  <2>3. target = "other" => ran' = <<>>
    BY <1>1, <1>4, <1>6, <1>10
  <2> HIDE DEF AsRun, AsRan
  <2> QED
    BY <1>3, <1>7, <1>10, <2>1, <2>2, <2>3 DEF Following
<1>11. CASE pc' # "ended" /\ ~ Done /\ ~ (Current /\ Requested = "adaptive_candidate")
  <2>1. ran' = <<>>
    BY <1>1, <1>4, <1>6, <1>11
  <2> QED
    BY <1>3, <1>7, <1>11, <2>1, NotYetFollowing
<1> QED
  BY <1>8, <1>9, <1>10, <1>11

(* The record of a case that is of the watched candidate has what its      *)
(* stage had.                                                              *)
LEMMA RecordDone ==
  ASSUME Control, Record
  PROVE  /\ Done' <=> Done
         /\ Done => Kept'.ready_batches = Kept.ready_batches
<1> USE DEF Invoked, Preflight, Timed, Untraced
<1>1. /\ pc = "record" /\ pc' \in {"record", "measure", "next"}
      /\ UNCHANGED <<selected, case, stageRoutes>>
  BY DEF Record, Goto
<1>2. /\ Len(stageRoutes) = 2 /\ IsSequence(records) /\ Len(records) \in Nat /\ case \in Nat \ {0}
  BY <1>1, SequenceDomain, CasesCounted DEF Control, Progress, TypeOK
<1>3. RecordAt \in 1..4 /\ Len(records) = 4 * (case - 1) + (RecordAt - 1)
  BY RecordMeans
<1>4. PICK m : /\ records' = Append(records, m)
               /\ RecordAt \in {3, 4} => m.ready_batches = stageRoutes[RecordAt - 2].ready_batches
  BY RecordMeans, Zenon
<1>5. /\ Len(records') = Len(records) + 1
      /\ \A i \in 1..Len(records) : records'[i] = records[i]
      /\ records'[Len(records) + 1] = m
  BY <1>2, <1>4, Appended
<1>6. /\ SelectedCase' = SelectedCase /\ SelectedStage' = SelectedStage
      /\ SelectedPlace' = SelectedPlace /\ SelectedStage \in {1, 2}
      /\ SelectedCase \in Nat \ {0} /\ SelectedPlace = 4 * (SelectedCase - 1) + 2 + SelectedStage
  BY <1>1, SelectedMeans, CasesCounted DEF SelectedCase, SelectedStage, SelectedPlace, Control
<1>7. /\ Filed <=> Len(records) >= SelectedPlace
      /\ Filed' <=> Len(records') >= SelectedPlace
      /\ Done <=> Filed \/ case = SelectedCase
      /\ Done' <=> Filed' \/ case = SelectedCase
  BY <1>1, <1>2, <1>6 DEF Filed, Done
<1>8. Filed' /\ ~ Filed => case = SelectedCase /\ RecordAt = 2 + SelectedStage
                           /\ SelectedPlace = Len(records) + 1
  BY <1>2, <1>3, <1>5, <1>6, <1>7
<1>9. Done' <=> Done
  <2>1. Filed => Filed'
    BY <1>2, <1>5, <1>6, <1>7
  <2> QED
    BY <1>7, <1>8, <2>1, Zenon
<1>10. Done => Kept'.ready_batches = Kept.ready_batches
  <2>1. CASE Filed
    <3>1. Filed' /\ SelectedPlace \in 1..Len(records)
      BY <1>2, <1>5, <1>6, <1>7, <2>1
    <3>2. records'[SelectedPlace] = records[SelectedPlace]
      BY <1>5, <3>1
    <3> HIDE DEF Filed
    <3> QED
      BY <1>6, <2>1, <3>1, <3>2 DEF Kept
  <2>2. CASE ~ Filed /\ Filed'
    <3>1. records'[SelectedPlace] = m /\ m.ready_batches = stageRoutes[SelectedStage].ready_batches
      BY <1>4, <1>5, <1>6, <1>8, <2>2
    <3>2. Kept = stageRoutes[SelectedStage]
      BY <2>2, Zenon DEF Kept
    <3>3. Kept' = records'[SelectedPlace]
      BY <1>6, <2>2, Zenon DEF Kept
    <3> QED
      BY <3>1, <3>2, <3>3
  <2>3. CASE ~ Filed /\ ~ Filed'
    <3> HIDE DEF Filed
    <3> QED
      BY <1>1, <1>6, <2>3 DEF Kept
  <2> QED
    BY <2>1, <2>2, <2>3
<1> QED
  BY <1>9, <1>10

LEMMA RecordFollowing ==
  ASSUME Control, Following, Record
  PROVE  Following'
<1> USE DEF Invoked, Preflight, Timed, Untraced
<1>1. pc = "record" /\ pc' \in {"record", "measure", "next"} /\ UNCHANGED <<target, ran>>
  BY DEF Record, Goto, ghosts
<1>2. (Done' <=> Done) /\ (Done => Kept'.ready_batches = Kept.ready_batches)
  BY RecordDone
<1>3. ~ Current /\ ~ Current' /\ pc' # "join" /\ pc \in Invoked
  BY <1>1 DEF Current
<1>4. ~ Done => ran = <<>>
  BY <1>1, <1>3 DEF Following
<1> HIDE DEF Done, Current, Kept, Invoked
<1>5. CASE Done
  BY <1>1, <1>2, <1>3, <1>5, KeptFollowing
<1>6. CASE ~ Done
  BY <1>1, <1>2, <1>3, <1>4, <1>6, NotYetFollowing
<1> QED
  BY <1>5, <1>6

LEMMA NextCaseDone ==
  ASSUME Control, NextCase
  PROVE  (Done' <=> Done) /\ (Done => Kept' = Kept)
<1> USE DEF Invoked, Preflight, Timed, Untraced
<1>1. /\ pc = "next" /\ pc' \in {"begin", "finish"} /\ stageRoutes' = <<>>
      /\ UNCHANGED <<selected, records>>
  BY DEF NextCase
<1>2. Len(records) = 4 * case /\ case \in Nat
  BY <1>1, CasesCounted DEF Control, Progress, TypeOK
<1>3. /\ SelectedCase' = SelectedCase /\ SelectedStage' = SelectedStage
      /\ SelectedPlace' = SelectedPlace /\ SelectedStage \in {1, 2}
      /\ SelectedCase \in Nat \ {0} /\ SelectedPlace = 4 * (SelectedCase - 1) + 2 + SelectedStage
  BY <1>1, SelectedMeans, CasesCounted DEF SelectedCase, SelectedStage, SelectedPlace, Control
<1>4. Filed' = Filed /\ (case = SelectedCase => Filed)
  BY <1>1, <1>2, <1>3 DEF Filed
<1>5. Done <=> Filed
  BY <1>4 DEF Done
<1>6. Done' <=> Filed
  <2>1. ~ (Len(<<>>) >= SelectedStage)
    BY <1>3, EmptySequence
  <2> HIDE DEF Filed
  <2> QED
    BY <1>1, <1>3, <1>4, <2>1 DEF Done
<1>7. Filed => Kept' = Kept
  <2> HIDE DEF Filed
  <2> QED
    BY <1>1, <1>3, <1>4 DEF Kept
<1> HIDE DEF Done, Filed, Kept
<1> QED
  BY <1>5, <1>6, <1>7

LEMMA NextCaseFollowing ==
  ASSUME Control, Following, NextCase
  PROVE  Following'
<1> USE DEF Invoked, Preflight, Timed, Untraced
<1>1. pc = "next" /\ pc' \in {"begin", "finish"} /\ UNCHANGED <<target, ran>>
  BY DEF NextCase, ghosts
<1>2. (Done' <=> Done) /\ (Done => Kept' = Kept)
  BY NextCaseDone
<1>3. ~ Current /\ ~ Current' /\ pc' # "join" /\ pc \in Invoked
  BY <1>1 DEF Current
<1>4. ~ Done => ran = <<>>
  BY <1>1, <1>3 DEF Following
<1> HIDE DEF Done, Current, Kept, Invoked
<1>5. CASE Done
  BY <1>1, <1>2, <1>3, <1>5, KeptFollowing
<1>6. CASE ~ Done
  BY <1>1, <1>2, <1>3, <1>4, <1>6, NotYetFollowing
<1> QED
  BY <1>5, <1>6

-----------------------------------------------------------------------------
(* While the host stays as it is, every execution of a candidate takes the *)
(* same route.                                                             *)

LEMMA RunsMeans ==
  ASSUME NEW c, NEW n \in Nat
  PROVE  /\ IsSequence(RunsOf(c, n)) /\ Len(RunsOf(c, n)) = n
         /\ RunsOf(c, 0) = <<>>
         /\ n # 0 => RunsOf(c, n) = Append(RunsOf(c, n - 1), RunOf(BatchesOf[c][n]))
<1> DEFINE Run(i) == RunOf(BatchesOf[c][i])
<1>1. \A m : RunsOf(c, m) = [i \in 1..m |-> Run(i)]
  BY DEF RunsOf
<1> HIDE DEF Run
<1>2. RunsOf(c, 0) = <<>>
  BY <1>1
<1>3. IsSequence(RunsOf(c, n)) /\ Len(RunsOf(c, n)) = n
  <2>1. RunsOf(c, n) = [i \in 1..n |-> RunsOf(c, n)[i]]
    BY <1>1
  <2> QED
    BY <2>1, Listed
<1>4. ASSUME n # 0 PROVE RunsOf(c, n) = Append(RunsOf(c, n - 1), Run(n))
  <2> DEFINE s == RunsOf(c, n - 1)
  <2>1. n - 1 \in Nat /\ s = [i \in 1..(n - 1) |-> Run(i)]
    BY <1>1, <1>4
  <2> HIDE DEF s
  <2>2. IsSequence(s) /\ Len(s) = n - 1 /\ \A i \in 1..(n - 1) : s[i] = Run(i)
    <3>1. s = [i \in 1..(n - 1) |-> s[i]]
      BY <2>1
    <3> QED
      BY <2>1, <3>1, Listed
  <2>3. /\ IsSequence(Append(s, Run(n))) /\ Len(Append(s, Run(n))) = n
        /\ \A i \in 1..(n - 1) : Append(s, Run(n))[i] = Run(i)
        /\ Append(s, Run(n))[n] = Run(n)
    BY <2>1, <2>2, Appended
  <2>4. \A i \in 1..n : Append(s, Run(n))[i] = Run(i)
    BY <2>3
  <2>5. Append(s, Run(n)) = [i \in 1..n |-> Append(s, Run(n))[i]]
    BY <2>3 DEF IsSequence
  <2>6. Append(s, Run(n)) = [i \in 1..n |-> Run(i)]
    BY <2>4, <2>5
  <2> QED
    BY <1>1, <2>6 DEF s
<1> QED
  BY <1>2, <1>3, <1>4 DEF Run

(* A run depends on the host and the target alone.                         *)
LEMMA RunsStand ==
  ASSUME UNCHANGED <<host, target>>
  PROVE  /\ \A jobs : RunOf(jobs)' = RunOf(jobs)
         /\ \A c, n : RunsOf(c, n)' = RunsOf(c, n)
         /\ \A c : AllRuns(c)' = AllRuns(c)
<1>1. \A jobs : RunOf(jobs)' = RunOf(jobs)
  BY DEF RunOf
<1>2. \A c, n : RunsOf(c, n)' = RunsOf(c, n)
  <2> HIDE DEF RunOf
  <2> QED
    BY <1>1 DEF RunsOf
<1>3. \A c : AllRuns(c)' = AllRuns(c)
  <2> HIDE DEF RunsOf
  <2> QED
    BY <1>2 DEF AllRuns
<1> QED
  BY <1>1, <1>2, <1>3

LEMMA InitRepeating == ASSUME Init PROVE Repeating
BY DEF Init, Repeating, Invoked, Preflight, Timed, Untraced

(* Between executions nothing more is run.                                 *)
LEMMA StandRepeating ==
  ASSUME Repeating, pc \in Invoked, changes' = changes,
         UNCHANGED <<host, target, selected, filter, ran, measured>>,
         (~ Done') \/ Done, ~ Current',
         pc' \notin Untraced \cup {"join", "iterated"}
  PROVE  Repeating'
<1> USE DEF Untraced
<1>1. SUFFICES ASSUME changes = 0 PROVE Repeating'
  BY DEF Repeating
<1>2. /\ Done => ran = AllRuns(SelectedCase)
      /\ Measured.requested = "adaptive_candidate" => measured \subseteq {AllRuns(MeasuredCase)}
  BY <1>1 DEF Repeating
<1>3. SelectedCase' = SelectedCase /\ MeasuredCase' = MeasuredCase /\ Measured' = Measured
  BY DEF SelectedCase, MeasuredCase, Measured
<1>4. \A c : AllRuns(c)' = AllRuns(c)
  BY RunsStand
<1>5. AllRuns(SelectedCase)' = AllRuns(SelectedCase) /\ AllRuns(MeasuredCase)' = AllRuns(MeasuredCase)
  <2> HIDE DEF SelectedCase, MeasuredCase, AllRuns
  <2> QED
    BY <1>3, <1>4
<1> HIDE DEF Done, Current, AllRuns, RunsOf, RunOf, SelectedCase, MeasuredCase, Measured
<1>6. /\ Done' => ran' = AllRuns(SelectedCase)'
      /\ Measured'.requested = "adaptive_candidate" => measured' \subseteq {AllRuns(MeasuredCase)'}
  BY <1>2, <1>3, <1>5
<1> QED
  BY <1>6 DEF Repeating

LEMMA EndedRepeating == ASSUME pc' = "ended" PROVE Repeating'
BY DEF Repeating, Invoked, Preflight, Timed, Untraced

LEMMA HostChangesRepeating == ASSUME TypeOK, HostChanges PROVE Repeating'
<1>1. changes' = changes + 1 /\ changes \in Nat
  BY DEF HostChanges, TypeOK
<1> QED
  BY <1>1 DEF Repeating

LEMMA InvokeRepeating ==
  ASSUME Control, Control', Invoke
  PROVE  Repeating'
<1> USE DEF Invoked, Preflight, Timed, Untraced
<1>1. pc' \in {"ended", "begin"}
  BY InvokeMeans
<1>2. measured' = {}
  <2>1. pc = "invoke" /\ measured' = measured
    BY Zenon DEF Invoke, ghosts
  <2> QED
    BY <2>1 DEF Control, Progress
<1>3. CASE pc' = "begin"
  <2>1. ~ Done' /\ ~ Current'
    BY <1>3, InvokeDone
  <2> HIDE DEF Done, Current
  <2> QED
    BY <1>2, <1>3, <2>1 DEF Repeating
<1> QED
  BY <1>1, <1>3, EndedRepeating

LEMMA RecordRepeating == ASSUME Control, Repeating, Record PROVE Repeating'
<1>1. /\ pc = "record" /\ pc' \in {"record", "measure", "next"}
      /\ UNCHANGED <<changes, host, target, selected, filter, ran, measured>>
  BY DEF Record, Goto, ghosts
<1>2. Done' <=> Done
  BY RecordDone
<1>3. ~ Current' /\ pc \in Invoked /\ pc' \notin Untraced \cup {"join", "iterated"}
  BY <1>1 DEF Current, Invoked, Untraced
<1> HIDE DEF Done, Current
<1> QED
  BY <1>1, <1>2, <1>3, StandRepeating

LEMMA NextCaseRepeating == ASSUME Control, Repeating, NextCase PROVE Repeating'
<1>1. /\ pc = "next" /\ pc' \in {"begin", "finish"}
      /\ UNCHANGED <<changes, host, target, selected, filter, ran, measured>>
  BY DEF NextCase, ghosts
<1>2. Done' <=> Done
  BY NextCaseDone
<1>3. ~ Current' /\ pc \in Invoked /\ pc' \notin Untraced \cup {"join", "iterated"}
  BY <1>1 DEF Current, Invoked, Untraced
<1> HIDE DEF Done, Current
<1> QED
  BY <1>1, <1>2, <1>3, StandRepeating

LEMMA EndExecutionRepeating == ASSUME Control, Repeating, EndExecution PROVE Repeating'
<1> USE DEF Invoked, Preflight, Timed, Untraced
<1>1. /\ pc = "end" /\ pc' \in {"ended", "begin", "record"}
      /\ UNCHANGED <<changes, host, target, selected, filter, ran, measured>>
  BY DEF EndExecution, Goto, Ends, ghosts
<1>2. pc' # "ended" => ((~ Done') \/ Done \/ (Current /\ Requested = "adaptive_candidate"))
  BY EndExecutionDone
<1>3. ~ Current' /\ pc \in Invoked /\ pc' \notin Untraced \cup {"join", "iterated"}
  BY <1>1 DEF Current
<1>4. CASE pc' = "ended"
  BY <1>4, EndedRepeating
<1>5. CASE pc' # "ended" /\ ((~ Done') \/ Done)
  <2> HIDE DEF Done, Current, Invoked, Untraced
  <2> QED
    BY <1>1, <1>3, <1>5, StandRepeating
<1>6. CASE pc' # "ended" /\ Current /\ Requested = "adaptive_candidate"
  <2> SUFFICES ASSUME changes = 0 PROVE Repeating'
    BY <1>1 DEF Repeating
  <2>1. Len(ran) = Len(trace) /\ ran = RunsOf(case, Len(ran))
        /\ (Measured.requested = "adaptive_candidate" => measured \subseteq {AllRuns(MeasuredCase)})
    BY <1>1, <1>6 DEF Repeating
  <2>2. Len(trace) = IF target = "other" THEN 0 ELSE Len(BatchesOf[case])
    BY <1>1, <1>6 DEF Control, Batching
  <2>3. RunsOf(case, 0) = <<>>
    BY RunsMeans
  <2>4. case = SelectedCase
    BY <1>6 DEF Current, Watching
  <2>5. ran = AllRuns(SelectedCase)
    <3> HIDE DEF RunsOf
    <3> QED
      BY <2>1, <2>2, <2>3, <2>4 DEF AllRuns
  <2>6. SelectedCase' = SelectedCase /\ MeasuredCase' = MeasuredCase /\ Measured' = Measured
    BY <1>1 DEF SelectedCase, MeasuredCase, Measured
  <2>7. \A c : AllRuns(c)' = AllRuns(c)
    BY <1>1, RunsStand
  <2>8. AllRuns(SelectedCase)' = AllRuns(SelectedCase) /\ AllRuns(MeasuredCase)' = AllRuns(MeasuredCase)
    <3> HIDE DEF SelectedCase, MeasuredCase, AllRuns
    <3> QED
      BY <2>6, <2>7
  <2> HIDE DEF Done, Current, AllRuns, RunsOf, RunOf, SelectedCase, MeasuredCase, Measured
  <2>9. /\ ran' = AllRuns(SelectedCase)'
        /\ Measured'.requested = "adaptive_candidate" => measured' \subseteq {AllRuns(MeasuredCase)'}
    BY <1>1, <2>1, <2>5, <2>6, <2>8
  <2> QED
    BY <1>3, <2>9 DEF Repeating
<1> QED
  BY <1>2, <1>4, <1>5, <1>6

LEMMA BeginRepeating ==
  ASSUME Control, Following, Repeating, Begin, IsSequence(BatchesOf[case])
  PROVE  Repeating'
<1> USE DEF Invoked, Preflight, Timed, Untraced
<1>1. /\ pc \in {"begin", "measure"} /\ trace' = <<>> /\ measuring' = <<>> /\ batch' = 1
      /\ pc = "begin" => pc' \in {"ended", "end", "select"}
      /\ pc = "measure" => pc' \in {"ended", "iterated", "select_untraced"}
      /\ UNCHANGED <<changes, host, target, selected, filter, case, exec, ran, measured>>
      /\ UNCHANGED <<stageRoutes, records>>
      /\ pc' = "iterated" =>
           Requested = "serial_oracle" \/ target = "other" \/ BatchesOf[case] = <<>>
  BY DEF Begin, Goto, Ends, EmptyTrace
<1>2. CASE pc' = "ended"
  BY <1>2, EndedRepeating
<1>3. CASE pc' # "ended"
  <2> SUFFICES ASSUME changes = 0 PROVE Repeating'
    BY <1>1 DEF Repeating
  <2>1. /\ Done => ran = AllRuns(SelectedCase)
        /\ Measured.requested = "adaptive_candidate" => measured \subseteq {AllRuns(MeasuredCase)}
    BY <1>1 DEF Repeating
  <2>2. /\ SelectedCase' = SelectedCase /\ MeasuredCase' = MeasuredCase /\ Measured' = Measured
        /\ Done' = Done /\ Requested' = Requested
    BY <1>1 DEF SelectedCase, MeasuredCase, Measured, Done, Filed, SelectedPlace, SelectedCase,
                SelectedStage, Requested
  <2>3. (\A c : AllRuns(c)' = AllRuns(c)) /\ (\A c, n : RunsOf(c, n)' = RunsOf(c, n))
    BY <1>1, RunsStand
  <2>4. /\ AllRuns(SelectedCase)' = AllRuns(SelectedCase)
        /\ AllRuns(MeasuredCase)' = AllRuns(MeasuredCase)
        /\ AllRuns(case)' = AllRuns(case)
        /\ RunsOf(case, 0)' = RunsOf(case, 0)
    <3> HIDE DEF SelectedCase, MeasuredCase, AllRuns, RunsOf
    <3> QED
      BY <1>1, <2>2, <2>3
  <2>5. RunsOf(case, 0) = <<>>
    BY RunsMeans
  <2>6. ~ Done' /\ Current' => ran' = <<>>
    BY <1>1, <2>2 DEF Following, Current
  <2>7. Current' => ~ Done'
    BY DEF Current
  <2>8. pc' = "iterated" /\ Requested = "adaptive_candidate" => AllRuns(case) = <<>>
    <3>1. BatchesOf[case] = <<>> => Len(BatchesOf[case]) = 0
      BY EmptySequence
    <3> HIDE DEF RunsOf
    <3> QED
      BY <1>1, <2>5, <3>1 DEF AllRuns
  <2>9. Len(<<>>) = 0
    BY EmptySequence
  <2> HIDE DEF Done, Current, AllRuns, RunsOf, RunOf, SelectedCase, MeasuredCase, Measured, Requested
  <2>10. Done' => ran' = AllRuns(SelectedCase)'
    BY <1>1, <2>1, <2>2, <2>4
  <2>11. Measured'.requested = "adaptive_candidate" => measured' \subseteq {AllRuns(MeasuredCase)'}
    BY <1>1, <2>1, <2>2, <2>4
  <2>12. Current' => /\ Len(ran') = Len(trace') /\ ran' = RunsOf(case, 0)'
                     /\ Len(ran') = 0
    BY <1>1, <2>4, <2>5, <2>6, <2>7, <2>9
  <2>13. measuring' = RunsOf(case, 0)' /\ batch' - 1 = 0
    BY <1>1, <2>4, <2>5
  <2>14. pc' = "iterated" /\ Requested' = "adaptive_candidate" => measuring' = AllRuns(case)'
    BY <1>1, <2>2, <2>4, <2>8
  <2>15. pc' \notin {"join", "join_untraced"}
    BY <1>1
  <2> QED
    BY <2>10, <2>11, <2>12, <2>13, <2>14, <2>15 DEF Repeating
<1> QED
  BY <1>2, <1>3

LEMMA SelectTracedRepeating ==
  ASSUME Control, Repeating, SelectTraced, IsSequence(Jobs)
  PROVE  Repeating'
<1> USE DEF Invoked, Preflight, Timed, Untraced
<1>1. /\ pc = "select" /\ pc' = "join" /\ Leases
      /\ UNCHANGED <<changes, host, target, selected, filter, case, exec, batch, ran, measured>>
      /\ UNCHANGED <<stageRoutes, records>>
  BY DEF SelectTraced, Goto, ghosts
<1> SUFFICES ASSUME changes = 0 PROVE Repeating'
  BY <1>1 DEF Repeating
<1>2. BatchRun' = RunOf(Jobs) /\ Jobs' = Jobs
  BY <1>1, SelectedAsRun DEF Control
<1>3. Len(trace) = batch - 1
  BY <1>1 DEF Control, Batching
<1>4. /\ Done => ran = AllRuns(SelectedCase)
      /\ Current => Len(ran) = Len(trace) /\ ran = RunsOf(case, Len(ran))
      /\ Measured.requested = "adaptive_candidate" => measured \subseteq {AllRuns(MeasuredCase)}
  BY <1>1 DEF Repeating
<1>5. /\ SelectedCase' = SelectedCase /\ MeasuredCase' = MeasuredCase /\ Measured' = Measured
      /\ Done' = Done /\ Current' = Current
  BY <1>1 DEF SelectedCase, MeasuredCase, Measured, Done, Filed, SelectedPlace, SelectedCase,
              SelectedStage, Current, Watching, Stage, SelectedRoute
<1>6. /\ \A c : AllRuns(c)' = AllRuns(c)
      /\ \A c, n : RunsOf(c, n)' = RunsOf(c, n)
      /\ \A jobs : RunOf(jobs)' = RunOf(jobs)
  BY <1>1, RunsStand
<1>7. /\ AllRuns(SelectedCase)' = AllRuns(SelectedCase)
      /\ AllRuns(MeasuredCase)' = AllRuns(MeasuredCase)
      /\ RunsOf(case, Len(ran))' = RunsOf(case, Len(ran))
      /\ RunOf(Jobs)' = RunOf(Jobs)
  <2> HIDE DEF SelectedCase, MeasuredCase, AllRuns, RunsOf, RunOf, Jobs
  <2> QED
    BY <1>1, <1>2, <1>5, <1>6
<1> HIDE DEF Done, Current, AllRuns, RunsOf, RunOf, SelectedCase, MeasuredCase, Measured, BatchRun, Jobs
<1>8. Done' => ran' = AllRuns(SelectedCase)'
  BY <1>1, <1>4, <1>5, <1>7
<1>9. Measured'.requested = "adaptive_candidate" => measured' \subseteq {AllRuns(MeasuredCase)'}
  BY <1>1, <1>4, <1>5, <1>7
<1>10. Current' => Len(ran') = batch' - 1 /\ ran' = RunsOf(case, Len(ran))'
  BY <1>1, <1>3, <1>4, <1>5, <1>7
<1>11. BatchRun' = RunOf(Jobs)'
  BY <1>2, <1>7
<1> QED
  BY <1>1, <1>8, <1>9, <1>10, <1>11 DEF Repeating

LEMMA SelectUntracedRepeating ==
  ASSUME Control, Repeating, SelectUntraced, IsSequence(Jobs)
  PROVE  Repeating'
<1> USE DEF Invoked, Preflight, Timed, Untraced
<1>1. /\ pc = "select_untraced" /\ pc' = "join_untraced" /\ Leases
      /\ UNCHANGED <<changes, host, target, selected, filter, case, exec, batch, ran, measured>>
      /\ UNCHANGED <<stageRoutes, records, measuring>>
  BY DEF SelectUntraced, Goto, ghosts, evidence
<1> SUFFICES ASSUME changes = 0 PROVE Repeating'
  BY <1>1 DEF Repeating
<1>2. BatchRun' = RunOf(Jobs) /\ Jobs' = Jobs
  BY <1>1, SelectedAsRun DEF Control
<1>3. /\ Done => ran = AllRuns(SelectedCase)
      /\ measuring = RunsOf(case, batch - 1)
      /\ Measured.requested = "adaptive_candidate" => measured \subseteq {AllRuns(MeasuredCase)}
  BY <1>1 DEF Repeating
<1>4. /\ SelectedCase' = SelectedCase /\ MeasuredCase' = MeasuredCase /\ Measured' = Measured
      /\ Done' = Done /\ ~ Current'
  BY <1>1 DEF SelectedCase, MeasuredCase, Measured, Done, Filed, SelectedPlace, SelectedCase,
              SelectedStage, Current
<1>5. /\ \A c : AllRuns(c)' = AllRuns(c)
      /\ \A c, n : RunsOf(c, n)' = RunsOf(c, n)
      /\ \A jobs : RunOf(jobs)' = RunOf(jobs)
  BY <1>1, RunsStand
<1>6. /\ AllRuns(SelectedCase)' = AllRuns(SelectedCase)
      /\ AllRuns(MeasuredCase)' = AllRuns(MeasuredCase)
      /\ RunsOf(case, batch - 1)' = RunsOf(case, batch - 1)
      /\ RunOf(Jobs)' = RunOf(Jobs)
  <2> HIDE DEF SelectedCase, MeasuredCase, AllRuns, RunsOf, RunOf, Jobs
  <2> QED
    BY <1>1, <1>2, <1>4, <1>5
<1> HIDE DEF Done, Current, AllRuns, RunsOf, RunOf, SelectedCase, MeasuredCase, Measured, BatchRun, Jobs
<1>7. Done' => ran' = AllRuns(SelectedCase)'
  BY <1>1, <1>3, <1>4, <1>6
<1>8. Measured'.requested = "adaptive_candidate" => measured' \subseteq {AllRuns(MeasuredCase)'}
  BY <1>1, <1>3, <1>4, <1>6
<1>9. measuring' = RunsOf(case, batch - 1)' /\ BatchRun' = RunOf(Jobs)'
  BY <1>1, <1>2, <1>3, <1>6
<1> QED
  BY <1>1, <1>4, <1>7, <1>8, <1>9 DEF Repeating

LEMMA JoinRepeating ==
  ASSUME Control, Repeating, Join, IsSequence(BatchesOf[case])
  PROVE  Repeating'
<1> USE DEF Invoked, Preflight, Timed, Untraced
<1>1. /\ pc \in {"join", "join_untraced"}
      /\ pc = "join" => /\ pc' \in {"end", "select"}
                        /\ ran' = (IF Watching THEN Append(ran, BatchRun) ELSE ran)
      /\ pc = "join_untraced" =>
           /\ measuring' = Append(measuring, BatchRun) /\ ran' = ran
           /\ pc' = IF batch = Len(BatchesOf[case]) THEN "iterated" ELSE "select_untraced"
      /\ batch' = batch + 1
      /\ UNCHANGED <<changes, host, target, selected, filter, case, exec, trace, measured>>
      /\ UNCHANGED <<stageRoutes, records>>
  BY DEF Join, Goto, evidence, AtLastBatch
<1> SUFFICES ASSUME changes = 0 PROVE Repeating'
  BY <1>1 DEF Repeating
<1>2. /\ Done => ran = AllRuns(SelectedCase)
      /\ BatchRun = RunOf(Jobs)
      /\ Measured.requested = "adaptive_candidate" => measured \subseteq {AllRuns(MeasuredCase)}
  BY <1>1 DEF Repeating
<1>3. /\ SelectedCase' = SelectedCase /\ MeasuredCase' = MeasuredCase /\ Measured' = Measured
      /\ Done' = Done /\ Watching' = Watching
  BY <1>1 DEF SelectedCase, MeasuredCase, Measured, Done, Filed, SelectedPlace, SelectedCase,
              SelectedStage, Watching, Stage, SelectedRoute
<1>4. (\A c : AllRuns(c)' = AllRuns(c)) /\ (\A c, n : RunsOf(c, n)' = RunsOf(c, n))
  BY <1>1, RunsStand
<1>5. /\ AllRuns(SelectedCase)' = AllRuns(SelectedCase)
      /\ AllRuns(MeasuredCase)' = AllRuns(MeasuredCase)
      /\ AllRuns(case)' = AllRuns(case)
  <2> HIDE DEF SelectedCase, MeasuredCase, AllRuns
  <2> QED
    BY <1>1, <1>3, <1>4
<1>6. /\ batch \in Nat \ {0} /\ target = "x86_64"
      /\ pc = "join" => batch = Len(trace)
  BY <1>1 DEF Control, TypeOK, Batching
<1>7. RunsOf(case, batch) = Append(RunsOf(case, batch - 1), BatchRun)
  <2> HIDE DEF RunsOf, RunOf
  <2>1. RunsOf(case, batch) = Append(RunsOf(case, batch - 1), RunOf(BatchesOf[case][batch]))
    BY <1>6, RunsMeans
  <2> QED
    BY <1>2, <2>1 DEF Jobs
<1>8. Len(RunsOf(case, batch)) = batch
  BY <1>6, RunsMeans
<1>9. Measured'.requested = "adaptive_candidate" => measured' \subseteq {AllRuns(MeasuredCase)'}
  <2> HIDE DEF AllRuns, Measured, MeasuredCase
  <2> QED
    BY <1>1, <1>2, <1>3, <1>5
<1>10. CASE pc = "join"
  <2>1. /\ Current <=> Watching
        /\ Current' <=> Watching
        /\ Done => ~ Watching
    <3>1. Done => ~ Watching
      BY <1>10, DoneMeans
    <3> HIDE DEF Done, Watching
    <3> QED
      BY <1>1, <1>3, <1>10, <3>1 DEF Current
  <2>2. Current => Len(ran) = batch - 1 /\ ran = RunsOf(case, Len(ran))
    BY <1>10 DEF Repeating
  <2> HIDE DEF Done, Current, Watching, AllRuns, RunsOf, RunOf, SelectedCase, MeasuredCase, Measured,
               BatchRun, Jobs
  <2>3. Watching => ran' = RunsOf(case, batch) /\ Len(ran') = Len(trace')
    BY <1>1, <1>6, <1>7, <1>8, <1>10, <2>1, <2>2
  <2>4. RunsOf(case, Len(ran))' = RunsOf(case, Len(ran'))
    BY <1>1, <1>4
  <2>5. Current' => Len(ran') = Len(trace') /\ ran' = RunsOf(case, Len(ran))'
    BY <1>1, <1>6, <1>10, <2>1, <2>3, <2>4
  <2>6. Done' => ran' = AllRuns(SelectedCase)'
    BY <1>1, <1>2, <1>3, <1>5, <1>10, <2>1
  <2>7. pc' \in {"end", "select"}
    BY <1>1, <1>10
  <2> QED
    BY <1>9, <2>5, <2>6, <2>7 DEF Repeating
<1>11. CASE pc = "join_untraced"
  <2>1. ~ Current'
    BY <1>1, <1>11 DEF Current
  <2>2. measuring = RunsOf(case, batch - 1)
    BY <1>11 DEF Repeating
  <2>3. batch' - 1 = batch
    BY <1>1, <1>6
  <2> HIDE DEF Done, Current, Watching, RunsOf, RunOf, SelectedCase, MeasuredCase, Measured,
               BatchRun, Jobs
  <2>4. measuring' = RunsOf(case, batch)
    BY <1>1, <1>7, <1>11, <2>2
  <2>5. RunsOf(case, batch - 1)' = RunsOf(case, batch)
    BY <1>1, <1>4, <2>3
  <2>6. pc' = "iterated" => measuring' = AllRuns(case)'
    <3>1. pc' = "iterated" => AllRuns(case) = RunsOf(case, batch)
      BY <1>1, <1>6, <1>11 DEF AllRuns
    <3> HIDE DEF AllRuns
    <3> QED
      BY <1>5, <2>4, <3>1
  <2> HIDE DEF AllRuns
  <2>7. Done' => ran' = AllRuns(SelectedCase)'
    BY <1>1, <1>2, <1>3, <1>5, <1>11
  <2>8. pc' \in {"iterated", "select_untraced"}
    BY <1>1, <1>11
  <2> QED
    BY <1>9, <2>1, <2>4, <2>5, <2>6, <2>7, <2>8 DEF Repeating
<1> QED
  BY <1>1, <1>10, <1>11

LEMMA IteratedRepeating == ASSUME Control, Repeating, Iterated PROVE Repeating'
<1> USE DEF Invoked, Preflight, Timed, Untraced
<1>1. /\ pc = "iterated" /\ measured' = measured \cup {measuring} /\ pc' \in {"measure", "next"}
      /\ UNCHANGED <<changes, host, target, selected, filter, case, ran, stageRoutes, records>>
  BY DEF Iterated, Goto, evidence
<1> SUFFICES ASSUME changes = 0 PROVE Repeating'
  BY <1>1 DEF Repeating
<1>2. /\ Done => ran = AllRuns(SelectedCase)
      /\ Requested = "adaptive_candidate" => measuring = AllRuns(case)
      /\ Measured.requested = "adaptive_candidate" => measured \subseteq {AllRuns(MeasuredCase)}
  BY <1>1 DEF Repeating
<1>3. case = MeasuredCase /\ Requested = Measured.requested
  BY <1>1 DEF Control, Progress, Requested
<1>4. /\ SelectedCase' = SelectedCase /\ MeasuredCase' = MeasuredCase /\ Measured' = Measured
      /\ Done' = Done /\ ~ Current'
  BY <1>1 DEF SelectedCase, MeasuredCase, Measured, Done, Filed, SelectedPlace, SelectedCase,
              SelectedStage, Current
<1>5. \A c : AllRuns(c)' = AllRuns(c)
  BY <1>1, RunsStand
<1>6. /\ AllRuns(SelectedCase)' = AllRuns(SelectedCase)
      /\ AllRuns(MeasuredCase)' = AllRuns(MeasuredCase)
  <2> HIDE DEF SelectedCase, MeasuredCase, AllRuns
  <2> QED
    BY <1>4, <1>5
<1> HIDE DEF Done, Current, AllRuns, RunsOf, RunOf, SelectedCase, MeasuredCase, Measured, Requested
<1>7. Measured'.requested = "adaptive_candidate" => measured' \subseteq {AllRuns(MeasuredCase)'}
  BY <1>1, <1>2, <1>3, <1>4, <1>6
<1>8. Done' => ran' = AllRuns(SelectedCase)'
  BY <1>1, <1>2, <1>4, <1>6
<1> QED
  BY <1>1, <1>4, <1>7, <1>8 DEF Repeating

-----------------------------------------------------------------------------
(* The benchmark the filter names is measured before the process is done.  *)

LEMMA MeasuringStep == ASSUME Control, Control', Measuring, Next PROVE Measuring'
<1> USE DEF Invoked, Preflight, Timed, Untraced
<1> SUFFICES ASSUME pc' \in Invoked, measured' = {}
             PROVE  /\ case' <= MeasuredCase'
                    /\ pc' \in {"next", "finish"} => case' < MeasuredCase'
  BY DEF Measuring
<1>1. case \in Nat /\ case' \in Nat /\ MeasuredCase' \in Nat \ {0}
  <2>1. filter' \in 1..(4 * Len(BenchmarkCases))
    BY CanonicalMeans DEF Control, Chosen
  <2>2. CaseAt(filter') \in 1..Len(BenchmarkCases)
    BY <2>1, Places
  <2> QED
    BY <2>2, CasesCounted DEF Control, TypeOK, CaseAt, MeasuredCase
<1>2. CASE Invoke
  <2>1. case' = case /\ pc = "invoke" /\ pc' = "begin"
    BY <1>2, InvokeMeans, Zenon DEF Invoke
  <2>2. case' = 1
    BY <2>1 DEF Control, Progress
  <2> QED
    BY <1>1, <2>1, <2>2
<1>3. CASE Begin \/ SelectTraced \/ SelectUntraced \/ EndExecution \/ Join
  <2>1. /\ UNCHANGED <<case, filter, measured>> /\ pc \in Invoked /\ pc' \notin {"next", "finish"}
    BY <1>3 DEF Begin, SelectTraced, SelectUntraced, EndExecution, Join, Goto, Ends, ghosts
  <2>2. MeasuredCase' = MeasuredCase
    BY <2>1 DEF MeasuredCase
  <2> QED
    BY <2>1, <2>2 DEF Measuring
<1>4. CASE SpawnFails \/ Finish
  BY <1>4 DEF SpawnFails, Finish, Ends, Goto
<1>5. CASE Record
  <2>1. /\ UNCHANGED <<case, filter, measured>> /\ pc = "record"
        /\ pc' # "finish" /\ (pc' = "next" => case # MeasuredCase)
    BY <1>5 DEF Record, Goto, ghosts
  <2>2. MeasuredCase' = MeasuredCase
    BY <2>1 DEF MeasuredCase
  <2>3. case <= MeasuredCase
    BY <2>1 DEF Measuring
  <2> QED
    BY <1>1, <2>1, <2>2, <2>3
<1>6. CASE Iterated
  BY <1>6 DEF Iterated
<1>7. CASE NextCase
  <2>1. /\ UNCHANGED <<filter, measured>> /\ pc = "next"
        /\ (case' = case + 1 /\ pc' = "begin") \/ (case' = case /\ pc' = "finish")
    BY <1>7 DEF NextCase, ghosts
  <2>2. MeasuredCase' = MeasuredCase
    BY <2>1 DEF MeasuredCase
  <2>3. case < MeasuredCase
    BY <2>1 DEF Measuring
  <2> QED
    BY <1>1, <2>1, <2>2, <2>3
<1>8. CASE HostChanges
  <2>1. UNCHANGED <<pc, case, filter, measured>>
    BY <1>8 DEF HostChanges, run, ghosts
  <2>2. MeasuredCase' = MeasuredCase
    BY <2>1 DEF MeasuredCase
  <2> QED
    BY <2>1, <2>2 DEF Measuring
<1> QED
  BY <1>2, <1>3, <1>4, <1>5, <1>6, <1>7, <1>8 DEF Next

-----------------------------------------------------------------------------
(* What is published at the end.                                           *)

(* No two records have the same id, so the one that is published is of the *)
(* benchmark that was measured.                                            *)
LEMMA PublishedMeans ==
  ASSUME Control, Finish, outcome' = "published"
  PROVE  /\ RecordsValid(records, Canonical, Cap)
         /\ selected = filter /\ selected \in DOMAIN Canonical
         /\ MatchesRoute(records[selected], Canonical[selected])
         /\ records[selected].worker_cap = Cap
         /\ Filed /\ Done
         /\ Canonical[selected].requested = "adaptive_candidate" =>
              selected = SelectedPlace /\ Kept = records[selected]
<1>1. RecordsValid(records, Canonical, Cap) /\ selected \in DOMAIN records
  BY PublishedIsValid
<1>2. pc = "finish" /\ pc \in Invoked
  BY DEF Finish, Invoked
<1>3. /\ selected \in DOMAIN Canonical /\ filter \in DOMAIN Canonical
      /\ Canonical[selected].benchmark_id = Canonical[filter].benchmark_id
  BY <1>2 DEF Control, Chosen
<1>4. DOMAIN records = DOMAIN Canonical /\ Len(records) = 4 * Len(BenchmarkCases)
  <2>1. Len(records) = Len(Canonical)
    BY <1>1, Zenon DEF RecordsValid
  <2> QED
    BY <2>1, CanonicalMeans, SequenceDomain DEF Control, TypeOK
<1>5. /\ \A i \in DOMAIN records : /\ MatchesRoute(records[i], Canonical[i])
                                   /\ RecordValid(records[i], Canonical[i].requested, Cap)
      /\ \A i, j \in DOMAIN records : records[i].benchmark_id = records[j].benchmark_id => i = j
  BY <1>1, Zenon DEF RecordsValid
<1>6. selected = filter
  <2>1. /\ records[selected].benchmark_id = Canonical[selected].benchmark_id
        /\ records[filter].benchmark_id = Canonical[filter].benchmark_id
    BY <1>3, <1>4, <1>5, Zenon DEF MatchesRoute
  <2> QED
    BY <1>3, <1>4, <1>5, <2>1, Zenon
<1>7. records[selected].worker_cap = Cap
  BY <1>1, <1>5, Zenon DEF RecordValid
<1>8. /\ SelectedCase \in 1..Len(BenchmarkCases) /\ SelectedStage \in {1, 2}
      /\ SelectedPlace = 4 * (SelectedCase - 1) + 2 + SelectedStage
      /\ SelectedRoute.requested = Routes[RouteAt(selected)] /\ RouteAt(selected) \in {1, 2}
      /\ selected = 4 * (SelectedCase - 1) + 2 * (RouteAt(selected) - 1) + SelectedStage
  BY <1>2, SelectedMeans DEF Control
<1>9. Filed
  BY <1>4, <1>8, CasesCounted DEF Filed
<1>10. Canonical[selected].requested = "adaptive_candidate" => selected = SelectedPlace
  <2>1. SelectedRoute.requested = "adaptive_candidate" => RouteAt(selected) = 2
    BY <1>8, ExecutionMeans
  <2> QED
    BY <1>8, <2>1, CasesCounted DEF SelectedRoute
<1>11. Kept = records[SelectedPlace]
  BY <1>9, Zenon DEF Kept
<1> HIDE DEF Kept, Filed
<1> QED
  BY <1>1, <1>3, <1>5, <1>6, <1>7, <1>9, <1>10, <1>11 DEF Done

LEMMA FinishMeasuredAsRecorded ==
  ASSUME Control, Repeating, Measuring, Finish
  PROVE  MeasuredAsRecorded'
<1> SUFFICES ASSUME outcome' = "published", changes' = 0,
                    SelectedRoute'.requested = "adaptive_candidate"
             PROVE  measured' = {ran'}
  BY DEF MeasuredAsRecorded
<1>1. /\ pc = "finish" /\ pc \in Invoked
      /\ UNCHANGED <<selected, filter, case, changes, ran, measured>>
  BY DEF Finish, Ends, Goto, ghosts, Invoked
<1>2. selected = filter /\ Done
  BY PublishedMeans
<1>3. SelectedRoute' = SelectedRoute /\ Measured = SelectedRoute /\ MeasuredCase = SelectedCase
  BY <1>1, <1>2 DEF SelectedRoute, Measured, MeasuredCase, SelectedCase
<1>4. ran = AllRuns(SelectedCase) /\ measured \subseteq {AllRuns(MeasuredCase)}
  <2> HIDE DEF AllRuns, Done, SelectedCase, MeasuredCase, Measured, SelectedRoute
  <2> QED
    BY <1>1, <1>2, <1>3 DEF Repeating
<1>5. measured # {}
  <2>1. measured = {} => Len(BenchmarkCases) < MeasuredCase
    BY <1>1 DEF Measuring, Control, Progress
  <2>2. SelectedCase \in 1..Len(BenchmarkCases)
    BY <1>1, SelectedMeans DEF Control
  <2> QED
    BY <1>3, <2>1, <2>2, CasesCounted
<1> HIDE DEF AllRuns
<1> QED
  BY <1>1, <1>3, <1>4, <1>5

LEMMA FinishPublishedTrue ==
  ASSUME Control, Following, Finish
  PROVE  PublishedTrue'
<1> SUFFICES ASSUME outcome' = "published" PROVE PublishedTrue'
  BY DEF PublishedTrue
<1>1. /\ pc = "finish" /\ pc \in Invoked
      /\ UNCHANGED <<selected, filter, target, records, ran>>
  BY DEF Finish, Ends, Goto, evidence, ghosts, Invoked
<1>2. /\ selected = filter /\ selected \in DOMAIN Canonical
      /\ MatchesRoute(records[selected], Canonical[selected])
      /\ records[selected].worker_cap = Cap /\ Done
      /\ Canonical[selected].requested = "adaptive_candidate" => Kept = records[selected]
  BY PublishedMeans
<1> DEFINE r == records[selected]
           manifest == Manifest(BenchmarkCases, Cap)
           place == ((filter - 1) \div 4) * 2
                      + (IF Measured.stage = "executor_assembly" THEN 1 ELSE 2)
           cell == manifest.paired_cells[place]
<1>3. /\ r.benchmark_id = Canonical[selected].benchmark_id
      /\ r.fixture_id = Canonical[selected].fixture_id
      /\ r.stage = Canonical[selected].stage /\ r.requested = Canonical[selected].requested
  BY <1>2, Zenon DEF MatchesRoute
<1>4. /\ SelectedCase = CaseAt(selected) /\ SelectedStage = StageAt(selected)
      /\ SelectedCase \in 1..Len(BenchmarkCases) /\ SelectedStage \in {1, 2}
      /\ RouteAt(selected) \in {1, 2}
      /\ Canonical[selected].stage = Stages[SelectedStage]
  BY <1>1, SelectedMeans DEF Control, SelectedCase, SelectedStage, CaseAt, StageAt, SelectedRoute
<1>5. Canonical[selected] =
         [benchmark_id |-> FullCriterionId(BenchmarkCases[SelectedCase], Stages[SelectedStage],
                                           Routes[RouteAt(selected)]),
          fixture_id   |-> FixtureId(BenchmarkCases[SelectedCase]),
          stage        |-> Stages[SelectedStage],
          requested    |-> Routes[RouteAt(selected)]]
  <2>1. selected \in 1..(4 * Len(BenchmarkCases))
    BY <1>2, CanonicalMeans
  <2> QED
    BY <1>4, <2>1, CanonicalMeans
<1>6. place = 2 * (SelectedCase - 1) + SelectedStage
  <2>1. (filter - 1) \div 4 = SelectedCase - 1
    BY <1>2, <1>4, CanonicalPlaces DEF SelectedCase
  <2>2. (IF Measured.stage = "executor_assembly" THEN 1 ELSE 2) = SelectedStage
    BY <1>2, <1>4, ExecutionMeans DEF Measured
  <2> HIDE DEF SelectedStage, SelectedCase
  <2> QED
    BY <1>4, <2>1, <2>2, CasesCounted
<1>7. cell = [fixture_id  |-> FixtureId(BenchmarkCases[SelectedCase]),
              stage       |-> Stages[SelectedStage],
              serial_id   |-> FullCriterionId(BenchmarkCases[SelectedCase], Stages[SelectedStage],
                                              "serial_oracle"),
              adaptive_id |-> FullCriterionId(BenchmarkCases[SelectedCase], Stages[SelectedStage],
                                              "adaptive_candidate")]
  <2>1. cell = PairedCells(BenchmarkCases)[place]
    BY DEF Manifest
  <2>2. /\ place \in 1..(2 * Len(BenchmarkCases))
        /\ ((place - 1) \div 2) + 1 = SelectedCase /\ ((place - 1) % 2) + 1 = SelectedStage
    <3>1. Len(BenchmarkCases) \in Nat
      BY CasesCounted
    <3> HIDE DEF place, cell, r, manifest
    <3>2. SelectedCase \in 1..Len(BenchmarkCases) /\ SelectedStage \in {1, 2}
      BY <1>4
    <3>3. place = 2 * (SelectedCase - 1) + SelectedStage
      BY <1>6
    <3> HIDE DEF SelectedCase, SelectedStage
    <3>4. CASE SelectedStage = 1
      BY <3>1, <3>2, <3>3, <3>4
    <3>5. CASE SelectedStage = 2
      BY <3>1, <3>2, <3>3, <3>5
    <3> QED
      BY <3>2, <3>4, <3>5
  <2> HIDE DEF place, SelectedCase, SelectedStage, cell
  <2>3. PairedCells(BenchmarkCases)[place] =
          [fixture_id  |-> FixtureId(BenchmarkCases[((place - 1) \div 2) + 1]),
           stage       |-> Stages[((place - 1) % 2) + 1],
           serial_id   |-> FullCriterionId(BenchmarkCases[((place - 1) \div 2) + 1],
                                           Stages[((place - 1) % 2) + 1], "serial_oracle"),
           adaptive_id |-> FullCriterionId(BenchmarkCases[((place - 1) \div 2) + 1],
                                           Stages[((place - 1) % 2) + 1], "adaptive_candidate")]
    BY <2>2 DEF PairedCells
  <2> QED
    BY <2>1, <2>2, <2>3
<1>8. /\ manifest.criterion_ids[filter] = Canonical[filter].benchmark_id
      /\ manifest.worker_cap = Cap
  BY <1>2 DEF Manifest, Canonical
<1>9. r.requested = "adaptive_candidate" /\ target = "x86_64" =>
        [i \in DOMAIN r.ready_batches[1] |-> AsRan(r.ready_batches[1][i])] = ran
  <2> HIDE DEF Done, Kept, AsRan
  <2> QED
    BY <1>1, <1>2, <1>3 DEF Following, AsRun
<1>10. Routes[1] = "serial_oracle" /\ Routes[2] = "adaptive_candidate"
  BY ExecutionMeans
<1>11. /\ r.benchmark_id = IF r.requested = "serial_oracle" THEN cell.serial_id ELSE cell.adaptive_id
       /\ cell.fixture_id = r.fixture_id /\ cell.stage = r.stage
  <2> HIDE DEF cell, r, SelectedCase, SelectedStage
  <2>1. CASE RouteAt(selected) = 1
    BY <1>3, <1>5, <1>7, <1>10, <2>1
  <2>2. CASE RouteAt(selected) = 2
    BY <1>3, <1>5, <1>7, <1>10, <2>2
  <2> QED
    BY <1>4, <2>1, <2>2
<1>12. /\ r.benchmark_id = manifest.criterion_ids[filter]
       /\ r.worker_cap = manifest.worker_cap
  BY <1>2, <1>3, <1>8
<1>13. Cap' = Cap /\ Measured' = Measured
  BY <1>1 DEF Cap, Measured
<1> HIDE DEF Measured, Cap, Manifest, AsRan
<1> QED
  BY <1>1, <1>9, <1>11, <1>12, <1>13, Zenon DEF PublishedTrue

-----------------------------------------------------------------------------
(* The whole invariant.                                                    *)

LEMMA InitInv == ASSUME Init PROVE Inv
<1>1. Control /\ Sampling /\ Following /\ Repeating
  BY InitControl, InitSampling, InitFollowing, InitRepeating
<1>2. Measuring /\ Evidence
  BY DEF Init, Measuring, Evidence, Invoked, Preflight, Timed, Untraced
<1> QED
  BY <1>1, <1>2, Zenon DEF Inv, Control

(* The jobs of the batch an execution is at.                               *)
LEMMA JobsTyped ==
  ASSUME Control
  PROVE  /\ \A c \in 1..Len(BenchmarkCases) : IsSequence(BatchesOf[c])
         /\ IsSequence(BatchesOf[case])
         /\ pc \in {"select", "join"} \cup Untraced => IsSequence(Jobs) /\ Len(Jobs) \in Nat
<1>1. case \in 1..Len(BenchmarkCases)
  BY DEF Control, TypeOK
<1>2. pc \in {"select", "join"} \cup Untraced => batch \in 1..Len(BatchesOf[case])
  BY DEF Control, Batching
<1>3. \A c \in 1..Len(BenchmarkCases) : IsSequence(BatchesOf[c])
  BY BatchesTyped, Zenon
<1>4. \A b \in 1..Len(BatchesOf[case]) : IsSequence(BatchesOf[case][b]) /\ Len(BatchesOf[case][b]) \in Nat
  BY <1>1, BatchesTyped, Zenon
<1> QED
  BY <1>1, <1>2, <1>3, <1>4, Zenon DEF Jobs

LEMMA StepControl == ASSUME Control, Next PROVE Control'
<1>1. /\ \A c \in 1..Len(BenchmarkCases) : IsSequence(BatchesOf[c])
      /\ IsSequence(BatchesOf[case])
      /\ pc \in {"select", "join"} \cup Untraced => IsSequence(Jobs) /\ Len(Jobs) \in Nat
  BY JobsTyped, Zenon
<1>2. CASE Invoke
  BY <1>2, InvokeControl, Zenon
<1>3. CASE Begin
  BY <1>1, <1>3, BeginControl, Zenon
<1>4. CASE SelectTraced
  <2>1. Len(Jobs) \in Nat
    BY <1>1, <1>4 DEF SelectTraced
  <2> QED
    BY <2>1, <1>4, SelectTracedControl, Zenon
<1>5. CASE SelectUntraced
  <2>1. Len(Jobs) \in Nat
    BY <1>1, <1>5 DEF SelectUntraced, Untraced
  <2> QED
    BY <2>1, <1>5, SelectUntracedControl, Zenon
<1>6. CASE Join
  BY <1>1, <1>6, JoinControl, Zenon
<1>7. CASE SpawnFails
  BY <1>7, SpawnFailsControl, Zenon
<1>8. CASE EndExecution
  BY <1>8, EndExecutionControl, Zenon
<1>9. CASE Record
  BY <1>9, RecordControl, Zenon
<1>10. CASE Iterated
  BY <1>10, IteratedControl, Zenon
<1>11. CASE NextCase
  BY <1>11, NextCaseControl, Zenon
<1>12. CASE Finish
  BY <1>12, FinishControl, Zenon
<1>13. CASE HostChanges
  BY <1>13, HostChangesControl, Zenon
<1> QED
  BY <1>2, <1>3, <1>4, <1>5, <1>6, <1>7, <1>8, <1>9, <1>10, <1>11, <1>12, <1>13, Zenon DEF Next

LEMMA StepSampling == ASSUME Control, Sampling, Next PROVE Sampling'
<1>1. CASE Invoke
  BY <1>1, InvokeSampling, Zenon
<1>2. CASE Begin
  BY <1>2, BeginSampling, Zenon
<1>3. CASE SelectTraced
  BY <1>3, SelectTracedSampling, Zenon
<1>4. CASE EndExecution
  BY <1>4, EndExecutionSampling, Zenon
<1>5. CASE Record
  BY <1>5, RecordSampling, Zenon
<1>6. CASE NextCase
  BY <1>6, NextCaseSampling, Zenon
<1>7. CASE SelectUntraced \/ Join \/ SpawnFails \/ Iterated \/ Finish \/ HostChanges
  BY <1>7, SteadySampling, Zenon
<1> QED
  BY <1>1, <1>2, <1>3, <1>4, <1>5, <1>6, <1>7, Zenon DEF Next

LEMMA StepFollowing == ASSUME Control, Control', Following, Next PROVE Following'
<1>1. CASE Invoke
  BY <1>1, InvokeFollowing, Zenon
<1>2. CASE Begin
  BY <1>2, BeginFollowing, Zenon
<1>3. CASE SelectTraced
  <2>1. IsSequence(Jobs)
    <3>1. pc = "select"
      BY <1>3 DEF SelectTraced
    <3> QED
      BY <3>1, JobsTyped
  <2> QED
    BY <2>1, <1>3, SelectTracedFollowing, Zenon
<1>4. CASE Join
  BY <1>4, JoinFollowing, Zenon
<1>5. CASE EndExecution
  BY <1>5, EndExecutionFollowing, Zenon
<1>6. CASE Record
  BY <1>6, RecordFollowing, Zenon
<1>7. CASE NextCase
  BY <1>7, NextCaseFollowing, Zenon
<1>8. CASE SelectUntraced \/ SpawnFails \/ Iterated \/ Finish
  BY <1>8, SteadyFollowing, Zenon
<1>9. CASE HostChanges
  BY <1>9, HostChangesFollowing, Zenon
<1> QED
  BY <1>1, <1>2, <1>3, <1>4, <1>5, <1>6, <1>7, <1>8, <1>9, Zenon DEF Next

LEMMA StepRepeating == ASSUME Control, Control', Following, Repeating, Next PROVE Repeating'
<1>1. /\ IsSequence(BatchesOf[case])
      /\ pc \in {"select", "join"} \cup Untraced => IsSequence(Jobs)
  BY JobsTyped, Zenon
<1>2. CASE Invoke
  BY <1>2, InvokeRepeating, Zenon
<1>3. CASE Begin
  BY <1>1, <1>3, BeginRepeating, Zenon
<1>4. CASE SelectTraced
  <2>1. IsSequence(Jobs)
    BY <1>1, <1>4 DEF SelectTraced
  <2> QED
    BY <2>1, <1>4, SelectTracedRepeating, Zenon
<1>5. CASE SelectUntraced
  <2>1. IsSequence(Jobs)
    BY <1>1, <1>5 DEF SelectUntraced, Untraced
  <2> QED
    BY <2>1, <1>5, SelectUntracedRepeating, Zenon
<1>6. CASE Join
  BY <1>1, <1>6, JoinRepeating, Zenon
<1>7. CASE EndExecution
  BY <1>7, EndExecutionRepeating, Zenon
<1>8. CASE Record
  BY <1>8, RecordRepeating, Zenon
<1>9. CASE NextCase
  BY <1>9, NextCaseRepeating, Zenon
<1>10. CASE Iterated
  BY <1>10, IteratedRepeating, Zenon
<1>11. CASE SpawnFails \/ Finish
  <2>1. pc' = "ended"
    BY <1>11 DEF SpawnFails, Finish, Ends, Goto
  <2> QED
    BY <2>1, EndedRepeating, Zenon
<1>12. CASE HostChanges
  BY <1>12, HostChangesRepeating, Zenon DEF Control
<1> QED
  BY <1>2, <1>3, <1>4, <1>5, <1>6, <1>7, <1>8, <1>9, <1>10, <1>11, <1>12, Zenon DEF Next

(* A process publishes only by finishing, and nothing happens after.       *)
LEMMA PublishesAtFinish ==
  ASSUME Control, Next, ~ Finish
  PROVE  pc' = "ended" => outcome' # "published"
<1>1. pc # "ended" => outcome = "running"
  BY DEF Control, TypeOK
<1>2. CASE Invoke
  <2>1. pc' = "ended" => outcome' \in {"no_evidence", "rejected"}
    BY <1>2, InvokeMeans
  <2> QED
    BY <2>1
<1>3. CASE Begin
  BY <1>1, <1>3 DEF Begin, Ends, Goto
<1>4. CASE SelectTraced \/ SelectUntraced \/ Join \/ Record \/ Iterated \/ NextCase
  BY <1>4 DEF SelectTraced, SelectUntraced, Join, Record, Iterated, NextCase, Goto
<1>5. CASE SpawnFails
  BY <1>5 DEF SpawnFails, Ends
<1>6. CASE EndExecution
  BY <1>6 DEF EndExecution, Ends, Goto
<1>7. CASE HostChanges
  BY <1>1, <1>7 DEF HostChanges, run, Control, TypeOK
<1> QED
  BY <1>2, <1>3, <1>4, <1>5, <1>6, <1>7 DEF Next

LEMMA StepEvidence ==
  ASSUME Control, Sampling, Following, Repeating, Measuring, Next
  PROVE  Evidence'
<1>1. CASE Finish
  BY <1>1, FinishOneHost, FinishPublishedTrue, FinishMeasuredAsRecorded, Zenon DEF Evidence
<1>2. CASE ~ Finish
  BY <1>2, PublishesAtFinish DEF Evidence, OneHost, PublishedTrue, MeasuredAsRecorded
<1> QED
  BY <1>1, <1>2

LEMMA StutterInv == ASSUME Inv, UNCHANGED vars PROVE Inv'
<1> USE DEF vars, run, evidence, ghosts
<1>1. TypeOK' /\ Progress' /\ Batching' /\ Leasing' /\ Chosen'
  BY DEF Inv, TypeOK, Progress, Batching, Leasing, Chosen, MeasuredCase, Measured, Requested
<1>2. Sampling'
  BY DEF Inv, Sampling, Traced, Staged, Recorded
<1>3. /\ Filed' = Filed /\ Done' = Done /\ Current' = Current /\ Kept' = Kept
      /\ SelectedCase' = SelectedCase /\ MeasuredCase' = MeasuredCase
      /\ Measured' = Measured /\ SelectedRoute' = SelectedRoute /\ Requested' = Requested
      /\ Jobs' = Jobs /\ BatchRun' = BatchRun /\ Cap' = Cap
  BY DEF Filed, Done, Current, Kept, SelectedCase, SelectedStage, SelectedPlace, MeasuredCase,
         Measured, SelectedRoute, Requested, Watching, Stage, Jobs, BatchRun, Cap
<1>4. /\ \A jobs : RunOf(jobs)' = RunOf(jobs)
      /\ \A c, n : RunsOf(c, n)' = RunsOf(c, n)
      /\ \A c : AllRuns(c)' = AllRuns(c)
  BY RunsStand
<1>5. Following'
  BY <1>3, Zenon DEF Inv, Following
<1>6. Repeating'
  BY <1>3, <1>4 DEF Inv, Repeating
<1>7. Measuring'
  BY <1>3 DEF Inv, Measuring
<1>8. Evidence'
  <2>1. OneHost' = OneHost /\ MeasuredAsRecorded' = MeasuredAsRecorded
    BY <1>3 DEF OneHost, MeasuredAsRecorded
  <2>2. PublishedTrue' <=> PublishedTrue
    BY <1>3, Zenon DEF PublishedTrue
  <2> QED
    BY <2>1, <2>2 DEF Inv, Evidence
<1> QED
  BY <1>1, <1>2, <1>5, <1>6, <1>7, <1>8, Zenon DEF Inv

LEMMA StepInv == ASSUME Inv, [Next]_vars PROVE Inv'
<1>1. CASE Next
  <2>1. Control /\ Sampling /\ Following /\ Repeating /\ Measuring
    BY Zenon DEF Inv, Control
  <2>2. Control'
    BY <1>1, <2>1, StepControl, Zenon
  <2>3. Sampling' /\ Following' /\ Repeating' /\ Measuring' /\ Evidence'
    BY <1>1, <2>1, <2>2, StepSampling, StepFollowing, StepRepeating, MeasuringStep, StepEvidence, Zenon
  <2> QED
    BY <2>2, <2>3, Zenon DEF Inv, Control
<1>2. CASE UNCHANGED vars
  BY <1>2, StutterInv, Zenon
<1> QED
  BY <1>1, <1>2

-----------------------------------------------------------------------------
(* The theorems.                                                           *)

(* Every state of a process satisfies the invariant.                       *)
THEOREM Invariance == Spec => []Inv
<1>1. Init => Inv
  BY InitInv
<1>2. Inv /\ [Next]_vars => Inv'
  BY StepInv
<1> QED
  BY <1>1, <1>2, PTL DEF Spec

(* Whatever hosts the process meets, a record it publishes is of the       *)
(* benchmark that was measured, under the names the manifest pairs it by,  *)
(* and tells of the ready batches its own stage executed                   *)
(* (IssuanceBenchmarkRouteRecord::machine_record,                          *)
(* issuance_qualification_manifest_value).                                 *)
THEOREM PublishesTruly == Spec => []PublishedTrue
<1>1. Inv => PublishedTrue
  <2>1. Inv /\ outcome = "published" => pc = "ended"
    BY DEF Inv, TypeOK
  <2> QED
    BY <2>1 DEF Inv, Evidence, PublishedTrue
<1> QED
  BY <1>1, Invariance, PTL

(* A process whose host changed between two of its samples publishes       *)
(* nothing, wherever in its preflight the change fell                      *)
(* (validated_selected_route_payload).                                     *)
THEOREM PublishesOfOneHost == Spec => []OneHost
<1>1. Inv => OneHost
  <2>1. Inv /\ outcome = "published" => pc = "ended"
    BY DEF Inv, TypeOK
  <2> QED
    BY <2>1 DEF Inv, Evidence, OneHost
<1> QED
  BY <1>1, Invariance, PTL

(* Every ready batch finds all permits there: those of the batch before    *)
(* are back, joined or failed (AdaptiveIssuanceExecutor::execute).         *)
THEOREM NeverContendsWithItself == Spec => []NoSelfContention
<1>1. Inv => NoSelfContention
  BY DEF Inv, TypeOK, Leasing, NoSelfContention
<1> QED
  BY <1>1, Invariance, PTL

(* On a host that stays as it is, the untraced executions that are timed   *)
(* take the route the traced one recorded, however often Criterion         *)
(* iterates (execute_benchmark_candidate,                                  *)
(* execute_benchmark_candidate_with_trace).                                *)
THEOREM MeasuresWhatItRecords == Spec => []MeasuredAsRecorded
<1>1. Inv => MeasuredAsRecorded
  <2>1. Inv /\ outcome = "published" => pc = "ended"
    BY DEF Inv, TypeOK
  <2> QED
    BY <2>1 DEF Inv, Evidence, MeasuredAsRecorded
<1> QED
  BY <1>1, Invariance, PTL
=============================================================================
