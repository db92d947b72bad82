-------------------------- MODULE BenchmarkFixtures --------------------------
(***************************************************************************)
(* The claims of each benchmark fixture, its tape of randomness, and the   *)
(* issuance plan made of them (src/issuer/issuance_benchmark.rs). Plans    *)
(* are those of IssuancePlans: locations are numbered as the planner       *)
(* allocates them, so a value is written as the sequence of the kinds of   *)
(* what is in it, in that order, each with the number of locations it      *)
(* spans. The text of a scalar is left out but for its weight.             *)
(***************************************************************************)
EXTENDS BenchmarkMatrix, FiniteSetsExt, Lists

Scalar(weight) == <<[kind |-> "scalar", size |-> 1, weight |-> weight]>>
Nest(kind, children) ==
  LET inside == Joined(children)[Len(children)]
  IN  <<[kind |-> kind, size |-> 1 + Len(inside), weight |-> 1]>> \o inside

SmallValue  == Scalar(1)
LargeValue  == Scalar(3)
MediumValue ==
  Nest("object", <<Scalar(1), Nest("object", <<Scalar(1), Scalar(1), Scalar(2)>>),
                   Nest("array", <<Scalar(1), Scalar(1), Scalar(1)>>)>>)

(* IssuancePayloadClass::value.                                            *)
PayloadValue(class, ordinal) ==
  CASE class = "small"  -> SmallValue
    [] class = "medium" -> MediumValue
    [] class = "large"  -> LargeValue
    [] class = "mixed"  -> <<SmallValue, MediumValue, LargeValue>>[(ordinal % 3) + 1]

AllLevelsNestedObjects ==
  LET TwoScalars == Nest("object", <<Scalar(1), Scalar(1)>>)
  IN  Nest("object", <<TwoScalars, TwoScalars, Scalar(1)>>)

AllLevelsArrayDag ==
  LET TwoEntries == Nest("array", <<Scalar(1), Scalar(1)>>)
  IN  Nest("object", <<Nest("array", <<TwoEntries, TwoEntries>>), Scalar(1)>>)

(* Both heavy claims come first: static chunks see them next to each other. *)
TopLevelImbalanced ==
  Nest("object", <<Scalar(3), Scalar(3)>> \o [i \in 1..6 |-> Scalar(1)])

SelectiveClaims(c) ==
  CASE c.kind = "standard" ->
         Nest("object", [n \in 1..c.disclosure_count |-> PayloadValue(c.payload_class, n - 1)])
    [] c.kind = "all_levels_nested_objects" -> AllLevelsNestedObjects
    [] c.kind = "all_levels_array_dag"      -> AllLevelsArrayDag
    [] c.kind = "top_level_imbalanced"      -> TopLevelImbalanced

(* full_claims puts iss and iat before them; preparing the payload takes   *)
(* both out again before the rest is planned.                              *)
AlwaysRevealed     == Scalar(1) \o Scalar(1)
FullClaims(claims) ==
  <<[claims[1] EXCEPT !.size = @ + Len(AlwaysRevealed)]>> \o AlwaysRevealed \o Tail(claims)
PlannedOfFull(full) ==
  <<[full[1] EXCEPT !.size = @ - Len(AlwaysRevealed)]>>
    \o SubSeq(full, Len(AlwaysRevealed) + 2, Len(full))

Decoyed(c) == c.add_decoy_claims

Objects(claims)     == {l \in DOMAIN claims : claims[l].kind = "object"}
ObjectCount(claims) == Cardinality(Objects(claims))

-----------------------------------------------------------------------------
(* BenchmarkRandomTape: how many salts of disclosures are on it, the decoy *)
(* counts, and how many salts of decoys; it ends in "exhausted" when       *)
(* something is drawn that it does not hold.                               *)

SumOf(numbers) == FoldLeft(LAMBDA sum, n : sum + n, 0, numbers)

TapeOfRootDecoys(claims, c) ==   \* Slip: the objects inside the claims are not counted
  LET counts == IF Decoyed(c) THEN <<2>> ELSE <<>>
  IN  [disclosure_salts |-> c.disclosure_count, decoy_counts |-> counts,
       decoy_salts |-> SumOf(counts), exhausted |-> FALSE]

Tape(claims, c) ==
  LET counts == IF Decoyed(c) THEN [o \in 1..ObjectCount(claims) |-> 2 + ((o - 1) % 3)] ELSE <<>>
  IN  [disclosure_salts |-> c.disclosure_count, decoy_counts |-> counts,
       decoy_salts |-> SumOf(counts), exhausted |-> FALSE]

DrawSalts(t, salts) ==
  [t EXCEPT !.disclosure_salts = @ - salts,
            !.exhausted = @ \/ t.disclosure_salts < salts]

(* Every object draws a count, which has to be in the issuer's range, and  *)
(* as many salts.                                                          *)
DrawDecoys(t, objects) ==
  LET taken == SubSeq(t.decoy_counts, 1, Min({objects, Len(t.decoy_counts)}))
  IN  [t EXCEPT !.decoy_counts = SubSeq(@, objects + 1, Len(@)),
                !.decoy_salts = @ - SumOf(taken),
                !.exhausted = \/ @ \/ Len(t.decoy_counts) < objects
                              \/ t.decoy_salts < SumOf(taken)
                              \/ \E o \in DOMAIN taken : taken[o] \notin 2..4]

Consumed(t) == t.disclosure_salts = 0 /\ t.decoy_counts = <<>> /\ t.decoy_salts = 0

-----------------------------------------------------------------------------
(* IssuancePlan::create over a tape, in the order the planner leaves       *)
(* locations: what is inside a value comes before it. The decoys of an     *)
(* object are the count it draws; which salt it draws makes no difference. *)

LastInside(claims) == [l \in DOMAIN claims |-> l + claims[l].size - 1]
RootEntry(claims, l) ==
  l # 1 /\ \A k \in 2..(l - 1) : LastInside(claims)[k] < l
DisclosedAt(claims, c) ==
  [l \in DOMAIN claims |-> l # 1 /\ (AllLevels(c) \/ RootEntry(claims, l))]

LeftBefore(claims) ==
  LET last == LastInside(claims)
  IN  {p \in (DOMAIN claims) \X (DOMAIN claims) :
         last[p[1]] < last[p[2]] \/ (last[p[1]] = last[p[2]] /\ p[1] > p[2])}

Leaving(claims) == Arranged([l \in DOMAIN claims |-> l], LeftBefore(claims))

Planned(claims, c, t) ==
  LET disclosed == DisclosedAt(claims, c)
      drawing   == IF Decoyed(c) THEN Objects(claims) ELSE {}
      turn(l)   == Cardinality({m \in drawing : <<m, l>> \in LeftBefore(claims)}) + 1
  IN  [tape |-> DrawDecoys(DrawSalts(t, Cardinality({l \in DOMAIN claims : disclosed[l]})),
                           Cardinality(drawing)),
       plan |-> [last   |-> LastInside(claims),
                 kind   |-> [l \in DOMAIN claims |-> claims[l].kind],
                 sd     |-> disclosed,
                 decoys |-> [l \in DOMAIN claims |->
                               IF l \in drawing /\ turn(l) \in DOMAIN t.decoy_counts
                               THEN t.decoy_counts[turn(l)] ELSE 0],
                 heavy  |-> [l \in DOMAIN claims |-> claims[l].kind # "scalar"]]]

DisclosuresOf(plan) == Cardinality({l \in DOMAIN plan.sd : plan.sd[l]})

(* The ready batches of a plan as the estimates of their jobs: the entries *)
(* a container discloses, then its decoys. A disclosed value still holds   *)
(* what was not disclosed inside it.                                       *)
Visible(plan, l) ==
  {m \in l..plan.last[l] : \A k \in (l + 1)..m : m <= plan.last[k] => ~ plan.sd[k]}
JobWork(claims, plan, l) == FoldSet(LAMBDA m, sum : sum + claims[m].weight, 1, Visible(plan, l))

Entries(claims, l) ==
  {m \in DOMAIN claims : /\ l < m /\ m <= LastInside(claims)[l]
                         /\ \A k \in (l + 1)..(m - 1) : LastInside(claims)[k] < m}

BatchAt(claims, plan, l) ==
  LET entries == Ascending({m \in Entries(claims, l) : plan.sd[m]})
  IN  [i \in DOMAIN entries |-> JobWork(claims, plan, entries[i])]
        \o [d \in 1..plan.decoys[l] |-> 1]

ReadyBatches(claims, plan) ==
  LET leaving == Leaving(claims)
      ready   == Ascending({i \in DOMAIN leaving : BatchAt(claims, plan, leaving[i]) # <<>>})
  IN  [k \in DOMAIN ready |-> BatchAt(claims, plan, leaving[ready[k]])]
=============================================================================
