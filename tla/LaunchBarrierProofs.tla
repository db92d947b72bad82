------------------------ MODULE LaunchBarrierProofs ------------------------
(***************************************************************************)
(* The launch barrier for any number of children and tokens and however    *)
(* often children and the machine stop. The inductive invariant adds to    *)
(* the properties what a child between create_new and its last sync may    *)
(* count on: the receipt of its coordinate is its own, as far as it got,   *)
(* and was begun for a release that answers its own token.                 *)
(*                                                                         *)
(* Then that the children of LaunchedChildren are these children, for any  *)
(* number of token files and of changes to them. What that rests on is in  *)
(* two parts: a reader that found the stamp it had bound has read a text   *)
(* that was there as a whole, and a release answers the ready frame of a   *)
(* child only if all of it does.                                           *)
(***************************************************************************)
EXTENDS LaunchedChildren, SequenceTheorems, FiniteSetTheorems, TLAPS

-----------------------------------------------------------------------------
(* The frozen schedule.                                                    *)

(* Two more elements.                                                      *)
LEMMA TwoMore ==
  ASSUME NEW S, IsFiniteSet(S), NEW x, x \notin S, NEW y, y \notin S, x # y
  PROVE  IsFiniteSet(S \cup {x, y}) /\ Cardinality(S \cup {x, y}) = Cardinality(S) + 2
<1>1. S \cup {x, y} = (S \cup {x}) \cup {y} /\ y \notin S \cup {x}
  OBVIOUS
<1>2. IsFiniteSet(S \cup {x}) /\ Cardinality(S \cup {x}) = Cardinality(S) + 1
  BY FS_AddElement
<1>3. IsFiniteSet((S \cup {x}) \cup {y}) /\ Cardinality((S \cup {x}) \cup {y}) = Cardinality(S \cup {x}) + 1
  BY <1>1, <1>2, FS_AddElement
<1>4. Cardinality(S) \in Nat
  BY FS_CardinalityType
<1>5. Cardinality((S \cup {x}) \cup {y}) = Cardinality(S) + 2
  BY <1>2, <1>3, <1>4
<1> QED BY <1>1, <1>3, <1>5, Zenon

(* A set of two.                                                           *)
LEMMA PairHasTwo ==
  ASSUME NEW x, NEW y, x # y
  PROVE  IsFiniteSet({x, y}) /\ Cardinality({x, y}) = 2
<1>1. {x, y} = {} \cup {x, y}
  OBVIOUS
<1>2. IsFiniteSet({}) /\ Cardinality({}) = 0 /\ x \notin {} /\ y \notin {}
  BY FS_EmptySet
<1>3. IsFiniteSet({x, y}) /\ Cardinality({x, y}) = Cardinality({}) + 2
  <2>1. IsFiniteSet({} \cup {x, y}) /\ Cardinality({} \cup {x, y}) = Cardinality({}) + 2
    BY <1>2, TwoMore, Zenon
  <2> QED BY <1>1, <2>1
<1> QED BY <1>2, <1>3

(* Half of the rounds start with an ABBA block.                            *)
LEMMA HalfAbba == Cardinality(AbbaFirst) = 10 /\ Cardinality(Rounds \ AbbaFirst) = 10
<1> DEFINE A2 == {0, 3}
           A4 == A2 \cup {5, 6}
           A6 == A4 \cup {8, 11}
           A8 == A6 \cup {12, 15}
<1>1. /\ 0 # 3 /\ 5 # 6 /\ 8 # 11 /\ 12 # 15 /\ 17 # 19
      /\ 5 \notin A2 /\ 6 \notin A2 /\ 8 \notin A4 /\ 11 \notin A4 /\ 12 \notin A6 /\ 15 \notin A6
      /\ 17 \notin A8 /\ 19 \notin A8
  OBVIOUS
<1>2. AbbaFirst = A8 \cup {17, 19}
  BY DEF AbbaFirst
<1>3. Rounds \cap AbbaFirst = AbbaFirst
  BY DEF Rounds, AbbaFirst, MAX_GLOBAL_ROUNDS
<1>4. IsFiniteSet(A2) /\ Cardinality(A2) = 2
  BY <1>1, PairHasTwo, Zenon
<1> HIDE DEF A2
<1>5. IsFiniteSet(A4) /\ Cardinality(A4) = Cardinality(A2) + 2
  BY <1>1, <1>4, TwoMore, Zenon
<1> HIDE DEF A4
<1>6. IsFiniteSet(A6) /\ Cardinality(A6) = Cardinality(A4) + 2
  BY <1>1, <1>5, TwoMore, Zenon
<1> HIDE DEF A6
<1>7. IsFiniteSet(A8) /\ Cardinality(A8) = Cardinality(A6) + 2
  BY <1>1, <1>6, TwoMore, Zenon
<1> HIDE DEF A8
<1>8. IsFiniteSet(AbbaFirst) /\ Cardinality(AbbaFirst) = Cardinality(A8) + 2
  BY <1>1, <1>2, <1>7, TwoMore, Zenon
<1>9. IsFiniteSet(Rounds) /\ Cardinality(Rounds) = 20
  <2>1. Rounds = 0..19 /\ 0 \in Int /\ 19 \in Int /\ ~ (0 > 19) /\ 19 - 0 + 1 = 20
    BY DEF Rounds, MAX_GLOBAL_ROUNDS
  <2> QED BY <2>1, FS_Interval, Zenon
<1>10. Cardinality(Rounds \ AbbaFirst) = Cardinality(Rounds) - Cardinality(Rounds \cap AbbaFirst)
  BY <1>9, FS_Difference, Zenon
<1> QED BY <1>3, <1>4, <1>5, <1>6, <1>7, <1>8, <1>9, <1>10

(* When two places of the schedule have the same route.                    *)
LEMMA SameRoute ==
  ASSUME NEW r, NEW p, NEW x
  PROVE  ScheduledRoute(<<r, p>>) = ScheduledRoute(x) <=>
           ((r \in AbbaFirst <=> p \in SerialInAbba) <=> (x[1] \in AbbaFirst <=> x[2] \in SerialInAbba))
<1>1. <<r, p>>[1] = r /\ <<r, p>>[2] = p
  OBVIOUS
<1> QED BY <1>1 DEF ScheduledRoute

(* The blocks are the first four positions and the last four.              *)
LEMMA Blocks ==
  ASSUME NEW x \in Coordinates
  PROVE  /\ x[2] \in 0..7
         /\ BlockOf(x) = IF x[2] \in 0..3 THEN 0..3 ELSE 4..7
<1>1. x[2] \in 0..7
  BY DEF Coordinates, Positions, MAX_EXPANSION_POSITIONS
<1>2. \A p \in 0..7 : p \div 4 = IF p \in 0..3 THEN 0 ELSE 1
  OBVIOUS
<1> QED BY <1>1, <1>2 DEF BlockOf, Positions, MAX_EXPANSION_POSITIONS

(* The schedule gives each route half of the rounds at every position.     *)
LEMMA HalfTheRounds ==
  ASSUME NEW x \in Coordinates
  PROVE  2 * Cardinality(RoundsOf(x, ScheduledRoute(x))) = MAX_GLOBAL_ROUNDS
<1>1. RoundsOf(x, ScheduledRoute(x)) = {r \in Rounds : r \in AbbaFirst <=> x[1] \in AbbaFirst}
  BY SameRoute DEF RoundsOf
<1>2. AbbaFirst \subseteq Rounds
  BY DEF Rounds, AbbaFirst, MAX_GLOBAL_ROUNDS
<1>3. RoundsOf(x, ScheduledRoute(x)) = IF x[1] \in AbbaFirst THEN AbbaFirst ELSE Rounds \ AbbaFirst
  BY <1>1, <1>2
<1> QED BY <1>3, HalfAbba DEF MAX_GLOBAL_ROUNDS

(* And in every block two slots, first and last or the two between them.   *)
LEMMA TheSlots ==
  ASSUME NEW x \in Coordinates
  PROVE  SlotsOf(x, ScheduledRoute(x)) =
           CASE x[2] \in {0, 3} -> {0, 3}
             [] x[2] \in {1, 2} -> {1, 2}
             [] x[2] \in {4, 7} -> {4, 7}
             [] x[2] \in {5, 6} -> {5, 6}
<1>1. SlotsOf(x, ScheduledRoute(x)) = {p \in BlockOf(x) : p \in SerialInAbba <=> x[2] \in SerialInAbba}
  BY SameRoute DEF SlotsOf
<1>2. x[2] \in {0, 3} \cup {1, 2} \cup {4, 7} \cup {5, 6}
  BY Blocks
<1> QED BY <1>1, <1>2, Blocks DEF SerialInAbba

(* So half of its block, and as far from its start as from its end.        *)
LEMMA HalfTheSlots ==
  ASSUME NEW x \in Coordinates
  PROVE  LET slots == SlotsOf(x, ScheduledRoute(x))
         IN  /\ 2 * Cardinality(slots) = Cardinality(BlockOf(x))
             /\ \A p \in slots : MirrorOf(p) \in slots
<1> DEFINE slots == SlotsOf(x, ScheduledRoute(x))
<1>1. PICK y \in {{0, 3}, {1, 2}, {4, 7}, {5, 6}} : slots = y
  BY TheSlots, Blocks
<1>2. Cardinality(slots) = 2
  <2>1. 0 # 3 /\ 1 # 2 /\ 4 # 7 /\ 5 # 6
    OBVIOUS
  <2>2. /\ Cardinality({0, 3}) = 2 /\ Cardinality({1, 2}) = 2
        /\ Cardinality({4, 7}) = 2 /\ Cardinality({5, 6}) = 2
    BY <2>1, PairHasTwo, Zenon
  <2> QED BY <1>1, <2>2, Zenon
<1>3. Cardinality(BlockOf(x)) = 4
  <2>1. \A b \in {0, 4} : b \in Int /\ b + 3 \in Int /\ ~ (b > b + 3) /\ (b + 3) - b + 1 = 4
    OBVIOUS
  <2>2. PICK b \in {0, 4} : BlockOf(x) = b .. b + 3
    BY Blocks
  <2> QED BY <2>1, <2>2, FS_Interval, Zenon
<1>4. \A p \in 0..7 : MirrorOf(p) = IF p \in 0..3 THEN 3 - p ELSE 11 - p
  BY DEF MirrorOf
<1> QED BY <1>1, <1>2, <1>3, <1>4

-----------------------------------------------------------------------------
(* The barrier.                                                            *)

Staged  == {"created", "written", "synced"}
Running == {"passed", "measuring", "measured", "failed", "finished"}

OneFrame == \A c \in Children : release[c] = {} \/ \E f \in Frames : release[c] = {f}

BoundRelease == \A c \in Children : pc[c] \in Staged \cup {"validated"} => release[c] = {token[c]}

OwnReceipt ==
  \A c \in Children : pc[c] \in Staged =>
    receipt[At(c)] = [stage |-> pc[c], by |-> c, token |-> token[c], release |-> {token[c]}]

RunningPassed == \A c \in Children : pc[c] \in Running => c \in passed

(* What a child has made sure of before it says it is ready.               *)
Admitted(c) == OnSchedule(c) /\ token[c] \in Tokens /\ CoordOf[token[c]] = At(c)

InSchedule ==
  \A c \in Children : pc[c] \notin {"new", "rejected", "killed"} \/ c \in passed => Admitted(c)

NewNotPassed == \A c \in passed : pc[c] # "new"

(* What NothingUnaccounted says of one coordinate.                         *)
Accounts(c, x) == At(c) = x /\ OnSchedule(c) /\ (route[x] # NoRoute => route[x].by = c)
Accounted(x)   == home[x] = "used" \/ route[x] # NoRoute => \E c \in passed : Accounts(c, x)

LEMMA AccountedEverywhere == NothingUnaccounted <=> \A x \in Coords : Accounted(x)
  BY DEF NothingUnaccounted, Accounted, Accounts

Inv == /\ TypeOK /\ OneFrame /\ BoundRelease /\ OwnReceipt /\ RunningPassed /\ InSchedule
       /\ NewNotPassed /\ ReceiptOutlivesRun /\ NothingUnaccounted

(* The receipt of a coordinate tells whose it is, and how far it got.      *)
LEMMA ReceiptNamesChild ==
  ASSUME Inv, NEW c \in Children, pc[c] \in Staged \/ c \in passed
  PROVE  /\ receipt[At(c)].by = c
         /\ receipt[At(c)].stage = IF c \in passed THEN "durable" ELSE pc[c]
         /\ c \in passed => pc[c] \notin Staged
<1>1. CASE c \in passed
  <2>1. receipt[At(c)] = [stage |-> "durable", by |-> c, token |-> token[c], release |-> {token[c]}]
    BY <1>1 DEF Inv, ReceiptOutlivesRun, ReceiptOf
  <2>2. receipt[At(c)].by = c /\ receipt[At(c)].stage = "durable"
    BY <2>1
  <2>3. ASSUME pc[c] \in Staged PROVE FALSE
    <3>1. receipt[At(c)] = [stage |-> pc[c], by |-> c, token |-> token[c], release |-> {token[c]}]
      BY <2>3 DEF Inv, OwnReceipt
    <3>2. receipt[At(c)].stage = pc[c]
      BY <3>1
    <3> QED BY <2>2, <2>3, <3>2 DEF Staged
  <2> QED BY <1>1, <2>2, <2>3
<1>2. CASE c \notin passed
  <2>1. receipt[At(c)] = [stage |-> pc[c], by |-> c, token |-> token[c], release |-> {token[c]}]
    BY <1>2 DEF Inv, OwnReceipt
  <2> QED BY <2>1, <1>2
<1> QED BY <1>1, <1>2

(* No two children hold, or have left behind, the receipt of a coordinate. *)
LEMMA OneReceipt ==
  ASSUME Inv, NEW c \in Children, NEW d \in Children, At(c) = At(d),
         pc[c] \in Staged \/ c \in passed, pc[d] \in Staged \/ d \in passed
  PROVE  c = d
  BY ReceiptNamesChild

(* However often a launch is repeated, a coordinate is measured once.      *)
LEMMA InvRunsOnce == Inv => RunsOnce
  BY OneReceipt DEF RunsOnce, Inv, TypeOK

LEMMA AtCoords == ASSUME TypeOK, NEW c \in Children PROVE At(c) \in Coords
  BY DEF TypeOK, At

(* Before anything is launched there is nothing to find.                   *)
LEMMA InitInv == Init => Inv
<1> SUFFICES ASSUME Init PROVE Inv
  OBVIOUS
<1>1. TypeOK
  <2>1. NoReceipt \in Receipts /\ NoRoute \in RouteFiles
    BY DEF Receipts, RouteFiles
  <2> QED BY <2>1 DEF Init, TypeOK, Labels
<1>2. OneFrame /\ BoundRelease /\ OwnReceipt /\ RunningPassed /\ InSchedule /\ NewNotPassed
  BY DEF Init, OneFrame, BoundRelease, OwnReceipt, RunningPassed, InSchedule, NewNotPassed, Staged, Running
<1>3. ReceiptOutlivesRun /\ NothingUnaccounted
  BY DEF Init, ReceiptOutlivesRun, NothingUnaccounted
<1> QED BY <1>1, <1>2, <1>3 DEF Inv

(* A step that leaves files and passed children alone, and brings no child *)
(* to where it would have to account for them.                             *)
LEMMA QuietStep ==
  ASSUME Inv, NEW c \in Children, NEW l \in Labels \ (Staged \cup (Running \ {"failed"})),
         Goto(c, l), UNCHANGED <<given, files, passed, release>>, ready' \subseteq Tokens,
         l = "failed" => c \in passed,
         l = "validated" => release[c] = {token[c]},
         l # "new", l \in {"rejected", "killed"} \/ Admitted(c)
  PROVE  Inv'
<1> USE DEF given, files, Goto, At, OnSchedule, Admitted
<1>1. pc' = [pc EXCEPT ![c] = l] /\ pc \in [Children -> Labels] /\ pc' \in [Children -> Labels]
  BY DEF Inv, TypeOK
<1>2. TypeOK'
  BY <1>1 DEF Inv, TypeOK, Coords
<1>3. OneFrame' /\ BoundRelease' /\ RunningPassed' /\ InSchedule' /\ NewNotPassed'
  BY <1>1 DEF Inv, OneFrame, BoundRelease, RunningPassed, InSchedule, NewNotPassed, Staged, Running
<1>4. OwnReceipt'
  BY <1>1 DEF Inv, OwnReceipt, Staged
<1>5. ReceiptOutlivesRun' /\ NothingUnaccounted'
  BY DEF Inv, ReceiptOutlivesRun, NothingUnaccounted, ReceiptOf, Coords
<1> QED BY <1>2, <1>3, <1>4, <1>5 DEF Inv

(* A child that is started reads a token of its coordinate, or gives up.   *)
LEMMA PrepareStep ==
  ASSUME Inv, NEW c \in Children, Prepare(c)
  PROVE  Inv'
<1> USE DEF given, files, Goto, At, OnSchedule, Admitted
<1>1. CASE UNCHANGED token /\ Goto(c, "rejected")
  <2>1. UNCHANGED <<given, files, passed, release, ready>>
    BY <1>1 DEF Prepare
  <2>2. "rejected" \in Labels \ (Staged \cup (Running \ {"failed"})) /\ ready \subseteq Tokens
    BY DEF Labels, Staged, Running, Ended, Inv, TypeOK
  <2> QED BY <1>1, <2>1, <2>2, QuietStep
<1>2. CASE ~(UNCHANGED token /\ Goto(c, "rejected"))
  <2>1. PICK t \in Tokens : CoordOf[t] = at[c] /\ token' = [token EXCEPT ![c] = t]
    BY <1>2 DEF Prepare
  <2>2. /\ pc[c] = "new" /\ pc' = [pc EXCEPT ![c] = "prepared"] /\ OnSchedule(c)
        /\ UNCHANGED <<at, selected, ready, release, files, passed, crashes>>
    BY <1>2 DEF Prepare
  <2>3. /\ pc \in [Children -> Labels] /\ "prepared" \in Labels /\ c \notin passed
        /\ token \in [Children -> Tokens \cup {NoToken}]
    BY <2>2 DEF Inv, TypeOK, NewNotPassed, Labels
  <2>4. TypeOK'
    BY <2>1, <2>2, <2>3 DEF Inv, TypeOK, Coords
  <2>5. OneFrame' /\ RunningPassed' /\ NewNotPassed'
    BY <2>2, <2>3 DEF Inv, OneFrame, RunningPassed, NewNotPassed, Running
  <2>6. BoundRelease' /\ OwnReceipt'
    BY <2>1, <2>2, <2>3 DEF Inv, BoundRelease, OwnReceipt, Staged
  <2>7. InSchedule'
    BY <2>1, <2>2, <2>3 DEF Inv, InSchedule
  <2>8. ReceiptOutlivesRun'
    BY <2>1, <2>2, <2>3 DEF Inv, TypeOK, ReceiptOutlivesRun, ReceiptOf
  <2>9. NothingUnaccounted'
    BY <2>2 DEF Inv, NothingUnaccounted, Coords
  <2> QED BY <2>4, <2>5, <2>6, <2>7, <2>8, <2>9 DEF Inv
<1> QED BY <1>1, <1>2

(* Up to the receipt a child only looks and is looked at.                  *)
LEMMA AskingStep ==
  ASSUME Inv, NEW c \in Children, WriteReady(c) \/ ReadRelease(c) \/ Kill(c)
  PROVE  Inv'
<1>2. CASE WriteReady(c)
  <2>1. PICK l \in {"waiting", "rejected"} : Goto(c, l)
    BY <1>2 DEF WriteReady
  <2>2. UNCHANGED <<given, files, passed, release>>
    BY <1>2 DEF WriteReady
  <2>3. l \in Labels \ (Staged \cup (Running \ {"failed"})) /\ Admitted(c)
    BY <1>2 DEF Labels, Staged, Running, Ended, Inv, InSchedule, WriteReady
  <2>4. ready' \subseteq Tokens
    BY <1>2, <2>3 DEF WriteReady, Inv, TypeOK, Admitted
  <2> QED BY <2>1, <2>2, <2>3, <2>4, QuietStep
<1>3. CASE ReadRelease(c)
  <2>1. PICK frame \in release[c] :
          Goto(c, IF Validates(c, frame) /\ Untouched(At(c)) THEN "validated" ELSE "rejected")
    BY <1>3 DEF ReadRelease
  <2>2. PICK l \in {"validated", "rejected"} : Goto(c, l) /\ (l = "validated" => frame = token[c])
    BY <2>1 DEF Validates
  <2>3. UNCHANGED <<given, files, passed, release, ready>>
    BY <1>3 DEF ReadRelease
  <2>4. l \in Labels \ (Staged \cup (Running \ {"failed"})) /\ Admitted(c) /\ ready \subseteq Tokens
    BY <1>3 DEF Labels, Staged, Running, Ended, Inv, InSchedule, TypeOK, ReadRelease
  <2>5. release[c] = {frame}
    BY <2>1 DEF Inv, OneFrame
  <2> QED BY <2>2, <2>3, <2>4, <2>5, QuietStep
<1>4. CASE Kill(c)
  <2>1. Goto(c, "killed") /\ UNCHANGED <<given, files, passed, release, ready>>
    BY <1>4 DEF Kill
  <2>2. "killed" \in Labels \ (Staged \cup (Running \ {"failed"})) /\ ready \subseteq Tokens
    BY DEF Labels, Staged, Running, Ended, Inv, TypeOK
  <2> QED BY <2>1, <2>2, QuietStep
<1> QED BY <1>2, <1>3, <1>4

(* A child takes the receipt of its coordinate from one stage to the next. *)
LEMMA ReceiptStep ==
  ASSUME Inv, NEW c \in Children, NEW stage \in Staged, Stage(c, stage), Goto(c, stage),
         release[c] = {token[c]}, Admitted(c),
         pc[c] \in Staged \/ receipt[At(c)] = NoReceipt,
         UNCHANGED <<given, ready, release, home, route, passed, crashes>>
  PROVE  Inv'
<1> USE DEF given, At, OnSchedule, Admitted
<1>1. pc' = [pc EXCEPT ![c] = stage] /\ stage \in Labels /\ pc \in [Children -> Labels]
  BY DEF Inv, TypeOK, Goto, Staged, Labels
<1>2. /\ receipt' = [receipt EXCEPT ![At(c)] =
                      [stage |-> stage, by |-> c, token |-> token[c], release |-> {token[c]}]]
      /\ receipt \in [Coords -> Receipts] /\ At(c) \in Coords
  BY AtCoords DEF Inv, TypeOK, Stage
<1>3. [stage |-> stage, by |-> c, token |-> token[c], release |-> {token[c]}] \in Receipts
  BY DEF Receipts, Staged, Inv, TypeOK, Frames
<1>4. receipt' \in [Coords -> Receipts]
  BY <1>2, <1>3
<1>5. TypeOK'
  BY <1>1, <1>4 DEF Inv, TypeOK, Coords
<1>6. OneFrame' /\ BoundRelease' /\ RunningPassed' /\ InSchedule' /\ NewNotPassed'
  BY <1>1 DEF Inv, OneFrame, BoundRelease, RunningPassed, InSchedule, NewNotPassed, Staged, Running
<1>7. \A d \in Children : d # c /\ (pc[d] \in Staged \/ d \in passed) => At(d) # At(c)
  <2> SUFFICES ASSUME NEW d \in Children, d # c, pc[d] \in Staged \/ d \in passed, At(d) = At(c)
               PROVE  FALSE
    OBVIOUS
  <2>1. receipt[At(d)].stage # "none"
    BY ReceiptNamesChild DEF Staged
  <2>2. pc[c] \in Staged
    BY <2>1 DEF NoReceipt
  <2> QED BY <2>2, OneReceipt
<1>8. c \notin passed
  BY ReceiptNamesChild DEF NoReceipt
<1>9. OwnReceipt'
  <2> SUFFICES ASSUME NEW d \in Children, pc'[d] \in Staged
               PROVE  receipt'[At(d)] = [stage |-> pc'[d], by |-> d, token |-> token[d],
                                         release |-> {token[d]}]
    BY DEF OwnReceipt
  <2>1. CASE d = c
    BY <2>1, <1>1, <1>2
  <2>2. CASE d # c
    <3>1. pc'[d] = pc[d] /\ At(d) # At(c)
      BY <2>2, <1>1, <1>7
    <3>2. receipt'[At(d)] = receipt[At(d)]
      BY <3>1, <1>2, AtCoords DEF Inv
    <3> QED BY <3>1, <3>2 DEF Inv, OwnReceipt
  <2> QED BY <2>1, <2>2
<1>10. ReceiptOutlivesRun'
  <2> SUFFICES ASSUME NEW d \in passed
               PROVE  receipt'[At(d)] = ReceiptOf(d)' /\ CoordOf[token[d]] = At(d)
    BY DEF ReceiptOutlivesRun
  <2>1. d \in Children /\ At(d) # At(c)
    BY <1>7, <1>8 DEF Inv, TypeOK
  <2>2. receipt'[At(d)] = receipt[At(d)]
    BY <2>1, <1>2, AtCoords DEF Inv
  <2> QED BY <2>2 DEF Inv, ReceiptOutlivesRun, ReceiptOf
<1>11. NothingUnaccounted'
  BY DEF Inv, NothingUnaccounted, Coords
<1> QED BY <1>5, <1>6, <1>9, <1>10, <1>11 DEF Inv

(* A child that gives up on a receipt leaves it as it is.                  *)
LEMMA GivesUp ==
  ASSUME Inv, NEW c \in Children, Goto(c, "rejected"),
         UNCHANGED <<given, ready, release, files, passed, crashes>>
  PROVE  Inv'
<1>1. "rejected" \in Labels \ (Staged \cup (Running \ {"failed"})) /\ ready \subseteq Tokens
  BY DEF Labels, Staged, Running, Ended, Inv, TypeOK
<1> QED BY <1>1, QuietStep

(* The receipt, from create_new to the sync of its bytes.                  *)
LEMMA DurableStep ==
  ASSUME Inv, NEW c \in Children, CreateReceipt(c) \/ WriteReceipt(c) \/ SyncReceipt(c)
  PROVE  Inv'
<1>1. release[c] = {token[c]} /\ Admitted(c)
  BY DEF Inv, BoundRelease, InSchedule, Staged, CreateReceipt, WriteReceipt, SyncReceipt
<1>2. UNCHANGED <<given, ready, release, home, route, passed, crashes>>
  BY DEF CreateReceipt, WriteReceipt, SyncReceipt
<1>3. CASE UNCHANGED receipt /\ Goto(c, "rejected")
  BY <1>2, <1>3, GivesUp DEF files
<1>4. CASE CreateReceipt(c) /\ ~(UNCHANGED receipt /\ Goto(c, "rejected"))
  <2>1. receipt[At(c)] = NoReceipt /\ Stage(c, "created") /\ Goto(c, "created") /\ "created" \in Staged
    BY <1>4 DEF CreateReceipt, Staged
  <2> QED BY <2>1, <1>1, <1>2, ReceiptStep
<1>5. CASE WriteReceipt(c) /\ ~(UNCHANGED receipt /\ Goto(c, "rejected"))
  <2>1. pc[c] \in Staged /\ Stage(c, "written") /\ Goto(c, "written") /\ "written" \in Staged
    BY <1>5 DEF WriteReceipt, Staged
  <2> QED BY <2>1, <1>1, <1>2, ReceiptStep
<1>6. CASE SyncReceipt(c) /\ ~(UNCHANGED receipt /\ Goto(c, "rejected"))
  <2>1. pc[c] \in Staged /\ Stage(c, "synced") /\ Goto(c, "synced") /\ "synced" \in Staged
    BY <1>6 DEF SyncReceipt, Staged
  <2> QED BY <2>1, <1>1, <1>2, ReceiptStep
<1> QED BY <1>3, <1>4, <1>5, <1>6

(* With the parent directory synced, the receipt accounts for its child.   *)
LEMMA PassStep ==
  ASSUME Inv, NEW c \in Children, SyncParent(c)
  PROVE  Inv'
<1> USE DEF given, At, OnSchedule, Admitted
<1>1. /\ pc[c] = "synced" /\ pc[c] \in Staged /\ release[c] = {token[c]} /\ Admitted(c)
      /\ UNCHANGED <<given, ready, release, home, route, crashes>>
  BY DEF SyncParent, Staged, Inv, BoundRelease, InSchedule
<1>2. CASE UNCHANGED receipt /\ Goto(c, "rejected") /\ UNCHANGED passed
  BY <1>1, <1>2, GivesUp DEF files
<1>3. CASE Stage(c, "durable") /\ Goto(c, "passed") /\ passed' = passed \cup {c}
  <2>1. pc' = [pc EXCEPT ![c] = "passed"] /\ "passed" \in Labels /\ pc \in [Children -> Labels]
    BY <1>3 DEF Inv, TypeOK, Goto, Labels
  <2>2. /\ receipt' = [receipt EXCEPT ![At(c)] =
                        [stage |-> "durable", by |-> c, token |-> token[c], release |-> {token[c]}]]
        /\ receipt \in [Coords -> Receipts] /\ At(c) \in Coords
    BY <1>1, <1>3, AtCoords DEF Inv, TypeOK, Stage
  <2>3. [stage |-> "durable", by |-> c, token |-> token[c], release |-> {token[c]}] \in Receipts
    <3>1. token[c] \in Tokens
      BY <1>1
    <3> QED BY <3>1 DEF Receipts, Frames
  <2>4. receipt' \in [Coords -> Receipts]
    BY <2>2, <2>3
  <2>5. TypeOK'
    BY <1>1, <1>3, <2>1, <2>4 DEF Inv, TypeOK, Coords
  <2>6. OneFrame' /\ BoundRelease' /\ RunningPassed' /\ InSchedule' /\ NewNotPassed'
    BY <1>1, <1>3, <2>1 DEF Inv, OneFrame, BoundRelease, RunningPassed, InSchedule, NewNotPassed, Staged, Running
  <2>7. \A d \in Children : d # c /\ (pc[d] \in Staged \/ d \in passed) => At(d) # At(c)
    BY <1>1, OneReceipt
  <2>8. ASSUME NEW d \in Children, d # c, pc[d] \in Staged \/ d \in passed
        PROVE  receipt'[At(d)] = receipt[At(d)]
    BY <2>2, <2>7, <2>8, AtCoords DEF Inv
  <2>9. OwnReceipt'
    BY <1>1, <2>1, <2>8 DEF Inv, OwnReceipt, Staged
  <2>10. ReceiptOutlivesRun'
    <3>1. receipt'[At(c)] = ReceiptOf(c)'
      BY <1>1, <2>2 DEF ReceiptOf
    <3>2. ASSUME NEW d \in passed, d # c
          PROVE  receipt'[At(d)] = ReceiptOf(d)' /\ CoordOf[token[d]] = At(d)
      <4>1. d \in Children /\ receipt[At(d)] = ReceiptOf(d) /\ CoordOf[token[d]] = At(d)
        BY DEF Inv, TypeOK, ReceiptOutlivesRun
      <4> QED BY <1>1, <2>8, <3>2, <4>1 DEF ReceiptOf
    <3> QED BY <1>1, <1>3, <3>1, <3>2 DEF ReceiptOutlivesRun
  <2>11. NothingUnaccounted'
    BY <1>1, <1>3 DEF Inv, NothingUnaccounted, Coords
  <2> QED BY <2>5, <2>6, <2>9, <2>10, <2>11 DEF Inv
<1> QED BY <1>2, <1>3 DEF SyncParent

(* A measurement only leaves something where its child has passed.         *)
LEMMA RunStep ==
  ASSUME Inv, NEW c \in Children, ReserveRoute(c) \/ Measure(c) \/ Finish(c)
  PROVE  Inv'
<1> USE DEF given, At, OnSchedule, Admitted
<1>1. /\ pc[c] \in Running /\ c \in passed /\ OnSchedule(c) /\ At(c) \in Coords
      /\ UNCHANGED <<given, ready, release, receipt, passed, crashes>>
  BY AtCoords DEF ReserveRoute, Measure, Finish, Running, Inv, RunningPassed, InSchedule
<1>2. PICK l \in Running : pc' = [pc EXCEPT ![c] = l]
  BY DEF ReserveRoute, Measure, Finish, Running, Goto
<1>3. l \in Labels /\ l \notin Staged /\ l # "validated" /\ pc \in [Children -> Labels]
  BY DEF Running, Staged, Labels, Ended, Inv, TypeOK
<1>4. \/ UNCHANGED route
      \/ \E f \in RouteFiles : f.by = c /\ route' = [route EXCEPT ![At(c)] = f]
  <2>1. \A st \in {"reserved", "complete"} :
          \E f \in RouteFiles : f.by = c /\ f = [stage |-> st, by |-> c]
    BY DEF RouteFiles
  <2> QED BY <2>1 DEF ReserveRoute, Measure, Finish
<1>4a. UNCHANGED home \/ home' = [home EXCEPT ![At(c)] = "used"]
  BY DEF ReserveRoute, Measure, Finish
<1>4b. /\ route' \in [Coords -> RouteFiles] /\ home' \in [Coords -> {"empty", "used"}]
       /\ \A x \in Coords : x # At(c) => route'[x] = route[x] /\ home'[x] = home[x]
       /\ UNCHANGED route \/ route'[At(c)].by = c
  BY <1>1, <1>4, <1>4a DEF Inv, TypeOK
<1>5. TypeOK'
  BY <1>1, <1>2, <1>3, <1>4b DEF Inv, TypeOK, Coords
<1>6. OneFrame' /\ BoundRelease' /\ RunningPassed' /\ InSchedule' /\ NewNotPassed' /\ OwnReceipt'
  BY <1>1, <1>2, <1>3
     DEF Inv, OneFrame, BoundRelease, RunningPassed, InSchedule, NewNotPassed, OwnReceipt, Staged, Running
<1>7. ReceiptOutlivesRun'
  BY <1>1 DEF Inv, ReceiptOutlivesRun, ReceiptOf
<1>8. ASSUME NEW x \in Coords PROVE Accounted(x)'
  <2>1. \A d \in passed : Accounts(d, x) => At(d)' = x /\ OnSchedule(d)'
    BY <1>1 DEF Accounts
  <2>2. Accounted(x)
    BY AccountedEverywhere DEF Inv
  <2>3. CASE x # At(c)
    BY <1>1, <2>1, <2>2, <2>3, <1>4b DEF Accounted, Accounts
  <2>4. CASE x = At(c) /\ ~UNCHANGED route
    BY <1>1, <2>4, <1>4b DEF Accounted, Accounts
  <2>5. CASE x = At(c) /\ UNCHANGED route /\ route[x] = NoRoute
    BY <1>1, <2>5 DEF Accounted, Accounts
  <2>6. CASE x = At(c) /\ UNCHANGED route /\ route[x] # NoRoute
    BY <1>1, <2>1, <2>2, <2>6 DEF Accounted, Accounts
  <2> QED BY <2>3, <2>4, <2>5, <2>6
<1>9. NothingUnaccounted'
  BY <1>8 DEF NothingUnaccounted, Accounted, Accounts, Coords
<1> QED BY <1>5, <1>6, <1>7, <1>9 DEF Inv

(* A release reaches a child that has none.                                *)
LEMMA ReleaseStep ==
  ASSUME Inv, NEW c \in Children, Release(c)
  PROVE  Inv'
<1> USE DEF given, files, At, OnSchedule, Admitted
<1>1. PICK frame \in ready \cup {Mangled} : release' = [release EXCEPT ![c] = {frame}]
  BY DEF Release
<1>2. /\ release[c] = {} /\ frame \in Frames /\ release \in [Children -> SUBSET Frames]
      /\ UNCHANGED <<pc, given, ready, files, passed, crashes>>
  BY DEF Release, Inv, TypeOK, Frames
<1>3. TypeOK' /\ OneFrame'
  BY <1>1, <1>2 DEF Inv, TypeOK, OneFrame, Coords
<1>4. BoundRelease'
  BY <1>1, <1>2 DEF Inv, BoundRelease
<1>5. RunningPassed' /\ InSchedule' /\ NewNotPassed' /\ OwnReceipt' /\ ReceiptOutlivesRun' /\ NothingUnaccounted'
  BY <1>2 DEF Inv, RunningPassed, InSchedule, NewNotPassed, OwnReceipt, ReceiptOutlivesRun, ReceiptOf,
              NothingUnaccounted, Coords
<1> QED BY <1>3, <1>4, <1>5 DEF Inv

(* What is found after the machine stopped was there before it stopped,    *)
(* and of a durable receipt nothing is lost.                               *)
LEMMA CrashStep ==
  ASSUME Inv, MachineStops
  PROVE  Inv'
<1> USE DEF given, At, OnSchedule, Admitted
<1>1. /\ UNCHANGED <<given, ready, release, passed>> /\ crashes' = crashes + 1
      /\ pc' = [c \in Children |-> IF pc[c] \in Ended \cup {"new"} THEN pc[c] ELSE "killed"]
  BY DEF MachineStops
<1>2. /\ receipt' \in [Coords -> Receipts]
      /\ \A x \in Coords : receipt[x].stage = "durable" => receipt'[x] = receipt[x]
  <2>1. receipt' \in Found([x \in Coords |-> ReceiptRemains(receipt[x])])
    BY DEF MachineStops
  <2>2. \A x \in Coords : receipt'[x] \in ReceiptRemains(receipt[x])
    BY <2>1 DEF Found
  <2>3. receipt' = [x \in Coords |-> receipt'[x]]
    BY <2>1 DEF Found
  <2>4. ASSUME NEW f \in Receipts PROVE ReceiptRemains(f) \subseteq Receipts
    <3>1. NoReceipt \in Receipts
      BY DEF Receipts
    <3>2. f.stage = "written" => [f EXCEPT !.stage = "created"] \in Receipts
      BY DEF Receipts, NoReceipt
    <3> QED BY <3>1, <3>2 DEF ReceiptRemains
  <2>5. \A x \in Coords : receipt[x] \in Receipts
    BY DEF Inv, TypeOK
  <2> QED BY <2>2, <2>3, <2>4, <2>5 DEF ReceiptRemains
<1>3. /\ route' \in [Coords -> RouteFiles]
      /\ \A x \in Coords : route'[x] \in {NoRoute, route[x]}
  <2>1. route' \in Found([x \in Coords |-> RouteRemains(route[x])])
    BY DEF MachineStops
  <2>2. \A x \in Coords : route'[x] \in {NoRoute, route[x]}
    BY <2>1 DEF Found, RouteRemains
  <2>3. route' = [x \in Coords |-> route'[x]]
    BY <2>1 DEF Found
  <2> QED BY <2>2, <2>3 DEF Inv, TypeOK, RouteFiles
<1>4. /\ home' \in [Coords -> {"empty", "used"}]
      /\ \A x \in Coords : home'[x] \in {"empty", home[x]}
  <2>1. home' \in Found([x \in Coords |-> HomeRemains(home[x])])
    BY DEF MachineStops
  <2>2. \A x \in Coords : home'[x] \in {"empty", home[x]}
    BY <2>1 DEF Found, HomeRemains
  <2>3. home' = [x \in Coords |-> home'[x]]
    BY <2>1 DEF Found
  <2> QED BY <2>2, <2>3 DEF Inv, TypeOK
<1>5. TypeOK'
  BY <1>1, <1>2, <1>3, <1>4 DEF Inv, TypeOK, Coords, Labels, Ended
<1>6. OneFrame' /\ BoundRelease' /\ OwnReceipt'
  BY <1>1 DEF Inv, OneFrame, BoundRelease, OwnReceipt, Staged, Ended
<1>7. RunningPassed' /\ InSchedule' /\ NewNotPassed'
  <2>1. NewNotPassed'
    BY <1>1 DEF Inv, TypeOK, NewNotPassed
  <2> QED BY <1>1, <2>1 DEF Inv, RunningPassed, InSchedule, Running, Ended
<1>8. ReceiptOutlivesRun'
  <2> SUFFICES ASSUME NEW c \in passed
               PROVE  receipt'[At(c)] = ReceiptOf(c) /\ CoordOf[token[c]] = At(c)
    BY <1>1 DEF ReceiptOutlivesRun, ReceiptOf
  <2>1. c \in Children /\ At(c) \in Coords /\ receipt[At(c)].stage = "durable"
    BY AtCoords, ReceiptNamesChild DEF Inv, TypeOK
  <2> QED BY <2>1, <1>2 DEF Inv, ReceiptOutlivesRun
<1>9. ASSUME NEW x \in Coords PROVE Accounted(x)'
  <2>1. Accounted(x)
    BY AccountedEverywhere DEF Inv
  <2> QED BY <1>1, <1>3, <1>4, <2>1 DEF Accounted, Accounts
<1>10. NothingUnaccounted'
  BY <1>9 DEF NothingUnaccounted, Accounted, Accounts, Coords
<1> QED BY <1>5, <1>6, <1>7, <1>8, <1>10 DEF Inv

(* The invariant is inductive.                                             *)
LEMMA NextInv == Inv /\ [Next]_vars => Inv'
<1> SUFFICES ASSUME Inv, [Next]_vars PROVE Inv'
  OBVIOUS
<1>1. ASSUME NEW c \in Children, ChildStep(c) \/ Release(c) \/ Kill(c) PROVE Inv'
  BY <1>1, PrepareStep, AskingStep, DurableStep, PassStep, RunStep, ReleaseStep DEF ChildStep
<1>2. CASE MachineStops
  BY <1>2, CrashStep
<1>3. CASE UNCHANGED vars
  BY <1>3 DEF vars, given, files, Inv, TypeOK, OneFrame, BoundRelease, OwnReceipt, RunningPassed,
              InSchedule, NewNotPassed, Admitted, ReceiptOutlivesRun, NothingUnaccounted, ReceiptOf,
              At, OnSchedule, Coords
<1> QED BY <1>1, <1>2, <1>3 DEF Next

LEMMA InvAlways == Spec => []Inv
  BY InitInv, NextInv, PTL DEF Spec

(* The state of the barrier and its files is always of its type.           *)
THEOREM BarrierTyped == Spec => []TypeOK
  BY InvAlways, PTL DEF Inv

(* However often a launch is repeated, and wherever children or the        *)
(* machine stop, a coordinate is measured by one child at most.            *)
THEOREM CoordinatesRunOnce == Spec => []RunsOnce
  BY InvAlways, InvRunsOnce, PTL

(* The receipt of a child that passed is complete ever after.              *)
THEOREM ReceiptsOutliveRuns == Spec => []ReceiptOutlivesRun
  BY InvAlways, PTL DEF Inv

(* Evidence is never found without the child, and so the receipt, that     *)
(* accounts for it.                                                        *)
THEOREM EvidenceAccounted == Spec => []NothingUnaccounted
  BY InvAlways, PTL DEF Inv

(* What passed was on schedule, so it has its share of the rounds and      *)
(* slots.                                                                  *)
LEMMA InvCounterbalanced == Inv => Counterbalanced
<1> SUFFICES ASSUME Inv, NEW c \in passed
             PROVE  LET slots == SlotsOf(At(c), selected[c])
                        block == BlockOf(At(c))
                    IN  /\ 2 * Cardinality(RoundsOf(At(c), selected[c])) = MAX_GLOBAL_ROUNDS
                        /\ 2 * Cardinality(slots) = Cardinality(block)
                        /\ \A p \in slots : MirrorOf(p) \in slots
  BY DEF Counterbalanced
<1>1. c \in Children
  BY DEF Inv, TypeOK
<1>2. selected[c] = ScheduledRoute(At(c))
  BY <1>1 DEF Inv, InSchedule, Admitted, OnSchedule
<1>3. At(c) \in Coordinates
  BY <1>1, AtCoords, LaunchAssumption DEF Inv, Coords
<1> QED BY <1>2, <1>3, HalfTheRounds, HalfTheSlots

(* The campaign favours no route: whatever was measured, half of all       *)
(* rounds measure the same at its position, and half of its block, as far  *)
(* from the start of the block as from its end.                            *)
THEOREM RoutesCounterbalanced == Spec => []Counterbalanced
  BY InvAlways, InvCounterbalanced, PTL

-----------------------------------------------------------------------------
(* What a release may be.                                                  *)

ReadyOf(t)  == ReadyFrame(TextOf(t), "fixed-benchmark")
ReadyFrames == {ReadyOf(t) : t \in Tokens}

(* A ready frame tells its token.                                          *)
LEMMA ReadyTells ==
  ASSUME NEW t, NEW u
  PROVE  /\ ReadyOf(t).launch_token = TextOf(t) /\ ReadyOf(t).identity = Identity(TextOf(t))
         /\ TextOf(t) = TextOf(u) => t = u
         /\ ReadyOf(t) = ReadyOf(u) => t = u
<1>1. ReadyOf(t).launch_token = TextOf(t) /\ ReadyOf(t).identity = Identity(TextOf(t))
  BY DEF ReadyOf, ReadyFrame
<1>2. ReadyOf(u).launch_token = TextOf(u)
  BY DEF ReadyOf, ReadyFrame
<1>3. TextOf(t) = TextOf(u) => t = u
  BY DEF TextOf
<1> QED BY <1>1, <1>2, <1>3

(* A release that answers a child as a whole is that of its ready frame.   *)
LEMMA AnswersAsAWhole ==
  ASSUME NEW fs, fs \subseteq ReadyFrames, NEW r \in Releases(fs), NEW t \in Tokens,
         \/ r # NotAFrame /\ Answers(r, TextOf(t), ReadyOf(t))
         \/ r = ReleaseFrame(ReadyOf(t))
  PROVE  r = ReleaseFrame(ReadyOf(t)) /\ ReadyOf(t) \in fs
<1> DEFINE Valid(x) == ValidRecord(x.start_record) /\ ValidInstant(x.prepared_at)
<1>1. \A f : /\ ReleaseFrame(f).identity = f.identity /\ ReleaseFrame(f).launch_token = f.launch_token
             /\ ReleaseFrame(f).ready_frame = f
             /\ ReleaseFrame(f).start_record = 1
             /\ ReleaseFrame(f).prepared_at = <<2024, 2, 29, 23, 59, 59>>
  BY DEF ReleaseFrame
<1>2. r # NotAFrame
  <2>1. "identity" \in DOMAIN ReleaseFrame(ReadyOf(t)) /\ "identity" \notin DOMAIN NotAFrame
    BY DEF ReleaseFrame, NotAFrame
  <2> QED BY <2>1
<1>3. /\ r.identity = Identity(TextOf(t)) /\ r.launch_token = TextOf(t) /\ r.ready_frame = ReadyOf(t)
      /\ r.start_record # 0 /\ r.prepared_at # <<2023, 2, 29, 0, 0, 0>>
  <2>1. CASE r = ReleaseFrame(ReadyOf(t))
    <3>1. 1 # 0 /\ <<2024, 2, 29, 23, 59, 59>> # <<2023, 2, 29, 0, 0, 0>>
      OBVIOUS
    <3> QED BY <2>1, <3>1, <1>1, ReadyTells
  <2>2. CASE Answers(r, TextOf(t), ReadyOf(t))
    <3>1. ~ ValidRecord(0)
      BY DEF ValidRecord
    <3>2. ~ ValidInstant(<<2023, 2, 29, 0, 0, 0>>)
      BY DEF ValidInstant, MonthDays, IsLeapYear
    <3> QED BY <2>2, <3>1, <3>2 DEF Answers
  <2> QED BY <1>2, <2>1, <2>2
<1>5. \A f : /\ [ReleaseFrame(f) EXCEPT !.ready_frame = f] = ReleaseFrame(f)
             /\ [ReleaseFrame(f) EXCEPT !.launch_token = f.launch_token] = ReleaseFrame(f)
             /\ [ReleaseFrame(f) EXCEPT !.identity = f.identity] = ReleaseFrame(f)
  BY DEF ReleaseFrame
<1>6. ASSUME NEW f \in fs, r \in AnswersTo(f)
      PROVE  r = ReleaseFrame(ReadyOf(t)) /\ ReadyOf(t) \in fs
  <2>1. r = ReleaseFrame(f)
    BY <1>3, <1>6 DEF ReleaseFrame, AnswersTo
  <2> QED BY <2>1, <1>1, <1>3
<1>7. ASSUME NEW f \in fs, NEW g \in fs, r \in PutTogether(f, g)
      PROVE  r = ReleaseFrame(ReadyOf(t)) /\ ReadyOf(t) \in fs
  <2>1. CASE r = [ReleaseFrame(f) EXCEPT !.ready_frame = g]
    <3>1. g = ReadyOf(t) /\ f.launch_token = TextOf(t)
      BY <2>1, <1>3 DEF ReleaseFrame
    <3>2. PICK u \in Tokens : f = ReadyOf(u)
      BY DEF ReadyFrames
    <3>3. f = ReadyOf(t)
      BY <3>1, <3>2, ReadyTells
    <3> QED BY <2>1, <3>1, <3>3, <1>5, Zenon
  <2>2. CASE r = [ReleaseFrame(f) EXCEPT !.launch_token = g.launch_token]
    <3>1. f = ReadyOf(t) /\ g.launch_token = f.launch_token
      BY <2>2, <1>3, ReadyTells DEF ReleaseFrame
    <3> QED BY <2>2, <3>1, <1>5, Zenon
  <2>3. CASE r = [ReleaseFrame(f) EXCEPT !.identity = g.identity]
    <3>1. f = ReadyOf(t) /\ g.identity = f.identity
      BY <2>3, <1>3, ReadyTells DEF ReleaseFrame
    <3> QED BY <2>3, <3>1, <1>5, Zenon
  <2> QED BY <1>7, <2>1, <2>2, <2>3 DEF PutTogether
<1>8. (\E f \in fs : r \in AnswersTo(f)) \/ (\E f, g \in fs : r \in PutTogether(f, g))
  BY <1>2 DEF Releases
<1> QED BY <1>6, <1>7, <1>8

(* So what a release means is the token of the child it answers.           *)
LEMMA MeaningOfRelease ==
  ASSUME NEW fs, fs \subseteq ReadyFrames, NEW r \in Releases(fs)
  PROVE  /\ Meaning(r) \in Announced(fs) \cup {Mangled}
         /\ \A t \in Tokens : r # NotAFrame /\ Answers(r, TextOf(t), ReadyOf(t)) <=> Meaning(r) = t
<1>1. \A t \in Tokens : LET f == ReleaseFrame(ReadyOf(t))
                        IN  TokenIn(f.launch_token) = t /\ f # NotAFrame /\ Answers(f, TextOf(t), ReadyOf(t))
  <2> SUFFICES ASSUME NEW t \in Tokens
               PROVE  LET f == ReleaseFrame(ReadyOf(t))
                      IN  TokenIn(f.launch_token) = t /\ f # NotAFrame /\ Answers(f, TextOf(t), ReadyOf(t))
    OBVIOUS
  <2> DEFINE f == ReleaseFrame(ReadyOf(t))
  <2>1. /\ f.identity = Identity(TextOf(t)) /\ f.launch_token = TextOf(t) /\ f.ready_frame = ReadyOf(t)
        /\ f.start_record = 1 /\ f.prepared_at = <<2024, 2, 29, 23, 59, 59>>
    BY ReadyTells DEF ReleaseFrame
  <2>2. ValidRecord(1) /\ ValidInstant(<<2024, 2, 29, 23, 59, 59>>)
    BY DEF ValidRecord, ValidInstant, MonthDays, IsLeapYear
  <2>3. TokenIn(TextOf(t)) = t
    BY DEF TokenIn, TextOf
  <2>4. f # NotAFrame
    <3>1. "identity" \in DOMAIN f /\ "identity" \notin DOMAIN NotAFrame
      BY DEF ReleaseFrame, NotAFrame
    <3> QED BY <3>1
  <2>5. Answers(f, TextOf(t), ReadyOf(t))
    BY <2>1, <2>2 DEF Answers
  <2> QED BY <2>1, <2>3, <2>4, <2>5
<1>2. CASE \E t \in Tokens : r = ReleaseFrame(ReadyOf(t))
  <2>1. PICK t \in Tokens : r = ReleaseFrame(ReadyOf(t))
    BY <1>2
  <2>2. Meaning(r) = t /\ r # NotAFrame /\ Answers(r, TextOf(t), ReadyOf(t))
    BY <2>1, <1>1 DEF Meaning, ReadyOf
  <2>3. t \in Announced(fs)
    BY <2>1, AnswersAsAWhole DEF Announced, ReadyOf
  <2>4. \A u \in Tokens : Answers(r, TextOf(u), ReadyOf(u)) => u = t
    BY <2>2, ReadyTells DEF Answers
  <2> QED BY <2>2, <2>3, <2>4
<1>3. CASE ~ \E t \in Tokens : r = ReleaseFrame(ReadyOf(t))
  <2>1. Meaning(r) = Mangled /\ Mangled \notin Tokens
    BY <1>3, ChildrenAssumption DEF Meaning, ReadyOf
  <2>2. \A t \in Tokens : ~ (r # NotAFrame /\ Answers(r, TextOf(t), ReadyOf(t)))
    BY <1>3, AnswersAsAWhole
  <2> QED BY <2>1, <2>2
<1> QED BY <1>2, <1>3

-----------------------------------------------------------------------------
(* Reading a token while others change its file.                           *)

Steps == {"idle", "start", "looked", "opened", "bound", "unchanged", "seen", "reopened",
          "reading", "accepted", "refused"}

Kinds        == {"file", "link"}
InodeFiles   == [kind : Kinds, text : TextsOfOne, links : Int, stamp : Nat]
Stats        == [id : Inodes, kind : Kinds, bytes : Nat, links : Int, stamp : Nat]
ReaderStates == [step : Steps, handle : Inodes \cup {Nothing}, initial : Stats \cup {Unseen},
                 seen : Stats \cup {Unseen}, again : Inodes \cup {Nothing}, read : BOOLEAN,
                 taken : Seq(Tokens)]

FilesTyped ==
  /\ clock \in Nat
  /\ names \in [Coords -> Inodes \cup {Nothing}]
  /\ inode \in [Inodes -> InodeFiles]
  /\ reader \in [Children -> ReaderStates]

StampsPast == \A i \in Inodes : inode[i].stamp <= clock

Begins(taken, text) == Len(taken) <= Len(text) /\ \A k \in 1..Len(taken) : taken[k] = text[k]

(* A reader that has bound its handle has read from the start of the file, *)
(* unless the file has another stamp by now.                               *)
Bound(s) ==
  /\ s.handle \in Inodes /\ s.initial \in Stats /\ s.initial.id = s.handle /\ s.initial.stamp <= clock
  /\ inode[s.handle].stamp = s.initial.stamp => Begins(s.taken, inode[s.handle].text)

Sound(s) ==
  /\ s.step \in {"start", "looked", "opened"} => s.taken = <<>>
  /\ s.step = "opened" => s.handle \in Inodes
  /\ s.step \in {"bound", "unchanged", "seen", "reopened", "reading"} => Bound(s)
  /\ s.step = "reopened" => s.again \in Inodes
  /\ s.step = "accepted" => s.taken \in TextsOfOne

ReadersSound == \A c \in Children : Sound(reader[c])

FilesInv == FilesTyped /\ StampsPast /\ ReadersSound

(* One token more of the text is the beginning of the text again.          *)
LEMMA LongerBegins ==
  ASSUME NEW taken \in Seq(Tokens), NEW text \in Seq(Tokens),
         Begins(taken, text), Len(taken) < Len(text)
  PROVE  Begins(Append(taken, text[Len(taken) + 1]), text)
<1> DEFINE n == Len(taken)
           next == text[n + 1]
           more == Append(taken, next)
<1>1. n \in Nat /\ Len(text) \in Nat /\ n < Len(text) /\ n + 1 \in 1..Len(text)
  BY LenProperties
<1>2. next \in Tokens
  BY <1>1, ElementOfSeq
<1> HIDE DEF next
<1>3. /\ Len(more) = n + 1 /\ more[n + 1] = next
      /\ \A k \in 1..n : more[k] = taken[k]
  BY <1>2, AppendProperties
<1>4. \A k \in 1..n : taken[k] = text[k]
  BY DEF Begins
<1> HIDE DEF n, more
<1>5. ASSUME NEW k \in 1..(n + 1) PROVE more[k] = text[k]
  <2>1. k \in 1..n \/ k = n + 1
    BY <1>1
  <2> QED
    BY <1>3, <1>4, <2>1, Zenon DEF next
<1> QED
  BY <1>1, <1>3, <1>5 DEF Begins, more, next

(* What a file begins with is of one token if the file is.                 *)
LEMMA BeginningOfOne ==
  ASSUME NEW taken \in Seq(Tokens), NEW text \in TextsOfOne, Begins(taken, text)
  PROVE  taken \in TextsOfOne
<1>1. Len(taken) \in Nat /\ Len(text) \in Nat
  BY DEF TextsOfOne
<1>2. ASSUME NEW k \in 1..Len(taken) PROVE taken[k] = taken[1]
  <2>1. k \in 1..Len(text) /\ 1 \in 1..Len(taken) /\ 1 \in 1..Len(text)
    BY <1>1 DEF Begins
  <2> QED BY <2>1 DEF Begins, TextsOfOne
<1> QED BY <1>2 DEF TextsOfOne

LEMMA RefusedSound ==
  \A step \in {"idle", "start", "refused"} :
    Reader(step, <<>>) \in ReaderStates /\ Sound(Reader(step, <<>>))
<1> SUFFICES ASSUME NEW step \in {"idle", "start", "refused"}
             PROVE  Reader(step, <<>>) \in ReaderStates /\ Sound(Reader(step, <<>>))
  OBVIOUS
<1>1. <<>> \in Seq(Tokens)
  OBVIOUS
<1>2. Reader(step, <<>>).step = step /\ Reader(step, <<>>).taken = <<>>
  BY DEF Reader
<1>3. Reader(step, <<>>) \in ReaderStates
  BY <1>1 DEF Reader, ReaderStates, Steps
<1> QED BY <1>2, <1>3 DEF Sound

(* A step of a reader leaves it in a sound state.                          *)
Sounder(c) ==
  \E s \in ReaderStates : Sound(s) /\ reader' = [reader EXCEPT ![c] = s]

LEMMA RefuseSound ==
  ASSUME NEW c \in Children, Refuse(c) PROVE Sounder(c)
  BY RefusedSound DEF Refuse, Continue, Sounder

LEMMA StaysBound ==
  ASSUME NEW r, Sound(r), NEW s,
         r.step \in {"bound", "unchanged", "seen", "reopened", "reading"},
         s.step \in {"bound", "unchanged", "seen", "reopened", "reading"},
         s.handle = r.handle, s.initial = r.initial, s.taken = r.taken,
         s.step = "reopened" => s.again \in Inodes
  PROVE  Sound(s)
  BY DEF Sound, Bound

LEMMA ReadSound ==
  ASSUME FilesInv, NEW c \in Children, NEW p \in Coords, ReadStep(c, p)
  PROVE  Sounder(c)
<1> DEFINE r == reader[c]
<1>0. r \in ReaderStates /\ Sound(r)
  BY DEF FilesInv, FilesTyped, ReadersSound
<1>1. /\ r.step \in Steps /\ r.handle \in Inodes \cup {Nothing} /\ r.initial \in Stats \cup {Unseen}
      /\ r.seen \in Stats \cup {Unseen} /\ r.again \in Inodes \cup {Nothing} /\ r.read \in BOOLEAN
      /\ r.taken \in Seq(Tokens)
  BY <1>0 DEF ReaderStates
<1>2. \A i \in Inodes : Stat(i) \in Stats /\ Stat(i).id = i /\ Stat(i).stamp = inode[i].stamp
                        /\ Stat(i).stamp <= clock /\ inode[i].text \in TextsOfOne
  <2> SUFFICES ASSUME NEW i \in Inodes
               PROVE  Stat(i) \in Stats /\ Stat(i).id = i /\ Stat(i).stamp = inode[i].stamp
                        /\ Stat(i).stamp <= clock /\ inode[i].text \in TextsOfOne
    OBVIOUS
  <2>1. inode[i] \in InodeFiles /\ inode[i].stamp <= clock
    BY DEF FilesInv, FilesTyped, StampsPast
  <2>2. /\ inode[i].kind \in Kinds /\ inode[i].text \in TextsOfOne /\ inode[i].links \in Int
        /\ inode[i].stamp \in Nat /\ Len(inode[i].text) \in Nat
    BY <2>1 DEF InodeFiles, TextsOfOne
  <2> QED BY <2>1, <2>2 DEF Stat, Stats
<1>3. Exists(p) => names[p] \in Inodes
  BY DEF FilesInv, FilesTyped, Exists
<1>4. CASE Refuse(c)
  BY <1>4, RefuseSound
<1>5. CASE LookAtPath(c, p) /\ ~Refuse(c)
  <2> DEFINE s == [r EXCEPT !.step = "looked", !.seen = Stat(names[p])]
  <2>1. Exists(p) /\ AtStep(c, "start") /\ Continue(c, s)
    BY <1>5 DEF LookAtPath, Provided
  <2>2. s \in ReaderStates /\ s.step = "looked" /\ s.taken = <<>>
    BY <1>0, <1>1, <1>2, <1>3, <2>1 DEF ReaderStates, AtStep, Steps, Sound
  <2> QED BY <2>1, <2>2 DEF Sounder, Sound, Continue
<1>6. CASE Open(c, p) /\ ~Refuse(c)
  <2> DEFINE s == [r EXCEPT !.step = "opened", !.handle = names[p]]
  <2>1. Exists(p) /\ AtStep(c, "looked") /\ Continue(c, s)
    BY <1>6 DEF Open, Provided, Openable
  <2>2. s \in ReaderStates /\ s.step = "opened" /\ s.taken = <<>> /\ s.handle \in Inodes
    BY <1>0, <1>1, <1>3, <2>1 DEF ReaderStates, AtStep, Steps, Sound
  <2> QED BY <2>1, <2>2 DEF Sounder, Sound, Continue
<1>7. CASE Bind(c) /\ ~Refuse(c)
  <2> DEFINE s == [r EXCEPT !.step = "bound", !.initial = Stat(r.handle), !.seen = Unseen]
  <2>1. AtStep(c, "opened") /\ Continue(c, s)
    BY <1>7 DEF Bind, Provided
  <2>2. r.handle \in Inodes /\ r.taken = <<>>
    BY <1>0, <2>1 DEF AtStep, Sound
  <2>3. s \in ReaderStates
    BY <1>0, <1>2, <2>2 DEF ReaderStates, Steps
  <2>6. s.step = "bound" /\ s.taken = r.taken /\ s.handle = r.handle /\ s.initial = Stat(r.handle)
    BY <1>0 DEF ReaderStates
  <2>4. Begins(<<>>, inode[r.handle].text)
    BY <1>2, <2>2 DEF Begins, TextsOfOne
  <2>5. Bound(s)
    BY <1>2, <2>2, <2>4, <2>6 DEF Bound
  <2>7. Sound(s)
    BY <2>5, <2>6 DEF Sound
  <2> QED BY <2>1, <2>3, <2>7 DEF Sounder, Continue
<1>8. CASE CheckHandle(c) /\ ~Refuse(c)
  <2> DEFINE s == [r EXCEPT !.step = "unchanged"]
  <2>1. AtStep(c, "bound") /\ Continue(c, s)
    BY <1>8 DEF CheckHandle, Provided
  <2>2. s \in ReaderStates
    BY <1>0 DEF ReaderStates, Steps
  <2>3. s.step = "unchanged" /\ s.handle = r.handle /\ s.initial = r.initial /\ s.taken = r.taken
    BY <1>0 DEF ReaderStates
  <2> HIDE DEF s
  <2>4. Sound(s)
    BY <1>0, <2>1, <2>3, StaysBound DEF AtStep
  <2> QED BY <2>1, <2>2, <2>4 DEF Sounder, Continue
<1>9. CASE LookAgain(c, p) /\ ~Refuse(c)
  <2> DEFINE s == [r EXCEPT !.step = "seen", !.seen = Stat(names[p])]
  <2>1. AtStep(c, "unchanged") /\ Exists(p) /\ Continue(c, s)
    BY <1>9 DEF LookAgain, Provided
  <2>2. s \in ReaderStates
    BY <1>0, <1>2, <1>3, <2>1 DEF ReaderStates, Steps
  <2>3. s.step = "seen" /\ s.handle = r.handle /\ s.initial = r.initial /\ s.taken = r.taken
    BY <1>0 DEF ReaderStates
  <2> HIDE DEF s
  <2>4. Sound(s)
    BY <1>0, <2>1, <2>3, StaysBound DEF AtStep
  <2> QED BY <2>1, <2>2, <2>4 DEF Sounder, Continue
<1>10. CASE OpenAgain(c, p) /\ ~Refuse(c)
  <2> DEFINE s == [r EXCEPT !.step = "reopened", !.again = names[p]]
  <2>1. AtStep(c, "seen") /\ Exists(p) /\ Continue(c, s)
    BY <1>10 DEF OpenAgain, Provided, Openable
  <2>2. s \in ReaderStates
    BY <1>0, <1>3, <2>1 DEF ReaderStates, Steps
  <2>3. /\ s.step = "reopened" /\ s.handle = r.handle /\ s.initial = r.initial /\ s.taken = r.taken
        /\ s.again = names[p]
    BY <1>0 DEF ReaderStates
  <2> HIDE DEF s
  <2>4. Sound(s)
    BY <1>0, <1>3, <2>1, <2>3, StaysBound DEF AtStep
  <2> QED BY <2>1, <2>2, <2>4 DEF Sounder, Continue
<1>11. CASE CheckAgain(c) /\ ~Refuse(c)
  <2>1. AtStep(c, "reopened") /\ Stat(r.again) = r.initial
    BY <1>11 DEF CheckAgain, Provided
  <2>2. Bound(r) /\ r.again \in Inodes
    BY <1>0, <2>1 DEF AtStep, Sound
  <2>3. r.taken \in TextsOfOne
    <3>1. r.again = r.handle /\ inode[r.handle].stamp = r.initial.stamp
      BY <1>2, <2>1, <2>2 DEF Bound
    <3>2. Begins(r.taken, inode[r.handle].text) /\ inode[r.handle].text \in TextsOfOne
      BY <1>2, <2>2, <3>1 DEF Bound
    <3> QED BY <1>1, <3>2, BeginningOfOne
  <2>4. CASE r.read
    <3> DEFINE s == Reader("accepted", r.taken)
    <3>1. Continue(c, s)
      BY <1>11, <2>4 DEF CheckAgain, Provided
    <3>2. s \in ReaderStates /\ s.step = "accepted" /\ s.taken = r.taken
      BY <1>1 DEF Reader, ReaderStates, Steps
    <3>3. Sound(s)
      BY <2>3, <3>2 DEF Sound
    <3> QED BY <3>1, <3>2, <3>3 DEF Sounder, Continue
  <2>5. CASE ~r.read
    <3> DEFINE s == [r EXCEPT !.step = "reading", !.seen = Unseen, !.again = Nothing]
    <3>1. Continue(c, s)
      BY <1>11, <2>5 DEF CheckAgain, Provided
    <3>2. s \in ReaderStates
      BY <1>0 DEF ReaderStates, Steps
    <3>3. s.step = "reading" /\ s.handle = r.handle /\ s.initial = r.initial /\ s.taken = r.taken
      BY <1>0 DEF ReaderStates
    <3> HIDE DEF s
    <3>4. Sound(s)
      BY <1>0, <2>1, <3>3, StaysBound DEF AtStep
    <3> QED BY <3>1, <3>2, <3>4 DEF Sounder, Continue
  <2> QED BY <2>4, <2>5
<1>12. CASE ReadPiece(c)
  <2> DEFINE text == inode[r.handle].text
             more == Append(r.taken, text[Len(r.taken) + 1])
             s    == [r EXCEPT !.taken = more]
  <2>1. AtStep(c, "reading") /\ Len(r.taken) < Len(text) /\ Continue(c, s)
    BY <1>12 DEF ReadPiece
  <2>2. Bound(r) /\ r.step = "reading"
    BY <1>0, <2>1 DEF AtStep, Sound
  <2>3. text \in Seq(Tokens) /\ Len(text) \in Nat /\ Len(r.taken) \in Nat
    BY <1>1, <1>2, <2>2 DEF Bound, TextsOfOne
  <2>4. more \in Seq(Tokens) /\ Len(more) = Len(r.taken) + 1
    BY <1>1, <2>1, <2>3
  <2>5. Begins(r.taken, text) => Begins(more, text)
    BY <1>1, <2>1, <2>3, LongerBegins
  <2> HIDE DEF more
  <2>6. s \in ReaderStates
    BY <1>0, <2>4 DEF ReaderStates
  <2>7. s.step = r.step /\ s.handle = r.handle /\ s.initial = r.initial /\ s.taken = more
    BY <1>0 DEF ReaderStates
  <2>8. Bound(s)
    BY <2>2, <2>5, <2>7 DEF Bound
  <2>9. Sound(s)
    BY <2>2, <2>7, <2>8 DEF Sound
  <2> QED BY <2>1, <2>6, <2>9 DEF Sounder, Continue, more
<1>13. CASE EndOfRead(c) /\ ~Refuse(c)
  <2> DEFINE s == [r EXCEPT !.step = "bound", !.read = TRUE]
  <2>1. AtStep(c, "reading") /\ Continue(c, s)
    BY <1>13 DEF EndOfRead, Provided
  <2>2. s \in ReaderStates
    BY <1>0 DEF ReaderStates, Steps
  <2>3. s.step = "bound" /\ s.handle = r.handle /\ s.initial = r.initial /\ s.taken = r.taken
    BY <1>0 DEF ReaderStates
  <2> HIDE DEF s
  <2>4. Sound(s)
    BY <1>0, <2>1, <2>3, StaysBound DEF AtStep
  <2> QED BY <2>1, <2>2, <2>4 DEF Sounder, Continue
<1> QED BY <1>4, <1>5, <1>6, <1>7, <1>8, <1>9, <1>10, <1>11, <1>12, <1>13 DEF ReadStep, CallFails

(* Every change leaves a stamp that no reader has seen.                    *)
Restamped ==
  /\ inode' \in [Inodes -> InodeFiles]
  /\ \A i \in Inodes : inode'[i] = inode[i] \/ inode'[i].stamp = clock'

LEMMA TouchRestamps ==
  ASSUME FilesTyped, clock' \in Nat, NEW i \in Inodes, NEW text \in TextsOfOne, NEW links \in Int,
         Touch(i, text, links)
  PROVE  Restamped
<1> DEFINE f == [inode[i] EXCEPT !.text = text, !.links = links, !.stamp = clock']
<1>1. inode[i] \in InodeFiles
  BY DEF FilesTyped
<1>2. f \in InodeFiles
  BY <1>1 DEF InodeFiles
<1>3. f.stamp = clock'
  BY <1>1 DEF InodeFiles
<1>4. inode' = [inode EXCEPT ![i] = f]
  BY DEF Touch, FilesTyped
<1> HIDE DEF f
<1> QED BY <1>2, <1>3, <1>4 DEF Restamped, FilesTyped

LEMMA OtherTexts ==
  ASSUME NEW text \in TextsOfOne, text # <<>>
  PROVE  Append(text, Last(text)) \in TextsOfOne /\ Front(text) \in TextsOfOne
<1>1. /\ text \in Seq(Tokens) /\ Len(text) \in Nat /\ Len(text) >= 1
      /\ \A k \in 1..Len(text) : text[k] = text[1]
  BY DEF TextsOfOne
<1>2. Append(text, Last(text)) \in TextsOfOne
  <2> DEFINE more == Append(text, Last(text))
  <2>1. Last(text) = text[1] /\ text[1] \in Tokens
    BY <1>1 DEF Last
  <2>2. /\ more \in Seq(Tokens) /\ Len(more) = Len(text) + 1
        /\ \A k \in 1..Len(more) : more[k] = text[1]
    BY <1>1, <2>1
  <2> HIDE DEF more
  <2>3. \A k \in 1..Len(more) : more[k] = more[1]
    BY <1>1, <2>2
  <2> QED BY <2>2, <2>3 DEF TextsOfOne, more
<1>3. Front(text) \in TextsOfOne
  <2> DEFINE less == SubSeq(text, 1, Len(text) - 1)
  <2>1. /\ less \in Seq(Tokens) /\ Len(less) = Len(text) - 1
        /\ \A k \in 1..Len(less) : less[k] = text[1]
    <3> DEFINE n == Len(text) - 1
    <3>1. n \in Nat /\ \A k \in 1..n : text[k] \in Tokens /\ text[k] = text[1]
      BY <1>1
    <3>2. less = [k \in 1..n |-> text[k]]
      BY <1>1 DEF SubSeq
    <3> HIDE DEF n
    <3>3. less \in Seq(Tokens) /\ Len(less) = n
      BY <3>1, <3>2
    <3> QED BY <3>1, <3>2, <3>3 DEF n
  <2> HIDE DEF less
  <2>2. \A k \in 1..Len(less) : less[k] = less[1]
    BY <1>1, <2>1
  <2> QED BY <2>1, <2>2 DEF TextsOfOne, less, Front
<1> QED BY <1>2, <1>3

LEMMA WholeText ==
  ASSUME NEW t \in Tokens
  PROVE  TextOf(t) \in TextsOfOne
<1>1. TextOf(t) \in Seq(Tokens) /\ Len(TextOf(t)) = 2
  BY DEF TextOf
<1>2. \A k \in 1..2 : TextOf(t)[k] = t
  BY DEF TextOf
<1>3. \A k \in 1..Len(TextOf(t)) : TextOf(t)[k] = TextOf(t)[1]
  BY <1>1, <1>2
<1> QED BY <1>1, <1>3, Zenon DEF TextsOfOne

LEMMA ChangeRestamps ==
  ASSUME FilesInv, Change
  PROVE  Restamped /\ names' \in [Coords -> Inodes \cup {Nothing}]
<1>1. clock \in Nat /\ clock' = clock + 1 /\ clock' \in Nat /\ FilesTyped
  BY DEF FilesInv, FilesTyped, Change
<1>2. \A i \in Inodes : inode[i].text \in TextsOfOne /\ inode[i].links \in Int
  BY <1>1 DEF FilesTyped, InodeFiles
<1>3. names \in [Coords -> Inodes \cup {Nothing}]
  BY <1>1 DEF FilesTyped
<1>4. CASE \E i \in Inodes : Rewrite(i) \/ Resize(i) \/ AddLink(i)
  <2>1. PICK i \in Inodes : Rewrite(i) \/ Resize(i) \/ AddLink(i)
    BY <1>4
  <2>2. PICK text \in TextsOfOne, links \in Int : Touch(i, text, links)
    <3>1. CASE Rewrite(i)
      BY <3>1, <1>2, WholeText DEF Rewrite
    <3>2. CASE Resize(i)
      BY <3>2, <1>2, OtherTexts DEF Resize
    <3>3. CASE AddLink(i)
      <4>1. inode[i].links + 1 \in Int
        BY <1>2
      <4> QED BY <3>3, <4>1, <1>2 DEF AddLink
    <3> QED BY <2>1, <3>1, <3>2, <3>3
  <2>3. UNCHANGED names
    BY <2>1 DEF Rewrite, Resize, AddLink
  <2> QED BY <1>1, <1>3, <2>2, <2>3, TouchRestamps
<1>5. CASE \E p \in Disturbed : RemoveName(p)
  <2>1. PICK p \in Disturbed : RemoveName(p)
    BY <1>5
  <2>2. p \in Coords /\ names[p] \in Inodes
    BY <2>1, <1>3, ChildrenAssumption DEF RemoveName, Exists
  <2>3. inode[names[p]].links - 1 \in Int
    BY <1>2, <2>2
  <2>4. Restamped
    BY <1>1, <1>2, <2>1, <2>2, <2>3, TouchRestamps DEF RemoveName
  <2> QED BY <1>3, <2>1, <2>4 DEF RemoveName
<1>6. CASE \E p \in Disturbed, i \in Inodes : RenameOver(p, i)
  <2>1. PICK p \in Disturbed, i \in Inodes : RenameOver(p, i)
    BY <1>6
  <2>2. names' = [names EXCEPT ![p] = i]
    BY <2>1 DEF RenameOver
  <2>3. ASSUME NEW j \in Inodes
        PROVE  LET put   == [inode[j] EXCEPT !.stamp = clock']
                   taken == [inode[j] EXCEPT !.links = @ - 1, !.stamp = clock']
               IN  put \in InodeFiles /\ put.stamp = clock' /\ taken \in InodeFiles /\ taken.stamp = clock'
    <3>1. inode[j] \in InodeFiles /\ inode[j].links - 1 \in Int
      BY <1>1, <1>2 DEF FilesTyped
    <3>2. [inode[j] EXCEPT !.stamp = clock'] \in InodeFiles
      BY <3>1, <1>1 DEF InodeFiles
    <3>3. [inode[j] EXCEPT !.links = @ - 1, !.stamp = clock'] \in InodeFiles
      BY <3>1, <1>1 DEF InodeFiles
    <3>4. [inode[j] EXCEPT !.stamp = clock'].stamp = clock'
      BY <3>1 DEF InodeFiles
    <3>5. [inode[j] EXCEPT !.links = @ - 1, !.stamp = clock'].stamp = clock'
      BY <3>1 DEF InodeFiles
    <3> QED BY <3>2, <3>3, <3>4, <3>5
  <2>4. \A j \in Inodes : /\ inode'[j] \in InodeFiles
                          /\ inode'[j] = inode[j] \/ inode'[j].stamp = clock'
    BY <1>1, <2>1, <2>3 DEF RenameOver, FilesTyped
  <2>5. inode' \in [Inodes -> InodeFiles]
    BY <2>1, <2>4 DEF RenameOver
  <2> QED BY <1>3, <2>2, <2>4, <2>5 DEF Restamped
<1> QED BY <1>4, <1>5, <1>6 DEF Change

LEMMA ChangeFiles ==
  ASSUME FilesInv, Change
  PROVE  FilesInv'
<1>1. /\ clock \in Nat /\ clock' = clock + 1 /\ reader' = reader
      /\ reader \in [Children -> ReaderStates] /\ StampsPast /\ ReadersSound
      /\ inode \in [Inodes -> InodeFiles]
  BY DEF FilesInv, FilesTyped, Change
<1>2. Restamped /\ names' \in [Coords -> Inodes \cup {Nothing}]
  BY ChangeRestamps
<1>3. FilesTyped'
  BY <1>1, <1>2 DEF FilesTyped, Restamped, Coords
<1>4. StampsPast'
  <2>1. \A i \in Inodes : inode[i].stamp \in Nat /\ inode[i].stamp <= clock
    BY <1>1 DEF StampsPast, InodeFiles
  <2> QED BY <1>1, <1>2, <2>1 DEF StampsPast, Restamped
<1>5. ASSUME NEW s, Bound(s) PROVE Bound(s)'
  <2>1. s.initial.stamp \in Nat /\ s.initial.stamp <= clock /\ s.handle \in Inodes
    BY <1>5 DEF Bound, Stats
  <2>2. s.initial.stamp <= clock' /\ s.initial.stamp # clock'
    BY <1>1, <2>1
  <2>3. inode'[s.handle].stamp = s.initial.stamp => inode'[s.handle] = inode[s.handle]
    BY <1>2, <2>1, <2>2 DEF Restamped
  <2> QED BY <1>5, <2>2, <2>3 DEF Bound
<1>6. ReadersSound'
  <2> SUFFICES ASSUME NEW c \in Children PROVE Sound(reader[c])'
    BY DEF ReadersSound
  <2>1. Sound(reader[c])
    BY <1>1 DEF ReadersSound
  <2> QED BY <1>1, <1>5, <2>1 DEF Sound
<1> QED BY <1>3, <1>4, <1>6 DEF FilesInv

(* What is sound stays so where the files are as they were.                *)
LEMMA ReaderFiles ==
  ASSUME FilesInv, NEW c \in Children, Sounder(c), UNCHANGED <<names, inode, clock>>
  PROVE  FilesInv'
<1>1. PICK s \in ReaderStates : Sound(s) /\ reader' = [reader EXCEPT ![c] = s]
  BY DEF Sounder
<1>2. FilesTyped'
  BY <1>1 DEF FilesInv, FilesTyped, Coords
<1>3. StampsPast'
  BY DEF FilesInv, StampsPast
<1>4. ReadersSound'
  <2> SUFFICES ASSUME NEW d \in Children PROVE Sound(reader[d])'
    BY DEF ReadersSound
  <2>1. Sound(reader'[d])
    BY <1>1 DEF FilesInv, FilesTyped, ReadersSound
  <2> QED BY <2>1 DEF Sound, Bound
<1> QED BY <1>2, <1>3, <1>4 DEF FilesInv

-----------------------------------------------------------------------------
(* The children step by step.                                              *)

Held == {"prepared", "waiting", "validated"} \cup Staged \cup Running

OwnPaths    == \A c \in Children : environment[c].token = at[c]
ReadersDone == \A c \in Children : pc[c] # "new" => ~Reading(c)

(* A child that was admitted has the text of its token in hand and uses    *)
(* the files of its coordinate.                                            *)
Equipped(c) ==
  /\ reader[c].taken = TextOf(token[c])
  /\ environment[c].home = at[c] /\ environment[c].route = at[c]
AllEquipped == \A c \in Children : pc[c] \in Held => Equipped(c)

FramesKnown == frames \subseteq ReadyFrames /\ ready = Announced(frames)

StdinMeans ==
  /\ stdin \in [Children -> SUBSET Releases(ReadyFrames)]
  /\ \A c \in Children : \A r \in stdin[c] : release[c] = {Meaning(r)}

Surroundings == FilesInv /\ OwnPaths /\ ReadersDone /\ AllEquipped /\ FramesKnown /\ StdinMeans

ChildrenInv == Inv /\ Surroundings

LEMMA ChildrenTypes ==
  ASSUME ChildrenInv
  PROVE  /\ pc \in [Children -> Labels] /\ token \in [Children -> Tokens \cup {NoToken}]
         /\ release \in [Children -> SUBSET Frames]
         /\ \A c \in Children : at[c] \in Coords
         /\ reader \in [Children -> ReaderStates] /\ ReadersSound
         /\ stdin \in [Children -> SUBSET Releases(ReadyFrames)]
  BY DEF ChildrenInv, Inv, TypeOK, Surroundings, FilesInv, FilesTyped, StdinMeans

(* What the text in hand says of an admitted child.                        *)
LEMMA EquippedChild ==
  ASSUME ChildrenInv, NEW c \in Children, pc[c] \in Held
  PROVE  /\ token[c] \in Tokens /\ CoordOf[token[c]] = at[c]
         /\ OwnFrame(c) = ReadyOf(token[c]) /\ Text(c) = TextOf(token[c])
         /\ environment[c].home = at[c] /\ environment[c].route = at[c]
         /\ StemOf(Text(c)) = at[c]
         /\ PathsUnused(c, Text(c)) <=> Untouched(At(c))
<1>1. token[c] \in Tokens /\ CoordOf[token[c]] = at[c]
  BY DEF ChildrenInv, Inv, InSchedule, Admitted, Held, Staged, Running, At
<1>2. Text(c) = TextOf(token[c]) /\ environment[c].home = at[c] /\ environment[c].route = at[c]
  BY DEF ChildrenInv, Surroundings, AllEquipped, Equipped, Text
<1>3. OwnFrame(c) = ReadyOf(token[c])
  BY <1>2 DEF OwnFrame, ReadyOf
<1>4. StemOf(Text(c)) = at[c]
  BY <1>1, <1>2 DEF StemOf, TextOf
<1>5. PathsUnused(c, Text(c)) <=> Untouched(At(c))
  BY <1>2, <1>4 DEF PathsUnused, Untouched, At
<1> QED BY <1>1, <1>2, <1>3, <1>4, <1>5

(* A step that leaves tokens, frames and their files alone.                *)
LEMMA CalmStep ==
  ASSUME ChildrenInv, NEW c \in Children, NEW l, Goto(c, l), l \in Held => pc[c] \in Held,
         ~Reading(c), UNCHANGED <<at, token, release, ready, environment, frames, tokenFiles>>,
         UNCHANGED stdin \/ stdin' = [stdin EXCEPT ![c] = {}]
  PROVE  Surroundings'
<1>1. pc' = [pc EXCEPT ![c] = l] /\ pc \in [Children -> Labels]
  BY ChildrenTypes DEF Goto
<1>2. FilesInv'
  BY DEF ChildrenInv, Surroundings, FilesInv, FilesTyped, StampsPast, ReadersSound, Sound, Bound,
         tokenFiles, Coords
<1>3. OwnPaths' /\ ReadersDone'
  BY <1>1 DEF ChildrenInv, Surroundings, OwnPaths, ReadersDone, Reading, tokenFiles
<1>4. AllEquipped'
  BY <1>1 DEF ChildrenInv, Surroundings, AllEquipped, Equipped, tokenFiles
<1>5. FramesKnown'
  BY DEF ChildrenInv, Surroundings, FramesKnown, Announced
<1>6. StdinMeans'
  BY DEF ChildrenInv, Surroundings, StdinMeans
<1> QED BY <1>2, <1>3, <1>4, <1>5, <1>6 DEF Surroundings

(* Nor does it matter that files nobody reads any more are forgotten.      *)
LEMMA ForgottenFiles ==
  ASSUME ChildrenInv, NEW c \in Children, ~Reading(c), Forgets(c), UNCHANGED reader
  PROVE  FilesInv'
<1>1. CASE UNCHANGED <<names, inode, clock>>
  BY <1>1 DEF ChildrenInv, Surroundings, FilesInv, FilesTyped, StampsPast, ReadersSound, Sound, Bound,
              Coords
<1>2. CASE ~UNCHANGED <<names, inode, clock>>
  <2>1. /\ \A d \in Children : ~Reading(d)
        /\ names' = InitialNames /\ inode' = InitialInodes /\ clock' = 0
    BY <1>2 DEF Forgets, ChildrenInv, Surroundings, ReadersDone
  <2>2. FilesTyped'
    BY <2>1, ChildrenTypes, ChildrenAssumption DEF FilesTyped, InodeFiles, Kinds, Coords
  <2>3. StampsPast'
    BY <2>1, ChildrenAssumption DEF StampsPast
  <2>4. ReadersSound'
    <3> SUFFICES ASSUME NEW d \in Children PROVE Sound(reader[d])'
      BY DEF ReadersSound
    <3>1. Sound(reader[d]) /\ reader[d].step \in {"idle", "accepted", "refused"}
      BY <2>1, ChildrenTypes DEF ReadersSound, Reading
    <3> QED BY <3>1 DEF Sound
  <2> QED BY <2>2, <2>3, <2>4 DEF FilesInv
<1> QED BY <1>1, <1>2

(* A child that has read a whole token, or gives up, has prepared.         *)
LEMMA StartingStep ==
  ASSUME ChildrenInv, NEW c \in Children, Start(c) \/ ReadToken(c)
  PROVE  (Prepare(c) \/ UNCHANGED vars) /\ Surroundings'
<1>1. CASE Start(c) /\ Goto(c, "rejected") /\ UNCHANGED reader
  <2>1. Prepare(c)
    BY <1>1 DEF Start, Prepare, given
  <2>2. Surroundings'
    BY <1>1, CalmStep DEF Start, Held, Staged, Running, Reading, given, tokenFiles
  <2> QED BY <2>1, <2>2
<1>2. CASE ReadToken(c) \/ (Start(c) /\ Continue(c, Reader("start", <<>>)) /\ UNCHANGED pc)
  <2>1. /\ UNCHANGED vars /\ UNCHANGED <<environment, frames, stdin, names, inode, clock>>
        /\ pc[c] = "new"
    BY <1>2 DEF Start, ReadToken, vars, given, files, ReadStep
  <2>2. Sounder(c)
    <3>1. CASE ReadToken(c)
      <4>1. environment[c].token \in Coords
        BY ChildrenTypes DEF ChildrenInv, Surroundings, OwnPaths
      <4> QED BY <3>1, <4>1, ReadSound DEF ReadToken, ChildrenInv, Surroundings
    <3>2. CASE Continue(c, Reader("start", <<>>))
      BY <3>2, RefusedSound DEF Continue, Sounder
    <3> QED BY <1>2, <3>1, <3>2
  <2>3. FilesInv'
    BY <2>1, <2>2, ReaderFiles DEF ChildrenInv, Surroundings
  <2>4. PICK s : reader' = [reader EXCEPT ![c] = s]
    BY <2>2 DEF Sounder
  <2>5. /\ UNCHANGED <<pc, at, token, ready, release>>
        /\ \A d \in Children : pc[d] # "new" => reader'[d] = reader[d]
    BY <2>1, <2>4, ChildrenTypes DEF vars, given
  <2>6. OwnPaths' /\ ReadersDone'
    BY <2>1, <2>5 DEF ChildrenInv, Surroundings, OwnPaths, ReadersDone, Reading
  <2>7. AllEquipped'
    BY <2>1, <2>5 DEF ChildrenInv, Surroundings, AllEquipped, Equipped, Held, Staged, Running
  <2>8. FramesKnown' /\ StdinMeans'
    BY <2>1, <2>5 DEF ChildrenInv, Surroundings, FramesKnown, Announced, StdinMeans
  <2> QED BY <2>1, <2>3, <2>6, <2>7, <2>8 DEF Surroundings
<1> QED BY <1>1, <1>2 DEF Start

LEMMA PrepareStepOfChild ==
  ASSUME ChildrenInv, NEW c \in Children, Unreadable(c) \/ PrepareChild(c)
  PROVE  Prepare(c) /\ Surroundings'
<1>1. /\ pc[c] = "new" /\ Forgets(c) /\ ~Reading(c)
      /\ UNCHANGED <<at, selected, ready, release, files, passed, crashes>>
      /\ UNCHANGED <<environment, frames, stdin, reader>>
  BY DEF Unreadable, PrepareChild, Reading, given
<1>2. FilesInv'
  BY <1>1, ForgottenFiles
<1>3. FramesKnown' /\ StdinMeans'
  BY <1>1 DEF ChildrenInv, Surroundings, FramesKnown, Announced, StdinMeans
<1>4. CASE UNCHANGED token /\ Goto(c, "rejected")
  <2>1. Prepare(c)
    BY <1>1, <1>4 DEF Prepare
  <2>2. pc' = [pc EXCEPT ![c] = "rejected"]
    BY <1>4 DEF Goto
  <2>3. OwnPaths' /\ ReadersDone'
    BY <1>1, <2>2, ChildrenTypes DEF ChildrenInv, Surroundings, OwnPaths, ReadersDone, Reading
  <2>4. AllEquipped'
    BY <1>1, <1>4, <2>2, ChildrenTypes DEF ChildrenInv, Surroundings, AllEquipped, Equipped, Held, Staged,
       Running
  <2> QED BY <1>2, <1>3, <2>1, <2>3, <2>4 DEF Surroundings
<1>5. CASE PrepareChild(c) /\ Admits(c) /\ token' = [token EXCEPT ![c] = TokenIn(Text(c))]
             /\ Goto(c, "prepared")
  <2> DEFINE t == Text(c)[1]
  <2>1. reader[c].step = "accepted" /\ Text(c) \in TextsOfOne /\ Len(Text(c)) = 2
    BY <1>5, ChildrenTypes DEF PrepareChild, Admits, IsToken, ReadersSound, Sound, Text
  <2>2. Text(c) = TextOf(t) /\ t \in Tokens /\ TokenIn(Text(c)) = t
    <3>1. Text(c) \in Seq(Tokens) /\ 1 \in 1..Len(Text(c)) /\ 2 \in 1..Len(Text(c))
      BY <2>1 DEF TextsOfOne
    <3>2. Text(c)[2] = Text(c)[1] /\ Text(c)[1] \in Tokens
      <4>1. \A k \in 1..Len(Text(c)) : Text(c)[k] = Text(c)[1]
        BY <2>1, Zenon DEF TextsOfOne
      <4> QED BY <3>1, <4>1
    <3>3. Text(c) = <<Text(c)[1], Text(c)[2]>>
      BY <2>1, <3>1
    <3> QED BY <3>2, <3>3 DEF TextOf, TokenIn
  <2>3. /\ environment[c].token = at[c] /\ environment[c].home = CoordOf[t]
        /\ environment[c].route = CoordOf[t] /\ environment[c].token = CoordOf[t]
    BY <1>5 DEF Admits, PathsExact, StemOf, ChildrenInv, Surroundings, OwnPaths
  <2>4. Untouched(At(c)) /\ OnSchedule(c)
    BY <1>5, <2>3 DEF Admits, PathsUnused, Untouched, StemOf, At
  <2>5. Prepare(c)
    <3>1. t \in Tokens /\ CoordOf[t] = At(c) /\ token' = [token EXCEPT ![c] = t]
      BY <1>5, <2>2, <2>3 DEF At
    <3> HIDE DEF t
    <3> QED BY <1>1, <1>5, <2>4, <3>1 DEF Prepare
  <2>6. pc' = [pc EXCEPT ![c] = "prepared"]
    BY <1>5 DEF Goto
  <2>7. OwnPaths' /\ ReadersDone'
    BY <1>1, <2>6, ChildrenTypes DEF ChildrenInv, Surroundings, OwnPaths, ReadersDone, Reading
  <2>8. AllEquipped'
    <3> SUFFICES ASSUME NEW d \in Children, pc'[d] \in Held PROVE Equipped(d)'
      BY DEF AllEquipped
    <3>1. CASE d = c
      <4>1. token'[c] = t
        BY <1>5, <2>2, ChildrenTypes
      <4>2. reader[c].taken = TextOf(t)
        BY <2>2 DEF Text
      <4> HIDE DEF t
      <4> QED BY <1>1, <2>3, <3>1, <4>1, <4>2 DEF Equipped
    <3>2. CASE d # c
      <4>1. token'[d] = token[d] /\ pc[d] \in Held
        BY <1>5, <2>6, <3>2, ChildrenTypes
      <4> QED BY <1>1, <4>1 DEF ChildrenInv, Surroundings, AllEquipped, Equipped
    <3> QED BY <3>1, <3>2
  <2> QED BY <1>2, <1>3, <2>5, <2>7, <2>8 DEF Surroundings
<1> QED BY <1>4, <1>5 DEF Unreadable, PrepareChild, given

(* Ready frames tell their tokens, so those that are announced are ready.  *)
LEMMA SendReadyStep ==
  ASSUME ChildrenInv, NEW c \in Children, SendReady(c)
  PROVE  WriteReady(c) /\ Surroundings'
<1>1. pc[c] = "prepared" /\ pc[c] \in Held
  BY DEF SendReady, Held
<1>2. PICK l \in {"waiting", "rejected"} :
        Goto(c, l) /\ frames' = IF l = "waiting" THEN frames \cup {OwnFrame(c)} ELSE frames
  BY DEF SendReady
<1>3. /\ UNCHANGED <<given, release, files, passed, crashes, environment, stdin, tokenFiles>>
      /\ ready' = Announced(frames')
  BY DEF SendReady
<1>4. FramesKnown
  BY DEF ChildrenInv, Surroundings
<1>5. Announced(frames \cup {OwnFrame(c)}) = ready \cup {token[c]}
  BY <1>1, <1>4, EquippedChild, ReadyTells DEF Announced, FramesKnown, ReadyOf
<1>6. ready' = IF l = "waiting" THEN ready \cup {token[c]} ELSE ready
  BY <1>2, <1>3, <1>4, <1>5 DEF FramesKnown
<1>7. WriteReady(c)
  BY <1>1, <1>2, <1>3, <1>6 DEF WriteReady
<1>8. FramesKnown'
  <2>1. frames' \subseteq ReadyFrames
    BY <1>1, <1>2, <1>4, EquippedChild DEF FramesKnown, ReadyFrames
  <2> QED BY <1>3, <2>1 DEF FramesKnown, Announced
<1>9. pc' = [pc EXCEPT ![c] = l]
  BY <1>2 DEF Goto
<1>10. FilesInv' /\ OwnPaths' /\ StdinMeans'
  BY <1>3 DEF ChildrenInv, Surroundings, FilesInv, FilesTyped, StampsPast, ReadersSound, Sound, Bound,
              tokenFiles, Coords, OwnPaths, StdinMeans, given
<1>11. ReadersDone' /\ AllEquipped'
  BY <1>1, <1>3, <1>9, ChildrenTypes DEF ChildrenInv, Surroundings, ReadersDone, Reading, AllEquipped,
     Equipped, tokenFiles, given
<1> QED BY <1>7, <1>8, <1>10, <1>11 DEF Surroundings

LEMMA ReceiveStep ==
  ASSUME ChildrenInv, NEW c \in Children, ReceiveRelease(c)
  PROVE  ReadRelease(c) /\ Surroundings'
<1>1. pc[c] = "waiting" /\ pc[c] \in Held
  BY DEF ReceiveRelease, Held
<1>2. PICK r \in stdin[c] :
        Goto(c, IF (r # NotAFrame /\ Answers(r, Text(c), OwnFrame(c))) /\ PathsUnused(c, Text(c))
                THEN "validated" ELSE "rejected")
  BY DEF ReceiveRelease
<1>3. r \in Releases(ReadyFrames) /\ release[c] = {Meaning(r)}
  BY DEF ChildrenInv, Surroundings, StdinMeans
<1>4. r # NotAFrame /\ Answers(r, Text(c), OwnFrame(c)) <=> Meaning(r) = token[c]
  BY <1>1, <1>3, EquippedChild, MeaningOfRelease
<1>5. PathsUnused(c, Text(c)) <=> Untouched(At(c))
  BY <1>1, EquippedChild
<1>6. PICK l \in {"validated", "rejected"} :
        Goto(c, l) /\ (l = "validated" <=> Validates(c, Meaning(r)) /\ Untouched(At(c)))
  BY <1>2, <1>4, <1>5 DEF Validates
<1>7. /\ UNCHANGED <<given, ready, release, files, passed, crashes, environment, frames, tokenFiles>>
      /\ stdin' = [stdin EXCEPT ![c] = {}]
  BY DEF ReceiveRelease
<1>8. ReadRelease(c)
  BY <1>1, <1>3, <1>6, <1>7 DEF ReadRelease
<1>9. ~Reading(c)
  BY <1>1 DEF ChildrenInv, Surroundings, ReadersDone
<1>10. Surroundings'
  BY <1>1, <1>6, <1>7, <1>9, CalmStep DEF Held, given
<1> QED BY <1>8, <1>10

(* The receipt, and the evidence in the files the environment names.       *)
LEMMA LateStep ==
  ASSUME ChildrenInv, NEW c \in Children,
         MakeReceipt(c) \/ ReserveEvidence(c) \/ MeasureAtHome(c) \/ FinishEvidence(c)
  PROVE  ChildStep(c) /\ Surroundings'
<1>1. pc[c] \in Held /\ ~Reading(c)
  <2>1. pc[c] \in {"validated", "created", "written", "synced", "passed", "measuring", "measured"}
    BY DEF MakeReceipt, CreateReceipt, WriteReceipt, SyncReceipt, SyncParent, ReserveEvidence,
           MeasureAtHome, FinishEvidence
  <2> QED BY <2>1 DEF Held, Staged, Running, ChildrenInv, Surroundings, ReadersDone
<1>2. environment[c].home = At(c) /\ environment[c].route = At(c)
  BY <1>1, EquippedChild DEF At
<1>3. ChildStep(c)
  <2>1. CASE MakeReceipt(c)
    BY <2>1 DEF MakeReceipt, ChildStep
  <2>2. CASE ReserveEvidence(c)
    <3>1. ReserveRoute(c)
      BY <2>2, <1>2 DEF ReserveEvidence, ReserveRoute
    <3> QED BY <3>1 DEF ChildStep
  <2>3. CASE MeasureAtHome(c)
    <3>1. Measure(c)
      BY <2>3, <1>2 DEF MeasureAtHome, Measure
    <3> QED BY <3>1 DEF ChildStep
  <2>4. CASE FinishEvidence(c)
    <3>1. Finish(c)
      BY <2>4, <1>2 DEF FinishEvidence, Finish
    <3> QED BY <3>1 DEF ChildStep
  <2> QED BY <2>1, <2>2, <2>3, <2>4
<1>4. \E l : Goto(c, l)
  BY DEF MakeReceipt, CreateReceipt, WriteReceipt, SyncReceipt, SyncParent, ReserveEvidence,
         MeasureAtHome, FinishEvidence, Goto
<1>5. UNCHANGED <<at, token, release, ready, environment, frames, stdin, tokenFiles>>
  BY DEF MakeReceipt, CreateReceipt, WriteReceipt, SyncReceipt, SyncParent, ReserveEvidence,
         MeasureAtHome, FinishEvidence, given
<1> QED BY <1>1, <1>3, <1>4, <1>5, CalmStep

(* A release that is put together from several has no meaning, so what is  *)
(* released was announced or is mangled.                                   *)
LEMMA AnswerStep ==
  ASSUME ChildrenInv, NEW c \in Children, Answer(c)
  PROVE  Release(c) /\ Surroundings'
<1>1. PICK r \in Releases(frames) :
        stdin' = [stdin EXCEPT ![c] = {r}] /\ release' = [release EXCEPT ![c] = {Meaning(r)}]
  BY DEF Answer
<1>2. /\ UNCHANGED <<pc, given, ready, files, passed, crashes, environment, frames, tokenFiles>>
      /\ release[c] = {}
  BY DEF Answer
<1>3. frames \subseteq ReadyFrames /\ ready = Announced(frames)
  BY DEF ChildrenInv, Surroundings, FramesKnown
<1>4. Meaning(r) \in ready \cup {Mangled}
  BY <1>1, <1>3, MeaningOfRelease
<1>5. Release(c)
  BY <1>1, <1>2, <1>4 DEF Release
<1>6. r \in Releases(ReadyFrames)
  BY <1>1, <1>3 DEF Releases
<1>7. StdinMeans'
  BY <1>1, <1>6, ChildrenTypes DEF ChildrenInv, Surroundings, StdinMeans
<1>8. FilesInv' /\ OwnPaths' /\ ReadersDone' /\ AllEquipped' /\ FramesKnown'
  BY <1>2 DEF ChildrenInv, Surroundings, FilesInv, FilesTyped, StampsPast, ReadersSound, Sound, Bound,
              tokenFiles, Coords, OwnPaths, ReadersDone, Reading, AllEquipped, Equipped, FramesKnown,
              Announced, given
<1> QED BY <1>5, <1>7, <1>8 DEF Surroundings

LEMMA KillStepOfChild ==
  ASSUME ChildrenInv, NEW c \in Children, Around(c)
  PROVE  Kill(c) /\ Surroundings'
<1>1. pc[c] # "new" /\ ~Reading(c)
  BY DEF Around, Kill, ChildrenInv, Surroundings, ReadersDone
<1>2. "killed" \notin Held
  BY DEF Held, Staged, Running
<1> QED BY <1>1, <1>2, CalmStep DEF Around, Kill, given

LEMMA DisturbStep ==
  ASSUME ChildrenInv, Disturb
  PROVE  UNCHANGED vars /\ Surroundings'
<1>1. FilesInv'
  BY ChangeFiles DEF Disturb, ChildrenInv, Surroundings
<1>2. UNCHANGED <<vars, environment, frames, stdin, reader>>
  BY DEF Disturb, Change
<1> QED BY <1>1, <1>2 DEF ChildrenInv, Surroundings, OwnPaths, ReadersDone, Reading, AllEquipped,
           Equipped, FramesKnown, Announced, StdinMeans, vars, given

LEMMA AllStopStep ==
  ASSUME ChildrenInv, AllStop
  PROVE  MachineStops /\ Surroundings'
<1>1. /\ pc' = [d \in Children |-> IF pc[d] \in Ended \cup {"new"} THEN pc[d] ELSE "killed"]
      /\ reader' = [d \in Children |-> IF pc[d] = "new" THEN Reader("idle", <<>>) ELSE reader[d]]
      /\ stdin' = [d \in Children |-> {}]
      /\ UNCHANGED <<given, ready, release, environment, frames, names, inode, clock>>
  BY DEF AllStop, MachineStops
<1>2. \A d \in Children : reader'[d] \in ReaderStates /\ Sound(reader'[d])
  BY <1>1, ChildrenTypes, RefusedSound DEF ReadersSound
<1>3. FilesInv'
  <2>1. FilesTyped'
    BY <1>1, <1>2 DEF ChildrenInv, Surroundings, FilesInv, FilesTyped, Coords
  <2>2. StampsPast'
    BY <1>1 DEF ChildrenInv, Surroundings, FilesInv, StampsPast
  <2>3. ReadersSound'
    BY <1>1, <1>2 DEF ReadersSound, Sound, Bound
  <2> QED BY <2>1, <2>2, <2>3 DEF FilesInv
<1>4. OwnPaths' /\ ReadersDone'
  BY <1>1, ChildrenTypes DEF ChildrenInv, Surroundings, OwnPaths, ReadersDone, Reading, given, Ended
<1>5. AllEquipped'
  BY <1>1, ChildrenTypes DEF ChildrenInv, Surroundings, AllEquipped, Equipped, Held, Staged, Running,
     Ended, given
<1>6. FramesKnown' /\ StdinMeans'
  BY <1>1 DEF ChildrenInv, Surroundings, FramesKnown, Announced, StdinMeans
<1> QED BY <1>3, <1>4, <1>5, <1>6 DEF Surroundings, AllStop

(* Each step of the children is one of LaunchBarrier, or nothing it sees.  *)
LEMMA ChildrenStep == ChildrenInv /\ [ChildrenNext]_allVars => [Next]_vars /\ ChildrenInv'
<1> SUFFICES ASSUME ChildrenInv, [ChildrenNext]_allVars
             PROVE  [Next]_vars /\ Surroundings'
  BY NextInv DEF ChildrenInv
<1>1. ASSUME NEW c \in Children, LaunchedStep(c) PROVE [Next]_vars /\ Surroundings'
  <2>1. (ChildStep(c) \/ UNCHANGED vars) /\ Surroundings'
    BY <1>1, StartingStep, PrepareStepOfChild, SendReadyStep, ReceiveStep, LateStep
       DEF LaunchedStep, ChildStep
  <2> QED BY <2>1 DEF Next
<1>2. ASSUME NEW c \in Children, Answer(c) \/ Around(c) PROVE [Next]_vars /\ Surroundings'
  BY <1>2, AnswerStep, KillStepOfChild DEF Next
<1>3. CASE Disturb \/ AllStop
  BY <1>3, DisturbStep, AllStopStep DEF Next
<1>4. CASE UNCHANGED allVars
  BY <1>4 DEF allVars, vars, given, tokenFiles, ChildrenInv, Surroundings, FilesInv, FilesTyped, StampsPast,
     ReadersSound, Sound, Bound, Coords, OwnPaths, ReadersDone, Reading, AllEquipped, Equipped, FramesKnown,
     Announced, StdinMeans
<1> QED BY <1>1, <1>2, <1>3, <1>4 DEF ChildrenNext

LEMMA ChildrenStart == ChildrenInit => ChildrenInv
<1> SUFFICES ASSUME ChildrenInit PROVE ChildrenInv
  OBVIOUS
<1>1. Init /\ Inv
  BY InitInv DEF ChildrenInit
<1>2. /\ environment \in [Children -> UNION {{Frozen(x)} \cup Flawed(x) : x \in Coords}]
      /\ \A c \in Children : environment[c].token = at[c]
      /\ frames = {} /\ stdin = [c \in Children |-> {}]
      /\ names = InitialNames /\ inode = InitialInodes /\ clock = 0
      /\ reader = [c \in Children |-> Reader("idle", <<>>)]
  BY DEF ChildrenInit
<1>3. FilesInv
  BY <1>2, RefusedSound, ChildrenAssumption DEF FilesInv, FilesTyped, StampsPast, ReadersSound,
     InodeFiles, Kinds
<1>4. OwnPaths /\ ReadersDone /\ AllEquipped
  BY <1>1, <1>2 DEF Init, OwnPaths, ReadersDone, AllEquipped, Held, Staged, Running
<1>5. FramesKnown /\ StdinMeans
  BY <1>1, <1>2 DEF Init, FramesKnown, StdinMeans, Announced
<1> QED BY <1>1, <1>3, <1>4, <1>5 DEF ChildrenInv, Surroundings

(* However its token file is changed while it is read, whatever is         *)
(* released to it, and whatever its environment, a child does only what    *)
(* LaunchBarrier has it do.                                                *)
THEOREM ChildrenImplement == ChildrenSpec => ImplementsBarrier
<1>1. ChildrenInit => Init
  BY DEF ChildrenInit
<1> QED BY <1>1, ChildrenStart, ChildrenStep, PTL DEF ChildrenSpec, ImplementsBarrier, Spec

(* And so they keep what LaunchBarrier promises.                           *)
THEOREM ChildrenAccount ==
  ChildrenSpec => [](RunsOnce /\ ReceiptOutlivesRun /\ NothingUnaccounted /\ Counterbalanced)
<1>1. Inv => RunsOnce /\ ReceiptOutlivesRun /\ NothingUnaccounted /\ Counterbalanced
  BY InvRunsOnce, InvCounterbalanced DEF Inv
<1> QED BY <1>1, ChildrenImplement, InvAlways, PTL DEF ImplementsBarrier
=============================================================================
