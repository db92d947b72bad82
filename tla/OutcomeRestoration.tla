-------------------------- MODULE OutcomeRestoration --------------------------
(***************************************************************************)
(* restore_issuance_outcomes (src/issuer/issuance_plan.rs): the outcomes   *)
(* of a batch arrive in whatever order its executor returned them, some    *)
(* perhaps foreign, repeated, bound to another place or lost, and are put  *)
(* back into the order the batch was planned in, or refused.               *)
(*                                                                         *)
(* The location, kind and ordinal of an identity are its place; a place    *)
(* says what product belongs there.                                        *)
(***************************************************************************)
EXTENDS Integers, Sequences

CONSTANTS JobIds,
          Places,
          Results,       (* "none", "error" and the products               *)
          Expectations,  (* batches: sequences of [job, place]             *)
          Arrivals,      (* sequences of [job, place, result]              *)
          ProductOf      (* the product that belongs at a place            *)

ASSUME RestorationAssumption ==
  /\ Expectations \subseteq Seq([job : JobIds, place : Places])
  /\ Arrivals \subseteq Seq([job : JobIds, place : Places, result : Results])
  /\ ProductOf \in [Places -> Results \ {"none", "error"}]

VARIABLES expected,    (* the identities of the batch                      *)
          arrived,     (* the outcomes                                     *)
          next,        (* the outcome looked at next                       *)
          slots,       (* for each identity its outcome, 0 for None        *)
          unexpected, duplicate, misplaced,
          verdict

inputs          == <<expected, arrived>>
flags           == <<unexpected, duplicate, misplaced>>
restorationVars == <<inputs, next, slots, flags, verdict>>

Undecided == [kind |-> "none"]
Refusal(why) == [kind |-> why]

Slots == DOMAIN expected

Unique == \A j, k \in Slots : expected[j].job = expected[k].job => j = k

RestorationInit ==
  /\ expected \in Expectations
  /\ arrived \in Arrivals
  /\ next = 1
  /\ slots = [k \in Slots |-> 0]
  /\ unexpected = FALSE /\ duplicate = FALSE /\ misplaced = FALSE
  /\ verdict = Undecided

NotUnique ==
  /\ verdict = Undecided
  /\ ~ Unique
  /\ verdict' = Refusal("identities are not unique")
  /\ UNCHANGED <<inputs, next, slots, flags>>

Fits(outcome, k) == outcome.job = expected[k].job

AtAnyPlace(outcome, k) == TRUE   \* Slip: the job alone identifies an outcome.

AtItsPlace(outcome, k) == outcome.place = expected[k].place

Working ==
  /\ verdict = Undecided
  /\ Unique
  /\ next \in DOMAIN arrived
  /\ next' = next + 1
  /\ UNCHANGED <<inputs, verdict>>

Foreign ==
  /\ Working
  /\ \A k \in Slots : ~ Fits(arrived[next], k)
  /\ unexpected' = TRUE
  /\ UNCHANGED <<slots, duplicate, misplaced>>

Repeated ==
  /\ Working
  /\ \E k \in Slots : Fits(arrived[next], k) /\ slots[k] # 0
  /\ duplicate' = TRUE
  /\ UNCHANGED <<slots, unexpected, misplaced>>

(* Slip: the last outcome of an identity wins.                             *)
OverwriteSlot ==
  /\ Working
  /\ \E k \in Slots :
       /\ Fits(arrived[next], k)
       /\ slots' = [slots EXCEPT ![k] = next]
       /\ misplaced' = (misplaced \/ ~ AtItsPlace(arrived[next], k))
  /\ UNCHANGED <<unexpected, duplicate>>

FillSlot ==
  /\ Working
  /\ \E k \in Slots :
       /\ Fits(arrived[next], k)
       /\ slots[k] = 0
       /\ slots' = [slots EXCEPT ![k] = next]
       /\ misplaced' = (misplaced \/ ~ AtItsPlace(arrived[next], k))
  /\ UNCHANGED <<unexpected, duplicate>>

(* What is wrong with the outcome in a slot, if anything.                  *)
Fault(result, place) ==
  IF result = "none" THEN "no output"
  ELSE IF result = "error" THEN "worker error"
  ELSE IF result # ProductOf[place] THEN "wrong kind"
  ELSE "fine"

Fine(k) == Fault(arrived[slots[k]].result, expected[k].place) = "fine"

FirstFault(k) == ~ Fine(k) /\ \A j \in Slots : j < k => Fine(j)

(* The precedence of contract errors, then of the outcomes' own, by slot.  *)
Decide ==
  /\ verdict = Undecided
  /\ Unique
  /\ next \notin DOMAIN arrived
  /\ \/ /\ unexpected
        /\ verdict' = Refusal("unexpected identity")
     \/ /\ ~ unexpected /\ duplicate
        /\ verdict' = Refusal("repeated identity")
     \/ /\ ~ unexpected /\ ~ duplicate /\ misplaced
        /\ verdict' = Refusal("wrong place")
     \/ /\ ~ unexpected /\ ~ duplicate /\ ~ misplaced
        /\ \E k \in Slots : slots[k] = 0
        /\ verdict' = Refusal("missing")
     \/ /\ ~ unexpected /\ ~ duplicate /\ ~ misplaced
        /\ \A k \in Slots : slots[k] # 0
        /\ \/ \E k \in Slots :
                /\ FirstFault(k)
                /\ verdict' = Refusal(Fault(arrived[slots[k]].result, expected[k].place))
           \/ /\ \A k \in Slots : Fine(k)
              /\ verdict' = [kind |-> "restored",
                             results |-> [k \in Slots |-> arrived[slots[k]].result]]
  /\ UNCHANGED <<inputs, next, slots, flags>>

RestorationNext == NotUnique \/ Foreign \/ Repeated \/ FillSlot \/ Decide

RestorationSpec == RestorationInit /\ [][RestorationNext]_restorationVars

-----------------------------------------------------------------------------
(* The same judgement, from the outcomes as a bag: no order, no loop.      *)

Outcomes == DOMAIN arrived

Stray    == \E i \in Outcomes : \A k \in Slots : ~ Fits(arrived[i], k)
Twice    == \E i, j \in Outcomes, k \in Slots : i # j /\ Fits(arrived[i], k) /\ Fits(arrived[j], k)
Astray   == \E i \in Outcomes, k \in Slots :
              Fits(arrived[i], k) /\ arrived[i].place # expected[k].place
Lost     == \E k \in Slots : \A i \in Outcomes : ~ Fits(arrived[i], k)

(* Contract errors are told in one precedence, whatever the completion     *)
(* order of the workers.                                                   *)
PrecedenceIndependentOfOrder ==
  verdict # Undecided /\ Unique =>
    /\ verdict.kind = "unexpected identity" <=> Stray
    /\ verdict.kind = "repeated identity"   <=> ~ Stray /\ Twice
    /\ verdict.kind = "wrong place"         <=> ~ Stray /\ ~ Twice /\ Astray
    /\ verdict.kind = "missing"             <=> ~ Stray /\ ~ Twice /\ ~ Astray /\ Lost

(* A batch is restored only when every planned identity came back exactly  *)
(* once, at its place, and with the product that belongs there; each       *)
(* result then stands where its job was planned.                           *)
RestoresExactly ==
  verdict.kind = "restored" =>
    /\ Unique /\ ~ Stray /\ ~ Twice /\ ~ Astray /\ ~ Lost
    /\ \A k \in Slots, i \in Outcomes :
         Fits(arrived[i], k) => /\ arrived[i].result = ProductOf[expected[k].place]
                                /\ verdict.results[k] = arrived[i].result
=============================================================================
