---------------------------- MODULE LaunchBarrier ----------------------------
(***************************************************************************)
(* The child side of the issuance launch barrier                           *)
(* (src/issuer/issuance_benchmark/launch_barrier.rs), the reservation of   *)
(* route evidence that follows it (src/issuer/issuance_benchmark.rs), and  *)
(* the files both leave behind.                                            *)
(*                                                                         *)
(* The controller is external. It may start several children with the same *)
(* launch token - a retry while a late child still runs - issue another    *)
(* token for a coordinate, and misdirect or mangle releases. Children are  *)
(* killed and the machine stops at any point; then only what was synced is *)
(* sure to be found again. File systems are those of Unix. A fingerprint   *)
(* is the thing itself; there is one binary.                               *)
(***************************************************************************)
EXTENDS LaunchSchedule

CONSTANTS Children,
          Tokens,     (* launch tokens, each with its own pseudonym         *)
          CoordOf,    (* the coordinate of each, which names all its paths  *)
          MaxCrashes  (* bound of the model: how often the machine stops    *)

ASSUME LaunchAssumption ==
  /\ CoordOf \in [Tokens -> Coordinates]
  /\ MaxCrashes \in Nat

VARIABLES pc,        (* where each child is                                 *)
          at,        (* the coordinate whose paths it was started with      *)
          token,     (* the token it has read                               *)
          selected,  (* the route of its SD_JWT_ISSUANCE_ROUTE_BENCHMARK_ID *)
          ready,     (* tokens whose ready frame the controller has         *)
          release,   (* what the child reads from its stdin: {} or {frame}  *)
          receipt,   (* the receipt of each coordinate                      *)
          home,      (* its Criterion home: "empty" or "used"               *)
          route,     (* its route evidence                                  *)
          passed,    (* the children that passed the barrier (history)      *)
          crashes

files == <<receipt, home, route>>
given == <<at, token, selected>>
vars  == <<pc, given, ready, release, files, passed, crashes>>

Mangled   == "mangled"   \* truncated, oversized, not canonical
NoToken   == "none"
NoReceipt == [stage |-> "none"]
NoRoute   == [stage |-> "none"]

Coords == {CoordOf[t] : t \in Tokens}

Init ==
  /\ pc = [c \in Children |-> "new"]
  /\ at \in [Children -> Coords]
  /\ token = [c \in Children |-> NoToken]
  /\ selected \in [Children -> Routes]
  /\ ready = {}
  /\ release = [c \in Children |-> {}]
  /\ receipt = [x \in Coords |-> NoReceipt]
  /\ home = [x \in Coords |-> "empty"]
  /\ route = [x \in Coords |-> NoRoute]
  /\ passed = {}
  /\ crashes = 0

At(c) == at[c]

Goto(c, l) == pc' = [pc EXCEPT ![c] = l]

-----------------------------------------------------------------------------
(* The child.                                                              *)

(* require_empty_directory and require_path_absent. While the machine runs *)
(* these files only come into being, so they may be looked at together.    *)
Untouched(x) == home[x] = "empty" /\ route[x] = NoRoute /\ receipt[x] = NoReceipt

(* validate_selected_invocation.                                           *)
OnSchedule(c) == selected[c] = ScheduledRoute(At(c))

(* prepare_from_environment. The token file may be replaced while children *)
(* start, so which token of the coordinate is read is open; and anything   *)
(* may be found wanting.                                                   *)
Prepare(c) ==
  /\ pc[c] = "new"
  /\ \/ /\ Untouched(At(c)) /\ OnSchedule(c)
        /\ \E t \in Tokens : CoordOf[t] = At(c) /\ token' = [token EXCEPT ![c] = t]
        /\ Goto(c, "prepared")
     \/ UNCHANGED token /\ Goto(c, "rejected")
  /\ UNCHANGED <<at, selected, ready, release, files, passed, crashes>>

WriteReady(c) ==
  /\ pc[c] = "prepared"
  /\ \/ ready' = ready \cup {token[c]} /\ Goto(c, "waiting")
     \/ UNCHANGED ready /\ Goto(c, "rejected")
  /\ UNCHANGED <<given, release, files, passed, crashes>>

(* validate_release.                                                       *)
Validates(c, frame) == frame = token[c]

(* read_to_end, parse_canonical_compact_json, validate_release and         *)
(* validate_mutable_paths_after_release.                                   *)
ReadRelease(c) ==
  /\ pc[c] = "waiting"
  /\ \E frame \in release[c] :
       Goto(c, IF Validates(c, frame) /\ Untouched(At(c)) THEN "validated" ELSE "rejected")
  /\ UNCHANGED <<given, ready, release, files, passed, crashes>>

Stage(c, stage) ==
  receipt' = [receipt EXCEPT ![At(c)] =
                [stage |-> stage, by |-> c, token |-> token[c], release |-> release[c]]]

(* Slip: create instead of create_new.                                     *)
CreateReceiptAnyway(c) ==
  /\ pc[c] = "validated"
  /\ Stage(c, "created") /\ Goto(c, "created")
  /\ UNCHANGED <<given, ready, release, home, route, passed, crashes>>

(* Slip: a child waits for its turn.                                       *)
CreateReceiptWaits(c) ==
  /\ pc[c] = "validated"
  /\ receipt[At(c)] = NoReceipt /\ Stage(c, "created") /\ Goto(c, "created")
  /\ UNCHANGED <<given, ready, release, home, route, passed, crashes>>

(* create_new_durable_file, step by step; any step may fail, and a receipt *)
(* that was begun stays.                                                   *)
CreateReceipt(c) ==
  /\ pc[c] = "validated"
  /\ \/ receipt[At(c)] = NoReceipt /\ Stage(c, "created") /\ Goto(c, "created")
     \/ UNCHANGED receipt /\ Goto(c, "rejected")
  /\ UNCHANGED <<given, ready, release, home, route, passed, crashes>>

WriteReceipt(c) ==
  /\ pc[c] = "created"
  /\ \/ Stage(c, "written") /\ Goto(c, "written")
     \/ UNCHANGED receipt /\ Goto(c, "rejected")
  /\ UNCHANGED <<given, ready, release, home, route, passed, crashes>>

SyncReceipt(c) ==
  /\ pc[c] = "written"
  /\ \/ Stage(c, "synced") /\ Goto(c, "synced")
     \/ UNCHANGED receipt /\ Goto(c, "rejected")
  /\ UNCHANGED <<given, ready, release, home, route, passed, crashes>>

(* Slip: the directory entry is not synced.                                *)
LeaveParentUnsynced(c) ==
  /\ pc[c] = "synced"
  /\ UNCHANGED receipt /\ Goto(c, "passed") /\ passed' = passed \cup {c}
  /\ UNCHANGED <<given, ready, release, home, route, crashes>>

(* sync_parent_directory: the barrier is passed.                           *)
SyncParent(c) ==
  /\ pc[c] = "synced"
  /\ \/ Stage(c, "durable") /\ Goto(c, "passed") /\ passed' = passed \cup {c}
     \/ UNCHANGED <<receipt, passed>> /\ Goto(c, "rejected")
  /\ UNCHANGED <<given, ready, release, home, route, crashes>>

(* prepare_issuance_route_sink.                                            *)
ReserveRoute(c) ==
  /\ pc[c] = "passed"
  /\ \/ /\ route[At(c)] = NoRoute
        /\ route' = [route EXCEPT ![At(c)] = [stage |-> "reserved", by |-> c]]
        /\ Goto(c, "measuring")
     \/ UNCHANGED route /\ Goto(c, "failed")
  /\ UNCHANGED <<given, ready, release, receipt, home, passed, crashes>>

(* Criterion measures, and writes to its home from the first sample on.    *)
Measure(c) ==
  /\ pc[c] = "measuring"
  /\ home' = [home EXCEPT ![At(c)] = "used"]
  /\ pc' \in {[pc EXCEPT ![c] = l] : l \in {"measured", "failed"}}
  /\ UNCHANGED <<given, ready, release, receipt, route, passed, crashes>>

(* IssuanceBenchmarkRouteSink::finish.                                     *)
Finish(c) ==
  /\ pc[c] = "measured"
  /\ \/ /\ route' = [route EXCEPT ![At(c)] = [stage |-> "complete", by |-> c]]
        /\ Goto(c, "finished")
     \/ UNCHANGED route /\ Goto(c, "failed")
  /\ UNCHANGED <<given, ready, release, receipt, home, passed, crashes>>

-----------------------------------------------------------------------------
(* Around the child.                                                       *)

(* The controller answers a ready frame it has, writes and closes stdin.   *)
Release(c) ==
  /\ release[c] = {}
  /\ \E frame \in ready \cup {Mangled} : release' = [release EXCEPT ![c] = {frame}]
  /\ UNCHANGED <<pc, given, ready, files, passed, crashes>>

Ended == {"rejected", "failed", "finished", "killed"}

Kill(c) ==
  /\ pc[c] \notin Ended \cup {"new"}
  /\ Goto(c, "killed")
  /\ UNCHANGED <<given, ready, release, files, passed, crashes>>

(* What may be left of a file: one whose entry was not synced may be gone, *)
(* one whose bytes were not synced may be empty.                           *)
ReceiptRemains(f) ==
  IF f = NoReceipt \/ f.stage = "durable" THEN {f}
  ELSE {NoReceipt, f} \cup (IF f.stage = "written" THEN {[f EXCEPT !.stage = "created"]} ELSE {})
RouteRemains(f) == {NoRoute, f}
HomeRemains(f)  == {"empty", f}

(* The possible remains of all files of a kind.                            *)
Found(remains) == {g \in [Coords -> UNION {remains[x] : x \in Coords}] :
                        \A x \in Coords : g[x] \in remains[x]}

MachineStops ==
  /\ crashes < MaxCrashes
  /\ crashes' = crashes + 1
  /\ pc' = [c \in Children |-> IF pc[c] \in Ended \cup {"new"} THEN pc[c] ELSE "killed"]
  /\ receipt' \in Found([x \in Coords |-> ReceiptRemains(receipt[x])])
  /\ route' \in Found([x \in Coords |-> RouteRemains(route[x])])
  /\ home' \in Found([x \in Coords |-> HomeRemains(home[x])])
  /\ UNCHANGED <<given, ready, release, passed>>

ChildStep(c) ==
  \/ Prepare(c) \/ WriteReady(c) \/ ReadRelease(c)
  \/ CreateReceipt(c) \/ WriteReceipt(c) \/ SyncReceipt(c) \/ SyncParent(c)
  \/ ReserveRoute(c) \/ Measure(c) \/ Finish(c)

Next ==
  \/ \E c \in Children : ChildStep(c) \/ Release(c) \/ Kill(c)
  \/ MachineStops

Spec == Init /\ [][Next]_vars

(* The operating system schedules the children; the controller and the     *)
(* machine promise nothing.                                                *)
FairSpec == Spec /\ \A c \in Children : WF_vars(ChildStep(c))

-----------------------------------------------------------------------------
Labels == {"new", "prepared", "waiting", "validated", "created", "written", "synced",
           "passed", "measuring", "measured"} \cup Ended

Frames == Tokens \cup {Mangled}

Receipts == {NoReceipt} \cup
            [stage : {"created", "written", "synced", "durable"}, by : Children,
             token : Tokens \cup {NoToken}, release : SUBSET Frames]
RouteFiles == {NoRoute} \cup [stage : {"reserved", "complete"}, by : Children]

TypeOK ==
  /\ pc \in [Children -> Labels]
  /\ at \in [Children -> Coords] /\ selected \in [Children -> Routes]
  /\ token \in [Children -> Tokens \cup {NoToken}]
  /\ ready \subseteq Tokens
  /\ release \in [Children -> SUBSET Frames]
  /\ receipt \in [Coords -> Receipts]
  /\ route \in [Coords -> RouteFiles]
  /\ home \in [Coords -> {"empty", "used"}]
  /\ passed \subseteq Children

(* However often a launch is repeated, and wherever children or the        *)
(* machine stopped, a coordinate is measured by one child at most.         *)
RunsOnce == \A c, d \in passed : At(c) = At(d) => c = d

(* The campaign favours no route: what a child measured, half of all       *)
(* rounds measure at its position, and its block of four has it in half of *)
(* the slots, which lie symmetrically in the block, so that a drift falls  *)
(* on both routes alike.                                                   *)
Counterbalanced ==
  \A c \in passed :
    LET slots == SlotsOf(At(c), selected[c])
        block == BlockOf(At(c))
    IN  /\ 2 * Cardinality(RoundsOf(At(c), selected[c])) = MAX_GLOBAL_ROUNDS
        /\ 2 * Cardinality(slots) = Cardinality(block)
        /\ \A p \in slots : MirrorOf(p) \in slots

ReceiptOf(c) == [stage |-> "durable", by |-> c, token |-> token[c], release |-> {token[c]}]

(* Once a child has passed, its receipt is found ever after: complete, and *)
(* binding a token of its coordinate to a release that answered its own    *)
(* ready frame.                                                            *)
ReceiptOutlivesRun ==
  \A c \in passed : receipt[At(c)] = ReceiptOf(c) /\ CoordOf[token[c]] = At(c)

(* Whatever a measurement left behind was left by a child that passed, on  *)
(* the route the schedule has for the coordinate: evidence without its     *)
(* receipt is never found, not even after a crash.                         *)
NothingUnaccounted ==
  \A x \in Coords :
    home[x] = "used" \/ route[x] # NoRoute =>
      \E c \in passed :
        /\ At(c) = x /\ OnSchedule(c)
        /\ route[x] # NoRoute => route[x].by = c

(* A child whose release has arrived ends, whatever is in it.              *)
ReleasedChildrenEnd ==
  \A c \in Children : pc[c] = "waiting" /\ release[c] # {} ~> pc[c] \in Ended
=============================================================================
