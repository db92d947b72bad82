---------------------------- MODULE LaunchSchedule ----------------------------
(***************************************************************************)
(* The frozen schedule of the issuance qualification campaign              *)
(* (src/issuer/issuance_benchmark/launch_barrier.rs): which route a        *)
(* coordinate measures. A is the serial oracle, B the adaptive candidate;  *)
(* cells (fixture and stage) only choose whose pair of ids is meant.       *)
(* Rounds and positions count from 0, as in the launch token.              *)
(***************************************************************************)
EXTENDS Integers, FiniteSets

MAX_GLOBAL_ROUNDS       == 20
MAX_EXPANSION_POSITIONS == 8

Rounds      == 0..(MAX_GLOBAL_ROUNDS - 1)
Positions   == 0..(MAX_EXPANSION_POSITIONS - 1)
Routes      == {"serial", "adaptive"}
Coordinates == Rounds \X Positions

(* SUPERBLOCK_ORDERS: the rounds that start with an ABBA block.            *)
AbbaFirst == {0, 3, 5, 6, 8, 11, 12, 15, 17, 19}

AlternatingSerial == {0, 2, 4, 6}   \* Slip: the routes alternate.

(* ABBA_EXPANSION is ABBA BAAB, BAAB_EXPANSION its exchange.               *)
SerialInAbba == {0, 3, 5, 6}

(* scheduled_benchmark_id.                                                 *)
ScheduledRoute(x) ==
  IF (x[1] \in AbbaFirst) = (x[2] \in SerialInAbba) THEN "serial" ELSE "adaptive"

(* What a route has in common with the measurement at x: the slots of its  *)
(* block of four, and the rounds, that measure the same.                   *)
BlockOf(x)          == {p \in Positions : p \div 4 = x[2] \div 4}
SlotsOf(x, route)   == {p \in BlockOf(x) : ScheduledRoute(<<x[1], p>>) = route}
RoundsOf(x, route)  == {r \in Rounds : ScheduledRoute(<<r, x[2]>>) = route}

(* The slot as far from the end of its block as p is from its start.       *)
MirrorOf(p) == 8 * (p \div 4) + 3 - p
=============================================================================
