----------------------------- MODULE LaunchFrames -----------------------------
(***************************************************************************)
(* What a launch token, a ready frame and a release frame say              *)
(* (src/issuer/issuance_benchmark/launch_barrier.rs). A fingerprint is     *)
(* the thing it is of. The text of a token is a head, with the campaign    *)
(* and the coordinate, and a tail, with the nonce and the pseudonym; each  *)
(* is named by the token it was written for.                               *)
(***************************************************************************)
EXTENDS Integers, Sequences

CONSTANT CoordOf   (* the coordinate of each token                          *)

TextOf(t) == <<t, t>>

(* parse_canonical_pretty_json and validate_token: exactly one rendering   *)
(* of a token is accepted, so the text has both its parts and no more.     *)
IsToken(text) == Len(text) = 2

(* The token a text is of; one put together from two is neither.           *)
TokenIn(text) == IF text[1] = text[2] THEN text[1] ELSE "torn"

(* coordinate_stem, from which every path of a coordinate is formed.       *)
StemOf(text) == CoordOf[text[1]]

(* Schema, campaign, coordinate and timing_process_id go together.         *)
Identity(text) == [coordinate |-> CoordOf[text[1]], pseudonym |-> text[2]]

ReadyFrame(text, binary) ==
  [identity |-> Identity(text), launch_token |-> text, fixed_binary |-> binary]

(* The controller fills the release from the ready frame it answers and    *)
(* from its record of the start of the process.                            *)
ReleaseFrame(frame) ==
  [identity |-> frame.identity, launch_token |-> frame.launch_token, ready_frame |-> frame,
   start_record |-> 1, prepared_at |-> <<2024, 2, 29, 23, 59, 59>>]

(* valid_artifact_fingerprint of the record of the start, which is only    *)
(* known by its length.                                                    *)
ValidRecord(bytes) == bytes \in 1..65536

(* valid_utc_rfc3339_nanoseconds.                                          *)
IsLeapYear(y)   == y % 4 = 0 /\ (y % 100 # 0 \/ y % 400 = 0)
MonthDays(y, m) == IF m = 2 THEN (IF IsLeapYear(y) THEN 29 ELSE 28)
                   ELSE IF m \in {4, 6, 9, 11} THEN 30 ELSE 31
ValidInstant(i) == /\ i[1] >= 1 /\ i[2] \in 1..12 /\ i[3] \in 1..MonthDays(i[1], i[2])
                   /\ i[4] <= 23 /\ i[5] <= 59 /\ i[6] <= 59

(* validate_release.                                                       *)
Answers(release, text, frame) ==
  /\ release.identity = Identity(text)
  /\ release.launch_token = text
  /\ release.ready_frame = frame
  /\ ValidRecord(release.start_record) /\ ValidInstant(release.prepared_at)
=============================================================================
