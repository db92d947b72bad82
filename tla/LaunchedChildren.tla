--------------------------- MODULE LaunchedChildren ---------------------------
(***************************************************************************)
(* The children of LaunchBarrier as launch_barrier.rs has them: the        *)
(* environment they are started with, the token read from a file that      *)
(* others may change, and frames that are compared field by field. The     *)
(* variables of LaunchBarrier go along and say what all this amounts to;   *)
(* that the steps are steps of LaunchBarrier is what has to be shown.      *)
(***************************************************************************)
EXTENDS LaunchBarrier, Sequences

CONSTANTS Inodes, InitialNames, InitialInodes,
          Disturbed,   (* the coordinates whose token files others change   *)
          MaxPieces, MaxChanges,
          MaxFlaws   (* bound of the model: environments not as frozen      *)

VARIABLES environment,   (* of each child                                   *)
          frames,        (* the ready frames the controller has             *)
          stdin,         (* what each child finds there: {} or {release}    *)
          names, inode, clock, reader

tokenFiles == <<names, inode, clock, reader>>
allVars    == <<vars, environment, frames, stdin, tokenFiles>>

INSTANCE LaunchFrames
INSTANCE BoundFiles WITH Readers <- Children, Paths <- Coords, Texts <- {TextOf(t) : t \in Tokens}

(* The texts of token files: as a whole of one token, though perhaps cut   *)
(* off or with something more.                                             *)
TextsOfOne == {text \in Seq(Tokens) : \A k \in 1..Len(text) : text[k] = text[1]}

ASSUME ChildrenAssumption ==
  /\ MaxPieces \in Nat \ {0} /\ MaxChanges \in Nat /\ MaxFlaws \in Nat
  /\ Mangled \notin Tokens
  /\ Disturbed \subseteq Coords
  /\ InitialNames \in [Coords -> Inodes \cup {Nothing}]
  /\ InitialInodes \in [Inodes -> [kind : {"file", "link"}, text : TextsOfOne,
                                  links : Nat, stamp : {0}]]

-----------------------------------------------------------------------------
(* The environment.                                                        *)

Allowlist == {"CRITERION_HOME", "MARTY_PERF_START_BARRIER", "NO_COLOR", "RUST_BACKTRACE",
              "SD_JWT_ISSUANCE_ROUTE_BENCHMARK_ID", "SD_JWT_ISSUANCE_ROUTE_NDJSON", "TEMP", "TMP"}

(* The names that are set, whether NO_COLOR and RUST_BACKTRACE have their  *)
(* values, and the coordinates whose paths the others are.                 *)
Frozen(x) == [names |-> Allowlist, literals |-> TRUE,
              token |-> x, home |-> x, route |-> x, temp |-> x, tmp |-> x]

Flawed(x) ==
  {[Frozen(x) EXCEPT !.names = Allowlist \ {"TMP"}], [Frozen(x) EXCEPT !.names = @ \cup {"PATH"}],
   [Frozen(x) EXCEPT !.literals = FALSE]}
    \cup UNION {{[Frozen(x) EXCEPT !.home = y], [Frozen(x) EXCEPT !.route = y],
                 [Frozen(x) EXCEPT !.temp = y], [Frozen(x) EXCEPT !.tmp = y]} :
                  y \in Coords \ {x}}

(* validate_environment_allowlist.                                         *)
NamesAllowed(c) == environment[c].names = Allowlist

(* Slip: the destination of the route evidence is taken as it is.          *)
MostPathsExact(c, text) ==
  LET e == environment[c] IN \A x \in {e.token, e.home, e.temp, e.tmp} : x = StemOf(text)

(* require_exact_absolute_path, for each path against the coordinate of    *)
(* the token.                                                              *)
PathsExact(c, text) ==
  LET e == environment[c] IN \A x \in {e.token, e.home, e.route, e.temp, e.tmp} : x = StemOf(text)

(* validate_literal_environment.                                           *)
LiteralsSet(c) == environment[c].literals

(* require_empty_directory and require_path_absent, before the ready frame *)
(* and again after the release (validate_mutable_paths_after_release).     *)
PathsUnused(c, text) ==
  /\ home[environment[c].home] = "empty"
  /\ route[environment[c].route] = NoRoute
  /\ receipt[StemOf(text)] = NoReceipt

-----------------------------------------------------------------------------
ChildrenInit ==
  /\ Init
  /\ environment \in [Children -> UNION {{Frozen(x)} \cup Flawed(x) : x \in Coords}]
  /\ \A c \in Children : environment[c].token = at[c]
  /\ Cardinality({c \in Children : environment[c] # Frozen(at[c])}) <= MaxFlaws
  /\ frames = {}
  /\ stdin = [c \in Children |-> {}]
  /\ names = InitialNames /\ inode = InitialInodes /\ clock = 0
  /\ reader = [c \in Children |-> Reader("idle", <<>>)]

Text(c)    == reader[c].taken
OwnFrame(c) == ReadyFrame(Text(c), "fixed-benchmark")

(* Nobody looks at the token files again once every child has its token,   *)
(* and the model forgets what became of them.                              *)
Forgets(c) ==
  IF \A d \in Children \ {c} : pc[d] # "new"
  THEN names' = InitialNames /\ inode' = InitialInodes /\ clock' = 0
  ELSE UNCHANGED <<names, inode, clock>>

Start(c) ==
  /\ pc[c] = "new" /\ reader[c].step = "idle"
  /\ \/ NamesAllowed(c) /\ Continue(c, Reader("start", <<>>)) /\ UNCHANGED pc
     \/ ~NamesAllowed(c) /\ Goto(c, "rejected") /\ UNCHANGED reader
  /\ UNCHANGED <<given, ready, release, files, passed, crashes>>
  /\ UNCHANGED <<environment, frames, stdin, names, inode, clock>>

ReadToken(c) ==
  /\ pc[c] = "new" /\ ReadStep(c, environment[c].token)
  /\ UNCHANGED <<vars, environment, frames, stdin>>

Unreadable(c) ==
  /\ pc[c] = "new" /\ reader[c].step = "refused"
  /\ Goto(c, "rejected") /\ Forgets(c)
  /\ UNCHANGED <<given, ready, release, files, passed, crashes, environment, frames, stdin, reader>>

(* The rest of prepare_from_environment.                                   *)
Admits(c) ==
  /\ IsToken(Text(c)) /\ PathsExact(c, Text(c)) /\ LiteralsSet(c)
  /\ PathsUnused(c, Text(c)) /\ OnSchedule(c)

PrepareChild(c) ==
  /\ pc[c] = "new" /\ reader[c].step = "accepted"
  /\ \/ Admits(c) /\ token' = [token EXCEPT ![c] = TokenIn(Text(c))] /\ Goto(c, "prepared")
     \/ ~Admits(c) /\ UNCHANGED token /\ Goto(c, "rejected")
  /\ Forgets(c)
  /\ UNCHANGED <<at, selected, ready, release, files, passed, crashes>>
  /\ UNCHANGED <<environment, frames, stdin, reader>>

(* The tokens whose ready frames are among fs.                             *)
Announced(fs) == {t \in Tokens : ReadyFrame(TextOf(t), "fixed-benchmark") \in fs}

SendReady(c) ==
  /\ pc[c] = "prepared"
  /\ \/ frames' = frames \cup {OwnFrame(c)} /\ Goto(c, "waiting")
     \/ UNCHANGED frames /\ Goto(c, "rejected")
  /\ ready' = Announced(frames')
  /\ UNCHANGED <<given, release, files, passed, crashes, environment, stdin, tokenFiles>>

NotAFrame == [canonical |-> FALSE]   \* truncated, oversized, another rendering

(* complete_after_release.                                                 *)
ReceiveRelease(c) ==
  /\ pc[c] = "waiting"
  /\ \E r \in stdin[c] :
       LET answers == r # NotAFrame /\ Answers(r, Text(c), OwnFrame(c))
       IN  Goto(c, IF answers /\ PathsUnused(c, Text(c)) THEN "validated" ELSE "rejected")
  /\ stdin' = [stdin EXCEPT ![c] = {}]
  /\ UNCHANGED <<given, ready, release, files, passed, crashes>>
  /\ UNCHANGED <<environment, frames, tokenFiles>>

(* The receipt is made as in LaunchBarrier.                                *)
MakeReceipt(c) ==
  /\ CreateReceipt(c) \/ WriteReceipt(c) \/ SyncReceipt(c) \/ SyncParent(c)
  /\ UNCHANGED <<environment, frames, stdin, tokenFiles>>

(* Evidence and measurements go where the environment says.                *)
ReserveEvidence(c) ==
  LET x == environment[c].route
  IN  /\ pc[c] = "passed"
      /\ \/ /\ route[x] = NoRoute
            /\ route' = [route EXCEPT ![x] = [stage |-> "reserved", by |-> c]]
            /\ Goto(c, "measuring")
         \/ UNCHANGED route /\ Goto(c, "failed")
      /\ UNCHANGED <<given, ready, release, receipt, home, passed, crashes>>
      /\ UNCHANGED <<environment, frames, stdin, tokenFiles>>

MeasureAtHome(c) ==
  /\ pc[c] = "measuring"
  /\ home' = [home EXCEPT ![environment[c].home] = "used"]
  /\ pc' \in {[pc EXCEPT ![c] = l] : l \in {"measured", "failed"}}
  /\ UNCHANGED <<given, ready, release, receipt, route, passed, crashes>>
  /\ UNCHANGED <<environment, frames, stdin, tokenFiles>>

FinishEvidence(c) ==
  /\ pc[c] = "measured"
  /\ \/ /\ route' = [route EXCEPT ![environment[c].route] = [stage |-> "complete", by |-> c]]
        /\ Goto(c, "finished")
     \/ UNCHANGED route /\ Goto(c, "failed")
  /\ UNCHANGED <<given, ready, release, receipt, home, passed, crashes>>
  /\ UNCHANGED <<environment, frames, stdin, tokenFiles>>

-----------------------------------------------------------------------------
(* A release answers one ready frame, with a record and an instant that    *)
(* may be wrong, or takes a part from another, or is mangled.              *)
AnswersTo(f) ==
  {ReleaseFrame(f), [ReleaseFrame(f) EXCEPT !.start_record = 0],
   [ReleaseFrame(f) EXCEPT !.prepared_at = <<2023, 2, 29, 0, 0, 0>>]}
PutTogether(f, g) ==
  {[ReleaseFrame(f) EXCEPT !.ready_frame = g],
   [ReleaseFrame(f) EXCEPT !.launch_token = g.launch_token],
   [ReleaseFrame(f) EXCEPT !.identity = g.identity]}

Releases(fs) ==
  (UNION {AnswersTo(f) : f \in fs}) \cup (UNION {PutTogether(f, g) : f \in fs, g \in fs})
    \cup {NotAFrame}

(* The token a release means, all its parts taken together.                *)
Meaning(r) ==
  IF \E t \in Tokens : r = ReleaseFrame(ReadyFrame(TextOf(t), "fixed-benchmark"))
  THEN TokenIn(r.launch_token) ELSE Mangled

Answer(c) ==
  /\ pc[c] = "waiting" /\ release[c] = {}
  /\ \E r \in Releases(frames) :
       /\ stdin' = [stdin EXCEPT ![c] = {r}]
       /\ release' = [release EXCEPT ![c] = {Meaning(r)}]
  /\ UNCHANGED <<pc, given, ready, files, passed, crashes, environment, frames, tokenFiles>>

(* Bound: reading a token shares no file with what comes later, so changes *)
(* are looked at before anything else has happened, between children that  *)
(* were started as they should be.                                         *)
Disturb ==
  /\ crashes = 0
  /\ \A c \in Children : pc[c] \in {"new", "prepared"} /\ environment[c] = Frozen(at[c])
  /\ Change
  /\ UNCHANGED <<vars, environment, frames, stdin>>

Around(c) ==
  /\ Kill(c) /\ stdin' = [stdin EXCEPT ![c] = {}]
  /\ UNCHANGED <<environment, frames, tokenFiles>>

(* What reads when the machine stops is as good as not started.            *)
AllStop ==
  /\ MachineStops
  /\ reader' = [c \in Children |-> IF pc[c] = "new" THEN Reader("idle", <<>>) ELSE reader[c]]
  /\ stdin' = [c \in Children |-> {}]
  /\ UNCHANGED <<environment, frames, names, inode, clock>>

LaunchedStep(c) ==
  \/ Start(c) \/ ReadToken(c) \/ Unreadable(c) \/ PrepareChild(c) \/ SendReady(c)
  \/ ReceiveRelease(c) \/ MakeReceipt(c)
  \/ ReserveEvidence(c) \/ MeasureAtHome(c) \/ FinishEvidence(c)

ChildrenNext ==
  \/ \E c \in Children : LaunchedStep(c) \/ Answer(c) \/ Around(c)
  \/ Disturb \/ AllStop

ChildrenSpec == ChildrenInit /\ [][ChildrenNext]_allVars

(* As in LaunchBarrier.                                                    *)
FairChildren == ChildrenSpec /\ \A c \in Children : WF_allVars(LaunchedStep(c))

-----------------------------------------------------------------------------
(* What the children do is what LaunchBarrier has them do: a token is read *)
(* whole and is of the coordinate whose files are used, whoever changes    *)
(* its file meanwhile, and a release passes only if every part of it       *)
(* answers this child.                                                     *)
ImplementsBarrier == Spec
=============================================================================
