------------------------------ MODULE BoundFiles ------------------------------
(***************************************************************************)
(* Reading one file that others may change meanwhile: BoundRegularFile and *)
(* read_bounded_regular_file of                                            *)
(* src/issuer/issuance_benchmark/launch_barrier.rs, as built for Unix. The *)
(* bytes of a file are a few pieces; what stat tells of it is its number,  *)
(* kind, length, links and stamp (modified, changed and mode together).    *)
(*                                                                         *)
(* Every change of a file gives it a stamp of its own. File systems whose  *)
(* clock ticks more slowly than files change do not promise that, and      *)
(* there a change within the tick of the one before goes unnoticed.        *)
(***************************************************************************)
EXTENDS Integers, Sequences, SequencesExt

CONSTANTS Readers, Paths, Inodes,
          Texts,       (* what others may write                             *)
          Disturbed,   (* the paths whose files others change               *)
          MaxPieces,   (* the bound on the length of what is read           *)
          MaxChanges   (* bound of the model: changes by others             *)

VARIABLES names,   (* what each path names                                  *)
          inode,   (* kind, pieces, links and stamp of each inode           *)
          clock,   (* the stamp of the last change                          *)
          reader   (* how far each reader is, and what it has in hand       *)

fileVars == <<names, inode, clock, reader>>

Nothing == "nothing"   \* a path that names nothing, a handle not opened
Unseen  == [bytes |-> -1]

Reader(step, taken) == [step |-> step, handle |-> Nothing, initial |-> Unseen, seen |-> Unseen,
                        again |-> Nothing, read |-> FALSE, taken |-> taken]

-----------------------------------------------------------------------------
Stat(i) == [id |-> i, kind |-> inode[i].kind, bytes |-> Len(inode[i].text),
            links |-> inode[i].links, stamp |-> inode[i].stamp]

(* What checked_path_file_metadata and regular_file_snapshot ask for.      *)
Regular(s) == s.kind = "file" /\ s.links = 1 /\ s.bytes <= MaxPieces

Exists(p)   == names[p] # Nothing
Openable(p) == Exists(p) /\ inode[names[p]].kind # "link"   \* O_NOFOLLOW

AtStep(r, step) == reader[r].step = step
Continue(r, s)  == reader' = [reader EXCEPT ![r] = s]
Refuse(r)       == Continue(r, Reader("refused", <<>>))

(* A step that needs ok to hold, and stops the reading where it does not.  *)
Provided(r, ok, s) == IF ok THEN Continue(r, s) ELSE Refuse(r)

(* lstat of the path.                                                      *)
LookAtPath(r, p) ==
  /\ AtStep(r, "start")
  /\ IF Exists(p)
       THEN LET s == Stat(names[p])
            IN  Provided(r, Regular(s), [reader[r] EXCEPT !.step = "looked", !.seen = s])
       ELSE Refuse(r)

(* open_regular_file_no_follow.                                            *)
Open(r, p) ==
  /\ AtStep(r, "looked")
  /\ Provided(r, Openable(p), [reader[r] EXCEPT !.step = "opened", !.handle = names[p]])

(* fstat of the handle: the snapshot all later ones are compared with.     *)
Bind(r) ==
  /\ AtStep(r, "opened")
  /\ LET s == Stat(reader[r].handle)
     IN  Provided(r, Regular(s) /\ s = reader[r].seen,
                [reader[r] EXCEPT !.step = "bound", !.initial = s, !.seen = Unseen])

(* verify_unchanged_and_bound: the handle, the path, and what the path     *)
(* opens now.                                                              *)
CheckHandle(r) ==
  /\ AtStep(r, "bound")
  /\ Provided(r, Stat(reader[r].handle) = reader[r].initial,
              [reader[r] EXCEPT !.step = "unchanged"])

LookAgain(r, p) ==
  /\ AtStep(r, "unchanged")
  /\ IF Exists(p)
       THEN LET s == Stat(names[p])
            IN  Provided(r, Regular(s), [reader[r] EXCEPT !.step = "seen", !.seen = s])
       ELSE Refuse(r)

OpenAgain(r, p) ==
  /\ AtStep(r, "seen")
  /\ Provided(r, Openable(p), [reader[r] EXCEPT !.step = "reopened", !.again = names[p]])

CheckAgain(r) ==
  /\ AtStep(r, "reopened")
  /\ LET s == Stat(reader[r].again)
         same == s = reader[r].initial /\ s = reader[r].seen
     IN  Provided(r, same,
                IF reader[r].read THEN Reader("accepted", reader[r].taken)
                ELSE [reader[r] EXCEPT !.step = "reading", !.seen = Unseen, !.again = Nothing])

(* One read of the handle, at the offset reached so far.                   *)
ReadPiece(r) ==
  LET text == inode[reader[r].handle].text
      n    == Len(reader[r].taken)
  IN  /\ AtStep(r, "reading") /\ n < Len(text) /\ n < MaxPieces + 1
      /\ Continue(r, [reader[r] EXCEPT !.taken = Append(@, text[n + 1])])

(* Slip: the file is not looked at again once it is read.                  *)
EndUnchecked(r) ==
  LET n == Len(reader[r].taken)
  IN  /\ AtStep(r, "reading")
      /\ n >= Len(inode[reader[r].handle].text) \/ n = MaxPieces + 1
      /\ Provided(r, n <= MaxPieces /\ n = reader[r].initial.bytes,
                Reader("accepted", reader[r].taken))

(* read_to_end has met the end, or the limit and one more.                 *)
EndOfRead(r) ==
  LET n == Len(reader[r].taken)
  IN  /\ AtStep(r, "reading")
      /\ n >= Len(inode[reader[r].handle].text) \/ n = MaxPieces + 1
      /\ Provided(r, n <= MaxPieces /\ n = reader[r].initial.bytes,
                [reader[r] EXCEPT !.step = "bound", !.read = TRUE])

Reading(r) == reader[r].step \notin {"idle", "accepted", "refused"}

(* Any of the calls may fail.                                              *)
CallFails(r) == Reading(r) /\ Refuse(r)

ReadStep(r, p) ==
  /\ \/ LookAtPath(r, p) \/ Open(r, p) \/ Bind(r)
     \/ CheckHandle(r) \/ LookAgain(r, p) \/ OpenAgain(r, p) \/ CheckAgain(r)
     \/ ReadPiece(r) \/ EndOfRead(r) \/ CallFails(r)
  /\ UNCHANGED <<names, inode, clock>>

-----------------------------------------------------------------------------
(* The others.                                                             *)

Touch(i, text, links) ==
  inode' = [inode EXCEPT ![i].text = text, ![i].links = links, ![i].stamp = clock']

Named(i) == \E p \in Paths : names[p] = i

(* One write of a text as a whole; a file left half written is what it is, *)
(* and no reader can tell.                                                 *)
Rewrite(i) ==
  /\ inode[i].kind = "file"
  /\ \E text \in Texts : Touch(i, text, inode[i].links)
  /\ UNCHANGED names

Resize(i) ==
  /\ inode[i].kind = "file" /\ inode[i].text # <<>>
  /\ \E text \in {Append(inode[i].text, Last(inode[i].text)), Front(inode[i].text)} :
       Touch(i, text, inode[i].links)
  /\ UNCHANGED names

AddLink(i) == Touch(i, inode[i].text, inode[i].links + 1) /\ UNCHANGED names

(* Something that was kept aside is renamed to the path, or the path goes. *)
RenameOver(p, i) ==
  /\ ~Named(i) /\ inode[i].links > 0
  /\ names' = [names EXCEPT ![p] = i]
  /\ inode' = [j \in Inodes |->
                IF j = i THEN [inode[j] EXCEPT !.stamp = clock']
                ELSE IF j = names[p] THEN [inode[j] EXCEPT !.links = @ - 1, !.stamp = clock']
                ELSE inode[j]]

RemoveName(p) ==
  /\ Exists(p)
  /\ names' = [names EXCEPT ![p] = Nothing]
  /\ Touch(names[p], inode[names[p]].text, inode[names[p]].links - 1)

(* Of changes that come while nobody reads only the outcome matters.       *)
Change ==
  /\ \E r \in Readers : Reading(r)
  /\ clock < MaxChanges /\ clock' = clock + 1
  /\ \/ \E p \in Disturbed, i \in Inodes : names[p] = i /\ (Rewrite(i) \/ Resize(i) \/ AddLink(i))
     \/ \E p \in Disturbed : RemoveName(p) \/ \E i \in Inodes : RenameOver(p, i)
  /\ UNCHANGED reader
=============================================================================
