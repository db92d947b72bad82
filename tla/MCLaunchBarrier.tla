--------------------------- MODULE MCLaunchBarrier ---------------------------
(***************************************************************************)
(* Two tokens for the coordinate <<0, 0>>, one of them issued in place of  *)
(* the other, and one for a coordinate of a round that starts the other    *)
(* way round. The file of the second lies ready to take the place of the   *)
(* first, and so does a symbolic link.                                     *)
(***************************************************************************)
EXTENDS LaunchedChildren

CONSTANTS t1, t2, t3, i1, i2, i3, ln

MCTokens  == {t1, t2, t3}
MCCoordOf == [t \in MCTokens |-> IF t = t3 THEN <<1, 5>> ELSE <<0, 0>>]

MCNames  == [x \in Coords |-> IF x = <<0, 0>> THEN i1 ELSE i3]
File(t)  == [kind |-> "file", text |-> TextOf(t), links |-> 1, stamp |-> 0]
MCInodes == [i \in Inodes |-> IF i = i1 THEN File(t1) ELSE IF i = i2 THEN File(t2)
                              ELSE IF i = i3 THEN File(t3)
                              ELSE [kind |-> "link", text |-> <<>>, links |-> 1, stamp |-> 0]]

MCDisturbed == {<<0, 0>>}

(* The bound: children read one after the other, while the others have not *)
(* made themselves known or have ended.                                    *)
ReadsApart ==
  \A c \in Children : Reading(c) =>
    \A d \in Children \ {c} : pc[d] \in {"new", "prepared"} \cup Ended /\ ~Reading(d)
=============================================================================
