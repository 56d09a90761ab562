---------------------------- MODULE SectorStream ----------------------------
(***************************************************************************)
(* What writing to a disk through the controller promises, whatever the    *)
(* timing: the medium changes by whole sectors only.  A write fixes its    *)
(* target when it begins, takes bytes that are never moved or changed      *)
(* afterwards, and lays them on its target when the sector is full; given  *)
(* up before that it lays nothing.  A format lays sectors of the track it  *)
(* began on.  The user may put in another disk at any moment.              *)
(***************************************************************************)
EXTENDS Integers, Sequences

CONSTANTS
  Sectors,   \* sector addresses, natural numbers
  Tracks,    \* the sets of sectors that make up a track
  Values,    \* bytes
  Size,      \* bytes of a sector
  Disks      \* contents of the disks the user may put in

VARIABLES
  medium,      \* contents of the sectors
  writing,     \* the sector write under way: its target and the bytes taken
  formatting   \* the sectors of the track under format

vars == <<medium, writing, formatting>>

NoWrite == [target |-> -1, taken |-> << >>]
Taken(n) == [1 .. n -> Values]
Writes(s, n) == [target : {s}, taken : Taken(n)]

Open == writing.target \in Sectors

\* A write begins on some sector, in place of whatever was under way.
Begin ==
  /\ \E s \in Sectors : writing' \in Writes(s, 0)
  /\ formatting' = {}
  /\ UNCHANGED medium

Take ==
  /\ Open
  /\ \E n \in 1 .. Size - 1 - Len(writing.taken) : \E more \in Taken(n) :
       writing' = [writing EXCEPT !.taken = @ \o more]
  /\ UNCHANGED <<medium, formatting>>

\* The sector is full; it is refused by a drive without a disk and by a
\* protected disk.  The next write may begin, and take a byte, at once.
Lay ==
  /\ Open
  /\ \E more \in Taken(Size - Len(writing.taken)) :
       medium' \in {medium, [medium EXCEPT ![writing.target] = writing.taken \o more]}
  /\ \/ writing' = NoWrite
     \/ \E s \in Sectors, n \in {0, 1} : writing' \in Writes(s, n)
  /\ formatting' \in {{}} \cup Tracks

GiveUp ==
  /\ writing' = NoWrite
  /\ formatting' \in {{}} \cup Tracks
  /\ UNCHANGED medium

Format ==
  /\ \E s \in formatting, bytes \in Taken(Size) :
       medium' = [medium EXCEPT ![s] = bytes]
  /\ formatting' \in {formatting, {}}
  /\ UNCHANGED writing

ChangeDisk ==
  /\ medium' \in Disks
  /\ UNCHANGED <<writing, formatting>>

Init ==
  /\ medium \in [Sectors -> Taken(Size)]
  /\ writing = NoWrite
  /\ formatting = {}

Next == Begin \/ Take \/ Lay \/ GiveUp \/ Format \/ ChangeDisk

Spec == Init /\ [][Next]_vars
=============================================================================
