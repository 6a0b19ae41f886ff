------------------------------- MODULE Svlogd -------------------------------
(***************************************************************************)
(* svlogd: lines from a pipe go to the file current of a directory, which  *)
(* is renamed when it has grown enough.  The process may be killed at any  *)
(* step, and is started again by whoever supervises it.                    *)
(***************************************************************************)
EXTENDS Naturals, SequencesExt

CONSTANTS
  LogLines,   \* the lengths of the lines that come
  MaxSize,    \* the size at which current is rotated
  MaxLine,    \* the longest line the scanner takes
  Ahead       \* how many lines one read from the pipe may bring

ASSUME SvlogdAssumption ==
  LogLines \in Seq(Nat \ {0}) /\ MaxSize \in Nat /\ MaxLine \in Nat /\ Ahead \in Nat \ {0}

VARIABLES
  sent,       \* lines that have left the pipe
  buffer,     \* those the process holds
  current,    \* the file: a sequence of <<line, bytes of it>>
  present,    \* whether it is there
  rotated,    \* the files it was renamed to, the oldest first
  sv,         \* "down", "up", "closed", "renamed"
  size,       \* the process's count of bytes in current
  lost        \* lines that went with a process

svvars == <<sent, buffer, current, present, rotated, sv, size, lost>>

Bytes(segment) ==
  LET total[i \in 0 .. Len(segment)] == IF i = 0 THEN 0 ELSE total[i - 1] + segment[i][2]
  IN  total[Len(segment)]

SvlogdInit ==
  /\ sent = 0 /\ buffer = <<>> /\ current = <<>> /\ present = FALSE /\ rotated = <<>>
  /\ sv = "down" /\ size = 0 /\ lost = {}

NewWriter ==
  /\ sv = "down" /\ sv' = "up" /\ present' = TRUE /\ size' = Bytes(current)
  /\ UNCHANGED <<sent, buffer, current, rotated, lost>>

ReadPipe ==
  /\ sv = "up" /\ buffer = <<>>
  /\ \E n \in 1 .. Ahead :
       /\ sent + n <= Len(LogLines) /\ sent' = sent + n
       /\ buffer' = [i \in 1 .. n |-> sent + i]
  /\ UNCHANGED <<current, present, rotated, sv, size, lost>>

Line1     == LogLines[Head(buffer)]
MustRotate == size + Line1 > MaxSize /\ size > 0
Ready     == sv = "up" /\ buffer # <<>> /\ Line1 <= MaxLine

(* The process is gone, and what it held with it.                          *)
Dies == sv' = "down" /\ buffer' = <<>> /\ lost' = lost \cup ToSet(buffer) /\ UNCHANGED <<sent, size>>

WriteLine ==
  /\ Ready /\ ~MustRotate
  /\ current' = Append(current, <<Head(buffer), Line1>>) /\ size' = size + Line1
  /\ buffer' = Tail(buffer)
  /\ UNCHANGED <<sent, present, rotated, sv, lost>>

(* Only a part of the line fits on the disk: svlogd ends.                  *)
WriteShort ==
  /\ Ready /\ ~MustRotate
  /\ \E n \in 0 .. Line1 - 1 :
       current' = IF n = 0 THEN current ELSE Append(current, <<Head(buffer), n>>)
  /\ Dies /\ UNCHANGED <<present, rotated>>

(* rotate: close, rename, and open a new file.                             *)
CloseCurrent ==
  /\ Ready /\ MustRotate /\ sv' = "closed"
  /\ UNCHANGED <<sent, buffer, current, present, rotated, size, lost>>
RenameOverLast ==   \* mutant: the new name is the one used before
  /\ sv = "closed" /\ sv' = "renamed"
  /\ rotated' = <<current>> /\ current' = <<>> /\ present' = FALSE
  /\ UNCHANGED <<sent, buffer, size, lost>>
RenameCurrent ==
  /\ sv = "closed" /\ sv' = "renamed"
  /\ rotated' = Append(rotated, current) /\ current' = <<>> /\ present' = FALSE
  /\ UNCHANGED <<sent, buffer, size, lost>>
OpenFresh ==
  /\ sv = "renamed" /\ sv' = "up" /\ present' = TRUE /\ size' = 0
  /\ UNCHANGED <<sent, buffer, current, rotated, lost>>

(* A line longer than the scanner's buffer ends svlogd.                    *)
TooLong ==
  /\ sv = "up" /\ buffer # <<>> /\ Line1 > MaxLine
  /\ Dies /\ UNCHANGED <<current, present, rotated>>

SvlogdKilled == sv # "down" /\ Dies /\ UNCHANGED <<current, present, rotated>>

SvlogdNext ==
  \/ NewWriter \/ ReadPipe \/ WriteLine \/ WriteShort \/ TooLong
  \/ CloseCurrent \/ RenameCurrent \/ OpenFresh \/ SvlogdKilled
SvlogdSpec == SvlogdInit /\ [][SvlogdNext]_svvars

-----------------------------------------------------------------------------
(* Properties. *)

Segments == Append(rotated, current)
LinesIn(segments) == {x[1] : x \in UNION {ToSet(segments[f]) : f \in DOMAIN segments}}
Recorded == LinesIn(Segments)

(* Through rotations and restarts at any step, the files hold the lines in *)
(* order and once each ...                                                 *)
LinesInOrder ==
  \A f, g \in DOMAIN Segments : \A i \in DOMAIN Segments[f], j \in DOMAIN Segments[g] :
    f < g \/ (f = g /\ i < j) => Segments[f][i][1] < Segments[g][j][1]

(* ... and a line is missing only if a process that ended held it.         *)
LinesAccounted == 1 .. sent = Recorded \cup ToSet(buffer) \cup lost

(* No file grows past the limit, except to hold one line, whoever wrote to *)
(* it before.                                                              *)
SegmentsBounded ==
  \A f \in DOMAIN Segments : Bytes(Segments[f]) <= MaxSize \/ Len(Segments[f]) <= 1

(* Rotation at the size limit neither loses nor reorders lines.            *)
LogKept == LinesInOrder /\ LinesAccounted /\ SegmentsBounded
=============================================================================
