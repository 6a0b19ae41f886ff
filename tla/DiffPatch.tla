------------------------------ MODULE DiffPatch ------------------------------
(***************************************************************************)
(* diff and patch (editors/diff, editors/patch).  diff computes an edit    *)
(* script from a longest common subsequence, and prints it in the normal   *)
(* or in the unified format; patch parses the unified one and applies it,  *)
(* forwards or, with -R, backwards, to one file after the other.           *)
(*                                                                         *)
(* A file is the sequence of its lines.  A line of a unified diff is a     *)
(* pair of its tag and a text, a pair of ranges, or the number of a file,  *)
(* which stands for its name.                                              *)
(***************************************************************************)
EXTENDS Integers, FiniteSets, SequencesExt

CONSTANTS
  Pairs,         \* what diff may be given: for each file its old and its new lines
  ContextLines,  \* 3
  Dashed, Plussed  \* the lines that begin with "-- ", and with "++ "

ASSUME ContextAssumption == ContextLines \in Nat

VARIABLES
  dpc,       \* "new", "diff", "patch", "patched" or "malformed"
  dfiles,    \* for each file its old and new lines, and those it has
  dtext,     \* the unified diff of all files
  dreverse,  \* whether patch runs with -R
  dpatches,  \* the patches parsed and not applied yet
  dfailed    \* whether one of them did not apply

dvars == <<dpc, dfiles, dtext, dreverse, dpatches, dfailed>>

Smaller(m, n) == IF m < n THEN m ELSE n
Larger(m, n)  == IF m > n THEN m ELSE n

-----------------------------------------------------------------------------
(* The edit script. *)

(* lcs[i][j] is the length of the longest common subsequence of a and b    *)
(* from i and j on; rows and columns are computed from the last one.       *)
Row(a, b, i, below) ==
  FoldRight(LAMBDA y, row :
              LET j == Len(b) - Len(row) + 1 IN
              <<IF a[i] = y THEN below[j + 1] + 1 ELSE Larger(below[j], Head(row))>> \o row,
            b, <<0>>)
LCS(a, b) ==
  FoldRight(LAMBDA x, rows : <<Row(a, b, Len(a) - Len(rows) + 1, Head(rows))>> \o rows,
            a, << [j \in 1 .. Len(b) + 1 |-> 0] >>)

Op(kind, i, j) == [kind |-> kind, ai |-> i, bi |-> j]

(* One step along the table, and along what is left of one side.           *)
ScriptStep(a, b, lcs, s) ==
  LET both == s.i <= Len(a) /\ s.j <= Len(b)
      same == both /\ a[s.i] = b[s.j]
      delete == IF both THEN lcs[s.i + 1][s.j] >= lcs[s.i][s.j + 1] ELSE s.i <= Len(a)
  IN  CASE same -> [i |-> s.i + 1, j |-> s.j + 1, ops |-> Append(s.ops, Op("equal", s.i, s.j))]
        [] ~same /\ delete -> [s EXCEPT !.i = @ + 1, !.ops = Append(@, Op("delete", s.i, s.j))]
        [] ~same /\ ~delete /\ s.j <= Len(b) ->
             [s EXCEPT !.j = @ + 1, !.ops = Append(@, Op("insert", s.i, s.j))]
        [] OTHER -> s

DiffLines(a, b) ==
  LET lcs == LCS(a, b) IN
  FoldLeft(LAMBDA s, k : ScriptStep(a, b, lcs, s), [i |-> 1, j |-> 1, ops |-> <<>>],
           [k \in 1 .. Len(a) + Len(b) |-> k]).ops

Changed(ops) == SelectSeq([k \in DOMAIN ops |-> k], LAMBDA k : ops[k].kind # "equal")
OfKind(ops, kind) == SelectSeq(ops, LAMBDA o : o.kind = kind)

-----------------------------------------------------------------------------
(* The normal format. *)

(* collectHunks: the maximal runs of changes, first and last.              *)
Runs(ops) ==
  LET change(k) == k \in DOMAIN ops /\ ops[k].kind # "equal"
      firsts == SelectSeq(Changed(ops), LAMBDA k : ~change(k - 1))
      lasts  == SelectSeq(Changed(ops), LAMBDA k : ~change(k + 1))
  IN  [h \in DOMAIN firsts |-> SubSeq(ops, firsts[h], lasts[h])]

(* A command: the lines of a from "from" to "to" are replaced by the lines *)
(* of b from "left" to "right"; a line before the first one for nothing.   *)
Command(a, b, run) ==
  LET dels == OfKind(run, "delete")
      ins  == OfKind(run, "insert")
      aPos == run[1].ai - 1
      bPos == run[1].bi - 1
  IN  [op    |-> CASE ins = <<>> -> "d" [] dels = <<>> -> "a" [] OTHER -> "c",
       from  |-> IF dels = <<>> THEN aPos ELSE aPos + 1, to    |-> aPos + Len(dels),
       left  |-> IF ins = <<>> THEN bPos ELSE bPos + 1,  right |-> bPos + Len(ins),
       old   |-> [k \in DOMAIN dels |-> a[dels[k].ai]],
       new   |-> [k \in DOMAIN ins |-> b[ins[k].bi]]]
Normal(a, b) == LET runs == Runs(DiffLines(a, b)) IN [h \in DOMAIN runs |-> Command(a, b, runs[h])]

-----------------------------------------------------------------------------
(* The unified format. *)

(* groupUnified: changes whose context overlaps or touches go together.    *)
Groups(ops) ==
  LET window(k) == [first |-> Larger(1, k - ContextLines), last |-> Smaller(Len(ops), k + ContextLines)]
      add(ws, k) ==
        IF ws # <<>> /\ k - 1 - ContextLines <= Last(ws).last
        THEN [ws EXCEPT ![Len(ws)].last = window(k).last]
        ELSE Append(ws, window(k))
      windows == FoldLeft(add, <<>>, Changed(ops))
  IN  [w \in DOMAIN windows |-> SubSeq(ops, windows[w].first, windows[w].last)]

(* unifiedRange: the first line and the number of lines, 0 for no line.    *)
UnifiedRange(group, other, index) ==
  LET mine == SelectSeq(group, LAMBDA o : o.kind # other) IN
  [start |-> IF mine = <<>> THEN 0 ELSE mine[1][index], len |-> Len(mine)]

Header(group) ==
  <<"@@", [old |-> UnifiedRange(group, "insert", "ai"),
           new |-> UnifiedRange(group, "delete", "bi")]>>
Body(a, b, group) ==
  [k \in DOMAIN group |->
     LET o == group[k] IN
     CASE o.kind = "equal"  -> <<" ", a[o.ai]>>
       [] o.kind = "delete" -> <<"-", a[o.ai]>>
       [] o.kind = "insert" -> <<"+", b[o.bi]>>]

(* Identical files give no output, not even the names.                     *)
Unified(name, a, b) ==
  LET groups == Groups(DiffLines(a, b)) IN
  IF groups = <<>> THEN <<>>
  ELSE << <<"---", name>>, <<"+++", name>> >>
         \o FlattenSeq([g \in DOMAIN groups |-> <<Header(groups[g])>> \o Body(a, b, groups[g])])

-----------------------------------------------------------------------------
(* patch. *)

(* What begins with "--- " is the name of a file, wherever it stands.      *)
IsOldName(l) == l[1] = "---" \/ (l[1] = "-" /\ l[2] \in Dashed)
IsNewName(l) == l[1] = "+++" \/ (l[1] = "+" /\ l[2] \in Plussed)

(* parseUnified and parseHunk, a line at a time: hunk says whether the     *)
(* line is looked at as part of one, skip that it was read before.         *)
ParseLine(lines, s, n) ==
  LET l == lines[n] IN
  CASE s.bad -> s
    [] ~s.bad /\ s.skip -> [s EXCEPT !.skip = FALSE]
    [] ~s.bad /\ ~s.skip /\ IsOldName(l) ->
         IF n = Len(lines) \/ ~IsNewName(lines[Smaller(n + 1, Len(lines))])
         THEN [s EXCEPT !.bad = TRUE]
         ELSE [s EXCEPT !.patches = Append(@, [name |-> l[2], hunks |-> <<>>]),
                        !.hunk = FALSE, !.skip = TRUE]
    [] ~s.bad /\ ~s.skip /\ l[1] = "@@" ->
         IF s.patches = <<>> THEN [s EXCEPT !.bad = TRUE]
         ELSE [s EXCEPT !.hunk = TRUE,
                        !.patches[Len(s.patches)].hunks =
                           Append(@, [old |-> l[2].old, new |-> l[2].new, lines |-> <<>>])]
    [] ~s.bad /\ ~s.skip /\ ~IsOldName(l) /\ l[1] \in {" ", "-", "+"} /\ s.hunk ->
         LET p == Len(s.patches)
             h == Len(s.patches[p].hunks)
         IN  [s EXCEPT !.patches[p].hunks[h].lines = Append(@, l)]
    [] OTHER -> s
Parse(lines) ==
  FoldLeft(LAMBDA s, n : ParseLine(lines, s, n),
           [patches |-> <<>>, hunk |-> FALSE, skip |-> FALSE, bad |-> FALSE],
           [n \in DOMAIN lines |-> n])

Opposite(tag) == CASE tag = "-" -> "+" [] tag = "+" -> "-" [] tag = " " -> " "
ReverseHunk(h) ==
  [old |-> h.new, new |-> h.old,
   lines |-> [k \in DOMAIN h.lines |-> <<Opposite(h.lines[k][1]), h.lines[k][2]>>]]

ApplyLine(orig, s, l) ==
  CASE ~s.ok -> s
    [] s.ok /\ l[1] = "+" -> [s EXCEPT !.out = Append(@, l[2])]
    [] s.ok /\ l[1] \in {" ", "-"} ->
         IF s.pos > Len(orig) \/ (s.pos <= Len(orig) /\ orig[Smaller(s.pos, Len(orig))] # l[2])
         THEN [s EXCEPT !.ok = FALSE]
         ELSE [s EXCEPT !.pos = @ + 1, !.out = IF l[1] = " " THEN Append(@, l[2]) ELSE @]

(* pos is the next line of orig.  A hunk that begins before it would be a  *)
(* slice with its ends exchanged, which ends the program.                  *)
ApplyHunk(orig, s, h) ==
  LET target == Larger(1, h.old.start) IN
  IF ~s.ok \/ target > Len(orig) + 1 \/ target < s.pos THEN [s EXCEPT !.ok = FALSE]
  ELSE FoldLeft(LAMBDA r, l : ApplyLine(orig, r, l),
                [s EXCEPT !.out = @ \o SubSeq(orig, s.pos, target - 1), !.pos = target], h.lines)

ApplyHunksDropsRest(orig, hunks) ==    \* mutant: the lines after the last hunk
  FoldLeft(LAMBDA r, h : ApplyHunk(orig, r, h), [out |-> <<>>, pos |-> 1, ok |-> TRUE], hunks)
ApplyHunks(orig, hunks) ==
  LET s == FoldLeft(LAMBDA r, h : ApplyHunk(orig, r, h), [out |-> <<>>, pos |-> 1, ok |-> TRUE], hunks)
  IN  [s EXCEPT !.out = @ \o SubSeq(orig, s.pos, Len(orig))]

-----------------------------------------------------------------------------
(* The files, and who works on them. *)

DiffPatchInit ==
  /\ dpc = "new" /\ dfiles = <<>> /\ dtext = <<>> /\ dreverse = FALSE
  /\ dpatches = <<>> /\ dfailed = FALSE

(* diff -u of each file, one after the other, into one patch.              *)
Diff ==
  /\ dpc = "new"
  /\ dpc' = "diff"
  /\ \E fs \in Pairs :
       /\ dfiles' = [k \in DOMAIN fs |-> [old |-> fs[k].old, new |-> fs[k].new, has |-> fs[k].old]]
       /\ dtext' = FlattenSeq([k \in DOMAIN fs |-> Unified(k, fs[k].old, fs[k].new)])
  /\ UNCHANGED <<dreverse, dpatches, dfailed>>

(* patch -i, and, once it has been applied, patch -R -i: the text is read  *)
(* as it is.  From standard input, which is not modelled, lines come by a  *)
(* scanner that drops a \r at their end, and whose error, as for a line    *)
(* that is too long, is not looked at: the rest is taken for missing.      *)
ReadPatch ==
  /\ dpc = "diff" \/ (dpc = "patched" /\ ~dreverse)
  /\ dreverse' = (dpc = "patched")
  /\ dfailed' = FALSE
  /\ LET p == Parse(dtext) IN
     IF p.bad \/ p.patches = <<>>
     THEN dpc' = "malformed" /\ UNCHANGED dpatches
     ELSE dpc' = "patch" /\ dpatches' = p.patches
  /\ UNCHANGED <<dfiles, dtext>>

(* applyFile, and on to the next patch also when this one fails.           *)
ApplyFile ==
  /\ dpc = "patch" /\ dpatches # <<>>
  /\ LET p     == Head(dpatches)
         hunks == IF dreverse THEN [h \in DOMAIN p.hunks |-> ReverseHunk(p.hunks[h])] ELSE p.hunks
         r     == ApplyHunks(dfiles[p.name].has, hunks)
     IN  IF p.name \in DOMAIN dfiles /\ r.ok
         THEN dfiles' = [dfiles EXCEPT ![p.name].has = r.out] /\ UNCHANGED dfailed
         ELSE dfailed' = TRUE /\ UNCHANGED dfiles
  /\ dpatches' = Tail(dpatches)
  /\ UNCHANGED <<dpc, dtext, dreverse>>

PatchReturns ==
  /\ dpc = "patch" /\ dpatches = <<>>
  /\ dpc' = "patched"
  /\ UNCHANGED <<dfiles, dtext, dreverse, dpatches, dfailed>>

DiffPatchNext == Diff \/ ReadPatch \/ ApplyFile \/ PatchReturns
DiffPatchSpec == DiffPatchInit /\ [][DiffPatchNext]_dvars

-----------------------------------------------------------------------------
(* Properties. *)

(* What diff -u prints, patch accepts: it turns every old file into the    *)
(* new one, and with -R every new file back into the old one.  Excepted    *)
(* are deleted lines that begin with "-- ", which patch takes for names.   *)
Deleted(f) == {f.old[o.ai] : o \in ToSet(OfKind(DiffLines(f.old, f.new), "delete"))}
Readable   == \A k \in DOMAIN dfiles : Deleted(dfiles[k]) \cap Dashed = {}
PatchRestores ==
  Readable =>
    /\ dpc = "patched" =>
         /\ ~dfailed
         /\ \A k \in DOMAIN dfiles :
              dfiles[k].has = IF dreverse THEN dfiles[k].old ELSE dfiles[k].new
    /\ dpc = "malformed" => \A k \in DOMAIN dfiles : dfiles[k].old = dfiles[k].new

(* The script keeps as many lines as any can, the length of a longest      *)
(* common subsequence by its definition; and the normal format, read as    *)
(* what its commands mean, makes the new file from the old one.            *)
Picked(s, I)   == SelectSeq([k \in DOMAIN s |-> <<k, s[k]>>], LAMBDA x : x[1] \in I)
Subsequences(s) == {[k \in 1 .. Cardinality(I) |-> Picked(s, I)[k][2]] : I \in SUBSET DOMAIN s}
Common(a, b)    == {Len(s) : s \in Subsequences(a) \cap Subsequences(b)}
ReadNormal(a, commands) ==
  LET gone(i) == \E h \in DOMAIN commands :
                   commands[h].op # "a" /\ i \in commands[h].from .. commands[h].to
      kept(i) == IF i \in DOMAIN a /\ ~gone(i) THEN <<a[i]>> ELSE <<>>
      added(i) == {h \in DOMAIN commands : commands[h].op # "d" /\ commands[h].to = i}
      after(i) == IF added(i) = {} THEN <<>> ELSE commands[CHOOSE h \in added(i) : TRUE].new
  IN  FlattenSeq([i \in 1 .. Len(a) + 1 |-> kept(i - 1) \o after(i - 1)])
ScriptIsRight(a, b) ==
  /\ \A n \in Common(a, b) : n <= Len(OfKind(DiffLines(a, b), "equal"))
  /\ ReadNormal(a, Normal(a, b)) = b
  /\ \A h \in DOMAIN Normal(a, b) :
       LET c == Normal(a, b)[h] IN
       /\ c.op # "a" => c.old = SubSeq(a, c.from, c.to)
       /\ c.op # "d" => c.new = SubSeq(b, c.left, c.right)
DiffIsRight ==
  dpc = "diff" => \A k \in DOMAIN dfiles : ScriptIsRight(dfiles[k].old, dfiles[k].new)

(* diff's script is a shortest one, in either format a program that makes  *)
(* the new file, and patch runs it, and back.                              *)
PatchesAreRight == DiffIsRight /\ PatchRestores
=============================================================================
