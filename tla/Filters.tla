------------------------------- MODULE Filters -------------------------------
(***************************************************************************)
(* Tools that turn lines into lines: sort, uniq, comm, tsort, split, dd,   *)
(* sed, tr, cut and grep.  Each one is its algorithm, run once on one input; what its    *)
(* result ought to be is defined apart, without the algorithm.             *)
(*                                                                         *)
(* A line is a sequence of characters, and a character a number, in the    *)
(* order of their codes: "." is 1, the digits are 2 to 4, and 5 and 6 are  *)
(* a letter in upper and in lower case.                                    *)
(***************************************************************************)
EXTENDS Integers, FiniteSets, SequencesExt

CONSTANTS
  SortJobs,   \* [in, opts, key]: lines, a subset of {"r", "V", "u", "f", "s"}, a field
  CommJobs,   \* [a, b]: two files of lines
  TsortJobs,  \* [nodes, edges]: what is named, and which pairs
  SplitJobs,  \* [in, size, base, width]: lines, lines per piece, digits of a name
  DdJobs,     \* [in, old, ibs, obs, count, skip, seek, opts]
  SedJobs,    \* [in, program, quiet]
  TrJobs,     \* [chunks, set1, set2, opts], opts a subset of {"c", "d", "s"}
  CutJobs,    \* [size, ranges, complement]
  GrepJobs    \* [files, before, after], before or after not 0

VARIABLES
  tool,     \* "none", or the tool that was run
  job, out  \* its input, and its result

ftvars == <<tool, job, out>>

Sign(n) == IF n < 0 THEN -1 ELSE IF n > 0 THEN 1 ELSE 0
Before(s, n) == SubSeq(s, 1, Min({n, Len(s)}))
After(s, n)  == SubSeq(s, n + 1, Len(s))

(* What all the tools are asked: -1, 0 or 1, by the first difference.      *)
Compare(a, b) ==
  LET D == {i \in DOMAIN a \cap DOMAIN b : a[i] # b[i]} IN
  IF D = {} THEN Sign(Len(a) - Len(b)) ELSE Sign(a[Min(D)] - b[Min(D)])

-----------------------------------------------------------------------------
(* sort. *)

Digit(c) == c \in 2 .. 4
Upper(s) == [i \in DOMAIN s |-> IF s[i] = 6 THEN 5 ELSE s[i]]

(* versionCompare: runs of digits are compared as numbers, whatever zeros  *)
(* they begin with, and all else character by character.                   *)
Tokens(s) ==
  FoldLeft(LAMBDA ts, c : IF Digit(c) /\ ts # <<>> /\ Digit(Head(Last(ts)))
                          THEN [ts EXCEPT ![Len(ts)] = Append(@, c)] ELSE Append(ts, <<c>>),
           <<>>, s)
Significant(x) == After(x, Max({0} \cup {k \in DOMAIN x : \A i \in 1 .. k : x[i] = 2}))
CompareTokens(x, y) ==
  LET n == Significant(x)
      m == Significant(y)
  IN  IF ~Digit(x[1]) \/ ~Digit(y[1]) THEN Sign(x[1] - y[1])
      ELSE IF Len(n) # Len(m) THEN Sign(Len(n) - Len(m)) ELSE Compare(n, m)
VersionCompare(a, b) ==
  LET ta == Tokens(a)
      tb == Tokens(b)
      D  == {i \in DOMAIN ta \cap DOMAIN tb : CompareTokens(ta[i], tb[i]) # 0}
  IN  IF D = {} THEN Sign(Len(ta) - Len(tb)) ELSE CompareTokens(ta[Min(D)], tb[Min(D)])

(* -k n -t .: the line from its n-th field on.                             *)
Field(s, n) ==
  LET dots == {i \in DOMAIN s : s[i] = 1} IN
  IF n <= 1 THEN s
  ELSE IF Cardinality(dots) < n - 1 THEN <<>>
  ELSE After(s, CHOOSE i \in dots : Cardinality({d \in dots : d <= i}) = n - 1)
Key(s, j) == LET f == Field(s, j.key) IN IF "f" \in j.opts THEN Upper(f) ELSE f

CompareLines(a, b, j) ==
  IF "V" \in j.opts THEN VersionCompare(Key(a, j), Key(b, j)) ELSE Compare(Key(a, j), Key(b, j))
Less(a, b, j) ==
  LET c == CompareLines(a, b, j)
      d == IF c = 0 /\ "s" \notin j.opts THEN Compare(a, b) ELSE c
  IN  IF "r" \in j.opts THEN d > 0 ELSE d < 0

(* A stable sort, by insertion: behind all lines that are not greater.     *)
Insert(s, l, j) ==
  LET n == Cardinality({i \in DOMAIN s : ~Less(l, s[i], j)}) IN Before(s, n) \o <<l>> \o After(s, n)
Sorted(j) == FoldLeft(LAMBDA s, l : Insert(s, l, j), <<>>, j.in)
(* -u: of an equal run the first.                                          *)
Unique(s, j) ==
  FoldLeft(LAMBDA r, l : IF r # <<>> /\ CompareLines(Last(r), l, j) = 0 THEN r ELSE Append(r, l), <<>>, s)
Sort(j) == IF "u" \in j.opts THEN Unique(Sorted(j), j) ELSE Sorted(j)

Disordered(s, j) ==   \* -c
  \E i \in 2 .. Len(s) :
    CompareLines(s[i - 1], s[i], j) = IF "r" \in j.opts THEN -1 ELSE 1

RunSort == tool = "none" /\ tool' = "sort" /\ job' \in SortJobs /\ out' = Sort(job')

Equivalent(a, b, j) == CompareLines(a, b, j) = 0
Copies(s, l) == Cardinality({i \in DOMAIN s : s[i] = l})
SortIsRight(j, s) ==
  /\ \A i, k \in DOMAIN s : i < k => ~Less(s[k], s[i], j)
  /\ "u" \notin j.opts => \A l \in ToSet(j.in) \cup ToSet(s) : Copies(s, l) = Copies(j.in, l)
  /\ "u" \in j.opts =>
       /\ ToSet(s) \subseteq ToSet(j.in)
       /\ \A l \in ToSet(j.in) : Cardinality({i \in DOMAIN s : Equivalent(s[i], l, j)}) = 1
  /\ "s" \in j.opts /\ "u" \notin j.opts =>      \* lines of one key stay in their order
       \A l \in ToSet(s) :
         SelectSeq(s, LAMBDA m : Equivalent(m, l, j)) = SelectSeq(j.in, LAMBDA m : Equivalent(m, l, j))
  /\ ~Disordered(s, j)
  \* the comparison orders the lines
  /\ \A a, b, c \in ToSet(j.in) :
       /\ CompareLines(a, b, j) = -CompareLines(b, a, j)
       /\ CompareLines(a, b, j) <= 0 /\ CompareLines(b, c, j) <= 0 => CompareLines(a, c, j) <= 0

-----------------------------------------------------------------------------
(* uniq [-i]: the groups of adjacent equal lines. *)

AdjacentGroups(s, fold) ==
  FoldLeft(LAMBDA gs, l :
             IF gs # <<>> /\ (IF fold THEN Upper(Last(gs).line) = Upper(l) ELSE Last(gs).line = l)
             THEN [gs EXCEPT ![Len(gs)].count = @ + 1]
             ELSE Append(gs, [line |-> l, count |-> 1]), <<>>, s)
Uniq(j) == AdjacentGroups(j.in, "f" \in j.opts)
RunUniq == tool = "none" /\ tool' = "uniq" /\ job' \in SortJobs /\ out' = Uniq(job')

UniqIsRight(j, gs) ==
  LET same(a, b) == IF "f" \in j.opts THEN Upper(a) = Upper(b) ELSE a = b
      lines == FlattenSeq([g \in DOMAIN gs |-> [i \in 1 .. gs[g].count |-> gs[g].line]])
  IN  /\ Len(lines) = Len(j.in) /\ \A i \in DOMAIN lines : same(lines[i], j.in[i])
      /\ \A g \in 2 .. Len(gs) : ~same(gs[g - 1].line, gs[g].line)
      /\ \A g \in DOMAIN gs : gs[g].line \in ToSet(j.in)

-----------------------------------------------------------------------------
(* comm: the columns of a merge. *)

MergeStep(a, b, s) ==
  LET c == IF s.j > Len(b) THEN -1 ELSE IF s.i > Len(a) THEN 1 ELSE Compare(a[s.i], b[s.j]) IN
  IF s.i > Len(a) /\ s.j > Len(b) THEN s
  ELSE [i |-> IF c <= 0 THEN s.i + 1 ELSE s.i, j |-> IF c >= 0 THEN s.j + 1 ELSE s.j,
        out |-> Append(s.out, IF c <= 0 THEN <<IF c = 0 THEN 3 ELSE 1, a[s.i]>> ELSE <<2, b[s.j]>>)]
Comm(j) ==
  FoldLeft(LAMBDA s, k : MergeStep(j.a, j.b, s), [i |-> 1, j |-> 1, out |-> <<>>],
           [k \in 1 .. Len(j.a) + Len(j.b) |-> k]).out
RunComm == tool = "none" /\ tool' = "comm" /\ job' \in CommJobs /\ out' = Comm(job')

InOrderOf(s) == \A i \in 2 .. Len(s) : Compare(s[i - 1], s[i]) <= 0
Column(cs, C) == LET p == SelectSeq(cs, LAMBDA c : c[1] \in C) IN [i \in DOMAIN p |-> p[i][2]]
CommIsRight(j, cs) ==
  /\ Column(cs, {1, 3}) = j.a /\ Column(cs, {2, 3}) = j.b
  /\ InOrderOf(j.a) /\ InOrderOf(j.b) =>
       /\ InOrderOf(Column(cs, {1, 2, 3}))
       /\ \A l \in ToSet(j.a) : Copies(Column(cs, {3}), l) = Min({Copies(j.a, l), Copies(j.b, l)})

-----------------------------------------------------------------------------
(* tsort: nodes without predecessors are written, the smallest name first, *)
(* and what a loop holds back in the end.  A pair of one name is no edge.  *)

Edges(j) == {e \in j.pairs : e[1] # e[2]}
Nodes(j) == UNION {{e[1], e[2]} : e \in j.pairs}
Kahn(s, E) ==
  LET n == Min(s.ready)
      freed == {m \in DOMAIN s.indeg : <<n, m>> \in E /\ s.indeg[m] = 1}
  IN  IF s.ready = {} THEN s
      ELSE [order |-> Append(s.order, n), ready |-> (s.ready \ {n}) \cup freed,
            indeg |-> [m \in DOMAIN s.indeg |-> s.indeg[m] - IF <<n, m>> \in E THEN 1 ELSE 0]]
Tsort(j) ==
  LET indeg == [m \in Nodes(j) |-> Cardinality({e \in Edges(j) : e[2] = m})]
      s0 == [order |-> <<>>, ready |-> {m \in Nodes(j) : indeg[m] = 0}, indeg |-> indeg]
      s  == FoldLeft(LAMBDA t, n : Kahn(t, Edges(j)), s0, SetToSeq(Nodes(j)))
      left == Nodes(j) \ ToSet(s.order)
  IN  [order |-> s.order \o SetToSortSeq(left, <), cyclic |-> left # {}]
RunTsort == tool = "none" /\ tool' = "tsort" /\ job' \in TsortJobs /\ out' = Tsort(job')

(* The smallest order that agrees with the pairs; a loop is a set each of  *)
(* which comes after another one of it.                                    *)
TsortIsRight(j, r) ==
  LET Free(k) == {n \in Nodes(j) \ ToSet(Before(r.order, k - 1)) :
                    \A e \in Edges(j) : e[2] = n => e[1] \in ToSet(Before(r.order, k - 1))}
  IN  /\ Len(r.order) = Cardinality(Nodes(j)) /\ ToSet(r.order) = Nodes(j)
      /\ r.cyclic <=> \E S \in SUBSET Nodes(j) \ {{}} :
                        \A n \in S : \E m \in S : <<m, n>> \in Edges(j)
      /\ \A k \in DOMAIN r.order : (\A i \in 1 .. k : Free(i) # {}) => r.order[k] = Min(Free(k))
      /\ r.cyclic \/ \A k \in DOMAIN r.order : Free(k) # {}

-----------------------------------------------------------------------------
(* split: a name is the sequence of the digits of its suffix.  Letters     *)
(* begin again when they are used up, numbers become longer.               *)

AlphaSuffix(n, base, width) == [i \in 1 .. width |-> (n \div base^(width - i)) % base]
NumericSuffix(n, base, width) ==
  AlphaSuffix(n, base, Min({w \in width .. width + n : base^w > n}))
Name(j, n) ==
  IF j.numeric THEN NumericSuffix(j.from + n, j.base, j.width) ELSE AlphaSuffix(n, j.base, j.width)

NoPieces == [x \in {} |-> <<>>]
Put(f, x, v) == [y \in DOMAIN f \cup {x} |-> IF y = x THEN v ELSE f[y]]
(* One line, or one byte: a file is created when the last one is full.     *)
SplitOne(s, l, j) ==
  LET t == IF s.count = 0
           THEN [s EXCEPT !.name = Name(j, s.idx), !.idx = @ + 1, !.pieces = Put(@, Name(j, s.idx), <<>>)]
           ELSE s
  IN  [t EXCEPT !.pieces[t.name] = Append(@, l), !.count = (@ + 1) % j.per]
Split(j) ==
  FoldLeft(LAMBDA s, l : SplitOne(s, l, j),
           [idx |-> 0, count |-> 0, name |-> <<>>, pieces |-> NoPieces], [l \in 1 .. j.size |-> l]).pieces
RunSplit == tool = "none" /\ tool' = "split" /\ job' \in SplitJobs /\ out' = Split(job')

(* cat PREFIX* gives the input back, as long as the suffixes suffice.      *)
SplitIsRight(j, pieces) ==
  LET needed == (j.size + j.per - 1) \div j.per
      Rank(x) == Cardinality({y \in DOMAIN pieces : Compare(y, x) <= 0})
      names  == [i \in 1 .. Cardinality(DOMAIN pieces) |-> CHOOSE x \in DOMAIN pieces : Rank(x) = i]
  IN  needed + (IF j.numeric THEN j.from ELSE 0) <= j.base^j.width =>
        /\ FlattenSeq([i \in DOMAIN names |-> pieces[names[i]]]) = [l \in 1 .. j.size |-> l]
        /\ Len(names) = needed /\ \A x \in DOMAIN pieces : Len(pieces[x]) <= j.per

-----------------------------------------------------------------------------
(* dd: a byte is a number, 0 is NUL; count is negative for no count. *)

Zeros(n) == [i \in 1 .. n |-> 0]
(* What is written at an offset beyond the end leaves a hole.              *)
WriteAt(f, at, b) == Before(f, at) \o Zeros(at - Len(Before(f, at))) \o b \o After(f, at + Len(b))
CopyBlock(s, j) ==
  LET block == Before(s.in, j.ibs)
      n     == Len(block)
      b     == IF n < j.ibs /\ "sync" \in j.opts THEN block \o Zeros(j.ibs - n) ELSE block
      whole == Len(b) = j.obs
  IN  IF s.done \/ (j.count >= 0 /\ s.inFull + s.inPart >= j.count) \/ n = 0 THEN [s EXCEPT !.done = TRUE]
      ELSE [in |-> After(s.in, j.ibs), file |-> WriteAt(s.file, s.at, b), at |-> s.at + Len(b),
            inFull |-> s.inFull + (IF n = j.ibs THEN 1 ELSE 0), inPart |-> s.inPart + (IF n < j.ibs THEN 1 ELSE 0),
            outFull |-> s.outFull + (IF whole THEN 1 ELSE 0), outPart |-> s.outPart + (IF whole THEN 0 ELSE 1),
            bytesOut |-> s.bytesOut + Len(b), done |-> n < j.ibs]
Dd(j) ==
  LET s0 == [in |-> After(j.in, j.skip * j.ibs), at |-> j.seek * j.obs,
             file |-> IF "notrunc" \in j.opts THEN j.old ELSE <<>>,
             inFull |-> 0, inPart |-> 0, outFull |-> 0, outPart |-> 0, bytesOut |-> 0, done |-> FALSE]
  IN  FoldLeft(LAMBDA s, k : CopyBlock(s, j), s0, [k \in 1 .. Len(j.in) + 1 |-> k])
RunDd == tool = "none" /\ tool' = "dd" /\ job' \in DdJobs /\ out' = Dd(job')

(* Where each byte of the output comes from: from the input, by way of the *)
(* offsets, from what the output held before, or from nowhere.             *)
DdIsRight(j, r) ==
  LET rest  == Len(j.in) - j.skip * j.ibs
      most  == IF j.count < 0 THEN Len(j.in) ELSE j.count * j.ibs
      taken == IF rest < 0 THEN 0 ELSE Min({rest, most})
      short == taken % j.ibs
      total == IF "sync" \in j.opts /\ short > 0 THEN taken + j.ibs - short ELSE taken
      start == j.seek * j.obs
      old   == IF "notrunc" \in j.opts THEN j.old ELSE <<>>
      Byte(p) == CASE p > start /\ p <= start + taken -> j.in[j.skip * j.ibs + p - start]
                   [] p > start /\ p <= start + total /\ p > start + taken -> 0
                   [] OTHER -> IF p <= Len(old) THEN old[p] ELSE 0
  IN  /\ \A p \in DOMAIN r.file : r.file[p] = Byte(p)
      /\ Len(r.file) = Max({Len(old), IF total > 0 THEN start + total ELSE 0})
      /\ r.inFull = taken \div j.ibs /\ r.inPart = (IF short > 0 THEN 1 ELSE 0)
      /\ r.bytesOut = total /\ r.outFull + r.outPart = r.inFull + r.inPart

-----------------------------------------------------------------------------
(* sed: a regular expression is one character.  A command has its          *)
(* addresses a1 and a2, a name, and for s the character, what replaces it, *)
(* the flags g and p, and the number of the occurrence, or 0.              *)

MatchAddr(a, lineNo, last, pattern) ==
  CASE a.kind = "line"  -> a.at = lineNo
    [] a.kind = "last"  -> lineNo = last
    [] a.kind = "regex" -> \E i \in DOMAIN pattern : pattern[i] = a.at
    [] OTHER            -> FALSE

(* Whether the command is done on the line, and whether its range goes on. *)
Selected(c, active, lineNo, last, pattern) ==
  LET starts == MatchAddr(c.a1, lineNo, last, pattern)
  IN  CASE c.a1.kind = "none" -> <<TRUE, FALSE>>
        [] c.a1.kind # "none" /\ c.a2.kind = "none" -> <<starts, FALSE>>
        [] c.a2.kind # "none" /\ ~active -> <<starts, starts /\ ~(c.a2.kind = "line" /\ c.a2.at <= lineNo)>>
        [] OTHER -> <<TRUE, ~MatchAddr(c.a2, lineNo, last, pattern)>>

Found(c, line) == SelectSeq([i \in DOMAIN line |-> i], LAMBDA i : line[i] = c.re)
(* From the n-th match on, the rest of the line behind each is put off.    *)
ReplaceNth(c, line, n) ==
  LET locs == Found(c, line)
      used == IF Len(locs) < n THEN <<>> ELSE SubSeq(locs, n, IF c.global THEN Len(locs) ELSE n)
      s    == FoldLeft(LAMBDA t, at : [out |-> t.out \o SubSeq(line, t.prev + 1, at - 1) \o c.repl, prev |-> at],
                       [out |-> <<>>, prev |-> 0], used)
  IN  s.out \o After(line, s.prev)
Nth(c) == IF c.occurrence > 0 THEN c.occurrence ELSE 1

RunCommand(s, k, j, lineNo) ==
  LET c   == j.program[k]
      sel == Selected(c, s.active[k], lineNo, Len(j.in), s.pattern)
      t   == [s EXCEPT !.active[k] = sel[2]]
      new == ReplaceNth(c, s.pattern, Nth(c))
  IN  CASE s.deleted \/ s.quit -> s
        [] ~(s.deleted \/ s.quit) /\ ~sel[1] -> t
        [] OTHER ->
             CASE c.name = "s" -> [t EXCEPT !.pattern = new,
                    !.out = IF c.print /\ Len(Found(c, s.pattern)) >= Nth(c) THEN Append(@, new) ELSE @]
               [] c.name = "p" -> [t EXCEPT !.out = Append(@, s.pattern)]
               [] c.name = "d" -> [t EXCEPT !.deleted = TRUE]
               [] c.name = "q" -> [t EXCEPT !.quit = TRUE]

SedLine(s, lineNo, j) ==
  LET t == FoldLeft(LAMBDA u, k : RunCommand(u, k, j, lineNo),
                    [s EXCEPT !.pattern = j.in[lineNo], !.deleted = FALSE],
                    [k \in DOMAIN j.program |-> k])
  IN  IF s.quit THEN s
      ELSE [t EXCEPT !.out = IF t.deleted \/ j.quiet THEN @ ELSE Append(@, t.pattern)]
Sed(j) ==
  LET s0 == [active |-> [k \in DOMAIN j.program |-> FALSE], pattern |-> <<>>,
             deleted |-> FALSE, quit |-> FALSE, out |-> <<>>]
  IN  FoldLeft(LAMBDA s, n : SedLine(s, n, j), s0, [n \in DOMAIN j.in |-> n]).out
RunSed == tool = "none" /\ tool' = "sed" /\ job' \in SedJobs /\ out' = Sed(job')

(* Not line by line but command by command, each over all of the lines     *)
(* that are still on their way: lines are [line, here, quit, out].  A range*)
(* goes from where it is opened to the next end behind, or to the last     *)
(* line, or is one line when it ends no later; and none is opened in one.  *)
Span(c, n, ls) ==
  LET Matches(a, i) == MatchAddr(a, i, Len(ls), ls[i].line)
      ends == {i \in DOMAIN ls : ls[i].here /\ i > n /\ Matches(c.a2, i)}
  IN  IF c.a2.kind = "none" \/ (c.a2.kind = "line" /\ c.a2.at <= n) THEN {n}
      ELSE n .. IF ends = {} THEN Len(ls) ELSE Min(ends)
Chosen(c, ls) ==
  LET on == {i \in DOMAIN ls : ls[i].here}
      opened == {i \in on : MatchAddr(c.a1, i, Len(ls), ls[i].line)}
      first == CHOOSE S \in SUBSET opened :
                 \A i \in opened : i \in S <=> \A k \in S : k < i => i \notin Span(c, k, ls)
  IN  IF c.a1.kind = "none" THEN on ELSE on \cap UNION {Span(c, k, ls) : k \in first}
Substituted(c, line) ==
  LET hits == {i \in DOMAIN line : line[i] = c.re}
      rank(i) == Cardinality({h \in hits : h <= i})
  IN  FlattenSeq([i \in DOMAIN line |->
        IF i \in hits /\ (rank(i) = Nth(c) \/ (c.global /\ rank(i) > Nth(c))) THEN c.repl ELSE <<line[i]>>])
Stage(c, ls) ==
  LET chosen == Chosen(c, ls)
      Hit(l) == Cardinality({i \in DOMAIN l : l[i] = c.re}) >= Nth(c)
      After1(l) == CASE c.name = "s" -> [l EXCEPT !.line = Substituted(c, l.line),
                          !.out = IF c.print /\ Hit(l.line) THEN Append(@, Substituted(c, l.line)) ELSE @]
                     [] c.name = "p" -> [l EXCEPT !.out = Append(@, l.line)]
                     [] c.name = "d" -> [l EXCEPT !.here = FALSE]
                     [] c.name = "q" -> [l EXCEPT !.here = FALSE, !.quit = TRUE]
  IN  [i \in DOMAIN ls |-> IF i \in chosen THEN After1(ls[i]) ELSE ls[i]]
SedIsRight(j, o) ==
  LET ls == FoldLeft(LAMBDA s, c : Stage(c, s),
              [i \in DOMAIN j.in |-> [line |-> j.in[i], here |-> TRUE, quit |-> FALSE, out |-> <<>>]], j.program)
      all == [i \in DOMAIN ls |->
                ls[i].out \o IF ~j.quiet /\ (ls[i].here \/ ls[i].quit) THEN <<ls[i].line>> ELSE <<>>]
  IN  o = FlattenSeq(Before(all, Min({Len(ls)} \cup {i \in DOMAIN ls : ls[i].quit})))

-----------------------------------------------------------------------------
(* tr: the bytes come in chunks, 1 to 4 stand for ASCII, 10 for one that   *)
(* continues a character, 12 and 13 for those that begin one of two and of *)
(* three bytes.  A cell is a character, or a byte that belongs to none.    *)

Width(b) == IF b \in {12, 13} THEN b - 10 ELSE 1
(* utf8.FullRune: no byte that could follow would make a difference.       *)
FullRune(s) == Len(s) >= Width(s[1]) \/ \E i \in 2 .. Len(s) : s[i] # 10
RuneLen(s) ==
  LET w == Width(s[1]) IN
  IF s[1] # 10 /\ Len(s) >= w /\ \A i \in 2 .. w : s[i] = 10 THEN w ELSE 1
DecodeCells(bytes) ==
  FoldLeft(LAMBDA d, k : IF d.left = <<>> THEN d
                         ELSE [left |-> After(d.left, RuneLen(d.left)),
                               cells |-> Append(d.cells, Before(d.left, RuneLen(d.left)))],
           [left |-> bytes, cells |-> <<>>], bytes).cells
WholeChunk(b) == Len(b)     \* mutant: nothing is held back
(* What is held back is a character that may be complete with the next     *)
(* chunk: the last of the last four bytes that can begin one decides.      *)
CompleteRuneLen(b) ==
  LET starts == {i \in DOMAIN b : i > Len(b) - 4 /\ b[i] # 10} IN
  IF starts # {} /\ ~FullRune(After(b, Max(starts) - 1)) THEN Max(starts) - 1 ELSE Len(b)

InSet(c, set, complement) == (\E i \in DOMAIN set : set[i] = c) # complement
(* Of a character that SET1 names twice the last place counts.             *)
Translated(c, j) ==
  LET places == {i \in DOMAIN j.set1 : j.set1[i] = c} IN
  IF j.set2 = <<>> \/ ~InSet(c, j.set1, "c" \in j.opts) THEN c
  ELSE IF "c" \in j.opts THEN Last(j.set2) ELSE j.set2[Min({Max(places), Len(j.set2)})]
Squeezes(c, j) ==
  /\ "s" \in j.opts
  /\ IF "d" \in j.opts THEN InSet(c, j.set2, FALSE)
     ELSE IF j.set2 = <<>> THEN InSet(c, j.set1, "c" \in j.opts) ELSE InSet(c, j.set2, FALSE)
ProcessCell(p, c, j) ==
  LET t == IF "d" \in j.opts THEN c ELSE Translated(c, j) IN
  IF ("d" \in j.opts /\ InSet(c, j.set1, "c" \in j.opts)) \/ (p.prev = t /\ Squeezes(t, j)) THEN p
  ELSE [p EXCEPT !.out = @ \o t, !.prev = t]
ProcessChunk(p, chunk, atEOF, j) ==
  LET all  == p.carry \o chunk
      proc == IF atEOF THEN Len(all) ELSE CompleteRuneLen(all)
      q    == FoldLeft(LAMBDA r, c : ProcessCell(r, c, j), p, DecodeCells(Before(all, proc)))
  IN  [q EXCEPT !.carry = After(all, proc)]
Tr(j) ==
  LET p == FoldLeft(LAMBDA q, chunk : ProcessChunk(q, chunk, FALSE, j),
                    [out |-> <<>>, carry |-> <<>>, prev |-> <<>>], j.chunks)
  IN  ProcessChunk(p, <<>>, TRUE, j).out
RunTr == tool = "none" /\ tool' = "tr" /\ job' \in TrJobs /\ out' = Tr(job')

(* "the output is identical to processing the whole input at once".        *)
TrIsRight(j, o) ==
  LET cells == DecodeCells(FlattenSeq(j.chunks))
      kept  == IF "d" \in j.opts THEN SelectSeq(cells, LAMBDA c : ~InSet(c, j.set1, "c" \in j.opts))
               ELSE [i \in DOMAIN cells |-> Translated(cells[i], j)]
      lone  == SelectSeq([i \in DOMAIN kept |-> i],
                         LAMBDA i : i = 1 \/ kept[i] # kept[i - 1] \/ ~Squeezes(kept[i], j))
  IN  o = FlattenSeq([i \in DOMAIN lone |-> kept[lone[i]]])

-----------------------------------------------------------------------------
(* cut: a range is <<lo, hi>>, and has hi = 0 when it is open. *)

Merge(ms, r) ==
  LET l == Last(ms) IN
  IF ms = <<>> \/ (l[2] # 0 /\ r[1] > l[2] + 1) THEN Append(ms, r)
  ELSE IF l[2] = 0 THEN ms
  ELSE [ms EXCEPT ![Len(ms)] = <<l[1], IF r[2] = 0 THEN 0 ELSE Max({l[2], r[2]})>>]
RangeBefore(r, q) == r[1] < q[1] \/ (r[1] = q[1] /\ r[2] # 0 /\ q[2] = 0)
MergeRanges(rs) == FoldLeft(Merge, <<>>, SortSeq(rs, RangeBefore))
(* The search stops at the first range that begins behind.                 *)
InRanges(rs, pos) ==
  \E i \in DOMAIN rs :
    /\ rs[i][2] = 0 \/ pos <= rs[i][2]
    /\ \A k \in 1 .. i : pos >= rs[k][1]
KeepPos(j, pos) == InRanges(MergeRanges(j.ranges), pos) # j.complement
(* The runs of kept characters; a delimiter goes between two of them.      *)
Cut(j) ==
  FoldLeft(LAMBDA s, i : IF ~KeepPos(j, i) THEN [s EXCEPT !.kept = FALSE]
                         ELSE IF s.kept THEN [s EXCEPT !.runs[Len(s.runs)] = Append(@, i)]
                         ELSE [runs |-> Append(s.runs, <<i>>), kept |-> TRUE],
           [runs |-> <<>>, kept |-> FALSE], [i \in 1 .. j.size |-> i]).runs
RunCut == tool = "none" /\ tool' = "cut" /\ job' \in CutJobs /\ out' = Cut(job')

CutIsRight(j, runs) ==
  LET named == {p \in 1 .. j.size :
                  (\E i \in DOMAIN j.ranges : LET r == j.ranges[i] IN r[1] <= p /\ (r[2] = 0 \/ p <= r[2]))
                  # j.complement}
      chars == FlattenSeq(runs)
  IN  /\ chars = SelectSeq([i \in 1 .. j.size |-> i], LAMBDA i : i \in named)
      /\ \A r \in DOMAIN runs : \A k \in 2 .. Len(runs[r]) : runs[r][k] = runs[r][k - 1] + 1
      /\ \A r \in 2 .. Len(runs) : Head(runs[r]) > Last(runs[r - 1]) + 1

-----------------------------------------------------------------------------
(* grep -A -B: a file is its lines, TRUE for those that are selected. *)

PrintLines(g, nos, sep) ==
  IF nos = <<>> THEN g
  ELSE [g EXCEPT !.out = @ \o [i \in DOMAIN nos |-> <<g.file, sep, nos[i]>>],
                 !.lastPrinted = Last(nos), !.printedAny = TRUE]
GrepLine(g, lineNo, j) ==
  LET isMatch == j.files[g.file][lineNo]
      first   == IF g.ring # <<>> THEN Head(g.ring) ELSE lineNo
      grouped == IF g.printedAny /\ first > g.lastPrinted + 1
                 THEN [g EXCEPT !.out = Append(@, <<g.file, "--", 0>>)] ELSE g
      led     == PrintLines(grouped, g.ring, "-")
      ring    == Append(g.ring, lineNo)
  IN  CASE isMatch -> [PrintLines(led, <<lineNo>>, ":") EXCEPT !.ring = <<>>, !.pending = j.after]
        [] ~isMatch /\ g.pending > 0 -> [PrintLines(g, <<lineNo>>, "-") EXCEPT !.pending = @ - 1]
        [] OTHER -> [g EXCEPT !.ring = After(ring, Len(ring) - Min({Len(ring), j.before}))]
SearchFile(g, f, j) ==
  FoldLeft(LAMBDA h, n : GrepLine(h, n, j),
           [g EXCEPT !.file = f, !.ring = <<>>, !.pending = 0, !.lastPrinted = 0],
           [n \in DOMAIN j.files[f] |-> n])
Grep(j) ==
  FoldLeft(LAMBDA g, f : SearchFile(g, f, j),
           [file |-> 0, ring |-> <<>>, pending |-> 0, lastPrinted |-> 0, printedAny |-> FALSE, out |-> <<>>],
           [f \in DOMAIN j.files |-> f]).out
RunGrep == tool = "none" /\ tool' = "grep" /\ job' \in GrepJobs /\ out' = Grep(job')

(* The selected lines and those near them, each once, and "--" between two *)
(* groups of a file exactly where lines are left out, and before the first *)
(* group of a later file.  Not claimed is one from that file's first line: *)
(* it does not continue what was printed either (grep.go:409-411), but the *)
(* code compares its line number alone, and gives it no "--".              *)
FromTheTop(l, later) == later[1] # l[1] /\ later[3] = 1
GrepIsRight(j, o) ==
  LET Near(f, n) == \E m \in DOMAIN j.files[f] : j.files[f][m] /\ n >= m - j.before /\ n <= m + j.after
      lines(f) == SelectSeq([n \in DOMAIN j.files[f] |-> n], LAMBDA n : Near(f, n))
      shown == SelectSeq(o, LAMBDA l : l[2] # "--")
  IN  /\ shown = FlattenSeq([f \in DOMAIN j.files |->
                   [i \in DOMAIN lines(f) |->
                      <<f, IF j.files[f][lines(f)[i]] THEN ":" ELSE "-", lines(f)[i]>>]])
      /\ \A i \in DOMAIN o : o[i][2] = "--" => i > 1 /\ i < Len(o) /\ o[i + 1][2] # "--"
      /\ \A i \in 2 .. Len(o) : o[i][2] # "--" =>
           LET apart == o[i - 1][2] = "--"
               l     == IF apart THEN o[i - 2] ELSE o[i - 1]
           IN  (apart <=> (l[1] = o[i][1] => o[i][3] > l[3] + 1)) \/ FromTheTop(l, o[i])

-----------------------------------------------------------------------------
FiltersInit == tool = "none" /\ job = <<>> /\ out = <<>>
FiltersNext == RunSort \/ RunUniq \/ RunComm \/ RunTsort \/ RunSplit \/ RunDd \/ RunSed
               \/ RunTr \/ RunCut \/ RunGrep
FiltersSpec == FiltersInit /\ [][FiltersNext]_ftvars

(* The algorithms do what the tools are for: sort -r, -V, -f, -k, -u and   *)
(* -s order and keep the lines by a comparison that is an order, uniq      *)
(* leaves no two equal lines side by side, the columns of comm are the     *)
(* files, tsort finds the first order there is or tells of a loop, the     *)
(* pieces of split are the input, dd puts every byte where its offsets say,*)
(* the flag by which sed remembers an open range means the ranges, tr does *)
(* not see the chunks it reads, cut's merged ranges are the ones it is     *)
(* told, and the ring of grep -B and the counter of -A show each line once.*)
FiltersAreRight ==
  CASE tool = "sort"  -> SortIsRight(job, out)
    [] tool = "uniq"  -> UniqIsRight(job, out)
    [] tool = "comm"  -> CommIsRight(job, out)
    [] tool = "tsort" -> TsortIsRight(job, out)
    [] tool = "split" -> SplitIsRight(job, out)
    [] tool = "dd"    -> DdIsRight(job, out)
    [] tool = "sed"   -> SedIsRight(job, out)
    [] tool = "tr"    -> TrIsRight(job, out)
    [] tool = "cut"   -> CutIsRight(job, out)
    [] tool = "grep"  -> GrepIsRight(job, out)
    [] OTHER          -> TRUE
=============================================================================
