------------------------------- MODULE Layout -------------------------------
(***************************************************************************)
(* Tools that lay a text out anew: cat, nl, tac, head, tail, wc, cmp,      *)
(* expand, unexpand, fold, fmt, paste, the dumps od, hexdump and xxd, and  *)
(* the encoders, whose lines are wrapped.  Each is its algorithm, run once *)
(* on one input, and what the result ought to be is defined apart.         *)
(*                                                                         *)
(* A text is a sequence of characters: "x" and "y" print, " " and "tab"    *)
(* are blanks, "nl" ends a line, "ctl" does not print, "e" takes two bytes.*)
(***************************************************************************)
EXTENDS Integers, FiniteSets, SequencesExt

CONSTANTS
  CatJobs,     \* [files, opts], opts a subset of {"s", "E", "T", "n", "b"}
  NlJobs,      \* [lines, styles, start, step, join]
  TacJobs,     \* [files, sep]
  HeadJobs,    \* [text, n, unit], unit "records" or "bytes"
  CmpJobs,     \* [a, b, skipA, skipB, limit]
  TabJobs,     \* [text, stop, only]: only the blanks that begin a line
  FoldJobs,    \* [line, width, blanks]
  FmtJobs,     \* [lines, width], a line is a sequence of words
  PasteJobs,   \* [cols, stdin, seps]: a column is a file, or Stdin
  DumpJobs,    \* [chunks, unit, skip, length], length -1 for no bound
  WrapJobs,    \* [chunks, cols]
  UuJobs,      \* sequences of bytes
  RowSize      \* bytes of a row of a dump (16)

ASSUME RowAssumption == RowSize \in Nat /\ RowSize > 0 /\ RowSize % 2 = 0

VARIABLES
  layer,         \* "none", or the tool that was run
  given, made    \* its input, and its result

lyvars == <<layer, given, made>>

Missing == <<"missing">>           \* a file that cannot be opened
Stdin   == <<"stdin">>
First(s, n) == SubSeq(s, 1, Min({n, Len(s)}))
Rest(s, n)  == SubSeq(s, n + 1, Len(s))
Upto(n) == [k \in 1 .. n |-> k]
CopiesOf(x, n) == [k \in 1 .. n |-> x]
SumOf(s) == FoldLeft(LAMBDA x, y : x + y, 0, s)

(* command.Open for each operand: one that fails is told and left out, and *)
(* makes the status 1 (keep).                                              *)
Opened(files) == SelectSeq(files, LAMBDA f : f # Missing)
Failed(files)   == Missing \in ToSet(files)

(* ReadString: up to and with the delimiter, or what is left.              *)
Records(s, d) ==
  FoldLeft(LAMBDA rs, c : IF rs # <<>> /\ Last(Last(rs)) # d
                          THEN [rs EXCEPT ![Len(rs)] = Append(@, c)] ELSE Append(rs, <<c>>), <<>>, s)
Ended(r) == r # <<>> /\ Last(r) = "nl"
BodyOf(r)  == IF Ended(r) THEN Front(r) ELSE r

-----------------------------------------------------------------------------
(* cat: the files are one stream, so that a last line without its end is   *)
(* continued by the next file; -s, -T and -E come before -n and -b.        *)

RenderLine(s, r, o) ==
  LET blank == BodyOf(r) = <<>>
      tabs  == IF "T" \in o THEN FlattenSeq([i \in DOMAIN BodyOf(r) |->
                                   IF BodyOf(r)[i] = "tab" THEN <<"^", "I">> ELSE <<BodyOf(r)[i]>>])
               ELSE BodyOf(r)
      shown == tabs \o IF "E" \in o THEN <<"$">> ELSE <<>>
  IN  [prevBlank |-> blank,
       out |-> IF "s" \in o /\ blank /\ s.prevBlank THEN s.out
               ELSE Append(s.out, [num |-> 0, body |-> shown, nl |-> Ended(r)])]
Render(files, o) ==
  FoldLeft(LAMBDA s, r : RenderLine(s, r, o), [prevBlank |-> FALSE, out |-> <<>>],
           Records(FlattenSeq(Opened(files)), "nl")).out
(* The Numberer of cat: -b leaves out the lines that are empty by then.    *)
NumberLines(ls, o) ==
  FoldLeft(LAMBDA s, l : IF "b" \in o /\ l.body = <<>> THEN [s EXCEPT !.out = Append(@, l)]
                         ELSE [num |-> s.num + 1, out |-> Append(s.out, [l EXCEPT !.num = s.num])],
           [num |-> 1, out |-> <<>>], ls).out
Cat(j) ==
  LET ls == Render(j.files, j.opts)
  IN  [failed |-> Failed(j.files), out |-> IF j.opts \cap {"n", "b"} # {} THEN NumberLines(ls, j.opts) ELSE ls]

(* The text is there, as it is to be shown, and numbers count its lines;   *)
(* -b leaves out the empty ones.  Not claimed is an empty line of -b -E:   *)
(* cat.go:51 numbers non-empty lines, the code sees the "$" and numbers it.*)
EmptyShown(l, opts) == {"b", "E"} \subseteq opts /\ l.body = <<"$">>
CatIsRight(j, r) ==
  LET text == FlattenSeq(Opened(j.files))
      ends == {0} \cup {i \in DOMAIN text : text[i] = "nl"}
      \* the ends of lines with nothing between that -s leaves out
      extra == {i \in ends : i - 1 \in ends /\ (i = 2 \/ i - 2 \in ends) /\ i > 1}
      kept  == FlattenSeq([i \in DOMAIN text |->
                 IF "s" \in j.opts /\ i \in extra THEN <<>>
                 ELSE IF "T" \in j.opts /\ text[i] = "tab" THEN <<"^", "I">>
                 ELSE IF "E" \in j.opts /\ (text[i] = "nl") THEN <<"$", "nl">> ELSE <<text[i]>>])
      open  == text # <<>> /\ Last(text) # "nl"
      numbered == SelectSeq(r.out, LAMBDA l : l.num # 0)
  IN  /\ r.failed = (\E i \in DOMAIN j.files : j.files[i] = Missing)
      /\ FlattenSeq([i \in DOMAIN r.out |-> r.out[i].body \o IF r.out[i].nl THEN <<"nl">> ELSE <<>>])
           = kept \o IF open /\ "E" \in j.opts THEN <<"$">> ELSE <<>>
      /\ \A k \in DOMAIN numbered : numbered[k].num = k
      /\ j.opts \cap {"n", "b"} # {} =>
           \A i \in DOMAIN r.out : \/ r.out[i].num # 0 <=> ("b" \in j.opts => r.out[i].body # <<>>)
                                  \/ EmptyShown(r.out[i], j.opts)

-----------------------------------------------------------------------------
(* nl: a line is "", "x", or one of the three that begin a section.        *)

Delimiters == {"header", "body", "footer"}
(* (A mistake: the first empty line of a row is numbered, not the last.)   *)
NlNumberedFirst(l, style, blankRun, join) ==
  IF style = "a" /\ l = "" THEN join <= 1 \/ blankRun % join = 1
  ELSE style = "a" \/ (style = "t" /\ l # "")
NlNumbered(l, style, blankRun, join) ==
  CASE style = "a" -> IF l = "" /\ join > 1 THEN blankRun % join = 0 ELSE TRUE
    [] style = "t" -> l # ""
    [] OTHER       -> FALSE
NlLine(s, l, j) ==
  LET run == IF l = "" THEN s.blankRun + 1 ELSE 0
      num == NlNumbered(l, j.styles[s.cur], run, j.join)
  IN  IF l \in Delimiters
      THEN [num |-> j.start, cur |-> l, blankRun |-> 0, out |-> Append(s.out, <<>>)]
      ELSE [num |-> IF num THEN s.num + j.step ELSE s.num, cur |-> s.cur,
            blankRun |-> IF num /\ l = "" THEN 0 ELSE run,
            out |-> Append(s.out, IF num THEN <<s.num>> ELSE <<>>)]
Nl(j) ==
  FoldLeft(LAMBDA s, l : NlLine(s, l, j),
           [num |-> j.start, cur |-> "body", blankRun |-> 0, out |-> <<>>], j.lines).out

(* The numbers count the lines that their section numbers, of the empty    *)
(* ones each join-th of a row; and a page begins with the first number.    *)
(* Not claimed is where a later section of a page begins: by               *)
(* textproc.go:157-159 it goes on, the code resets at each delimiter.      *)
BeginsPage(lines, d) == d = 0 \/ lines[d] = "header" \/ (lines[d] = "body" /\ \A k \in 1 .. d : lines[k] # "header")
NlIsRight(j, out) ==
  LET begun(i) == Max({0} \cup {d \in 1 .. i : j.lines[d] \in Delimiters})
      style(i) == j.styles[IF begun(i) = 0 THEN "body" ELSE j.lines[begun(i)]]
      row(i)   == i - Max({begun(i)} \cup {k \in 1 .. i : j.lines[k] # ""})
      counts(i) == /\ j.lines[i] \notin Delimiters
                   /\ \/ style(i) = "a" /\ (j.lines[i] = "x" \/ row(i) % j.join = 0)
                      \/ style(i) = "t" /\ j.lines[i] = "x"
      before(i) == Cardinality({k \in begun(i) + 1 .. i - 1 : counts(k)})
      counted == {i \in DOMAIN j.lines : counts(i)}
  IN  /\ DOMAIN out = DOMAIN j.lines /\ counted = {i \in DOMAIN out : Len(out[i]) = 1}
      /\ \A i \in DOMAIN out \ counted : out[i] = <<>>
      /\ \A i \in counted :
           /\ BeginsPage(j.lines, begun(i)) => out[i][1] = j.start + j.step * before(i)
           /\ \A k \in counted : begun(k) = begun(i) => out[i][1] - out[k][1] = j.step * (before(i) - before(k))

-----------------------------------------------------------------------------
(* tac, head and tail. *)

IndexOf(s, sep) ==
  LET at == {i \in 1 .. Len(s) - Len(sep) + 1 : SubSeq(s, i, i + Len(sep) - 1) = sep}
  IN  IF at = {} THEN 0 ELSE Min(at)
NextRecord(s, sep) ==
  LET i == IndexOf(s.text, sep)
      n == IF i = 0 THEN Len(s.text) ELSE i + Len(sep) - 1
  IN  IF s.text = <<>> THEN s
      ELSE [text |-> Rest(s.text, n), records |-> Append(s.records, First(s.text, n))]
Tac(j) ==
  LET text == FlattenSeq(Opened(j.files))
      s == FoldLeft(LAMBDA t, k : NextRecord(t, j.sep), [text |-> text, records |-> <<>>], Upto(Len(text)))
  IN  FlattenSeq(Reverse(s.records))

(* Where the separator ends that does not overlap one before it.           *)
TacIsRight(j, out) ==
  LET text == FlattenSeq(Opened(j.files))
      n    == Len(j.sep)
      hits == {e \in n .. Len(text) : SubSeq(text, e - n + 1, e) = j.sep}
      ends == CHOOSE E \in SUBSET hits :
                \A e \in hits : e \in E <=> \A d \in E : ~(e - n < d /\ d < e)
      cuts == {0, Len(text)} \cup ends
      begin(p) == Max({c \in cuts : c < p})
      end(p)   == Min({c \in cuts : c >= p})
  IN  /\ Len(out) = Len(text)
      /\ \A p \in DOMAIN text : out[Len(text) - end(p) + p - begin(p)] = text[p]

Ring(ring, r, n) == IF Len(ring) < n THEN Append(ring, r) ELSE Append(Tail(ring), r)
HeadOf(j) ==
  IF j.unit = "bytes" THEN First(j.text, j.n)
  ELSE FlattenSeq(First(Records(j.text, "nl"), j.n))
TailOf(j) ==
  IF j.n <= 0 THEN <<>>
  ELSE IF j.unit = "bytes" THEN Rest(j.text, Len(j.text) - Min({j.n, Len(j.text)}))
  ELSE FlattenSeq(FoldLeft(LAMBDA ring, r : Ring(ring, r, j.n), <<>>, Records(j.text, "nl")))

(* head -n and tail -n part the text where the number of ends is so.       *)
EndsIn(s) == Cardinality({i \in DOMAIN s : s[i] = "nl"})
RecordsIn(s) == EndsIn(s) + IF s # <<>> /\ Last(s) # "nl" THEN 1 ELSE 0
HeadIsRight(j, r) ==
  LET size(s) == IF j.unit = "bytes" THEN Len(s) ELSE RecordsIn(s)
      whole(s, t) == j.unit = "bytes" \/ s = <<>> \/ t = <<>> \/ Last(s) = "nl"
      h == First(j.text, Len(j.text) - Len(r.tail))
      t == Rest(j.text, Len(r.head))
  IN  /\ j.text = r.head \o t /\ whole(r.head, t) /\ size(r.head) = Min({j.n, size(j.text)})
      /\ j.text = h \o r.tail /\ whole(h, r.tail) /\ size(r.tail) = Min({j.n, size(j.text)})

-----------------------------------------------------------------------------
(* wc: only what prints begins a word, only white space ends one. *)

White == {" ", "tab", "nl"}
NoCount == [lines |-> 0, words |-> 0, runes |-> 0, bytes |-> 0, width |-> 0]
CountRune(s, c) ==
  LET begins == c \notin White /\ c # "ctl" /\ ~s.inWord
      width  == IF c = "nl" THEN 0 ELSE s.lineWidth + 1
      n == s.count
  IN  [count |-> [lines |-> n.lines + (IF c = "nl" THEN 1 ELSE 0), words |-> n.words + (IF begins THEN 1 ELSE 0),
                  runes |-> n.runes + 1, bytes |-> n.bytes + (IF c = "e" THEN 2 ELSE 1),
                  width |-> IF c = "nl" THEN Max({n.width, s.lineWidth}) ELSE n.width],
       inWord |-> IF c \in White THEN FALSE ELSE s.inWord \/ begins, lineWidth |-> width]
CountReader(text) ==
  LET s == FoldLeft(CountRune, [count |-> NoCount, inWord |-> FALSE, lineWidth |-> 0], text)
  IN  [s.count EXCEPT !.width = Max({@, s.lineWidth})]
Add(m, n) ==
  [lines |-> m.lines + n.lines, words |-> m.words + n.words, runes |-> m.runes + n.runes,
   bytes |-> m.bytes + n.bytes, width |-> Max({m.width, n.width})]
Wc(j) ==
  LET fs == Opened(j.files)
      rows == [i \in DOMAIN fs |-> CountReader(fs[i])]
  IN  [rows |-> rows, failed |-> Failed(j.files),
       total |-> IF Len(j.files) > 1 THEN <<FoldLeft(Add, NoCount, rows)>> ELSE <<>>]

(* A word is what is between white space, when some of it prints.          *)
WcIsRight(j, r) ==
  LET fs == Opened(j.files)
      all == FlattenSeq([i \in DOMAIN fs |-> fs[i] \o <<"nl">>])
      words(s) == Cardinality({i \in DOMAIN s :
                    /\ s[i] \notin White /\ (i = 1 \/ s[i - 1] \in White)
                    /\ \E k \in i .. Len(s) : s[k] # "ctl" /\ \A m \in i .. k : s[m] \notin White})
      widths(s) == {n \in 0 .. Len(s) : \E i \in 0 .. Len(s) - n : \A m \in i + 1 .. i + n : s[m] # "nl"}
      right(s, c) == /\ c.words = words(s) /\ c.lines = EndsIn(s) /\ c.width = Max(widths(s))
                     /\ c.runes = Len(s) /\ c.bytes = Len(s) + Cardinality({i \in DOMAIN s : s[i] = "e"})
  IN  /\ \A i \in DOMAIN fs : right(fs[i], r.rows[i])
      /\ r.total # <<>> => r.total[1].words = words(all) /\ r.total[1].lines = EndsIn(all) - Len(fs)
                           /\ r.total[1].width = Max(widths(all))

-----------------------------------------------------------------------------
(* cmp [-i SKIP] [-n LIMIT]: <<"equal">>, <<"eof", file>> or <<"differ", offset, line>>. *)

CompareByte(s, k, j) ==
  LET i == s.offset + 1
      a == Rest(j.a, j.skipA)
      b == Rest(j.b, j.skipB)
  IN  IF s.result # <<>> THEN s
      ELSE IF (j.limit > 0 /\ s.offset >= j.limit) \/ (i > Len(a) /\ i > Len(b)) THEN [s EXCEPT !.result = <<"equal">>]
      ELSE IF i > Len(a) THEN [s EXCEPT !.result = <<"eof", 1>>]
      ELSE IF i > Len(b) THEN [s EXCEPT !.result = <<"eof", 2>>]
      ELSE IF a[i] # b[i] THEN [s EXCEPT !.result = <<"differ", i, s.line>>]
      ELSE [s EXCEPT !.offset = i, !.line = IF a[i] = "nl" THEN @ + 1 ELSE @]
Cmp(j) ==
  FoldLeft(LAMBDA s, k : CompareByte(s, k, j), [offset |-> 0, line |-> 1, result |-> <<>>],
           Upto(Len(j.a) + Len(j.b) + 1)).result

CmpIsRight(j, r) ==
  LET cut(s, n) == LET t == Rest(s, n) IN IF j.limit > 0 THEN First(t, j.limit) ELSE t
      a == cut(j.a, j.skipA)
      b == cut(j.b, j.skipB)
      common == Min({Len(a), Len(b)})
  IN  CASE r[1] = "equal"  -> a = b
        [] r[1] = "eof"    -> First(a, common) = First(b, common) /\ a # b
                              /\ Len(IF r[2] = 1 THEN a ELSE b) = common
        [] r[1] = "differ" -> r[2] <= common /\ a[r[2]] # b[r[2]] /\ First(a, r[2] - 1) = First(b, r[2] - 1)
                              /\ r[3] = 1 + EndsIn(First(a, r[2] - 1))
        [] OTHER           -> FALSE

-----------------------------------------------------------------------------
(* expand and unexpand. *)

ToStop(column, stop) == stop - (column % stop)
ExpandChar(s, c, j) ==
  CASE c = "tab" /\ j.only /\ s.seenNonBlank -> [s EXCEPT !.out = Append(@, c), !.column = @ + 1]
    [] c = "tab" /\ ~(j.only /\ s.seenNonBlank) ->
         [s EXCEPT !.out = @ \o CopiesOf(" ", ToStop(s.column, j.stop)), !.column = @ + ToStop(s.column, j.stop)]
    [] c = "nl"  -> [out |-> Append(s.out, c), column |-> 0, seenNonBlank |-> FALSE]
    [] OTHER     -> [out |-> Append(s.out, c), column |-> s.column + 1,
                     seenNonBlank |-> s.seenNonBlank \/ c # " "]
Expand(j) ==
  FoldLeft(LAMBDA s, c : ExpandChar(s, c, j), [out |-> <<>>, column |-> 0, seenNonBlank |-> FALSE], j.text).out

(* A run of blanks, flushed: tabs to the last stop in it, then spaces.     *)
BlanksFor(s, stop) ==
  LET end   == s.pendingStart + s.pending
      stops == {c \in s.pendingStart + 1 .. end : c % stop = 0}
  IN  IF ~s.convertible THEN CopiesOf(" ", s.pending)
      ELSE CopiesOf("tab", Cardinality(stops)) \o CopiesOf(" ", end - Max({s.pendingStart} \cup stops))
ConvertChar(s, c, j) ==
  LET width == IF c = "tab" THEN ToStop(s.column, j.stop) ELSE 1 IN
  IF c \in {" ", "tab"}
  THEN [s EXCEPT !.pendingStart = IF s.pending = 0 THEN s.column ELSE @,
                 !.pending = @ + width, !.column = @ + width]
  ELSE [s EXCEPT !.out = Append(@ \o BlanksFor(s, j.stop), c), !.pending = 0, !.column = @ + 1,
                 !.convertible = @ /\ ~j.only]
ConvertLine(r, j) ==
  LET s == FoldLeft(LAMBDA t, c : ConvertChar(t, c, j),
             [out |-> <<>>, column |-> 0, pending |-> 0, pendingStart |-> 0, convertible |-> TRUE], BodyOf(r))
  IN  s.out \o BlanksFor(s, j.stop) \o IF Ended(r) THEN <<"nl">> ELSE <<>>
Unexpand(j) ==
  LET rs == Records(j.text, "nl") IN FlattenSeq([i \in DOMAIN rs |-> ConvertLine(rs[i], j)])

(* What a terminal shows: every character that is no blank at its column.  *)
Shown(text, stop) ==
  LET put(s, c) == CASE c = "tab" -> [s EXCEPT !.column = (@ \div stop + 1) * stop]
                     [] c = " "   -> [s EXCEPT !.column = @ + 1]
                     [] c = "nl"  -> [column |-> 0, seen |-> Append(s.seen, <<s.column, c>>)]
                     [] OTHER     -> [column |-> s.column + 1, seen |-> Append(s.seen, <<s.column, c>>)]
      s == FoldLeft(put, [column |-> 0, seen |-> <<>>], text)
  IN  Append(s.seen, <<s.column, "end">>)
(* The blanks that a line begins with, and the rest of it.                 *)
Leading(r) == First(r, Min({i \in 0 .. Len(r) : i = Len(r) \/ r[i + 1] \notin {" ", "tab"}}))
Trailing(r) == Rest(r, Len(Leading(r)))
TabsAreRight(j, r) ==
  LET spaced == Records(r.expanded, "nl")
      tabbed == Records(r.unexpanded, "nl")
      before(l, i) == Last(Shown(First(l, i), j.stop))[1]
      tight(l) == \A i \in DOMAIN l : l[i] = " " => before(l, i) % j.stop # 0
  IN  /\ Shown(r.expanded, j.stop) = Shown(j.text, j.stop) /\ Shown(r.unexpanded, j.stop) = Shown(j.text, j.stop)
      /\ \A i \in DOMAIN spaced : "tab" \notin ToSet(IF j.only THEN Leading(spaced[i]) ELSE spaced[i])
      /\ \A i \in DOMAIN tabbed : IF j.only THEN tight(Leading(tabbed[i])) /\ "tab" \notin ToSet(Trailing(tabbed[i]))
                                  ELSE tight(tabbed[i])

-----------------------------------------------------------------------------
(* fold and fmt. *)

Cut1(line, j) ==
  LET blanks == {i \in 2 .. j.width : line[i] \in {" ", "tab"}}
  IN  IF j.blanks /\ blanks # {} THEN Max(blanks) ELSE j.width
FoldLine(j) ==
  LET step(s, k) == IF Len(s.line) <= j.width THEN s
                    ELSE [line |-> Rest(s.line, Cut1(s.line, j)), out |-> Append(s.out, First(s.line, Cut1(s.line, j)))]
      s == FoldLeft(step, [line |-> j.line, out |-> <<>>], Upto(Len(j.line)))
  IN  Append(s.out, s.line)

(* The line in as few pieces as the width allows; or -s, with a blank at   *)
(* the end of each piece that has one behind its first character.          *)
FoldIsRight(j, out) ==
  LET n == Len(j.line)
      plain == IF n = 0 THEN 1 ELSE (n + j.width - 1) \div j.width
      blank(c) == c \in {" ", "tab"}
  IN  /\ FlattenSeq(out) = j.line /\ \A i \in DOMAIN out : Len(out[i]) <= j.width
      /\ IF ~j.blanks THEN Len(out) = plain
         ELSE \A i \in 1 .. Len(out) - 1 :
                LET more == out[i] \o out[i + 1] IN
                IF \E k \in 2 .. Len(out[i]) : blank(out[i][k])
                THEN /\ blank(Last(out[i]))
                     /\ \A k \in Len(out[i]) + 1 .. Min({j.width, Len(more)}) : ~blank(more[k])
                ELSE Len(out[i]) = j.width

LengthOf(ws) == Len(FlattenSeq(ws)) + Len(ws) - 1     \* words with spaces between
Reflow(words, width) ==
  FoldLeft(LAMBDA ls, w : IF ls # <<>> /\ LengthOf(Last(ls)) + 1 + Len(w) <= width
                          THEN [ls EXCEPT ![Len(ls)] = Append(@, w)] ELSE Append(ls, <<w>>), <<>>, words)
FmtLine(s, l, j) ==
  IF l = <<>> THEN [para |-> <<>>, out |-> s.out \o Reflow(s.para, j.width) \o << <<>> >>]
  ELSE [s EXCEPT !.para = @ \o l]
Fmt(j) ==
  LET s == FoldLeft(LAMBDA t, l : FmtLine(t, l, j), [para |-> <<>>, out |-> <<>>], j.lines)
  IN  s.out \o Reflow(s.para, j.width)

(* The words in their order, the empty lines between the same ones, and no *)
(* way to set a paragraph in fewer lines.                                  *)
FmtIsRight(j, out) ==
  LET Marked(ls) == FlattenSeq([i \in DOMAIN ls |-> IF ls[i] = <<>> THEN << <<"nl">> >> ELSE ls[i]])
      gaps(ls) == {0, Len(ls) + 1} \cup {i \in DOMAIN ls : ls[i] = <<>>}
      paras(ls) == {p \in gaps(ls) \X gaps(ls) : p[1] < p[2] /\ \A g \in gaps(ls) : ~(p[1] < g /\ g < p[2])}
      fits(ws) == LengthOf(ws) <= j.width \/ Len(ws) = 1
      \* the fewest lines: the breaks before some words
      fewest(ws) == Min({Cardinality(B) : B \in {C \in SUBSET DOMAIN ws : 1 \in C /\
                      \A b \in C : LET e == Min({c \in C : c > b} \cup {Len(ws) + 1})
                                   IN  fits(SubSeq(ws, b, e - 1))}})
  IN  /\ Marked(out) = Marked(j.lines) /\ \A i \in DOMAIN out : out[i] = <<>> \/ fits(out[i])
      /\ \A p \in paras(out) :
           p[2] > p[1] + 1 => p[2] - p[1] - 1 = fewest(FlattenSeq(SubSeq(out, p[1] + 1, p[2] - 1)))

-----------------------------------------------------------------------------
(* paste: a line is a number; the columns that are "-" share one reader.   *)

Columns(j) == SelectSeq(j.cols, LAMBDA c : c # Missing)
Source(j, i) == IF Columns(j)[i] = Stdin THEN j.stdin ELSE Columns(j)[i]
Reader(j, i) == IF Columns(j)[i] = Stdin THEN 0 ELSE i
NextCell(s, i, j) ==
  LET r == Reader(j, i)
      more == s.pos[r] < Len(Source(j, i))
  IN  IF more THEN [pos |-> [s.pos EXCEPT ![r] = @ + 1], row |-> Append(s.row, <<Source(j, i)[s.pos[r] + 1]>>)]
      ELSE [s EXCEPT !.row = Append(@, <<>>)]
PasteRow(s, j) ==
  LET t == FoldLeft(LAMBDA u, i : NextCell(u, i, j), [pos |-> s.pos, row |-> <<>>], Upto(Len(Columns(j))))
  IN  IF \A i \in DOMAIN t.row : t.row[i] = <<>> THEN s ELSE [pos |-> t.pos, out |-> Append(s.out, t.row)]
(* The separator before the i-th cell of a row, or line of a file with -s. *)
Separator(j, i) == ((i - 2) % j.seps) + 1
Paste(j) ==
  FoldLeft(LAMBDA s, k : PasteRow(s, j), [pos |-> [r \in 0 .. Len(j.cols) |-> 0], out |-> <<>>],
           Upto(Len(j.stdin) + Max({Len(j.cols[i]) : i \in DOMAIN j.cols}))).out

(* Line k of a file is in row k, and those of the standard input fill its  *)
(* columns row by row; there is no row without a line.                     *)
PasteIsRight(j, out) ==
  LET cs == Columns(j)
      mine == {i \in DOMAIN cs : cs[i] = Stdin}
      rank(i) == Cardinality({k \in mine : k <= i})
      cell(k, i) == LET n == IF i \in mine THEN (k - 1) * Cardinality(mine) + rank(i) ELSE k
                    IN  IF n <= Len(Source(j, i)) THEN <<Source(j, i)[n]>> ELSE <<>>
      rows == {k \in 1 .. Len(out) + 9 : \E i \in DOMAIN cs : cell(k, i) # <<>>}
  IN  /\ rows = 1 .. Len(out) /\ \A k \in DOMAIN out : out[k] = [i \in DOMAIN cs |-> cell(k, i)]
      /\ \A i \in 2 .. Len(cs) : Separator(j, i) = IF i = 2 THEN 1 ELSE (Separator(j, i - 1) % j.seps) + 1

-----------------------------------------------------------------------------
(* od, hexdump and xxd: rows are filled across reads and files, and a unit *)
(* is a number whose first byte is the lowest.                             *)

Little(b, W) == SumOf([i \in DOMAIN b |-> b[i] * W ^ (i - 1)])
Units(b, n) == [k \in 1 .. (Len(b) + n - 1) \div n |-> SubSeq(b, (k - 1) * n + 1, Min({k * n, Len(b)}))]
DumpedRow(s, n) ==
  [s EXCEPT !.rows = Append(@, [addr |-> s.off, units |-> [k \in DOMAIN Units(s.buf, n) |->
                                  Little(Units(s.buf, n)[k], 4)]])]
DumpByte(s, b, n) ==
  LET t == [s EXCEPT !.buf = Append(@, b), !.total = @ + 1]
  IN  IF Len(t.buf) = RowSize THEN [DumpedRow(t, n) EXCEPT !.off = @ + RowSize, !.buf = <<>>] ELSE t
DumpChunk(s, chunk, n) == FoldLeft(LAMBDA t, b : DumpByte(t, b, n), s, chunk)
Bounded(j) ==    \* hexdump -s and -n
  LET src == Rest(FlattenSeq(j.chunks), j.skip) IN IF j.length >= 0 THEN <<First(src, j.length)>> ELSE <<src>>
Dump(j) ==
  LET s == FoldLeft(LAMBDA t, c : DumpChunk(t, c, j.unit), [buf |-> <<>>, off |-> j.skip, total |-> 0, rows |-> <<>>],
                    IF j.skip = 0 /\ j.length < 0 THEN j.chunks ELSE Bounded(j))
  IN  [rows |-> IF s.buf # <<>> THEN DumpedRow(s, j.unit).rows ELSE s.rows, end |-> j.skip + s.total]

(* xxd: bytes in pairs, padded to the width of a row; -r reads up to the   *)
(* first two blanks.                                                       *)
Gap == -1           \* a blank
HexPart(data) ==
  LET hex == FlattenSeq([i \in DOMAIN data |-> (IF i > 1 /\ i % 2 = 1 THEN <<Gap>> ELSE <<>>) \o <<data[i], data[i]>>])
  IN  hex \o CopiesOf(Gap, 2 * RowSize + RowSize \div 2 - 1 - Len(hex)) \o <<Gap, Gap>> \o data
Reverted(l) ==
  LET gap == Min({i \in 1 .. Len(l) - 1 : l[i] = Gap /\ l[i + 1] = Gap})
      raw == SelectSeq(First(l, gap - 1), LAMBDA c : c # Gap)
  IN  [k \in 1 .. Len(raw) \div 2 |-> raw[2 * k]]

DumpIsRight(j, r) ==
  LET all  == Rest(FlattenSeq(j.chunks), j.skip)
      src  == IF j.length < 0 THEN all ELSE First(all, j.length)
      digit(p) == LET row == r.rows[(p - 1) \div RowSize + 1]
                      q   == (p - 1) % RowSize
                  IN  (row.units[q \div j.unit + 1] \div 4 ^ (q % j.unit)) % 4
  IN  /\ r.end = j.skip + Len(src) /\ Len(r.rows) = (Len(src) + RowSize - 1) \div RowSize
      /\ \A k \in DOMAIN r.rows : r.rows[k].addr = j.skip + (k - 1) * RowSize
      /\ \A p \in DOMAIN src : digit(p) = src[p]
      /\ \A k \in DOMAIN r.rows : Len(r.rows[k].units) =
           (Min({RowSize, Len(src) - (k - 1) * RowSize}) + j.unit - 1) \div j.unit

-----------------------------------------------------------------------------
(* base64 and base32: the encoder writes in chunks, and a line ends before *)
(* the character that has no place; uuencode -m ends it when it is full.   *)

WrapByte(s, c, cols) ==
  IF cols > 0 /\ s.col = cols THEN [col |-> 1, out |-> s.out \o <<"nl", c>>]
  ELSE [col |-> s.col + 1, out |-> Append(s.out, c)]
Wrap(j) ==
  FoldLeft(LAMBDA s, c : WrapByte(s, c, j.cols), [col |-> 0, out |-> <<>>], FlattenSeq(j.chunks)).out \o <<"nl">>
LineWrap(j) ==
  LET step(s, c) == IF s.col + 1 = j.cols THEN [col |-> 0, out |-> s.out \o <<c, "nl">>]
                    ELSE [col |-> s.col + 1, out |-> Append(s.out, c)]
      s == FoldLeft(step, [col |-> 0, out |-> <<>>], FlattenSeq(j.chunks))
  IN  s.out \o IF s.col > 0 THEN <<"nl">> ELSE <<>>
WrapIsRight(j, r) ==
  LET payload == FlattenSeq(j.chunks)
      full(ls) == /\ FlattenSeq([i \in DOMAIN ls |-> BodyOf(ls[i])]) = payload
                  /\ \A i \in DOMAIN ls : Ended(ls[i])
                  /\ j.cols > 0 => \A i \in DOMAIN ls : i < Len(ls) => Len(BodyOf(ls[i])) = j.cols
                  /\ j.cols > 0 => \A i \in DOMAIN ls : Len(BodyOf(ls[i])) <= j.cols
  IN  /\ full(Records(r.wrapped, "nl")) /\ Len(Records(r.wrapped, "nl")) >= 1
      /\ j.cols > 0 => full(Records(r.terminated, "nl")) /\ <<"nl">> \notin ToSet(Records(r.terminated, "nl"))

(* uuencode: three bytes are four characters, and a line begins with the   *)
(* number of its bytes (here at most 4, not 45).                           *)
Enc(c) == IF c = 0 THEN 96 ELSE (c % 64) + 32
Dec(c) == (c - 32) % 64
UULine(b) ==
  LET g(i) == IF i \in DOMAIN b THEN b[i] ELSE 0
      quad(i) == << Enc(g(i) \div 4), Enc((g(i) * 16 + g(i + 1) \div 16) % 64),
                    Enc((g(i + 1) * 4 + g(i + 2) \div 64) % 64), Enc(g(i + 2) % 64) >>
  IN  <<Enc(Len(b))>> \o FlattenSeq([k \in 1 .. (Len(b) + 2) \div 3 |-> quad(3 * k - 2)])
UUEncode(s) == [k \in DOMAIN Units(s, 4) |-> UULine(Units(s, 4)[k])] \o << <<Enc(0)>> >>
DecodeUULine(l) ==
  LET n == Dec(l[1])
      quad(i) == LET d(k) == Dec(l[i + k]) IN
                 << (d(1) * 4 + d(2) \div 16) % 256, (d(2) * 16 + d(3) \div 4) % 256, (d(3) * 64 + d(4)) % 256 >>
      bytes == FlattenSeq([k \in 1 .. (Len(l) - 1) \div 4 |-> quad(4 * k - 3)])
  IN  First(bytes, n)
UUDecode(ls) == FlattenSeq([k \in DOMAIN ls |-> DecodeUULine(ls[k])])

-----------------------------------------------------------------------------
Run(name, Jobs, f(_)) == layer = "none" /\ layer' = name /\ given' \in Jobs /\ made' = f(given')
LayoutInit == layer = "none" /\ given = <<>> /\ made = <<>>
RunCat   == Run("cat", CatJobs, Cat)
RunNl    == Run("nl", NlJobs, Nl)
RunTac   == Run("tac", TacJobs, Tac)
RunHead  == Run("head", HeadJobs, LAMBDA j : [head |-> HeadOf(j), tail |-> TailOf(j)])
RunWc    == Run("wc", CatJobs, Wc)
RunCmp   == Run("cmp", CmpJobs, Cmp)
RunTabs  == Run("tabs", TabJobs, LAMBDA j : [expanded |-> Expand(j), unexpanded |-> Unexpand(j)])
RunFold  == Run("fold", FoldJobs, FoldLine)
RunFmt   == Run("fmt", FmtJobs, Fmt)
RunPaste == Run("paste", PasteJobs, Paste)
RunDump  == Run("dump", DumpJobs, Dump)
RunWrap  == Run("wrap", WrapJobs, LAMBDA j : [wrapped |-> Wrap(j), terminated |-> LineWrap(j)])
RunUu    == Run("uu", UuJobs, UUEncode)
LayoutNext == RunCat \/ RunNl \/ RunTac \/ RunHead \/ RunWc \/ RunCmp \/ RunTabs \/ RunFold
              \/ RunFmt \/ RunPaste \/ RunDump \/ RunWrap \/ RunUu
LayoutSpec == LayoutInit /\ [][LayoutNext]_lyvars

(* A text that is laid out anew is the same text: cat joins, squeezes and  *)
(* numbers, nl counts from the begin of a section, tac, head and tail part *)
(* it where records end, wc finds its words and lines, cmp the first byte  *)
(* that differs, tabs and spaces stand for the same columns, fold and fmt  *)
(* take no more lines than they must, paste gives each line its place,     *)
(* every byte can be read from a dump, and decoding is the way back.       *)
LayoutIsRight ==
  CASE layer = "cat"   -> CatIsRight(given, made)
    [] layer = "nl"    -> NlIsRight(given, made)
    [] layer = "tac"   -> TacIsRight(given, made)
    [] layer = "head"  -> HeadIsRight(given, made)
    [] layer = "wc"    -> WcIsRight(given, made)
    [] layer = "cmp"   -> CmpIsRight(given, made)
    [] layer = "tabs"  -> TabsAreRight(given, made)
    [] layer = "fold"  -> FoldIsRight(given, made)
    [] layer = "fmt"   -> FmtIsRight(given, made)
    [] layer = "paste" -> PasteIsRight(given, made)
    [] layer = "dump"  -> DumpIsRight(given, made)
                          /\ \A k \in DOMAIN given.chunks : Len(given.chunks[k]) \in 1 .. RowSize =>
                               Reverted(HexPart(given.chunks[k])) = given.chunks[k]
    [] layer = "wrap"  -> WrapIsRight(given, made)
    [] layer = "uu"    -> UUDecode(made) = given
    [] OTHER           -> TRUE
=============================================================================
