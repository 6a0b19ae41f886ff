--------------------------------- MODULE Vi ---------------------------------
(***************************************************************************)
(* vi (editors/vi): a modal editor that is fed one byte at a time, decodes *)
(* the escape sequences of a terminal's keys, and writes its buffer to the *)
(* file only when it ends.  The editor is a record; each of its methods is *)
(* an operator from the editor to the editor after it.                     *)
(*                                                                         *)
(* A line is a sequence of bytes, a byte the name of its key.  Rows and    *)
(* columns count from 0.  What is drawn on the screen is left out.         *)
(***************************************************************************)
EXTENDS Integers, FiniteSets, SequencesExt

CONSTANTS
  Keyboards,  \* the sets of keys of which a session uses one
  Texts,      \* what the file may hold: its lines, the last with a newline or not
  MaxKeys     \* bound: keys typed in a session

ASSUME KeyAssumption ==
  /\ MaxKeys \in Nat
  /\ Keyboards \subseteq SUBSET STRING
  /\ Texts \subseteq [lines : Seq(Seq(STRING)), newline : BOOLEAN]

VARIABLES
  vi,      \* the editor
  vpc,     \* "new", "editing", "written", "unwritten" or "failed"
  vtext,   \* what the file held
  vfile,   \* what the file holds
  vkeys, vtyped   \* the keys of this session, and how many were typed

vivars == <<vi, vpc, vtext, vfile, vkeys, vtyped>>

Esc  == "esc"
Wide == {"wide"}                \* the bytes from 0x80 on
Value == [d \in {"0", "1", "2", "3", "4"} |->
            CASE d = "0" -> 0 [] d = "1" -> 1 [] d = "2" -> 2 [] d = "3" -> 3 [] d = "4" -> 4]
NoText == [lines |-> <<>>, newline |-> FALSE]

(* string(b) is the encoding of the character with that number.            *)
Encoded(b) == IF b \in Wide THEN <<"lead", b>> ELSE <<b>>

NewEditor(lines) ==
  [lines |-> IF lines = <<>> THEN << <<>> >> ELSE lines, cx |-> 0, cy |-> 0,
   mode |-> "normal", pending |-> "", count |-> 0, cmd |-> <<>>,
   pat |-> <<>>, fwd |-> FALSE, lastPat |-> <<>>, lastFwd |-> FALSE,
   reg |-> <<>>, undo |-> <<>>, dirty |-> FALSE, quit |-> FALSE, save |-> FALSE,
   esc |-> "none", csi |-> <<>>]

Max0(n)    == IF n < 0 THEN 0 ELSE n
Least(a, b) == IF a < b THEN a ELSE b
Line(e)    == e.lines[e.cy + 1]
LastCol(l) == Max0(Len(l) - 1)
ClampX(e)  == [e EXCEPT !.cx = Least(@, LastCol(Line(e)))]
ClampY(e)  == [e EXCEPT !.cy = Least(Max0(@), Len(e.lines) - 1)]
SetLine(e, l)   == [e EXCEPT !.lines[e.cy + 1] = l, !.dirty = TRUE]
Take(l, n)      == SubSeq(l, 1, n)
From(l, n)      == SubSeq(l, n + 1, Len(l))
InsertLines(s, i, new) == Take(s, i) \o new \o From(s, i)

-----------------------------------------------------------------------------
(* Motions. *)

Left(e)  == [e EXCEPT !.cx = Max0(@ - 1)]
Right(e) == IF e.cx < LastCol(Line(e)) THEN [e EXCEPT !.cx = @ + 1] ELSE e
Down(e)  == IF e.cy < Len(e.lines) - 1 THEN ClampX([e EXCEPT !.cy = @ + 1]) ELSE e
Up(e)    == IF e.cy > 0 THEN ClampX([e EXCEPT !.cy = @ - 1]) ELSE e
Home(e)  == [e EXCEPT !.cx = 0]
End(e)   == [e EXCEPT !.cx = LastCol(Line(e))]

Blanks(l) == {i \in 0 .. Len(l) - 1 : l[i + 1] = " "}
Others(l) == (0 .. Len(l) - 1) \ Blanks(l)
(* The first position in S from i on, or the line's length.                *)
Seek(l, i, S) == IF i >= Len(l) THEN i ELSE Min({j \in S : j >= i} \cup {Len(l)})
(* The last one up to i, or 0.                                             *)
SeekBack(i, S) == Max({j \in S : j <= i} \cup {0})

NonBlank(l, i) == Seek(l, i, Others(l))
WordEnd(l, i)  == Seek(l, i, {j - 1 : j \in Blanks(l)} \cup {Len(l) - 1})

WordForward(e) ==
  LET l == Line(e)
      i == NonBlank(l, Seek(l, e.cx, Blanks(l)))
      n == [e EXCEPT !.cy = @ + 1]
  IN  CASE i < Len(l)               -> [e EXCEPT !.cx = i]
        [] i >= Len(l) /\ e.cy < Len(e.lines) - 1
                                    -> ClampX([n EXCEPT !.cx = NonBlank(Line(n), 0)])
        [] OTHER                    -> End(e)

WordBackward(e) ==
  LET n == IF e.cx = 0 THEN [e EXCEPT !.cy = @ - 1] ELSE e
      l == Line(n)
      i == (IF e.cx = 0 THEN Len(l) ELSE e.cx) - 1
      j == SeekBack(Max0(i), Others(l))
  IN  IF e.cx = 0 /\ e.cy = 0 THEN e
      ELSE [n EXCEPT !.cx = SeekBack(j, {k + 1 : k \in Blanks(l)})]

WordEndForward(e) ==
  LET l == Line(e)
      i == WordEnd(l, NonBlank(l, e.cx + 1))
      n == [e EXCEPT !.cy = @ + 1]
  IN  CASE i < Len(l) -> ClampX([e EXCEPT !.cx = i])
        [] i >= Len(l) /\ e.cy < Len(e.lines) - 1 ->
             ClampX([n EXCEPT !.cx = WordEnd(Line(n), NonBlank(Line(n), 0))])
        [] OTHER -> e

Occurrences(l, p) == {i \in 0 .. Len(l) - Len(p) : SubSeq(l, i + 1, i + Len(p)) = p}

(* searchExecute: the row of the cursor is searched on one side only, and  *)
(* not again when the search has wrapped.                                  *)
Search(e, p, forward) ==
  LET n == Len(e.lines)
      row(k)  == IF forward THEN (e.cy + k) % n ELSE (e.cy - k + n) % n
      hits(k) == {i \in Occurrences(e.lines[row(k) + 1], p) :
                    k = 0 => IF forward THEN i > e.cx ELSE i + Len(p) <= e.cx}
      rows == {k \in 0 .. n - 1 : hits(k) # {}}
      k0   == CHOOSE k \in rows : \A j \in rows : k <= j
      col  == CHOOSE i \in hits(k0) :
                \A j \in hits(k0) : IF forward THEN i <= j ELSE i >= j
  IN  IF p = <<>> \/ rows = {} THEN e
      ELSE ClampX([e EXCEPT !.cy = row(k0), !.cx = col])

SearchAgain(e, forward) == Search(e, e.lastPat, forward)

-----------------------------------------------------------------------------
(* Changes. *)

Snapshot(e) == [e EXCEPT !.undo = Append(@, [lines |-> e.lines, cx |-> e.cx, cy |-> e.cy])]

Undo(e) ==
  IF e.undo = <<>> THEN e
  ELSE LET s == Last(e.undo) IN
       ClampX(ClampY([e EXCEPT !.undo = Front(@), !.lines = s.lines, !.cy = s.cy,
                               !.cx = s.cx, !.dirty = TRUE]))

YankLines(e, n) == [e EXCEPT !.reg = SubSeq(e.lines, e.cy + 1, Least(e.cy + n, Len(e.lines)))]

PasteBelow(e) ==
  IF e.reg = <<>> THEN e
  ELSE [e EXCEPT !.lines = InsertLines(@, e.cy + 1, e.reg), !.cy = @ + 1, !.cx = 0, !.dirty = TRUE]
PasteAbove(e) ==
  IF e.reg = <<>> THEN e
  ELSE [e EXCEPT !.lines = InsertLines(@, e.cy, e.reg), !.cx = 0, !.dirty = TRUE]

DeleteRune(e) ==
  LET l == Line(e) IN
  IF e.cx < Len(l) THEN ClampX(SetLine(e, Take(l, e.cx) \o From(l, e.cx + 1))) ELSE e

DeleteLine(e) ==
  ClampY([e EXCEPT !.lines = IF Len(@) = 1 THEN << <<>> >> ELSE Take(@, e.cy) \o From(@, e.cy + 1),
                   !.cx = 0, !.dirty = TRUE])

OpenBelow(e) ==
  [e EXCEPT !.lines = InsertLines(@, e.cy + 1, << <<>> >>), !.cy = @ + 1, !.cx = 0,
            !.mode = "insert", !.dirty = TRUE]
OpenAbove(e) ==
  [e EXCEPT !.lines = InsertLines(@, e.cy, << <<>> >>), !.cx = 0, !.mode = "insert", !.dirty = TRUE]

(* The column moves by one byte, also when two have been inserted.         *)
InsertRune(e, b) ==
  LET l == Line(e)
      c == Least(e.cx, Len(l))
  IN  [SetLine(e, Take(l, c) \o Encoded(b) \o From(l, c)) EXCEPT !.cx = c + 1]

SplitLine(e) ==
  LET l == Line(e)
      c == Least(e.cx, Len(l))
  IN  [e EXCEPT !.lines = Take(@, e.cy) \o <<Take(l, c), From(l, c)>> \o From(@, e.cy + 1),
                !.cy = @ + 1, !.cx = 0, !.dirty = TRUE]

Backspace(e) ==
  LET l    == Line(e)
      prev == e.lines[e.cy]
  IN  CASE e.cx > 0 -> [SetLine(e, Take(l, e.cx - 1) \o From(l, e.cx)) EXCEPT !.cx = @ - 1]
        [] e.cx = 0 /\ e.cy > 0 ->
             [e EXCEPT !.lines = Take(@, e.cy - 1) \o <<prev \o l>> \o From(@, e.cy + 1),
                       !.cx = Len(prev), !.cy = @ - 1, !.dirty = TRUE]
        [] OTHER -> e

-----------------------------------------------------------------------------
(* The modes. *)

(* The motions that a count repeats, and what each key does once; "d" is   *)
(* for the second one of dd.                                               *)
Moves == {"h", "j", "k", "l", "w", "b", "e"}
Once(e, b) ==
  CASE b = "h" -> Left(e)
    [] b = "l" -> Right(e)
    [] b = "j" -> Down(e)
    [] b = "k" -> Up(e)
    [] b = "w" -> WordForward(e)
    [] b = "b" -> WordBackward(e)
    [] b = "e" -> WordEndForward(e)
    [] b = "d" -> DeleteLine(e)
    [] b = "x" -> DeleteRune(e)
    [] b = "p" -> PasteBelow(e)
    [] b = "P" -> PasteAbove(e)
Times(n, e, b) ==
  LET after[i \in 0 .. n] == IF i = 0 THEN e ELSE Once(after[i - 1], b)
  IN  after[n]

CountOf(e) == IF e.count < 1 THEN 1 ELSE e.count

(* handlePending: the second key of d, g, y or Z.                          *)
SecondKey(e, b) ==
  LET n == CountOf(e)
      f == [e EXCEPT !.pending = "", !.count = 0]
  IN  CASE e.pending = "d" /\ b = "d" -> Times(n, YankLines(Snapshot(f), n), "d")
        [] e.pending = "y" /\ b = "y" -> YankLines(f, n)
        [] e.pending = "g" /\ b = "g" -> [f EXCEPT !.cy = 0, !.cx = 0]
        [] e.pending = "Z" /\ b = "Z" -> [f EXCEPT !.save = TRUE, !.quit = TRUE]
        [] OTHER -> f

NormalCommand(e, b) ==
  LET n == CountOf(e)
      f == [e EXCEPT !.count = 0]
  IN  CASE b \in Moves -> Times(n, f, b)
        [] b \in {"x", "p", "P"} -> Times(n, Snapshot(f), b)
        [] b = "0" -> Home(f)
        [] b = "$" -> End(f)
        [] b = "G" -> ClampX(ClampY([f EXCEPT !.cy = IF e.count > 0 THEN n - 1 ELSE Len(e.lines) - 1]))
        [] b = "u" -> Undo(f)
        [] b = "i" -> [Snapshot(f) EXCEPT !.mode = "insert"]
        [] b = "a" -> [Snapshot(f) EXCEPT !.mode = "insert",
                                          !.cx = IF Line(f) = <<>> THEN @ ELSE @ + 1]
        [] b = "A" -> [Snapshot(f) EXCEPT !.mode = "insert", !.cx = Len(Line(f))]
        [] b = "o" -> OpenBelow(Snapshot(f))
        [] b = "O" -> OpenAbove(Snapshot(f))
        [] b \in {"/", "?"} -> [f EXCEPT !.mode = "search", !.fwd = (b = "/"), !.pat = <<>>]
        [] b = "n" -> SearchAgain(f, f.lastFwd)
        [] b = "N" -> SearchAgain(f, ~f.lastFwd)
        [] b = ":" -> [f EXCEPT !.mode = "command", !.cmd = <<>>]
        [] OTHER -> f

FeedNormal(e, b) ==
  LET digit == b \in DOMAIN Value /\ (b # "0" \/ e.count > 0) IN
  CASE digit                      -> [e EXCEPT !.count = @ * 10 + Value[b]]
    [] ~digit /\ e.pending # ""   -> SecondKey(e, b)
    [] ~digit /\ e.pending = "" /\ b \in {"d", "g", "Z", "y"} -> [e EXCEPT !.pending = b]
    [] OTHER                      -> NormalCommand(e, b)

FeedInsert(e, b) ==
  CASE b = "cr"  -> SplitLine(e)
    [] b = "del" -> Backspace(e)
    [] OTHER     -> InsertRune(e, b)

ExForced(e) ==           \* mutant: :q does not look for changes
  CASE e.cmd = <<"w">>                  -> [e EXCEPT !.save = TRUE]
    [] e.cmd \in {<<"w", "q">>, <<"x">>} -> [e EXCEPT !.save = TRUE, !.quit = TRUE]
    [] e.cmd \in {<<"q">>, <<"q", "!">>} -> [e EXCEPT !.quit = TRUE]
    [] OTHER -> e

(* :w only notes that the buffer is to be written when the editor ends.    *)
ExCommand(e) ==
  CASE e.cmd = <<"w">>                  -> [e EXCEPT !.save = TRUE]
    [] e.cmd \in {<<"w", "q">>, <<"x">>} -> [e EXCEPT !.save = TRUE, !.quit = TRUE]
    [] e.cmd = <<"q">>                  -> [e EXCEPT !.quit = ~e.dirty]
    [] e.cmd = <<"q", "!">>             -> [e EXCEPT !.quit = TRUE]
    [] OTHER -> e

Typed(s, b) == IF b # "del" THEN s \o Encoded(b) ELSE IF s = <<>> THEN s ELSE Front(s)

FeedCommand(e, b) ==
  IF b = "cr" THEN [ExCommand(e) EXCEPT !.mode = "normal", !.cmd = <<>>]
  ELSE [e EXCEPT !.cmd = Typed(@, b)]

FeedSearch(e, b) ==
  IF b = "cr"
  THEN [Search([e EXCEPT !.mode = "normal", !.lastPat = e.pat, !.lastFwd = e.fwd], e.pat, e.fwd)
          EXCEPT !.pat = <<>>]
  ELSE [e EXCEPT !.pat = Typed(@, b)]

Dispatch(e, b) ==
  CASE e.mode = "insert"  -> FeedInsert(e, b)
    [] e.mode = "command" -> FeedCommand(e, b)
    [] e.mode = "search"  -> FeedSearch(e, b)
    [] e.mode = "normal"  -> FeedNormal(e, b)

-----------------------------------------------------------------------------
(* Escape sequences. *)

HandleEscStays(e) ==     \* mutant: the cursor stays behind the line's end
  [e EXCEPT !.mode = "normal", !.cmd = <<>>, !.pat = <<>>]
HandleEsc(e) ==
  CASE e.mode = "insert"  -> [e EXCEPT !.mode = "normal", !.cx = Max0(@ - 1)]
    [] e.mode = "command" -> [e EXCEPT !.mode = "normal", !.cmd = <<>>]
    [] e.mode = "search"  -> [e EXCEPT !.mode = "normal", !.pat = <<>>]
    [] e.mode = "normal"  -> e

Arrow(e, b) ==
  CASE b = "A" -> Up(e)
    [] b = "B" -> Down(e)
    [] b = "C" -> Right(e)
    [] b = "D" -> Left(e)
    [] b = "H" -> Home(e)
    [] b = "F" -> End(e)
    [] OTHER   -> e

(* A sequence goes on with these: all but the bytes from 0x40 to 0x7e.      *)
Inner == DOMAIN Value \cup Wide \cup {"5", "6", "7", "8", "9", " ", "!", "$", "/", ":", "?", "cr", "del", Esc}

DecodeCSI(e, b) ==
  CASE b # "~"                           -> Arrow(e, b)
    [] b = "~" /\ e.csi \in {<<"1">>, <<"7">>} -> Home(e)
    [] b = "~" /\ e.csi \in {<<"4">>, <<"8">>} -> End(e)
    [] b = "~" /\ e.csi = <<"3">>              -> DeleteRune(e)
    [] OTHER -> e

FeedByte(e, b) ==
  LET f == [e EXCEPT !.esc = "none"] IN
  CASE e.esc = "esc" /\ b = "["   -> [e EXCEPT !.esc = "csi", !.csi = <<>>]
    [] e.esc = "esc" /\ b = "O"   -> [e EXCEPT !.esc = "ss3"]
    [] e.esc = "esc" /\ b \notin {"[", "O"} -> Dispatch(HandleEsc(f), b)
    [] e.esc = "csi" /\ b \notin Inner -> [DecodeCSI(f, b) EXCEPT !.csi = <<>>]
    [] e.esc = "csi" /\ b \in Inner -> [e EXCEPT !.csi = Append(@, b)]
    [] e.esc = "ss3" -> Arrow(f, b)
    [] e.esc = "none" /\ b = Esc  -> [e EXCEPT !.esc = "esc"]
    [] e.esc = "none" /\ b # Esc  -> Dispatch(e, b)

FlushKeys(e) == [(IF e.esc = "esc" THEN HandleEsc(e) ELSE e) EXCEPT !.esc = "none"]

-----------------------------------------------------------------------------
(* A session: Run, runBatch and runInteractive. *)

ViInit ==
  /\ vi = NewEditor(<<>>) /\ vpc = "new" /\ vtyped = 0
  /\ vtext = NoText /\ vfile = NoText /\ vkeys = {}

(* A file that is missing is an empty one; any other error ends vi, and so *)
(* does one of reading a script from standard input.                       *)
Open ==
  /\ vpc = "new"
  /\ vtext' \in Texts /\ vfile' = vtext' /\ vkeys' \in Keyboards
  /\ \/ vpc' = "editing" /\ vi' = NewEditor(vtext'.lines)
     \/ vpc' = "failed" /\ UNCHANGED vi
  /\ UNCHANGED vtyped

Feed(b) ==
  /\ vpc = "editing" /\ ~vi.quit /\ vtyped < MaxKeys
  /\ b \in DOMAIN Value => vi.count = 0    \* bound: counts of one digit
  /\ vi' = FeedByte(vi, b) /\ vtyped' = vtyped + 1
  /\ UNCHANGED <<vpc, vtext, vfile, vkeys>>

(* The input ends or the editor quits.  There may be no file name, and     *)
(* os.WriteFile may fail when it has cut the file to nothing.              *)
Close ==
  /\ vpc = "editing"
  /\ vi' = FlushKeys(vi)
  /\ \/ ~vi.save /\ vpc' = "unwritten" /\ UNCHANGED vfile
     \/ vi.save /\ vpc' = "written" /\ vfile' = [lines |-> vi.lines, newline |-> TRUE]
     \/ vi.save /\ vpc' = "failed" /\ vfile' \in {vfile, NoText}
  /\ UNCHANGED <<vtext, vkeys, vtyped>>

ViNext == Open \/ (\E b \in vkeys : Feed(b)) \/ Close
ViSpec == ViInit /\ [][ViNext]_vivars

-----------------------------------------------------------------------------
(* Properties. *)

(* No sequence of keys takes the cursor out of the buffer, where the next  *)
(* key would index a slice out of its range: the row is one of the lines,  *)
(* the column one of the line's, or its end in insert mode.  What u would  *)
(* restore is in order too.                                                *)
InBuffer(lines, cx, cy, last) ==
  /\ lines # <<>> /\ cy \in 0 .. Len(lines) - 1
  /\ cx \in 0 .. IF last THEN Len(lines[cy + 1]) ELSE LastCol(lines[cy + 1])
CursorInside ==
  vpc = "editing" =>
    /\ InBuffer(vi.lines, vi.cx, vi.cy, vi.mode = "insert")
    /\ \A i \in DOMAIN vi.undo : InBuffer(vi.undo[i].lines, vi.undo[i].cx, vi.undo[i].cy, FALSE)

(* Every change is preceded by a snapshot, "so u can restore" the text: u  *)
(* repeated leads back to what the file held, in a session without the     *)
(* Delete key, which takes none.  A buffer that is not marked as changed   *)
(* is what the file held, so that :q, which ends vi only then, loses       *)
(* nothing, and a file that is not written is as before.                   *)
Loaded == NewEditor(vtext.lines).lines
NoLoss ==
  /\ vpc = "editing" =>
       /\ "~" \notin vkeys =>
            (IF vi.undo = <<>> THEN vi.lines ELSE vi.undo[1].lines) = Loaded
       /\ ~vi.dirty => vi.lines = Loaded
  /\ vpc = "unwritten" => vfile = vtext
QuitAsks == [][vi'.quit /\ ~vi.quit /\ vi.cmd = <<"q">> => vi.lines = Loaded]_vivars
NothingIsLost == []NoLoss /\ QuitAsks
=============================================================================
