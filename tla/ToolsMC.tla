------------------------------- MODULE ToolsMC -------------------------------
(***************************************************************************)
(* The tools that work on a file or a text: vi, diff with patch, compress  *)
(* with uncompress, the print queue, the filters of lines, and the tools   *)
(* that lay a text out anew, and those that evaluate expressions.  They    *)
(* are one binary, whose first act is to choose the applet, and share no   *)
(* state.                                                                  *)
(***************************************************************************)
EXTENDS DiffPatch, Vi, Compress, Spool, Filters, Layout, Evaluators, TLC

VARIABLE applet   \* the applet in view, "none" before run
toolsvars == <<applet, vivars, dvars, cvars, spvars, ftvars, lyvars, evvars>>

ToolsInit ==
  applet = "none" /\ ViInit /\ DiffPatchInit /\ CompressInit /\ SpoolInit /\ FiltersInit /\ LayoutInit /\ EvInit
Choose(name) ==
  applet = "none" /\ applet' = name /\ UNCHANGED <<vivars, dvars, cvars, spvars, ftvars, lyvars, evvars>>
RunVi        == applet = "vi" /\ ViNext /\ UNCHANGED <<applet, dvars, cvars, spvars, ftvars, lyvars, evvars>>
RunDiffPatch == applet = "diff" /\ DiffPatchNext /\ UNCHANGED <<applet, vivars, cvars, spvars, ftvars, lyvars, evvars>>
RunCompress  == applet = "compress" /\ CompressNext /\ UNCHANGED <<applet, vivars, dvars, spvars, ftvars, lyvars, evvars>>
RunSpool     == applet = "lpr" /\ SpoolNext /\ UNCHANGED <<applet, vivars, dvars, cvars, ftvars, lyvars, evvars>>
RunFilter    == applet = "filter" /\ FiltersNext /\ UNCHANGED <<applet, vivars, dvars, cvars, spvars, lyvars, evvars>>
RunLayout    == applet = "layout" /\ LayoutNext /\ UNCHANGED <<applet, vivars, dvars, cvars, spvars, ftvars, evvars>>
RunEvaluator == applet = "evaluator" /\ EvNext /\ UNCHANGED <<applet, vivars, dvars, cvars, spvars, ftvars, lyvars>>
ToolsNext ==
  (\E name \in {"vi", "diff", "compress", "lpr", "filter", "layout", "evaluator"} : Choose(name))
  \/ RunVi \/ RunDiffPatch \/ RunCompress \/ RunSpool \/ RunFilter \/ RunLayout \/ RunEvaluator
ToolsSpec == ToolsInit /\ [][ToolsNext]_toolsvars

(* Decoding inverts encoding on every file of the run that does not fill   *)
(* the table: what CodecIsInverse (TransferProofs) states of every file.   *)
ASSUME CodecAssumption == CodecInverts

(* What a filter, a layout or an evaluator prints is what the definition   *)
(* of the tool says, for every input.                                      *)
ResultsAreRight == FiltersAreRight /\ LayoutIsRight /\ EvaluatorsAreRight

-----------------------------------------------------------------------------
(* Three kinds of typist: one who changes lines, one who inserts and uses  *)
(* the keys of the terminal, one who searches and gives commands.          *)
MCKeyboards ==
  { {"x", "d", "y", "p", "P", "u", "o", "G", "j", "k", "2", "i", "cr", "esc"},
    {"i", "a", "A", "x", "u", "wide", "cr", "del", "esc", "[", "O", "B", "F", "3", "~", "C"},
    {"w", "b", "e", "$", "0", "h", "l", "x", "u", "g", "4", " "},
    {"/", "?", "n", "N", "x", "j", "cr", "del", "esc"},
    {":", "w", "q", "!", "x", "Z", "u", "cr", "del"} }

Text(s) == [lines |-> s, newline |-> TRUE]
MCTexts == { NoText, Text(<< <<"x", " ", "y">>, <<>>, <<" ", "x">> >>),
             [lines |-> << <<"x", "x">> >>, newline |-> FALSE] }

-----------------------------------------------------------------------------
Strings(n, S) == UNION {[1 .. k -> S] : k \in 0 .. n}
File(o, w) == [old |-> o, new |-> w]
MCPairs ==
  {<<File(o, w)>> : o, w \in Strings(5, {"x", "y"})}
  \cup {<<File(<<"-- x", "y">>, <<"y">>), File(<<"y">>, <<"-- x", "y">>)>>}
  \cup {<<File(<<"y", "x", "z", "-- x">>, <<"y", "++ x", "z", "-- x">>)>>}
  \cup {<<File(<<"x", "y", "z", "z", "z", "y", "z", "z", "y", "x">>,
               <<"y", "z", "z", "z", "y", "x", "z", "z", "y", "z">>)>>}

-----------------------------------------------------------------------------
MCSortJobs ==
  [in : Strings(3, { <<3>>, <<2, 3>>, <<4>>, <<3, 2>>, <<5>>, <<6>>, <<6, 1, 3>>, <<4, 1, 5>> }),
   opts : {{}, {"r"}, {"V"}, {"u"}, {"V", "r"}, {"V", "u", "r"}, {"s", "f"}, {"f", "u"}}, key : {1}]
  \cup [in : Strings(4, { <<5, 1, 5>>, <<6, 1, 5>>, <<5, 1, 6>>, <<6>>}), opts : {{}, {"s"}, {"r", "f"}, {"s", "r"}}, key : {1, 2}]
MCCommJobs == [a : Strings(4, { <<>>, <<3>>, <<5, 6>> }), b : Strings(3, { <<3>>, <<4>>, <<5, 6>> })]
MCTsortJobs ==
  [pairs : SUBSET {e \in (1 .. 4) \X (1 .. 4) : e[1] # e[2]} \cup SUBSET ((1 .. 3) \X (1 .. 3))]
MCSplitJobs == [size : 0 .. 9, per : 1 .. 4, base : {2}, width : 1 .. 3, numeric : BOOLEAN, from : 0 .. 2]
MCDdJobs ==
  [in : {[i \in 1 .. n |-> i] : n \in 0 .. 5}, old : {<<>>, <<7, 8>>, <<7, 8, 9, 7, 8, 9, 7, 8, 9>>},
   ibs : 1 .. 3, obs : 1 .. 2, count : {-1, 0, 1, 2}, skip : 0 .. 2, seek : 0 .. 2, opts : SUBSET {"sync", "notrunc"}]
NoAddr == [kind |-> "none", at |-> 0]
At(n) == [kind |-> "line", at |-> n]
LastLine == [kind |-> "last", at |-> 0]
Re(c) == [kind |-> "regex", at |-> c]
Cmd(n, a1, a2) ==
  [name |-> n, a1 |-> a1, a2 |-> a2, re |-> 5, repl |-> <<>>, global |-> FALSE, print |-> FALSE, occurrence |-> 0]
Subst(a1, a2, repl, occ, global, print) ==
  [Cmd("s", a1, a2) EXCEPT !.repl = repl, !.occurrence = occ, !.global = global, !.print = print]
Spans == {<<NoAddr, NoAddr>>, <<At(2), NoAddr>>, <<LastLine, NoAddr>>, <<Re(5), NoAddr>>}
         \cup {At(1), At(2), Re(5), Re(6)} \X {At(2), Re(5), LastLine, Re(6)}
SedLines == { <<5>>, <<6>>, <<5, 6, 5>> }
Programs ==
  {<<Cmd("d", x[1], x[2])>> : x \in Spans}
  \cup {<<Cmd("d", x, NoAddr), Cmd("p", y, z)>> : x \in {At(2), Re(6)}, y \in {At(1), Re(5)}, z \in {At(2), Re(6)}}
  \cup {<<Subst(x[1], x[2], <<6, 6>>, 0, FALSE, TRUE), Cmd("p", Re(5), Re(6)), Cmd("q", At(3), NoAddr)>> : x \in Spans}
  \cup {<<Subst(NoAddr, NoAddr, <<6>>, n, g, p)>> : n \in 0 .. 2, g \in BOOLEAN, p \in BOOLEAN}
MCSedJobs == [in : Strings(4, SedLines), program : Programs, quiet : BOOLEAN]

Thirds(s) == {<<SubSeq(s, 1, i), SubSeq(s, i + 1, k), SubSeq(s, k + 1, Len(s))>> : i, k \in 0 .. Len(s)}
MCTrJobs ==
  [chunks : UNION {Thirds(s) : s \in [1 .. 4 -> {1, 10, 12, 13}]},
   set1 : {<< <<12, 10>>, <<1>> >>}, set2 : {<< <<13, 10, 10>> >>}, opts : {{"s"}}]
  \cup [chunks : {<<s>> : s \in Strings(4, {1, 2, 3})}, set1 : {<< <<1>>, <<2>>, <<1>> >>},
        set2 : {<<>>, << <<2>>, <<3>> >>}, opts : SUBSET {"c", "d", "s"} \ {{}}]
MCCutJobs ==
  [size : {5}, ranges : Strings(3, {r \in (1 .. 5) \X {0, 2, 4} : r[2] = 0 \/ r[1] <= r[2]}) \ {<<>>},
   complement : BOOLEAN]
MCGrepJobs ==
  [files : {<<f>> : f \in Strings(7, BOOLEAN)} \cup {<<f, g>> : f, g \in Strings(3, BOOLEAN)},
   before : {0, 2}, after : {1, 2}]
  \cup [files : {<<f>> : f \in Strings(6, BOOLEAN)}, before : {1}, after : {0}]

-----------------------------------------------------------------------------
(* Files, some of which end in the middle of a line or are not there.      *)
CatFiles ==
  { <<>>, <<"x">>, <<"x", "nl">>, <<"nl">>, <<"nl", "nl">>, <<"x", "nl", "nl", "nl", "x">>,
    <<"nl", "tab", " ", "ctl", "nl">>, <<"ctl", " ", "ctl", "e", "ctl", "x", "nl">>, Missing }
MCCatJobs ==
  [files : Strings(3, CatFiles), opts : {{}, {"s"}, {"n", "s"}, {"b"}, {"E", "b"}, {"s", "E", "T"}}]
Sections(h, b, f) == [header |-> h, body |-> b, footer |-> f]
MCNlJobs ==
  [lines : Strings(5, {"", "x", "header", "footer"}), styles : {Sections("n", "t", "a"), Sections("t", "a", "n")},
   start : {1}, step : {2}, join : 1 .. 3]
  \cup [lines : Strings(6, {"", "x", "body"}), styles : {Sections("n", "a", "n")},
        start : {0}, step : {1}, join : {2}]
MCTacJobs ==
  [files : Strings(2, Strings(3, {"x", "nl"}) \cup {Missing}), sep : {<<"nl">>, <<"x", "x">>, <<"x", "nl", "x">>}]
MCHeadJobs == [text : Strings(6, {"x", "nl"}), n : 0 .. 4, unit : {"records", "bytes"}]
MCCmpJobs ==
  [a : Strings(3, {"x", "nl"}), b : Strings(4, {"x", "nl"}), skipA : 0 .. 2, skipB : 0 .. 1, limit : 0 .. 2]
MCTabJobs ==
  [text : Strings(6, {"x", " ", "tab"}) \cup {<<"x", "tab", "x", "nl">> \o s : s \in Strings(4, {"x", " ", "tab", "nl"})},
   stop : {3}, only : BOOLEAN]
MCFoldJobs == [line : Strings(7, {"x", " "}), width : 1 .. 4, blanks : BOOLEAN]
FmtLines ==
  {<<>>, << <<"x">> >>, << <<"x", "x">> >>, << <<"x", "x", "x", "x", "x", "x">> >>}
  \cup [1 .. 2 -> {<<"x">>, <<"x", "x">>}]
MCFmtJobs == [lines : Strings(3, FmtLines), width : {5}]
MCPasteJobs ==
  [cols : Strings(3, {Stdin, Missing, <<>>, <<"a">>, <<"b", "c">>, <<"a", "b", "c">>}) \ {<<>>},
   stdin : {<<"1", "2">>, <<"1", "2", "3", "4", "5">>}, seps : 1 .. 2]
MCDumpJobs ==
  [chunks : {<<r, s, t>> : r \in {<<>>, <<1>>, <<1, 2, 3>>}, s \in {<<2>>, <<0, 1, 2, 3, 3>>},
                           t \in {<<3, 1>>, <<1, 2, 3, 0>>}},
   unit : 1 .. 2, skip : {0, 1, 4}, length : {-1, 0, 3, 5}]
MCWrapJobs == [chunks : Strings(2, Strings(4, {"x", "y"})), cols : {0, 1, 2, 3}]
MCUuJobs == Strings(4, {0, 1, 63, 128, 255}) \cup [1 .. 5 -> {0, 77, 255}]
-----------------------------------------------------------------------------
(* Tokens: an operator or a name, and words of several characters.         *)
Spelled(names) == {<<n>> : n \in names}
Words3 == {<<"3">>, <<"0">>, <<"x", "y">>}
Binaries == Spelled({"|", "&", "<", "=", "!=", ">=", "+", "-", "*", "/", "%", ":"})
MCExprJobs ==
  Strings(4, Spelled({"3", "x", "(", ")", "-", "|", "length"}))
  \cup {<<a, o, b, q, c>> : a, b, c \in Words3 \cup Spelled({"2"}), o, q \in Binaries}
  \cup {<<a, o, b>> : a, b \in {<<"6", "3">>, <<"-", "6", "4">>, <<"-", "1">>, <<"2">>}, o \in Binaries}
  \cup {<<o, <<"(">>, a, p, b, <<")">>, q, c>> : o \in {<<"2">>}, a, b, c \in Spelled({"1", "3"}), p, q \in Spelled({"-", "*"})}
  \cup {<<a, <<"-">>, <<"(">>, b, p, c, <<")">>, q, a>> : a, b, c \in Spelled({"1", "3"}), p, q \in Spelled({"-", "*"})}
  \cup {<< <<"x", "y", "y">>, <<":">>, p >> :
          p \in {<<"x">>, <<".", "y">>, <<"\\(", "x", "\\)", ".">>, <<"x", "\\(", ".", "y", "\\)">>, <<"y">>, <<"\\(", "y", "\\)">>}}
  \cup {<< <<k>>, a, b, c >> : k \in {"substr", "index", "match"}, a \in {<<"x", "y", "y">>, <<>>}, b, c \in Words3 \cup Spelled({"2", "y"})}
MCTestJobs ==
  Strings(5, Spelled({"x", "!", "(", ")", "-a"}) \cup {<<>>})
  \cup Strings(4, Spelled({"x", "-z", "=", "!=", "-f", "-o", "!"}))
  \cup {<<a, <<o>>, b>> : a, b \in {<<"3">>, <<"-", "1">>, <<"1", "0">>, <<"x">>}, o \in {"-lt", "-le", "-eq", "-ne", "-ge", "-gt", "="}}
  \cup {<<n, a, <<o>>, b, <<p>>, c>> : n \in Spelled({"!"}), a, b, c \in Spelled({"x"}) \cup {<<>>}, o, p \in {"-a", "-o"}}
MCBcJobs ==
  Strings(5, Spelled({"2", "-", "^", "(", ")", "/"}))
  \cup Strings(4, Spelled({"2", "x", "=", ";", "+"}))
  \cup {<< <<"scale">>, <<"=">>, <<s>>, <<";">>, a, <<o>>, b, <<p>>, c >> :
          s \in {"0", "1", "2"}, a, b, c \in {<<"7">>, <<"2">>, <<".", "5">>}, o, p \in {"+", "-", "*", "/", "%"}}
  \cup {<< <<"x">>, <<"=">>, a, <<";">>, <<"x">>, <<o>>, <<"x">>, <<p>>, <<"y">> >> : a \in Spelled({"3"}) \cup {<<"1", ".", "5">>}, o \in {"-", "*", "^"}, p \in {"+", "^", "/"}}
MCDcJobs ==
  Strings(5, Spelled({"2", "0", "-", "/", "^"}))
  \cup Strings(4, Spelled({"3", "d", "r", "k", "K", "n", "+", "/"}) \cup {<<"s", "x">>, <<"l", "x">>, <<"_", "1", ".", "5">>})
MCGetoptJobs ==
  LET Said == UNION {Spoken(v) : v \in {<<"y">>, <<"-", "a">>, <<"--">>}} IN
  [says : Strings(2, Said) \cup Strings(3, Spoken(<<"y">>)), ended : BOOLEAN, rest : {<<>>, << <<"-", "a">>, <<"--">> >>}]
MCSeqJobs == [first : -3 .. 11, increment : {-4, -1, 0, 1, 3, 10}, last : {-12, -3, 0, 2, 10, 21}]
MCIpJobs ==
  LET None == {NoMask}
      Lengths == {[kind |-> "prefix", p |-> p] : p \in -1 .. 9}
      Quads == {[kind |-> "dotted", mask |-> m] : m \in {<<3, 3, 2, 0>>, <<3, 0, 3, 0>>, <<0, 0, 0, 0>>, <<3, 1, 0, 0>>}}
      Ips == [1 .. 4 -> 0 .. 3]
  IN  [ip : Ips, spec : Lengths, operand : None, flag : None] \cup [ip : Ips, spec : None, operand : None \cup Quads, flag : None]
      \cup [ip : {<<1, 3, 0, 3>>}, spec : None, operand : None \cup Quads, flag : Quads \cup Lengths]
MCPrintfJobs ==
  LET Verb(v) == <<"conv", v>>
      Parts == {<<"char", "1">>, <<"esc", <<"n">> >>, <<"oct", <<"0", "1", "0">> >>, <<"%">>, Verb("s"), Verb("d"), Verb("b"), Verb("x")}
      Texts1 == {<<>>, <<<<"char", "-">>, <<"char", "3">>>>, <<<<"char", "6">>, <<"char", "4">>>>,
                 <<<<"oct0", <<"1", "0", "1">> >>, <<"char", "1">>, <<"stop">>, <<"char", "x">>>>,
                 <<<<"hex", <<"4", "1">> >>, <<"oct", <<"1", "7", "7">> >>, <<"esc", <<"\\">> >>>>}
  IN  [format : Strings(2, Parts), operands : Strings(3, Texts1)]
      \cup [format : Strings(3, Parts \cup {Verb("c"), Verb("o"), Verb("u"), <<"hex", <<"7", "1">> >>}), operands : Strings(1, Texts1)]
MCEdJobs ==
  LET EdLine(addrs, sep, c, typed) == [addrs |-> addrs, sep |-> sep, cmd |-> c, typed |-> typed]
      One == {<<"line", 1>>, <<"line", 3>>, <<"$">>, <<"+", -1>>}
      None == <<"">>
      Pairs2 == {<< <<"line", 1>>, <<"line", 2>> >>, << <<"line", 2>>, <<"line", 1>> >>, << <<",">>, None >>, << <<"line", 9>>, <<"line", 1>> >>, << <<"+", 1>>, <<".">> >>}
      Addressed == {<<>>} \cup {<<a>> : a \in One} \cup Pairs2
      Commands == {EdLine(a, s, c, t) : a \in Addressed, s \in {","}, c \in {"d", "p", ""}, t \in {<<>>}}
                  \cup {EdLine(a, ";", "d", <<>>) : a \in Pairs2} \cup {EdLine(a, ",", "S", <<>>) : a \in Pairs2}
                  \cup {EdLine(a, ",", c, t) : a \in {<<>>, << <<"line", 1>> >>, << <<"line", 2>>, <<"line", 2>> >>}, c \in {"a", "i", "c"},
                          t \in {<<>>, << <<"x">>, <<"y">> >>}}
                  \cup {EdLine(<<>>, ",", c, <<>>) : c \in {"w", "q", "s"}}
      Text1(n) == [k \in 1 .. n |-> <<k, <<"x", "y", "x">> >>]
  IN  [lines : {Text1(0), Text1(3)}, cmds : Strings(2, Commands)]
      \cup [lines : {Text1(2)}, cmds : {<<c1, c2, c3>> : c1, c2, c3 \in {c \in Commands : Len(c.addrs) # 1 /\ c.cmd \in {"d", "a", "c", "", "w"}}}]
=============================================================================
