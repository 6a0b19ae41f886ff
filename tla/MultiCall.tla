------------------------------ MODULE MultiCall ------------------------------
(***************************************************************************)
(* The binary itself: cmd/mimixbox/main.go, the table of the applets       *)
(* (internal/applets) and the frame an applet runs in (internal/command).  *)
(*                                                                         *)
(* The name the binary was called by, or its first argument, chooses an    *)
(* applet; else the binary has options of its own.  Two of them keep a     *)
(* directory of symbolic links to it, looking at one name after the other, *)
(* while others may change the directory and a signal may end the process. *)
(***************************************************************************)
EXTENDS Integers, SequencesExt

CONSTANTS
  Registry,   \* the calls of register, in their order: [name, subsystem, kind]
  Letters,    \* the bytes of each string
  Calls,      \* command lines
  Wrap,       \* the width of the list of applets, 60 in the code
  MaxSuggested, \* 5 in the code
  Directories, \* what the directory may hold at the start
  Intruders,  \* what others put there
  MaxCalls, MaxTampered

VARIABLES
  call,      \* the command line, <<>> before the first
  dir,       \* the directory: what each name is
  begun,     \* what it was when this call began
  todo,      \* the applets that are still to be looked at
  step,      \* idle, ready, look, act, link, over
  slot,      \* what was seen at the first of them
  report,    \* what was printed
  result,      \* the exit status
  calls, tampered  \* how many calls there were; the names others changed during this one

mvars == <<call, dir, begun, todo, step, slot, report, result, calls, tampered>>

-----------------------------------------------------------------------------
(* The table.  A later applet of the same name would take its place.       *)
Applets == FoldLeft(LAMBDA table, r : (r.name :> r) @@ table, <<>>, Registry)
HasApplet(name) == name \in DOMAIN Applets
Before(x, y) ==
  \/ IsStrictPrefix(x, y)
  \/ \E i \in DOMAIN x \cap DOMAIN y : x[i] < y[i] /\ SubSeq(x, 1, i - 1) = SubSeq(y, 1, i - 1)
Sorted(names) == SortSeq(SetToSeq(names), LAMBDA a, b : Before(Letters[a], Letters[b]))
SortApplet == Sorted(DOMAIN Applets)

(* A filter is a prefix and a subsystem, each of which may be empty.       *)
Matches(f, name) ==
  /\ IsPrefix(Letters[f.prefix], Letters[name])
  /\ f.subsystem \in {"", Applets[name].subsystem}
FilteredApplets(f) == Sorted({name \in DOMAIN Applets : Matches(f, name)})

(* ShowAppletsBySpaceSeparatedTo: lines of names.                          *)
Width(line) == FoldLeft(LAMBDA w, name : w + Len(Letters[name]), Len(line) - 1, line)
AddName(lines, name) ==
  IF Width(Last(lines)) + 1 + Len(Letters[name]) > Wrap THEN Append(lines, <<name>>)
  ELSE Append(Front(lines), Append(Last(lines), name))
SpaceSeparated == FoldLeft(AddName, <<<<Head(SortApplet)>>>>, Tail(SortApplet))

(* levenshtein keeps one row of the table of distances.                    *)
NextRow(prev, c, b) ==
  FoldLeft(LAMBDA row, j : Append(row, Min({prev[j + 1] + 1, row[j] + 1, prev[j] + IF c = b[j] THEN 0 ELSE 1})),
           <<prev[1] + 1>>, [j \in DOMAIN b |-> j])
Levenshtein(a, b) == Last(FoldLeft(LAMBDA row, c : NextRow(row, c, b), [j \in 1 .. Len(b) + 1 |-> j - 1], a))
CommonPrefixLen(a, b) == Len(LongestCommonPrefix({a, b}))

Distance(target, name) == Levenshtein(Letters[target], Letters[name])
Closer(target, a, b) ==
  LET d(n) == Distance(target, n)
      p(n) == CommonPrefixLen(Letters[target], Letters[n])
  IN  \/ d(a) < d(b)
      \/ d(a) = d(b) /\ p(a) > p(b)
      \/ d(a) = d(b) /\ p(a) = p(b) /\ Before(Letters[a], Letters[b])
SuggestApplets(target, limit) ==
  LET cands == SortSeq(SelectSeq(SortApplet, LAMBDA n : Distance(target, n) <= 3), LAMBDA a, b : Closer(target, a, b))
  IN  SubSeq(cands, 1, IF limit > 0 /\ Len(cands) > limit THEN limit ELSE Len(cands))

-----------------------------------------------------------------------------
(* The frame of an applet.  ParseArgs stops at --help or --version, and at an  *)
(* option it does not know wherever that is; behind -- are operands.       *)
Options(args) == SubSeq(args, 1, Min({Len(args) + 1} \cup {i \in DOMAIN args : args[i] = "--"}) - 1)
Stops(shown, error) == [proceed |-> FALSE, shown |-> shown, error |-> error]
Proceeds == [proceed |-> TRUE, shown |-> <<>>, error |-> "nil"]
ParseArgs(args) ==
  CASE Contains(Options(args), "--unknown") -> Stops(<<>>, "silent")
    [] Contains(Options(args), "--help")    -> Stops(<<"usage">>, "nil")
    [] Contains(Options(args), "--version") -> Stops(<<"version">>, "nil")
    [] OTHER                                -> Proceeds
HandleHelpVersion(args) ==
  CASE args # <<>> /\ Head(args) = "--help"    -> Stops(<<"usage">>, "nil")
    [] args # <<>> /\ Head(args) = "--version" -> Stops(<<"version">>, "nil")
    [] OTHER                                   -> Proceeds

(* PlanGate: an action that is told, and then refused.                     *)
PlanGate(args) ==
  IF ~ParseArgs(args).proceed THEN ParseArgs(args)
  ELSE IF Contains(args, "bad") THEN Stops(<<>>, "exit 1") ELSE Stops(<<"planned action">>, "exit 1")

(* What Run of an applet returns; what it does itself is not this module's.*)
RunOf(name, args, does) ==
  LET frame == CASE Applets[name].kind = "plan"   -> PlanGate(args)
                 [] Applets[name].kind = "custom" -> HandleHelpVersion(args)
                 [] OTHER                         -> ParseArgs(args)
  IN  IF frame.proceed THEN Stops(<<"work">>, does) ELSE frame
Execute(error) == CASE error = "nil" -> 0 [] error = "exit 3" -> 3 [] OTHER -> 1

-----------------------------------------------------------------------------
(* The links.  A path is the sequence of its names.                        *)
Absent == [kind |-> "absent", to |-> <<>>]
LinkTo(path) == [kind |-> "link", to |-> path]
Clean(path) == SelectSeq(path, LAMBDA name : name # ".")
OwnedBySelf(target, self) == Clean(target) = Clean(self)
ClassifyAnyLink(entry, self) ==   \* mutant: every link is taken for the binary's own
  IF entry.kind = "link" THEN "owned" ELSE IF entry.kind = "absent" THEN "free" ELSE "foreign"
ClassifySlot(entry, self) ==
  CASE entry.kind = "absent" -> "free"
    [] entry.kind = "link" /\ OwnedBySelf(entry.to, self) -> "owned"
    [] OTHER -> "foreign"

MultiCallInit ==
  /\ call = <<>> /\ dir = <<>> /\ begun = <<>> /\ todo = <<>> /\ step = "idle"
  /\ slot = "free" /\ report = <<>> /\ result = 0 /\ calls = 0 /\ tampered = {}

(* The directory the binary finds.                                         *)
Find(d) ==
  /\ step = "idle" /\ step' = "ready" /\ dir' = d
  /\ UNCHANGED <<call, begun, todo, slot, report, result, calls, tampered>>

Ended(said, n) == step' = "over" /\ report' = said /\ result' = n /\ todo' = <<>>
(* The nearest applets, and then SpaceSeparated, all of them.              *)
Unsupported(name) ==
  Ended(IF name[1] = "-" THEN <<>> ELSE SuggestApplets(name[2], MaxSuggested), 1)

(* runInstall and runRemove: one operand, a directory.                     *)
RunLinks(c) ==
  IF Len(c.params) # 1 \/ c.params # <<"dir">> THEN Ended(<<>>, 1)
  ELSE step' = "look" /\ todo' = SortApplet /\ report' = <<>> /\ result' = 0

FilterOf(params) ==
  FoldLeft(LAMBDA f, p : CASE p[1] = "prefix"    -> [f EXCEPT !.prefix = p[2]]
                           [] p[1] = "subsystem" -> [f EXCEPT !.subsystem = p[2]]
                           [] OTHER              -> f,
           [prefix |-> "", subsystem |-> ""], params)
RunList(c) ==
  IF \E i \in DOMAIN c.params : c.params[i][1] = "unknown" THEN Ended(<<>>, 1)
  ELSE Ended(FilteredApplets(FilterOf(c.params)), 0)

RunApplet(name, args) ==
  \E does \in {"nil", "error", "silent", "exit 1", "exit 3"} :
    LET r == RunOf(name, args, does) IN Ended(r.shown, Execute(r.error))

(* run: the name it was called by, then the first argument.                *)
Run(c) ==
  /\ step \in {"ready", "over"} /\ calls < MaxCalls /\ calls' = calls + 1
  /\ call' = <<c>> /\ begun' = dir /\ tampered' = {} /\ slot' = "free" /\ UNCHANGED dir
  /\ CASE c.invoked # "mimixbox" /\ HasApplet(c.invoked) -> RunApplet(c.invoked, c.params)
       [] c.first = <<>>                                 -> Ended(<<"help">>, 1)
       [] c.first[1] = "word" /\ HasApplet(c.first[2])   -> RunApplet(c.first[2], c.params)
       [] c.first[1] = "word"                            -> Unsupported(c.first)
       [] c.first[2] \in {"help", "version"}             -> Ended(<<c.first[2]>>, 0)
       [] c.first[2] = "list"                            -> RunList(c)
       [] c.first[2] \in {"install", "full-install", "remove"} -> RunLinks(c)
       [] OTHER                                          -> Unsupported(c.first)

Call == call[1]
Self == Call.self
Removing == Call.first[2] = "remove"
ThisName == Head(todo)
NextName == todo' = Tail(todo) /\ slot' = "free" /\ step' = IF Len(todo) = 1 THEN "over" ELSE "look"

(* classifySlot, or in remove IsSymlink and Readlink.                      *)
Look ==
  /\ step = "look" /\ slot' = ClassifySlot(dir[ThisName], Self) /\ step' = "act"
  /\ UNCHANGED <<call, dir, begun, todo, report, result, calls, tampered>>

Skip == slot = "foreign" \/ (slot = "free" /\ Removing) \/ (slot = "owned" /\ Call.first[2] = "install")
PassBy ==
  /\ step = "act" /\ Skip /\ NextName
  /\ report' = IF slot = "foreign" /\ ~Removing THEN Append(report, ThisName) ELSE report
  /\ UNCHANGED <<call, dir, begun, result, calls, tampered>>

(* os.Remove takes away whatever is there now; it may also be refused.     *)
Delete ==
  /\ step = "act" /\ slot = "owned" /\ ~Skip
  /\ \/ /\ dir[ThisName] # Absent /\ dir' = [dir EXCEPT ![ThisName] = Absent]
        /\ IF Removing THEN NextName ELSE step' = "link" /\ UNCHANGED <<todo, slot>>
        /\ UNCHANGED report
     \/ /\ NextName /\ report' = Append(report, ThisName) /\ UNCHANGED dir
  /\ UNCHANGED <<call, begun, result, calls, tampered>>

(* createLink: a symbolic link is made only where nothing is.              *)
CreateLink ==
  /\ step = "link" \/ (step = "act" /\ slot = "free" /\ ~Skip)
  /\ NextName
  /\ \/ dir[ThisName] = Absent /\ dir' = [dir EXCEPT ![ThisName] = LinkTo(Self)] /\ UNCHANGED report
     \/ report' = Append(report, ThisName) /\ UNCHANGED dir
  /\ UNCHANGED <<call, begun, result, calls, tampered>>

(* Somebody else changes an entry; a signal ends the process.              *)
Tamper(n, e) ==
  /\ step \in {"look", "act", "link"} /\ Cardinality(tampered) < MaxTampered /\ n \notin tampered
  /\ dir' = [dir EXCEPT ![n] = e] /\ tampered' = tampered \cup {n}
  /\ UNCHANGED <<call, begun, todo, step, slot, report, result, calls>>
Killed ==
  /\ step \in {"look", "act", "link"} /\ step' = "over" /\ result' = -1
  /\ todo' = <<>> /\ slot' = "free"
  /\ UNCHANGED <<call, dir, begun, report, calls, tampered>>

MultiCallNext ==
  \/ \E d \in Directories : Find(d)
  \/ \E c \in Calls : Run(c)
  \/ Look \/ PassBy \/ Delete \/ CreateLink \/ Killed
  \/ \E n \in DOMAIN Applets, e \in Intruders : Tamper(n, e)

-----------------------------------------------------------------------------
(* What is not the binary's own link stays, whatever happens, unless it    *)
(* was put there while the binary was at work; and a name that is passed   *)
(* by without a word is as it should be.  Nothing is said of what becomes, *)
(* in a full install, of a link to where the binary may have been: it is   *)
(* left alone, while main.go:304-306 has it corrected.                     *)
Ours(entry) == entry.kind = "link" /\ OwnedBySelf(entry.to, Self)
OfMovedBinary(entry) ==
  Call.first[2] = "full-install" /\ entry.kind = "link" /\ ~Ours(entry) /\ Last(entry.to) = Last(Self)
Unharmed ==
  \A n \in {n \in DOMAIN Applets \ tampered : ~OfMovedBinary(begun[n])} :
    /\ (~Ours(begun[n]) /\ dir[n] # begun[n]) => begun[n] = Absent /\ Ours(dir[n]) /\ Call.first[2] # "remove"
    /\ (Ours(begun[n]) /\ dir[n] # begun[n]) => Call.first[2] # "install"
Complete ==
  (step = "over" /\ result = 0) =>
    \A n \in DOMAIN Applets \ (tampered \cup Range(report)) :
      IF Removing THEN ~Ours(dir[n]) ELSE Ours(dir[n])

(* A call that was killed has lost at most the link it was refreshing.     *)
LosesOne == Call.first[2] = "full-install" =>
  Cardinality({n \in DOMAIN Applets \ (tampered \cup Range(report)) : Ours(begun[n]) /\ dir[n] = Absent}) <= 1

(* The distance by its definition, for names and their prefixes.           *)
RECURSIVE Edits(_, _)
Edits(a, b) ==
  IF a = <<>> \/ b = <<>> THEN Len(a) + Len(b)
  ELSE IF Last(a) = Last(b) THEN Edits(Front(a), Front(b))
  ELSE 1 + Min({Edits(Front(a), b), Edits(a, Front(b)), Edits(Front(a), Front(b))})
WellSuggested(target, names) ==
  LET d(n) == Edits(Letters[target], Letters[n])
      near == {n \in DOMAIN Applets : d(n) <= 3}
  IN  /\ Range(names) \subseteq near /\ IsInjective(names)
      /\ Len(names) = Min({MaxSuggested, Cardinality(near)})
      /\ \A i, k \in DOMAIN names : i < k => d(names[i]) <= d(names[k])
      /\ \A n \in near \ Range(names), i \in DOMAIN names : d(names[i]) <= d(n)
WellWrapped(lines) ==
  /\ FlattenSeq(lines) = SortApplet
  /\ \A i \in DOMAIN lines : Len(lines[i]) = 1 \/ Width(lines[i]) <= Wrap

(* A gated applet never ends well but by showing its help, so that nobody  *)
(* takes what it told for done (plangate.go).                              *)
NoSilentNoOp(name) ==
  (Applets[name].kind = "plan" /\ result = 0) => report \in {<<"usage">>, <<"version">>}

(* The binary keeps its links and nobody else's (OfMovedBinary apart), also*)
(* when it is killed and run again; it suggests the nearest applets, lists *)
(* each once, and no gated applet seems to have acted (main.go, applet.go, *)
(* plangate.go).                                                           *)
BinaryIsRight ==
  call # <<>> =>
    CASE Call.invoked # "mimixbox" /\ HasApplet(Call.invoked) -> NoSilentNoOp(Call.invoked)
      [] Call.first = <<>> -> result = 1
      [] Call.first[1] = "word" /\ HasApplet(Call.first[2]) -> NoSilentNoOp(Call.first[2])
      [] Call.first[1] = "word" -> /\ WellSuggested(Call.first[2], report)
                                   /\ WellWrapped(SpaceSeparated) /\ result = 1
      [] Call.first[2] = "list" -> result = 0 =>
           /\ IsInjective(report) /\ \A i \in DOMAIN report : HasApplet(report[i])
           /\ \A n \in DOMAIN Applets : n \in Range(report) <=> Matches(FilterOf(Call.params), n)
      [] Call.first[2] \in {"install", "full-install", "remove"} ->
           result = 1 \/ (Unharmed /\ Complete /\ LosesOne)
      [] OTHER -> TRUE
=============================================================================
