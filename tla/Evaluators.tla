------------------------------ MODULE Evaluators ------------------------------
(***************************************************************************)
(* The applets that evaluate: expr, test, bc, dc, and the small ones whose *)
(* arguments are a language too, getopt, seq, ipcalc, printf and ed.  The  *)
(* three parsers are recursive descents that evaluate as they go; what     *)
(* they ought to find is the value of the trees that their grammar derives.*)
(*                                                                         *)
(* A token is a sequence of characters; an operator, an option of test and *)
(* a keyword are tokens of one character.                                  *)
(***************************************************************************)
EXTENDS Integers, FiniteSets, SequencesExt

CONSTANTS
  ExprJobs, TestJobs, BcJobs, DcJobs,  \* sequences of tokens
  GetoptJobs,    \* sequences of what a caller of a script means, see Spelled
  SeqJobs,       \* [first, increment, last]
  IpJobs,        \* [ip, spec, operand, flag]: an address, and where the mask comes from
  PrintfJobs,    \* [format, operands]
  EdJobs,        \* [lines, cmds]
  IntBits,       \* bits of an int (64)
  Octets, Octet, \* digits of an address (4), and the bits of each (8)
  FileTests      \* the pairs of a file test and a name for which it holds

ASSUME EvaluatorAssumption == IntBits \in 2 .. 7 /\ Octets \in Nat /\ Octet \in 1 .. 4

VARIABLES
  asked,         \* "none", or the applet that was run
  posed, found   \* its input and its result

evvars == <<asked, posed, found>>

Digits == <<"0", "1", "2", "3", "4", "5", "6", "7", "8", "9">>
DigitOf(c) == CHOOSE n \in 0 .. 9 : Digits[n + 1] = c
IsDigit(c) == c \in ToSet(Digits)
NumberOf(ds) == FoldLeft(LAMBDA n, c : 10 * n + DigitOf(c), 0, ds)
RECURSIVE InBase(_, _)
InBase(n, base) ==
  (IF n < base THEN <<>> ELSE InBase(n \div base, base)) \o <<(Digits \o <<"a", "b", "c", "d", "e", "f">>)[(n % base) + 1]>>
Numeral(n) == InBase(n, 10)
Lexicon == <<"!", "!=", "%", "&", "(", ")", "*", "+", "-", ".", "/">> \o Digits
           \o <<":", "<", "<=", "=", ">", ">=", "index", "length", "match", "substr", "x", "y", "|">>
RankOf(c) == CHOOSE i \in DOMAIN Lexicon : Lexicon[i] = c

(* strconv.Atoi, strconv.Itoa, and the arithmetic of an int.               *)
Ints == -(2 ^ (IntBits - 1)) .. 2 ^ (IntBits - 1) - 1
Wrapped(n) == ((n + 2 ^ (IntBits - 1)) % 2 ^ IntBits) - 2 ^ (IntBits - 1)
Signed(sign, ds) ==
  IF ds # <<>> /\ \A i \in DOMAIN ds : IsDigit(ds[i]) THEN [ok |-> TRUE, n |-> sign * NumberOf(ds)]
  ELSE [ok |-> FALSE, n |-> 0]
Fitting(r) == [r EXCEPT !.ok = @ /\ r.n \in Ints]
Atoi(s) ==
  Fitting(Signed(IF s # <<>> /\ s[1] = "-" THEN -1 ELSE 1, IF s # <<>> /\ s[1] \in {"+", "-"} THEN Tail(s) ELSE s))
IntText(n) == IF n < 0 THEN <<"-">> \o Numeral(-n) ELSE Numeral(n)
Itoa(n) == IntText(Wrapped(n))
Magnitude(n) == IF n < 0 THEN -n ELSE n
TowardZero(a, b) == (Magnitude(a) \div Magnitude(b)) * (IF (a < 0) = (b < 0) THEN 1 ELSE -1)

-----------------------------------------------------------------------------
(* expr. *)

Good(v) == [ok |-> TRUE, v |-> v]
Bad     == [ok |-> FALSE, v |-> <<>>]
OfBool(b) == IF b THEN <<"1">> ELSE <<"0">>
IsFalse(s, number) == s = <<>> \/ (number.ok /\ number.n = 0)

(* strings.Compare: -1, 0 or 1. *)
OrderOf(a, b) ==
  LET differ == {i \in DOMAIN a \cap DOMAIN b : a[i] # b[i]}
      i == Min(differ)
      l == IF differ = {} THEN Len(a) ELSE RankOf(a[i])
      r == IF differ = {} THEN Len(b) ELSE RankOf(b[i])
  IN  IF l < r THEN -1 ELSE IF l = r THEN 0 ELSE 1
Holds(op, order) ==
  CASE op \in {"<", "-lt"} -> order < 0  [] op \in {"<=", "-le"} -> order <= 0
    [] op \in {"=", "-eq"} -> order = 0  [] op \in {"!=", "-ne"} -> order # 0
    [] op \in {">=", "-ge"} -> order >= 0 [] op \in {">", "-gt"} -> order > 0
Compare2(op, l, r, a, b) == Holds(op, IF a.ok /\ b.ok THEN a.n - b.n ELSE OrderOf(l, r))

(* ":" with patterns of characters, "." and one group.                     *)
MatchOp(s, pattern) ==
  LET atoms == SelectSeq(pattern, LAMBDA c : c \notin {"\\(", "\\)"})
      open  == SelectInSeq(pattern, LAMBDA c : c = "\\(")
      close == SelectInSeq(pattern, LAMBDA c : c = "\\)")
      matches == Len(atoms) <= Len(s) /\ \A i \in DOMAIN atoms : atoms[i] \in {".", s[i]}
  IN  IF ~matches THEN IF open # 0 THEN <<>> ELSE <<"0">>
      ELSE IF open # 0 THEN SubSeq(s, open, close - 2) ELSE Numeral(Len(atoms))
Substr(s, pos, length) ==
  LET p == Atoi(pos)
      n == Atoi(length)
  IN  IF ~(p.ok /\ n.ok) \/ p.n < 1 \/ n.n < 0 \/ p.n > Len(s) THEN <<>>
      ELSE SubSeq(s, p.n, Min({p.n + n.n - 1, Len(s)}))
Index(s, chars) ==
  LET at == {i \in DOMAIN s : s[i] \in ToSet(chars)} IN IF at = {} THEN <<"0">> ELSE Numeral(Min(at))

(* The operator op on the words l and r, which read as integers are a and b. *)
Arithmetic(op, a, b) ==
  CASE op = "+" -> a + b [] op = "-" -> a - b [] op = "*" -> a * b
    [] op = "/" -> TowardZero(a, b) [] op = "%" -> a - b * TowardZero(a, b)
ApplyOp(op, l, r, a, b) ==
  CASE op = "|" -> Good(IF IsFalse(l, a) THEN r ELSE l)
    [] op = "&" -> Good(IF IsFalse(l, a) \/ IsFalse(r, b) THEN <<"0">> ELSE l)
    [] op \in {"<", "<=", "=", "!=", ">=", ">"} -> Good(OfBool(Compare2(op, l, r, a, b)))
    [] op = ":" -> Good(MatchOp(l, r))
    [] op \in {"+", "-", "*", "/", "%"} ->
         IF ~(a.ok /\ b.ok) \/ (op \in {"/", "%"} /\ b.n = 0) THEN Bad
         ELSE Good(Itoa(Arithmetic(op, a.n, b.n)))
ExprOp(op, l, r) == ApplyOp(op, l, r, Atoi(l), Atoi(r))
Calls == [length |-> 1, index |-> 2, match |-> 2, substr |-> 3]    \* keywords and their operands
Called(name, args) ==
  CASE name = "length" -> Numeral(Len(args[1]))
    [] name = "index"  -> Index(args[1], args[2])
    [] name = "match"  -> MatchOp(args[1], args[2])
    [] name = "substr" -> Substr(args[1], args[2], args[3])
ExprLevels ==
  <<{"|"}, {"&"}, {"<", "<=", "=", "!=", ">=", ">"}, {"+", "-"}, {"*", "/", "%"}, {":"}>>

-----------------------------------------------------------------------------
(* test.  A value is <<"1">> or <<"0">>. *)

BinaryOps == {"=", "!=", "-eq", "-ne", "-gt", "-ge", "-lt", "-le"}
UnaryOps  == {"-z", "-n", "-e", "-f", "-d", "-r", "-w", "-x", "-s", "-L", "-h", "-b", "-c", "-p", "-S"}
IsIn(tok, ops) == Len(tok) = 1 /\ tok[1] \in ops
OfIntegers(a, op, b) == IF a.ok /\ b.ok THEN Good(OfBool(Holds(op, a.n - b.n))) ELSE Bad
EvalBinary(l, op, r) ==
  IF op \in {"=", "!="} THEN Good(OfBool((l = r) = (op = "="))) ELSE OfIntegers(Atoi(l), op, Atoi(r))
EvalUnary(op, x) ==
  OfBool(CASE op = "-z" -> x = <<>> [] op = "-n" -> x # <<>> [] OTHER -> <<op, x>> \in FileTests)
TestOp(op, l, r) ==
  Good(IF op = "-o" THEN OfBool(<<"1">> \in {l, r}) ELSE OfBool(l = <<"1">> /\ r = <<"1">>))
Not(v) == OfBool(v = <<"0">>)
TestLevels == <<{"-o"}, {"-a"}>>

-----------------------------------------------------------------------------
(* The numbers of bc and dc: a fraction, and the digits that are shown.    *)

RECURSIVE Gcd(_, _)
Gcd(a, b) == IF b = 0 THEN a ELSE Gcd(b, a % b)
Reduced(n, d, g) == IF d < 0 THEN <<(-n) \div g, (-d) \div g>> ELSE <<n \div g, d \div g>>
Fraction(n, d) == Reduced(n, d, Gcd(Magnitude(n), Magnitude(d)))
Num(v, scale) == [v |-> v, scale |-> scale]
NoNum == Num(<<0, 1>>, 0)
ParseNum(tok) ==
  LET digits == SelectSeq(tok, LAMBDA c : IsDigit(c))
      dot    == SelectInSeq(tok, LAMBDA c : c = ".")
      scale  == IF dot = 0 THEN 0 ELSE Len(tok) - dot
      n      == NumberOf(digits) * (IF tok[1] = "_" THEN -1 ELSE 1)
  IN  Num(Fraction(n, 10 ^ scale), scale)
Plus(a, b)  == Fraction(a[1] * b[2] + b[1] * a[2], a[2] * b[2])
Minus(a, b) == Fraction(a[1] * b[2] - b[1] * a[2], a[2] * b[2])
TimesBy(a, b) == Fraction(a[1] * b[1], a[2] * b[2])
Quotient(a, b) == Fraction(a[1] * b[2], a[2] * b[1])
ToInt(a) == TowardZero(a[1], a[2])
Truncate(a, k) ==
  LET p == 10 ^ Max({k, 0}) IN Fraction(TowardZero(a[1] * p, a[2]), p)
Power(a, e) ==
  LET n == a[1] ^ Magnitude(e)
      d == a[2] ^ Magnitude(e)
  IN  IF e = 0 THEN <<1, 1>> ELSE IF e < 0 /\ n # 0 THEN Fraction(d, n) ELSE Fraction(n, d)

(* apply; whether dc's product or bc's, which is cut.                      *)
Apply(op, a, b, scale, cut) ==
  LET most == Max({a.scale, b.scale})
      ps   == Min({a.scale + b.scale, Max({scale, most})})
      es   == a.scale * ToInt(b.v)
  IN  CASE op = "+" -> Num(Plus(a.v, b.v), most)
        [] op = "-" -> Num(Minus(a.v, b.v), most)
        [] op = "*" -> IF cut THEN Num(Truncate(TimesBy(a.v, b.v), ps), ps)
                       ELSE Num(TimesBy(a.v, b.v), a.scale + b.scale)
        [] op = "/" -> Num(Truncate(Quotient(a.v, b.v), scale), scale)
        [] op = "%" -> Num(Minus(a.v, TimesBy(Truncate(Quotient(a.v, b.v), scale), b.v)), Max({a.scale, b.scale + scale}))
        [] op = "^" -> Num(Power(a.v, ToInt(b.v)), IF es < 0 THEN scale ELSE es)
BcOp(op, a, b, scale) == IF op \in {"/", "%"} /\ b.v[1] = 0 THEN NoNum ELSE Apply(op, a, b, scale, TRUE)
Negated(a) == Num(<<-a.v[1], a.v[2]>>, a.scale)
BcLevels == <<{"+", "-"}, {"*", "/", "%"}>>
(* The digits that format shows: as many as the scale says, rounded away   *)
(* from zero.                                                              *)
Rounded(a) ==
  LET p == 10 ^ Max({a.scale, 0}) * a.v[1]
      half == TowardZero(2 * p + (IF p < 0 THEN -a.v[2] ELSE a.v[2]), 2 * a.v[2])
  IN  IF a.scale <= 0 THEN <<ToInt(a.v), 0>> ELSE <<half, a.scale>>

-----------------------------------------------------------------------------
(* The recursive descent.  env is [lang, scale, vars]; a result has the    *)
(* value, the position behind it, and an error: "bad", after which bc goes *)
(* on to the end of the statement, or "crash": bc looks behind its last    *)
(* token when an operand is missing there.                                 *)

Levels(env) == CASE env.lang = "expr" -> ExprLevels [] env.lang = "test" -> TestLevels [] env.lang = "bc" -> BcLevels
Stands(t, pos, ops) == pos <= Len(t) /\ IsIn(t[pos], ops)
Result(v, pos, err) == [v |-> v, pos |-> pos, err |-> err]
Worse(a, b) == IF "crash" \in {a, b} THEN "crash" ELSE IF "bad" \in {a, b} THEN "bad" ELSE ""
Stops(env, r) == r.err = "crash" \/ (r.err = "bad" /\ env.lang # "bc")
Combine(env, op, l, r) ==
  CASE env.lang = "expr" -> ExprOp(op, l, r)
    [] env.lang = "test" -> TestOp(op, l, r)
    [] env.lang = "bc"   -> Good(BcOp(op, l, r, env.scale))

RECURSIVE Descend(_, _, _, _), Chain(_, _, _, _), ExprPrimary(_, _, _), TestFactor(_, _, _), BcUnary(_, _, _)
Joined(left, right, c) == Result(c.v, right.pos, Worse(Worse(left.err, right.err), IF c.ok THEN "" ELSE "bad"))
Applied(env, t, left, right) == Joined(left, right, Combine(env, t[left.pos][1], left.v, right.v))
Ends(env, t, left, level) == Stops(env, left) \/ ~Stands(t, left.pos, Levels(env)[level])
(* Mutant: the right operand takes the rest of the chain.                  *)
LinkRight(env, t, left, right) == IF Stops(env, right) THEN right ELSE Applied(env, t, left, right)
ChainRight(env, t, left, level) ==
  IF Ends(env, t, left, level) THEN left ELSE LinkRight(env, t, left, Descend(env, t, left.pos + 1, level))
Link(env, t, left, right, level) ==
  IF Stops(env, right) THEN right ELSE Chain(env, t, Applied(env, t, left, right), level)
Chain(env, t, left, level) ==
  IF Ends(env, t, left, level) THEN left ELSE Link(env, t, left, Descend(env, t, left.pos + 1, level + 1), level)
Descend(env, t, pos, level) ==
  IF level <= Len(Levels(env)) THEN Chain(env, t, Descend(env, t, pos, level + 1), level)
  ELSE CASE env.lang = "expr" -> ExprPrimary(env, t, pos)
         [] env.lang = "test" -> TestFactor(env, t, pos)
         [] env.lang = "bc"   -> BcUnary(env, t, pos)
(* "( expression )". *)
Group(env, t, pos, r) ==
  IF Stops(env, r) THEN r
  ELSE IF Stands(t, r.pos, {")"}) THEN [r EXCEPT !.pos = @ + 1] ELSE [r EXCEPT !.err = Worse(@, "bad")]

ExprPrimary(env, t, pos) ==
  IF pos > Len(t) THEN Result(<<>>, pos, "bad")
  ELSE IF Stands(t, pos, {"("}) THEN Group(env, t, pos, Descend(env, t, pos + 1, 1))
  ELSE IF Stands(t, pos, DOMAIN Calls)
  THEN LET n == Calls[t[pos][1]] IN
       IF pos + n > Len(t) THEN Result(<<>>, pos, "bad")
       ELSE Result(Called(t[pos][1], SubSeq(t, pos + 1, pos + n)), pos + n + 1, "")
  ELSE Result(t[pos], pos + 1, "")

Verdict(b, pos) == Result(b.v, pos, IF b.ok THEN "" ELSE "bad")
TestPrimary(env, t, pos) ==
  IF pos > Len(t) THEN Result(<<"0">>, pos, "")
  ELSE IF Stands(t, pos, {"("}) THEN Group(env, t, pos, Descend(env, t, pos + 1, 1))
  ELSE IF Stands(t, pos + 1, BinaryOps)
  THEN IF pos + 2 > Len(t) THEN Result(<<"0">>, pos, "bad")
       ELSE Verdict(EvalBinary(t[pos], t[pos + 1][1], t[pos + 2]), pos + 3)
  ELSE IF Stands(t, pos, UnaryOps)
  THEN IF pos + 1 > Len(t) THEN Result(<<"0">>, pos, "bad") ELSE Result(EvalUnary(t[pos][1], t[pos + 1]), pos + 2, "")
  ELSE Result(OfBool(t[pos] # <<>>), pos + 1, "")
Negation(env, r) == IF Stops(env, r) THEN r ELSE [r EXCEPT !.v = IF env.lang = "test" THEN Not(@) ELSE Negated(@)]
TestFactor(env, t, pos) ==
  IF Stands(t, pos, {"!"}) THEN Negation(env, TestFactor(env, t, pos + 1)) ELSE TestPrimary(env, t, pos)

IsNum(tok) == IsDigit(tok[1]) \/ tok[1] \in {".", "_"}
IsName(tok) == tok[1] \in {"x", "y", "scale"}
ValueOf(env, name) ==
  IF name = "scale" THEN Num(<<env.scale, 1>>, 0)
  ELSE IF name \in DOMAIN env.vars THEN env.vars[name] ELSE NoNum
BcPrimary(env, t, pos) ==
  IF pos > Len(t) THEN Result(NoNum, pos, "crash")
  ELSE IF Stands(t, pos, {"("}) THEN Group(env, t, pos, Descend(env, t, pos + 1, 1))
  ELSE IF IsNum(t[pos]) THEN Result(ParseNum(t[pos]), pos + 1, "")
  ELSE IF IsName(t[pos]) THEN Result(ValueOf(env, t[pos][1]), pos + 1, "")
  ELSE Result(NoNum, pos + 1, "bad")
Raised(env, base, exp) ==
  IF Stops(env, exp) THEN exp ELSE Result(BcOp("^", base.v, exp.v, env.scale), exp.pos, Worse(base.err, exp.err))
BcPower(env, t, base) ==
  IF Stops(env, base) \/ ~Stands(t, base.pos, {"^"}) THEN base ELSE Raised(env, base, BcUnary(env, t, base.pos + 1))
BcUnary(env, t, pos) ==
  IF Stands(t, pos, {"-"}) THEN Negation(env, BcUnary(env, t, pos + 1)) ELSE BcPower(env, t, BcPrimary(env, t, pos))

Env(lang) == [lang |-> lang, scale |-> 0, vars |-> <<>>, loose |-> FALSE]
Whole(t, r) == IF r.err = "" /\ r.pos > Len(t) THEN Good(r.v) ELSE Bad
EvalAll(lang, t) == Whole(t, Descend(Env(lang), t, 1, 1))
Expr(t) == EvalAll("expr", t)
Test(t) == EvalAll("test", t)

(* The statements of a line of bc: separators are skipped and not asked    *)
(* for, an error ends the line, and what is no assignment is printed.      *)
Assign(env, name, v) ==
  IF name = "scale" THEN [env EXCEPT !.scale = ToInt(v.v)]
  ELSE [env EXCEPT !.vars = [n \in DOMAIN @ \cup {name} |-> IF n = name THEN v ELSE @[n]]]
Assigns(t, i) == IsName(t[i]) /\ Stands(t, i + 1, {"="})
Executed(s, t, r) ==
  IF r.err # "" THEN [s EXCEPT !.err = r.err]
  ELSE IF Assigns(t, s.pos) THEN [s EXCEPT !.env = Assign(@, t[s.pos][1], r.v), !.pos = r.pos]
  ELSE [s EXCEPT !.out = Append(@, Rounded(r.v)), !.pos = r.pos]
BcStatement(s, t) == Executed(s, t, Descend(s.env, t, s.pos + (IF Assigns(t, s.pos) THEN 2 ELSE 0), 1))
RECURSIVE BcRun(_, _)
BcRun(s, t) ==
  IF s.err # "" \/ s.pos > Len(t) THEN s
  ELSE BcRun(IF Stands(t, s.pos, {";"}) THEN [s EXCEPT !.pos = @ + 1] ELSE BcStatement(s, t), t)
Bc(t) == BcRun([pos |-> 1, env |-> Env("bc"), out |-> <<>>, err |-> ""], t)

-----------------------------------------------------------------------------
(* dc: a stack, registers, the precision.  An error is reported and the    *)
(* rest of the input goes on.                                              *)

DcInit == [stack |-> <<>>, regs |-> <<>>, scale |-> 0, out |-> <<>>, errs |-> 0]
DcError(m) == [m EXCEPT !.errs = @ + 1]
Push(m, n) == [m EXCEPT !.stack = Append(@, n)]
Popped(m)  == [m EXCEPT !.stack = Front(@)]
Binary(m, op) ==
  LET n == Len(m.stack)
      a == m.stack[n - 1]
      b == m.stack[n]
  IN  IF n < 2 \/ (op \in {"/", "%"} /\ b.v[1] = 0) THEN DcError(m)
      ELSE Push(Popped(Popped(m)), Apply(op, a, b, m.scale, FALSE))
Register(m, op, name) ==
  IF op = "l" THEN Push(m, IF name \in DOMAIN m.regs THEN m.regs[name] ELSE NoNum)
  ELSE IF m.stack = <<>> THEN DcError(m)
  ELSE [Popped(m) EXCEPT !.regs = [x \in DOMAIN @ \cup {name} |-> IF x = name THEN Last(m.stack) ELSE @[x]]]
(* A command; the queue commands print the top and keep it, print it and   *)
(* drop it, or print all from the top.                                     *)
DcCommand(m, c) ==
  LET n == Len(m.stack) IN
  CASE c \in {"+", "-", "*", "/", "%", "^"} -> Binary(m, c)
    [] c \in {"p", "n", "d", "k"} /\ n = 0 -> DcError(m)
    [] c = "p" /\ n > 0 -> [m EXCEPT !.out = Append(@, Rounded(Last(m.stack)))]
    [] c = "n" /\ n > 0 -> [Popped(m) EXCEPT !.out = Append(@, Rounded(Last(m.stack)))]
    [] c = "d" /\ n > 0 -> Push(m, Last(m.stack))
    [] c = "k" /\ n > 0 -> [Popped(m) EXCEPT !.scale = ToInt(Last(m.stack).v)]
    [] c = "f" -> [m EXCEPT !.out = @ \o [i \in 1 .. n |-> Rounded(m.stack[n + 1 - i])]]
    [] c = "c" -> [m EXCEPT !.stack = <<>>]
    [] c = "r" -> IF n < 2 THEN m ELSE [m EXCEPT !.stack = SubSeq(@, 1, n - 2) \o <<@[n], @[n - 1]>>]
    [] c = "K" -> Push(m, Num(<<m.scale, 1>>, 0))
    [] c = "q" -> m
DcToken(m, tok) ==
  IF IsNum(tok) THEN Push(m, ParseNum(tok))
  ELSE IF tok[1] \in {"s", "l"} THEN Register(m, tok[1], tok[2])
  ELSE DcCommand(m, tok[1])
Dc(t) == FoldLeft(DcToken, DcInit, t)

-----------------------------------------------------------------------------
(* getopt.  A parameter is a sequence of characters, "--" one of them; a   *)
(* specification gives options "no", "required" or "optional" arguments.   *)

Shorts == [a |-> "no", b |-> "required", o |-> "optional"]
Longs  == [alpha |-> "no", beta |-> "required"]
NoArgs == [opts |-> <<>>, operands |-> <<>>, errs |-> 0, i |-> 1, ended |-> FALSE]

LongOption(s, p, params) ==
  LET name == p[2]
      has  == Len(p) > 2                      \* "--name=value"
      more == s.i < Len(params)
      told == [s EXCEPT !.opts = Append(@, <<"--", name>>), !.i = @ + 1]
  IN  IF name \notin DOMAIN Longs THEN [s EXCEPT !.errs = @ + 1, !.i = @ + 1]
      ELSE IF Longs[name] = "no" THEN told
      ELSE IF has THEN [told EXCEPT !.opts = Append(@, SubSeq(p, 4, Len(p)))]
      ELSE IF more THEN [told EXCEPT !.opts = Append(@, params[s.i + 1]), !.i = @ + 1]
      ELSE [told EXCEPT !.errs = @ + 1]
(* The characters of a cluster from the j-th on. *)
RECURSIVE Cluster(_, _, _, _)
Cluster(s, p, j, params) ==
  LET told == [s EXCEPT !.opts = Append(@, <<"-", p[j]>>)]
      rest == SubSeq(p, j + 1, Len(p))
  IN  IF j > Len(p) THEN [s EXCEPT !.i = @ + 1]
      ELSE IF p[j] \notin DOMAIN Shorts THEN Cluster([s EXCEPT !.errs = @ + 1], p, j + 1, params)
      ELSE IF Shorts[p[j]] = "no" THEN Cluster(told, p, j + 1, params)
      ELSE IF Shorts[p[j]] = "optional" \/ rest # <<>>
      THEN [told EXCEPT !.opts = Append(@, rest), !.i = @ + 1]
      ELSE IF s.i < Len(params) THEN [told EXCEPT !.opts = Append(@, params[s.i + 1]), !.i = @ + 2]
      ELSE [told EXCEPT !.errs = @ + 1, !.i = @ + 1]
RECURSIVE GetoptFrom(_, _)
GetoptFrom(s, params) ==
  LET p == params[s.i] IN
  IF s.i > Len(params) THEN s
  ELSE GetoptFrom(IF s.ended \/ p = <<>> \/ p = <<"-">> \/ p[1] \notin {"-", "--"}
                  THEN [s EXCEPT !.operands = Append(@, p), !.i = @ + 1]
                  ELSE IF p = <<"--">> THEN [s EXCEPT !.ended = TRUE, !.i = @ + 1]
                  ELSE IF p[1] = "--" THEN LongOption(s, p, params)
                  ELSE Cluster(s, p, 2, params), params)
Getopt(params) ==
  LET s == GetoptFrom(NoArgs, params) IN [line |-> s.opts \o << <<"--">> >> \o s.operands, errs |-> s.errs]

-----------------------------------------------------------------------------
(* seq, of integers. *)

RECURSIVE Generate(_, _)
Generate(job, i) ==
  LET v == job.first + i * job.increment IN
  IF (job.increment > 0 /\ v > job.last) \/ (job.increment < 0 /\ v < job.last) THEN <<>>
  ELSE <<v>> \o Generate(job, i + 1)
PadToEqualWidth(values) ==
  LET width == Max({0} \cup {Len(values[i]) : i \in DOMAIN values})
      Zeros(v) == [k \in 1 .. width - Len(v) |-> "0"]
      Padded(v) == IF v[1] = "-" THEN <<"-">> \o Zeros(v) \o Tail(v) ELSE Zeros(v) \o v
  IN  [i \in DOMAIN values |-> Padded(values[i])]
Sequence(job) ==
  IF job.increment = 0 THEN [ok |-> FALSE, values |-> <<>>]
  ELSE LET values == Generate(job, 0) IN
       [ok |-> TRUE, values |-> PadToEqualWidth([i \in DOMAIN values |-> IntText(values[i])])]
-----------------------------------------------------------------------------
(* ipcalc.  An address is a sequence of digits; a mask that is accepted is *)
(* contiguous, so "and" rounds a digit down to a multiple of Radix - mask. *)

Radix == 2 ^ Octet
AddressBits == Octets * Octet
NoMask == [kind |-> "none"]
CIDRMask(p) ==
  [k \in 1 .. Octets |-> LET ones == Min({Octet, Max({0, p - (k - 1) * Octet})}) IN Radix - 2 ^ (Octet - ones)]
Contiguous == {CIDRMask(p) : p \in 0 .. AddressBits}
Ones(mask) == CHOOSE p \in 0 .. AddressBits : CIDRMask(p) = mask
NoMaskFound == [ok |-> FALSE, mask |-> <<>>]
MaskFrom(m) ==
  IF m.kind = "prefix" THEN IF m.p \in 0 .. AddressBits THEN [ok |-> TRUE, mask |-> CIDRMask(m.p)] ELSE NoMaskFound
  ELSE IF m.mask \in Contiguous THEN [ok |-> TRUE, mask |-> m.mask] ELSE NoMaskFound
ClassfulMask(ip) ==
  CIDRMask(Octet * (IF 2 * ip[1] < Radix THEN 1 ELSE IF 4 * ip[1] < 3 * Radix THEN 2 ELSE 3))
ResolveMask(job) ==
  IF job.spec # NoMask THEN MaskFrom(job.spec)
  ELSE IF job.operand # NoMask THEN MaskFrom(job.operand)
  ELSE IF job.flag # NoMask THEN MaskFrom(job.flag)
  ELSE [ok |-> TRUE, mask |-> ClassfulMask(job.ip)]
(* One more or less, with a carry from the last digit that stops at the    *)
(* first one that does not wrap.                                           *)
Incremented(ip) ==
  LET stays == {k \in 1 .. Octets : ip[k] # Radix - 1}
      k == IF stays = {} THEN 0 ELSE Max(stays)
  IN  [i \in 1 .. Octets |-> IF i < k THEN ip[i] ELSE IF i = k THEN ip[i] + 1 ELSE 0]
Decremented(ip) ==
  LET stays == {k \in 1 .. Octets : ip[k] # 0}
      k == IF stays = {} THEN 0 ELSE Max(stays)
  IN  [i \in 1 .. Octets |-> IF i < k THEN ip[i] ELSE IF i = k THEN ip[i] - 1 ELSE Radix - 1]
HostRange(net, bcast, p) ==
  CASE p = AddressBits     -> <<net, net, 1>>
    [] p = AddressBits - 1 -> <<net, bcast, 2>>
    [] OTHER         -> <<Incremented(net), Decremented(bcast), 2 ^ (AddressBits - p) - 2>>
IpCalc(job) ==
  LET r == ResolveMask(job)
      net   == [k \in 1 .. Octets |-> job.ip[k] - (job.ip[k] % (Radix - r.mask[k]))]
      bcast == [k \in 1 .. Octets |-> net[k] + Radix - 1 - r.mask[k]]
      p     == Ones(r.mask)
  IN  IF ~r.ok THEN [ok |-> FALSE]
      ELSE [ok |-> TRUE, prefix |-> p, network |-> net, broadcast |-> bcast, hosts |-> HostRange(net, bcast, p)]

-----------------------------------------------------------------------------
(* printf.  Format and operands are sequences of characters; what is       *)
(* printed is a sequence of characters and of bytes given by number.       *)

Char(c) == <<"char", c>>
Byte(n) == <<"byte", n % 256>>
Letters == {"a", "b", "f", "n", "r", "t", "v", "\\"}
(* The digits of a base at s[i], at most so many. *)
Scan(s, i, base, most) ==
  LET ds == SubSeq(Digits \o <<"a", "b", "c", "d", "e", "f">>, 1, base)
      ends == {k \in i .. Min({i + most, Len(s) + 1}) : \A j \in i .. k - 1 : s[j] \in ToSet(ds)}
      Value(k) == FoldLeft(LAMBDA n, c : base * n + SelectInSeq(ds, LAMBDA d : d = c) - 1, 0, SubSeq(s, i, k - 1))
  IN  [used |-> Max(ends) - i, byte |-> Byte(Value(Max(ends)))]
(* The escape behind a backslash: what it prints, and its length.          *)
FormatEscape(s, i) ==
  IF i > Len(s) THEN [used |-> 0, byte |-> Char("\\")]
  ELSE IF s[i] \in Letters THEN [used |-> 1, byte |-> <<"esc", s[i]>>]
  ELSE IF s[i] = "x"
  THEN LET h == Scan(s, i + 1, 16, 2) IN
       IF h.used = 0 THEN [used |-> 0, byte |-> Char("\\")] ELSE [h EXCEPT !.used = @ + 1]
  ELSE LET o == Scan(s, i, 8, 3) IN IF o.used = 0 THEN [used |-> 0, byte |-> Char("\\")] ELSE o

(* %b. *)
RECURSIVE ExpandEscapes(_, _)
ExpandEscapes(s, i) ==
  LET zero == Scan(s, i + 2, 8, 3)
      e    == FormatEscape(s, i + 1)
  IN  IF i > Len(s) THEN <<>>
      ELSE IF s[i] # "\\" \/ i = Len(s) THEN <<Char(s[i])>> \o ExpandEscapes(s, i + 1)
      ELSE IF s[i + 1] = "c" THEN <<>>
      ELSE IF s[i + 1] = "0" THEN <<zero.byte>> \o ExpandEscapes(s, i + 2 + zero.used)
      ELSE IF e.used = 0 THEN <<Char("\\"), Char(s[i + 1])>> \o ExpandEscapes(s, i + 2)
      ELSE <<e.byte>> \o ExpandEscapes(s, i + 1 + e.used)

Chars(s) == [k \in DOMAIN s |-> Char(s[k])]
Value0(r) == IF r.ok THEN r.n ELSE 0
PrintfInt(s) == Value0(Atoi(s))
PrintfUint(s) ==
  LET digits == s # <<>> /\ \A k \in DOMAIN s : IsDigit(s[k]) IN
  IF digits THEN (IF NumberOf(s) < 2 ^ IntBits THEN NumberOf(s) ELSE 0) ELSE PrintfInt(s) % 2 ^ IntBits
Verbs == {"s", "b", "c", "d", "i", "u", "o", "x", "X"}
Converted(verb, arg) ==
  CASE verb = "s" -> Chars(arg)
    [] verb = "b" -> ExpandEscapes(arg, 1)
    [] verb = "c" -> IF arg = <<>> THEN <<>> ELSE <<Char(arg[1])>>
    [] verb \in {"d", "i"} -> Chars(IntText(PrintfInt(arg)))
    [] verb = "u" -> Chars(Numeral(PrintfUint(arg)))
    [] verb = "o" -> Chars(InBase(PrintfUint(arg), 8))
    [] verb \in {"x", "X"} -> Chars(InBase(PrintfUint(arg), 16))
(* One pass over the format, from its i-th character on, with so many      *)
(* operands asked for: missing ones are empty.                             *)
RECURSIVE Format2(_, _, _, _)
Format2(f, i, operands, argi) ==
  LET e   == FormatEscape(f, i + 1)
      arg == IF argi < Len(operands) THEN operands[argi + 1] ELSE <<>>
      Onward(out, k, n) == LET r == Format2(f, k, operands, n) IN [r EXCEPT !.out = out \o @]
  IN  IF i > Len(f) THEN [out |-> <<>>, used |-> Min({argi, Len(operands)})]
      ELSE IF f[i] = "\\" THEN Onward(<<e.byte>>, i + 1 + e.used, argi)
      ELSE IF f[i] # "%" THEN Onward(<<Char(f[i])>>, i + 1, argi)
      ELSE IF i = Len(f) THEN Onward(<<Char("%")>>, i + 1, argi)
      ELSE IF f[i + 1] = "%" THEN Onward(<<Char("%")>>, i + 2, argi)
      ELSE IF f[i + 1] \in Verbs THEN Onward(Converted(f[i + 1], arg), i + 2, argi + 1)
      ELSE Onward(<<Char("%"), Char(f[i + 1])>>, i + 2, argi)
RECURSIVE Printf(_, _)
Printf(f, operands) ==
  LET pass == Format2(f, 1, operands, 0)
      rest == SubSeq(operands, pass.used + 1, Len(operands))
  IN  IF pass.used = 0 \/ rest = <<>> THEN pass.out ELSE pass.out \o Printf(f, rest)

-----------------------------------------------------------------------------
(* ed.  A line is a number, that tells it from the others, and characters. *)
(* A command has up to two addresses, a separator between them, and the    *)
(* lines that follow it up to ".", which are no commands.  History: how    *)
(* many lines there ever were, whether an address before ";" was no line,  *)
(* and whether a range that ends before it begins was deleted or changed.  *)

EdInit(job) ==
  [lines |-> job.lines, dot |-> Len(job.lines), file |-> job.lines, modified |-> FALSE,
   out |-> <<>>, errs |-> 0, over |-> FALSE, typed |-> Len(job.lines), first |-> Len(job.lines), jumped |-> FALSE, turned |-> FALSE]
Valid(e, n) == n \in 1 .. Len(e.lines)
Refused(e)  == [e EXCEPT !.errs = @ + 1]
OneAddr(e, a) ==
  CASE a[1] = "line" -> a[2]
    [] a[1] = "."    -> e.dot
    [] a[1] = "$"    -> Len(e.lines)
    [] a[1] = ","    -> 1
    [] a[1] = "+"    -> e.dot + a[2]
(* The state after the addresses, and the range; n is how many there were. *)
ParseAddresses(e, c) ==
  LET first == OneAddr(e, c.addrs[1])
      e2 == IF Len(c.addrs) = 2 /\ c.sep = ";" THEN [e EXCEPT !.dot = first, !.jumped = @ \/ ~Valid(e, first)] ELSE e
      second == IF c.addrs[2] = <<"">> THEN Len(e.lines) ELSE OneAddr(e2, c.addrs[2])
  IN  CASE Len(c.addrs) = 0 -> [e |-> e, lo |-> e.dot, hi |-> e.dot]
        [] Len(c.addrs) = 1 -> [e |-> e, lo |-> first, hi |-> first]
        [] Len(c.addrs) = 2 -> [e |-> e2, lo |-> first, hi |-> second]
Spliced(e, keep, added, from) == SubSeq(e.lines, 1, keep) \o added \o SubSeq(e.lines, from, Len(e.lines))
EdInsert(e, at, added) ==
  LET pos == Min({Len(e.lines), Max({0, at})})
      e2  == [e EXCEPT !.lines = Spliced(e, pos, added, pos + 1)]
  IN  IF added = <<>> THEN e2 ELSE [e2 EXCEPT !.dot = pos + Len(added), !.modified = TRUE]
EdChange(e, lo, hi, added) ==
  [e EXCEPT !.lines = Spliced(e, lo - 1, added, hi + 1), !.dot = lo - 1 + Len(added),
            !.modified = TRUE, !.turned = @ \/ hi < lo]
EdDelete(e, lo, hi) ==
  LET left == Spliced(e, lo - 1, <<>>, hi + 1) IN
  [e EXCEPT !.lines = left, !.dot = Min({lo, Len(left)}), !.modified = TRUE, !.turned = @ \/ hi < lo]
(* s/x/y/ or s/x/y/g. *)
EdSubstitute(e, lo, hi, global) ==
  LET Replaced(chars) ==
        LET at == SelectInSeq(chars, LAMBDA c : c = "x") IN
        [k \in DOMAIN chars |-> IF k = at \/ (global /\ chars[k] = "x") THEN "y" ELSE chars[k]]
  IN  [e EXCEPT !.lines = [k \in DOMAIN @ |-> IF k \in lo .. hi THEN <<@[k][1], Replaced(@[k][2])>> ELSE @[k]],
                !.dot = hi, !.modified = TRUE]
EdPrint(e, lo, hi) == [e EXCEPT !.out = @ \o SubSeq(e.lines, lo, hi), !.dot = hi]
(* A change that is refused leaves its lines to be read as commands; the   *)
(* "." that ends them is the address of the current line.                  *)
RefusedChange(e, added) ==
  LET e2 == [e EXCEPT !.errs = @ + 1 + Len(added)] IN IF Valid(e, e.dot) THEN EdPrint(e2, e.dot, e.dot) ELSE Refused(e2)
EdCommand(e0, c) ==
  LET r == ParseAddresses(e0, c)
      added == [k \in DOMAIN c.typed |-> <<e0.typed + k, c.typed[k]>>]
      e == [r.e EXCEPT !.typed = @ + Len(added)]
      target == IF c.addrs = <<>> THEN e.dot + 1 ELSE r.hi
      ranged == Valid(e, r.lo) /\ Valid(e, r.hi)
  IN  CASE e0.over     -> e0
        [] c.cmd = ""  -> IF Valid(e, target) THEN EdPrint(e, target, target) ELSE Refused(e)
        [] c.cmd = "q" -> [e EXCEPT !.over = TRUE]
        [] c.cmd = "w" -> [e EXCEPT !.file = e.lines, !.modified = FALSE]
        [] c.cmd = "a" -> EdInsert(e, r.hi, added)
        [] c.cmd = "i" -> EdInsert(e, r.hi - 1, added)
        [] c.cmd = "c" -> IF ranged THEN EdChange(e, r.lo, r.hi, added) ELSE RefusedChange(e, added)
        [] c.cmd \in {"d", "p", "s", "S"} ->
             IF ~ranged THEN Refused(e)
             ELSE CASE c.cmd = "d" -> EdDelete(e, r.lo, r.hi)
                    [] c.cmd = "p" -> EdPrint(e, r.lo, r.hi)
                    [] OTHER       -> EdSubstitute(e, r.lo, r.hi, c.cmd = "S")
Ed(job) == FoldLeft(EdCommand, EdInit(job), job.cmds)

-----------------------------------------------------------------------------
(* What each of them ought to find.                                        *)

(* The values of the tokens from the i-th to the j-th, by every derivation *)
(* from a level of the grammar.  A word is a token that is nothing else,   *)
(* and in a loose reading any token.                                       *)
Word(env, tok) ==
  env.loose \/ CASE env.lang = "expr" -> ~IsIn(tok, UNION Range(ExprLevels) \cup DOMAIN Calls \cup {"(", ")"})
                 [] env.lang = "test" -> ~IsIn(tok, BinaryOps \cup UnaryOps \cup {"!", "(", ")", "-a", "-o"})
Words(env, t, i, j) == \A k \in i .. j : Word(env, t[k])
Both(env, op, l, r) == IF l.ok /\ r.ok THEN Combine(env, op, l.v, r.v) ELSE Bad
Map(Op(_), vs) == {IF v.ok THEN Good(Op(v.v)) ELSE v : v \in vs}
If(c, vs) == IF c THEN vs ELSE {}
RECURSIVE Derived(_, _, _, _, _)
Bracketed(env, t, i, j) == If(Stands(t, i, {"("}) /\ Stands(t, j, {")"}) /\ i < j, Derived(env, t, i + 1, j - 1, 1))
BcAtom(env, t, i, j) ==
  Bracketed(env, t, i, j)
  \cup If(i = j /\ i <= Len(t) /\ IsNum(t[i]), {Good(ParseNum(t[i]))})
  \cup If(i = j /\ i <= Len(t) /\ IsName(t[i]), {Good(ValueOf(env, t[i][1]))})
Smallest(env, t, i, j) ==
  CASE env.lang = "expr" ->
         Bracketed(env, t, i, j) \cup If(i = j /\ Words(env, t, i, j), {Good(t[i])})
         \cup If(Stands(t, i, DOMAIN Calls) /\ j > i /\ Words(env, t, i + 1, j) /\ j = i + Calls[t[i][1]],
                 {Good(Called(t[i][1], SubSeq(t, i + 1, j)))})
    [] env.lang = "test" ->
         Bracketed(env, t, i, j) \cup If(env.loose /\ i = j + 1, {Good(<<"0">>)})
         \cup If(Stands(t, i, {"!"}) /\ i <= j, Map(Not, Derived(env, t, i + 1, j, 3)))
         \cup If(i = j /\ Words(env, t, i, j), {Good(OfBool(t[i] # <<>>))})
         \cup If(j = i + 1 /\ Stands(t, i, UnaryOps) /\ Words(env, t, j, j), {Good(EvalUnary(t[i][1], t[j]))})
         \cup If(j = i + 2 /\ Stands(t, i + 1, BinaryOps) /\ Word(env, t[i]) /\ Word(env, t[j]), {EvalBinary(t[i], t[i + 1][1], t[j])})
    [] env.lang = "bc" ->
         BcAtom(env, t, i, j) \cup If(Stands(t, i, {"-"}) /\ i < j, Map(Negated, Derived(env, t, i + 1, j, 3)))
         \cup UNION {{Both(env, "^", b, e) : b \in BcAtom(env, t, i, k - 1), e \in Derived(env, t, k + 1, j, 3)}
                     : k \in {k \in i + 1 .. j - 1 : Stands(t, k, {"^"})}}
Derived(env, t, i, j, level) ==
  IF level > Len(Levels(env)) THEN Smallest(env, t, i, j)
  ELSE Derived(env, t, i, j, level + 1)
       \cup UNION {{Both(env, t[k][1], l, r) : l \in Derived(env, t, i, k - 1, level), r \in Derived(env, t, k + 1, j, level + 1)}
                   : k \in {k \in i .. j : Stands(t, k, Levels(env)[level])}}
(* An expression has the one value the grammar gives it; what is accepted  *)
(* besides has one where operators may be words.                           *)
Values(lang, loose, t) == Derived([Env(lang) EXCEPT !.loose = loose], t, 1, Len(t), 1)
OneOf(strict, lang, t, v) == IF strict # {} THEN strict = {v} ELSE v.ok => v \in Values(lang, TRUE, t)
EvaluatesTo(lang, t, v) == OneOf(Values(lang, FALSE, t), lang, t, v)

(* The outputs of a line of bc whose statements are separated.             *)
RECURSIVE BcMeans(_, _, _)
BcMeans(env, t, i) ==
  LET j == Min({k \in i .. Len(t) : Stands(t, k, {";"})} \cup {Len(t) + 1})
      After(v) == IF Assigns(t, i) THEN BcMeans(Assign(env, t[i][1], v), t, j + 1)
                  ELSE {<<Rounded(v)>> \o rest : rest \in BcMeans(env, t, j + 1)}
  IN  IF i > Len(t) THEN {<<>>}
      ELSE IF i = j THEN BcMeans(env, t, i + 1)
      ELSE UNION {After(v.v) : v \in Derived(env, t, IF Assigns(t, i) THEN i + 2 ELSE i, j - 1, 1)}
BcIsRight(s, means) == means # {} => s.err = "" /\ means = {s.out}

(* Complete postfix expressions leave their values; an error leaves the    *)
(* stack to the next command.                                              *)
RECURSIVE Postfix(_, _, _)
Postfix(t, i, j) ==
  IF i = j THEN If(IsNum(t[i]), {ParseNum(t[i])})
  ELSE UNION {{Apply(t[j][1], a, b, 0, FALSE) :
                 a \in Postfix(t, i, k), b \in {b \in Postfix(t, k + 1, j - 1) : t[j][1] \in {"+", "-", "*", "^"} \/ b.v[1] # 0}}
              : k \in {k \in i .. j - 2 : t[j][1] \in {"+", "-", "*", "/", "%", "^"}}}
RECURSIVE DcStacks(_, _)
DcStacks(t, j) ==
  IF j = 0 THEN {<<>>} ELSE UNION {{Append(s, v) : s \in DcStacks(t, k - 1), v \in Postfix(t, k, j)} : k \in 1 .. j}
Keeps(m, m2) == m2.errs > m.errs => m2.stack = m.stack
DcIsRight(t, m, means) ==
  /\ means # {} => m.errs = 0 /\ means = {m.stack}
  /\ \A k \in DOMAIN t : \E held \in {Dc(SubSeq(t, 1, k - 1))} : Keeps(held, DcToken(held, t[k]))

(* The ways to say an option or an operand, and what is meant.             *)
Says(params, opts, operands) == [params |-> params, opts |-> opts, operands |-> operands]
Spoken(v) ==
  LET a == <<"-", "a">>  b == <<"-", "b">>  o == <<"-", "o">>  beta == <<"--", "beta">> IN
  { Says(<<a>>, <<a>>, <<>>), Says(<< <<"-", "a", "a">> >>, <<a, a>>, <<>>), Says(<<b, v>>, <<b, v>>, <<>>),
    Says(<< <<"-", "b">> \o v>>, <<b, v>>, <<>>), Says(<< <<"-", "a", "b">>, v>>, <<a, b, v>>, <<>>),
    Says(<<o>>, <<o, <<>> >>, <<>>), Says(<< <<"-", "a", "o">> \o v>>, <<a, o, v>>, <<>>),
    Says(<< <<"--", "alpha">> >>, << <<"--", "alpha">> >>, <<>>), Says(<<beta, v>>, <<beta, v>>, <<>>),
    Says(<<beta \o <<"=">> \o v>>, <<beta, v>>, <<>>), Says(<< <<"-">> >>, <<>>, << <<"-">> >>), Says(<< <<"x">> >>, <<>>, << <<"x">> >>) }
Told(says, part(_)) == FlattenSeq([k \in DOMAIN says |-> part(says[k])])
Given(job) == Told(job.says, LAMBDA s : s.params) \o (IF job.ended THEN << <<"--">> >> \o job.rest ELSE <<>>)
GetoptIsRight(job, r) ==
  LET opts == Told(job.says, LAMBDA s : s.opts)
      operands == Told(job.says, LAMBDA s : s.operands) \o (IF job.ended THEN job.rest ELSE <<>>)
  IN  /\ r = [line |-> opts \o << <<"--">> >> \o operands, errs |-> 0]
      /\ <<"-", "o">> \notin ToSet(opts) => Getopt(r.line) = r

SeqIsRight(job, r) ==
  LET ks == {k \in 0 .. Magnitude(job.last - job.first) :
               LET v == job.first + k * job.increment IN IF job.increment > 0 THEN v <= job.last ELSE v >= job.last}
  IN  r.ok => /\ {Len(r.values[k]) : k \in DOMAIN r.values} = {} <=> ks = {}
              /\ Len(r.values) = Cardinality(ks)
              /\ \A k \in DOMAIN r.values : /\ Len(r.values[k]) = Len(r.values[1])
                                            /\ Atoi(r.values[k]).n = job.first + (k - 1) * job.increment

IpValue(a) == FoldLeft(LAMBDA n, d : Radix * n + d, 0, a)
IpIsRight(job, r) ==
  r.ok =>
    LET size == 2 ^ (AddressBits - r.prefix)
        net  == IpValue(r.network)
        bc   == IpValue(r.broadcast)
        low  == IpValue(r.hosts[1])
        high == IpValue(r.hosts[2])
    IN  /\ net = IpValue(job.ip) - (IpValue(job.ip) % size) /\ bc = net + size - 1
        /\ net <= low /\ high <= bc /\ r.hosts[3] = high - low + 1
        /\ IF size > 2 THEN low = net + 1 /\ high = bc - 1 ELSE r.hosts[3] = size

(* A directive, or a part of an operand of %b, as it is written.           *)
Written(d) ==
  CASE d[1] = "char" -> <<d[2]>>
    [] d[1] \in {"esc", "oct"} -> <<"\\">> \o d[2]
    [] d[1] = "oct0" -> <<"\\", "0">> \o d[2]
    [] d[1] = "hex"  -> <<"\\", "x">> \o d[2]
    [] d[1] = "stop" -> <<"\\", "c">>
    [] d[1] = "%"    -> <<"%", "%">>
    [] d[1] = "conv" -> <<"%", d[2]>>
WrittenAll(ds) == FlattenSeq([k \in DOMAIN ds |-> Written(ds[k])])
Meant(d) ==
  CASE d[1] = "char" -> <<Char(d[2])>>
    [] d[1] = "esc"  -> <<<<"esc", d[2][1]>>>>
    [] d[1] \in {"oct", "oct0"} -> <<Byte(64 * DigitOf(d[2][1]) + 8 * DigitOf(d[2][2]) + DigitOf(d[2][3]))>>
    [] d[1] = "hex"  -> <<Byte(16 * DigitOf(d[2][1]) + DigitOf(d[2][2]))>>
    [] d[1] = "%"    -> <<Char("%")>>
UpTo(ds, stop) == LET at == SelectInSeq(ds, LAMBDA d : d[1] = stop) IN IF at = 0 THEN ds ELSE SubSeq(ds, 1, at - 1)
(* The format is gone through until no operand is left, each part printed  *)
(* as it is meant.  Behind \c in an operand of %b nothing is claimed: GNU  *)
(* printf, which printf.go:1-2 and its tests (printf_more_test.go:54-55)   *)
(* follow, prints no more there, the code only ends the operand.           *)
StopsAll(d, a) == d = <<"conv", "b">> /\ \E i \in DOMAIN a : a[i][1] = "stop"
PrintfIsRight(job, out) ==
  LET convs  == SelectSeq(job.format, LAMBDA d : d[1] = "conv")
      passes == IF convs = <<>> \/ job.operands = <<>> THEN 1 ELSE (Len(job.operands) + Len(convs) - 1) \div Len(convs)
      Arg(n) == IF n \in DOMAIN job.operands THEN job.operands[n] ELSE <<>>
      Number(p, k) == p * Len(convs) + Cardinality({i \in 1 .. k : job.format[i][1] = "conv"})
      Value(verb, a) ==
        IF verb = "b" THEN FlattenSeq([i \in DOMAIN UpTo(a, "stop") |-> Meant(a[i])]) ELSE Converted(verb, WrittenAll(a))
      size   == Len(job.format)
      Part(m)    == job.format[((m - 1) % size) + 1]
      Operand(m) == Arg(Number((m - 1) \div size, ((m - 1) % size) + 1))
      Piece(m)   == IF Part(m)[1] = "conv" THEN Value(Part(m)[2], Operand(m)) ELSE Meant(Part(m))
      stops  == {m \in 1 .. passes * size : StopsAll(Part(m), Operand(m))}
      meant  == FlattenSeq([m \in 1 .. Min({passes * size} \cup stops) |-> Piece(m)])
  IN  IsPrefix(meant, out) /\ (stops = {} => out = meant)

(* The current line is a line; lines keep their order and occur once; a    *)
(* buffer that is not modified is the file.                                *)
EdIsRight(e) ==
  /\ ~e.jumped => e.dot \in 0 .. Len(e.lines)
  /\ ~e.turned => \A i, j \in DOMAIN e.lines : i < j =>
        e.lines[i][1] # e.lines[j][1] /\ (e.lines[j][1] <= e.first => e.lines[i][1] < e.lines[j][1] \/ e.lines[i][1] > e.first)
  /\ ~e.modified => e.lines = e.file

-----------------------------------------------------------------------------
EvInit == asked = "none" /\ posed = <<>> /\ found = <<>>
Unasked == asked = "none"
Ask(name, job, result) == asked' = name /\ posed' = job /\ found' = result

RunExpr   == Unasked /\ \E t \in ExprJobs : Ask("expr", t, Expr(t))
RunTest   == Unasked /\ \E t \in TestJobs : Ask("test", t, Test(t))
RunBc     == Unasked /\ \E t \in BcJobs : Ask("bc", t, Bc(t))
RunDc     == Unasked /\ \E t \in DcJobs : Ask("dc", t, Dc(t))
RunGetopt == Unasked /\ \E job \in GetoptJobs : Ask("getopt", job, Getopt(Given(job)))
RunSeq    == Unasked /\ \E job \in SeqJobs : Ask("seq", job, Sequence(job))
RunIpcalc == Unasked /\ \E job \in IpJobs : Ask("ipcalc", job, IpCalc(job))
RunPrintf ==
  Unasked /\ \E job \in PrintfJobs :
    Ask("printf", job, Printf(WrittenAll(job.format), [k \in DOMAIN job.operands |-> WrittenAll(job.operands[k])]))
RunEd     == Unasked /\ \E job \in EdJobs : Ask("ed", job, Ed(job))
EvNext ==
  RunExpr \/ RunTest \/ RunBc \/ RunDc \/ RunGetopt \/ RunSeq \/ RunIpcalc \/ RunPrintf \/ RunEd
EvSpec == EvInit /\ [][EvNext]_evvars

(* Each evaluator finds the value its grammar gives, and ed keeps lines.   *)
EvaluatorsAreRight ==
  CASE asked = "none"   -> TRUE
    [] asked \in {"expr", "test"} -> EvaluatesTo(asked, posed, found)
    [] asked = "bc"     -> BcIsRight(found, BcMeans(Env("bc"), posed, 1))
    [] asked = "dc"     -> DcIsRight(posed, found, DcStacks(posed, Len(posed)))
    [] asked = "getopt" -> GetoptIsRight(posed, found)
    [] asked = "seq"    -> SeqIsRight(posed, found)
    [] asked = "ipcalc" -> IpIsRight(posed, found)
    [] asked = "printf" -> PrintfIsRight(posed, found)
    [] asked = "ed"     -> EdIsRight(found)
=============================================================================
