------------------------------ MODULE Launchers ------------------------------
(***************************************************************************)
(* The applets that change a process and then run a program in it: chroot, *)
(* env, su, login, chpst, nice, taskset, unshare and their relatives.      *)
(*                                                                         *)
(* Run makes calls of the kernel one by one, each of which may be refused, *)
(* and then starts a child, which inherits what they changed.  Some of     *)
(* what a kernel keeps it keeps for each thread, and a goroutine may be on *)
(* another thread after each call: nothing in the repository locks it to   *)
(* one (LockOSThread).                                                     *)
(*                                                                         *)
(* A job's options and operands give a plan, the sequence of calls in the  *)
(* order of the code; the actions carry it out.                            *)
(***************************************************************************)
EXTENDS Integers, SequencesExt

CONSTANTS
  Launches,     \* <<applet, options and operands>>
  Callers,      \* what the process may be when the applet begins
  PasswdLines, GroupLines, \* /etc/passwd and /etc/group, the jail's for chroot
  Online        \* the CPUs there are

VARIABLES
  launch,    \* the job, <<"none">> before it
  caller,    \* what the process was
  at,        \* the step of the plan that comes next
  proc,      \* what the kernel keeps of the process
  tasks, on, \* what it keeps of each thread, and the thread of the goroutine
  moved,     \* the goroutine has been moved to another thread
  peers,     \* other processes, by number
  kids,      \* the children started
  output,      \* what was printed and written
  verified,  \* the users whose password was right
  phase,     \* none, calls, waits, over
  amiss,    \* a failure that is reported at the end
  hitch,     \* a call that could have succeeded has failed
  exit       \* the exit status

launchvars == <<launch, caller, at, proc, tasks, on, moved, peers, kids, output, verified,
                phase, amiss, hitch, exit>>

OfProcess == {"uid", "gid", "groups", "root", "cwd", "mount", "memory", "files", "ignored"}
OfThread  == {"nice", "policy", "cpus", "ioprio", "persona", "nnp", "ns"}
Attributes == OfProcess \cup OfThread
Threads == {1, 2}
OnlyOf(attrs, f) == [a \in attrs |-> f[a]]
Number == [n \in {"5", "7"} |-> IF n = "5" THEN 5 ELSE 7]   \* strconv.Atoi

-----------------------------------------------------------------------------
(* The steps a plan is made of.                                            *)
Set(a, v)    == [do |-> "set", attr |-> a, to |-> v, need |-> TRUE]
Try(a, v)    == [do |-> "set", attr |-> a, to |-> v, need |-> FALSE]
Change(p, a, v, need) == [do |-> "change", peer |-> p, attr |-> a, to |-> v, need |-> need]
Show(p, a)   == [do |-> "show", peer |-> p, attr |-> a]
Ask          == [do |-> "ask"]
Verify(user) == [do |-> "verify", user |-> user]
Tell(v)      == [do |-> "tell", what |-> v, need |-> FALSE]
Record(v)     == [do |-> "tell", what |-> v, need |-> TRUE]
Mark         == [do |-> "mark"]
GiveUp(n)    == [do |-> "end", status |-> n]

(* A program as exec.Cmd has it: no environment or directory means its own.*)
Program(argv) == [argv |-> argv, env |-> {}, dir |-> {}, cred |-> <<>>, session |-> FALSE]

(* After a start the applet keeps the status of the program, or 1 for any  *)
(* but 0 (fold), counts a failure (mark), forgets it, does not wait for    *)
(* it, or has become the program (exec).                                   *)
Start(prog, how, missing, barred) ==
  [do |-> "start", prog |-> prog, how |-> how, missing |-> missing, barred |-> barred]
RunAs(prog) == <<Start(prog, "keep", 1, 1)>>

-----------------------------------------------------------------------------
(* Accounts.  A line has a name, ids that are numbers or not, and fields.  *)

(* resolve of the runit tools, su and login: the first line of the name    *)
(* that has enough fields, if its ids are numbers.                         *)
Resolve(name, fields) ==
  LET lines == SelectSeq(PasswdLines, LAMBDA l : l.name = name /\ l.fields >= fields)
  IN  IF lines = <<>> \/ ~Head(lines).valid THEN {} ELSE {Head(lines)}

(* parsePasswd and parseGroup: the last good line of a name.               *)
LastOf(lines, name, fields) ==
  LET good == SelectSeq(lines, LAMBDA l : l.name = name /\ l.fields >= fields /\ l.valid)
  IN  IF good = <<>> THEN {} ELSE {good[Len(good)]}
LookupUser(name) ==
  LET lines == LastOf(PasswdLines, name, 4)
  IN  IF lines # {} THEN {[uid |-> l.uid, gid |-> l.gid] : l \in lines}
      ELSE {[uid |-> Number[n], gid |-> Number[n]] : n \in {name} \cap DOMAIN Number}
LookupGroup(name) ==
  LET lines == LastOf(GroupLines, name, 3)
  IN  IF lines # {} THEN {l.gid : l \in lines} ELSE {Number[n] : n \in {name} \cap DOMAIN Number}

(* --userspec USER[:GROUP] and --groups: one identity, or none.            *)
ResolveIdentity(j) ==
  LET found == {LookupGroup(j.list[i]) : i \in DOMAIN j.list}
  IN  IF j.user = "" \/ {} \in found THEN {}
      ELSE {[uid |-> u.uid, gid |-> g, groups |-> UNION found] :
              u \in LookupUser(j.user),
              g \in IF j.colon THEN LookupGroup(j.group) ELSE {v.gid : v \in LookupUser(j.user)}}

ApplyUserFirst(id) ==   \* mutant: the user goes first
  <<Set("uid", id.uid), Set("groups", id.groups), Set("gid", id.gid)>>
(* apply: groups and gid first, while the process may still change them.   *)
Apply(id) == <<Set("groups", id.groups), Set("gid", id.gid), Set("uid", id.uid)>>

Default(v, d) == IF v = "" THEN d ELSE v
DecideExecCommand(j) == IF j.command = <<>> THEN <<Default(j.shell, "/bin/sh"), "-i">> ELSE j.command
ChrootPlan(j, c) ==
  LET ids  == ResolveIdentity(j)
      argv == DecideExecCommand(j)
      asked == j.user # "" \/ j.colon \/ j.list # <<>>
  IN  <<Set("root", j.root), Set("cwd", "/")>>
      \o (IF ~asked THEN <<>> ELSE IF ids = {} THEN <<GiveUp(1)>> ELSE Apply(CHOOSE id \in ids : TRUE))
      \o <<Start([Program(argv) EXCEPT !.env = {("SHELL" :> argv[1]) @@ c.env}], "fold", 1, 1)>>

-----------------------------------------------------------------------------
(* env.  Words are sequences of characters.                                *)
Blanks  == {" ", "\t", "\n"}
Escapes == ("t" :> "\t") @@ ("n" :> "\n") @@ ("\\" :> "\\") @@ ("#" :> "#") @@ ("_" :> " ")

EndWord(s) == IF s.inWord THEN [s EXCEPT !.args = Append(@, s.word), !.word = <<>>, !.inWord = FALSE] ELSE s
Escaped(s, c) ==
  CASE c \in DOMAIN Escapes -> [s EXCEPT !.word = Append(@, Escapes[c]), !.escape = FALSE]
    [] c = "c"  -> [EndWord(s) EXCEPT !.over = TRUE, !.escape = FALSE]
    [] OTHER    -> [s EXCEPT !.bad = TRUE]
SplitChar(s, c) ==
  CASE s.over \/ s.bad         -> s
    [] s.escape                -> Escaped(s, c)
    [] c = "#" /\ ~s.inWord    -> [s EXCEPT !.over = TRUE]
    [] c \in Blanks            -> EndWord(s)
    [] c = "\\"                -> [s EXCEPT !.escape = TRUE, !.inWord = TRUE]
    [] OTHER                   -> [s EXCEPT !.word = Append(@, c), !.inWord = TRUE]
SplitArgs(text) ==
  LET s == FoldLeft(SplitChar, [args |-> <<>>, word |-> <<>>, inWord |-> FALSE, escape |-> FALSE,
                                over |-> FALSE, bad |-> FALSE], text)
  IN  [bad |-> s.bad \/ s.escape, args |-> IF s.over THEN s.args ELSE EndWord(s).args]

SetEnv(env, assignment) == (assignment[1] :> assignment[2]) @@ env
UnsetEnv(env, names) == [v \in DOMAIN env \ names |-> env[v]]
Catchable == {"HUP", "TERM"}
ParseIgnoreSignals(j) == IF j.signals = {} THEN Catchable ELSE j.signals

(* With -i and no assignment the slice stays nil, for which exec.Cmd takes *)
(* the environment of the process.                                         *)
EnvPlan(j, c) ==
  LET environ == UnsetEnv(FoldLeft(SetEnv, IF j.ignore THEN <<>> ELSE c.env, j.sets), j.unset)
      split   == SplitArgs(j.split)
      argv    == split.args \o j.operands
      prog    == [Program(argv) EXCEPT !.env = IF j.ignore /\ j.sets = <<>> THEN {} ELSE {environ},
                                       !.dir = {j.chdir} \ {""}]
  IN  CASE j.handling /\ "bad" \in j.signals -> <<GiveUp(125)>>
        [] split.bad                     -> <<GiveUp(125)>>
        [] OTHER ->
           IF argv = <<>> THEN <<Tell(environ)>>
           ELSE IF j.chdir \in {"file", "missing"} THEN <<GiveUp(125)>>
           ELSE (IF j.handling THEN <<Set("ignored", c.ignored \cup ParseIgnoreSignals(j))>> ELSE <<>>)
                \o <<Start(prog, "keep", 127, 127)>>

(* nohup: standard output and error go to a file instead of a terminal.    *)
OutputWriter(j) ==
  IF ~j.terminal THEN <<>> ELSE IF j.open = {} THEN <<GiveUp(1)>>
  ELSE <<Tell(IF "here" \in j.open THEN "here" ELSE "home")>>
NohupPlan(j, c) ==
  OutputWriter(j) \o <<Set("ignored", c.ignored \cup {"HUP"}), Start(Program(j.command), "keep", 127, 126)>>

-----------------------------------------------------------------------------
(* runit's tools.  A file of an environment directory has a name, a first  *)
(* line and perhaps more lines; an odd name has an equals sign.            *)
RECURSIVE TrimBlanks(_)
TrimBlanks(s) == IF s # <<>> /\ Last(s) \in {" ", "\t"} THEN TrimBlanks(Front(s)) ELSE s
EnvFiles(dir) == {f \in dir : f.kind = "file"}
ApplyDir(env, dir) ==
  LET files == EnvFiles(dir)
      empty == {f.name : f \in {f \in files : f.line = <<>> /\ ~f.more}}
      value(v) == TrimBlanks((CHOOSE f \in files : f.name = v).line)
  IN  [v \in (DOMAIN env \cup {f.name : f \in files}) \ empty |->
         IF v \in {f.name : f \in files} THEN value(v) ELSE env[v]]
Unreadable(dir) == \E f \in dir : f.kind = "unreadable"

EnvdirPlan(j, c) ==
  IF j.command = <<>> \/ Unreadable(j.dir) THEN <<GiveUp(1)>>
  ELSE RunAs([Program(j.command) EXCEPT !.env = {ApplyDir(c.env, j.dir)}])

EnvuidgidPlan(j, c) ==
  LET accounts == Resolve(j.user, 4)
  IN  IF j.command = <<>> \/ accounts = {} THEN <<GiveUp(1)>>
      ELSE LET a == CHOOSE a \in accounts : TRUE
           IN  RunAs([Program(j.command) EXCEPT !.env = {("UID" :> a.uid) @@ ("GID" :> a.gid) @@ c.env}])

SetuidgidPlan(j) ==
  LET accounts == Resolve(j.user, 4)
  IN  IF j.command = <<>> \/ accounts = {} THEN <<GiveUp(1)>>
      ELSE LET a == CHOOSE a \in accounts : TRUE
           IN  RunAs([Program(j.command) EXCEPT !.cred = <<a.uid, a.gid>>])

SetLimits(limits) == [i \in DOMAIN limits |-> Set(limits[i][1], limits[i][2])]
SoftlimitPlan(j) ==
  IF j.command = <<>> THEN <<GiveUp(1)>> ELSE SetLimits(j.limits) \o RunAs(Program(j.command))

(* USER or USER:GROUP, the group a number.                                 *)
ChpstUser(j) ==
  {<<a.uid, IF j.group = "" THEN a.gid ELSE Number[j.group]>> :
     a \in {a \in Resolve(j.user, 4) : j.group \in {""} \cup DOMAIN Number}}
ChpstPlan(j, c) ==
  IF \/ j.command = <<>> \/ Unreadable(j.dir)
     \/ (j.user # "" /\ ChpstUser(j) = {})
  THEN <<GiveUp(1)>>
  ELSE SetLimits(j.limits) \o (IF j.nice = {} THEN <<>> ELSE <<Try("nice", CHOOSE n \in j.nice : TRUE)>>)
       \o RunAs([Program(j.command) EXCEPT
                   !.env  = {IF j.dir = {} THEN c.env ELSE ApplyDir(c.env, j.dir)},
                   !.cred = IF j.user = "" THEN <<>> ELSE CHOOSE u \in ChpstUser(j) : TRUE])

-----------------------------------------------------------------------------
(* Logins.  The shell's first argument begins with - for a login shell.    *)
BuildArgv(shell, login, command) == <<IF login THEN "-" ELSE "", shell>> \o command
Session(a, shell, argv, c) ==
  RunAs([Program(argv) EXCEPT
           !.env = {("HOME" :> a.home) @@ ("USER" :> a.name) @@ ("SHELL" :> shell) @@ c.env},
           !.dir = {a.home}, !.cred = <<a.uid, a.gid>>])

SuPlan(j, c) ==
  LET name     == Default(j.user, "root")
      accounts == Resolve(name, 7)
  IN  IF accounts = {} THEN <<GiveUp(1)>>
      ELSE LET a     == CHOOSE a \in accounts : TRUE
               shell == Default(Default(j.shell, a.shell), "/bin/sh")
           IN  (IF c.uid = 0 THEN <<>> ELSE <<Ask, Verify(name)>>)
               \o Session(a, shell, BuildArgv(shell, j.login, j.command), c)

(* credentials: the name of -f, of the operand or the first line; then the *)
(* password, except with -f.                                               *)
LoginName(j) == Default(j.force, Default(j.user, j.typed))
Credentials(j) ==
  IF j.force # "" THEN <<>> ELSE (IF j.user # "" THEN <<>> ELSE <<Ask>>) \o <<Ask>>
LoginPlan(j, c) ==
  LET accounts == Resolve(LoginName(j), 7)
  IN  Credentials(j)
      \o (IF accounts = {} THEN <<GiveUp(1)>>
          ELSE LET a     == CHOOSE a \in accounts : TRUE
                   shell == Default(a.shell, "/bin/sh")
               IN  (IF j.force = "" THEN <<Verify(LoginName(j))>> ELSE <<>>)
                   \o Session(a, shell, BuildArgv(shell, TRUE, <<>>), c))

SuloginPlan(j) ==
  <<Ask, Verify("root")>>
  \o RunAs([Program(BuildArgv(Default(j.shell, "/bin/sh"), TRUE, <<>>)) EXCEPT !.cred = <<0, 0>>])
VlockPlan(j) == <<Ask, Verify(j.user), Tell("unlocked")>>
GettyPlan(j) ==
  IF ~j.tty THEN <<GiveUp(1)>>
  ELSE <<Ask>> \o IF j.typed = "" THEN <<GiveUp(1)>> ELSE RunAs(Program(<<"login", j.typed>>))

-----------------------------------------------------------------------------
(* What the scheduler keeps of a process, set for the program (process 0)  *)
(* or for another process with -p.                                         *)
Clamp(n) == IF n > 19 THEN 19 ELSE IF n < -20 THEN -20 ELSE n

NicePlan(j, c) ==
  IF j.command = <<>> THEN <<Show(0, "nice")>>
  ELSE <<Try("nice", Clamp(c.nice + j.adjust)), Start(Program(j.command), "keep", 127, 1)>>

RenicePlan(j) ==
  IF j.priority = {} \/ j.pids = <<>> THEN <<GiveUp(1)>>
  ELSE [i \in DOMAIN j.pids |-> IF j.pids[i] = "bad" THEN Mark
          ELSE Change(Number[j.pids[i]], "nice", Clamp(CHOOSE n \in j.priority : TRUE), FALSE)]

ChrtPlan(j) ==
  LET policy == <<Default(j.policy, "rr"), j.priority>>
  IN  IF j.pid # 0
      THEN IF j.policy = "" THEN <<Show(j.pid, "policy")>> ELSE <<Change(j.pid, "policy", policy, TRUE)>>
      ELSE IF j.command = <<>> THEN <<GiveUp(1)>>
      ELSE <<Set("policy", policy)>> \o RunAs(Program(j.command))

(* A mask is its hexadecimal digits, a list its ranges.                    *)
Bit(n, i) == (n \div 2 ^ i) % 2
MaskSet(digits) ==
  {4 * (Len(digits) - k) + i : <<k, i>> \in
     {p \in (1 .. Len(digits)) \X (0 .. 3) : Bit(digits[p[1]], p[2]) = 1}}
ListSet(ranges) == UNION {ranges[i][1] .. ranges[i][2] : i \in DOMAIN ranges}
ParseSet(j) == IF j.list THEN ListSet(j.ranges) ELSE MaskSet(j.mask)
BadSet(j) == IF j.list THEN \E i \in DOMAIN j.ranges : j.ranges[i][1] > j.ranges[i][2] ELSE j.mask = <<>>
MaskHex(set) ==
  LET most == CHOOSE n \in 0 .. 64 : (\A i \in set : i < 4 * n) /\ (n = 0 \/ \E i \in set : i >= 4 * (n - 1))
      digit(k) == FoldSet(LAMBDA i, sum : sum + 2 ^ i, 0, {i \in 0 .. 3 : 4 * (most - k) + i \in set})
  IN  IF set = {} THEN <<0>> ELSE [k \in 1 .. most |-> digit(k)]

TasksetPlan(j) ==
  IF j.pid # 0
  THEN IF ~j.given THEN <<Show(j.pid, "cpus")>>
       ELSE IF BadSet(j) THEN <<GiveUp(1)>>
       ELSE <<Change(j.pid, "cpus", ParseSet(j), TRUE), Tell(MaskHex(ParseSet(j)))>>
  ELSE IF BadSet(j) \/ j.command = <<>> THEN <<GiveUp(1)>>
  ELSE <<Set("cpus", ParseSet(j))>> \o RunAs(Program(j.command))

(* Classes: 0 none, 1 realtime, 2 best effort, 3 idle.                     *)
Encode(class, data) == class * 2 ^ 13 + IF class \in {0, 3} THEN 0 ELSE data
Describe(v) == LET class == v \div 2 ^ 13 IN IF class = 3 THEN <<3>> ELSE <<class, v % 8>>
IonicePlan(j) ==
  LET v == Encode(j.class, j.data)
  IN  IF j.class \notin 0 .. 3 \/ j.data \notin 0 .. 7 \/ (j.pid # 0 /\ j.command # <<>>) THEN <<GiveUp(1)>>
      ELSE IF j.pid # 0
      THEN <<IF j.given THEN Change(j.pid, "ioprio", v, TRUE) ELSE Show(j.pid, "ioprio")>>
      ELSE IF j.command = <<>> THEN <<Show(0, "ioprio")>>
      ELSE <<Set("ioprio", v)>> \o RunAs(Program(j.command))

(* How an attribute is printed.                                            *)
Rendered(a, v) == IF a = "cpus" THEN MaskHex(v) ELSE IF a = "ioprio" THEN Describe(v) ELSE v

-----------------------------------------------------------------------------
(* Privileges, namespaces and the architecture.                            *)
SetprivPlan(j, c) ==
  IF j.dump THEN <<Tell(<<c.uid, c.gid, c.groups, c.nnp>>)>>
  ELSE IF j.command = <<>> THEN <<GiveUp(1)>>
  ELSE (IF j.nnp THEN <<Set("nnp", TRUE)>> ELSE <<>>)
       \o RunAs([Program(j.command) EXCEPT !.cred =
            IF j.reuid < 0 /\ j.regid < 0 THEN <<>>
            ELSE <<IF j.reuid < 0 THEN c.uid ELSE j.reuid, IF j.regid < 0 THEN c.gid ELSE j.regid>>])

ShellOr(j) == IF j.command = <<>> THEN <<Default(j.shell, "sh")>> ELSE j.command
Elsewhere(c, spaces, where) == [n \in DOMAIN c.ns |-> IF n \in spaces THEN where ELSE c.ns[n]]
UnsharePlan(j, c) ==
  IF j.spaces = {} THEN <<GiveUp(1)>>
  ELSE <<Set("ns", Elsewhere(c, j.spaces, "new"))>> \o RunAs(Program(ShellOr(j)))

Namespaces == <<"mnt", "net", "user">>   \* of the seven, in the order of the table
Selected(j) == SelectSeq(Namespaces, LAMBDA n : n \in j.spaces)
NsenterPlan(j, c) ==
  LET entered(k) == Elsewhere(c, Range(SubSeq(Selected(j), 1, k)), "target")
  IN  IF ~j.target \/ j.spaces = {} THEN <<GiveUp(1)>>
      ELSE [k \in DOMAIN Selected(j) |-> Set("ns", entered(k))] \o RunAs(Program(ShellOr(j)))

PersonaForArch(arch) == IF arch \in {"linux32", "i686"} THEN "linux32" ELSE "linux"
SetarchPlan(j) ==
  IF j.arch = "" \/ j.command = <<>> THEN <<GiveUp(1)>>
  ELSE <<Set("persona", PersonaForArch(j.arch)), Start(Program(j.command), "keep", 127, 127)>>

SetsidPlan(j) ==
  IF j.command = <<>> THEN <<GiveUp(1)>>
  ELSE <<Start([Program(j.command) EXCEPT !.session = TRUE], "keep", 127, 127)>>
TimePlan(j) ==
  IF j.command = <<>> THEN <<GiveUp(1)>>
  ELSE <<Start(Program(j.command), "keep", 127, 127), Tell("times")>>

(* switch_root and run-init: the mount under root moves onto it.           *)
SwitchRootPlan(j) ==
  IF j.command = <<>> \/ ~j.isDir THEN <<GiveUp(1)>>
  ELSE <<Set("cwd", j.root), Set("mount", j.root), Set("root", j.root), Set("cwd", "/"),
         Start(Program(j.command), "exec", 1, 1)>>
PivotRootPlan(j) == IF Len(j.operands) # 2 THEN <<GiveUp(1)>> ELSE <<Set("mount", j.operands[1])>>

-----------------------------------------------------------------------------
(* Several programs one after the other.                                   *)

(* run-parts: files in the order of their names; odd names are those with  *)
(* other characters than letters, digits, underscores and hyphens.         *)
Matching(files) == SelectSeq(files, LAMBDA f : ~f.odd /\ f.kind # "dir")
IsExecutable(f) == f.kind = "program"
RunpartsPlan(j) ==
  IF ~j.isDir THEN <<GiveUp(1)>>
  ELSE IF j.list THEN <<Tell([i \in DOMAIN Matching(j.files) |-> Matching(j.files)[i].name])>>
  ELSE LET run == SelectSeq(Matching(j.files), IsExecutable)
       IN  [i \in DOMAIN run |-> IF j.test THEN Tell(run[i].name)
              ELSE Start(Program(<<run[i].name>>), "mark", 1, 1)]

(* init: the entries that are run at the start, in the order of the table. *)
OneShot(e) == e.whole /\ e.action \in {"sysinit", "wait", "once"}
InitPlan(j) ==
  IF j.tab = {} THEN <<GiveUp(1)>>
  ELSE LET run == SelectSeq(CHOOSE t \in j.tab : TRUE, OneShot)
       IN  [i \in DOMAIN run |-> Start(Program(<<"sh", "-c", run[i].process>>),
              IF run[i].action = "once" THEN "leave" ELSE "forget", 0, 0)]

(* acpid: the handler, if it is there, for each event that is not blank.   *)
Handled(j, event) ==
  IF event = "" THEN <<>>
  ELSE <<Tell(event)>> \o (IF j.handler THEN <<Start(Program(<<"handler.sh", event>>), "forget", 0, 0)>> ELSE <<>>)
AcpidPlan(j) ==
  IF ~j.foreground \/ j.source = {} THEN <<GiveUp(1)>>
  ELSE FlattenSeq([i \in DOMAIN (CHOOSE s \in j.source : TRUE) |-> Handled(j, (CHOOSE s \in j.source : TRUE)[i])])

(* watch: once at the start and at each tick until it is cancelled.        *)
WatchPlan(j) ==
  IF j.command = <<>> \/ j.interval <= 0 THEN <<GiveUp(1)>>
  ELSE FlattenSeq([i \in 1 .. j.ticks + 1 |-> <<Start(Program(j.command), "forget", 0, 0), Record("screen")>>])

(* script records each piece of output; the pieces' lengths are what       *)
(* scriptreplay cuts the text behind the first line into.                  *)
Typescript(pieces) == <<"started", "\n">> \o FlattenSeq(pieces) \o <<"\n", "done", "\n">>
Timing(pieces) == [i \in DOMAIN pieces |-> Len(pieces[i])]
ScriptPlan(j) ==
  IF j.command = "" THEN <<GiveUp(1)>>
  ELSE <<Start(Program(<<"sh", "-c", j.command>>), "keep", 0, 0), Record(Typescript(j.pieces))>>
       \o (IF j.timing THEN <<Record(Timing(j.pieces))>> ELSE <<>>)
TranscriptBody(data) ==
  LET ends == {i \in DOMAIN data : data[i] = "\n"}
  IN  IF ends = {} THEN data ELSE SubSeq(data, 1 + (CHOOSE i \in ends : \A k \in ends : i <= k), Len(data))
Replay(body, timing) ==
  LET upTo(k) == FoldLeft(LAMBDA sum, n : IF sum + n > Len(body) THEN Len(body) ELSE sum + n, 0, SubSeq(timing, 1, k))
  IN  [k \in DOMAIN timing |-> SubSeq(body, upTo(k - 1) + 1, upTo(k))]
ReplayPlan(j) ==
  IF ~j.readable THEN <<GiveUp(1)>>
  ELSE <<Tell(FlattenSeq(Replay(TranscriptBody(SubSeq(Typescript(j.pieces), 1, Len(Typescript(j.pieces)) - j.lost)),
                                Timing(j.pieces))))>>

(* bootchartd: one sample, with the same stamp in both logs.               *)
BootchartdPlan(j) == <<Record("directory"), Record(<<"proc_stat", j.stamp>>), Record(<<"proc_diskstats", j.stamp>>)>>

(* ischroot: 0 in a chroot, 1 not in one, 2 unknown.                       *)
IsChroot(j) ==
  CASE ~j.statRoot                                   -> 2
    [] ~j.statInit /\ (~j.lstatInit \/ ~j.superuser) -> 2
    [] ~j.statInit                                   -> 0
    [] OTHER                                         -> IF j.same THEN 1 ELSE 0
Detect(j) ==
  CASE j.fake            -> 0
    [] IsChroot(j) # 2   -> IsChroot(j)
    [] j.f               -> 1
    [] ~j.f /\ j.t       -> 0
    [] OTHER             -> 2
IschrootPlan(j) == <<GiveUp(Detect(j))>>

-----------------------------------------------------------------------------
PlanOf(l, c) ==
  LET name == l[1]
      j    == l[2]
  IN  CASE name = "chroot"     -> ChrootPlan(j, c)
        [] name = "env"        -> EnvPlan(j, c)
        [] name = "nohup"      -> NohupPlan(j, c)
        [] name = "envdir"     -> EnvdirPlan(j, c)
        [] name = "envuidgid"  -> EnvuidgidPlan(j, c)
        [] name = "setuidgid"  -> SetuidgidPlan(j)
        [] name = "softlimit"  -> SoftlimitPlan(j)
        [] name = "chpst"      -> ChpstPlan(j, c)
        [] name = "su"         -> SuPlan(j, c)
        [] name = "login"      -> LoginPlan(j, c)
        [] name = "sulogin"    -> SuloginPlan(j)
        [] name = "vlock"      -> VlockPlan(j)
        [] name = "getty"      -> GettyPlan(j)
        [] name = "nice"       -> NicePlan(j, c)
        [] name = "renice"     -> RenicePlan(j)
        [] name = "chrt"       -> ChrtPlan(j)
        [] name = "taskset"    -> TasksetPlan(j)
        [] name = "ionice"     -> IonicePlan(j)
        [] name = "setpriv"    -> SetprivPlan(j, c)
        [] name = "unshare"    -> UnsharePlan(j, c)
        [] name = "nsenter"    -> NsenterPlan(j, c)
        [] name = "setarch"    -> SetarchPlan(j)
        [] name = "setsid"     -> SetsidPlan(j)
        [] name = "time"       -> TimePlan(j)
        [] name = "switch_root" -> SwitchRootPlan(j)
        [] name = "pivot_root" -> PivotRootPlan(j)
        [] name = "run-parts"  -> RunpartsPlan(j)
        [] name = "init"       -> InitPlan(j)
        [] name = "acpid"      -> AcpidPlan(j)
        [] name = "watch"      -> WatchPlan(j)
        [] name = "script"     -> ScriptPlan(j)
        [] name = "scriptreplay" -> ReplayPlan(j)
        [] name = "bootchartd" -> BootchartdPlan(j)
        [] name = "ischroot"   -> IschrootPlan(j)

Plan == PlanOf(launch, caller)
Step == Plan[at]
AtStep(do) == phase = "calls" /\ at <= Len(Plan) /\ Step.do = do

LaunchersInit ==
  /\ launch = <<"none">> /\ caller = <<>> /\ proc = <<>> /\ tasks = <<>> /\ peers = <<>>
  /\ at = 1 /\ on = 1 /\ moved = FALSE /\ kids = <<>> /\ output = <<>> /\ verified = {}
  /\ phase = "none" /\ amiss = FALSE /\ hitch = FALSE /\ exit = 0

Launch(l, c) ==
  /\ phase = "none" /\ phase' = "calls" /\ launch' = l /\ caller' = c
  /\ proc' = OnlyOf(OfProcess, c) /\ tasks' = [t \in Threads |-> OnlyOf(OfThread, c)]
  /\ peers' = [p \in {5} |-> OnlyOf(OfThread, c)]
  /\ UNCHANGED <<at, on, moved, kids, output, verified, amiss, hitch, exit>>

GoOn == at' = at + 1 /\ UNCHANGED <<phase, exit>>
End(n) == phase' = "over" /\ exit' = n /\ UNCHANGED at

(* Go moves the goroutine to another of the process's threads; between     *)
(* threads that are alike nobody could tell.                               *)
Migrate ==
  /\ phase = "calls" /\ at <= Len(Plan) /\ ~moved /\ moved' = TRUE
  /\ tasks[3 - on] # tasks[on] /\ on' = 3 - on
  /\ UNCHANGED <<launch, caller, at, proc, tasks, peers, kids, output, verified, phase, amiss, hitch, exit>>

(* The kernel's answers.  A process of several threads can neither leave   *)
(* nor enter a user namespace, nor enter a mount namespace.                *)
Current(a) == IF a \in OfProcess THEN proc[a] ELSE tasks[on][a]
RealTime(p) == p[1] \in {"fifo", "rr"}
Barred(a, to) ==
  \/ a = "policy" /\ (IF RealTime(to) THEN to[2] \notin 1 .. 99 ELSE to[2] # 0)
  \/ a = "cpus" /\ to \cap Online = {}
  \/ a = "ns" /\ (to["user"] # "own" \/ to["mnt"] = "target")
  \/ /\ proc.uid # 0
     /\ \/ a \in {"groups", "root", "mount", "ns"}
        \/ a \in {"uid", "gid"} /\ to # Current(a)
        \/ a \in {"memory", "files"} /\ to > Current(a)
        \/ a = "nice" /\ to < Current(a)
        \/ a = "policy" /\ RealTime(to)
        \/ a = "ioprio" /\ to \div 2 ^ 13 = 1
Kept(a, to) == IF a = "cpus" THEN to \cap Online ELSE to

SetAttr ==
  /\ AtStep("set") /\ ~Barred(Step.attr, Step.to) /\ GoOn
  /\ IF Step.attr \in OfProcess
     THEN proc' = [proc EXCEPT ![Step.attr] = Step.to] /\ UNCHANGED tasks
     ELSE tasks' = [tasks EXCEPT ![on][Step.attr] = Kept(Step.attr, Step.to)] /\ UNCHANGED proc
  /\ UNCHANGED <<launch, caller, on, moved, peers, kids, output, verified, amiss, hitch>>
SetRefused ==
  /\ AtStep("set") /\ Step.attr # "ignored"
  /\ hitch' = (hitch \/ ~Barred(Step.attr, Step.to))
  /\ IF Step.need THEN End(1) ELSE GoOn
  /\ UNCHANGED <<launch, caller, proc, tasks, on, moved, peers, kids, output, verified, amiss>>

(* Another process: it may be gone, and be another user's.                 *)
Mine(p) == p \in DOMAIN peers /\ proc.uid = 0
ChangePeer ==
  /\ AtStep("change")
  /\ IF Mine(Step.peer) /\ ~Barred(Step.attr, Step.to)
     THEN peers' = [peers EXCEPT ![Step.peer][Step.attr] = Kept(Step.attr, Step.to)] /\ GoOn /\ UNCHANGED amiss
     ELSE IF Step.need THEN End(1) /\ UNCHANGED <<peers, amiss>>
     ELSE amiss' = TRUE /\ GoOn /\ UNCHANGED peers
  /\ UNCHANGED <<launch, caller, proc, tasks, on, moved, kids, output, verified, hitch>>
ShowPeer ==
  /\ AtStep("show")
  /\ IF Step.peer = 0 \/ Step.peer \in DOMAIN peers
     THEN /\ output' = Append(output, Rendered(Step.attr, IF Step.peer = 0 THEN tasks[on][Step.attr]
                                                      ELSE peers[Step.peer][Step.attr]))
          /\ GoOn
     ELSE End(1) /\ UNCHANGED output
  /\ UNCHANGED <<launch, caller, proc, tasks, on, moved, peers, kids, verified, amiss, hitch>>

(* A line of standard input, or its end; the answer of Authenticate.       *)
Answered ==
  /\ AtStep("ask") /\ \/ GoOn /\ UNCHANGED hitch
                      \/ End(1) /\ hitch' = TRUE
  /\ UNCHANGED <<launch, caller, proc, tasks, on, moved, peers, kids, output, verified, amiss>>
Authenticate ==
  /\ AtStep("verify") /\ \/ GoOn /\ verified' = verified \cup {Step.user} /\ UNCHANGED hitch
                         \/ End(1) /\ hitch' = TRUE /\ UNCHANGED verified
  /\ UNCHANGED <<launch, caller, proc, tasks, on, moved, peers, kids, output, amiss>>
PutOut ==
  /\ AtStep("tell") /\ \/ GoOn /\ output' = Append(output, Step.what) /\ UNCHANGED hitch
                       \/ Step.need /\ End(1) /\ hitch' = TRUE /\ UNCHANGED output
  /\ UNCHANGED <<launch, caller, proc, tasks, on, moved, peers, kids, verified, amiss>>
MarkFailed == /\ AtStep("mark") /\ amiss' = TRUE /\ GoOn
              /\ UNCHANGED <<launch, caller, proc, tasks, on, moved, peers, kids, output, verified, hitch>>
Stop == /\ AtStep("end") /\ End(Step.status)
        /\ UNCHANGED <<launch, caller, proc, tasks, on, moved, peers, kids, output, verified, amiss, hitch>>

(* The fork takes the thread's attributes along; credentials, with no      *)
(* other groups, are set in the child, where they may be refused.          *)
Inherited(prog) ==
  [a \in Attributes |->
     IF prog.cred = <<>> THEN Current(a)
     ELSE CASE a = "uid" -> prog.cred[1] [] a = "gid" -> prog.cred[2] [] a = "groups" -> {}
            [] OTHER -> Current(a)]
Or(given, own) == IF given = {} THEN own ELSE CHOOSE v \in given : TRUE
Kid(prog) == [attrs |-> Inherited(prog), argv |-> prog.argv, session |-> prog.session, status |-> -2,
              env |-> Or(prog.env, caller.env),
              dir |-> Or(prog.dir, proc.cwd)]
StartKid ==
  /\ AtStep("start") /\ (Step.prog.cred = <<>> \/ proc.uid = 0)
  /\ kids' = Append(kids, Kid(Step.prog))
  /\ CASE Step.how = "leave" -> GoOn
       [] Step.how = "exec"  -> End(-2)
       [] OTHER              -> phase' = "waits" /\ UNCHANGED <<at, exit>>
  /\ UNCHANGED <<launch, caller, proc, tasks, on, moved, peers, output, verified, amiss, hitch>>
Unstarted(found) ==
  /\ AtStep("start")
  /\ amiss' = (amiss \/ Step.how = "mark")
  /\ LET n == IF found THEN Step.barred ELSE Step.missing
     IN  CASE Step.how = "exec"             -> End(n)
           [] Step.how \in {"keep", "fold"} -> exit' = n /\ at' = at + 1 /\ UNCHANGED phase
           [] OTHER                         -> GoOn
  /\ hitch' = TRUE
  /\ UNCHANGED <<launch, caller, proc, tasks, on, moved, peers, kids, output, verified>>

(* The child ends by itself or by a signal, for which ExitCode is -1.      *)
KidEnds(n) ==
  /\ phase = "waits" /\ phase' = "calls" /\ at' = at + 1
  /\ kids' = [kids EXCEPT ![Len(kids)].status = n]
  /\ amiss' = (amiss \/ (Step.how = "mark" /\ n # 0))
  /\ exit' = CASE Step.how = "keep" -> n % 256
               [] Step.how = "fold" -> IF n = 0 THEN 0 ELSE 1
               [] OTHER             -> exit
  /\ UNCHANGED <<launch, caller, proc, tasks, on, moved, peers, output, verified, hitch>>

(* Run returns; IgnoreDuring has put back what was ignored.                *)
Return ==
  /\ phase = "calls" /\ at > Len(Plan) /\ End(IF amiss THEN 1 ELSE exit)
  /\ proc' = [proc EXCEPT !.ignored = caller.ignored]
  /\ UNCHANGED <<launch, caller, tasks, on, moved, peers, kids, output, verified, amiss, hitch>>

LaunchersNext ==
  \/ \E l \in Launches, c \in Callers : Launch(l, c)
  \/ Migrate \/ SetAttr \/ SetRefused \/ ChangePeer \/ ShowPeer \/ Answered \/ Authenticate
  \/ PutOut \/ MarkFailed \/ Stop \/ StartKid \/ Return
  \/ \E found \in BOOLEAN : Unstarted(found)
  \/ \E n \in {0, 3, -1} : KidEnds(n)

-----------------------------------------------------------------------------
(* What the options of a job ask for, for each attribute they are about.   *)
Applet == launch[1]
Job    == launch[2]

Named(lines, name, fields) == {l \in Range(lines) : l.name = name /\ l.fields >= fields /\ l.valid}
UserIds(name) ==
  IF Named(PasswdLines, name, 4) = {} THEN {<<Number[name], Number[name]>>}
  ELSE {<<l.uid, l.gid>> : l \in Named(PasswdLines, name, 4)}
GroupIds(name) ==
  IF Named(GroupLines, name, 3) = {} THEN {Number[name]} ELSE {l.gid : l \in Named(GroupLines, name, 3)}
AsAccount(name, fields) == {[uid |-> l.uid, gid |-> l.gid, groups |-> {}] : l \in Named(PasswdLines, name, fields)}

InJail == ("root" :> Job.root) @@ ("cwd" :> "/")
Jailed ==
  IF Job.user = "" THEN {InJail}
  ELSE {[uid |-> id[1], gid |-> g, groups |-> UNION {GroupIds(Job.list[i]) : i \in DOMAIN Job.list}] @@ InJail :
          id \in UserIds(Job.user),
          g \in IF Job.colon THEN GroupIds(Job.group) ELSE {i[2] : i \in UserIds(Job.user)}}
Limited == [a \in {l[1] : l \in Range(Job.limits)} |-> (CHOOSE l \in Range(Job.limits) : l[1] = a)[2]]
MaskNumber(digits) == FoldLeft(LAMBDA n, d : 16 * n + d, 0, digits)
CpusAsked == Online \cap IF Job.list THEN {i \in 0 .. 64 : \E r \in Range(Job.ranges) : r[1] <= i /\ i <= r[2]}
                         ELSE {i \in 0 .. 15 : (MaskNumber(Job.mask) \div 2 ^ i) % 2 = 1}
Nearest(n) == CHOOSE k \in -20 .. 19 : \A i \in -20 .. 19 : (k - n) * (k - n) <= (i - n) * (i - n)
In(spaces, where) == [n \in {"mnt", "net", "user"} |-> IF n \in spaces THEN where ELSE "own"]

Asked ==
  CASE Applet = "chroot"                -> Jailed
    [] Applet = "setuidgid"             -> AsAccount(Job.user, 4)
    [] Applet = "su"                    -> AsAccount(IF Job.user = "" THEN "root" ELSE Job.user, 7)
    [] Applet = "login"                 -> AsAccount(LoginName(Job), 7)
    [] Applet = "sulogin"               -> {[uid |-> 0, gid |-> 0, groups |-> {}]}
    [] Applet = "softlimit"             -> {Limited}
    [] Applet = "chpst"                 ->
         {id @@ Limited @@ (IF Job.nice = {} THEN <<>>
                            ELSE "nice" :> caller.nice + CHOOSE n \in Job.nice : TRUE) :
            id \in IF Job.user = "" THEN {<<>>}
                   ELSE IF Job.group = "" THEN AsAccount(Job.user, 4)
                   ELSE {[id EXCEPT !.gid = Number[Job.group]] : id \in AsAccount(Job.user, 4)}}
    [] Applet = "setpriv" /\ Job.reuid + Job.regid # -2 ->
         {[uid |-> IF Job.reuid = -1 THEN caller.uid ELSE Job.reuid,
           gid |-> IF Job.regid = -1 THEN caller.gid ELSE Job.regid,
           groups |-> {}, nnp |-> Job.nnp \/ caller.nnp]}
    [] Applet = "setpriv"               -> {"nnp" :> (Job.nnp \/ caller.nnp)}
    [] Applet \in {"env", "nohup"}      ->
         {"ignored" :> (caller.ignored \cup
            CASE Applet = "nohup" -> {"HUP"} [] ~Job.handling -> {}
              [] OTHER -> IF Job.signals = {} THEN Catchable ELSE Job.signals)}
    [] Applet = "nice"                  -> {"nice" :> Nearest(caller.nice + Job.adjust)}
    [] Applet = "chrt"                  -> {"policy" :> <<IF Job.policy = "" THEN "rr" ELSE Job.policy, Job.priority>>}
    [] Applet = "taskset"               -> {"cpus" :> CpusAsked}
    [] Applet = "ionice"                -> {"ioprio" :> (8192 * Job.class + IF Job.class \in {1, 2} THEN Job.data ELSE 0)}
    [] Applet = "unshare"               -> {"ns" :> In(Job.spaces, "new")}
    [] Applet = "nsenter"               -> {"ns" :> In(Job.spaces, "target")}
    [] Applet = "setarch"               -> {"persona" :> IF Job.arch \in {"i686", "linux32"} THEN "linux32" ELSE "linux"}
    [] Applet = "switch_root"           -> {("mount" :> Job.root) @@ InJail}
    [] OTHER                            -> {<<>>}

(* chpst -n adds to the niceness, says its help (chpst.go:77, chpst.go:86);*)
(* it replaces the niceness, which is not the same but from 0.             *)
NicenessReplaced == Applet = "chpst" /\ Job.nice # {} /\ caller.nice # 0

(* A program has the attributes that were asked for and else the caller's  *)
(* (but for chpst's niceness that is no sum).  Only a thread's may be      *)
(* missing, when the goroutine has been moved, and a niceness, whose       *)
(* refusal is no error.                                                    *)
AttrsAsAsked(k) ==
  \E f \in Asked : \A a \in Attributes \ (IF NicenessReplaced THEN {"nice"} ELSE {}) :
    \/ k.attrs[a] = IF a \in DOMAIN f THEN f[a] ELSE caller[a]
    \/ /\ k.attrs[a] = caller[a]
       /\ \/ a \in OfThread /\ moved
          \/ a = "nice" /\ (hitch \/ caller.uid # 0)

(* Its environment is the caller's but for the variables asked for.        *)
LastSet(v) == Job.sets[CHOOSE i \in DOMAIN Job.sets :
                         Job.sets[i][1] = v /\ \A k \in i + 1 .. Len(Job.sets) : Job.sets[k][1] # v][2]
Trimmed(s) == CHOOSE t \in {SubSeq(s, 1, n) : n \in 0 .. Len(s)} :
                /\ t = <<>> \/ Last(t) \notin {" ", "\t"}
                /\ \A i \in Len(t) + 1 .. Len(s) : s[i] \in {" ", "\t"}
FromDir == [v \in {f.name : f \in EnvFiles(Job.dir)} |->
              Trimmed((CHOOSE f \in EnvFiles(Job.dir) : f.name = v).line)]
Assigned(k) ==
  CASE Applet = "chroot"            -> {"SHELL" :> k.argv[1]}
    [] Applet = "env"               -> {[v \in {s[1] : s \in Range(Job.sets)} |-> LastSet(v)]}
    [] Applet \in {"envdir", "chpst"} -> {FromDir}
    [] Applet = "envuidgid"         -> {[UID |-> l.uid, GID |-> l.gid] : l \in Named(PasswdLines, Job.user, 4)}
    [] Applet \in {"su", "login"}   ->
         {[HOME |-> l.home, USER |-> l.name, SHELL |-> k.argv[2]] :
            l \in {l \in Range(PasswdLines) : l.uid = k.attrs.uid /\ l.gid = k.attrs.gid}}
    [] OTHER                        -> {<<>>}
(* env -i without an assignment, which by env.go:41 and env.go:50 starts   *)
(* the command with an empty environment, leaves it all it had.            *)
NotEmptied == Applet = "env" /\ Job.ignore /\ Job.sets = <<>>
Unset == CASE Applet = "env" -> Job.unset
           [] Applet \in {"envdir", "chpst"} -> {f.name : f \in {f \in EnvFiles(Job.dir) : f.line = <<>> /\ ~f.more}}
           [] OTHER -> {}
EnvAsAsked(k) ==
  LET kept == IF Applet = "env" /\ Job.ignore THEN {} ELSE DOMAIN caller.env
  IN  NotEmptied \/ \E f \in Assigned(k) :
        /\ DOMAIN k.env = (kept \cup DOMAIN f) \ Unset
        /\ \A v \in DOMAIN k.env : k.env[v] = IF v \in DOMAIN f THEN f[v] ELSE caller.env[v]

(* env's program is what the words of -S and the operands say.             *)
ArgvAsAsked(k) == Applet = "env" => k.argv = Job.words \o Job.operands

(* Nobody is let in, and no terminal unlocked, without the password.       *)
Admitted ==
  /\ (Applet = "login" /\ Job.force = "" /\ kids # <<>>) => LoginName(Job) \in verified
  /\ (Applet = "sulogin" /\ kids # <<>>) => "root" \in verified
  /\ (Applet = "vlock" /\ output # <<>>) => Job.user \in verified

(* An applet that runs one program ends as the program did; success with   *)
(* no program means that something was shown, or another process changed.  *)
OfOne == {"chroot", "env", "nohup", "envdir", "envuidgid", "setuidgid", "softlimit", "chpst", "su", "login",
          "sulogin", "getty", "nice", "chrt", "taskset", "ionice", "setpriv", "unshare", "nsenter",
          "setarch", "setsid", "time"}
StatusAsTheirs ==
  phase = "over" /\ Applet \in OfOne =>
    IF kids # <<>>
    THEN /\ (exit = 0) = (kids[1].status = 0) /\ Len(kids) = 1
         /\ Applet # "chroot" => exit = kids[1].status % 256
    ELSE exit = 0 => output # <<>> \/ (Applet \in {"chrt", "ionice"} /\ Job.pid # 0)

(* Root's chroot that nothing goes wrong for gives its command the user.   *)
EntersJail ==
  Applet = "chroot" /\ phase = "over" /\ ~hitch /\ caller.uid = 0 /\ Job.user # "" =>
    (kids # <<>>) = (ResolveIdentity(Job) # {})

(* One program after the other: run-parts in the order of the names, init  *)
(* in that of its table, of which only a once goes on by itself.           *)
Followed(k) == \E e \in CHOOSE t \in {Range(t) : t \in Job.tab} : TRUE :
                 e.action = "once" /\ e.process = k.argv[3]
OneByOne ==
  \A i \in 1 .. Len(kids) - 1 : kids[i].status = -2 => Applet = "init" /\ Followed(kids[i])
PartsRun ==
  LET runs == SelectSeq(Job.files, LAMBDA f : f.kind = "program" /\ ~f.odd)
      place(k) == CHOOSE i \in DOMAIN runs : runs[i].name = k.argv[1]
  IN  Applet = "run-parts" =>
        /\ \A i, k \in DOMAIN kids : i < k => place(kids[i]) < place(kids[k])
        /\ phase = "over" /\ Job.isDir /\ ~Job.list /\ ~Job.test =>
             (exit = 0) = (Len(kids) = Len(runs) /\ \A i \in DOMAIN kids : kids[i].status = 0)

(* renice goes on after a process it cannot change, and tells of it.       *)
Reniced ==
  Applet = "renice" /\ phase = "over" /\ caller.uid = 0 /\ Job.priority # {} =>
    /\ (exit = 0) = (Range(Job.pids) = {"5"})
    /\ peers[5].nice = IF "5" \in Range(Job.pids) THEN Nearest(CHOOSE n \in Job.priority : TRUE) ELSE caller.nice

(* What is shown stands for what is kept, and a replay is the text that    *)
(* was recorded, or the part of it that is left (of which scriptreplay     *)
(* drops the first line, if that is whole).                                *)
ShownAsKept ==
  /\ Applet = "taskset" /\ output # <<>> =>
       {i \in 0 .. 15 : (MaskNumber(output[1]) \div 2 ^ i) % 2 = 1} =
          IF Job.given THEN {i \in 0 .. 15 : i \in ParseSet(Job)} ELSE peers[5].cpus
  /\ Applet = "ionice" /\ output # <<>> => output[1] = Describe(caller.ioprio)
  /\ Applet = "scriptreplay" /\ output # <<>> =>
       /\ Job.lost <= Len(FlattenSeq(Job.pieces)) + 3 => IsPrefix(output[1], FlattenSeq(Job.pieces))
       /\ Job.lost <= 3 => output[1] = FlattenSeq(Job.pieces)

(* A program that is started is the one that was asked for, with what was  *)
(* asked for and nothing else of the caller's changed, by who may ask; the *)
(* applet ends as it did (Run of the applets that run programs).  Nothing  *)
(* is said where the code does not what its help says: NicenessReplaced,   *)
(* NotEmptied.                                                             *)
LaunchesAreRight ==
  launch # <<"none">> =>
    /\ \A i \in DOMAIN kids : AttrsAsAsked(kids[i]) /\ EnvAsAsked(kids[i]) /\ ArgvAsAsked(kids[i])
    /\ Admitted /\ StatusAsTheirs /\ EntersJail /\ OneByOne /\ PartsRun /\ Reniced /\ ShownAsKept
=============================================================================
