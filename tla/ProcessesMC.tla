----------------------------- MODULE ProcessesMC -----------------------------
(***************************************************************************)
(* The applets that run or talk to other programs: xargs, timeout, flock,  *)
(* start-stop-daemon, mbsh, nc, telnet, ssl_client and microcom, and the   *)
(* many that change a process and run a program in it.  They are one       *)
(* binary, whose first act is to choose the applet (cmd/mimixbox/main.go)  *)
(* or to look after its links; the processes of an applet share no state   *)
(* with those of another.                                                  *)
(***************************************************************************)
EXTENDS Xargs, Timeout, Flock, StartStop, Mbsh, Relays, Launchers, MultiCall

VARIABLE applet   \* the applet of the processes in view, "none" before run

pvars == <<applet, xvars, tvars, fvars, svars, bvars, rvars, launchvars, mvars>>

Programs == {"xargs", "timeout", "flock", "start-stop-daemon", "mbsh", "relay", "launcher", "mimixbox"}

ProcessesInit ==
  /\ applet = "none"
  /\ XargsInit /\ TimeoutInit /\ FlockInit /\ StartStopInit /\ MbshInit /\ RelaysInit
  /\ LaunchersInit /\ MultiCallInit

(* run and runApplet: argv[0] or the first argument names the applet.      *)
Dispatch(name) ==
  /\ applet = "none" /\ applet' = name
  /\ UNCHANGED <<xvars, tvars, fvars, svars, bvars, rvars, launchvars, mvars>>

RunXargs     == /\ applet = "xargs" /\ XargsNext
                /\ UNCHANGED <<applet, tvars, fvars, svars, bvars, rvars, launchvars, mvars>>
RunTimeout   == /\ applet = "timeout" /\ TimeoutNext
                /\ UNCHANGED <<applet, xvars, fvars, svars, bvars, rvars, launchvars, mvars>>
RunFlock     == /\ applet = "flock" /\ FlockNext
                /\ UNCHANGED <<applet, xvars, tvars, svars, bvars, rvars, launchvars, mvars>>
RunStartStop == /\ applet = "start-stop-daemon" /\ StartStopStep
                /\ UNCHANGED <<applet, xvars, tvars, fvars, bvars, rvars, launchvars, mvars>>
RunMbsh      == /\ applet = "mbsh" /\ MbshNext
                /\ UNCHANGED <<applet, xvars, tvars, fvars, svars, rvars, launchvars, mvars>>
RunRelay     == /\ applet = "relay" /\ RelaysNext
                /\ UNCHANGED <<applet, xvars, tvars, fvars, svars, bvars, launchvars, mvars>>
RunLauncher  == /\ applet = "launcher" /\ LaunchersNext
                /\ UNCHANGED <<applet, xvars, tvars, fvars, svars, bvars, rvars, mvars>>
RunBinary    == /\ applet = "mimixbox" /\ MultiCallNext
                /\ UNCHANGED <<applet, xvars, tvars, fvars, svars, bvars, rvars, launchvars>>

ProcessesNext ==
  \/ \E name \in Programs : Dispatch(name)
  \/ RunXargs \/ RunTimeout \/ RunFlock \/ RunStartStop \/ RunMbsh \/ RunRelay
  \/ RunLauncher \/ RunBinary

(* Each component's own fairness, where it claims that something ends.  A  *)
(* component that was not started has no step that fairness could ask for. *)
ProcessesFairness ==
  XargsFairness /\ TimeoutFairness /\ FlockFairness /\ MbshFairness /\ RelaysFairness
ProcessesSpec == ProcessesInit /\ [][ProcessesNext]_pvars /\ ProcessesFairness

ProcessesTypeOK ==
  /\ applet \in Programs \cup {"none"}
  /\ XargsTypeOK /\ TimeoutTypeOK /\ FlockTypeOK /\ StartStopTypeOK /\ MbshTypeOK

(* An applet that waits for others, for its commands, for a lock, for the  *)
(* stages of a pipeline or for a peer, does not wait for ever.             *)
EveryoneEnds == XargsEnds /\ LimitEnforced /\ WaitIsBounded /\ LinesEnd /\ RelaysEnd

(* What the applets start and leave behind is what they were asked for:    *)
(* daemons are those of their pidfile, a program runs with the attributes, *)
(* the environment and the rights that were asked for, and the links are   *)
(* the binary's own.                                                       *)
ProgramsAreRight == Tracked /\ LaunchesAreRight /\ BinaryIsRight

-----------------------------------------------------------------------------
(* Small inputs. *)

(* Items as <<line, length>>: lines of several items, an item too long.     *)
Items(s) == [i \in DOMAIN s |-> [line |-> s[i][1], len |-> s[i][2]]]
Four  == Items(<< <<1, 2>>, <<1, 3>>, <<2, 2>>, <<3, 2>> >>)
Three == Items(<< <<1, 2>>, <<2, 5>>, <<2, 2>> >>)

Opts(n, l, s, p, replace, delimited, noRunEmpty) ==
  [maxArgs |-> n, maxLines |-> l, maxChars |-> s, maxProcs |-> p,
   replace |-> replace, delimited |-> delimited, noRunEmpty |-> noRunEmpty]

MCXargsInputs ==
  [items : {Four, Three},
   opts : {Opts(n, l, s, 1, FALSE, d, FALSE) :
             n \in 0 .. 2, l \in 0 .. 2, s \in {0, 4, 5}, d \in BOOLEAN}]
  \cup [items : {Four}, opts : {Opts(1, 0, 0, 2, FALSE, FALSE, FALSE)}]
  \cup [items : {Three}, opts : {Opts(1, 0, 0, 0, r, FALSE, FALSE) : r \in BOOLEAN}]
  \cup [items : {<<>>}, opts : {Opts(0, 0, 0, 0, r, FALSE, e) : r, e \in BOOLEAN}]

MCTimeoutInputs ==
  [sig : {"TERM", "KILL"}, grace : BOOLEAN, starts : {TRUE}, found : {TRUE},
   heeds : SUBSET {"child", "stray"}]
  \cup [sig : {"TERM"}, grace : {FALSE}, starts : {FALSE}, found : BOOLEAN, heeds : {{}}]

MCFlockOptions ==
  [how : {"sh"}, mode : {"block"}] \cup [how : {"ex"}, mode : {"nonblock", "wait"}]

(* One-line scripts: a stage that does not start at each place, a stage     *)
(* that does not read, redirections in place of a pipe, syntax errors.      *)
Line ==
  { <<"emit", "|", "copy", "|", "drain">>, <<"emit", "|", "broken", "|", "drain">>,
    <<"broken", "|", "drain">>, <<"emit", "|", "broken">>, <<"emit", "|", "brief", "|", "drain">>,
    <<"emit", ">", "file", "|", "drain">>, <<"emit", "|", "copy", "<", "file">>,
    <<"emit", "|", "brief", ";", "cd">>, <<"emit", "|", "drain", "<", "bad">>,
    <<"copy", "|", "lost">>, <<"v=1", "|", "brief">>, <<"v=1", ";", "exit", ";", "cd">>,
    <<"cd", ">", "bad">>, <<"lost">>, <<"cd", ";">>, <<>>,
    <<"emit", "|">>, <<"emit", ">", ";">>, <<";", "cd">> }
MCScripts ==
  [lines : {<<l>> : l \in Line} \cup {<< <<"brief">>, l>> : l \in {<<"emit", "|", "broken">>, <<"|">>}},
   pipes : {2}]
  \cup [lines : {<< <<"emit", "|", "copy", "|", "drain">> >>}, pipes : {1}]

MCSessions ==
  [relay : {"nc", "ssl", "microcom"}, given : {[i \in 1 .. n |-> i] : n \in {0, 2, 4}},
   terminal : BOOLEAN, peer : {"talker"}, speech : {[i \in 1 .. n |-> 10 + i] : n \in {0, 3}}]
  \cup [relay : {"nc", "ssl", "microcom"}, given : {[i \in 1 .. n |-> i] : n \in {0, 3, 4}},
        terminal : BOOLEAN, peer : {"echo"}, speech : {<<>>}]

-----------------------------------------------------------------------------
(* Applets that run programs: who calls them, and what they are asked.     *)
Person(uid, groups, niceness) ==
  [uid |-> uid, gid |-> uid, groups |-> groups, root |-> "host", cwd |-> "cwd", mount |-> "host",
   memory |-> 8, files |-> 8, ignored |-> {"TERM"}, nice |-> niceness, policy |-> <<"other", 0>>, cpus |-> 0 .. 5,
   ioprio |-> 2 * 8192 + 4, persona |-> "linux", nnp |-> FALSE,
   ns |-> [n \in {"mnt", "net", "user"} |-> "own"],
   env |-> [PATH |-> <<"p">>, OLD |-> <<"o">>, SHELL |-> "rc"]]
MCCallers == {Person(0, {0, 9}, 0), Person(0, {0, 9}, 2), Person(30, {30, 9}, 2)}

Account(name, uid, gid, fields, valid, shell) ==
  [name |-> name, uid |-> uid, gid |-> gid, fields |-> fields, valid |-> valid, shell |-> shell, home |-> "home"]
MCPasswdLines ==
  << Account("root", 0, 0, 7, TRUE, ""), Account("ann", 20, 21, 3, TRUE, "sh"), Account("ann", 22, 23, 7, TRUE, "sh"),
     Account("bob", 24, 24, 7, FALSE, "sh"), Account("7", 26, 27, 4, TRUE, "sh") >>
MCGroupLines ==
  << [name |-> "adm", gid |-> 40, fields |-> 3, valid |-> TRUE], [name |-> "web", gid |-> 41, fields |-> 3, valid |-> FALSE],
     [name |-> "web", gid |-> 42, fields |-> 4, valid |-> TRUE] >>

Jobs(name, set) == {name} \X set
Cmd == <<"prog">>
Chroots ==
  [user : {"", "ann", "bob", "5", "7"}, colon : {FALSE}, group : {""}, list : {<<>>, <<"web", "adm">>, <<"5", "zzz">>},
   command : {Cmd}, shell : {""}, root : {"jail"}]
  \cup [user : {"ann", ""}, colon : {TRUE}, group : {"web", "5", ""}, list : {<<>>}, command : {<<>>}, shell : {"", "ksh"}, root : {"jail"}]

(* -S: how a word is written, and what it stands for.                      *)
Quote(c) == CASE c = " " -> <<"\\", "_">> [] c = "\t" -> <<"\\", "t">> [] c = "\\" -> <<"\\", "\\">>
              [] c = "#" -> <<"\\", "#">> [] OTHER -> <<c>>
Quoted(words) == FlattenSeq([i \in DOMAIN words |-> <<" ">> \o FlattenSeq([k \in DOMAIN words[i] |-> Quote(words[i][k])])])
Split(text, words) == [text |-> text, words |-> words]
Splits == {Split(Quoted(w), w) : w \in {<<>>, << <<"a", " ", "b">>, <<"#">> >>, << <<"\\", "t">>, <<"a", "\t">> >>}}
  \cup {Split(<<"a", " ", "#", "b">>, << <<"a">> >>), Split(<<"a", "#", "\\", "c", "b">>, << <<"a", "#">> >>),
        Split(<<"a", "\\">>, <<>>), Split(<<"\\", "q">>, <<>>)}
Envs ==
  {[handling |-> FALSE, signals |-> {}, ignore |-> i, sets |-> s, unset |-> u, split |-> w.text, words |-> w.words,
    operands |-> o, chdir |-> ""] :
     i \in BOOLEAN, s \in {<<>>, << <<"A", <<"1">>>>, <<"OLD", <<"2">>>>, <<"A", <<"3">>>> >>}, u \in {{}, {"OLD"}},
     w \in {Split(<<>>, <<>>)}, o \in {<<>>, <<<<"c">>>>}}
  \cup {[handling |-> h, signals |-> {}, ignore |-> FALSE, sets |-> <<>>, unset |-> {}, split |-> w.text, words |-> w.words,
         operands |-> <<<<"c">>>>, chdir |-> d] : w \in Splits, h \in BOOLEAN, d \in {"", "file"}}
  \cup {[handling |-> TRUE, signals |-> s, ignore |-> FALSE, sets |-> <<>>, unset |-> {}, split |-> <<>>, words |-> <<>>,
         operands |-> <<<<"c">>>>, chdir |-> d] : s \in {{"HUP"}, {"bad"}}, d \in {"dir", "missing"}}

EnvFile(name, kind, line, more) == [name |-> name, kind |-> kind, line |-> line, more |-> more]
Dirs == {{}, {EnvFile("OLD", "file", <<>>, FALSE), EnvFile("NEW", "file", <<"v", " ", "w", " ", "\t">>, TRUE),
              EnvFile("SUB", "dir", <<>>, FALSE)},
         {EnvFile("OLD", "file", <<" ">>, FALSE), EnvFile("PATH", "file", <<>>, TRUE)},
         {EnvFile("PATH", "unreadable", <<>>, FALSE)}}
Limiting == {<<>>, << <<"memory", 4>>, <<"files", 9>> >>}
Users == {"root", "ann", "bob", "7", "nobody"}
Tools ==
  Jobs("envdir", [command : {Cmd, <<>>}, dir : Dirs])
  \cup Jobs("envuidgid", [command : {Cmd}, user : Users]) \cup Jobs("setuidgid", [command : {Cmd}, user : Users])
  \cup Jobs("softlimit", [command : {Cmd}, limits : Limiting])
  \cup Jobs("chpst", [command : {Cmd}, dir : Dirs, user : {""}, group : {""}, limits : Limiting, nice : {{}, {1}, {5}}])
  \cup Jobs("chpst", [command : {Cmd}, dir : {{}}, user : {"ann"}, group : {"", "5", "adm"}, limits : Limiting, nice : {{}, {5}}])
  \cup Jobs("su", [user : {"", "ann", "bob"}, shell : {"", "ksh"}, login : BOOLEAN, command : {<<>>, <<"-c", "x">>}])
  \cup Jobs("login", [force : {"", "root"}, user : {"", "ann"}, typed : {"root", "nobody"}])
  \cup Jobs("sulogin", [shell : {"", "ksh"}]) \cup Jobs("vlock", [user : {"ann"}])
  \cup Jobs("getty", [tty : BOOLEAN, typed : {"", "ann"}])
Scheduled ==
  Jobs("nice", [command : {Cmd, <<>>}, adjust : {-30, -1, 3, 40}])
  \cup Jobs("renice", [priority : {{}, {-5}, {30}}, pids : {<<>>, <<"5">>, <<"7", "5">>, <<"bad", "5">>, <<"7">>}])
  \cup Jobs("chrt", [policy : {"", "other", "fifo"}, priority : {0, 1, 100}, pid : {0, 5, 7}, command : {Cmd}])
  \cup Jobs("taskset", [list : {FALSE}, mask : {<<>>, <<3>>, <<1, 0, 2>>, <<12>>, <<10, 0>>}, ranges : {<<>>}, given : BOOLEAN, pid : {0, 5}, command : {Cmd}])
  \cup Jobs("taskset", [list : {TRUE}, mask : {<<>>}, ranges : {<< <<0, 0>>, <<2, 4>> >>, << <<3, 1>> >>, << <<7, 9>> >>}, given : {TRUE}, pid : {0, 5}, command : {Cmd}])
  \cup Jobs("ionice", [class : 0 .. 4, data : {0, 7, 8}, pid : {0, 5}, command : {Cmd, <<>>}, given : BOOLEAN])
  \cup Jobs("setpriv", [dump : BOOLEAN, command : {Cmd}, nnp : BOOLEAN, reuid : {-1, 30, 50}, regid : {-1, 50}])
  \cup Jobs("unshare", [spaces : {{}, {"net", "mnt"}, {"user"}}, command : {Cmd, <<>>}, shell : {"ksh"}])
  \cup Jobs("nsenter", [target : BOOLEAN, spaces : {{}, {"net"}, {"net", "user"}, {"mnt", "net"}}, command : {<<>>}, shell : {""}])
  \cup Jobs("setarch", [arch : {"", "i686", "x86_64"}, command : {Cmd}])
Part(name, kind, odd) == [name |-> name, kind |-> kind, odd |-> odd]
Parts == << Part("a", "program", FALSE), Part("b.old", "program", TRUE), Part("c", "text", FALSE),
            Part("d", "dir", FALSE), Part("e", "program", FALSE), Part("f", "program", FALSE) >>
Entry(action, process, whole) == [action |-> action, process |-> process, whole |-> whole]
Tables == {{}, {<< Entry("once", "a", TRUE), Entry("sysinit", "b", FALSE), Entry("respawn", "c", TRUE), Entry("wait", "d", TRUE) >>}}
Several ==
  Jobs("nohup", [terminal : BOOLEAN, open : SUBSET {"here", "home"}, command : {Cmd}])
  \cup Jobs("setsid", [command : {Cmd, <<>>}]) \cup Jobs("time", [command : {Cmd}])
  \cup Jobs("switch_root", [command : {Cmd}, isDir : BOOLEAN, root : {"disk"}])
  \cup Jobs("pivot_root", [operands : {<<>>, <<"disk", "old">>}])
  \cup Jobs("run-parts", [isDir : BOOLEAN, list : BOOLEAN, test : BOOLEAN, files : {Parts}])
  \cup Jobs("init", [tab : Tables])
  \cup Jobs("acpid", [foreground : BOOLEAN, source : {{}, {<<"lid", "", "power">>}}, handler : BOOLEAN])
  \cup Jobs("watch", [command : {Cmd}, interval : {0, 2}, ticks : {2}])
  \cup Jobs("script", [command : {"", "ls"}, pieces : {<< <<"a">>, <<"b", "\n", "c">> >>}, timing : BOOLEAN])
  \cup Jobs("scriptreplay", [readable : BOOLEAN, pieces : {<< <<"a">>, <<"b", "\n", "c">> >>}, lost : {0, 3, 5, 8}])
  \cup Jobs("bootchartd", [stamp : {1}])
  \cup Jobs("ischroot", {[fake |-> x, statRoot |-> a, statInit |-> b, lstatInit |-> c, superuser |-> FALSE, same |-> d, f |-> e, t |-> TRUE] :
                           x, a, b, c, d, e \in BOOLEAN})
MCLaunches == Jobs("chroot", Chroots) \cup Jobs("env", Envs) \cup Tools \cup Scheduled \cup Several

-----------------------------------------------------------------------------
(* The binary: three applets, two places it may be in, and command lines.   *)
MCRegistry ==
  << [name |-> "ls", subsystem |-> "fileutils", kind |-> "custom"], [name |-> "less", subsystem |-> "textutils", kind |-> "flags"],
     [name |-> "brctl", subsystem |-> "fileutils", kind |-> "plan"] >>
MCLetters ==
  [ls |-> <<12, 19>>, less |-> <<12, 5, 19, 19>>, brctl |-> <<2, 18, 3, 20, 12>>,
   lss |-> <<12, 19, 19>>, sl |-> <<19, 12>>, q |-> <<17>>, xyzxyz |-> <<24, 25, 26, 24, 25, 26>>, l |-> <<12>>] @@ ("" :> <<>>)
Place1 == <<"bin", "mimixbox">>
Odd1   == <<"bin", ".", "mimixbox">>
Place2 == <<"opt", "mimixbox">>
Other2 == <<"opt", "other">>
Holding(r, o, b) == [ls |-> r, less |-> o, brctl |-> b]
Another == [kind |-> "file", to |-> <<>>]
MCDirectories ==
  { Holding(LinkTo(Place1), LinkTo(Odd1), LinkTo(Place2)), Holding(Another, Absent, LinkTo(Other2)),
    Holding(LinkTo(Place1), Absent, Another) }
MCIntruders == {Another, LinkTo(Place2)}
Line1(invoked, first, params, self) == [invoked |-> invoked, first |-> first, params |-> params, self |-> self]
Arguments == {<<>>, <<"--help", "--unknown">>, <<"x", "--help">>, <<"--version">>, <<"--", "--help">>, <<"bad">>}
Filters == {<<>>, << <<"prefix", "l">>, <<"json">> >>, << <<"subsystem", "fileutils">>, <<"prefix", "l">> >>,
            << <<"prefix", "q">>, <<"prefix", "">> >>, << <<"unknown">> >>}
MCCalls ==
  {Line1("mimixbox", <<"option", o>>, p, s) : o \in {"install", "full-install", "remove"}, p \in {<<"dir">>}, s \in {Place1, Place2}}
  \cup {Line1("mimixbox", <<"option", "install">>, p, Place1) : p \in {<<>>, <<"file">>}}
  \cup {Line1(i, <<>>, a, Place1) : i \in {"ls", "less", "brctl"}, a \in Arguments}
  \cup {Line1("renamed", <<"word", "brctl">>, a, Place1) : a \in Arguments}
  \cup {Line1("mimixbox", <<"word", w>>, <<>>, Place1) : w \in {"lss", "sl", "q", "xyzxyz"}}
  \cup {Line1("mimixbox", <<"option", "list">>, f, Place1) : f \in Filters}
  \cup {Line1("renamed", f, <<>>, Place1) : f \in {<<>>, <<"option", "help">>, <<"option", "version">>, <<"-", "unknown">>}}
=============================================================================
