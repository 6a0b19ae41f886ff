------------------------------- MODULE FilesMC -------------------------------
(***************************************************************************)
(* The applets that keep and carry files: mv, cp and rm, rx, ftpget and    *)
(* ftpput with ftpd, crond with crontab, svlogd, add-shell and             *)
(* remove-shell, popmaildir, the archivers, and what changes trees of      *)
(* files or lists them.  They are one binary, whose first act is to choose *)
(* the applet (cmd/mimixbox/main.go); they share no state.                 *)
(***************************************************************************)
EXTENDS FileOps, Xmodem, Ftp, Cron, Svlogd, ShellList, Popmaildir, Listings

VARIABLE applet   \* the applet of the processes in view, "none" before run

filesvars == <<applet, fovars, xvars, ftpvars, crvars, svvars, shvars, popvars, arcvars, trvars, lsvars>>

FileApplets == {"fileutils", "rx", "ftp", "cron", "svlogd", "shells", "popmaildir", "archival", "trees", "listings"}

FilesInit ==
  /\ applet = "none"
  /\ FileOpsInit /\ XmodemInit /\ FtpInit /\ CronInit /\ SvlogdInit /\ ShellListInit /\ PopInit /\ ArcInit
  /\ TreeToolsInit /\ ListingsInit

(* run and runApplet: argv[0] or the first argument names the applet.      *)
Dispatch(name) ==
  /\ applet = "none" /\ applet' = name
  /\ UNCHANGED <<fovars, xvars, ftpvars, crvars, svvars, shvars, popvars, arcvars, trvars, lsvars>>

RunFileOps == /\ applet = "fileutils" /\ FileOpsNext
              /\ UNCHANGED <<applet, xvars, ftpvars, crvars, svvars, shvars, popvars, arcvars, trvars, lsvars>>
RunXmodem  == /\ applet = "rx" /\ XmodemNext
              /\ UNCHANGED <<applet, fovars, ftpvars, crvars, svvars, shvars, popvars, arcvars, trvars, lsvars>>
RunFtp     == /\ applet = "ftp" /\ FtpNext
              /\ UNCHANGED <<applet, fovars, xvars, crvars, svvars, shvars, popvars, arcvars, trvars, lsvars>>
RunCron    == /\ applet = "cron" /\ CronNext
              /\ UNCHANGED <<applet, fovars, xvars, ftpvars, svvars, shvars, popvars, arcvars, trvars, lsvars>>
RunSvlogd  == /\ applet = "svlogd" /\ SvlogdNext
              /\ UNCHANGED <<applet, fovars, xvars, ftpvars, crvars, shvars, popvars, arcvars, trvars, lsvars>>
RunShells  == /\ applet = "shells" /\ ShellListNext
              /\ UNCHANGED <<applet, fovars, xvars, ftpvars, crvars, svvars, popvars, arcvars, trvars, lsvars>>
RunPop     == /\ applet = "popmaildir" /\ PopNext
              /\ UNCHANGED <<applet, fovars, xvars, ftpvars, crvars, svvars, shvars, arcvars, trvars, lsvars>>
RunArchiver == /\ applet = "archival" /\ ArcNext
              /\ UNCHANGED <<applet, fovars, xvars, ftpvars, crvars, svvars, shvars, popvars, trvars, lsvars>>
RunTreeTools == /\ applet = "trees" /\ TreeToolsNext
                /\ UNCHANGED <<applet, fovars, xvars, ftpvars, crvars, svvars, shvars, popvars, arcvars, lsvars>>
RunListings == /\ applet = "listings" /\ ListingsNext
               /\ UNCHANGED <<applet, fovars, xvars, ftpvars, crvars, svvars, shvars, popvars, arcvars, trvars>>

FilesNext ==
  \/ \E name \in FileApplets : Dispatch(name)
  \/ RunFileOps \/ RunXmodem \/ RunFtp \/ RunCron \/ RunSvlogd \/ RunShells \/ RunPop
  \/ RunArchiver \/ RunTreeTools \/ RunListings
FilesSpec == FilesInit /\ [][FilesNext]_filesvars /\ XmodemFairness /\ FtpFairness

(* What one run of an archiver, or of an applet that changes a tree or     *)
(* looks at it, left is what it promises (Archives, TreeTools, Listings).  *)
FilesAreRight == ArchivesAreRight /\ TreesAreRight /\ ListingsAreRight

-----------------------------------------------------------------------------
(* Trees: d and e are directories, m a mounted file system, r a directory  *)
(* with a file system mounted in it (rn) and one a level below (rsn).      *)

N(x) == <<x>>
a  == <<N("a")>>            b   == <<N("b")>>            no  == <<N("no")>>
aT == << <<"a", "~">> >>    aN  == << <<"a", ".", "i">> >>
d  == <<N("d")>>            da  == <<N("d"), N("a")>>    db  == <<N("d"), N("b")>>
e  == <<N("e")>>            ea  == <<N("e"), N("a")>>
es == <<N("e"), N("s")>>    esc == <<N("e"), N("s"), N("c")>>
m  == <<N("m")>>            ma  == <<N("m"), N("a")>>    me  == <<N("m"), N("e")>>
r  == <<N("r")>>            rf  == <<N("r"), N("f")>>
rn == <<N("r"), N("n")>>    rnf == <<N("r"), N("n"), N("f")>>
rs == <<N("r"), N("s")>>    rsn == <<N("r"), N("s"), N("n")>>
rsnf == <<N("r"), N("s"), N("n"), N("f")>>

MCLetters == {"a", "b", "c", "d", "e", "f", "i", "m", "n", "no", "r", "s", "~", "."}
MCMounted == {<<>>, m, rn, rsn}
Tree(D, F) == [p \in {<<>>} \cup D \cup DOMAIN F |-> IF p \in DOMAIN F THEN F[p] ELSE Dir]
Base ==
  (a :> <<"A", 2>>) @@ (b :> <<"B", 1>>) @@ (da :> <<"D", 1>>) @@ (db :> <<"E", 3>>)
    @@ (ea :> <<"F", 2>>) @@ (esc :> <<"G", 1>>) @@ (ma :> <<"M", 3>>)
MCTrees ==
  { Tree({d, e, es, m}, Base),
    Tree({d, e, es, m, me}, Base @@ (aT :> <<"O", 1>>) @@ (aN :> <<"P", 1>>)),
    Tree({r, rs, rn, rsn}, (rf :> <<"R", 1>>) @@ (rnf :> <<"S", 1>>) @@ (rsnf :> <<"U", 1>>)),
    Tree({r, rn}, (rf :> <<"R", 1>>) @@ (rnf :> <<"S", 1>>)) }

FileJob(c, s, t, o, k) == [cmd |-> c, srcs |-> s, dest |-> t, opts |-> o, backup |-> k]
MvJobs ==
  {FileJob("mv", s, t, o, "none") :
     s \in {<<a>>, <<da>>, <<e>>, <<a, db>>, <<ea, a>>, <<no, b>>, <<a, b>>},
     t \in {a, b, d, m, ma, e, aT},
     o \in {{}, {"b"}, {"n"}, {"u"}, {"f"}, {"i"}, {"b", "i"}, {"T"}, {"b", "T"}, {"n", "f"}}}
CpJobs ==
  {FileJob("cp", s, t, o, k) :
     s \in {<<a>>, <<e>>, <<a, db>>, <<no, b>>, <<aT>>}, t \in {a, b, d, m, ma, es},
     o \in {{}, {"r"}, {"r", "n"}, {"u"}, {"i", "r"}, {"T", "r"}, {"p", "r"}},
     k \in {"none", "simple", "numbered", "existing"}}
RmJobs ==
  {FileJob("rm", s, NoPath, o, "none") :
     s \in {<<a>>, <<no, a>>, <<d>>, <<r>>, <<rs, rf>>, <<rsn>>, <<rn>>, << <<>> >>},
     o \in {{}, {"f"}, {"r"}, {"r", "x"}, {"r", "i"}, {"d"}}}
MCFileJobs == MvJobs \cup CpJobs \cup RmJobs

-----------------------------------------------------------------------------
MCFile == <<1, 2, 3, 4>>
MCClients ==
  [who : {"get", "put"}, script : {<<>>}]
  \cup [who : {"other"},
        script : {<<"PASV", "PASV", "RETR", "QUIT">>, <<"RETR", "NOOP">>,
                  <<"PASV", "LIST", "FEAT", "LIST">>}]

(* From Saturday 31 January, 23:58, into Sunday.                           *)
At5(h, mi, day, mo, w) == [minute |-> mi, hour |-> h, dom |-> day, month |-> mo, dow |-> w]
Midnight == <<At5(23, 59, 31, 1, 6), At5(0, 0, 1, 2, 0), At5(0, 1, 1, 2, 0)>>
MCCalendar == [n \in 0 .. 3 |-> IF n = 0 THEN At5(23, 58, 31, 1, 6) ELSE Midnight[n]]
Only(v) == {Span(v, v, 1)}
Entry(mi, h, day, mo, w) == [minute |-> mi, hour |-> h, dom |-> day, month |-> mo, dow |-> w]
Always  == Entry(Every, Every, Every, Every, Every)
Sundays == Entry({All(2)}, {All(23)}, Every, Every, Only(7))
EitherDay == Entry({Span(0, 59, 59)}, Every, Only(31), Every, {Span(5, 7, 2)})
Lists   == Entry({Span(57, 59, 2), Span(1, 3, 1)}, Every, {All(2)}, {Span(1, 2, 1)}, {Span(1, 6, 5)})
MCTables == {{Always, Sundays}, {Always, EitherDay, Lists}}

MCLogLines == <<1, 2, 1, 3, 2, 4, 1>>

ShellJob(o, s) == [op |-> o, names |-> s]
MCShellJobs ==
  {ShellJob("add", <<"x", "y", "x">>), ShellJob("add", <<"a", "y">>), ShellJob("remove", <<"b", "x">>)}
MCListed == <<"a", "b", "c">>

-----------------------------------------------------------------------------
(* Archives: trees of a directory or file a, with b, c and d below it, and *)
(* o and p where others are unpacked.                                      *)
MCOrder == <<"a", "b", "c", "d", "h", "l", "n", "o", "p">>
Node1 == FileNode(TRUE, <<1, 2, 3, 4, 5>>)
Node2 == FileNode(FALSE, <<6, 7>>)
PipeNode == Node("pipe", TRUE, <<>>, <<>>)
LinkTo(to) == Node("link", TRUE, <<>>, to)
Root(node) == <<>> :> node
PackedTrees ==
  {Root(DirNode(TRUE)) @@ (<<"a">> :> x) @@ (<<"d">> :> y) : x \in {Node1, Node2, PipeNode}, y \in {Node2, LinkTo(<<"a">>)}}
  \cup {Root(DirNode(TRUE)) @@ (<<"a">> :> DirNode(w)) @@ (<<"a", "b">> :> x) @@ (<<"a", "c">> :> y) @@ (<<"d">> :> z) :
          w \in BOOLEAN, x, y \in {Node1, Node2, DirNode(TRUE), PipeNode, LinkTo(<<"c">>)}, z \in {Node2, DirNode(FALSE)}}
  \cup {Root(DirNode(TRUE)) @@ (<<"a">> :> DirNode(TRUE)) @@ (<<"a", "b">> :> DirNode(w)) @@ (<<"a", "b", "c">> :> x) : 
          w \in BOOLEAN, x \in {Node1, DirNode(FALSE), LinkTo(<<"..", "d">>)}}
Places == {Root(DirNode(TRUE)), Root(DirNode(FALSE)),
           Root(DirNode(TRUE)) @@ (<<"o">> :> DirNode(TRUE)) @@ (<<"o", "a">> :> FileNode(TRUE, <<8>>)) @@ (<<"p">> :> Node2)}
MCTarJobs ==
  [tree : PackedTrees, base : {<<>>}, paths : {<<>>, << <<"a">> >>, << <<".">> >>, << <<"d">>, <<"a", "b">> >>},
   file : {<<"o">>, <<"a", "c">>}, dest : {<<>>, <<"o">>, <<"p", "o">>}, there : Places]
  \cup [tree : PackedTrees, base : {<<"a">>}, paths : {<< <<"b">> >>, << <<".">> >>}, file : {<<"o">>}, dest : {<<"o">>}, there : Places]
Packed(name, node) == Item(name, node)
Names == {<<"a">>, <<".", "a">>, <<"b", "c">>, <<"b", "..", "a">>, <<"..", "p">>, <<"b">>}
MCEntries == {Packed(n, node) : n \in Names, node \in {FileNode(TRUE, <<1>>), FileNode(TRUE, <<2>>), DirNode(TRUE)}}
MCUnpackJobs ==
  [how : {"tar", "unzip", "dpkg"}, entries : {<<x, y>> : x, y \in MCEntries}, dest : {<<"o">>, <<>>}, there : Places]
  \cup [how : {"dpkg"}, dest : {<<"o">>}, there : Places,
        entries : {<<Packed(<<"a">>, Node1), Packed(n, Node(k, TRUE, <<>>, to)), Packed(<<"d">>, PipeNode)>> :
                     n \in {<<"a">>, <<"b">>, <<"b", "c">>}, k \in {"link", "hard"}, to \in {<<"a">>, <<"..", "a">>, <<"..", "..", "p">>, <<"/", "p">>, <<"c">>}}]
MCControlJobs ==
  {[entries |-> <<x, y, z>>] : x, y, z \in {Packed(n, FileNode(TRUE, <<v>>)) : n \in {<<"a">>, <<"b">>}, v \in 1 .. 2} \cup {Packed(<<>>, DirNode(TRUE))}}
MCCpioJobs ==
  [tree : {t \in PackedTrees : <<"a", "b">> \in DOMAIN t}, names : {<< <<"a">>, <<"a", "b">> >>, << <<"a", "b">>, <<>>, <<"a">> >>, << <<"a", "b">>, <<"a", "c">> >>, << <<"d">>, <<"a", "c">> >>},
   cut : {11, 12, 17, 20, 30, 32, 33, 40, 99}, there : {Root(DirNode(TRUE)), Root(DirNode(TRUE)) @@ (<<"d">> :> FileNode(TRUE, <<9>>))}]
Member(n, v, gone) == [name |-> n, data |-> v, missing |-> gone]
Members == {Member(n, v, FALSE) : n \in {<<"x">>, <<"x", "y">>, <<"x", "y", "x">>}, v \in {<<>>, <<1>>, <<2, 3>>}} \cup {Member(<<"y">>, <<>>, TRUE)}
MCArJobs == [files : UNION {[1 .. n -> Members] : n \in 0 .. 3}, cut : {0, 1, 3, 4, 6, 7, 99}, wanted : {{}, {<<"x", "y">>}}]
Chunks == {[data |-> v, shrinks |-> s] : v \in {<<1, 2>>, <<2, 2, 3>>}, s \in BOOLEAN} \cup {[data |-> <<4>>, shrinks |-> FALSE]}
MCLzopJobs ==
  [chunks : UNION {[1 .. n -> Chunks] : n \in 0 .. 3}, fault : [kind : {"cut", "flip"}, at : 0 .. 20] \cup {[kind |-> "none", at |-> 0]}]
Short == UNION {[1 .. n -> {"x"}] : n \in 0 .. 2}
MCRpmJobs ==
  [base : UNION {[1 .. n -> Short] : n \in 0 .. 3}, dirs : {<< <<"u">>, <<"v", "v">> >>, << <<>>, <<"w">> >>}, index : [1 .. 3 -> 0 .. 1]]
MCMimeJobs == [files : UNION {[1 .. n -> {[i \in 1 .. k |-> i] : k \in 0 .. 7}] : n \in 1 .. 3}]

-----------------------------------------------------------------------------
(* Trees with links and permissions: a has the file b, the directory c     *)
(* with the file d, and the link l; d is a file, o a directory with h, a   *)
(* second name of b.                                                       *)
M700 == ModeOf(Rwx, {}, {})
M311 == ModeOf({"w", "x"}, {"x"}, {"x"})
Planted(by, rights, u, to) ==
  [me |-> by,
   at |-> (<<>> :> 1) @@ (<<"a">> :> 2) @@ (<<"a", "b">> :> 3) @@ (<<"a", "c">> :> 4) @@ (<<"a", "c", "d">> :> 5)
          @@ (<<"a", "l">> :> 8) @@ (<<"d">> :> 6) @@ (<<"o">> :> 7) @@ (<<"o", "h">> :> 3),
   node |-> (1 :> INode("dir", M755, 1, <<>>, <<>>)) @@ (2 :> INode("dir", M755, 1, <<>>, <<>>))
            @@ (3 :> INode("file", M644, 1, <<1, 2, 3>>, <<>>)) @@ (4 :> INode("dir", rights, 1, <<>>, <<>>))
            @@ (5 :> INode("file", M755 \cup {<<"u", "s">>}, u, <<4>>, <<>>)) @@ (6 :> [INode("file", M700, 1, <<5, 6>>, <<>>) EXCEPT !.gid = 2, !.atime = 2, !.mtime = 1])
            @@ (7 :> INode("dir", M755, 1, <<>>, <<>>)) @@ (8 :> INode("link", Perms(Who, Rwx), 1, <<>>, to))]
ToFile == <<"..", "d">>
ToDir  == <<"/", "o">>
ToNone == <<"n">>
ManyFiles == {Planted(by, rights, u, to) : by \in {0, 1}, rights \in {M755, M311}, u \in {1, 2}, to \in {ToFile, ToDir, ToNone}}
FewFiles == {Planted(by, M755, u, to) : by \in {0, 1}, u \in {1, 2}, to \in {ToFile, ToDir, ToNone}}
Octal(bits) == [kind |-> "octal", bits |-> bits]
Clause(ws, op, ps) == [who |-> ws, op |-> op, perms |-> ps]
Symbolic(cs) == [kind |-> "symbolic", clauses |-> cs]
MCChmodJobs ==
  [t : ManyFiles, deep : BOOLEAN, paths : {<< <<"a">> >>, << <<"n">>, <<"d">>, <<"a", "l">> >>, << <<"o", "h">>, <<"a">> >>},
   mode : {Octal(M700), Octal({}), Symbolic(<<Clause({}, "-", <<"x">>)>>), Symbolic(<<Clause({"u"}, "=", <<"r", "?">>)>>),
           Symbolic(<<Clause({"g", "o"}, "+", <<"X", "w">>), Clause({"u"}, "-", <<"r", "s">>)>>),
           Symbolic(<<Clause({"u", "g"}, "=", <<"s", "t", "X">>), Clause({}, "+", <<"t", "r">>)>>)}]
MCOwnerJobs ==
  [t : ManyFiles, cmd : {"chown"}, deep : BOOLEAN, paths : {<< <<"a">> >>, << <<"n">>, <<"d">>, <<"o">> >>}, uid : {-1, 1, 2}, gid : {-1, 1, 2}]
  \cup [t : ManyFiles, cmd : {"chgrp"}, deep : BOOLEAN, paths : {<< <<"a">> >>, << <<"n">>, <<"d">>, <<"o">> >>}, uid : {-1}, gid : {1, 2}]
MCLnJobs ==
  [t : FewFiles, targets : {<< <<"d">> >>, << <<"a", "b">>, <<"a", "n">> >>, << <<"a", "c", "..", "c", "d">>, <<"d">> >>, << <<"o">>, <<"a", "l">> >>},
   dest : {NoDest, <<"o">>, <<"a", "l">>, <<"a", "b">>, <<"d">>, <<"o", "p">>}, opts : {{}, {"s"}, {"f"}, {"s", "f"}, {"s", "r", "f"}, {"t", "s", "r"}, {"T", "s", "f"}}]
MCInstallJobs ==
  [t : {Planted(by, M755, 2, to) : by \in {0, 1}, to \in {ToFile, ToDir}}, srcs : {<< <<"d">> >>, << <<"a", "b">>, <<"n">>, <<"d">> >>, << <<"a", "c", "d">>, <<"a", "l">> >>},
   dest : {<<"o">>, <<"a", "b">>, <<"o", "h">>, <<"p", "c">>, <<"d">>}, opts : {{}, {"D", "p"}, {"t"}, {"T"}, {"d"}}, mode : {M755, M700 \cup {<<"u", "s">>}},
   backup : {"none", "simple", "numbered", "existing"}, owner : {-1, 2}]
MCLinkCpJobs ==
  [t : FewFiles, srcs : {<< <<"a">> >>, << <<"a", "l">> >>, << <<"d">>, <<"a", "b">> >>, << <<"a", "c">> >>, << <<"a", "c", "d">> >>}, dest : {<<"a", "c">>, <<"a">>, <<"p">>, <<"o">>, <<"o", "h">>, <<"a", "l">>, <<"d">>},
   opts : {{}, {"r"}, {"r", "f", "p"}, {"r", "parents"}}, deref : {"never", "always", "cmdline", "default"}]
MCTouchJobs ==
  [t : FewFiles, paths : {<< <<"d">> >>, << <<"a", "l">>, <<"p">> >>, << <<"o", "h">>, <<"a", "b", "n">>, <<"a", "n">> >>, << <<"a", "c", "d">>, <<"a", "l">> >>},
   opts : {{}, {"c"}, {"a"}, {"m"}, {"h"}, {"a", "m"}, {"m", "h", "c"}}, date : {-1, 4}, ref : {<<-1, -1>>, <<6, 5>>}]
MCSizeJobs ==
  [t : FewFiles, paths : {<< <<"d">> >>, << <<"a", "b">>, <<"o", "h">> >>, << <<"a", "n">>, <<"a", "l">> >>, << <<"o">>, <<"d">> >>}, opts : {{}, {"c"}},
   size : [sign : {"", "+", "-"}, n : {0, 1, 2, 9}, unit : {1, 4, 64}]]
MCShredJobs ==
  [t : FewFiles, paths : {<< <<"d">> >>, << <<"a", "b">>, <<"o", "h">> >>, << <<"o">>, <<"a", "l">>, <<"d">> >>, << <<"a", "c", "d">>, <<"n">>, <<"d">> >>}, opts : SUBSET {"u", "z"}, passes : 0 .. 2]
MCDirJobs ==
  [t : FewFiles, cmd : {"mkdir", "rmdir"}, deep : BOOLEAN, mode : {M700, {}, ModeOf(Rwx, Rwx, {})}, paths : {<< <<"p", "b", "c">> >>, << <<"p">>, <<"p", "b">>, <<"a", "l">> >>, << <<"a", "l", "p">>, <<"d">> >>, << <<"a", "c">> >>}]
  \cup [t : {[Planted(by, M755, 1, ToDir) EXCEPT !.at = (<<>> :> 1) @@ (<<"a">> :> 2) @@ (<<"a", "c">> :> 4) @@ (<<"a", "l">> :> 8) @@ (<<"o">> :> 7)] : by \in {0, 2}},
        cmd : {"rmdir"}, deep : BOOLEAN, mode : {M700}, paths : {<< <<"a", "c">> >>, << <<"a", "l">>, <<"o">> >>, << <<"a", "c">>, <<"a", "l">>, <<"a">> >>}]
MCTempJobs ==
  [t : FewFiles, dir : {<<>>, <<"a">>, <<"a", "l">>, <<"n">>, <<"d">>}, draws : {<<"d", "n">>, <<"l", "b", "p">>, <<"d", "d">>}, directory : BOOLEAN, dry : BOOLEAN]
Row(p, type, minor, start, inc, count) == [path |-> p, type |-> type, mode |-> M644, major |-> 1, minor |-> minor, start |-> start, inc |-> inc, count |-> count]
MCDeviceJobs ==
  [t : FewFiles, root : {<<>>, <<"o">>, <<"n", "n">>, <<"d">>},
   rows : {<<Row(<<"p">>, "dir", 0, 0, 0, 0), Row(<<"p", "d">>, "char", 1, 0, 1, 3)>>, <<Row(<<"d">>, "char", 1, 0, 0, 2), Row(<<"d">>, "block", 1, 0, 0, 0)>>,
           <<Row(<<"p", "b">>, "block", 15, 2, 2, 3), Row(<<"b">>, "file", 0, 0, 0, 0), Row(<<"c">>, "pipe", 0, 0, 0, 0)>>}]
TeeOut == [opens : {TRUE}, breaks : {0, 1, 2}, pipe : BOOLEAN] \cup [opens : {FALSE}, breaks : {0}, pipe : {FALSE}]
MCTeeJobs == [outs : UNION {[1 .. n -> TeeOut] : n \in 1 .. 3}, chunks : {0, 3}, mode : {"warn", "warn-nopipe", "exit", "exit-nopipe", "none"}]
-----------------------------------------------------------------------------
(* What is listed: the planted files; and a directory x with names of      *)
(* every sort, two of one size and one time, and a pipe.                   *)
MCHidden == {"h"}
MCCharsOf == ("a" :> <<10>>) @@ ("b" :> <<11, 1, 0>>) @@ ("c" :> <<11, 9>>) @@ ("d" :> <<11, 0, 9>>) @@ ("l" :> <<11>>)
MCExtensionOf == ("a" :> 2) @@ ("b" :> 1) @@ ("c" :> 2)
Timed(node, time) == [node EXCEPT !.mtime = time]
Sorts(by, rights) ==
  [me |-> by,
   at |-> (<<>> :> 1) @@ (<<"a">> :> 2) @@ (<<"a", "a">> :> 3) @@ (<<"a", "b">> :> 4) @@ (<<"a", "c">> :> 5) @@ (<<"a", "d">> :> 6)
          @@ (<<"a", "h">> :> 7) @@ (<<"a", "h", "d">> :> 8) @@ (<<"a", "p">> :> 9) @@ (<<"a", "d", "h">> :> 3) @@ (<<"a", "d", "n">> :> 10),
   node |-> (1 :> INode("dir", M755, 1, <<>>, <<>>)) @@ (2 :> INode("dir", M755, 1, <<>>, <<>>)) @@ (3 :> Timed(INode("file", M755, 1, <<1, 2>>, <<>>), 2))
            @@ (4 :> Timed(INode("file", M644, 1, <<3, 4, 5>>, <<>>), 2)) @@ (5 :> Timed(INode("file", M700, 2, <<1, 2>>, <<>>), 1))
            @@ (6 :> INode("dir", rights, 1, <<>>, <<>>)) @@ (7 :> INode("dir", M755, 2, <<>>, <<>>)) @@ (8 :> INode("file", M644, 1, <<>>, <<>>))
            @@ (9 :> INode("pipe", M755, 1, <<>>, <<>>)) @@ (10 :> INode("dir", M755, 1, <<>>, <<>>))]
M544 == ModeOf(Rx, {"r"}, {"r"})
LookedAt == {Planted(1, M755, 1, ToFile), Planted(1, M311, 2, ToDir), Planted(0, M755, 1, ToNone), Sorts(1, M755), Sorts(2, M544), Sorts(2, M311)}
Seen == {Planted(1, M755, 1, ToDir), Sorts(1, M755), Sorts(2, M311)}
LsJob(t, o, s, units) == [t |-> t, paths |-> <<<<"a">>>>, opts |-> o, sort |-> s, time |-> "mtime", style |-> "classify", block |-> units, ignore |-> {}, hide |-> {}]
MCLsJobs ==
  {LsJob(t, o, s, 0) : t \in LookedAt, s \in {"none", "name", "size", "time", "version", "extension"}, o \in {{}, {"A", "groupDirs"}, {"a", "R"}}}
  \cup [t : LookedAt, paths : {<<<<>>>>, <<<<"d">>, <<"a", "l">>, <<"o">>>>, <<<<"n">>, <<"a", "c">>, <<"a">>>>}, opts : {{}, {"R"}, {"l", "A", "R"}, {"d", "l"}}, sort : {"name"},
        time : {"mtime"}, style : {"none"}, block : {2}, ignore : {{}, {"b"}}, hide : {{"d"}}]
MCDuJobs ==
  [t : LookedAt, paths : {<<<<"a">>>>, <<<<>>>>, <<<<"a", "b">>, <<"a">>>>}, opts : {{}, {"a", "c"}, {"s", "b"}, {"x", "a"}}, max : {-1, 0, 1}, exclude : {{}, {"b"}}, mounted : {{<<"a", "c">>, <<"a", "d">>}}]
MCFindJobs ==
  [t : LookedAt, paths : {<<<<"a">>>>, <<<<>>>>, <<<<"a", "l">>>>, <<<<"n">>, <<"a">>>>}, min : {0, 1}, max : {-1, 0, 1, 2}, name : {{}, {"d", "h"}}, type : {"", "dir", "file"}, empty : BOOLEAN]
MCTreeJobs == [t : LookedAt, paths : {<<<<"a">>>>, <<<<>>>>, <<<<"a", "l">>, <<"a">>>>}, opts : SUBSET {"a", "d"}, max : {-1, 1, 2}]
PathOperands == {<<<<"a", "l">>>>, <<<<"a", "l", "..", "d">>>>, <<<<"a", "l", "h">>, <<"d">>>>, <<<<"a", "c", "n", "p">>>>, <<<<"a", "l", "n">>, <<"..">>>>, <<<<"a", "c", "d">>, <<"o", ".", "h">>>>}
PathFiles == {Planted(1, M755, 1, to) : to \in {ToFile, ToDir, ToNone}} \cup {Planted(2, ModeOf(Rwx, {}, {}), 1, ToDir)}
MCPathJobs ==
  [t : PathFiles, cmd : {"readlink"}, paths : PathOperands, how : {"plain", "f", "e", "m"}, to : {NoDir}, base : {NoDir}]
  \cup [t : PathFiles, cmd : {"realpath"}, paths : PathOperands, how : {"physical", "missing", "lexical"}, to : {NoDir, <<"a">>, <<"a", "l">>}, base : {NoDir, <<>>, <<"a">>, <<"n">>}]
InPath(p, absolute) == [dir |-> p, abs |-> absolute]
MCWhichJobs ==
  [t : {Planted(by, rights, u, to) : by \in {0, 1, 2}, rights \in {M755, M700}, u \in {1, 2}, to \in {ToFile, ToDir}}, name : {<<"d">>, <<"h">>, <<"l">>},
   path : {<<InPath(<<"o">>, TRUE), InPath(<<"a", "c">>, TRUE), InPath(<<"a">>, TRUE), InPath(<<>>, TRUE)>>, <<InPath(<<>>, FALSE), InPath(<<"a", "c">>, TRUE)>>, <<InPath(<<"n">>, TRUE), InPath(<<"a", "c">>, TRUE), InPath(<<>>, FALSE)>>},
   direct : {FALSE}, all : BOOLEAN]
  \cup [t : FewFiles, name : {<<"a", "c", "d">>, <<"a", "l">>}, path : {<<>>}, direct : {TRUE}, all : BOOLEAN]
MCMountJobs == [t : PathFiles, p : {<<>>, <<"a">>, <<"a", "c">>, <<"a", "l">>, <<"a", "c", "d">>, <<"a", "c", "..">>, <<"n">>}, slash : BOOLEAN, mounted : {{<<"a", "c">>, <<"o">>}, {<<"a">>}}]
MCStatJobs ==
  [t : Seen \cup PathFiles, paths : {<<<<"a", "l">>, <<"d">>>>, <<<<"a", "b">>, <<"o", "h">>, <<"n">>>>, <<<<"a", "a">>, <<"a", "d", "h">>, <<"a", "p">>>>}, follow : BOOLEAN,
   fields : {<<"i", "h">>, <<"n", "F", "s", "a", "A">>, <<"u", "g", "X", "Y", "?">>}]
Fs(bsize, blocks, free, avail, files, ffree) == [bsize |-> bsize, blocks |-> blocks, free |-> free, avail |-> avail, files |-> files, ffree |-> ffree, type |-> "ext"]
MountAt(source, target, type, s) == [source |-> source, target |-> target, type |-> type, stat |-> s]
SmallFs == Fs(4, 7, 3, 2, 5, 1)
FullFs  == Fs(2, 9, 0, 0, 3, 0)
HugeFs  == Fs(8, 900, 500, 400, 9, 2)
NoFs    == Fs(4, 0, 0, 0, 0, 0)
MountLists == {<<MountAt("r", <<>>, "ext", s), MountAt("p", <<"a">>, "proc", NoFs), MountAt("c", <<"a", "c">>, "tmpfs", u), MountAt("o", <<"o">>, "ext", FullFs), MountAt("m", <<"a", "c">>, "ext", SmallFs)>> : s, u \in {SmallFs, FullFs, HugeFs}}
OperandAt(p, absolute) == [p |-> p, abs |-> absolute]
MCDfJobs ==
  [t : PathFiles, mounts : MountLists, readable : BOOLEAN, opts : {{}, {"a"}, {"total"}, {"a", "total"}}, types : {{}, {"ext"}}, block : {0, 1},
   operands : {<<>>, <<OperandAt(<<"a", "c", "d">>, TRUE), OperandAt(<<"n">>, TRUE)>>, <<OperandAt(<<"a", "c">>, FALSE), OperandAt(<<"a", "l">>, TRUE)>>, <<OperandAt(<<"a">>, TRUE), OperandAt(<<"a", "c">>, TRUE), OperandAt(<<"o", "h">>, TRUE)>>}]
Copies(by, times, to) ==
  [me |-> by,
   at |-> (<<>> :> 1) @@ (<<"a">> :> 2) @@ (<<"a", "b">> :> 3) @@ (<<"a", "c">> :> 4) @@ (<<"d">> :> 5) @@ (<<"o">> :> 6) @@ (<<"o", "h">> :> 7) @@ (<<"o", "n">> :> 8)
          @@ (IF to = <<>> THEN <<"o", "p">> :> 3 ELSE <<"a", "a">> :> 9),
   node |-> (1 :> INode("dir", M755, 1, <<>>, <<>>)) @@ (2 :> INode("dir", M755, 1, <<>>, <<>>)) @@ (3 :> Timed(INode("file", M644, 1, <<1, 2>>, <<>>), times[1]))
            @@ (4 :> Timed(INode("file", M644, 1, <<1, 2>>, <<>>), times[2])) @@ (5 :> Timed(INode("file", M644, 1, <<1, 2>>, <<>>), times[3]))
            @@ (6 :> INode("dir", M755, by, <<>>, <<>>)) @@ (7 :> Timed(INode("file", M700, 1, <<3>>, <<>>), times[1])) @@ (8 :> Timed(INode("file", M644, 1, <<3>>, <<>>), times[2]))
            @@ (IF to = <<>> THEN <<>> ELSE 9 :> INode("link", Perms(Who, Rwx), 1, <<>>, to))]
Changed1(t) == [t EXCEPT !.node = [n \in DOMAIN @ |-> IF n = 4 THEN [@[n] EXCEPT !.data = <<7>>, !.mtime = 5] ELSE @[n]]]
Later(t, which) == CASE which = "no" -> <<>> [] which = "same" -> <<t>> [] which = "changed" -> <<Changed1(t)>>
SddfJob(t, dirs, o, said, later) == [t |-> t, dirs |-> dirs, abs |-> TRUE, important |-> {"o"}, opts |-> o, answers |-> said, later |-> later]
MCSddfJobs ==
  {[SddfJob(Copies(by, times, to), dirs, o, <<TRUE, FALSE, TRUE>>, <<>>) EXCEPT !.abs = absolute] :
     by \in {1, 2}, times \in {<<1, 2, 3>>, <<2, 2, 1>>, <<-2, -1, -1>>}, to \in {<<>>, <<"b">>, <<"..", "o">>, ToNone},
     dirs \in {<<<<"a">>>>, <<<<>>>>, <<<<"o">>, <<"n">>, <<"a">>>>, <<<<"d">>, <<"a">>>>}, o \in {{"d"}, {"n"}, {"d", "i"}}, absolute \in BOOLEAN}
  \cup {SddfJob(Copies(1, times, to), dirs, o, <<FALSE, TRUE>>, Later(Copies(1, times, to), later)) :
          times \in {<<1, 2, 3>>, <<2, 2, 1>>}, to \in {<<>>, <<"b">>}, dirs \in {<<<<"a">>>>, <<<<>>>>, <<<<"a">>, <<"o">>>>}, o \in {{}, {"i"}},
          later \in {"no", "same", "changed"}}
MCVersions == {<<>>, <<0>>, <<1>>, <<0, 1>>, <<1, 0>>, <<9>>, <<10>>, <<10, 2>>, <<10, 1, 0>>, <<10, 0, 2, 10>>, <<10, 2, 11>>}
=============================================================================
