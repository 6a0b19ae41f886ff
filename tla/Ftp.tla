--------------------------------- MODULE Ftp ---------------------------------
(***************************************************************************)
(* ftpget and ftpput against ftpd: a control connection that carries a     *)
(* command and its replies, and a data connection the client opens to a    *)
(* listener of the session.  A client that is not ftpget sends what it     *)
(* likes.  The server's process may end at any step, and then the system   *)
(* closes its connections.  Paths and directories are left out.            *)
(***************************************************************************)
EXTENDS Naturals, FiniteSets, SequencesExt

CONSTANTS
  FtpFile,      \* the blocks of the file asked for
  Clients,      \* [who, script]: "get", "put", or "other" and its commands
  CanServe      \* whether the file can be read: a set of truth values

ASSUME FtpAssumption == FtpFile \in Seq(Nat) /\ CanServe \subseteq BOOLEAN

VARIABLES
  who,         \* the client's kind
  readable,    \* the file is there
  client,      \* where the client is, from "new" to "ok" or "error"
  script,      \* the commands a client of another kind has still to send
  fetched,     \* what it has read from the data connection
  commands,    \* on their way to the server
  answers,     \* codes on their way to the client
  session,     \* "new", "serve", "accept", "send", "done", or "crashed"
  doing,       \* "RETR" or "LIST" while a transfer is on
  listeners,   \* data listeners that are open, numbered as they come
  listener,    \* the session's dataLn, 0 for none
  opened,      \* how many there have been
  dialled,     \* the listener the client's data connection is in the queue of, 0 for none
  data,        \* "none", "open" or "closed": the data connection
  pipe,        \* blocks in it
  written      \* how many blocks the server has put there

clientvars  == <<who, readable, client, script, fetched>>
wirevars    == <<commands, answers>>
sessionvars == <<session, doing, listeners, listener, opened, written>>
datavars    == <<dialled, data, pipe>>
ftpvars     == <<clientvars, wirevars, sessionvars, datavars>>

FtpInit ==
  /\ who = "other" /\ script = <<>> /\ readable = FALSE /\ client = "new" /\ fetched = <<>>
  /\ commands = <<>> /\ answers = <<>>
  /\ session = "new" /\ doing = "" /\ listeners = {} /\ listener = 0 /\ opened = 0
  /\ dialled = 0 /\ data = "none" /\ pipe = <<>> /\ written = 0

(* The client connects, and the server accepts.                            *)
FtpStart ==
  /\ client = "new" /\ client' = "greeting"
  /\ \E c \in Clients : who' = c.who /\ script' = c.script
  /\ readable' \in CanServe
  /\ UNCHANGED <<fetched, wirevars, sessionvars, datavars>>

Gone     == session \in {"done", "crashed"}
Finished == client \in {"ok", "error"}

-----------------------------------------------------------------------------
(* ftpget and ftpput: each command waits for its response, by the state.   *)

Send(cmd, at) == commands' = Append(commands, cmd) /\ client' = at
Stop(how)     == client' = how /\ UNCHANGED commands

(* The code that leads on from a state, and what is sent then.             *)
Transfer1 == IF who = "get" THEN "RETR" ELSE "STOR"
Dialogue ==
  [greeting |-> [codes |-> {220}, cmd |-> "USER"], USER |-> [codes |-> {331}, cmd |-> "PASS"],
   PASS |-> [codes |-> {230}, cmd |-> "TYPE"],     TYPE |-> [codes |-> {200}, cmd |-> "PASV"]]

Responds ==
  /\ who # "other" /\ answers # <<>> /\ answers' = Tail(answers)
  /\ LET code == Head(answers) IN
       \/ /\ client \in DOMAIN Dialogue
          /\ IF code \in Dialogue[client].codes
               THEN Send(Dialogue[client].cmd, Dialogue[client].cmd) ELSE Stop("error")
       \/ client = "PASV" /\ Stop(IF code = 227 THEN "dial" ELSE "error")
       \/ client \in {"RETR", "STOR"}
            /\ Stop(IF code \in {150, 125} THEN "data" ELSE "error")
       \/ client = "final" /\ Stop("ok")
  /\ UNCHANGED <<who, readable, script, fetched, sessionvars, datavars>>

(* The connection is lost, or the deadline has passed.                     *)
NoResponse ==
  /\ client \in DOMAIN Dialogue \cup {"PASV", "RETR", "STOR", "final"}
  /\ answers = <<>> /\ Gone /\ Stop("error")
  /\ UNCHANGED <<who, readable, script, fetched, answers, sessionvars, datavars>>

Dial ==
  /\ client = "dial"
  /\ IF listener \in listeners /\ ~Gone
       THEN dialled' = listener /\ data' = "open" /\ Send(Transfer1, Transfer1)
       ELSE Stop("error") /\ UNCHANGED <<dialled, data>>
  /\ UNCHANGED <<who, readable, script, fetched, answers, sessionvars, pipe>>

ReadData ==
  /\ client = "data" /\ pipe # <<>>
  /\ fetched' = Append(fetched, Head(pipe)) /\ pipe' = Tail(pipe)
  /\ UNCHANGED <<who, readable, client, script, wirevars, sessionvars, dialled, data>>

EndOfDataIsEnough ==   \* mutant: the last response is not waited for
  /\ client = "data" /\ pipe = <<>> /\ data = "closed" /\ Stop("ok")
  /\ UNCHANGED <<who, readable, script, fetched, answers, sessionvars, datavars>>

EndOfData ==
  /\ client = "data" /\ pipe = <<>> /\ data = "closed" /\ Stop("final")
  /\ UNCHANGED <<who, readable, script, fetched, answers, sessionvars, datavars>>

(* The data connection breaks under the client's reads.                    *)
DataBreaks ==
  /\ client = "data" /\ who = "get" /\ Stop("error") /\ data' = "closed" /\ pipe' = <<>>
  /\ UNCHANGED <<who, readable, script, fetched, answers, sessionvars, dialled>>

-----------------------------------------------------------------------------
(* Another client: it need not read a response before the next command,    *)
(* and dials as soon as a listener is announced.                           *)

OtherSends ==
  /\ who = "other" /\ client = "greeting" /\ script # <<>> /\ ~Gone
  /\ commands' = Append(commands, Head(script)) /\ script' = Tail(script)
  /\ UNCHANGED <<who, readable, client, fetched, answers, sessionvars, datavars>>
OtherDials ==
  /\ who = "other" /\ client = "greeting" /\ listener \in listeners /\ dialled # listener
  /\ dialled' = listener /\ data' = "open" /\ pipe' = <<>>
  /\ UNCHANGED <<clientvars, wirevars, sessionvars>>
OtherLeaves ==
  /\ who = "other" /\ client = "greeting" /\ (script = <<>> \/ Gone) /\ client' = "ok"
  /\ UNCHANGED <<who, readable, script, fetched, wirevars, sessionvars, datavars>>

-----------------------------------------------------------------------------
(* A session of ftpd. *)

Answer(codes) == answers' = answers \o codes

Greet ==
  /\ session = "new" /\ client # "new" /\ session' = "serve" /\ Answer(<<220>>)
  /\ UNCHANGED <<clientvars, commands, doing, listeners, listener, opened, written, datavars>>

Receives(cmd) == session = "serve" /\ commands # <<>> /\ Head(commands) = cmd /\ commands' = Tail(commands)

Plain == [USER |-> 331, PASS |-> 230, TYPE |-> 200, NOOP |-> 200, STOR |-> 550, FEAT |-> 502]
DispatchPlain ==
  /\ \E cmd \in DOMAIN Plain : Receives(cmd) /\ Answer(<<Plain[cmd]>>)
  /\ UNCHANGED <<clientvars, sessionvars, datavars>>

HandlePASV ==
  /\ Receives("PASV")
  /\ \/ /\ Answer(<<227>>) /\ opened' = opened + 1 /\ listener' = opened'
        /\ listeners' = (listeners \ {listener}) \cup {opened'}
     \/ Answer(<<425>>) /\ UNCHANGED <<opened, listener, listeners>>
  /\ UNCHANGED <<clientvars, session, doing, written, datavars>>

HandleTransfer ==
  /\ \E cmd \in {"RETR", "LIST"} :
       /\ Receives(cmd) /\ doing' = cmd
       /\ CASE cmd = "RETR" /\ ~readable -> Answer(<<550>>) /\ UNCHANGED session
            [] (cmd = "LIST" \/ readable) /\ listener = 0 -> Answer(<<425>>) /\ UNCHANGED session
            [] (cmd = "LIST" \/ readable) /\ listener # 0 -> session' = "accept" /\ UNCHANGED answers
  /\ UNCHANGED <<clientvars, listeners, listener, opened, written, datavars>>

(* acceptData, which waits until the client dials; the listener is closed. *)
AcceptData ==
  /\ session = "accept" /\ dialled = listener
  /\ session' = "send" /\ Answer(<<150>>) /\ written' = 0
  /\ listeners' = listeners \ {listener} /\ listener' = 0
  /\ UNCHANGED <<clientvars, commands, doing, opened, datavars>>

Amount == IF doing = "RETR" THEN Len(FtpFile) ELSE 1

SendData ==
  /\ session = "send" /\ written < Amount /\ written' = written + 1
  /\ pipe' = IF data = "open" THEN Append(pipe, IF doing = "RETR" THEN FtpFile[written'] ELSE 0) ELSE pipe
  /\ UNCHANGED <<clientvars, wirevars, session, doing, listeners, listener, opened, dialled, data>>

(* The write's result is not looked at; the data connection is closed      *)
(* after the reply.                                                        *)
SendDone ==
  /\ session = "send" /\ written = Amount
  /\ Answer(<<226>>) /\ session' = "serve" /\ data' = "closed"
  /\ UNCHANGED <<clientvars, commands, doing, listeners, listener, opened, written, dialled, pipe>>

HandleQUIT ==
  /\ Receives("QUIT") /\ Answer(<<221>>) /\ session' = "done"
  /\ UNCHANGED <<clientvars, doing, listeners, listener, opened, written, datavars>>

(* The control connection ends.                                            *)
ClientGone ==
  /\ session = "serve" /\ commands = <<>> /\ Finished /\ session' = "done"
  /\ UNCHANGED <<clientvars, wirevars, doing, listeners, listener, opened, written, datavars>>

Crash ==
  /\ client # "new" /\ ~Gone /\ session' = "crashed"
  /\ listeners' = {} /\ data' = IF data = "open" THEN "closed" ELSE data
  /\ UNCHANGED <<clientvars, wirevars, doing, listener, opened, written, dialled, pipe>>

-----------------------------------------------------------------------------
ClientStep ==
  \/ Responds \/ NoResponse \/ Dial \/ ReadData \/ EndOfData
  \/ OtherSends \/ OtherDials \/ OtherLeaves
SessionStep ==
  \/ Greet \/ DispatchPlain \/ HandlePASV \/ HandleTransfer \/ AcceptData \/ SendData
  \/ SendDone \/ HandleQUIT \/ ClientGone
FtpNext == FtpStart \/ ClientStep \/ SessionStep \/ DataBreaks \/ Crash

(* Both sides are processes that run until they have ended.                *)
FtpFairness == WF_ftpvars(ClientStep) /\ WF_ftpvars(SessionStep)
FtpSpec == FtpInit /\ [][FtpNext]_ftpvars /\ FtpFairness

-----------------------------------------------------------------------------
(* Properties. *)

Get == INSTANCE FileTransfer WITH
  File <- FtpFile, got <- fetched,
  outcome <- CASE client = "new" -> "idle"
               [] client # "new" /\ ~Finished -> "open"
               [] client = "ok" /\ who # "other" -> "received"
               [] client = "error" \/ (client = "ok" /\ who = "other") -> "failed"

(* ftpget with ftpd implements FileTransfer, although the server may end   *)
(* and the connection break at any step: exit status 0 says that the whole *)
(* file was fetched, and it comes to an end.  Other clients count as       *)
(* failing, and ftpput fails, as ftpd takes no files.                      *)
FetchesFile == Get!Spec

(* A session has one data listener at most.                                *)
OneListener == Cardinality(listeners) <= 1

(* A session whose client is gone ends, unless the client asked for a      *)
(* transfer and never dialled.                                             *)
SessionEnds == Finished ~> (Gone \/ (session = "accept" /\ dialled # listener))

(* A session's listeners and the session itself do not pile up.            *)
SessionIsSound == []OneListener /\ SessionEnds

(* Client and session: the file arrives or the client knows, both end.     *)
FtpServes == FetchesFile /\ SessionIsSound
=============================================================================
