----------------------------- MODULE Popmaildir -----------------------------
(***************************************************************************)
(* popmaildir: the messages of a Maildir are moved to a directory, or      *)
(* printed and removed, one by one.  Mail arrives meanwhile, standard      *)
(* output may not take what is written, a message cannot be moved or read, *)
(* and the program may be killed and run again.                            *)
(***************************************************************************)
EXTENDS Naturals, SequencesExt

CONSTANTS
  MaxMail,      \* messages are numbered in the order of their names
  MaxPops       \* how often popmaildir is run

ASSUME PopmaildirAssumption == MaxMail \in Nat /\ MaxPops \in Nat

VARIABLES
  arrived,   \* the messages that have come
  inNew,     \* those in new/
  moved,     \* in the destination
  mailout,   \* written to standard output, in that order
  unprinted, \* messages standard output did not take
  pops,      \* how often popmaildir was run
  popmode,   \* "move", "print" or "keep": -d, neither, or -k
  batch,     \* the messages listMessages returned
  names,     \* of them, in their order, those still to be processed
  pop,       \* "idle", "next" or "remove"
  popfail    \* the run has failed

popvars == <<arrived, inNew, moved, mailout, unprinted, pops, popmode, batch, names, pop, popfail>>

Mail == 1 .. MaxMail
PopInit ==
  /\ arrived = {} /\ inNew = {} /\ moved = {} /\ mailout = <<>> /\ unprinted = {} /\ pops = 0
  /\ popmode = "move" /\ batch = {} /\ names = <<>> /\ pop = "idle" /\ popfail = FALSE

MailArrives ==
  /\ \E m \in Mail \ arrived : inNew' = inNew \cup {m} /\ arrived' = arrived \cup {m}
  /\ UNCHANGED <<batch, moved, mailout, unprinted, pops, popmode, names, pop, popfail>>

(* What there is, in the order of the names.                               *)
ListMessages ==
  {s \in [1 .. Cardinality(inNew) -> inNew] :
     ToSet(s) = inNew /\ \A i, k \in DOMAIN s : i < k => s[i] < s[k]}

PopStart ==
  /\ pop = "idle" /\ pops < MaxPops /\ pops' = pops + 1 /\ pop' = "next"
  /\ popmode' \in {"move", "print", "keep"} /\ popfail' = FALSE
  /\ names' \in ListMessages /\ batch' = inNew
  /\ UNCHANGED <<arrived, inNew, moved, mailout, unprinted>>

Working == pop = "next" /\ names # <<>>
Message == Head(names)
OneDone == names' = Tail(names) /\ pop' = "next"

(* A message that cannot be moved or read is left where it is.             *)
CannotTake ==
  /\ Working /\ OneDone /\ popfail' = TRUE
  /\ UNCHANGED <<arrived, batch, inNew, moved, mailout, unprinted, pops, popmode>>

MoveMessage ==
  /\ Working /\ popmode = "move"
  /\ inNew' = inNew \ {Message} /\ moved' = moved \cup {Message} /\ OneDone
  /\ UNCHANGED <<arrived, batch, mailout, unprinted, pops, popmode, popfail>>

RemoveWhenRead ==   \* mutant: the message is removed once it is read
  /\ Working /\ popmode # "move"
  /\ inNew' = inNew \ {Message} /\ pop' = "remove"
  /\ UNCHANGED <<arrived, batch, moved, mailout, unprinted, pops, popmode, names, popfail>>

(* The write's result is not looked at.                                    *)
PrintMessage ==
  /\ Working /\ popmode # "move"
  /\ \/ mailout' = Append(mailout, Message) /\ UNCHANGED unprinted
     \/ unprinted' = unprinted \cup {Message} /\ UNCHANGED mailout
  /\ IF popmode = "keep" THEN OneDone ELSE pop' = "remove" /\ UNCHANGED names
  /\ UNCHANGED <<arrived, batch, inNew, moved, pops, popmode, popfail>>

RemoveMessage ==
  /\ pop = "remove" /\ inNew' = inNew \ {Message} /\ OneDone
  /\ UNCHANGED <<arrived, batch, moved, mailout, unprinted, pops, popmode, popfail>>
CannotRemove ==
  /\ pop = "remove" /\ OneDone /\ popfail' = TRUE
  /\ UNCHANGED <<arrived, batch, inNew, moved, mailout, unprinted, pops, popmode>>

PopEnds ==
  /\ pop = "next" /\ names = <<>> /\ pop' = "idle"
  /\ UNCHANGED <<arrived, batch, inNew, moved, mailout, unprinted, pops, popmode, names, popfail>>
PopKilled ==
  /\ pop # "idle" /\ pop' = "idle" /\ names' = <<>> /\ popfail' = TRUE
  /\ UNCHANGED <<arrived, batch, inNew, moved, mailout, unprinted, pops, popmode>>

PopNext ==
  \/ MailArrives \/ PopStart \/ CannotTake \/ MoveMessage \/ PrintMessage
  \/ RemoveMessage \/ CannotRemove \/ PopEnds \/ PopKilled
PopSpec == PopInit /\ [][PopNext]_popvars

-----------------------------------------------------------------------------
(* Properties. *)

Reached == moved \cup ToSet(mailout)

(* A message standard output does not take is lost: its write's result is  *)
(* not looked at, it is removed and the status is 0, while the help says 1 *)
(* for a message that could not be printed (popmaildir.go:41).  Of these   *)
(* messages nothing is claimed.                                            *)
Printable(M) == M \ unprinted

(* A message leaves new/ only after it was moved or printed in full,       *)
(* whatever fails and whenever popmaildir is killed.                       *)
NoMailLost == Printable(arrived) \subseteq inNew \cup Reached

(* And a run that ends with status 0 has moved or printed every message it *)
(* found, and but for -k left none of them in new/.                        *)
SuccessIsComplete ==
  pop = "idle" /\ ~popfail =>
    /\ Printable(batch) \subseteq Reached
    /\ popmode = "keep" \/ Printable(batch) \cap inNew = {}

MailKept == NoMailLost /\ SuccessIsComplete
=============================================================================
