----------------------------- MODULE Passwords -----------------------------
(* The password fields of /etc/shadow and what passwd makes of them. *)
EXTENDS Naturals, Sequences

CONSTANTS
  Names,   \* user names
  Hashes,  \* crypt(3) hashes
  NoHash   \* the empty hash, never produced by crypt

ASSUME HashAssumption == NoHash \notin Hashes

(* A field is a hash, with or without the "!" that locks the account.      *)
Password == [locked : BOOLEAN, hash : Hashes \cup {NoHash}]
ShadowDB == [Names -> Seq(Password)]
Ops      == {"set", "lock", "unlock", "delete"}

HasLine(db, n) == db[n] # <<>>

(* What passwd makes of a password field: -l adds the "!" at most once, -u *)
(* takes it away, -d empties the field, no option stores the new hash.     *)
Changed(old, op, new) ==
  CASE op = "lock"   -> [old EXCEPT !.locked = TRUE]
    [] op = "unlock" -> [old EXCEPT !.locked = FALSE]
    [] op = "delete" -> [locked |-> FALSE, hash |-> NoHash]
    [] op = "set"    -> new

(* Authentication looks the user's first line up; an empty or a locked     *)
(* field never matches.                                                    *)
VerifyHash(field, h) == ~field.locked /\ field.hash # NoHash /\ field.hash = h
Authenticates(db, n, h) == HasLine(db, n) /\ VerifyHash(db[n][1], h)

(* passwd edits the first line of the user. *)
ChangeFirst(db, n, op, new) == [db EXCEPT ![n][1] = Changed(@, op, new)]
=============================================================================
