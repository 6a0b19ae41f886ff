------------------------------- MODULE RWLock -------------------------------
(* What an advisory lock promises to those who hold it: many readers, or    *)
(* one writer.                                                              *)
EXTENDS Naturals

CONSTANT Users
VARIABLES readers, writers

Init == readers = {} /\ writers = {}

EnterRead(u) == /\ writers = {} /\ readers' = readers \cup {u}
                /\ UNCHANGED writers
EnterWrite(u) == /\ readers = {} /\ writers = {} /\ writers' = {u}
                 /\ UNCHANGED readers
Leave(u) == /\ u \in readers \cup writers
            /\ readers' = readers \ {u} /\ writers' = writers \ {u}

Next == \E u \in Users : EnterRead(u) \/ EnterWrite(u) \/ Leave(u)
Spec == Init /\ [][Next]_<<readers, writers>>
=============================================================================
