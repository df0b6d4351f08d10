----------------------------- MODULE PasswdFile -----------------------------
(***************************************************************************)
(* What the regeneration promises of ftpd.passwd, without files or         *)
(* handlers.                                                               *)
(*                                                                         *)
(* accounts: a line for each account of the database; table: those of the  *)
(* enabled ones.  memory: the line of one account, as a writer saw it.     *)
(* offers: what a writer has read of the table and not yet published; a    *)
(* set of at most one.  file: what ProFTPd finds.  A writer publishes at   *)
(* once, and wholly, what it has read itself, in its own time; or it gives *)
(* up.  What it reads is the table of that moment, where a line of it may  *)
(* still be the one in its memory.  Two writers with offers can break the  *)
(* promise, as they share one temporary file: from then on the file holds  *)
(* anything.                                                               *)
(***************************************************************************)
CONSTANTS Writers, Entries

VARIABLES accounts, table, memory, offers, file, broken

Whole(t)   == [whole |-> TRUE, entries |-> t]
Contents   == [whole : BOOLEAN, entries : SUBSET Entries]
NamesIn(t) == {e[1] : e \in t}
Nothing    == [w \in Writers |-> {}]

Init ==
    /\ accounts \in SUBSET Entries /\ table \in SUBSET accounts
    /\ file = Whole(table)
    /\ memory = Nothing /\ offers = Nothing
    /\ broken = FALSE

Change ==
    /\ accounts' \in SUBSET Entries /\ table' \in SUBSET accounts'
    /\ UNCHANGED <<memory, offers, file, broken>>

Remember(w) ==
    /\ \E e \in accounts : memory' = [memory EXCEPT ![w] = {e}]
    /\ UNCHANGED <<accounts, table, offers, file, broken>>

Read(w) ==
    /\ offers[w] = {}
    /\ \E t \in SUBSET (table \cup memory[w]) :
         NamesIn(t) = NamesIn(table) /\ offers' = [offers EXCEPT ![w] = {t}]
    /\ memory' = [memory EXCEPT ![w] = {}]
    /\ UNCHANGED <<accounts, table, file, broken>>

Drop(ws) ==
    /\ memory' = [w \in Writers |-> IF w \in ws THEN {} ELSE memory[w]]
    /\ offers' = [w \in Writers |-> IF w \in ws THEN {} ELSE offers[w]]

Publish(w) ==
    /\ \E t \in offers[w] : file' = Whole(t)
    /\ Drop({w})
    /\ UNCHANGED <<accounts, table, broken>>

GiveUp(ws) ==
    /\ Drop(ws)
    /\ UNCHANGED <<accounts, table, file, broken>>

Break ==
    /\ \E v, w \in Writers : v # w /\ offers[v] # {} /\ offers[w] # {}
    /\ broken' = TRUE
    /\ UNCHANGED <<accounts, table, memory, offers, file>>

\* A broken file: whatever two writers made of it.
Garble(ws) ==
    /\ broken
    /\ file' \in Contents
    /\ Drop(ws)
    /\ UNCHANGED <<accounts, table, broken>>

Next == \/ Change \/ Break
        \/ \E w \in Writers : Remember(w) \/ Read(w) \/ Publish(w)
        \/ \E ws \in SUBSET Writers : GiveUp(ws) \/ Garble(ws)

Spec == Init /\ [][Next]_<<accounts, table, memory, offers, file, broken>>
=============================================================================
