------------------------------- MODULE Ledger -------------------------------
(***************************************************************************)
(* What the log tailer promises of the rows it stores, without files,      *)
(* positions or connections.                                               *)
(*                                                                         *)
(* copies: how many rows there are of each download.  restarts: how often  *)
(* the tailer was made to begin a log again.  Rows come in batches, each   *)
(* wholly or not at all; a batch takes no download that has already been   *)
(* stored once more than the tailer was restarted; and no row goes.        *)
(***************************************************************************)
EXTENDS Naturals

CONSTANT Places

VARIABLES copies, restarts

Init == copies = [p \in Places |-> 0] /\ restarts = 0

Store(batch) ==
    /\ \A p \in batch : copies[p] <= restarts
    /\ copies' = [p \in Places |-> IF p \in batch THEN copies[p] + 1 ELSE copies[p]]
    /\ UNCHANGED restarts

Restart == restarts' \in {restarts + 1, restarts + 2} /\ UNCHANGED copies

Next == Restart \/ \E batch \in SUBSET Places : Store(batch)

Spec == Init /\ [][Next]_<<copies, restarts>>

-----------------------------------------------------------------------------
\* Nothing is stored more often than once and once again for each restart.
Bounded == \A p \in Places : copies[p] <= 1 + restarts
=============================================================================
