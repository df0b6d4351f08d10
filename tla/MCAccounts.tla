---------------------------- MODULE MCAccounts ----------------------------
(***************************************************************************)
(* Accounts for TLC.  Nothing tells requests, ids, names, addresses,      *)
(* files or places of a list apart: each kind may be exchanged in itself. *)
(***************************************************************************)
EXTENDS Accounts, TLC

Symmetry == Permutations(Requests) \cup Permutations(Ids) \cup Permutations(Names)
            \cup Permutations(Emails) \cup Permutations(Inodes) \cup Permutations(Rows)
=============================================================================
