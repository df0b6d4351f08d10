--------------------------- MODULE MCAdminPage ---------------------------
(***************************************************************************)
(* AdminPage for TLC: accounts are interchangeable; one of the addresses   *)
(* is another spelling of the first.                                       *)
(***************************************************************************)
EXTENDS AdminPage

CONSTANTS e1, E1

NormalIs == [e \in Emails |-> IF e = E1 THEN e1 ELSE e]
Symmetry == Permutations(Ids)
=============================================================================
