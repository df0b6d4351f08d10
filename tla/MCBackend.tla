----------------------------- MODULE MCBackend -----------------------------
(***************************************************************************)
(* AdminAuth, Retention and DownloadPages for TLC.  They share no variable *)
(* and their properties are about one of them each, so that interleaving   *)
(* their steps would show nothing: one of them runs, the others stay where *)
(* they begin.                                                             *)
(***************************************************************************)
EXTENDS AdminAuth, Retention, DownloadPages, TLC

VARIABLE part   \* which of them runs

Init == part \in {"auth", "retention", "pages"} /\ AuthInit /\ RetentionInit /\ PagesInit

Next ==
    /\ UNCHANGED part
    /\ \/ part = "auth"      /\ AuthNext      /\ UNCHANGED <<retentionVars, pagesVars>>
       \/ part = "retention" /\ RetentionNext /\ UNCHANGED <<authVars, pagesVars>>
       \/ part = "pages"     /\ PagesNext     /\ UNCHANGED <<authVars, retentionVars>>

Spec == Init /\ [][Next]_<<part, authVars, retentionVars, pagesVars>>

Symmetry == Permutations(Requests) \cup Permutations(Records)
=============================================================================
