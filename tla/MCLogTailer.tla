---------------------------- MODULE MCLogTailer ----------------------------
(***************************************************************************)
(* LogTailer for TLC.  Two files that nothing tells apart may be exchanged.*)
(***************************************************************************)
EXTENDS LogTailer, TLC

Symmetry == Permutations(Inodes)
=============================================================================
