----------------------------- MODULE MCLogsPool -----------------------------
(***************************************************************************)
(* LogsPool for TLC: threads and connections are interchangeable.          *)
(***************************************************************************)
EXTENDS LogsPool

Symmetry == Permutations(Threads) \cup Permutations(Conns)
=============================================================================
