----------------------------- MODULE MCTornRead -----------------------------
(***************************************************************************)
(* Paths for the model checker: with no separator, with one, with the      *)
(* fields of a download inside, and with enough of them that both pieces   *)
(* of a line have seven parts.                                             *)
(***************************************************************************)
EXTENDS TornRead

MCPaths == {<<"path">>, <<"-">>, <<"">>, <<"path", "path">>, <<ANON_USER, "number", "path">>,
            <<"path", "RETR", "226">>, <<"path", "RETR", "226", "number">>,
            <<"path", "RETR", "226", "path", "", "path", "path">>}
=============================================================================
