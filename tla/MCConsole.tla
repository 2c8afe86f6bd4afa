----------------------------- MODULE MCConsole -----------------------------
(* Console with names of one character on a screen of two rows.            *)
EXTENDS Console

MC_Characters == {"M", "a", "b", "\n", "\r"}
MC_Modules == {NoModule, <<"M">>}
MC_Messages == {<<"a">>, <<"b", "\n">>, <<"\r">>}
=============================================================================
