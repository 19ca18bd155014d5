----------------------------- MODULE MCKeyClients -----------------------------
(* Two keys changed up to four times in all, one version of one key refused:  *)
(* a list of two rows is overtaken by changes of both, and a failure on the   *)
(* first row abandons the second.                                            *)
EXTENDS KeyClients

CONSTANTS key1, key2, s1, s2

MCRefused == {<<key1, 2>>}
=============================================================================
