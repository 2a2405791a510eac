------------------------------ MODULE MCConsole ------------------------------
(***************************************************************************)
(* Console with the messages and the table lines of the runs.              *)
(***************************************************************************)
EXTENDS Console, TLC

MCWelcome == <<"W", "e", "l", "c", "newline">>
MCMessage == <<"T", "newline">>
MCLine(e) == ToString(e)

=============================================================================
