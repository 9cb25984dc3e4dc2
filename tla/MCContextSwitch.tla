--------------------------- MODULE MCContextSwitch ---------------------------
(* ContextSwitch with three processes beside the shell, a quantum of one    *)
(* tick and few pids; the two configurations differ in ManyUsers.           *)
EXTENDS ContextSwitch
=============================================================================
