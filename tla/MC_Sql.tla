------------------------------- MODULE MC_Sql -------------------------------
(* One call of the SQL runner: run_query with every combination of its       *)
(* arguments, or run_statements with lists of up to MaxStatements.           *)
EXTENDS SqlRunner

MCConnectDelays == <<1, 2>>
MCExecuteDelays == <<1, 1, 2>>
=============================================================================
