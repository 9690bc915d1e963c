------------------------------ MODULE MCDbPool ------------------------------
(* Instances of DbPool for the model checker. *)
EXTENDS DbPool

\* The kinds of queries of the run that looks for rows left behind.
MCTeamKinds == {"AddWrite", "AddBackup", "SaveTeamScore"}
=============================================================================
