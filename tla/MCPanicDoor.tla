---------------------------- MODULE MCPanicDoor -----------------------------
(* An instance of PanicDoor for the model checker: two doors whose times      *)
(* relate as the default ones at the limit of ZombiesReleasedLast.            *)
EXTENDS PanicDoor

MCNumbers == 1 .. 2
=============================================================================
