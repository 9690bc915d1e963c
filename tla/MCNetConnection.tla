---------------------------- MODULE MCNetConnection ----------------------------
(* Instances of NetConnection for TLC: the client sends little, the server more. *)
EXTENDS NetConnection, TLC
CONSTANTS client, server
MCPeers == {client, server}
MCFirst == (client :> 0) @@ (server :> 4)
MCLimit == (client :> 0) @@ (server :> 6)
================================================================================
