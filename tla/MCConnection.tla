----------------------------- MODULE MCConnection -----------------------------
(* Instances of Connection for TLC: two endpoints. *)
EXTENDS Connection, TLC

CONSTANTS client, server

MCEndpoint == {client, server}
MCPeer == (client :> server) @@ (server :> client)

\* How often each end sends.
Sends32 == (client :> 3) @@ (server :> 2)
Sends71 == (client :> 7) @@ (server :> 1)
Sends81 == (client :> 8) @@ (server :> 1)
=============================================================================
