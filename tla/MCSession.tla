------------------------------- MODULE MCSession -------------------------------
(* Instances of Session for TLC: one or two clients and the connections the *)
(* server holds for them.                                                   *)
EXTENDS Session, TLC

CONSTANTS c1, c2, s1, s2

Clients1 == {c1}
Clients2 == {c1, c2}
Ends1 == {c1, s1}
Ends2 == {c1, c2, s1, s2}
Peers1 == (c1 :> s1) @@ (s1 :> c1)
Peers2 == Peers1 @@ (c2 :> s2) @@ (s2 :> c2)

\* Both clients run on one host.
Hosts1 == (c1 :> [address |-> 1, port |-> 1])
Hosts2 == Hosts1 @@ (c2 :> [address |-> 1, port |-> 2])

\* The second client found the port taken.
Unbound2 == {c2}
Blocking2 == Unbound2

\* Every request can be sent, and every one that arrives be answered.
Lines21 == (c1 :> 2) @@ (c2 :> 1)
Sends21 == (c1 :> 2) @@ (s1 :> 2) @@ (c2 :> 1) @@ (s2 :> 1)

\* One request in each run of the client: two runs send two, and the server
\* answers both, and may answer one of them twice.
Lines1 == (c1 :> 1)
Sends22 == (c1 :> 2) @@ (s1 :> 2)
Sends23 == (c1 :> 2) @@ (s1 :> 3)
=============================================================================
