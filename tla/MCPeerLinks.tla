---------------------------- MODULE MCPeerLinks ----------------------------
(* Values for the constants of PeerLinks that a .cfg cannot write.         *)
EXTENDS PeerLinks, TLC

CONSTANTS d1, d2, d3, a1, a2, b2, a3

\* Device d2 has two addresses, one in each network.
Listens == (a1 :> d1) @@ (a2 :> d2) @@ (b2 :> d2) @@ (a3 :> d3)

Per(first, second, third) == (d1 :> first) @@ (d2 :> second) @@ (d3 :> third)
Nobody == Per({}, {}, {})

Load(reach, manual, types, hears, conns, cuts, stops, forgets) ==
  [reach |-> reach, manual |-> manual, types |-> types, hears |-> hears, conns |-> conns,
   cuts |-> cuts, stops |-> stops, forgets |-> forgets]

\* d1 and d2 were told of d3 only and find each other over it, with a
\* connection lost on the way.
Exchange == Load(Per({a2, a3}, {a3}, {}), Per({a3}, {a3}, {}), Nobody, Nobody, 1, 1, 0, 0)

\* d1 and d2 hear each other and dial at the same time, d1 two addresses.
Both == Load(Per({a2, b2}, {a1}, {}), Nobody, Nobody, Per({a2, b2}, {a1}, {}), 1, 0, 0, 0)

\* d1 dials the two addresses of d2, and one of them stops.
Stops == Load(Per({a2, b2}, {}, {}), Per({a2, b2}, {}, {}), Nobody, Nobody, 1, 0, 1, 0)

\* d1 dials d2 again after losing a connection that d2 still believes in, and
\* one of them stops.
Again == Load(Per({a2}, {}, {}), Per({a2}, {}, {}), Nobody, Nobody, 2, 1, 1, 0)

\* d1 hears d2 where it cannot reach it and forgets the address; its user
\* types in another and its own, and takes them back.
Retyped == Load(Per({a2, a1}, {}, {}), Nobody, Per({{a2, a1}, {}}, {}, {}), Per({b2}, {}, {}), 1, 1, 0, 1)

PeerLoads == {Exchange, Both, Stops, Again, Retyped}
=============================================================================
