---------------------------- MODULE TunnelRegistry ----------------------------
(***************************************************************************)
(* What the tunnel manager promises of its map: a connection enters it     *)
(* open, for the tunnel whose token it brought, and never again once it    *)
(* has been there; the connection it replaces is closed in the same step;  *)
(* an open connection goes out of the map only by being replaced or by a   *)
(* removal of its tunnel's entry, and a closed one is never opened again.  *)
(***************************************************************************)
CONSTANTS Tunnels, Conns, NoTunnel, NoConn

VARIABLES connections,  \* the entry of a tunnel
          tunnelOf,     \* the tunnel that a connection was opened for
          open,         \* the connections that are open
          entered       \* the connections that have been in the map

vars == <<connections, tunnelOf, open, entered>>

Init ==
    /\ connections = [t \in Tunnels |-> NoConn]
    /\ tunnelOf = [c \in Conns |-> NoTunnel]
    /\ open = {}
    /\ entered = {}

Open(c, t) ==
    /\ tunnelOf[c] = NoTunnel
    /\ tunnelOf' = [tunnelOf EXCEPT ![c] = t]
    /\ open' = open \cup {c}
    /\ UNCHANGED <<connections, entered>>

Enter(c) ==
    /\ c \in open \ entered
    /\ connections' = [connections EXCEPT ![tunnelOf[c]] = c]
    /\ open' = open \ {connections[tunnelOf[c]]}
    /\ entered' = entered \cup {c}
    /\ UNCHANGED tunnelOf

(* Only what has been in the map is closed.                                *)
Close(c) ==
    /\ c \in entered
    /\ open' = open \ {c}
    /\ UNCHANGED <<connections, tunnelOf, entered>>

Leave(t) ==
    /\ connections' = [connections EXCEPT ![t] = NoConn]
    /\ UNCHANGED <<tunnelOf, open, entered>>

Next ==
    \/ \E c \in Conns, t \in Tunnels : Open(c, t)
    \/ \E c \in Conns : Enter(c) \/ Close(c)
    \/ \E t \in Tunnels : Leave(t)

Spec == Init /\ [][Next]_vars
=============================================================================
