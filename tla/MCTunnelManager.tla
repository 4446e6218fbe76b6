--------------------------- MODULE MCTunnelManager ---------------------------
(* TLC instances of TunnelManager.  Connections are interchangeable, and   *)
(* so are tunnels: the safety run uses both as symmetry sets.              *)
EXTENDS TunnelManager, TLC

Symmetry == Permutations(Conns) \cup Permutations(Tunnels)
=============================================================================
