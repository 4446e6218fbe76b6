---------------------------- MODULE MCTcpServices ----------------------------
(* TLC instances of TcpServices: what AddrsOf is in the runs.               *)
EXTENDS TcpServices, TLC

CONSTANTS s1, s2, a1, a2, a3

(* Every service has an address of its own.                                 *)
OwnAddr == s1 :> {a1} @@ s2 :> {a2}
(* ... and the first one can also be moved to another.                     *)
OwnAddrs == s1 :> {a1, a2} @@ s2 :> {a3}

(* The requests are alike, and under OwnAddr so are the services, each     *)
(* with its address; used where only safety is checked.                    *)
Symmetry ==
    Permutations(Requests) \cup {s1 :> s2 @@ s2 :> s1 @@ a1 :> a2 @@ a2 :> a1}
=============================================================================
