----------------------------- MODULE ServiceTable -----------------------------
(***************************************************************************)
(* What the tables tunnels and services promise together, whatever         *)
(* requests are in progress: a service is entered once, for a tunnel that  *)
(* exists, stays with that tunnel while its row is rewritten, and goes for *)
(* good, at the latest in the very step in which its tunnel goes.          *)
(***************************************************************************)
CONSTANTS Tunnels, Services, Row, NoRow

VARIABLES tunnels,   \* the tunnels that exist
          services,  \* the row of a service, or NoRow
          spent      \* ids that have had a row or will never have one

vars == <<tunnels, services, spent>>

Init ==
    /\ tunnels = Tunnels
    /\ services = [s \in Services |-> NoRow]
    /\ spent = {}

Enter(s, w) ==
    /\ s \notin spent /\ w.tunnel \in tunnels
    /\ services' = [services EXCEPT ![s] = w]
    /\ spent' = spent \cup {s}
    /\ UNCHANGED tunnels

(* Creations that fail, or that a crash interrupts.                        *)
GiveUp(S) ==
    /\ spent' = spent \cup S
    /\ UNCHANGED <<tunnels, services>>

Rewrite(s, w) ==
    /\ services[s] # NoRow /\ w.tunnel = services[s].tunnel
    /\ services' = [services EXCEPT ![s] = w]
    /\ UNCHANGED <<tunnels, spent>>

Remove(s) ==
    /\ services' = [services EXCEPT ![s] = NoRow]
    /\ UNCHANGED <<tunnels, spent>>

RemoveTunnel(t) ==
    /\ tunnels' = tunnels \ {t}
    /\ services' = [s \in Services |->
          IF services[s] # NoRow /\ services[s].tunnel = t THEN NoRow ELSE services[s]]
    /\ UNCHANGED spent

Next ==
    \/ \E S \in SUBSET Services : GiveUp(S)
    \/ \E s \in Services, w \in Row : Enter(s, w) \/ Rewrite(s, w)
    \/ \E s \in Services : Remove(s)
    \/ \E t \in Tunnels : RemoveTunnel(t)

Spec == Init /\ [][Next]_vars
=============================================================================
