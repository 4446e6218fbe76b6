------------------------------ MODULE ClientLink ------------------------------
(***************************************************************************)
(* What the tunnel client promises the server: one connection at a time,   *)
(* never the same one twice; streams are accepted only on the connection   *)
(* that is open, at most one more of them once the client has decided to   *)
(* give the connection up, and the connection is closed when the last      *)
(* stream has ended and no more are accepted.                              *)
(***************************************************************************)
EXTENDS Naturals

CONSTANTS Conns

VARIABLES open,     \* the connections that are open
          used,     \* those that have been
          streams,  \* the number of streams being forwarded
          admits    \* how many more streams are accepted: "many", "one", "none"

vars == <<open, used, streams, admits>>

Init ==
    /\ open = {} /\ used = {}
    /\ streams = [c \in Conns |-> 0]
    /\ admits = [c \in Conns |-> "many"]

Connect(c) ==
    /\ open = {} /\ c \notin used
    /\ open' = {c} /\ used' = used \cup {c}
    /\ UNCHANGED <<streams, admits>>

Accept(c) ==
    /\ c \in open /\ admits[c] # "none"
    /\ streams' = [streams EXCEPT ![c] = @ + 1]
    /\ admits' = [admits EXCEPT ![c] = IF @ = "one" THEN "none" ELSE @]
    /\ UNCHANGED <<open, used>>

End(c) ==
    /\ c \in open /\ streams[c] > 0
    /\ streams' = [streams EXCEPT ![c] = @ - 1]
    /\ UNCHANGED <<open, used, admits>>

(* The client gives the connection up, or finds that there is no last      *)
(* stream to accept.                                                       *)
GiveUp(c) ==
    /\ c \in open
    /\ \/ admits[c] = "many" /\ admits' \in {[admits EXCEPT ![c] = n] : n \in {"one", "none"}}
       \/ admits[c] = "one" /\ admits' = [admits EXCEPT ![c] = "none"]
    /\ UNCHANGED <<open, used, streams>>

Close(c) ==
    /\ c \in open /\ streams[c] = 0 /\ admits[c] = "none"
    /\ open' = open \ {c}
    /\ UNCHANGED <<used, streams, admits>>

Next == \E c \in Conns : Connect(c) \/ Accept(c) \/ End(c) \/ GiveUp(c) \/ Close(c)

Spec == Init /\ [][Next]_vars
=============================================================================
