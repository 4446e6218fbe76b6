-------------------------------- MODULE Relay --------------------------------
(***************************************************************************)
(* What the client promises of a stream that it forwards to a local        *)
(* service: in each direction the chunks arrive in order, each at most     *)
(* once and nothing else with them, not before the service has been        *)
(* reached and not after the stream has been handled.                      *)
(***************************************************************************)
EXTENDS Naturals, Sequences

CONSTANTS Streams

VARIABLES asked,     \* number of chunks the peer has sent
          taken,     \* what the service has been given
          answered,  \* number of chunks the service has sent
          returned,  \* what the peer has been given
          phase      \* "new", "linked" to the service, "over"

vars == <<asked, taken, answered, returned, phase>>

Chunk(i) == [kind |-> "data", n |-> i]

Init ==
    /\ asked = [s \in Streams |-> 0] /\ answered = [s \in Streams |-> 0]
    /\ taken = [s \in Streams |-> <<>>] /\ returned = [s \in Streams |-> <<>>]
    /\ phase = [s \in Streams |-> "new"]

Ask(s) ==
    /\ asked' = [asked EXCEPT ![s] = @ + 1]
    /\ UNCHANGED <<taken, answered, returned, phase>>

Answer(s) ==
    /\ phase[s] # "new"
    /\ answered' = [answered EXCEPT ![s] = @ + 1]
    /\ UNCHANGED <<asked, taken, returned, phase>>

Take(s) ==
    /\ phase[s] = "linked" /\ Len(taken[s]) < asked[s]
    /\ taken' = [taken EXCEPT ![s] = Append(@, Chunk(Len(@) + 1))]
    /\ UNCHANGED <<asked, answered, returned, phase>>

Return(s) ==
    /\ phase[s] = "linked" /\ Len(returned[s]) < answered[s]
    /\ returned' = [returned EXCEPT ![s] = Append(@, Chunk(Len(@) + 1))]
    /\ UNCHANGED <<asked, taken, answered, phase>>

Link(s) ==
    /\ phase[s] = "new" /\ phase' = [phase EXCEPT ![s] = "linked"]
    /\ UNCHANGED <<asked, taken, answered, returned>>

End(s) ==
    /\ phase[s] # "over" /\ phase' = [phase EXCEPT ![s] = "over"]
    /\ UNCHANGED <<asked, taken, answered, returned>>

Next == \E s \in Streams :
    Ask(s) \/ Answer(s) \/ Take(s) \/ Return(s) \/ Link(s) \/ End(s)

Spec == Init /\ [][Next]_vars
=============================================================================
