----------------------------- MODULE TunnelAccess -----------------------------
(***************************************************************************)
(* What the management API promises of the tokens: every tunnel is opened  *)
(* by exactly one token, which is new when the tunnel gets it; the token   *)
(* changes only for another new one, and goes for good with the tunnel,    *)
(* whose id is never used again.                                           *)
(***************************************************************************)
CONSTANTS Ids, Tokens, NoToken

VARIABLES access,     \* the token that opens a tunnel
          ids,        \* the ids that have been used
          tokens      \* the tokens that have been given out

vars == <<access, ids, tokens>>

Init ==
    /\ access = [id \in Ids |-> NoToken]
    /\ ids = {} /\ tokens = {}

Create(id, token) ==
    /\ id \notin ids /\ token \notin tokens
    /\ access' = [access EXCEPT ![id] = token]
    /\ ids' = ids \cup {id} /\ tokens' = tokens \cup {token}

Renew(id, token) ==
    /\ access[id] # NoToken /\ token \notin tokens
    /\ access' = [access EXCEPT ![id] = token]
    /\ tokens' = tokens \cup {token}
    /\ UNCHANGED ids

(* A token that opens nothing: the tunnel it was drawn for has gone.       *)
Waste(token) ==
    /\ token \notin tokens
    /\ tokens' = tokens \cup {token}
    /\ UNCHANGED <<access, ids>>

Delete(id) ==
    /\ access' = [access EXCEPT ![id] = NoToken]
    /\ UNCHANGED <<ids, tokens>>

Next ==
    \/ \E id \in Ids, token \in Tokens : Create(id, token) \/ Renew(id, token)
    \/ \E token \in Tokens : Waste(token)
    \/ \E id \in Ids : Delete(id)

Spec == Init /\ [][Next]_vars
=============================================================================
