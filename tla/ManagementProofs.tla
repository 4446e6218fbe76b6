--------------------------- MODULE ManagementProofs ---------------------------
(***************************************************************************)
(* Proofs about Management for any number of tunnels, requests and checks, *)
(* and any windows that are no longer than the retention.                  *)
(*                                                                         *)
(* RetiredTokensRejected is not inductive: that a token does not come back *)
(* rests on every token in use having been drawn once (DrawnOnce), and on  *)
(* requests knowing only ids that have been drawn (KnownIds).  That        *)
(* Management implements TunnelAccess follows from the same invariant.     *)
(***************************************************************************)
EXTENDS Management, TLAPS

DrawnOnce ==
    /\ Stored \subseteq drawn.ids
    /\ \A id \in Stored : tunnels[id].token \in drawn.tokens
    /\ \A a, b \in Stored : tunnels[a].token = tunnels[b].token => a = b
    /\ retired \subseteq drawn.tokens

KnownIds ==
    /\ \A r \in Requests : request[r] # Idle => request[r].id \in drawn.ids
    /\ answered \subseteq drawn.ids \X drawn.tokens

(* A cleanup has read the clock in the past.                               *)
CleanupStarted == cleanup \in Nat => cleanup <= now

Inv ==
    /\ TypeOK /\ DrawnOnce /\ KnownIds /\ CleanupStarted
    /\ RetiredTokensRejected /\ AnsweredTokensWork /\ ChecksHaveTunnels

USE DEF history

-----------------------------------------------------------------------------
(* A request under way has an id, and an update a row.                     *)
LEMMA RequestType ==
    ASSUME TypeOK, NEW r \in Requests
    PROVE  /\ request[r].op = "update" => request[r].id \in Ids /\ request[r].row \in Row
           /\ request[r].op = "regenerate" => request[r].id \in Ids
           /\ request[r].op \in {"update", "regenerate"} => request[r] # Idle
<1>1. request[r] \in Request
  BY DEF TypeOK
<1> QED BY <1>1 DEF Request, Idle

(* The requests keep the types.                                            *)
LEMMA TypeTunnel ==
    ASSUME TypeOK, TunnelNext
    PROVE  TypeOK'
<1>0. PICK r \in Requests :
      \/ \E id \in Ids, name \in Names, token \in Tokens : CreateTunnel(r, id, name, token)
      \/ \E id \in Ids, name \in Names : UpdateRead(r, id, name)
      \/ UpdateWrite(r)
      \/ \E id \in Ids : RegenerateRead(r, id) \/ DeleteTunnel(r, id)
      \/ \E token \in Tokens : RegenerateWrite(r, token)
      \/ RequestFails(r)
  BY DEF TunnelNext
<1>1. ASSUME NEW id \in Ids, NEW name \in Names, NEW token \in Tokens,
             CreateTunnel(r, id, name, token)
      PROVE  TypeOK'
  <2>1. [name |-> name, token |-> token] \in Row
    BY DEF Row
  <2> QED BY <1>1, <2>1 DEF TypeOK, CreateTunnel, FreshTokens
<1>2. ASSUME NEW id \in Ids, NEW name \in Names, UpdateRead(r, id, name)
      PROVE  TypeOK'
  <2>1. tunnels[id] \in Row
    BY <1>2 DEF TypeOK, UpdateRead, Stored
  <2>2. [op |-> "update", id |-> id, row |-> [tunnels[id] EXCEPT !.name = name]] \in Request
    BY <2>1 DEF Row, Request
  <2> QED BY <1>2, <2>2 DEF TypeOK, UpdateRead
<1>3. CASE UpdateWrite(r)
  <2>1. request[r].id \in Ids /\ request[r].row.name \in Names
    BY <1>3, RequestType DEF UpdateWrite, Row
  <2>2. tunnels' \in [Ids -> Row \cup {NoRow}]
    BY <1>3, <2>1 DEF TypeOK, UpdateWrite, Stored, Row
  <2>3. request' \in [Requests -> Request]
    BY <1>3 DEF TypeOK, UpdateWrite, Request
  <2> QED BY <1>3, <2>2, <2>3 DEF TypeOK, UpdateWrite
<1>4. ASSUME NEW id \in Ids, RegenerateRead(r, id)
      PROVE  TypeOK'
  <2>1. [op |-> "regenerate", id |-> id] \in Request
    BY DEF Request
  <2> QED BY <1>4, <2>1 DEF TypeOK, RegenerateRead
<1>5. ASSUME NEW id \in Ids, DeleteTunnel(r, id)
      PROVE  TypeOK'
  BY <1>5 DEF TypeOK, DeleteTunnel, Stored, Row
<1>6. ASSUME NEW token \in Tokens, RegenerateWrite(r, token)
      PROVE  TypeOK'
  <2>1. request[r].id \in Ids
    BY <1>6, RequestType DEF RegenerateWrite
  <2>2. tunnels' \in [Ids -> Row \cup {NoRow}] /\ retired' \subseteq Tokens
    BY <1>6, <2>1 DEF TypeOK, RegenerateWrite, Stored, Row
  <2>3. request' \in [Requests -> Request]
    BY <1>6 DEF TypeOK, RegenerateWrite, Request
  <2>4. answered' \subseteq Ids \X Tokens /\ drawn' \in [ids : SUBSET Ids, tokens : SUBSET Tokens]
    BY <1>6, <2>1 DEF TypeOK, RegenerateWrite
  <2> QED BY <1>6, <2>2, <2>3, <2>4 DEF TypeOK, RegenerateWrite
<1>7. CASE RequestFails(r)
  BY <1>7 DEF TypeOK, RequestFails, Request
<1> QED BY <1>0, <1>1, <1>2, <1>3, <1>4, <1>5, <1>6, <1>7

(* So do the goroutines of the tunnel manager, time and a restart.         *)
LEMMA TypeCheck ==
    ASSUME TypeOK, CheckNext \/ Tick \/ Restart
    PROVE  TypeOK'
<1> USE ConstantsAssumption
<1>1. ASSUME NEW g \in Goroutines, NEW token \in Tokens, Authenticate(g, token)
      PROVE  TypeOK'
  BY <1>1 DEF TypeOK, Authenticate, Stored
<1>2. ASSUME NEW g \in Goroutines, NEW status \in {"up", "down"}, StampCheck(g, status)
      PROVE  TypeOK'
  <2>1. [tunnel |-> serving[g], status |-> status, time |-> now] \in Check
    BY <1>2 DEF TypeOK, StampCheck, Check
  <2> QED BY <1>2, <2>1 DEF TypeOK, StampCheck
<1>3. ASSUME NEW g \in Goroutines, CreateCheck(g)
      PROVE  TypeOK'
  <2>1. stamped[g] \in Check
    BY <1>3 DEF TypeOK, CreateCheck
  <2> QED BY <1>3, <2>1 DEF TypeOK, CreateCheck
<1>4. ASSUME NEW g \in Goroutines, CheckFails(g) \/ Leave(g)
      PROVE  TypeOK'
  BY <1>4 DEF TypeOK, CheckFails, Leave
<1>5. CASE StartCleanup \/ CleanupFails
  BY <1>5 DEF TypeOK, StartCleanup, CleanupFails
<1>6. CASE CleanupOldChecks
  BY <1>6 DEF TypeOK, CleanupOldChecks, Recorded
<1>7. CASE Tick
  BY <1>7 DEF TypeOK, Tick
<1>8. CASE Restart
  BY <1>8 DEF TypeOK, Restart, Request
<1> QED BY <1>1, <1>2, <1>3, <1>4, <1>5, <1>6, <1>7, <1>8 DEF CheckNext

LEMMA TypeNext == TypeOK /\ [Next]_vars => TypeOK'
<1>1. TypeOK /\ UNCHANGED vars => TypeOK'
  BY DEF TypeOK, vars
<1> QED BY <1>1, TypeTunnel, TypeCheck DEF Next

(* A rename keeps the set of tunnels and their tokens.                     *)
LEMMA Renamed ==
    ASSUME TypeOK, NEW r \in Requests, UpdateWrite(r)
    PROVE  /\ Stored' = Stored
           /\ \A x \in Stored : tunnels'[x].token = tunnels[x].token
<1> DEFINE id == request[r].id
           name == request[r].row.name
<1>1. /\ tunnels \in [Ids -> Row \cup {NoRow}] /\ NoRow \notin Row
      /\ id \in Ids /\ name \in Names
  BY RequestType, ConstantsAssumption DEF TypeOK, UpdateWrite, Row
<1>2. CASE tunnels' = tunnels
  BY <1>2 DEF Stored
<1>3. CASE id \in Stored /\ tunnels' = [tunnels EXCEPT ![id].name = name]
  <2>1. tunnels[id] \in Row
    BY <1>1, <1>3 DEF Stored
  <2>2. tunnels'[id] \in Row /\ tunnels'[id].token = tunnels[id].token
    BY <1>1, <1>3, <2>1 DEF Row
  <2>3. \A x \in Ids \ {id} : tunnels'[x] = tunnels[x]
    BY <1>1, <1>3
  <2> QED BY <1>1, <1>3, <2>1, <2>2, <2>3 DEF Stored
<1> QED BY <1>2, <1>3 DEF UpdateWrite

-----------------------------------------------------------------------------
(* Tokens.                                                                 *)

TokenInv == DrawnOnce /\ KnownIds /\ RetiredTokensRejected /\ AnsweredTokensWork

(* A request keeps what is known of the tokens, whatever it writes.        *)
LEMMA TokenStep ==
    ASSUME TypeOK, TokenInv, TunnelNext
    PROVE  TokenInv'
<1> USE DEF TokenInv, DrawnOnce, KnownIds, RetiredTokensRejected, AnsweredTokensWork
<1>0. PICK r \in Requests :
      \/ \E id \in Ids, name \in Names, token \in Tokens : CreateTunnel(r, id, name, token)
      \/ \E id \in Ids, name \in Names : UpdateRead(r, id, name)
      \/ UpdateWrite(r)
      \/ \E id \in Ids : RegenerateRead(r, id) \/ DeleteTunnel(r, id)
      \/ \E token \in Tokens : RegenerateWrite(r, token)
      \/ RequestFails(r)
  BY DEF TunnelNext
<1>t. /\ tunnels \in [Ids -> Row \cup {NoRow}] /\ NoRow \notin Row
      /\ request \in [Requests -> Request]
      /\ drawn \in [ids : SUBSET Ids, tokens : SUBSET Tokens]
      /\ answered \subseteq Ids \X Tokens
  BY ConstantsAssumption DEF TypeOK
<1>1. ASSUME NEW id \in Ids, NEW name \in Names, NEW token \in Tokens,
             CreateTunnel(r, id, name, token)
      PROVE  TokenInv'
  <2>1. [name |-> name, token |-> token] # NoRow
    BY <1>t DEF Row
  <2>2. Stored' = Stored \cup {id} /\ id \notin Stored /\ token \notin drawn.tokens
    BY <1>1, <1>t, <2>1 DEF CreateTunnel, Stored, FreshTokens
  <2>3. \A x \in Stored' : tunnels'[x] = IF x = id THEN [name |-> name, token |-> token]
                                         ELSE tunnels[x]
    BY <1>1, <1>t, <2>2 DEF CreateTunnel, Stored
  <2>4. DrawnOnce' /\ RetiredTokensRejected'
    BY <1>1, <1>t, <2>2, <2>3 DEF CreateTunnel
  <2>5. KnownIds' /\ AnsweredTokensWork'
    BY <1>1, <1>t, <2>2, <2>3 DEF CreateTunnel
  <2> QED BY <2>4, <2>5
<1>2. ASSUME UNCHANGED <<tunnels, history>>,
             \A q \in Requests : request'[q] # Idle => request'[q].id \in drawn.ids
      PROVE  TokenInv'
  BY <1>2 DEF Stored
<1>3. ASSUME NEW id \in Ids, NEW name \in Names, UpdateRead(r, id, name)
      PROVE  TokenInv'
  BY <1>2, <1>3, <1>t DEF UpdateRead
<1>4. ASSUME NEW id \in Ids, RegenerateRead(r, id)
      PROVE  TokenInv'
  BY <1>2, <1>4, <1>t DEF RegenerateRead
<1>5. CASE RequestFails(r)
  BY <1>2, <1>5, <1>t DEF RequestFails
<1>6. CASE UpdateWrite(r)
  <2>1. /\ Stored' = Stored
        /\ \A x \in Stored : tunnels'[x].token = tunnels[x].token
    BY <1>6, Renamed
  <2>2. UNCHANGED history /\ \A q \in Requests : request'[q] # Idle => request'[q] = request[q]
    BY <1>6, <1>t DEF UpdateWrite
  <2>3. DrawnOnce' /\ KnownIds' /\ RetiredTokensRejected'
    BY <2>1, <2>2
  <2>4. AnsweredTokensWork'
    BY <2>1, <2>2
  <2> QED BY <2>3, <2>4
<1>7. ASSUME NEW id \in Ids, DeleteTunnel(r, id)
      PROVE  TokenInv'
  <2>1. /\ Stored' = Stored \ {id} /\ id \in Stored
        /\ \A x \in Stored' : tunnels'[x] = tunnels[x]
    BY <1>7, <1>t DEF DeleteTunnel, Stored
  <2> QED BY <1>7, <1>t, <2>1 DEF DeleteTunnel
<1>8. ASSUME NEW token \in Tokens, RegenerateWrite(r, token)
      PROVE  TokenInv'
  <2> DEFINE x == request[r].id
  <2>1. x \in Ids /\ x \in drawn.ids /\ token \notin drawn.tokens
    BY <1>8, <1>t, RequestType DEF RegenerateWrite, FreshTokens
  <2>2. /\ Stored' = Stored
        /\ \A y \in Stored : tunnels'[y].token = IF y = x THEN token ELSE tunnels[y].token
    BY <1>8, <1>t, <2>1 DEF RegenerateWrite, Stored, Row
  <2>3. /\ drawn'.ids = drawn.ids /\ drawn'.tokens = drawn.tokens \cup {token}
        /\ answered' = answered \cup {<<x, token>>}
        /\ retired' = IF x \in Stored THEN retired \cup {tunnels[x].token} ELSE retired
    BY <1>8, <1>t DEF RegenerateWrite
  <2>4. DrawnOnce' /\ RetiredTokensRejected'
    BY <1>t, <2>1, <2>2, <2>3
  <2>5. KnownIds'
    BY <1>8, <1>t, <2>1, <2>3 DEF RegenerateWrite
  <2>6. AnsweredTokensWork'
    BY <1>t, <2>1, <2>2, <2>3
  <2> QED BY <2>4, <2>5, <2>6
<1> QED BY <1>0, <1>1, <1>3, <1>4, <1>5, <1>6, <1>7, <1>8

(* Nobody else touches them.                                               *)
LEMMA TokenFrame ==
    ASSUME TypeOK, TokenInv, CheckNext \/ Tick \/ Restart \/ UNCHANGED vars
    PROVE  TokenInv'
<1>1. /\ UNCHANGED <<tunnels, history>>
      /\ \A r \in Requests : request'[r] # Idle => request'[r] = request[r]
  BY DEF CheckNext, Authenticate, StampCheck, CreateCheck, CheckFails, Leave, StartCleanup,
         CleanupOldChecks, CleanupFails, Tick, Restart, vars
<1> QED BY <1>1 DEF TokenInv, DrawnOnce, KnownIds, RetiredTokensRejected,
                    AnsweredTokensWork, Stored

-----------------------------------------------------------------------------
(* Checks.                                                                 *)

LEMMA CheckStep ==
    ASSUME TypeOK, ChecksHaveTunnels, [Next]_vars
    PROVE  ChecksHaveTunnels'
<1> USE DEF ChecksHaveTunnels, Recorded
<1>t. /\ tunnels \in [Ids -> Row \cup {NoRow}] /\ NoRow \notin Row /\ NoCheck \notin Check
      /\ checks \in [1 .. MaxChecks -> Check \cup {NoCheck}]
  BY ConstantsAssumption DEF TypeOK
<1>1. ASSUME Stored \subseteq Stored', UNCHANGED checks
      PROVE  ChecksHaveTunnels'
  BY <1>1
<1>2. ASSUME NEW r \in Requests, NEW id \in Ids, NEW name \in Names, NEW token \in Tokens,
             CreateTunnel(r, id, name, token)
      PROVE  ChecksHaveTunnels'
  BY <1>1, <1>2, <1>t DEF CreateTunnel, Stored, Row
<1>3. ASSUME NEW r \in Requests, UpdateWrite(r)
      PROVE  ChecksHaveTunnels'
  BY <1>1, <1>3, Renamed DEF UpdateWrite
<1>4. ASSUME NEW r \in Requests, NEW token \in Tokens, RegenerateWrite(r, token)
      PROVE  ChecksHaveTunnels'
  BY <1>1, <1>4, <1>t DEF RegenerateWrite, Stored, Row
<1>5. ASSUME NEW r \in Requests, NEW id \in Ids, DeleteTunnel(r, id)
      PROVE  ChecksHaveTunnels'
  BY <1>5, <1>t DEF DeleteTunnel, Stored
<1>6. ASSUME NEW g \in Goroutines, CreateCheck(g)
      PROVE  ChecksHaveTunnels'
  BY <1>6, <1>t DEF CreateCheck, Stored
<1>7. CASE CleanupOldChecks
  BY <1>7, <1>t DEF CleanupOldChecks, Stored
<1>8. CASE UNCHANGED <<tunnels, checks>>
  BY <1>8 DEF Stored
<1> QED BY <1>2, <1>3, <1>4, <1>5, <1>6, <1>7, <1>8
        DEF Next, TunnelNext, CheckNext, UpdateRead, RegenerateRead, RequestFails,
            Authenticate, StampCheck, CheckFails, Leave, StartCleanup, CleanupFails, Tick,
            Restart, vars

LEMMA CleanupStep ==
    ASSUME TypeOK, CleanupStarted, [Next]_vars
    PROVE  CleanupStarted'
<1>1. CASE TunnelNext \/ UNCHANGED vars
  BY <1>1 DEF CleanupStarted, TunnelNext, CreateTunnel, UpdateRead, UpdateWrite,
              RegenerateRead, RegenerateWrite, DeleteTunnel, RequestFails, vars
<1>2. CASE CheckNext \/ Tick \/ Restart
  BY <1>2, ConstantsAssumption
  DEF CleanupStarted, CheckNext, Authenticate, StampCheck, CreateCheck, CheckFails, Leave,
      StartCleanup, CleanupOldChecks, CleanupFails, Tick, Restart, TypeOK
<1> QED BY <1>1, <1>2 DEF Next

-----------------------------------------------------------------------------
LEMMA InvInit == Init => Inv
<1> SUFFICES ASSUME Init PROVE Inv
  OBVIOUS
<1>1. TypeOK
  BY ConstantsAssumption DEF Init, TypeOK, Request
<1>2. Stored = {} /\ Recorded = {}
  BY DEF Init, Stored, Recorded
<1>3. DrawnOnce /\ KnownIds /\ RetiredTokensRejected /\ AnsweredTokensWork /\ ChecksHaveTunnels
  BY <1>2 DEF Init, DrawnOnce, KnownIds, RetiredTokensRejected, AnsweredTokensWork,
              ChecksHaveTunnels
<1>4. CleanupStarted
  BY ConstantsAssumption DEF Init, CleanupStarted
<1> QED BY <1>1, <1>3, <1>4 DEF Inv

LEMMA InvNext == Inv /\ [Next]_vars => Inv'
<1> SUFFICES ASSUME Inv, [Next]_vars PROVE Inv'
  OBVIOUS
<1>1. TokenInv'
  BY TokenStep, TokenFrame DEF Inv, TokenInv, Next
<1> QED BY <1>1, TypeNext, CheckStep, CleanupStep DEF Inv, TokenInv

(* In every reachable state the tables, the requests under way and the     *)
(* tokens that were ever given out agree as Inv says.                      *)
THEOREM Invariant == Spec => []Inv
<1> QED BY InvInit, InvNext, PTL DEF Spec

(* The variables keep their types.                                         *)
THEOREM TypeCorrect == Spec => []TypeOK
<1>1. Inv => TypeOK
  BY DEF Inv
<1> QED BY <1>1, Invariant, PTL

(* A token that was replaced or deleted opens no tunnel again, although    *)
(* updateTunnel writes rows that it has read before.                       *)
THEOREM RetiredTokensRejectedAlways == Spec => []RetiredTokensRejected
<1>1. Inv => RetiredTokensRejected
  BY DEF Inv
<1> QED BY <1>1, Invariant, PTL

(* A token that was answered opens its tunnel until it is replaced or the  *)
(* tunnel is deleted.                                                      *)
THEOREM AnsweredTokensWorkAlways == Spec => []AnsweredTokensWork
<1>1. Inv => AnsweredTokensWork
  BY DEF Inv
<1> QED BY <1>1, Invariant, PTL

(* No check outlives its tunnel, whenever it was stamped.                  *)
THEOREM ChecksHaveTunnelsAlways == Spec => []ChecksHaveTunnels
<1>1. Inv => ChecksHaveTunnels
  BY DEF Inv
<1> QED BY <1>1, Invariant, PTL

(* A deleted tunnel is not brought back by a request or a restart.         *)
THEOREM DeletedTunnelsStayDeletedAlways == Spec => DeletedTunnelsStayDeleted
<1> DEFINE Step == \A id \in drawn.ids \ Stored : id \notin Stored'
<1>1. Inv /\ [Next]_vars => [Step]_vars
  <2> SUFFICES ASSUME Inv, Next, NEW id \in drawn.ids, id \notin Stored, id \in Stored'
               PROVE  FALSE
    OBVIOUS
  <2>1. /\ tunnels \in [Ids -> Row \cup {NoRow}] /\ tunnels[id] = NoRow /\ id \in Ids
        /\ tunnels'[id] # NoRow
    BY DEF Inv, TypeOK, Stored
  <2>2. PICK r \in Requests :
        \/ \E i \in Ids, name \in Names, token \in Tokens : CreateTunnel(r, i, name, token)
        \/ UpdateWrite(r)
        \/ \E i \in Ids : DeleteTunnel(r, i)
        \/ \E token \in Tokens : RegenerateWrite(r, token)
    BY <2>1 DEF Next, TunnelNext, CheckNext, UpdateRead, RegenerateRead, RequestFails,
                Authenticate, StampCheck, CreateCheck, CheckFails, Leave, StartCleanup,
                CleanupOldChecks, CleanupFails, Tick, Restart
  <2>3. CASE UpdateWrite(r)
    BY <2>1, <2>3 DEF UpdateWrite, Stored
  <2>4. ASSUME NEW token \in Tokens, RegenerateWrite(r, token)  PROVE FALSE
    BY <2>1, <2>4 DEF RegenerateWrite, Stored
  <2>5. ASSUME NEW i \in Ids, NEW name \in Names, NEW token \in Tokens,
               CreateTunnel(r, i, name, token)
        PROVE  FALSE
    BY <2>1, <2>5 DEF CreateTunnel
  <2>6. ASSUME NEW i \in Ids, DeleteTunnel(r, i)  PROVE FALSE
    BY <2>1, <2>6 DEF DeleteTunnel
  <2> QED BY <2>2, <2>3, <2>4, <2>5, <2>6
<1> QED BY <1>1, Invariant, PTL DEF Spec, DeletedTunnelsStayDeleted

(* The cleanup leaves the checks of every window alone, for any windows    *)
(* that are no longer than the retention: the uptime that getStats reports *)
(* does not depend on when cleanupRoutine runs.                            *)
THEOREM CleanupKeepsStatsAlways == Spec => CleanupKeepsStats
<1> DEFINE Step == cleanup # NoTime /\ cleanup' = NoTime
                   => \A id \in Ids, w \in Windows : Uptime(id, w)' = Uptime(id, w)
<1>1. Inv /\ [Next]_vars => [Step]_vars
  <2> SUFFICES ASSUME Inv, Next, cleanup # NoTime, cleanup' = NoTime,
                      NEW id \in Ids, NEW w \in Windows
               PROVE  Uptime(id, w)' = Uptime(id, w)
    OBVIOUS
  <2> DEFINE start == IF w < now THEN now - w ELSE 0
             all == Between(id, start, now)
  <2>1. now' = now
    BY DEF Next, TunnelNext, CheckNext, CreateTunnel, UpdateRead, UpdateWrite, RegenerateRead,
           RegenerateWrite, DeleteTunnel, RequestFails, Authenticate, StampCheck, CreateCheck,
           CheckFails, Leave, StartCleanup, CleanupOldChecks, CleanupFails, Tick, Restart
  <2>2. UNCHANGED checks \/ CleanupOldChecks
    BY DEF Next, TunnelNext, CheckNext, CreateTunnel, UpdateRead, UpdateWrite, RegenerateRead,
           RegenerateWrite, DeleteTunnel, RequestFails, Authenticate, StampCheck, CreateCheck,
           CheckFails, Leave, StartCleanup, CleanupFails, Tick, Restart
  <2>3. /\ now \in Nat /\ cleanup \in Nat /\ cleanup <= now /\ w \in Nat /\ w <= Retention
        /\ checks \in [1 .. MaxChecks -> Check \cup {NoCheck}]
        /\ Retention \in Nat /\ NoCheck \notin Check
    BY ConstantsAssumption, RetentionAssumption DEF Inv, TypeOK, CleanupStarted
  <2>4. ASSUME NEW i \in all  PROVE checks'[i] = checks[i]
    <3>1. /\ i \in 1 .. MaxChecks /\ checks[i] \in Check /\ start <= checks[i].time
      BY <2>3 DEF Between, Recorded
    <3>2. checks[i].time \in Nat
      BY <3>1 DEF Check
    <3>3. ~(checks[i].time + Retention < cleanup)
      BY <2>3, <3>1, <3>2
    <3> QED BY <2>2, <3>1, <3>3 DEF CleanupOldChecks
  <2>5. \A i \in 1 .. MaxChecks : checks'[i] # NoCheck => checks'[i] = checks[i]
    BY <2>2, <2>3 DEF CleanupOldChecks
  <2>6. all' = all
    BY <2>1, <2>4, <2>5 DEF Between, Recorded
  <2>7. {i \in all : checks[i].status = "up"}' = {i \in all : checks[i].status = "up"}
    BY <2>4, <2>6
  <2> QED BY <2>1, <2>6, <2>7 DEF Uptime
<1> QED BY <1>1, Invariant, PTL DEF Spec, CleanupKeepsStats

-----------------------------------------------------------------------------
(* Management implements TunnelAccess.                                     *)

AccessOf == [id \in Ids |-> IF tunnels[id] = NoRow THEN NoRow ELSE tunnels[id].token]

AccessStutters == UNCHANGED <<AccessOf, drawn.ids, drawn.tokens>>

(* A request that writes is one step of the access, or none.               *)
LEMMA RequestAccess ==
    ASSUME Inv, TunnelNext
    PROVE  Access!Next \/ AccessStutters
<1> USE DEF Inv, AccessOf
<1>0. PICK r \in Requests :
      \/ \E id \in Ids, name \in Names, token \in Tokens : CreateTunnel(r, id, name, token)
      \/ \E id \in Ids, name \in Names : UpdateRead(r, id, name)
      \/ UpdateWrite(r)
      \/ \E id \in Ids : RegenerateRead(r, id) \/ DeleteTunnel(r, id)
      \/ \E token \in Tokens : RegenerateWrite(r, token)
      \/ RequestFails(r)
  BY DEF TunnelNext
<1>t. /\ tunnels \in [Ids -> Row \cup {NoRow}] /\ NoRow \notin Row
      /\ drawn \in [ids : SUBSET Ids, tokens : SUBSET Tokens]
  BY ConstantsAssumption DEF TypeOK
<1>1. ASSUME NEW id \in Ids, NEW name \in Names, NEW token \in Tokens,
             CreateTunnel(r, id, name, token)
      PROVE  Access!Next
  <2>1. [name |-> name, token |-> token] # NoRow
    BY <1>t DEF Row
  <2>2. AccessOf' = [AccessOf EXCEPT ![id] = token]
    BY <1>1, <1>t, <2>1 DEF CreateTunnel
  <2>3. Access!Create(id, token)
    BY <1>1, <2>2 DEF CreateTunnel, FreshTokens, Access!Create
  <2> QED  BY <2>3 DEF Access!Next
<1>2. ASSUME NEW token \in Tokens, RegenerateWrite(r, token)
      PROVE  Access!Next
  <2> DEFINE id == request[r].id
  <2>1. id \in Ids /\ token \notin drawn.tokens
    BY <1>2, RequestType DEF RegenerateWrite, FreshTokens
  <2>2. drawn'.ids = drawn.ids /\ drawn'.tokens = drawn.tokens \cup {token}
    BY <1>2, <1>t DEF RegenerateWrite
  <2>3. CASE id \in Stored
    <3>1. /\ tunnels[id] \in Row
          /\ tunnels' = [tunnels EXCEPT ![id].token = token]
      BY <1>2, <1>t, <2>3 DEF RegenerateWrite, Stored
    <3>2. tunnels'[id] # NoRow /\ tunnels'[id].token = token
      BY <1>t, <2>1, <3>1 DEF Row
    <3>3. AccessOf' = [AccessOf EXCEPT ![id] = token]
      BY <1>t, <2>1, <3>1, <3>2
    <3>4. AccessOf[id] # NoRow
      BY <2>1, <2>3, <3>1, ConstantsAssumption DEF Row
    <3>5. Access!Renew(id, token)
      BY <2>1, <2>2, <3>3, <3>4 DEF Access!Renew
    <3> QED  BY <2>1, <3>5 DEF Access!Next
  <2>4. CASE id \notin Stored
    <3>1. UNCHANGED AccessOf
      BY <1>2, <2>4 DEF RegenerateWrite
    <3>2. Access!Waste(token)
      BY <2>1, <2>2, <3>1 DEF Access!Waste
    <3> QED  BY <3>2 DEF Access!Next
  <2> QED  BY <2>3, <2>4
<1>3. ASSUME NEW id \in Ids, DeleteTunnel(r, id)
      PROVE  Access!Next
  <2>1. AccessOf' = [AccessOf EXCEPT ![id] = NoRow]
    BY <1>3, <1>t DEF DeleteTunnel
  <2>2. Access!Delete(id)
    BY <1>3, <2>1 DEF DeleteTunnel, Access!Delete
  <2> QED  BY <2>2 DEF Access!Next
<1>4. CASE UpdateWrite(r)
  <2>1. /\ Stored' = Stored
        /\ \A x \in Stored : tunnels'[x].token = tunnels[x].token
    BY <1>4, Renamed
  <2>2. UNCHANGED AccessOf
    BY <2>1 DEF Stored
  <2> QED  BY <1>4, <2>2 DEF UpdateWrite, AccessStutters
<1>5. ASSUME UNCHANGED <<tunnels, history>>
      PROVE  AccessStutters
  BY <1>5 DEF AccessStutters
<1> QED  BY <1>0, <1>1, <1>2, <1>3, <1>4, <1>5 DEF UpdateRead, RegenerateRead, RequestFails

(* The tokens of the database are a TunnelAccess for any number of         *)
(* tunnels, tokens and requests: no interleaving of statements lets a      *)
(* tunnel be opened by a token that was not new, or changes the access of  *)
(* another tunnel than the request is about.                               *)
THEOREM AccessImplemented == Spec => ImplementsAccess
<1>1. Init => Access!Init
  BY DEF Init, Access!Init
<1>2. Inv /\ [Next]_vars => [Access!Next]_(Access!vars)
  <2> SUFFICES ASSUME Inv, [Next]_vars PROVE Access!Next \/ AccessStutters
    BY DEF AccessStutters, AccessOf, Access!vars
  <2>1. CASE CheckNext \/ Tick \/ Restart \/ UNCHANGED vars
    <3>1. UNCHANGED <<tunnels, history>>
      BY <2>1 DEF CheckNext, Authenticate, StampCheck, CreateCheck, CheckFails, Leave,
                  StartCleanup, CleanupOldChecks, CleanupFails, Tick, Restart, vars
    <3> QED  BY <3>1 DEF AccessStutters, AccessOf
  <2> QED  BY <2>1, RequestAccess DEF Next
<1> QED  BY <1>1, <1>2, Invariant, PTL DEF Spec, ImplementsAccess, Access!Spec
===============================================================================
