------------------------------ MODULE Management ------------------------------
(***************************************************************************)
(* The tunnels and the uptime checks of the database                       *)
(* (internal/server/store.go), and those who work on them without a lock:  *)
(* the requests of the REST API (internal/server/api.go), which read a row *)
(* in one statement and write it in another; the goroutines of the tunnel  *)
(* manager (internal/server/tunnel.go), which look a token up once, stamp  *)
(* a check and insert it later; and its cleanup routine.                   *)
(*                                                                         *)
(* Each SQL statement is one step.  Services are in TcpServices, and the   *)
(* connections themselves in TunnelManager.                                *)
(***************************************************************************)
EXTENDS Naturals, FiniteSets

CONSTANTS Ids, Names, Tokens,
          Requests,    \* API requests that can be under way at once
          Goroutines,  \* goroutines of the tunnel manager that record checks
          Windows,     \* the periods that getStats reports on
          Retention,   \* the age from which cleanupRoutine removes checks
          MaxChecks,   \* bound on the checks that are ever inserted
          MaxTime,     \* bound on the clock
          NoId, NoRow, NoCheck, NoTime

Row   == [name : Names, token : Tokens]
Check == [tunnel : Ids, status : {"up", "down"}, time : Nat]

ASSUME ConstantsAssumption ==
    /\ NoId \notin Ids /\ NoRow \notin Row \cup Tokens /\ NoCheck \notin Check /\ NoTime \notin Nat
    /\ Retention \in Nat /\ MaxChecks \in Nat /\ MaxTime \in Nat
    /\ Windows \subseteq Nat

(* One day, seven and thirty; the checks of 180 days are kept.             *)
ASSUME RetentionAssumption == \A w \in Windows : w <= Retention

VARIABLES
    tunnels,    \* the table of tunnels: the row of each id
    checks,     \* the table of checks; its ids are never used again
    nextCheck,  \* the next of them
    now,        \* the wall clock
    request,    \* a request between the statement that reads and the one that writes
    serving,    \* the tunnel that a goroutine has authenticated
    stamped,    \* the check that it is about to insert
    cleanup,    \* when the running cleanup has read the clock
    drawn,      \* history: ids and tokens that have been drawn at random
    retired,    \* history: tokens that a row had and has no more
    answered    \* history: tokens that requests have answered, with the tunnel

history == <<drawn, retired, answered>>
vars == <<tunnels, checks, nextCheck, now, request, serving, stamped, cleanup, history>>

Idle == [op |-> "none"]

(* updateTunnel keeps the row it has read, with the new name put in.       *)
Request ==
    {Idle} \cup [op : {"update"}, id : Ids, row : Row] \cup [op : {"regenerate"}, id : Ids]

TypeOK ==
    /\ tunnels \in [Ids -> Row \cup {NoRow}]
    /\ checks \in [1 .. MaxChecks -> Check \cup {NoCheck}]
    /\ nextCheck \in 1 .. MaxChecks + 1
    /\ now \in Nat
    /\ request \in [Requests -> Request]
    /\ serving \in [Goroutines -> Ids \cup {NoId}]
    /\ stamped \in [Goroutines -> Check \cup {NoCheck}]
    /\ cleanup \in Nat \cup {NoTime}
    /\ drawn \in [ids : SUBSET Ids, tokens : SUBSET Tokens]
    /\ retired \subseteq Tokens
    /\ answered \subseteq Ids \X Tokens

Init ==
    /\ tunnels = [id \in Ids |-> NoRow]
    /\ checks = [i \in 1 .. MaxChecks |-> NoCheck]
    /\ nextCheck = 1
    /\ now = 0
    /\ request = [r \in Requests |-> Idle]
    /\ serving = [g \in Goroutines |-> NoId]
    /\ stamped = [g \in Goroutines |-> NoCheck]
    /\ cleanup = NoTime
    /\ drawn = [ids |-> {}, tokens |-> {}]
    /\ retired = {}
    /\ answered = {}

-----------------------------------------------------------------------------
(* Helpers.                                                                *)

Stored == {id \in Ids : tunnels[id] # NoRow}

(* UNIQUE: no row but that of id has this name.                            *)
NameFree(name, id) == \A other \in Stored \ {id} : tunnels[other].name # name

(* generateRandomToken: what has been drawn is not drawn again.            *)
FreshTokens == Tokens \ drawn.tokens

Recorded == {i \in 1 .. MaxChecks : checks[i] # NoCheck}

(* calculateUptime: the checks of a tunnel from start to end, both         *)
(* included.                                                               *)
Between(id, start, end) ==
    {i \in Recorded : /\ checks[i].tunnel = id
                      /\ start <= checks[i].time /\ checks[i].time <= end}

(* GetUptimeStats for one window that ends now: the checks that were "up"  *)
(* as a fraction of all checks, and zero if there are none.  A window that *)
(* begins before the clock does begins with it.                            *)
Uptime(id, window) ==
    LET all == Between(id, IF window < now THEN now - window ELSE 0, now)
        up  == {i \in all : checks[i].status = "up"}
    IN IF all = {} THEN <<0, 1>> ELSE <<Cardinality(up), Cardinality(all)>>

-----------------------------------------------------------------------------
(* Tunnels.                                                                *)

(* createTunnel: id and token are drawn, and the row is inserted unless    *)
(* its name is taken; the answer carries the token.                        *)
CreateTunnel(r, id, name, token) ==
    /\ request[r] = Idle
    /\ id \notin drawn.ids /\ token \in FreshTokens
    /\ NameFree(name, id)
    /\ tunnels' = [tunnels EXCEPT ![id] = [name |-> name, token |-> token]]
    /\ drawn' = [ids |-> drawn.ids \cup {id}, tokens |-> drawn.tokens \cup {token}]
    /\ answered' = answered \cup {<<id, token>>}
    /\ UNCHANGED <<checks, nextCheck, now, request, serving, stamped, cleanup, retired>>

(* updateTunnel reads the row; a request that gives no name keeps the one  *)
(* it has read.                                                            *)
UpdateRead(r, id, name) ==
    /\ request[r] = Idle /\ id \in Stored
    /\ request' = [request EXCEPT ![r] =
                     [op |-> "update", id |-> id, row |-> [tunnels[id] EXCEPT !.name = name]]]
    /\ UNCHANGED <<tunnels, checks, nextCheck, now, serving, stamped, cleanup, history>>

(* Mutant: the whole row is written.                                       *)
UpdateWriteWholeRow(r) ==
    /\ request[r].op = "update"
    /\ LET id == request[r].id
       IN tunnels' = IF id \in Stored /\ NameFree(request[r].row.name, id)
                     THEN [tunnels EXCEPT ![id] = request[r].row]
                     ELSE tunnels
    /\ request' = [request EXCEPT ![r] = Idle]
    /\ UNCHANGED <<checks, nextCheck, now, serving, stamped, cleanup, history>>

(* Store.UpdateTunnel: writes the name, and nothing if the row has gone;   *)
(* an error if another row has the name.                                   *)
UpdateWrite(r) ==
    /\ request[r].op = "update"
    /\ LET id == request[r].id
           name == request[r].row.name
       IN tunnels' = IF id \in Stored /\ NameFree(name, id)
                     THEN [tunnels EXCEPT ![id].name = name]
                     ELSE tunnels
    /\ request' = [request EXCEPT ![r] = Idle]
    /\ UNCHANGED <<checks, nextCheck, now, serving, stamped, cleanup, history>>

(* regenerateToken looks whether the tunnel is there.                      *)
RegenerateRead(r, id) ==
    /\ request[r] = Idle /\ id \in Stored
    /\ request' = [request EXCEPT ![r] = [op |-> "regenerate", id |-> id]]
    /\ UNCHANGED <<tunnels, checks, nextCheck, now, serving, stamped, cleanup, history>>

(* Mutants.  A row that has gone is inserted again, under some name; ...   *)
RegenerateWriteOrInsert(r, token) ==
    /\ request[r].op = "regenerate" /\ token \in FreshTokens
    /\ LET id == request[r].id
       IN /\ IF id \in Stored
             THEN /\ tunnels' = [tunnels EXCEPT ![id].token = token]
                  /\ retired' = retired \cup {tunnels[id].token}
             ELSE /\ \E name \in Names :
                       /\ NameFree(name, id)
                       /\ tunnels' = [tunnels EXCEPT ![id] = [name |-> name, token |-> token]]
                  /\ UNCHANGED retired
          /\ answered' = answered \cup {<<id, token>>}
    /\ drawn' = [drawn EXCEPT !.tokens = @ \cup {token}]
    /\ request' = [request EXCEPT ![r] = Idle]
    /\ UNCHANGED <<checks, nextCheck, now, serving, stamped, cleanup>>

(* ... the row is saved with UpdateTunnel, which leaves the token out.     *)
RegenerateWriteName(r, token) ==
    /\ request[r].op = "regenerate" /\ token \in FreshTokens
    /\ answered' = answered \cup {<<request[r].id, token>>}
    /\ drawn' = [drawn EXCEPT !.tokens = @ \cup {token}]
    /\ request' = [request EXCEPT ![r] = Idle]
    /\ UNCHANGED <<tunnels, checks, nextCheck, now, serving, stamped, cleanup, retired>>

(* It draws a token and writes it; a row that has gone by now is no error, *)
(* and the token is answered all the same.                                 *)
RegenerateWrite(r, token) ==
    /\ request[r].op = "regenerate" /\ token \in FreshTokens
    /\ LET id == request[r].id
       IN /\ IF id \in Stored
             THEN /\ tunnels' = [tunnels EXCEPT ![id].token = token]
                  /\ retired' = retired \cup {tunnels[id].token}
             ELSE UNCHANGED <<tunnels, retired>>
          /\ answered' = answered \cup {<<id, token>>}
    /\ drawn' = [drawn EXCEPT !.tokens = @ \cup {token}]
    /\ request' = [request EXCEPT ![r] = Idle]
    /\ UNCHANGED <<checks, nextCheck, now, serving, stamped, cleanup>>

(* Store.DeleteTunnel, of deleteTunnel: the row goes and its checks with   *)
(* it.  (The services go before it, see TcpServices.)                      *)
DeleteTunnel(r, id) ==
    /\ request[r] = Idle /\ id \in Stored
    /\ tunnels' = [tunnels EXCEPT ![id] = NoRow]
    /\ checks' = [i \in 1 .. MaxChecks |->
                    IF i \in Recorded /\ checks[i].tunnel = id THEN NoCheck ELSE checks[i]]
    /\ retired' = retired \cup {tunnels[id].token}
    /\ UNCHANGED <<nextCheck, now, request, serving, stamped, cleanup, drawn, answered>>

-----------------------------------------------------------------------------
(* Checks.                                                                 *)

(* HandleWebSocket: the tunnel whose token the client has sent.  From here *)
(* on only its id is used.                                                 *)
Authenticate(g, token) ==
    /\ serving[g] = NoId
    /\ \E id \in Stored : /\ tunnels[id].token = token
                          /\ serving' = [serving EXCEPT ![g] = id]
    /\ UNCHANGED <<tunnels, checks, nextCheck, now, request, stamped, cleanup, history>>

(* Mutant: the check is made without its time.                             *)
StampCheckWithoutTime(g, status) ==
    /\ serving[g] # NoId /\ stamped[g] = NoCheck
    /\ stamped' = [stamped EXCEPT ![g] =
                     [tunnel |-> serving[g], status |-> status, time |-> NoTime]]
    /\ UNCHANGED <<tunnels, checks, nextCheck, now, request, serving, cleanup, history>>

(* A check is given its time: connection, ping, timeout or disconnection.  *)
StampCheck(g, status) ==
    /\ serving[g] # NoId /\ stamped[g] = NoCheck
    /\ stamped' = [stamped EXCEPT ![g] =
                     [tunnel |-> serving[g], status |-> status, time |-> now]]
    /\ UNCHANGED <<tunnels, checks, nextCheck, now, request, serving, cleanup, history>>

(* Mutant: foreign keys are off.                                           *)
CreateCheckUnchecked(g) ==
    /\ stamped[g] # NoCheck /\ nextCheck <= MaxChecks
    /\ checks' = [checks EXCEPT ![nextCheck] = stamped[g]]
    /\ nextCheck' = nextCheck + 1
    /\ stamped' = [stamped EXCEPT ![g] = NoCheck]
    /\ UNCHANGED <<tunnels, now, request, serving, cleanup, history>>

(* Store.CreateCheck: the foreign key refuses a check whose tunnel has     *)
(* gone, which is only logged.                                             *)
CreateCheck(g) ==
    /\ stamped[g] # NoCheck
    /\ IF stamped[g].tunnel \in Stored
       THEN /\ nextCheck <= MaxChecks
            /\ checks' = [checks EXCEPT ![nextCheck] = stamped[g]]
            /\ nextCheck' = nextCheck + 1
       ELSE UNCHANGED <<checks, nextCheck>>
    /\ stamped' = [stamped EXCEPT ![g] = NoCheck]
    /\ UNCHANGED <<tunnels, now, request, serving, cleanup, history>>

(* The connection has ended.                                               *)
Leave(g) ==
    /\ serving[g] # NoId /\ stamped[g] = NoCheck
    /\ serving' = [serving EXCEPT ![g] = NoId]
    /\ UNCHANGED <<tunnels, checks, nextCheck, now, request, stamped, cleanup, history>>

(* cleanupRoutine: CleanupOldChecks computes the time before which checks  *)
(* are removed, ...                                                        *)
StartCleanup ==
    /\ cleanup = NoTime
    /\ cleanup' = now
    /\ UNCHANGED <<tunnels, checks, nextCheck, now, request, serving, stamped, history>>

(* Mutant: what is older than the age is kept, the rest is removed.        *)
CleanupRecentChecks ==
    /\ cleanup # NoTime
    /\ checks' = [i \in 1 .. MaxChecks |->
                    IF i \in Recorded /\ checks[i].time + Retention >= cleanup
                    THEN NoCheck ELSE checks[i]]
    /\ cleanup' = NoTime
    /\ UNCHANGED <<tunnels, nextCheck, now, request, serving, stamped, history>>

(* ... and removes them.                                                   *)
CleanupOldChecks ==
    /\ cleanup # NoTime
    /\ checks' = [i \in 1 .. MaxChecks |->
                    IF i \in Recorded /\ checks[i].time + Retention < cleanup
                    THEN NoCheck ELSE checks[i]]
    /\ cleanup' = NoTime
    /\ UNCHANGED <<tunnels, nextCheck, now, request, serving, stamped, history>>

-----------------------------------------------------------------------------
(* A statement that writes fails, say on a locked database: the request    *)
(* answers an error, and the goroutines only log it.                       *)
RequestFails(r) ==
    /\ request[r] # Idle
    /\ request' = [request EXCEPT ![r] = Idle]
    /\ UNCHANGED <<tunnels, checks, nextCheck, now, serving, stamped, cleanup, history>>

CheckFails(g) ==
    /\ stamped[g] # NoCheck
    /\ stamped' = [stamped EXCEPT ![g] = NoCheck]
    /\ UNCHANGED <<tunnels, checks, nextCheck, now, request, serving, cleanup, history>>

CleanupFails ==
    /\ cleanup # NoTime
    /\ cleanup' = NoTime
    /\ UNCHANGED <<tunnels, checks, nextCheck, now, request, serving, stamped, history>>

Tick ==
    /\ now < MaxTime
    /\ now' = now + 1
    /\ UNCHANGED <<tunnels, checks, nextCheck, request, serving, stamped, cleanup, history>>

(* The server ends, by a signal or a panic, and is started again: what was *)
(* written stays, what was under way is gone.                              *)
Restart ==
    /\ request' = [r \in Requests |-> Idle]
    /\ serving' = [g \in Goroutines |-> NoId]
    /\ stamped' = [g \in Goroutines |-> NoCheck]
    /\ cleanup' = NoTime
    /\ UNCHANGED <<tunnels, checks, nextCheck, now, history>>

TunnelNext ==
    \E r \in Requests :
      \/ \E id \in Ids, name \in Names, token \in Tokens : CreateTunnel(r, id, name, token)
      \/ \E id \in Ids, name \in Names : UpdateRead(r, id, name)
      \/ UpdateWrite(r)
      \/ \E id \in Ids : RegenerateRead(r, id) \/ DeleteTunnel(r, id)
      \/ \E token \in Tokens : RegenerateWrite(r, token)
      \/ RequestFails(r)

CheckNext ==
    \/ \E g \in Goroutines :
         \/ \E token \in Tokens : Authenticate(g, token)
         \/ \E status \in {"up", "down"} : StampCheck(g, status)
         \/ CreateCheck(g) \/ CheckFails(g) \/ Leave(g)
    \/ StartCleanup \/ CleanupOldChecks \/ CleanupFails

Next == TunnelNext \/ CheckNext \/ Tick \/ Restart

Spec == Init /\ [][Next]_vars

-----------------------------------------------------------------------------
(* Properties.                                                             *)

(* A token that was replaced or whose tunnel was deleted belongs to no row *)
(* again, so that GetTunnelByToken refuses it: also when a request that    *)
(* has read the row before (api.go:164) writes it afterwards.              *)
RetiredTokensRejected ==
    \A id \in Stored : tunnels[id].token \notin retired

(* A token that the API has answered opens its tunnel until it is replaced *)
(* or the tunnel is deleted, whatever the requests in between write.       *)
AnsweredTokensWork ==
    \A id \in Stored, token \in Tokens :
      <<id, token>> \in answered => token \in retired \/ tunnels[id].token = token

(* The tokens are a TunnelAccess, with the names, the checks, the requests *)
(* that read before they write, and the restarts hidden.                   *)
Access == INSTANCE TunnelAccess WITH
    NoToken <- NoRow,
    access <- [id \in Ids |-> IF tunnels[id] = NoRow THEN NoRow ELSE tunnels[id].token],
    ids <- drawn.ids,
    tokens <- drawn.tokens

ImplementsAccess == Access!Spec

(* Only a tunnel in the table has checks: one stamped before the deletion  *)
(* of its tunnel is not inserted after it.                                 *)
ChecksHaveTunnels ==
    \A i \in Recorded : checks[i].tunnel \in Stored

(* A tunnel that has been deleted is not brought back by a request that    *)
(* has read its row before, nor by a restart.                              *)
DeletedTunnelsStayDeleted ==
    [][\A id \in drawn.ids \ Stored : id \notin Stored']_vars

(* The cleanup changes no uptime that getStats reports, for any tunnel and *)
(* any window, whenever it has read the clock.                             *)
CleanupKeepsStats ==
    [][cleanup # NoTime /\ cleanup' = NoTime
       => \A id \in Ids, w \in Windows : Uptime(id, w)' = Uptime(id, w)]_vars
=============================================================================
