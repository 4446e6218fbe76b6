---------------------------- MODULE TunnelManager ----------------------------
(***************************************************************************)
(* The server's tunnel manager (internal/server/tunnel.go): the map from a *)
(* tunnel to its connection, and the goroutines that race on it:           *)
(*   - one HandleWebSocket goroutine per connection (hpc), which           *)
(*     registers the connection, polls it and unregisters it;              *)
(*   - one control goroutine per connection (cpc), which reads messages;   *)
(*   - the health check, the daily cleanup, the shutdown sequence of       *)
(*     Server.Stop, and the lookups that the proxies and the API make.     *)
(* The two mutexes are modelled where a goroutine can block holding them:  *)
(* tm.mu of the manager and c.mu of each connection.  A critical section   *)
(* that cannot block is one action.  Of the store there is only which      *)
(* goroutines use it and when: its tables, and with them which token opens *)
(* which tunnel, are modelled in Management.                               *)
(***************************************************************************)
EXTENDS Naturals, FiniteSets

CONSTANTS Tunnels,     \* tunnel ids
          Conns,       \* the connections the clients open, one each
          Events,      \* what the environment does, out of AllEvents
          Lookups,     \* goroutines that call GetConnection
          StaleAfter,  \* ping intervals without a pong that LastPing may be old
          NoTunnel, NoConn

Free == "free"
AllEvents == {"drop", "tick", "stop", "cleanup"}
Threads == Conns \cup {"health", "stop"}

ASSUME ConstantsAssumption ==
    /\ Events \subseteq AllEvents
    /\ NoConn \notin Conns
    /\ NoTunnel \notin Tunnels
    /\ Conns \cap {"health", "stop", "control", "cleanup", Free} = {}
    /\ StaleAfter \in Nat

VARIABLES
    refused,      \* goroutines whose statement the closed store refused: a
                  \* history variable, no step depends on it
    connections,  \* tm.connections
    tunnelOf,     \* the tunnel that the handler's token belongs to
    conn,         \* state of the Connection: not created, usable, broken, closed
    age,          \* ping intervals since LastPing
    hpc, cpc,     \* where the handler and the control goroutine are
    writer,       \* the goroutine inside c.mu.Lock() waiting for the reader
    lookup,       \* connection whose IsClosed a lookup awaits, holding tm.mu.RLock
    healthPc, healthTodo, healthConn,
    cleanup,      \* where cleanupRoutine is
    stop          \* progress of Server.Stop

mapVars    == <<connections, tunnelOf>>
connVars   == <<conn, age, writer>>
goVars     == <<hpc, cpc>>
routineVars == <<healthPc, healthTodo, healthConn, cleanup>>
vars == <<refused, connections, tunnelOf, conn, age, hpc, cpc, writer,
          lookup, healthPc, healthTodo, healthConn, cleanup, stop>>

HandlerStates == {"new", "registering", "evicting", "recording",
                  "serving", "closing", "unregistering", "gone"}
ControlStates == {"none", "loop", "enter", "reading", "pong", "record", "touch",
                  "done"}
StopStates == {"running", "locking", "closing", "waiting", "stopped", "storeClosed"}

(* Handler states in which the connection has been put in the map and the  *)
(* deferred unregisterConnection has not run yet.                          *)
Registered == {"recording", "serving", "closing", "unregistering"}

TypeOK ==
    /\ refused \subseteq Conns \cup {"control", "health", "cleanup"}
    /\ connections \in [Tunnels -> Conns \cup {NoConn}]
    /\ tunnelOf \in [Conns -> Tunnels \cup {NoTunnel}]
    /\ conn \in [Conns -> {"none", "up", "dead", "closed"}]
    /\ age \in [Conns -> 0 .. StaleAfter + 1]
    /\ hpc \in [Conns -> HandlerStates]
    /\ cpc \in [Conns -> ControlStates]
    /\ writer \in [Conns -> Threads \cup {Free}]
    /\ lookup \in [Lookups -> Conns \cup {NoConn}]
    /\ healthPc \in {"idle", "round", "ping", "close", "record", "done"}
    /\ healthTodo \subseteq Conns
    /\ healthConn \in Conns \cup {NoConn}
    /\ cleanup \in {"waiting", "deleting", "done"}
    /\ stop \in StopStates

Init ==
    /\ refused = {}
    /\ connections = [t \in Tunnels |-> NoConn]
    /\ tunnelOf = [c \in Conns |-> NoTunnel]
    /\ conn = [c \in Conns |-> "none"]
    /\ age = [c \in Conns |-> 0]
    /\ hpc = [c \in Conns |-> "new"]
    /\ cpc = [c \in Conns |-> "none"]
    /\ writer = [c \in Conns |-> Free]
    /\ lookup = [r \in Lookups |-> NoConn]
    /\ healthPc = "idle" /\ healthTodo = {} /\ healthConn = NoConn
    /\ cleanup = "waiting"
    /\ stop = "running"

-----------------------------------------------------------------------------
(* Helpers: the context, the two mutexes, the store.                       *)

CtxDone == stop # "running"

IsOpen(c) == conn[c] \in {"up", "dead"}

(* tm.mu: the write lock is held by a handler that is closing the          *)
(* connection it replaces, and by Stop while it closes the connections;    *)
(* the read lock by a lookup that waits in IsClosed.                       *)
WriteHeld == stop = "closing" \/ \E c \in Conns : hpc[c] = "evicting"
TmFree    == ~WriteHeld /\ \A r \in Lookups : lookup[r] = NoConn

(* c.mu: only ReadMessage keeps the read lock while it blocks.  Go blocks  *)
(* new readers as soon as a writer waits.                                  *)
CanRead(c)      == writer[c] = Free
CanWriteBesideReader(c, th) == writer[c] \in {Free, th}            \* mutant
CanWrite(c, th) == writer[c] \in {Free, th} /\ cpc[c] # "reading"
AcquiredStillPending(c) == UNCHANGED writer                       \* mutant
Acquired(c)     == writer' = [writer EXCEPT ![c] = Free]

(* Connection.Close, once the lock is held.                                *)
SetClosed(c) == conn' = [conn EXCEPT ![c] = "closed"]

(* time.Since(conn.LastPing()) > PingInterval*3                            *)
NeverStale(c) == FALSE                                            \* mutant
Stale(c) == age[c] > StaleAfter

(* tm.wg counts the two routines of Start and the control goroutines; the  *)
(* handlers are goroutines of net/http and nobody waits for them.          *)
WaitGroupOfStart == healthPc = "done" /\ cleanup = "done"         \* mutant
WaitGroupDone ==
    /\ healthPc = "done" /\ cleanup = "done"
    /\ \A c \in Conns : cpc[c] \in {"none", "done"}

(* A statement of the goroutine who: an error once the store is closed,    *)
(* which every caller logs and nothing more.                               *)
UseStore(who) ==
    refused' = IF stop = "storeClosed" THEN refused \cup {who} ELSE refused

(* The connection whose c.mu.Lock() a goroutine is about to call.          *)
WantsLock(th, c) ==
    \/ th \in Conns /\ hpc[th] = "evicting" /\ c = connections[tunnelOf[th]]
    \/ th \in Conns /\ hpc[th] = "closing" /\ c = th
    \/ th = "health" /\ healthPc \in {"ping", "close"} /\ c = healthConn
    \/ th = "stop" /\ stop = "closing" /\ conn[c] # "closed"
          /\ c \in {connections[t] : t \in Tunnels}
          /\ \A d \in Conns : writer[d] # "stop"

(* Lock() finds ReadMessage inside and waits; from here on no new reader   *)
(* gets in.                                                                *)
WaitForReader(th, c) ==
    /\ WantsLock(th, c)
    /\ cpc[c] = "reading" /\ writer[c] = Free
    /\ writer' = [writer EXCEPT ![c] = th]
    /\ UNCHANGED <<refused, mapVars, conn, age, goVars, lookup, routineVars, stop>>

-----------------------------------------------------------------------------
(* HandleWebSocket, one goroutine per connection c.                        *)

(* Token lookup and upgrade.                                               *)
OpenWebSocket(c, t) ==
    /\ hpc[c] = "new" /\ ~CtxDone
    /\ tunnelOf' = [tunnelOf EXCEPT ![c] = t]
    /\ conn' = [conn EXCEPT ![c] = "up"]
    /\ hpc' = [hpc EXCEPT ![c] = "registering"]
    /\ UNCHANGED <<refused, connections, age, writer, cpc, lookup, routineVars, stop>>

(* An unknown token or a failed upgrade.                                   *)
Refuse(c) ==
    /\ hpc[c] = "new"
    /\ hpc' = [hpc EXCEPT ![c] = "gone"]
    /\ UNCHANGED <<refused, mapVars, connVars, cpc, lookup, routineVars, stop>>

(* registerConnection when the map has no connection for the tunnel.       *)
Register(c) ==
    /\ hpc[c] = "registering" /\ TmFree
    /\ connections[tunnelOf[c]] = NoConn
    /\ connections' = [connections EXCEPT ![tunnelOf[c]] = c]
    /\ hpc' = [hpc EXCEPT ![c] = "recording"]
    /\ UNCHANGED <<refused, tunnelOf, connVars, cpc, lookup, routineVars, stop>>

(* registerConnection when it has one: tm.mu is taken and kept ...         *)
BeginEvict(c) ==
    /\ hpc[c] = "registering" /\ TmFree
    /\ connections[tunnelOf[c]] # NoConn
    /\ hpc' = [hpc EXCEPT ![c] = "evicting"]
    /\ UNCHANGED <<refused, mapVars, connVars, cpc, lookup, routineVars, stop>>

EvictLeavingOpen(c) ==                                            \* mutant
    /\ hpc[c] = "evicting"
    /\ connections' = [connections EXCEPT ![tunnelOf[c]] = c]
    /\ hpc' = [hpc EXCEPT ![c] = "recording"]
    /\ UNCHANGED <<refused, tunnelOf, connVars, cpc, lookup, routineVars, stop>>

(* ... until existing.Close() has got the old connection's c.mu.           *)
Evict(c) ==
    LET existing == connections[tunnelOf[c]] IN
    /\ hpc[c] = "evicting"
    /\ CanWrite(existing, c) /\ Acquired(existing)
    /\ SetClosed(existing)
    /\ connections' = [connections EXCEPT ![tunnelOf[c]] = c]
    /\ hpc' = [hpc EXCEPT ![c] = "recording"]
    /\ UNCHANGED <<refused, tunnelOf, age, cpc, lookup, routineVars, stop>>

(* The "up" check, then handleConnection starts the control goroutine.     *)
RecordConnection(c) ==
    /\ hpc[c] = "recording"
    /\ UseStore(c)
    /\ hpc' = [hpc EXCEPT ![c] = "serving"]
    /\ cpc' = [cpc EXCEPT ![c] = "loop"]
    /\ UNCHANGED <<mapVars, connVars, lookup, routineVars, stop>>

PollIgnoringContext(c) ==                                         \* mutant
    /\ hpc[c] = "serving" /\ CanRead(c) /\ conn[c] = "closed"
    /\ hpc' = [hpc EXCEPT ![c] = "closing"]
    /\ UNCHANGED <<refused, mapVars, connVars, cpc, lookup, routineVars, stop>>

(* The one-second poll of handleConnection that ends its loop.             *)
Poll(c) ==
    /\ hpc[c] = "serving"
    /\ CtxDone \/ (CanRead(c) /\ conn[c] = "closed")
    /\ hpc' = [hpc EXCEPT ![c] = "closing"]
    /\ UNCHANGED <<refused, mapVars, connVars, cpc, lookup, routineVars, stop>>

CloseOwnSkipped(c) ==                                             \* mutant
    /\ hpc[c] = "closing"
    /\ hpc' = [hpc EXCEPT ![c] = "unregistering"]
    /\ UNCHANGED <<refused, mapVars, connVars, cpc, lookup, routineVars, stop>>

(* defer conn.Close() of handleConnection.                                 *)
CloseOwn(c) ==
    /\ hpc[c] = "closing"
    /\ CanWrite(c, c) /\ Acquired(c)
    /\ SetClosed(c)
    /\ hpc' = [hpc EXCEPT ![c] = "unregistering"]
    /\ UNCHANGED <<refused, mapVars, age, cpc, lookup, routineVars, stop>>

DeleteNothing(t) == UNCHANGED connections                         \* mutant

(* defer tm.unregisterConnection: delete(tm.connections, tunnelID) takes   *)
(* the tunnel's entry out whichever connection it holds.                   *)
Delete(t) == connections' = [connections EXCEPT ![t] = NoConn]

Unregister(c) ==
    /\ hpc[c] = "unregistering" /\ TmFree
    /\ Delete(tunnelOf[c])
    /\ UseStore(c)
    /\ hpc' = [hpc EXCEPT ![c] = "gone"]
    /\ UNCHANGED <<tunnelOf, connVars, cpc, lookup, routineVars, stop>>

HandlerStep(c) ==
    \/ Register(c) \/ BeginEvict(c) \/ Evict(c)
    \/ RecordConnection(c) \/ Poll(c) \/ CloseOwn(c) \/ Unregister(c)
    \/ \E d \in Conns : WaitForReader(c, d)

-----------------------------------------------------------------------------
(* handleControlMessages, one goroutine per connection c.                  *)

GoControl(c, from, to) ==
    /\ cpc[c] = from
    /\ cpc' = [cpc EXCEPT ![c] = to]
    /\ UNCHANGED <<mapVars, conn, writer, hpc, lookup, routineVars, stop>>

CheckContext(c) ==
    /\ GoControl(c, "loop", IF CtxDone THEN "done" ELSE "enter")
    /\ UNCHANGED <<refused, age>>

(* IsClosed, then ReadMessage takes c.mu.RLock and blocks with it.         *)
EnterRead(c) ==
    /\ CanRead(c)
    /\ GoControl(c, "enter", IF conn[c] = "closed" THEN "done" ELSE "reading")
    /\ UNCHANGED <<refused, age>>

(* ReadMessage returns a ping, a pong or a message of another type.        *)
ReadMessage(c) ==
    /\ conn[c] = "up"
    /\ \E next \in {"pong", "touch", "loop"} : GoControl(c, "reading", next)
    /\ UNCHANGED <<refused, age>>

ReadFailsWithoutDeadline(c) ==                                    \* mutant
    /\ conn[c] # "up" /\ GoControl(c, "reading", "done")
    /\ UNCHANGED <<refused, age>>

(* The read deadline, a broken socket or a frame that is not a control     *)
(* message: the goroutine returns and leaves the connection as it is.      *)
ReadFails(c) ==
    /\ GoControl(c, "reading", "done")
    /\ UNCHANGED <<refused, age>>

(* conn.Pong(): fails on a closed connection, may fail on a broken one.    *)
Pong(c) ==
    /\ CanWrite(c, Free)
    /\ \/ IsOpen(c) /\ GoControl(c, "pong", "record")
       \/ conn[c] # "up" /\ GoControl(c, "pong", "done")
    /\ UNCHANGED <<refused, age>>

RecordPing(c) ==
    /\ GoControl(c, "record", "loop")
    /\ UseStore("control")
    /\ UNCHANGED age

(* UpdateLastPing after a "pong".                                          *)
UpdateLastPing(c) ==
    /\ CanWrite(c, Free)
    /\ GoControl(c, "touch", "loop")
    /\ age' = [age EXCEPT ![c] = 0]
    /\ UNCHANGED refused

ControlStep(c) ==
    \/ CheckContext(c) \/ EnterRead(c) \/ ReadFails(c)
    \/ Pong(c) \/ RecordPing(c) \/ UpdateLastPing(c)

-----------------------------------------------------------------------------
(* healthCheckRoutine and performHealthChecks.                             *)

HealthSnapshotOfKeys ==                                           \* mutant
    /\ healthPc = "idle" /\ ~WriteHeld
    /\ healthTodo' = {connections[t] : t \in Tunnels}
    /\ healthTodo' # {}
    /\ healthPc' = "round"
    /\ UNCHANGED <<refused, mapVars, connVars, goVars, lookup, healthConn, cleanup,
                   stop>>

(* A tick: snapshot of the map under tm.mu.RLock.  The key of an entry is  *)
(* always tunnelOf of its connection (EntriesOwned), so a set will do.     *)
(* A tick that is due when the context is cancelled may still be taken:    *)
(* select chooses at random among the channels that are ready.             *)
HealthSnapshot ==
    /\ healthPc = "idle" /\ ~WriteHeld
    /\ healthTodo' = {connections[t] : t \in Tunnels} \ {NoConn}
    /\ healthTodo' # {}
    /\ healthPc' = "round"
    /\ UNCHANGED <<refused, mapVars, connVars, goVars, lookup, healthConn, cleanup,
                   stop>>

(* One connection of the snapshot: skipped if closed, closed if LastPing   *)
(* is too old, pinged otherwise.                                           *)
HealthInspect(c) ==
    /\ healthPc = "round" /\ c \in healthTodo /\ CanRead(c)
    /\ healthTodo' = healthTodo \ {c}
    /\ IF conn[c] = "closed"
       THEN UNCHANGED <<healthPc, healthConn>>
       ELSE /\ healthPc' = IF Stale(c) THEN "close" ELSE "ping"
            /\ healthConn' = c
    /\ UNCHANGED <<refused, mapVars, connVars, goVars, lookup, cleanup, stop>>

HealthPing ==
    /\ healthPc = "ping"
    /\ CanWrite(healthConn, "health") /\ Acquired(healthConn)
    /\ \/ IsOpen(healthConn) /\ healthPc' = "round" /\ healthConn' = NoConn
       \/ conn[healthConn] # "up" /\ healthPc' = "close" /\ UNCHANGED healthConn
    /\ UNCHANGED <<refused, mapVars, conn, age, goVars, lookup, healthTodo, cleanup,
                   stop>>

HealthClose ==
    /\ healthPc = "close"
    /\ CanWrite(healthConn, "health") /\ Acquired(healthConn)
    /\ SetClosed(healthConn)
    /\ healthPc' = "record"
    /\ UNCHANGED <<refused, mapVars, age, goVars, lookup, healthTodo, healthConn, cleanup,
                   stop>>

HealthRecord ==
    /\ healthPc = "record"
    /\ UseStore("health")
    /\ healthPc' = "round" /\ healthConn' = NoConn
    /\ UNCHANGED <<mapVars, connVars, goVars, lookup, healthTodo, cleanup, stop>>

HealthRoundDone ==
    /\ healthPc = "round" /\ healthTodo = {}
    /\ healthPc' = "idle"
    /\ UNCHANGED <<refused, mapVars, connVars, goVars, lookup, healthTodo, healthConn,
                   cleanup, stop>>

(* select on ctx.Done() between two rounds.                                *)
HealthExit ==
    /\ healthPc = "idle" /\ CtxDone
    /\ healthPc' = "done"
    /\ UNCHANGED <<refused, mapVars, connVars, goVars, lookup, healthTodo, healthConn,
                   cleanup, stop>>

HealthStep ==
    \/ HealthSnapshot \/ HealthPing \/ HealthClose \/ HealthRecord
    \/ HealthRoundDone \/ HealthExit
    \/ \E c \in Conns : HealthInspect(c) \/ WaitForReader("health", c)

-----------------------------------------------------------------------------
(* cleanupRoutine: the daily tick, which like the health check's may win   *)
(* against the cancelled context, Store.CleanupOldChecks, and the return.  *)

CleanupTick ==
    /\ "cleanup" \in Events /\ cleanup = "waiting"
    /\ cleanup' = "deleting"
    /\ UNCHANGED <<refused, mapVars, connVars, goVars, lookup, healthPc, healthTodo,
                   healthConn, stop>>

CleanupOldChecks ==
    /\ cleanup = "deleting"
    /\ UseStore("cleanup")
    /\ cleanup' = "waiting"
    /\ UNCHANGED <<mapVars, connVars, goVars, lookup, healthPc, healthTodo,
                   healthConn, stop>>

CleanupExit ==
    /\ cleanup = "waiting" /\ CtxDone
    /\ cleanup' = "done"
    /\ UNCHANGED <<refused, mapVars, connVars, goVars, lookup, healthPc, healthTodo,
                   healthConn, stop>>

CleanupStep == CleanupTick \/ CleanupOldChecks \/ CleanupExit

-----------------------------------------------------------------------------
(* Server.Stop: TunnelManager.Stop, then Store.Close.                      *)

StopTo(from, to) ==
    /\ stop = from /\ stop' = to
    /\ UNCHANGED <<refused, mapVars, connVars, goVars, lookup, routineVars>>

StopCancel == "stop" \in Events /\ StopTo("running", "locking")

StopLock ==
    /\ StopTo("locking", "closing") /\ TmFree

StopClose(c) ==
    /\ stop = "closing" /\ conn[c] # "closed"
    /\ c \in {connections[t] : t \in Tunnels}
    /\ \A d \in Conns \ {c} : writer[d] # "stop"
    /\ CanWrite(c, "stop") /\ Acquired(c)
    /\ SetClosed(c)
    /\ UNCHANGED <<refused, mapVars, age, goVars, lookup, routineVars, stop>>

StopUnlock ==
    /\ StopTo("closing", "waiting")
    /\ \A t \in Tunnels : connections[t] # NoConn => conn[connections[t]] = "closed"

StopWait ==
    /\ StopTo("waiting", "stopped") /\ WaitGroupDone

CloseStore == StopTo("stopped", "storeClosed")

StopStep ==
    \/ StopLock \/ StopUnlock \/ StopWait \/ CloseStore
    \/ \E c \in Conns : StopClose(c) \/ WaitForReader("stop", c)

-----------------------------------------------------------------------------
(* GetConnection, IsConnected and ListConnectedTunnels, called by the      *)
(* proxies, the API and the health endpoint: IsClosed is called with       *)
(* tm.mu.RLock held.                                                       *)

GetConnection(r, t) ==
    /\ lookup[r] = NoConn /\ connections[t] # NoConn /\ ~WriteHeld
    /\ lookup' = [lookup EXCEPT ![r] = connections[t]]
    /\ UNCHANGED <<refused, mapVars, connVars, goVars, routineVars, stop>>

LookupReturns(r) ==
    /\ lookup[r] # NoConn /\ CanRead(lookup[r])
    /\ lookup' = [lookup EXCEPT ![r] = NoConn]
    /\ UNCHANGED <<refused, mapVars, connVars, goVars, routineVars, stop>>

-----------------------------------------------------------------------------
(* The environment: time and the network.                                  *)

(* A ping interval passes; ages beyond the staleness limit are not told    *)
(* apart.                                                                  *)
Tick ==
    /\ "tick" \in Events
    /\ age' = [c \in Conns |-> IF IsOpen(c) /\ age[c] <= StaleAfter
                               THEN age[c] + 1 ELSE age[c]]
    /\ age' # age
    /\ UNCHANGED <<refused, mapVars, conn, writer, goVars, lookup, routineVars, stop>>

(* The peer or the network goes away, or the yamux session ends: the       *)
(* Connection is broken, its closed flag is not set.                       *)
NetworkDrop(c) ==
    /\ "drop" \in Events /\ conn[c] = "up"
    /\ conn' = [conn EXCEPT ![c] = "dead"]
    /\ UNCHANGED <<refused, mapVars, age, writer, goVars, lookup, routineVars, stop>>

(* The process is about to exit.                                           *)
Terminated ==
    /\ stop = "storeClosed"
    /\ \A c \in Conns : hpc[c] \in {"new", "gone"}
    /\ UNCHANGED vars

Next ==
    \/ \E c \in Conns, t \in Tunnels : OpenWebSocket(c, t)
    \/ \E c \in Conns : Refuse(c) \/ HandlerStep(c) \/ ControlStep(c) \/ ReadMessage(c)
    \/ \E c \in Conns : NetworkDrop(c)
    \/ HealthStep \/ CleanupStep
    \/ StopCancel \/ StopStep
    \/ \E r \in Lookups : LookupReturns(r) \/ \E t \in Tunnels : GetConnection(r, t)
    \/ Tick
    \/ Terminated

Spec == Init /\ [][Next]_vars

(* Goroutines that can run do run.  Strong fairness where a lock that      *)
(* others keep taking has to be found free: sync.RWMutex starves neither a *)
(* writer (new readers wait behind it) nor a reader (the waiting ones are  *)
(* let in after each writer).  ReadMessage sets a 60 s read deadline, so a *)
(* read that gets no message fails: ReadFails is a step of the control     *)
(* goroutine like any other.  The cleanup, which finds the context         *)
(* cancelled at one select after another, takes that case some time,       *)
(* select being random; the health check has nothing to do once the        *)
(* handlers have emptied the map.  Clients, the network, the daily tick    *)
(* and the signal that stops the server owe nothing.                       *)
Fairness ==
    /\ \A c \in Conns : SF_vars(HandlerStep(c)) /\ WF_vars(ControlStep(c))
    /\ \A r \in Lookups : SF_vars(LookupReturns(r))
    /\ WF_vars(HealthStep) /\ WF_vars(Tick)
    /\ WF_vars(CleanupOldChecks) /\ SF_vars(CleanupExit)
    /\ SF_vars(StopStep)

FairSpec == Spec /\ Fairness

-----------------------------------------------------------------------------
(* Safety.                                                                 *)

(* An entry of tm.connections belongs to a handler that validated a token  *)
(* of that tunnel and has not run its deferred unregisterConnection: no    *)
(* entry is left behind by a handler that has returned, however handlers   *)
(* of the same tunnel overlap.                                             *)
EntriesOwned ==
    \A t \in Tunnels : connections[t] # NoConn =>
        /\ tunnelOf[connections[t]] = t
        /\ hpc[connections[t]] \in Registered

(* When HandleWebSocket has returned, its Connection is closed and nothing *)
(* it started can block on the socket: the handler leaks nothing.          *)
HandlerLeavesNothing ==
    \A c \in Conns : hpc[c] = "gone" =>
        /\ ~IsOpen(c)
        /\ cpc[c] # "reading"

(* Connection.Close never closes the socket under its own ReadMessage:     *)
(* the control goroutine blocks in ReadMessage only while the connection   *)
(* is not closed.                                                          *)
ReaderHoldsOpen == \A c \in Conns : cpc[c] = "reading" => IsOpen(c)

Awaits(th, c) ==
    \/ th \in Conns /\ hpc[th] = "evicting" /\ c = connections[tunnelOf[th]]
    \/ th \in Conns /\ hpc[th] = "closing" /\ c = th
    \/ th = "health" /\ healthPc \in {"ping", "close"} /\ c = healthConn
    \/ th = "stop" /\ stop = "closing" /\ IsOpen(c)

(* A writer that keeps readers out of c.mu is a goroutine that still waits *)
(* for that very connection: no pending Lock is abandoned, which would     *)
(* block IsClosed, and with it tm.mu, for good.                            *)
PendingWriterWaits ==
    \A c \in Conns : writer[c] # Free => Awaits(writer[c], c)

(* Evict, CloseOwn, HealthPing or HealthClose, or StopClose can run.       *)
CanLock(th, c) ==
    /\ Awaits(th, c) /\ CanWrite(c, th)
    /\ th = "stop" => /\ c \in {connections[t] : t \in Tunnels}
                      /\ \A d \in Conns \ {c} : writer[d] # "stop"

(* The mutexes cannot deadlock, although tm.mu is held while a c.mu is     *)
(* awaited, which ReadMessage holds while it blocks: whenever a lock is    *)
(* held across a wait or somebody waits for one, somebody who holds one or *)
(* is next to get it can run (ReadMessage until its deadline).             *)
NoLockDeadlock ==
    \/ WriteHeld
    \/ \E r \in Lookups : lookup[r] # NoConn
    \/ \E c \in Conns : writer[c] # Free
    =>
    \/ \E c \in Conns : cpc[c] = "reading"
    \/ \E th \in Threads, c \in Conns : CanLock(th, c)
    \/ \E r \in Lookups : lookup[r] # NoConn /\ CanRead(lookup[r])
    \/ stop = "closing" /\ \A t \in Tunnels :
           connections[t] # NoConn => conn[connections[t]] = "closed"

(* While its handler runs, an open connection is missing from its tunnel's *)
(* entry only if the handler of some other connection of the same tunnel   *)
(* has returned: handlers that replace one another never lose or overwrite *)
(* a connection that they leave open.                                      *)
LostOnlyByUnregister ==
    \A c \in Conns :
        hpc[c] \in Registered /\ IsOpen(c) /\ connections[tunnelOf[c]] # c =>
            \E d \in Conns \ {c} : tunnelOf[d] = tunnelOf[c] /\ hpc[d] = "gone"

(* wg.Wait leaves nothing of the manager running but handlers: when        *)
(* TunnelManager.Stop has returned, the health check and the cleanup are   *)
(* over, and no control goroutine touches a socket or writes a check, not  *)
(* even one that a handler starts after Stop has returned.  The handlers   *)
(* are the one exception, which nobody waits for: theirs are the only      *)
(* statements that can find the store closed.                              *)
OnlyHandlersOutliveStop ==
    /\ stop \in {"stopped", "storeClosed"} =>
           /\ healthPc = "done" /\ cleanup = "done"
           /\ \A c \in Conns : cpc[c] \in {"none", "loop", "done"}
    /\ refused \subseteq Conns

(* The map is a TunnelRegistry, with the handlers, the locks, the health   *)
(* check and the shutdown hidden.                                          *)
Registry == INSTANCE TunnelRegistry WITH
    open <- {c \in Conns : IsOpen(c)},
    entered <- {c \in Conns : /\ tunnelOf[c] # NoTunnel
                              /\ hpc[c] \notin {"registering", "evicting"}}

ImplementsRegistry == Registry!Spec

-----------------------------------------------------------------------------
(* Liveness, under FairSpec.                                               *)

(* A registered connection that breaks leaves the map: the health check    *)
(* (a failed ping, or no pong for long enough), a newer connection or Stop *)
(* closes it, and its handler unregisters it.                              *)
BrokenEntryLeaves ==
    \A t \in Tunnels, c \in Conns :
        connections[t] = c /\ ~(conn[c] = "up") ~> connections[t] # c

(* registerConnection always completes, although it waits for a lock that  *)
(* the old connection's ReadMessage holds while it keeps tm.mu.            *)
RegistrationCompletes ==
    \A c \in Conns : hpc[c] \in {"registering", "evicting"} ~> hpc[c] \in Registered

(* Once Stop has cancelled the context, it returns, the store is closed    *)
(* and every handler returns.                                              *)
ShutdownCompletes ==
    CtxDone ~> /\ stop = "storeClosed"
               /\ \A c \in Conns : hpc[c] \in {"new", "gone"}

-----------------------------------------------------------------------------
(* What the source says of itself and the code does not do.                *)

(* "IsConnected returns whether a tunnel is connected" (tunnel.go:239): a  *)
(* tunnel with a working connection whose handler is serving it has an     *)
(* entry in the map that IsConnected reads.                                *)
ServedTunnelIsConnected ==
    \A c \in Conns :
        hpc[c] = "serving" /\ conn[c] = "up" /\ stop = "running"
            => connections[tunnelOf[c]] # NoConn
=============================================================================
