----------------------------- MODULE TcpServices -----------------------------
(***************************************************************************)
(* The TCP services of the server: the rows of the tables tunnels and      *)
(* services, the listeners of ProxyManager (internal/server/proxy.go) and  *)
(* the API requests that change both (internal/server/api.go).             *)
(*                                                                         *)
(* net/http runs every request in a goroutine of its own, and nothing      *)
(* guards the rows or the map ProxyManager.tcpListeners across the steps   *)
(* of a request: each database statement and each access to the map or to  *)
(* a socket is a step, and requests interleave between them.  (Go does not *)
(* define unsynchronised accesses to a map; here they take effect in some  *)
(* order, or the runtime stops the process, which is Restart.)             *)
(*                                                                         *)
(* Every statement and every net.Listen may fail, for whatever reason.     *)
(***************************************************************************)
EXTENDS Naturals, FiniteSets

CONSTANTS Tunnels,    \* tunnel ids
          Services,   \* service ids
          Addrs,      \* listen addresses
          Targets,    \* target addresses
          Types,      \* the service types that clients create
          Requests,   \* API requests that can be in progress together
          AddrsOf,    \* the addresses that clients give to a service
          Events,     \* what the environment does, out of AllEvents
          NoAddr, NoRow, Closed, Keep

AllEvents == {"acceptError", "restart"}

(* A row of table services; id is the key, the columns of HTTP services    *)
(* and created_at are left out.                                            *)
Row == [tunnel : Tunnels, type : {"tcp", "http"}, addr : Addrs \cup {NoAddr},
        target : Targets, enabled : BOOLEAN]

(* An open listener of an address: what handleTCPListener keeps of the     *)
(* service, as it was when the listener was started.                       *)
Listener == [service : Services, target : Targets]

(* The system has at most one open listener per address, so a reference to *)
(* a listener of an address is either to the open one, "live", or to one   *)
(* that has been closed: by handleTCPListener when its Accept failed,      *)
(* "failed", or (as well) by RemoveTCPService, "dead".                     *)
Reference == {"none", "live", "failed", "dead"}

ASSUME ConstantsAssumption ==
    /\ Tunnels \cap Services = {}
    /\ NoAddr \notin Addrs
    /\ NoRow \notin Row /\ Closed \notin Listener
    /\ NoRow \notin Services /\ Keep \notin Addrs \cup {NoAddr} \cup Targets \cup BOOLEAN
    /\ Types \subseteq {"tcp", "http"} /\ Events \subseteq AllEvents
    /\ AddrsOf \in [Services -> SUBSET Addrs]

VARIABLES
    tunnels,       \* ids of the rows of table tunnels
    services,      \* the rows of table services
    used,          \* service ids that generateRandomID has handed out
    tcpListeners,  \* ProxyManager.tcpListeners: the entry of an address
    open,          \* the open listener of an address
    unserved,      \* a history variable, which no step depends on: services
                   \* that an error has left without a listener
    job            \* where each API request is, and its local variables

dbVars    == <<tunnels, services, used>>
proxyVars == <<tcpListeners, open, unserved>>
vars == <<tunnels, services, used, tcpListeners, open, unserved, job>>

(* The local variables of a request: the handler, the service or tunnel it *)
(* is about, its copy of the row, needsTCPRestart, the address passed to   *)
(* RemoveTCPService, the services deleteTunnel has still to remove, and    *)
(* the listener that startTCPListener has just opened.                     *)
Job == [at : {"idle", "insert", "write", "close", "drop", "check", "listen", "put",
              "deleteRow", "deleteTunnel"},
        kind : {"none", "create", "update", "delete", "deleteTunnel"},
        id : Services \cup Tunnels \cup {NoRow},
        row : Row \cup {NoRow},
        restart : BOOLEAN,
        remove : Addrs \cup {NoAddr},
        todo : SUBSET (Services \X Addrs),
        listener : Reference]

Idle == [at |-> "idle", kind |-> "none", id |-> NoRow, row |-> NoRow, restart |-> FALSE,
         remove |-> NoAddr, todo |-> {}, listener |-> "none"]

TypeOK ==
    /\ tunnels \subseteq Tunnels
    /\ services \in [Services -> Row \cup {NoRow}]
    /\ used \subseteq Services
    /\ tcpListeners \in [Addrs -> Reference]
    /\ open \in [Addrs -> Listener \cup {Closed}]
    /\ unserved \subseteq Services
    /\ job \in [Requests -> Job]

(* The database of a fresh installation that has its tunnels.              *)
Init ==
    /\ tunnels = Tunnels
    /\ services = [s \in Services |-> NoRow]
    /\ used = {}
    /\ tcpListeners = [a \in Addrs |-> "none"]
    /\ open = [a \in Addrs |-> Closed]
    /\ unserved = {}
    /\ job = [r \in Requests |-> Idle]

-----------------------------------------------------------------------------
(* Helpers.                                                                *)

HasRow(s) == services[s] # NoRow

(* The condition under which AddTCPService and startTCPListeners start a   *)
(* listener.                                                               *)
WantsListener(w) == w.type = "tcp" /\ w.enabled /\ w.addr # NoAddr

Wants(s) == HasRow(s) /\ WantsListener(services[s])

Goto(r, step) == job' = [job EXCEPT ![r].at = step]
Finish(r)     == job' = [job EXCEPT ![r] = Idle]

(* RemoveTCPService for one service of deleteTunnel's list, or the final   *)
(* DELETE.                                                                 *)
NextRemoval(j) ==
    IF j.todo = {} THEN {[j EXCEPT !.at = "deleteTunnel", !.remove = NoAddr]}
    ELSE {[j EXCEPT !.at = "close", !.remove = e[2], !.todo = j.todo \ {e}] : e \in j.todo}

(* What follows a call of RemoveTCPService.                                *)
AfterRemove(j) ==
    CASE j.kind = "update" -> {[j EXCEPT !.at = "check"]}
      [] j.kind = "delete" -> {[j EXCEPT !.at = "deleteRow"]}
      [] OTHER             -> NextRemoval(j)

-----------------------------------------------------------------------------
(* createService.                                                          *)

CreateServiceReusingIds(r, s, w) ==                               \* mutant
    /\ job[r].at = "idle" /\ ~HasRow(s) /\ \A q \in Requests : job[q].id # s
    /\ w.tunnel \in tunnels
    /\ w.type = "tcp" => w.addr # NoAddr
    /\ used' = used \cup {s}
    /\ job' = [job EXCEPT ![r] = [Idle EXCEPT !.at = "insert", !.kind = "create",
                                              !.id = s, !.row = w]]
    /\ UNCHANGED <<tunnels, services, proxyVars>>

(* GetTunnel finds the tunnel, the request is valid, an id is drawn.       *)
CreateService(r, s, w) ==
    /\ job[r].at = "idle" /\ s \notin used
    /\ w.tunnel \in tunnels
    /\ w.type = "tcp" => w.addr # NoAddr
    /\ used' = used \cup {s}
    /\ job' = [job EXCEPT ![r] = [Idle EXCEPT !.at = "insert", !.kind = "create",
                                              !.id = s, !.row = w]]
    /\ UNCHANGED <<tunnels, services, proxyVars>>

InsertRowUnchecked(r) ==                                          \* mutant
    /\ job[r].at = "insert"
    /\ services' = [services EXCEPT ![job[r].id] = job[r].row]
    /\ Goto(r, "check")
    /\ UNCHANGED <<tunnels, used, proxyVars>>

(* INSERT: fails, if for no other reason, on the foreign key when the      *)
(* tunnel has gone meanwhile.                                              *)
InsertRow(r) ==
    /\ job[r].at = "insert"
    /\ \/ /\ job[r].row.tunnel \in tunnels
          /\ services' = [services EXCEPT ![job[r].id] = job[r].row]
          /\ Goto(r, "check")
       \/ UNCHANGED services /\ Finish(r)
    /\ UNCHANGED <<tunnels, used, proxyVars>>

-----------------------------------------------------------------------------
(* updateService.                                                          *)

PatchedAlways(old, new) == new                                    \* mutant
Patched(old, new) == IF new = Keep THEN old ELSE new

UpdateServiceAddrTooLate(r, s, addr, target, enabled) ==          \* mutant
    LET w == services[s] IN
    /\ job[r].at = "idle" /\ HasRow(s)
    /\ job' = [job EXCEPT ![r] =
          [Idle EXCEPT !.at = "write", !.kind = "update", !.id = s,
              !.row = [w EXCEPT !.addr = Patched(w.addr, addr),
                                !.target = Patched(w.target, target),
                                !.enabled = Patched(w.enabled, enabled)],
              !.restart = w.type = "tcp" /\ (addr # Keep \/ enabled # Keep),
              !.remove = Patched(w.addr, addr)]]
    /\ UNCHANGED <<dbVars, proxyVars>>

(* GetService, then the fields that the request has.                       *)
UpdateService(r, s, addr, target, enabled) ==
    LET w == services[s] IN
    /\ job[r].at = "idle" /\ HasRow(s)
    /\ job' = [job EXCEPT ![r] =
          [Idle EXCEPT !.at = "write", !.kind = "update", !.id = s,
              !.row = [w EXCEPT !.addr = Patched(w.addr, addr),
                                !.target = Patched(w.target, target),
                                !.enabled = Patched(w.enabled, enabled)],
              !.restart = w.type = "tcp" /\ (addr # Keep \/ enabled # Keep),
              !.remove = w.addr]]
    /\ UNCHANGED <<dbVars, proxyVars>>

WriteRowOrInsert(r) ==                                            \* mutant
    /\ job[r].at = "write"
    /\ services' = [services EXCEPT ![job[r].id] = job[r].row]
    /\ IF ~job[r].restart THEN Finish(r)
       ELSE Goto(r, IF job[r].remove = NoAddr THEN "check" ELSE "close")
    /\ UNCHANGED <<tunnels, used, proxyVars>>

(* UPDATE, which is no error when the row has gone meanwhile.              *)
WriteRow(r) ==
    /\ job[r].at = "write"
    /\ \/ /\ services' = IF HasRow(job[r].id)
                         THEN [services EXCEPT ![job[r].id] = job[r].row]
                         ELSE services
          /\ IF ~job[r].restart THEN Finish(r)
             ELSE Goto(r, IF job[r].remove = NoAddr THEN "check" ELSE "close")
       \/ UNCHANGED services /\ Finish(r)
    /\ UNCHANGED <<tunnels, used, proxyVars>>

-----------------------------------------------------------------------------
(* RemoveTCPService: whatever listener the address has.                    *)

CloseListener(r) ==
    LET a == job[r].remove IN
    /\ job[r].at = "close"
    /\ IF tcpListeners[a] = "none"
       THEN /\ \E j \in AfterRemove(job[r]) : job' = [job EXCEPT ![r] = j]
            /\ UNCHANGED proxyVars
       ELSE /\ open' = IF tcpListeners[a] = "live" THEN [open EXCEPT ![a] = Closed] ELSE open
            /\ tcpListeners' = [tcpListeners EXCEPT ![a] = "dead"]
            /\ UNCHANGED unserved
            /\ Goto(r, "drop")
    /\ UNCHANGED dbVars

DropEntryForgotten(r) ==                                          \* mutant
    /\ job[r].at = "drop"
    /\ \E j \in AfterRemove(job[r]) : job' = [job EXCEPT ![r] = j]
    /\ UNCHANGED <<dbVars, proxyVars>>

DropEntry(r) ==
    /\ job[r].at = "drop"
    /\ tcpListeners' = [tcpListeners EXCEPT ![job[r].remove] = "none"]
    /\ \E j \in AfterRemove(job[r]) : job' = [job EXCEPT ![r] = j]
    /\ UNCHANGED <<dbVars, open, unserved>>

-----------------------------------------------------------------------------
(* AddTCPService and startTCPListener, whose errors are only logged.       *)

CheckEntry(r) ==
    /\ job[r].at = "check"
    /\ IF WantsListener(job[r].row) /\ tcpListeners[job[r].row.addr] = "none"
       THEN Goto(r, "listen")
       ELSE Finish(r)
    /\ UNCHANGED <<dbVars, proxyVars>>

(* net.Listen: fails, if for no other reason (the address is another       *)
(* process's, or is none), when the address has an open listener.          *)
Listen(r) ==
    LET w == job[r].row IN
    /\ job[r].at = "listen"
    /\ \/ /\ open[w.addr] = Closed
          /\ open' = [open EXCEPT ![w.addr] = [service |-> job[r].id, target |-> w.target]]
          /\ job' = [job EXCEPT ![r].at = "put", ![r].listener = "live"]
          /\ unserved' = unserved \ {job[r].id}
       \/ /\ unserved' = unserved \cup {job[r].id}
          /\ Finish(r)
          /\ UNCHANGED open
    /\ UNCHANGED <<dbVars, tcpListeners>>

PutEntry(r) ==
    /\ job[r].at = "put"
    /\ tcpListeners' = [tcpListeners EXCEPT ![job[r].row.addr] = job[r].listener]
    /\ Finish(r)
    /\ UNCHANGED <<dbVars, open, unserved>>

-----------------------------------------------------------------------------
(* deleteService and deleteTunnel.                                         *)

DeleteService(r, s) ==
    /\ job[r].at = "idle" /\ HasRow(s)
    /\ job' = [job EXCEPT ![r] =
          [Idle EXCEPT !.at = IF services[s].addr = NoAddr THEN "deleteRow" ELSE "close",
                       !.kind = "delete", !.id = s, !.remove = services[s].addr]]
    /\ UNCHANGED <<dbVars, proxyVars>>

(* DELETE.  If it fails the service stays, and its listener has gone.      *)
DeleteRow(r) ==
    /\ job[r].at = "deleteRow"
    /\ \/ /\ services' = [services EXCEPT ![job[r].id] = NoRow]
          /\ unserved' = unserved \ {job[r].id}
       \/ /\ unserved' = unserved \cup {job[r].id}
          /\ UNCHANGED services
    /\ Finish(r)
    /\ UNCHANGED <<tunnels, used, tcpListeners, open>>

(* ListServices; a service without an address has no listener to remove.   *)
DeleteTunnel(r, t) ==
    LET listed == {s \in Services : HasRow(s) /\ services[s].tunnel = t
                                              /\ services[s].addr # NoAddr}
    IN
    /\ job[r].at = "idle" /\ t \in tunnels
    /\ \E j \in NextRemoval([Idle EXCEPT !.kind = "deleteTunnel", !.id = t,
                                !.todo = {<<s, services[s].addr>> : s \in listed}]) :
          job' = [job EXCEPT ![r] = j]
    /\ UNCHANGED <<dbVars, proxyVars>>

(* DELETE, and ON DELETE CASCADE.  If it fails, tunnel and services stay   *)
(* without their listeners.                                                *)
DeleteTunnelRow(r) ==
    LET t   == job[r].id
        own == {s \in Services : HasRow(s) /\ services[s].tunnel = t}
    IN
    /\ job[r].at = "deleteTunnel"
    /\ \/ /\ tunnels' = tunnels \ {t}
          /\ services' = [s \in Services |-> IF s \in own THEN NoRow ELSE services[s]]
          /\ unserved' = unserved \ own
       \/ /\ unserved' = unserved \cup own
          /\ UNCHANGED <<tunnels, services>>
    /\ Finish(r)
    /\ UNCHANGED <<used, tcpListeners, open>>

-----------------------------------------------------------------------------
(* The environment.                                                        *)

(* Accept fails: handleTCPListener returns and closes its listener; what   *)
(* refers to it stays.                                                     *)
AcceptFails(a) ==
    LET Failed(ref) == IF ref = "live" THEN "failed" ELSE ref IN
    /\ "acceptError" \in Events /\ open[a] # Closed
    /\ open' = [open EXCEPT ![a] = Closed]
    /\ unserved' = unserved \cup {open[a].service}
    /\ tcpListeners' = [tcpListeners EXCEPT ![a] = Failed(@)]
    /\ job' = [r \in Requests |->
                 IF job[r].at = "put" /\ job[r].row.addr = a
                 THEN [job[r] EXCEPT !.listener = Failed(@)] ELSE job[r]]
    /\ UNCHANGED dbVars

(* The process stops, wherever its requests are, and starts again: one     *)
(* listener for each address that an enabled TCP service has, unless       *)
(* startTCPListener fails for all that have it.  Which of several services *)
(* of one address gets the listener depends on the order of ListTunnels    *)
(* and ListServices, left open here.                                       *)
Restart ==
    \E failed \in SUBSET {s \in Services : Wants(s)} :
    LET Starting(a) == {s \in Services \ failed : Wants(s) /\ services[s].addr = a} IN
    /\ "restart" \in Events
    /\ tcpListeners' = [a \in Addrs |-> IF Starting(a) = {} THEN "none" ELSE "live"]
    /\ open' \in {o \in [Addrs -> Listener \cup {Closed}] : \A a \in Addrs :
           IF Starting(a) = {} THEN o[a] = Closed
           ELSE \E s \in Starting(a) : o[a] = [service |-> s, target |-> services[s].target]}
    /\ unserved' = failed
    /\ job' = [r \in Requests |-> Idle]
    /\ UNCHANGED dbVars

RequestStep(r) ==
    \/ InsertRow(r) \/ WriteRow(r) \/ CloseListener(r) \/ DropEntry(r)
    \/ CheckEntry(r) \/ Listen(r) \/ PutEntry(r)
    \/ DeleteRow(r) \/ DeleteTunnelRow(r)

(* What clients send: a service keeps to the addresses that AddrsOf gives. *)
RequestStarts(r) ==
    \/ \E s \in Services, w \in Row :
          /\ w.addr \in AddrsOf[s] \cup {NoAddr} /\ w.type \in Types
          /\ CreateService(r, s, w)
    \/ \E s \in Services : \E addr \in AddrsOf[s] \cup {NoAddr, Keep},
          target \in Targets \cup {Keep}, enabled \in BOOLEAN \cup {Keep} :
          UpdateService(r, s, addr, target, enabled)
    \/ \E s \in Services : DeleteService(r, s)
    \/ \E t \in Tunnels : DeleteTunnel(r, t)

Next ==
    \/ \E r \in Requests : RequestStarts(r) \/ RequestStep(r)
    \/ \E a \in Addrs : AcceptFails(a)
    \/ Restart

Spec == Init /\ [][Next]_vars

-----------------------------------------------------------------------------
(* Safety.                                                                 *)

Quiet == \A r \in Requests : job[r].at = "idle"

(* Every row of table services belongs to a row of table tunnels, whatever *)
(* createService checked before deleteTunnel ran.                          *)
ServicesHaveTunnels ==
    \A s \in Services : HasRow(s) => services[s].tunnel \in tunnels

(* An entry of tcpListeners whose listener RemoveTCPService has closed is  *)
(* about to be dropped by a request in progress: however requests          *)
(* interleave, none of them leaves an address blocked by a dead entry      *)
(* ("TCP listener already exists").                                        *)
ClosedEntriesDropped ==
    \A a \in Addrs :
        tcpListeners[a] = "dead" => \E r \in Requests : job[r].at = "drop" /\ job[r].remove = a

(* A deleted service stays deleted: only the request that created it       *)
(* inserts a row, whatever updates of it are in progress.                  *)
NoRevival ==
    [][\A s \in Services : ~HasRow(s) /\ HasRow(s)' =>
           \E r \in Requests : job[r].at = "insert" /\ job[r].id = s]_vars

(* The rows are a ServiceTable: what clients can rely on however requests, *)
(* failures and restarts interleave.  An id whose INSERT is still to come  *)
(* is not spent.                                                           *)
Table == INSTANCE ServiceTable WITH
    spent <- used \ {job[r].id : r \in {q \in Requests : job[q].at = "insert"}}

ImplementsTable == Table!Spec

(* When requests come one at a time and no two services are given the same *)
(* address, then between requests an enabled TCP service is served by a    *)
(* listener of its own that tcpListeners knows, unless an error that no    *)
(* later request has made good denied it one (a net.Listen, an Accept, or  *)
(* a DELETE after RemoveTCPService): then nothing listens for it.  And     *)
(* nothing listens for a service that is disabled, moved or deleted.       *)
ListenersMatchRows ==
    Quiet =>
        /\ \A s \in Services : Wants(s) =>
               LET a == services[s].addr IN
               IF s \in unserved THEN open[a] = Closed
               ELSE tcpListeners[a] = "live" /\ open[a] # Closed /\ open[a].service = s
        /\ \A a \in Addrs : open[a] # Closed =>
               /\ Wants(open[a].service) /\ services[open[a].service].addr = a
               /\ tcpListeners[a] = "live"

-----------------------------------------------------------------------------
(* What the source says of itself and the code does not do.                *)

(* "listenAddr -> listener" (proxy.go:22), the map in which                *)
(* RemoveTCPService finds what it has to close: when no request is in      *)
(* progress, every open listener is in it.                                 *)
OpenListenersMapped ==
    Quiet => \A a \in Addrs : open[a] # Closed => tcpListeners[a] = "live"
=============================================================================
