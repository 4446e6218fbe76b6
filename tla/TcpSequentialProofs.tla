-------------------------- MODULE TcpSequentialProofs --------------------------
(***************************************************************************)
(* Proof that the listeners of TcpServices match the rows when requests    *)
(* come one at a time and services have addresses of their own, with any   *)
(* number of services, addresses and restarts, whatever fails.             *)
(*                                                                         *)
(* Each address is followed through the request that is in progress: it is *)
(* as the row of its service wants it, or that service is in the hands of  *)
(* the request (Held), and the address is unused or on its way to that.    *)
(* For a service that an error has left unserved the address is unused, or *)
(* still has the entry of the listener whose Accept failed.                *)
(***************************************************************************)
EXTENDS TcpServicesProofs

OneRequest == \E r \in Requests : Requests = {r}

OwnAddresses == \A s, u \in Services : s # u => AddrsOf[s] \cap AddrsOf[u] = {}

Sequential == OneRequest /\ OwnAddresses

Serves(s, a) == tcpListeners[a] = "live" /\ open[a] # Closed /\ open[a].service = s
Broken(a)    == tcpListeners[a] = "failed" /\ open[a] = Closed
Unused(a)    == tcpListeners[a] = "none" /\ open[a] = Closed
WantsAt(s, a) == HasRow(s) /\ WantsListener(services[s]) /\ services[s].addr = a

(* What ListenersMatchRows asks of an address of the service s.            *)
Settled(s, a) ==
    IF ~WantsAt(s, a) THEN Unused(a)
    ELSE IF s \in unserved THEN Unused(a) \/ Broken(a)
    ELSE Serves(s, a)

(* What RemoveTCPService finds to remove.                                  *)
Entered(s, a) == Serves(s, a) \/ Broken(a)

(* The job j is past the statement that made its rows and the listeners    *)
(* differ, or comes before the one that will make them agree again.        *)
Held(j, s) ==
    \/ j.id = s /\ j.at \notin {"insert", "write"}
    \/ j.kind = "deleteTunnel" /\ HasRow(s) /\ services[s].tunnel = j.id

KindFits(j) ==
    /\ j.at = "idle" => j = Idle
    /\ j.at = "insert" => j.kind = "create"
    /\ j.at = "write" => j.kind = "update"
    /\ j.at \in {"close", "drop"} => j.kind \in {"update", "delete", "deleteTunnel"}
    /\ j.at \in {"check", "listen", "put"} => j.kind \in {"create", "update"}
    /\ j.at = "deleteRow" => j.kind = "delete"
    /\ j.at = "deleteTunnel" => j.kind = "deleteTunnel"
    /\ j.kind = "deleteTunnel" => j.id \in Tunnels
    /\ j.kind = "delete" => j.id \in Services
    /\ j.todo # {} => j.kind = "deleteTunnel" /\ j.at \in {"close", "drop"}

(* The request's copy of the row is the row, save for what it is about to  *)
(* write, and a change of what the listener depends on sets restart.       *)
CopyFits(j) ==
    /\ j.at = "write" =>
          /\ HasRow(j.id) /\ j.remove = services[j.id].addr
          /\ ~j.restart => \A a \in Addrs :
                WantsListener(j.row) /\ j.row.addr = a <=> WantsAt(j.id, a)
    /\ j.kind \in {"create", "update"} /\ j.at \notin {"insert", "write"} =>
          services[j.id] = j.row
    /\ j.at \in {"listen", "put"} => WantsListener(j.row)
    /\ j.at = "put" => j.listener \in {"live", "failed"}

RowsKeepAddrs == \A s \in Services : HasRow(s) => services[s].addr \in AddrsOf[s] \cup {NoAddr}

AddrsFit(j) ==
    /\ j.kind \in {"create", "update"} => j.row.addr \in AddrsOf[j.id] \cup {NoAddr}
    /\ j.at \in {"close", "drop"} => \E s \in Services : j.remove \in AddrsOf[s] /\ Held(j, s)
    /\ \A e \in j.todo : e[2] \in AddrsOf[e[1]] /\ Held(j, e[1])

(* The state of an address of a service that the request holds.            *)
AddrHeld(j, s, a) ==
    CASE j.at = "drop" /\ a = j.remove  -> tcpListeners[a] = "dead" /\ open[a] = Closed
      [] j.at = "put" /\ a = j.row.addr ->
             /\ tcpListeners[a] = "none"
             /\ IF j.listener = "failed" THEN open[a] = Closed /\ s \in unserved
                ELSE open[a] # Closed /\ open[a].service = s /\ s \notin unserved
      [] OTHER -> \/ Unused(a)
                  \/ Entered(s, a) /\ (<<s, a>> \in j.todo \/ (j.at = "close" /\ a = j.remove))

AddrFits(j, s, a) ==
    /\ Held(j, s) => AddrHeld(j, s, a)
    /\ ~Held(j, s) => Settled(s, a)

ListenersFit(j) ==
    /\ \A s \in Services : \A a \in AddrsOf[s] : AddrFits(j, s, a)
    /\ \A a \in Addrs : (\A s \in Services : a \notin AddrsOf[s]) => Unused(a)

JobFits(j) == KindFits(j) /\ CopyFits(j) /\ AddrsFit(j) /\ ListenersFit(j)

SeqInv == RowsKeepAddrs /\ \A r \in Requests : JobFits(job[r])

-----------------------------------------------------------------------------
(* What holds while the request r is alone.                                *)
Alone(r) == Inv /\ SeqInv /\ OwnAddresses /\ Requests = {r}

(* The invariant speaks of one job, and the addresses of a service are its *)
(* own.                                                                    *)
LEMMA AloneFacts ==
    ASSUME NEW r \in Requests, Alone(r)
    PROVE  /\ job \in [Requests -> Job] /\ job[r] \in Job
           /\ services \in [Services -> Row \cup {NoRow}]
           /\ tcpListeners \in [Addrs -> Reference]
           /\ open \in [Addrs -> Listener \cup {Closed}]
           /\ RowsKeepAddrs /\ KindFits(job[r]) /\ CopyFits(job[r]) /\ AddrsFit(job[r])
           /\ ListenersFit(job[r])
           /\ \A s \in Services : AddrsOf[s] \subseteq Addrs
           /\ \A s, u \in Services : \A a \in AddrsOf[s] \cap AddrsOf[u] : s = u
<1>1. \A s \in Services : AddrsOf[s] \subseteq Addrs
  BY ConstantsAssumption
<1>2. JobFits(job[r]) /\ RowsKeepAddrs
  BY DEF Alone, SeqInv
<1> QED BY <1>1, <1>2 DEF Alone, Inv, TypeOK, JobFits, OwnAddresses

(* It is enough to show SeqInv of the next job.                            *)
LEMMA AloneNext ==
    ASSUME NEW r \in Requests, Requests = {r}, RowsKeepAddrs',
           KindFits(job[r])', CopyFits(job[r])', AddrsFit(job[r])', ListenersFit(job[r])'
    PROVE  SeqInv'
BY DEF SeqInv, JobFits

(* An idle request holds nothing.                                          *)
LEMMA IdleHolds ==
    /\ KindFits(Idle) /\ CopyFits(Idle) /\ AddrsFit(Idle)
    /\ \A s \in Services : ~Held(Idle, s)
<1>1. /\ Idle.at = "idle" /\ Idle.kind = "none" /\ Idle.id \notin Services /\ Idle.todo = {}
  BY ConstantsAssumption DEF Idle
<1> QED BY <1>1 DEF KindFits, CopyFits, AddrsFit, Held

-----------------------------------------------------------------------------
(* One lemma per action or group of them.  Requests that begin:            *)
(* createService ...                                                       *)
LEMMA SeqCreateService ==
    ASSUME NEW r \in Requests, Alone(r), NEW s \in Services, NEW w \in Row,
           w.addr \in AddrsOf[s] \cup {NoAddr}, CreateService(r, s, w)
    PROVE  SeqInv'
<1>1. PICK k \in Job : /\ k.at = "insert" /\ k.kind = "create" /\ k.id = s /\ k.row = w
                       /\ k.todo = {} /\ job' = [job EXCEPT ![r] = k]
  BY IdleType DEF CreateService, Idle, Job
<1>2. job'[r] = k /\ job[r].at = "idle" /\ UNCHANGED <<services, tcpListeners, open, unserved>>
  BY <1>1, AloneFacts DEF CreateService, proxyVars
<1>3. job[r] = Idle
  BY <1>2, AloneFacts DEF KindFits
<1>4. RowsKeepAddrs' /\ KindFits(k)
  BY <1>1, <1>2, AloneFacts DEF RowsKeepAddrs, KindFits, HasRow
<1>5. CopyFits(job[r])' /\ AddrsFit(job[r])'
  BY <1>1, <1>2 DEF CopyFits, AddrsFit
<1>6. ListenersFit(job[r])'
  <2>1. \A u \in Services : ~Held(k, u) /\ ~Held(k, u)'
    BY <1>1 DEF Held
  <2>2. \A u \in Services : ~Held(job[r], u)
    BY <1>3, IdleHolds
  <2> QED BY <1>2, <2>1, <2>2, AloneFacts
       DEF ListenersFit, AddrFits, WantsAt, Settled, Broken, Serves, Unused, HasRow, Held
<1> QED BY <1>2, <1>4, <1>5, <1>6, AloneNext DEF Alone, KindFits

(* ... updateService ...                                                   *)
LEMMA SeqUpdateService ==
    ASSUME NEW r \in Requests, Alone(r), NEW s \in Services,
           NEW addr \in AddrsOf[s] \cup {NoAddr, Keep}, NEW target \in Targets \cup {Keep},
           NEW enabled \in BOOLEAN \cup {Keep}, UpdateService(r, s, addr, target, enabled)
    PROVE  SeqInv'
<1> DEFINE w == services[s]
           v == [w EXCEPT !.addr = Patched(w.addr, addr),
                          !.target = Patched(w.target, target),
                          !.enabled = Patched(w.enabled, enabled)]
<1>1. PICK k : /\ k = [Idle EXCEPT !.at = "write", !.kind = "update", !.id = s, !.row = v,
                          !.restart = w.type = "tcp" /\ (addr # Keep \/ enabled # Keep),
                          !.remove = w.addr]
               /\ job' = [job EXCEPT ![r] = k]
  BY DEF UpdateService
<1>2. /\ k.at = "write" /\ k.kind = "update" /\ k.id = s /\ k.row = v /\ k.todo = {}
      /\ k.restart <=> w.type = "tcp" /\ (addr # Keep \/ enabled # Keep)
      /\ k.remove = w.addr
  BY <1>1 DEF Idle
<1>3. /\ job'[r] = k /\ job[r].at = "idle" /\ HasRow(s)
      /\ UNCHANGED <<services, tcpListeners, open, unserved>>
  BY <1>1, AloneFacts DEF UpdateService, dbVars, proxyVars
<1>4. w \in Row /\ w.addr \in AddrsOf[s] \cup {NoAddr} /\ AddrsOf[s] \subseteq Addrs
  BY <1>3, AloneFacts DEF HasRow, RowsKeepAddrs
<1>5. /\ v.type = w.type /\ v.addr = Patched(w.addr, addr)
      /\ v.enabled = Patched(w.enabled, enabled)
  BY <1>4 DEF Row
<1> HIDE DEF v
<1>6. v.addr \in AddrsOf[s] \cup {NoAddr}
  BY <1>4, <1>5 DEF Patched
<1>7. ~k.restart => \A a \in Addrs : WantsListener(v) /\ v.addr = a <=> WantsAt(s, a)
  BY <1>2, <1>3, <1>5 DEF Patched, WantsListener, WantsAt
<1>8. job[r] = Idle
  BY <1>3, AloneFacts DEF KindFits
<1>9. RowsKeepAddrs' /\ KindFits(k)
  BY <1>2, <1>3, AloneFacts DEF RowsKeepAddrs, KindFits, HasRow
<1>10. CopyFits(job[r])' /\ AddrsFit(job[r])'
  BY <1>2, <1>3, <1>6, <1>7 DEF CopyFits, AddrsFit, HasRow, WantsAt
<1>11. ListenersFit(job[r])'
  <2>1. \A u \in Services : ~Held(k, u) /\ ~Held(k, u)'
    BY <1>2 DEF Held
  <2>2. \A u \in Services : ~Held(job[r], u)
    BY <1>8, IdleHolds
  <2> QED BY <1>3, <2>1, <2>2, AloneFacts
       DEF ListenersFit, AddrFits, WantsAt, Settled, Broken, Serves, Unused, HasRow, Held
<1> QED BY <1>3, <1>9, <1>10, <1>11, AloneNext DEF Alone, KindFits

(* ... deleteService ...                                                   *)
LEMMA SeqDeleteService ==
    ASSUME NEW r \in Requests, Alone(r), NEW s \in Services, DeleteService(r, s)
    PROVE  SeqInv'
<1> DEFINE w == services[s]
<1>1. PICK k : /\ k = [Idle EXCEPT !.at = IF w.addr = NoAddr THEN "deleteRow" ELSE "close",
                                   !.kind = "delete", !.id = s, !.remove = w.addr]
               /\ job' = [job EXCEPT ![r] = k]
  BY DEF DeleteService
<1>2. /\ k.at = IF w.addr = NoAddr THEN "deleteRow" ELSE "close"
      /\ k.kind = "delete" /\ k.id = s /\ k.todo = {} /\ k.remove = w.addr
  BY <1>1 DEF Idle
<1>3. /\ job'[r] = k /\ job[r].at = "idle" /\ HasRow(s)
      /\ UNCHANGED <<services, tcpListeners, open, unserved>>
  BY <1>1, AloneFacts DEF DeleteService, dbVars, proxyVars
<1>4. w.addr \in AddrsOf[s] \cup {NoAddr}
  BY <1>3, AloneFacts DEF RowsKeepAddrs
<1>5. job[r] = Idle
  BY <1>3, AloneFacts DEF KindFits
<1>6. \A u \in Services : ~Held(job[r], u)
  BY <1>5, IdleHolds
<1>7. \A u \in Services : Held(job[r], u)' <=> u = s
  BY <1>2, <1>3 DEF Held
<1>8. RowsKeepAddrs' /\ KindFits(job[r])'
  BY <1>2, <1>3, AloneFacts DEF RowsKeepAddrs, KindFits, HasRow
<1>9. CopyFits(job[r])' /\ AddrsFit(job[r])'
  BY <1>2, <1>3, <1>4, <1>7 DEF CopyFits, AddrsFit
<1>10. ListenersFit(job[r])'
  <2>1. \A u \in Services : \A a \in AddrsOf[u] : Settled(u, a)
    BY <1>6, AloneFacts DEF ListenersFit, AddrFits
  <2>2. ASSUME NEW a \in AddrsOf[s] PROVE AddrHeld(job[r], s, a)'
    <3>1. WantsAt(s, a) => k.at = "close" /\ a = k.remove
      BY <1>2 DEF WantsAt, WantsListener
    <3>2. Unused(a) \/ (Entered(s, a) /\ WantsAt(s, a))
      BY <2>1 DEF Settled, Entered
    <3> QED BY <1>2, <1>3, <3>1, <3>2 DEF AddrHeld, Entered, Broken, Serves, Unused
  <2> QED BY <1>3, <1>7, <2>1, <2>2, AloneFacts
       DEF ListenersFit, AddrFits, WantsAt, Settled, Broken, Serves, Unused, HasRow
<1> QED BY <1>8, <1>9, <1>10, AloneNext DEF Alone

(* deleteTunnel goes on with a service of its list, and the others stay on *)
(* the list.                                                               *)
LEMMA NextRemovalTodo ==
    ASSUME NEW j \in Job, j.kind = "deleteTunnel", NEW k \in NextRemoval(j)
    PROVE  /\ k.kind = "deleteTunnel" /\ k.id = j.id /\ k.at \in {"close", "deleteTunnel"}
           /\ k.todo \subseteq j.todo
           /\ \A e \in j.todo : e \in k.todo \/ (k.at = "close" /\ k.remove = e[2])
           /\ k.at = "close" => \E e \in j.todo : k.remove = e[2]
           /\ k.at = "deleteTunnel" => k.todo = {}
<1>1. CASE j.todo = {}
  <2>1. k = [j EXCEPT !.at = "deleteTunnel", !.remove = NoAddr]
    BY <1>1 DEF NextRemoval
  <2> QED BY <1>1, <2>1 DEF Job
<1>2. CASE j.todo # {}
  <2>1. PICK e \in j.todo : k = [j EXCEPT !.at = "close", !.remove = e[2], !.todo = j.todo \ {e}]
    BY <1>2 DEF NextRemoval
  <2>2. k.at = "close" /\ k.remove = e[2] /\ k.todo = j.todo \ {e} /\ k.kind = j.kind /\ k.id = j.id
    BY <2>1 DEF Job
  <2> QED BY <2>2
<1> QED BY <1>1, <1>2

(* ... and deleteTunnel.                                                   *)
LEMMA SeqDeleteTunnel ==
    ASSUME NEW r \in Requests, Alone(r), NEW t \in Tunnels, DeleteTunnel(r, t)
    PROVE  SeqInv'
<1> DEFINE listed == {s \in Services : HasRow(s) /\ services[s].tunnel = t
                                                 /\ services[s].addr # NoAddr}
           todo == {<<s, services[s].addr>> : s \in listed}
<1>1. PICK j : j = [Idle EXCEPT !.kind = "deleteTunnel", !.id = t, !.todo = todo]
  OBVIOUS
<1>2. PICK k \in NextRemoval(j) : job' = [job EXCEPT ![r] = k]
  BY <1>1 DEF DeleteTunnel
<1>3. \A e \in todo : \E s \in Services : HasRow(s) /\ services[s].tunnel = t /\ e[1] = s
                                            /\ e[2] = services[s].addr /\ e[2] \in AddrsOf[s]
  BY AloneFacts DEF RowsKeepAddrs
<1>4. \A s \in Services : \A a \in AddrsOf[s] :
          HasRow(s) /\ services[s].tunnel = t /\ WantsAt(s, a) => <<s, a>> \in todo
  BY DEF WantsAt, WantsListener
<1>5. todo \in SUBSET (Services \X Addrs)
  BY AloneFacts DEF HasRow, Row
<1> HIDE DEF todo
<1>6. j.kind = "deleteTunnel" /\ j.id = t /\ j.todo = todo /\ j \in Job
  BY <1>1, <1>5, IdleType DEF Idle, Job
<1>7. /\ k.kind = "deleteTunnel" /\ k.id = t /\ k.at \in {"close", "deleteTunnel"}
      /\ k.todo \subseteq todo
      /\ \A e \in todo : e \in k.todo \/ (k.at = "close" /\ k.remove = e[2])
      /\ k.at = "close" => \E e \in todo : k.remove = e[2]
      /\ k.at = "deleteTunnel" => k.todo = {}
  BY <1>6, NextRemovalTodo
<1>8. /\ job'[r] = k /\ job[r].at = "idle" /\ t \notin Services
      /\ UNCHANGED <<services, tcpListeners, open, unserved>>
  BY <1>2, AloneFacts, ConstantsAssumption DEF DeleteTunnel, dbVars, proxyVars
<1>9. \A u \in Services : ~Held(job[r], u)
  BY <1>8, AloneFacts, IdleHolds DEF KindFits
<1>10. \A u \in Services : Held(job[r], u)' <=> HasRow(u) /\ services[u].tunnel = t
  BY <1>7, <1>8 DEF Held, HasRow
<1>11. RowsKeepAddrs' /\ KindFits(job[r])'
  BY <1>7, <1>8, AloneFacts DEF RowsKeepAddrs, KindFits, HasRow
<1>12. CopyFits(job[r])' /\ AddrsFit(job[r])'
  <2>1. \A e \in todo : e[2] \in AddrsOf[e[1]] /\ e[1] \in Services /\ Held(job[r], e[1])'
    BY <1>3, <1>10
  <2>2. k.at = "close" => \E s \in Services : k.remove \in AddrsOf[s] /\ Held(job[r], s)'
    BY <1>7, <2>1
  <2>3. AddrsFit(job[r])'
    BY <1>7, <1>8, <2>1, <2>2 DEF AddrsFit
  <2> QED BY <1>7, <1>8, <2>3 DEF CopyFits
<1>13. ListenersFit(job[r])'
  <2>1. \A u \in Services : \A a \in AddrsOf[u] : Settled(u, a)
    BY <1>9, AloneFacts DEF ListenersFit, AddrFits
  <2>2. ASSUME NEW u \in Services, HasRow(u), services[u].tunnel = t, NEW a \in AddrsOf[u]
        PROVE  AddrHeld(job[r], u, a)'
    <3>1. Unused(a) \/ (Entered(u, a) /\ <<u, a>> \in todo)
      BY <1>4, <2>1, <2>2 DEF Settled, Entered
    <3>2. Unused(a) \/ (Entered(u, a) /\ (<<u, a>> \in k.todo \/ (k.at = "close" /\ k.remove = a)))
      BY <1>7, <3>1
    <3> QED BY <1>7, <1>8, <3>2 DEF AddrHeld, Entered, Broken, Serves, Unused
  <2> QED BY <1>8, <1>10, <2>1, <2>2, AloneFacts
       DEF ListenersFit, AddrFits, WantsAt, Settled, Broken, Serves, Unused, HasRow
<1> QED BY <1>11, <1>12, <1>13, AloneNext DEF Alone

(* A request may finish when the listeners match the rows again.           *)
LEMMA MayFinish ==
    ASSUME NEW r \in Requests, Requests = {r}, job'[r] = Idle, RowsKeepAddrs',
           \A u \in Services : \A a \in AddrsOf[u] : Settled(u, a)',
           \A a \in Addrs : (\A u \in Services : a \notin AddrsOf[u]) => Unused(a)'
    PROVE  SeqInv'
<1>1. KindFits(job[r])' /\ CopyFits(job[r])' /\ AddrsFit(job[r])'
  BY ConstantsAssumption DEF KindFits, CopyFits, AddrsFit, Idle
<1>2. \A u \in Services : ~Held(job[r], u)'
  BY ConstantsAssumption DEF Held, Idle
<1>3. ListenersFit(job[r])'
  BY <1>2 DEF ListenersFit, AddrFits
<1> QED BY <1>1, <1>3, AloneNext

-----------------------------------------------------------------------------
(* The steps of a request.  The INSERT holds the service ...               *)
LEMMA SeqInsertRow ==
    ASSUME NEW r \in Requests, Alone(r), InsertRow(r)
    PROVE  SeqInv'
<1> DEFINE j == job[r]
<1>1. /\ j.at = "insert" /\ j.kind = "create" /\ j.id \in Services /\ j.row \in Row
      /\ ~HasRow(j.id) /\ j.row.addr \in AddrsOf[j.id] \cup {NoAddr} /\ j.todo = {}
      /\ UNCHANGED <<tcpListeners, open, unserved>>
  BY AloneFacts DEF InsertRow, Alone, Inv, JobInv, InsertsAreNew, KindFits, AddrsFit, proxyVars
<1>2. NoRow \notin Row
  BY ConstantsAssumption
<1>3. \A u \in Services : ~Held(j, u)
  BY <1>1 DEF Held
<1>4. \A u \in Services : \A a \in AddrsOf[u] : Settled(u, a)
  BY <1>3, AloneFacts DEF ListenersFit, AddrFits
<1>5. CASE services' = [services EXCEPT ![j.id] = j.row] /\ Goto(r, "check")
  <2>1. /\ services' = [services EXCEPT ![j.id] = j.row]
        /\ job'[r] = [j EXCEPT !.at = "check"]
    BY <1>5, AloneFacts DEF Goto
  <2>2. PICK k : k = job'[r] /\ k.at = "check" /\ k.kind = "create" /\ k.id = j.id
                 /\ k.row = j.row /\ k.todo = {}
    BY <1>1, <2>1, AloneFacts DEF Job
  <2>3. /\ services'[j.id] = j.row
        /\ \A u \in Services \ {j.id} : services'[u] = services[u]
    BY <1>1, <2>1, AloneFacts
  <2>4. \A u \in Services : Held(job[r], u)' <=> u = j.id
    BY <2>2 DEF Held
  <2>5. RowsKeepAddrs' /\ KindFits(job[r])'
    BY <1>1, <2>2, <2>3, AloneFacts DEF RowsKeepAddrs, KindFits, HasRow
  <2>6. CopyFits(job[r])' /\ AddrsFit(job[r])'
    BY <1>1, <2>2, <2>3 DEF CopyFits, AddrsFit
  <2>7. ListenersFit(job[r])'
    <3>1. ASSUME NEW u \in Services, NEW a \in AddrsOf[u] PROVE AddrFits(job[r], u, a)'
      <4>1. CASE u = j.id
        <5>1. AddrHeld(job[r], u, a)'
          BY <1>1, <1>4, <2>2, <4>1 DEF AddrHeld, Settled, Unused, WantsAt
        <5> QED BY <2>4, <4>1, <5>1 DEF AddrFits
      <4>2. CASE u # j.id
        BY <1>1, <1>4, <2>3, <2>4, <4>2 DEF AddrFits, WantsAt, Settled, Broken, Serves, Unused, HasRow
      <4> QED BY <4>1, <4>2
    <3> QED BY <1>1, <3>1, AloneFacts DEF ListenersFit, Unused
  <2> QED BY <2>5, <2>6, <2>7, AloneNext DEF Alone
<1>6. CASE services' = services /\ Finish(r)
  <2>1. job'[r] = Idle /\ RowsKeepAddrs'
    BY <1>6, AloneFacts DEF Finish, RowsKeepAddrs, HasRow
  <2>2. \A u \in Services : \A a \in AddrsOf[u] : Settled(u, a)'
    BY <1>1, <1>4, <1>6 DEF Settled, WantsAt, Broken, Serves, Unused, HasRow
  <2>3. \A a \in Addrs : (\A u \in Services : a \notin AddrsOf[u]) => Unused(a)'
    BY <1>1, AloneFacts DEF ListenersFit, Unused
  <2> QED BY <2>1, <2>2, <2>3, MayFinish DEF Alone
<1> QED BY <1>5, <1>6 DEF InsertRow

(* ... and so does the UPDATE, when it changes what the listener needs.    *)
LEMMA SeqWriteRowDone ==
    ASSUME NEW r \in Requests, Alone(r), WriteRow(r), ~(UNCHANGED services /\ Finish(r))
    PROVE  SeqInv'
<1> DEFINE j == job[r]
<1>1. /\ j.at = "write" /\ j.kind = "update" /\ j.id \in Services /\ j.row \in Row
      /\ HasRow(j.id) /\ j.row.addr \in AddrsOf[j.id] \cup {NoAddr} /\ j.todo = {}
      /\ j.remove = services[j.id].addr
      /\ ~j.restart => \A a \in Addrs :
            WantsListener(j.row) /\ j.row.addr = a <=> WantsAt(j.id, a)
      /\ UNCHANGED <<tcpListeners, open, unserved>>
  BY AloneFacts DEF WriteRow, Alone, Inv, JobInv, WritesKeepTunnel, KindFits, CopyFits,
                    AddrsFit, proxyVars
<1>2. NoRow \notin Row /\ NoAddr \notin Addrs
  BY ConstantsAssumption
<1>3. \A u \in Services : ~Held(j, u)
  BY <1>1 DEF Held
<1>4. \A u \in Services : \A a \in AddrsOf[u] : Settled(u, a)
  BY <1>3, AloneFacts DEF ListenersFit, AddrFits
<1>5. /\ services'[j.id] = j.row /\ \A u \in Services \ {j.id} : services'[u] = services[u]
  BY <1>1, AloneFacts DEF WriteRow
<1>6. RowsKeepAddrs'
  BY <1>1, <1>5, AloneFacts DEF RowsKeepAddrs, HasRow
<1>7. \A u \in Services \ {j.id} : \A a \in AddrsOf[u] : Settled(u, a)'
  BY <1>1, <1>4, <1>5 DEF WantsAt, Settled, Broken, Serves, Unused, HasRow
<1>8. \A a \in Addrs : (\A u \in Services : a \notin AddrsOf[u]) => Unused(a)'
  BY <1>1, AloneFacts DEF ListenersFit, Unused
<1>9. CASE ~j.restart
  <2>1. job'[r] = Idle
    BY <1>9, AloneFacts DEF WriteRow, Finish
  <2>2. KindFits(job[r])' /\ CopyFits(job[r])' /\ AddrsFit(job[r])'
    BY <2>1, ConstantsAssumption DEF KindFits, CopyFits, AddrsFit, Idle
  <2>3. \A u \in Services : ~Held(job[r], u)'
    BY <2>1, ConstantsAssumption DEF Held, Idle
  <2>4. ASSUME NEW u \in Services, NEW a \in AddrsOf[u], u = j.id
        PROVE  Settled(u, a)'
    <3>1. a \in Addrs
      BY AloneFacts
    <3>2. WantsAt(u, a)' <=> WantsAt(u, a)
      BY <1>1, <1>2, <1>5, <1>9, <2>4, <3>1 DEF WantsAt, HasRow, WantsListener
    <3> QED BY <1>1, <1>4, <3>2 DEF Settled, Broken, Serves, Unused
  <2>5. ListenersFit(job[r])'
    <3>1. ASSUME NEW u \in Services, NEW a \in AddrsOf[u] PROVE AddrFits(job[r], u, a)'
      <4>1. Settled(u, a)'
        BY <1>7, <2>4
      <4> QED BY <2>3, <4>1 DEF AddrFits
    <3> QED BY <1>8, <3>1 DEF ListenersFit
  <2> QED BY <1>6, <2>2, <2>5, AloneNext DEF Alone
<1>10. CASE j.restart
  <2>1. PICK k : k = job'[r] /\ k.at = (IF j.remove = NoAddr THEN "check" ELSE "close")
                 /\ k.kind = "update" /\ k.id = j.id /\ k.row = j.row /\ k.todo = {}
                 /\ k.remove = j.remove
    BY <1>1, <1>10, AloneFacts DEF WriteRow, Goto, Job
  <2>2. \A u \in Services : Held(job[r], u)' <=> u = j.id
    BY <2>1 DEF Held
  <2>3. KindFits(job[r])'
    BY <2>1 DEF KindFits
  <2>4. CopyFits(job[r])'
    BY <1>5, <2>1 DEF CopyFits
  <2>5. AddrsFit(job[r])'
    <3>1. j.remove \in AddrsOf[j.id] \cup {NoAddr}
      BY <1>1, AloneFacts DEF RowsKeepAddrs
    <3> QED BY <1>1, <2>1, <2>2, <3>1 DEF AddrsFit
  <2>6. ListenersFit(job[r])'
    <3>1. ASSUME NEW u \in Services, NEW a \in AddrsOf[u] PROVE AddrFits(job[r], u, a)'
      <4>1. CASE u = j.id
        <5>1. Unused(a) \/ (Entered(u, a) /\ a = j.remove)
          BY <1>1, <1>4, <4>1 DEF WantsAt, Settled, Entered
        <5>2. a # NoAddr
          BY <1>2, <4>1, AloneFacts
        <5>3. AddrHeld(job[r], u, a)'
          BY <1>1, <2>1, <4>1, <5>1, <5>2 DEF AddrHeld, Unused, Entered, Broken, Serves
        <5> QED BY <2>2, <4>1, <5>3 DEF AddrFits
      <4>2. CASE u # j.id
        BY <1>7, <2>2, <4>2 DEF AddrFits
      <4> QED BY <4>1, <4>2
    <3> QED BY <1>8, <3>1 DEF ListenersFit
  <2> QED BY <1>6, <2>3, <2>4, <2>5, <2>6, AloneNext DEF Alone
<1> QED BY <1>9, <1>10

(* An UPDATE that fails changes nothing.                                   *)
LEMMA SeqWriteRow ==
    ASSUME NEW r \in Requests, Alone(r), WriteRow(r)
    PROVE  SeqInv'
<1>1. CASE UNCHANGED services /\ Finish(r)
  <2>1. job'[r] = Idle /\ RowsKeepAddrs' /\ UNCHANGED <<services, tcpListeners, open, unserved>>
    BY <1>1, AloneFacts DEF Finish, RowsKeepAddrs, HasRow, WriteRow, proxyVars
  <2>2. \A u \in Services : ~Held(job[r], u)
    BY AloneFacts DEF WriteRow, Held, KindFits
  <2>3. \A u \in Services : \A a \in AddrsOf[u] : Settled(u, a)'
    BY <2>1, <2>2, AloneFacts
       DEF ListenersFit, AddrFits, Settled, WantsAt, Broken, Serves, Unused, HasRow
  <2>4. \A a \in Addrs : (\A u \in Services : a \notin AddrsOf[u]) => Unused(a)'
    BY <2>1, AloneFacts DEF ListenersFit, Unused
  <2> QED BY <2>1, <2>3, <2>4, MayFinish DEF Alone
<1> QED BY <1>1, SeqWriteRowDone

(* What follows RemoveTCPService keeps the rest of the list, too.          *)
LEMMA AfterRemoveTodo ==
    ASSUME NEW j \in Job, KindFits(j), j.at \in {"close", "drop"}, NEW k \in AfterRemove(j)
    PROVE  /\ k.kind = j.kind /\ k.id = j.id /\ k.row = j.row
           /\ k.at \in {"check", "deleteRow", "close", "deleteTunnel"}
           /\ k.todo \subseteq j.todo
           /\ \A e \in j.todo : e \in k.todo \/ (k.at = "close" /\ k.remove = e[2])
           /\ k.at = "close" => \E e \in j.todo : k.remove = e[2]
           /\ KindFits(k)
<1>1. j.todo = {} \/ j.kind = "deleteTunnel"
  BY DEF KindFits
<1>2. CASE j.kind = "update"
  <2>1. k = [j EXCEPT !.at = "check"]
    BY <1>2 DEF AfterRemove
  <2>2. k.at = "check" /\ k.kind = "update" /\ k.id = j.id /\ k.row = j.row /\ k.todo = {}
    BY <1>1, <1>2, <2>1 DEF Job
  <2> QED BY <1>1, <1>2, <2>2 DEF KindFits
<1>3. CASE j.kind = "delete"
  <2>1. k = [j EXCEPT !.at = "deleteRow"]
    BY <1>3 DEF AfterRemove
  <2>2. k.at = "deleteRow" /\ k.kind = "delete" /\ k.id = j.id /\ k.row = j.row /\ k.todo = {}
    BY <1>1, <1>3, <2>1 DEF Job
  <2> QED BY <1>1, <1>3, <2>2 DEF KindFits
<1>4. CASE j.kind \notin {"update", "delete"}
  <2>1. k \in NextRemoval(j) /\ j.kind = "deleteTunnel" /\ j.id \in Tunnels
    BY <1>4 DEF AfterRemove, KindFits
  <2>2. k.row = j.row
    BY <2>1, NextRemovalJob
  <2>3. /\ k.kind = "deleteTunnel" /\ k.id = j.id /\ k.at \in {"close", "deleteTunnel"}
        /\ k.todo \subseteq j.todo
        /\ \A e \in j.todo : e \in k.todo \/ (k.at = "close" /\ k.remove = e[2])
        /\ k.at = "close" => \E e \in j.todo : k.remove = e[2]
        /\ k.at = "deleteTunnel" => k.todo = {}
    BY <2>1, NextRemovalTodo
  <2> QED BY <2>1, <2>2, <2>3 DEF KindFits
<1> QED BY <1>2, <1>3, <1>4

(* When the address that RemoveTCPService was called with is unused and    *)
(* the other addresses of the services that are held are unused or listed, *)
(* the request can go on.                                                  *)
LEMMA RemovalGoesOn ==
    ASSUME NEW r \in Requests, Alone(r), NEW j, j = job[r], j.at \in {"close", "drop"},
           NEW k \in AfterRemove(j), job' = [job EXCEPT ![r] = k], services' = services,
           \A u \in Services : \A a \in AddrsOf[u] :
               /\ Held(j, u) => Unused(a)' \/ (Entered(u, a)' /\ <<u, a>> \in j.todo)
               /\ ~Held(j, u) => Settled(u, a)',
           \A a \in Addrs : (\A u \in Services : a \notin AddrsOf[u]) => Unused(a)'
    PROVE  SeqInv'
<1>1. j \in Job /\ KindFits(j) /\ CopyFits(j) /\ AddrsFit(j) /\ job'[r] = k
  BY AloneFacts
<1>2. /\ k.kind = j.kind /\ k.id = j.id /\ k.row = j.row
      /\ k.at \in {"check", "deleteRow", "close", "deleteTunnel"}
      /\ k.todo \subseteq j.todo
      /\ \A e \in j.todo : e \in k.todo \/ (k.at = "close" /\ k.remove = e[2])
      /\ k.at = "close" => \E e \in j.todo : k.remove = e[2]
      /\ KindFits(k)
  BY <1>1, AfterRemoveTodo
<1>3. \A u \in Services : Held(job[r], u)' <=> Held(j, u)
  BY <1>1, <1>2 DEF Held, HasRow
<1>4. RowsKeepAddrs' /\ KindFits(job[r])'
  BY <1>1, <1>2, AloneFacts DEF RowsKeepAddrs, KindFits, HasRow
<1>5. CopyFits(job[r])'
  BY <1>1, <1>2 DEF CopyFits
<1>6. AddrsFit(job[r])'
  <2>1. \A e \in j.todo : e[2] \in AddrsOf[e[1]] /\ e[1] \in Services /\ Held(j, e[1])
    BY <1>1 DEF AddrsFit, Job
  <2>2. k.at = "close" => \E s \in Services : k.remove \in AddrsOf[s] /\ Held(job[r], s)'
    BY <1>2, <1>3, <2>1
  <2>3. \A e \in k.todo : e[2] \in AddrsOf[e[1]] /\ Held(job[r], e[1])'
    BY <1>2, <1>3, <2>1
  <2> QED BY <1>1, <1>2, <2>2, <2>3 DEF AddrsFit
<1>7. ListenersFit(job[r])'
  <2>1. ASSUME NEW u \in Services, NEW a \in AddrsOf[u], Held(j, u)
        PROVE  AddrHeld(job[r], u, a)'
    <3>1. Unused(a)' \/ (Entered(u, a)' /\ (<<u, a>> \in k.todo \/ (k.at = "close" /\ k.remove = a)))
      BY <1>2, <2>1
    <3> QED BY <1>1, <1>2, <3>1 DEF AddrHeld, Entered, Broken, Serves, Unused
  <2>2. ASSUME NEW u \in Services, NEW a \in AddrsOf[u] PROVE AddrFits(job[r], u, a)'
    BY <1>3, <2>1 DEF AddrFits
  <2> QED BY <2>2 DEF ListenersFit
<1> QED BY <1>4, <1>5, <1>6, <1>7, AloneNext DEF Alone

(* RemoveTCPService closes the listener that the entry has ...             *)
LEMMA SeqCloseListener ==
    ASSUME NEW r \in Requests, Alone(r), CloseListener(r)
    PROVE  SeqInv'
<1>1. PICK j : j = job[r]
  OBVIOUS
<1>2. /\ j.at = "close" /\ j \in Job /\ UNCHANGED <<services, unserved>>
      /\ KindFits(j) /\ CopyFits(j) /\ AddrsFit(j) /\ ListenersFit(j)
  BY <1>1, AloneFacts DEF CloseListener, dbVars, proxyVars
<1>3. PICK s \in Services : j.remove \in AddrsOf[s] /\ Held(j, s)
  BY <1>2 DEF AddrsFit
<1>4. j.remove \in Addrs
  BY <1>3, AloneFacts
<1>5. \A u \in Services : \A a \in AddrsOf[u] :
         /\ Held(j, u) => \/ Unused(a)
                          \/ Entered(u, a) /\ (<<u, a>> \in j.todo \/ a = j.remove)
         /\ ~Held(j, u) => Settled(u, a)
  BY <1>2 DEF ListenersFit, AddrFits, AddrHeld
<1>6. \A a \in Addrs : (\A u \in Services : a \notin AddrsOf[u]) => Unused(a) /\ a # j.remove
  BY <1>2, <1>3 DEF ListenersFit
<1>7. \A u \in Services : j.remove \in AddrsOf[u] => u = s
  BY <1>3, AloneFacts
<1>8. CASE tcpListeners[j.remove] = "none"
  <2>1. PICK k \in AfterRemove(j) : job' = [job EXCEPT ![r] = k]
    BY <1>1, <1>8 DEF CloseListener
  <2>2. UNCHANGED <<tcpListeners, open>>
    BY <1>1, <1>8 DEF CloseListener, proxyVars
  <2>3. \A a \in Addrs : (\A u \in Services : a \notin AddrsOf[u]) => Unused(a)'
    BY <1>6, <2>2 DEF Unused
  <2>4. \A u \in Services : \A a \in AddrsOf[u] :
           /\ Held(j, u) => Unused(a)' \/ (Entered(u, a)' /\ <<u, a>> \in j.todo)
           /\ ~Held(j, u) => Settled(u, a)'
    BY <1>2, <1>5, <1>8, <2>2
       DEF Unused, Settled, Entered, Broken, Serves, WantsAt, HasRow
  <2> QED BY <1>1, <1>2, <2>1, <2>3, <2>4, RemovalGoesOn
<1>9. CASE tcpListeners[j.remove] # "none"
  <2>1. tcpListeners[j.remove] = "live" \/ open[j.remove] = Closed
    BY <1>3, <1>5, <1>9 DEF Unused, Entered, Broken, Serves
  <2>2. /\ open'[j.remove] = Closed
        /\ \A a \in Addrs \ {j.remove} : open'[a] = open[a]
        /\ tcpListeners' = [tcpListeners EXCEPT ![j.remove] = "dead"]
        /\ job'[r] = [j EXCEPT !.at = "drop"]
    BY <1>1, <1>4, <1>9, <2>1, AloneFacts DEF CloseListener, Goto
  <2>3. PICK k : /\ k = job'[r] /\ k.at = "drop" /\ k.kind = j.kind /\ k.id = j.id
                 /\ k.row = j.row /\ k.todo = j.todo /\ k.remove = j.remove
    BY <1>2, <2>2 DEF Job
  <2>4. \A u \in Services : Held(job[r], u)' <=> Held(j, u)
    BY <1>2, <2>3 DEF Held, HasRow
  <2>5. RowsKeepAddrs' /\ KindFits(job[r])'
    BY <1>2, <2>3, AloneFacts DEF RowsKeepAddrs, KindFits, HasRow
  <2>6. CopyFits(job[r])'
    BY <1>2, <2>3 DEF CopyFits
  <2>7. AddrsFit(job[r])'
    <3>1. \A e \in j.todo : e[2] \in AddrsOf[e[1]] /\ e[1] \in Services /\ Held(j, e[1])
      BY <1>2 DEF AddrsFit, Job
    <3> QED BY <1>2, <1>3, <2>3, <2>4, <3>1 DEF AddrsFit
  <2>8. ListenersFit(job[r])'
    <3>1. tcpListeners'[j.remove] = "dead" /\ open'[j.remove] = Closed
      BY <1>4, <2>2, AloneFacts
    <3>2. \A a \in Addrs \ {j.remove} : tcpListeners'[a] = tcpListeners[a] /\ open'[a] = open[a]
      BY <2>2, AloneFacts
    <3>3. ASSUME NEW u \in Services, NEW a \in AddrsOf[u] PROVE AddrFits(job[r], u, a)'
      <4>1. a \in Addrs /\ (WantsAt(u, a)' <=> WantsAt(u, a))
        BY <1>2, AloneFacts DEF WantsAt, HasRow
      <4>2. CASE a = j.remove
        BY <1>3, <1>7, <2>3, <2>4, <3>1, <4>2 DEF AddrFits, AddrHeld
      <4>3. CASE a # j.remove
        <5>1. /\ Held(j, u) => Unused(a)' \/ (Entered(u, a)' /\ <<u, a>> \in j.todo)
              /\ ~Held(j, u) => Settled(u, a)'
          BY <1>2, <1>5, <3>2, <4>1, <4>3 DEF Unused, Settled, Entered, Broken, Serves
        <5>2. Held(j, u) => AddrHeld(job[r], u, a)'
          BY <2>3, <4>3, <5>1 DEF AddrHeld, Unused, Entered, Broken, Serves
        <5> QED BY <2>4, <4>1, <5>1, <5>2 DEF AddrFits
      <4> QED BY <4>2, <4>3
    <3> QED BY <1>6, <3>2, <3>3 DEF ListenersFit, Unused
  <2> QED BY <2>5, <2>6, <2>7, <2>8, AloneNext DEF Alone
<1> QED BY <1>8, <1>9

(* ... and drops the entry.                                                *)
LEMMA SeqDropEntry ==
    ASSUME NEW r \in Requests, Alone(r), DropEntry(r)
    PROVE  SeqInv'
<1>1. PICK j : j = job[r]
  OBVIOUS
<1>2. /\ j.at = "drop" /\ j \in Job /\ UNCHANGED <<services, unserved>>
      /\ KindFits(j) /\ AddrsFit(j) /\ ListenersFit(j)
  BY <1>1, AloneFacts DEF DropEntry, dbVars
<1>3. PICK s \in Services : j.remove \in AddrsOf[s] /\ Held(j, s)
  BY <1>2 DEF AddrsFit
<1>4. \A u \in Services : j.remove \in AddrsOf[u] => u = s
  BY <1>3, AloneFacts
<1>5. PICK k \in AfterRemove(j) : job' = [job EXCEPT ![r] = k]
  BY <1>1 DEF DropEntry
<1>6. tcpListeners' = [tcpListeners EXCEPT ![j.remove] = "none"] /\ open' = open
  BY <1>1 DEF DropEntry
<1>7. open[j.remove] = Closed
  BY <1>2, <1>3 DEF ListenersFit, AddrFits, AddrHeld
<1>8. Unused(j.remove)'
  <2>1. j.remove \in Addrs
    BY <1>3, AloneFacts
  <2> QED BY <1>1, <1>6, <1>7, <2>1, AloneFacts DEF Unused
<1>9. ASSUME NEW u \in Services, NEW a \in AddrsOf[u]
      PROVE  /\ Held(j, u) => Unused(a)' \/ (Entered(u, a)' /\ <<u, a>> \in j.todo)
             /\ ~Held(j, u) => Settled(u, a)'
  <2>1. CASE a = j.remove
    BY <1>3, <1>4, <1>8, <2>1
  <2>2. CASE a # j.remove
    <3>1. a \in Addrs /\ tcpListeners'[a] = tcpListeners[a] /\ open'[a] = open[a]
      BY <1>6, <2>2, AloneFacts
    <3> QED BY <1>2, <2>2, <3>1 DEF ListenersFit, AddrFits, AddrHeld, Unused, Settled, Entered, Broken,
                                           Serves, WantsAt, HasRow
  <2> QED BY <2>1, <2>2
<1>10. ASSUME NEW a \in Addrs, \A u \in Services : a \notin AddrsOf[u] PROVE Unused(a)'
  <2>1. a # j.remove /\ Unused(a)
    BY <1>2, <1>3, <1>10 DEF ListenersFit
  <2> QED BY <1>6, <2>1, AloneFacts DEF Unused
<1> QED BY <1>1, <1>2, <1>5, <1>9, <1>10, RemovalGoesOn

(* AddTCPService finds no entry in its way ...                             *)
LEMMA SeqCheckEntry ==
    ASSUME NEW r \in Requests, Alone(r), CheckEntry(r)
    PROVE  SeqInv'
<1>1. PICK j : j = job[r]
  OBVIOUS
<1>2. /\ j.at = "check" /\ j \in Job /\ j.kind \in {"create", "update"} /\ j.todo = {}
      /\ j.id \in Services /\ j.row \in Row /\ services[j.id] = j.row
      /\ j.row.addr \in AddrsOf[j.id] \cup {NoAddr}
      /\ UNCHANGED <<services, tcpListeners, open, unserved>>
  BY <1>1, AloneFacts DEF CheckEntry, Alone, Inv, JobInv, StepsHaveData, KindFits, CopyFits,
                          AddrsFit, dbVars, proxyVars
<1>3. \A u \in Services : \A a \in AddrsOf[u] :
         IF u = j.id THEN Unused(a) ELSE Settled(u, a)
  BY <1>1, <1>2, AloneFacts DEF ListenersFit, AddrFits, AddrHeld, Held
<1>4. \A a \in Addrs : (\A u \in Services : a \notin AddrsOf[u]) => Unused(a)'
  BY <1>1, <1>2, AloneFacts DEF ListenersFit, Unused
<1>5. RowsKeepAddrs'
  BY <1>2, AloneFacts DEF RowsKeepAddrs, HasRow
<1>6. CASE WantsListener(j.row)
  <2>1. tcpListeners[j.row.addr] = "none"
    BY <1>2, <1>3, <1>6 DEF WantsListener, Unused
  <2>2. PICK k : /\ k = job'[r] /\ k.at = "listen" /\ k.kind = j.kind /\ k.id = j.id
                 /\ k.row = j.row /\ k.todo = {}
    <3>1. job'[r] = [j EXCEPT !.at = "listen"]
      BY <1>1, <1>6, <2>1, AloneFacts DEF CheckEntry, Goto
    <3> QED BY <1>2, <3>1 DEF Job
  <2>3. \A u \in Services : Held(job[r], u)' <=> u = j.id
    BY <1>2, <2>2 DEF Held
  <2>4. KindFits(job[r])' /\ CopyFits(job[r])' /\ AddrsFit(job[r])'
    BY <1>2, <1>6, <2>2 DEF KindFits, CopyFits, AddrsFit, WantsListener
  <2>5. ASSUME NEW u \in Services, NEW a \in AddrsOf[u] PROVE AddrFits(job[r], u, a)'
    <3>1. u = j.id => AddrHeld(job[r], u, a)'
      BY <1>2, <1>3, <2>2 DEF AddrHeld, Unused
    <3>2. u # j.id => Settled(u, a)'
      BY <1>2, <1>3 DEF WantsAt, Settled, Broken, Serves, Unused, HasRow
    <3> QED BY <2>3, <3>1, <3>2 DEF AddrFits
  <2> QED BY <1>4, <1>5, <2>4, <2>5, AloneNext DEF Alone, ListenersFit
<1>7. CASE ~WantsListener(j.row)
  <2>1. job'[r] = Idle
    BY <1>1, <1>7, AloneFacts DEF CheckEntry, Finish
  <2>2. ASSUME NEW u \in Services, NEW a \in AddrsOf[u]
        PROVE  Settled(u, a)'
    <3>1. u = j.id => ~WantsAt(u, a)
      BY <1>2, <1>7 DEF WantsAt
    <3>2. (Settled(u, a)' <=> Settled(u, a)) /\ (Unused(a) /\ ~WantsAt(u, a) => Settled(u, a))
      BY <1>2 DEF WantsAt, Settled, Broken, Serves, Unused, HasRow
    <3> QED BY <1>3, <3>1, <3>2
  <2> QED BY <1>4, <1>5, <2>1, <2>2, MayFinish DEF Alone
<1> QED BY <1>6, <1>7

(* ... net.Listen finds the address free ...                               *)
LEMMA SeqListenDone ==
    ASSUME NEW r \in Requests, Alone(r), Listen(r), ~(UNCHANGED open /\ Finish(r))
    PROVE  SeqInv'
<1>1. PICK j : j = job[r]
  OBVIOUS
<1>2. /\ j.at = "listen" /\ j \in Job /\ j.kind \in {"create", "update"} /\ j.todo = {}
      /\ j.id \in Services /\ j.row \in Row /\ services[j.id] = j.row
      /\ j.row.addr \in AddrsOf[j.id] /\ WantsListener(j.row)
      /\ UNCHANGED <<services, tcpListeners>>
  BY <1>1, AloneFacts DEF Listen, Alone, Inv, JobInv, StepsHaveData, KindFits, CopyFits,
                          AddrsFit, WantsListener, dbVars
<1>3. \A u \in Services : \A a \in AddrsOf[u] :
         IF u = j.id THEN Unused(a) ELSE Settled(u, a)
  BY <1>1, <1>2, AloneFacts DEF ListenersFit, AddrFits, AddrHeld, Held
<1>4. PICK b : b = j.row.addr
  OBVIOUS
<1>5. b \in Addrs /\ Unused(b) /\ \A u \in Services : b \in AddrsOf[u] => u = j.id
  BY <1>2, <1>3, <1>4, AloneFacts
<1>6. PICK l : l = [service |-> j.id, target |-> j.row.target]
  OBVIOUS
<1>7. l \in Listener /\ l # Closed /\ l.service = j.id
  BY <1>2, <1>6, ConstantsAssumption DEF Listener, Row
<1>8. /\ open' = [open EXCEPT ![b] = l] /\ unserved' = unserved \ {j.id}
      /\ job'[r] = [j EXCEPT !.at = "put", !.listener = "live"]
  BY <1>1, <1>4, <1>5, <1>6, AloneFacts DEF Listen, Unused
<1>9. PICK k : /\ k = job'[r] /\ k.at = "put" /\ k.kind = j.kind /\ k.id = j.id
               /\ k.row = j.row /\ k.todo = {} /\ k.listener = "live"
  BY <1>2, <1>8 DEF Job
<1>10. RowsKeepAddrs' /\ KindFits(job[r])'
  BY <1>2, <1>9, AloneFacts DEF RowsKeepAddrs, KindFits, HasRow
<1>11. CopyFits(job[r])' /\ AddrsFit(job[r])'
  BY <1>2, <1>9 DEF CopyFits, AddrsFit, WantsListener
<1>12. \A u \in Services : Held(job[r], u)' <=> u = j.id
  BY <1>2, <1>9 DEF Held
<1>13. open'[b] = l /\ \A a \in Addrs \ {b} : open'[a] = open[a]
  BY <1>5, <1>8, AloneFacts
<1>14. ASSUME NEW u \in Services, NEW a \in AddrsOf[u] PROVE AddrFits(job[r], u, a)'
  <2>1. a \in Addrs
    BY AloneFacts
  <2>2. CASE a = b
    <3>1. AddrHeld(job[r], u, a)'
      BY <1>2, <1>4, <1>5, <1>7, <1>8, <1>9, <1>13, <2>2 DEF AddrHeld, Unused
    <3> QED BY <1>5, <1>12, <2>2, <3>1 DEF AddrFits
  <2>3. CASE a # b
    <3>1. u = j.id => AddrHeld(job[r], u, a)'
      BY <1>2, <1>3, <1>4, <1>9, <1>13, <2>1, <2>3 DEF AddrHeld, Unused
    <3>2. u # j.id => Settled(u, a)'
      BY <1>2, <1>3, <1>8, <1>13, <2>1, <2>3
         DEF WantsAt, Settled, Broken, Serves, Unused, HasRow
    <3> QED BY <1>12, <3>1, <3>2 DEF AddrFits
  <2> QED BY <2>2, <2>3
<1>15. ASSUME NEW a \in Addrs, \A u \in Services : a \notin AddrsOf[u] PROVE Unused(a)'
  <2>1. a # b /\ Unused(a)
    BY <1>2, <1>4, <1>15, AloneFacts DEF ListenersFit
  <2> QED BY <1>2, <1>13, <2>1 DEF Unused
<1> QED BY <1>10, <1>11, <1>14, <1>15, AloneNext DEF Alone, ListenersFit

(* ... or fails, and the service is unserved ...                           *)
LEMMA SeqListen ==
    ASSUME NEW r \in Requests, Alone(r), Listen(r)
    PROVE  SeqInv'
<1>1. PICK j : j = job[r]
  OBVIOUS
<1>2. CASE UNCHANGED open /\ Finish(r)
  <2>1. /\ j.at = "listen" /\ j.id \in Services /\ WantsListener(j.row) /\ j.todo = {}
        /\ j.kind \in {"create", "update"} /\ services[j.id] = j.row
        /\ job'[r] = Idle /\ UNCHANGED <<services, tcpListeners, open>>
    BY <1>1, <1>2, AloneFacts DEF Listen, Alone, Inv, JobInv, StepsHaveData, KindFits, CopyFits,
                                  dbVars, Finish
  <2>2. unserved' = unserved \cup {j.id}
    <3>1. job' # [job EXCEPT ![r].at = "put", ![r].listener = "live"]
      BY <1>1, <2>1, AloneFacts DEF Idle, Job
    <3> QED BY <1>1, <3>1 DEF Listen
  <2>3. \A u \in Services : \A a \in AddrsOf[u] :
           IF u = j.id THEN Unused(a) ELSE Settled(u, a)
    BY <1>1, <2>1, AloneFacts DEF ListenersFit, AddrFits, AddrHeld, Held
  <2>4. \A u \in Services : \A a \in AddrsOf[u] : Settled(u, a)'
    BY <2>1, <2>2, <2>3 DEF Settled, WantsAt, Broken, Serves, Unused, HasRow
  <2>5. \A a \in Addrs : (\A u \in Services : a \notin AddrsOf[u]) => Unused(a)'
    BY <2>1, AloneFacts DEF ListenersFit, Unused
  <2>6. RowsKeepAddrs'
    BY <2>1, AloneFacts DEF RowsKeepAddrs, HasRow
  <2> QED BY <2>1, <2>4, <2>5, <2>6, MayFinish DEF Alone
<1> QED BY <1>2, SeqListenDone

(* ... and the listener enters the map, unless its Accept has failed.      *)
LEMMA SeqPutEntry ==
    ASSUME NEW r \in Requests, Alone(r), PutEntry(r)
    PROVE  SeqInv'
<1>1. PICK j : j = job[r]
  OBVIOUS
<1>2. /\ j.at = "put" /\ j.kind \in {"create", "update"} /\ j.todo = {}
      /\ j.id \in Services /\ j.row \in Row /\ services[j.id] = j.row
      /\ j.row.addr \in AddrsOf[j.id] /\ WantsListener(j.row)
      /\ j.listener \in {"live", "failed"} /\ UNCHANGED <<services, open, unserved>>
  BY <1>1, AloneFacts DEF PutEntry, Alone, Inv, JobInv, StepsHaveData, KindFits, CopyFits,
                          AddrsFit, WantsListener, dbVars
<1>3. PICK b : b = j.row.addr
  OBVIOUS
<1>4. b \in Addrs /\ \A u \in Services : b \in AddrsOf[u] => u = j.id
  BY <1>2, <1>3, AloneFacts
<1>5. \A u \in Services : Held(j, u) <=> u = j.id
  BY <1>2 DEF Held
<1>6. IF j.listener = "failed" THEN open[b] = Closed /\ j.id \in unserved
      ELSE open[b] # Closed /\ open[b].service = j.id /\ j.id \notin unserved
  BY <1>1, <1>2, <1>3, <1>5, AloneFacts DEF ListenersFit, AddrFits, AddrHeld
<1>7. \A u \in Services : \A a \in AddrsOf[u] : a # b =>
         IF u = j.id THEN Unused(a) ELSE Settled(u, a)
  BY <1>1, <1>2, <1>3, <1>5, AloneFacts DEF ListenersFit, AddrFits, AddrHeld
<1>8. tcpListeners' = [tcpListeners EXCEPT ![b] = j.listener] /\ job'[r] = Idle
  BY <1>1, <1>2, <1>3, AloneFacts DEF PutEntry, Finish
<1>9. /\ tcpListeners'[b] = j.listener
      /\ \A a \in Addrs \ {b} : tcpListeners'[a] = tcpListeners[a]
  BY <1>4, <1>8, AloneFacts
<1>10. RowsKeepAddrs'
  BY <1>2, AloneFacts DEF RowsKeepAddrs, HasRow
<1>11. ASSUME NEW u \in Services, NEW a \in AddrsOf[u]
       PROVE  Settled(u, a)'
  <2>1. a \in Addrs /\ (WantsAt(u, a)' <=> WantsAt(u, a))
    BY <1>2, AloneFacts DEF WantsAt, HasRow
  <2>2. CASE a = b
    <3>1. u = j.id /\ WantsAt(u, a)
      BY <1>2, <1>3, <1>4, <2>2, ConstantsAssumption DEF WantsAt, HasRow
    <3> QED BY <1>2, <1>6, <1>9, <2>1, <2>2, <3>1 DEF Settled, Broken, Serves
  <2>3. CASE a # b
    <3>1. u = j.id => ~WantsAt(u, a)
      BY <1>2, <1>3, <2>3 DEF WantsAt
    <3> QED BY <1>2, <1>7, <1>9, <2>1, <2>3, <3>1 DEF Settled, Broken, Serves, Unused
  <2> QED BY <2>2, <2>3
<1>12. ASSUME NEW a \in Addrs, \A u \in Services : a \notin AddrsOf[u] PROVE Unused(a)'
  <2>1. a # b /\ Unused(a)
    BY <1>1, <1>2, <1>3, <1>12, AloneFacts DEF ListenersFit
  <2> QED BY <1>2, <1>9, <2>1 DEF Unused
<1> QED BY <1>8, <1>10, <1>11, <1>12, MayFinish DEF Alone

(* The DELETE of a service comes when its listener is closed.  If it       *)
(* fails, the service stays unserved ...                                   *)
LEMMA SeqDeleteRow ==
    ASSUME NEW r \in Requests, Alone(r), DeleteRow(r)
    PROVE  SeqInv'
<1>1. PICK j : j = job[r]
  OBVIOUS
<1>2. /\ j.at = "deleteRow" /\ j.kind = "delete" /\ j.id \in Services /\ j.todo = {}
      /\ UNCHANGED <<tcpListeners, open>> /\ job'[r] = Idle
  BY <1>1, AloneFacts DEF DeleteRow, KindFits, Finish
<1>3. /\ services'[j.id] = NoRow \/ (services'[j.id] = services[j.id] /\ j.id \in unserved')
      /\ \A u \in Services \ {j.id} : /\ services'[u] = services[u]
                                      /\ u \in unserved' <=> u \in unserved
  BY <1>1, <1>2, AloneFacts DEF DeleteRow
<1>4. \A u \in Services : Held(j, u) <=> u = j.id
  BY <1>2 DEF Held
<1>5. \A u \in Services : \A a \in AddrsOf[u] :
         IF u = j.id THEN Unused(a) ELSE Settled(u, a)
  BY <1>1, <1>2, <1>4, AloneFacts DEF ListenersFit, AddrFits, AddrHeld
<1>6. RowsKeepAddrs'
  BY <1>2, <1>3, AloneFacts DEF RowsKeepAddrs, HasRow
<1>7. ASSUME NEW u \in Services, NEW a \in AddrsOf[u] PROVE Settled(u, a)'
  <2>1. CASE u = j.id
    BY <1>2, <1>3, <1>5, <2>1 DEF WantsAt, Settled, Unused, HasRow
  <2>2. CASE u # j.id
    BY <1>2, <1>3, <1>5, <2>2 DEF WantsAt, Settled, Broken, Serves, Unused, HasRow
  <2> QED BY <2>1, <2>2
<1>8. \A a \in Addrs : (\A u \in Services : a \notin AddrsOf[u]) => Unused(a)'
  BY <1>2, AloneFacts DEF ListenersFit, Unused
<1> QED BY <1>2, <1>6, <1>7, <1>8, MayFinish DEF Alone

(* ... and so does that of a tunnel.                                       *)
LEMMA SeqDeleteTunnelRow ==
    ASSUME NEW r \in Requests, Alone(r), DeleteTunnelRow(r)
    PROVE  SeqInv'
<1>1. PICK j : j = job[r]
  OBVIOUS
<1>2. /\ j.at = "deleteTunnel" /\ j.kind = "deleteTunnel" /\ j.id \in Tunnels /\ j.todo = {}
      /\ UNCHANGED <<tcpListeners, open>> /\ job'[r] = Idle
  BY <1>1, AloneFacts DEF DeleteTunnelRow, KindFits, Finish
<1>3. \A u \in Services : Held(j, u) <=> HasRow(u) /\ services[u].tunnel = j.id
  BY <1>2, ConstantsAssumption DEF Held
<1>4. \A u \in Services :
         IF Held(j, u)
         THEN services'[u] = NoRow \/ (services'[u] = services[u] /\ u \in unserved')
         ELSE services'[u] = services[u] /\ (u \in unserved' <=> u \in unserved)
  BY <1>1, <1>3 DEF DeleteTunnelRow
<1>5. \A u \in Services : \A a \in AddrsOf[u] :
         IF Held(j, u) THEN Unused(a) ELSE Settled(u, a)
  BY <1>1, <1>2, AloneFacts DEF ListenersFit, AddrFits, AddrHeld
<1>6. RowsKeepAddrs'
  BY <1>4, AloneFacts DEF RowsKeepAddrs, HasRow
<1>7. \A u \in Services : \A a \in AddrsOf[u] : Settled(u, a)'
  BY <1>2, <1>4, <1>5 DEF WantsAt, Settled, Broken, Serves, Unused, HasRow
<1>8. \A a \in Addrs : (\A u \in Services : a \notin AddrsOf[u]) => Unused(a)'
  BY <1>2, AloneFacts DEF ListenersFit, Unused
<1> QED BY <1>2, <1>6, <1>7, <1>8, MayFinish DEF Alone

(* An Accept fails: its listener has been in the map, or is about to enter *)
(* it, and no service is held that was not.                                *)
LEMMA SeqAcceptFails ==
    ASSUME NEW r \in Requests, Alone(r), NEW b \in Addrs, AcceptFails(b)
    PROVE  SeqInv'
<1> DEFINE Failed(ref) == IF ref = "live" THEN "failed" ELSE ref
<1>1. PICK j : j = job[r]
  OBVIOUS
<1>2. /\ j \in Job /\ KindFits(j) /\ CopyFits(j) /\ AddrsFit(j) /\ ListenersFit(j)
      /\ open[b] # Closed /\ services' = services
  BY <1>1, AloneFacts DEF AcceptFails, dbVars
<1>3. PICK s \in Services : b \in AddrsOf[s] /\ \A u \in Services : b \in AddrsOf[u] => u = s
  BY <1>2, AloneFacts DEF ListenersFit, Unused
<1>4. AddrFits(j, s, b)
  BY <1>2, <1>3 DEF ListenersFit
<1>5. open[b].service = s
  BY <1>2, <1>4 DEF AddrFits, AddrHeld, Settled, Entered, Broken, Serves, Unused
<1>6. /\ open'[b] = Closed /\ tcpListeners'[b] = Failed(tcpListeners[b])
      /\ \A a \in Addrs \ {b} : open'[a] = open[a] /\ tcpListeners'[a] = tcpListeners[a]
      /\ unserved' = unserved \cup {s}
  BY <1>5, AloneFacts DEF AcceptFails
<1>7. job'[r] = IF j.at = "put" /\ j.row.addr = b
                THEN [j EXCEPT !.listener = Failed(@)] ELSE j
  BY <1>1 DEF AcceptFails
<1>8. PICK k : /\ k = job'[r] /\ k.at = j.at /\ k.kind = j.kind /\ k.id = j.id
               /\ k.row = j.row /\ k.todo = j.todo /\ k.remove = j.remove
               /\ k.restart = j.restart /\ (k = j \/ j.at = "put")
               /\ k.listener = IF j.at = "put" /\ j.row.addr = b THEN Failed(j.listener)
                               ELSE j.listener
  BY <1>2, <1>7 DEF Job
<1>9. \A u \in Services : Held(job[r], u)' <=> Held(j, u)
  BY <1>2, <1>8 DEF Held, HasRow
<1>10. RowsKeepAddrs' /\ KindFits(job[r])'
  <2>1. j.at = "put" => j # Idle
    BY DEF Idle
  <2> QED BY <1>2, <1>8, <2>1, AloneFacts DEF RowsKeepAddrs, KindFits, HasRow
<1>11. CopyFits(job[r])'
  BY <1>2, <1>8 DEF CopyFits, WantsAt, HasRow
<1>12. AddrsFit(job[r])'
  <2>1. \A e \in j.todo : e[1] \in Services
    BY <1>2 DEF Job
  <2> QED BY <1>2, <1>8, <1>9, <2>1 DEF AddrsFit
<1>13. ASSUME NEW u \in Services, NEW a \in AddrsOf[u], a # b
       PROVE  AddrFits(job[r], u, a)'
  <2>1. /\ open'[a] = open[a] /\ tcpListeners'[a] = tcpListeners[a]
        /\ AddrFits(j, u, a) /\ (WantsAt(u, a)' <=> WantsAt(u, a))
    BY <1>2, <1>6, <1>13, AloneFacts DEF ListenersFit, WantsAt, HasRow
  <2>2. CASE u # s
    <3>1. Held(j, u) => AddrHeld(job[r], u, a)'
      BY <1>6, <1>8, <1>13, <2>1, <2>2 DEF AddrFits, AddrHeld, Entered, Broken, Serves, Unused
    <3>2. ~Held(j, u) => Settled(u, a)'
      BY <1>6, <2>1, <2>2 DEF AddrFits, Settled, Broken, Serves, Unused
    <3> QED BY <1>9, <3>1, <3>2 DEF AddrFits
  <2>3. CASE u = s
    <3>1. ~(j.at = "put" /\ a = j.row.addr)
      <4> SUFFICES ASSUME j.at = "put", a = j.row.addr PROVE FALSE
        OBVIOUS
      <4>1. /\ j.id \in Services /\ j.row.addr \in AddrsOf[j.id] \cup {NoAddr}
            /\ j.todo = {} /\ a \in Addrs
        BY <1>1, <1>2, AloneFacts DEF Alone, Inv, JobInv, StepsHaveData, AddrsFit, KindFits
      <4>2. s = j.id
        BY <2>3, <4>1, AloneFacts, ConstantsAssumption
      <4>3. AddrHeld(j, s, b)
        BY <1>4, <4>2 DEF AddrFits, Held
      <4> QED BY <1>2, <1>13, <4>1, <4>3 DEF AddrHeld, Unused
    <3>2. Held(j, u) => AddrHeld(job[r], u, a)'
      BY <1>8, <2>1, <3>1 DEF AddrFits, AddrHeld, Entered, Broken, Serves, Unused
    <3>3. ~Held(j, u) => ~WantsAt(u, a)
      BY <1>2, <1>4, <1>13, <2>3 DEF AddrFits, Settled, WantsAt, Unused
    <3>4. ~Held(j, u) => Settled(u, a)'
      BY <2>1, <3>3 DEF AddrFits, Settled, Unused
    <3> QED BY <1>9, <3>2, <3>4 DEF AddrFits
  <2> QED BY <2>2, <2>3
<1>14. AddrFits(job[r], s, b)'
  <2>1. Held(j, s) => AddrHeld(job[r], s, b)'
    BY <1>2, <1>4, <1>6, <1>8 DEF AddrFits, AddrHeld, CopyFits, Entered, Broken, Serves, Unused
  <2>2. ~Held(j, s) => WantsAt(s, b) /\ Serves(s, b)
    BY <1>2, <1>4 DEF AddrFits, Settled, Broken, Unused
  <2>3. ~Held(j, s) => Settled(s, b)'
    BY <1>2, <1>6, <2>2 DEF Settled, WantsAt, Serves, Broken, HasRow
  <2> QED BY <1>9, <2>1, <2>3 DEF AddrFits
<1>15. ListenersFit(job[r])'
  <2>1. ASSUME NEW u \in Services, NEW a \in AddrsOf[u] PROVE AddrFits(job[r], u, a)'
    BY <1>3, <1>13, <1>14
  <2>2. \A a \in Addrs : (\A u \in Services : a \notin AddrsOf[u]) => Unused(a)'
    BY <1>2, <1>3, <1>6 DEF ListenersFit, Unused
  <2> QED BY <2>1, <2>2 DEF ListenersFit
<1> QED BY <1>10, <1>11, <1>12, <1>15, AloneNext DEF Alone

(* A restart opens the listener that each row wants, or fails to, and no   *)
(* other.                                                                  *)
LEMMA SeqRestart ==
    ASSUME NEW r \in Requests, Alone(r), Restart
    PROVE  SeqInv'
<1> DEFINE Starting(F, a) == {s \in Services \ F : Wants(s) /\ services[s].addr = a}
<1>1. PICK F \in SUBSET {s \in Services : Wants(s)} :
      /\ tcpListeners' = [a \in Addrs |-> IF Starting(F, a) = {} THEN "none" ELSE "live"]
      /\ open' \in [Addrs -> Listener \cup {Closed}]
      /\ \A a \in Addrs :
            IF Starting(F, a) = {} THEN open'[a] = Closed
            ELSE \E s \in Starting(F, a) :
                    open'[a] = [service |-> s, target |-> services[s].target]
      /\ unserved' = F /\ job'[r] = Idle /\ services' = services
  BY DEF Restart, dbVars
<1> DEFINE Started(a) == Starting(F, a)
<1>2. \A a \in Addrs : \A s \in Services : s \in Started(a) <=> WantsAt(s, a) /\ s \notin F
  BY DEF WantsAt, Wants
<1>3. \A a \in Addrs : \A s \in Started(a) : s \in Services /\ a \in AddrsOf[s]
  BY AloneFacts, ConstantsAssumption DEF RowsKeepAddrs, Wants
<1> HIDE DEF Starting
<1>4. ASSUME NEW a \in Addrs, Started(a) = {} PROVE Unused(a)'
  BY <1>1, <1>4 DEF Unused
<1>5. ASSUME NEW a \in Addrs, NEW s \in Started(a) PROVE Serves(s, a)'
  <2>1. PICK u \in Started(a) : open'[a] = [service |-> u, target |-> services[u].target]
    BY <1>1
  <2>2. u = s
    BY <1>3, AloneFacts
  <2>3. HasRow(s) /\ s \in Services
    BY <1>2, <1>3 DEF WantsAt
  <2>4. services[s].target \in Targets
    BY <2>3, AloneFacts DEF HasRow, Row
  <2>5. open'[a] \in Listener /\ open'[a].service = s
    BY <2>1, <2>2, <2>3, <2>4 DEF Listener
  <2> QED BY <1>1, <2>5, ConstantsAssumption DEF Serves
<1>6. RowsKeepAddrs'
  BY <1>1, AloneFacts DEF RowsKeepAddrs, HasRow
<1>7. ASSUME NEW u \in Services, NEW a \in AddrsOf[u]
      PROVE  Settled(u, a)'
  <2>1. a \in Addrs /\ (WantsAt(u, a)' <=> WantsAt(u, a))
    BY <1>1, AloneFacts DEF WantsAt, HasRow
  <2>2. u \notin Started(a) => Started(a) = {}
    BY <1>3, <2>1, AloneFacts
  <2> QED BY <1>1, <1>2, <1>4, <1>5, <2>1, <2>2 DEF Settled
<1>8. ASSUME NEW a \in Addrs, \A u \in Services : a \notin AddrsOf[u] PROVE Unused(a)'
  BY <1>3, <1>4, <1>8
<1> QED BY <1>1, <1>6, <1>7, <1>8, MayFinish DEF Alone

-----------------------------------------------------------------------------
(* SeqInv holds initially.                                                 *)
LEMMA SeqInit == Init => SeqInv
<1> SUFFICES ASSUME Init PROVE SeqInv
  OBVIOUS
<1>1. \A s \in Services : AddrsOf[s] \subseteq Addrs
  BY ConstantsAssumption
<1>2. \A s \in Services : ~HasRow(s)
  BY DEF Init, HasRow
<1>3. \A a \in Addrs : Unused(a)
  BY DEF Init, Unused
<1>4. ListenersFit(Idle)
  BY <1>1, <1>2, <1>3, IdleHolds DEF ListenersFit, AddrFits, Settled, WantsAt
<1>5. \A r \in Requests : job[r] = Idle
  BY DEF Init
<1> QED BY <1>2, <1>4, <1>5, IdleHolds DEF SeqInv, RowsKeepAddrs, JobFits

(* Every step of a request that is alone keeps it.                         *)
LEMMA SeqNext ==
    ASSUME NEW r \in Requests, Alone(r), [Next]_vars
    PROVE  SeqInv'
<1>1. \A q \in Requests : q = r
  BY DEF Alone
<1>2. ASSUME RequestStarts(r) PROVE SeqInv'
  BY <1>2, SeqCreateService, SeqUpdateService, SeqDeleteService, SeqDeleteTunnel
     DEF RequestStarts
<1>3. ASSUME RequestStep(r) PROVE SeqInv'
  BY <1>3, SeqInsertRow, SeqWriteRow, SeqCloseListener, SeqDropEntry, SeqCheckEntry,
     SeqListen, SeqPutEntry, SeqDeleteRow, SeqDeleteTunnelRow DEF RequestStep
<1>4. ASSUME NEW a \in Addrs, AcceptFails(a) PROVE SeqInv'
  BY <1>4, SeqAcceptFails
<1>5. ASSUME UNCHANGED vars PROVE SeqInv'
  BY <1>5 DEF vars, Alone, SeqInv, RowsKeepAddrs, JobFits, KindFits, CopyFits, AddrsFit,
              ListenersFit, AddrFits, AddrHeld, Held, Settled, Entered, Broken, Serves, Unused,
              WantsAt, HasRow, proxyVars, dbVars
<1> QED BY <1>1, <1>2, <1>3, <1>4, <1>5, SeqRestart DEF Next

(* When no request is in progress SeqInv is ListenersMatchRows.            *)
LEMMA SeqMatches ==
    ASSUME NEW r \in Requests, Alone(r)
    PROVE  ListenersMatchRows
<1> SUFFICES ASSUME Quiet PROVE ListenersMatchRows
  BY DEF ListenersMatchRows
<1>1. job[r] = Idle
  BY AloneFacts DEF Quiet, KindFits
<1>2. \A s \in Services : \A a \in AddrsOf[s] : Settled(s, a)
  BY <1>1, AloneFacts, IdleHolds DEF ListenersFit, AddrFits
<1>3. ASSUME NEW s \in Services, Wants(s)
      PROVE  LET a == services[s].addr IN
             IF s \in unserved THEN open[a] = Closed
             ELSE tcpListeners[a] = "live" /\ open[a] # Closed /\ open[a].service = s
  <2>1. services[s].addr \in AddrsOf[s] /\ WantsAt(s, services[s].addr)
    BY <1>3, AloneFacts DEF RowsKeepAddrs, Wants, WantsListener, WantsAt
  <2> QED BY <1>2, <2>1 DEF Settled, Serves, Unused, Broken
<1>4. ASSUME NEW a \in Addrs, open[a] # Closed
      PROVE  /\ Wants(open[a].service) /\ services[open[a].service].addr = a
             /\ tcpListeners[a] = "live"
  <2>1. PICK s \in Services : a \in AddrsOf[s]
    BY <1>4, AloneFacts DEF ListenersFit, Unused
  <2>2. WantsAt(s, a) /\ Serves(s, a)
    BY <1>2, <1>4, <2>1 DEF Settled, Broken, Unused
  <2> QED BY <2>2 DEF Serves, WantsAt, Wants
<1> QED BY <1>3, <1>4 DEF ListenersMatchRows

(* When requests come one at a time and no two services are given the same *)
(* address, then between requests an enabled TCP service has a listener of *)
(* its own at its address, known to tcpListeners, unless an error has left *)
(* it without one that no later request has made good, and then nothing    *)
(* listens there; and no listener is open for anything else.  This holds   *)
(* whatever statements, net.Listens and Accepts fail, however many         *)
(* requests and restarts there have been, and wherever a restart cut a     *)
(* request short.                                                          *)
THEOREM ListenersMatchRowsAlways ==
    ASSUME Sequential PROVE Spec => []ListenersMatchRows
<1>1. PICK r \in Requests : Requests = {r}
  BY DEF Sequential, OneRequest
<1>2. OwnAddresses
  BY DEF Sequential
<1>3. Inv /\ SeqInv /\ [Next]_vars => SeqInv'
  BY <1>1, <1>2, SeqNext DEF Alone
<1>4. Inv /\ SeqInv => ListenersMatchRows
  BY <1>1, <1>2, SeqMatches DEF Alone
<1> QED BY <1>3, <1>4, SeqInit, Invariant, PTL DEF Spec
===============================================================================
