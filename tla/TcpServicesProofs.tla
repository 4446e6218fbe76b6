-------------------------- MODULE TcpServicesProofs --------------------------
(***************************************************************************)
(* Proofs about TcpServices for any number of tunnels, services, addresses *)
(* and concurrent requests: the inductive invariant Inv, and what follows  *)
(* from it.                                                                *)
(***************************************************************************)
EXTENDS TcpServices, TLAPS

(* An id is handed out once: until its row has been inserted only the      *)
(* request that creates it knows it, and a request that updates a service  *)
(* has the tunnel of the row, which never changes.                         *)
IdsUsed ==
    /\ \A s \in Services : HasRow(s) => s \in used
    /\ \A r \in Requests : job[r].id \in Services => job[r].id \in used

InsertsAreNew ==
    \A r \in Requests : job[r].at = "insert" =>
        /\ job[r].id \in Services /\ job[r].row \in Row /\ ~HasRow(job[r].id)
        /\ \A q \in Requests \ {r} : job[q].id # job[r].id

WritesKeepTunnel ==
    \A r \in Requests : job[r].at = "write" =>
        /\ job[r].id \in Services /\ job[r].row \in Row
        /\ HasRow(job[r].id) => job[r].row.tunnel = services[job[r].id].tunnel

(* The steps of RemoveTCPService and startTCPListener have what they use.  *)
StepsHaveData ==
    \A r \in Requests :
        /\ job[r].at \in {"close", "drop"} => job[r].remove \in Addrs
        /\ job[r].at = "check" => job[r].id \in Services /\ job[r].row \in Row
        /\ job[r].at \in {"listen", "put"} =>
              job[r].id \in Services /\ job[r].row \in Row /\ job[r].row.addr \in Addrs
        /\ job[r].kind \in {"create", "update"} => job[r].id \in Services /\ job[r].row \in Row
        /\ job[r].kind = "delete" \/ job[r].at = "deleteRow" => job[r].id \in Services

(* Nobody but its own Accept closes a listener that is about to enter the  *)
(* map.                                                                    *)
FreshListenersLive ==
    \A r \in Requests : job[r].at = "put" => job[r].listener \in {"live", "failed"}

JobInv == IdsUsed /\ InsertsAreNew /\ WritesKeepTunnel /\ StepsHaveData

Inv == TypeOK /\ JobInv /\ ServicesHaveTunnels /\ FreshListenersLive /\ ClosedEntriesDropped

-----------------------------------------------------------------------------
(* Lemmas about the records of jobs.                                       *)

(* Idle is a job.                                                          *)
LEMMA IdleType == Idle \in Job
<1>1. {} \in SUBSET (Services \X Addrs) /\ "none" \in Reference
  BY DEF Reference
<1> QED BY <1>1 DEF Idle, Job

(* NextRemoval goes on with the same request.                              *)
LEMMA NextRemovalJob ==
    ASSUME NEW j \in Job, NEW k \in NextRemoval(j)
    PROVE  /\ k \in Job /\ k.id = j.id /\ k.kind = j.kind /\ k.row = j.row
           /\ k.at \in {"close", "deleteTunnel"}
           /\ k.at = "close" => k.remove \in Addrs
<1>1. CASE j.todo = {}
  <2>1. k = [j EXCEPT !.at = "deleteTunnel", !.remove = NoAddr]
    BY <1>1 DEF NextRemoval
  <2> QED BY <2>1 DEF Job
<1>2. CASE j.todo # {}
  <2>1. PICK e \in j.todo : k = [j EXCEPT !.at = "close", !.remove = e[2], !.todo = j.todo \ {e}]
    BY <1>2 DEF NextRemoval
  <2>2. e[2] \in Addrs /\ j.todo \ {e} \in SUBSET (Services \X Addrs)
    BY DEF Job
  <2> QED BY <2>1, <2>2 DEF Job
<1> QED BY <1>1, <1>2

(* So does AfterRemove; an update comes to AddTCPService.                  *)
LEMMA AfterRemoveJob ==
    ASSUME NEW j \in Job, NEW k \in AfterRemove(j)
    PROVE  /\ k \in Job /\ k.id = j.id /\ k.kind = j.kind /\ k.row = j.row
           /\ k.at \in {"close", "deleteTunnel", "check", "deleteRow"}
           /\ k.at = "close" => k.remove \in Addrs
           /\ k.at = "check" => k.kind = "update"
           /\ k.at = "deleteRow" => k.kind = "delete"
<1>1. CASE j.kind = "update"
  <2>1. k = [j EXCEPT !.at = "check"]
    BY <1>1 DEF AfterRemove
  <2> QED BY <1>1, <2>1 DEF Job
<1>2. CASE j.kind = "delete"
  <2>1. k = [j EXCEPT !.at = "deleteRow"]
    BY <1>2 DEF AfterRemove
  <2> QED BY <1>2, <2>1 DEF Job
<1>3. CASE j.kind \notin {"update", "delete"}
  <2>1. k \in NextRemoval(j)
    BY <1>3 DEF AfterRemove
  <2> QED BY <2>1, NextRemovalJob
<1> QED BY <1>1, <1>2, <1>3

-----------------------------------------------------------------------------
(* Frame lemmas: one request r goes on with the job k.                     *)

(* What JobInv asks of a job that is not about to insert a row.            *)
Fits(r, k) ==
    /\ k \in Job /\ k.at # "insert"
    /\ k.id \in Services => k.id \in used
    /\ \A q \in Requests \ {r} : job[q].at = "insert" => job[q].id # k.id
    /\ k.at = "write" => /\ k.id \in Services /\ k.row \in Row
                         /\ HasRow(k.id) => k.row.tunnel = services[k.id].tunnel
    /\ k.at \in {"close", "drop"} => k.remove \in Addrs
    /\ k.at \in {"listen", "put"} => k.row.addr \in Addrs
    /\ k.at \in {"check", "listen", "put"} => k.id \in Services /\ k.row \in Row
    /\ k.kind \in {"create", "update"} => k.id \in Services /\ k.row \in Row
    /\ k.kind = "delete" \/ k.at = "deleteRow" => k.id \in Services

(* Idle does.                                                              *)
LEMMA IdleFits ==
    ASSUME JobInv, NEW r \in Requests PROVE Fits(r, Idle)
<1>1. NoRow \notin Services
  BY ConstantsAssumption
<1> QED BY <1>1, IdleType DEF Fits, Idle, JobInv, InsertsAreNew

(* The rows stay as they are.                                              *)
LEMMA JobFrame ==
    ASSUME TypeOK, JobInv, ServicesHaveTunnels,
           NEW r \in Requests, NEW k, Fits(r, k),
           job' = [job EXCEPT ![r] = k],
           services' = services, tunnels' = tunnels, used' = used
    PROVE  JobInv' /\ ServicesHaveTunnels' /\ job' \in [Requests -> Job]
<1>1. /\ \A q \in Requests : job'[q] = IF q = r THEN k ELSE job[q]
      /\ job' \in [Requests -> Job]
  BY DEF TypeOK, Fits
<1>2. IdsUsed'
  BY <1>1 DEF Fits, JobInv, IdsUsed, HasRow
<1>3. InsertsAreNew'
  <2> SUFFICES ASSUME NEW q \in Requests, job'[q].at = "insert"
               PROVE  /\ job'[q].id \in Services /\ job'[q].row \in Row
                      /\ services'[job'[q].id] = NoRow
                      /\ \A p \in Requests \ {q} : job'[p].id # job'[q].id
    BY DEF InsertsAreNew, HasRow
  <2>1. q # r /\ job'[q] = job[q]
    BY <1>1 DEF Fits
  <2> QED BY <1>1, <2>1 DEF Fits, JobInv, InsertsAreNew, HasRow
<1>4. WritesKeepTunnel'
  BY <1>1 DEF Fits, JobInv, WritesKeepTunnel, HasRow
<1>5. StepsHaveData'
  BY <1>1 DEF Fits, JobInv, StepsHaveData
<1> QED BY <1>1, <1>2, <1>3, <1>4, <1>5 DEF JobInv, ServicesHaveTunnels, HasRow

(* Neither the entries nor a request that is dropping one are touched.     *)
LEMMA EntriesFrame ==
    ASSUME TypeOK, FreshListenersLive, ClosedEntriesDropped,
           NEW r \in Requests, NEW k \in Job,
           job' = [job EXCEPT ![r] = k], job[r].at # "drop",
           tcpListeners' = tcpListeners,
           k.at = "put" => k.listener = "live"
    PROVE  FreshListenersLive' /\ ClosedEntriesDropped'
<1>1. \A q \in Requests : job'[q] = IF q = r THEN k ELSE job[q]
  BY DEF TypeOK
<1>2. FreshListenersLive'
  BY <1>1 DEF FreshListenersLive
<1>3. ClosedEntriesDropped'
  BY <1>1 DEF ClosedEntriesDropped
<1> QED BY <1>2, <1>3

-----------------------------------------------------------------------------
(* One lemma per group of actions.                                         *)

(* Requests that begin: createService ...                                  *)
LEMMA CreateServiceStep ==
    ASSUME Inv, NEW r \in Requests, NEW s \in Services, NEW w \in Row,
           CreateService(r, s, w)
    PROVE  Inv'
<1> DEFINE k == [Idle EXCEPT !.at = "insert", !.kind = "create", !.id = s, !.row = w]
<1> USE DEF Inv, dbVars, proxyVars
<1>1. k \in Job /\ k.at = "insert" /\ k.id = s /\ k.row = w /\ k.kind = "create"
  BY IdleType DEF Job, Idle
<1>2. /\ s \notin used /\ used' = used \cup {s} /\ job[r].at = "idle"
      /\ job' = [job EXCEPT ![r] = k]
      /\ UNCHANGED <<tunnels, services, tcpListeners, open, unserved>>
  BY DEF CreateService
<1>3. \A q \in Requests : job'[q] = IF q = r THEN k ELSE job[q]
  BY <1>2 DEF TypeOK
<1> HIDE DEF k
<1>4. TypeOK'
  BY <1>1, <1>2 DEF TypeOK
<1>5. ~HasRow(s) /\ \A q \in Requests : job[q].id # s
  BY <1>2 DEF JobInv, IdsUsed
<1>6. IdsUsed'
  BY <1>1, <1>2, <1>3 DEF JobInv, IdsUsed, HasRow
<1>7. InsertsAreNew'
  <2> SUFFICES ASSUME NEW q \in Requests, job'[q].at = "insert"
               PROVE  /\ job'[q].id \in Services /\ job'[q].row \in Row
                      /\ services'[job'[q].id] = NoRow
                      /\ \A p \in Requests \ {q} : job'[p].id # job'[q].id
    BY DEF InsertsAreNew, HasRow
  <2>1. CASE q = r
    BY <1>1, <1>2, <1>3, <1>5, <2>1 DEF HasRow
  <2>2. CASE q # r
    BY <1>1, <1>2, <1>3, <1>5, <2>2 DEF JobInv, InsertsAreNew, HasRow
  <2> QED BY <2>1, <2>2
<1>8. WritesKeepTunnel'
  BY <1>1, <1>2, <1>3 DEF JobInv, WritesKeepTunnel, HasRow
<1>9. StepsHaveData'
  BY <1>1, <1>3 DEF JobInv, StepsHaveData
<1>10. ServicesHaveTunnels'
  BY <1>2 DEF ServicesHaveTunnels, HasRow
<1>11. FreshListenersLive' /\ ClosedEntriesDropped'
  BY <1>1, <1>2, EntriesFrame
<1> QED BY <1>4, <1>6, <1>7, <1>8, <1>9, <1>10, <1>11 DEF JobInv

(* ... updateService ...                                                   *)
LEMMA UpdateServiceStep ==
    ASSUME Inv, NEW r \in Requests, NEW s \in Services,
           NEW addr \in Addrs \cup {NoAddr, Keep}, NEW target \in Targets \cup {Keep},
           NEW enabled \in BOOLEAN \cup {Keep},
           UpdateService(r, s, addr, target, enabled)
    PROVE  Inv'
<1> DEFINE w == services[s]
           v == [w EXCEPT !.addr = Patched(w.addr, addr),
                          !.target = Patched(w.target, target),
                          !.enabled = Patched(w.enabled, enabled)]
           k == [Idle EXCEPT !.at = "write", !.kind = "update", !.id = s, !.row = v,
                    !.restart = w.type = "tcp" /\ (addr # Keep \/ enabled # Keep),
                    !.remove = w.addr]
<1> USE DEF Inv, dbVars, proxyVars
<1>1. /\ job[r].at = "idle" /\ HasRow(s) /\ job' = [job EXCEPT ![r] = k]
      /\ UNCHANGED <<tunnels, services, used, tcpListeners, open, unserved>>
  BY DEF UpdateService
<1>2. w \in Row
  BY <1>1 DEF TypeOK, HasRow
<1>3. /\ Patched(w.addr, addr) \in Addrs \cup {NoAddr}
      /\ Patched(w.target, target) \in Targets
      /\ Patched(w.enabled, enabled) \in BOOLEAN
  BY <1>2 DEF Patched, Row
<1>4. v \in Row /\ v.tunnel = w.tunnel
  BY <1>2, <1>3 DEF Row
<1>5. (w.type = "tcp" /\ (addr # Keep \/ enabled # Keep)) \in BOOLEAN /\ w.addr \in Addrs \cup {NoAddr}
  BY <1>2 DEF Row
<1> HIDE DEF v
<1>6. k \in Job /\ k.at = "write" /\ k.id = s /\ k.row = v /\ k.kind = "update"
  BY <1>4, <1>5, IdleType DEF Job, Idle
<1> HIDE DEF k
<1>7. \A q \in Requests : job[q].at = "insert" => job[q].id # s
  BY <1>1 DEF JobInv, InsertsAreNew
<1>8. JobInv' /\ ServicesHaveTunnels' /\ job' \in [Requests -> Job]
  <2>1. s \in used
    BY <1>1 DEF JobInv, IdsUsed
  <2>2. Fits(r, k)
    BY <1>1, <1>4, <1>6, <1>7, <2>1 DEF Fits
  <2> QED BY <1>1, <2>2, JobFrame
<1>9. FreshListenersLive' /\ ClosedEntriesDropped'
  BY <1>1, <1>6, EntriesFrame
<1> QED BY <1>1, <1>8, <1>9 DEF TypeOK

(* ... deleteService ...                                                   *)
LEMMA DeleteServiceStep ==
    ASSUME Inv, NEW r \in Requests, NEW s \in Services, DeleteService(r, s)
    PROVE  Inv'
<1> DEFINE k == [Idle EXCEPT !.at = IF services[s].addr = NoAddr THEN "deleteRow" ELSE "close",
                             !.kind = "delete", !.id = s, !.remove = services[s].addr]
<1> USE DEF Inv, dbVars, proxyVars
<1>1. /\ job[r].at = "idle" /\ HasRow(s) /\ job' = [job EXCEPT ![r] = k]
      /\ UNCHANGED <<tunnels, services, used, tcpListeners, open, unserved>>
  BY DEF DeleteService
<1>2. services[s].addr \in Addrs \cup {NoAddr}
  BY <1>1 DEF TypeOK, HasRow, Row
<1>3. /\ k \in Job /\ k.at \in {"deleteRow", "close"} /\ k.id = s /\ k.kind = "delete"
      /\ k.at = "close" => k.remove \in Addrs
  BY <1>2, IdleType DEF Job, Idle
<1> HIDE DEF k
<1>4. s \in used /\ \A q \in Requests : job[q].at = "insert" => job[q].id # s
  BY <1>1 DEF JobInv, IdsUsed, InsertsAreNew
<1>5. JobInv' /\ ServicesHaveTunnels' /\ job' \in [Requests -> Job]
  <2>1. Fits(r, k)
    BY <1>3, <1>4 DEF Fits
  <2> QED BY <1>1, <2>1, JobFrame
<1>6. FreshListenersLive' /\ ClosedEntriesDropped'
  BY <1>1, <1>3, EntriesFrame
<1> QED BY <1>1, <1>5, <1>6 DEF TypeOK

(* ... and deleteTunnel.                                                   *)
LEMMA DeleteTunnelStep ==
    ASSUME Inv, NEW r \in Requests, NEW t \in Tunnels, DeleteTunnel(r, t)
    PROVE  Inv'
<1> DEFINE listed == {s \in Services : HasRow(s) /\ services[s].tunnel = t
                                                 /\ services[s].addr # NoAddr}
           todo == {<<s, services[s].addr>> : s \in listed}
           j == [Idle EXCEPT !.kind = "deleteTunnel", !.id = t, !.todo = todo]
<1> USE DEF Inv, dbVars, proxyVars
<1>1. PICK k \in NextRemoval(j) : job' = [job EXCEPT ![r] = k]
  BY DEF DeleteTunnel
<1>2. job[r].at = "idle" /\ UNCHANGED <<tunnels, services, used, tcpListeners, open, unserved>>
  BY DEF DeleteTunnel
<1>3. todo \in SUBSET (Services \X Addrs)
  BY DEF TypeOK, HasRow, Row
<1> HIDE DEF todo
<1>4. j \in Job /\ j.id = t /\ j.kind = "deleteTunnel"
  BY <1>3, IdleType DEF Job, Idle
<1> HIDE DEF j
<1>5. /\ k \in Job /\ k.id = t /\ k.kind = "deleteTunnel"
      /\ k.at \in {"close", "deleteTunnel"} /\ (k.at = "close" => k.remove \in Addrs)
  BY <1>4, NextRemovalJob
<1>6. t \notin Services
  BY ConstantsAssumption
<1>7. JobInv' /\ ServicesHaveTunnels' /\ job' \in [Requests -> Job]
  <2>1. \A q \in Requests : job[q].at = "insert" => job[q].id # t
    BY <1>6 DEF JobInv, InsertsAreNew
  <2>2. Fits(r, k)
    BY <1>5, <1>6, <2>1 DEF Fits
  <2> QED BY <1>1, <1>2, <2>2, JobFrame
<1>8. FreshListenersLive' /\ ClosedEntriesDropped'
  BY <1>1, <1>2, <1>5, EntriesFrame
<1> QED BY <1>2, <1>7, <1>8 DEF TypeOK

(* The steps that touch the map or a listener, but no row.                 *)
LEMMA ListenerStep ==
    ASSUME Inv, NEW r \in Requests,
           CloseListener(r) \/ DropEntry(r) \/ CheckEntry(r) \/ Listen(r) \/ PutEntry(r)
    PROVE  Inv'
<1> USE DEF Inv, dbVars, proxyVars
<1> DEFINE j == job[r]
<1>1. j \in Job /\ Idle \in Job
  BY IdleType DEF TypeOK
<1>2. /\ j.id \in Services => j.id \in used
      /\ j.at # "insert" => \A q \in Requests \ {r} : job[q].at = "insert" => job[q].id # j.id
      /\ j.at \in {"close", "drop"} => j.remove \in Addrs
      /\ j.at \in {"check", "listen", "put"} => j.id \in Services /\ j.row \in Row
      /\ j.at \in {"listen", "put"} => j.row.addr \in Addrs
      /\ j.kind \in {"create", "update"} => j.id \in Services /\ j.row \in Row
      /\ j.kind = "delete" \/ j.at = "deleteRow" => j.id \in Services
  BY DEF JobInv, IdsUsed, InsertsAreNew, StepsHaveData
<1>3. UNCHANGED <<tunnels, services, used>>
  BY DEF CloseListener, DropEntry, CheckEntry, Listen, PutEntry
<1>4. unserved' \subseteq Services
  BY <1>2 DEF CloseListener, DropEntry, CheckEntry, Listen, PutEntry, TypeOK
<1>5. /\ Idle.at = "idle" /\ Idle.kind = "none" /\ Idle.id = NoRow /\ NoRow \notin Services
  BY ConstantsAssumption DEF Idle
<1>6. CASE CloseListener(r)
  <2>1. j.at = "close" /\ j.remove \in Addrs
    BY <1>2, <1>6 DEF CloseListener
  <2>2. CASE tcpListeners[j.remove] = "none"
    <3>1. PICK k \in AfterRemove(j) : job' = [job EXCEPT ![r] = k]
      BY <1>6, <2>2 DEF CloseListener
    <3>2. UNCHANGED <<tcpListeners, open>>
      BY <1>6, <2>2 DEF CloseListener
    <3>3. /\ k \in Job /\ k.id = j.id /\ k.kind = j.kind /\ k.row = j.row
          /\ k.at \in {"close", "deleteTunnel", "check", "deleteRow"}
          /\ k.at = "close" => k.remove \in Addrs
          /\ k.at = "check" => k.kind = "update"
          /\ k.at = "deleteRow" => k.kind = "delete"
      BY <1>1, AfterRemoveJob
    <3>4. JobInv' /\ ServicesHaveTunnels' /\ job' \in [Requests -> Job]
      <4>1. Fits(r, k)
        BY <1>2, <2>1, <3>3 DEF Fits
      <4> QED BY <1>3, <3>1, <4>1, JobFrame
    <3>5. FreshListenersLive' /\ ClosedEntriesDropped'
      BY <2>1, <3>1, <3>2, <3>3, EntriesFrame
    <3> QED BY <1>3, <1>4, <3>2, <3>4, <3>5 DEF TypeOK
  <2>3. CASE tcpListeners[j.remove] # "none"
    <3> DEFINE k == [j EXCEPT !.at = "drop"]
    <3>1. /\ job' = [job EXCEPT ![r] = k]
          /\ tcpListeners' = [tcpListeners EXCEPT ![j.remove] = "dead"]
          /\ open' = [open EXCEPT ![j.remove] = Closed] \/ open' = open
      BY <1>6, <2>3 DEF CloseListener, Goto, TypeOK
    <3>2. k \in Job /\ k.at = "drop" /\ k.id = j.id /\ k.kind = j.kind /\ k.row = j.row
             /\ k.remove = j.remove
      BY <1>1 DEF Job
    <3> HIDE DEF k
    <3>3. JobInv' /\ ServicesHaveTunnels' /\ job' \in [Requests -> Job]
      <4>1. Fits(r, k)
        BY <1>2, <2>1, <3>2 DEF Fits
      <4> QED BY <1>3, <3>1, <4>1, JobFrame
    <3>4. \A q \in Requests : job'[q] = IF q = r THEN k ELSE job[q]
      BY <3>1 DEF TypeOK
    <3>5. FreshListenersLive'
      BY <3>2, <3>4 DEF FreshListenersLive
    <3>6. ClosedEntriesDropped'
      BY <2>1, <3>1, <3>2, <3>4 DEF ClosedEntriesDropped, TypeOK
    <3>7. tcpListeners' \in [Addrs -> Reference] /\ open' \in [Addrs -> Listener \cup {Closed}]
      BY <3>1 DEF TypeOK, Reference
    <3> QED BY <1>3, <1>4, <3>3, <3>5, <3>6, <3>7 DEF TypeOK
  <2> QED BY <2>2, <2>3
<1>7. CASE DropEntry(r)
  <2>1. PICK k \in AfterRemove(j) : job' = [job EXCEPT ![r] = k]
    BY <1>7 DEF DropEntry
  <2>2. /\ j.at = "drop" /\ UNCHANGED open
        /\ tcpListeners' = [tcpListeners EXCEPT ![j.remove] = "none"]
    BY <1>7 DEF DropEntry
  <2>3. /\ k \in Job /\ k.id = j.id /\ k.kind = j.kind /\ k.row = j.row
        /\ k.at \in {"close", "deleteTunnel", "check", "deleteRow"}
        /\ k.at = "close" => k.remove \in Addrs
        /\ k.at = "check" => k.kind = "update"
        /\ k.at = "deleteRow" => k.kind = "delete"
    BY <1>1, AfterRemoveJob
  <2>4. JobInv' /\ ServicesHaveTunnels' /\ job' \in [Requests -> Job]
    <3>1. Fits(r, k)
      BY <1>2, <2>2, <2>3 DEF Fits
    <3> QED BY <1>3, <2>1, <3>1, JobFrame
  <2>5. \A q \in Requests : job'[q] = IF q = r THEN k ELSE job[q]
    BY <2>1 DEF TypeOK
  <2>6. FreshListenersLive'
    BY <2>3, <2>5 DEF FreshListenersLive
  <2>7. ClosedEntriesDropped'
    <3> SUFFICES ASSUME NEW a \in Addrs, tcpListeners'[a] = "dead"
                 PROVE  \E q \in Requests : job'[q].at = "drop" /\ job'[q].remove = a
      BY DEF ClosedEntriesDropped
    <3>1. a # j.remove /\ tcpListeners[a] = "dead"
      BY <2>2 DEF TypeOK
    <3>2. PICK q \in Requests : job[q].at = "drop" /\ job[q].remove = a
      BY <3>1 DEF ClosedEntriesDropped
    <3> QED BY <2>5, <3>1, <3>2
  <2>8. tcpListeners' \in [Addrs -> Reference]
    BY <2>2 DEF TypeOK, Reference
  <2> QED BY <1>3, <1>4, <2>2, <2>4, <2>6, <2>7, <2>8 DEF TypeOK
<1>8. CASE CheckEntry(r)
  <2> DEFINE k == IF WantsListener(j.row) /\ tcpListeners[j.row.addr] = "none"
                  THEN [j EXCEPT !.at = "listen"] ELSE Idle
  <2>1. j.at = "check" /\ job' = [job EXCEPT ![r] = k] /\ UNCHANGED <<tcpListeners, open>>
    BY <1>8 DEF CheckEntry, Goto, Finish, TypeOK
  <2>2. k \in Job /\ k.at \in {"listen", "idle"}
    BY <1>1, <1>5 DEF Job
  <2>3. /\ k.at = "listen" => k.id = j.id /\ k.row = j.row /\ j.row.addr \in Addrs
        /\ k.at = "idle" => k = Idle
    BY <1>1, <1>2, <1>5, <2>1 DEF Job, Row, WantsListener
  <2> HIDE DEF k
  <2>4. JobInv' /\ ServicesHaveTunnels' /\ job' \in [Requests -> Job]
    <3>1. Fits(r, k)
      BY <1>2, <2>1, <2>2, <2>3, IdleFits DEF Fits
    <3> QED BY <1>3, <2>1, <3>1, JobFrame
  <2>5. FreshListenersLive' /\ ClosedEntriesDropped'
    BY <2>1, <2>2, EntriesFrame
  <2> QED BY <1>3, <1>4, <2>1, <2>4, <2>5 DEF TypeOK
<1>9. CASE Listen(r)
  <2> DEFINE a == j.row.addr
  <2> "live" \in Reference
    BY DEF Reference
  <2>1. /\ j.at = "listen" /\ UNCHANGED tcpListeners
        /\ \/ open' = open
           \/ open' = [open EXCEPT ![a] = [service |-> j.id, target |-> j.row.target]]
    BY <1>9 DEF Listen
  <2>0. PICK k \in {[j EXCEPT !.at = "put", !.listener = "live"], Idle} :
             job' = [job EXCEPT ![r] = k]
    BY <1>9 DEF Listen, Finish, TypeOK
  <2>2. k \in Job /\ k.at \in {"put", "idle"} /\ (k.at = "put" => k.listener = "live")
    BY <1>1, <1>5 DEF Job
  <2>3. /\ k.at = "put" => k.id = j.id /\ k.row = j.row
        /\ k.at = "idle" => k = Idle
    BY <1>1, <1>5 DEF Job
  <2>4. JobInv' /\ ServicesHaveTunnels' /\ job' \in [Requests -> Job]
    <3>1. Fits(r, k)
      BY <1>2, <2>1, <2>2, <2>3, IdleFits DEF Fits
    <3> QED BY <1>3, <2>0, <3>1, JobFrame
  <2>5. FreshListenersLive' /\ ClosedEntriesDropped'
    BY <2>0, <2>1, <2>2, EntriesFrame
  <2>6. open' \in [Addrs -> Listener \cup {Closed}]
    BY <1>2, <2>1 DEF TypeOK, Listener, Row
  <2> QED BY <1>3, <1>4, <2>1, <2>4, <2>5, <2>6 DEF TypeOK
<1>10. CASE PutEntry(r)
  <2> DEFINE a == j.row.addr
  <2>1. /\ j.at = "put" /\ job' = [job EXCEPT ![r] = Idle] /\ UNCHANGED open
        /\ tcpListeners' = [tcpListeners EXCEPT ![a] = j.listener]
    BY <1>10 DEF PutEntry, Finish
  <2>2. JobInv' /\ ServicesHaveTunnels' /\ job' \in [Requests -> Job]
    BY <1>3, <2>1, IdleFits, JobFrame
  <2>3. \A q \in Requests : job'[q] = IF q = r THEN Idle ELSE job[q]
    BY <2>1 DEF TypeOK
  <2>4. FreshListenersLive'
    BY <1>5, <2>3 DEF FreshListenersLive
  <2>5. ClosedEntriesDropped'
    <3> SUFFICES ASSUME NEW b \in Addrs, tcpListeners'[b] = "dead"
                 PROVE  \E q \in Requests : job'[q].at = "drop" /\ job'[q].remove = b
      BY DEF ClosedEntriesDropped
    <3>1. tcpListeners[b] = "dead"
      BY <2>1 DEF TypeOK, FreshListenersLive
    <3>2. PICK q \in Requests : job[q].at = "drop" /\ job[q].remove = b
      BY <3>1 DEF ClosedEntriesDropped
    <3> QED BY <2>1, <2>3, <3>2
  <2>6. tcpListeners' \in [Addrs -> Reference]
    BY <1>1, <2>1 DEF TypeOK, Job
  <2> QED BY <1>3, <1>4, <2>1, <2>2, <2>4, <2>5, <2>6 DEF TypeOK
<1> QED BY <1>6, <1>7, <1>8, <1>9, <1>10

(* The steps that write a row: INSERT ...                                  *)
LEMMA InsertRowStep ==
    ASSUME Inv, NEW r \in Requests, InsertRow(r)
    PROVE  Inv'
<1> USE DEF Inv, dbVars, proxyVars
<1> DEFINE j == job[r]
<1>1. /\ j \in Job /\ j.at = "insert" /\ j.id \in Services /\ j.row \in Row
      /\ services[j.id] = NoRow /\ j.id \in used
      /\ \A q \in Requests \ {r} : job[q].id # j.id
  BY DEF InsertRow, TypeOK, JobInv, IdsUsed, InsertsAreNew, HasRow
<1>0. PICK k : k \in {[j EXCEPT !.at = "check"], Idle} /\ job' = [job EXCEPT ![r] = k]
  BY DEF InsertRow, Goto, Finish, TypeOK
<1>2. /\ UNCHANGED <<tunnels, used, tcpListeners, open, unserved>>
      /\ \/ services' = [services EXCEPT ![j.id] = j.row] /\ j.row.tunnel \in tunnels
         \/ services' = services
  BY DEF InsertRow
<1>3. /\ k \in Job /\ k.at \in {"check", "idle"}
      /\ k = Idle \/ (k.id = j.id /\ k.row = j.row)
      /\ Idle.id \notin Services /\ Idle.at = "idle" /\ Idle.kind = "none"
  <2>1. Idle \in Job /\ Idle.id \notin Services /\ Idle.at = "idle" /\ Idle.kind = "none"
    BY IdleType, ConstantsAssumption DEF Idle
  <2> QED BY <1>0, <1>1, <2>1 DEF Job
<1>4. \A q \in Requests : job'[q] = IF q = r THEN k ELSE job[q]
  BY <1>0 DEF TypeOK
<1>5. TypeOK'
  BY <1>0, <1>1, <1>2, <1>3 DEF TypeOK
<1>6. IdsUsed'
  BY <1>1, <1>2, <1>3, <1>4 DEF JobInv, IdsUsed, HasRow, TypeOK
<1>7. InsertsAreNew'
  <2> SUFFICES ASSUME NEW q \in Requests, job'[q].at = "insert"
               PROVE  /\ job'[q].id \in Services /\ job'[q].row \in Row
                      /\ services'[job'[q].id] = NoRow
                      /\ \A p \in Requests \ {q} : job'[p].id # job'[q].id
    BY DEF InsertsAreNew, HasRow
  <2>1. q # r /\ job'[q] = job[q]
    BY <1>3, <1>4
  <2>2. /\ job[q].id \in Services /\ job[q].row \in Row /\ services[job[q].id] = NoRow
        /\ \A p \in Requests \ {q} : job[p].id # job[q].id
    BY <2>1 DEF JobInv, InsertsAreNew, HasRow
  <2>3. job[q].id # j.id
    BY <1>1, <2>1
  <2>4. services'[job'[q].id] = NoRow
    BY <1>2, <2>1, <2>2, <2>3 DEF TypeOK
  <2> QED BY <1>3, <1>4, <2>1, <2>2, <2>4
<1>8. WritesKeepTunnel'
  BY <1>1, <1>2, <1>3, <1>4 DEF JobInv, WritesKeepTunnel, HasRow, TypeOK
<1>9. StepsHaveData'
  BY <1>1, <1>3, <1>4 DEF JobInv, StepsHaveData
<1>10. ServicesHaveTunnels'
  BY <1>1, <1>2 DEF ServicesHaveTunnels, HasRow, TypeOK
<1>11. FreshListenersLive' /\ ClosedEntriesDropped'
  BY <1>0, <1>1, <1>2, <1>3, EntriesFrame
<1> QED BY <1>5, <1>6, <1>7, <1>8, <1>9, <1>10, <1>11 DEF JobInv

(* ... UPDATE ...                                                          *)
LEMMA WriteRowStep ==
    ASSUME Inv, NEW r \in Requests, WriteRow(r)
    PROVE  Inv'
<1> USE DEF Inv, dbVars, proxyVars
<1> DEFINE j == job[r]
           next == [j EXCEPT !.at = IF j.remove = NoAddr THEN "check" ELSE "close"]
<1>1. /\ j \in Job /\ j.at = "write" /\ j.id \in Services /\ j.row \in Row
      /\ j.id \in used
      /\ services[j.id] # NoRow => j.row.tunnel = services[j.id].tunnel
  BY DEF WriteRow, TypeOK, JobInv, IdsUsed, WritesKeepTunnel, HasRow
<1>0. PICK k : k \in {next, Idle} /\ job' = [job EXCEPT ![r] = k]
  BY DEF WriteRow, Goto, Finish, TypeOK
<1>2. /\ UNCHANGED <<tunnels, used, tcpListeners, open, unserved>>
      /\ \/ services' = [services EXCEPT ![j.id] = j.row] /\ services[j.id] # NoRow
         \/ services' = services
  BY DEF WriteRow, HasRow
<1>3. /\ k \in Job /\ k.at \in {"check", "close", "idle"}
      /\ k = Idle \/ (k.id = j.id /\ k.row = j.row)
      /\ Idle.id \notin Services /\ Idle.at = "idle" /\ Idle.kind = "none"
      /\ k.at = "close" => k.remove \in Addrs
  <2>1. Idle \in Job /\ Idle.id \notin Services /\ Idle.at = "idle" /\ Idle.kind = "none"
    BY IdleType, ConstantsAssumption DEF Idle
  <2> QED BY <1>0, <1>1, <2>1 DEF Job
<1> HIDE DEF next
<1>4. \A q \in Requests : job'[q] = IF q = r THEN k ELSE job[q]
  BY <1>0 DEF TypeOK
<1>5. /\ services' \in [Services -> Row \cup {NoRow}]
      /\ \A s \in Services : services'[s] = NoRow <=> services[s] = NoRow
      /\ \A s \in Services : services[s] # NoRow => services'[s].tunnel = services[s].tunnel
  BY <1>1, <1>2, ConstantsAssumption DEF TypeOK
<1>6. TypeOK'
  BY <1>0, <1>2, <1>3, <1>5 DEF TypeOK
<1>7. IdsUsed'
  BY <1>1, <1>2, <1>3, <1>4, <1>5 DEF JobInv, IdsUsed, HasRow
<1>8. InsertsAreNew'
  <2> SUFFICES ASSUME NEW q \in Requests, job'[q].at = "insert"
               PROVE  /\ job'[q].id \in Services /\ job'[q].row \in Row
                      /\ services'[job'[q].id] = NoRow
                      /\ \A p \in Requests \ {q} : job'[p].id # job'[q].id
    BY DEF InsertsAreNew, HasRow
  <2>1. q # r /\ job'[q] = job[q]
    BY <1>3, <1>4
  <2> QED BY <1>1, <1>3, <1>4, <1>5, <2>1 DEF JobInv, InsertsAreNew, HasRow
<1>9. WritesKeepTunnel'
  BY <1>1, <1>3, <1>4, <1>5 DEF JobInv, WritesKeepTunnel, HasRow
<1>10. StepsHaveData'
  BY <1>1, <1>3, <1>4 DEF JobInv, StepsHaveData
<1>11. ServicesHaveTunnels'
  BY <1>2, <1>5 DEF ServicesHaveTunnels, HasRow
<1>12. FreshListenersLive' /\ ClosedEntriesDropped'
  BY <1>0, <1>1, <1>2, <1>3, EntriesFrame
<1> QED BY <1>6, <1>7, <1>8, <1>9, <1>10, <1>11, <1>12 DEF JobInv

(* ... and DELETE, of a service or of a tunnel with its services.          *)
LEMMA DeleteRowsStep ==
    ASSUME Inv, NEW r \in Requests, DeleteRow(r) \/ DeleteTunnelRow(r)
    PROVE  Inv'
<1> USE DEF Inv, dbVars, proxyVars
<1>1. /\ job' = [job EXCEPT ![r] = Idle] /\ job[r].at \notin {"drop", "insert"}
      /\ UNCHANGED <<used, tcpListeners, open>>
  BY DEF DeleteRow, DeleteTunnelRow, Finish
<1>0. unserved' \subseteq Services
  BY DEF DeleteRow, DeleteTunnelRow, TypeOK, JobInv, StepsHaveData
<1>2. /\ services' \in [Services -> Row \cup {NoRow}]
      /\ \A s \in Services : services'[s] \in {NoRow, services[s]}
      /\ tunnels' \subseteq tunnels
      /\ \A s \in Services : services'[s] # NoRow => services[s].tunnel \in tunnels'
  BY DEF DeleteRow, DeleteTunnelRow, TypeOK, HasRow, ServicesHaveTunnels
<1>3. /\ Idle \in Job /\ Idle.id \notin Services /\ Idle.at = "idle" /\ Idle.kind = "none"
  BY IdleType, ConstantsAssumption DEF Idle
<1>4. \A q \in Requests : job'[q] = IF q = r THEN Idle ELSE job[q]
  BY <1>1 DEF TypeOK
<1>5. TypeOK'
  BY <1>0, <1>1, <1>2, <1>3 DEF TypeOK
<1>6. IdsUsed'
  BY <1>1, <1>2, <1>3, <1>4 DEF JobInv, IdsUsed, HasRow
<1>7. InsertsAreNew'
  <2> SUFFICES ASSUME NEW q \in Requests, job'[q].at = "insert"
               PROVE  /\ job'[q].id \in Services /\ job'[q].row \in Row
                      /\ services'[job'[q].id] = NoRow
                      /\ \A p \in Requests \ {q} : job'[p].id # job'[q].id
    BY DEF InsertsAreNew, HasRow
  <2>1. q # r /\ job'[q] = job[q]
    BY <1>3, <1>4
  <2> QED BY <1>2, <1>3, <1>4, <2>1 DEF JobInv, InsertsAreNew, HasRow
<1>8. WritesKeepTunnel'
  BY <1>2, <1>3, <1>4 DEF JobInv, WritesKeepTunnel, HasRow
<1>9. StepsHaveData'
  BY <1>3, <1>4 DEF JobInv, StepsHaveData
<1>10. ServicesHaveTunnels'
  BY <1>2 DEF ServicesHaveTunnels, HasRow
<1>11. FreshListenersLive' /\ ClosedEntriesDropped'
  BY <1>1, <1>3, EntriesFrame
<1> QED BY <1>5, <1>6, <1>7, <1>8, <1>9, <1>10, <1>11 DEF JobInv

(* The environment.                                                        *)
LEMMA EnvironmentStep ==
    ASSUME Inv, (\E a \in Addrs : AcceptFails(a)) \/ Restart
    PROVE  Inv'
<1> USE DEF Inv, dbVars, proxyVars
<1>1. ASSUME NEW a \in Addrs, AcceptFails(a)
      PROVE  Inv'
  <2> DEFINE Failed(ref) == IF ref = "live" THEN "failed" ELSE ref
             k(q) == IF job[q].at = "put" /\ job[q].row.addr = a
                     THEN [job[q] EXCEPT !.listener = Failed(@)] ELSE job[q]
  <2>1. /\ UNCHANGED <<tunnels, services, used>>
        /\ open' = [open EXCEPT ![a] = Closed] /\ unserved' \subseteq Services
        /\ tcpListeners' = [tcpListeners EXCEPT ![a] = Failed(@)]
        /\ job' = [q \in Requests |-> k(q)]
    BY <1>1 DEF AcceptFails, TypeOK, Listener
  <2>2. ASSUME NEW q \in Requests
        PROVE  /\ k(q) \in Job /\ k(q).at = job[q].at /\ k(q).kind = job[q].kind
               /\ k(q).id = job[q].id /\ k(q).row = job[q].row /\ k(q).remove = job[q].remove
               /\ job[q].listener \in {"live", "failed"} => k(q).listener \in {"live", "failed"}
    <3>1. job[q] \in Job /\ Failed(job[q].listener) \in Reference
      BY DEF TypeOK, Job, Reference
    <3> QED BY <3>1 DEF Job
  <2> HIDE DEF k
  <2>3. \A q \in Requests :
          /\ job'[q] \in Job /\ job'[q].at = job[q].at /\ job'[q].kind = job[q].kind
          /\ job'[q].id = job[q].id /\ job'[q].row = job[q].row
          /\ job'[q].remove = job[q].remove
          /\ job[q].listener \in {"live", "failed"} => job'[q].listener \in {"live", "failed"}
    BY <2>1, <2>2
  <2>4. job' \in [Requests -> Job]
    BY <2>1, <2>2
  <2>5. TypeOK'
    BY <2>1, <2>4 DEF TypeOK, Reference
  <2>6. IdsUsed' /\ StepsHaveData'
    BY <2>1, <2>3 DEF JobInv, IdsUsed, StepsHaveData, HasRow
  <2>7. InsertsAreNew' /\ WritesKeepTunnel'
    BY <2>1, <2>3 DEF JobInv, InsertsAreNew, WritesKeepTunnel, HasRow
  <2>8. ServicesHaveTunnels'
    BY <2>1 DEF ServicesHaveTunnels, HasRow
  <2>9. FreshListenersLive'
    BY <2>3 DEF FreshListenersLive
  <2>10. ClosedEntriesDropped'
    <3> SUFFICES ASSUME NEW b \in Addrs, tcpListeners'[b] = "dead"
                 PROVE  \E q \in Requests : job'[q].at = "drop" /\ job'[q].remove = b
      BY DEF ClosedEntriesDropped
    <3>1. tcpListeners[b] = "dead"
      BY <2>1 DEF TypeOK
    <3> QED BY <2>3, <3>1 DEF ClosedEntriesDropped
  <2> QED BY <2>5, <2>6, <2>7, <2>8, <2>9, <2>10 DEF JobInv
<1>2. ASSUME Restart
      PROVE  Inv'
  <2>1. /\ UNCHANGED <<tunnels, services, used>>
        /\ tcpListeners' \in [Addrs -> {"none", "live"}]
        /\ open' \in [Addrs -> Listener \cup {Closed}] /\ unserved' \subseteq Services
        /\ job' = [r \in Requests |-> Idle]
    BY <1>2 DEF Restart
  <2>2. /\ Idle \in Job /\ Idle.id \notin Services /\ Idle.at = "idle" /\ Idle.kind = "none"
    BY IdleType, ConstantsAssumption DEF Idle
  <2>3. TypeOK'
    BY <2>1, <2>2 DEF TypeOK, Reference
  <2>4. IdsUsed' /\ InsertsAreNew' /\ WritesKeepTunnel' /\ StepsHaveData'
    BY <2>1, <2>2 DEF JobInv, IdsUsed, InsertsAreNew, WritesKeepTunnel, StepsHaveData, HasRow
  <2>5. ServicesHaveTunnels' /\ FreshListenersLive' /\ ClosedEntriesDropped'
    BY <2>1, <2>2 DEF ServicesHaveTunnels, FreshListenersLive, ClosedEntriesDropped, HasRow
  <2> QED BY <2>3, <2>4, <2>5 DEF JobInv
<1> QED BY <1>1, <1>2

-----------------------------------------------------------------------------
(* The theorems.                                                           *)

(* Inv holds initially.                                                    *)
LEMMA InvInit == Init => Inv
<1> SUFFICES ASSUME Init PROVE Inv
  OBVIOUS
<1>1. /\ Idle \in Job /\ Idle.id \notin Services /\ Idle.at = "idle" /\ Idle.kind = "none"
  BY IdleType, ConstantsAssumption DEF Idle
<1>2. TypeOK
  BY <1>1 DEF Init, TypeOK, Reference
<1>3. JobInv
  BY <1>1 DEF Init, JobInv, IdsUsed, InsertsAreNew, WritesKeepTunnel, StepsHaveData, HasRow
<1>4. ServicesHaveTunnels /\ FreshListenersLive /\ ClosedEntriesDropped
  BY <1>1 DEF Init, ServicesHaveTunnels, FreshListenersLive, ClosedEntriesDropped, HasRow
<1> QED BY <1>2, <1>3, <1>4 DEF Inv

(* Every step keeps Inv.                                                   *)
LEMMA InvNext == Inv /\ [Next]_vars => Inv'
<1> SUFFICES ASSUME Inv, [Next]_vars PROVE Inv'
  OBVIOUS
<1>1. ASSUME NEW r \in Requests, RequestStarts(r) PROVE Inv'
  BY <1>1, CreateServiceStep, UpdateServiceStep, DeleteServiceStep, DeleteTunnelStep,
     ConstantsAssumption DEF RequestStarts
<1>2. ASSUME NEW r \in Requests, RequestStep(r) PROVE Inv'
  BY <1>2, InsertRowStep, WriteRowStep, ListenerStep, DeleteRowsStep DEF RequestStep
<1>3. ASSUME UNCHANGED vars PROVE Inv'
  BY <1>3 DEF vars, Inv, TypeOK, JobInv, IdsUsed, InsertsAreNew, WritesKeepTunnel,
              StepsHaveData, ServicesHaveTunnels, FreshListenersLive, ClosedEntriesDropped,
              HasRow
<1> QED BY <1>1, <1>2, <1>3, EnvironmentStep DEF Next

(* In every reachable state the rows, the requests in progress and the     *)
(* entries of tcpListeners agree as Inv says.                              *)
THEOREM Invariant == Spec => []Inv
<1> QED BY InvInit, InvNext, PTL DEF Spec

(* The variables keep their types.                                         *)
THEOREM TypeCorrect == Spec => []TypeOK
<1>1. Inv => TypeOK
  BY DEF Inv
<1> QED BY <1>1, Invariant, PTL

(* No service outlives its tunnel, for any number of concurrent requests:  *)
(* createService may have found a tunnel that deleteTunnel then deletes,   *)
(* and updateService may write a row back after the deletion.              *)
THEOREM ServicesHaveTunnelsAlways == Spec => []ServicesHaveTunnels
<1>1. Inv => ServicesHaveTunnels
  BY DEF Inv
<1> QED BY <1>1, Invariant, PTL

(* However requests interleave, RemoveTCPService leaves no dead entry of   *)
(* tcpListeners behind to block its address.                               *)
THEOREM ClosedEntriesDroppedAlways == Spec => []ClosedEntriesDropped
<1>1. Inv => ClosedEntriesDropped
  BY DEF Inv
<1> QED BY <1>1, Invariant, PTL

(* No step but the INSERT of its creation gives a service a row.           *)
THEOREM NoRevivalAlways == Spec => NoRevival
<1> DEFINE Step == \A s \in Services : ~HasRow(s) /\ HasRow(s)' =>
                       \E r \in Requests : job[r].at = "insert" /\ job[r].id = s
<1>1. Inv /\ [Next]_vars => [Step]_vars
  <2> SUFFICES ASSUME Inv, Next, NEW s \in Services, services[s] = NoRow, services'[s] # NoRow
               PROVE  \E r \in Requests : job[r].at = "insert" /\ job[r].id = s
    BY DEF HasRow
  <2>1. services \in [Services -> Row \cup {NoRow}]
    BY DEF Inv, TypeOK
  <2>2. PICK r \in Requests : InsertRow(r) \/ WriteRow(r) \/ DeleteRow(r) \/ DeleteTunnelRow(r)
    BY DEF Next, RequestStarts, RequestStep, CreateService, UpdateService, DeleteService,
           DeleteTunnel, CloseListener, DropEntry, CheckEntry, Listen, PutEntry, AcceptFails,
           Restart, dbVars
  <2>3. CASE InsertRow(r)
    BY <2>1, <2>3 DEF InsertRow
  <2>4. CASE WriteRow(r)
    BY <2>1, <2>4 DEF WriteRow, HasRow
  <2>5. CASE DeleteRow(r) \/ DeleteTunnelRow(r)
    BY <2>1, <2>5 DEF DeleteRow, DeleteTunnelRow
  <2> QED BY <2>2, <2>3, <2>4, <2>5
<1> QED BY <1>1, Invariant, PTL DEF Spec, NoRevival

-----------------------------------------------------------------------------
(* TcpServices implements ServiceTable.                                    *)

(* The ids that have been drawn and whose INSERT is still to come.         *)
Drawn == {job[r].id : r \in {q \in Requests : job[q].at = "insert"}}

(* They change only with the requests that are about to insert.            *)
LEMMA DrawnFrame ==
    ASSUME TypeOK, NEW r \in Requests, job[r].at # "insert",
           job'[r].at # "insert", \A q \in Requests \ {r} : job'[q] = job[q]
    PROVE  Drawn' = Drawn
<1>1. {q \in Requests : job[q].at = "insert"}' = {q \in Requests : job[q].at = "insert"}
  OBVIOUS
<1>2. \A q \in Requests : job[q].at = "insert" => job'[q] = job[q]
  OBVIOUS
<1> QED BY <1>1, <1>2 DEF Drawn

(* A request that starts only draws an id, if anything.                    *)
LEMMA StartsStutter ==
    ASSUME Inv, NEW r \in Requests, RequestStarts(r)
    PROVE  UNCHANGED <<tunnels, services, used \ Drawn>>
<1> USE DEF Inv, dbVars, proxyVars
<1>1. job \in [Requests -> Job] /\ job[r].at = "idle"
  BY DEF TypeOK, RequestStarts, CreateService, UpdateService, DeleteService, DeleteTunnel
<1>2. ASSUME NEW s \in Services, NEW w \in Row, CreateService(r, s, w)
      PROVE  UNCHANGED <<tunnels, services, used \ Drawn>>
  <2>1. /\ job'[r].at = "insert" /\ job'[r].id = s
        /\ \A q \in Requests \ {r} : job'[q] = job[q]
    BY <1>1, <1>2 DEF CreateService, Idle
  <2>2. Drawn' = Drawn \cup {s}
    BY <1>1, <2>1 DEF Drawn
  <2>3. s \notin used /\ used' = used \cup {s} /\ UNCHANGED <<tunnels, services>>
    BY <1>2 DEF CreateService
  <2> QED BY <2>2, <2>3
<1>3. ASSUME UNCHANGED dbVars, job'[r].at # "insert",
             \A q \in Requests \ {r} : job'[q] = job[q]
      PROVE  UNCHANGED <<tunnels, services, used \ Drawn>>
  BY <1>1, <1>3, DrawnFrame
<1>4. ASSUME NEW s \in Services, NEW addr \in AddrsOf[s] \cup {NoAddr, Keep},
             NEW target \in Targets \cup {Keep}, NEW enabled \in BOOLEAN \cup {Keep},
             UpdateService(r, s, addr, target, enabled)
      PROVE  UNCHANGED <<tunnels, services, used \ Drawn>>
  BY <1>1, <1>3, <1>4 DEF UpdateService, Idle
<1>5. ASSUME NEW s \in Services, DeleteService(r, s)
      PROVE  UNCHANGED <<tunnels, services, used \ Drawn>>
  BY <1>1, <1>3, <1>5 DEF DeleteService, Idle
<1>6. ASSUME NEW t \in Tunnels, DeleteTunnel(r, t)
      PROVE  UNCHANGED <<tunnels, services, used \ Drawn>>
  <2>1. PICK j : j.at # "insert" /\ job' = [job EXCEPT ![r] = j]
    BY <1>6 DEF DeleteTunnel, NextRemoval, Idle
  <2> QED BY <1>1, <1>3, <1>6, <2>1 DEF DeleteTunnel
<1> QED BY <1>2, <1>4, <1>5, <1>6 DEF RequestStarts

(* So do the steps of RemoveTCPService and AddTCPService.                  *)
LEMMA ListenersStutter ==
    ASSUME Inv, NEW r \in Requests,
           CloseListener(r) \/ DropEntry(r) \/ CheckEntry(r) \/ Listen(r) \/ PutEntry(r)
    PROVE  UNCHANGED <<tunnels, services, used \ Drawn>>
<1> USE DEF Inv, dbVars, proxyVars
<1>1. job \in [Requests -> Job] /\ job[r].at # "insert"
  BY DEF TypeOK, CloseListener, DropEntry, CheckEntry, Listen, PutEntry
<1>2. job[r] \in Job /\ \A j \in AfterRemove(job[r]) : j.at # "insert"
  BY <1>1, AfterRemoveJob
<1>3. UNCHANGED dbVars
  BY DEF CloseListener, DropEntry, CheckEntry, Listen, PutEntry
<1>4. job'[r].at # "insert" /\ \A q \in Requests \ {r} : job'[q] = job[q]
  <2>1. CASE CloseListener(r)
    BY <1>1, <1>2, <2>1 DEF CloseListener, Goto, Job
  <2>2. CASE DropEntry(r)
    BY <1>1, <1>2, <2>2 DEF DropEntry
  <2>3. CASE CheckEntry(r) \/ Listen(r) \/ PutEntry(r)
    BY <1>1, <1>2, <2>3 DEF CheckEntry, Listen, PutEntry, Goto, Finish, Idle, Job
  <2> QED BY <2>1, <2>2, <2>3
<1> QED BY <1>1, <1>3, <1>4, DrawnFrame

(* The INSERT enters the row of an id that is drawn and not spent, or      *)
(* gives the id up.                                                        *)
LEMMA InsertMapped ==
    ASSUME Inv, NEW r \in Requests, InsertRow(r)
    PROVE  Table!Next
<1> USE DEF Inv, dbVars, proxyVars
<1> DEFINE id == job[r].id
<1>1. /\ job \in [Requests -> Job] /\ job[r].at = "insert" /\ id \in Services
      /\ job[r].row \in Row /\ id \in used
      /\ \A q \in Requests \ {r} : job[q].id # id
  BY DEF InsertRow, TypeOK, JobInv, IdsUsed, InsertsAreNew
<1>2. /\ job'[r].at # "insert" /\ used' = used /\ tunnels' = tunnels
      /\ \A q \in Requests \ {r} : job'[q] = job[q]
  BY <1>1 DEF InsertRow, Goto, Finish, Idle, Job
<1>3. id \in Drawn /\ Drawn' = Drawn \ {id}
  BY <1>1, <1>2 DEF Drawn
<1>4. id \notin used \ Drawn /\ (used \ Drawn)' = (used \ Drawn) \cup {id}
  BY <1>1, <1>2, <1>3
<1>5. CASE services' = [services EXCEPT ![id] = job[r].row] /\ job[r].row.tunnel \in tunnels
  <2>2. PICK s \in Services, w \in Row : s = id /\ w = job[r].row
    BY <1>1
  <2>3. Table!Enter(s, w)
    BY <1>2, <1>4, <1>5, <2>2 DEF Table!Enter, Drawn
  <2> QED BY <2>3 DEF Table!Next
<1>6. CASE services' = services
  <2>2. PICK S \in SUBSET Services : S = {id}
    BY <1>1
  <2>3. Table!GiveUp(S)
    BY <1>2, <1>4, <1>6, <2>2 DEF Table!GiveUp, Drawn
  <2> QED BY <2>3 DEF Table!Next
<1> QED BY <1>5, <1>6 DEF InsertRow

(* The UPDATE, if it does anything, rewrites a row that is still there,    *)
(* for the same tunnel.                                                    *)
LEMMA WriteMapped ==
    ASSUME Inv, NEW r \in Requests, WriteRow(r)
    PROVE  Table!Next \/ UNCHANGED <<tunnels, services, used \ Drawn>>
<1> USE DEF Inv, dbVars, proxyVars
<1>1. /\ job \in [Requests -> Job] /\ job[r].at = "write" /\ job[r].id \in Services
      /\ job[r].row \in Row
      /\ HasRow(job[r].id) => job[r].row.tunnel = services[job[r].id].tunnel
  BY DEF WriteRow, TypeOK, JobInv, WritesKeepTunnel
<1>2. /\ job'[r].at # "insert" /\ used' = used /\ tunnels' = tunnels
      /\ \A q \in Requests \ {r} : job'[q] = job[q]
  BY <1>1 DEF WriteRow, Goto, Finish, Idle, Job
<1>3. UNCHANGED (used \ Drawn)
  BY <1>1, <1>2, DrawnFrame
<1>4. CASE HasRow(job[r].id) /\ services' = [services EXCEPT ![job[r].id] = job[r].row]
  <2>1. Table!Rewrite(job[r].id, job[r].row)
    BY <1>1, <1>2, <1>3, <1>4 DEF Table!Rewrite, HasRow, Drawn
  <2> QED BY <1>1, <2>1 DEF Table!Next
<1>5. CASE services' = services
  BY <1>2, <1>3, <1>5
<1> QED BY <1>4, <1>5 DEF WriteRow

(* The two DELETEs, which may fail.                                        *)
LEMMA DeletesMapped ==
    ASSUME Inv, NEW r \in Requests, DeleteRow(r) \/ DeleteTunnelRow(r)
    PROVE  Table!Next \/ UNCHANGED <<tunnels, services, used \ Drawn>>
<1> USE DEF Inv, dbVars, proxyVars
<1>1. /\ job \in [Requests -> Job] /\ job[r].at # "insert" /\ used' = used
      /\ services \in [Services -> Row \cup {NoRow}] /\ tunnels \subseteq Tunnels
  BY DEF TypeOK, DeleteRow, DeleteTunnelRow
<1>2. job'[r].at # "insert" /\ \A q \in Requests \ {r} : job'[q] = job[q]
  BY <1>1 DEF DeleteRow, DeleteTunnelRow, Finish, Idle
<1>3. UNCHANGED (used \ Drawn)
  BY <1>1, <1>2, DrawnFrame
<1>4. CASE DeleteRow(r) /\ services' # services
  <2>1. services' = [services EXCEPT ![job[r].id] = NoRow] /\ tunnels' = tunnels
    BY <1>4 DEF DeleteRow
  <2>2. job[r].id \in Services
    BY <1>4 DEF DeleteRow, JobInv, StepsHaveData
  <2> QED BY <1>3, <2>1, <2>2 DEF Table!Next, Table!Remove, Drawn
<1>5. CASE DeleteTunnelRow(r) /\ ~(UNCHANGED <<tunnels, services>>)
  <2> DEFINE t == job[r].id
  <2>1. /\ tunnels' = tunnels \ {t}
        /\ services' = [s \in Services |->
              IF services[s] # NoRow /\ services[s].tunnel = t THEN NoRow ELSE services[s]]
    BY <1>5 DEF DeleteTunnelRow, HasRow
  <2>2. CASE t \in tunnels
    <3>1. Table!RemoveTunnel(t)
      BY <1>3, <2>1 DEF Table!RemoveTunnel, Drawn
    <3> QED BY <1>1, <2>2, <3>1 DEF Table!Next
  <2>3. CASE t \notin tunnels
    <3>1. \A s \in Services : services[s] # NoRow => services[s].tunnel # t
      BY <2>3 DEF ServicesHaveTunnels, HasRow
    <3> QED BY <1>1, <1>3, <2>1, <2>3, <3>1
  <2> QED BY <2>2, <2>3
<1>6. CASE UNCHANGED <<tunnels, services>>
  BY <1>3, <1>6
<1> QED BY <1>4, <1>5, <1>6 DEF DeleteRow

(* A restart gives up every id whose row has not been inserted.            *)
LEMMA EnvironmentMapped ==
    ASSUME Inv, (\E a \in Addrs : AcceptFails(a)) \/ Restart
    PROVE  Table!Next \/ UNCHANGED <<tunnels, services, used \ Drawn>>
<1> USE DEF Inv, dbVars, proxyVars
<1>1. job \in [Requests -> Job] /\ Drawn \subseteq used /\ Drawn \subseteq Services
  BY DEF TypeOK, JobInv, IdsUsed, InsertsAreNew, Drawn
<1>2. ASSUME NEW a \in Addrs, AcceptFails(a)
      PROVE  UNCHANGED <<tunnels, services, used \ Drawn>>
  <2>1. UNCHANGED dbVars /\ \A q \in Requests : job'[q].at = job[q].at /\ job'[q].id = job[q].id
    BY <1>1, <1>2 DEF AcceptFails, Job
  <2>2. Drawn' = Drawn
    BY <2>1 DEF Drawn
  <2> QED BY <2>1, <2>2
<1>3. CASE Restart
  <2>1. UNCHANGED dbVars /\ Drawn' = {}
    BY <1>3 DEF Restart, Drawn, Idle
  <2>2. (used \ Drawn)' = (used \ Drawn) \cup Drawn
    BY <1>1, <2>1
  <2>3. PICK S \in SUBSET Services : S = Drawn
    BY <1>1
  <2>4. Table!GiveUp(S)
    BY <2>1, <2>2, <2>3 DEF Table!GiveUp, Drawn
  <2> QED BY <2>4 DEF Table!Next
<1> QED BY <1>2, <1>3

(* The tables are a ServiceTable for any number of concurrent requests,    *)
(* failing listeners and restarts: a service is entered once, for a tunnel *)
(* that exists, stays with it, and goes for good with it.                  *)
THEOREM TableImplemented == Spec => ImplementsTable
<1>1. Init => Table!Init
  <2> SUFFICES ASSUME Init PROVE Table!Init
    OBVIOUS
  <2>1. \A r \in Requests : job[r].at # "insert"
    BY DEF Init, Idle
  <2> QED BY <2>1 DEF Init, Table!Init
<1>2. Inv /\ [Next]_vars => [Table!Next]_(Table!vars)
  <2> SUFFICES ASSUME Inv, [Next]_vars
               PROVE  Table!Next \/ UNCHANGED <<tunnels, services, used \ Drawn>>
    BY DEF Table!vars, Drawn
  <2>1. ASSUME NEW r \in Requests, RequestStep(r)
        PROVE  Table!Next \/ UNCHANGED <<tunnels, services, used \ Drawn>>
    BY <2>1, InsertMapped, WriteMapped, DeletesMapped, ListenersStutter DEF RequestStep
  <2>2. CASE UNCHANGED vars
    BY <2>2 DEF vars, Drawn
  <2> QED BY <2>1, <2>2, StartsStutter, EnvironmentMapped DEF Next
<1> QED BY <1>1, <1>2, Invariant, PTL DEF Spec, ImplementsTable, Table!Spec
=============================================================================
