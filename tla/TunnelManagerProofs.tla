------------------------- MODULE TunnelManagerProofs -------------------------
(***************************************************************************)
(* Proofs, for any number of tunnels, connections and lookups, that every  *)
(* safety invariant of TunnelManager holds in all reachable states.        *)
(*                                                                         *)
(* The invariants are not inductive one by one.  Inv adds what they need:  *)
(* how far a handler has got (HandlerInv), that tm.mu keeps apart those    *)
(* who wait with it (TmExclusive), and that the only connection Stop may   *)
(* be waiting for is one it still has to close (StopTarget,                *)
(* OneStopWriter).  That TunnelManager implements TunnelRegistry comes     *)
(* last.                                                                   *)
(***************************************************************************)
EXTENDS TunnelManager, TLAPS

(* What the position of a handler and of its control goroutine says of the *)
(* connection: it exists once the handler has upgraded, it is not open     *)
(* before that and after conn.Close, and a handler that evicts still has   *)
(* something to evict.                                                     *)
HandlerInv ==
    \A c \in Conns :
        /\ hpc[c] \in {"new", "unregistering", "gone"} => ~IsOpen(c)
        /\ hpc[c] \notin {"new", "gone"} => tunnelOf[c] \in Tunnels /\ conn[c] # "none"
        /\ cpc[c] # "none" => conn[c] # "none"
        /\ hpc[c] = "evicting" => connections[tunnelOf[c]] # NoConn

(* The model's guards make tm.mu a mutual exclusion lock across the calls  *)
(* that block with it: two evictions, an eviction and Stop, or a lookup    *)
(* and either of them are never inside together.                           *)
TmExclusive ==
    /\ \A c, d \in Conns : hpc[c] = "evicting" /\ hpc[d] = "evicting" => c = d
    /\ stop = "closing" => \A c \in Conns : hpc[c] # "evicting"
    /\ WriteHeld => \A r \in Lookups : lookup[r] = NoConn

(* Stop waits only for the lock of a connection that is in the map and     *)
(* still open.                                                             *)
StopTarget ==
    \A c \in Conns : writer[c] = "stop" =>
        /\ IsOpen(c)
        /\ \E t \in Tunnels : connections[t] = c

(* ... and for one at a time.                                              *)
OneStopWriter == \A c, d \in Conns : writer[c] = "stop" /\ writer[d] = "stop" => c = d

Inv ==
    /\ TypeOK /\ HandlerInv /\ EntriesOwned /\ ReaderHoldsOpen
    /\ TmExclusive /\ StopTarget /\ OneStopWriter /\ PendingWriterWaits
    /\ LostOnlyByUnregister /\ OnlyHandlersOutliveStop

-----------------------------------------------------------------------------
(* Type correctness.                                                       *)

USE DEF mapVars, connVars, goVars, routineVars

LEMMA UseStoreType ==
    ASSUME TypeOK, NEW who \in Conns \cup {"control", "health", "cleanup"}, UseStore(who)
    PROVE  refused' \subseteq Conns \cup {"control", "health", "cleanup"}
BY DEF TypeOK, UseStore

LEMMA TypeHandler ==
    ASSUME TypeOK, NEW c \in Conns, HandlerStep(c)
    PROVE  TypeOK'
<1>1. CASE Register(c)  BY <1>1 DEF TypeOK, Register, HandlerStates
<1>2. CASE BeginEvict(c)  BY <1>2 DEF TypeOK, BeginEvict, HandlerStates
<1>3. CASE Evict(c)
  BY <1>3 DEF TypeOK, Evict, HandlerStates, Acquired, SetClosed
<1>4. CASE RecordConnection(c)
  <2>1. refused' \subseteq Conns \cup {"control", "health", "cleanup"}
    BY <1>4, UseStoreType DEF TypeOK, RecordConnection
  <2> QED  BY <1>4, <2>1 DEF TypeOK, RecordConnection, HandlerStates, ControlStates
<1>5. CASE Poll(c)  BY <1>5 DEF TypeOK, Poll, HandlerStates
<1>6. CASE CloseOwn(c)
  BY <1>6 DEF TypeOK, CloseOwn, HandlerStates, Acquired, SetClosed
<1>7. CASE Unregister(c)
  <2>1. refused' \subseteq Conns \cup {"control", "health", "cleanup"}
    BY <1>7, UseStoreType DEF TypeOK, Unregister
  <2> QED  BY <1>7, <2>1 DEF TypeOK, Unregister, HandlerStates, Delete
<1>8. CASE \E d \in Conns : WaitForReader(c, d)
  BY <1>8 DEF TypeOK, WaitForReader, Threads
<1> QED  BY <1>1, <1>2, <1>3, <1>4, <1>5, <1>6, <1>7, <1>8 DEF HandlerStep

LEMMA TypeControl ==
    ASSUME TypeOK, NEW c \in Conns, ControlStep(c) \/ ReadMessage(c)
    PROVE  TypeOK'
<1>1. CASE CheckContext(c)  BY <1>1 DEF TypeOK, CheckContext, GoControl, ControlStates
<1>2. CASE EnterRead(c)  BY <1>2 DEF TypeOK, EnterRead, GoControl, ControlStates
<1>3. CASE ReadMessage(c)  BY <1>3 DEF TypeOK, ReadMessage, GoControl, ControlStates
<1>4. CASE ReadFails(c)  BY <1>4 DEF TypeOK, ReadFails, GoControl, ControlStates
<1>5. CASE Pong(c)  BY <1>5 DEF TypeOK, Pong, GoControl, ControlStates
<1>6. CASE RecordPing(c)
  <2>1. refused' \subseteq Conns \cup {"control", "health", "cleanup"}
    BY <1>6, UseStoreType DEF TypeOK, RecordPing
  <2> QED  BY <1>6, <2>1 DEF TypeOK, RecordPing, GoControl, ControlStates
<1>7. CASE UpdateLastPing(c)
  BY <1>7, ConstantsAssumption DEF TypeOK, UpdateLastPing, GoControl, ControlStates
<1> QED  BY <1>1, <1>2, <1>3, <1>4, <1>5, <1>6, <1>7 DEF ControlStep

LEMMA TypeHealth ==
    ASSUME TypeOK, HealthStep
    PROVE  TypeOK'
<1>1. CASE HealthSnapshot  BY <1>1 DEF TypeOK, HealthSnapshot
<1>2. CASE HealthPing  BY <1>2 DEF TypeOK, HealthPing, Acquired
<1>3. CASE HealthClose  BY <1>3 DEF TypeOK, HealthClose, Acquired, SetClosed
<1>4. CASE HealthRecord
  <2>1. refused' \subseteq Conns \cup {"control", "health", "cleanup"}
    BY <1>4, UseStoreType DEF HealthRecord
  <2> QED  BY <1>4, <2>1 DEF TypeOK, HealthRecord
<1>5. CASE HealthRoundDone  BY <1>5 DEF TypeOK, HealthRoundDone
<1>6. CASE HealthExit  BY <1>6 DEF TypeOK, HealthExit
<1>7. CASE \E c \in Conns : HealthInspect(c)  BY <1>7 DEF TypeOK, HealthInspect
<1>8. CASE \E c \in Conns : WaitForReader("health", c)
  BY <1>8 DEF TypeOK, WaitForReader, Threads
<1> QED  BY <1>1, <1>2, <1>3, <1>4, <1>5, <1>6, <1>7, <1>8 DEF HealthStep

LEMMA TypeCleanup ==
    ASSUME TypeOK, CleanupStep
    PROVE  TypeOK'
<1>1. CASE CleanupTick \/ CleanupExit  BY <1>1 DEF TypeOK, CleanupTick, CleanupExit
<1>2. CASE CleanupOldChecks
  <2>1. refused' \subseteq Conns \cup {"control", "health", "cleanup"}
    BY <1>2, UseStoreType DEF CleanupOldChecks
  <2> QED  BY <1>2, <2>1 DEF TypeOK, CleanupOldChecks
<1> QED  BY <1>1, <1>2 DEF CleanupStep

LEMMA TypeStop ==
    ASSUME TypeOK, StopCancel \/ StopStep
    PROVE  TypeOK'
<1>1. CASE StopCancel \/ StopLock \/ StopUnlock \/ StopWait \/ CloseStore
  BY <1>1 DEF TypeOK, StopCancel, StopLock, StopUnlock, StopWait, CloseStore, StopTo,
              StopStates
<1>2. CASE \E c \in Conns : StopClose(c)
  BY <1>2 DEF TypeOK, StopClose, Acquired, SetClosed
<1>3. CASE \E c \in Conns : WaitForReader("stop", c)
  BY <1>3 DEF TypeOK, WaitForReader, Threads
<1> QED  BY <1>1, <1>2, <1>3 DEF StopStep

LEMMA TypeEnvironment ==
    ASSUME TypeOK,
           \/ \E c \in Conns, t \in Tunnels : OpenWebSocket(c, t)
           \/ \E c \in Conns : Refuse(c) \/ NetworkDrop(c)
           \/ \E r \in Lookups : LookupReturns(r) \/ \E t \in Tunnels : GetConnection(r, t)
           \/ Tick
    PROVE  TypeOK'
<1>1. CASE \E c \in Conns, t \in Tunnels : OpenWebSocket(c, t)
  BY <1>1 DEF TypeOK, OpenWebSocket, HandlerStates
<1>2. CASE \E c \in Conns : Refuse(c) \/ NetworkDrop(c)
  BY <1>2 DEF TypeOK, Refuse, NetworkDrop, HandlerStates
<1>3. CASE \E r \in Lookups : LookupReturns(r) \/ \E t \in Tunnels : GetConnection(r, t)
  BY <1>3 DEF TypeOK, LookupReturns, GetConnection
<1>4. CASE Tick
  <2>1. age' \in [Conns -> 0 .. StaleAfter + 1]
    BY <1>4, ConstantsAssumption DEF TypeOK, Tick
  <2> QED  BY <1>4, <2>1 DEF TypeOK, Tick
<1> QED  BY <1>1, <1>2, <1>3, <1>4

LEMMA TypeNext ==
    ASSUME TypeOK, [Next]_vars
    PROVE  TypeOK'
<1>1. CASE UNCHANGED vars  BY <1>1 DEF TypeOK, vars
<1>2. CASE Terminated  BY <1>2 DEF TypeOK, Terminated, vars
<1> QED
  BY <1>1, <1>2, TypeHandler, TypeControl, TypeHealth, TypeCleanup, TypeStop,
     TypeEnvironment
  DEF Next

(* The types of the variables hold in every reachable state.               *)
THEOREM TypeCorrect == Spec => []TypeOK
<1>1. Init => TypeOK
  BY ConstantsAssumption DEF Init, TypeOK, HandlerStates, ControlStates, StopStates, Threads
<1>2. TypeOK /\ [Next]_vars => TypeOK'  BY TypeNext
<1> QED  BY <1>1, <1>2, PTL DEF Spec

-----------------------------------------------------------------------------
(* Which actions leave the map, the handlers and the connections alone.    *)

LEMMA MapFrame ==
    ASSUME [Next]_vars,
           ~ \E c \in Conns : HandlerStep(c) \/ Refuse(c) \/ \E t \in Tunnels : OpenWebSocket(c, t)
    PROVE  UNCHANGED <<connections, tunnelOf, hpc>>
<1>1. CASE \E c \in Conns : ControlStep(c) \/ ReadMessage(c) \/ NetworkDrop(c)
  BY <1>1 DEF ControlStep, CheckContext, EnterRead, ReadMessage, ReadFails, Pong,
              RecordPing, UpdateLastPing, GoControl, NetworkDrop
<1>2. CASE HealthStep
  BY <1>2 DEF HealthStep, HealthSnapshot, HealthPing, HealthClose, HealthRecord,
              HealthRoundDone, HealthExit, HealthInspect, WaitForReader
<1>3. CASE StopCancel \/ StopStep
  BY <1>3 DEF StopStep, StopCancel, StopLock, StopUnlock, StopWait, CloseStore, StopTo,
              StopClose, WaitForReader
<1>4. CASE \/ \E r \in Lookups : LookupReturns(r) \/ \E t \in Tunnels : GetConnection(r, t)
           \/ CleanupStep \/ Tick \/ Terminated \/ UNCHANGED vars
  BY <1>4 DEF LookupReturns, GetConnection, CleanupStep, CleanupTick,
     CleanupOldChecks, CleanupExit, Tick, Terminated, vars
<1> QED  BY <1>1, <1>2, <1>3, <1>4 DEF Next

LEMMA HealthFrame ==
    ASSUME [Next]_vars, ~HealthStep
    PROVE  UNCHANGED <<healthPc, healthTodo, healthConn>>
<1>1. ASSUME NEW d \in Conns,
             \/ HandlerStep(d) \/ ControlStep(d) \/ ReadMessage(d) \/ Refuse(d)
             \/ NetworkDrop(d) \/ \E t \in Tunnels : OpenWebSocket(d, t)
      PROVE  UNCHANGED <<healthPc, healthTodo, healthConn>>
  BY <1>1 DEF HandlerStep, Register, BeginEvict, Evict, RecordConnection, Poll,
     CloseOwn, Unregister, WaitForReader, ControlStep, CheckContext, EnterRead,
     ReadMessage, ReadFails, Pong, RecordPing, UpdateLastPing, GoControl, Refuse,
     NetworkDrop, OpenWebSocket
<1>2. CASE StopCancel \/ StopStep
  BY <1>2 DEF StopStep, StopCancel, StopLock, StopUnlock, StopWait, CloseStore, StopTo,
              StopClose, WaitForReader
<1>3. CASE \/ \E r \in Lookups : LookupReturns(r) \/ \E t \in Tunnels : GetConnection(r, t)
           \/ CleanupStep \/ Tick \/ Terminated \/ UNCHANGED vars
  BY <1>3 DEF LookupReturns, GetConnection, CleanupStep, CleanupTick,
     CleanupOldChecks, CleanupExit, Tick, Terminated, vars
<1> QED  BY <1>1, <1>2, <1>3 DEF Next

LEMMA StopFrame ==
    ASSUME [Next]_vars, ~(StopCancel \/ StopStep)
    PROVE  UNCHANGED stop
<1>1. ASSUME NEW d \in Conns,
             \/ HandlerStep(d) \/ ControlStep(d) \/ ReadMessage(d) \/ Refuse(d)
             \/ NetworkDrop(d) \/ \E t \in Tunnels : OpenWebSocket(d, t)
      PROVE  UNCHANGED stop
  BY <1>1 DEF HandlerStep, Register, BeginEvict, Evict, RecordConnection, Poll,
     CloseOwn, Unregister, WaitForReader, ControlStep, CheckContext, EnterRead,
     ReadMessage, ReadFails, Pong, RecordPing, UpdateLastPing, GoControl, Refuse,
     NetworkDrop, OpenWebSocket
<1>2. CASE HealthStep
  BY <1>2 DEF HealthStep, HealthSnapshot, HealthPing, HealthClose, HealthRecord,
              HealthRoundDone, HealthExit, HealthInspect, WaitForReader
<1>3. CASE \/ \E r \in Lookups : LookupReturns(r) \/ \E t \in Tunnels : GetConnection(r, t)
           \/ CleanupStep \/ Tick \/ Terminated \/ UNCHANGED vars
  BY <1>3 DEF LookupReturns, GetConnection, CleanupStep, CleanupTick,
     CleanupOldChecks, CleanupExit, Tick, Terminated, vars
<1> QED  BY <1>1, <1>2, <1>3 DEF Next

(* A socket is only ever closed, broken, or created by the upgrade.        *)
LEMMA ConnStep ==
    ASSUME TypeOK, [Next]_vars, NEW c \in Conns
    PROVE  \/ conn'[c] = conn[c]
           \/ conn'[c] = "closed" /\ cpc[c] # "reading" /\ writer[c] # "stop"
           \/ conn'[c] = "closed" /\ cpc[c] # "reading" /\ StopClose(c)
           \/ conn[c] = "up" /\ conn'[c] = "dead"
           \/ hpc[c] = "new" /\ hpc'[c] = "registering" /\ conn'[c] = "up"
<1>1. CASE \E d \in Conns : HandlerStep(d)
  BY <1>1, ConstantsAssumption DEF TypeOK, HandlerStep, Register, BeginEvict, Evict, RecordConnection,
     Poll, CloseOwn, Unregister, WaitForReader, SetClosed, CanWrite, Free
<1>2. CASE \E d \in Conns : ControlStep(d) \/ ReadMessage(d)
  BY <1>2 DEF ControlStep, CheckContext, EnterRead, ReadMessage, ReadFails, Pong,
              RecordPing, UpdateLastPing, GoControl
<1>3. CASE HealthStep
  BY <1>3 DEF TypeOK, HealthStep, HealthSnapshot, HealthPing, HealthClose, HealthRecord,
     HealthRoundDone, HealthExit, HealthInspect, WaitForReader, SetClosed, CanWrite, Free
<1>4. CASE StopCancel \/ StopStep
  BY <1>4 DEF TypeOK, StopStep, StopCancel, StopLock, StopUnlock, StopWait, CloseStore,
     StopTo, StopClose, WaitForReader, SetClosed, CanWrite
<1>5. CASE \E d \in Conns, t \in Tunnels : OpenWebSocket(d, t)
  BY <1>5 DEF TypeOK, OpenWebSocket
<1>6. CASE \E d \in Conns : Refuse(d) \/ NetworkDrop(d)
  BY <1>6 DEF TypeOK, Refuse, NetworkDrop
<1>7. CASE \/ \E r \in Lookups : LookupReturns(r) \/ \E t \in Tunnels : GetConnection(r, t)
           \/ CleanupStep \/ Tick \/ Terminated \/ UNCHANGED vars
  BY <1>7 DEF LookupReturns, GetConnection, CleanupStep, CleanupTick,
     CleanupOldChecks, CleanupExit, Tick, Terminated, vars
<1> QED  BY <1>1, <1>2, <1>3, <1>4, <1>5, <1>6, <1>7 DEF Next

-----------------------------------------------------------------------------
(* The map and its owners.                                                 *)

LEMMA EntriesOwnedNext ==
    ASSUME TypeOK, HandlerInv, EntriesOwned, [Next]_vars
    PROVE  EntriesOwned'
<1>1. ASSUME NEW c \in Conns, HandlerStep(c)
      PROVE  EntriesOwned'
  <2>1. CASE Register(c)
    BY <1>1, <2>1 DEF TypeOK, HandlerInv, EntriesOwned, Register, Registered
  <2>2. CASE BeginEvict(c)
    BY <1>1, <2>2 DEF TypeOK, EntriesOwned, BeginEvict, Registered
  <2>3. CASE Evict(c)
    BY <1>1, <2>3 DEF TypeOK, HandlerInv, EntriesOwned, Evict, Registered
  <2>4. CASE RecordConnection(c) \/ Poll(c) \/ CloseOwn(c)
    BY <1>1, <2>4 DEF TypeOK, EntriesOwned, RecordConnection, Poll, CloseOwn, Registered
  <2>5. CASE Unregister(c)
    BY <1>1, <2>5, ConstantsAssumption
    DEF TypeOK, HandlerInv, EntriesOwned, Unregister, Delete, Registered
  <2>6. CASE \E d \in Conns : WaitForReader(c, d)
    BY <1>1, <2>6 DEF EntriesOwned, WaitForReader
  <2> QED  BY <1>1, <2>1, <2>2, <2>3, <2>4, <2>5, <2>6 DEF HandlerStep
<1>2. ASSUME NEW c \in Conns, Refuse(c) \/ \E t \in Tunnels : OpenWebSocket(c, t)
      PROVE  EntriesOwned'
  BY <1>2 DEF TypeOK, EntriesOwned, Refuse, OpenWebSocket, Registered
<1>3. CASE UNCHANGED <<connections, tunnelOf, hpc>>
  BY <1>3 DEF EntriesOwned
<1> QED  BY <1>1, <1>2, <1>3, MapFrame

(* Nobody enters tm.mu beside an eviction, Stop or a waiting lookup.       *)
LEMMA TmExclusiveNext ==
    ASSUME TypeOK, TmExclusive, [Next]_vars
    PROVE  TmExclusive'
<1> USE DEF TmExclusive, WriteHeld
<1>1. ASSUME NEW c \in Conns, HandlerStep(c)
      PROVE  TmExclusive'
  <2>1. CASE Register(c)  BY <1>1, <2>1 DEF TypeOK, Register
  <2>2. CASE BeginEvict(c)  BY <1>1, <2>2 DEF TypeOK, BeginEvict, TmFree
  <2>3. CASE Evict(c)  BY <1>1, <2>3 DEF TypeOK, Evict
  <2>4. CASE RecordConnection(c) \/ Poll(c) \/ CloseOwn(c) \/ Unregister(c)
    BY <1>1, <2>4 DEF TypeOK, RecordConnection, Poll, CloseOwn, Unregister
  <2>5. CASE \E d \in Conns : WaitForReader(c, d)
    BY <1>1, <2>5 DEF WaitForReader
  <2> QED  BY <1>1, <2>1, <2>2, <2>3, <2>4, <2>5 DEF HandlerStep
<1>2. ASSUME NEW c \in Conns, Refuse(c) \/ \E t \in Tunnels : OpenWebSocket(c, t)
      PROVE  TmExclusive'
  BY <1>2 DEF TypeOK, Refuse, OpenWebSocket
<1>3. CASE StopCancel \/ StopStep
  BY <1>3 DEF StopStep, StopCancel, StopLock, StopUnlock, StopWait, CloseStore, StopTo,
              StopClose, WaitForReader, TmFree
<1>4. CASE \E r \in Lookups : LookupReturns(r) \/ \E t \in Tunnels : GetConnection(r, t)
  BY <1>4 DEF TypeOK, LookupReturns, GetConnection
<1>5. CASE \E c \in Conns : ControlStep(c) \/ ReadMessage(c) \/ NetworkDrop(c)
  BY <1>5 DEF ControlStep, CheckContext, EnterRead, ReadMessage, ReadFails, Pong,
              RecordPing, UpdateLastPing, GoControl, NetworkDrop
<1>6. CASE HealthStep
  BY <1>6 DEF HealthStep, HealthSnapshot, HealthPing, HealthClose, HealthRecord,
              HealthRoundDone, HealthExit, HealthInspect, WaitForReader
<1>7. CASE CleanupStep \/ Tick \/ Terminated \/ UNCHANGED vars
  BY <1>7 DEF CleanupStep, CleanupTick,
     CleanupOldChecks, CleanupExit, Tick, Terminated, vars
<1> QED  BY <1>1, <1>2, <1>3, <1>4, <1>5, <1>6, <1>7 DEF Next

(* While a handler evicts, no other handler changes the map.               *)
LEMMA HandlerInvNext ==
    ASSUME TypeOK, HandlerInv, TmExclusive, [Next]_vars
    PROVE  HandlerInv'
<1>0. ASSUME NEW c \in Conns, conn[c] # "none"  PROVE conn'[c] # "none"
  BY <1>0, ConnStep
<1>1. ASSUME NEW c \in Conns, ~IsOpen(c), ~(hpc[c] = "new" /\ hpc'[c] = "registering")
      PROVE  ~IsOpen(c)'
  BY <1>1, ConnStep DEF IsOpen
<1>2. ASSUME NEW c \in Conns, HandlerStep(c)
      PROVE  HandlerInv'
  <2>1. CASE Register(c)
    BY <1>2, <2>1, ConstantsAssumption
    DEF TypeOK, HandlerInv, Register, IsOpen, TmFree, WriteHeld
  <2>2. CASE BeginEvict(c)
    BY <1>2, <2>2 DEF TypeOK, HandlerInv, BeginEvict, IsOpen
  <2>3. CASE Evict(c)
    <3>1. \A d \in Conns : d # c => hpc[d] # "evicting"
      BY <1>2, <2>3 DEF TmExclusive, Evict
    <3> QED  BY <1>0, <1>1, <1>2, <2>3, <3>1 DEF TypeOK, HandlerInv, Evict
  <2>4. CASE RecordConnection(c)
    BY <1>2, <2>4 DEF TypeOK, HandlerInv, RecordConnection, IsOpen
  <2>5. CASE Poll(c)
    BY <1>2, <2>5 DEF TypeOK, HandlerInv, Poll, IsOpen
  <2>6. CASE CloseOwn(c)
    BY <1>2, <2>6 DEF TypeOK, HandlerInv, CloseOwn, SetClosed, IsOpen
  <2>7. CASE Unregister(c)
    BY <1>2, <2>7 DEF TypeOK, HandlerInv, Unregister, IsOpen, TmFree, WriteHeld
  <2>8. CASE \E d \in Conns : WaitForReader(c, d)
    BY <1>2, <2>8 DEF HandlerInv, WaitForReader, IsOpen
  <2> QED  BY <1>2, <2>1, <2>2, <2>3, <2>4, <2>5, <2>6, <2>7, <2>8 DEF HandlerStep
<1>3. ASSUME NEW c \in Conns, Refuse(c) \/ \E t \in Tunnels : OpenWebSocket(c, t)
      PROVE  HandlerInv'
  BY <1>3 DEF TypeOK, HandlerInv, Refuse, OpenWebSocket, IsOpen
<1>4. ASSUME UNCHANGED <<connections, tunnelOf, hpc>>,
             \A c \in Conns : cpc'[c] # "none" => cpc[c] # "none"
      PROVE  HandlerInv'
  BY <1>0, <1>1, <1>4 DEF HandlerInv
<1>5. ASSUME NEW c \in Conns, ControlStep(c) \/ ReadMessage(c)
      PROVE  \A d \in Conns : cpc'[d] # "none" => cpc[d] # "none"
  BY <1>5 DEF TypeOK, ControlStep, CheckContext, EnterRead, ReadMessage, ReadFails, Pong,
              RecordPing, UpdateLastPing, GoControl
<1>6. CASE HealthStep
  <2>1. UNCHANGED cpc
    BY <1>6 DEF HealthStep, HealthSnapshot, HealthPing, HealthClose, HealthRecord,
                HealthRoundDone, HealthExit, HealthInspect, WaitForReader
  <2>2. UNCHANGED <<connections, tunnelOf, hpc>>
    BY <1>6 DEF HealthStep, HealthSnapshot, HealthPing, HealthClose, HealthRecord,
                HealthRoundDone, HealthExit, HealthInspect, WaitForReader
  <2> QED  BY <1>4, <2>1, <2>2
<1>7. CASE StopCancel \/ StopStep
  <2>1. UNCHANGED <<connections, tunnelOf, hpc, cpc>>
    BY <1>7 DEF StopStep, StopCancel, StopLock, StopUnlock, StopWait, CloseStore, StopTo,
                StopClose, WaitForReader
  <2> QED  BY <1>4, <2>1
<1>8. CASE \/ \E r \in Lookups : LookupReturns(r) \/ \E t \in Tunnels : GetConnection(r, t)
           \/ CleanupStep \/ Tick \/ Terminated \/ UNCHANGED vars
           \/ \E c \in Conns : NetworkDrop(c)
  <2>1. UNCHANGED <<connections, tunnelOf, hpc, cpc>>
    BY <1>8 DEF LookupReturns, GetConnection, CleanupStep, CleanupTick,
     CleanupOldChecks, CleanupExit, Tick, Terminated, vars, NetworkDrop
  <2> QED  BY <1>4, <2>1
<1>9. CASE \E c \in Conns : ControlStep(c) \/ ReadMessage(c)
  <2>1. UNCHANGED <<connections, tunnelOf, hpc>>
    BY <1>9 DEF ControlStep, CheckContext, EnterRead, ReadMessage, ReadFails, Pong,
                RecordPing, UpdateLastPing, GoControl
  <2> QED  BY <1>4, <1>5, <1>9, <2>1
<1> QED  BY <1>2, <1>3, <1>6, <1>7, <1>8, <1>9 DEF Next

-----------------------------------------------------------------------------
(* The locks.                                                              *)

(* Close never happens under the connection's own reader.                  *)
LEMMA ReaderHoldsOpenNext ==
    ASSUME TypeOK, HandlerInv, ReaderHoldsOpen, [Next]_vars
    PROVE  ReaderHoldsOpen'
<1>1. ASSUME NEW c \in Conns, cpc[c] = "reading"
      PROVE  IsOpen(c)'
  <2>1. IsOpen(c)  BY <1>1 DEF ReaderHoldsOpen
  <2> QED  BY <1>1, <2>1, ConnStep DEF IsOpen, StopClose, CanWrite
<1>2. ASSUME NEW c \in Conns, cpc[c] # "reading", cpc'[c] = "reading"
      PROVE  IsOpen(c)'
  <2>1. EnterRead(c)
    <3>1. ASSUME NEW d \in Conns, HandlerStep(d)  PROVE FALSE
      BY <1>2, <3>1 DEF TypeOK, HandlerStep, Register, BeginEvict, Evict, RecordConnection,
         Poll, CloseOwn, Unregister, WaitForReader
    <3>2. ASSUME NEW d \in Conns, ControlStep(d) \/ ReadMessage(d)  PROVE EnterRead(c)
      BY <1>2, <3>2 DEF TypeOK, ControlStep, CheckContext, EnterRead, ReadMessage, ReadFails,
         Pong, RecordPing, UpdateLastPing, GoControl
    <3>3. CASE HealthStep
      BY <1>2, <3>3 DEF HealthStep, HealthSnapshot, HealthPing, HealthClose, HealthRecord,
         HealthRoundDone, HealthExit, HealthInspect, WaitForReader
    <3>4. CASE StopCancel \/ StopStep
      BY <1>2, <3>4 DEF StopStep, StopCancel, StopLock, StopUnlock, StopWait, CloseStore,
         StopTo, StopClose, WaitForReader
    <3>5. CASE \/ \E d \in Conns, t \in Tunnels : OpenWebSocket(d, t)
               \/ \E d \in Conns : Refuse(d) \/ NetworkDrop(d)
               \/ \E r \in Lookups : LookupReturns(r) \/ \E t \in Tunnels : GetConnection(r, t)
               \/ CleanupStep \/ Tick \/ Terminated \/ UNCHANGED vars
      BY <1>2, <3>5 DEF OpenWebSocket, Refuse, NetworkDrop, LookupReturns, GetConnection,
         CleanupStep, CleanupTick,
     CleanupOldChecks, CleanupExit, Tick, Terminated, vars
    <3> QED  BY <3>1, <3>2, <3>3, <3>4, <3>5 DEF Next
  <2>2. conn[c] # "none" /\ conn[c] # "closed"
    BY <1>2, <2>1 DEF TypeOK, EnterRead, GoControl, HandlerInv
  <2> QED  BY <2>1, <2>2 DEF TypeOK, EnterRead, GoControl, IsOpen
<1> QED  BY <1>1, <1>2 DEF ReaderHoldsOpen

(* Where a goroutine begins to wait for a reader.                          *)
LEMMA WriterStep ==
    ASSUME TypeOK, [Next]_vars, NEW c \in Conns, writer'[c] # writer[c], writer'[c] # Free
    PROVE  WaitForReader(writer'[c], c)
<1>1. ASSUME NEW th \in Threads, NEW d \in Conns, WaitForReader(th, d)
      PROVE  WaitForReader(writer'[c], c)
  BY <1>1 DEF TypeOK, WaitForReader
<1>2. ASSUME NEW d \in Conns, HandlerStep(d)
      PROVE  WaitForReader(writer'[c], c)
  BY <1>1, <1>2 DEF TypeOK, HandlerStep, Register, BeginEvict, Evict, RecordConnection,
     Poll, CloseOwn, Unregister, Acquired, Threads
<1>3. CASE HealthStep
  BY <1>1, <1>3 DEF TypeOK, HealthStep, HealthSnapshot, HealthPing, HealthClose,
     HealthRecord, HealthRoundDone, HealthExit, HealthInspect, Acquired, Threads
<1>4. CASE StopCancel \/ StopStep
  BY <1>1, <1>4 DEF TypeOK, StopStep, StopCancel, StopLock, StopUnlock, StopWait,
     CloseStore, StopTo, StopClose, Acquired, Threads
<1>5. ASSUME NEW d \in Conns, ControlStep(d) \/ ReadMessage(d)
      PROVE  UNCHANGED writer
  BY <1>5 DEF ControlStep, CheckContext, EnterRead, ReadMessage, ReadFails, Pong,
              RecordPing, UpdateLastPing, GoControl
<1>6. CASE \/ \E d \in Conns, t \in Tunnels : OpenWebSocket(d, t)
           \/ \E d \in Conns : Refuse(d) \/ NetworkDrop(d)
           \/ \E r \in Lookups : LookupReturns(r) \/ \E t \in Tunnels : GetConnection(r, t)
           \/ CleanupStep \/ Tick \/ Terminated \/ UNCHANGED vars
  BY <1>6 DEF OpenWebSocket, Refuse, NetworkDrop, LookupReturns, GetConnection,
     CleanupStep, CleanupTick,
     CleanupOldChecks, CleanupExit, Tick, Terminated, vars
<1> QED  BY <1>2, <1>3, <1>4, <1>5, <1>6 DEF Next

(* Nothing that Stop waits for is closed or taken out of the map by others.*)
LEMMA StopTargetNext ==
    ASSUME TypeOK, EntriesOwned, HandlerInv, ReaderHoldsOpen, TmExclusive, StopTarget,
           PendingWriterWaits, [Next]_vars
    PROVE  StopTarget'
<1> SUFFICES ASSUME NEW c \in Conns, writer'[c] = "stop"
             PROVE  IsOpen(c)' /\ \E t \in Tunnels : connections'[t] = c
  BY DEF StopTarget
<1>1. CASE writer[c] # "stop"
  <2>1. WaitForReader("stop", c)
    BY <1>1, WriterStep, ConstantsAssumption DEF Free
  <2> QED
    BY <2>1, ConstantsAssumption DEF WaitForReader, WantsLock, ReaderHoldsOpen, IsOpen
<1>2. CASE writer[c] = "stop"
  <2>1. IsOpen(c) /\ \E t \in Tunnels : connections[t] = c
    BY <1>2 DEF StopTarget
  <2>2. stop = "closing"
    BY <1>2, ConstantsAssumption DEF PendingWriterWaits, Awaits, Free
  <2>3. IsOpen(c)'
    <3>1. ~StopClose(c)
      BY <1>2 DEF TypeOK, StopClose, Acquired, Free
    <3> QED  BY <1>2, <2>1, <3>1, ConnStep DEF IsOpen
  <2>4. connections' = connections
    <3>1. ASSUME NEW d \in Conns, HandlerStep(d)  PROVE connections' = connections
      BY <2>2, <3>1 DEF TmExclusive, HandlerStep, Register, BeginEvict, Evict,
         RecordConnection, Poll, CloseOwn, Unregister, WaitForReader, TmFree, WriteHeld
    <3>2. ASSUME NEW d \in Conns, Refuse(d) \/ \E t \in Tunnels : OpenWebSocket(d, t)
          PROVE  connections' = connections
      BY <3>2 DEF Refuse, OpenWebSocket
    <3> QED  BY <3>1, <3>2, MapFrame
  <2> QED  BY <2>1, <2>3, <2>4
<1> QED  BY <1>1, <1>2

(* Stop begins to wait when it waits for nothing else.                     *)
LEMMA OneStopWriterNext ==
    ASSUME TypeOK, OneStopWriter, [Next]_vars
    PROVE  OneStopWriter'
<1> SUFFICES ASSUME NEW c \in Conns, NEW d \in Conns,
                    writer'[c] = "stop", writer'[d] = "stop", c # d
             PROVE  FALSE
  BY DEF OneStopWriter
<1>1. "stop" # Free
  BY ConstantsAssumption DEF Free
<1>2. ASSUME NEW e \in Conns, NEW f \in Conns, e # f, writer'[e] = "stop", writer'[f] = "stop",
             writer[e] # "stop"
      PROVE  FALSE
  <2>1. WaitForReader("stop", e)
    BY <1>1, <1>2, WriterStep
  <2>2. writer[f] # "stop" /\ writer' = [writer EXCEPT ![e] = "stop"]
    BY <2>1, ConstantsAssumption DEF WaitForReader, WantsLock
  <2> QED BY <1>2, <2>2 DEF TypeOK
<1> QED BY <1>2 DEF OneStopWriter

(* A goroutine that waits for a reader stays where it waits until it has   *)
(* got the lock, and takes its claim back when it has.                     *)
LEMMA PendingWriterWaitsNext ==
    ASSUME TypeOK, EntriesOwned, HandlerInv, ReaderHoldsOpen, TmExclusive, StopTarget,
           PendingWriterWaits, [Next]_vars
    PROVE  PendingWriterWaits'
<1> SUFFICES ASSUME NEW c \in Conns, NEW th, th = writer'[c], th # Free
             PROVE  Awaits(th, c)'
  BY DEF PendingWriterWaits, Awaits
<1>1. CASE writer[c] # th
  BY <1>1, WriterStep DEF WaitForReader, WantsLock, Awaits, ReaderHoldsOpen, IsOpen
<1>2. CASE writer[c] = th
  <2>0. Awaits(th, c)
    BY <1>2 DEF PendingWriterWaits
  <2>1. CASE th \in Conns /\ hpc[th] = "evicting" /\ c = connections[tunnelOf[th]]
    <3>1. hpc'[th] = "evicting" /\ connections' = connections /\ tunnelOf'[th] = tunnelOf[th]
      <4>1. ASSUME NEW d \in Conns, HandlerStep(d)
            PROVE  hpc'[th] = "evicting" /\ connections' = connections /\ tunnelOf'[th] = tunnelOf[th]
        <5>1. CASE Evict(d)
          <6>1. d = th  BY <2>1, <5>1 DEF TmExclusive, Evict
          <6>2. writer'[c] = Free  BY <2>1, <5>1, <6>1 DEF TypeOK, Evict, Acquired
          <6> QED  BY <6>2
        <5>2. CASE Register(d) \/ BeginEvict(d) \/ Unregister(d)
          BY <2>1, <5>2 DEF Register, BeginEvict, Unregister, TmFree, WriteHeld
        <5>3. CASE RecordConnection(d) \/ Poll(d) \/ CloseOwn(d)
          BY <2>1, <5>3 DEF TypeOK, RecordConnection, Poll, CloseOwn
        <5>4. CASE \E e \in Conns : WaitForReader(d, e)
          BY <2>1, <5>4 DEF WaitForReader
        <5> QED  BY <4>1, <5>1, <5>2, <5>3, <5>4 DEF HandlerStep
      <4>2. ASSUME NEW d \in Conns, Refuse(d) \/ \E t \in Tunnels : OpenWebSocket(d, t)
            PROVE  hpc'[th] = "evicting" /\ connections' = connections /\ tunnelOf'[th] = tunnelOf[th]
        BY <2>1, <4>2 DEF TypeOK, Refuse, OpenWebSocket
      <4> QED  BY <2>1, <4>1, <4>2, MapFrame
    <3> QED  BY <2>1, <3>1 DEF Awaits
  <2>2. CASE th \in Conns /\ hpc[th] = "closing" /\ c = th
    <3>1. hpc'[th] = "closing"
      <4>1. ASSUME NEW d \in Conns, HandlerStep(d)  PROVE hpc'[th] = "closing"
        BY <1>2, <2>2, <4>1 DEF TypeOK, HandlerStep, Register, BeginEvict, Evict,
           RecordConnection, Poll, CloseOwn, Unregister, WaitForReader, Acquired
      <4>2. ASSUME NEW d \in Conns, Refuse(d) \/ \E t \in Tunnels : OpenWebSocket(d, t)
            PROVE  hpc'[th] = "closing"
        BY <2>2, <4>2 DEF TypeOK, Refuse, OpenWebSocket
      <4> QED  BY <2>2, <4>1, <4>2, MapFrame
    <3> QED  BY <2>2, <3>1 DEF Awaits
  <2>3. CASE th = "health" /\ healthPc \in {"ping", "close"} /\ c = healthConn
    <3>1. CASE HealthStep
      BY <1>2, <2>3, <3>1 DEF TypeOK, HealthStep, HealthSnapshot, HealthPing,
         HealthClose, HealthRecord, HealthRoundDone, HealthExit, HealthInspect,
         WaitForReader, Acquired, Awaits
    <3>2. CASE ~HealthStep
      BY <2>3, <3>2, HealthFrame DEF Awaits
    <3> QED  BY <3>1, <3>2
  <2>4. CASE th = "stop" /\ stop = "closing" /\ IsOpen(c)
    <3>1. stop' = "closing"
      <4>1. \E t \in Tunnels : connections[t] = c
        BY <1>2, <2>4 DEF StopTarget
      <4>2. ~StopUnlock
        BY <2>4, <4>1, ConstantsAssumption DEF StopUnlock, IsOpen
      <4>3. CASE StopCancel \/ StopStep
        BY <2>4, <4>2, <4>3 DEF StopStep, StopCancel, StopLock, StopWait, CloseStore,
           StopTo, StopClose, WaitForReader
      <4> QED  BY <2>4, <4>3, StopFrame
    <3>2. StopTarget'
      BY StopTargetNext
    <3> QED  BY <1>2, <2>4, <3>1, <3>2 DEF StopTarget, Awaits
  <2> QED  BY <2>0, <2>1, <2>2, <2>3, <2>4 DEF Awaits
<1> QED  BY <1>1, <1>2

(* An open connection goes out of the map with the entry that another      *)
(* handler removes as it returns; a newer connection closes it.            *)
LEMMA LostOnlyByUnregisterNext ==
    ASSUME TypeOK, HandlerInv, EntriesOwned, LostOnlyByUnregister, [Next]_vars
    PROVE  LostOnlyByUnregister'
<1> SUFFICES ASSUME NEW c \in Conns, hpc'[c] \in Registered, IsOpen(c)',
                    connections'[tunnelOf'[c]] # c
             PROVE  \E d \in Conns \ {c} : tunnelOf'[d] = tunnelOf'[c] /\ hpc'[d] = "gone"
  BY DEF LostOnlyByUnregister
<1>1. \A d \in Conns : hpc[d] = "gone" => hpc'[d] = "gone" /\ tunnelOf'[d] = tunnelOf[d]
  <2>1. ASSUME NEW e \in Conns, HandlerStep(e) \/ Refuse(e) \/ \E t \in Tunnels : OpenWebSocket(e, t)
        PROVE  \A d \in Conns : hpc[d] = "gone" => hpc'[d] = "gone" /\ tunnelOf'[d] = tunnelOf[d]
    BY <2>1 DEF TypeOK, HandlerStep, Register, BeginEvict, Evict, RecordConnection, Poll,
       CloseOwn, Unregister, WaitForReader, Refuse, OpenWebSocket
  <2> QED BY <2>1, MapFrame
<1>2. ASSUME hpc[c] \in Registered, tunnelOf'[c] = tunnelOf[c], connections[tunnelOf[c]] # c, IsOpen(c)
      PROVE  \E d \in Conns \ {c} : tunnelOf'[d] = tunnelOf'[c] /\ hpc'[d] = "gone"
  BY <1>1, <1>2 DEF LostOnlyByUnregister
<1>3. hpc[c] \in Registered => IsOpen(c)
  BY ConnStep DEF IsOpen, Registered
<1>4. ASSUME NEW e \in Conns, HandlerStep(e)
      PROVE  \E d \in Conns \ {c} : tunnelOf'[d] = tunnelOf'[c] /\ hpc'[d] = "gone"
  <2>1. CASE Register(e)
    <3>1. e # c
      BY <2>1 DEF TypeOK, HandlerInv, Register
    <3>2. hpc[c] \in Registered /\ tunnelOf'[c] = tunnelOf[c]
      BY <2>1, <3>1 DEF TypeOK, Register
    <3>3. connections[tunnelOf[c]] # c
      <4>1. CASE tunnelOf[c] = tunnelOf[e]
        BY <2>1, <4>1, ConstantsAssumption DEF Register
      <4>2. CASE tunnelOf[c] # tunnelOf[e]
        BY <2>1, <3>2, <4>2 DEF TypeOK, HandlerInv, Register, Registered
      <4> QED BY <4>1, <4>2
    <3> QED BY <1>2, <1>3, <3>2, <3>3
  <2>2. CASE Evict(e)
    <3>1. e # c
      BY <2>2 DEF TypeOK, HandlerInv, Evict
    <3>2. hpc[c] \in Registered /\ tunnelOf'[c] = tunnelOf[c]
      BY <2>2, <3>1 DEF TypeOK, Evict
    <3>3. connections[tunnelOf[c]] # c
      <4>1. CASE tunnelOf[c] = tunnelOf[e]
        BY <2>2, <4>1 DEF TypeOK, Evict, SetClosed, IsOpen
      <4>2. CASE tunnelOf[c] # tunnelOf[e]
        BY <2>2, <3>2, <4>2 DEF TypeOK, HandlerInv, Evict, Registered
      <4> QED BY <4>1, <4>2
    <3> QED BY <1>2, <1>3, <3>2, <3>3
  <2>3. CASE Unregister(e)
    <3>1. e # c /\ hpc'[e] = "gone" /\ tunnelOf' = tunnelOf
      BY <2>3 DEF TypeOK, Unregister, Registered
    <3>2. CASE tunnelOf[c] = tunnelOf[e]
      BY <3>1, <3>2
    <3>3. CASE tunnelOf[c] # tunnelOf[e]
      <4>1. hpc[c] \in Registered
        BY <2>3, <3>1 DEF TypeOK, Unregister
      <4>2. connections[tunnelOf[c]] # c
        BY <2>3, <3>1, <3>3, <4>1 DEF TypeOK, HandlerInv, Unregister, Delete, Registered
      <4> QED BY <1>2, <1>3, <3>1, <4>1, <4>2
    <3> QED BY <3>2, <3>3
  <2>4. CASE BeginEvict(e) \/ RecordConnection(e) \/ Poll(e) \/ CloseOwn(e)
    <3>1. hpc[c] \in Registered /\ UNCHANGED <<connections, tunnelOf>>
      BY <2>4 DEF TypeOK, BeginEvict, RecordConnection, Poll, CloseOwn, Registered
    <3> QED BY <1>2, <1>3, <3>1
  <2>5. CASE \E d \in Conns : WaitForReader(e, d)
    BY <1>2, <1>3, <2>5 DEF WaitForReader
  <2> QED BY <1>4, <2>1, <2>2, <2>3, <2>4, <2>5 DEF HandlerStep
<1>5. ASSUME NEW e \in Conns, Refuse(e) \/ \E t \in Tunnels : OpenWebSocket(e, t)
      PROVE  \E d \in Conns \ {c} : tunnelOf'[d] = tunnelOf'[c] /\ hpc'[d] = "gone"
  <2>1. hpc[c] \in Registered /\ tunnelOf'[c] = tunnelOf[c] /\ connections' = connections
    BY <1>5 DEF TypeOK, Refuse, OpenWebSocket, Registered
  <2> QED BY <1>2, <1>3, <2>1
<1>6. CASE UNCHANGED <<connections, tunnelOf, hpc>>
  BY <1>2, <1>3, <1>6
<1> QED BY <1>4, <1>5, <1>6, MapFrame

-----------------------------------------------------------------------------
(* Shutdown.                                                               *)

(* After wg.Wait nothing wakes the health check or the cleanup up, and a   *)
(* control goroutine started late finds the context cancelled.             *)
LEMMA StoppedStaysQuiet ==
    ASSUME TypeOK, OnlyHandlersOutliveStop, [Next]_vars, stop \in {"stopped", "storeClosed"}
    PROVE  /\ healthPc' = "done" /\ cleanup' = "done"
           /\ \A c \in Conns : cpc'[c] \in {"none", "loop", "done"}
<1> DEFINE Quiet == /\ healthPc = "done" /\ cleanup = "done"
                    /\ \A c \in Conns : cpc[c] \in {"none", "loop", "done"}
<1>0. Quiet  BY DEF OnlyHandlersOutliveStop
<1>1. ASSUME NEW c \in Conns, HandlerStep(c)
      PROVE  Quiet'
  BY <1>0, <1>1 DEF TypeOK, HandlerStep, Register, BeginEvict, Evict, RecordConnection,
     Poll, CloseOwn, Unregister, WaitForReader
<1>2. ASSUME NEW c \in Conns, ControlStep(c) \/ ReadMessage(c)
      PROVE  Quiet'
  BY <1>0, <1>2 DEF TypeOK, ControlStep, CheckContext, EnterRead, ReadMessage, ReadFails,
     Pong, RecordPing, UpdateLastPing, GoControl, CtxDone
<1>3. CASE HealthStep
  BY <1>0, <1>3 DEF HealthStep, HealthSnapshot, HealthPing, HealthClose, HealthRecord,
     HealthRoundDone, HealthExit, HealthInspect, WaitForReader, WantsLock
<1>4. CASE StopCancel \/ StopStep
  BY <1>0, <1>4 DEF StopStep, StopCancel, StopLock, StopUnlock, StopWait, CloseStore,
     StopTo, StopClose, WaitForReader, WantsLock
<1>5. ASSUME NEW c \in Conns,
             \/ Refuse(c) \/ NetworkDrop(c) \/ \E t \in Tunnels : OpenWebSocket(c, t)
      PROVE  Quiet'
  BY <1>0, <1>5 DEF Refuse, NetworkDrop, OpenWebSocket
<1>6. CASE \/ \E r \in Lookups : LookupReturns(r) \/ \E t \in Tunnels : GetConnection(r, t)
           \/ CleanupStep \/ Tick \/ Terminated \/ UNCHANGED vars
  BY <1>0, <1>6 DEF LookupReturns, GetConnection, CleanupStep, CleanupTick,
     CleanupOldChecks, CleanupExit, Tick, Terminated, vars
<1>7. Quiet'  BY <1>1, <1>2, <1>3, <1>4, <1>5, <1>6 DEF Next
<1> QED  BY <1>7

(* Only wg.Wait gets Stop past its last step.                              *)
LEMMA StopWaited ==
    ASSUME [Next]_vars, stop \notin {"stopped", "storeClosed"},
           stop' \in {"stopped", "storeClosed"}
    PROVE  StopWait
<1>1. StopCancel \/ StopStep  BY StopFrame
<1> QED
  BY <1>1 DEF StopStep, StopCancel, StopLock, StopUnlock, StopWait, CloseStore, StopTo,
     StopClose, WaitForReader

(* A control goroutine, the health check or the cleanup that is about to   *)
(* use the store finds it open.                                            *)
LEMMA RefusedStep ==
    ASSUME TypeOK, OnlyHandlersOutliveStop, [Next]_vars
    PROVE  refused' \subseteq Conns
<1>0. refused \subseteq Conns  BY DEF OnlyHandlersOutliveStop
<1>1. ASSUME NEW c \in Conns, HandlerStep(c)
      PROVE  refused' \subseteq Conns
  BY <1>0, <1>1 DEF HandlerStep, Register, BeginEvict, Evict, RecordConnection, Poll,
     CloseOwn, Unregister, WaitForReader, UseStore
<1>2. ASSUME NEW c \in Conns, ControlStep(c) \/ ReadMessage(c)
      PROVE  refused' \subseteq Conns
  <2>1. CASE RecordPing(c)
    <3>1. stop # "storeClosed"
      BY <2>1 DEF OnlyHandlersOutliveStop, RecordPing, GoControl
    <3> QED  BY <1>0, <2>1, <3>1 DEF RecordPing, UseStore
  <2>2. CASE ~RecordPing(c)
    BY <1>0, <1>2, <2>2 DEF ControlStep, CheckContext, EnterRead, ReadMessage, ReadFails,
       Pong, UpdateLastPing
  <2> QED  BY <2>1, <2>2
<1>3. CASE HealthStep
  <2>1. CASE HealthRecord
    <3>1. stop # "storeClosed"
      BY <2>1 DEF OnlyHandlersOutliveStop, HealthRecord
    <3> QED  BY <1>0, <2>1, <3>1 DEF HealthRecord, UseStore
  <2>2. CASE ~HealthRecord
    BY <1>0, <1>3, <2>2 DEF HealthStep, HealthSnapshot, HealthPing, HealthClose,
       HealthRoundDone, HealthExit, HealthInspect, WaitForReader
  <2> QED  BY <2>1, <2>2
<1>4. CASE CleanupStep
  <2>1. CASE CleanupOldChecks
    <3>1. stop # "storeClosed"
      BY <2>1 DEF OnlyHandlersOutliveStop, CleanupOldChecks
    <3> QED  BY <1>0, <2>1, <3>1 DEF CleanupOldChecks, UseStore
  <2>2. CASE CleanupTick \/ CleanupExit
    BY <1>0, <2>2 DEF CleanupTick, CleanupExit
  <2> QED  BY <1>4, <2>1, <2>2 DEF CleanupStep
<1>5. CASE StopCancel \/ StopStep
  BY <1>0, <1>5 DEF StopStep, StopCancel, StopLock, StopUnlock, StopWait, CloseStore,
     StopTo, StopClose, WaitForReader
<1>6. CASE \/ \E c \in Conns, t \in Tunnels : OpenWebSocket(c, t)
           \/ \E c \in Conns : Refuse(c) \/ NetworkDrop(c)
           \/ \E r \in Lookups : LookupReturns(r) \/ \E t \in Tunnels : GetConnection(r, t)
           \/ Tick \/ Terminated \/ UNCHANGED vars
  BY <1>0, <1>6 DEF OpenWebSocket, Refuse, NetworkDrop, LookupReturns, GetConnection,
     Tick, Terminated, vars
<1> QED  BY <1>1, <1>2, <1>3, <1>4, <1>5, <1>6 DEF Next

LEMMA OnlyHandlersOutliveStopNext ==
    ASSUME TypeOK, OnlyHandlersOutliveStop, [Next]_vars
    PROVE  OnlyHandlersOutliveStop'
<1>1. CASE stop \in {"stopped", "storeClosed"}
  BY <1>1, StoppedStaysQuiet, RefusedStep DEF OnlyHandlersOutliveStop
<1>2. CASE stop \notin {"stopped", "storeClosed"} /\ stop' \in {"stopped", "storeClosed"}
  <2>1. StopWait  BY <1>2, StopWaited
  <2>2. /\ healthPc' = "done" /\ cleanup' = "done"
        /\ \A c \in Conns : cpc'[c] \in {"none", "loop", "done"}
    BY <2>1 DEF StopWait, StopTo, WaitGroupDone
  <2> QED  BY <2>2, RefusedStep DEF OnlyHandlersOutliveStop
<1>3. CASE stop' \notin {"stopped", "storeClosed"}
  BY <1>3, RefusedStep DEF OnlyHandlersOutliveStop
<1> QED  BY <1>1, <1>2, <1>3

-----------------------------------------------------------------------------
(* The theorems.                                                           *)

LEMMA InvInit == Init => Inv
<1> SUFFICES ASSUME Init PROVE Inv  OBVIOUS
<1>1. TypeOK
  BY ConstantsAssumption DEF Init, TypeOK, HandlerStates, ControlStates, StopStates, Threads
<1>2. HandlerInv /\ ReaderHoldsOpen  BY DEF Init, HandlerInv, ReaderHoldsOpen, IsOpen
<1>3. EntriesOwned /\ TmExclusive /\ OnlyHandlersOutliveStop
  BY DEF Init, EntriesOwned, TmExclusive, WriteHeld, OnlyHandlersOutliveStop
<1>4. StopTarget /\ PendingWriterWaits
  BY DEF Init, StopTarget, PendingWriterWaits, Free
<1>5. OneStopWriter /\ LostOnlyByUnregister
  BY DEF Init, OneStopWriter, LostOnlyByUnregister, Registered, Free
<1> QED  BY <1>1, <1>2, <1>3, <1>4, <1>5 DEF Inv

LEMMA InvNext == Inv /\ [Next]_vars => Inv'
<1> SUFFICES ASSUME Inv, [Next]_vars PROVE Inv'  OBVIOUS
<1>1. TypeOK'  BY TypeNext DEF Inv
<1>2. HandlerInv'  BY HandlerInvNext DEF Inv
<1>3. EntriesOwned'  BY EntriesOwnedNext DEF Inv
<1>4. ReaderHoldsOpen'  BY ReaderHoldsOpenNext DEF Inv
<1>5. TmExclusive'  BY TmExclusiveNext DEF Inv
<1>6. StopTarget'  BY StopTargetNext DEF Inv
<1>7. PendingWriterWaits'  BY PendingWriterWaitsNext DEF Inv
<1>8. OnlyHandlersOutliveStop'  BY OnlyHandlersOutliveStopNext DEF Inv
<1>9. OneStopWriter'  BY OneStopWriterNext DEF Inv
<1>10. LostOnlyByUnregister'  BY LostOnlyByUnregisterNext DEF Inv
<1> QED  BY <1>1, <1>2, <1>3, <1>4, <1>5, <1>6, <1>7, <1>8, <1>9, <1>10 DEF Inv

(* In every reachable state of the tunnel manager the strengthened          *)
(* invariant holds: initially, and after every step of every goroutine.    *)
THEOREM Invariant == Spec => []Inv
BY InvInit, InvNext, PTL DEF Spec

(* No entry of tm.connections outlives the handler that registered it.     *)
THEOREM EntriesOwnedAlways == Spec => []EntriesOwned
<1>1. Inv => EntriesOwned  BY DEF Inv
<1> QED  BY <1>1, Invariant, PTL

(* When HandleWebSocket has returned, its connection is closed and its     *)
(* control goroutine is not blocked on the socket.                         *)
THEOREM HandlerLeavesNothingAlways == Spec => []HandlerLeavesNothing
<1>1. Inv => HandlerLeavesNothing
  BY DEF Inv, HandlerInv, ReaderHoldsOpen, HandlerLeavesNothing
<1> QED  BY <1>1, Invariant, PTL

(* Connection.Close never closes the socket under its own ReadMessage.     *)
THEOREM ReaderHoldsOpenAlways == Spec => []ReaderHoldsOpen
<1>1. Inv => ReaderHoldsOpen  BY DEF Inv
<1> QED  BY <1>1, Invariant, PTL

(* No Lock of a connection that keeps readers out is ever abandoned.       *)
THEOREM PendingWriterWaitsAlways == Spec => []PendingWriterWaits
<1>1. Inv => PendingWriterWaits  BY DEF Inv
<1> QED  BY <1>1, Invariant, PTL

(* However many connections, lookups and handlers there are, whenever one  *)
(* of the mutexes is held across a wait or awaited, a goroutine that holds *)
(* one or is next to get it can run.                                       *)
THEOREM NoLockDeadlockAlways == Spec => []NoLockDeadlock
<1>1. Inv => NoLockDeadlock
  <2> SUFFICES ASSUME Inv, \A c \in Conns : cpc[c] # "reading",
                      \/ WriteHeld \/ \E r \in Lookups : lookup[r] # NoConn
                      \/ \E c \in Conns : writer[c] # Free
               PROVE  \/ \E th \in Threads, c \in Conns : CanLock(th, c)
                      \/ \E r \in Lookups : lookup[r] # NoConn /\ CanRead(lookup[r])
                      \/ stop = "closing" /\ \A t \in Tunnels :
                             connections[t] # NoConn => conn[connections[t]] = "closed"
    BY DEF NoLockDeadlock
  <2> USE DEF Inv
  <2>1. CASE \E c \in Conns : writer[c] # Free
    <3>1. PICK c \in Conns : writer[c] # Free
      BY <2>1
    <3>2. writer[c] \in Threads /\ Awaits(writer[c], c) /\ CanWrite(c, writer[c])
      BY <3>1 DEF TypeOK, PendingWriterWaits, CanWrite
    <3>3. writer[c] = "stop" => /\ c \in {connections[t] : t \in Tunnels}
                                /\ \A d \in Conns \ {c} : writer[d] # "stop"
      BY DEF StopTarget, OneStopWriter
    <3> QED BY <3>2, <3>3 DEF CanLock
  <2>2. CASE /\ \A c \in Conns : writer[c] = Free
             /\ \E r \in Lookups : lookup[r] # NoConn
    BY <2>2 DEF TypeOK, CanRead
  <2>3. CASE (\A c \in Conns : writer[c] = Free) /\ \E c \in Conns : hpc[c] = "evicting"
    <3>1. PICK c \in Conns : hpc[c] = "evicting"
      BY <2>3
    <3>2. PICK d \in Conns : d = connections[tunnelOf[c]]
      BY <3>1 DEF TypeOK, HandlerInv
    <3>3. c # "stop" /\ c \in Threads
      BY ConstantsAssumption DEF Threads
    <3>4. CanLock(c, d)
      BY <2>3, <3>1, <3>2, <3>3 DEF CanLock, Awaits, CanWrite
    <3> QED BY <3>3, <3>4
  <2>4. CASE (\A c \in Conns : writer[c] = Free) /\ stop = "closing"
    <3> SUFFICES ASSUME NEW t \in Tunnels, connections[t] # NoConn,
                        conn[connections[t]] # "closed"
                 PROVE  \E th \in Threads, c \in Conns : CanLock(th, c)
      BY <2>4
    <3>1. PICK c \in Conns : c = connections[t]
      BY DEF TypeOK
    <3>2. IsOpen(c)
      BY <3>1 DEF TypeOK, EntriesOwned, HandlerInv, Registered, IsOpen
    <3>3. "stop" \in Threads /\ "stop" # Free
      BY ConstantsAssumption DEF Threads, Free
    <3>4. CanLock("stop", c)
      BY <2>4, <3>1, <3>2, <3>3 DEF CanLock, Awaits, CanWrite
    <3> QED BY <3>3, <3>4
  <2> QED BY <2>1, <2>2, <2>3, <2>4 DEF WriteHeld
<1> QED BY <1>1, Invariant, PTL

(* A connection that is open and served is missing from the map only when  *)
(* the handler of another connection of its tunnel has returned.           *)
THEOREM LostOnlyByUnregisterAlways == Spec => []LostOnlyByUnregister
<1>1. Inv => LostOnlyByUnregister  BY DEF Inv
<1> QED  BY <1>1, Invariant, PTL

(* When TunnelManager.Stop has returned, the health check, the cleanup and *)
(* the control goroutines are done with the sockets and the store, and for *)
(* any number of connections only their handlers find the store closed.    *)
THEOREM OnlyHandlersOutliveStopAlways == Spec => []OnlyHandlersOutliveStop
<1>1. Inv => OnlyHandlersOutliveStop  BY DEF Inv
<1> QED  BY <1>1, Invariant, PTL

-----------------------------------------------------------------------------
(* TunnelManager implements TunnelRegistry.                                *)

OpenConns == {c \in Conns : IsOpen(c)}

EnteredConns == {c \in Conns : /\ tunnelOf[c] # NoTunnel
                               /\ hpc[c] \notin {"registering", "evicting"}}

(* Whatever Close is called on has been in the map, so that a connection   *)
(* on its way into the map is still open.                                  *)
RegistryInv ==
    /\ \A c \in Conns : hpc[c] = "new" => tunnelOf[c] = NoTunnel
    /\ \A c \in Conns : hpc[c] \in {"registering", "evicting"} => IsOpen(c)
    /\ healthTodo \subseteq EnteredConns
    /\ healthConn \in EnteredConns \cup {NoConn}

Mapped == Registry!Next \/ UNCHANGED <<connections, tunnelOf, OpenConns, EnteredConns>>

(* The connections of the map have entered it.                             *)
LEMMA MapEntered ==
    ASSUME TypeOK, EntriesOwned, NEW t \in Tunnels, connections[t] # NoConn
    PROVE  connections[t] \in EnteredConns
BY ConstantsAssumption DEF TypeOK, EntriesOwned, Registered, EnteredConns

(* Close of a connection that has been in the map.                         *)
LEMMA CloseMapped ==
    ASSUME TypeOK, NEW c \in EnteredConns, SetClosed(c),
           UNCHANGED <<connections, tunnelOf, EnteredConns>>
    PROVE  Mapped
<1>1. OpenConns' = OpenConns \ {c}
  BY DEF TypeOK, SetClosed, OpenConns, IsOpen, EnteredConns
<1>2. Registry!Close(c)
  BY <1>1 DEF Registry!Close, OpenConns, EnteredConns
<1> QED  BY <1>2 DEF Mapped, Registry!Next, EnteredConns

(* The steps of a handler that put it into the map.                        *)
LEMMA EnterMapped ==
    ASSUME Inv, RegistryInv, NEW c \in Conns, Register(c) \/ Evict(c)
    PROVE  Mapped
<1> USE DEF Inv
<1> DEFINE x == connections[tunnelOf[c]]
<1>1. /\ tunnelOf[c] \in Tunnels /\ hpc[c] \in {"registering", "evicting"}
      /\ tunnelOf \in [Conns -> Tunnels \cup {NoTunnel}] /\ hpc \in [Conns -> HandlerStates]
      /\ conn \in [Conns -> {"none", "up", "dead", "closed"}]
  BY DEF TypeOK, HandlerInv, Register, Evict
<1>2. c \in OpenConns /\ c \notin EnteredConns
  BY <1>1 DEF RegistryInv, OpenConns, EnteredConns
<1>3. EnteredConns' = EnteredConns \cup {c}
  BY <1>1, ConstantsAssumption DEF Register, Evict, EnteredConns
<1>4. OpenConns' = OpenConns \ {x}
  <2>1. CASE Register(c)
    BY <2>1, ConstantsAssumption DEF Register, OpenConns, IsOpen
  <2>2. CASE Evict(c)
    BY <1>1, <2>2 DEF Evict, SetClosed, OpenConns, IsOpen
  <2> QED  BY <2>1, <2>2
<1>5. Registry!Enter(c)
  BY <1>2, <1>3, <1>4 DEF Registry!Enter, OpenConns, EnteredConns, Register, Evict
<1> QED  BY <1>5 DEF Mapped, Registry!Next

(* The other steps of a handler.                                           *)
LEMMA HandlerMapped ==
    ASSUME Inv, RegistryInv, NEW c \in Conns, HandlerStep(c)
    PROVE  Mapped
<1> USE DEF Inv
<1>1. CASE BeginEvict(c)
  BY <1>1 DEF TypeOK, BeginEvict, Mapped, OpenConns, IsOpen, EnteredConns
<1>2. CASE RecordConnection(c) \/ Poll(c)
  BY <1>2 DEF TypeOK, RecordConnection, Poll, Mapped, OpenConns, IsOpen, EnteredConns
<1>3. CASE CloseOwn(c)
  <2>1. c \in EnteredConns /\ UNCHANGED EnteredConns
    BY <1>3, ConstantsAssumption DEF TypeOK, HandlerInv, CloseOwn, EnteredConns
  <2> QED  BY <1>3, <2>1, CloseMapped DEF CloseOwn
<1>4. CASE Unregister(c)
  <2>1. PICK t \in Tunnels : t = tunnelOf[c]
    BY <1>4 DEF HandlerInv, Unregister
  <2>2. UNCHANGED <<OpenConns, EnteredConns>>
    BY <1>4 DEF TypeOK, Unregister, OpenConns, IsOpen, EnteredConns
  <2>3. Registry!Leave(t)
    BY <1>4, <2>1, <2>2 DEF Unregister, Delete, Registry!Leave, OpenConns, EnteredConns
  <2> QED  BY <2>3 DEF Mapped, Registry!Next
<1>5. CASE \E d \in Conns : WaitForReader(c, d)
  BY <1>5 DEF WaitForReader, Mapped, OpenConns, IsOpen, EnteredConns
<1> QED  BY <1>1, <1>2, <1>3, <1>4, <1>5, EnterMapped DEF HandlerStep

(* The upgrade, and what leaves the map and the handlers alone.            *)
LEMMA OthersMapped ==
    ASSUME Inv, RegistryInv, [Next]_vars, ~ \E c \in Conns : HandlerStep(c)
    PROVE  Mapped
<1> USE DEF Inv
<1>1. ASSUME NEW c \in Conns, NEW t \in Tunnels, OpenWebSocket(c, t)
      PROVE  Mapped
  <2>1. tunnelOf[c] = NoTunnel /\ UNCHANGED connections
    BY <1>1 DEF OpenWebSocket, RegistryInv
  <2>2. OpenConns' = OpenConns \cup {c}
    BY <1>1 DEF TypeOK, OpenWebSocket, OpenConns, IsOpen
  <2>3. EnteredConns' = EnteredConns
    BY <1>1, <2>1 DEF TypeOK, OpenWebSocket, EnteredConns
  <2>4. Registry!Open(c, t)
    BY <1>1, <2>1, <2>2, <2>3 DEF OpenWebSocket, Registry!Open, OpenConns, EnteredConns
  <2> QED  BY <2>4 DEF Mapped, Registry!Next
<1>2. ASSUME NEW c \in Conns, Refuse(c)
      PROVE  Mapped
  BY <1>2 DEF TypeOK, Refuse, RegistryInv, Mapped, OpenConns, IsOpen, EnteredConns
<1>3. CASE HealthClose
  <2>1. UNCHANGED <<connections, tunnelOf, EnteredConns>>
    BY <1>3 DEF HealthClose, EnteredConns
  <2>2. CASE healthConn \in EnteredConns
    BY <1>3, <2>1, <2>2, CloseMapped DEF HealthClose
  <2>3. CASE healthConn = NoConn
    BY <1>3, <2>1, <2>3, ConstantsAssumption
    DEF TypeOK, HealthClose, SetClosed, Mapped, OpenConns, IsOpen
  <2> QED  BY <2>2, <2>3 DEF RegistryInv
<1>4. ASSUME NEW c \in Conns, StopClose(c)
      PROVE  Mapped
  <2>1. PICK t \in Tunnels : connections[t] = c
    BY <1>4 DEF StopClose
  <2>2. c \in EnteredConns
    BY <2>1, MapEntered, ConstantsAssumption
  <2>3. UNCHANGED <<connections, tunnelOf, EnteredConns>>
    BY <1>4 DEF StopClose, EnteredConns
  <2> QED  BY <1>4, <2>2, <2>3, CloseMapped DEF StopClose
<1>5. ASSUME NEW c \in Conns, NetworkDrop(c)
      PROVE  Mapped
  BY <1>5 DEF TypeOK, NetworkDrop, Mapped, OpenConns, IsOpen, EnteredConns
<1>6. ASSUME UNCHANGED <<connections, tunnelOf, hpc, conn>>
      PROVE  Mapped
  BY <1>6 DEF Mapped, OpenConns, IsOpen, EnteredConns
<1>7. ASSUME NEW c \in Conns, ControlStep(c) \/ ReadMessage(c)
      PROVE  Mapped
  BY <1>6, <1>7 DEF ControlStep, CheckContext, EnterRead, ReadMessage, ReadFails, Pong,
                    RecordPing, UpdateLastPing, GoControl
<1>8. CASE HealthStep
  BY <1>3, <1>6, <1>8 DEF HealthStep, HealthSnapshot, HealthPing, HealthRecord,
                          HealthRoundDone, HealthExit, HealthInspect, WaitForReader
<1>9. CASE StopCancel \/ StopStep
  BY <1>4, <1>6, <1>9 DEF StopStep, StopCancel, StopLock, StopUnlock, StopWait, CloseStore,
                          StopTo, WaitForReader
<1>10. CASE \/ \E r \in Lookups : LookupReturns(r) \/ \E t \in Tunnels : GetConnection(r, t)
            \/ CleanupStep \/ Tick \/ Terminated \/ UNCHANGED vars
  BY <1>6, <1>10 DEF LookupReturns, GetConnection, CleanupStep, CleanupTick,
     CleanupOldChecks, CleanupExit, Tick, Terminated, vars
<1> QED  BY <1>1, <1>2, <1>5, <1>7, <1>8, <1>9, <1>10 DEF Next

(* What has entered stays entered.                                         *)
LEMMA EnteredGrows ==
    ASSUME TypeOK, HandlerInv, RegistryInv, [Next]_vars
    PROVE  EnteredConns \subseteq EnteredConns'
<1> USE DEF EnteredConns
<1>1. ASSUME NEW c \in Conns, HandlerStep(c)
      PROVE  EnteredConns \subseteq EnteredConns'
  BY <1>1 DEF TypeOK, HandlerStep, Register, BeginEvict, Evict, RecordConnection, Poll,
              CloseOwn, Unregister, WaitForReader
<1>2. ASSUME NEW c \in Conns, Refuse(c) \/ \E t \in Tunnels : OpenWebSocket(c, t)
      PROVE  EnteredConns \subseteq EnteredConns'
  BY <1>2 DEF TypeOK, RegistryInv, Refuse, OpenWebSocket
<1>3. CASE UNCHANGED <<connections, tunnelOf, hpc>>
  BY <1>3
<1> QED  BY <1>1, <1>2, <1>3, MapFrame

(* A handler that is not in the map keeps its connection open: only        *)
(* connections that have entered are closed.                               *)
LEMMA EnteringOpen ==
    ASSUME Inv, RegistryInv, [Next]_vars, NEW c \in Conns,
           hpc'[c] \in {"registering", "evicting"}
    PROVE  IsOpen(c)'
<1> USE DEF Inv
<1>1. CASE hpc[c] \in {"registering", "evicting"}
  <2>1. c \in OpenConns /\ c \notin EnteredConns
    BY <1>1 DEF RegistryInv, OpenConns, EnteredConns
  <2>2. c \notin EnteredConns'
    BY DEF EnteredConns
  <2>3. Mapped
    BY HandlerMapped, OthersMapped
  <2>4. ASSUME NEW d \in Conns, Registry!Enter(d)  PROVE c \in OpenConns'
    <3>1. connections[tunnelOf[d]] # c
      <4>1. CASE tunnelOf[d] \in Tunnels
        BY <2>1, <4>1, MapEntered, ConstantsAssumption
      <4>2. CASE tunnelOf[d] \notin Tunnels
        <5>1. d \in OpenConns \ EnteredConns
          BY <2>4 DEF Registry!Enter, OpenConns, EnteredConns
        <5> QED  BY <4>2, <5>1 DEF HandlerInv, OpenConns, EnteredConns, IsOpen, TypeOK, HandlerStates
      <4> QED  BY <4>1, <4>2
    <3> QED  BY <2>1, <2>4, <3>1 DEF Registry!Enter, OpenConns
  <2>5. CASE \E d \in Conns, t \in Tunnels : Registry!Open(d, t)
    BY <2>1, <2>5 DEF Registry!Open, OpenConns
  <2>6. ASSUME NEW d \in Conns, Registry!Close(d)  PROVE c \in OpenConns'
    BY <2>1, <2>6 DEF Registry!Close, OpenConns, EnteredConns
  <2>7. CASE \E t \in Tunnels : Registry!Leave(t)
    BY <2>1, <2>7 DEF Registry!Leave, OpenConns
  <2>8. CASE UNCHANGED OpenConns
    BY <2>1, <2>8 DEF OpenConns, IsOpen
  <2>9. Registry!Next \/ UNCHANGED OpenConns
    BY <2>3 DEF Mapped
  <2>10. \/ \E d \in Conns, t \in Tunnels : Registry!Open(d, t)
         \/ \E d \in Conns : Registry!Enter(d) \/ Registry!Close(d)
         \/ \E t \in Tunnels : Registry!Leave(t)
         \/ UNCHANGED OpenConns
    BY <2>9 DEF Registry!Next
  <2>11. c \in OpenConns' => IsOpen(c)'
    BY DEF OpenConns, IsOpen
  <2> QED  BY <2>4, <2>5, <2>6, <2>7, <2>8, <2>10, <2>11
<1>2. CASE hpc[c] \notin {"registering", "evicting"}
  <2>1. \E d \in Conns, t \in Tunnels : OpenWebSocket(d, t)
    <3>1. ASSUME NEW d \in Conns, HandlerStep(d) \/ Refuse(d)  PROVE FALSE
      BY <1>2, <3>1 DEF TypeOK, HandlerStep, Register, BeginEvict, Evict, RecordConnection,
                        Poll, CloseOwn, Unregister, WaitForReader, Refuse
    <3>2. CASE UNCHANGED hpc
      BY <1>2, <3>2
    <3> QED  BY <3>1, <3>2, MapFrame
  <2> QED  BY <1>2, <2>1 DEF TypeOK, OpenWebSocket, IsOpen
<1> QED  BY <1>1, <1>2

LEMMA RegistryInvNext ==
    ASSUME Inv, RegistryInv, [Next]_vars
    PROVE  RegistryInv'
<1> USE DEF Inv
<1>1. \A c \in Conns : hpc'[c] = "new" => tunnelOf'[c] = NoTunnel
  <2>1. ASSUME NEW d \in Conns, HandlerStep(d)
        PROVE  \A c \in Conns : hpc'[c] = "new" => tunnelOf'[c] = NoTunnel
    BY <2>1 DEF TypeOK, RegistryInv, HandlerStep, Register, BeginEvict, Evict,
                RecordConnection, Poll, CloseOwn, Unregister, WaitForReader
  <2>2. ASSUME NEW d \in Conns, Refuse(d) \/ \E t \in Tunnels : OpenWebSocket(d, t)
        PROVE  \A c \in Conns : hpc'[c] = "new" => tunnelOf'[c] = NoTunnel
    BY <2>2 DEF TypeOK, RegistryInv, Refuse, OpenWebSocket
  <2>3. CASE UNCHANGED <<connections, tunnelOf, hpc>>
    BY <2>3 DEF RegistryInv
  <2> QED  BY <2>1, <2>2, <2>3, MapFrame
<1>2. \A c \in Conns : hpc'[c] \in {"registering", "evicting"} => IsOpen(c)'
  BY EnteringOpen
<1>3. /\ healthTodo' \subseteq EnteredConns
      /\ healthConn' \in EnteredConns \cup {NoConn}
  <2>1. CASE HealthSnapshot
    BY <2>1, MapEntered DEF HealthSnapshot, RegistryInv
  <2>2. CASE HealthStep /\ ~HealthSnapshot
    BY <2>2 DEF RegistryInv, HealthStep, HealthPing, HealthClose, HealthRecord,
                HealthRoundDone, HealthExit, HealthInspect, WaitForReader
  <2>3. CASE ~HealthStep
    BY <2>3, HealthFrame DEF RegistryInv
  <2> QED  BY <2>1, <2>2, <2>3
<1>4. EnteredConns \subseteq EnteredConns'
  BY EnteredGrows
<1>5. healthTodo' \subseteq EnteredConns' /\ healthConn' \in EnteredConns' \cup {NoConn}
  BY <1>3, <1>4
<1> QED  BY <1>1, <1>2, <1>5 DEF RegistryInv

(* The map is a TunnelRegistry for any number of connections and tunnels:  *)
(* a connection enters it once and open, closes the one it replaces in the *)
(* same step, and only connections that have been in it are closed.        *)
THEOREM RegistryImplemented == Spec => ImplementsRegistry
<1>1. Init => Registry!Init /\ RegistryInv
  <2> SUFFICES ASSUME Init PROVE Registry!Init /\ RegistryInv  OBVIOUS
  <2>1. OpenConns = {} /\ EnteredConns = {}
    BY DEF Init, OpenConns, IsOpen, EnteredConns
  <2> QED  BY <2>1 DEF Init, Registry!Init, RegistryInv, OpenConns, EnteredConns
<1>2. Inv /\ RegistryInv /\ [Next]_vars => RegistryInv'
  BY RegistryInvNext
<1>3. Inv /\ RegistryInv /\ [Next]_vars => [Registry!Next]_(Registry!vars)
  <2> SUFFICES ASSUME Inv, RegistryInv, [Next]_vars PROVE [Registry!Next]_(Registry!vars)
    OBVIOUS
  <2>1. Mapped
    BY HandlerMapped, OthersMapped
  <2> QED  BY <2>1 DEF Mapped, Registry!vars, OpenConns, EnteredConns
<1> QED  BY <1>1, <1>2, <1>3, Invariant, PTL DEF Spec, ImplementsRegistry, Registry!Spec
=============================================================================
