----------------------------- MODULE ClientProofs -----------------------------
(***************************************************************************)
(* Proofs, for any number of connections and streams, that every safety    *)
(* invariant of Client holds in all reachable states, and that Client      *)
(* implements ClientLink.                                                  *)
(*                                                                         *)
(* OneOpenConnection rests on where an open connection can be (OpenWhere): *)
(* in c.conn, or between the dial and its publication.                     *)
(* ClosedLeavesNothing rests on a fact that Stop and reconnectLoop         *)
(* establish before they close (Drained) and that Launch, which may come   *)
(* later, does not undo.                                                   *)
(***************************************************************************)
EXTENDS Client, TLAPS

LoopStops == loop \in {"drain", "close"}
StopStops == stop \in {"drain", "close"}

(* Whoever stops the streams has a connection and is alone, and            *)
(* reconnectLoop has one from the moment it looks at its age.              *)
Stopping ==
    /\ loop \in {"launch", "age", "lock", "drain", "close"} => current \in Conns
    /\ StopStops => current \in Conns
    /\ ~(LoopStops /\ StopStops)

(* Whatever a goroutine holds a reference to has been dialled.             *)
Dialled ==
    /\ current # NoConn => conn[current] # "none"
    /\ \A g \in Conns :
          /\ reads[g] # NoConn => conn[reads[g]] # "none"
          /\ control[g] \in {"enter", "reading", "pong", "touch"} => reads[g] \in Conns

(* A dialled connection without goroutines is in the hands of connect,     *)
(* which starts all of them at once.                                       *)
FreshWhere ==
    /\ \A c \in Conns :
          /\ Fresh(c) => loop \in {"publish", "launch"}
          /\ conn[c] = "none" => acceptor[c] = "none"
          /\ acceptor[c] = "none" => /\ pinger[c] = "none" /\ control[c] = "none"
                                     /\ streams[c] = 0
    /\ \A c, d \in Conns : Fresh(c) /\ Fresh(d) => c = d
    /\ loop = "launch" => \A c \in Conns : Fresh(c) => c = current

OpenWhere ==
    \A c \in Conns : IsOpen(c) =>
        /\ loop \notin {"dial", "backoff", "failed"}
        /\ loop = "publish" => Fresh(c)
        /\ loop # "publish" => c = current

(* Nothing of the connection's StreamManager runs that will not end.       *)
Drained(c) == cancelled[c] /\ streams[c] = 0 /\ acceptor[c] \in {"none", "loop", "done"}

DrainedFirst ==
    /\ loop = "drain" \/ stop = "drain" => cancelled[current]
    /\ loop = "close" \/ stop = "close" => Drained(current)
    /\ \A c \in Conns : conn[c] = "closed" => Drained(c)

Inv ==
    /\ TypeOK /\ Stopping /\ Dialled /\ FreshWhere /\ OpenWhere /\ DrainedFirst
    /\ ReaderHoldsOpen /\ PendingWriterWaits

-----------------------------------------------------------------------------
(* The steps, by what they change.                                         *)

LoopMoves ==
    \/ DialFails \/ LoopExit \/ LoopCheck \/ LoopFetch \/ Peek \/ Backoff
    \/ CheckAge \/ LoopDrain \/ Sleep

StopMoves == StopCancel \/ StopDrain \/ StopWait

Accepts(c) == AcceptCheck(c) \/ EnterAccept(c) \/ AcceptFails(c) \/ AcceptReturns(c)

Pings(c) == PingTick(c) \/ PingExit(c) \/ Ping(c)

Reads(g) == EnterRead(g) \/ ReadMessage(g) \/ ReadFails(g)

USE DEF connVars, streamVars, ctlVars

(* Every step is one of these.                                             *)
LEMMA Cases ==
    ASSUME Next
    PROVE  \/ LoopMoves \/ LoopCancel \/ LoopClose
           \/ StopMoves \/ StopLock \/ StopClose
           \/ \E c \in Conns :
                 \/ Dial(c) \/ Publish(c) \/ Launch(c)
                 \/ Accepts(c) \/ StreamEnds(c) \/ Pings(c)
                 \/ ControlCheck(c) \/ Fetch(c) \/ Reads(c) \/ Pong(c) \/ UpdateLastPing(c)
                 \/ GrowStale(c) \/ Break(c)
                 \/ \E th \in Threads : WaitForReaders(th, c)
           \/ UNCHANGED vars
<1>1. CASE LoopStep
  BY <1>1 DEF LoopStep, LoopMoves, Threads
<1>2. CASE StopCancel \/ StopStep
  BY <1>2 DEF StopStep, StopMoves, Threads
<1>3. ASSUME NEW c \in Conns,
             StreamStep(c) \/ AcceptReturns(c) \/ StreamEnds(c) \/ PingStep(c) \/ PingTick(c)
      PROVE  Accepts(c) \/ StreamEnds(c) \/ Pings(c) \/ \E th \in Threads : WaitForReaders(th, c)
  BY <1>3 DEF StreamStep, PingStep, Accepts, Pings, Threads
<1>4. ASSUME NEW g \in Conns, ControlStep(g) \/ ReadMessage(g)
      PROVE  \/ ControlCheck(g) \/ Fetch(g) \/ Reads(g) \/ Pong(g) \/ UpdateLastPing(g)
             \/ \E c \in Conns, th \in Threads : WaitForReaders(th, c)
  BY <1>4 DEF ControlStep, Reads, Threads
<1>5. ASSUME NEW c \in Conns, NetworkDrop(c) \/ ServerGivesUp(c)
      PROVE  Break(c)
  BY <1>5 DEF NetworkDrop, ServerGivesUp
<1>6. CASE Terminated
  BY <1>6 DEF Terminated
<1> QED
  BY <1>1, <1>2, <1>3, <1>4, <1>5, <1>6 DEF Next

-----------------------------------------------------------------------------
(* Every step keeps the types.                                             *)
LEMMA TypeStep ==
    ASSUME TypeOK, Next
    PROVE  TypeOK'
<1> USE ConstantsAssumption DEF TypeOK, Threads, Free, Loop, Stopper, Pinger, Control
<1>1. CASE LoopMoves
  BY <1>1 DEF LoopMoves, DialFails, LoopExit, LoopCheck, LoopFetch, Peek, Backoff,
    CheckAge, LoopDrain, Sleep, LoopGoto, Started
<1>2. CASE LoopCancel
  BY <1>2 DEF LoopCancel, LoopGoto
<1>3. CASE LoopClose
  BY <1>3 DEF LoopClose, LoopGoto, SetClosed, Acquired, CanWrite
<1>4. CASE StopMoves
  BY <1>4 DEF StopMoves, StopCancel, StopDrain, StopWait, StopGoto
<1>5. CASE StopLock
  BY <1>5 DEF StopLock, StopGoto
<1>6. CASE StopClose
  BY <1>6 DEF StopClose, StopGoto, SetClosed, Acquired, CanWrite
<1>7. ASSUME NEW c \in Conns, Dial(c)  PROVE TypeOK'
  BY <1>7 DEF Dial, LoopGoto
<1>8. ASSUME NEW c \in Conns, Publish(c)  PROVE TypeOK'
  BY <1>8 DEF Publish, LoopGoto
<1>9. ASSUME NEW c \in Conns, Launch(c)  PROVE TypeOK'
  BY <1>9 DEF Launch, LoopGoto
<1>10. ASSUME NEW c \in Conns, Accepts(c)  PROVE TypeOK'
  BY <1>10 DEF Accepts, AcceptCheck, EnterAccept, AcceptFails, AcceptReturns,
    AcceptGoto
<1>11. ASSUME NEW c \in Conns, StreamEnds(c)  PROVE TypeOK'
  BY <1>11 DEF StreamEnds
<1>12. ASSUME NEW c \in Conns, Pings(c)  PROVE TypeOK'
  BY <1>12 DEF Pings, PingTick, PingExit, Ping, PingGoto, Acquired, CanWrite
<1>13. ASSUME NEW c \in Conns, ControlCheck(c)  PROVE TypeOK'
  BY <1>13 DEF ControlCheck, ControlGoto
<1>14. ASSUME NEW c \in Conns, Fetch(c)  PROVE TypeOK'
  BY <1>14 DEF Fetch, ControlGoto
<1>15. ASSUME NEW c \in Conns, Reads(c)  PROVE TypeOK'
  BY <1>15 DEF Reads, EnterRead, ReadMessage, ReadFails, ControlGoto
<1>16. ASSUME NEW c \in Conns, Pong(c)  PROVE TypeOK'
  BY <1>16 DEF Pong, ControlGoto, Acquired, CanWrite
<1>17. ASSUME NEW c \in Conns, UpdateLastPing(c)  PROVE TypeOK'
  BY <1>17 DEF UpdateLastPing, ControlGoto, Acquired, CanWrite
<1>18. ASSUME NEW c \in Conns, GrowStale(c)  PROVE TypeOK'
  BY <1>18 DEF GrowStale
<1>19. ASSUME NEW c \in Conns, Break(c)  PROVE TypeOK'
  BY <1>19 DEF Break
<1>20. ASSUME NEW c \in Conns, NEW th \in Threads, WaitForReaders(th, c)
      PROVE  TypeOK'
  BY <1>20 DEF WaitForReaders
<1>21. CASE UNCHANGED vars
  BY <1>21 DEF vars
<1> HIDE DEF TypeOK, Threads, Free, Loop, Stopper, Pinger, Control
<1> QED BY <1>1, <1>2, <1>3, <1>4, <1>5, <1>6, <1>7, <1>8, <1>9, <1>10, <1>11, <1>12,
  <1>13, <1>14, <1>15, <1>16, <1>17, <1>18, <1>19, <1>20, <1>21, Cases

(* Stop and reconnectLoop stop the streams one at a time.                  *)
LEMMA StoppingStep ==
    ASSUME Inv, Next
    PROVE  Stopping'
<1> USE ConstantsAssumption DEF Inv, TypeOK, Stopping, LoopStops, StopStops,
  ClientFree, ClientLocked
<1>1. CASE LoopMoves
  BY <1>1 DEF LoopMoves, DialFails, LoopExit, LoopCheck, LoopFetch, Peek, Backoff,
    CheckAge, LoopDrain, Sleep, LoopGoto, Started
<1>2. CASE LoopCancel
  BY <1>2 DEF LoopCancel, LoopGoto
<1>3. CASE LoopClose
  BY <1>3 DEF LoopClose, LoopGoto, SetClosed, Acquired, CanWrite
<1>4. CASE StopMoves
  BY <1>4 DEF StopMoves, StopCancel, StopDrain, StopWait, StopGoto
<1>5. CASE StopLock
  BY <1>5 DEF StopLock, StopGoto
<1>6. CASE StopClose
  BY <1>6 DEF StopClose, StopGoto, SetClosed, Acquired, CanWrite
<1>7. ASSUME NEW c \in Conns, Dial(c)  PROVE Stopping'
  BY <1>7 DEF Dial, LoopGoto
<1>8. ASSUME NEW c \in Conns, Publish(c)  PROVE Stopping'
  BY <1>8 DEF Publish, LoopGoto
<1>9. ASSUME NEW c \in Conns, Launch(c)  PROVE Stopping'
  BY <1>9 DEF Launch, LoopGoto
<1>10. CASE UNCHANGED vars
  BY <1>10 DEF vars
<1>11. ASSUME NEW c \in Conns,
             Accepts(c) \/ StreamEnds(c) \/ Pings(c) \/ ControlCheck(c) \/ Fetch(c)
             \/ Reads(c) \/ Pong(c) \/ UpdateLastPing(c) \/ GrowStale(c) \/ Break(c)
             \/ \E th \in Threads : WaitForReaders(th, c)
      PROVE  Stopping'
  BY <1>11 DEF Accepts, AcceptCheck, EnterAccept, AcceptFails, AcceptReturns,
    AcceptGoto, StreamEnds, Pings, PingTick, PingExit, Ping, PingGoto, Acquired,
    CanWrite, ControlCheck, ControlGoto, Fetch, Reads, EnterRead, ReadMessage,
    ReadFails, Pong, UpdateLastPing, GrowStale, Break, WaitForReaders
<1> HIDE DEF Inv, TypeOK, Stopping, LoopStops, StopStops, ClientFree, ClientLocked
<1> QED BY <1>1, <1>2, <1>3, <1>4, <1>5, <1>6, <1>7, <1>8, <1>9, <1>10, <1>11, Cases

(* References are to connections that have been dialled.                   *)
LEMMA DialledStep ==
    ASSUME Inv, Next
    PROVE  Dialled'
<1> USE ConstantsAssumption DEF Inv, TypeOK, Stopping, StopStops, Dialled, ClientFree,
  ClientLocked, Fresh
<1>1. CASE LoopClose
  BY <1>1 DEF LoopClose, LoopGoto, SetClosed, Acquired, CanWrite
<1>2. CASE StopClose
  BY <1>2 DEF StopClose, StopGoto, SetClosed, Acquired, CanWrite
<1>3. ASSUME NEW c \in Conns, Dial(c)  PROVE Dialled'
  BY <1>3 DEF Dial, LoopGoto
<1>4. ASSUME NEW c \in Conns, Publish(c)  PROVE Dialled'
  BY <1>4 DEF Publish, LoopGoto
<1>5. ASSUME NEW c \in Conns, Launch(c)  PROVE Dialled'
  BY <1>5 DEF Launch, LoopGoto
<1>6. ASSUME NEW c \in Conns, ControlCheck(c)  PROVE Dialled'
  BY <1>6 DEF ControlCheck, ControlGoto
<1>7. ASSUME NEW c \in Conns, Fetch(c)  PROVE Dialled'
  BY <1>7 DEF Fetch, ControlGoto
<1>8. ASSUME NEW c \in Conns, Reads(c)  PROVE Dialled'
  BY <1>8 DEF Reads, EnterRead, ReadMessage, ReadFails, ControlGoto
<1>9. ASSUME NEW c \in Conns, Pong(c)  PROVE Dialled'
  BY <1>9 DEF Pong, ControlGoto, Acquired, CanWrite
<1>10. ASSUME NEW c \in Conns, UpdateLastPing(c)  PROVE Dialled'
  BY <1>10 DEF UpdateLastPing, ControlGoto, Acquired, CanWrite
<1>11. ASSUME NEW c \in Conns, Break(c)  PROVE Dialled'
  BY <1>11 DEF Break
<1>12. CASE LoopMoves \/ LoopCancel \/ StopMoves \/ StopLock \/ UNCHANGED vars
  BY <1>12 DEF LoopMoves, DialFails, LoopExit, LoopCheck, LoopFetch, Peek, Backoff,
    CheckAge, LoopDrain, Sleep, LoopGoto, Started, LoopCancel, StopMoves, StopCancel,
    StopDrain, StopWait, StopGoto, StopLock, vars
<1>13. ASSUME NEW c \in Conns,
             Accepts(c) \/ StreamEnds(c) \/ Pings(c) \/ GrowStale(c)
             \/ \E th \in Threads : WaitForReaders(th, c)
      PROVE  Dialled'
  BY <1>13 DEF Accepts, AcceptCheck, EnterAccept, AcceptFails, AcceptReturns,
    AcceptGoto, StreamEnds, Pings, PingTick, PingExit, Ping, PingGoto, Acquired,
    CanWrite, GrowStale, WaitForReaders
<1> HIDE DEF Inv, TypeOK, Stopping, StopStops, Dialled, ClientFree, ClientLocked,
  Fresh
<1> QED BY <1>1, <1>2, <1>3, <1>4, <1>5, <1>6, <1>7, <1>8, <1>9, <1>10, <1>11, <1>12,
  <1>13, Cases

(* A connection without goroutines is in the hands of connect.             *)
LEMMA FreshStep ==
    ASSUME Inv, Next
    PROVE  FreshWhere'
<1> USE ConstantsAssumption DEF Inv, TypeOK, FreshWhere, Fresh, Stopping, StopStops,
  Dialled, ClientFree, ClientLocked
<1>1. CASE LoopMoves
  BY <1>1 DEF LoopMoves, DialFails, LoopExit, LoopCheck, LoopFetch, Peek, Backoff,
    CheckAge, LoopDrain, Sleep, LoopGoto, Started
<1>2. CASE LoopCancel
  BY <1>2 DEF LoopCancel, LoopGoto
<1>3. CASE LoopClose
  BY <1>3 DEF LoopClose, LoopGoto, SetClosed, Acquired, CanWrite
<1>4. CASE StopClose
  BY <1>4 DEF StopClose, StopGoto, SetClosed, Acquired, CanWrite
<1>5. ASSUME NEW c \in Conns, Dial(c)  PROVE FreshWhere'
  BY <1>5 DEF Dial, LoopGoto
<1>6. ASSUME NEW c \in Conns, Publish(c)  PROVE FreshWhere'
  BY <1>6 DEF Publish, LoopGoto
<1>7. ASSUME NEW c \in Conns, Launch(c)  PROVE FreshWhere'
  BY <1>7 DEF Launch, LoopGoto
<1>8. ASSUME NEW c \in Conns, Accepts(c)  PROVE FreshWhere'
  BY <1>8 DEF Accepts, AcceptCheck, EnterAccept, AcceptFails, AcceptReturns,
    AcceptGoto
<1>9. ASSUME NEW c \in Conns, Pings(c)  PROVE FreshWhere'
  BY <1>9 DEF Pings, PingTick, PingExit, Ping, PingGoto, Acquired, CanWrite
<1>10. ASSUME NEW c \in Conns, ControlCheck(c)  PROVE FreshWhere'
  BY <1>10 DEF ControlCheck, ControlGoto
<1>11. ASSUME NEW c \in Conns, Fetch(c)  PROVE FreshWhere'
  BY <1>11 DEF Fetch, ControlGoto
<1>12. ASSUME NEW c \in Conns, Reads(c)  PROVE FreshWhere'
  BY <1>12 DEF Reads, EnterRead, ReadMessage, ReadFails, ControlGoto
<1>13. ASSUME NEW c \in Conns, Pong(c)  PROVE FreshWhere'
  BY <1>13 DEF Pong, ControlGoto, Acquired, CanWrite
<1>14. ASSUME NEW c \in Conns, UpdateLastPing(c)  PROVE FreshWhere'
  BY <1>14 DEF UpdateLastPing, ControlGoto, Acquired, CanWrite
<1>15. ASSUME NEW c \in Conns, Break(c)  PROVE FreshWhere'
  BY <1>15 DEF Break
<1>16. CASE StopMoves \/ StopLock \/ UNCHANGED vars
  BY <1>16 DEF StopMoves, StopCancel, StopDrain, StopWait, StopGoto, StopLock, vars
<1>17. ASSUME NEW c \in Conns,
             StreamEnds(c) \/ GrowStale(c)
             \/ \E th \in Threads : WaitForReaders(th, c)
      PROVE  FreshWhere'
  BY <1>17 DEF StreamEnds, GrowStale, WaitForReaders
<1> HIDE DEF Inv, TypeOK, FreshWhere, Fresh, Stopping, StopStops, Dialled, ClientFree,
  ClientLocked
<1> QED BY <1>1, <1>2, <1>3, <1>4, <1>5, <1>6, <1>7, <1>8, <1>9, <1>10, <1>11, <1>12,
  <1>13, <1>14, <1>15, <1>16, <1>17, Cases

(* An open connection is c.conn or the one just dialled.                   *)
LEMMA OpenStep ==
    ASSUME Inv, Next
    PROVE  OpenWhere'
<1> USE ConstantsAssumption DEF Inv, TypeOK, OpenWhere, IsOpen, FreshWhere, Fresh,
  Stopping, StopStops, LoopStops, Dialled
<1>1. CASE LoopMoves
  BY <1>1 DEF LoopMoves, DialFails, LoopExit, LoopCheck, LoopFetch, Peek, Backoff,
    CheckAge, LoopDrain, Sleep, LoopGoto, Started
<1>2. CASE LoopCancel
  BY <1>2 DEF LoopCancel, LoopGoto
<1>3. CASE LoopClose
  BY <1>3 DEF LoopClose, LoopGoto, SetClosed, Acquired, CanWrite
<1>4. CASE StopClose
  BY <1>4 DEF StopClose, StopGoto, SetClosed, Acquired, CanWrite
<1>5. ASSUME NEW c \in Conns, Dial(c)  PROVE OpenWhere'
  BY <1>5 DEF Dial, LoopGoto
<1>6. ASSUME NEW c \in Conns, Publish(c)  PROVE OpenWhere'
  BY <1>6 DEF Publish, LoopGoto
<1>7. ASSUME NEW c \in Conns, Launch(c)  PROVE OpenWhere'
  BY <1>7 DEF Launch, LoopGoto
<1>8. ASSUME NEW c \in Conns, Accepts(c)  PROVE OpenWhere'
  BY <1>8 DEF Accepts, AcceptCheck, EnterAccept, AcceptFails, AcceptReturns,
    AcceptGoto
<1>9. ASSUME NEW c \in Conns, Break(c)  PROVE OpenWhere'
  BY <1>9 DEF Break
<1>10. CASE StopMoves \/ StopLock \/ UNCHANGED vars
  BY <1>10 DEF StopMoves, StopCancel, StopDrain, StopWait, StopGoto, StopLock, vars
<1>11. ASSUME NEW c \in Conns,
             StreamEnds(c) \/ Pings(c) \/ ControlCheck(c) \/ Fetch(c) \/ Reads(c)
             \/ Pong(c) \/ UpdateLastPing(c) \/ GrowStale(c)
             \/ \E th \in Threads : WaitForReaders(th, c)
      PROVE  OpenWhere'
  BY <1>11 DEF StreamEnds, Pings, PingTick, PingExit, Ping, PingGoto, Acquired,
    CanWrite, ControlCheck, ControlGoto, Fetch, Reads, EnterRead, ReadMessage,
    ReadFails, Pong, UpdateLastPing, GrowStale, WaitForReaders
<1> HIDE DEF Inv, TypeOK, OpenWhere, IsOpen, FreshWhere, Fresh, Stopping, StopStops,
  LoopStops, Dialled
<1> QED BY <1>1, <1>2, <1>3, <1>4, <1>5, <1>6, <1>7, <1>8, <1>9, <1>10, <1>11, Cases

(* The streams are drained before a connection is closed, and stay so.     *)
LEMMA DrainedStep ==
    ASSUME Inv, Next
    PROVE  DrainedFirst'
<1> USE ConstantsAssumption DEF Inv, TypeOK, DrainedFirst, Drained, StreamsDone,
  Stopping, StopStops, LoopStops, ClientFree, ClientLocked, Fresh
<1>1. CASE LoopMoves
  BY <1>1 DEF LoopMoves, DialFails, LoopExit, LoopCheck, LoopFetch, Peek, Backoff,
    CheckAge, LoopDrain, Sleep, LoopGoto, Started
<1>2. CASE LoopCancel
  BY <1>2 DEF LoopCancel, LoopGoto
<1>3. CASE LoopClose
  BY <1>3 DEF LoopClose, LoopGoto, SetClosed, Acquired, CanWrite
<1>4. CASE StopMoves
  BY <1>4 DEF StopMoves, StopCancel, StopDrain, StopWait, StopGoto
<1>5. CASE StopLock
  BY <1>5 DEF StopLock, StopGoto
<1>6. CASE StopClose
  BY <1>6 DEF StopClose, StopGoto, SetClosed, Acquired, CanWrite
<1>7. ASSUME NEW c \in Conns, Dial(c)  PROVE DrainedFirst'
  BY <1>7 DEF Dial, LoopGoto
<1>8. ASSUME NEW c \in Conns, Publish(c)  PROVE DrainedFirst'
  BY <1>8 DEF Publish, LoopGoto
<1>9. ASSUME NEW c \in Conns, Launch(c)  PROVE DrainedFirst'
  BY <1>9 DEF Launch, LoopGoto
<1>10. ASSUME NEW c \in Conns, Accepts(c)  PROVE DrainedFirst'
  BY <1>10 DEF Accepts, AcceptCheck, EnterAccept, AcceptFails, AcceptReturns,
    AcceptGoto
<1>11. ASSUME NEW c \in Conns, StreamEnds(c)  PROVE DrainedFirst'
  BY <1>11 DEF StreamEnds
<1>12. ASSUME NEW c \in Conns, Break(c)  PROVE DrainedFirst'
  BY <1>12 DEF Break
<1>13. CASE UNCHANGED vars
  BY <1>13 DEF vars
<1>14. ASSUME NEW c \in Conns,
             Pings(c) \/ ControlCheck(c) \/ Fetch(c) \/ Reads(c) \/ Pong(c)
             \/ UpdateLastPing(c) \/ GrowStale(c)
             \/ \E th \in Threads : WaitForReaders(th, c)
      PROVE  DrainedFirst'
  BY <1>14 DEF Pings, PingTick, PingExit, Ping, PingGoto, Acquired, CanWrite,
    ControlCheck, ControlGoto, Fetch, Reads, EnterRead, ReadMessage, ReadFails, Pong,
    UpdateLastPing, GrowStale, WaitForReaders
<1> HIDE DEF Inv, TypeOK, DrainedFirst, Drained, StreamsDone, Stopping, StopStops,
  LoopStops, ClientFree, ClientLocked, Fresh
<1> QED BY <1>1, <1>2, <1>3, <1>4, <1>5, <1>6, <1>7, <1>8, <1>9, <1>10, <1>11, <1>12,
  <1>13, <1>14, Cases

(* A closing connection has no reader, and a reader enters open ones only. *)
LEMMA ReaderStep ==
    ASSUME Inv, Next
    PROVE  ReaderHoldsOpen'
<1> USE ConstantsAssumption DEF Inv, TypeOK, ReaderHoldsOpen, Reader, IsOpen, Dialled,
  Stopping, StopStops
<1>1. CASE LoopClose
  BY <1>1 DEF LoopClose, LoopGoto, SetClosed, Acquired, CanWrite
<1>2. CASE StopClose
  BY <1>2 DEF StopClose, StopGoto, SetClosed, Acquired, CanWrite
<1>3. ASSUME NEW c \in Conns, Dial(c)  PROVE ReaderHoldsOpen'
  BY <1>3 DEF Dial, LoopGoto
<1>4. ASSUME NEW c \in Conns, Launch(c)  PROVE ReaderHoldsOpen'
  BY <1>4 DEF Launch, LoopGoto
<1>5. ASSUME NEW c \in Conns, ControlCheck(c)  PROVE ReaderHoldsOpen'
  BY <1>5 DEF ControlCheck, ControlGoto
<1>6. ASSUME NEW c \in Conns, Fetch(c)  PROVE ReaderHoldsOpen'
  BY <1>6 DEF Fetch, ControlGoto
<1>7. ASSUME NEW c \in Conns, Reads(c)  PROVE ReaderHoldsOpen'
  BY <1>7 DEF Reads, EnterRead, ReadMessage, ReadFails, ControlGoto
<1>8. ASSUME NEW c \in Conns, Pong(c)  PROVE ReaderHoldsOpen'
  BY <1>8 DEF Pong, ControlGoto, Acquired, CanWrite
<1>9. ASSUME NEW c \in Conns, UpdateLastPing(c)  PROVE ReaderHoldsOpen'
  BY <1>9 DEF UpdateLastPing, ControlGoto, Acquired, CanWrite
<1>10. ASSUME NEW c \in Conns, Break(c)  PROVE ReaderHoldsOpen'
  BY <1>10 DEF Break
<1>11. CASE LoopMoves \/ LoopCancel \/ StopMoves \/ StopLock \/ UNCHANGED vars
  BY <1>11 DEF LoopMoves, DialFails, LoopExit, LoopCheck, LoopFetch, Peek, Backoff,
    CheckAge, LoopDrain, Sleep, LoopGoto, Started, LoopCancel, StopMoves, StopCancel,
    StopDrain, StopWait, StopGoto, StopLock, vars
<1>12. ASSUME NEW c \in Conns,
             Publish(c) \/ Accepts(c) \/ StreamEnds(c) \/ Pings(c) \/ GrowStale(c)
             \/ \E th \in Threads : WaitForReaders(th, c)
      PROVE  ReaderHoldsOpen'
  BY <1>12 DEF Publish, LoopGoto, Accepts, AcceptCheck, EnterAccept, AcceptFails,
    AcceptReturns, AcceptGoto, StreamEnds, Pings, PingTick, PingExit, Ping, PingGoto,
    Acquired, CanWrite, GrowStale, WaitForReaders
<1> HIDE DEF Inv, TypeOK, ReaderHoldsOpen, Reader, IsOpen, Dialled, Stopping,
  StopStops
<1> QED BY <1>1, <1>2, <1>3, <1>4, <1>5, <1>6, <1>7, <1>8, <1>9, <1>10, <1>11, <1>12,
  Cases

(* A pending writer leaves by taking the lock.                             *)
LEMMA WriterStep ==
    ASSUME Inv, Next
    PROVE  PendingWriterWaits'
<1> USE ConstantsAssumption DEF Inv, TypeOK, PendingWriterWaits, WantsLock, FreshWhere,
  Fresh, Threads, Free, Loop, Stopper, Pinger, Control, Stopping, LoopStops, StopStops,
  Dialled, ClientFree, ClientLocked
<1>1. CASE LoopMoves
  BY <1>1 DEF LoopMoves, DialFails, LoopExit, LoopCheck, LoopFetch, Peek, Backoff,
    CheckAge, LoopDrain, Sleep, LoopGoto, Started
<1>2. CASE LoopCancel
  BY <1>2 DEF LoopCancel, LoopGoto
<1>3. CASE LoopClose
  BY <1>3 DEF LoopClose, LoopGoto, SetClosed, Acquired, CanWrite
<1>4. CASE StopMoves
  BY <1>4 DEF StopMoves, StopCancel, StopDrain, StopWait, StopGoto
<1>5. CASE StopLock
  BY <1>5 DEF StopLock, StopGoto
<1>6. CASE StopClose
  BY <1>6 DEF StopClose, StopGoto, SetClosed, Acquired, CanWrite
<1>7. ASSUME NEW c \in Conns, Dial(c)  PROVE PendingWriterWaits'
  BY <1>7 DEF Dial, LoopGoto
<1>8. ASSUME NEW c \in Conns, Publish(c)  PROVE PendingWriterWaits'
  BY <1>8 DEF Publish, LoopGoto
<1>9. ASSUME NEW c \in Conns, Launch(c)  PROVE PendingWriterWaits'
  BY <1>9 DEF Launch, LoopGoto
<1>10. ASSUME NEW c \in Conns, Pings(c)  PROVE PendingWriterWaits'
  BY <1>10 DEF Pings, PingTick, PingExit, Ping, PingGoto, Acquired, CanWrite
<1>11. ASSUME NEW c \in Conns, ControlCheck(c)  PROVE PendingWriterWaits'
  BY <1>11 DEF ControlCheck, ControlGoto
<1>12. ASSUME NEW c \in Conns, Fetch(c)  PROVE PendingWriterWaits'
  BY <1>12 DEF Fetch, ControlGoto
<1>13. ASSUME NEW c \in Conns, Reads(c)  PROVE PendingWriterWaits'
  BY <1>13 DEF Reads, EnterRead, ReadMessage, ReadFails, ControlGoto
<1>14. ASSUME NEW c \in Conns, Pong(c)  PROVE PendingWriterWaits'
  BY <1>14 DEF Pong, ControlGoto, Acquired, CanWrite
<1>15. ASSUME NEW c \in Conns, UpdateLastPing(c)  PROVE PendingWriterWaits'
  BY <1>15 DEF UpdateLastPing, ControlGoto, Acquired, CanWrite
<1>16. ASSUME NEW c \in Conns, NEW th \in Threads, WaitForReaders(th, c)
      PROVE  PendingWriterWaits'
  BY <1>16 DEF WaitForReaders
<1>17. CASE UNCHANGED vars
  BY <1>17 DEF vars
<1>18. ASSUME NEW c \in Conns,
             Accepts(c) \/ StreamEnds(c) \/ GrowStale(c) \/ Break(c)
      PROVE  PendingWriterWaits'
  BY <1>18 DEF Accepts, AcceptCheck, EnterAccept, AcceptFails, AcceptReturns,
    AcceptGoto, StreamEnds, GrowStale, Break
<1> HIDE DEF Inv, TypeOK, PendingWriterWaits, WantsLock, FreshWhere, Fresh, Threads,
  Free, Loop, Stopper, Pinger, Control, Stopping, LoopStops, StopStops, Dialled,
  ClientFree, ClientLocked
<1> QED BY <1>1, <1>2, <1>3, <1>4, <1>5, <1>6, <1>7, <1>8, <1>9, <1>10, <1>11, <1>12,
  <1>13, <1>14, <1>15, <1>16, <1>17, <1>18, Cases

-----------------------------------------------------------------------------
(* Before the first dial there is nothing.                                 *)
LEMMA Initially == Init => Inv
BY ConstantsAssumption DEF Init, Inv, TypeOK, Stopping, LoopStops, StopStops, Dialled, FreshWhere,
   Fresh, OpenWhere, IsOpen, DrainedFirst, Drained, ReaderHoldsOpen, PendingWriterWaits, Threads,
   Free

(* Inv is inductive.                                                       *)
LEMMA Preserved == Inv /\ [Next]_vars => Inv'
<1>1. CASE Inv /\ Next
  BY <1>1, TypeStep, StoppingStep, DialledStep, FreshStep, OpenStep, DrainedStep, ReaderStep,
     WriterStep DEF Inv
<1>2. CASE Inv /\ UNCHANGED vars
  BY <1>2 DEF vars, Inv, TypeOK, Stopping, LoopStops, StopStops, Dialled, FreshWhere, Fresh,
     OpenWhere, IsOpen, DrainedFirst, Drained, ReaderHoldsOpen, PendingWriterWaits, WantsLock
<1> QED BY <1>1, <1>2

(* Inv holds in every reachable state of the client.                       *)
THEOREM Invariant == Spec => []Inv
BY Initially, Preserved, PTL DEF Spec

(* The variables keep their types.                                         *)
THEOREM TypeCorrect == Spec => []TypeOK
<1>1. Inv => TypeOK  BY DEF Inv
<1> QED BY Invariant, <1>1, PTL

(* However many times the client reconnects, at most one of its            *)
(* connections is open.                                                    *)
THEOREM OneOpenConnectionAlways == Spec => []OneOpenConnection
<1>1. Inv => OneOpenConnection
  BY DEF Inv, OneOpenConnection, OpenWhere, FreshWhere
<1> QED BY Invariant, <1>1, PTL

(* A closed connection carries no stream, and what still runs of its       *)
(* StreamManager has been told to end.                                     *)
THEOREM ClosedLeavesNothingAlways == Spec => []ClosedLeavesNothing
<1>1. Inv => ClosedLeavesNothing
  BY DEF Inv, ClosedLeavesNothing, DrainedFirst, Drained
<1> QED BY Invariant, <1>1, PTL

(* No connection is closed under a control goroutine that reads it.        *)
THEOREM ReaderHoldsOpenAlways == Spec => []ReaderHoldsOpen
<1>1. Inv => ReaderHoldsOpen  BY DEF Inv
<1> QED BY Invariant, <1>1, PTL

(* No pending Lock of a connection is abandoned.                           *)
THEOREM PendingWriterWaitsAlways == Spec => []PendingWriterWaits
<1>1. Inv => PendingWriterWaits  BY DEF Inv
<1> QED BY Invariant, <1>1, PTL

(* A connection whose mutex is not free for a reader is not stuck.         *)
LEMMA WriterMoves ==
    ASSUME Inv, NEW c \in Conns, writer[c] # Free
    PROVE  Moves(c)
<1>1. writer[c] \in Threads /\ WantsLock(writer[c], c)
  BY DEF Inv, TypeOK, PendingWriterWaits
<1>2. Reader(c) \/ CanWrite(c, writer[c])
  BY DEF CanWrite
<1> QED BY <1>1, <1>2 DEF Moves

(* The mutexes of the client cannot deadlock, for any number of            *)
(* connections that its goroutines meet at.                                *)
THEOREM NoLockDeadlockAlways == Spec => []NoLockDeadlock
<1>1. Inv => NoLockDeadlock
  <2> SUFFICES ASSUME Inv PROVE NoLockDeadlock
    OBVIOUS
  <2>1. ASSUME NEW c \in Conns, writer[c] = Free, pinger[c] = "ping"  PROVE Moves(c)
    <3>1. Pinger(c) \in Threads /\ WantsLock(Pinger(c), c)
      BY <2>1 DEF Threads, WantsLock
    <3> QED BY <2>1, <3>1 DEF Moves, CanWrite
  <2>2. ASSUME NEW c \in Conns  PROVE StreamsDone(c) \/ Moves(c)
    BY <2>1, WriterMoves DEF Inv, TypeOK, Moves, StreamsDone, CanRead, Reader
  <2>3. ASSUME NEW c \in Conns, c = current, loop = "close" \/ stop = "close"  PROVE Moves(c)
    <3>1. PICK th \in {Loop, Stopper} : WantsLock(th, c)
      BY <2>3 DEF WantsLock
    <3>2. CASE writer[c] = Free
      BY <3>1, <3>2 DEF Moves, CanWrite, Threads
    <3> QED BY <3>2, WriterMoves
  <2>4. ASSUME NEW c \in Conns  PROVE CanRead(c) \/ Moves(c)
    BY WriterMoves DEF CanRead
  <2>5. CASE current = NoConn
    BY <2>5, WriterMoves, ConstantsAssumption DEF Inv, Stopping, StopStops, NoLockDeadlock
  <2>6. ASSUME NEW c \in Conns, c = current  PROVE NoLockDeadlock
    <3>1. \A d \in Conns : writer[d] # Free => Moves(d)
      BY WriterMoves
    <3> QED BY <2>2, <2>3, <2>4, <2>6, <3>1 DEF NoLockDeadlock
  <2> QED BY <2>5, <2>6 DEF Inv, TypeOK
<1> QED BY Invariant, <1>1, PTL

-----------------------------------------------------------------------------
(* Client implements ClientLink.                                           *)

OpenConns == {c \in Conns : IsOpen(c)}

DialledConns == {c \in Conns : conn[c] # "none"}

Admits(c) ==
    IF ~cancelled[c] THEN "many"
    ELSE IF acceptor[c] \in {"enter", "accept"} THEN "one" ELSE "none"

AdmitsOf == [c \in Conns |-> Admits(c)]

LinkStutters == UNCHANGED <<OpenConns, DialledConns, streams, AdmitsOf>>

(* StreamManager.Stop gives an open connection up, if that has not been    *)
(* done before.                                                            *)
LEMMA CancelLinked ==
    ASSUME Inv, NEW c \in Conns, conn[c] # "none",
           cancelled' = [cancelled EXCEPT ![c] = TRUE],
           UNCHANGED <<conn, streams, acceptor>>
    PROVE  Link!Next \/ LinkStutters
<1>1. UNCHANGED <<OpenConns, DialledConns, streams>>
  BY DEF OpenConns, DialledConns, IsOpen
<1>2. \A d \in Conns \ {c} : Admits(d)' = Admits(d)
  BY DEF Inv, TypeOK, Admits
<1>3. Admits(c)' \in {"one", "none"}
  BY DEF Inv, TypeOK, Admits
<1>4. CASE cancelled[c]
  <2>1. Admits(c)' = Admits(c)
    BY <1>4 DEF Inv, TypeOK, Admits
  <2> QED  BY <1>1, <1>2, <2>1 DEF LinkStutters, AdmitsOf
<1>5. CASE ~cancelled[c]
  <2>1. c \in OpenConns
    BY <1>5 DEF Inv, TypeOK, DrainedFirst, Drained, OpenConns, IsOpen
  <2>2. Admits(c) = "many"
    BY <1>5 DEF Admits
  <2>3. AdmitsOf' = [AdmitsOf EXCEPT ![c] = Admits(c)']
    BY <1>2 DEF AdmitsOf
  <2>4. Link!GiveUp(c)
    BY <1>1, <1>3, <2>1, <2>2, <2>3 DEF Link!GiveUp, OpenConns, DialledConns, AdmitsOf, Admits
  <2> QED  BY <2>4 DEF Link!Next
<1> QED  BY <1>4, <1>5

(* A drained connection is closed, if it has not been closed before.       *)
LEMMA CloseLinked ==
    ASSUME Inv, NEW c \in Conns, conn[c] # "none", Drained(c), SetClosed(c),
           UNCHANGED <<cancelled, streams, acceptor>>
    PROVE  Link!Next \/ LinkStutters
<1>1. UNCHANGED <<DialledConns, streams, AdmitsOf>>
  BY DEF Inv, TypeOK, SetClosed, DialledConns, AdmitsOf, Admits
<1>2. OpenConns' = OpenConns \ {c}
  BY DEF Inv, TypeOK, SetClosed, OpenConns, IsOpen
<1>3. CASE c \in OpenConns
  <2>1. Link!Close(c)
    BY <1>1, <1>2, <1>3 DEF Link!Close, Drained, OpenConns, DialledConns, AdmitsOf, Admits
  <2> QED  BY <2>1 DEF Link!Next
<1>4. CASE c \notin OpenConns
  BY <1>1, <1>2, <1>4 DEF LinkStutters
<1> QED  BY <1>3, <1>4

(* A step of handleStreams.                                                *)
LEMMA AcceptsLinked ==
    ASSUME Inv, NEW c \in Conns, Accepts(c)
    PROVE  Link!Next \/ LinkStutters
<1>1. /\ UNCHANGED <<OpenConns, DialledConns, cancelled>>
      /\ \A d \in Conns \ {c} : Admits(d)' = Admits(d)
  BY DEF Inv, TypeOK, Accepts, AcceptCheck, EnterAccept, AcceptFails, AcceptReturns, AcceptGoto,
         OpenConns, DialledConns, IsOpen, Admits
<1>2. AdmitsOf' = [AdmitsOf EXCEPT ![c] = Admits(c)']
  BY <1>1 DEF AdmitsOf
<1>3. acceptor[c] \in {"enter", "accept"} => c \in OpenConns
  BY DEF Inv, TypeOK, FreshWhere, DrainedFirst, Drained, OpenConns, IsOpen
<1>4. CASE AcceptCheck(c) \/ EnterAccept(c)
  <2>1. Admits(c)' = Admits(c) /\ UNCHANGED streams
    BY <1>3, <1>4 DEF Inv, TypeOK, AcceptCheck, EnterAccept, AcceptGoto, Admits, OpenConns, IsOpen
  <2> QED  BY <1>1, <2>1 DEF LinkStutters, AdmitsOf
<1>5. CASE AcceptReturns(c)
  <2>1. acceptor[c] = "accept" /\ streams' = [streams EXCEPT ![c] = @ + 1]
    BY <1>5 DEF AcceptReturns, AcceptGoto
  <2>2. /\ Admits(c) = IF cancelled[c] THEN "one" ELSE "many"
        /\ Admits(c)' = IF cancelled[c] THEN "none" ELSE "many"
    BY <1>5, <2>1 DEF Inv, TypeOK, AcceptReturns, AcceptGoto, Admits
  <2>3. Link!Accept(c)
    BY <1>1, <1>2, <1>3, <2>1, <2>2 DEF Link!Accept, OpenConns, DialledConns, AdmitsOf, Admits
  <2> QED  BY <2>3 DEF Link!Next
<1>6. CASE AcceptFails(c)
  <2>1. acceptor[c] = "accept" /\ UNCHANGED streams
    BY <1>6 DEF AcceptFails, AcceptGoto
  <2>2. /\ Admits(c) = IF cancelled[c] THEN "one" ELSE "many"
        /\ Admits(c)' = IF cancelled[c] THEN "none" ELSE "many"
    BY <1>6, <2>1 DEF Inv, TypeOK, AcceptFails, AcceptGoto, Admits
  <2>3. CASE cancelled[c]
    <3>1. Link!GiveUp(c)
      BY <1>1, <1>2, <1>3, <2>1, <2>2, <2>3
      DEF Link!GiveUp, OpenConns, DialledConns, AdmitsOf, Admits
    <3> QED  BY <3>1 DEF Link!Next
  <2>4. CASE ~cancelled[c]
    BY <1>1, <2>1, <2>2, <2>4 DEF LinkStutters, AdmitsOf
  <2> QED  BY <2>3, <2>4
<1> QED  BY <1>4, <1>5, <1>6 DEF Accepts

(* Every step of the client is one of the link, or none.                   *)
LEMMA Linked ==
    ASSUME Inv, [Next]_vars
    PROVE  Link!Next \/ LinkStutters
<1>1. CASE LoopCancel
  <2>1. PICK c \in Conns : c = current /\ conn[c] # "none"
    BY <1>1, ConstantsAssumption DEF Inv, Stopping, Dialled, LoopCancel, LoopGoto
  <2> QED  BY <1>1, <2>1, CancelLinked DEF LoopCancel
<1>2. CASE StopLock
  <2>1. ASSUME NEW c \in Conns, c = current  PROVE Link!Next \/ LinkStutters
    <3>1. cancelled' = [cancelled EXCEPT ![c] = TRUE]
      BY <1>2, <2>1 DEF Inv, TypeOK, StopLock
    <3>2. conn[c] # "none"
      BY <2>1, ConstantsAssumption DEF Inv, Dialled
    <3> QED  BY <1>2, <3>1, <3>2, CancelLinked DEF StopLock
  <2>2. CASE current = NoConn
    <3>1. cancelled' = cancelled
      BY <1>2, <2>2, ConstantsAssumption DEF Inv, TypeOK, StopLock
    <3> QED  BY <1>2, <3>1 DEF StopLock, LinkStutters, OpenConns, IsOpen, DialledConns,
                               AdmitsOf, Admits
  <2> QED  BY <2>1, <2>2 DEF Inv, TypeOK
<1>3. CASE LoopClose \/ StopClose
  <2>1. PICK c \in Conns : c = current /\ conn[c] # "none" /\ Drained(c)
    BY <1>3, ConstantsAssumption
    DEF Inv, Stopping, StopStops, Dialled, DrainedFirst, LoopClose, LoopGoto, StopClose, StopGoto
  <2>2. SetClosed(c) /\ UNCHANGED <<cancelled, streams, acceptor>>
    BY <1>3, <2>1 DEF LoopClose, StopClose, SetClosed
  <2> QED  BY <2>1, <2>2, CloseLinked
<1>4. ASSUME NEW c \in Conns, Dial(c)  PROVE Link!Next
  <2>1. OpenConns = {} /\ c \notin DialledConns
    BY <1>4 DEF Inv, OpenWhere, Dial, LoopGoto, OpenConns, DialledConns
  <2>2. OpenConns' = {c} /\ DialledConns' = DialledConns \cup {c}
    BY <1>4, <2>1 DEF Inv, TypeOK, Dial, OpenConns, DialledConns, IsOpen
  <2>3. Link!Connect(c)
    BY <1>4, <2>1, <2>2 DEF Dial, Link!Connect, OpenConns, DialledConns
  <2> QED  BY <2>3 DEF Link!Next
<1>5. ASSUME NEW c \in Conns, Accepts(c)  PROVE Link!Next \/ LinkStutters
  BY <1>5, AcceptsLinked
<1>6. ASSUME NEW c \in Conns, StreamEnds(c)  PROVE Link!Next
  <2>1. c \in OpenConns
    BY <1>6 DEF Inv, TypeOK, FreshWhere, DrainedFirst, Drained, StreamEnds, OpenConns, IsOpen
  <2>2. UNCHANGED <<OpenConns, DialledConns, AdmitsOf>>
    BY <1>6 DEF StreamEnds, OpenConns, DialledConns, IsOpen, AdmitsOf, Admits
  <2>3. Link!End(c)
    BY <1>6, <2>1, <2>2 DEF StreamEnds, Link!End, OpenConns, DialledConns, AdmitsOf, Admits
  <2> QED  BY <2>3 DEF Link!Next
<1>7. ASSUME NEW c \in Conns, Launch(c)  PROVE LinkStutters
  BY <1>7 DEF Inv, TypeOK, Launch, Fresh, LinkStutters, OpenConns, DialledConns, IsOpen, AdmitsOf,
              Admits
<1>8. ASSUME NEW c \in Conns, Break(c)  PROVE LinkStutters
  BY <1>8 DEF Inv, TypeOK, Break, LinkStutters, OpenConns, DialledConns, IsOpen, AdmitsOf, Admits
<1>9. ASSUME UNCHANGED <<conn, cancelled, streams, acceptor>>  PROVE LinkStutters
  BY <1>9 DEF LinkStutters, OpenConns, DialledConns, IsOpen, AdmitsOf, Admits
<1>10. CASE LoopMoves \/ StopMoves \/ UNCHANGED vars
  BY <1>9, <1>10 DEF LoopMoves, DialFails, LoopExit, LoopCheck, LoopFetch, Peek, Backoff,
    CheckAge, LoopDrain, Sleep, StopMoves, StopCancel, StopDrain, StopWait, vars
<1>11. ASSUME NEW c \in Conns,
              \/ Publish(c) \/ Pings(c) \/ ControlCheck(c) \/ Fetch(c) \/ Reads(c) \/ Pong(c)
              \/ UpdateLastPing(c) \/ GrowStale(c) \/ \E th \in Threads : WaitForReaders(th, c)
       PROVE  LinkStutters
  BY <1>9, <1>11 DEF Publish, Pings, PingTick, PingExit, Ping, PingGoto, ControlCheck, ControlGoto,
    Fetch, Reads, EnterRead, ReadMessage, ReadFails, Pong, UpdateLastPing, GrowStale,
    WaitForReaders
<1> QED  BY <1>1, <1>2, <1>3, <1>4, <1>5, <1>6, <1>7, <1>8, <1>10, <1>11, Cases

(* The client is a ClientLink for any number of connections and streams:   *)
(* it keeps one connection at a time, gives it up with at most one stream  *)
(* to come, and closes it under no stream.                                 *)
THEOREM LinkImplemented == Spec => ImplementsLink
<1>1. Init => Link!Init
  BY DEF Init, Link!Init, IsOpen
<1>2. Inv /\ [Next]_vars => [Link!Next]_(Link!vars)
  <2> SUFFICES ASSUME Inv, [Next]_vars PROVE [Link!Next]_(Link!vars)
    OBVIOUS
  <2> QED  BY Linked DEF LinkStutters, Link!vars, OpenConns, DialledConns, AdmitsOf, Admits
<1> QED  BY <1>1, <1>2, Invariant, PTL DEF Spec, ImplementsLink, Link!Spec
===============================================================================
