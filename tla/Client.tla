-------------------------------- MODULE Client --------------------------------
(***************************************************************************)
(* The tunnel client: Client (internal/client/client.go), the              *)
(* StreamManager of each of its connections (internal/tunnel/mux.go) and   *)
(* the lock of the Connection below (internal/tunnel/protocol.go).         *)
(*                                                                         *)
(* Goroutines: Start and then reconnectLoop (loop), Stop (stop), and for   *)
(* every connection handleStreams (acceptor), pingRoutine (pinger),        *)
(* handleControlMessages (control) and the streams being forwarded.  They  *)
(* meet at the client's c.mu, at the mutex of each Connection, at the two  *)
(* wait groups and at the two contexts.  A critical section that cannot    *)
(* block is one action; the length of the delays is left out.              *)
(***************************************************************************)
EXTENDS Naturals, FiniteSets

CONSTANTS Conns,       \* the connections that can be dialled
          MaxStreams,  \* bound on the streams open on one connection
          Events,      \* what the environment does, out of AllEvents
          NoConn

AllEvents == {"drop", "stop"}

(* The goroutines that lock a Connection for writing, and none of them.    *)
Free       == <<NoConn, "free">>
Loop       == <<NoConn, "loop">>
Stopper    == <<NoConn, "stop">>
Pinger(c)  == <<c, "ping">>
Control(c) == <<c, "control">>
Threads == {Loop, Stopper} \cup {Pinger(c) : c \in Conns} \cup {Control(c) : c \in Conns}

ASSUME ConstantsAssumption ==
    /\ NoConn \notin Conns
    /\ MaxStreams \in Nat /\ Events \subseteq AllEvents

VARIABLES
    current,   \* c.conn and c.streamMgr, which are set and cleared together
    conn,      \* state of each Connection: not dialled, usable, broken, closed
    stale,     \* whether LastPing is more than three ping intervals old
    writer,    \* the goroutine inside the Connection's mu.Lock(), awaiting readers
    cancelled, \* whether the StreamManager's context is
    streams,   \* number of streams being forwarded
    acceptor, pinger, control,
    reads,     \* the local variable conn of each handleControlMessages
    loop, stop

connVars   == <<conn, stale, writer>>
streamVars == <<cancelled, streams, acceptor, pinger>>
ctlVars    == <<control, reads>>
vars == <<current, conn, stale, writer, cancelled, streams, acceptor, pinger,
          control, reads, loop, stop>>

TypeOK ==
    /\ current \in Conns \cup {NoConn}
    /\ conn \in [Conns -> {"none", "up", "dead", "closed"}]
    /\ stale \in [Conns -> BOOLEAN]
    /\ writer \in [Conns -> Threads \cup {Free}]
    /\ cancelled \in [Conns -> BOOLEAN]
    /\ streams \in [Conns -> 0 .. MaxStreams]
    /\ acceptor \in [Conns -> {"none", "loop", "enter", "accept", "done"}]
    /\ pinger \in [Conns -> {"none", "wait", "ping", "done"}]
    /\ control \in [Conns -> {"none", "loop", "fetch", "enter", "reading", "pong",
                              "touch", "done"}]
    /\ reads \in [Conns -> Conns \cup {NoConn}]
    /\ loop \in {"dial", "publish", "launch", "check", "fetch", "peek", "age", "lock",
                 "drain", "close", "backoff", "sleep", "done", "failed"}
    /\ stop \in {"running", "lock", "drain", "close", "wait", "stopped"}

(* main has called Start, which dials.                                     *)
Init ==
    /\ current = NoConn
    /\ conn = [c \in Conns |-> "none"]
    /\ stale = [c \in Conns |-> FALSE]
    /\ writer = [c \in Conns |-> Free]
    /\ cancelled = [c \in Conns |-> FALSE]
    /\ streams = [c \in Conns |-> 0]
    /\ acceptor = [c \in Conns |-> "none"]
    /\ pinger = [c \in Conns |-> "none"]
    /\ control = [c \in Conns |-> "none"]
    /\ reads = [c \in Conns |-> NoConn]
    /\ loop = "dial"
    /\ stop = "running"

-----------------------------------------------------------------------------
(* Helpers.                                                                *)

CtxDone == stop # "running"

IsOpen(c) == conn[c] \in {"up", "dead"}

(* Start has returned once the first connection has its goroutines.        *)
Started == \E c \in Conns : control[c] # "none"

(* The connection that connect has dialled and not started yet.            *)
Fresh(c) == conn[c] # "none" /\ acceptor[c] = "none"

(* c.mu of the client: Stop and reconnectLoop keep it while they stop the  *)
(* streams, reconnectLoop keeps the read lock while it calls IsClosed.     *)
ClientLocked == loop \in {"drain", "close"} \/ stop \in {"drain", "close"}
ClientFree   == ~ClientLocked /\ loop # "peek"

(* The Connection's mutex: Accept and ReadMessage keep the read lock while *)
(* they block; a waiting writer keeps new readers out.                     *)
Reader(c) ==
    \/ acceptor[c] = "accept"
    \/ \E g \in Conns : control[g] = "reading" /\ reads[g] = c
CanRead(c)      == writer[c] = Free
CanWriteBesideReader(c, th) == writer[c] \in {Free, th}            \* mutant
CanWrite(c, th) == writer[c] \in {Free, th} /\ ~Reader(c)
AcquiredStillPending(c) == UNCHANGED writer                       \* mutant
Acquired(c)     == writer' = [writer EXCEPT ![c] = Free]

(* Connection.Close, once the lock is held.                                *)
SetClosed(c) == conn' = [conn EXCEPT ![c] = "closed"]

StreamsDoneUncounted(c) ==                                        \* mutant
    acceptor[c] \in {"none", "done"} /\ pinger[c] \in {"none", "done"}

(* StreamManager.wg: both routines and every stream.                       *)
StreamsDone(c) ==
    /\ acceptor[c] \in {"none", "done"} /\ pinger[c] \in {"none", "done"}
    /\ streams[c] = 0

WantsLock(th, c) ==
    \/ th = Pinger(c) /\ pinger[c] = "ping"
    \/ \E g \in Conns : th = Control(g) /\ control[g] \in {"pong", "touch"} /\ reads[g] = c
    \/ th = Loop /\ loop = "close" /\ c = current
    \/ th = Stopper /\ stop = "close" /\ c = current

(* Lock() finds readers inside and waits for them.                         *)
WaitForReaders(th, c) ==
    /\ WantsLock(th, c)
    /\ Reader(c) /\ writer[c] = Free
    /\ writer' = [writer EXCEPT ![c] = th]
    /\ UNCHANGED <<current, conn, stale, streamVars, ctlVars, loop, stop>>

-----------------------------------------------------------------------------
(* Start and reconnectLoop.                                                *)

LoopGoto(from, to) == loop = from /\ loop' = to

(* connect: the dial and the handshake, which do not look at the context.  *)
Dial(c) ==
    /\ LoopGoto("dial", "publish") /\ conn[c] = "none"
    /\ conn' = [conn EXCEPT ![c] = "up"]
    /\ UNCHANGED <<current, stale, writer, streamVars, ctlVars, stop>>

(* Start gives up when its dial fails, reconnectLoop tries again.          *)
DialFails ==
    /\ LoopGoto("dial", IF Started THEN "check" ELSE "failed")
    /\ UNCHANGED <<current, connVars, streamVars, ctlVars, stop>>

Publish(c) ==
    /\ LoopGoto("publish", "launch") /\ Fresh(c) /\ ClientFree
    /\ current' = c
    /\ UNCHANGED <<connVars, streamVars, ctlVars, stop>>

(* StreamManager.Start, and the control goroutine.                         *)
Launch(c) ==
    /\ LoopGoto("launch", IF Started THEN "sleep" ELSE "check") /\ Fresh(c)
    /\ acceptor' = [acceptor EXCEPT ![c] = "loop"]
    /\ pinger' = [pinger EXCEPT ![c] = "wait"]
    /\ control' = [control EXCEPT ![c] = "loop"]
    /\ UNCHANGED <<current, connVars, cancelled, streams, reads, stop>>

(* select on ctx.Done(), alone or with one of the two timers.              *)
LoopExit ==
    /\ loop \in {"check", "backoff", "sleep"} /\ CtxDone
    /\ loop' = "done"
    /\ UNCHANGED <<current, connVars, streamVars, ctlVars, stop>>

LoopCheck ==
    /\ LoopGoto("check", "fetch") /\ ~CtxDone
    /\ UNCHANGED <<current, connVars, streamVars, ctlVars, stop>>

LoopFetch ==
    /\ LoopGoto("fetch", "peek") /\ ~ClientLocked
    /\ UNCHANGED <<current, connVars, streamVars, ctlVars, stop>>

(* needReconnect, IsClosed being called with c.mu.RLock held.              *)
Peek ==
    /\ loop = "peek" /\ (current # NoConn => CanRead(current))
    /\ LoopGoto("peek", IF current = NoConn \/ conn[current] = "closed"
                        THEN "backoff" ELSE "age")
    /\ UNCHANGED <<current, connVars, streamVars, ctlVars, stop>>

Backoff ==
    /\ LoopGoto("backoff", "dial") /\ ~CtxDone
    /\ UNCHANGED <<current, connVars, streamVars, ctlVars, stop>>

(* time.Since(conn.LastPing()) > PingInterval*3                            *)
CheckAge ==
    /\ loop = "age" /\ CanRead(current)
    /\ loop' = IF stale[current] THEN "lock" ELSE "sleep"
    /\ UNCHANGED <<current, connVars, streamVars, ctlVars, stop>>

(* A stale connection: c.mu.Lock and StreamManager.Stop, which cancels,    *)
(* waits and closes, all with c.mu held.                                   *)
LoopCancel ==
    /\ LoopGoto("lock", "drain") /\ ClientFree
    /\ cancelled' = [cancelled EXCEPT ![current] = TRUE]
    /\ UNCHANGED <<current, connVars, streams, acceptor, pinger, ctlVars, stop>>

LoopDrain ==
    /\ LoopGoto("drain", "close") /\ StreamsDone(current)
    /\ UNCHANGED <<current, connVars, streamVars, ctlVars, stop>>

LoopCloseForgotten ==                                             \* mutant
    /\ LoopGoto("close", "check")
    /\ CanWrite(current, Loop) /\ Acquired(current)
    /\ current' = NoConn
    /\ UNCHANGED <<conn, stale, streamVars, ctlVars, stop>>

LoopClose ==
    /\ LoopGoto("close", "check")
    /\ CanWrite(current, Loop) /\ Acquired(current)
    /\ SetClosed(current)
    /\ current' = NoConn
    /\ UNCHANGED <<stale, streamVars, ctlVars, stop>>

Sleep ==
    /\ LoopGoto("sleep", "check") /\ ~CtxDone
    /\ UNCHANGED <<current, connVars, streamVars, ctlVars, stop>>

LoopStep ==
    \/ DialFails \/ LoopExit \/ LoopCheck \/ LoopFetch \/ Peek \/ Backoff
    \/ CheckAge \/ LoopCancel \/ LoopDrain \/ LoopClose \/ Sleep
    \/ \E c \in Conns : Publish(c) \/ Launch(c) \/ WaitForReaders(Loop, c)

-----------------------------------------------------------------------------
(* Stop.                                                                   *)

StopGoto(from, to) == stop = from /\ stop' = to

StopCancel ==
    /\ "stop" \in Events /\ Started /\ StopGoto("running", "lock")
    /\ UNCHANGED <<current, connVars, streamVars, ctlVars, loop>>

StopLock ==
    /\ ClientFree /\ StopGoto("lock", IF current = NoConn THEN "wait" ELSE "drain")
    /\ cancelled' = [c \in Conns |-> cancelled[c] \/ c = current]
    /\ UNCHANGED <<current, connVars, streams, acceptor, pinger, ctlVars, loop>>

StopDrain ==
    /\ StopGoto("drain", "close") /\ StreamsDone(current)
    /\ UNCHANGED <<current, connVars, streamVars, ctlVars, loop>>

StopClose ==
    /\ StopGoto("close", "wait")
    /\ CanWrite(current, Stopper) /\ Acquired(current)
    /\ SetClosed(current)
    /\ UNCHANGED <<current, stale, streamVars, ctlVars, loop>>

(* c.wg counts reconnectLoop and the control goroutines.                   *)
StopWait ==
    /\ StopGoto("wait", "stopped")
    /\ loop = "done" /\ \A c \in Conns : control[c] \in {"none", "done"}
    /\ UNCHANGED <<current, connVars, streamVars, ctlVars, loop>>

StopStep ==
    \/ StopLock \/ StopDrain \/ StopClose \/ StopWait
    \/ \E c \in Conns : WaitForReaders(Stopper, c)

-----------------------------------------------------------------------------
(* StreamManager: handleStreams, the streams, pingRoutine.                 *)

AcceptGoto(c, from, to) ==
    /\ acceptor[c] = from /\ acceptor' = [acceptor EXCEPT ![c] = to]
    /\ UNCHANGED <<current, connVars, cancelled, pinger, ctlVars, loop, stop>>

AcceptCheckIgnoringContext(c) ==                                  \* mutant
    AcceptGoto(c, "loop", "enter") /\ UNCHANGED streams

AcceptCheck(c) ==
    AcceptGoto(c, "loop", IF cancelled[c] THEN "done" ELSE "enter") /\ UNCHANGED streams

EnterAccept(c) ==
    /\ CanRead(c)
    /\ AcceptGoto(c, "enter", IF conn[c] = "closed" THEN "loop" ELSE "accept")
    /\ UNCHANGED streams

(* The server has opened a stream.                                         *)
AcceptReturns(c) ==
    /\ conn[c] = "up" /\ streams[c] < MaxStreams
    /\ AcceptGoto(c, "accept", "loop")
    /\ streams' = [streams EXCEPT ![c] = @ + 1]

AcceptFailsRetrying(c) ==                                         \* mutant
    conn[c] # "up" /\ AcceptGoto(c, "accept", "enter") /\ UNCHANGED streams

(* An error of a broken session, at which the loop tries again.            *)
AcceptFails(c) ==
    conn[c] # "up" /\ AcceptGoto(c, "accept", "loop") /\ UNCHANGED streams

StreamEndsTwice(c) ==                                             \* mutant
    /\ streams[c] > 0
    /\ streams' = [streams EXCEPT ![c] = @ - 2]
    /\ UNCHANGED <<current, connVars, cancelled, acceptor, pinger, ctlVars, loop, stop>>

(* A forwarded stream comes to its end, at the latest with the session.    *)
StreamEnds(c) ==
    /\ streams[c] > 0
    /\ streams' = [streams EXCEPT ![c] = @ - 1]
    /\ UNCHANGED <<current, connVars, cancelled, acceptor, pinger, ctlVars, loop, stop>>

PingGoto(c, from, to) ==
    /\ pinger[c] = from /\ pinger' = [pinger EXCEPT ![c] = to]
    /\ UNCHANGED <<current, conn, stale, cancelled, streams, acceptor, ctlVars, loop, stop>>

PingTick(c) == ~cancelled[c] /\ PingGoto(c, "wait", "ping") /\ UNCHANGED writer

PingExit(c) == cancelled[c] /\ PingGoto(c, "wait", "done") /\ UNCHANGED writer

Ping(c) ==
    /\ CanWrite(c, Pinger(c)) /\ Acquired(c)
    /\ \/ IsOpen(c) /\ PingGoto(c, "ping", "wait")
       \/ conn[c] # "up" /\ PingGoto(c, "ping", "done")

StreamStep(c) ==
    \/ AcceptCheck(c) \/ EnterAccept(c) \/ AcceptFails(c)
    \/ conn[c] # "up" /\ StreamEnds(c)

PingStep(c) == PingExit(c) \/ Ping(c) \/ WaitForReaders(Pinger(c), c)

-----------------------------------------------------------------------------
(* handleControlMessages of the connection g.                              *)

ControlGoto(g, from, to) ==
    /\ control[g] = from /\ control' = [control EXCEPT ![g] = to]
    /\ UNCHANGED <<current, conn, streamVars, loop, stop>>

ControlCheck(g) ==
    /\ ControlGoto(g, "loop", IF CtxDone THEN "done" ELSE "fetch")
    /\ UNCHANGED <<stale, writer, reads>>

(* It reads c.conn again before each message.                              *)
Fetch(g) ==
    /\ ~ClientLocked
    /\ ControlGoto(g, "fetch", IF current = NoConn THEN "done" ELSE "enter")
    /\ reads' = [reads EXCEPT ![g] = current]
    /\ UNCHANGED <<stale, writer>>

EnterRead(g) ==
    /\ control[g] = "enter" /\ CanRead(reads[g])
    /\ ControlGoto(g, "enter", IF conn[reads[g]] = "closed" THEN "done" ELSE "reading")
    /\ UNCHANGED <<stale, writer, reads>>

(* A ping, a pong or something else has come.                              *)
ReadMessage(g) ==
    /\ control[g] = "reading" /\ conn[reads[g]] = "up"
    /\ \E next \in {"pong", "touch", "loop"} : ControlGoto(g, "reading", next)
    /\ UNCHANGED <<stale, writer, reads>>

(* The read deadline, a broken socket, a frame that is no control message: *)
(* the goroutine returns and leaves the connection as it is.               *)
ReadFails(g) ==
    /\ ControlGoto(g, "reading", "done")
    /\ UNCHANGED <<stale, writer, reads>>

Pong(g) ==
    /\ control[g] = "pong"
    /\ CanWrite(reads[g], Control(g)) /\ Acquired(reads[g])
    /\ \/ IsOpen(reads[g]) /\ ControlGoto(g, "pong", "touch")
       \/ conn[reads[g]] # "up" /\ ControlGoto(g, "pong", "done")
    /\ UNCHANGED <<stale, reads>>

UpdateLastPing(g) ==
    /\ control[g] = "touch"
    /\ CanWrite(reads[g], Control(g)) /\ Acquired(reads[g])
    /\ ControlGoto(g, "touch", "loop")
    /\ stale' = [stale EXCEPT ![reads[g]] = FALSE]
    /\ UNCHANGED reads

ControlStep(g) ==
    \/ ControlCheck(g) \/ Fetch(g) \/ EnterRead(g) \/ ReadFails(g)
    \/ Pong(g) \/ UpdateLastPing(g)
    \/ \E c \in Conns : WaitForReaders(Control(g), c)

-----------------------------------------------------------------------------
(* The environment.                                                        *)

(* Three ping intervals without a message that calls UpdateLastPing.       *)
GrowStale(c) ==
    /\ IsOpen(c) /\ ~stale[c]
    /\ stale' = [stale EXCEPT ![c] = TRUE]
    /\ UNCHANGED <<current, conn, writer, streamVars, ctlVars, loop, stop>>

Break(c) ==
    /\ conn[c] = "up" /\ conn' = [conn EXCEPT ![c] = "dead"]
    /\ UNCHANGED <<current, stale, writer, streamVars, ctlVars, loop, stop>>

(* The server or the network goes away, or the yamux session ends.         *)
NetworkDrop(c) == "drop" \in Events /\ Break(c)

(* The server's health check closes a connection that answers no pings     *)
(* (tunnel.go:307): no goroutine of the client can read one from it.       *)
Answering(c) ==
    \E g \in Conns : /\ reads[g] = c \/ (reads[g] = NoConn /\ g = c)
                     /\ \/ control[g] \in {"loop", "reading"}
                        \/ control[g] = "fetch" /\ ~ClientLocked
                        \/ control[g] = "enter" /\ CanRead(c)
ServerGivesUp(c) == acceptor[c] # "none" /\ ~Answering(c) /\ Break(c)

(* main returns.                                                           *)
Terminated == (loop = "failed" \/ stop = "stopped") /\ UNCHANGED vars

Next ==
    \/ \E c \in Conns : Dial(c)
    \/ LoopStep \/ StopCancel \/ StopStep
    \/ \E c \in Conns :
          \/ StreamStep(c) \/ AcceptReturns(c) \/ StreamEnds(c)
          \/ PingStep(c) \/ PingTick(c)
          \/ ControlStep(c) \/ ReadMessage(c)
          \/ GrowStale(c) \/ NetworkDrop(c) \/ ServerGivesUp(c)
    \/ Terminated

Spec == Init /\ [][Next]_vars

(* Goroutines that can run do run, with strong fairness where a mutex has  *)
(* to be found free (sync.RWMutex starves nobody).  Streams of a broken    *)
(* session end, and the server drops a client that has stopped answering.  *)
(* Nobody owes a message, a stream or the end of a stream of a session     *)
(* that works.                                                             *)
Fairness ==
    /\ SF_vars(LoopStep) /\ SF_vars(StopStep)
    /\ \A c \in Conns :
          /\ SF_vars(StreamStep(c)) /\ SF_vars(PingStep(c)) /\ SF_vars(ControlStep(c))
          /\ WF_vars(GrowStale(c)) /\ WF_vars(ServerGivesUp(c))

FairSpec == Spec /\ Fairness

-----------------------------------------------------------------------------
(* Safety.                                                                 *)

(* However reconnectLoop, Stop and the network interleave, the client has  *)
(* at most one open Connection: the previous one has been closed before    *)
(* connect dials, so the server never sees two tunnels from one client.    *)
OneOpenConnection ==
    \A c, d \in Conns : IsOpen(c) /\ IsOpen(d) => c = d

(* A Connection that has been closed carries no stream, nothing blocks in  *)
(* its Accept, and what still runs of its StreamManager has been told to   *)
(* end, even when Stop gets in between connect's assignment of c.streamMgr *)
(* and the Start of its goroutines: a reconnect leaves none of them behind *)
(* on the old connection.                                                  *)
ClosedLeavesNothing ==
    \A c \in Conns : conn[c] = "closed" =>
        /\ streams[c] = 0 /\ acceptor[c] # "accept"
        /\ ~StreamsDone(c) => cancelled[c]

(* A control goroutine never reads a connection that has been closed under *)
(* it, although it takes the connection from c.conn and others close it.   *)
ReaderHoldsOpen ==
    \A g \in Conns : control[g] = "reading" => IsOpen(reads[g])

(* A writer that keeps readers out of a Connection's mutex still waits for *)
(* it: no pending Lock is abandoned.                                       *)
PendingWriterWaits ==
    \A c \in Conns : writer[c] # Free => WantsLock(writer[c], c)

(* A goroutine reads from the connection or forwards a stream of it, which *)
(* ends at the latest with the session; or one can run that has or wants   *)
(* its mutex, or belongs to its StreamManager.                             *)
Moves(c) ==
    \/ Reader(c) \/ streams[c] > 0
    \/ \E th \in Threads : WantsLock(th, c) /\ CanWrite(c, th)
    \/ acceptor[c] = "loop" \/ (acceptor[c] = "enter" /\ CanRead(c))
    \/ pinger[c] = "wait"

(* The mutexes cannot deadlock, although Stop and reconnectLoop keep c.mu  *)
(* while they wait for goroutines that wait for the Connection's mutex:    *)
(* the connection that c.mu is kept for, and every one that a writer waits *)
(* for, has somebody who can run or who waits for the network.             *)
NoLockDeadlock ==
    /\ \A c \in Conns : writer[c] # Free => Moves(c)
    /\ loop = "peek" => current = NoConn \/ CanRead(current) \/ Moves(current)
    /\ loop = "drain" \/ stop = "drain" => StreamsDone(current) \/ Moves(current)
    /\ loop = "close" \/ stop = "close" => Moves(current)

(* The client is a ClientLink, with its goroutines and locks hidden: after *)
(* StreamManager.Stop has cancelled, only an Accept that handleStreams is  *)
(* about to call or has called can bring one more stream, and nothing is   *)
(* closed under a stream.                                                  *)
Link == INSTANCE ClientLink WITH
    open <- {c \in Conns : IsOpen(c)},
    used <- {c \in Conns : conn[c] # "none"},
    admits <- [c \in Conns |-> IF ~cancelled[c] THEN "many"
                               ELSE IF acceptor[c] \in {"enter", "accept"} THEN "one"
                               ELSE "none"]

ImplementsLink == Link!Spec

-----------------------------------------------------------------------------
(* Liveness, under FairSpec.                                               *)

(* Auto-reconnect: the client closes a connection that has broken and      *)
(* comes to dial again, although reconnectLoop learns of the breakage only *)
(* from LastPing and waits for the streams with c.mu held.  Whether the    *)
(* server then lets it in is not said.                                     *)
BrokenConnectionRedialled ==
    \A c \in Conns :
        current = c /\ conn[c] = "dead" /\ ~CtxDone
            ~> CtxDone \/ (loop = "dial" /\ conn[c] = "closed")

(* Stop returns, although it waits with c.mu held for goroutines that wait *)
(* for the server.                                                         *)
StopReturns == CtxDone ~> stop = "stopped"
=============================================================================
