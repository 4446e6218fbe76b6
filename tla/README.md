# PicoTunnel in TLA+

TLA+ specifications of PicoTunnel, the TLC configurations that model-check
them, and TLAPS proofs about them. Paths below are relative to `src/`.

PicoTunnel exposes local services through a public server. A client dials the
server over a WebSocket; the server keeps one connection per tunnel, accepts
HTTP requests and TCP connections for the services of that tunnel, and forwards
each of them over a yamux stream of the connection.

## 1. The system

| Component | Source | State | Operations |
|---|---|---|---|
| Tunnel manager | `internal/server/tunnel.go` | `connections` (tunnel id to Connection) under `mu`, wait group, context | `HandleWebSocket`, `registerConnection`, `unregisterConnection`, `handleControlMessages`, `performHealthChecks`, `GetConnection`, `IsConnected`, `ListConnectedTunnels`, `Stop`, `cleanupRoutine` |
| Connection, control protocol | `internal/tunnel/protocol.go` | closed flag, `LastPing`, WebSocket and session under one RWMutex | `Ping`, `Pong`, `SendMessage`, `ReadMessage`, `Accept`, `OpenStream`, `UpdateLastPing`, `Close`; framing in `WebSocketConn` |
| Stream manager | `internal/tunnel/mux.go` | context, wait group, streams | `Start`, `handleStreams`, `pingRoutine`, `Stop`; stream header; `CopyBidirectional` |
| Tunnel client | `internal/client/client.go` | `conn`, `streamMgr` under `mu`, context, wait group | `Start`, `connect`, `reconnectLoop`, `handleControlMessages`, `Stop` |
| Forwarder | `internal/client/forwarder.go` | none | one dial and one copy per stream |
| Management API | `internal/server/api.go` | none of its own; one goroutine per request | create, update and delete of tunnels and services, tokens, statistics |
| Proxy manager, TCP | `internal/server/proxy.go` | `tcpListeners` (address to listener), unguarded | `startTCPListeners`, `AddTCPService`, `RemoveTCPService`, `handleTCPListener`, `handleTCPConnection` |
| Proxy manager, HTTP | `internal/server/proxy.go` | none | `handleHTTP`: choose a service by domain and path, forward |
| Store | `internal/server/store.go` | SQLite tables `tunnels`, `services`, `checks` with foreign keys | rows, uptime statistics, clean-up |
| Server | `internal/server/server.go`, `cmd/server` | the components above | `Start`, `Stop` |
| Client command | `cmd/client` | | start, signal, stop |
| Authentication, TLS, web | `auth.go`, `tls.go`, `web/` | sessions, certificates, assets | not part of the models |

### How they interact

* A client's WebSocket becomes a Connection at each end. At the server its
  HTTP handler registers it in `connections`, replacing (and closing) an older
  one of the same tunnel, starts a control goroutine that reads messages, polls
  once a second whether it is closed, and finally closes and unregisters it.
* The health check pings every registered connection and closes those that
  fail or have been silent; the proxies and the API look connections up.
* All of these meet at two locks: `tm.mu`, and the mutex of each Connection.
  `ReadMessage` and `Accept` keep a read lock of the Connection while they
  block on the network; `Close`, `SendMessage` and `UpdateLastPing` need the
  write lock. `registerConnection` and `Stop` call `Close` with `tm.mu` held.
* The client has the same locks and no health check: `reconnectLoop` gives a
  connection up when `LastPing` is too old, and dials again.
* API requests write service rows and stop and start listeners; creations and
  updates write first, deletions stop the listeners first. Neither the sequence
  nor `tcpListeners` is guarded, and a listener that cannot be started is only
  logged.

### What is hard, and what makes each component correct

* **Tunnel manager.** Handlers of one tunnel overlap after a reconnect; writers
  wait, with `tm.mu` held, for reads of up to 60 seconds; shutdown meets every
  position of every handler. Correct means: an entry always belongs to a handler
  that will remove it; a handler leaves nothing open or blocked; the locks cause
  no deadlock; broken connections leave the map; registration and shutdown
  complete; when `TunnelManager.Stop` has returned, nothing of the manager runs
  but handlers. These do: nobody waits for a handler, so that its last check can
  come when `Server.Stop` has closed the store, which refuses it.
* **Client.** A blocked `Accept` holds the read lock until the *peer* acts, and
  `StreamManager.Stop` waits for it before the connection is closed. Correct
  means: at most one open connection; nothing runs on a closed one; a broken one
  is closed and the client dials again; `Stop` returns.
* **TCP services.** Requests interleave between their database statements and
  their uses of the listener map. Correct means: rows respect their tunnel; a
  deleted service stays deleted; no address is blocked for good; an enabled TCP
  service has its listener unless an error has denied it one, and nothing else listens.
* **Tunnels, tokens and checks.** Requests read a row and write it in another
  statement, checks are stamped and inserted later, the cleanup reads the clock
  and deletes later. Correct means: a token that was replaced stays refused, one
  that was answered works, a deleted tunnel stays deleted and has no checks, and
  the cleanup changes no statistics.
* **Protocol.** `ReadMessage` and yamux read one WebSocket; deadlines set for
  one apply to the other; each frame belongs to either. Correct means that every
  byte of a stream arrives once and in order.
* **Forwarding.** The header precedes the data and is understood, data arrives
  once and in order, a complete answer is not cut although either direction
  closes both connections, and everything is released in the end.
* **HTTP routing.** The most specific enabled service of the domain should
  answer; the code takes the first enabled row of the domain.

`PROJECT.json` lists every hazard at its line under `hazards`.

## 2. The modules

| Module | What it is |
|---|---|
| `TunnelRegistry` | abstract: what the map of connections promises |
| `TunnelManager` | the tunnel manager, the server's side of a Connection, `Server.Stop` |
| `MCTunnelManager` | its instance for TLC |
| `TunnelManagerProofs` | its safety invariants, and that it implements `TunnelRegistry` |
| `ServiceTable` | abstract: what the rows of tunnels and services promise |
| `TcpServices` | the rows of tunnels and services, the listeners, the API requests that change them |
| `MCTcpServices` | its instances for TLC |
| `TcpServicesProofs` | its safety properties, and that it implements `ServiceTable` |
| `TcpSequentialProofs` | that its listeners match the rows when requests come one at a time |
| `ClientLink` | abstract: what the client promises the server of its connections and streams |
| `Client` | the client: reconnecting, stopping, streams, pings, control messages |
| `MCClient` | its instance for TLC |
| `ClientProofs` | its safety invariants, and that it implements `ClientLink` |
| `Relay` | abstract: what the forwarding of a stream promises |
| `Streams` | a stream from `OpenStream` to the local service |
| `MCStreams` | its instance for TLC |
| `StreamsProofs` | its safety invariants, and that it implements `Relay` |
| `TunnelAccess` | abstract: which token opens which tunnel |
| `Management` | tunnels, tokens and checks: API requests, control goroutines, cleanup |
| `MCManagement` | its instance for TLC |
| `ManagementProofs` | its safety properties, and that it implements `TunnelAccess` |
| `Framing` | the two readers of one WebSocket |

Model and code share their names where they can: an action has the name of the
function, or of the part of a function, that it stands for; `map` in
`PROJECT.json` gives the lines. The granularity is that of the locks: a critical
section that cannot block is one action, one that blocks inside is split at the
place where it blocks. Each goroutine has a variable that says where it is.
A definition marked `mutant` is a plausible error in the definition that it is
named after; a property that does not notice it would say nothing.

### TunnelManager

`connections` is `tm.connections`; `conn[c]` is the state of a Connection (`up`,
broken but not closed, closed); `age[c]` is the age of `LastPing`, cut off just
beyond the staleness limit; `hpc`, `cpc`, `healthPc`, `cleanup` and `stop` are the
positions of the HTTP handler, the control goroutine, the health check, the daily
cleanup and `Server.Stop`; `lookup[r]` is a caller of `GetConnection`. `tm.mu` is not a
variable: who holds it follows from the positions (`WriteHeld`, and a lookup that
has started).

The mutex of a Connection is modelled as `sync.RWMutex` works. `ReadMessage`
holds it for reading while `cpc[c] = "reading"`. A goroutine that wants it for
writing meanwhile announces itself (`writer[c]`) and from then on keeps new
readers out; every writer takes the lock and releases it within one action. The
rule matters: `IsClosed` takes the lock for reading, so a pending `Close` blocks
`GetConnection`, which holds `tm.mu` for reading, which blocks the next
registration.

`NetworkDrop` breaks a connection at any time; after that writes and reads
fail, but nobody sets the closed flag. `ReadFails` also covers the read deadline
and a message that yamux took. `EnterRead` takes `IsClosed` and the entry into
`ReadMessage` in one step: a connection that is closed between them fails the read, which
looks at the flag again. The API's deletion of a tunnel does not occur here: it leaves
the connection and the map alone.

Of the store there is only who uses it and when. `UseStore(who)` is a statement; once
`stop` is `storeClosed` it is an error, which every caller logs and nothing more, and
`refused` remembers whose it was. `refused` is a history variable: no step reads it.

*Refinement.* `TunnelRegistry` knows the map, the tunnel of each connection,
which connections are open and which have been in the map. The mapping takes
the first two as they are; `open` is the set of connections that exist and are
not closed, and `entered` is read off the position of the handler. Eviction is
one step there, although `registerConnection` waits in the middle of it: the
map changes, and the old connection is closed, in the same action here too.

### TcpServices

`services[s]` is a row or `NoRow`; `tcpListeners[a]` says whether the entry of
an address is missing, refers to the open listener, or to one that is closed, by
its own failed `Accept` (`failed`) or by `RemoveTCPService` (`dead`); `open[a]`
is what the operating system has listening at the address, with the service and
target that `handleTCPListener` captured. `job[r]` is a request: its next step and
the local variables it carries from one step to the next. A database statement, an
access to the map, and an operation on a socket are one step each. `Restart` ends
the process anywhere and rebuilds the listeners from the rows.

Every statement that writes may fail, and so may every `net.Listen`, at a request or at
a start, whatever the reason; that the server itself has the address open is the one
reason that the model can see. An INSERT or an UPDATE that fails ends the request before it touches a
listener; a DELETE that fails comes after the listener has gone; a failed `net.Listen` is
logged. `unserved` is a history variable, which no step reads: the services that a
failed listen, a failed `Accept` or a failed DELETE has left without a listener, until a
listen succeeds or the row goes.

*Refinement.* `ServiceTable` keeps tunnels, rows and spent ids and has no
requests: each statement of a request is a step of it or a stutter. It allows
rewriting a row only within its tunnel, and removes the services of a tunnel in
the step that removes the tunnel (the cascade of the foreign key).

### Client

`current` is `c.conn` (with `c.streamMgr`, which changes with it); `conn`,
`stale` and `writer` are as above; `cancelled`, `acceptor`, `pinger` and
`streams` describe the StreamManager of a connection; `control[g]` is the control
goroutine started for connection `g` and `reads[g]` the connection it reads,
which need not be `g`, because it takes `c.conn` again before every message.
`loop` and `stop` are `reconnectLoop` and `Stop`. `c.mu` is again implied by
positions. The length of the backoff is left out.

`ServerGivesUp` is the server's side: its health check closes the connection of a
client that no longer answers pings. The client needs it (see fairness).

*Refinement.* `ClientLink` knows which connections are open and which have been,
the number of streams on each, and how many more will be accepted: any number, one,
or none. The mapping reads the last off the context of the StreamManager and the
position of `handleStreams`, which looks at the context once per round and may be past
that look when `StreamManager.Stop` cancels. The link gives a connection up in the step
that cancels and, when no last stream comes, once more in the step in which `Accept`
fails.

### Streams

One stream has three parties: the opener (`OpenStream`, or a proxy's handler),
the client (`handleStreams`, `handleStream`, `HandleStream`, the two copiers of
`CopyBidirectional`), and the local service. `hpc[s]` is the position of the
goroutine of `handleStream`, `inCopy[s]` and `outCopy[s]` those of the two
`io.Copy` calls with the two `Close` calls behind each.

The opener writes a sequence of units: a length, the pieces of the header, a
newline, chunks of data. Since it is determined by the header and the number of
units, only `header[s]` and `sent[s]` are kept, and `UnitOf` says what the i-th
unit is; `pos[s]` counts what the client has read. The length travels in two
bytes, hence modulo `MaxHeader + 1`, and the reader asks for one unit more than it
says (`need`). `given` and `back` are what was written to the service and to the
stream, kept as sequences, because the properties are about their contents.

yamux, TCP and the service are external: queues of at most `Window` chunks,
whose ends may stop, or close, at any time. The session may break at any time;
`lost[s]` is how many of the units that were sent never arrive. A service that
closes its end before it has read everything may have its answer cut by a reset
(`ServiceOver`), and an opener that has closed its end resets the answer
(`OutWriteFails`).

`HandlerPanics` is `wrapStreamWithHeader`: the proxies have opened a stream and
then call `OpenStream` on a Connection made on the spot, which has no session. The
client sees a stream that is closed without a header and, when nothing recovers
the panic, the end of the session.

*Refinement.* `Relay` has, per stream, the number of chunks that each side has sent,
the chunks that the other has been given, and a phase: new, linked, over. `asked`
is the number of data units the opener has sent, header excluded; the phase is read
off `hpc` and `target`. That `Streams` implements it says that the header never
leaks into the data, no chunk is lost in the middle, repeated or reordered by the
copiers, and nothing is forwarded before the dial or after the handler's return.

### Management

`tunnels` and `checks` are the tables. Every SQL statement is one step;
`request[r]` holds what a request has read and not yet written (`updateTunnel`
carries the whole row, of which its UPDATE writes the name only); `serving[g]` and
`stamped[g]` are the tunnel a connection was opened for and the check its goroutine
is about to insert; `cleanup` is the clock as the cleanup has read it. Statements
may fail, the process may restart anywhere, and the clock is monotone. Foreign keys
are on in every connection (they are part of the DSN). `drawn`, `retired` and
`answered` are history variables: the ids and tokens drawn at random, which never repeat, the tokens
that rows have lost, and the tokens that requests have answered.

*Refinement.* `TunnelAccess` keeps only which token opens which tunnel, and the ids and
tokens that are spent. A rename is a stutter of it, although `updateTunnel` carries the
token of the row it has read; a token drawn for a tunnel that has gone is wasted.

### Framing

One end of a WebSocket: messages on their way, `WebSocketConn.reader`, the session
of yamux above it and the control goroutine beside it. gorilla/websocket (v1.5.3)
and yamux (v0.1.2) are external: a message reader returns `io.EOF` at the end of
its message, or once another message has been begun; yamux's receive loop ends
the session on any error. Each call is one step. By this model a session ends
after its first message; the other modules take a session that works until
it breaks, which includes this.

### How they compose

`TunnelManager` and `Client` each take the other end as an environment:
`ServerGivesUp` in `Client` is the health check of `TunnelManager`. `Client` assumes
that a stream of a broken session ends (`StreamEnds`), which is what
`EndedStreamsReleased` shows of `Streams`. `Management` and `TcpServices` share the
table of tunnels: deleting a tunnel is atomic in both, with the cascade to checks in
the one and to services in the other. `Management` and `TunnelManager` share
the goroutines that record checks and the cleanup: `OnlyHandlersOutliveStop` is about who
may still use the store when it is closed, `ChecksHaveTunnels` and `CleanupKeepsStats`
about what they write.

## 3. The runs

| Run | Question | Bounds |
|---|---|---|
| `tunnel_safety` | do map, locks and goroutines agree; can the mutexes deadlock; when is an open connection lost from the map; who outlives `Stop`; is the map a `TunnelRegistry` | 2 connections, 2 tunnels, 1 lookup, breakage, cleanup, stop |
| `tunnel_live` | do broken entries leave the map, do registrations complete | 2 connections of 1 tunnel, breakage, time |
| `tunnel_shutdown` | does `Stop` end | 2 connections of 1 tunnel, cleanup, stop at any time |
| `tunnel_lookup` | is a served tunnel connected | 2 connections of 1 tunnel; violated |
| `tcp_races` | rows, revival and dead entries under concurrent requests; are the rows a `ServiceTable` | 2 requests, 2 services, 2 addresses, 1 tunnel, restart, failing statements, listens and accepts |
| `tcp_sequential` | do listeners match rows when requests come one at a time, whatever fails | 1 request, 2 services, 3 addresses (two for one service), 2 tunnels, HTTP and TCP, restart, failing statements, listens and accepts |
| `tcp_lost` | is every open listener in the map | 2 requests, 2 services, 2 addresses, failing statements and listens; violated |
| `client_safety` | connections, locks and goroutines of the client; can its mutexes deadlock; is it a `ClientLink` | 2 dials, 1 stream each, breakage, stop |
| `client_live` | is a broken connection closed and the next one dialled, does `Stop` return | 1 dial, 1 stream, breakage, stop |
| `streams` | is the header understood, is a complete answer delivered, is everything released; is it a `Relay` | 1 stream, 3 headers, 3 chunks each way, window 2 |
| `management` | do tokens, deletions, checks and statistics stay right under concurrent requests and crashes; are the tokens a `TunnelAccess` | 2 requests, 2 ids, 2 names, 3 tokens, 1 goroutine, 2 checks, 3 ticks |
| `framing` | does the byte stream of yamux end only with the connection | messages of 1 or 2 pieces, 2 on their way; violated |

### Why these bounds

*Two connections* are what the interesting cases need: one of a tunnel that is
replaced by another, or two of different tunnels that meet at `tm.mu`. A third
would only wait in the same queues; the safety results are proved for any number
anyway. `StaleAfter = 0` makes a connection stale at the first tick; the safety
run leaves ticks out, because there the health check is free to find a broken
connection by its failed ping, and the liveness run has them. *Two requests* are what
a race needs; ids are used once, so the number of services bounds the number of
creations. `client_live` has one connection: after it has been given up every
later dial fails. So the run shows that the loop closes a broken connection and comes to
dial again, not what becomes of the second connection; `client_safety` has two.

`streams` has one stream because streams share nothing but the session. Its three
headers are one that is handled, one that is a piece too large for the two length
bytes (`MaxHeader = 2`), and one of a type without handler; the largest header
that fits is the first one, so that the reader's length plus one
is exercised at its limit. Three chunks with a window of two let a writer be blocked
and a chunk still be behind it. `management` has a second id and a third token so that
an id can be deleted while another is created and a token replaced twice; three
values of the clock, the windows 0 and 1 and `Retention = 1` let a check be inside one
window, inside the other only, and old enough to be removed.

Symmetry (of connections, tunnels, requests, services with their addresses, or ids, names
and tokens) is used in safety runs
only. Deadlock checking is off where the system really comes to rest: a server without
work that is not being stopped, a service table whose ids are all spent and
whose tunnels are deleted, streams whose handlers have returned, a WebSocket whose
readers have ended.

### Fairness

Goroutines that can run do run (weak fairness). Where a goroutine waits for a
lock that others keep taking, fairness is strong, because `sync.RWMutex` starves
nobody: new readers wait behind a pending writer, and the readers that wait are
let in after each writer. It is strong for the return of `cleanupRoutine` too: with a
tick and the cancelled context both ready, `select` chooses at random, and does not choose
the tick for ever. A server-side `ReadMessage` has a 60 s deadline, so
its failure is a step of the control goroutine like any other. `Tick` and
`GrowStale` are fair: time passes. A stream of a broken session ends, because
both of its copies fail. Nothing else is assumed of clients, of the network, of
the signal that stops a process, of messages or of streams: no stream of a
working session has to end, and no message has to arrive.

`Client` needs one assumption more, `WF(ServerGivesUp)`: `Stop` waits for
`handleStreams`, which blocks in `Accept` until the session ends, and `Stop`
closes the session only afterwards. On an idle and healthy connection it is the
server that ends the wait, when the client's control goroutine, which sees the
cancelled context, has stopped answering pings. Without this assumption TLC finds
`StopReturns` violated. The server's health check justifies it (`tunnel.go:301`).

In `Streams` the handler's goroutine and the copiers run, and the dial ends, because
it has a timeout of 10 s. The ends of an open stream keep reading (`ServiceReads`,
`OpenerReads`), but owe neither an answer nor an end. Something like this is
needed: `io.Copy` has no deadline, so a service that stops reading without closing
its end blocks a copier for as long as it likes. `Management` has no
liveness property and no fairness.

## 4. What is proved

All proofs hold for every value of the constants that satisfies the module's
`ConstantsAssumption`, which asks only that the special values are not members
of the sets they complete, and that the parameters have their types.
`ManagementProofs` and `TcpSequentialProofs` use more, named below.

**TunnelManagerProofs**: `TypeOK`, `EntriesOwned`, `HandlerLeavesNothing`,
`ReaderHoldsOpen`, `PendingWriterWaits`, `NoLockDeadlock`,
`LostOnlyByUnregister` and `OnlyHandlersOutliveStop` hold in every reachable state. The
inductive invariant `Inv` is their conjunction, without `NoLockDeadlock`, which follows
from it, and with four facts:

* `HandlerInv`: what the position of a handler says of its connection: when it
  exists, when it is not open, that a handler that evicts has something to evict.
  `HandlerLeavesNothing` needs it, since the last steps of a handler only make
  sense if the connection was closed in the step before.
* `StopTarget`: the connection that `Stop` waits for is in the map and still open.
  `PendingWriterWaits` needs it: otherwise `Stop` could go on and abandon its
  pending lock.
* `OneStopWriter`: `Stop` waits for one connection at a time.
* `TmExclusive`: `tm.mu`, whose holders are read off the positions, keeps evictions,
  `Stop` and lookups apart. It follows from the guards and is not a property of its own.

Two facts carry the argument. An entry is written only by a registering handler
with its own connection, so it stays owned until that handler unregisters. And
nobody closes a connection while its read lock is held, so a blocked reader
has an open connection. `NoLockDeadlock` is what they come to: if nobody is blocked in
`ReadMessage`, which its deadline ends, then a pending writer finds no reader and can
run, and without a pending writer every lookup and whoever holds `tm.mu` can.
`OnlyHandlersOutliveStop` rests on what the wait group counts: the two routines of `Start`
and the control goroutines, not the handlers. A handler that comes to `handleConnection`
after `Stop` has returned still starts a control goroutine, which ends at its look at the
context; and the handler's own check may be one that the closed store refuses.
`LostOnlyByUnregister` limits the defect of section 5: a connection that is open and
served is missing from the map only if the handler of another connection of its tunnel has returned
(it does not say that this handler returned after the other had registered); eviction, which also takes entries away, closes what it evicts.

`RegistryImplemented` shows from the same invariant that
every step is one of `TunnelRegistry` or a stutter; eviction is the step that needs
it, because the connection that is evicted must be the one in the map.

**TcpServicesProofs**: `TypeOK`, `ServicesHaveTunnels` and `ClosedEntriesDropped`
are invariants and `NoRevival` holds of every step. The inductive invariant adds:
ids are used once (`IdsUsed`); the id a creation is about to insert has no row and
belongs to no other request (`InsertsAreNew`); an update writes back a row of the
tunnel the service still has (`WritesKeepTunnel`); each step has the data it needs
(`StepsHaveData`); no request closes a listener that another is about to enter in
the map (`FreshListenersLive`). `WritesKeepTunnel` is the heart of it: a row never changes
its tunnel, so the stale copy that `updateService` writes back cannot break the
foreign key, and the UPDATE of a deleted row changes nothing. `TableImplemented` is
the refinement of `ServiceTable`.

**TcpSequentialProofs**: `ListenersMatchRows`, under the hypothesis `Sequential`: one
request at a time, and services with addresses of their own, which is also the instance of
`tcp_sequential`. Both parts are needed. `tcp_lost` shows what two requests do; and two
services of one address share a listener, which the removal of either closes. Whatever
statement, `net.Listen` or `Accept` fails is included, and so are restarts at any step of a
request and an update that moves a service, disables it, or enables it. What the property
then says of a service in `unserved` is that nothing listens for it; of every other
enabled service, that its own listener is open and in the map; and of a
disabled, moved or deleted one, that nothing listens for it. The inductive invariant (`SeqInv`)
follows every address through the request: its service is in the hands of the request
(`Held`) from the statement that makes rows and listeners differ to the step that makes
them agree, and then the address is free, or about to be closed or opened (`AddrHeld`); or
it is as the row and `unserved` say (`Settled`). A failed `Accept` moves an address
from served to broken under any request, and a failed DELETE leaves the address free that
the request has just freed. `CopyFits` is what makes `updateService` right: the row
that it carries is the row of the table, and a change of anything that decides whether and
where there is a listener has set `restart`.

**ClientProofs**: `TypeOK`, `OneOpenConnection`, `ClosedLeavesNothing`,
`ReaderHoldsOpen`, `PendingWriterWaits` and `NoLockDeadlock`. The strengthening: a connection whose
goroutines have not been started is in the hands of `connect` (`FreshWhere`); an open
connection is the current one, or has been dialled and not yet published
(`OpenWhere`); a connection is closed only when its stream manager has come to rest
(`DrainedFirst`); of the loop and `Stop` at most one stops the streams, and it has a
connection to stop (`Stopping`); what a goroutine refers to has been dialled
(`Dialled`). `OneOpenConnection` is not inductive without them: that the loop dials only
when it has nothing open is a fact about the loop's position. `NoLockDeadlock`
follows from the invariant: a pending writer of a connection runs when its readers are gone,
and without one nothing keeps the goroutines that `StreamManager.Stop` waits for.
What it leaves is the wait for the network that the code has: an `Accept` that only the peer
ends, with `c.mu` held; that it ends is liveness (`StopReturns`).

`LinkImplemented` is the refinement of `ClientLink`. Dialling maps to `Connect` because
of `OpenWhere`, closing to `Close` because of `DrainedFirst`; and when `reconnectLoop`,
past its look at the context, stops a connection that `Stop` has closed already, its
steps are stutters because `DrainedFirst` also says that such a connection is cancelled.

**StreamsProofs**: `TypeOK`, `HeadersUnderstood`, `HandlerReleases`,
`AnswerComplete`, and `RelayImplemented`. The inductive invariant has five
parts: what the opener's state says of its header (`Headed`); what each position of
the handler says of the copiers and the target (`Handling`); how `pos`, `given` and
`back` count each other, with the one chunk that a copier holds between its read and its
write (`Counting`); that a closed connection was closed for a reason, an end of the
request or of the answer (`Ending`); and that at each position the client is as
far in the header as it believes (`Understood`). `AnswerComplete` rests on
`Counting` and `Ending`: the copier of the answer only stops of itself when it has delivered
all, and the other one closes under it only when the opener has ended.

**ManagementProofs**: `TypeOK`, `RetiredTokensRejected`, `AnsweredTokensWork`,
`ChecksHaveTunnels`, `DeletedTunnelsStayDeleted` and `CleanupKeepsStats`. The
strengthening: every token and id in use or retired has been drawn, no two rows share a
token (`DrawnOnce`); what requests and goroutines remember is an id that was drawn
(`KnownIds`); the cleanup has read the clock before now (`CleanupStarted`).
`CleanupKeepsStats` needs `RetentionAssumption`: no window of the statistics is
longer than the retention, as in the code (1, 7 and 30 days against 180).
`AccessImplemented` is the refinement of `TunnelAccess`.

**Model-checked only.** All liveness properties, which are beyond the proof system:
`BrokenEntryLeaves`, `RegistrationCompletes`, `ShutdownCompletes`,
`BrokenConnectionRedialled`, `StopReturns`, `EndedStreamsReleased`. TLC's deadlock check
says of the instances that somebody can always take a step; `NoLockDeadlock` is what of it
can be proved, since it does not mention ENABLED. Every invariant, action property and
refinement that a passing run checks is proved.

## 5. Where code and text disagree

Each of these is a run that TLC ends with a counterexample.

* `tunnel_lookup`: `unregisterConnection` deletes the entry of its tunnel without
  looking whose connection it holds. When a client reconnects, the handler of the
  replaced connection removes the entry of the new one: the tunnel works and is
  "not connected". Such a connection is in no later snapshot of the health check
  either, so that when it breaks nobody closes it and its handler stays.
* `tcp_lost`: between `Close` and `delete` in `RemoveTCPService` another request
  can open the same address again; the delete removes its entry, and the listener
  can never be closed.
* `framing`: `WebSocketConn.Read` hands on the `io.EOF` that ends one message.
  yamux takes it for the end of the connection and ends its session, after
  its first message or when `ReadMessage` begins the next one.

The models also follow the code where it does the following, which no run states as
a property:

* A service whose listener could not be opened, or whose DELETE failed after its listener
  was closed, is enabled in the table with nothing listening, until a request or a start
  opens one (`proxy.go:221`, `api.go:440`, `api.go:207`).
* A handler that is still on its way when `Server.Stop` closes the store loses its check
  (`server.go:203`).
* `deleteTunnel` lists the services once; a service created after that keeps its
  listener when the cascade has deleted its row (`api.go:194`).
* An update of only the target address does not restart the listener, which goes
  on forwarding to the old target (`api.go:394`).
* `connect` does not look at the context: a `Stop` during a dial returns and leaves
  the new connection open (`client.go:128`).
* `wrapStreamWithHeader` opens a stream on a Connection without a session, which is
  a nil dereference for every forwarded request (`proxy.go:296`).
* `updateTunnel` without a name writes back the name it has read, and so undoes a
  rename in between (`api.go:176`).
* `regenerateToken` of a tunnel that was deleted meanwhile answers a token that opens
  nothing (`api.go:231`).
* A connection outlives the token and the tunnel it was opened with.

## 6. What is not modelled

* *Authentication* (its logic is in the OIDC library), *TLS configuration* and *web
  assets* have no state of their own that changes.
* yamux's *write timeout*: a frame that cannot be sent for 10 s fails its `Write` although
  the session stays. In `Streams` a write fails only because an end, or the session, has
  closed, so that a copier whose write times out is covered only as far as its closes are
  those of a broken session.
* The *deadlines* that the control goroutine sets on the WebSocket and that yamux's
  reads and writes inherit; the writes of `SendMessage` and `WebSocketConn.Write` to one
  WebSocket under different locks (`protocol.go:103` and `:219`).
* The *choice of a service* in `handleHTTP`: one SELECT of the first enabled row of the
  domain and a comparison of prefixes. The `ORDER BY` and `LIMIT` of the store.
* The *visitor's side* of `handleTCPConnection` and `handleHTTP`: the code
  panics before the copy begins, so that only the stream's fate is modelled.
* The *shutdown of the HTTP servers* that precedes `TunnelManager.Stop` appears
  as an assumption: no handler starts after it.
* SQLite compares `created_at` as text in the local offset; the models have one clock.
* The lengths of backoffs and tickers.

## 7. Plan

In this order:

1. `Heartbeat`: both ends of the control protocol composed, with the intervals of
   pings, deadlines and staleness; is a healthy idle tunnel ever dropped
   (`README.md:97`). It would discharge `ServerGivesUp`, and take in the deadlines that
   yamux inherits.
2. `Routing`: `handleHTTP`'s choice of a service as a function, against a reference
   definition over bounded inputs.
3. Two sessions of `Streams` end to end: the visitor's copy composed with the
   client's, once the header can be sent.
4. The order of checks: the up check of a ping can follow the down check of the
   disconnection.
