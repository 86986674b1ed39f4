# gominion: TLA+ models

These TLA+ modules model gominion, an OpenNMS Minion written in Go. The
repository's `src/` holds the gRPC broker client (`src/api/config_test.go`,
lines 66-376, package `broker`), the configuration types (`src/api/config.go`),
the NX-OS telemetry Sink module (`src/sink/nxos-grpc.go`), the root command
(`src/unnamed/part_000`) and the module interfaces (`src/unnamed/part_001`).
`spec.md` describes the wider system, including parts whose code is not under
`src/`: the Kafka transport, the registries and the chunking codec.

## 1. Inventory

### Components, their state and operations

| Component | Source | State | Operations |
|---|---|---|---|
| gRPC broker client `GrpcClient` | config_test.go 92-376 | `conn`, `sinkStream`, `rpcStream`, `sinkMutex`, `rpcMutex` | `Start`, `Stop`, `Send`, `initSinkStream`, `initRPCStream` (which spawns the RPC handler and the supervisor goroutine), `sendMinionHeaders`, `processRequest` (which spawns a worker), `sendResponse`, `getTransportCredentials` |
| Root command | part_000 | `minionConfig`, `listeners` | `initConfig` (viper), `rootHandler`: `IsValid` → `ParseListeners` → `GetBroker` → `Start` → wait for SIGINT → `Stop` |
| Configuration | config.go | `MinionConfig`, `MinionListener` (read-only after start) | `GetParser`, `GetListener`, `IsValid`, `String` |
| NX-OS Sink module | nxos-grpc.go | `server`, `port`, `broker`, `config` | `Start` (listener lookup, gRPC server, `Serve` goroutine), `Stop`, `MdtDialout` (one goroutine per device session, calls `Send`) |
| Module interfaces | part_001 | none | `Broker.Send`, `SinkModule`, `RPCModule`, collectors, detectors, monitors |
| Registries, Kafka transport, chunking | not under `src/` | spec §4.1, §4.3, §4.5 | Register/Get, produce/consume, chunk and reassemble |

### How they interact

* The Sink modules call `Send` from their own goroutines: one per NX-OS
  `MdtDialout` session, one per UDP listener worker. Every caller shares
  `cli.sinkStream`, and `sinkMutex` serialises the writes. The check at
  line 195, however, reads the stream and the connection state without
  the mutex.
* `initRPCStream` runs under `rpcMutex`. It closes the old RPC stream, opens
  a new one and starts two goroutines. The handler sends the Minion headers
  and loops on `cli.rpcStream.Recv()`. The supervisor waits for the
  stream's context to end and then calls `initRPCStream` every second until
  a call succeeds.
* The handler calls `processRequest`, which starts a worker goroutine per
  request. The worker runs `Execute` and writes the response with
  `sendResponse` under `rpcMutex`.
* `rootHandler` (main goroutine) runs `Start`, blocks until SIGINT and runs
  `Stop`. `Stop` stops the modules, calls `CloseSend` on both streams
  without their mutexes and closes the connection. The process then exits.

### What is hard

* Unprotected reads of `cli.sinkStream` and `cli.rpcStream` are used after
  another goroutine may have replaced them or set them to nil. This
  happens at lines 195/205, 259/262, 330 and 363/365.
* Connection failures, server-side stream ends and reconnection change
  the connection state independently of every goroutine.
* A chain of supervisors: each successful `initRPCStream` starts a new
  supervisor, and the one that made the call must return.
* Error paths: a non-EOF `Recv` error (line 269), a failed
  re-initialisation that leaves a stream nil, and a Send failure that is
  never recovered.
* Shutdown: `CloseSend` and `conn.Close` happen while workers and senders
  may still be writing.

### What makes each component correct

* Broker client: no goroutine dereferences a nil stream. Writes never go
  to a stream that has been discarded. A broken stream is replaced: RPC
  eagerly by the supervisor, Sink lazily by the next Send. Only one
  supervisor and only one receiver exist per stream. Every request queued
  on a live stream is read. Expired requests are not executed. The
  headers are the first message on every RPC stream.
* NX-OS module: a session handler returns when its session ends. `Stop`
  is safe whether or not `Start` enabled the module.
* Configuration: `GetParser` returns the last dotted segment. `GetListener`
  returns the first listener with that name. `IsValid` rejects an empty
  ID, Location or BrokerURL, in that order.

## 2. Plan

1. **GrpcClient** (done in this sitting): the broker client, with the main
   goroutine, Sink callers, RPC handlers, supervisors, workers and the
   environment (server and network). It is modelled first because every
   message of the agent passes through it.
2. **GrpcClient, second pass** (done): `HeadersFirst`, under which the
   Minion headers are the first message on every RPC stream (line 365), and
   `NoCloseDuringWrite`, under which `Stop`'s `CloseSend` is never
   concurrent with a write (lines 177, 180). Both are violated (runs
   hdrfirst, stopclose).
3. **NxosGrpc** (done): Start/Stop and the `MdtDialout` session loop. The
   broker's `Send` is one step, because the module discards its result.
   Liveness: `DataForwarded` (passes) and `StopEndsSessions` (violated at
   nxos-grpc.go line 78).
4. **Config** (done): `GetParser`, `GetListener` and `IsValid` as
   operators, checked over bounded strings against reference definitions.
5. **Minion** (done, inside GrpcClient): rootHandler's checks before
   `Start` are the action `Validate`, and each check's error is fatal.
6. **Abstract broker** (done for requests): BrokerRpc, and the refinement
   `ImplementsBrokerRpc`. The Sink side has no abstract counterpart:
   Send's promise (deliver or return an error) is the same step in both
   levels.
7. Spec-modelled: chunk reassembly (§4.3) as a RECURSIVE operator checked
   against a reference over bounded payloads.
8. **Send liveness** (dropped): with `InitSinkStream` atomic and
   `SendDone` always unlocking, "every Send returns" only restated line 206.
   What could really block a Send, `sinkStream.Send` stalled by flow
   control while it holds sinkMutex, depends on the server alone. The
   unlock on the error path is now a `TypeOK` conjunct (only a caller
   inside `sinkStream.Send` holds sinkMutex across steps).
9. **rpcMutex write window** (done): `sendResponse` holds `rpcMutex` from
   line 364 until `Send` returns, so the response write is two steps,
   `RespondLocked` and `RespondDone`. `NoWriteOnReplacedStream` now covers
   both sides (checked by sink and rpc), and stopclose shows `Stop`'s
   unlocked `CloseSend` on the RPC stream racing a response write.
10. **When the supervisor wakes** (done): line 280 waits on the stream's
   `Context()`, which grpc-go cancels only when the stream is *finished*:
   a `Recv` has returned its end, or the ClientConn is closed. A transport
   failure alone does not cancel it. `rpcDone` records this. It is set by
   `RecvEOF` and `CloseConn`, and `SupWake` waits on it. The model
   previously woke the supervisor as soon as the stream ended, which let
   a new stream appear while the old handler was between two `Recv` calls,
   and so produced a two-receiver trace that the code cannot produce. That
   property (`SingleReceiver`) and its run are gone. With the wake
   modelled faithfully, run supstuck shows the opposite problem: after a
   drop the supervisor can wait for ever. Lines 259 and 262 are now two
   steps, `Check` and `RecvCall`, since each reads `cli.rpcStream`.

Still open: chunk reassembly (item 7) needs a run of its own, and the project
keeps at most twelve. The missing expiration check (line 343) would
need a violation run of its own, which the same limit rules out. It is
recorded as a hazard and in the findings paragraph below.

## 3. Modules

### GrpcClient.tla

| Code | Model |
|---|---|
| `cli.conn.GetState()` | `conn` ∈ {Idle, Ready, NotReady, Shutdown} |
| `cli.sinkStream`, `cli.rpcStream` | `sinkStream`, `rpcStream`. Streams are numbered in creation order and `Nil` = 0 is the nil interface. |
| stream status | `sinkEnd`/`rpcEnd`: live, EOF (server ended it with OK) or Error (any other status). `sinkClosed`/`rpcClosed`: open, or `CloseSend` by a re-initialisation ("replaced") or by Stop ("stopped") |
| `sinkMutex`, `rpcMutex` | `sinkLock`, `rpcLock`. Of the `rpcMutex` sections only `sendResponse`'s write spans two steps (`rwriting` names the stream it writes to). `sendMinionHeaders` and `initRPCStream` do nothing another goroutine can observe while they hold the mutex, so each is one action guarded by `rpcLock = "free"`. |
| Send | `SendCheck` (line 195), `SendReinit` (196-201), `SendLock` (202-205: lock, read the stream, panic if it is nil), `SendDone` (206-217) |
| initSinkStream / initRPCStream | `InitSinkStream`, `InitRPCStream` (each the mutex guard around an `...Unlocked` body). Opening succeeds exactly when the connection is Ready; on failure the field is nil. |
| handler goroutine | `Header`, `Check` (line 259), `RecvCall` (line 262 re-reads `cli.rpcStream`: nil panics), `RecvRequest` with `ProcessRequest`, `RecvEOF` (finishes the stream, so its `Context()` is done), `RecvError` (the nil dereference at line 272 is a panic) |
| supervisor goroutine | `SupStart` (reads `cli.rpcStream`), `SupWake` (waits for `rpcDone` of the stream it watches: grpc-go cancels `Context()` only when a `Recv` returns the end or the ClientConn closes), `SupRetry` (retry until success, then return) |
| worker goroutine | `Execute` (nil or a response), `Respond` (check at line 363), `RespondLocked` (lock at 364, re-read and start of the write at 365), `RespondDone` (Send returns, unlock at 366) |
| main goroutine | `Validate` (rootHandler's checks before Start), `Dial`, `StartSink`, `StartModules`, `StartRpc`, `Interrupt` (SIGINT), `StopModules`, `CloseRpc`/`CloseRpcSend` and `CloseSink`/`CloseSinkSend` (Stop's nil test at 176/179, then the re-read and `CloseSend` at 177/180), `CloseConn` (conn.Close finishes every stream, so `rpcDone`), `Exit`. Sink callers may start a Send from `StartModules` until the process ends: module goroutines outlive `StopModules` (see nxosstop). |
| server and network | `ServerRequest` (only on a live stream that has sent headers), `ServerEndSink`/`ServerEndRpc`, `ConnDrop` (every open stream ends with Error), `ConnRestore` |

A panic sets `crash`, a `log.Fatalf` sets `mpc = "fatal"` and the end of
`Stop` sets `mpc = "exited"`. After any of them nothing changes
(`Terminated`), so deadlock checking stays on.

Data abstraction: message payloads, metrics, tracing and logging are left
out. A request is a model value with a ModuleId.

### BrokerRpc.tla and the refinement

BrokerRpc is the abstract broker of spec §4.4 for RPC requests. A request is
unsent, queued, running, finished or dropped. `Arrive` names a module,
`Dispatch` runs a registered module or drops the request, and `Finish`
ends the run once. It has no streams, goroutines or failures.

GrpcClient maps onto it with `Abstract == INSTANCE BrokerRpc WITH status <-
[r |-> RequestStatus(r)], module <- reqMod`:
* a request is unsent until the server sends it (`reqAt`);
* it is queued until a handler reads it (`wpc` = none);
* it is then dropped, running (exec, respond, lock) or finished (done).

`ImplementsBrokerRpc == Abstract!Spec` is checked in run `live`.

### MCGrpcClient.tla

MCGrpcClient binds the callers, requests and module ids to model values. It
declares caller/request symmetry, used only by the safety runs.

### NxosGrpc.tla

| Code | Model |
|---|---|
| `module.server` | `server`: nil, created (Listen failed), listening (Serve goroutine not yet running), serving, stopped |
| broker calls `Start`/`Stop` | `mpc`: init, started, failed (Start returned an error), stopped |
| `listener.Port` from `GetListenerByParser` | `port`, chosen in Init from `ListenerPorts` (0 = absent or 0) |
| Start (29-54) | `Start`. `Serve` is the goroutine at 48-52. |
| Stop (57-62) | `Stop`: `server.Stop()` cancels every open session stream and drops what it had buffered |
| MdtDialout (65-89) | `Accept`, then per session `RecvMsg` (71, 80-84), `RecvFail` (72-78: log and continue, a step that changes nothing), `Forward` (85-87) |
| the device | `DeviceSend` (a message whose Data and Errors are each empty or not), `DeviceClose` |

`sent`, `inbox` and `fwd` are history and channel variables: what the device
sent, what the stream still buffers, and which messages reached `Send`.

### Config.tla

Strings are sequences of characters. `Split` is `strings.Split` for a
one-character separator (a fold over the string), `GetParser` takes its last
section, `GetListenerFrom` is the range loop of `GetListener` as a RECURSIVE
operator, and `IsValid` is a CASE in the code's order. The state is the input
(`parser`, `listeners`, `cfg`), chosen in Init; the configuration is
read-only after startup, so `Next` changes nothing. The references are
declarative: the longest dot-free suffix (`FinalSegment`), the least index
with the name, and the first missing field of `Required`.

## 4. Runs

| Run | Bounds | Checks | Result |
|---|---|---|---|
| sink | 2 callers × 2 Sends, 0 requests, 1 drop | TypeOK, NoWriteOnReplacedStream | pass, 132 k states |
| rpc | 0 callers, 2 requests, 2 ends, 1 drop | SingleSupervisor, SupervisorWatchesStream, NoWriteOnReplacedStream | pass, 1.4 M states |
| live | 0 callers, 2 requests, 1 end, 0 drops | RpcStreamRecovers, RequestsReceived, ImplementsBrokerRpc | pass, 109 k states |
| recverr | as rpc | NoPanicOnRecvError | violation: panic at line 272 |
| nilstream | 2 callers, 1 request, 1 drop | NoNilStreamDeref | violation: panic at line 205 (also reachable, with an end: 365, 177, and during Stop 262, 330) |
| failedsink | 1 caller × 2 Sends, 1 drop | NoWriteToFailedSinkStream | violation |
| supstuck | 0 callers, 0 requests, 1 drop | EndedStreamReplaced | violation: the handler leaves at line 259, the supervisor never wakes |
| hdrfirst | 1 request, 1 end, 0 drops | HeadersFirst | violation: a late response is the first message on the new stream |
| stopclose | 0 callers, 1 request, 0 ends, 0 drops | NoCloseDuringWrite | violation: `CloseRpcSend` while a worker is inside `sendResponse`'s `Send` (with a Sink caller added, the shorter Sink trace is reported) |
| nxos (MCNxosGrpc) | 2 sessions × 2 messages, port 0 or set, Listen ok or failing | TypeOK, DataForwarded | pass, 51 k states |
| config (MCConfig) | parsers of ≤ 4 characters over a, b and the dot; ≤ 2 listeners (names may repeat); every pattern of empty required fields | GetParserIsFinalSegment, GetListenerIsFirstMatch, IsValidRequiresFields | pass, 70 k inputs |
| nxosstop (MCNxosGrpc) | 2 sessions × 1 message | StopEndsSessions | violation: handlers loop on `Recv` after Stop |

Why these bounds are enough:

* Two callers are the fewest that can race. One of them passes the check,
  and the other re-initialises or fails.
* One drop ends every stream and makes re-initialisation fail until the
  connection comes back.
* One server-side end exercises the supervisor chain without a failure.
* The sink and RPC sides share only the connection and the lifecycle, so
  each is checked with the other side's workload empty. Checking both at
  once exceeds 85 M states.
* In nxos, two messages per session cover each of the four message kinds
  across the two sessions, including a message that arrives after the
  other session has ended. Both the disabled and the failing Start are
  initial choices.
* The sink and rpc runs check only invariants, so they use caller and
  request symmetry. The live run checks liveness and declares none,
  because symmetry reduction is unsound for liveness.
* Two ends in the rpc run let the supervisor chain reach a third stream
  generation, and two requests let a worker of the first stream still be
  writing when the second is replaced.
* The `live` run excludes drops. With a drop, the code's own panic at
  line 272 (run recverr) kills the process, so the liveness properties
  cannot hold there.

What the violations show is in PROJECT.json "findings". In short:

* A connection failure while the handler waits in `Recv` crashes the
  agent (line 272).
* A Send that races a failing re-initialisation panics (line 205). The
  same unchecked re-read of a stream field panics in sendResponse (365)
  when, after a server-side end and a drop, the supervisor's failed retry
  nils `cli.rpcStream` between the worker's check and its write. It also
  panics in Stop (177) when that retry falls between Stop's test and its
  `CloseSend`. During Stop, `conn.Close` wakes the supervisor, whose
  retry fails, and a handler still at line 262 or 330 panics. Run nilstream reports the shortest of these; narrowing the
  property to one site reaches each of the others.
* A Sink stream broken while no Send was running is never re-created, so
  the agent stops delivering telemetry after any server restart.
* Not a run, because no interleaving is involved: `processRequest`
  never looks at a request's Expiration (line 343), so expired requests
  are executed, against spec §3.
* After a connection drop that the handler notices at line 259 before
  it calls `Recv`, the RPC stream is never reopened. No `Recv` finishes
  the stream, so the supervisor's `Context().Done()` never fires.
* A worker whose response was delayed past a re-initialisation writes it
  to the new stream before that stream's handler sends the headers.
* `Stop` calls `CloseSend` on the RPC stream (and on the Sink stream)
  while a writer holds the stream's mutex and writes to it.
* An NX-OS session handler never returns: after the device closes or
  `Stop` cancels the stream, it calls `Recv` forever.

## 5. Fairness

Every goroutine's steps are weakly fair: the Go scheduler runs every
runnable goroutine. Mutex acquisition (`SendReinit`, `SendLock`) is strongly
fair, because Go's `sync.Mutex` enters starvation mode and hands the lock to
a waiter that has waited for more than 1 ms. The server, the network and the
operator's SIGINT are not fair. The liveness properties are therefore stated
as "... or the client is no longer running".

The goroutines that wait for `rpcMutex` (`Header`, `SupRetry`,
`StartRpc`, `RespondLocked`) keep the weak fairness of their goroutine.
Only workers hold `rpcMutex` across steps, each at most once, and the
requests are finite, so the mutex is eventually free for good and weak
fairness suffices. In the code, the same starvation mode guarantees it.

In NxosGrpc, `Start`, the `Serve` goroutine and every session handler are
weakly fair. The devices and `Stop` are not. A `RecvFail` step changes
nothing, so fairness does not force it, and the handler that takes it
stays in its loop for ever: this is what run nxosstop shows.

## 6. Not modelled

* Metrics, tracing, logging and the TLS file reading in
  `getTransportCredentials` are left out. Its errors are the "fatal"
  outcome of `Dial`.
* `initConfig`/viper loading is pure I/O. `MinionConfig.String` is JSON
  formatting.
* In NxosGrpc, `wrapMessageToTelemetry` and `sendBytes` are not under
  `src/`. They are taken to succeed, and the broker's `Send` is one step,
  because the module discards its result.
* The Kafka transport, the registries and the chunking codec are not
  under `src/`.
* `sinkStream.Send` always returns. grpc-go can block it under flow
  control while it holds `sinkMutex`, but only when the server stops
  reading, which is the environment's choice.
* Data races on interface values are modelled as atomic reads of the old
  or the new value. A torn read, which Go's memory model also permits, is
  not modelled.
