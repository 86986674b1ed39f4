----------------------------- MODULE GrpcClient -----------------------------
(***************************************************************************)
(* The gRPC broker client of gominion (type GrpcClient, package broker).   *)
(*                                                                         *)
(* One connection carries two streams: the Sink stream, written by every   *)
(* Sink module goroutine through Send, and the RPC stream, on which a      *)
(* handler goroutine sends the Minion headers and receives requests, and   *)
(* request workers send responses.  A supervisor goroutine per RPC stream  *)
(* waits for the stream's context to end and re-creates it.  The main     *)
(* goroutine runs Start, waits for SIGINT and runs Stop.                   *)
(*                                                                         *)
(* Streams are numbered in creation order; Nil (0) is the nil interface.   *)
(* The server and the network are the environment: they queue requests    *)
(* on registered streams, end streams, and drop and restore the            *)
(* connection.  A nil dereference in any goroutine is a panic: the        *)
(* process dies, recorded in crash.                                        *)
(***************************************************************************)
EXTENDS Integers, Sequences, FiniteSets, Functions

CONSTANTS
  SinkCallers,  \* goroutines of Sink modules that call Send
  MaxSends,     \* Send calls per caller
  Requests,     \* RPC request ids the server may send
  Modules,      \* ModuleIds with a registered RPC module
  ModuleIds,    \* ModuleIds a request may name
  MaxEnds,      \* streams the server may end
  MaxDrops      \* connection failures

ASSUME /\ MaxSends \in Nat /\ MaxEnds \in Nat /\ MaxDrops \in Nat
       /\ Modules \subseteq ModuleIds

Nil == 0
\* One Sink stream at Start and at most one re-initialisation per Send.
MaxSinkStreams == 1 + Cardinality(SinkCallers) * MaxSends
SinkIds == 1 .. MaxSinkStreams
\* One RPC stream at Start and one more after each end of a stream.
MaxRpcStreams == 1 + MaxEnds + MaxDrops
RpcIds == 1 .. MaxRpcStreams
NoModule == "none" 

\* How a stream ended: "EOF" is a server-side end with status OK, "Error"
\* any other status (transport failure, cancellation).
EndKinds == {"live", "EOF", "Error"}
\* CloseSend by a re-initialisation ("replaced") or by Stop ("stopped").
CloseKinds == {"open", "replaced", "stopped"}
Crashes == {"none", "sink_nil", "recv_nil", "loop_nil", "hdr_nil", "resp_nil",
            "stop_nil"}

VARIABLES
  mpc,          \* main goroutine: rootHandler, Start, Stop
  conn,         \* connectivity state of cli.conn
  drops, ends,  \* environment counters
  crash,        \* the panic that killed the process, or "none"
  sinkStream,   \* cli.sinkStream
  sinkCount,    \* Sink streams created
  sinkEnd,      \* [SinkIds -> EndKinds]
  sinkClosed,   \* [SinkIds -> CloseKinds]
  sinkLock,     \* holder of cli.sinkMutex, or "free"
  cpc,          \* [SinkCallers -> pc of the Send call]
  sends,        \* Send calls made by each caller
  writing,      \* stream a caller's sinkStream.Send is writing to
  sinkFailed,   \* streams on which a sinkStream.Send returned an error
  rpcStream,    \* cli.rpcStream
  rpcCount,     \* RPC streams created
  rpcEnd,       \* [RpcIds -> EndKinds]
  rpcClosed,    \* [RpcIds -> CloseKinds]
  rpcDone,      \* [RpcIds -> BOOLEAN]: the stream's Context() is done
  rpcLock,      \* holder of cli.rpcMutex across a response write, or "free"
  rpcOut,       \* messages the server received on each RPC stream
  queue,        \* requests the server sent on each RPC stream, not yet read
  hpc, hon,     \* RPC handler goroutine spawned by init n: pc, stream in Recv
  vpc, von,     \* supervisor goroutine spawned by init n: pc, stream watched
  reqAt,        \* stream a request was sent on, or Nil
  reqMod,       \* ModuleId of each sent request
  wpc,          \* worker goroutine of each request
  rwriting      \* stream a worker's rpcStream.Send is writing to

sinkVars == <<sinkStream, sinkCount, sinkEnd, sinkClosed, sinkLock, cpc,
              sends, writing, sinkFailed>>
rpcVars == <<rpcStream, rpcCount, rpcEnd, rpcClosed, rpcDone, rpcLock, rpcOut, queue,
             hpc, hon, vpc, von>>
reqVars == <<reqAt, reqMod, wpc, rwriting>>
vars == <<mpc, conn, drops, ends, crash, sinkVars, rpcVars, reqVars>>

MainPcs == {"validate", "dial", "startSink", "startModules", "startRpc", "running",
            "stopModules", "closeRpc", "closeRpcSend", "closeSink",
            "closeSinkSend", "closeConn", "exit",
            "exited", "fatal"}

TypeOK ==
  /\ mpc \in MainPcs
  /\ conn \in {"Idle", "Ready", "NotReady", "Shutdown"}
  /\ drops \in 0..MaxDrops /\ ends \in 0..MaxEnds
  /\ crash \in Crashes
  /\ sinkStream \in {Nil} \cup SinkIds /\ sinkCount \in 0..MaxSinkStreams
  /\ sinkEnd \in [SinkIds -> EndKinds] /\ sinkClosed \in [SinkIds -> CloseKinds]
  /\ sinkLock \in {"free"} \cup SinkCallers
  /\ cpc \in [SinkCallers -> {"idle", "reinit", "lock", "sending"}]
  /\ sends \in [SinkCallers -> 0..MaxSends]
  /\ writing \in [SinkCallers -> {Nil} \cup SinkIds]
  /\ sinkFailed \subseteq SinkIds
  /\ rpcStream \in {Nil} \cup RpcIds /\ rpcCount \in 0..MaxRpcStreams
  /\ rpcEnd \in [RpcIds -> EndKinds] /\ rpcClosed \in [RpcIds -> CloseKinds]
  /\ rpcDone \in [RpcIds -> BOOLEAN]
  /\ rpcLock \in {"free"} \cup Requests
  /\ rpcOut \in [RpcIds -> Seq({"hdr", "resp"})]
  /\ queue \in [RpcIds -> Seq(Requests)]
  /\ hpc \in [RpcIds -> {"none", "hdr", "check", "call", "recv", "done"}]
  /\ hon \in [RpcIds -> {Nil} \cup RpcIds]
  /\ vpc \in [RpcIds -> {"none", "start", "wait", "retry", "done"}]
  /\ von \in [RpcIds -> {Nil} \cup RpcIds]
  /\ reqAt \in [Requests -> {Nil} \cup RpcIds]
  /\ reqMod \in [Requests -> ModuleIds \cup {NoModule}]
  /\ wpc \in [Requests -> {"none", "exec", "respond", "lock", "writing", "done",
                            "dropped"}]
  /\ rwriting \in [Requests -> {Nil} \cup RpcIds]
  \* a goroutine inside a stream call holds a stream, never nil
  \* sinkMutex is held across steps only by a caller inside sinkStream.Send
  /\ sinkLock # "free" => cpc[sinkLock] = "sending"
  /\ \A c \in SinkCallers : cpc[c] = "sending" => writing[c] # Nil
  /\ \A h \in RpcIds : hpc[h] = "recv" => hon[h] # Nil
  /\ \A r \in Requests : wpc[r] = "writing" => rwriting[r] # Nil

-----------------------------------------------------------------------------
(* The process runs until rootHandler returns, log.Fatalf exits or a       *)
(* goroutine panics.                                                       *)
Alive == crash = "none" /\ mpc \notin {"exited", "fatal"}

\* Panic of the goroutine taking the step: nothing else changes, ever.
Panic(reason) ==
  /\ crash' = reason
  /\ UNCHANGED <<mpc, conn, drops, ends, sinkVars, rpcVars, reqVars>>

\* cli.registry.StartModules has run: module goroutines may call Send until
\* the process ends, during Stop included (NxosGrpc's sessions outlive it).
ModulesStarted ==
  mpc \in {"startRpc", "running", "stopModules", "closeRpc", "closeRpcSend",
           "closeSink", "closeSinkSend", "closeConn", "exit"}

\* The stream the last Send or init created on each side, if any.
Created(n, count) == n \in 1..count

-----------------------------------------------------------------------------
(* initSinkStream: under sinkMutex, CloseSend the old stream and open a    *)
(* new one; on error cli.sinkStream is left nil.                           *)
SinkOpened == conn = "Ready" /\ sinkCount < MaxSinkStreams

InitSinkStreamUnlocked ==
  /\ sinkClosed' = IF sinkStream = Nil THEN sinkClosed
                   ELSE [sinkClosed EXCEPT ![sinkStream] = "replaced"]
  /\ sinkStream' = IF SinkOpened THEN sinkCount + 1 ELSE Nil
  /\ sinkCount' = IF SinkOpened THEN sinkCount + 1 ELSE sinkCount

InitSinkStream ==
  /\ sinkLock = "free"
  /\ InitSinkStreamUnlocked

(* initRPCStream: under rpcMutex, CloseSend the old stream and open a new  *)
(* one; on success spawn its handler and its supervisor.  The supervisor's *)
(* pc is set by the caller, which may itself be a supervisor.              *)
RpcOpened == conn = "Ready" /\ rpcCount < MaxRpcStreams

InitRPCStreamUnlocked ==
  /\ rpcClosed' = IF rpcStream = Nil THEN rpcClosed
                  ELSE [rpcClosed EXCEPT ![rpcStream] = "replaced"]
  /\ rpcStream' = IF RpcOpened THEN rpcCount + 1 ELSE Nil
  /\ rpcCount' = IF RpcOpened THEN rpcCount + 1 ELSE rpcCount
  /\ hpc' = IF RpcOpened THEN [hpc EXCEPT ![rpcCount + 1] = "hdr"] ELSE hpc

\* rpcMutex is held only across a response write; the whole of
\* initRPCStream runs while no worker holds it.
InitRPCStream ==
  /\ rpcLock = "free"
  /\ InitRPCStreamUnlocked

\* Variant that starts the supervisor before testing the error.
SpawnedSupervisorsOnError == [vpc EXCEPT ![rpcCount + 1] = "start"]

SpawnedSupervisors ==
  IF RpcOpened THEN [vpc EXCEPT ![rpcCount + 1] = "start"] ELSE vpc

\* A message written to stream s reaches the server.
SinkDelivers(s) == sinkEnd[s] = "live" /\ sinkClosed[s] = "open"
RpcDelivers(s) == rpcEnd[s] = "live" /\ rpcClosed[s] = "open"

-----------------------------------------------------------------------------
(* Main goroutine: GrpcClient.Start, then rootHandler waits for SIGINT     *)
(* and runs GrpcClient.Stop.  An error from Start is log.Fatalf.           *)
\* rootHandler before Start: IsValid, ParseListeners and GetBroker; each
\* error is log.Fatalf.
Validate ==
  /\ Alive /\ mpc = "validate"
  /\ mpc' \in {"dial", "fatal"}
  /\ UNCHANGED <<conn, drops, ends, crash, sinkVars, rpcVars, reqVars>>

\* Argument checks, tracing, TLS credentials and the blocking grpc.Dial:
\* any error is returned.
Dial ==
  /\ Alive /\ mpc = "dial"
  /\ \/ /\ mpc' = "startSink" /\ conn' = "Ready"
     \/ /\ mpc' = "fatal" /\ UNCHANGED conn
  /\ UNCHANGED <<drops, ends, crash, sinkVars, rpcVars, reqVars>>

StartSink ==
  /\ Alive /\ mpc = "startSink"
  /\ InitSinkStream
  /\ mpc' = IF SinkOpened THEN "startModules" ELSE "fatal"
  /\ UNCHANGED <<conn, drops, ends, crash, sinkEnd, sinkLock, cpc, sends,
                 writing, sinkFailed, rpcVars, reqVars>>

StartModules ==
  /\ Alive /\ mpc = "startModules"
  /\ mpc' \in {"startRpc", "fatal"}
  /\ UNCHANGED <<conn, drops, ends, crash, sinkVars, rpcVars, reqVars>>

StartRpc ==
  /\ Alive /\ mpc = "startRpc"
  /\ InitRPCStream
  /\ vpc' = SpawnedSupervisors
  /\ mpc' = IF RpcOpened THEN "running" ELSE "fatal"
  /\ UNCHANGED <<conn, drops, ends, crash, sinkVars, rpcEnd, rpcDone, rpcLock, rpcOut, queue,
                 hon, von, reqVars>>

Interrupt ==
  /\ Alive /\ mpc = "running"
  /\ mpc' = "stopModules"
  /\ UNCHANGED <<conn, drops, ends, crash, sinkVars, rpcVars, reqVars>>

StopModules ==
  /\ Alive /\ mpc = "stopModules"
  /\ mpc' = "closeRpc"
  /\ UNCHANGED <<conn, drops, ends, crash, sinkVars, rpcVars, reqVars>>

\* Stop tests each stream for nil (lines 176, 179) without its mutex, then
\* calls CloseSend on the field, read again: a nil stream panics.
CloseRpc ==
  /\ Alive /\ mpc = "closeRpc"
  /\ mpc' = IF rpcStream # Nil THEN "closeRpcSend" ELSE "closeSink"
  /\ UNCHANGED <<conn, drops, ends, crash, sinkVars, rpcVars, reqVars>>

CloseRpcSend ==
  /\ Alive /\ mpc = "closeRpcSend"
  /\ IF rpcStream = Nil
     THEN Panic("stop_nil")
     ELSE /\ rpcClosed' = [rpcClosed EXCEPT ![rpcStream] = "stopped"]
          /\ mpc' = "closeSink"
          /\ UNCHANGED <<conn, drops, ends, crash, sinkVars, rpcStream,
                         rpcCount, rpcEnd, rpcDone, rpcLock, rpcOut, queue, hpc, hon, vpc, von,
                         reqVars>>

CloseSink ==
  /\ Alive /\ mpc = "closeSink"
  /\ mpc' = IF sinkStream # Nil THEN "closeSinkSend" ELSE "closeConn"
  /\ UNCHANGED <<conn, drops, ends, crash, sinkVars, rpcVars, reqVars>>

CloseSinkSend ==
  /\ Alive /\ mpc = "closeSinkSend"
  /\ IF sinkStream = Nil
     THEN Panic("stop_nil")
     ELSE /\ sinkClosed' = [sinkClosed EXCEPT ![sinkStream] = "stopped"]
          /\ mpc' = "closeConn"
          /\ UNCHANGED <<conn, drops, ends, crash, sinkStream, sinkCount,
                         sinkEnd, sinkLock, cpc, sends, writing, sinkFailed,
                         rpcVars, reqVars>>

\* conn.Close cancels every stream still open on the connection.
CloseConn ==
  /\ Alive /\ mpc = "closeConn"
  /\ conn' = "Shutdown"
  /\ sinkEnd' = [s \in SinkIds |->
                   IF Created(s, sinkCount) /\ sinkEnd[s] = "live"
                   THEN "Error" ELSE sinkEnd[s]]
  /\ rpcEnd' = [s \in RpcIds |->
                  IF Created(s, rpcCount) /\ rpcEnd[s] = "live"
                  THEN "Error" ELSE rpcEnd[s]]
  /\ rpcDone' = [s \in RpcIds |-> rpcDone[s] \/ Created(s, rpcCount)]
  /\ mpc' = "exit"
  /\ UNCHANGED <<drops, ends, crash, sinkStream, sinkCount, sinkClosed,
                 sinkLock, cpc, sends, writing, sinkFailed, rpcStream,
                 rpcCount, rpcClosed, rpcLock, rpcOut, queue, hpc, hon, vpc,
                 von, reqVars>>

\* Stop returns, rootHandler returns and the process exits.
Exit ==
  /\ Alive /\ mpc = "exit"
  /\ mpc' = "exited"
  /\ UNCHANGED <<conn, drops, ends, crash, sinkVars, rpcVars, reqVars>>

-----------------------------------------------------------------------------
(* GrpcClient.Send, called by the goroutines of the Sink modules.  The     *)
(* check of line 195 reads cli.sinkStream and the connection state without *)
(* the mutex; the write of line 205 reads cli.sinkStream again under it.   *)
SendCheck(c) ==
  /\ Alive /\ ModulesStarted /\ cpc[c] = "idle" /\ sends[c] < MaxSends
  /\ sends' = [sends EXCEPT ![c] = @ + 1]
  /\ cpc' = [cpc EXCEPT ![c] = IF sinkStream = Nil \/ conn # "Ready"
                               THEN "reinit" ELSE "lock"]
  /\ UNCHANGED <<mpc, conn, drops, ends, crash, sinkStream, sinkCount,
                 sinkEnd, sinkClosed, sinkLock, writing, sinkFailed,
                 rpcVars, reqVars>>

\* One restart of the Sink stream; on error Send returns it, uncounted.
SendReinit(c) ==
  /\ Alive /\ cpc[c] = "reinit"
  /\ InitSinkStream
  /\ cpc' = [cpc EXCEPT ![c] = IF SinkOpened THEN "lock" ELSE "idle"]
  /\ UNCHANGED <<mpc, conn, drops, ends, crash, sinkEnd, sinkLock, sends,
                 writing, sinkFailed, rpcVars, reqVars>>

\* sinkMutex.Lock, then cli.sinkStream.Send: a nil stream panics.
SendLock(c) ==
  /\ Alive /\ cpc[c] = "lock" /\ sinkLock = "free"
  /\ IF sinkStream = Nil
     THEN Panic("sink_nil")
     ELSE /\ sinkLock' = c
          /\ writing' = [writing EXCEPT ![c] = sinkStream]
          /\ cpc' = [cpc EXCEPT ![c] = "sending"]
          /\ UNCHANGED <<mpc, conn, drops, ends, crash, sinkStream,
                         sinkCount, sinkEnd, sinkClosed, sends, sinkFailed,
                         rpcVars, reqVars>>

\* Variant that returns on a failed write without sinkMutex.Unlock.
SendDoneNoUnlockOnError(c) ==
  /\ Alive /\ cpc[c] = "sending"
  /\ sinkFailed' = IF SinkDelivers(writing[c]) THEN sinkFailed
                   ELSE sinkFailed \cup {writing[c]}
  /\ sinkLock' = IF SinkDelivers(writing[c]) THEN "free" ELSE c
  /\ writing' = [writing EXCEPT ![c] = Nil]
  /\ cpc' = [cpc EXCEPT ![c] = "idle"]
  /\ UNCHANGED <<mpc, conn, drops, ends, crash, sinkStream, sinkCount,
                 sinkEnd, sinkClosed, sends, rpcVars, reqVars>>

\* The write returns; sinkMutex.Unlock; the outcome is counted.
SendDone(c) ==
  /\ Alive /\ cpc[c] = "sending"
  /\ sinkFailed' = IF SinkDelivers(writing[c]) THEN sinkFailed
                   ELSE sinkFailed \cup {writing[c]}
  /\ sinkLock' = "free"
  /\ writing' = [writing EXCEPT ![c] = Nil]
  /\ cpc' = [cpc EXCEPT ![c] = "idle"]
  /\ UNCHANGED <<mpc, conn, drops, ends, crash, sinkStream, sinkCount,
                 sinkEnd, sinkClosed, sends, rpcVars, reqVars>>

-----------------------------------------------------------------------------
(* The RPC handler goroutine spawned by init h (lines 256-276): send the   *)
(* Minion headers, then loop on cli.rpcStream.Recv.                        *)
\* Variant that never sends the headers.
HeaderSkipped(h) ==
  /\ Alive /\ hpc[h] = "hdr"
  /\ hpc' = [hpc EXCEPT ![h] = "check"]
  /\ UNCHANGED <<mpc, conn, drops, ends, crash, sinkVars, rpcStream,
                 rpcCount, rpcEnd, rpcClosed, rpcDone, rpcLock, rpcOut, queue, hon, vpc, von,
                 reqVars>>

\* Lines 327-333: rpcMutex.Lock, then cli.rpcStream.Send, then Unlock.
Header(h) ==
  /\ Alive /\ hpc[h] = "hdr" /\ rpcLock = "free"
  /\ IF rpcStream = Nil
     THEN Panic("hdr_nil")
     ELSE /\ rpcOut' = IF RpcDelivers(rpcStream)
                       THEN [rpcOut EXCEPT ![rpcStream] = Append(@, "hdr")]
                       ELSE rpcOut
          /\ hpc' = [hpc EXCEPT ![h] = "check"]
          /\ UNCHANGED <<mpc, conn, drops, ends, crash, sinkVars, rpcStream,
                         rpcCount, rpcEnd, rpcClosed, rpcDone, rpcLock, queue, hon, vpc, von,
                         reqVars>>

\* Line 259: leave the loop on a nil stream or a connection not Ready.
Check(h) ==
  /\ Alive /\ hpc[h] = "check"
  /\ hpc' = [hpc EXCEPT ![h] = IF rpcStream = Nil \/ conn # "Ready"
                               THEN "done" ELSE "call"]
  /\ UNCHANGED <<mpc, conn, drops, ends, crash, sinkVars, rpcStream,
                 rpcCount, rpcEnd, rpcClosed, rpcDone, rpcLock, rpcOut, queue,
                 hon, vpc, von, reqVars>>

\* Line 262 reads cli.rpcStream again and calls Recv on it: a stream set to
\* nil since line 259 panics.
RecvCall(h) ==
  /\ Alive /\ hpc[h] = "call"
  /\ IF rpcStream = Nil
     THEN Panic("loop_nil")
     ELSE /\ hpc' = [hpc EXCEPT ![h] = "recv"]
          /\ hon' = [hon EXCEPT ![h] = rpcStream]
          /\ UNCHANGED <<mpc, conn, drops, ends, crash, sinkVars, rpcStream,
                         rpcCount, rpcEnd, rpcClosed, rpcDone, rpcLock, rpcOut,
                         queue, vpc, von, reqVars>>

\* Variant that spawns a worker without looking the module up.
ProcessRequestAll(r) == "exec"

\* processRequest: a worker for a registered module, otherwise a drop.
ProcessRequest(r) == IF reqMod[r] \in Modules THEN "exec" ELSE "dropped"

\* Variant whose loop ends after the first request.
RecvRequestOnce(h) ==
  LET s == hon[h]
      r == Head(queue[s])
  IN /\ Alive /\ hpc[h] = "recv" /\ queue[s] # <<>>
     /\ queue' = [queue EXCEPT ![s] = Tail(@)]
     /\ wpc' = [wpc EXCEPT ![r] = ProcessRequest(r)]
     /\ hpc' = [hpc EXCEPT ![h] = "done"]
     /\ UNCHANGED <<mpc, conn, drops, ends, crash, sinkVars, rpcStream,
                    rpcCount, rpcEnd, rpcClosed, rpcDone, rpcLock, rpcOut, hon, vpc, von,
                    reqAt, reqMod, rwriting>>

\* Recv returns a request: processRequest spawns a worker when the module
\* is registered and drops the request otherwise.
RecvRequest(h) ==
  LET s == hon[h]
      r == Head(queue[s])
  IN /\ Alive /\ hpc[h] = "recv" /\ queue[s] # <<>>
     /\ queue' = [queue EXCEPT ![s] = Tail(@)]
     /\ wpc' = [wpc EXCEPT ![r] = ProcessRequest(r)]
     /\ hpc' = [hpc EXCEPT ![h] = "check"]
     /\ UNCHANGED <<mpc, conn, drops, ends, crash, sinkVars, rpcStream,
                    rpcCount, rpcEnd, rpcClosed, rpcDone, rpcLock, rpcOut, hon, vpc, von,
                    reqAt, reqMod, rwriting>>

\* Recv returns io.EOF: the loop ends (line 267).  grpc-go finishes the
\* stream when Recv returns its end, which cancels its Context().
RecvEOF(h) ==
  /\ Alive /\ hpc[h] = "recv"
  /\ queue[hon[h]] = <<>> /\ rpcEnd[hon[h]] = "EOF"
  /\ hpc' = [hpc EXCEPT ![h] = "done"]
  /\ rpcDone' = [rpcDone EXCEPT ![hon[h]] = TRUE]
  /\ UNCHANGED <<mpc, conn, drops, ends, crash, sinkVars, rpcStream,
                 rpcCount, rpcEnd, rpcClosed, rpcLock, rpcOut, queue, hon,
                 vpc, von, reqVars>>

\* Recv returns another error: line 272 reads request.SystemId of the nil
\* request.
RecvError(h) ==
  /\ Alive /\ hpc[h] = "recv"
  /\ queue[hon[h]] = <<>> /\ rpcEnd[hon[h]] = "Error"
  /\ Panic("recv_nil")

-----------------------------------------------------------------------------
(* The supervisor goroutine spawned by init v (lines 279-288).             *)
SupStart(v) ==
  /\ Alive /\ vpc[v] = "start"
  /\ von' = [von EXCEPT ![v] = rpcStream]
  /\ vpc' = [vpc EXCEPT ![v] = "wait"]
  /\ UNCHANGED <<mpc, conn, drops, ends, crash, sinkVars, rpcStream,
                 rpcCount, rpcEnd, rpcClosed, rpcDone, rpcLock, rpcOut, queue, hpc, hon, reqVars>>

\* <-cli.rpcStream.Context().Done() returns once the stream is finished:
\* grpc-go finishes a client stream when a Recv returns its end or the
\* ClientConn closes, not when the transport fails under it.
SupWake(v) ==
  /\ Alive /\ vpc[v] = "wait" /\ rpcDone[von[v]]
  /\ vpc' = [vpc EXCEPT ![v] = "retry"]
  /\ UNCHANGED <<mpc, conn, drops, ends, crash, sinkVars, rpcStream,
                 rpcCount, rpcEnd, rpcClosed, rpcDone, rpcLock, rpcOut, queue,
                 hpc, hon, von, reqVars>>

\* Variant that keeps looping after a successful initRPCStream.
SupRetryNoReturn(v) ==
  /\ Alive /\ vpc[v] = "retry"
  /\ InitRPCStream
  /\ vpc' = SpawnedSupervisors
  /\ UNCHANGED <<mpc, conn, drops, ends, crash, sinkVars, rpcEnd, rpcDone, rpcLock, rpcOut,
                 queue, hon, von, reqVars>>

\* initRPCStream until it succeeds, sleeping 1 s after each failure.
SupRetry(v) ==
  /\ Alive /\ vpc[v] = "retry"
  /\ InitRPCStream
  /\ vpc' = [SpawnedSupervisors EXCEPT
               ![v] = IF RpcOpened THEN "done" ELSE "retry"]
  /\ UNCHANGED <<mpc, conn, drops, ends, crash, sinkVars, rpcEnd, rpcDone, rpcLock, rpcOut,
                 queue, hon, von, reqVars>>

-----------------------------------------------------------------------------
(* The worker goroutine of processRequest (lines 340-355) and              *)
(* sendResponse (lines 362-376).                                           *)
Execute(r) ==
  /\ Alive /\ wpc[r] = "exec"
  /\ \E response \in BOOLEAN :
       wpc' = [wpc EXCEPT ![r] = IF response THEN "respond" ELSE "done"]
  /\ UNCHANGED <<mpc, conn, drops, ends, crash, sinkVars, rpcVars, reqAt,
                 reqMod, rwriting>>

\* Line 363: without a stream or a Ready connection the response is dropped.
Respond(r) ==
  /\ Alive /\ wpc[r] = "respond"
  /\ wpc' = [wpc EXCEPT ![r] = IF rpcStream # Nil /\ conn = "Ready"
                               THEN "lock" ELSE "done"]
  /\ UNCHANGED <<mpc, conn, drops, ends, crash, sinkVars, rpcVars, reqAt,
                 reqMod, rwriting>>

\* Line 364: rpcMutex.Lock; line 365 reads cli.rpcStream again and Send
\* starts writing to it: a nil stream panics.
RespondLocked(r) ==
  /\ Alive /\ wpc[r] = "lock" /\ rpcLock = "free"
  /\ IF rpcStream = Nil
     THEN Panic("resp_nil")
     ELSE /\ rpcLock' = r
          /\ rwriting' = [rwriting EXCEPT ![r] = rpcStream]
          /\ wpc' = [wpc EXCEPT ![r] = "writing"]
          /\ UNCHANGED <<mpc, conn, drops, ends, crash, sinkVars, rpcStream,
                         rpcCount, rpcEnd, rpcClosed, rpcDone, rpcOut, queue, hpc, hon,
                         vpc, von, reqAt, reqMod>>

\* Lines 365-372: Send returns (the response reaches the server only on a
\* live, open stream) and line 366 unlocks rpcMutex.
RespondDone(r) ==
  LET s == rwriting[r] IN
  /\ Alive /\ wpc[r] = "writing"
  /\ rpcOut' = IF RpcDelivers(s)
               THEN [rpcOut EXCEPT ![s] = Append(@, "resp")] ELSE rpcOut
  /\ rpcLock' = "free"
  /\ wpc' = [wpc EXCEPT ![r] = "done"]
  /\ UNCHANGED <<mpc, conn, drops, ends, crash, sinkVars, rpcStream, rpcCount,
                 rpcEnd, rpcClosed, rpcDone, queue, hpc, hon, vpc, von, reqAt, reqMod,
                 rwriting>>

-----------------------------------------------------------------------------
(* Environment: the OpenNMS server and the network.                        *)

\* The server routes a request to a live stream that sent the headers.
ServerRequest(r, s) ==
  /\ Alive /\ reqAt[r] = Nil /\ conn = "Ready"
  /\ Created(s, rpcCount) /\ rpcEnd[s] = "live"
  /\ "hdr" \in Range(rpcOut[s])
  /\ \E m \in ModuleIds : reqMod' = [reqMod EXCEPT ![r] = m]
  /\ reqAt' = [reqAt EXCEPT ![r] = s]
  /\ queue' = [queue EXCEPT ![s] = Append(@, r)]
  /\ UNCHANGED <<mpc, conn, drops, ends, crash, sinkVars, rpcStream,
                 rpcCount, rpcEnd, rpcClosed, rpcDone, rpcLock, rpcOut, hpc, hon, vpc, von, wpc, rwriting>>

\* The server ends one stream with status OK.
ServerEndSink(s) ==
  /\ Alive /\ ends < MaxEnds
  /\ Created(s, sinkCount) /\ sinkEnd[s] = "live"
  /\ ends' = ends + 1
  /\ sinkEnd' = [sinkEnd EXCEPT ![s] = "EOF"]
  /\ UNCHANGED <<mpc, conn, drops, crash, sinkStream, sinkCount, sinkClosed,
                 sinkLock, cpc, sends, writing, sinkFailed, rpcVars, reqVars>>

ServerEndRpc(s) ==
  /\ Alive /\ ends < MaxEnds
  /\ Created(s, rpcCount) /\ rpcEnd[s] = "live"
  /\ ends' = ends + 1
  /\ rpcEnd' = [rpcEnd EXCEPT ![s] = "EOF"]
  /\ UNCHANGED <<mpc, conn, drops, crash, sinkVars, rpcStream, rpcCount,
                 rpcClosed, rpcDone, rpcLock, rpcOut, queue, hpc, hon, vpc, von, reqVars>>

\* The transport fails: every stream on it ends with status Unavailable.
ConnDrop ==
  /\ Alive /\ conn = "Ready" /\ drops < MaxDrops
  /\ drops' = drops + 1
  /\ conn' = "NotReady"
  /\ sinkEnd' = [s \in SinkIds |->
                   IF Created(s, sinkCount) /\ sinkEnd[s] = "live"
                   THEN "Error" ELSE sinkEnd[s]]
  /\ rpcEnd' = [s \in RpcIds |->
                  IF Created(s, rpcCount) /\ rpcEnd[s] = "live"
                  THEN "Error" ELSE rpcEnd[s]]
  /\ UNCHANGED <<mpc, ends, crash, sinkStream, sinkCount, sinkClosed,
                 sinkLock, cpc, sends, writing, sinkFailed, rpcStream,
                 rpcCount, rpcClosed, rpcDone, rpcLock, rpcOut, queue, hpc, hon, vpc, von,
                 reqVars>>

\* grpc-go reconnects the ClientConn by itself.
ConnRestore ==
  /\ Alive /\ conn = "NotReady"
  /\ conn' = "Ready"
  /\ UNCHANGED <<mpc, drops, ends, crash, sinkVars, rpcVars, reqVars>>

\* After exit or a panic nothing happens any more.
Terminated ==
  /\ ~Alive
  /\ UNCHANGED vars

-----------------------------------------------------------------------------
Init ==
  /\ mpc = "validate"
  /\ conn = "Idle"
  /\ drops = 0 /\ ends = 0 /\ crash = "none"
  /\ sinkStream = Nil /\ sinkCount = 0
  /\ sinkEnd = [s \in SinkIds |-> "live"]
  /\ sinkClosed = [s \in SinkIds |-> "open"]
  /\ sinkLock = "free"
  /\ cpc = [c \in SinkCallers |-> "idle"]
  /\ sends = [c \in SinkCallers |-> 0]
  /\ writing = [c \in SinkCallers |-> Nil]
  /\ sinkFailed = {}
  /\ rpcStream = Nil /\ rpcCount = 0
  /\ rpcEnd = [s \in RpcIds |-> "live"]
  /\ rpcClosed = [s \in RpcIds |-> "open"]
  /\ rpcDone = [s \in RpcIds |-> FALSE]
  /\ rpcLock = "free"
  /\ rpcOut = [s \in RpcIds |-> <<>>]
  /\ queue = [s \in RpcIds |-> <<>>]
  /\ hpc = [h \in RpcIds |-> "none"] /\ hon = [h \in RpcIds |-> Nil]
  /\ vpc = [v \in RpcIds |-> "none"] /\ von = [v \in RpcIds |-> Nil]
  /\ reqAt = [r \in Requests |-> Nil]
  /\ reqMod = [r \in Requests |-> NoModule]
  /\ wpc = [r \in Requests |-> "none"]
  /\ rwriting = [r \in Requests |-> Nil]

Main ==
  \/ Validate \/ Dial \/ StartSink \/ StartModules \/ StartRpc \/ StopModules
  \/ CloseRpc \/ CloseRpcSend \/ CloseSink \/ CloseSinkSend \/ CloseConn
  \/ Exit

Sender(c) == SendCheck(c) \/ SendReinit(c) \/ SendLock(c) \/ SendDone(c)

Handler(h) ==
  \/ Header(h) \/ Check(h) \/ RecvCall(h) \/ RecvRequest(h) \/ RecvEOF(h)
  \/ RecvError(h)

Supervisor(v) == SupStart(v) \/ SupWake(v) \/ SupRetry(v)

Worker(r) == Execute(r) \/ Respond(r) \/ RespondLocked(r) \/ RespondDone(r)

Environment ==
  \/ Interrupt \/ ConnDrop \/ ConnRestore
  \/ \E r \in Requests, s \in RpcIds : ServerRequest(r, s)
  \/ \E s \in SinkIds : ServerEndSink(s)
  \/ \E s \in RpcIds : ServerEndRpc(s)

Next ==
  \/ Main
  \/ \E c \in SinkCallers : Sender(c)
  \/ \E h \in RpcIds : Handler(h)
  \/ \E v \in RpcIds : Supervisor(v)
  \/ \E r \in Requests : Worker(r)
  \/ Environment
  \/ Terminated

(* Every goroutine that can run is eventually scheduled; a goroutine      *)
(* waiting for a sync.Mutex eventually gets it (Go's mutex hands the lock *)
(* to a waiter that has starved for 1 ms).  The server, the network and   *)
(* the operator's SIGINT are not fair.                                    *)
Fairness ==
  /\ WF_vars(Main)
  /\ \A c \in SinkCallers : /\ WF_vars(SendCheck(c) \/ SendDone(c))
                            /\ SF_vars(SendReinit(c)) /\ SF_vars(SendLock(c))
  /\ \A h \in RpcIds : WF_vars(Handler(h))
  /\ \A v \in RpcIds : WF_vars(Supervisor(v))
  /\ \A r \in Requests : WF_vars(Worker(r))

Spec == Init /\ [][Next]_vars /\ Fairness

-----------------------------------------------------------------------------
(* Properties.                                                             *)

(* Supervisors: initRPCStream spawns a supervisor on every success, and a  *)
(* supervisor returns after its own successful retry, so at most one      *)
(* supervisor is ever watching or re-creating the RPC stream.  Two would   *)
(* race their initRPCStream calls and close each other's streams.         *)
SingleSupervisor ==
  Cardinality({v \in RpcIds : vpc[v] \in {"start", "wait", "retry"}}) <= 1

(* Send / initSinkStream and sendResponse / initRPCStream: a write in     *)
(* progress is never on a stream that a re-initialisation has already     *)
(* closed, because each write re-reads the stream field under its mutex   *)
(* and each re-initialisation holds the same mutex while it closes the    *)
(* old stream and replaces the field.                                     *)
NoWriteOnReplacedStream ==
  /\ \A c \in SinkCallers :
       cpc[c] = "sending" => sinkClosed[writing[c]] # "replaced"
  /\ \A r \in Requests :
       wpc[r] = "writing" => rpcClosed[rwriting[r]] # "replaced"

(* Supervisor start (line 280): a new supervisor never reads a nil        *)
(* cli.rpcStream, which would panic on Context(): only a failed           *)
(* initRPCStream sets it to nil, and only the supervisor that is starting *)
(* now would make that call.                                             *)
SupervisorWatchesStream ==
  \A v \in RpcIds : vpc[v] \in {"wait", "retry"} => von[v] # Nil

\* The current RPC stream is live, registered, and a handler is reading it.
Healthy ==
  /\ rpcStream # Nil
  /\ rpcEnd[rpcStream] = "live"
  /\ "hdr" \in Range(rpcOut[rpcStream])
  /\ \E h \in RpcIds : hpc[h] = "recv" /\ hon[h] = rpcStream

(* RPC stream supervisor: while the client runs, an RPC stream that has    *)
(* ended is eventually replaced by a live stream that has sent the Minion  *)
(* headers and has a handler receiving on it.                             *)
RpcStreamRecovers ==
  (mpc = "running" /\ ~Healthy) ~> (Healthy \/ mpc # "running")

(* initRPCStream's supervisor (lines 279-288): once the RPC stream in use *)
(* has ended while the client runs, the supervisor eventually replaces it *)
(* (with a new stream, or with nil after a failed attempt that it then     *)
(* retries).  Spec section 4.4: the supervisor blocks on the stream's     *)
(* termination and then re-initialises it; section 7: a broken stream is  *)
(* re-initialised eagerly by the supervisor.                               *)
EndedStreamReplaced ==
  \A s \in RpcIds :
    (mpc = "running" /\ rpcStream = s /\ rpcEnd[s] # "live")
      ~> (rpcStream # s \/ mpc # "running" \/ ~Alive)

InQueue(r) == reqAt[r] # Nil /\ r \in Range(queue[reqAt[r]])

(* RPC receive loop: a request the server sent on a stream that stays      *)
(* live is eventually read by a handler.                                  *)
RequestsReceived ==
  \A r \in Requests :
    InQueue(r) ~> (~InQueue(r) \/ rpcEnd[reqAt[r]] # "live"
                   \/ mpc # "running")

(* Receive loop error path: a Recv error other than io.EOF does not crash  *)
(* the process (the spec says the loop logs it and continues).            *)
NoPanicOnRecvError == crash # "recv_nil"

(* Send (line 205), the receive loop (262), sendMinionHeaders (330),      *)
(* sendResponse (365) and Stop (177, 180): no goroutine calls a method of  *)
(* a nil stream.  Each of them tests the field, or relies on an earlier   *)
(* test, and then reads it again, and a failed initSinkStream or          *)
(* initRPCStream can nil it in between.                                   *)
NoNilStreamDeref ==
  crash \notin {"sink_nil", "loop_nil", "hdr_nil", "resp_nil", "stop_nil"}

(* Send: once a write on a Sink stream has failed, the next Send does not  *)
(* write to that stream again (StreamBroken triggers a re-init on the next *)
(* Send).                                                                  *)
NoWriteToFailedSinkStream ==
  [][\A c \in SinkCallers :
       cpc'[c] = "sending" /\ cpc[c] # "sending"
         => writing'[c] \notin sinkFailed]_vars

(* initRPCStream / sendMinionHeaders: the Minion headers are the first    *)
(* message the server receives on every RPC stream (spec 4.4, step 4).    *)
HeadersFirst ==
  \A s \in RpcIds : rpcOut[s] # <<>> => Head(rpcOut[s]) = "hdr"

(* Stop (lines 176-181): CloseSend is never called on the Sink or the RPC *)
(* stream while a Send or a sendResponse is writing to it (grpc-go        *)
(* forbids CloseSend concurrent with SendMsg).  Stop takes neither mutex. *)
\* A step that stops stream s while a write on it is in progress.
StopsUnderWrite(closed, closedNext, inWrite(_)) ==
  \E s \in DOMAIN closed :
    closed[s] # "stopped" /\ closedNext[s] = "stopped" /\ inWrite(s)

SinkWriteOn(s) == \E c \in SinkCallers : cpc[c] = "sending" /\ writing[c] = s
RpcWriteOn(s) == \E r \in Requests : wpc[r] = "writing" /\ rwriting[r] = s

NoCloseDuringWrite ==
  [][/\ ~StopsUnderWrite(sinkClosed, sinkClosed', SinkWriteOn)
     /\ ~StopsUnderWrite(rpcClosed, rpcClosed', RpcWriteOn)]_vars

-----------------------------------------------------------------------------
(* Refinement: the request lifecycle of the client, seen through reqAt and *)
(* the worker's pc, is a behaviour of the abstract broker BrokerRpc.       *)
RequestStatus(r) ==
  CASE reqAt[r] = Nil       -> "unsent"
    [] wpc[r] = "none"      -> "queued"
    [] wpc[r] = "dropped"   -> "dropped"
    [] wpc[r] = "done"      -> "finished"
    [] OTHER                -> "running"

Abstract == INSTANCE BrokerRpc WITH
              status <- [r \in Requests |-> RequestStatus(r)],
              module <- reqMod

(* Receive loop, processRequest and the worker (lines 262-267, 337-359):   *)
(* every request is read from the stream and dispatched at most once, a    *)
(* worker runs only for a registered module, and each worker finishes      *)
(* once: the client implements BrokerRpc.                                  *)
ImplementsBrokerRpc == Abstract!Spec

=============================================================================
