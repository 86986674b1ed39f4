------------------------------- MODULE NxosGrpc -------------------------------
(***************************************************************************)
(* The NX-OS telemetry Sink module (src/sink/nxos-grpc.go): Start looks up *)
(* the "NxosGrpcParser" listener, creates a gRPC server and serves it from *)
(* a goroutine; every device session runs MdtDialout in its own goroutine, *)
(* which loops on stream.Recv() and hands each message with data to the    *)
(* broker's Send; Stop stops the server.                                   *)
(*                                                                         *)
(* The broker's Send is one step here: its result is discarded by the      *)
(* caller (sendBytes), and GrpcClient models what it does inside.           *)
(***************************************************************************)
EXTENDS Naturals, Sequences

CONSTANTS
    Sessions,       \* device sessions (dial-out connections)
    MaxMsgs,        \* bound on the messages a device sends per session
    ListenerPorts,  \* the configured port of "NxosGrpcParser"; 0 = absent or 0
    ListenResults   \* the outcomes net.Listen may have: subset of BOOLEAN

(* A message: Data and Errors each empty or not. *)
Messages == [data : BOOLEAN, errors : BOOLEAN]

VARIABLES
    mpc,      \* the module's lifecycle, driven by the broker: init, started, failed, stopped
    port,     \* listener.Port looked up by Start
    server,   \* module.server: nil, created, listening, serving, stopped
    spc,      \* per session: none (not accepted), recv, send
    stream,   \* per session: open, closed (by the device) or cancelled (by Stop)
    sent,     \* per session: the messages the device has sent
    inbox,    \* per session: indices into sent not yet received
    cur,      \* per session: index of the message being forwarded
    fwd       \* per session: the indices handed to the broker's Send

vars == <<mpc, port, server, spc, stream, sent, inbox, cur, fwd>>

TypeOK ==
    /\ mpc \in {"init", "started", "failed", "stopped"}
    /\ port \in ListenerPorts
    /\ server \in {"nil", "created", "listening", "serving", "stopped"}
    /\ spc \in [Sessions -> {"none", "recv", "send"}]
    /\ stream \in [Sessions -> {"none", "open", "closed", "cancelled"}]
    /\ sent \in [Sessions -> Seq(Messages)]
    /\ inbox \in [Sessions -> Seq(1..MaxMsgs)]
    /\ cur \in [Sessions -> 0..MaxMsgs]
    /\ fwd \in [Sessions -> SUBSET (1..MaxMsgs)]
    \* a Start that failed to listen leaves no Serve goroutine
    /\ mpc = "failed" => server = "created"

Init ==
    /\ mpc = "init"
    /\ port \in ListenerPorts
    /\ server = "nil"
    /\ spc = [s \in Sessions |-> "none"]
    /\ stream = [s \in Sessions |-> "none"]
    /\ sent = [s \in Sessions |-> <<>>]
    /\ inbox = [s \in Sessions |-> <<>>]
    /\ cur = [s \in Sessions |-> 0]
    /\ fwd = [s \in Sessions |-> {}]

sessionVars == <<spc, stream, sent, inbox, cur, fwd>>

StartNoReturn ==
    /\ mpc = "init"
    /\ \/ /\ port = 0
          /\ mpc' = "started"
          /\ UNCHANGED server
       \/ /\ port # 0
          /\ \E ok \in ListenResults :
                /\ server' = "listening"
                /\ mpc' = IF ok THEN "started" ELSE "failed"
    /\ UNCHANGED <<port>>
    /\ UNCHANGED sessionVars

(* Start: disabled without a listener port (lines 30-34); otherwise the   *)
(* server is created (40-41) and net.Listen either fails, returning an    *)
(* error with the server left created (44-47), or succeeds and the Serve  *)
(* goroutine is spawned (48-52).                                           *)
Start ==
    /\ mpc = "init"
    /\ \/ /\ port = 0
          /\ mpc' = "started"
          /\ UNCHANGED server
       \/ /\ port # 0
          /\ \E ok \in ListenResults :
                /\ server' = IF ok THEN "listening" ELSE "created"
                /\ mpc' = IF ok THEN "started" ELSE "failed"
    /\ UNCHANGED <<port>>
    /\ UNCHANGED sessionVars

(* The Serve goroutine (line 49): serves unless Stop came first, in which *)
(* case Serve returns an error that is logged.                             *)
Serve ==
    /\ server = "listening"
    /\ server' = "serving"
    /\ UNCHANGED <<mpc, port>>
    /\ UNCHANGED sessionVars

(* Stop (lines 57-62): server.Stop() if a server exists; it closes every   *)
(* connection: every open session stream is cancelled and what it had    *)
(* buffered is lost.                                                       *)
Stop ==
    /\ mpc \in {"started", "failed"}
    /\ mpc' = "stopped"
    /\ IF server # "nil"
         THEN /\ server' = "stopped"
              /\ stream' = [s \in Sessions |->
                              IF stream[s] = "open" THEN "cancelled" ELSE stream[s]]
              /\ inbox' = [s \in Sessions |-> <<>>]
         ELSE UNCHANGED <<server, stream, inbox>>
    /\ UNCHANGED <<port, spc, sent, cur, fwd>>

(* A device dials in; the server accepts it and runs MdtDialout.           *)
Accept(s) ==
    /\ server = "serving"
    /\ spc[s] = "none"
    /\ spc' = [spc EXCEPT ![s] = "recv"]
    /\ stream' = [stream EXCEPT ![s] = "open"]
    /\ UNCHANGED <<mpc, port, server, sent, inbox, cur, fwd>>

DeviceSend(s, m) ==
    /\ stream[s] = "open"
    /\ Len(sent[s]) < MaxMsgs
    /\ sent' = [sent EXCEPT ![s] = Append(@, m)]
    /\ inbox' = [inbox EXCEPT ![s] = Append(@, Len(sent[s]) + 1)]
    /\ UNCHANGED <<mpc, port, server, spc, stream, cur, fwd>>

DeviceClose(s) ==
    /\ stream[s] = "open"
    /\ stream' = [stream EXCEPT ![s] = "closed"]
    /\ UNCHANGED <<mpc, port, server, spc, sent, inbox, cur, fwd>>

SkippedOr(m) == ~m.data \/ m.errors

(* Line 80: a message is skipped when it has no data but has errors.       *)
Skipped(m) == ~m.data /\ m.errors

(* stream.Recv() returns the next message (line 71); a skipped one         *)
(* continues the loop (80-83), any other goes to the forwarding step.      *)
RecvMsg(s) ==
    /\ spc[s] = "recv"
    /\ inbox[s] # <<>>
    /\ LET i == Head(inbox[s]) IN
         /\ inbox' = [inbox EXCEPT ![s] = Tail(@)]
         /\ IF Skipped(sent[s][i])
              THEN UNCHANGED <<spc, cur>>
              ELSE /\ spc' = [spc EXCEPT ![s] = "send"]
                   /\ cur' = [cur EXCEPT ![s] = i]
    /\ UNCHANGED <<mpc, port, server, stream, sent, fwd>>

(* stream.Recv() fails once the stream has ended (io.EOF or the status of  *)
(* a cancelled stream); the handler logs it and continues (lines 72-78),   *)
(* so it calls Recv again, forever: this step changes nothing.             *)
RecvFail(s) ==
    /\ spc[s] = "recv"
    /\ inbox[s] = <<>>
    /\ stream[s] \in {"closed", "cancelled"}
    /\ UNCHANGED vars

(* wrapMessageToTelemetry and sendBytes (lines 85-87): the message is      *)
(* handed to the broker's Send, whose error is discarded.                  *)
Forward(s) ==
    /\ spc[s] = "send"
    /\ fwd' = [fwd EXCEPT ![s] = @ \cup {cur[s]}]
    /\ spc' = [spc EXCEPT ![s] = "recv"]
    /\ UNCHANGED <<mpc, port, server, stream, sent, inbox, cur>>

Session(s) == RecvMsg(s) \/ RecvFail(s) \/ Forward(s)

Device(s) ==
    \/ Accept(s)
    \/ \E m \in Messages : DeviceSend(s, m)
    \/ DeviceClose(s)

(* After Stop, rootHandler returns and the process exits.                 *)
Done ==
    /\ mpc = "stopped"
    /\ UNCHANGED vars

Next ==
    \/ Start \/ Serve \/ Stop
    \/ \E s \in Sessions : Session(s) \/ Device(s)
    \/ Done

(* Start and Serve run on the main and Serve goroutines, the session      *)
(* handlers on their own goroutines: all are weakly fair. Devices and the  *)
(* broker's Stop (driven by SIGINT) are not.                               *)
Fairness ==
    /\ WF_vars(Start)
    /\ WF_vars(Serve)
    /\ \A s \in Sessions : WF_vars(Session(s))

Spec == Init /\ [][Next]_vars /\ Fairness

-----------------------------------------------------------------------------
(* Every message with data that a session receives while the module runs  *)
(* is eventually handed to the broker's Send (MdtDialout, lines 71-87):   *)
(* the filter at line 80 drops only the errors-only messages.              *)
DataForwarded ==
    \A s \in Sessions, i \in 1..MaxMsgs :
        (i <= Len(sent[s]) /\ sent[s][i].data)
            ~> (i \in fwd[s] \/ mpc = "stopped")

(* Spec §4.2: Stop terminates every worker of the module. Once the module  *)
(* is stopped, no session handler is still running its Recv loop           *)
(* (MdtDialout lines 70-88).                                               *)
StopEndsSessions ==
    (mpc = "stopped") ~> (\A s \in Sessions : spc[s] \notin {"recv", "send"})

=============================================================================
