------------------------------- MODULE BrokerRpc -------------------------------
(***************************************************************************)
(* What a broker promises about RPC requests (spec.md §4.4 and §3), with   *)
(* no streams, goroutines or failures: a request the server sends is       *)
(* queued for the Minion; the broker dispatches it once, to the module     *)
(* its ModuleId names when one is registered, and drops it otherwise; the  *)
(* module then finishes it once.  Nothing here forces progress: a request  *)
(* may stay queued for ever when its transport is lost.                    *)
(***************************************************************************)
CONSTANTS
    Requests,   \* request ids
    Modules,    \* ModuleIds with a registered RPC module
    ModuleIds,  \* ModuleIds a request may name
    NoModule    \* the ModuleId of a request not yet sent

VARIABLES
    status,     \* [Requests -> Status]
    module      \* the ModuleId each request names

Status == {"unsent", "queued", "running", "finished", "dropped"}

TypeOK ==
    /\ status \in [Requests -> Status]
    /\ module \in [Requests -> ModuleIds \cup {NoModule}]

Init ==
    /\ status = [r \in Requests |-> "unsent"]
    /\ module = [r \in Requests |-> NoModule]

(* The server sends request r, naming some module.                          *)
Arrive(r) ==
    /\ status[r] = "unsent"
    /\ \E m \in ModuleIds : module' = [module EXCEPT ![r] = m]
    /\ status' = [status EXCEPT ![r] = "queued"]

(* The broker hands r to its module, or drops it when none is registered.   *)
Dispatch(r) ==
    /\ status[r] = "queued"
    /\ status' = [status EXCEPT ![r] =
                    IF module[r] \in Modules THEN "running" ELSE "dropped"]
    /\ UNCHANGED module

(* The module's Execute returns; a response may or may not be written.      *)
Finish(r) ==
    /\ status[r] = "running"
    /\ status' = [status EXCEPT ![r] = "finished"]
    /\ UNCHANGED module

Next == \E r \in Requests : Arrive(r) \/ Dispatch(r) \/ Finish(r)

Spec == Init /\ [][Next]_<<status, module>>

=============================================================================
