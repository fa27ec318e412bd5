-------------------------- MODULE GracefulShutdown --------------------------
(***************************************************************************)
(* The server fan-out of gracefulShutdown (gateway/server.go).             *)
(*                                                                         *)
(*  - under DefaultProxyMux's lock, one goroutine per HTTP server          *)
(*    (shutdownHTTPServer) and per TCP proxy (shutdownTCPProxy), each      *)
(*    registered with wg.Add(1) before it starts;                          *)
(*  - a failed server.Shutdown or listener.Close is offered to the         *)
(*    buffered errChan with a select whose default drops it when the       *)
(*    buffer is full; a TCP proxy's drain timeout is only logged;          *)
(*  - a waiter goroutine closes serverShutdownDone after wg.Wait;          *)
(*  - gracefulShutdown waits for serverShutdownDone, or for ctx.Done and   *)
(*    then still for serverShutdownDone, closes the caches, closes         *)
(*    errChan, counts what it holds and returns an error if any;           *)
(*  - with no error it goes on: with UseDBAppConfigs it stops the          *)
(*    heartbeat and deregisters from the dashboard, with UseRPC it         *)
(*    disconnects from MDCB, and returns nil.                              *)
(*                                                                         *)
(* A server's shutdown result is a nondeterministic choice; the deadline   *)
(* of ctx may pass at any time.  The configuration is chosen at the start *)
(* and kept; the dashboard and MDCB calls' errors are only logged, so      *)
(* making the call is what the model records.                              *)
(***************************************************************************)
EXTENDS Naturals, Sequences, FiniteSets

CONSTANTS
    Servers,         \* the shutdown goroutines gracefulShutdown starts
    Kind,            \* Kind[s] \in {"http", "tcp"}
    ErrChanCapacity  \* the buffer size given to make(chan error, ...)

ASSUME /\ Kind \in [Servers -> {"http", "tcp"}]
       /\ ErrChanCapacity \in Nat

\* Fault variant: make(chan error) without a buffer.
ErrChanUnbuffered == 0

\* errChan := make(chan error, 10)
ErrChanCap == ErrChanCapacity

VARIABLES
    gpc,         \* control point of gracefulShutdown
    spc,         \* control point of each server goroutine
    wg,          \* the WaitGroup counter
    errChan,     \* the errors buffered in errChan
    chanClosed,  \* close(errChan) has run
    shutdownDone,\* serverShutdownDone is closed
    ctxExpired,  \* the shutdown deadline has passed
    failed,      \* servers whose Shutdown or listener Close returned an error
    result,      \* what gracefulShutdown returned
    panicked,    \* a goroutine sent on the closed errChan
    conf,        \* [db |-> UseDBAppConfigs, rpc |-> SlaveOptions.UseRPC]
    released     \* the sessions it has ended: "dashboard", "mdcb"

tailVars == <<conf, released>>
vars == <<gpc, spc, wg, errChan, chanClosed, shutdownDone, ctxExpired,
          failed, result, panicked, tailVars>>

TypeOK ==
    /\ gpc \in {"spawn", "select", "timeout", "close", "dashboard",
               "deregister", "mdcb", "returned"}
    /\ spc \in [Servers -> {"idle", "running", "report", "drain", "done"}]
    /\ wg \in 0..Cardinality(Servers)
    /\ errChan \in Seq(Servers) /\ Len(errChan) <= ErrChanCap
    /\ chanClosed \in BOOLEAN /\ shutdownDone \in BOOLEAN
    /\ ctxExpired \in BOOLEAN
    /\ failed \subseteq Servers
    /\ result \in {"none", "ok", "error"}
    /\ panicked \in BOOLEAN
    /\ conf \in [db : BOOLEAN, rpc : BOOLEAN]
    /\ released \subseteq {"dashboard", "mdcb"}

Init ==
    /\ gpc = "spawn"
    /\ spc = [s \in Servers |-> "idle"]
    /\ wg = 0
    /\ errChan = <<>>
    /\ chanClosed = FALSE /\ shutdownDone = FALSE
    /\ ctxExpired = FALSE
    /\ failed = {}
    /\ result = "none"
    /\ panicked = FALSE
    /\ conf \in [db : BOOLEAN, rpc : BOOLEAN]
    /\ released = {}

-----------------------------------------------------------------------------
(* gracefulShutdown                                                        *)

\* The loop over DefaultProxyMux.proxies: wg.Add(1), then go func().
StartShutdown(s) ==
    /\ gpc = "spawn" /\ spc[s] = "idle"
    /\ wg' = wg + 1
    /\ spc' = [spc EXCEPT ![s] = "running"]
    /\ UNCHANGED <<gpc, errChan, chanClosed, shutdownDone, ctxExpired,
                   failed, result, panicked, tailVars>>

\* The loop is over: unlock and start the waiter goroutine.
SpawnDone ==
    /\ gpc = "spawn" /\ \A s \in Servers : spc[s] # "idle"
    /\ gpc' = "select"
    /\ UNCHANGED <<spc, wg, errChan, chanClosed, shutdownDone, ctxExpired,
                   failed, result, panicked, tailVars>>

\* go func() { wg.Wait(); close(serverShutdownDone) }
Waiter ==
    /\ gpc # "spawn" /\ wg = 0 /\ ~shutdownDone
    /\ shutdownDone' = TRUE
    /\ UNCHANGED <<gpc, spc, wg, errChan, chanClosed, ctxExpired, failed,
                   result, panicked, tailVars>>

\* Fault variant: the timeout branch goes on without waiting.
SelectNoWait ==
    /\ gpc = "select"
    /\ \/ shutdownDone /\ gpc' = "close"
       \/ ctxExpired /\ gpc' = "close"
    /\ UNCHANGED <<spc, wg, errChan, chanClosed, shutdownDone, ctxExpired,
                   failed, result, panicked, tailVars>>

\* select on serverShutdownDone and ctx.Done; after the timeout branch,
\* <-serverShutdownDone still waits for the goroutines.
Select ==
    /\ \/ gpc = "select" /\ shutdownDone /\ gpc' = "close"
       \/ gpc = "select" /\ ctxExpired /\ gpc' = "timeout"
       \/ gpc = "timeout" /\ shutdownDone /\ gpc' = "close"
    /\ UNCHANGED <<spc, wg, errChan, chanClosed, shutdownDone, ctxExpired,
                   failed, result, panicked, tailVars>>

\* cacheClose, close(errChan), count the errors it holds: return the error,
\* or close the listeners, stop analytics and write the profiles.
CloseAndCount ==
    /\ gpc = "close"
    /\ chanClosed' = TRUE
    /\ \/ Len(errChan) > 0 /\ result' = "error" /\ gpc' = "returned"
       \/ Len(errChan) = 0 /\ gpc' = "dashboard" /\ UNCHANGED result
    /\ UNCHANGED <<spc, wg, errChan, shutdownDone, ctxExpired, failed, panicked,
                   tailVars>>

\* With UseDBAppConfigs: StopBeating, then sleep 2s before DeRegister.
StopBeating ==
    /\ gpc = "dashboard"
    /\ gpc' = IF conf.db THEN "deregister" ELSE "mdcb"
    /\ UNCHANGED <<spc, wg, errChan, chanClosed, shutdownDone, ctxExpired,
                   failed, result, panicked, tailVars>>

\* DashService.DeRegister(); its error is logged.
DeRegister ==
    /\ gpc = "deregister"
    /\ released' = released \cup {"dashboard"}
    /\ gpc' = "mdcb"
    /\ UNCHANGED <<spc, wg, errChan, chanClosed, shutdownDone, ctxExpired,
                   failed, result, panicked, conf>>

\* With UseRPC, RPCStorageHandler.Disconnect() (its error logged); then
\* "Terminating." and return nil.
Disconnect ==
    /\ gpc = "mdcb"
    /\ released' = IF conf.rpc THEN released \cup {"mdcb"} ELSE released
    /\ result' = "ok"
    /\ gpc' = "returned"
    /\ UNCHANGED <<spc, wg, errChan, chanClosed, shutdownDone, ctxExpired,
                   failed, panicked, conf>>

-----------------------------------------------------------------------------
(* The server goroutines                                                   *)

\* Fault variant: wg.Done called on the error path and again by the defer.
FinishTwice(s) ==
    /\ spc' = [spc EXCEPT ![s] = "done"]
    /\ wg' = wg - (IF spc[s] = "report" THEN 2 ELSE 1)

\* defer wg.Done()
Finish(s) ==
    /\ spc' = [spc EXCEPT ![s] = "done"]
    /\ wg' = wg - 1

\* shutdownHTTPServer: server.Shutdown(ctx) returns nil, or an error to
\* report; shutdownTCPProxy: listener.Close() returns nil or an error to
\* report, then the proxy drains.
ShutdownServer(s) ==
    /\ spc[s] = "running"
    /\ \/ /\ failed' = failed \cup {s}
          /\ spc' = [spc EXCEPT ![s] = "report"]
          /\ UNCHANGED wg
       \/ /\ Kind[s] = "http"
          /\ Finish(s)
          /\ UNCHANGED failed
       \/ /\ Kind[s] = "tcp"
          /\ spc' = [spc EXCEPT ![s] = "drain"]
          /\ UNCHANGED <<wg, failed>>
    /\ UNCHANGED <<gpc, errChan, chanClosed, shutdownDone, ctxExpired,
                   result, panicked, tailVars>>

\* Where a goroutine goes after its report: the HTTP one returns, the TCP
\* one goes on to proxy.Shutdown.
AfterReport(s) ==
    IF Kind[s] = "http" THEN Finish(s)
    ELSE spc' = [spc EXCEPT ![s] = "drain"] /\ UNCHANGED wg

\* select { case errChan <- err: default: }: a send on a closed channel
\* panics; a full buffer takes the default branch and drops the error.
Offer(s) ==
    /\ panicked' = chanClosed
    /\ errChan' = IF ~chanClosed /\ Len(errChan) < ErrChanCap
                  THEN Append(errChan, s) ELSE errChan

\* Fault variant: the error path returns without wg.Done.
ReportErrorNoDone(s) ==
    /\ spc[s] = "report"
    /\ Offer(s)
    /\ spc' = [spc EXCEPT ![s] = "done"]
    /\ UNCHANGED <<gpc, wg, chanClosed, shutdownDone, ctxExpired, failed, result, tailVars>>

ReportError(s) ==
    /\ spc[s] = "report"
    /\ Offer(s)
    /\ AfterReport(s)
    /\ UNCHANGED <<gpc, chanClosed, shutdownDone, ctxExpired, failed, result, tailVars>>

\* proxy.Shutdown(ctx) waits for the connections or the deadline; its
\* error is only logged.
DrainTCP(s) ==
    /\ spc[s] = "drain"
    /\ Finish(s)
    /\ UNCHANGED <<gpc, errChan, chanClosed, shutdownDone, ctxExpired,
                   failed, result, panicked, tailVars>>

\* The shutdown deadline passes.
Expire ==
    /\ ~ctxExpired
    /\ ctxExpired' = TRUE
    /\ UNCHANGED <<gpc, spc, wg, errChan, chanClosed, shutdownDone, failed,
                   result, panicked, tailVars>>

\* gracefulShutdown has returned.
Returned == gpc = "returned" /\ UNCHANGED vars

Next ==
    \/ \E s \in Servers : StartShutdown(s) \/ ShutdownServer(s)
                          \/ ReportError(s) \/ DrainTCP(s)
    \/ SpawnDone \/ Waiter \/ Select \/ CloseAndCount
    \/ StopBeating \/ DeRegister \/ Disconnect
    \/ Expire \/ Returned

\* Every goroutine runs to its end: Shutdown and proxy.Shutdown return by
\* the deadline at the latest.  The deadline itself is not assumed.
Fairness ==
    /\ \A s \in Servers : WF_vars(StartShutdown(s) \/ ShutdownServer(s)
                                  \/ ReportError(s) \/ DrainTCP(s))
    /\ WF_vars(SpawnDone) /\ WF_vars(Waiter) /\ WF_vars(Select)
    /\ WF_vars(CloseAndCount)
    /\ WF_vars(StopBeating) /\ WF_vars(DeRegister) /\ WF_vars(Disconnect)

Spec == Init /\ [][Next]_vars /\ Fairness

-----------------------------------------------------------------------------
(* Properties                                                              *)

\* "Wait for goroutines to finish even after timeout to prevent panic":
\* no server goroutine ever sends on errChan after gracefulShutdown closed it.
NoSendOnClosedChannel == ~panicked

\* Configured sessions ended on a clean shutdown.
Configured == {r \in {"dashboard", "mdcb"} :
                  (r = "dashboard" /\ conf.db) \/ (r = "mdcb" /\ conf.rpc)}

\* gracefulShutdown returns an error exactly when some HTTP server failed to
\* shut down or some TCP listener failed to close, even when more fail
\* than errChan can buffer (the select's default drops the rest); and it
\* ends the dashboard and MDCB sessions it is configured with exactly when
\* it returns nil: after a server error the early return leaves the node
\* registered with both.
ShutdownReportsFailures ==
    gpc = "returned" =>
        /\ result = "error" <=> failed # {}
        /\ released = IF failed = {} THEN Configured ELSE {}

\* gracefulShutdown always returns, whether or not the deadline passes.
ShutdownReturns == <>(gpc = "returned")
=============================================================================
