-------------------------- MODULE DashboardSession --------------------------
(***************************************************************************)
(* The gateway's session with the dashboard (gateway/dashboard_register.go *)
(* and the dashboard steps of server.go and policy.go).                    *)
(*                                                                         *)
(*  - handleDashboardRegistration: Register(gw.ctx), then StartBeating in  *)
(*    a new goroutine;                                                     *)
(*  - StartBeating loops: stop on ctx.Done or the stop sentinel, else      *)
(*    sendHeartBeat; a 403 answer makes the loop call Register;            *)
(*  - Register retries every failure until ctx is done;                    *)
(*  - LoadPoliciesFromDashboard (every DoReload), DeRegister and           *)
(*    sendHeartBeat read gw.ServiceNonce when building the request and     *)
(*    store the nonce of a 200 answer when it arrives;                     *)
(*  - reLogin: StopBeating, DeRegister, Register(Background), then a new   *)
(*    StartBeating goroutine;                                              *)
(*  - the shutdown goroutine of Start: cancel gw.ctx, gracefulShutdown,    *)
(*    which returns early if a server failed to shut down and otherwise    *)
(*    stops the heartbeat and deregisters.                                 *)
(*                                                                         *)
(* The dashboard answers from the interface of spec section 5: a request   *)
(* that carries the current nonce of a registered node is accepted and     *)
(* answered with a new nonce, any other is forbidden (403); a              *)
(* registration is always accepted.  A request may also fail, before or   *)
(* after the dashboard has served it.                                      *)
(***************************************************************************)
EXTENDS Naturals, FiniteSets

CONSTANTS
    Beats,        \* StartBeating goroutines
    StartupBeat,  \* the one handleDashboardRegistration starts with gw.ctx
    ReLogin       \* whether reLogin is ever called

Workers == {"main", "loader", "relogin", "shutdown"}
Procs   == Beats \cup Workers

ASSUME /\ StartupBeat \in Beats
       /\ Beats \cap Workers = {}
       /\ ReLogin \in BOOLEAN

\* Nonces are compared for equality only.  Each process holds at most one
\* request or answer, so this many values always leave one unused.
NoNonce == 0
Nonces  == 1..(Cardinality(Procs) + 2)

Kinds == {"register", "ping", "policies", "deregister"}
NoReq  == [kind |-> "none", nonce |-> NoNonce]
NoResp == [code |-> "none", nonce |-> NoNonce]

VARIABLES
    pc,            \* control point of each goroutine
    ServiceNonce,  \* gw.ServiceNonce
    sentinel,      \* heartBeatStopSentinel
    ctxDone,       \* gw.ctx has been cancelled
    req,           \* the request each goroutine has sent, not yet served
    resp,          \* the answer each goroutine has not yet read
    registered,    \* the dashboard holds the node as registered
    dashNonce      \* the nonce the dashboard expects next

gwVars   == <<pc, ServiceNonce, sentinel, ctxDone>>
netVars  == <<req, resp>>
dashVars == <<registered, dashNonce>>
vars == <<gwVars, netVars, dashVars>>

TypeOK ==
    /\ pc \in [Procs -> {"idle", "start", "loop", "ping", "reg", "wait",
                          "dereg", "servers", "done", "exit"}]
    /\ ServiceNonce \in Nonces \cup {NoNonce}
    /\ sentinel \in {"started", "stopped"}
    /\ ctxDone \in BOOLEAN
    /\ req \in [Procs -> [kind : Kinds \cup {"none"}, nonce : Nonces \cup {NoNonce}]]
    /\ resp \in [Procs -> [code : {"none", "ok", "forbidden", "err", "garbled"},
                           nonce : Nonces \cup {NoNonce}]]
    /\ registered \in BOOLEAN
    /\ dashNonce \in Nonces \cup {NoNonce}

\* Beats start "idle" (not yet spawned); HeartBeatStarted is the zero value.
Init ==
    /\ pc = [p \in Procs |-> "idle"]
    /\ ServiceNonce = NoNonce
    /\ sentinel = "started"
    /\ ctxDone = FALSE
    /\ req = [p \in Procs |-> NoReq]
    /\ resp = [p \in Procs |-> NoResp]
    /\ registered = FALSE
    /\ dashNonce = NoNonce

\* Start exits once gracefulShutdown has returned and its own goroutine is
\* through startServer, whose handleDashboardRegistration may still be in
\* Register when the signal arrives.
Running == pc["shutdown"] # "done" \/ pc["main"] # "done"

\* the context a goroutine's Register and loop observe
CtxCancelled(p) == ctxDone /\ p \in {"main", StartupBeat}

\* A request built now: every call but Register sends the stored nonce.
Send(p, k) ==
    req' = [req EXCEPT ![p] = [kind |-> k,
                               nonce |-> IF k = "register" THEN NoNonce ELSE ServiceNonce]]

\* Reading the answer of p.
Answered(p) == resp[p].code # "none"
Consume(p)  == resp' = [resp EXCEPT ![p] = NoResp]

\* A 200 answer's nonce is stored; any other answer leaves it alone.
StoreNonce(p) ==
    ServiceNonce' = IF resp[p].code = "ok" THEN resp[p].nonce ELSE ServiceNonce

InUse == {ServiceNonce, dashNonce} \cup {req[p].nonce : p \in Procs}
                                   \cup {resp[p].nonce : p \in Procs}
NewNonce == CHOOSE n \in Nonces \ InUse : TRUE

-----------------------------------------------------------------------------
(* Register                                                                *)

\* the beat id reLogin will start (one not yet spawned)
NextBeat == CHOOSE b \in Beats \ {StartupBeat} : pc[b] = "idle"

\* Where each caller continues when Register returns: after startup
\* registration handleDashboardRegistration starts the heartbeat whatever
\* Register returned; reLogin starts a new heartbeat goroutine only if
\* Register returned nil, and queues a reload; sendHeartBeat returns to the
\* heartbeat loop.
ReturnFromRegister(p) ==
    pc' = CASE p = "main"    -> [pc EXCEPT !["main"] = "done", ![StartupBeat] = "start"]
            [] p = "relogin" /\ resp[p].code = "ok"
                             -> [pc EXCEPT !["relogin"] = "idle", ![NextBeat] = "start"]
            [] p = "relogin" -> [pc EXCEPT !["relogin"] = "idle"]
            [] OTHER         -> [pc EXCEPT ![p] = "loop"]

\* Fault variant: a failed request is returned as Register's error instead
\* of being retried.
RegisterReturnsOnError(p) ==
    resp[p].code \in {"ok", "garbled", "err"} \/ CtxCancelled(p)

\* Register returns: with the nonce of a decoded 200, with the error of a
\* 200 whose body fails to decode, or with ctx.Err() once ctx is done.
RegisterReturns(p) == resp[p].code \in {"ok", "garbled"} \/ CtxCancelled(p)

\* handleDashboardRegistration calls Register(gw.ctx).
handleDashboardRegistration ==
    /\ pc["main"] = "idle"
    /\ Send("main", "register")
    /\ pc' = [pc EXCEPT !["main"] = "reg"]
    /\ UNCHANGED <<ServiceNonce, sentinel, ctxDone, resp, dashVars>>

\* Register reads the answer: on success it stores the node id and the
\* nonce and returns; a body that fails to decode is returned as an error
\* at once; on a failed request or a non-200 answer (or no NodeID) it
\* returns ctx.Err() once ctx is done, and otherwise waits 5s and calls
\* itself again.
Register(p) ==
    /\ Running
    /\ pc[p] = "reg" /\ Answered(p)
    /\ Consume(p)
    /\ \/ /\ RegisterReturns(p)
          /\ StoreNonce(p)
          /\ ReturnFromRegister(p)
          /\ UNCHANGED req
       \/ /\ ~RegisterReturns(p)
          /\ Send(p, "register")
          /\ UNCHANGED <<pc, ServiceNonce>>
    /\ UNCHANGED <<sentinel, ctxDone, dashVars>>

-----------------------------------------------------------------------------
(* The heartbeat                                                           *)

\* StartBeating, first statement of the new goroutine: reset the sentinel.
StartBeating(b) ==
    /\ Running
    /\ pc[b] = "start"
    /\ sentinel' = "started"
    /\ pc' = [pc EXCEPT ![b] = "loop"]
    /\ UNCHANGED <<ServiceNonce, ctxDone, netVars, dashVars>>

\* One turn of StartBeating's loop: leave on ctx.Done, leave when the
\* sentinel says stopped, or send a heartbeat with the stored nonce.
BeatLoop(b) ==
    /\ Running
    /\ pc[b] = "loop"
    /\ \/ /\ CtxCancelled(b) \/ sentinel = "stopped"
          /\ pc' = [pc EXCEPT ![b] = "exit"]
          /\ UNCHANGED req
       \/ /\ ~CtxCancelled(b) /\ sentinel = "started"
          /\ Send(b, "ping")
          /\ pc' = [pc EXCEPT ![b] = "ping"]
    /\ UNCHANGED <<ServiceNonce, sentinel, ctxDone, resp, dashVars>>

\* Fault variant: a 403 is treated like any other failed heartbeat.
sendHeartBeatNoRegister(b) ==
    /\ Running
    /\ pc[b] = "ping" /\ Answered(b)
    /\ Consume(b)
    /\ StoreNonce(b)
    /\ pc' = [pc EXCEPT ![b] = "loop"]
    /\ UNCHANGED <<req, sentinel, ctxDone, dashVars>>

\* sendHeartBeat reads the answer: 403 calls Register(ctx); 200 stores the
\* new nonce; any other result is logged and the loop goes on.
sendHeartBeat(b) ==
    /\ Running
    /\ pc[b] = "ping" /\ Answered(b)
    /\ Consume(b)
    /\ \/ /\ resp[b].code = "forbidden"
          /\ Send(b, "register")
          /\ pc' = [pc EXCEPT ![b] = "reg"]
          /\ UNCHANGED ServiceNonce
       \/ /\ resp[b].code # "forbidden"
          /\ StoreNonce(b)
          /\ pc' = [pc EXCEPT ![b] = "loop"]
          /\ UNCHANGED req
    /\ UNCHANGED <<sentinel, ctxDone, dashVars>>

-----------------------------------------------------------------------------
(* Policy loading, reLogin and shutdown                                    *)

\* A DoReload's LoadPoliciesFromDashboard sends the stored nonce.  reloadLoop
\* stops with gw.ctx, and the first DoReload follows startup registration.
LoadPoliciesFromDashboardSend ==
    /\ Running
    /\ pc["loader"] = "idle" /\ pc["main"] = "done" /\ ~ctxDone
    /\ Send("loader", "policies")
    /\ pc' = [pc EXCEPT !["loader"] = "wait"]
    /\ UNCHANGED <<ServiceNonce, sentinel, ctxDone, resp, dashVars>>

\* It stores the nonce of a 200 list; any other answer is an error.
LoadPoliciesFromDashboard ==
    /\ Running
    /\ pc["loader"] = "wait" /\ Answered("loader")
    /\ StoreNonce("loader")
    /\ Consume("loader")
    /\ pc' = [pc EXCEPT !["loader"] = "idle"]
    /\ UNCHANGED <<sentinel, ctxDone, req, dashVars>>

\* reLogin: StopBeating, then DeRegister with the stored nonce.
reLogin ==
    /\ Running /\ ReLogin
    /\ pc["relogin"] = "idle" /\ pc["main"] = "done"
    /\ \E b \in Beats \ {StartupBeat} : pc[b] = "idle"
    /\ sentinel' = "stopped"
    /\ Send("relogin", "deregister")
    /\ pc' = [pc EXCEPT !["relogin"] = "dereg"]
    /\ UNCHANGED <<ServiceNonce, ctxDone, resp, dashVars>>

\* DeRegister reads its answer and stores a 200's nonce.  reLogin then
\* sleeps and calls Register(context.Background()); gracefulShutdown is
\* finished.
DeRegister(p) ==
    /\ Running
    /\ pc[p] = "dereg" /\ Answered(p)
    /\ StoreNonce(p)
    /\ Consume(p)
    /\ IF p = "relogin"
       THEN /\ Send(p, "register")
            /\ pc' = [pc EXCEPT ![p] = "reg"]
       ELSE /\ pc' = [pc EXCEPT ![p] = "done"]
            /\ UNCHANGED req
    /\ UNCHANGED <<sentinel, ctxDone, dashVars>>

\* The signal goroutine of Start, running before startServer, cancels gw.ctx
\* and calls gracefulShutdown.
ShutdownSignal ==
    /\ pc["shutdown"] = "idle"
    /\ ctxDone' = TRUE
    /\ pc' = [pc EXCEPT !["shutdown"] = "servers"]
    /\ UNCHANGED <<ServiceNonce, sentinel, netVars, dashVars>>

\* gracefulShutdown after the servers: any shutdown error returns at once;
\* otherwise StopBeating, and (after 2s) DeRegister.
gracefulShutdown ==
    /\ pc["shutdown"] = "servers"
    /\ \/ /\ pc' = [pc EXCEPT !["shutdown"] = "done"]
          /\ UNCHANGED <<sentinel, req>>
       \/ /\ sentinel' = "stopped"
          /\ Send("shutdown", "deregister")
          /\ pc' = [pc EXCEPT !["shutdown"] = "dereg"]
    /\ UNCHANGED <<ServiceNonce, ctxDone, resp, dashVars>>

-----------------------------------------------------------------------------
(* The dashboard and the network                                           *)

Pending(p) == req[p].kind # "none"

\* The dashboard accepts a registration, and any other request that carries
\* the current nonce of a registered node.
Accepted(r) == r.kind = "register" \/ (registered /\ r.nonce = dashNonce)

\* What accepting r does on the dashboard: a new nonce, and the node
\* registered unless r is a deregistration.
Accept(r) ==
    /\ dashNonce' = NewNonce
    /\ registered' = (r.kind # "deregister")

DashboardServe(p) ==
    /\ Pending(p)
    /\ req' = [req EXCEPT ![p] = NoReq]
    /\ IF Accepted(req[p])
       THEN /\ Accept(req[p])
            /\ resp' = [resp EXCEPT ![p] = [code |-> "ok", nonce |-> NewNonce]]
       ELSE /\ resp' = [resp EXCEPT ![p] = [code |-> "forbidden", nonce |-> NoNonce]]
            /\ UNCHANGED dashVars
    /\ UNCHANGED gwVars

\* The request fails before reaching the dashboard, or the dashboard
\* served it and the client times out (http.Client.Timeout) before the
\* status arrives, or while json.Decode reads the 200's body ("garbled").
RequestFailed(p) ==
    /\ Pending(p)
    /\ req' = [req EXCEPT ![p] = NoReq]
    /\ \/ /\ resp' = [resp EXCEPT ![p] = [code |-> "err", nonce |-> NoNonce]]
          /\ UNCHANGED dashVars
       \/ /\ Accepted(req[p]) /\ Accept(req[p])
          /\ \E code \in {"err", "garbled"} :
                resp' = [resp EXCEPT ![p] = [code |-> code, nonce |-> NoNonce]]
    /\ UNCHANGED gwVars

\* After the process has exited nothing but the dashboard moves.
Exited == ~Running /\ UNCHANGED vars

-----------------------------------------------------------------------------
Next ==
    \/ handleDashboardRegistration
    \/ \E p \in Procs : Register(p)
    \/ \E b \in Beats : StartBeating(b) \/ BeatLoop(b) \/ sendHeartBeat(b)
    \/ LoadPoliciesFromDashboardSend \/ LoadPoliciesFromDashboard
    \/ reLogin \/ \E p \in {"relogin", "shutdown"} : DeRegister(p)
    \/ ShutdownSignal \/ gracefulShutdown
    \/ \E p \in Procs : DashboardServe(p) \/ RequestFailed(p)
    \/ Exited

\* Every goroutine keeps running; the dashboard eventually answers a request
\* that keeps being sent (strong fairness: a failure may come first any
\* finite number of times).  A heartbeat's registration is owed the same on
\* its own: served pings must not stand in for it, since a Register whose
\* body fails to decode returns to the loop instead of retrying.  No
\* fairness for the signal, for reLogin's callers, or for new policy loads.
Fairness ==
    /\ WF_vars(handleDashboardRegistration)
    /\ \A p \in Procs : WF_vars(Register(p))
    /\ \A b \in Beats : WF_vars(StartBeating(b) \/ BeatLoop(b) \/ sendHeartBeat(b))
    /\ WF_vars(LoadPoliciesFromDashboard)
    /\ \A p \in {"relogin", "shutdown"} : WF_vars(DeRegister(p))
    /\ WF_vars(gracefulShutdown)
    /\ \A p \in Procs : SF_vars(DashboardServe(p))
    /\ \A b \in Beats : SF_vars(req[b].kind = "register" /\ DashboardServe(b))

Spec == Init /\ [][Next]_vars /\ Fairness

-----------------------------------------------------------------------------
(* Properties                                                              *)

\* A registered node holding a stale nonce gets it back in sync: the next
\* heartbeat is forbidden and sendHeartBeat re-registers, unless the gateway
\* shuts down or the node is deregistered first.
StaleNonceHealed ==
    (registered /\ ServiceNonce # dashNonce)
        ~> (ServiceNonce = dashNonce \/ ctxDone \/ ~registered)

\* gracefulShutdown stops the heartbeat and deregisters the node: once the
\* process has exited with the node deregistered, it stays deregistered.
StaysDeregistered ==
    [][~Running /\ ~registered => ~registered']_vars

\* Once startup registration has returned, and while neither gracefulShutdown
\* nor reLogin is under way, the dashboard holds the node as registered:
\* Register retries every failed request and returns only after the
\* dashboard accepted a registration (a body that fails to decode included),
\* and reLogin registers again after its DeRegister.
RegisteredWhileServing ==
    pc["main"] = "done" /\ pc["shutdown"] = "idle" /\ pc["relogin"] = "idle"
        => registered

\* The heartbeat goroutines past StartBeating's swap of the sentinel and not
\* yet returned.
BeatingLoops == {b \in Beats : pc[b] \in {"loop", "ping", "reg"}}

\* The gateway runs one heartbeat loop at a time: StopBeating ends the
\* running loop before a new StartBeating begins another.
OneHeartbeatLoop == Cardinality(BeatingLoops) <= 1
====
