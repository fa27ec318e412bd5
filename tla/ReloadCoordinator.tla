------------------------- MODULE ReloadCoordinator -------------------------
(***************************************************************************)
(* The gateway's hot-reload machinery (gateway/server.go).                 *)
(*                                                                         *)
(*  - reloadURLStructure(done) sends `done` on the unbuffered channel      *)
(*    gw.reloadQueue and blocks until reloadQueueLoop receives it;         *)
(*  - reloadQueueLoop appends every received callback to gw.requeue;       *)
(*  - reloadLoop, on every tick, drains gw.requeue (shouldReload), runs    *)
(*    DoReload, and then calls every drained callback;                     *)
(*  - DoReload, under gw.reloadMu, syncs policies then API definitions,    *)
(*    each with syncResourcesWithReload's retries and RPC emergency mode,  *)
(*    skips the rebuild when the source and the registry are both empty,   *)
(*    and otherwise rebuilds the registry (loadGlobalApps);                *)
(*  - DoReload is also called directly, outside the loop, by startServer   *)
(*    and by the dashboard Register handler: process "direct".             *)
(*                                                                         *)
(* The configuration source (dashboard or RPC) is the environment: a       *)
(* history of API sets, one per version, that may grow, and a flag saying  *)
(* whether it answers.  Policies are abstracted to the source version they *)
(* were read from.                                                         *)
(***************************************************************************)
EXTENDS Naturals, Sequences, SequencesExt, FiniteSets

CONSTANTS
    Callbacks,         \* the `done` functions handed to reloadURLStructure
    Apis,              \* API ids the source may serve
    InvalidApis,       \* definitions that fail APISpec.Validate
    MaxSourceVersion,  \* bound on the number of source states
    RetryAttempts,     \* conf.ResourceSync.RetryAttempts
    UseRPC             \* conf.SlaveOptions.UseRPC

ASSUME /\ InvalidApis \subseteq Apis
       /\ MaxSourceVersion \in Nat \ {0}
       /\ RetryAttempts \in Nat
       /\ UseRPC \in BOOLEAN

Procs     == {"loop", "direct"}
NoProc    == "none"
Resources == {"policies", "apis"}
\* attempt number of the extra try made after EnableEmergencyMode(true)
EmergencyAttempt == RetryAttempts + 2

VARIABLES
    reloadQueue,   \* callbacks whose sender is blocked on gw.reloadQueue
    requeue,       \* gw.requeue
    cb,            \* the callbacks reloadLoop drained for the current cycle
    invoked,       \* number of times each callback has been called
    queuedAt,      \* source version current when the callback was sent (0: never)
    reloadMu,      \* holder of gw.reloadMu
    pc,            \* control point of each DoReload caller
    attempt,       \* loop counter i of syncResourcesWithReload
    syncCalls,     \* history: syncFunc calls of the caller's current sync
    outcome,       \* how the caller's last DoReload ended: "ok", "backup", "failed"
    apiSpecs,      \* gw.apiSpecs (ids of the validated definitions)
    apisByID,      \* the loaded registry built by loadGlobalApps
    policiesByID,  \* gw.policiesByID, as the source version it was read from
    performedSuccessfulReload,
    emergency,     \* rpc.IsEmergencyMode()
    backup,        \* source version of the last RPC backup of each resource (0: none)
    srcHist,       \* srcHist[v]: the API set the source serves at version v
    srcUp,         \* the source answers requests
    ctxDone,       \* gw.ctx has been cancelled
    queueLoopUp    \* reloadQueueLoop has not returned

queueVars  == <<reloadQueue, requeue, cb, invoked, queuedAt>>
reloadVars == <<reloadMu, pc, attempt, syncCalls, outcome>>
regVars    == <<apiSpecs, apisByID, policiesByID, performedSuccessfulReload>>
rpcVars    == <<emergency, backup>>
srcVars    == <<srcHist, srcUp>>
ctxVars    == <<ctxDone, queueLoopUp>>
vars == <<queueVars, reloadVars, regVars, rpcVars, srcVars, ctxVars>>

SrcVersion == Len(srcHist)
Versions   == 0..MaxSourceVersion

\* syncAPISpecs keeps the definitions that pass Validate
Valid(apis) == apis \ InvalidApis

TypeOK ==
    /\ reloadQueue \subseteq Callbacks
    /\ requeue \in Seq(Callbacks) /\ cb \in Seq(Callbacks)
    /\ invoked \in [Callbacks -> Nat]
    /\ queuedAt \in [Callbacks -> Versions]
    /\ reloadMu \in Procs \cup {NoProc}
    /\ pc \in [Procs -> {"idle", "lock", "policies", "apis", "load", "callbacks", "exited"}]
    /\ attempt \in [Procs -> 0..EmergencyAttempt]
    /\ syncCalls \in [Procs -> 0..EmergencyAttempt]
    /\ outcome \in [Procs -> {"ok", "backup", "failed"}]
    /\ apiSpecs \subseteq Apis /\ apisByID \subseteq Apis
    /\ policiesByID \in Versions
    /\ performedSuccessfulReload \in BOOLEAN
    /\ emergency \in BOOLEAN
    /\ backup \in [Resources -> Versions]
    /\ srcHist \in Seq(SUBSET Apis) /\ SrcVersion \in 1..MaxSourceVersion
    /\ srcUp \in BOOLEAN
    /\ ctxDone \in BOOLEAN /\ queueLoopUp \in BOOLEAN

Init ==
    /\ reloadQueue = {} /\ requeue = <<>> /\ cb = <<>>
    /\ invoked = [c \in Callbacks |-> 0]
    /\ queuedAt = [c \in Callbacks |-> 0]
    /\ reloadMu = NoProc
    /\ pc = [p \in Procs |-> "idle"]
    /\ attempt = [p \in Procs |-> 0]
    /\ syncCalls = [p \in Procs |-> 0]
    /\ outcome = [p \in Procs |-> "ok"]
    /\ apiSpecs = {} /\ apisByID = {} /\ policiesByID = 0
    /\ performedSuccessfulReload = FALSE
    /\ emergency = FALSE
    /\ backup = [r \in Resources |-> 0]
    /\ srcHist \in {<<s>> : s \in SUBSET Apis}
    /\ srcUp \in BOOLEAN
    /\ ctxDone = FALSE /\ queueLoopUp = TRUE

-----------------------------------------------------------------------------
(* Queueing a reload                                                       *)

\* reloadURLStructure: the caller blocks sending `done` on the channel.
reloadURLStructure(c) ==
    /\ queuedAt[c] = 0
    /\ reloadQueue' = reloadQueue \cup {c}
    /\ queuedAt' = [queuedAt EXCEPT ![c] = SrcVersion]
    /\ UNCHANGED <<requeue, cb, invoked, reloadVars, regVars, rpcVars, srcVars, ctxVars>>

\* reloadQueueLoop receives one send and appends it to gw.requeue.
reloadQueueLoop(c) ==
    /\ queueLoopUp
    /\ c \in reloadQueue
    /\ reloadQueue' = reloadQueue \ {c}
    /\ requeue' = Append(requeue, c)
    /\ UNCHANGED <<cb, invoked, queuedAt, reloadVars, regVars, rpcVars, srcVars, ctxVars>>

\* shouldReload: take the whole queue and reset it.
shouldReload == requeue

\* reloadLoop's tick: when callbacks are queued, drain them and start DoReload.
reloadLoopTick ==
    /\ pc["loop"] = "idle"
    /\ requeue # <<>>
    /\ cb' = shouldReload
    /\ requeue' = <<>>
    /\ pc' = [pc EXCEPT !["loop"] = "lock"]
    /\ UNCHANGED <<reloadQueue, invoked, queuedAt, reloadMu, attempt, syncCalls, outcome,
                   regVars, rpcVars, srcVars, ctxVars>>

\* startServer or the dashboard Register handler calls DoReload directly.
DirectDoReload ==
    /\ pc["direct"] = "idle"
    /\ pc' = [pc EXCEPT !["direct"] = "lock"]
    /\ UNCHANGED <<queueVars, reloadMu, attempt, syncCalls, outcome, regVars, rpcVars, srcVars, ctxVars>>

-----------------------------------------------------------------------------
(* Cancellation of gw.ctx                                                  *)

\* Start's shutdown goroutine calls cancel() on the first signal.
CtxCancel ==
    /\ ~ctxDone
    /\ ctxDone' = TRUE
    /\ UNCHANGED <<queueVars, reloadVars, regVars, rpcVars, srcVars, queueLoopUp>>

\* reloadQueueLoop's select takes <-gw.ctx.Done() and returns; when a send is
\* ready as well, select picks either case.  A sender still blocked on the
\* unbuffered gw.reloadQueue then never returns.
reloadQueueLoopExit ==
    /\ ctxDone /\ queueLoopUp
    /\ queueLoopUp' = FALSE
    /\ UNCHANGED <<queueVars, reloadVars, regVars, rpcVars, srcVars, ctxDone>>

\* Fault variant: the loop also checks gw.ctx between DoReload and the
\* callbacks it drained, and returns without calling them.
reloadLoopExitBeforeCallbacks ==
    /\ ctxDone /\ pc["loop"] \in {"idle", "callbacks"}
    /\ pc' = [pc EXCEPT !["loop"] = "exited"]
    /\ UNCHANGED <<queueVars, reloadMu, attempt, syncCalls, outcome, regVars, rpcVars, srcVars, ctxVars>>

\* reloadLoop's select takes <-gw.ctx.Done() and returns.  It is only
\* reached between cycles: once in the tick case, the cycle runs DoReload
\* and every drained callback without looking at gw.ctx.
reloadLoopExit ==
    /\ ctxDone /\ pc["loop"] = "idle"
    /\ pc' = [pc EXCEPT !["loop"] = "exited"]
    /\ UNCHANGED <<queueVars, reloadMu, attempt, syncCalls, outcome, regVars, rpcVars, srcVars, ctxVars>>

-----------------------------------------------------------------------------
(* DoReload                                                                *)

\* where a caller goes when DoReload returns
AfterReload(p) == IF p = "loop" THEN "callbacks" ELSE "idle"

DoReloadLock(p) ==
    /\ pc[p] = "lock"
    /\ reloadMu = NoProc
    /\ reloadMu' = p
    /\ pc' = [pc EXCEPT ![p] = "policies"]
    /\ attempt' = [attempt EXCEPT ![p] = 1]
    /\ syncCalls' = [syncCalls EXCEPT ![p] = 0]
    /\ outcome' = [outcome EXCEPT ![p] = "ok"]
    /\ UNCHANGED <<queueVars, regVars, rpcVars, srcVars, ctxVars>>

\* The source version one sync of resource r reads, 0 when the sync fails:
\* in emergency mode the RPC loaders read their local backup, otherwise
\* the request succeeds iff the source answers.
Fetched(r) ==
    IF UseRPC /\ emergency THEN backup[r]
    ELSE IF srcUp THEN SrcVersion ELSE 0

\* A successful live RPC load saves a backup of what it read; the write
\* may fail, and LoadPoliciesFromRPC only logs that error.
SaveBackup(r, v) ==
    IF UseRPC /\ ~emergency
    THEN backup' \in {[backup EXCEPT ![r] = v], backup}
    ELSE UNCHANGED backup

\* Fault variant: an early return that leaves reloadMu locked.
ReturnFromDoReloadKeepLock(p, o) ==
    /\ reloadMu' = reloadMu
    /\ pc' = [pc EXCEPT ![p] = AfterReload(p)]
    /\ outcome' = [outcome EXCEPT ![p] = o]

\* DoReload returns early or at its end, releasing reloadMu.
ReturnFromDoReload(p, o) ==
    /\ reloadMu' = NoProc
    /\ pc' = [pc EXCEPT ![p] = AfterReload(p)]
    /\ outcome' = [outcome EXCEPT ![p] = o]

\* Fault variant: the retry loop without its bound on the attempt count.
SyncFailedUnbounded(p) ==
    \/ /\ attempt' = [attempt EXCEPT ![p] = @ + 1]
       /\ UNCHANGED <<reloadMu, pc, outcome, emergency>>
    \/ /\ attempt[p] = RetryAttempts + 1
       /\ UseRPC
       /\ emergency' = TRUE
       /\ attempt' = [attempt EXCEPT ![p] = EmergencyAttempt]
       /\ UNCHANGED <<reloadMu, pc, outcome>>
    \/ /\ \/ attempt[p] = RetryAttempts + 1 /\ ~UseRPC
          \/ attempt[p] = EmergencyAttempt
       /\ ReturnFromDoReload(p, "failed")
       /\ UNCHANGED <<attempt, emergency>>

\* Fault variant: the last-attempt check one iteration early
\* (i == RetryAttempts), as a loop written for RetryAttempts tries would have.
SyncFailedLastEarly(p) ==
    \/ /\ attempt[p] < RetryAttempts
       /\ attempt' = [attempt EXCEPT ![p] = @ + 1]
       /\ UNCHANGED <<reloadMu, pc, outcome, emergency>>
    \/ /\ attempt[p] = RetryAttempts
       /\ UseRPC
       /\ emergency' = TRUE
       /\ attempt' = [attempt EXCEPT ![p] = EmergencyAttempt]
       /\ UNCHANGED <<reloadMu, pc, outcome>>
    \/ /\ \/ attempt[p] = RetryAttempts /\ ~UseRPC
          \/ attempt[p] = EmergencyAttempt
       /\ ReturnFromDoReload(p, "failed")
       /\ UNCHANGED <<attempt, emergency>>

\* One failed attempt of syncResourcesWithReload: retry, switch to
\* emergency mode after the last regular attempt (RPC only), or give up.
SyncFailed(p) ==
    \/ /\ attempt[p] < RetryAttempts + 1
       /\ attempt' = [attempt EXCEPT ![p] = @ + 1]
       /\ UNCHANGED <<reloadMu, pc, outcome, emergency>>
    \/ /\ attempt[p] = RetryAttempts + 1
       /\ UseRPC
       /\ emergency' = TRUE
       /\ attempt' = [attempt EXCEPT ![p] = EmergencyAttempt]
       /\ UNCHANGED <<reloadMu, pc, outcome>>
    \/ /\ \/ attempt[p] = RetryAttempts + 1 /\ ~UseRPC
          \/ attempt[p] = EmergencyAttempt
       /\ ReturnFromDoReload(p, "failed")
       /\ UNCHANGED <<attempt, emergency>>

\* outcome once data of this sync came from the backup
Source(p) == IF UseRPC /\ emergency THEN "backup" ELSE outcome[p]

\* syncPolicies under syncResourcesWithReload.
SyncPolicies(p) ==
    /\ pc[p] = "policies"
    /\ LET v == Fetched("policies") IN
       \/ /\ v # 0
          /\ policiesByID' = v
          /\ SaveBackup("policies", v)
          /\ pc' = [pc EXCEPT ![p] = "apis"]
          /\ attempt' = [attempt EXCEPT ![p] = 1]
          /\ syncCalls' = [syncCalls EXCEPT ![p] = 0]
          /\ outcome' = [outcome EXCEPT ![p] = Source(p)]
          /\ UNCHANGED <<reloadMu, emergency>>
       \/ /\ v = 0
          /\ SyncFailed(p)
          /\ syncCalls' = [syncCalls EXCEPT ![p] = @ + 1]
          /\ UNCHANGED <<policiesByID, backup>>
    /\ UNCHANGED <<queueVars, apiSpecs, apisByID, performedSuccessfulReload, srcVars, ctxVars>>

\* Fault variant: the rebuild is skipped whenever the source has no APIs,
\* without looking at the current registry.
SyncAPIsSkipOnZero(p) ==
    /\ pc[p] = "apis"
    /\ LET v == Fetched("apis") IN
       \/ /\ v # 0
          /\ apiSpecs' = Valid(srcHist[v])
          /\ SaveBackup("apis", v)
          /\ attempt' = [attempt EXCEPT ![p] = 0]
          /\ syncCalls' = [syncCalls EXCEPT ![p] = 0]
          /\ UNCHANGED emergency
          /\ IF Valid(srcHist[v]) = {}
             THEN /\ performedSuccessfulReload' = TRUE
                  /\ ReturnFromDoReload(p, Source(p))
             ELSE /\ pc' = [pc EXCEPT ![p] = "load"]
                  /\ outcome' = [outcome EXCEPT ![p] = Source(p)]
                  /\ UNCHANGED <<reloadMu, performedSuccessfulReload>>
       \/ /\ v = 0
          /\ SyncFailed(p)
          /\ syncCalls' = [syncCalls EXCEPT ![p] = @ + 1]
          /\ UNCHANGED <<apiSpecs, backup, performedSuccessfulReload>>
    /\ UNCHANGED <<queueVars, apisByID, policiesByID, srcVars, ctxVars>>

\* syncAPISpecs under syncResourcesWithReload, then DoReload's check that
\* skips the rebuild when both the source and the registry have no APIs.
SyncAPIs(p) ==
    /\ pc[p] = "apis"
    /\ LET v == Fetched("apis") IN
       \/ /\ v # 0
          /\ apiSpecs' = Valid(srcHist[v])
          /\ SaveBackup("apis", v)
          /\ attempt' = [attempt EXCEPT ![p] = 0]
          /\ syncCalls' = [syncCalls EXCEPT ![p] = 0]
          /\ UNCHANGED emergency
          /\ IF Valid(srcHist[v]) = {} /\ apisByID = {}
             THEN /\ performedSuccessfulReload' = TRUE
                  /\ ReturnFromDoReload(p, Source(p))
             ELSE /\ pc' = [pc EXCEPT ![p] = "load"]
                  /\ outcome' = [outcome EXCEPT ![p] = Source(p)]
                  /\ UNCHANGED <<reloadMu, performedSuccessfulReload>>
       \/ /\ v = 0
          /\ SyncFailed(p)
          /\ syncCalls' = [syncCalls EXCEPT ![p] = @ + 1]
          /\ UNCHANGED <<apiSpecs, backup, performedSuccessfulReload>>
    /\ UNCHANGED <<queueVars, apisByID, policiesByID, srcVars, ctxVars>>

\* loadGlobalApps rebuilds the registry from gw.apiSpecs; DoReload ends.
loadGlobalApps(p) ==
    /\ pc[p] = "load"
    /\ apisByID' = apiSpecs
    /\ performedSuccessfulReload' = TRUE
    /\ ReturnFromDoReload(p, outcome[p])
    /\ UNCHANGED <<queueVars, attempt, syncCalls, apiSpecs, policiesByID, rpcVars, srcVars, ctxVars>>

\* reloadLoop calls every drained callback after DoReload returned.
InvokeCallbacks ==
    /\ pc["loop"] = "callbacks"
    /\ invoked' = [c \in Callbacks |->
                      IF c \in ToSet(cb) THEN invoked[c] + 1 ELSE invoked[c]]
    /\ cb' = <<>>
    /\ pc' = [pc EXCEPT !["loop"] = "idle"]
    /\ UNCHANGED <<reloadQueue, requeue, queuedAt, reloadMu, attempt, syncCalls, outcome,
                   regVars, rpcVars, srcVars, ctxVars>>

-----------------------------------------------------------------------------
(* The configuration source                                                *)

SourceChange ==
    /\ SrcVersion < MaxSourceVersion
    /\ \E s \in SUBSET Apis : srcHist' = Append(srcHist, s)
    /\ UNCHANGED <<queueVars, reloadVars, regVars, rpcVars, srcUp, ctxVars>>

SourceOutage ==
    /\ srcUp' = ~srcUp
    /\ UNCHANGED <<queueVars, reloadVars, regVars, rpcVars, srcHist, ctxVars>>

\* The RPC client leaves emergency mode once it reaches the source again.
RPCReconnect ==
    /\ UseRPC /\ emergency /\ srcUp
    /\ emergency' = FALSE
    /\ UNCHANGED <<queueVars, reloadVars, regVars, backup, srcVars, ctxVars>>

-----------------------------------------------------------------------------
DoReloadStep(p) == DoReloadLock(p) \/ SyncPolicies(p) \/ SyncAPIs(p) \/ loadGlobalApps(p)

Next ==
    \/ \E c \in Callbacks : reloadURLStructure(c) \/ reloadQueueLoop(c)
    \/ reloadLoopTick
    \/ DirectDoReload
    \/ \E p \in Procs : DoReloadStep(p)
    \/ InvokeCallbacks
    \/ CtxCancel \/ reloadQueueLoopExit \/ reloadLoopExit
    \/ SourceChange \/ SourceOutage \/ RPCReconnect

\* reloadQueueLoop and reloadLoop run until gw.ctx is cancelled (time.Tick
\* keeps firing); a DoReload in progress, and the callbacks after it, run
\* to their end.  Cancellation is a signal to the process: no fairness.  gw.reloadMu is a sync.Mutex,
\* whose starvation mode hands the lock to a waiter blocked for over 1ms:
\* the loop's acquisition is strongly fair against repeated direct reloads.
Fairness ==
    /\ \A c \in Callbacks : WF_vars(reloadQueueLoop(c))
    /\ WF_vars(reloadLoopTick)
    /\ WF_vars(InvokeCallbacks)
    /\ SF_vars(DoReloadLock("loop"))
    /\ \A p \in Procs : WF_vars(SyncPolicies(p) \/ SyncAPIs(p) \/ loadGlobalApps(p))

Spec == Init /\ [][Next]_vars /\ Fairness

-----------------------------------------------------------------------------
(* Properties                                                              *)

\* The registry holds every change the source had made when callback c was
\* queued: policies at least that new, and the APIs of that or a later version.
Fresh(c) ==
    /\ policiesByID >= queuedAt[c]
    /\ \E v \in queuedAt[c]..SrcVersion : apisByID = Valid(srcHist[v])

\* A step of reloadLoop that calls callback c.
Calls(c) == invoked'[c] > invoked[c]

\* When the loop's DoReload returns after reading live data, the registry
\* holds every change the source had made when each callback drained for
\* this cycle was queued: shouldReload drains gw.requeue before DoReload
\* starts, the syncs read the source afterwards, and the empty-registry
\* check never keeps stale APIs (reloadURLStructure's doc comment: done is
\* called when the reload is finished).
ReloadCoversDrainedCallbacks ==
    [][pc["loop"] # "callbacks" /\ pc'["loop"] = "callbacks" /\ outcome'["loop"] = "ok"
         => \A c \in ToSet(cb) : Fresh(c)']_vars

\* Spec 4.9: queued callbacks are invoked only on complete success, i.e.
\* whenever a callback runs the registry holds the changes it was queued for.
CallbackOnlyAfterSuccess ==
    [][\A c \in Callbacks : Calls(c) => Fresh(c)]_vars

\* Once reloadLoop has drained a callback from gw.requeue, the callback is
\* called even if gw.ctx is cancelled meanwhile: the loop only looks at
\* gw.ctx between cycles, and the cycle's DoReload always returns.
DrainedCallbackCalled ==
    \A c \in Callbacks : (c \in ToSet(cb)) ~> (invoked[c] > 0)

\* The promise of reloadURLStructure's doc comment, as ReloadService states
\* it: a queued reload is pending until its `done` is called once by a
\* finished reload, and every pending one is called while gw.ctx is live.
\* A callback is pending from its send until it is called.
Abstract == INSTANCE ReloadService WITH
    pending   <- {c \in Callbacks : queuedAt[c] # 0 /\ invoked[c] = 0},
    calls     <- invoked,
    cancelled <- ctxDone

ReloadServiceSpec == Abstract!Spec

\* syncResourcesWithReload gives a resource RetryAttempts+1 calls of its
\* sync function and, under RPC, one more after EnableEmergencyMode(true):
\* when DoReload returns "failed", the failing sync has made exactly that
\* many calls, whether emergency mode was already on or the backup was
\* empty, and whichever of policies or APIs failed.
RetryBudget ==
    [][\A p \in Procs :
         pc[p] \in {"policies", "apis"} /\ outcome'[p] = "failed"
            => syncCalls'[p] = RetryAttempts + 1 + (IF UseRPC THEN 1 ELSE 0)]_vars

\* Once policies of a source version are served, a later reload never
\* installs older ones (emergency mode reads the RPC backup, which is meant
\* to hold the last policies loaded).
PoliciesNeverRegress == [][policiesByID' >= policiesByID]_policiesByID
=============================================================================
