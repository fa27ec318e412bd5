# TLA+ models of the Tyk gateway's reload, dashboard and shutdown machinery

These modules model the parts of `src/gateway` (and the policy loaders in
`src/unnamed/part_001`, which is `policy.go`) where goroutines, retries,
fallbacks and remote answers interact. Each module is translated from the Go
source. `PROJECT.json` maps every definition to the lines it models and
lists the runs, the mutants, the findings and the hazards.

## The system

The gateway serves APIs from a registry (`gw.apisByID`) and policies
(`gw.policiesByID`). Both are loaded from a configuration source: the
dashboard (`UseDBAppConfigs`, `PolicySource = "service"`), an RPC control
plane (`SlaveOptions.UseRPC`), or local files.

- **Reload coordinator** (`server.go` 1052-1232).
  - `reloadURLStructure(done)` sends `done` on the unbuffered channel
    `gw.reloadQueue`. `reloadQueueLoop` receives it and appends it to
    `gw.requeue` under `requeueLock`.
  - On every tick, `reloadLoop` drains the queue (`shouldReload`), runs
    `DoReload` and `DoCoprocessReload`, then calls every drained callback.
  - `DoReload` holds `reloadMu` and syncs policies, then APIs, each through
    `syncResourcesWithReload`: `RetryAttempts+1` attempts, then in RPC mode
    `rpc.EnableEmergencyMode(true)` and one more attempt against the local
    backup. If the source reports no API and the registry is empty it
    stops; otherwise it rebuilds the registry (`loadGlobalApps`).
  - `DoReload` is also called directly by `startServer` and by the
    dashboard `Register` handler; these race the loop for `reloadMu`.
  - Both loops `select` on `gw.ctx.Done()` and return once `Start`'s
    shutdown goroutine has cancelled it. `reloadLoop` looks at the context
    only between cycles.
- **Policy loaders** (`policy.go`, `syncPolicies` in `server.go` 586-637).
  `syncPolicies` picks a loader by configuration: the dashboard (first of
  two duplicate IDs kept), RPC (last kept), a directory of `*.json` files,
  or one JSON file. On an error it keeps the old policies; otherwise it
  installs the loader's map whole.
- **Dashboard registration and heartbeat** (`dashboard_register.go`).
  `Register` retries a failed request or a non-200 answer until the
  dashboard answers with a NodeID, and returns the error of an answer
  whose body fails to decode.
  `StartBeating`/`StopBeating` drive the heartbeat loop through an atomic
  sentinel; a 403 answer to a heartbeat re-registers. `sendHeartBeat`,
  `DeRegister`, `Register` and the dashboard policy loader send
  `gw.ServiceNonce` and store the nonce of each answer. `reLogin` stops the
  heartbeat, deregisters, registers again and starts a new loop.
- **Graceful shutdown** (`server.go` 2112-2254, and the shutdown goroutine
  of `Start`). It cancels `gw.ctx`, shuts down every HTTP server and TCP
  proxy in its own goroutine (`shutdownHTTPServer`, `shutdownTCPProxy`),
  waits for them on a WaitGroup or for the deadline and then still for
  them, closes the caches and `errChan`, and counts the errors. If there
  were none, it stops the heartbeat, deregisters from the dashboard and
  disconnects from MDCB, as configured; on an error it returns at once.

## Modules

| module | models |
|---|---|
| `ReloadCoordinator` | the reload coordinator, and the configuration source as environment |
| `MCReloadCoordinator` | callbacks `c1 c2`, APIs `a1` (valid) and `a2` (fails `Validate`) |
| `ReloadService` | the abstract promise of `reloadURLStructure`'s doc comment, which `ReloadCoordinator` implements |
| `PolicyLoaders` | `syncPolicies` and the four loaders |
| `MCPolicyLoaders` | names `n1 n2` (MID hex values and explicit IDs), bodies `v1 v2` |
| `DashboardSession` | registration, heartbeat, nonce exchange, `reLogin`, the shutdown tail, and the dashboard as environment |
| `MCDashboardSession` | heartbeat goroutines `b1 b2` |
| `GracefulShutdown` | `gracefulShutdown`: the server fan-out, the error count and the dashboard and MDCB tail |
| `MCGracefulShutdown` | servers `s1 s2` (HTTP) and `s3` (TCP) |

The operators named `...NoReset`, `...KeepLock`, `...Unbounded`,
`...SkipOnZero`, `...BeforeCallbacks`, `...RetryKeepsAnswer`, `...NoRegister`, `...NoWait`,
`...Twice`, `...NoDone`, `...Unbuffered`, `...NoSkip` and
`...IgnoringError` are the mutated forms that the mutants in
`PROJECT.json` put in place of the real definitions.

### `ReloadCoordinator`

- `reloadQueue` holds the senders blocked in `reloadURLStructure`;
  `requeue` is `gw.requeue`; `cb` is the slice `reloadLoop` drained;
  `reloadMu` is the lock's holder.
- `pc`, `attempt` and `outcome` are each `DoReload` caller's control point,
  its loop counter `i` and how its last `DoReload` ended. The callers are
  `"loop"` (`reloadLoop`) and `"direct"` (`startServer`, `Register`).
  `syncCalls` is a history variable: the calls of the sync function the
  current resource's sync has made, reset when a sync starts or succeeds.
- `apiSpecs`, `apisByID`, `policiesByID` and `performedSuccessfulReload`
  are the gateway fields. Policies are abstracted to the source version
  they were read from.
- `emergency` is `rpc.IsEmergencyMode()`; `backup` is the version the
  backup holds. The source is `srcHist` (the API set of each version) and
  `srcUp`; `SourceChange`, `SourceOutage` and `RPCReconnect` are
  environment actions, modelled from the spec because the RPC client and
  the dashboard are not under `src/`.
- Each step of `DoReload` that another goroutine can run between is one
  action: `DoReloadLock`, `SyncPolicies`/`SyncAPIs` (one attempt each,
  failures through `SyncFailed`), `loadGlobalApps`.
- `ctxDone` is `gw.ctx` cancelled (`CtxCancel`, at any time) and
  `queueLoopUp` says `reloadQueueLoop` has not returned.
  - `reloadQueueLoopExit` and `reloadLoopExit` are the `ctx.Done()` cases
    of the two `select`s. They compete with a ready send or tick, as Go's
    random choice between ready cases does.
  - `reloadLoopExit` is enabled only at `"idle"`: a cycle under way
    finishes with its callbacks.
  - A sender that arrives after `reloadQueueLoop` returned stays in
    `reloadQueue`. That is a goroutine leaked until the process exits.

### `ReloadService` and the refinement

`ReloadService` is what a caller of `reloadURLStructure` is promised.
- A callback is `pending` from its `Request` until a `Complete(S)` calls
  every callback of a non-empty set `S` of pending ones once.
- `Cancel` is the shutdown.
- Weak fairness says a pending callback is completed while the gateway is
  not cancelled. A completion after cancellation is allowed, but not
  promised.

`ReloadCoordinator` maps onto it with:
- `pending` = the callbacks queued and not yet called;
- `calls` = `invoked`;
- `cancelled` = `ctxDone`.

The property `ReloadServiceSpec` is `Abstract!Spec` under this mapping.

### `PolicyLoaders`

A policy is its MID (as `MID.Hex()` gives it), its `ID` field and a body
standing for every other field. Each loader's loop is a `FoldLeft` over its
input: `KeepFirst` is the dashboard loop with its duplicate skip,
`Overwrite` the RPC loop, `DirStore` the directory loop with its
skip-on-open-error and store-on-decode-error. `syncPolicies` is one action,
because nothing else runs inside it; it chooses the input (any list of up to
`MaxPolicies` policies, any directory of up to `MaxPolicies` files), or an
error, and installs through `Install`. `input` records what the last
successful load read, so that the snapshot can be compared with it.
`FirstWins` and `LastWins` are the declarative references.

### `DashboardSession`

- `pc` holds the control point of each goroutine: `"main"`
  (`handleDashboardRegistration`), the heartbeat loops in `Beats`,
  `"loader"` (`LoadPoliciesFromDashboard` of each `DoReload`),
  `"relogin"` and `"shutdown"` (the shutdown goroutine of `Start`). The
  signal goroutine runs before `startServer`, so the signal may arrive
  while the startup `Register` is in flight. `Running` holds until
  `gracefulShutdown` has returned and `Start`'s own goroutine is through
  `startServer`, the point at which the process exits.
- `ServiceNonce`, `sentinel` (`heartBeatStopSentinel`) and `ctxDone`
  (`gw.ctx`) are gateway state. `req` and `resp` are each goroutine's
  request in flight and its unread answer.
- `registered` and `dashNonce` are the dashboard's view, served by
  `DashboardServe` from the interface of spec section 5: a registration is
  always accepted; another request is accepted only from a registered node
  with the current nonce, and answered with a fresh nonce; the rest are
  403. `RequestFailed` loses a request before or after the dashboard served
  it; in the second case the answer is either lost (`"err"`, a `Do` error or
  non-200) or arrives as a 200 whose body `json.Decode` fails to read
  (`"garbled"`: `http.Client.Timeout` covers the body). These dashboard
  actions are modelled from the spec.
- `RegisterReturns` is `Register`'s choice between returning and retrying:
  it returns on a 200, on a decode error and on a cancelled context, and
  retries a failed `Do` or a non-200. `ReturnFromRegister` is what the
  caller does with the result: `handleDashboardRegistration` logs an
  error and starts `StartBeating` whatever `Register` returned
  (`server.go` 2005-2014), and `reLogin` starts a new `StartBeating` only
  when `Register` returned nil.

### `GracefulShutdown`

`gpc` is `gracefulShutdown`'s control point, `spc` each server goroutine's.
`wg` is the WaitGroup counter, `errChan` the buffered errors, `chanClosed`
and `shutdownDone` the two channels' closed state, `ctxExpired` the
deadline. A server's `Shutdown` or listener `Close` succeeds or fails
nondeterministically (`failed`); `Offer` is the `select` with a `default`
that sends the error, drops it on a full buffer, and records a panic if the
channel is closed. `Expire` is the deadline passing, at any time.

On a clean shutdown the tail follows: `StopBeating` and `DeRegister` when
`UseDBAppConfigs` is set, then the MDCB `Disconnect` when `SlaveOptions.UseRPC`
is. `conf` is that configuration, chosen at the start, and `released` the set
of services told that the node is leaving (`"dashboard"`, `"mdcb"`). The
errors of these calls are only logged, so making the call is what the model
records. An error from the servers returns early and skips the tail.

## Runs

| run | cfg | checks | result |
|---|---|---|---|
| reload_safety | `MCReloadCoordinator.cfg` | `TypeOK`, `ReloadCoversDrainedCallbacks`, `RetryBudget` | pass |
| reload_liveness | `MCReloadLive.cfg` | `ReloadServiceSpec` (refinement), `DrainedCallbackCalled`, with cancellation | pass |
| reload_callback_after_failure | `MCReload_CallbackOnlyAfterSuccess.cfg` | spec 4.9: callbacks only on complete success | violation |
| reload_policy_regression | `MCReload_PoliciesNeverRegress.cfg` | policies never go back to an older version | violation |
| policies_sync | `MCPolicyLoaders.cfg` | `TypeOK`, `SnapshotFromLastLoad` | pass |
| policies_duplicate_first_wins | `MCPolicies_DuplicateLastWins.cfg` | spec 4.1: duplicate IDs are last-wins | violation |
| policies_dir_decode_error | `MCPolicies_SchemaErrorsExcluded.cfg` | spec 4.1: schema errors are excluded | violation |
| dash_session | `MCDashboardSession.cfg` | `RegisteredWhileServing`, with `reLogin` | pass |
| dash_nonce_recovery | `MCDashboardLive.cfg` | `StaleNonceHealed` | pass |
| dash_reregister_after_shutdown | `MCDashboard_StaysDeregistered.cfg` | the node stays deregistered after shutdown | violation |
| dash_two_heartbeats | `MCDashboard_OneHeartbeatLoop.cfg` | one heartbeat loop at a time | violation |
| shutdown_fanout | `MCGracefulShutdown.cfg` | `TypeOK`, `NoSendOnClosedChannel`, `ShutdownReportsFailures`, `ShutdownReturns` | pass |

What the passing runs show:

- **`ReloadCoversDrainedCallbacks`.** When the loop's `DoReload` returns
  after reading live data, the registry holds, for each callback drained in
  that cycle, the source state of the moment it was queued or a later one.
  This depends on the order drain, then sync, and on the zero-API guard.
  It is stated at the return of `DoReload`, not at the callback call: in
  between, a direct `DoReload` in emergency mode can install the older
  policies of a stale backup (the `reload_policy_regression` finding).
- **`RetryBudget`.** With RPC, emergency mode and a source that goes down
  and comes back, a `DoReload` that returns `"failed"` has called the failing
  sync function exactly `RetryAttempts+1` times and once more after
  `EnableEmergencyMode(true)`. It holds also when emergency mode was already
  on and the regular attempts read an empty backup. The mutant
  `SyncFailedLastEarly`, whose last-attempt check comes one iteration early,
  breaks it; `TypeOK` only bounds the counter.
- **`ReloadServiceSpec`.** The coordinator implements `ReloadService`. Each
  `done` is called at most once, and only after it was sent. While `gw.ctx` is live,
  every queued callback is eventually called, whatever the source and the
  direct reloads do. A mutant that keeps `reloadMu` locked breaks the
  liveness half.
- **`DrainedCallbackCalled`.** A callback the loop has drained is called
  even if `gw.ctx` is cancelled before the cycle ends. `ReloadService`
  does not promise this. The mutant `reloadLoopExitBeforeCallbacks`, which
  checks the context before the callbacks, still refines `ReloadService`
  but breaks this property.
- **`SnapshotFromLastLoad`.** Over every list of up to two policies, with
  explicit IDs that may equal another policy's MID, and any sequence of
  failed and successful syncs, `gw.policiesByID` is exactly the last
  successful dashboard or RPC list keyed by ID.
- **`StaleNonceHealed`.** A registered node whose nonce went stale gets it
  back in sync through the 403 and re-registration of the heartbeat, unless
  it shuts down or is deregistered first. It is checked without `reLogin`:
  with it, two heartbeat loops (see `dash_two_heartbeats`) can re-register
  in turn with lost answers forever. The answers include those the
  dashboard served and the gateway failed to decode, on which `Register`
  returns the error instead of retrying: the startup heartbeat starts
  anyway with no stored nonce, and its first 403 re-registers.
- **`RegisteredWhileServing`.** With `reLogin`, two heartbeat goroutines,
  the policy loader and shutdown, once startup registration has returned
  the dashboard holds the node as registered whenever neither `reLogin` nor
  `gracefulShutdown` is under way. `Register` retries a failed request and
  returns only after the dashboard accepted a registration; the mutant
  `RegisterReturnsOnError`, returning a failed `Do` as the error, breaks it.
- **`NoSendOnClosedChannel`, `ShutdownReturns`.** After the deadline,
  `gracefulShutdown` still waits for the server goroutines (`<-serverShutdownDone`)
  before `close(errChan)`, so no late error is sent on a closed channel;
  every goroutine reaches `wg.Done`, so it always returns.
- **`ShutdownReportsFailures`.** `gracefulShutdown` returns an error
  exactly when a server failed, also when more fail than `errChan` holds;
  and it has deregistered from the dashboard and disconnected from MDCB,
  as configured, exactly when none failed. A failed server therefore
  leaves the node registered: the early return skips the tail.
- **What the model leaves open.** Two cases were seen while modelling but
  are not checked. The spec's own open question is whether a source
  answering with no valid API may empty a populated registry; the code
  does (`server.go` 1075). A dashboard answer overtaken by a later one
  writes the older nonce back to `gw.ServiceNonce`; `StaleNonceHealed`
  shows that the next heartbeat's 403 repairs it.

What the violations show (each is a finding in `PROJECT.json`):

- `reload_callback_after_failure`: a `DoReload` that failed is followed by
  the callbacks, with the old registry in place.
- `reload_policy_regression`: the ignored backup-write error lets
  emergency mode roll policies back.
- `policies_duplicate_first_wins`: the dashboard loader keeps the first of
  two policies with one ID; spec 4.1 and the RPC loader keep the last.
- `policies_dir_decode_error`: a policy file that fails to decode is stored
  anyway under the ID the decoder reached, shadowing a good policy.
- `dash_reregister_after_shutdown`: a heartbeat still in flight when
  `DeRegister` runs comes back 403 and re-registers the node.
- `dash_two_heartbeats`: `OneHeartbeatLoop` counts the goroutines past
  `StartBeating`'s swap of the sentinel and not yet returned. In the
  11-state trace the startup loop sleeps between two sentinel checks when
  `reLogin` calls `StopBeating`. `reLogin` deregisters and registers again,
  and its new goroutine's `StartBeating` resets the sentinel before the old
  loop checks it, so both loops beat. The opposite case is not checked: a
  garbled answer to `reLogin`'s `Register` leaves the gateway with no loop
  (hazard at `dashboard_register.go` 105).

### Bounds

- Reload: two callbacks, so that one is queued while the other is served,
  and two APIs, one invalid, giving an empty and a non-empty valid set.
  `RetryAttempts = 1`, so that a retry, the last regular attempt and the
  emergency attempt are distinct steps.
  - The safety run uses RPC, for emergency mode and the backup, with two
    source versions. Its constraint `MCGatewayLive` stops exploring at the
    cancellation of `gw.ctx`. After it the loops can only return, and the
    liveness run covers those steps.
  - The liveness run uses the dashboard as source, with one source version,
    and cancellation enabled. Source changes do not bear on whether a
    callback is called, and with two versions the run takes over seven
    minutes.
- Policies: two names and two bodies, and lists and directories of up to
  two entries. This is the smallest size where duplicates, an explicit ID
  equal to another policy's MID, and a bad file shadowing a good one occur.
- Dashboard: two heartbeat goroutines, which is what `reLogin` needs to
  start a second loop; nonces are drawn from a set one larger than the
  number of requests that can be in flight.
- Shutdown: two HTTP servers and one TCP proxy, so that a failure can race
  another server's success and the drain. The buffer is 2 where the code
  has 10: the select's default only matters when failures outnumber the
  buffer, and three servers overflow a buffer of 2 as eleven would one of
  10, while one or two failures still fit.

### Fairness

- `reloadQueueLoop` and `reloadLoop` run for the life of the gateway and
  `time.Tick` keeps firing: weak fairness on their steps and on a
  `DoReload` in progress. `reloadMu` is a `sync.Mutex`, whose starvation
  mode hands the lock to a waiter blocked for more than 1 ms: the loop's
  acquisition is strongly fair. No fairness for the source, the direct
  callers or the cancellation, which is a signal to the process; none on
  the loops' return branches, which need not be taken.
- Dashboard: weak fairness on every goroutine's steps. The dashboard is
  strongly fair: a request that keeps being retried is eventually served,
  though it may fail any finite number of times first. No fairness for the
  stop signal, for `reLogin`'s callers or for new policy loads. A heartbeat
  goroutine's registration is owed the same service on its own: without
  it, a served ping can satisfy the goroutine's fairness while every one of
  its registrations comes back undecodable, which is a network that never
  delivers a registration rather than a bug of the gateway.
- Shutdown: weak fairness on every goroutine, since `Shutdown` and
  `proxy.Shutdown` return by the deadline at the latest. The deadline itself
  is not assumed to pass.
- `PolicyLoaders` has no liveness property and no fairness.

## Not modelled

- The mux swap, the middleware chains and the JSVM: `loadGlobalApps` is one
  assignment of the registry. `DoCoprocessReload` has no effect on it.
- The Go plugin response handler (`res_handler_go_plugin.go`). It is
  sequential code without shared state. Its result depends on
  `customResponseWriter`, which forwards the plugin's writes to the real
  writer and records whether a response was sent. That type is not under
  `src/`, and the spec does not describe it. Without it, nothing can say
  whether the deferred `WriteHeader(500)` after a panic reaches the client.
- `NotifyDashboardOfEvent` (quota-trigger notification). It reads and
  stores `gw.ServiceNonce` the way the dashboard policy loader does. As one
  more concurrent writer it multiplies the dashboard state space by about
  20: the `reLogin` run went from 1.2M to 24M states (before undecodable
  answers were modelled; it now has 2.07M without the notifier), even with a single
  event. The loader stands for the pattern.
- A `SIGTERM` during startup registration. The model lets the signal
  arrive while the startup `Register` is in flight, and the runs explore
  it. `gracefulShutdown`'s `DeRegister` then carries no nonce and is
  forbidden, so the node exits registered. No property separates this from
  a lost `DeRegister` answer, which ends the same way; it is a hazard
  without a property.
- The fork path of `Start` (`onFork`) reads `gw.ServiceNonce` without
  `ServiceNonceMutex` to put it in `TYK_SERVICE_NONCE`. Nothing in the
  repository reads that variable, so the race has no observable effect to
  check.
- Configuration loading, the control API and the build files; see the
  `PROJECT.json` components.
- Policy contents beyond their IDs: access rights, limits and
  `ToRegularPolicy`'s conversion are the body.
