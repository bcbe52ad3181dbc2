# AIphaBee: specifications of its stateful components

This directory holds TLA+ models of the parts of AIphaBee whose state is shared by
concurrent actors or can be left half-changed by a failure. Most of them run an
agent's code in a disposable Cloudflare sandbox: the private lease registry, the
sandbox backend, the run-token bridge with its guard, the lifecycle that drives a
run to its terminal record, and the handoff of its outputs to durable storage.
Two stand beside that path: the lifecycle service of research-agent profiles, and
the HKEX News ingest. TLC checks the models on small instances; TLAPS proves every
safety property for every value of the constants, and that each of the six systems
implements a short specification of what it promises.
`PROJECT.json` lists the runs, the mutants behind each property, the map from
definitions to source lines, the hazards and the theorems.

## 1. Inventory

Most of the repository is pure functions (the domain packages plan, evaluate and
format; nothing is kept between calls), contract documents with the scripts that
check them, and two applications. The state that concurrent actors share, and
that a failure can leave half-changed, is in these components.

| Component | State | Operations | Hard behaviours | What makes it correct |
|---|---|---|---|---|
| Lease registry (`apps/sandbox-bridge/src/lease-registry.ts`) | one record per lease in a Durable Object: status, bound process id and its state, kill latch, status to resume after an aborted destroy | reserve, ready, authorize, process begin/running/clear, kill, kill finish, destroy begin/finish/abort, remove | callers arrive in any order; an answer is lost after the transaction committed | an accepted kill is never lost; a closed lease stays closed; no process is admitted after a kill |
| Cloudflare backend (`cloudflare-sandbox-backend.ts`) | none of its own between calls, but many local flags across awaits; the provider's container, processes and outbound handler | create, execute, writeFile, readFile, kill, destroy | every provider call may be abandoned by its timer and take effect afterwards; kill while the process is still starting; create that finishes after its cleanup; two destroys | one run at a time in the sandbox; no record given up before a destroy was confirmed; every call returns |
| Run guard (`run-guard.ts`) | one stored state per run identity: the token that set it up, call count, destroying latch, terminal flag, last exec receipt | claim, record-exec, finish-destroy, abort-destroy | an `await` between a read and a write; several tokens of one run; late aborts | the call budget; a terminal run stays terminal; a destroy under way admits nobody |
| Bridge (`bridge.ts`, `token.ts`) | none between requests; the sandbox behind it | create/status probe, exec, file calls, destroy, kill | the provider's destroy outlives the bridge's timer; a request is cut off; the guard's answer is lost | an answered destroy is true; the latch is released; every destroy is answered |
| Terminal lifecycle (`packages/agent-runtime/src/sandbox-terminal-lifecycle.ts`) | the locals of one run: promises, usage meter, chosen cause, cleanup result | create, execute, consume, soft/hard timeout, kill, destroy, close, record | many events race; everything it waits for may never come; a create that outlives its deadline | the record is true and final, first cause wins, each lease is destroyed once, a record always comes |
| Worker wiring (`apps/sandbox-bridge/src/index.ts`) | none | RPC entry points, Durable Object shells, outbound handler | – | binds the above to the provider, by the sandbox's name |
| Research-agent lifecycle (`apps/worker/src/research-agent-lifecycle.ts`, `packages/agent-runtime/src/fastclaw-lifecycle.ts`) | Postgres profile row with a 45 s lease, audit events; the remote FastClaw user and agent | activate, disable, delete, each through claim / FastClaw requests / finalize | the whole service call is one transaction: a rollback undoes the claim and the event but no remote request; the read before the conditional update is stale; two calls with one request id; a request that lands after its timeout | profile, audit trail and FastClaw agree as far as they can; one answer per request; a deleted profile stays deleted; no deadlock in the database |
| Research-agent product control (`research-agent-product-control.ts`) | entitlement and profile rows | admin actions with replay by action id | a repeated or concurrent action id | an action is applied once |
| Durable artifact handoff (`durable-memory-artifact-handoff.ts` in the worker and in agent-runtime) | object store and a Postgres row | put, insert, compensating delete, read-back, sandbox cleanup | one step of several fails, or its outcome is unknown | no row without its object, no lost artifact reported as kept, the sandbox gone or said not to be |
| HKEX News ingest (`packages/data-ingest/bin/data-ingest.mjs`, the Scrapy spider under `src_py/`) | Postgres: release state, crawl run, observations, facts and transform run of a data version; an advisory lock of the session; the crawl's job directory | `hkex daily`, `run resume`, `release`; `run status` and `validate` read | the crawl runs between two transactions under a session lock that can be lost; commits whose answer is lost; a rerun over kept results; validation by counts | only a complete run's data is released, not during another run, and a released version is not changed |
| FastClaw runner and live control (`fastclaw-agent-runner.ts`, `fastclaw-live-control.ts`) | the run's stream and an abort controller | run, poll control, abort | control poll races the stream's end | a kill reaches the run, a finished run is not reported killed |
| Chart image store and parser (`parse-chart-image/`) | object and metadata row; retry loop | put, delete, expire, parse | object and row change in two steps | no active row without its bytes |
| Ephemeral market-data cache | an in-memory map with deadlines | get, put, expire | bounds | no entry older than its TTL |
| Netquity mirror updater (`scripts/netquity-mirror/update.mjs`) | Postgres tables | batch update, table by table | stops between two tables | a rerun converges |
| Tool gateway, artifact scanner, run-token auth | none | validation, forwarding, signing | – | pure functions |
| Domain packages, worker routes, web application, contract checks | none, or the database's | request in, response out | – | unit-tested functions |

How the modelled components meet:

    runSandboxTerminalLifecycle --create/execute/kill/destroy--> CloudflareSandboxBackend
    CloudflareSandboxBackend    --registry requests-----------> SandboxLeaseRegistry (Durable Object)
    CloudflareSandboxBackend    --session/process/outbound----> provider's sandbox
    HTTP client with run token  --routes----------------------> bridge
    bridge                      --claim/receipt/finish/abort--> RunGuard (Durable Object)
    bridge                      --exec/file/destroy-----------> provider's sandbox
    handoffAndDestroySandboxOutputs --readFile/destroy--------> SandboxBackend
    handoffAndDestroySandboxOutputs --put/delete, insert/read-> R2, Postgres
    lifecycle route             --one transaction-------------> Postgres (profile, audit)
    lifecycle route             --users and agents------------> FastClaw control plane
    data-ingest command         --lock, two transactions------> Postgres (data version)
    data-ingest command         --spawnSync-------------------> Scrapy

The backend (leases) and the bridge (run tokens) are two separate ways to a
sandbox; they share no state, and are modelled as two systems. The handoff is a
caller of the backend interface: it reads files and destroys the lease, whatever
the answers. Nothing in the repository calls it in production yet. The profile
service and the ingest share no state with the others.

## 2. Modules

| Module | Models | Built on |
|---|---|---|
| `LeaseRegistry` | the registry's transactions, for any callers: also the abstract specification of what the backend does to a lease | – |
| `SandboxService` | what a lease promises its holder: the abstract specification of registry, backend and provider together | – |
| `SandboxBackend` | create, runProcess, file calls, kill, destroy against registry and provider | EXTENDS `LeaseRegistry`, INSTANCE `SandboxService` |
| `RunGate` | what a guard promises the clients of its run: a budget, one closer at a time, closed for good | – |
| `RunGuard` | guard and bridge for one run identity | INSTANCE `RunGate` |
| `RunRecord` | what a run's terminal record promises to scheduler and billing | – |
| `TerminalLifecycle` | one run from create to its record | INSTANCE `RunRecord` |
| `ProfileLedger` | the profile service as a reader of the database knows it: one atomic change per call | – |
| `ResearchAgentProfile` | calls of the lifecycle route on one profile, as Postgres transactions around FastClaw requests | INSTANCE `ProfileLedger` |
| `Archive` | what a handoff promises to the keeper of records and objects | – |
| `DurableHandoff` | one handoff of sandbox outputs to R2 and Postgres | INSTANCE `Archive` |
| `Publication` | what the readers of a data version are promised | – |
| `HkexIngest` | invocations of the ingest command for one business date | INSTANCE `Publication` |
| `MC...` (`MCSandboxBackend`, `MCRunGuard`, `MCTerminalLifecycle`, `MCResearchAgentProfile`, `MCDurableHandoff`, `MCHkexIngest`) | instances for TLC | the module named |
| `...Proofs` (`LeaseRegistryProofs`, `SandboxBackendProofs`, `SandboxSafetyProofs`, `RunGuardProofs`, `TerminalLifecycleProofs`, `ResearchAgentProofs`, `DurableHandoffProofs`, `HkexIngestProofs`) | theorems | the module named, `TLAPS` |

Operators named `X_Something` directly above an operator `X` are mutants: `X`
as a plausible bug would have it. Each property names one that breaks it
(`PROJECT.json`, "mutants"); they are no part of any specification.

### LeaseRegistry

`lease` is the record under `RECORD_KEY`, with status "absent" for no record. One
action per endpoint that writes. A 409, a binding mismatch
(`recordMatchesLease`), `/authorize`, and repeated `/kill` or `/destroy/begin`
answer without writing and are stuttering. `CanX` is what endpoint X requires of
the record. `RegistrySpec` puts no order on the requests.

### SandboxBackend

One lease, one `create`, any number of runs (a run is its process id: every
`execute` draws a fresh one), killers, destroyers and file callers. Each `await`
is a step. The variables and the code:

| Variable | Code |
|---|---|
| `run[p]` | the locals of `runProcess`: where it awaits, the egress kind, `toolGatewayConfiguration*`, `outboundStateConfirmedClean`, `processTerminalConfirmed`, `processStartStateUncertain` |
| `creator`, `creation` | `create` and its background continuation, and the `createSession` promise both look at |
| `killer`, `destroyer`, `file` | the `kill`, `destroy`, `writeFile`/`readFile` calls in progress |
| `sandbox`, `process`, `outbound` | the provider: container ("alive" since `create`, "gone" after a destroy, "woken" if a call brought it up again), processes, the run whose Tool Gateway token the outbound handler holds |
| `late` | provider calls abandoned by `withTimeout` that may still take effect |

A registry call (`RegistryCall`) is answered, refused, or commits with its answer
lost; the client throws on the last two alike. A provider call resolves, rejects
with or without its effect, or is abandoned into `late`. Output events, byte
limits and validation of arguments are abstracted to the failure they cause: the
run leaves `RunWait` for `terminate`. An execute refused before it asks the
registry changes nothing and is no step.

The provider is not in the repository. `configuredSandbox` (`index.ts:87-94`) reaches a sandbox
by name on every call, so a destroyed one is not gone for good: `startProcess` brings its
container up again (`Up`), and so may any other call on its way to it (`ContainerWakes`), which
is also how `RunGuard` takes the same provider. A container that sleeps after its two
idle minutes (`sleepAfter`) wakes in the same way and is taken to be up.

Assumed of it: a destroy takes processes and handlers along; a `killProcess` that resolves
has stopped the process, if it was there; a call that rejects has had its whole effect or
will never have it. The last is the code's own reading: `runProcess` counts a start as
uncertain only when its timer ended it (452). With `RejectedStartMayLand` a start
whose connection broke may land later all the same. `ExclusiveLease` and
`ImplementsService` need it FALSE: the run that was rejected finds no process to
kill, takes that for the end of it, frees the lease, and the start lands under the next run.
The other properties do not, and `backend_live` checks its two with it TRUE.

`pc = "finally"` stands for the finally block up to `clearProcess`; what happens
there if `removeOutboundByHost` fails is in the three alternatives of
`RunFinally`.

### SandboxService

Four variables say what a caller of the `SandboxBackend` interface
(`packages/agent-runtime/src/index.ts:819`) may rely on: the `phase` of the lease, its
`holder`, whether it is `doomed` by an accepted kill, and the processes `inside`.
A holder is admitted only to an empty sandbox and leaves an empty one; after a kill
nobody is admitted; a closed lease stays closed. The one thing a closed lease does
not promise is an empty sandbox: `Enter` allows a start that was given up on.

`SandboxBackend!Service` is the refinement: `phase` from the record's status (a
destroy that may yet be aborted is still "open"), `holder` from `process_id`,
`doomed` from `kill_requested`, `inside` from the provider's processes.

### RunGuard

`Requests` are HTTP requests, each with a token and an operation. `Claim` is
`applyRunGuardClaim` in one step: only storage is awaited between its read and
its write, and a Durable Object admits no other request there. `/record-exec`
awaits `request.json()` between the two, so it is split
into `RecordReads` and `RecordWrites`, and other requests are served in between. With
`BodyMayArriveLate` these may be claims, finishes and aborts; without it `RecordWrites`
happens only while the state it read is `Fresh`, but for other receipts. `RecordLost` is a call
that does not reach the guard. `at[r]` is where the bridge's handler
awaits, or the answer it gave. `DestroyTimesOut` is `withTimeout` around
`sandbox.destroy()`; the destroy stays in `late`. `CutOff` ends a request at any
await: the client disconnects, or the worker is gone. A destroy and a kill run
the same code but for the wording of the answer.

`running` is the provider's container. Here a probe, exec or file call starts
the container again if it is down: `index.ts` fetches the sandbox by name for each
request, and the readiness probe is such a call.

Signature, expiry and argument checks are taken as done or refused: `Tokens` are the
claims that pass, `RejectInput` the refusal after the claim was spent. The clock
is not modelled, so the `exp` comparison of two tokens is part of `Exact`.

`RunGate` knows neither tokens nor receipts nor lost answers. Its `phase` and `limit`
are read off the stored state, `calls` are the requests admitted, `closers` the request in its
destroy and `told` those that were answered 204 or "killed". A closer may vanish and leave the
run closing (`Close`, `GiveUp`); only the closer itself reopens (`Reopen`).

### TerminalLifecycle

`pc` is the lifecycle's own await. An event that wins the race it is waiting in
selects the branch in the same step; an event that happens elsewhere is
remembered (`execution`, `control`, `closed`, `creation`) and looked at in the
code's order by the race after an unconfirmed soft kill. `decision` is the
terminal cause and kill status chosen so far, `record` what `record_terminal` is
called with, `cause` a history variable: the first event that could end the
execution. `abandoned` is the continuation that waits for a create that outlived
its deadline. The timers keep the order of the fixed policy's values: soft 180 s,
hard 600 s, create 30 s, each grace 15 s; so the hard timeout can only meet the
race that follows a soft kill, and the model offers it only there.

`RunRecord` has no timers, signals, kills or destroys: compute that may still be
coming, a stream that may still be `active`, what was `used`, and a record with a
`verdict` ("open", "closed" or "released", from `execution_closed` and `release_safe`) and
the usage `billed`. Its `Write` is the only place where the verdict is tied to the rest, and no
action changes a verdict once written or uses anything after a "closed" one.

### ResearchAgentProfile

One profile, any number of calls. A call is one transaction at read committed from
its `begin` to its `commit`, and each statement that writes or waits is an action.

| Variable | Code |
|---|---|
| `row` | the committed row of `research_agent_profile`: status, lease owner, whether it names a FastClaw user and agent |
| `events` | the committed audit event of each request id |
| `call[c]` | the call's progress: request, intent, `previousStatus` (`from`), the ids `reconcileRemote` holds, and what the transaction has written but not committed (`row`, `event`) |
| `fastclaw` | FastClaw's user and agent for the identity; users are numbered, as a user removed and created again is another one |
| `stray`, `landed` | requests given up on by the timer or a rollback that may still be carried out, and whether one has been: "nothing", "other", or "provision" once a provisioning landed |

`RowIsFree` and `KeyIsFree` are the waits of Postgres: a statement that writes the
row, or inserts the same event key, waits for the transaction that did so before.
`claimUpdate` looks at the row again after the wait (the re-check of its
`where` clause), while `previousStatus` was read before. A call may read any
authority, since nothing here writes the platform tables. Whether a lease has
expired is a free choice. FastClaw is taken from how the client uses it: creation
is idempotent by external identity (the comment on the agent answer says so, and
the users endpoint returns the id of the identity asked for), a request for an
unknown user fails, and removing an absent one succeeds.

The two denials for an account or workspace that does not exist, and the replay of
a request that has an event, write nothing and are no steps.

In `ProfileLedger` a call is one step, that of its commit: `Answer` for a call that found
nothing to do or was denied, `Succeed` and `Fail` for one that worked on FastClaw.
`Changes` says what such a step may do to the profile: nothing follows "deleted",
and a user or an agent once named stays named until then.

### DurableHandoff

`stage` is the handoff's await; a candidate stands for its object and its record,
because key and id are made from the candidate and the instant of the handoff
(two handoffs of one candidate within one millisecond would share them, and are
left out). A `put`, an `insert` or a delete
that fails may have taken effect, and a put or an insert whose connection was lost
may take effect later (`latePuts`, `lateInserts`). One Postgres client answers in
order: this is why a read-back that finds no row says that the insert will not
come, and `client` is in the model for it. Contents, scans and approvals are
abstracted to the rejection they cause. `Crash` ends the handoff at any await; no
restart resumes it.

`Archive` decides each candidate's `fate` once, whatever was tried and undone before
(`Work`). Records and objects of a candidate that was persisted or rejected are not
touched again; `late` are the objects whose put took effect after it was given up, `litter` the other
objects without a record. A clean end leaves no litter and no sandbox.

### HkexIngest

One business date, any number of invocations. The advisory lock belongs to the
session, so `LoseSession` frees it under a command that has not noticed. Each
transaction is one step (`OpenRun`, `SaveRun`, `Validate` and `Release`): the lock
is checked before it, and only its holder writes what belongs to the date. A commit whose
answer is lost is stored all the same (`AfterCommit`). A crawl may report
anything, because Scrapy's job directory belongs to the run id and is kept from
rerun to rerun (`data-ingest.mjs:1973`) and the site changes: nothing, a
document twice, or a document at another rank, by which its facts are keyed.
`SaveRun` deletes the facts of documents the report does not name, and not those
of a named document at another rank; `Passes` is `readValidationState`.

`Publication` is the readers' side: a run begins, is carried through with a report, and the
version is published with that report, after which no action is enabled. Facts and
documents of an unreleased version are hidden (`Visible`), so what a rerun does to them is
not seen.

## 3. Runs

| Run | Instance | Shows |
|---|---|---|
| `backend` | 2 runs, 1 killer, 2 destroyers, no file calls | types, `RecordInv`, `KillHoldsLease`, `ExclusiveLease`, `GivenUpOnceDestroyed`, `NoAdmissionAfterKill`, `ClosedForGood`, `ImplementsService` |
| `backend_live` | 1 run, 1 killer, 1 destroyer, 1 file caller, rejected starts may land, fair | `CallsReturn`, `DownForGood` |
| `destroy_race` | 1 run, 2 destroyers | finding: `TimedOutDestroyStaysClosed` fails |
| `overtaken_start` | 1 run, 1 killer, 1 destroyer | finding: `ProcessIsAddressable` fails |
| `guard` | 3 requests, 2 tokens, no receipt overtaken, fair | types, `BudgetHolds`, `LatchHasOwner`, `TerminalIsFinal`, `DestroyShutsTheRun`, `ImplementsGate`, `DestroyIsAnswered` |
| `guard_late_body` | 3 requests, late bodies | finding: `BudgetHolds` fails |
| `guard_late_call` | 2 requests | finding: `KilledRunHasNoSandbox` fails |
| `lifecycle` | up to 2 output events, fair | types, `ReleaseSafeMeansGone`, `FirstCauseWins`, `EachLeaseDestroyedOnce`, `KillBeforeDestroy`, `ImplementsRunRecord`, `ComesToRecord` |
| `profile` | 2 calls, 2 request ids, at most 2 FastClaw users ever and 1 stray request | types, `OneIdentity`, `ActiveNamesAgent`, `SuccessIsReal`, `DeletedMeansAbsent`, `NoWaitCycle`, `OneAnswerPerRequest`, `ImplementsLedger` |
| `profile_hidden_claim` | as `profile`, no stray request | finding: `ClaimIsWrittenFirst` fails |
| `handoff` | 3 candidates | types, `RecordHasObject`, `HandoffEndsClean`, `ImplementsArchive` |
| `ingest` | 3 invocations, 2 documents, 2 ranks, reports of at most 2 documents | types, `ReleasedIsLastReport`, `NoReleaseMidRun`, `ImplementsPublication` |

Five properties are not checked on their own because the implementation of the abstract
specification includes them: `DestroyedMeansTerminal` (`told` only grows when the
gate closes, and a closed gate stays closed), `UsageIsFinal` (`billed` and no `Use` after a
closed verdict), `DeletedIsFinal`, `ReleasedIsFrozen` and `RejectedLeavesNothing`.
Each is still a theorem.

### Bounds, and why they are enough

* *backend.* Two runs are what exclusion needs, a killer may ask again when it is
  idle, and two destroyers overlap and retry without limit. A run's process id is used once, as
  in the code. A file call changes nothing another caller reads, except that it may wake the
  container; it appears in `backend_live`, where `DownForGood` asks about that. `Processes` and `Destroyers` are symmetric in
  `backend`, which checks only properties that do not name one of them; the runs with
  liveness use no symmetry. The theorems drop all these bounds.
* *guard.* The run token has two calls, the control token (scopes destroy and status) one. Three
  requests exhaust either budget with one to spare, let a destroy overlap a call and
  a second destroy, and are enough to roll a call back. Again the theorems drop the bound.
* *lifecycle.* `MaxOutput` bounds the events of a stream; what matters is whether one more
  comes after the record, for which two suffice. The run is one lifecycle: two
  runs share nothing but the backend.
* *profile.* Two calls overlap in every way two transactions can: a stale read, a wait
  for the row, one request id in both. Each request id is answered once, so a behaviour
  ends after two committed calls, which with rollbacks (they consume no request id) is
  enough for a rolled-back provisioning, a delete over it and a stray request landing
  after it. `MaxUsers` and `MaxStray` appear in the guards of FastClaw's effects and of the
  abandoned requests only.
* *handoff.* Candidates share nothing but the client and the final destroy; two would do, three
  leave one unprocessed while two differ.
* *ingest.* Two runs and one release, or one run and two releases, whose sessions are lost in any
  order; two documents and ranks make a rank drift, a dropped and a repeated
  document. `MaxItems` bounds a report.
* Deadlock is not checked: calls and runs end, and nobody has to call again.

### Fairness, and why the code justifies it

Invariants, action properties and refinements use no fairness, so a caller may stop for ever at any step: this is
how a crash of the worker between two awaits appears, and no restart resumes it
since nothing of a call is persisted.

* `SandboxBackend`: weak fairness of every step of a started run, kill and destroy. A
  registry request is answered or throws, and `withTimeout` ends every provider
  call by its timer. The exceptions are `getSession`, awaited without a timer
  (`CallsReturn` excepts a run that hangs there), and the file calls. Nothing obliges the provider: late
  calls need not land, a process need not exit.
* `RunGuard`: weak fairness of the timer around destroy and of the guard calls that follow it. Other sandbox calls have no
  timer in the bridge and get no fairness.
* `TerminalLifecycle`: weak fairness of the timers and of the lifecycle's own
  continuations. Backend, stream and recorder owe nothing; `ComesToRecord`
  says that the record is handed over, not that the recorder accepts it.

* `ResearchAgentProfile`, `DurableHandoff`, `HkexIngest`: none, and no liveness is
  stated. The first two may be stopped with the Worker at any await and are not
  resumed; the ingest runs Scrapy in the foreground with no time limit, and
  whoever finds the lock taken leaves.

### Findings

The details and the quoted lines are in `PROJECT.json`.

* **A late receipt body rolls the guard back** (`guard_late_body`, `run-guard.ts:199`).
  The state read before `await request.json()` is written back after it: calls
  admitted meanwhile are not counted, and a destroying or terminal flag set
  meanwhile is lost. Without such an overtaken read the guard keeps its properties
  (`RunGuardHoldsUnlessOvertaken`).
* **A call admitted before a kill starts the container after it** (`guard_late_call`, `bridge.ts:356`).
  A killed run is recorded as terminal, its container runs again, and a further
  destroy of that run is answered from the state without reaching the provider. Nothing but
  such a call can do it (`RunGuardDownForGood`).
* **Overlapping destroys reopen the lease while one may still land** (`destroy_race`,
  `cloudflare-sandbox-backend.ts:692`). Without an overlap it cannot happen
  (`BackendApartDestroysStayClosed`).
* **A start outlives the lease** (`overtaken_start`, `cloudflare-sandbox-backend.ts:414`). A start
  that timed out lands after its run has returned and a destroy was confirmed and
  recorded; or it is sent after the destroy, since nothing between `beginProcess`
  (370) and `startProcess` reads the lease again, and the run's own kill of it fails. The process
  runs in a container brought up again by name, while `kill` and `destroy` answer from
  the terminal record. The `starting` reservation was added so that there be no
  such process. File calls have the same gap: they use an authorization that a
  destroy may have overtaken (551, 580), although terminal leases are to "never call Cloudflare"
  (`plans/plan-20260710-2237-cloudflare-sandbox-adapter-spike.md:157`). Both end with the calls let
  in before: none is left, none comes (`BackendDownForGood`, `BackendQuiescesForGood`).
  `create` has a narrower case: a `createSession` that wakes the container after the cleanup was
  confirmed, and then rejects, loses its record (`GivenUpOnceDestroyed` speaks of the
  container before a destroy was confirmed).
* **The claim is never seen** (`profile_hidden_claim`, `research-agent-lifecycle.ts:827`). The notes and the
  plan have the pending state and the lease written before HTTP, and no transaction across it;
  the route opens one transaction around everything. No committed row is ever pending or
  leased (`ClaimsStayPrivate`), the answers LIFECYCLE_REQUEST_IN_PROGRESS and
  LIFECYCLE_LEASE_BUSY cannot occur, and a Worker that stops in between leaves no
  trace of what FastClaw was asked to do.

### What the other models show about the code, with no finding

These follow from the models as they stand; none contradicts a property above.

* *One request id, twice at once.* Both calls work on FastClaw; the later answers with the
  event of the earlier (`OneAnswerPerRequest`), which may not be what it did.
* *A stale status comes back.* A failure that is not retryable restores the status that
  was read before the row was waited for: a profile can become "disabled" while
  FastClaw's user is enabled, and a further disable is then answered
  "succeeded" without a request to FastClaw. `SuccessIsReal` therefore speaks of
  calls that worked, not of such terminal answers. `plans/plan-20260710-1129-fastclaw-dedicated-agent-lifecycle.md:136`
  wants a pending or blocked state retained on any failure; the code does so for the retryable
  ones only, and `ProfileLedger` asks no more than the code does.
* *Activation after a rolled-back disable.* Provisioning finds the existing user and does
  not enable it; the activation succeeds with a disabled user.
* *A given-up provisioning that lands after a delete* leaves a FastClaw user that no row
  names. `DeletedMeansAbsent` and `OneIdentity` except this, and hold over every other late request.
* *Rank drift.* A rerun of a date whose documents moved to other ranks leaves the facts of the
  old ranks: counts differ from the transform's, and the version cannot be released until
  a run reports the old ranks again. Safe, but no "stage recovery"
  (`skills/hkex-news-daily/SKILL.md:23`) leads out of it. A document reported twice has the same effect.
* *A lost answer to the second commit* leaves a completed run that the command reports as a
  database failure; a failed second transaction leaves the crawl run "running" until the
  next invocation overwrites it. The stale-run mark is overwritten two statements later in
  the same transaction.
* *A put that fails and lands later* leaves an object without a record under an item that says
  "rejected" (`RejectedLeavesNothing` and `Archive` except it, as `late`).

## 4. Proofs

All theorems are of the specification without fairness, for any finite or infinite sets of callers
(`Requests` must be finite, for its cardinality) and any budgets and scopes.

* **The registry** (`LeaseRegistryProofs`). `RegistryInvariant`: types and
  `RecordInv` are inductive. `RecordInv` says what the record may hold in each
  status; `KillHoldsLease` alone is not inductive, because `/process/clear` and
  `/destroy/abort` preserve it only when a closed record has no process and only a destroying
  record has a status to resume. `ClosedForGood` and `NoAdmissionAfterKill` are
  step properties from the same invariant.
* **The backend implements the registry** (`SandboxBackendProofs`).
  `BackendImplementsRegistry: Spec => RegistrySpec`: each backend step is a registry
  transaction or leaves the record alone; the refinement mapping is the identity on
  `lease`. The registry's properties carry over. `BackendTypeOK` is proved
  separately, with lemmas for the effect of a step on one run.
* **Safety of the backend** (`SandboxSafetyProofs`). `BackendGivenUpOnceDestroyed`
  rests on `CreationInv` (what is known of the creation at each step of create, and
  that a destroy was confirmed before the record goes). `BackendExclusiveLease`, which assumes
  `~RejectedStartMayLand`, rests on
  `RunInv`: a run that is under way or left something behind is bound
  (`EngagedRunIsBound`), and what a run's flags tell of its process, its handler
  and its calls in flight (`RunKnows`). The argument splits a step into the run's own part, which
  must keep what it knows, and what every other run sees of it, which only ever
  removes things (`ProviderRetreats`).
* **The backend keeps the promise of a lease** (`SandboxSafetyProofs`,
  `BackendImplementsService: Spec => ImplementsService`, under the same assumption). A registry step maps to a step of
  the service or to a stutter (`RecordRefines`), and a step of the provider to a process
  that starts or ends (`ProcessRefines`); a step that changes the record is quiet at the
  provider (`RecordStepIsQuiet`). The mapping needs `ServiceInv`: `ExclusiveLease` and what
  it rests on, because a holder that leaves must leave an empty sandbox
  (`HandoverIsClean`), the registry's invariant, and that no process runs before the
  lease was issued.
* **The limits of the backend's two findings** (`SandboxSafetyProofs`).
  `BackendApartDestroysStayClosed` assumes `[]DestroysApart` (no two destroys under way at
  once) and proves what `destroy_race` finds violated. `ApartInv` is what is inductive: a destroy under
  way finds the record reserved for it, and one that may still land leaves no fresh reservation to
  abort. `BackendDownForGood` and `BackendQuiescesForGood` limit `overtaken_start`: a closed lease
  lets nobody in (`ClosedForGood`), so the calls under way only become fewer, and without one
  nothing wakes the container. Neither needs an assumption on late or rejected calls.
* **The guard** (`RunGuardProofs`). `GuardInv`: the count equals the requests
  admitted (`CountInv`), a request in its destroy implies the latch or a
  terminal run, and is the only one (`DestroyerInv`). A step other than a claim is quiet, or
  a finish or abort that lands (`StepShape`), as long as no receipt is written over a
  state that a claim, a finish or an abort has replaced since it was read: `WritesFresh`.
  So the invariant and what follows from it are proved for `Spec /\ [][WritesFresh]_vars`
  (`RunGuardHoldsUnlessOvertaken`), late bodies included; receipts may still overtake
  each other. Without `BodyMayArriveLate` every write is fresh (`InTime`), which
  gives the theorems that assume `~BodyMayArriveLate`. The run `guard_late_body` shows
  that one or the other is needed; `RunGuardTypeOK`, `RunGuardLatchHasOwner` and
  `RunGuardRequestsAdvance` need neither.
* **The guard implements its gate** (`RunGuardImplementsGate: Spec => ImplementsGate`, under the same
  assumption). A claim maps to `Admit`, `Close` or `TurnAway` (`ClaimStepsGate`); a finish that
  lands to `Shut`, an abort that lands to `Reopen` or, on a finished run, to `GiveUp`; of the rest,
  those that end a destroy unheard are a `GiveUp` and the others stutter
  (`OtherStepsGate`). `LatchInv` is needed besides: a state is never destroying and terminal, and a
  request at its destroy or its finish has the latch.
* **The lifecycle** (`TerminalLifecycleProofs`). `LifecycleInv` joins types,
  where a creation can stand at each await (`CreateInv`), how many destroys were
  sent (`DestroyInv`), and who may still count output (`StreamInv`).
  `FirstCauseWins` needs `CauseInv` besides: an execution that has left the race
  has a cause, and what is decided follows from it.
  `LifecycleImplementsRunRecord` needs of `LifecycleInv` that a created run has or had compute, and that
  the step that writes the record has consulted stream, destroy and creation
  (`RecordsWrite`); every other step leaves the record alone (`OthersKeep`).

* **The profile service** (`ResearchAgentProofs`). `IInv`: a committed row is settled and names
  what FastClaw has (`RowFits`); what each stage of a call implies of the row it read
  (`ReadFits`), of the row it holds under its lease (`WorkFits`) and of FastClaw
  (`StageFits`, `SuccessFits`); and one transaction at a time holds the row, and one the
  key of an event (`Exclusive`). The parts are operators of the row, the events, FastClaw
  and `landed`, so that a step of one call is judged by what it changes of these.
  `SuccessIsReal` rests on `Exclusive`: only the holder of the row asks FastClaw for
  anything. `NoWaitCycle` rests on a call writing its event last.
  `ResearchAgentImplementsLedger` makes the commit the step that is seen, so everything a call did
  before must still fit what it commits over. `LedgerInv` carries that: at each stage the
  row the transaction has written differs from the committed one only as `Changes` allows, and its
  event answers for it (`LedgerFits`). It holds across other calls' commits because of
  `Exclusive`: while a call holds the row, nobody else commits it.
* **The handoff** (`DurableHandoffProofs`). `Inv` says what is stored of the current
  candidate at each stage and of the others by their item (`ItemOK`). The point is
  `StoresOK`: an insert that may still take effect has cost the client, so that a
  read-back which is answered can be believed. `HandoffImplementsArchive` takes
  the step that finishes a candidate to `Decide` (`FinishDecides`), every compensation before it to `Work`
  (`GotoWorks`), late effects to `ComeLate` and `Stray`.
* **The ingest** (`HkexIngestProofs`). `CallOK`: past the lock an invocation with a session
  holds it, and what it has read still stands. `StoredOK`: the stored facts contain the
  last report's, and the transform counts that report. `CountsSuffice` is the argument
  about cardinalities: equal counts leave room neither for older facts nor for a
  document reported twice. In `IngestImplementsPublication` the release is the only step that shows
  anything, and by `CountsSuffice` it shows the last report.

The safety half of liveness is proved for two components: `RunGuardRequestsAdvance` and
`LifecycleAdvances` give a rank that no step of anybody lowers and each step under weak fairness
raises, so that a request or a run takes a bounded number of them in every
instance. That one of them stays enabled until the answer is what only TLC checks.

Model-checked only: liveness (`CallsReturn`, `DestroyIsAnswered`,
`ComesToRecord`), which needs ENABLED. Every safety property a passing run
checks is also a theorem (`RecordInv` as one of the registry, which the backend
implements). Not provable here either: what the counterexamples of the five findings
show, which is that a behaviour exists. Proved instead is
how far each reaches.

To repeat: `tlc -config MCSandboxBackend.cfg MCSandboxBackend`, likewise the
other configurations with the module they instantiate; `tlapm` on
each `*Proofs.tla`.

## 5. Not modelled

* The planned components below; their hazards are listed with no property yet.
* Most of the repository's lines. The domain packages, the planning functions of
  `packages/agent-runtime/src/index.ts` and the routes of `apps/worker/src/index.ts`
  compute an answer from a request and tables they are given: they keep no state, start
  nothing and wait for nobody, so their correctness is a question of values and not of
  behaviours, and their unit tests ask it. The web application, generated bundles,
  `scripts/check-*.mjs`, documents, migrations and contracts are not programs that run
  together with anything.
* Stateless parts of the modelled paths (tool gateway, scanner, token signing).
* Time as a number: timers are events, in the order the policy values give; whether a lease
  has expired is a free choice.
* Contents: output bytes, queue limits, file data, documents, receipts' text, error messages.
* In the ingest: the optional fields of a document, IPO links, raw snapshots and extraction runs,
  which no decision of the command reads; other data versions, which
  `scripts/release-ipo-data-version.mjs` releases without this lock.
* The provider, FastClaw, Postgres, R2 and Cloudflare's runtime beyond the assumptions above.

## 6. Plan

Modelled, checked and proved: the sandbox path, the profile service, the handoff and the
ingest, each with an abstract specification it implements. Next:

1. `TerminalLifecycle` and `DurableHandoff` composed with `SandboxService`, each in the place of its
   own free backend.
2. `ResearchAgentProductControl`: admin actions and their replay by action id.
3. The FastClaw runner with live control: the control poll against the stream's end.
4. `ChartImageStore` (object and metadata row in two steps), the backend's output queue.
5. The ephemeral cache and the mirror updater.

Each with an MC module, one type invariant, properties aimed at the hazards
listed for it, and an inductive invariant checked by TLC before it is proved.
