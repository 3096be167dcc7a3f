# Verification of Ikhnos in TLA+

Ikhnos (this repository) keeps a picture of many Kubernetes clusters. An *agent* runs in each cluster; a *server* lets
agents in, holds what they report and shows it to people. The Go code is in `src/backend/internal`. This directory holds
TLA+ modules translated from that code, TLC configurations that check them on small instances, and proofs, checked by
TLAPS, that hold for every value of the constants.

File names below are relative to `src/backend/internal/`.

## 1. Inventory

| Component | State it keeps | Operations | Interacts with | What is hard | Correct when |
|---|---|---|---|---|---|
| **Admission, server** `agents/enroll.go`, `agents/agent_lifecycle.go`, `agents/tier.go`, `store/sqlite.go` | tables `tokens`, `agents` | Enroll, resume, Poll, Approve, Reject, Revoke, Renew, Rejoin, expiry and purge | called by agents (gRPC) and people (HTTP); ends live streams through the hub | handlers read, think and write in separate transactions; anything may happen in between | one live agent per cluster, one agent per token, no guess beyond the limit, an end is final |
| **Agent identity** `agent/enroll.go`, `agent/identity.go`, `agent/run.go`, `agent/stream.go` | stored identity (Secret or files), identity in memory, renewal goroutine | once, sendEnrollment, awaitApproval, stream, renew, ended | the server's Enroll, Poll, Connect, Renew | crashes between save and send, lost answers, late requests, a second instance | nothing the server heard of is forgotten; an approval and an end arrive |
| **Hub** `estate/hub.go` | `Sessions`, `Views` | Connect, Drop, replace, sync, heartbeat, persist, Restore | Admission (AuthorizeAgent, OnRevoke), access, Config channel | a new stream replaces an old one whose handler still runs; revocation against registration | one live stream per agent, no revoked agent stays connected |
| **Tenants** `server/tenants.go`, `accounts/auth.go` | `tenants`, `loading` | Tenant, build, drop, DeleteOrg | every request and every stream; the hub of the organisation | callers share one load; a deletion races look-ups, joining streams and saves | one hub per organisation; every look-up returns; nothing of a deleted organisation stays at work or is written back |
| **Access** `estate/hub_consent.go`, `agents/consent.go` | approved tier, installed ceiling, overrides, the held picture, its stored copy | SetAgentTier, SetConsent, NoteCeiling, narrowState, narrowConsent | hub, store, Config channel | read-judge-write without a guard, a sync in flight, a restart | only an administrator widens; what is held stays within what is allowed |
| **Config channel** `estate/hub_paths.go`, `connectivity/paths.go` | `CfgHash`, `CfgApplied`, `CfgSentAt`, `CfgInForceAt`, push queue | ConfigFor, PushOne, NoteConfigEcho | hub, decision loop | echo against adoption, replaced streams, a full queue | the agent ends up with the current Config, and the server knows since when |
| **Facts** `facts/` (the effect of a sync is part of access) | the state of one cluster | Apply, Check, CheckDrift, chunk assembly (`estate/assemble.go`) | hub | limits, partial pictures | a refused message changes nothing |
| **Decision loop** `decisionloop/proposals.go`, `decisionloop/proposal_outcomes.go`, `store/proposals.go` | proposals, their status and expiry, outcomes | SubmitProposal, AcceptProposal, RejectProposal, expiry, RecordOutcomes | access (SetAgentTier, SetConsent), Config channel (AgentLoad) | two people decide one proposal; a proposal expires under a decision; the change is made and its end is not recorded | one decision makes its change, at most once; every applied proposal gets an outcome |
| **Operators** `operators/`, `telemetry/telemetry_intents.go` | operators, telemetry intents, the certificate ledger, opened CA keys, `DepMu`, `IntentMu` | create, move, issue, renew, revoke, delete | gateways, agents' intents, each other | a removal against whatever begins to send; locks, slots and shared opens that wait for each other | nothing sends to an operator that is gone; no key or certificate outlives one; every request returns |
| **Accounts** `accounts/` (not modelled) | people, sessions, second factors, audit | sign in, roles, recovery | every HTTP handler | attempts against limits, the last owner | a code works once; somebody can always administer |
| **Controller** `controller/run.go`, `controller/reconcile.go`, `controller/helminstall` | IkhnosAgent resources with finalizer and status, one release, the work queue | Reconcile: hold, judge, install, uninstall, let go | Kubernetes, Helm, people | the worker acts on a copy while people change the resource; a call fails or the process stops half way; nobody watches the release | no release is left behind, no resource forgotten, the cluster converges on what is asked or the resource says why not |
| **Twin, workspace, graph, history** | declared and observed model, versions | merge, record, diff | UI | provenance, size | pure merges |
| **FUSION, links, flows, advice, UI, charts** | little state of their own | queries, measurement, rendering | outside services | I/O | not the subject of this project |

The hazards of this code, each at the line where it bites and with the properties that watch over it, are listed in
`PROJECT.json` under `hazards`.

## 2. Modules

| Module | Content |
|---|---|
| `AgentLifecycle` | what the server promises about one agent's status, seen from outside (abstract specification) |
| `Admission` | the server side of admission, detailed; its properties |
| `AdmissionInv` | its inductive invariant |
| `AdmissionProof` | proofs about the server: type correctness, every safety property, the action properties and the step simulation of `AgentLifecycle`; and about its agents: types, every safety property, and that their server is `Admission` |
| `MCAdmission` | instances of `Admission`, with symmetry |
| `AgentIdentity` | the agent's side, composed with `Admission` (EXTENDS); its properties |
| `AgentIdentityInv` | its two inductive invariants, for any number of instances and for one |
| `MCAgentIdentity` | instances of `AgentIdentity` |
| `HubSession`, `HubSessionProof`, `MCHubSession` | the streams of one agent, the session table and Drop; its invariant and proofs; instance |
| `Tenants`, `TenantsProof`, `MCTenants` | one organisation's look-ups, load, streams and deletion; its invariant and proofs; instance |
| `ConfigChannel`, `ConfigChannelProof`, `MCConfigChannel` | how what was set for an agent comes to be in force on it; order of its pushes proved; instances |
| `HubAccess`, `HubAccessProof`, `MCHubAccess` | what the server may hold of one agent and who may widen it; its invariants and proofs; instances |
| `ProposalLife` | what the decision loop promises of every proposal (abstract specification) |
| `DecisionLoop`, `DecisionLoopProof`, `MCDecisionLoop` | proposals of one agent from submission to outcome; its invariant, the proof that it implements `ProposalLife`; instance |
| `Operators`, `OperatorsProof`, `MCOperators` | operators, what sends to them, their certificates and opened keys, and every lock and wait; its invariant and proofs; instance |
| `Controller`, `ControllerProof`, `MCController` | the work queue, the worker, the resources and the release; its invariant and proofs; instance |

### 2.1 Admission

`tokens` and `agents` are the two tables. A row's status is the code's, with `absent` for an identity not drawn yet and
`purged` for one whose row was deleted. A handler that makes several store calls is one action per call, and
`approving`, `resuming`, `renewing` hold what each handler carries from one to the next:

| Code | Actions |
|---|---|
| `Approve`: AgentInOrg, CountApprovalAttempt, Matches, CheckTier, ApproveAgent or RejectAgent | `ApproveRead`, `ApproveCount`, then `ApproveWrite`, `ApproveLocks` or `ApproveRefused` |
| `Enroll` with a fresh token (one transaction) | `EnrollAgent` |
| `Enroll` with a spent token: AgentByToken, perhaps ExpirePending, ResumeEnrollment | `ResumeRead`, `ResumeExpire`, `ResumeWrite` or `ResumeRefused` |
| `Renew`, `Rejoin`: AuthorizeAgent, SetLeaf, and for Renew ClearPollSecret | `RenewRead`, `SetLeaf` or `RenewRefused`, `RenewClears` |
| `Reject`, `Revoke` (one guarded update each) | `Reject`, `Revoke` |
| first authenticated contact | `ClearPollSecret` |
| expiry and purge, run by anything that meets an overdue request | `ExpirePending`, and inside `ResumeExpire`, `PollOverdue` |

Abstractions: a certificate is the key it names; the stored hash of an approval code is the pair (code, key), which is
what `approval.Hash` makes of them; time is the age of a row, `fresh`, `overdue` or `stale`, because both limits count
from the same `created_at`; a malformed code is refused before it is counted and is left out. The environment is open:
any key, code, cluster and tier may arrive at any time, so nothing rests on a well-behaved agent. There is no fairness:
every property of this module is a safety property. `compared`, `registered` and the field `proof` are history that the
properties need and no guard reads. An Approve that meets an overdue request only expires it, which is `ExpirePending`.

### 2.2 AgentIdentity

`stored` is the Secret. `inst` gives each process its place in `once()` and the identity in its memory, `renewal` its
renewal goroutine, `request` the Enroll calls under way with their answers. The server's half of an Enroll
(`HandleFresh`, `HandleResume`, `HandleOverdue`, `HandleWritten`, `HandleTooLate`, `HandleRefused`) uses the actions of
`Admission` step by step. A caller may give up (`EnrollLost`, `Crash`) while its request is still carried out. `Strays`
says whether such a request may still be under way when the next one is sent; it is FALSE in the run, which is the
code's own assumption ("the first was lost with the response"); what happens otherwise is told in section 3. Poll is one
step (the server reads, the agent acts on it and saves): between answer and save only a crash could come, and the save
of an answer that can be had again needs no step of its own. A renewal is never one step: its certificate outlives the
answer.

`Prepare` draws keys and codes, and `FreshKey`, `FreshCode`, `FreshSecret` say that what is drawn is not in use, which
is what random values mean here.

Fairness: weak fairness of the server answering each request and of a live instance going on with what it can do. The
code justifies the first by handlers that always return, the second by the loop in `run.go` that starts `once()` again
after a back-off, and by the pod being restarted. Crashes, lost answers, people and time are not fair, and renewing is
not required.

Left out: starting over with a second token, Rejoin by the agent (its server side is `RenewRead` with `clears` FALSE),
a store that refuses a Save, the file store.

### 2.3 HubSession

The hub keeps its tables per agent, so the module has one agent and any number of streams. `at` is where each handler
of `Connect` is, `ended` its channel of capacity one, `current` the entry of `Sessions`, `connected` the flag the
interface shows, `row` the status of the agent (it never comes back from `revoked`, see `EndIsFinal`).

| Code | Actions |
|---|---|
| the interceptor's check (`agents/grpc.go`, `identity`) | `Admit` |
| registration under the lock, with the Cancel of the stream before | `Register` |
| AuthorizeAgent once registered, and before each message | `Recheck`, `TakeMessage` |
| the wait for the Hello | `Hello` |
| the loop: an end, a message, any return | `TakeEnd`, `Handled`, `Fails` |
| the deferred cleanup | `Cleanup` |
| `Revoke`, then `Drop`: look up the session, read the reason, Cancel | `Revoke`, `DropLooks`, `DropCancels` |
| the process is restarted | `Restart` |

Fairness: a handler that can go on does; the Hello has a deadline of fifteen seconds, so the wait for it ends; `TakeEnd`
is strongly fair because `select` chooses at random among the cases that are ready, so an end that waits is not passed
over for ever by messages. A `Send` that blocks on an agent that does not read is not modelled: it ends with the
transport. What a message does to the picture and the saves on the way out are left to the `HubAccess`.

### 2.4 Tenants

One organisation, and callers that are requests or agents' streams. A caller brings the organisation up at most once,
so the caller also names its `tenantLoad`, the tenant and the hub that come of it. `tenant` and `loading` are the two
entries of the platform, `hubs` the hubs whose `Run` is going, `org` whether the rows exist (agents go with them), `kept`
whether `snapshots` holds a picture of one of the organisation's agents.

| Code | Actions |
|---|---|
| `Tenant`: under the lock, a tenant, a load to wait for, or a load of one's own | `FindTenant`, `JoinLoad`, `BeginLoad` |
| `build`: GetOrg, then settings, restore and `go h.Run` | `ReadOrg`, `StartHub` |
| `Tenant` after `build`, until the channel is closed | `FinishLoad` |
| a waiter: `l.done` or its own context | `Wake`, `StopWaiting` |
| the stream in its hub (`HubSession` without replacement: callers are different agents) | `Register`, `Recheck`, `TakeMessage`, `Apply`, `TakeEnd`, `Fails`, `Cleanup` |
| `DeleteOrg`: GetOrg and the name, the statements in one transaction, `OnOrgDeleted` | `Confirm`, `Erase`, then `Drop`, `StopTenant` |

Closing the channel is part of `FinishLoad` although the lock is released before it: a waiter may be as late as it
likes anyway. `DropAll` collects and cancels in one step: a stream that registers between the two is missed either way,
and one that leaves does not listen any more. A caller that deletes was handed the tenant first, as the HTTP layer does
it (`server/admin.go:442`), which is why the branch of `FinishLoad` for a load that was dropped is never taken with a
hub in hand; `FoundIsThere` in `TenantsProof` says so for any number of callers.

Fairness: a caller that is running goes on; what it does with the tenant it was given is its own choice, and so is when
a stream sends. `TakeEnd` is strongly fair as in `HubSession`.

### 2.5 ConfigChannel

One agent, the streams it has one after the other, and any number of `PushOne` calls. `wish` is what administrators
set: the tier of the row and the overrides in memory. A `Config` is the tier and the rest of what it says, and its
digest is the same pair, since equal digests mean equal contents. Every Config also carries `read`, the number of
changes made before its row was read; only `QueuedInOrder` looks at it.

| Code | Actions |
|---|---|
| `PushOne`: session looked up, lock and row, `compileFor` and the comparison, the queue, `adoptConfig` | `PushStart`, `PushRead`, `PushCompile` (or `PushGivesUp`), `PushQueue`, `PushAdopt` |
| `Connect`: registered, row read again, `ConfigFor` and the send, the time of the send | `Register`, `Recheck`, `Answer`, `NoteSent` |
| the loop of `Connect`: a queued Config, a heartbeat (`NoteConfigEcho`), an end | `SendQueued`, `TakeBeat`, `Leave`, `Fail` |
| the agent: a stream, a Config, a heartbeat, the end of the stream | `Dial`, `TakeConfig`, `HeartBeat`, `NoteEnd`, `HangUp` |
| fifteen seconds since the last send | `GracePasses` |

Where the order inside a handler matters it is kept: the session is looked up before the lock is taken, the row is
read before the overrides, a Config is queued before it is adopted, the answer to a Hello is adopted without the lock
and its time noted after it is sent. `Change` is what an administrator's handler writes; the `PushOne` it calls, the
one of the minute tick and the one a lost Config asks for are all `PushStart`.

Left out: the targets and measured paths that go with a Config, `CfgApplied` and `CfgInForceAt` (their effect on an
outcome is in `DecisionLoop`, which is what reads them), heartbeats sent only for their diagnostics (they name no Config
and change nothing here), and the ceiling the chart installs, which is constant: `resolveOverrides` then changes the
tier only if the Config does.

Fairness: each `PushOne` goes on and the minute tick starts another one; a handler goes on; the agent connects again,
beats, and notices the end of its stream. `SendQueued` and `TakeConfig` are strongly fair: `select` chooses at random
among what is ready, so neither is passed over for ever, though each can be disabled for a while by a full wire.
Changes and failures are not fair and are bounded by `MaxChanges` and `MaxFailures`; `TakesEffect` is about what
happens once they stop.

### 2.6 HubAccess

One agent with one stream at a time (how streams replace each other is `HubSession`). `row` is the tier and the ceiling
on record, `install` the ceiling its install really has, `saved`, `asked` and `loaded` the overrides in the store, in
memory and `ConsentLoad`, `held`, `dirty` and `kept` the picture in memory, whether it has changed since it was last
handed to the store, and the stored one. A picture is the set of facts in it; a fact needs a tier (`Level`), and an
override is the set of facts it takes away, whether by a paused collector or by a namespace left out.

| Code | Actions |
|---|---|
| `ensureConsent`: the store is read, then memory filled unless somebody else has | `EnsureRead`, `EnsureStore` |
| `SetAgentTier`: row read and change judged, tier written, `narrowState` | `TierRead`, `TierWrite`, `TierNarrows` |
| `SetConsent`: overrides read and change judged, stored, put in memory, `narrowConsent` | `ConsentRead`, `ConsentSave`, `ConsentPut`, `ConsentNarrows` |
| `Connect`: the Hello is on its way, the row read, then `NoteCeiling`: ceiling recorded, tier lowered to it, `narrowState` | `Dial`, `Recheck`, `RecordCeiling`, `FollowCeiling`, `CeilingNarrows` |
| a message with facts: row read and `DropAboveTier`, `dropConsentOverrides`, `State.Apply`, `persist` | `TakeSync`, `CutOverrides`, `Apply`, `PersistTake` or `PersistSkip`, `PersistSave` |
| the end of the stream, with its forced `persist` | `Leave`, `Breaks`, then as above |
| the store refuses; the process restarts and `Restore` runs | `SetterFails`, `NoteFails`, `SaveFails`, `Restart` |
| the owner of the cluster changes the install | `HelmUpgrade` |

`ConsentOf` is called by many: each caller waits until the overrides are loaded, and the loads are processes of their own
(`Lookups`), so that any caller's may be late. `DropAboveTier` works on the message with the tier just read, so reading
and dropping are one step. What an agent sends is any set of facts, whatever it was told. A Config that follows a change
is the concern of `ConfigChannel`.

Left out: deletions in a change (they only take away), a load that fails (`ensureConsent` takes it for "no overrides"
until the next change or start, `estate/hub_consent.go:42`), an agent that does not state its ceiling, and what is kept
only for the interface (known namespaces, drift, tombstones).

Fairness: a change that has begun goes on, and so do a load of the overrides and a connection. A stream ends for good
reason now and then, because the certificate that authenticated it runs out (`Leave` is strongly fair), and the agent
dials again. An agent sends full pictures, one on every stream and one per interval (`TakeFull` is strongly fair).
Changes, upgrades and failures are not fair and are bounded by `MaxChanges` and `MaxFailures`.

### 2.7 DecisionLoop

One agent, its proposals, the handlers that submit (`Advisors`) and decide (`Deciders`) them, and the recorder of
outcomes. `status`, `change`, `due` and `age` are the table of proposals, `outcome` the table of outcomes; `access` is
the agent's tier and overrides; `inStep`, `since` and `filled` are what `AgentLoad` tells of the Config in force.

| Code | Actions |
|---|---|
| `SubmitProposal`: expiry, agent read, change judged and pending ones counted; then the insert | `SubmitRead`, `SubmitWrite` |
| `expireDueProposals`, run by everything that reads proposals | `ExpireDue` inside `ListProposals`, `SubmitRead`, `RejectRead`, `AcceptRead` |
| `RejectProposal`: read, then the guarded transition | `RejectRead`, `RejectWrite` |
| `AcceptProposal`: read and plan; claim; `SetAgentTier` or `SetConsent` reads again, then writes; the end is recorded | `AcceptRead`, `AcceptClaim`, `ApplyRead`, `ApplyWrite`, `Finish` |
| the store refuses a write of any of these | `SubmitFails`, `DeciderFails`, `RecordFails` |
| `RecordOutcomes`: what awaits an outcome, what it is, the insert | `RecordRead`, `RecordWrite` |
| a person sets the access, an agent is revoked, Configs go out, are named or are forgotten, the server restarts | `ManualChange`, `Revoke`, `ConfigSent`, `ConfigNamed`, `Reconnects`, `Restart` |
| time | `ExpiryPasses`, `GiveUpPasses`, `WindowFills` |

Abstractions: a tier is one that the ceiling allows (the ceiling is `HubAccess`); what a decision, an outcome or an
advice says is left out, and so are the samples: a full window may be usable or not. A Config and its echo are three
facts, since `ConfigChannel` says how they come about; `ConfigNamed` may leave the time since when it is in force
undated, which happens when the echo comes before the server has noted what it sent. Left out: the limit for a whole
organisation, the HTTP call to an outside decider and what the history records.

Fairness: a handler that has begun goes on, the minute tick comes, time passes. Nothing is fair about people, agents or
Configs, so `OutcomeArrives` holds for an agent that never answers. It does not promise an outcome to a server that is
down for longer than `outcomeLookback` (`age` is then `"old"`), which only `Restart` can bring about.

### 2.8 Operators

Regional operators and the senders that name them as their destination, other operators and agents' telemetry intents,
in one table (`status`, `to`). `readers` and `writer` are `DepMu`, `intentMu` is `IntentMu`, `opened` and `inflight` the
cache of opened CAs, `ledger` the operators with a certificate on record, `call` what each handler is doing.

| Code | Actions |
|---|---|
| `DepMu`, Go's RWMutex: a writer that has asked keeps new readers out, and lets in those that wait when it leaves | `GetRead`, `Announce`, `GetWrite`, `Return` |
| `CreateOperator`, `CreateTelemetryIntent` and the two moves, up to the checks | `CheckAdd` (`ValidateDestination`, `checkOperatorChain`) |
| their writes | `CreateOperator`, `Move`, `TakeIntentMu`, `ListIntents`, `CreateTelemetryIntent` |
| issuing, renewing and reissuing a sender's certificate | `CheckIssue`, `FindCA`, `TakeSlot`, `Unsealed`, `RecordOperatorCert` |
| a shared open that ends: those who share it are woken | `OpenEnds`, `OpenFails` |
| `RevokeOperatorForce`, `DeleteOperatorForce`: dependents counted, row changed, key forgotten | `CheckRemoval`, `Remove`, `Forget` |
| intents and agents that end without a lock | `RevokeTelemetryIntent`, `DeleteTelemetryIntent`, `RevokeAgent` |
| a write that fails, a restart | `StoreFails`, `Restart` |

`CreateOperator` may go on to issue under the lock it holds (`mintSenderCertsHeld`); `left` and `crossed` are history
that no guard reads. A sender has one destination, where an intent may have one per signal type; the central operator is
among what is `Outside`, because nobody moves or removes it. Left out: heartbeats, recorded addresses and dates.

Fairness: a handler runs on; what it waits for with others (`Announce`, `TakeIntentMu`, `TakeSlot`) it gets if it can be
had again and again. Go justifies that: a mutex hands itself over to who has waited for a millisecond, an RWMutex lets the
waiting readers in after each writer, and channels serve senders in order. Requests, failures and restarts are not fair.

### 2.9 Controller

`res` is the resource of each name with its finalizer, deletion mark, status and the hash in it, `release` what Helm has
in the namespace, `queue` the work queue, `worker` where the one worker is and the copy of the resource it acts on.

| Code | Actions |
|---|---|
| the event handlers of `Run`; the tick of ten minutes | `Updated` and `Gone` inside every step that changes a resource; `Resync` |
| the loop of `Run`: the next name, its resource and those beside it | `Take`, `List` |
| `apply`: finalizer, problems of the spec, token, judgement, status, install, status | `Hold`, `ReadToken`, `Judge`, `Mark`, `ApplyStarts` or `ApplyRefused`, `ApplyEnds`, `WriteStatus` |
| `finish`: status, what is installed, perhaps an install that fits the wish to purge, uninstall, finalizer off | `Finish`, `Look`, `ReadToken`, `ApplyStarts` or `ApplyRefused`, `ApplyEnds`, `UninstallStarts`, `UninstallEnds`, `LetGo` |
| `blocked`: a resource beside the owner | `List`, then `WriteStatus` or `LetGo` |
| a call is refused or meets a conflict; an install fails; the status of a deletion cannot be written; the namespace goes | `CallFails`, `ApplyFails`, `DeletingUntold`, `NamespaceGoes` |
| the process restarts, perhaps as another build | `Restart` |
| the Helm library under them: when it refuses an upgrade, what becomes of an earlier revision | `HelmRefuses`, `EarlierGoes` |
| people | `Create`, `Edit`, `AskToSkip`, `Delete`, `TokenChanges`, `RemovedByHand` |

Abstractions: what a spec and a token make of Helm values is the pair of them; finalizer and status writes are a get and
an update in one step, and a conflict between the two is `CallFails`; the informer queues a change at once. An install
or uninstall takes two steps or three, with the release half done between them, and nobody removes the release by hand
in the middle of one. `loose` is history and names the reasons for which a release may be there without a resource that
holds it; `missed` says that the release was removed by hand and no tick has come since. Left out: a token of the wrong
form, other finalizers, back-off, conditions and their times, the observed generation, the identity Secret.

Helm is not part of the repository. `release` is the last revision, as `Current` reads it, and `earlier` says whether
another one is on record as deployed, which is so once an upgrade has begun. `Apply` marks a pending revision failed and
leaves any other status to Helm's upgrade (`controller/helminstall/helminstall.go:141-150`). That one goes on from the
revision that is deployed, or else from a last one that failed. An uninstall that was stopped leaves the last revision
as "uninstalling": it is uninstalled again, but not upgraded, unless it was an upgrade that was half done before and its
predecessor is still on record.

Fairness: the worker goes on, the tick comes, and a name that waits is taken in its turn, because the queue is first in,
first out. People, failures and restarts are not fair.

## 3. Runs

| Run | Instance | Shows |
|---|---|---|
| `request` | 1 agent, 1 token, 2 keys, 2 codes, 2 approvers, 1 resumed and 1 renewing handler, 2 attempts | the attempt limit under parallel guesses, reopening under a typed code, certificates against revocation, the abstract life cycle |
| `cluster` | 2 agents, 2 tokens, 1 cluster, 2 approvers, tiers 0 and 1 | one live agent per cluster, one agent per token, tiers within every limit |
| `alone` | 1 instance, 3 keys, 2 codes, 2 secrets, 2 crashes or lost answers | crash safety of the stored identity, and that approvals and ends arrive |
| `session` | 3 streams, a revocation, restarts | revocation against registration, replacement and cleanup; both kinds of stream leave |
| `deletion` | 3 callers | one load for all, deletion against look-ups and joining streams, two deletions at once; every look-up returns, every stream leaves |
| `written_back` (violation) | 3 callers | finding 1 |
| `config` | 2 streams, 1 push at a time, queue and wires of 1, 1 change, 1 failure or restart | what was set last is in force in the end, and the server holds it as sent |
| `access` | 2 facts, tiers 0 to 2, a token for tier 1, 1 change at a time, 2 loads of the overrides, 2 changes or upgrades, 2 failures or restarts | nothing above the grant is approved, held or stored; the overrides in memory are the stored ones; what is held and stored ends up within what is allowed; the ceiling is known and respected in the end |
| `widens` (violation) | 2 changes at a time, a token for tier 2, no failure | finding 2 |
| `loop` | 1 proposal, 2 deciding handlers, 1 submitting, 2 changes by hand or by the server, 2 failures or restarts | of two people who decide, one makes the change; the life of `ProposalLife`; every applied proposal gets an outcome |
| `operators` | 2 operators, 2 intents of 1 agent, 2 handlers at a time, 3 requests, 1 slot, 1 failure or restart | nothing sends to an operator that is gone, one active intent, certificates and keys of active operators only, no circle but by two moves at once, every request returns |
| `controller` | 2 resources, 3 specs (one that keeps the identity, one that lets it go, one above what the controller may install), 2 charts, 1 token, 3 changes, 1 failure or restart | no release without a resource that holds it, nothing unsettled forgotten, convergence, also of what Helm refuses |

Bounds. `CountCap` stops the count of attempts one past the limit, which is the first value treated differently from
the limit. Two approvers are enough for every race over one row, since an approval reads and writes only that row and
the index. Two keys and codes tell "the one it was approved with" from "another"; a renewal needs a third key because
the old one stays in the table until the new one is written. `MaxFaults` is 2: one fault to lose an answer, one to hit
the recovery from it. Symmetry is used only in runs without liveness.
Three streams are a current one, the one it replaced and a third on its way in. Three callers are a loader, one that
waits and one that gives up; a stream, the owner who deletes and a second owner; the proofs of both modules hold for
any number. Two streams are the agent's own and one whose handler is behind; the queue of four and the wires are cut to
one, where they are full soonest. One push at a time is enough for `TakesEffect`, which asks what becomes of the last
push; what several do to each other is `QueuedInOrder`, proved for any number. In `access` the token stops below what
the install and the release allow, so that `WithinGrant` is about a limit nothing else enforces, and the install may say
one more than the server knows. Two loads are one that is late and the one that overtook it. Two changes are one to be
narrowed and one that narrows; two failures are a save that is lost and a restart after it.
In `loop` one proposal is enough, since no action relates two but the expiry and the pending limit, and the proofs hold
for any number; two handlers are the two people; two changes are a Config that goes out after the applied one and one by
hand. In `operators` three requests are two at a time and one behind them, which is what it takes for a reader to wait
behind a writer that waits for a reader; the locks of more requests are proved (`OpInv`). In `controller` three changes
are two resources and what happens to one of them; the two invariants were also checked with four changes, and are
proved for any number. All three properties were also checked with two failures, where an upgrade fails, its uninstall is
stopped, and an earlier revision is there to go on from.

### Findings

1. **`GoneIsNotWrittenBack`** (`written_back`): the comment at `server/tenants.go:149` says that a deleted
   organisation's data must not be written back. A deletion erases the rows and then ends the streams; each of them
   stores its agent's picture and flow table on the way out (`estate/hub.go:359`), and so does a message that was being
   handled (`estate/hub.go:529`). The table `snapshots` has no foreign key and everything that deletes from it goes by
   agents that exist, so these rows stay in the database for good.
2. **`OnlyAdminWidens`** (`widens`): the comment at `estate/hub_consent.go:107-108` says that widening takes an
   administrator. `SetAgentTier` judges a change against the row it has read and writes the tier whatever the row is by
   then. An editor who narrows 2 to 1 while somebody else narrows 2 to 0 raises the tier from 0 to 1, and the audit row
   says "2 to 1". `NoteCeiling` writes in the same way, from the row read before the Hello came.

### Seen on the way

What follows is no run's subject; most of it can be seen with a change of constants.

- Enrolling again. The comments at `agent/enroll.go:29` and `agents/enroll.go:36` say that it can be repeated safely.
  A resumed Enroll draws a new poll secret each time; when the agent gives up on a call and calls again, and the first
  one is carried out last, the table holds a secret the agent never stored, and its next poll ends an enrollment that
  waits or is approved. `RepeatedSafely` of `AgentIdentity` is violated with `Strays` TRUE and three secrets. It is also
  violated without strays: a resumed Enroll finds its request overdue, an Approve that read the row before writes
  "approved", and `ResumeEnrollment` then refuses the row it is in (`agents/enroll.go:134-150`), so that the agent is told
  it is over while it is approved. `WaitingIsNotEnded` is what is left, and proved.
- Two instances of the agent (`agent/enroll.go:190`). The first adopts an identity that the other has completed, polls
  with its empty secret, is refused, and overwrites it with the mark of an end: `StoredIsTruth` is violated with two
  instances, and is a theorem for one. The chart runs one replica and replaces it by Recreate.
- A lowered tier. The comment at `estate/hub_consent.go:160` says that what is held above it goes now. A message that is
  being handled was cut to the earlier tier, and brings the facts back until the next full picture: `GoesNow` of
  `HubAccess` is violated with one change, a token for tier 2 and no failure. `NarrowedInTheEnd` says that they go then.
- `ConfigChannel` with `Echoes` FALSE violates `TakesEffect`. `PushOne` sends nothing when the digest it holds as sent is
  the one it would send, but that digest belongs to the agent and not to the stream: the handler of a replaced stream
  adopts the Config it answers with. An agent that echoes digests is sent it again; an older one, which
  `connectivity/net_view.go:21` expects to meet, keeps the older Config until it reconnects, although
  `estate/hub_paths.go:101-102` says that it need not.
- Two operators moved at once, each towards the other, make a circle: `checkOperatorChain` judges under a lock that both
  hold for reading (`operators/operators.go:519`), though its comment (`operators/operators.go:230-232`) says that a loop
  is refused. `LeadsOut` is violated with two operators there at the start and two requests; `NoCircle` says that
  nothing else makes one.
- A proposal whose end could not be recorded, or whose server stopped in between, stays accepted for ever, made or not.
- The expiry of a proposal may pass between its read and its claim, although `decisionloop/proposals.go:234-235` says
  that an expired one is never accepted; and the overrides it writes are those planned before the claim, so that others
  set meanwhile are replaced.
- An intent that is created while its agent is being revoked stays active. It sends nothing.
- The controller takes a resource that is gone for no error when it sets the finalizer (`controller/reconcile.go:356-358`),
  goes on to install, and nobody uninstalls what it installed, although `controller/api.go:28` says that the finalizer
  holds a resource until its release is uninstalled. And a resource that gave way to one of the same second with a
  smaller name lets go of a release which nobody holds if that one is deleted before it is looked at
  (`controller/reconcile.go:139-145`). `loose` marks both; `InstalledIsHeld` says that nothing else does it.
- `controller/helminstall/helminstall.go:139-140` says that a revision left half done would be refused for ever, and
  repairs the pending ones only. Somebody creates a resource and deletes it, the controller stops in the middle of the
  uninstall, and the spec is edited to delete the identity with the release (or a resource that precedes it, or comes
  after it with `skip-uninstall`, asks for an install). `Apply` is then refused on every retry. The resource stays in
  `Deleting`, or the new one in `Failed`, until the edit is taken back or, for the new one, until it is deleted with the
  choice about the identity that the release was installed with, or either is let go by `skip-uninstall`. `Converges`
  says that nothing else keeps the cluster from settling, and that the resource says so all the while; without that
  alternative (`Stuck`) it is violated in the run `controller`.
- `src/docs-site/docs/inside/agent.md` gives seven days for Rejoin, `pki/pki.go:42` gives sixty.

## 4. Proofs

`AdmissionProof` proves, for any sets of tokens, agents, clusters, keys, codes and handlers and any
limits, from `AttemptsAssumption`, `TierAssumption` and `NoneAssumption`:

| Theorem | States |
|---|---|
| `TypeCorrect` | `Spec => []TypeOK` |
| `InvCorrect` | `Spec => []Inv` |
| `OneApprovedCorrect`, `ComparisonsCorrect`, `LeafCorrect`, `ConfirmedCorrect`, `TierCorrect`, `TokenCorrect` | each safety property of section 2.1 |
| `KeyIsFixedCorrect`, `EndIsFinalCorrect` | the action properties |
| `RefinesLifecycle` | `Spec => Lifecycle!Spec` under the refinement mapping of `Admission` |

Why an invariant is needed: none of the safety properties is inductive. An approval that was counted may write much
later, so what it carries must still be related to the row: its key and limits are the row's (they never change while
the row exists), and its hash was registered for that key (`ApproveFollows`). A resumed request must carry the row's
key (`ResumeFollows`), or reopening could change it. `ComparisonsBounded` rests on `compared <= attempts` (`Bound`),
because both are reset together. A purged identity is blank, so a late write finds nothing (`Blank`).

The second half of `AdmissionProof` is about `AgentIdentity`, from `InstallAssumption` as well.

| Theorem | States | Of |
|---|---|---|
| `AgentRefinesAdmission` | `AgentSpec => Spec`: whatever agents do, what is proved of `Admission` holds of their server | any number of instances, with requests that stray |
| `AgentAlwaysInv`, `AgentTypeCorrect` | `[]AgentInv`, `[]AgentTypeOK` | the same |
| `CertFitsKeyCorrect` | `[]CertFitsKey` | the same |
| `OneAlwaysInv` | `[]OneInv` | `OneInstance` |
| `KeyNotForgottenCorrect`, `CodeIsShownCorrect`, `WaitingIsNotEndedCorrect` | the other invariants of section 2.2 | `OneInstance` |
| `StoredIsTruthCorrect` | `StoredIsTruth`: an approved identity is not replaced by the mark of an end | `OneInstance` |

`AgentInv` says that what is kept together fits: a certificate is for the key beside it in the store and in every
memory, a request that is in a handler is the one its handler carries, an instance waits for its own request.
`OneInstance` is a hypothesis of the theorems and not of the model: at most one instance, and `~Strays`. The chart gives
the first (one replica, replaced by Recreate) and the code assumes the second. Without either the properties are false,
as section 3 tells, so the theorems cannot be had for less. Under it, `KeyNotForgotten` and its like are not inductive:
what is stored must be related to a row that may be written by a request whose sender has crashed, and to answers that
arrive later than the row changes. `OneInv` has five parts. `OneRow`: the only token lets in one agent, so every handler
and every renewal is about its row. `MemoryStored`: a running instance holds what is stored. `OneRequest`: at most one
request is under way, it carries the stored key and code, and no instance is past asking. `AnswerHolds`: an "ok" names
the row and its poll secret as they are, a refusal comes only when no row waits, and a resume that will reopen finds no
row waiting. `StoreHolds`: a row that waits has the stored key and code, and the stored poll secret if there is one. Every
action then either finds nothing waiting and nothing under way (`NothingWaits`), or only lets a row wait on (`Waits`,
`Undisturbed`), or serves the one request (`OneServes`). `StoredIsTruth` needs one thing more, `MarkInv`: an instance that
polls has no certificate yet and nobody works under the mark of an end, so an end is only ever written over an identity
without a certificate, or by an instance whose row is over.

`HubSessionProof` proves `SessionInv` inductive for any set of streams, and from it `ShownIsThere`, `OneSession`,
`RevokedIsEnding` and `ToldOnlyWhenRevoked`. `RevokedIsEnding` alone is not inductive: a `Drop` that finds no session must
leave nobody behind, which holds because every handler that is not the current one already has its end waiting
(`OneSession`), and because no end says "revoked" before the row does.

`TenantsProof` proves `TenantsInv` inductive for any set of callers, and from it `OneHub`, `DeletedIsDown`,
`DeletedHasNoStream`, `OwnCancelOnly` and `WaitsForSomebody`. The argument is about order. While the organisation
exists, every tenant that anyone holds is the entered one (`HeldIsEntered`), and an entered tenant excludes a load
(`LoadsAreKnown`); whoever erases the rows holds a tenant, so at that moment no load is under way, and a load that has
found the organisation still has it when it ends (`FoundIsThere`). Afterwards nothing new can come up, and what was up
is in the table or in the hands of one caller (`HubsAreOwned`, `OneStops`), which also reaches every stream that is
served (`ServedIsReached`). `WaitsForSomebody` is what safety has to say of `CallReturns`: a load in the table is under
way (`LoadsAreKnown`), and one that is under way is carried on with until its channel is closed, whoever gave up
meanwhile (`LoadsEnd`).

`ConfigChannelProof` proves the types and `QueuedInOrder` for any number of streams and pushes, any capacity and any
settings (`ChannelAssumption`). The order is not inductive alone: what a push appends must not be older than what is
queued, which holds because everything queued was read before what any push holds (`ReadBefore`), and this stays true
because only one push at a time is past the lock (`OneIsLocked`). It is the claim of the comment at
`estate/hub_paths.go:104-106`.

`HubAccessProof` proves, for any facts, tiers and number of changes at a time (`AccessAssumption`), the types,
`WithinGrant` and, while one change is made at a time, `ConsentAgrees`. `WithinGrant` is not inductive: a change writes a
tier it judged earlier, a connection one it read earlier, a save a picture taken earlier. `CarriedGrant` says that each
of these is within the grant too, and that a ceiling is only followed down. `ConsentAgrees` needs that overrides are set
only once they are loaded, so that a load that is late has read what is still stored (`ConsentInv`).

`DecisionLoopProof` proves `LoopInv` inductive for any number of proposals, handlers and changes (`LoopAssumption`), from
it `OneDecides`, and that `DecisionLoop` implements `ProposalLife`: every step maps to a step of a proposal's life or to
none. `OneDecides` is nearly inductive: whoever has claimed a proposal has taken it out of pending, and the guarded
transition lets nobody else do so. The refinement needs `MadeOnlyAccepted`, because an end that says "failed" must find
nothing made, and `RecordsApplied`, because an outcome is written later than it is judged.

`OperatorsProof` proves, for any operators, intents, agents, chain lengths, slots and requests (`OperatorsAssumption`),
`NoOrphans`, `OneActiveIntent`, `CertsOfActive`, `KeyForgotten` and `NoCircle`. None is inductive: each rests on what a
handler read before it wrote. `Locks` says who holds `DepMu` and `IntentMu` at which place of a handler; `Promised` says
what stays true of what it has checked, because whoever could change it is kept out by the lock: a destination that was
found active is active until the write, no intent appears between the list and the insert, no dependent between the
count and the removal. `OpInv` is both together with the first four properties.

`NoCircle` is about every set of operators, and is proved without an induction over sets. What `checkOperatorChain`
follows is a function on `0..MaxChain` (that there is one is `HopsExist`, by the least length for which there would be
none). If a set of active operators were closed under sending, the chain from any of its members would never leave it,
while a chain that was let through ends outside; so a move or a new operator that was let through closes no circle
(`ChainCloses`), and a step that only ends operators or redirects them outward makes none either (`RowsShrink`). Between
the check and the write the table may change: what was found to close no circle still does not, unless another move was
written in between, which is what `crossed` records (`MovesFit`); and an operator that is created meanwhile is nobody's
destination (`NamedExist`), so it joins no chain. `CircleInv` is the three together, inductive beside `OpInv`.

`SomeoneGoesOn` is what safety has to say of `CallsReturn`: while requests are under way, one of them is not `Blocked`, so
they never all wait for each other. TLC has shown once, on the instance of `operators`, that a handler is `Blocked`
exactly when no step of it is enabled, which the prover cannot say. Who waits behind a writer waits for somebody that
`Locks` finds under `DepMu`; who holds it waits at most for `IntentMu`, whose holder waits for nothing, for a slot, which
is taken only while somebody unseals, or for a shared open, which somebody is at (`Opens`).

`ControllerProof` proves, for any names, specs, tokens, charts, changes and failures (`ControllerAssumption`),
`NoneIsForgotten` and `InstalledIsHeld`. The worker acts on a copy, so `ControllerInv` says what the copy still tells:
a finalizer it shows is still there, and a deletion it does not show is in the queue (`CopyHolds`); whoever became the
owner since the worker looked is in the queue (`OwnerKnown`); what is about to be told as ready is so, or the resource
waits again (`ReadyIsSo`). `HeldBefore`, `LetsGoOfNothing`, `ToldIsHeld` and `NobodyLeft` follow the finalizer from the
first install to the last uninstall. `InstalledIsHeld` then takes that where there is a resource one of them is the owner
(`AnOwner`, by the least creation time and the least name): the owner is attended, or its status speaks of a release,
which only that of a held resource does.

The type invariants of `Admission`, `AgentIdentity`, `ConfigChannel`, `HubAccess` are theorems of their own; those of
`HubSession`, `Tenants`, `DecisionLoop`, `Operators` and `Controller` are conjuncts of the inductive invariants that are
proved. No run spends a check on a type invariant that is proved.

Every invariant and every action property that a run checks is a theorem. Only model-checked: liveness (`ApprovalArrives`,
`EndArrives`, `RevokedLeaves`, `CallReturns`, `DeletedStreamsLeave`, `TakesEffect`, `NarrowedInTheEnd`, `CeilingIsKnown`,
`OutcomeArrives`, `CallsReturn`, `Converges`), because fairness is out of the prover's reach.

## 5. Not modelled

The modules cover the parts of the server, the agent and the controller that keep state in several steps, under locks,
across crashes or between processes. They map about four in a hundred of the lines of the implementation. Most of the
rest has no behaviour of that kind: generated protocol code, the HTTP routes and the web interface, queries of Neo4j and
FUSION, collectors that read Kubernetes and the kernel, arithmetic on samples, charts and wording. A model of those would
repeat the code without anything to check across steps, so they are listed in `PROJECT.json` with the reason and left.

Candidates for what comes next, in this order:

1. Accounts: a member, a role, an invitation or a one-time code each change in one transaction or one guarded update
   under `UserMu` (`accounts/auth.go`, `store/accounts.go`); what to state is that an organisation keeps an owner and that
   a code works once, also for two browsers at once.
2. The rest of access: the installed tier that a reopened request states (`agents/enroll.go:124`), which the approval
   does not see; a load of the overrides that fails.
3. An identity store that saves entry by entry, under `AgentIdentity`.
4. Retention and the audit chain of the store; tombstones of the twin; the control switch of FUSION.
