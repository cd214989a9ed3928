# A2AMesh: TLA+ models, model checking and proofs

This directory is a verification development for A2AMesh (`src/src/a2amesh`), a mesh
of AI agents that talk A2A over NATS. It models the parts of the code in which several
actors share state, checks them with TLC on small instances and proves the most
important facts with TLAPS for every value of the constants. `PROJECT.json` lists the
runs, the source lines behind each definition, and the hazards the properties are for.

## Inventory

| Part | State | Operations | What is hard | What makes it correct |
|---|---|---|---|---|
| Artifact hold expiry contract, `state_contracts/artifact_hold.py` | one CAS snapshot: hold, candidate ledger with a global fence counter, commit, audit and outbox records | SCAN, EXPIRE, REPLAY_CLAIM and their retries; every write ends in `validate()` | reapers on skewed clocks present old authorities; renew/release/delete race them; answers are lost and taken over | a hold expires at most once and as scanned; evidence is complete; only the newest authority is answered, with the committed result; `validate()` never refuses |
| Agent runtime and executor, `runtime/agent.py`, `runtime/executor.py` | task, future, fingerprint, cancel and in-flight tables; a child process per task | `message/send`, `message/stream`, `tasks/cancel`, `close` | duplicates join, cancels race the exit of the process, awaits fail, commands hang | a command runs once, all callers agree, an accepted cancel wins, no process is left, everybody is answered |
| Orchestrator, dispatcher, aggregator, planner, `orchestrator/` | the root task; step status, results, attempts | `handle_task`, plan validation, dispatch loop, retries | RPC loses and delays; retries overlap; bad plans; failed dependencies | dependency order, one run per step, a true verdict, termination |
| Legacy RPC adapters, `a2anats/compatibility.py` | subscriptions, RPC tasks, reply inboxes | request/reply with timeouts, `close` | `close` while calls arrive; late replies | part of the two models above |
| Stream sessions, `bindings/nats_v1/stream.py` | the frame cursor | open response, `accept` | frames repeat, reorder, get lost, and outlive a reconnect | the caller sees a prefix of the task's events |
| Signed NATS v1 binding, `bindings/nats_v1/{transport,auth,envelope,response}.py` | handler tasks, the subscription; outside it the durable replay guard | `request`, the handler of a delivery, `start`, `close` | duplicates and retries under one id, clocks that differ, times cut to seconds, hung applications, crashes | an envelope is let through once while the guard answers in time, an answer belongs to its call, nothing timely is refused, `close` ends |
| Identity, `identity/` | in-memory replay cache, alias registry | verify, register | the cache forgets by time, clocks differ | planned |
| Session memory, `memory/store.py` | KV entries with revisions | `session_append` (compare-and-set loop), `session_close` | concurrent appends, lost answers, bounded retries | the history is an atomic log |
| v1 peer, `runtime/v1_peer.py` | life-cycle state | start, close | several of each at once, deliveries in between | a CLOSED peer does not listen |
| Protocol state machine, core application, `protocol/state_machine.py`, `core/` | transition table, operation registry | `dispatch_unary` | – | part of the binding's model |
| Reconciliation identities, configuration slots, tools and MCP, command lines | none, or configuration | pure functions, I/O | – | not modelled: see below |

Interaction: a caller's RPC arrives over NATS at a server adapter, which starts one
coroutine per message on the event loop; `OrchestratorRuntime` and `AgentRuntime` are such
servers. The orchestrator is itself a client: its dispatcher sends each step to an agent with
the step's task id, so a retry meets the task table of the agent. A reaper calls the
State plane, which applies `artifact_hold.py` to a snapshot and stores the result with
compare-and-set; so does every other writer of the Artifact version. The v1 peer is the other way in:
`V1PeerRuntime` owns a `V1NatsServer`, which checks each signed envelope, claims its request id from a
durable guard and hands it to the application behind `dispatch_unary`. An agent appends each
request to the caller's session through `MemoryStore`.

## Modules

| Module | Models |
|---|---|
| `ArtifactHold` | the contract, its callers, its clocks and the other writers |
| `HoldLifecycle` | abstract: what a hold promises the rest of the system |
| `ArtifactHold_proofs` | the theorems about it |
| `AgentTasks` | one agent: task table, executor, child processes, `close` |
| `TaskService` | abstract: what an agent promises its callers |
| `AgentTasks_proofs` | the theorems about it |
| `Orchestration` | one root task, the dispatcher, the network, the agents |
| `Orchestration_proofs` | the theorems about it |
| `StreamSession` | the open response and the frame cursor |
| `StreamSession_proofs` | the theorems about it |
| `V1Binding` | the v1 binding: callers, network, one peer with its life cycle and crashes |
| `V1Binding_proofs` | the theorems about it |
| `MemoryStore` | concurrent `session_append` on a KV entry |
| `SessionLog` | abstract: the log `session_append` promises |
| `MemoryStore_proofs` | the theorems about it |
| `MCArtifactHold`, `MCAgentTasks`, `MCOrchestration`, `MCMemoryStore`, `MCV1Binding` | symmetry sets, the peer's clocks |

### ArtifactHold

The variables are the fields of `ArtifactHoldExpiryCASState`: `hold` (the hold and the
Artifact's retention fields), `entries` (candidate ledger), `scans`, `claims`,
`pointers`, `highWater`, and `commits`, `audits`, `outbox`; `reply` is what the last caller was told
and `clock` the latest time any server has seen. A server may lag by `MaxSkew` (`ServerNow`).
`Scan`, `Expire` and `ReplayClaim` are the three `apply_*` functions on their first
call, `ScanAgain`, `ExpireAgain` and `ReplayClaimAgain` their answers to a repeated
one. A refused call writes nothing and is not a step. Any candidate ever issued may be presented at any
later time by any caller, which covers delayed, repeated and misdirected calls. `Renew`, `Release`,
`ChangeRetention`, `BeginDelete` are the other State writers, and `BurnFence` is the
persisted counter moving without a candidate; none of them is in the repository,
and they do what the snapshot's validation accepts.

Each function ends in `updated.validate()`. It is *not* a guard of the actions, apart from two
clauses nothing else enforces (`AllocationHasPredecessor`, `Claimable`'s time bound): the
invariants `HoldValid`, `AuthorityUnique`, `EvidenceComplete`, `ReplayAuthorityValid`,
`ProjectionValid`, `CommitsValid`, `HoldReflectsCommit`, `ClaimsValid` state that
validation, so showing them shows that the last check refuses nothing the earlier checks let
through, in particular that a legal history never wedges a snapshot.

SHA-256 identities are the tuples that are hashed; lease id and token, issued and checked
together, are one bearer value; canonical JSON and field syntax are left out.

### AgentTasks

`pc[c]` is the await at which call `c` is suspended, and a step is the code up to the next
await. `Claim*`, `Register`, `Announce*`, `Spawn*`, `Run*`, `Drain*`, `Terminate`, `Stop`, `Settle`,
`DeadLetter`, `RecordResponse`, `EmitFinal*` follow `handle_task`, `handle_task_stream` and
`Executor.run`; `Cancel*` follow `cancel`; `Close` cancels the calls it finds, `Unsubscribe`
follows, and the `Killed*` actions deliver the `CancelledError` at each kind of await.
A child exits with one of three outcomes (`Outcome`). `TaskService` is what a caller may count on, without coroutines, futures,
events or processes: an id is claimed for the payload of its first caller, its command started at most once while
the task is working, and the task finished once; a call is told a final state only if the task is in it and the
call asked for it, a conflict only if another payload has the id, and a canceller never `completed`. A call is told
its `result` when its `pc` is `done`.

### Orchestration

`handle_task` (claim, join, conflict), planning, `validate_plan` (`Acyclic`), the loop of
`Dispatcher.run` (`StartReady`, `Collected`, `Return`), one coroutine per step (`RunStep`:
send, reply, failure, back-off, next attempt) and the aggregation. The wire is a set of
messages from which any may be taken at any time or never. The agent is what `AgentTasks`
shows of it (`TaskService`): one task per id, later requests join, the final state stays. It is one
process: with two same-named agents behind the queue group of `compatibility.py:309` a retry may reach the
other one, whose task table does not know the id, and `StepRunsOnce` says nothing of that.

### StreamSession

The State plane commits events; each open takes a snapshot; any frame of any open may be
delivered at any time, any number of times, and marked final wrongly. `Opened` is
`StreamSessionOpenedV1`; `AcceptNew`, `AcceptRedelivery` and `Refuse` are the three ways out of
`StreamFrameCursorV1.accept`. `view` is what the caller has been shown. Events are counted without gaps,
so in a published frame `eventSeq` is the snapshot plus the sequence, and `accept`'s comparisons of
`eventSeq` (`stream.py:269`) agree with those of the sequence; the code also accepts gaps in it.

### V1Binding

`calls[c]` is one call of `V1NatsClient.request`: its envelope (id, send time, timeout, whether
something is wrong with it) and how it ended. A caller may choose the id, so two calls may share
one. `handler[h].pc` is the await at which a task of `V1NatsServer._handle` stands: the identity
resolver, the replay guard, the application, the answer. `Deliver` is `_schedule`, for any envelope ever sent and
again if the network likes; `Drop`, `ResolveFails`, `Verify`, `Claim`, `ClaimFails`, `Dispatch`, `Returns`,
`Raises`, `Respond`, `RespondLost`, `RespondFails` are the ways on from each await. `Wire` cuts a time
to whole seconds, as `_format_timestamp` does, and `InTime` is
the group of comparisons in `verify_subject` with the peer's clock, which is `offset` ticks off;
`handler[h].read` is the time they took for now, read before the guard is awaited.

`Start`, `Subscribed`, `SubscribeFails`, `Close`, `Gathered`, `Unsubscribed` are the peer's and the server's
`start` and `close`, cut at their awaits, for any number of calls of each at once. `live` is what the broker serves and
`subscription` the field that remembers one of them. `close` cancels the tasks it finds, waits for them, clears
the set and only then unsubscribes, so later deliveries start tasks that survive it. `Crash` loses all but what
the guard recorded (`claimed`).

The guard is external. The code tells it `expires_at` (`auth.py:253`), and the state plane's design gives the replay
key a TTL of `expiresAt + clockSkew`; so the guard keeps a record, by its own clock, for `Retention` beyond
`expires_at` and then has forgotten the id (`Fresh`). `claim` may fail with the record made or not.
`granted` is the history of what it let through. Signature, policy, principal, agent, instance, subject and generation checks all end in the
same refusal, so they are one verdict (`fit`): fit, streaming (refused after the claim), foreign (refused
by `verify_subject`) or misdirected (dropped).

`GrantedOnce` says what such a guard gives: a claim that it answers promptly, that is, within `Retention - Skew` of the
time `verify_subject` read, is granted only if its envelope was not granted before and every other granted envelope of that id
has expired for every copy still to come. A guard that forgets at `expires_at` itself breaks it (mutant
`FreshUntilExpiry`). The condition cannot be dropped:

- `verify_subject` reads the clock, awaits the guard and does not look again. With the documented retention, which equals
  the skew, a copy verified in the last moment and claimed after the record is gone is granted a second time; the
  instance of `v1_binding` reaches it. `docs/specs/A2AMesh_A2A协议与NATS集成适配设计_V1.6.md:759` has a `requestId` used once,
  and `docs/specs/A2AMesh_Redis状态平面与数据设计_V1.6.md:1097` says an expired key "可安全清理" (may safely be removed): that is so
  only if the guard's answer is no later than the moment the time was read.
- A later call may be granted an id again once the earlier one's record is gone, because the id alone is remembered and
  only until then. `GrantedOnce` allows it when the earlier envelope has lapsed.

`ClosedIsDeaf` excludes peers on which two `start()` overlapped (`overlapped`). Neither check of `start()`
(`v1_peer.py:74`, `transport.py:302`) sees a `start()` that waits for its subscription; both subscribe, the field keeps
the later one, and `close()` ends only that: the peer says CLOSED and still takes requests on the other. The instance reaches it.
The repository tests only that a second `start()` *after* the first is refused
(`tests/test_v1_peer_runtime.py:100`, `test_peer_runtime_rejects_duplicate_start`) and states no promise for overlapping ones.

### MemoryStore and SessionLog

One session, as sessions do not interact. `Get` reads the entry and sends the conditional write; the bucket
`Apply`s or `Reject`s it, whether or not its caller still waits (`Raise` is any
exception of the client at any await). `began` remembers the revision at which a call began, for
`NoSpuriousConflict`. `SessionLog` is what a caller may count on: a sequence to which each call appends
its message at most once, at its end, at one instant; `ok` means it is in, `conflict` that it is not,
`error` leaves it open, and the whole session may be removed.

## Runs

| Run | Checks | Bounds |
|---|---|---|
| `hold_expiry` | type, snapshot validity, ownership, one expiry, expiry of what was scanned, refinement of `HoldLifecycle` | 2 instances, 2 principals, 2 scans, 2 bearer values, 3 instants, lease 1, skew 1 |
| `hold_replay` | unique authorities, valid claims, committed answers, refusal of superseded ones, a ledger that only grows | 3 bearer values (one scan and two claims), 4 instants, another hold, one reference |
| `hold_burned` | **violation** | as `hold_expiry` |
| `agent_safety` | type, `AtMostOnce`, `AnswersAgree`, `AcceptedCancelWins`, `NoOrphan`, refinement of `TaskService` | 3 calls on one id, 2 payloads |
| `agent_liveness` | `EveryTaskEnds`, `EveryCallEnds` | 2 calls on one id |
| `agent_abandoned` | **violation** | 1 call |
| `orch_safety` | type, `DependenciesFirst`, `StepRunsOnce`, `VerdictIsTrue`, `SettledStays` | every plan of up to 3 steps (cyclic ones too), 2 attempts |
| `orch_liveness` | `EveryCallEnds` | 2 callers with 2 prompts, plans of up to 2 steps, 2 attempts |
| `orch_refused` | **violation** | 1 call, 2 steps |
| `stream_session` | type, `ViewIsPrefix`, `FinalIsComplete` | 4 events, 3 opens, largest sequence 3 |
| `session_memory` | `NoSpuriousConflict`, refinement of `SessionLog` | 3 writers, 2 attempts, 4 changes of the entry |
| `v1_binding` | `AnswerIsTrue`, `ClosedIsDeaf`, `GrantedOnce`, `NoTimelyRefusal`, `CloseEnds` | 2 calls with one id, 2 deliveries, 2 tasks, 2 `start()` and 2 `close()` at once, 2 ticks a second, timeouts of 1½ seconds and of less than one (refused by the client), skew and the guard's retention 1 second, TTL and lifetime 2, the peer's clock behind or ahead by all of the skew, the guard's ahead by it, any number of crashes |

Why the bounds are enough. Two scans are the least at which one supersedes another, a scan and
two claims the least at which a takeover is taken over. Instants 0 to 3 with a lease of 1
let a lease run out while a lagging server still finds it live. Three calls
on one id are an owner, a joiner and a canceller, or a conflicting payload. Task ids
do not interact. Plans of three steps contain chains, forks, joins and
cycles; two attempts contain a retry and exhaustion. Three opens let frames of two earlier ones be late, and
four events with a largest sequence of 3 reach the limit of the counter. Two attempts of three writers
contain a lost condition, a retry and a conflict, and four revisions a close between a read and its
write. One id for two calls is the retry under the same id, and two deliveries are a duplicate of one
envelope or one of each; half-second ticks make every rounding on the wire visible. With the guard's clock ahead
the peer's is either the same, where a claim is prompt only at the instant of its check, or two seconds behind,
where none is; the records of one call run out while the other's envelope is still valid. `MaxLoad` bounds how much happens together (calls, unfit
envelopes, deliveries, subscriptions, overlapping `close()` calls): each of these meets each other one, but not all at once.
`CHECK_DEADLOCK
FALSE` is set because each system may stop: a hold is settled, all calls are answered,
the bounds on events are reached.

Fairness. `AgentTasks` and `Orchestration` assume weak fairness of each coroutine's own next step,
that is, the event loop runs a coroutine whose await is over and fires the timeouts the code sets (the
executor's, the canceller's, the RPC client's). Nothing is assumed of the child process, the
network, the agents or a caller; a command may never exit and a reply may never
come. `EveryTaskEnds` and `EveryCallEnds` of the agent exclude tasks whose owner is
gone (`Abandoned`): see the second finding and the hazard list. `V1Binding` assumes of the peer only that a cancelled task is
resumed with its `CancelledError` (so the application's proxy must let it pass) and that `close` goes on when what it awaits is
there; nothing is assumed of the application, the guard, the resolver, the network or the callers. `ArtifactHold`, `StreamSession` and `MemoryStore` have no
liveness: what they do is driven by their callers.

## Findings

1. `hold_burned`: after one fence is burned (the counter moved, no candidate was stored), every
   later SCAN of a due hold fails in `validate()` with "scan allocation previous high-water is
   not persisted provenance" (`artifact_hold.py:1397`). The design document
   (`docs/specs/A2AMesh_Artifact与对象存储设计_V1.2.md:201`) says gaps stay burned and later
   issues continue above them.
2. `agent_abandoned`: `handle_task_stream` claims the id and then emits the task id outside its
   `try`; if that emit fails the task is `working` for good and identical requests wait for
   ever. `tests/test_remaining_blockers.py:272` expects a stream failure to record a terminal task.
3. `orch_refused`: a plan that is not a DAG raises and leaves the root task `working`; the design
   document (`docs/specs/A2AMesh_编排器_Runtime与工具适配设计_V1.6.md:643`) says it is FAILED.

## Proofs

`ArtifactHold_proofs`, from the assumptions named in `ArtifactHold` (the reaper is a
principal, leases are positive, the bounds are naturals, other holds are finite):

- `Invariance`: `Spec => []IInv`. The single validity clauses are not inductive. That the projected
  candidate is the newest one needs that fences are unique and below `highWater`; that a commit's
  evidence is complete needs that its candidate was consumed exactly once; that `validate`
  accepts the snapshot after later writers needs the order of versions (`VersionOrder`);
  the newest claim exists because `claims` is finite. `IInv` conjoins them; TLC checks
  its named parts in `hold_expiry` and `hold_replay`. There is one lemma per action (`ScanInv`, `ExpireInv`,
  `ReplayClaimInv`, `OtherWriterInv`, `AnswerInv`) and in it one step per conjunct.
- One theorem for each invariant of the runs: `TypeCorrect`; the clauses of `validate()` (`HoldStaysValid`,
  `AuthoritiesUnique`, `EvidenceKept`, `ReplayAuthorityKept`, `ProjectionIsNewest`, `CommitsStayValid`, `CommitReflected`,
  `ClaimsStayValid`), which together say that the final validation never refuses; `ExpiresOnce`, `ReaperOwnsAll`; and
  `NoDeleteWhileHeld`, which no run checks.
- `AnswersCommitted`: inductive beside `IInv`; a first EXPIRE finds no commit because the hold is still
  active (`ActiveLedger`).
- `ExpiresAsScanned` and `HistoryKept`: action properties, by cases on the action (`LedgerStays`, `LedgerExtended`,
  `LedgerConsumed`).
- `Superseded`: an action property; the answered authority is the newest claim by
  `ReplayAuthorityValid`.
- `Refinement`: initial states map to initial states; SCAN, claims and answers map to stutters; EXPIRE and
  the other writers map to their abstract actions.

`StreamSession_proofs`, from `SessionBounds` and `NoneIsNoFrame`: `SessionInvariant` (the
cursor's open was granted, its snapshot is that open's, and sequence and eventSeq count from
it), whence `PrefixShown` and `CompleteAtFinal`. The invariant is needed because `accept`
compares sequences only; that equal sequences mean equal events follows from the snapshot. `TypeCorrect`
is its first conjunct.

`V1Binding_proofs`, from `TimesAssumption` (a tick divides a second, the TTL is positive and within the lifetime),
`NoneAssumption` and `FitsAssumption`, for any number of calls, tasks, deliveries and crashes:

- `Invariance`. That a copy finds the record of the first needs `ClaimInv`: what was granted has a record with its own
  expiry, and what is about to be claimed had not lapsed at the time its task read. `TaskInv` adds what each
  task has found out about its envelope, `CallInv` that what it works on was sent, `AwaitInv` that a `close()` waits only for
  tasks it has cancelled, and `ListenInv` that without overlapping `start()` calls the one live subscription
  is the one the field holds, and the one a `close()` is ending. TLC checked the whole of it on the instance of the run.
- `PromptGrants`, an action property for every skew, retention and offset of the clocks: if a record of the id were forgotten, its call
  would have lapsed at the time the claiming task read.
- `TrueAnswers`, `DeafAfterClose` and `WaitsForCancelled`, the safety half of `CloseEnds`, follow.
- `TimelyAccepted`: arithmetic of `Wire` (`WireBounds`, `WireShift`, `WireMonotone`): a timeout of a second or more
  keeps send time and deadline apart on the wire, and rounding costs less than a second.

`MemoryStore_proofs`, from `AttemptsAssumption` and `RevAssumption`, for any number of writers and attempts:
`Invariance` (`RevisionInv`: equal revisions are equal entries, because every change takes a new one;
`LostInv`: each lost condition is a change made since the call's last read), whence `ConflictsAreReal`, and
`Refinement`: `Apply` maps to the append of the log, because the condition makes the history read the
present one; answers map to answers and everything else to a stutter.

`Orchestration_proofs`, from `AttemptsAssumption` and `NoneAssumption` (None is no prompt), for every plan and any
number of calls, prompts, steps and attempts:

- `Invariance`. None of the properties is inductive. That a step's dependencies completed *at their agents* when it starts
  needs that the dispatcher's status is the agent's (`AgentInv`: a reply on the wire says what the agent's table
  says, and `succeeded` is only ever taken from one), and that nothing of a step exists before its coroutine was started
  (`UnsentInv`, `QuietInv`). `StepInv` ties coroutine, status, result and attempt of each step together; a late reply cannot
  unsettle a step because its inbox went with the attempt. `ReturnInv` is the verdict, `WaitInv` that the dispatcher
  waits for something. A turn of the dispatcher is one lemma for starting (`StartReadyPreserves`) and one for
  returning (`ReturnPreserves`), both over the statuses it sees (`LoopInv`), used for the first turn and for later ones.
- `DependenciesAreFirst`, `StepsRunOnce`, `TypeCorrect` follow; `SettledForGood` by cases on the action.
- `VerdictHolds`: that a failed root task has a step that *failed* needs the DAG. Among the blocked steps one
  depends on no other blocked step (`FirstOfDag`); the dependency that blocks it has failed itself.
- `NeverWaitsForNothing`: the safety half of `EveryCallEnds`.

`AgentTasks_proofs`, from `NoneAssumption` (None is neither a payload nor a call), for any number of calls, ids and payloads:

- `Invariance`. `TableInv`: the tables name the same tasks and a future is pending as long as its task is working, which is why
  `_finish_task` may overwrite without looking. `CallOk`: what a call may rely on at each await, above all that a call
  past its claim owns its id (so two calls never finish one task) and that a cancel which waits has left the event set and
  the owner past its announcement (so the owner cannot settle for `completed`). `RunInv`: a command was not started
  while its owner is at an early await. `ProcInv`: before `close()` a running child is being watched or ended.
  `OwnerInv`: an owner waits for nobody. The lemmas follow what a step touches: calls that only move
  (`MovePreserves`), owners that finish (`FinishPreserves`), and one for each action that changes a table.
- `RunsAtMostOnce`, `AnswersDoAgree`, `CancelWins`, `NoChildIsOrphaned`, `TypeCorrect` follow.
- `OwnersWork` (no circular wait) and `OnlyStreamsAreAbandoned` (the second finding is the only way to lose a task before `close()`)
  are the safety half of the agent's liveness; no run checks them, but TLC checked the whole of both inductive invariants
  on the instances of `agent_safety` and `orch_safety` before they were proved.
- `Refinement`: claims, starts, finishes and answers map to those of `TaskService`, everything else to a stutter;
  `FinalForGood` is a consequence.

Only model-checked: liveness (`EveryTaskEnds`, `EveryCallEnds` of both, `CloseEnds`), which with `ENABLED` is outside the prover's
reach; and the three violations, which are counterexamples.

## Not modelled

Parsing, canonical JSON and cryptography (data only); `reconciliation.py` (pure derivation of
identities); `config_slots.py` and `config.py` (pure); tools, the MCP bridge,
adapters and the command line (forwarding and I/O); `tools/call`, agent cards, discovery, the legacy
stream client; the tracker's statistics; the validation of stream control requests. `mem_set` and
`shared_set` (plain puts). Two agent processes of one name behind a queue group. `identity/auth_context.py` keeps its own
replay cache, which no code under `runtime/` uses; it waits for a model of its own. The protocol's transition table and
the operation registry are constants without behaviour. Reads of a KV replica that lags behind its leader.
Crashes: the agent and the orchestrator persist nothing, so their models cover one life of the process; only
the v1 peer, whose guard is durable, is restarted.

## Plan

Done: the artifact hold contract, the agent, the orchestrator, the stream cursor, the v1 binding with its peer,
session memory. In the order of their worth, next are:

1. `AuthReplay`: the in-memory replay cache of `identity/` against the clock skew it allows.
2. The agents of `Orchestration` as instances of `TaskService`, with the requests under way as its calls; today the two are
   tied together by `TaskService` being what `AgentTasks` implements and what the comment of `Orchestration` assumes.
3. Operators for configuration slots against a reference definition, over bounded inputs.
