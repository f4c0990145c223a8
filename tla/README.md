# reuben-cloud: a TLA+ model of the control plane and its sandboxes

reuben-cloud runs an AI agent's commands in throw-away containers.  A *control
plane* (`packages/control-plane`, Node + Postgres) creates sandboxes, runs
commands in them, archives what they produced and destroys them; a *sandbox
agent* (`packages/sandbox-agent`) inside each container executes one command at
a time and streams its events over SSE.  The two sides fail independently, talk
over HTTP, and share no state but what each tells the other.  That is where this
code is hard to test and where these modules look.

## Inventory

| Component | State it keeps | Operations | Interacts with |
|---|---|---|---|
| state machine in Postgres (`db/`, migrations) | `sandboxes`, `sandbox_state_transitions`, `executions`, `artifacts` | insert, `sandbox_transition()` (row lock, edge check, audit row), upsert of an execution, list expired | every control plane component |
| `SandboxManager` | the failed-archive table `#archiveFailures`; locals of calls in flight | `createSandbox`, `execInSandbox`, `destroySandbox` | DB, provider, agent API, offloader |
| `reconcile()` | none | scan rows, inspect containers, kill leftovers, delete orphans | DB, provider, agent API |
| `SandboxSweeper` | an interval timer | list expired rows, destroy each | DB, manager |
| SSE client (`client/sse.ts`) | last event id, reconnect count | connect, read, reconnect, abort | agent |
| `ArtifactOffloader` + store | none | fetch diff, dry run, archive, logs; upload; record | agent, object store, DB |
| provider (`local-docker.ts`) | Docker's containers, volumes, networks | create, destroy, inspect, listManaged | Docker, agent `/health` |
| agent exec engine (`exec/`) | busy slot, execution records, timers, event buffer, log file | start, kill, timeout, finalize, shutdown, subscribe | child processes, SSE clients |
| agent diff / archive / files | the busy slot, a child process, a response stream | diff, archive, read, write, list | exec engine |
| agent loop and tools (`agent/`) | conversation, repeat counts, read anchors, budgets | model turn, tool calls, stop conditions | manager, model |
| repository layer (`repo/`) | clone directories, PR records on GitHub | clone, inject, pack, apply, push, open PR | manager, git, GitHub |
| web server and hub (`web/`) | runs, subscribers with queues, replay buffers | register a run, emit, subscribe, replay, evict | agent loop, browser |
| egress proxy (`deploy/egress-proxy`, `provider/egress-proxy.ts`) | the list in force, connections, one container, the list's file | CONNECT, plain request, SIGHUP, SIGTERM; `ensureRunning`, `reload`, `stop` | sandboxes, Docker |

Nothing in the repository calls `reconcile()` or `SandboxSweeper.start()` yet except
tests; `reconcile.ts` says "only once, at startup" and `docs/sandbox.md` section D
"when the control plane starts", so the model runs reconcile to its end before the process serves
calls and sweeps (`CanStart`).  `HolderKeepsRow`'s mutant shows what breaks
otherwise.

### What is hard

* *Interleaving*: two calls, a destroy, the sweeper and the watchdog act on the
  same row with an await between each read and write; the only synchronisation is
  the compare-and-set in `sandbox_transition()`.
* *Crash and restart*: everything but the tables and the containers is lost at
  any await; the agent goes on without the control plane.
* *Unreliable delivery*: the answer to a POST that was acted on is lost; streams
  end, break, are resumed; a kill races the end of the command.
* *Timeouts and retries*: the agent's own timeout, the watchdog, the wait after
  its kill, the reconnect pause, the grace period of a failed archive, the TTL.
* *Partial failure*: archiving, stopping, removing and recording fail
  separately.

`PROJECT.json` lists each hazard at its line, with the properties for it.

## Modules

| Module | Models |
|---|---|
| `SandboxRow` | the states of a row, the edges and refusals of `sandbox_transition()` |
| `SandboxLifecycle` | abstract specification: a row moves along one edge at a time and leaves one audit row |
| `SandboxManager` | manager, SSE client, sweeper, reconcile, with the database, Docker and the agents as the world |
| `SandboxManagerProofs` | theorems about `SandboxManager` |
| `MCSandboxManager` | symmetry for TLC |
| `AgentView` | abstract specification: what an agent promises to the control plane |
| `AgentExec` | the agent's exec engine: busy gate, process groups, timeouts, kills, drain, jobs, shutdown |
| `AgentExecProofs` | theorems about `AgentExec` |
| `MCAgentExec` | symmetry for TLC |
| `EventStream` | the events of one execution from the pipes to the control plane: mergers, budget, buffer, SSE client |
| `EventStreamProofs` | theorems about `EventStream` |
| `RunHub` | the web server's hub: coalescing, buffer, subscribers, eviction, and a page that reconnects |
| `RunHubProofs` | theorems about `RunHub` |
| `Delivery` | how a run's changes leave the sandbox: clone, inject, diff, patch or archive, push, pull request, with overlapping runs |
| `DeliveryProofs` | theorems about `Delivery` |
| `AgentLoop` | the agent's main loop: model turns, parallel tools, limits, repeats, eliding, read anchors |
| `AgentLoopProofs` | theorems about `AgentLoop` |
| `MCAgentLoop` | contents of the large file for TLC |
| `Provider` | create and destroy of a sandbox as chains of Docker requests, with rollback, crash and lost requests |
| `ProviderProofs` | theorems about `Provider` |
| `Allowlist` | the rules of the egress proxy, its verdict, and what the file says of a host |
| `EgressProxy` | the proxy's process, reload and tunnels, and the programs that keep its container |
| `EgressProxyProofs` | theorems about `Allowlist` and `EgressProxy` |
| `MCEgressProxy` | files and hosts for TLC |

### SandboxManager

An action is the code between two awaits.  A *thread* is a caller's call
or the sweeper's round; `pc[t]` names the await it is at, `at[t]` its sandbox,
`call[t]` the locals of `#consumeExec` (the state of the stream, reconnects used,
watchdog, kill), and `snap[t]` those of `destroySandbox` (the state it read, what
the archive covers, whether the destroy is forced).  `row`, `audit` and
`execution` are tables; `container`, `slot` and `run` are what Docker and the
agents know; `saved` is what reached the object store.  `cp` is the life of the
process, `scan` and `look` the loop of reconcile.  A row is abstracted to its
state, whether it has endpoint and token, whether the reason is `archive_failed`,
and whether it is within its TTL.

| Code | Actions |
|---|---|
| `createSandbox` | `CreateInsert`, `CreateContainer`, `CreateReady`, `CreateGivesUp`, `CreateCommit`, `CreateFailed`, `CreateUndo` |
| `execInSandbox` | `ExecRead`, `ExecGate`, `ExecAccepted`, `ExecBusy`, `ExecRefused` |
| `#consumeExec`, `readSseStream` | `StreamConnects`, `StreamTerminal`, `StreamCloses`, `StreamBreaks`, `StreamWakes`, `WatchdogFires`, `KillAnswered`, `KillWaitExpires`, `Abort` |
| `#finishExec`, `#rejectExec`, `#releaseBusy` | `FinishKill`, `RecordExecution`, `FinishError`, `ReleaseBusy` |
| `destroySandbox`, `#archiveBeforeDestroy` | `DestroyRead`, `ArchiveBegin`, `ArchiveEnd`, `ArchiveFails`, `ArchiveError`, `StopContainer`, `RemoveContainer`, `RemoveFails`, `RemoveFailed`, `Destroyed` |
| `sweepOnce` | `SweepList`, `SweepDestroy`, `SweepSkip`, `Expire`, `GraceEnds` |
| `reconcile` | `Restart`, `Inspect`, `CheckSandbox`, `KillRestarted`, `RecordRestarted`, `ReleaseRestarted`, `ListManaged`, `CheckOrphan`, `ReconcileDone` |
| agent, Docker, process | `AgentTimesOut`, `AgentEnds`, `AgentFinishes`, `JobBegins`, `JobEnds`, `ContainerUp`, `ContainerExits`, `Crash` |

### AgentExec

An action is one callback of the agent's event loop, or one step of the operating
system.  A record is `status`, `reason` (`killReason`), `finish` (how far
`finalize` has got: its synchronous part and what follows `log.end()` are
separate, and a kill may come between), `timers`, `exitSeen`, `eof` and `answer`
(what the last kill was told).  A process group is its `leader`, the shell the
agent spawned, and `behind`, one background process which may hold the pipes.

| Code | Actions |
|---|---|
| `ExecutionRegistry.start`, `startProcess` | `Start` |
| `kill`, `requestKill`, timeout and escalation timers | `Kill`, `TimeoutFires`, `EscalationFires` |
| exit and end of pipes, `maybeComplete`, drain window | `ExitSeen`, `PipesEnd`, `DrainFires` |
| `finalize` after `log.end()`, `onFinish` | `Announce` |
| `JobGuard`, `spawnManaged` | `JobBegin`, `JobSpawn`, `JobTrack`, `JobContinues`, `JobFinish`, `JobAborts` |
| `shutdown`, `index.ts` | `Shutdown`, `ShutdownWaited`, `Exit` |
| the operating system | `LeaderExits`, `Forks`, `BehindExits`, `JobExits` |

SIGKILL is taken to act at once; SIGTERM may be ignored for ever.  The deadline of
`shutdown` is a second after the last SIGKILL is due, so it is modelled as coming
after all of them.  `SandboxManager` holds a coarse copy of this engine (`slot`,
`run`), and `AgentsKeepPromise` checks that each of its agents steps as
`AgentView` allows.

**Fairness** (`FairSpec`).  Timers fire, the exit event of a dead child is delivered,
`log.end()` returns, an aborted job (`streamTimeoutMs` always ends one) is left
by its handler.  A command need never end, nor a background process let go of the
pipes.

**Bounds.**  Two executions: one in the gate and one that wants it or comes after it.
One job: a job meets an execution in either order.

### EventStream

One module holds both ends, as its properties are about what arrives.  A byte of
output is its place in the stream, and an event carries the place and number of its bytes.
`sent` is what `emitChunk` writes: the log of all events ever published (an event's id is
its place in it; the buffer is the part from `oldest` on, which `Publish` moves),
`inlineBytes` and `truncated`.  `pending` are the mergers, `wire` the frames on their way to the
client and `got` all it has read; `Gap` is the notice without an id.

| Code | Actions |
|---|---|
| `OutputMerger`, `emitChunk` | `Data`, `Flush`, `KillFlush`, `Eof` |
| `maybeComplete`, `finalize` | `Eof`, `Exits`, `DrainFires`, `SpawnError`, `Announce` |
| `LogFile` callbacks | `Data` (full), `LogFails` |
| `readSseStream`, `EventBus.subscribe` | `Connect`, `Read`, `Cut`, `Breaks` |

`finalize` sets `finishing` before it ends the mergers, and `emitChunk` refuses from
then on, so output reaches the stream only because every way into `finalize` has ended
the mergers first; `OutputComplete` checks that they all do.  Payload sizes: a byte
of output counts one, any other event counts one.  Bytes of a character that is split between two reads,
heartbeats and the parsing of frames are left out, and so is a second connection
of the same client that is still open on the agent's side.

**Fairness.**  The drain timer fires, `log.end()` returns within a second, a connection attempt
ends, frames of a connection that stays up arrive.  The command need not exit, and
the connection may be cut or break at any time.

**Bounds.**  The limits are smaller than the output, so each is crossed: a read
larger than a chunk, a chunk larger than the buffer, the budget crossed in the middle of a chunk with output
still to come, eviction before and between connections, and exhaustion of the
reconnects.

A client that first connects after an eviction is sent what is left without a
notice: `subscribe` makes one only for a request with a `Last-Event-ID`.  The model
does the same, and `GapsAreTold` speaks of what follows the first event received.

### RunHub

An event is the number of its emission.  A record of `log` is the set of emissions it holds, since text
is coalesced; its id is its place in `log`, and the buffer is the part from
`oldest` on.  `runs` are the keys of the hub's map, `turn` the order in which `ensure` put
them there; a run with a turn has a sink (`Sinks`), and its loop goes on emitting into the
entry after an eviction.  `sub` is the
`Subscription` of a page's connection (`replay`, `queue`, the last id `dropped`,
`open`) and `got` what the page has received.

| Code | Actions |
|---|---|
| `RunHub.ensure`, `#evictRuns`, `closeAll` | `Ensure` |
| `RunEntry.emit`, `flushText`, `#publish` | `EmitText`, `EmitEvent`, `FlushText` |
| `streamRun`, `RunEntry.subscribe` | `Connect` |
| `Subscription.#take`, frames | `Take`, `StreamEnds`, `Cut` |

The byte limit is a free choice to evict more than the count asks for (at least
one record stays).  A frame is handled when it is taken: one that is lost on the way differs from one
never taken only in that its place in the queue was free.  `closeAll` flushes text before it closes; only ended
runs are evicted, and `run_end` has flushed theirs.  After `run_end` only
`run_error` is emitted.

**Fairness.**  The coalescing timer fires, an EventSource reconnects after three seconds,
and a connection that stays up is written and read.  A run need not emit or end.

**Bounds.**  A queue of one overflows on the second record, a buffer of two evicts on the
third, and with room for one run the second `Ensure` evicts or finds the first still
running.

### Delivery

An action is one awaited call of `scripts/agent-run.ts` and of what it calls in
`repo/`: a request to the agent, a git command, a call of the GitHub API.  Trees are
numbered by the change that made them, and a commit is named after the run that made
it, so `tip` (where the branch points), `landed` (what it has pointed to) and `prs` say
whose work is where.  `run[r]` is what the process knows: `tree` and `how` its clone
was filled, `sha` what `ls-remote` answered, `found` the pull request.

| Code | Actions |
|---|---|
| `main`, `cloneRepo`, `injectRepo`, `runAgentLoop`, `verifyInSandbox` | `Start`, `CreateSandbox`, `CloneRepo`, `UploadRepo`, `UnpackRepo`, `SandboxWrites`, `RunAgent`, `VerifyInSandbox` |
| `collectSandboxChanges` | `ReadDiff`, `MaterializePatch`, `ApplyPatch`, `ReplaceFromArchive`, `KeepPatch` |
| `finishRun`, `publishRun`, `inspectRemoteBranch`, `commitAndPush` | `Publish`, `TokenFor`, `LsRemoteSha`, `InspectRemoteBranch`, `Commit`, `PushSucceeds`, `PushReplyLost`, `PushFails`, `PushLeaseRejected`, `RecheckLease`, `AssertCleanWorktree` |
| `findOrCreatePullRequest` | `ListOpenByHead`, `CreatePullRequest`, `UpdatePullRequest` |
| the `finally` block, the process | `CleanUp`, `Hangs`, `Crash` |
| GitHub and third parties | `LateLands`, `TheyPush`, `TheyDelete`, `TheyClose` |

A push whose answer is lost may land at once, later (`LateLands`, even after the
process is gone) or never.  `TheyPush` moves the branch to a commit of somebody else
or to any commit it pointed to before, as often as they like; `back` is history: the
commit that a run read with `ls-remote` has been put back since.  A patch may be damaged
on its way: `MaterializePatch` may give that of another change.  Only its length would tell, as
the two digests that `apply.ts` compares are both taken in the control plane; so the model
accepts a damaged patch that applies, and no property is stated about it.  Steps that use only the run's own sandbox and clone
commute with those of everybody else, so `MayMove` does not interrupt them.

**Fairness.**  A run that may move moves: weak fairness of `MayMove(r) /\ Proceed(r)`.  The
calls of `repo/` to git, GitHub and the agent have time limits.  Four awaits have none, and `Hangs`
lets a run stay in them for ever: `create` (the pull of an image), the two uses of
`execAndWait` (no caller gives it a signal, and the event stream has a limit for connecting only)
and the agent.  `RunsEnd` counts a hung run as one that came to its end.  Nothing
forces a late push to land or a third party to act.

**Bounds.**  Two runs meet in every order, repeat each other or follow a crash; one
commit of a third party can come, go and come back before, between and after any
request; two tries give a failure that is retried and one that is final.

### AgentLoop

`loop` are the locals of `runAgentLoop`; `messages` the conversation, each message the
set of uses or results it holds and whether it was elided; `repeats` the counts by
signature.  `calls` are the tool calls of the turn: they run in parallel, and a
command, a read in windows and a write each are several steps, so a read
can see a file half changed.  An answer may carry any uses with any reason: `loop.ts` looks
at `end_turn` and `refusal` before it looks for uses, and `model.ts` takes a missing reason for
`end_turn`.

One large file stands for the work tree.  `file` is where each of its lines starts and
which lines begin with U+FEFF; `anchor` is its entry in the table of read anchors, a line and an
offset, and `Scanned` is the offset that `scanLines` computes from the byte where it begins.
`left` says that something no call waits for may still change the file: a
process that a command left behind, or a call that was given up and is carried out late
(`UnseenChange`, at any time).  `doubt` is history, kept with an anchor and with a read: something
happened that the code takes no notice of.

| Code | Actions |
|---|---|
| the head of the loop, limits | `OutOfTurns`, `StopAtLimit`, `BeginTurn` |
| the model's call | `AskModel`, `ModelAnswers`, `ModelFails`, `CutByTimer`, `CutByCaller`, `TimerFiresLate`, `GiveUp` |
| bash, read, write | `Rejected`, `CommandLands`, `CommandReturns`, `TailRead`, `PutLands`, `PutReturns`, `ChangeLost`, `ChangeDelayed`, `ReadInline`, `ReadBegins`, `ReadEnds`, `ReadFails` |
| results, `trackRepeats`, `trimOldToolResults` | `Collect` |
| the sandbox, the caller, time | `UnseenChange`, `CallerAborts`, `DeadlinePasses` |

**Fairness.**  Steps of the loop are taken, and the clock reaches the deadline.  A tool call moves
on where it has a time limit: a request for a whole file, a write, the start of a command.
Three waits have none (`Unlimited`) and nothing is assumed of them: a window of a large read and
the tail of a log (`#openStream` sets no limit, and no tool is given a signal), and a command
whose end `execInSandbox` has missed.  The model may stay silent for ever.
`RunEndsUnlessCallHangs` therefore rests on the timer alone, and excepts a run that waits for such a call.

**Bounds.**  Notice and stop come at 2 and 3 repeats (3 and 4 in the code) of at most 3
turns (40), so a run reaches both with turns to spare for other calls.  Two uses a
turn are the smallest number that run in parallel, and answer or fail one by one.  Three turns
make an anchor, use it, and use what that gave.  The file has 2 lines and two contents, which differ
in where the second line starts and in the mark on the first; a continuation begins at either line.
Answers cost nothing here (`Spends` is {0}): an exhausted budget stops a run at the same place as the
clock and the caller's abort do.

### Provider

An action is one request to the Docker daemon, of `create` (`creating`) or of one of the
callers of `destroy` (`destroying`).  `containers` are those under the two names of one
sandbox id, `ours` tells by the labels whether they are its own, `stray` are requests the
client gave up on that the daemon may still carry out.  `own`, `calm`, `alone`, `kept` and
`excused` are history, for what the properties except.

| Code | Actions |
|---|---|
| `create`, image | `BeginCreate`, `FindImage`, `PullImage` |
| network, volume, containers | `EnsureNetwork`, `CreateVolume`, `CreateContainer`, `NameTaken`, `InspectTaken`, `EvictLeftover`, `StartContainer` |
| polls and the deadline | `ResolveEndpoint`, `AgentIsReady`, `PollFails`, `DeadlinePasses`, `OutOfTime` |
| failure and rollback | `RequestFails`, `RequestLost`, `RollbackContainer`, `RollbackVolume` |
| `destroy` | `BeginDestroy`, `InspectForwarder`, `RemoveForwarder`, `InspectBox`, `StopBox`, `RemoveBox`, `RemoveVolume`, `DestroyFails` |
| Docker, agents, others | `StrayLands`, `AgentComesUp`, `ForeignTakes`, `ForeignLeaves`, `Pin`, `Unpin`, `Crash` |

**Fairness.**  Every request has a time limit and the deadline is a clock, so create
and destroy move on.  An agent need not come up, nor a stray request land, nor a guest leave.

**Bounds.**  Three calls: a create, the leftover of another and a destroy, or one create
between two destroys.

### Allowlist and EgressProxy

`Allowlist` translates the parser and the matching; `Says` is the reference, a reading of a
file as a set of names and of names below a wildcard, which the verdict is checked
against.  `EgressProxy` has three parts.  The process: `proc`, the list in force (`allow`, and
the file `source` it was read from), a waiting signal `hup`.  One connection: the
state of the client's socket and of the upstream's, with a callback of either as an
action.  The programs outside: calls of `ensureRunning`, `reload` and `stop`, each request
to Docker a step, over a container (`box`), a file behind a bind mount (`file`, and
what the container sees of it, `seen`) and an image that is rebuilt.

| Code | Actions |
|---|---|
| `main`, `reload`, `shutdown` | `Load`, `Listen`, `HandleHup`, `Terminate`, `Exit` |
| the handlers of CONNECT and of plain requests | `Arrive`, `Connected`, `ConnectFails`, `UpstreamBreaks`, `UpstreamEnds`, `UpstreamCloses`, `ClientBreaks`, `ClientEnds`, `ClientCloses` |
| `ensureRunning`, `reload`, `stop` | `Call`, `Inspect`, `RemoveContainer`, `CreateContainer`, `StartContainer`, `WaitUntilRunning`, `KillHup`, `CallFails` |
| the operator and Docker | `Edit`, `Propagate`, `Build` |

**Fairness.**  The process runs, a destroyed socket emits `close`, a shutdown exits, and a
connecting upstream connects, fails or meets its time limit.  An open or half-closed
tunnel may stay for ever, and nobody has to call, edit or connect.

**Bounds.**  Two callers with one call each, or one with two; one edit leads from a good list to another, to
a broken one or to none, and may be seen late or never; a second build makes the container
stale.  It starts with no container, one of somebody else, or one left by
an earlier program.  Connections share only the list, so one is enough.

## Runs

| Run | Bounds | Shows |
|---|---|---|
| `exec_gate` | 2 callers, 2 executions, 2 calls, 1 reconnect, 1 crash, 1 fault | the gate excludes; a READY row has no live command; recorded successes are true; the manager implements `SandboxLifecycle` |
| `destroy_restart` | 1 caller, 1 call, 1 destroy, sweeper, archiving, 1 crash | executions are accounted for; recorded work is lost only when the row says `archive_failed`; after reconcile rows and containers agree; the agents step as `AgentView` allows |
| `reclaim` | 1 caller, 1 call, archiving, 1 fault, fairness | an expired row is destroyed; a call returns, unless its abort was lost |
| `agent_exec` | 2 executions, 1 job, fairness | one command at a time; a terminal outcome is real and final; a kill that was promised is kept; no command outlives the agent; the slot comes back; the engine implements `AgentView` |
| `tree_survives` | 2 executions, 1 job | *violated*: a `timeout` with a background process still alive |
| `event_stream` | 4 bytes of output, budget 2, buffer of 2 events or 2 bytes, 1 reconnect, 1 log trouble, fairness | nothing is lost or doubled without a notice (`GapsAreTold`); the output events hold a beginning of each stream, every byte once and in order, and all of it end to end unless told (`OutputIsKept`); the client reaches an end |
| `run_hub` | 2 runs, 1 page, room for 1 run, buffer of 2, queue of 1, 3 events a run, 1 cut, fairness | a page loses or doubles nothing without a notice, and a running run stays (`PageLosesNothing`); text stays in its place; a page catches up, that of an evicted run is told (`PagesSettle`) |
| `delivery` | 2 runs of a task, 1 third-party commit, 2 tries of git and of the push, 1 API retry, 1 change in the sandbox, fairness | a commit of others is replaced only if it was put back after it was read; success is real; the last undisturbed run wins; every run ends, dies or hangs in one of four awaits without a limit |
| `empty_run` | 1 run, otherwise as `delivery` | *violated*: a run that changed nothing pushes a commit that moves the repository into a subdirectory |
| `agent_loop` | 3 turns, 2 uses a turn, notice at 2 and stop at 3 repeats, a file of 2 lines with 2 contents, one with a byte order mark, fairness | every tool use is answered, but in an answer that ends the run; no repetition goes unnoticed; a read anchor that is wrong has one of five causes; the run ends unless a call without a limit hangs |
| `provider` | 3 calls, Linux and macOS, 2 destroyers, fairness | a returned handle is live; failure and destroy leave nothing; what is foreign is never touched; create ends by its deadline |
| `egress` | 2 programs, 2 calls, 1 edit, 2 builds, 1 request, 4 hosts, 3 files or none, fairness | a request is judged by one whole list, rightly, and logged once; an undisturbed `ensureRunning` leaves the right container running; no client ends the process; a tunnel whose one side is gone loses the other |

The two violated runs each check one sentence of the documents or comments, quoted
in `PROJECT.json` "findings".  Most modules also have a `TypeOK`, which TLC was used on
while the module was written; for `SandboxManager`, `AgentExec`, `Provider`, `EventStream`
and `RunHub` it is proved (below), and no run repeats it.

**Known disagreements without a run.**  These steps are in the models as the code
takes them; a property that would forbid them is either weakened by a named
exception or not stated.

* A destroy that overlaps a create writes `DESTROYED`, then the create's container
  comes up under it (`sandbox-manager.ts:760`).
* Reconcile moves a row to READY that has neither endpoint nor token
  (`reconcile.ts:176`).
* An abort in the pause between two connections is lost (`sse.ts:247`), so that
  the call need not return: the exception in `ExecReturnsOrAbortLost`.
* The answer to a `POST /exec` that the agent acted on is lost: the row goes back to
  READY over a running command (`sandbox-manager.ts:688`).  `LossyReplies` switches this on;
  it is FALSE in all runs, and `ReadyMeansIdle`, `EveryRunIsAccounted` and
  `ReconcileAgrees` hold only so.
* The overflow notice of the hub carries an id, so the reconnect after it skips what was
  dropped (`hub.ts:178`): `PageLosesNothing` asks only for the notice.
* The repeat notice is sent as the result of a tool use that does not exist
  (`loop.ts:378`): `EveryUseIsAnswered` speaks of uses, not of results.
* An error line that completes a chunk of the pull's progress ends neither way, and
  the create hangs (`docker-api.ts:337`): the exception `"cut"` in `CreateEndsUnlessCut`.
* The proxy handles SIGHUP only once it listens (`proxy.ts:662`), so a reload ends one that is
  starting: `EnsuredRuns` excepts callers that a signal disturbed.
* `ensureRunning` looks once at a container it reuses, and accepts one that has
  not read its list yet and may still refuse to start: `slow` in `EnsuredRuns`.
* `read.ts` (line 23) and `types.ts` call the two places that drop anchors exhaustive.  They are not: a
  background process writes after its command returned, a call whose reply was lost or that was given
  up leaves the anchors as they are, and a read that overlaps a change stores its
  anchor after the table was cleared.  `StaleAnchorHasACause` names these beside the byte
  order mark, and says of the places that are there that they do what they are for.
* `push.ts` (line 12) says that a branch somebody else has changed is never overwritten.  The sha of the
  branch and the committer of its tip are read by two commands (`pr.ts:619`): `ls-remote` sees a foreign
  commit, the branch moves to a commit of the bot, `fetch` finds our committer, the foreign commit is put
  back, the lease holds, and the push replaces it: the exception `back` in `OverwriteNeedsReturn`.
* `read.ts` (line 266) says that the offset it keeps is that of the line's first byte in the file.  It is
  summed from decoded text (line 307), of which the decoder (line 289) has dropped a byte order
  mark: the anchors of such a file are three bytes short, though it never changes.  `StaleAnchorHasACause` has it as one of the five causes.
* A run returns a conversation that may end in an unanswered tool use if an answer with
  `end_turn` or `refusal` carries one (`loop.ts:289`), though `loop.ts:366` wants what it
  returns to be legal: the last disjunct of `EveryUseIsAnswered`.

**Bounds.**  One sandbox is enough for the manager's runs: no action reads or writes two rows, and
the only state shared by sandboxes is the sweeper's list and reconcile's scan, which
are worked through one element at a time.  Two callers give every pairing of calls;
the sweeper is a third thread.  `MaxCalls`, `MaxDestroys`, `MaxCrashes` and
`MaxFaults` bound how often a thing *begins*, so whatever begins can still meet
every step of everything else.  A fault is a network, Docker or container failure
that the environment chooses; failing because the container really is gone is free.
`MaxReconnects` is 1 (3 in the code): first connection, one reconnect and exhaustion
all occur.  Deadlock checking is off: with the bounds used up the system stops.

**Fairness** (`FairSpec`).  Each await of a thread ends: requests have timeouts
(`sandbox-api.ts`), Docker calls a deadline, timers fire, and a dead peer is
noticed.  The end of a *healthy* stream is not assumed (`StreamEnds` is fair only
when the agent is unreachable), nor that the agent finishes a command, nor new
calls, faults, crashes or jobs.  Every fairness is weak: each such step stays
enabled until it is taken.

## What is proved

`SandboxManagerProofs` proves, for every number of sandboxes, callers, executions
and every bound (the ASSUMEs of `SandboxManager` only, that the ids of executions are not the other two
values of a slot among them):

* `TypeCorrect`: `TypeOK`, by induction with `InHand` (what a thread or reconcile
  has in hand exists: a busy thread has a sandbox, a stream has an execution).
  `TypeOK` alone is not inductive, as actions index the tables by these.
* `Implements`: `Spec => LifecycleSpec`.  All writes of `row` and `audit` go
  through `Transition` or `CreateInsert`; a refused transition and `Expire` are
  stutters of the lifecycle.
* `Gate`: `GateExclusive`, from the inductive conjunction with `HolderKeepsRow`
  (a holder's row is never READY, so a second compare-and-set fails) and
  `ReconcileAlone` (no thread runs while reconcile moves BUSY rows to READY,
  without which `HolderKeepsRow` is not preserved).
* `AuditTrail`: `TrailIsPath`, from the types and the shape of `Transition`.
* `AgentsDoAsTheyPromise`: `AgentsKeepPromise`.  What a step does to an agent is one of
  a few things (`AgentMoves`); `SlotOk` (a live execution has the slot of its agent) and
  `RunLife` (an outcome is decided once, what is over stays) make it a step of `AgentView`.
* `ResultsAreReal`: `ResultsAreTrue`, from `CallOk`, what a call knows of the execution
  it follows: it is over once a terminal event was read, anything else is recorded as a kill
  or a failure, and the record precedes the release.
* `ResultsAreWrittenOnce`: no run checks it, for it is about the upsert's freedom to replace.
  `OnceInv` says that no two calls follow one execution, that a call that has yet to write
  finds no row, and that what holds a slot is not over (`SlotLive`), so that the execution
  reconcile means to kill has no result but `failed` or `killed`.
* `OnlyDeathForgets`: the steps after which an execution is neither in the table nor in the hands
  of a call are deaths of the process and lost answers; a call lets go of its execution only when
  that is in the table (`CallLetsGo`).  `NoRunIsForgotten`, `EveryRunIsAccounted`, follows.
* `ReadyIsIdle`: `ReadyMeansIdle`.  Rows become READY at five places, and `IdleInv` says of
  each why nothing runs: nothing ever ran before the first READY (`UsedAfterReady`), behind a
  holder runs its own execution at most (`HolderRuns`, which needs `Gate`), and what reconcile
  saw is still so when it acts on it (`LookIsFresh`, which needs `ReconcileAlone`).
* `NoLossUnforced`: `LossIsForced`, from `Owes`: what a destroy owes is over when it
  begins, hence covered by the archive it takes, hence saved when it goes on, unless
  forced.  A destroy of a row without an endpoint takes no archive and owes nothing
  (`ConnOk`: where something ran, or may be about to, the row has its endpoint).
* `ReconcileRepairs`: `ReconcileAgrees`, in every behaviour in which no fault hits reconcile
  itself (`Quiet`), however many did before; `ReconcileRepairsUndisturbed` is the case of the
  run, without faults.  `Through` says that every row reconcile is done with fits the world
  (`Fits`), `Seen` what it knows of the row in hand, and `CalmKeeps` that the world, which
  goes on meanwhile, undoes neither.
* `CommandsHaveContainers`: a command lives in a container that is there (`Alive`), which
  `ReconcileRepairs` needs.  It rests on `CreateInv`: no create starts a container over one that
  has been used.

`NoRunIsForgotten`, `ReadyIsIdle` and `ReconcileRepairs` assume that `LossyReplies` is
FALSE, as the runs do: with a lost answer to `POST /exec` the row goes back to READY
over a running command that no call knows and reconcile does not look for, and all
three properties fail (the disagreement above).  The other theorems hold either way.

`AgentExecProofs` proves, for every set of executions and jobs, the types and
four safety properties of `AgentExec`, `FirstReasonCounts`, and `ImplementsView`:
`Spec => ViewSpec`.  All rest on one inductive invariant, `IInv`, whose parts say
what the properties leave out:

* `GateHeld`: an execution that has begun and is not done is the one in the gate,
  and so is a job with a child.  `OneAtATime` speaks of live commands only; to
  keep it, `Announce` must be known to release nobody else's slot.
* `EndDecided`: what is being finalized has a terminal status and no timer, so
  no late timer or kill can touch it.
* `Quiet`, `Fresh`: without a running execution there is neither a live command nor
  a timer, and what has not begun has no process, reason or answer, so `Start`
  starts from nothing.
* `DeathSeen`, `Answered`: an exit event, an open drain window or a fired SIGKILL
  mean a dead leader; a `killing` answer left a reason behind.
* `Closing`: once the agent shuts down, all that runs is awaited and being killed,
  and after the wait nothing is alive, which carries `NoOrphan` over `Exit`.

The refinement maps the gate to `slot`, a record to its `phase` (`dying` from the
first kill, timeout or finalize on) and status or reason to `out`.  `Kill`
decides (`KillMaps`), `Finalize` decides unless a kill has (`FinalizeMaps`),
`Announce` finishes, `Exit` dies, and every process or drain step stutters.

`ProviderProofs` proves `TypeOK`, `ForeignUntouched`, `HandleIsLive` and `NothingLeftBehind`
of `Provider` for any number of callers and calls.  `ForeignUntouched` is about steps, and a
removal names an id, so the invariant `IInv` says of every id a call has in hand
(`creating.box`, `fwd`, `found`, and `found` of each destroy) that it is not that of a foreign
container.  It got there from the answer to a creation, whose id is new (`Creation`), or
from an inspection that found our labels; a name may have changed hands since, an id cannot.
The daemon's part (`Daemon`) is that ids and names are unique.  What the calls leave is `LInv`:

* `HandleOk`: while no destroy is under way the volume is there from the moment the box
  is, so it still is when the agent answers; afterwards the daemon, a late request and the
  guests take nothing of ours (`WorldSpares`).
* `RollbackOk`: every container this call made that still exists is one its rollback has
  yet to remove (`Undoes`).  It needs `Fresh`: no id in hand is overwritten, since a
  container is created before its id is there, once per name.
* `DestroyOk`: around a destroy that is alone nothing of ours is created
  (`NothingNew`), so each name it has cleared stays cleared (`Cleared`), whatever
  other destroys do between two of its requests.

`EgressProxyProofs` takes from `EgressAssumption` that texts are made of lines and
hosts of labels, and proves for all of them and all bounds:

* `VerdictIsWhatTheFileSays`: `Decide` and `Says` agree on every accepted text and
  every host, labels of any length; the core is that `IsSuffix` with a longer
  host is "strictly below" (`BelowIsSuffix`).
* `RequestsAreJudgedRightly`: `RequestsAreJudged`.  It is not inductive: that a
  request gets its one line needs `ConnectionOk` (a granted request not logged yet still
  has an upstream whose end, the last to come, logs it), and its verdict needs
  `ListKnown` (a process at work has the whole list of one text).
* `EnsuredContainerRuns`: `EnsuredRuns`, from `CalmOk`: a call nothing has disturbed
  is the only one under way, and from its start request on the container it names
  is ours with its image.
* `OnlyCallersStopIt`: `ClientsCannotStopIt`, from the shape of the steps alone.

`AgentLoopProofs` takes from `LoopAssumption` that limits are numbers with the notice below
the stop, and proves for all of them, and for any number of turns and of uses in a turn:

* `ConversationIsPaired`: `EveryUseIsAnswered`.  It speaks of the conversation
  between turns; `TalkOk` adds that while tools run the last message holds exactly the
  uses under way, so the results that `Collect` appends answer all of them.  Eliding
  changes neither the uses nor the results of any message (`TrimKeeps`).
* `RepeatsAreNoticed`: `RepeatsAreCaught`, from `RepeatsOk`: the streak of a signature
  is never longer than its count in `repeats`, nor than the turns there were, and when a turn
  begins no count has reached the stop.
* `AnchorsGoStaleForACause`: `StaleAnchorHasACause`, from `AnchorOk`: a read half way
  without a doubt has the right offset for the file as it now is, and so has an anchor without
  a doubt, unless a change under way, seen to its end, will drop it.

`LoopAssumption` also says that lines start one after another, with room for a mark where there
is one.  `TypeOK` of `AgentLoop` is not proved and checked by no run: the types that `IInv` has are wider.

`DeliveryProofs` adds to the limits only that commits of runs and of others differ
(`DeliveryAssumption`), and proves the safety properties that `delivery` checks.  A step
of one run changes the remote by its own hand only (`RunMoves`), so each action is
shown to keep the invariant of its own run:

* `LeaseOk`, for `OverwritesNeedAReturn`: a push, at work or late, whose lease names a commit of
  somebody else that has not been put back since cannot land, as that commit was the tip and is not
  any more.  It is the inspection that makes this true: it goes on only when the
  tip it fetched is the bot's, so a foreign `sha` from `ls-remote` was gone at that moment.
  That it stays gone is nobody's promise (see the known disagreements).
* `StandsOk` and `Solitary`, for `LastRunWins`: to be alone is to be out of everybody's reach,
  late pushes included.  `ShippedOk` gives `SuccessIsReal`.

`EventStreamProofs` proves `TypeOK`, `GapsAreTold` and `OutputIsKept` of `EventStream` for
all sizes of chunks, reads, budget and buffer, and any number of reconnects.  The invariant
has two halves that the end of the stream ties together:

* `OutputFits`: of the bytes that left the mergers (`Due`), the events carry a
  beginning, each once and in order, all of it unless `truncated` is set (`Accounted`);
  nothing follows the notice of the limit (`LimitFits`); a pipe that has ended and an
  execution that is being finalized have nothing in a merger (`MergersFit`), which is
  what `finalize`, that drops what mergers hold, depends on.
* `ClientFits`: read and travelling frames together are `Told`; an open connection
  ends with the newest event (`UpToDate`), a cursor is the last event read (`CursorFits`), and a
  notice is the first frame of its connection and never wrong (`NoticeFits`).
  `GapsAreTold` alone says nothing of the frames on their way, nor of where the
  next connection begins.

Eviction picks the least event that fits.  That there is one, an induction, comes from the
library's theorem that < is well-founded on the naturals, by way of `Least`.

`RunHubProofs` proves `TypeOK`, `PageLosesNothing` and `TextInPlace` of `RunHub` for any number of
runs, pages and events and any limits.  `ViewersFit` follows a page through its subscription:
what it received, then the replay, then the notice of what was `dropped`, then the
queue go up one by one (`ReplayFits`, `QueueFits`), and the last of them is the newest record
while the subscription is open, from which `ReadersAreCurrent` follows; the newest record is
never evicted (`NewestKept`).  `RunningStays` needs that the turns of runs are at most
their number, so that a new run is the youngest.  `OldestGoesFirst` is a property of steps, of
`#pickVictim` alone.


Only model-checked: all liveness (`TtlReclaims`, `ExecReturnsOrAbortLost`, `SlotComesBack`,
`ClientSettles`, `PagesSettle`, `RunsEnd`, `RunEndsUnlessCallHangs`, `CreateEndsUnlessCut`, `TunnelsEnd`), as
fairness and ENABLED are beyond the prover, and the two violated properties, which are
counterexamples.  Every invariant and action property of a passing run is the subject of a theorem.

## Not modelled, and why

* Failures of the database itself: a throwing query ends the call wherever it is,
  which leaves what a crash leaves, but without the restart that repairs it.
* A kill that the agent acted on and whose answer is lost.
* The agent status `error`, which reconcile treats like a container that is gone.
* Two sweeper rounds at once, the batch and scan limits.
* The inner steps of one offload: it fetches, uploads and records one object after another,
  and `SandboxManager` tells apart only what it had covered when it ended or failed.
* Two providers at work on one sandbox id, the inspection of images and the hardening
  values of a container request.
* Of the agent's run: the `list` tool and the transcript's content (they change nothing the
  loop reads), how results are cut and worded (`truncate.ts`), the choice of a model and its key.
* Of a delivery: file contents, the age of a token, the title and base of a pull request;
  `sweepStaleRunDirs`, which nothing calls.
* Of the egress proxy: the health route, header filtering and byte counts, and several
  connections at once, as they share only the list; the host that is an
  empty label below the name of a wildcard, which `allowlist.ts:194` denies and the model grants: no
  name resolves so.
* Routing, authentication and path resolution of the agent's HTTP server, and the
  forwarder's socket pump: checks of one request, without state between requests.
* Contents of events and output, paths, validation of requests: sequential code
  over data, without state between requests.

## Plan

1. `SandboxManager` with its runs and proofs (this is the core; done).
2. `AgentExec` under `AgentView`, its runs and proofs (done).  `AgentsKeepPromise`
   ties the two halves together: the agents inside `SandboxManager` take only steps of `AgentView`,
   and `AgentExec` is proved to implement it.
3. `EventStream`: mergers, output budget, event buffer and the SSE client (done).
4. `RunHub`: `web/hub.ts`, the stream endpoint and a page (done).
5. `Provider`: create and destroy over Docker (done).
6. `AgentLoop`: turns, tools and budgets (done).
7. `Delivery`: from the clone to the pull request (done).
8. `Allowlist` and `EgressProxy` (done).
9. Theorems for every invariant and action property of the runs (done).
10. The offloader's steps, and the agent's HTTP server.
