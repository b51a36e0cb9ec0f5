# Verification of Margin (nanobot)

TLA+ models of the concurrent and crash-exposed parts of the agent in
`src/nanobot`, the TLC instances that check them, and proofs of their main
safety properties for every value of the constants.

| Module | Models | Run(s) | Proved in |
|---|---|---|---|
| `Dispatch` | routing of messages to turns: `agent/loop.py`, `agent/automation_turns.py` | `dispatch_session`, `dispatch_gate`, `dispatch_goal_block` | `DispatchProofs` |
| `TurnTranscript` | what a turn writes, and what is repaired: `agent/loop.py`, `agent/runner.py` | `turn` | `TurnTranscriptProofs` |
| `SessionMemory` | session objects, archiving, `/new`: `session/manager.py`, `agent/memory.py`, `agent/autocompact.py` | `memory` | `SessionMemoryProofs` |
| `ModelContext` | what a model is sent: `session/manager.py`, `agent/memory.py`, `agent/context_governance.py`, `agent/runner.py` | `context` | `ModelProofs` |
| `ModelRequest` | retries and failover: `providers/base.py`, `providers/fallback_provider.py` | `request` | `ModelProofs` |
| `OutboundDelivery` | outbound queue, streams, channel objects: `channels/manager.py`, `agent/turn_delivery.py` | `outbound` | `OutboundDeliveryProofs` |
| `BackgroundWork` | sub-agents and processes: `agent/tools/exec_session.py`, `agent/subagent.py` | `exec` | `BackgroundWorkProofs` |
| `LocalTriggers` | durable queue of trigger deliveries: `triggers/local_store.py`, `triggers/local_runner.py` | `triggers` | `LocalTriggersProofs` |
| `DeliveryQueue` | what that queue promises (abstract) | property `ImplementsQueue` | |
| `CronService` | the scheduler: `cron/service.py` | `cron`, `cron_rerun` | `CronServiceProofs` |

Each `MC` module instantiates the module of its name. `PROJECT.json` lists every
component, run, mutant, hazard, finding and theorem, and the source lines of
every definition.

    tlc -workers 2 -config dispatch_session.cfg MCDispatch
    tlapm DispatchProofs.tla

# 1. Inventory

The gateway is one asyncio process. Channels (Telegram, Slack, the WebUI, ...)
put messages on a bus. The agent loop takes them one at a time and hands each
to a session's turn, to a control command or to a task of its own. A turn loads
its session, builds a request from its memory, calls a model through a chain
of retries and fallbacks, runs tools, and publishes what it says on the outbound
queue, from which the channel manager sends it. Turns leave processes and
sub-agents running. Cron jobs and local triggers submit turns to the same bus and
wait for their outcome. A second process, the CLI, shares files with the gateway
and nothing else. Since asyncio is cooperative, every race is between two
suspensions (`await`), between a task and its cancellation, between the two
processes, or between a step and the end of the process.

The modules meet at these points: a task of `Dispatch` between `StartTurn` and
its end is a turn of `TurnTranscript`, of `SessionMemory` and of `OutboundDelivery`;
the session lock of `Dispatch` is why turns of a session follow each other there.
`TurnTranscript` writes the messages that `SessionMemory` archives and `ModelContext`
cuts; a model answer of `TurnTranscript` is the result of a request of `ModelRequest`;
`/stop` in `Dispatch` goes on in `BackgroundWork`; a submitted delivery or cron
job is an automation of `Dispatch`.

## Modelled

**Agent loop routing** (`agent/loop.py`, `agent/automation_turns.py`,
`session/keys.py`). *State*: the inbound queue, the registered injection queue
and the task set of each session, the session locks, the concurrency gate, the
deferred automation turns, the futures of `submit`. *Operations*: publish;
`run()` on one message (inline command, defer, inject, task); a turn that starts,
takes a follow-up, ends, fails, continues its goal, is cancelled; `/stop`, `/new`,
discard of a temporary chat. *Hard*: four ways for a turn to end, with follow-ups
in its queue; cancellation before the lock, at the gate and inside the turn; two
bounded resources (injection queue, gate) taken while a lock is held; `run()`
itself waits for the tasks it cancels. *Correct* when every message is in exactly
one place or settled, every registered queue has a consumer, no gate slot leaks,
no deferred turn is stranded, automations are never mixed into a user's turn and
every caller of `submit` is answered.

**The transcript of a turn** (`agent/loop.py`, `agent/runner.py`,
`providers/conversation_state.py`). *State*: the session's messages, runtime
checkpoint and pending flag in memory and on disk; the runner's messages; the
provider's conversation state. *Operations*: restore, build and save the prompt,
model answers, tools, follow-ups, checkpoint, save at the end, stop, failure, crash.
*Hard*: three writers of the same messages (prompt, checkpoint, end), any of which
may be the last. *Correct* when the next turn starts on a legal, closed transcript
that holds every saved input once and the last checkpointed step, and the provider's
state knows at least what the transcript says.

**Session memory** (`session/manager.py`, `agent/memory.py`,
`agent/autocompact.py`, `/new` in `command/builtin.py`). *State*: the file, the
cached object and the ones still in use, the cursor `last_consolidated`, the history
file. *Operations*: a bus or direct turn, consolidation in the turn and behind it,
compaction of an idle session, `/new`, eviction, file cap, crash. *Hard*: archiving
awaits the model with an object and an index. *Correct* when no message leaves the
session without reaching the history, none is archived twice, one object is live,
and nothing said before `/new` returns.

**Model context** (`session/manager.py`, `utils/helpers.py`, `agent/memory.py`,
`agent/context_governance.py`, `agent/runner.py`). *State*: messages, cursor, the running
turn. *Operations*: the windows (cap, cursor, replay, token limit, budget), consolidation
by messages and by tokens, the repairs, compaction of tool results, the snip; rounds of
tools, follow-ups joined to the turn, prompts to go on. *Hard*: every window cuts by its
own rule, while the turn grows. *Correct* when every request is one a provider accepts,
holds the running turn from its latest user message on, exceeds the budget for that
alone, and what the history hides was archived.

**Model requests** (`providers/base.py`, `providers/fallback_provider.py`,
`AgentRunner._request_model`). *State*: attempt, fallback, what was streamed, the
images, the shared circuit breaker. *Operations*: call, delta, answer, five kinds of
failure, retry (standard and persistent), fallback, retry without images, cancel.
*Hard*: two loops repeat calls, each with its own note of what the user has seen.
*Correct* when no segment mixes two calls, calls are bounded, an open breaker is
respected, images survive failed tries, and requests end.

**Outbound delivery** (`channels/manager.py`, `bus/queue.py`,
`agent/turn_delivery.py`). *State*: the queue, the buffer of coalescing, the message in
retry, reply fingerprints, channel objects and the requests that replace them.
*Operations*: deltas, ends, notices, replies, tool messages, answers of background
turns; take, join, suppress, send, fail; enable, disable, `stop_all`. *Hard*: joining
takes one message too many; a send may fail after it arrived; requests overlap.
*Correct* when every message has one place or one fate, a chat sees them in order,
streams are closed unless the turn fails, at most one object is live and the queue drains.

**Background work** (`agent/tools/exec_session.py`, `agent/tools/shell.py`,
`agent/subagent.py`). *State*: the pools of the two managers with their locks,
processes and pipes, sub-agents. *Operations*: start, poll, write, terminate, list;
spawn; `/stop`, shutdown. *Hard*: calls are cancelled with the lock held or a process
half registered; a kill may be refused. *Correct* when no running process is outside its
pool, output is delivered before the session goes, `/stop` and shutdown leave nothing, and
every call ends.

**Local triggers** (`triggers/`). *State*: the files of `inbox`, `processing` and
`failed` with their attempt counts, the audit records, `triggers.json`, the batch
in the runner's memory. *Operations*: create, enable, disable, delete a trigger;
enqueue (CLI); recover at boot, claim, submit, complete, retry, cancel. *Hard*:
each of them writes several files, and the process may end between any two; the
trigger may change or go while its turn is running. *Correct* when an accepted
delivery is never lost, has an owner while it is claimed, is submitted at most
ten times and ends.

**Cron service** (`cron/service.py`, `cron/types.py`). *State*: `_store` in
memory, `jobs.json`, `action.jsonl`, the timer task with its batch,
`_active_executions`. *Operations*: boot, add, remove, enable, update, list, run by
hand, the tick; add and remove by another process. *Hard*: every idle call
replaces memory by the file; the timer is re-armed by cancelling the task that
may be executing a batch; two writers of the files; a damaged file. *Correct* when
a due time that completed is not executed again, memory and file agree between
executions, no job is lost, and a due job is executed.

Every one of these is modelled in part: what is left out stands under
*Abstractions* in section 3. **Smaller parts** seen through the modules above: the
message bus, goal continuation (`session/turn_continuation.py`), slash commands
(`command/builtin.py`), the gateway's lifecycle (the exits and shutdowns).

## Not modelled

| Component | What is hard, and why it is left out |
|---|---|
| MCP connections (`agent/tools/mcp.py`) | Connect, reconnect and shutdown run in different tasks. What happens inside is decided by the MCP library's task groups, which are not in `src/`; next in the plan. |
| Pairing (`pairing/store.py`) | Codes that expire; sequential under one lock. |
| Cron delivery (`cron/bound_runner.py`, ...) | No state of its own: its turn is an automation of `Dispatch`, its outcome `FinishJob` of `CronService`. |
| Dream and its repository (`utils/gitstore.py`) | What is edited is decided by the language model; commits are sequential. |
| Model presets; runtime event bus | Sequential resolution; a synchronous fan-out. `Dispatch` uses that it never suspends. |
| Channel packages, HTTP API, SDK, WebUI, file and web tools, security policy, configuration, utilities, evaluation scripts | Adapters, views, parsing and formatting: I/O and pure functions around the parts above. They are most of the repository's lines. |

# 2. Plan

The order is that of the damage an error does: first what decides whether a
message is handled at all, then what must survive a restart, then the stores, then
what surrounds them.

1. **Done**: `Dispatch`, `LocalTriggers` with its abstract `DeliveryQueue`,
   `CronService`, with a proof module each.
2. **Done**: `TurnTranscript`, `SessionMemory`, `ModelContext`, `OutboundDelivery`,
   `BackgroundWork`, `ModelRequest`; a proof module each, one for the two modules
   about the model.
3. An abstract append-only history that `SessionMemory` implements while it is not
   raced, and a FIFO per chat that `OutboundDelivery` implements.
4. A composition of `Dispatch` and `LocalTriggers`, in which a submitted turn
   is the dispatched message, so that the fairness of the consumer, which waits for
   a turn that is answered or dropped, is discharged by `AutomationAnswered`.
5. MCP connections.

There are twelve runs, the longest of about three minutes, so that the whole set is
repeated at every change. A further run replaces or joins one of these.

# 3. Modules and code

An action is the code between two suspensions, with everything it calls. A module
keeps the names of the code where it can; mutated forms that a plausible bug would
give ("Faults") stand beside the definitions they replace and are used by no
specification.

## Dispatch

A task is identified with the message it dispatches. `inbound`,
`pendingQueues`, `deferred`, `activeTasks`, `permits` and `waiters` are the fields of
the loop, the bus and the coordinators; `lockQ` is a session lock with its FIFO
waiters, `turn` the progress of its owner, `cancelled` the cancellations in flight,
`control` and `awaits` the inline handler `run()` is in. `fate` is history.

| Code | Action |
|---|---|
| `publish_inbound`, `submit` of a coordinator; the submitter is cancelled | `Publish`; `CallerCancelled` |
| `run()` on one message | `ReceiveControl`, `ReceiveDropped`, `ReceiveCommand`, `ReceiveDeferred`, `ReceiveFollowUp`, `ReceiveTask` |
| `cmd_stop` and the other inline handlers, after `_cancel_active_tasks` | `FinishControl` |
| `_dispatch` past lock and gate | `StartTurn` |
| the runner drains the injection queue | `Inject` |
| answer or exception, then the `finally` clauses | `EndTurn` |
| `maybe_continue_turn` | `ContinueTurn`; `BlockOnFullQueue` when its `put` has no room |
| `/new` as a turn | `ClearSession`, `SessionCleared` |
| `CancelledError` inside the turn; before it | `AbortTurn`; `AbortWaiting` |

*Abstractions.* The end of a turn is one action: it publishes events, but the
subscribers in the repository only put on unbounded queues, which does not
suspend. What a turn says, streaming, checkpoints and the contents of the session
are left out. "command" stands for every command without effect on routing.
`submit` when the loop does not run is not modelled: it refuses at once.

## LocalTriggers and DeliveryQueue

A delivery is a number, its place in the order of file names. `inbox`,
`processing` and `failed` are the directories: the attempts in the delivery's file,
or `NoFile`. `runs` is the status in the audit record, `phase` and `batch` are where
`run_local_trigger_queue` is and what it has claimed; in phase "stuck" it awaits a turn that
will not answer.

| Code | Action |
|---|---|
| `create`, `enable`, `delete` | `CreateTrigger`, `EnableTrigger`, `DeleteTrigger` |
| `enqueue` in the CLI | `Enqueue` |
| `recover_processing_deliveries` at boot | `Start` |
| `claim_deliveries`; nothing to claim, or the consumer hangs | `Claim`; `Sleep` |
| the turn is submitted | `Submit` |
| the turn is cancelled before it has lock and gate (finding 3) | `Dropped` |
| `complete_delivery` after an answer, a failed turn or a refusal | `Complete` |
| `retry_delivery` after another exception; on cancellation | `Retry`; `Cancelled` |
| the process ends part of the way through one of these, or between two | `ExitInDelete`, `ExitInClaim`, `ExitInStart`, `ExitInComplete`, `ExitInRetry`; `Crash` |

*Abstractions.* The store's file lock is held over each operation, so that an
operation is one action and only an exit separates two of its writes (the `ExitIn`
actions). One gateway consumes a workspace. Names, messages and the content of
records do not matter; file writes are atomic (temporary file and rename) and do
not fail, except in `Enqueue`, whose failure takes the delivery back.

`DeliveryQueue` is the promise of `docs/automations.md`: a delivery is accepted, submitted at
most `MaxAttempts` times while it is pending, and ends settled, failed or, with its
trigger, void. `LocalTriggers!Promise` maps the files to it (`DeliveryState`).

## CronService

Tables are functions from jobs to an entry (`enabled`, `next`) or `NoJob`. `store` is
`_store`, `disk` is `jobs.json` (`Unreadable` when damaged), `actions` the last line
about each job in `action.jsonl`. `timer`, `due` and `current` are the timer task and
the batch it executes, `dying` counts cancelled batches whose `on_job` has not
returned yet, `manual` holds the jobs `run_job` executes. `Active` is
`_active_executions`; `Reads`, `Loaded`, `LoadedLog` and `LoadedDisk` are `_load_store` with
`_merge_action`. `submitted` and `completed` are history, pairs of a job and a due time.

| Code | Action |
|---|---|
| `register_system_job` and `start` | `Start`, `StartRefused`, `ExitInStart` |
| end of the process; inside `_merge_action` | `Exit`; `ExitInMerge` |
| `_on_timer` up to the first `await on_job` | `Wake`, or `WakeInVain` if nothing is due |
| end of `on_job`, rest of `_execute_job`, next job or save and new timer | `FinishJob` |
| a cancelled batch unwinds | `BatchDies` |
| `list_jobs`, `get_job`, `status` | `ListJobs` |
| `add_job`, `remove_job`, `enable_job` and `update_job` | `AddJob`, `RemoveJob`, `SetJob` |
| `run_job` before and after its `await` | `RunJob`, `FinishRun` |
| `add_job`, `remove_job` in another process | `CliAdd`, `CliRemove`, `CliLoadFails` |
| the clock; damage from outside | `Elapse`; `Damage` |

*Abstractions.* Time is counted in the interval of the repeating jobs, and a
schedule does not change. All jobs are bound to a session (the others are disabled
when they are loaded); one-shot jobs have `delete_after_run`, as the cron tool
creates them. The WebUI refuses changes of system jobs, so the
calls exclude them. A job is run by hand once at a time. The other process adds
and removes only. Writes do not fail.

## TurnTranscript

`file` and `session` are the session on disk and in memory: its messages, pending
flag, checkpoint and provider state. `stage`, `input` and `run` are the turn;
`followups` is its injection queue, `waiting` what will start a turn. `kept`, `joined`,
`shown`, `taken` and `excused` are history.

| Code | Action |
|---|---|
| `_restore_turn` (checkpoint and pending turn are repaired) | `Restore` |
| `_build_turn` with the early save; a slash command | `Build`; `Command` |
| the model asks for a tool; tools end or fail fatally | `CallTools`; `ToolsDone`, `ToolsFail` |
| the final answer; no answer | `FinalAnswer`; `NoAnswer`, `AfterError` |
| `max_iterations` is reached | `Exhausted` |
| a message arrives in the turn's queue | `FollowUp` |
| `_persist_turn`; its write fails; the file cap's archive raises before the flags are cleared | `Persist`; `PersistFails`; `PersistAborts` |
| `/stop`, another exception, the end of the process | `Stop`, `Fail`, `Crash` |

*Abstractions.* A message tells the model a set of items; the provider's state is the set it
knows. A response calls one tool, and a drained batch is unordered. The recovery of
answers cut for length, the finalization of blank answers (`NoAnswer` is its outcome) and goal
continuation are left out. Turns of a session follow each other (the lock of `Dispatch`).

## SessionMemory

A message is its number. `heap` holds the `Session` objects, `cached` names the one
the cache hands out, `turn` and `job` what a turn and an archiving task captured:
object, batch and end. `archived` is `history.jsonl`. `raced` notes that an object was
overtaken.

| Code | Action |
|---|---|
| a bus or direct turn loads its session; it has nothing to consolidate | `Begin`; `Check` |
| prompt and turn are appended and saved, with the file cap | `Ask`, `Answer` |
| `maybe_consolidate_by_tokens` before the summary, in a turn or behind it | `ConsolidateInTurn`, `ConsolidateInBackground` |
| `check_expired` and `compact_idle_session` before the summary | `Expire`, `Compact` |
| the batch is in the history and the cursor moves; the write fails | `Archived`; `ArchiveFails` |
| `cmd_new`; the task it starts | `New`; `SnapshotArchived` |
| eviction of the cache; the end of the process | `Evict`; `Crash` |

*Abstractions.* How much a consolidation takes is any prefix; a summary and the raw
text after a failed summary are the same. Deletion and fork of a session, `flush_all`, ephemeral
sessions and the metadata (the last summary among it) are left out.

## ModelContext

`messages` and `cursor` are the session, `initial` and `inflight` the turn's
history and its additions, `compacted` the results replaced so far. The windows are
operators named for the code: `Capped`, `Overflow`, `Further`, `Consolidated`, `History` with
`TokenTail`, `Repaired`, `Compacted`, `Snipped`; `Request` is the composition of the last
three, what the provider gets.

| Code | Action |
|---|---|
| `_build_turn`: consolidation (`Consolidated`, in rounds of `Further`), history with its token limit, prompt | `Build` |
| a request, its tools and the follow-ups drained behind them, or an error of a tool and a follow-up | `Round` |
| a request with an answer that is not the last: a follow-up, a goal still active, an answer cut for length | `Continue` |
| a request and the end of the turn | `Finish` |
| a delivery into the chat; a slash command | `Deliver`; `Slash` |
| compaction of the idle session | `CompactIdle` |

The code's loops over messages are written as what they compute, by sets of indexes and
cardinalities: `LegalStart` is the least start from which every result has its call in sight,
`Backfilled` arranges the messages and the missing results in the order of their slots, `Compacted`
replaces up to the least message at which it may stop. `MCModelContext` holds the
loops as folds (`LoopLegalStart`, `LoopBackfilled`, `LoopCompacted`, ...), and TLC compares them with the definitions
on every sequence of up to four messages of eight kinds (`LoopsAgree`) and on turns of up to four results of three kinds (`CompactionAgrees`).
`LoopBackfilled` is compared on what `drop_orphan_tool_results` leaves, which is all it is given.

*Abstractions.* A message has a role, the calls it makes, the call it answers and a size:
`Big` for a large tool result, else one (`Big > 1`: only results of at least
`MICROCOMPACT_MIN_CHARS` of the tools in `COMPACTABLE_TOOLS` are replaced, by a shorter line; `compactable`
marks them). Sizes add up and are the same for every estimator of the code. `Replay` is both
the budget of consolidation and the token limit of the history (`_replay_token_budget` returns the
consolidator's input budget where it is positive; its fallback and a context window of zero are not modelled).
`Build` takes a prompt as a message of its own and a follow-up behind a user message likewise,
where the code merges the two into one. An answer has text or is a placeholder. The
preparation made for the checkpoint of a provider that keeps state, which sends nothing, is left out, and
the limit on cycles of follow-ups is `MaxUnits`. Malformed tool calls, offloading of long
results to files and the texts are left out.

## ModelRequest

`req` holds the locals of the two loops and of the runner for each request: attempt and
model, what was streamed in the attempt (`streamed`, `hushed`) and in the request
(`shown`, `muted`), error count, images, and the segment the user sees. `failures`
and `breaker` are the shared circuit breaker. `broken` presets cannot be built.

| Code | Action |
|---|---|
| `_run_with_retry` begins an attempt, the wrapper chooses a model | `Attempt` |
| `on_content_delta` | `Delta` |
| the primary answers; fails | `PrimaryAnswers`; `PrimaryFails` |
| a fallback answers or fails | `FallbackReturns` |
| sixty seconds pass; the request is cancelled or timed out by the runner | `CoolDown`; `Cancel` |
| the runner's next request | `Again` |

`Handled` is the body of the retry loop, `Advance` the loop over the fallbacks.
*Abstractions.* Errors are four kinds and their texts the same or not. The retry of a
malformed tool call (another loop, in the runner), delays and `Retry-After`, the hand-over
of a provider's conversation state and providers without fallbacks are left out.

## OutboundDelivery

A published message has a number; a joined one carries several. `outbound` is the
bus's queue, `pending` the message that coalescing gave back, `sending` the one in
`_send_with_retry`; `channel`, `task` and `objects` are the registered channel
object, its start task and all objects built; `request` are WebUI requests that
await a stop. `book`, `fates`, `shown`, `leftOpen`, `raced` are history.

| Code | Action |
|---|---|
| the events of a turn (`TurnDelivery`, plugins, tools) | `Begin`, `StreamDelta`, `StreamEnded`, `Notice`, `ToolMessage`, `Complete`, `Abort`, `Fail` |
| the answer to a sub-agent's result | `Background` |
| one round of `_dispatch_outbound` | `Take` |
| `send` returns; raises, before or after the platform has it | `Delivered`; `Failed` |
| a start task ends | `Started` |
| `apply_channel_feature_action` before and after its await | `Apply`, `Applied` |
| `stop_all` | `StopAll`, `AllStopped` |

*Abstractions.* One channel; the restart notice, validation and the registry are left
out. Texts are compared only. Delays between attempts are left out.

## BackgroundWork

A task is a running turn (named for its session) or a sub-agent. `call` is where its
exec call is suspended, `lock` and `closed` belong to the two managers, `exec` holds each
process with its pipe and buffer and its place in the pool; `stop` and `closing` are
where `/stop` and `close_mcp` are, each with the sessions whose kill was refused.

| Code | Action |
|---|---|
| a turn; `spawn`; a sub-agent ends | `Begin`, `End`; `Spawn`; `SubEnds` |
| the process and its readers | `Writes`, `Exits`, `Reads` |
| a start, write or list takes the lock; cleanup of idle sessions | `Call`; `Reaped`, `Cleaned` |
| the process was created or not; stdin was written | `Spawned`; `Fed` |
| `poll`: the wait, the readers or two seconds, the grace time; the pop | `WaitOver`, `AnswerAtEof`, `AnswerLate`, `AnswerInGrace`; `Popped` |
| the clock | `GrowsIdle`, `GrowsOverdue` |
| `/stop`, `terminate_by_owner`, its error | `Stop`, `StopSubs`, `StopTerminates`, `StopRaises`, `StopDone` |
| `close_mcp`, `close_all` | `Shutdown`, `CloseTurns`, `CloseSubs`, `CloseTerminates`, `CloseRaises`, `CloseAgain` |

*Abstractions.* Output is counted and never truncated. The polling loop of
`_wait_for_output`, `exec` without a session, the discard of a temporary chat from the WebUI
and a kill that times out while the process lives are left out. The sub-agent's own turns are its
exec calls. After a kill whose two seconds for the readers ran out the code has cancelled them, and
the next poll raises `CancelledError` out of its call (`exec_session.py:205`); the model gives a late answer there.

# 4. Runs

Bounds are constants of the modules and appear in guards only. Every message is sent
at most once and every job created at most once. A run checks several properties;
those that are conjunctions (`TablesSound`, ...) name their parts where they are defined.

| Run | Instance | Distinct states | Shows |
|---|---|---|---|
| `dispatch_session` | one session; two messages, a temporary one, an automation, `/stop`, `/new`; queue 1, gate 1, one continuation | 1,219,964 | `TablesSound`, `ExactlyOnce`, `QueueHasConsumer`, `ControlReturns` |
| `dispatch_gate` | two sessions, one slot; a message, two automations and a discard against a message and a command | 298,379 | `StoppedByCommand`, `NoStrandedDeferred`, `EveryMessageSettles`, `AutomationAnswered` |
| `dispatch_goal_block` | three messages, a goal | | violates `EveryMessageSettles` |
| `turn` | two messages and a sub-agent's result, two model calls, two cycles; two stops or failures, one crash | 949,361 | `SessionSound`, `InputsKept`, `StateCoversTranscript`, `LastStepKept` |
| `memory` | six messages said, file cap 3, one `/new`, one crash or failed write | 2,420,201 | `CacheSound`, `ArchivedExactly`, `FreshUnlessRaced` |
| `context` | five things said, cap 8, window 7, budgets 8, results of one and five tokens, replaceable or not, follow-ups | 137,243 | `RequestSound`, `InflightOnly`, `HiddenArchivedWithUser` |
| `request` | two requests at a time in three mixtures of stream, progress, images and persistence; two fallbacks, two retries | 431,911 | `SegmentsWhole`, `CallsSound`, `BreakerHolds`, `RequestEnds` |
| `outbound` | four messages in a chat, three in two chats, two with failing sends, or one message beside three WebUI requests | 2,209,487 | `FatesRight`, `ShownRight`, `StreamsCloseUnlessFailed`, `OneLiveUnlessRaced`, `Drains` |
| `exec` | two sessions, two sub-agents, pools of one, six mixtures of starts, output, refused kills and timeouts | 96,053 | `PoolsSound`, `OutputKept`, `NothingLeft`, `AwaitsEnd` |
| `triggers` | two triggers with a delivery each, three attempts, batch 2, three exits | 328,143 | `FilesSound`, `NothingLost`, `SubmitsBounded`, `ImplementsQueue`, `DeliveriesEnd` |
| `cron` | system job, repeating and one-shot reminder; time 0..2, two calls, one damage, one exit | 1,938,090 | `TableSound`, `CompletedOnce`, `JobsSurvive`, `DueJobsRun` |
| `cron_rerun` | system job, reminder, one call | | violates `RunsOncePerDue` |

*Why the bounds are enough.* The code's numbers (injection queue 20, gate 3 by
default, 12 continuations, 10 attempts, batch 20, file cap 2000, breaker 3 and
persistent limit 10, pool of 8) are only compared and counted. A queue of one is full
after one follow-up and one slot is contended by two sessions, so that every branch at a
limit is taken. Two follow-ups beside a running turn, a queue and a task that waits make
each pair of actors meet.

* `triggers`, `cron`: three attempts allow a retry after a crash and the last attempt; three exits
  one in the recovery from another. In two units of time a job comes due, is executed and comes due again.
* `turn`: two model calls make a step with a tool and an answer; two stops and a crash allow
  the repair of a repaired turn.
* `memory`: six messages are three turns and exceed a cap of three twice, so that the cap
  trims below a captured batch; four objects are one each for cache, turn, job and a new one.
* `context`: five units make a history longer than the cap and the window, a tail over the
  token limit, and a budget exceeded with and without history. A large result alone fits a request and two do not;
  `Budget - Target` is smaller than what replacing one saves.
* `request`: two fallbacks have a broken one before and behind a working one, and three
  failures that trip the breaker come from one request or two.
* `outbound`: four messages are a delta, one that joins, one that does not and a stream end; two
  attempts are one retry; three requests are two that overlap and one after them.
* `exec`: a pool of one is full at once; one mixture each for two owners, for one session with
  two turns and an overdue command, for refused kills in a cleanup, in `/stop`
  and in the shutdown, and for sub-agents at their limit.

What does not depend on the length of interleavings is proved without bounds for
all nine modules (section 6).

Deadlock is not checked where the system really stops: in `dispatch_session` and
`dispatch_goal_block` the goal turn that blocks on its own queue (finding 2), in
`outbound` after `stop_all`, in `exec` after the shutdown, in `context` when the bound on things
said is reached. The other runs check it; `Dispatch`, `TurnTranscript` and `SessionMemory` have a
stuttering action `Quiescent` for the state in which everything is done.

## Fairness

* `Dispatch!Fairness`: weak fairness for `run()`, for handlers and for the steps of a
  turn other than `Inject`, because the event loop runs every ready callback and a turn is
  bounded in iterations, calls and time. Strong fairness for `StartTurn`: lock and
  semaphore wake their waiters in FIFO order, so a waiter is not passed over for ever,
  though the slot it needs may be taken again each time. Nothing forces anybody to publish.
* `LocalTriggers!FairSpec`: the gateway is started again, and the runner proceeds. A
  submitted turn is answered or dropped (`Dropped`): a dropped one leaves the consumer
  hanging, with no fairness that would free it, and `DeliveriesEnd` excepts that phase. That any other turn is answered
  is the property `AutomationAnswered` of `Dispatch`, which excepts stopped automations likewise.
* `CronService!FairSpec`: the timer task runs, what is handed to the agent ends,
  cancelled batches unwind. No fairness of calls, of the clock or of `Start`.
* `OutboundDelivery!Spec`: weak fairness of the dispatcher and of an attempt to send, since
  the event loop runs the one and every channel's request to its platform ends.
* `BackgroundWork!Fairness`: strong fairness of what follows the lock of a manager
  (asyncio locks are FIFO) and of `/stop` and the shutdown, which await it again and again.
  Nothing forces a process to exit, to write or to read its stdin.
* `ModelRequest!FairSpec`: a call returns (providers have timeouts) and a wait ends.

# 5. Findings

Two are runs that TLC finds violated; `PROJECT.json` quotes what they contradict.

1. `cron_rerun`: any change of a job while a batch executes cancels the batch, loses the
   completion and hands the same due time to the agent again.
2. `dispatch_goal_block`: at the end of its budget a goal turn awaits room in the bounded
   queue that only it consumes. When follow-ups have filled it, the session stands still until `/stop`.

The others are behaviours of the code that the models have too; the property they touch
excepts them by a named condition, so that it shows what holds beside them:

3. A task cancelled while it waits for the lock or the gate never completes its coordinator: the
   submitter waits for ever, and with it the one consumer of local triggers
   (`AutomationAnswered` and `DeliveriesEnd` except it).
4. `/stop` looks for follow-ups to drain after the cancelled turn has put them back on
   the bus; they start new turns.
5. A delivery whose trigger was deleted during its turn is written back when the turn is
   cancelled. (It is dropped later as "trigger not found".)
6. After a damaged `jobs.json` was moved aside nothing saves the good table in memory; the next
   load replaces it by an empty one (`JobsSurvive` excepts it).
7. A turn that is stopped or dies keeps the last checkpointed step only (`LastStepKept` promises no more), and
   a follow-up that was joined to a prompt already saved is not written (`joined` in `InputsKept`).
8. `/new` while a background consolidation or compaction awaits the model: the job saves
   its object later, and the old messages come back over the new ones (`raced`).
9. The replay window and the window that is archived are computed by two rules. When the last
   messages hold none of the user's, the beginning of the turn is neither replayed nor archived.
10. The reply to a message is remembered before it is sent; if it is given up, an equal reply is
    dropped as a repetition.
11. Two overlapping enable or disable requests may leave a started channel object under no name.
12. A process whose kill is refused during `/stop` ends `run()` and with it the gateway.
13. After the cooldown of the breaker every request probes the primary until one returns; the
    comment speaks of one probe.
14. A turn that fails while a stream is open publishes its apology and no stream end, and one whose answer
    is still truncated at the iteration limit completes with its stream open (`leftOpen` in `StreamsCloseUnlessFailed`).
15. A request over the budget may start at a follow-up that joined the turn: the prompt and the
    rounds before it are not sent (`TurnSent` claims the turn from its latest user message on).
16. The token limit of the history starts at the first user message it keeps and drops the delivery
    before it, which `get_history` has kept for its answer (`session/manager.py:234`).
17. Consolidation "removes enough old prompt tokens" (`agent/memory.py:861`), but it counts slash commands and
    messages before the first of a user too, which no prompt has. What is left may exceed the token limit,
    and the history then lacks a beginning that was not archived (`AllReplayed` in `HiddenArchivedWithUser`).

Three limits are in the models without being findings, since no document promises otherwise: an
exit between emptying `action.jsonl` and saving loses the merged jobs (`logLost`); a one-shot
job that comes due while the gateway is down stays enabled without a next run; restarts use up the attempts
of deliveries.

# 6. Proofs

`tlapm` proves the theorems below from the assumptions each module states about its
constants (`DispatchAssumption`, `TriggersAssumption`, `CronAssumption`, `RequestAssumption`, and
`ConstantsAssumption` in the others): for every set of sessions, deliveries, jobs, requests or
sub-agents (finite where one is counted), every number of messages and every capacity and bound. In each module an invariant (`IInv`, of `ModelContext` `ContextInv`) is shown to hold
initially and to be preserved by each action, one lemma per action or group of like actions.

* `DispatchProofs` (`TypeCorrect`, `QueuesHaveConsumers`, `GateIsConserved`,
  `DeferredAreWoken`, `AutomationsSeparate`, and `TablesAreSound` of them). Together they are not inductive yet. That a queue is unregistered by
  its owner needs `Owned` (a session past the gate has a task, a registered queue has such a session); the
  gate's sum needs the finite set of busy sessions; that
  a woken automation wakes the next one needs `DeferredKinds` (what is deferred is
  an automation of that session), and that no automation is injected needs `FollowUpKinds`.
  The second part (`MessagesExactlyOnce`, `OnlyCommandsStop`) builds on that invariant. `PlaceInv` says of each
  session that its sequences repeat nothing and share nothing (`Distinct`, `Apart`), hold only its own
  messages, and hold every live one (`Tidy`); a step moves messages of one session, and `OthersTidy`
  gives the rest. One lemma covers the routes of `run()` (`RouteKeepsPlaces`), one the four ways a task ends
  (`TaskEndKeepsPlaces`), where it matters that the owner of the lock is not among the leftovers of its
  queue. `StopInv` adds that every cancellation in flight has a command of its session that left the bus
  (`Stopper`), and that such a command never returns to it, since no queue of follow-ups holds one (`QueuedKinds`).
* `LocalTriggersProofs` (`TypeCorrect`, `NoDeliveryLost`, `ClaimsAreOwned`, `AttemptsBounded`, `FilesAreSound`). The strengthening says where
  copies of a file may coexist (`Directories`: an unfinished retry leaves the copy that
  its count prescribes), that counts cover submissions (`Counts`), and that what the
  runner remembers of a claim agrees with the claimed file (`BatchOwned`).
  `QueueKept` is the refinement: under the mapping `DeliveryState` each step of the store and of the
  runner, and each exit in the middle of one, is a step of `DeliveryQueue` or a stutter: a deletion voids,
  also where it leaves files behind; a claim stutters; a requeue, complete or not, fails
  those whose original it removed at the last attempt (`RequeueFails`); a submission has an attempt left because
  the runner's count covers the submissions made.
* `CronServiceProofs` (`TypeCorrect`, `CompletedAtMostOnce`, `BatchesEnabled`, `MemorySaved`, `CreatedJobsSurvive`, `TableIsSound`).
  The core is `Ahead`: an enabled entry's time is later than each the job completed. It
  holds of memory always, of the file while the timer sleeps, which is when a load may
  replace the one by the other; `LogFresh` and `Known` carry it through the action log,
  `Saved` and `Survive` relate memory, file and log.
* `ModelProofs`, of `ModelContext` (`ContextStays`, `RequestIsSound`, `InflightStays`, `HiddenIsArchived`). The
  invariant `ContextInv` says that the session and the running turn are conversations (`Tidy`: every call
  stands once, every result once and behind its call, with nothing but results between) whose calls have different names
  (`Known`, disjoint sets), that the turn's calls all have their results (`Full`), that the turn started from such a
  conversation (`StartedFrom`), and whose results were replaced (`CompactedPart`). It is not the property: the
  request is computed anew in each state, through the chain of operators, and the work is in the lemmas about these.
  Each operator keeps `Tidy` or makes it (`LegalTidy`, `PickedTidy`, `BackfilledTidy`, `CappedIs`,
  `ReplayableIs`), backfilling makes `Full` (`BackfilledFull`), and governing a history and a turn is governing
  each of them (`GovernedConcat`), from which it follows that every request ends with the turn, from its latest user
  message on. `GrownStep` is one lemma about all a turn may add, what is joined to it included. `SnippedTurn` says
  that the snip cuts at or before the latest user message, before the turn if that fits, and either meets the budget or leaves no
  second user message to cut at; since what it leaves is `Tidy` and `Full`, the second repair of
  `prepare_for_model` finds nothing (`RequestIs`). `ReplayedIs` says what the windows leave of a tail,
  `BoundaryIs` relates the boundary of archiving to it, and `TokenTailKeeps` that the token limit takes nothing from what
  fits. Between them stands `Settled`: the cursor is at a turn whose tail the limit keeps. The first round of consolidation
  leaves it so (`FirstSettles`), each further one keeps it so (`FurtherSettles`). Under them, slots are ordered pairs: `PlaceIs` gives that places are numbers without a gap, `ArrangedConcat` that
  arranging two sequences is arranging each. Least and greatest elements come from well-founded
  induction (`MinIs`, `MaxIs`).
* `ModelProofs`, of `ModelRequest` (`SegmentsAreWhole`, `CallsAreSound`, `BreakerRespected`). `IInv` says what is true
  of a request in each of its places (`Sound`): while a model is called, text of earlier calls in
  the segment means that nobody listens any more (`InCall`); between two attempts, that the request is
  muted and has no other segment to start (`BetweenAttempts`). That is what neither loop knows of the
  other. The number of calls is bounded by `Before(q) + model + 1`, where `Before` is what
  the earlier attempts may have cost, a product that `Products` splits into an attempt and
  the rest. `LeastElement` and `NextModel` (well-founded induction over the chain of models) give that the next model
  comes behind those that failed. `BreakerRespected` is an action property: each lemma about
  a step also shows `Respects`.
* `BackgroundWorkProofs` (`PoolsAreSound`, `OutputIsKept`, `NothingIsLeft`). The bound on a pool needs that a call
  at "spawning" holds its manager's lock while there is room (`CallSound`): the
  check is made before the await in which the process starts. That a running process outside its pool is about to be
  put back needs `stop` and `closing` (`PoolInv`); that a `/stop` has ended the processes of one manager while it
  turns to the other needs that nothing runs for its session any more (`StopInv`, `EndedStays`), since only a task can
  start a process. `Drained` carries `OutputKept` through reads and late answers. Of each action the proof shows what it makes
  of the sessions (`Later`), the calls (`Stepped`, `Moves`) and the tasks (`Calm`), and the frame lemmas conclude.
* `SessionMemoryProofs` (`TheCacheIsSound`, `EveryMessageIsKept`, `NewIsFresh`). The three properties need each
  other: that a batch is archived once needs that its object is the live one and equals the file, or the cursor
  would be saved over another's. `FileInv` says that the file ends with the last message said and holds none from
  before `/new`; `JobInv` that a captured batch still follows the cursor; `SnapshotInv` that the tasks
  of `/new` hold disjoint sets of older messages. With these each action keeps the balance `Books`, one lemma
  about sets for each way messages move (`SaidBooks`, `ArchivedBooks`, `NewBooks`, `TaskBooks`,
  `CrashBooks`). Below them are lemmas about the operators: `UnarchivedIs` (an interval of numbers),
  `TrimmedFacts`, `DroppedIs`, `AdvancedFacts`. All but the types holds only while `raced` is
  false, which a step never resets; that four objects suffice (`FreeExists`) is what the assumption on
  `Objects` is for.
* `OutboundDeliveryProofs` (`FatesAreRight`, `ShownIsRight`, `StreamsAreClosed`, `OneIsLive`). The core is that what waits is the
  end of the book (`QueueInv`) and what has a fate its beginning (`SendInv`), although coalescing takes a message too many:
  `RunStops` (well-founded induction) gives that the run it joins has an end, `JoinedIsWhole` that what it
  makes is a `Piece`, consecutive messages of one stream. With it messages are numbers, and order, attempts and places are
  arithmetic (`ShownInv`, `ReachedShows`). `FingerInv` gives every fingerprint a reply that was taken, and
  `DeltaInv` with `EndInv` carries a stream from its turn through the queue to the platform. `ChannelInv` says that without
  a race one request runs at a time and that the object it stops has the name.

* `TurnTranscriptProofs` (`SessionStaysSound`, `InputsAreKept`, `StateCovers`, `LastStepIsKept`). The file and the
  session in memory are each `Sound`: their messages are legal, the checkpoint `Fits` them (its step is not
  among them, or ends them: the write of a finished turn may have failed), a question without an answer is
  flagged (`Marked`), and the provider's state, beside what the checkpoint would add, is `Covered`.
  The overlap rule of the repair compares any suffix; that it finds a whole step or none (`OverlapIs`) follows from
  the pairing of calls and results, and that none means it is not elsewhere from `Fits`. The one exception is `excused`: a step
  behind which the aborted save had already put an error text. `RunSound` ties the
  messages of the running turn to it: the steps they hold (`StepsSound`), the inputs drained (`TakenSound`) and what
  the provider has been told (`StateSound`). `PlaceInv` gives every input one place: it waits, is a follow-up,
  starts the turn or is kept. The steps of a turn follow from lemmas about appending, joining and draining
  (`Concat`..., `Grows`, `JoinedGrows`, `InjectedIs`), one per way a message gets in.

*Model-checked only.* Liveness (`EveryMessageSettles`, `AutomationAnswered`,
`ControlReturns`, `DeliveriesEnd`, `DueJobsRun`, `RequestEnds`, `Drains`, `AwaitsEnd`): fairness is out of this
prover's reach. That the loops of `MCModelContext` compute what the definitions of `ModelContext`
say is induction over data, which the installed provers cannot do; TLC compares them on bounded inputs.
