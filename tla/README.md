# TLA+ models of Tumble Code

Tumble Code is an editor extension (with a command line client) that runs
coding agents. A **task** is a conversation with a model that calls tools; a
task may start other tasks and use their results. This directory models the
parts of the program where several tasks, the user, the storage and timers meet:
who may run, who waits for whom, where a result goes, and what is left after a
cancel or the end of the extension host.

Source paths below are relative to `src/` of this checkout; the extension's own
core is `src/core`, shared packages are in `packages/`.

## 1. Inventory

### 1.1 Components that are modelled

**Subagent slot pool** (`src/core/webview/SubagentSlotPool.ts`).
State: a queue of waiting calls and three kinds of counters (all subagents, per
profile, per `run_parallel_tasks` call). Operations: `acquire`, the release
function it resolves with, the abort listener of a queued call. Used by every
subtask of `run_parallel_tasks`. Hard: each request carries limits of its own,
read when its call started; a waiter that does not fit is overtaken; aborts and
releases come in any order. Correct when no limit is exceeded, no slot is left
idle, no call is lost or granted twice, and nobody waits for ever whom the
order of the queue can serve.

**Tracker of background subagents and `wait_for_subagents`**
(`BackgroundSubagents.ts`, `WaitForSubagentsTool.ts`, the gate of
`AttemptCompletionTool.ts`, the asks and the message queue of the parent in
`TaskAskSay.ts` and `MessageQueueService.ts`, the slot in `TaskSlot.ts`).
State: per parent id, the running subagents, the results nobody has read, the
listeners of waits; per Task object, its ask, its queue, its abort flag.
Interactions: subagents finish by promise, the parent waits by promise, its
status changes by timer, and the user types, stops, leaves and reopens it. A
task rebuilt from history is a new object with the same id. Correct when a
result reaches the model once, and no wait sleeps through what should end it.

**Fan-out and its subtasks** (`RunParallelTasksTool.ts`,
`BackgroundTaskRunner.ts`, `SubagentRegistry.ts`, `taskEventForwarding.ts`).
State: the await at which each subtask stands, the child tasks and those
tracked, the row of each in the panel, the cancelled fan-outs. Hard: five
awaits, each of which may fail; a child may end at any of them; a row Stop, the
cancel of the fan-out and the child's own end race. Correct when slots, rows
and results agree with the children, no cancelled child runs on, and every
subtask ends.

**Delegation with `new_task`** (`DelegationService.ts`,
`delegationHistory.ts`, with parts of `ClineProvider.ts`, `TaskSlot.ts`,
`TaskResumption.ts`, `AttemptCompletionTool.ts`, `TaskMessageLog.ts`).
State: the persisted history item of each task (status, awaited child, last
delegated child, parent), its persisted conversation, the foreground slot, the
tasks working off screen, and the operations in progress. Operations:
delegate, detach, reattach, complete, cancel, open, leave, resume. Hard: each
is a chain of awaited file accesses, each of which may fail, the user acts
between them, every save of a live task also writes a status and a parent it
remembers, and the host may die anywhere.
Correct when a parent waits only for a child that can answer, gets its result
once and into the right place, and never works beside it.

**Retry queue of cloud requests** (`packages/cloud/src/retry-queue/RetryQueue.ts`,
with `CloudService.handleAuthStateChangeForRetryQueue`).
State: the queued requests, their attempts and back-offs, the pause and rate
limit, the signed-in user, the copy in the workspace storage. Hard: a cycle
awaits every answer while requests are queued, evicted or cleared; writes may
be refused; the host may die in a cycle. Correct when attempts stay bounded,
the storage follows the queue and the queue drains.

**Task history store** (`core/task-persistence/TaskHistoryStore.ts`,
`packages/core/src/fs/safeWriteJson.ts`).
State: one file per task, the cache and the known mtimes and sizes of every window, lock
files, the index, the reconcile pass. Hard: several processes share the
directory, watcher events may be lost, a window may die or stand still inside a
transaction. Correct when no update is lost and every cache catches up, as far
as mtime and size can tell it.

**API loop and retry handler** (`TaskApiLoop.ts`, `RetryHandler.ts`).
State: the stack item of the request, its two counters, the conversation.
Interactions: provider, user (asks), abort. Hard: three ways to fail, each with
counters and retries of its own, and a message that is taken out of the
conversation and put back. Correct when a request carries everything once,
an unattended turn ends unless the provider asks for patience (429) for ever,
and an abort ends the loop.

**Assistant turn** (`TaskStreamProcessor.ts`, `StreamToolCallHandler.ts`,
`presentAssistantMessage.ts`, `AssistantMessageAssembler.ts`,
`validateToolResultIds.ts`).
State: the blocks that arrived, the index and lock of the presentation, the
flags of the stream, the results. Hard: tools run and users answer while later
blocks stream in; no one awaits a presentation; a failed stream is retried under
a running tool. Correct when tools run one at a time, every call gets its own
result, and the wait for the last tool ends.

### 1.2 Components that are not modelled

`PROJECT.json` lists every one with its reason. In short: the provider clients,
prompt building, condensing and most tools are sequential data processing or I/O
around one task; the webview, the CLI front end and the shim are consumers of
the same events; the webview state pushes, the consolidation lock, the MCP
connections, the cloud session and its refresh timer, the code index and the
message manager have protocols of their own and are in the plan (section 2).

## 2. Plan

Order of the work, most important behaviour first. Done: 1 to 8.

| # | Module | Composes / implements | Properties | To prove |
|---|--------|-----------------------|------------|----------|
| 1 | `SubagentSlotPool` | implements `SlotAllocation` | limits, order, progress | all safety and the refinement (done) |
| 2 | `BackgroundSubagents` | tracker, tools, asks, slot | once, awake, at rest | type, `NoLostWakeup`, `NoStaleListener`, `RestingGetsResults`, `NeverTwice`, `DroppedOnlyWithItsAsk`, `CompletesAfterItsSubagents` (done) |
| 3 | `ParallelSubtask` | uses `SlotAllocation` | slots, rows, orphans | `SlotsMatchChildren`, `NoOrphanedChild`, `RowMatchesResult` (done) |
| 4 | `Delegation` | items, slot, tools, user, restarts | one place for one result | all safety: type, `CompletedIsReturned`, and the claims about a parent and its sole child (done) |
| 5 | `RetryQueue` | queue, storage, auth states | bounded, stored, drains | type, `StorageFollowsQueue`, `AttemptsBounded` (done) |
| 6 | `TaskHistoryStore` | implements `HistoryItems`, the atomic items that `Delegation` assumes | no lost update, atomic, caches catch up | `FileHoldsLastWrites`, `WellFormed` with `UnchangedMeansCurrent`, the refinement (done) |
| 7 | `ApiRetries` | the loop around one answer | complete, bounded, ends | `WellFormed` with `FailuresBounded`, `RequestsComplete` (done) |
| 8 | `AssistantTurn` | one answer inside that loop | one at a time, answered, ends | `WellFormed` with `OneAtATime`, `ResultsAnswerCalls` (done) |
| 9 | `FanOutRun` | pool + `ParallelSubtask` + tracker in one instance | a result reported by a subtask is read or held | implements an abstract "each subagent reports once" |
| 10 | `ConsolidationLock` | lock file of two hosts, crash, rollback | one holder | mutual exclusion, where it holds |
| 11 | `WebviewStatePusher`, `McpConnections`, `RefreshTimer` | state pushes, reconnects, session refresh | no stale state is shown last; one connection per server | to be decided |
| 12 | Auto-approval and message truncation as pure operators | against reference definitions | equal on bounded inputs | lemmas that need no induction |

Abstract specifications: `SlotAllocation` and `HistoryItems` (done), "each subagent reports once"
for `BackgroundSubagents` and `ParallelSubtask`, "one task, one awaited result"
for `Delegation`. Bounds planned: two to three actors of a kind, one restart,
one or two events of each unlikely kind; a run should stay below two minutes.
The proofs stay in modules of their own (`<Module>Proofs`), and no module that
is proved about uses a RECURSIVE operator.

## 3. Modules

| Module | Role |
|--------|------|
| `SlotAllocation` | what the pool promises, over sets of holders only |
| `SubagentSlotPool` | the pool: queue, counters, scan |
| `SubagentSlotPoolProofs` | theorems about it, checked by TLAPS |
| `BackgroundSubagents` | how results reach the parent model |
| `BackgroundSubagentsProofs` | theorems about it, checked by TLAPS |
| `ParallelSubtask` | `runOneSubtask` and its child, over an instance of `SlotAllocation` |
| `ParallelSubtaskProofs` | theorems about it, checked by TLAPS |
| `Delegation` | parent, child and history items |
| `DelegationProofs` | theorems about it, checked by TLAPS |
| `RetryQueue` | the cloud retry queue |
| `RetryQueueProofs` | theorems about it, checked by TLAPS |
| `HistoryItems` | what the history store promises: a change of an item is one step |
| `TaskHistoryStore` | windows over one directory of history items |
| `TaskHistoryStoreProofs` | theorems about it, checked by TLAPS |
| `ApiRetries` | the request loop of a task, its failures and retries |
| `ApiRetriesProofs` | theorems about it, checked by TLAPS |
| `AssistantTurn` | the answer while it streams in, its tools and results |
| `AssistantTurnProofs` | theorems about it, checked by TLAPS |
| `MC*` | constants of the TLC runs |

In all of them an action is what the JavaScript thread runs between two
awaits. Definitions marked *Fault* are mutated forms of the definition that
follows; no specification uses them, they exist to show that each property
notices a plausible bug.

### 3.1 SubagentSlotPool

`acquire` and the release function each run `grantFreeSlots` to its end. The
loop is kept step by step: `scan` is its index, `GrantSlot`, `SkipWaiter` and
`EndScan` are its turns. An abort sets the signal and runs each listener
(`AbortFanOut`, `OnAbort`). `Quiescent` says that no loop is under way and
guards the entry of every call: one thread. A map entry that the code deletes at
0 counts 0 here. A provider-wide limit below 1 counts as 1 (`GlobalCap`). A
caller makes one call after the other, each with a request of its own
(`CallAgain`), so a waiter may be overtaken without end.

### 3.2 BackgroundSubagents

One parent id, and up to `MaxInstances` Task objects built for it. `pc` says
where the promise chain of each stands: in a model turn, in the worktree sweep of
`run_parallel_tasks`, in the loop of `waitForSubagents`, asleep in `nextChange`,
in an ask. Asks fall into five kinds by what answers them and what follows. A
message carries the set of results written into it. `Deliver` is
`deliverIfIdle`; `Abort` is `abortTask` with its listeners in the order they
were added. The pool and the children are behind `SubagentEnds`.

Left out: an ask superseded by a newer one, `processQueuedMessages`, other
parents (the tracker keeps them apart by key), and the CLI, which does not
detach tasks.

### 3.3 ParallelSubtask

`step` is the await at which `runOneSubtask` stands; `Emit` is the end of
children with all listeners of TaskCompleted or TaskAborted (forwarding to the
registry, and `finish` of `awaitTaskCompletion` where it is attached).
`MarkTerminal` is the rule by which a row changes its terminal status. The slot
comes from `Pool == INSTANCE SlotAllocation`; because `SubagentSlotPool`
implements that specification (proved), what is checked here holds with the
real pool as well.

### 3.4 Delegation

`item` is the persisted history item, `log` the persisted conversation, reduced
to where it stands relative to the last `new_task` call. `on` and `off` are the
slot and the detached tasks; `stamp` is the `initialStatus` and the
`parentTaskId` of an instance, which every save of a live task writes back
(`Saved`, `TaskMessageLog.ts:662-705`). The operations are split at their file
accesses, and each access of theirs may fail:

* `delegate`: `DisposeParent` (with or without the flush), then `OpenChild` (with
  or without the parent's item) or `ChildRefused`;
* `complete`: `Approve`, `SaveResult`, `CloseViews`, `MarkChild`, `MarkParent`,
  `ReopenParent`; the messages, the child's item and the parent's item may each
  not be written, and the profile of the parent may have been disallowed;
* `detach`: `ReadForDetach`, `DetachParent`, `DetachFails` (a failure is logged) and,
  in a cancel, `FailClosed`; `reattach`: `Attempt`, `Reattach` (may fail);
* `cancelTask`: `Cancel`, `AfterAbort`, `Rehydrate` (or the profile of the task is
  refused);
* the user: `ShowLive`, `OpenTask`, `Resume`, `CloseTask`, `Approve`, `Deny`;
* `Restart`: the host dies, the files stay.

`returned`, `stray` and `crossed` are ghosts: no guard reads them. `crossed`
collects the tasks whose delegation met another one: a parent that calls
`new_task` again after it opened a child (`DisposeParent`); a task in the slot
that the child of another one overwrites (`OpenChild`); and a task that ends
because a completion or a cancel of tasks it has nothing to do with takes the
slot (`Crosses` in `ReopenParent` and `Rehydrate`). It also collects those a failed
write leaves half done: the parent whose history was not flushed
(`DisposeParent`), the child whose parent could not be detached (`DetachFails`,
`FailClosed`), and the child of a completion whose last write failed
(`MarkParent`). The other failures (the parent's item in `delegate`, the
re-attachment, the messages and the child's item in `complete`) cross nobody: the
properties hold in spite of them. A child is sole (`Sole`) when it calls `new_task`
never and neither it nor its parent is crossed. Six of the properties are claims
about sole children; section 4 says why they must be.

Assumptions of the model: one history item is read and written atomically (the
store locks each record); the saves of a live task, in its turns, when it opens
and when it is aborted, succeed, and so does the disposal of an instance; a task
has at most one instance in the slot and one off screen; the abort of the old
occupant and the installation of the new one are one step in `Rehydrate` and
`OpenTask`; `MarkParent` and `DetachParent` write the status and the awaited child
and keep the rest of the parent's item, whereas the code writes back the whole
item it read; and, in the runs, the user opens and
resumes tasks only when no file access of an operation is pending, but cancels
at any moment (`Hurried`, section 5).

### 3.5 RetryQueue

Requests are numbered in the order of their timestamps; `queue` is the order of
the Map. A cycle is `StartCycle`, one of `Settled`, `RateLimited`, `Failed` per
request, and `EndCycle` after the write. `Persist` may be refused. Time is
abstracted: a back-off or a rate limit lasts until it elapses. Headers,
statistics and events are left out.

### 3.6 TaskHistoryStore

Every write sets a field of its own, so an item is the set of the writes it
contains. The mtime and size of a file, which `hasFileChanged` compares
(`TaskHistoryStore.ts:1211-1225`), are one number, `stamp`: a write gives it a new
value or, as the fault "twin", that of an earlier write. `blind` names the windows
that know the very stamp a later write repeated; the comments of the code name the
case (780-783, 1251-1253), and only a watcher event or a further write ends it. A
transaction begins with its
lock (`Begin`, which also reads the file), may write (`Write`, `WriteFails`) and
ends with the cache, `fileMeta` and the lock (`End`): `Upsert`,
`AtomicReadAndUpdate`, `Delete`, `TargetedRefresh`, `ScanFile`, `PruneKey` are
its kinds. A reconcile is `ReadDir`, `ListKeys`, one turn per file and key, and
`EndReconcile`; `PassOver` is the file whose mtime and size are known. `index` holds every
cache a window may have written, because windows overwrite one index. The faults
are a failing access ("error"), a window that ends ("exit"), a lock lost by a
process that stood still ("break"), a lock file that stays taken through all
retries ("refused") and a repeated stamp ("twin"); `RemoveDir` is the removal of the directory of a deleted
task, which has no lock.

`HistoryItems` is what others may rely on: an item changes in single steps that
read and write it. `Items` is its instance over the files of the store.

Left out: the migration of the legacy key, the debounce of the index, disposal.

### 3.7 ApiRetries

One turn is a content (a number); `item` is the `StackItem`, `attempt` the
arguments of `attemptApiRequest`, `hist` the conversation as roles and contents.
`Pop`, `AddUserMessage`, `Send`, `FirstChunk` and `Answered` are a cycle that
succeeds; `FirstChunkFails` is `handleApiRequestError`, `StreamFails`
`handleStreamError`, `EmptyAnswer` `handleEmptyAssistantResponse`, each with the
answers to its ask and the end of its back-off. `Abort` only closes the request
in flight; `NoticeAbort` is the check that each other place has, and no check
lies between `Pop` and the request. Whether auto-approval is on is read anew at
every failure, so it is chosen anew.

`made` is `retryAttempt`, and `counted` what the cap compares, `retryAttempt -
rateLimitRetries`: a 429 adds to the first alone. Neither the retries after a 429
nor those of a foreground task have a cap, but nothing looks at a number beyond
`MaxRetries`, so the counters stop one above it (`OneMore`) and any number of
429s fits into a finite state space. The calls of `attemptApiRequest` start with
`retryAttempt` of the item and no `rateLimitRetries` (`AddUserMessage`): there
the 429s of the stream do count. `NextTurn` may end the loop after any turn; that
there are at most `MaxTurns` is a bound of the model, the code has none.

Left out: the mistake limit and the budget of a mode (both end the loop before a
request), retry notes, environment details, condensing, memory recall, and how
long a back-off is.

### 3.8 AssistantTurn

`turn` holds the streaming fields of the Task under their own names and the
presentations that have not returned. `Present` is the synchronous beginning of
`presentAssistantMessage` up to its first wait; `Finish` is what comes after the
block is presented (`Outcomes`: a result, a denial, a skipped call, or nothing
of a text, a partial block or an accepted `attempt_completion`, `Accepts`) and
`Advance` its end. Chunks are `Text`, `ToolCall` (a provider that yields
whole calls), `ToolCallStart`, `ToolCallDelta` and `FinishReason`. The loop is
`StreamEnds` (`finalizeStream`), `SaveAnswer` (the assembler with `Cut`, then
the texts that were partial), `Collect` and `NextRequest`
(`resetStreamingState`, which leaves `running` alone). An answer whose calls
left no result ends the loop, an answer of text alone may (`AfterTurn`: the
fallback of `TaskApiLoop.ts:1063` takes it for the completion); a completion
that is accepted beside other calls goes on, and the repair gives it a
placeholder. `Repaired` is
`validateAndFixToolResultIds` on the results as they are collected. `HandOver`
is an approved `new_task`, which ends this task's part. `ToolCallsEnd` is what
the loop over the ended calls comes to: a presentation that was started or put
off by the first of them sees the others ended as well.

A call is known by one id, so duplicates and calls without an id are left out,
as are texts, arguments, empty answers and aborts (`ApiRetries`), the stop after
`didAlreadyUseTool`, and the 30 seconds after which `waitForAssistantMessage`
gives up. A presentation that throws (`presentAssistantMessage.ts:157-182` has no
`finally`) leaves the lock set and never comes back: in the model it is one that
runs and does not `Finish`, which every behaviour of `Spec` may contain.

## 4. Runs

Passing runs:

| Run | Shows | States |
|-----|-------|--------|
| `slot_pool` | limits, counters, FIFO among those that fit, aborts, `AllocationSpec`; who waits is served when holders end and calls cease, or its limits are no lower than those of others | 28 thousand |
| `parent_results` | no result twice, no lost wake-up, no stale listener, none left at rest, completion only after all, results vanish only with an abort or an answered ask; a wait ends, and a resting parent with results goes on | 691 thousand |
| `parallel_subtasks` | slots match children, a failed or cancelled row and a completed result are told alike, no orphan, every subtask and every cancelled fan-out ends | 25 thousand |
| `delegation` | one result into the right place, the awaited child is alive, parent and child never both work, one instance, every operation ends, whatever writes fail but the three of section 4; with a death of the host between any two writes, and any of them failing, a child marked completed has its result in the parent; only a parent whose call is open is re-attached | 166 thousand |
| `retry_queue` | attempts bounded over evictions and restarts, the storage follows the queue, the queue drains | 347 thousand |
| `history_store` | no update lost between windows, each transaction one step to the others (`HistoryItems`), a known mtime and size mean a current cache and every cache catches up without watchers, but for a write that repeats the mtime and size a window knows | 366 thousand |
| `api_retries` | requests carry every content once and in order, unattended failures are bounded, an aborted loop ends, an unattended turn ends if 429s cease | 33 thousand |
| `assistant_turn` | tools one at a time and in order, one result per call and its own unless a completion was accepted, the wait for the last tool ends | 50 thousand |

`WellFormed` of a module is its type invariant with the consistency of its
state, which the module names: `NoStaleListener`, `OneInstance`,
`StorageFollowsQueue`, `UnchangedMeansCurrent`, `FailuresBounded`, `OneAtATime`.

Runs that TLC refutes; each is a disagreement between a comment of the code and
what the code does:

* `child_ends_unheard` (`AbortSettles`): `runOneSubtask` starts the child, then
  awaits a file write, then listens. A child aborted in between is never
  noticed; the subtask hangs and keeps its slot until its fan-out is cancelled.
* `result_lost_on_retry` (`ResultsSurviveRetries`): a parent resumed after its
  subtask starts with an empty content; an empty first answer pops the user
  message that holds the subtask's result, and the retry adds back only its own.
* `unattended_cap_exceeded` (`EndsAtTheCap`): a background task is to end at the
  7th failure that is not a 429, in any mix (`packages/core/src/backoff.ts:31-33`).
  The retries before the first chunk are not counted in the stack item, so a
  stream that breaks after them starts with a fresh count and the task goes on
  (run with two retries instead of six; the longest mix fails 28 times instead of
  7, `FailuresBounded`).
* `denial_lost` (`ValidResultsKept`): behind `new_task` further calls are cut
  off and answered with an error; the repair of the results gives that error to
  `new_task` and drops `new_task`'s own result, so the user's denial and
  feedback never reach the model. (On approval `complete` writes over it.)

Seen while modelling, without a run of their own:

* A parent off screen comes to rest while results are unread: the delivering
  listener moves them into its queue, then the listener of `TaskSlot.detach`
  destroys the task with the queue (`TaskSlot.ts:302`,
  `BackgroundSubagents.ts:45-48`).
* A parent looked at while its child works off screen saves the status
  "delegated" over the detach of the child (`ClineProvider.ts:1101`,
  `DelegationService.ts:74-81`).
* The code looks at the direct child and parent only. Six of the properties of
  `delegation` are therefore claims about a sole child (section 3.4). Without
  that word TLC refutes each of them, with no restart and the bounds otherwise
  those of the run. Three tasks A, B and C are enough for these:
  - `AwaitedChildAlive`: B, which A awaits, delegates in turn and is disposed
    without repair; its own child is refused (`DelegationService.ts:205`), and A
    waits for B for ever.
  - `NotBesideChild`, `ResultAnswersOpenCall`: while B has made room for its
    child C, A is not seen to await a live child (`ClineProvider.ts:1387`), so
    that the user who opens it may resume it. A goes on, C returns to B, and B's
    result is routed into the conversation that went on, which the guard of
    `complete` is to prevent (`DelegationService.ts:484-489`).
  - `ReturnedNotAwaited`: B returned, and the write of its status was lost; A
    delegates again and is refused. Its log ends in an open call, and
    `delegatedToId` still names B, so B passes all five proofs of `reattach`
    (`DelegationService.ts:358-366`).
  - `ReattachOnlyFrozen`: B passes the checks of `reattach`; A opens C and has its
    result before the re-attachment is written.
  - `OneInstance`: while a cancel of A waits, the user shows B, and B delegates;
    the cancel puts A into the empty slot and the child of B takes it over.

  In all of these a child delegates or a parent delegates twice, or the slot is
  overwritten. With four and five tasks two families meet in the slot: a child
  that comes to rest on screen is replaced by the child of a task that was there
  when it called `new_task`, or the end of an operation of another family closes
  it while its re-attachment is written. Those are the other cases of `crossed`.
  With no more than the two tasks of the run only a failed write (the next point)
  crosses anybody.
* Of the writes of a delegation whose failure is only logged or swallowed, three
  leave the two tasks half done. Without that part of `crossed` TLC refutes the
  properties named here, and others, with a parent and one child; they hold for
  everybody whom none of the three hit:
  - the flush of the parent's history before it is disposed
    (`DelegationService.ts:134-156`): the call may be missing in the file, so that
    the result is appended to a conversation without it (`ResultAnswersOpenCall`);
  - the detach of the parent at the end of its child (`TaskSlot.ts:214-228`): the
    parent stays delegated to a child that is closed (`AwaitedChildAlive`). The user
    may open the parent and go on, and then the child beside it
    (`NotBesideChild`);
  - the last write of a completion, of the parent's item
    (`DelegationService.ts:663`): the throw goes to the tool of the child
    (`AttemptCompletionTool.ts:179-186`), which is closed. The child is completed, its
    result is in the parent's messages, and the parent goes on awaiting it
    (`ReturnedNotAwaited`).
* When the detach fails in a cancel, the child is fenced in `cancelledChildIds` and
  written without its parent, "so a later completion cannot reopen a stale delegated
  parent, even after a provider reload" (`DelegationService.ts:303-308`). While the
  old instance of the child is still there, a save of it writes the parent's id back
  (`TaskMessageLog.ts:679`); only the new instance, made without a parent, ends
  that. In one life of the host the fence keeps the child out all the same, until a
  later detach of the parent succeeded. When the host dies before the new
  instance has saved, the fence is gone and the item has its parent again, and the
  child, opened afterwards, completes into the parent that still awaits it.
* After a restart a delegated parent can be resumed and go on; its child,
  resumed later, still passes the gate, and `complete` answers the call a second
  time (`DelegationService.ts:493`). `ResultAnswersOpenCall` is about behaviours
  without a restart for that reason.
* Stop during the worktree sweep of `run_parallel_tasks`
  (`RunParallelTasksTool.ts:641-738`) is not noticed: the listener is attached
  after it and the fan-out starts.
* Stop of a rebuilt parent does not cancel a fan-out that an older instance
  started, although `ClineProvider.ts:1910` says that it cancels the subagents.
* Results queued as a message answer whatever ask comes next; at the question
  whether to retry a failed request they count as "no" (`RetryHandler.ts:389`).
* A child reopened in status "delegated" after a restart ends on screen without
  returning its result (`AttemptCompletionTool.ts:172`).
* A task the user opens between the two halves of `delegate` is overwritten in
  the slot and runs unreachable (`TaskSlot.ts:66-68` says callers prevent it).
* `RetryQueue`: a cycle puts a request back that was evicted during its
  attempt, so the queue may be longer than `maxQueueSize` ("FIFO eviction when
  full", `types.ts:43`); `pause()` and `clear()` do not stop the cycle in
  progress, so a request of one user may be sent, and queued again, after the
  sign-out; the first user after a restart inherits the stored queue.
* `TaskHistoryStore`: when the read in a refresh fails the cached item stays, but
  the transaction records the mtime of the file it could not read, so that every
  later reconcile passes it over (`TaskHistoryStore.ts:1630`, against the comment
  at 1208); this is why `UnchangedMeansCurrent` and `CacheCatchesUp` exclude
  "error". A reconcile drops a cached task that an older reading of the
  directory does not show until the next pass (744). A legacy entry that can
  never be migrated keeps the legacy key, and with it tasks the user deleted
  come back (968). A process that lost its lock may record the mtime of another
  one's write.
* `ApiRetries`: the cap of unattended tasks can be short, too: six streams that
  break with a 429 leave no retry before the first chunk (`TaskApiLoop.ts:762`
  hands on `retryAttempt` without `rateLimitRetries`), against `RetryHandler.ts:457`,
  "earlier 429 retries do not count". A stream that breaks in a
  foreground task without auto-approval is retried at once and without an ask,
  against `TaskApiLoop.ts:1459-1461`. An abort between the beginning of a cycle
  and its request still sends it.
* `AssistantTurn`: a stream that fails while a tool runs, for instance in its
  approval ask, is retried under it. The reset unlocks the presentation, the old
  one returns later and moves the new answer's index, so that its first block
  may never be presented and the loop waits until an abort (against
  `TaskStreamProcessor.ts:413-421`), or two tools run at once (against 309-310).
  The properties leave these behaviours out by `overtaken`.
* A call behind `new_task` may already have run when the assembler cuts it off
  (`AssistantMessageAssembler.ts:161-162` says it is prevented). A first
  `new_task` without other results may hand over before the answer is saved: the
  flush returns at once when there is nothing to flush
  (`DelegationService.ts:138-141` assumes it is saved).

### Bounds, and why they are enough

* `slot_pool`: three callers with any of four requests each, so that two
  holders and a waiter, or a holder and two waiters of which the first does not
  fit, exist under every pair of limits (caps 0, which counts as 1, and 2;
  profile limits 1, 2 and none; fan-out limits 1 and 2), and callers that call
  again and again: two of them suffice to starve the third. The theorems cover
  all other sizes.
* `parent_results`: two fan-outs of one subagent each, two instances of the
  parent and one typed message: an old instance and its successor, a result
  that comes before and one after a user message. The fan-outs are numbered in
  the order in which they start.
* `parallel_subtasks`: two subtasks over two fan-outs and a profile limit of 1,
  so that one waits for the slot of the other, in the same fan-out or not.
* `delegation`: a root and one child (`Pair`); a child can be cancelled,
  reopened, re-attached and completed any number of times, and every write of an
  operation may fail every time. The host dies at most once, between any two
  steps. Here the child is sole unless one of three writes failed (section 4); what
  more tasks, each the parent or the sole child of another, can do to the two is
  covered by the theorems, for any number of them.
* `retry_queue`: three requests for a queue of two (an eviction), two attempts
  each, two users, and two events in all among sign-ins, sign-outs, refused
  writes and restarts.
* `history_store`: two windows and one task, since nothing in the store relates
  two tasks but the order of a pass; two changes, so that one overtakes the
  other or a task is created again after a delete, and one fault of any of the
  five kinds.
* `api_retries`: two turns, at most two retries (one of them for the context
  window), any number of answers 429: every cap is reached and passed by in each
  of the places that count.
* `assistant_turn`: three blocks in all answers together (a call behind a call
  behind a text, `new_task` first, in the middle and last; an answer of one call
  followed by one of two) and one stream that fails.

## 5. Fairness and timing

* `SubagentSlotPool`: a loop that started runs to its end. Nothing is assumed of
  callers, not even that a holder gives its slot back: `child_ends_unheard` shows
  one that does not. `EveryWaiterServed` has its premises in itself. If every
  holder ends (`HoldersEnd`), a waiter is served or rejected once no further
  calls come (`CallsStop`), and without that if its limits are no lower than those
  of anybody else (`Unbeatable`). TLC refutes the property without any one of the
  three: `fits` compares the common count with the limit of each request
  (`SubagentSlotPool.ts:122-134`), so a waiter with the lower limit starves while
  others keep the count above it. The code has no remedy and promises none.
* `BackgroundSubagents`: subagents end (stuck ones are stopped and their
  requests are bounded), a sweep that led to a wait, timers and promises run on.
  The model and the user may stop acting at any time.
* `ParallelSubtask`: I/O ends and every child ends. `SlotGranted` has strong
  fairness because the slot may come and go; that is `EveryWaiterServed` of the
  pool, whose premise holds here, because the subtasks are finitely many and call
  once. Whoever cancels need not act.
* `Delegation`: a started operation is carried on by the event loop, its writes
  succeed or fail. Neither the agent nor the user must ever do anything.
  `EveryOperationEnds` holds whichever of them fail.
* `RetryQueue`: the timer fires, a request is answered or times out (the code
  aborts it after 30 s), a write ends and time passes. `QueueDrains` is
  conditional on a queue that is in the end neither paused nor rate limited.

* `TaskHistoryStore`: file accesses and the reconcile timer go on; a lock that is
  free again and again is taken in the end (strong fairness: proper-lockfile
  retries with back-off), and a lock of a dead process turns stale. Watchers and
  users may do nothing.
* `ApiRetries`: the loop goes on, and every request is answered, fails or times
  out (`getApiRequestTimeout`). The user need not answer an ask, so a foreground
  loop need not end unless aborted. That 429s cease (`LimitsCease`) is a premise
  of one half of `LoopSettles` and no fairness: a provider may answer 429 for
  ever, and then a background task waits for ever. Nor does it say that the model
  ever completes; the code has no cap on turns (`TaskApiLoop.ts:451`).
* `AssistantTurn`: the loop and the presentations go on; here the user answers
  the asks of tools and tools end, because the claim is about the wait for them.
  So `TurnEnds` says nothing of a turn in which a presentation throws; the loop
  then waits until an abort. The invariants do not use the fairness and include
  that turn. The stream need not go on.

`Hurried` in `Delegation` names the user actions that may fall between two file
accesses of an operation in progress. With `{"cancel"}` the user cancels at any
moment, also in the wait of another cancel, but opens and resumes tasks only
when the files are settled; those accesses take milliseconds. With "open" or
"resume" in it more of the races listed above appear, so the six invariants about
a sole child are claims about a user slower than the disk: their theorems assume
`Hurried \subseteq {"cancel"}` (`Careful`). The other theorems of `Delegation` do not.

Deadlock checking is off in all runs: every one of these systems may come to
rest (all calls served, all tasks closed, an empty queue).

## 6. Proofs

`SubagentSlotPoolProofs` proves, for any finite set of callers, any profiles,
fan-outs and requests (`PoolAssumption`; `LimitsAssumption`, needed for progress
only, is not used):

* `BookCorrect` (with its parts `TypeCorrect`, `QueueCorrect`, `CountsCorrect`).
  The inductive invariant is `BookInv`, the conjunction of the three. None is
  inductive alone: that a counter never falls below 0 needs the set of holders it
  counts, that a release is counted once needs the phase, and that a granted call
  leaves the queue for good needs that it stood there once.
* `LimitsCorrect`: the three limits (`LimitsHold`). Callers carry different limits, so
  "the number of holders is at most the cap" is false. The invariant counts
  those holders whose own limit is at most L. A release takes holders away
  (`LimitsShrink`); a grant adds one that fits: either its limit is above L and
  it is not counted, or all holders counted are fewer than its limit, which is
  at most L (`LimitsGrant`).
* `NoIdleSlotCorrect`, `FirstFittingCorrect`: from `ScanInv`, which says that no
  waiter before the index fits, and none at all between two calls. A grant only
  takes room (`GrantTakesRoom`), so a waiter passed over stays unfit until the
  next release, which starts the scan again.
* `AbortedNeverGrantedCorrect`: while a scan runs no queued call is aborted.
* `PoolImplementsAllocation`: the pool implements `SlotAllocation`, with `phase`
  and `request` mapped to themselves. A grant of the scan maps to `Grant`,
  because by `CountsMatchHolders` a request that fits has room among the
  holders; an end of a scan and a skipped waiter map to stuttering.

`ParallelSubtaskProofs` proves, for any finite set of subtasks, any fan-outs and
any requests (`SubtasksAssumption`), `SubtaskTypes`, `SlotsMatch`, `NoOrphans`
and `RowsMatchResults`. The inductive invariant `SubtaskInv` says of each
subtask what can be true at each await of `runOneSubtask`: where its call of
`acquire` stands (`SlotOf`), what its child and its row can be (`ChildOf`), and
that an ended one shows what it returned (`RowOf`). `ChildOf` is needed because
`RowMatchesResult` speaks of the end only (and not of a row "completed": a child
that completes before anybody listens leaves such a row with the result
"cancelled" or "failed"): that a stopped row is already
"cancelled" when the outcome is judged, and that a completed outcome means a
completed row, must hold at "settled" before the result exists. `NoOrphans`
needs that only the awaits "persist" and "await" have a running child, so that
the abort of a fan-out reaches every child that listens and `StartAwait` the
others. There is one lemma for each group of actions; the events of children go
through `EventStep`, which knows only what `Emit` does.

`BackgroundSubagentsProofs` proves, for any finite set of subagents, any
fan-outs, any number of rebuilt parents and user messages
(`SubagentsAssumption`), six theorems along three invariants:

* `WaitsWellFormed`, `NoWakeupLost` and `RestingIsServed` rest on `WaitInv`:
  the three properties together with `Alone`, that only the live instance is
  not aborted. `Alone` is needed because `Sleep` adds a listener for whoever
  runs, and only the live one may listen. The properties need each other: a
  listener keeps results from a resting parent, so `RestingGetsResults` needs
  `NoStaleListener`, and a wait that is left by a message or a stop takes its
  listener with it because of `NoLostWakeup`.
* `ResultsReadOnce` rests on `ReadInv`, which adds `OnceInv`: a result is in
  one place, with its subagent, unread, in one message of one instance, or
  read. When the head of a message queue becomes an answer, all messages move
  by one place, and the places of a result move with them (`AnswersAsks`: there
  is an answer at an ask only, so the place before the queue was free).
* `CompletionIsLast` rests on `CompletionInv`: already the ask for the
  completion is opened only by an instance without work, and its subagents do
  not start again while it asks.
* `ResultsNotDropped`, the action property `DroppedOnlyWithItsAsk`, follows from
  `ReadInv`: each action leaves the messages of all instances but one alone
  (`OthersHold`), and of that one it either moves the messages (an empty answer
  takes the head, a delivery goes to an instance that is not aborted) or is one
  of the two steps the property excuses. `AnswersAsks` is needed again: an
  answer that is there when the head moves would be lost.

`TaskHistoryStoreProofs` proves `UpdatesNotLost` for any windows, tasks, writes
and faults (`StoreAssumption`). The invariant `WriteInv` says that a transaction
which has not lost its lock file holds it (`Locked`), so that at most one such
transaction of a task exists, and that not only the file but also the item such
a transaction is about to write holds all finished writes (`WritesHeld`):
without the second half a transaction that read early could overwrite. A
window may trespass after it lost its lock; `Trespassed` names who can know of it.
`StoreImplementsItems` proves the refinement of `HistoryItems`, where a change
reads and writes an item in one step and a task may be reported broken, with
`broken` mapped to the tasks that are `Trespassed`. A transaction becomes a step
where it writes. For this `WritesHeld` also says that what a transaction is
going to extend is still the file, unless there is none (its directory was
removed without a lock, and the write creates the item anew); a delete becomes a
step at its unlink, all else stutters; that a task stays broken is
`TrespassStays`. It is more than `UpdatesNotLost`: no transaction brings back
what another one removed from a file, either, as long as there is a file.
`StoresKnowWhenBehind` proves the other half of what several windows need, for
the same constants: a store that knows the stamp of a file (its mtime and size)
caches that file, or is one of those that a write with a repeated stamp left
`blind`. Its invariant `CacheInv` adds `Numbered` (what a file, cache, index or
transaction contains was written before, and no stamp is larger than the number
of writes, so that the stamp of a write is new unless it is a twin), `Held` (the
file a transaction is about to cache stays, or its directory is removed; this
rests on `Locked`) and `ClosedIdle` (a window that opens knows no stamp, so the
items of an old index it starts with count as unseen). `Held` and `Current` are
claimed while no read failed and no lock was lost, as `UnchangedMeansCurrent` is,
and among the `Sound` faults are writes that repeat a stamp; the types and
`Numbered` hold under every fault.

`RetryQueueProofs` proves `QueueWellFormed` and `RetriesBounded` for any
numbers of requests, attempts and events and any users
(`RetryQueueAssumption`). The invariant `QueueInv` adds three parts to the
types and `StorageFollowsQueue`: whatever is queued, stored or due was made
before (`Order`); what left the queue in flight is in `dropped` (`Dropped`);
and `CountsKept`, that the count of a queued request is behind its attempts by
at most the restarts and refused writes so far (`Forgotten`), and its stored
count by one more in a cycle that has already tried it. That one is what a
restart pays for, and it is why the stored counts must be part of the invariant.
`AttemptsBounded` alone is not inductive: it says nothing of what a restart reads.

`DelegationProofs` proves `TypesCorrect` and `ResultBeforeCompleted` for any set
of tasks, any number of restarts and any choice of the user actions that fall
into the file accesses of an operation (`DelegationAssumption`); the run has two
tasks and one restart. `CompletedIsReturned` is not inductive, because the
status of an item is not only written by `MarkChild`: every save of a live task
writes the status its instance was created with, and a fail-closed cancel
writes back the item it read before it waited. A failing write changes none of this:
it leaves out what the action would have written. `ResultFirst` therefore says the
same of all four places a status "completed" can come from: the item, the
remembered status, the item of the cancel, and a `complete` that is past its
first write. That in turn needs `Known` (only a task with an item runs, hands
over, is cancelled or is a parent, so no stale write creates an item that
`OpenChild` believes free) and `Opened` (an operation on the parent of a task
has one). `ItemsGoOn` states once what any action may do to an item, and
`StepKeeps` that a step which does only this keeps the invariant; an action
then has to show no more than its types and that it is such a step. Only
`OpenChild`, which gives a task its parent, is proved on its own.

It also proves the other safety properties, `ResultsAnswerOpenCalls`,
`AwaitedChildrenAlive`, `NeverBesideChild`, `ReturnedNeverAwaited`,
`InstancesReachable` (with `WellFormed`) and `ReattachesOnlyFrozen`, for any set of
tasks and a user who opens and resumes only when the files are settled
(`Careful`, the setting of the run). None of them is inductive, and neither is
their conjunction. The invariant `Inv` adds to `DelegationInv` what relates the
slot, the operations and the two conversations:

* also after restarts: who awaits whom follows who opened whom, in the items and
  in the one a cancel has read (`Families`); the item of a child, its
  instance and the item a cancel of it has read name the task that opened it, since
  only a fail-closed cancel takes the parent away, and that crosses (`Kinship`); who delegates stands at its call and
  who works does not (`Calls`); a task nothing crossed opens one child, while it is
  closed (`Single`); a task without children is either attempting to complete,
  re-attached or completing, one at a time (`Finishing`); what runs is in the slot or
  detached (`Reachable`); and a call stays open while its child is re-attached
  and is no longer open once the child's result is in (`Answers`).
* in one life of the host (`Life`): a detached task works and is not in the slot
  too (`Apart`); the item a cancel has read names no child that the parent's item
  does not (`Remembered`); the parent stays closed while its child is
  re-attached (`Reattaching`), and closed or a view while it completes (`Ending`),
  so that no save of the parent falls between the writes; a parent that awaits
  stands at its call, closed or a view that saves "delegated" (`Waiting`); and the
  child it awaits runs, or its detach or completion is under way (`Attended`).

Every conjunct about a parent and a child is claimed while the child is sole, and so
`crossed` is what a failed detach or last write of a completion is for the proof: a
step that adds to it owes nothing to those two. The other failures leave `crossed`
as it is and have cases of their own: after a failed re-attachment or failed
messages the child goes on and comes to rest, so `Attended` holds with the child
itself; a parent's item that `delegate` could not write awaits nobody.

`Waiting` with `Answers` gives the open call and that no returned child is
awaited; `Waiting` alone, that the parent does not work; `Attended` with
`Reachable`, that the awaited child is alive at rest; `Apart` with `Reachable`, the
one instance; `Answers` and, for the one cancel that writes an awaited child
back, `Remembered`, that only a frozen parent awaits again.
The hard case is the slot: any task may take it from the two, also while an
operation of theirs is half done. `ReattachingCrosses`, for example, says that
only the kin of a task leaves the slot for it uncrossed. One lemma per part of
`Inv` goes through the actions (`FamiliesKept` to `AttendedKept`), each from
what the action does task by task (`TurnFields`, `ReopenParentFields` and so
on). `OpenChild` has lemmas of its own, because it alone makes a child sole;
every other step only takes that away (`SolesBefore`).

Two exceptions are stated in the properties and are real. After a restart a
delegated parent may be resumed (section 4), so five of the six speak of one life
of the host. `ReattachOnlyFrozen` does not, but leaves out `StaleCancel`: after a
restart, a resumed parent that is a child itself can be cancelled, be answered by
its own child during the wait, and get back the item read before.

`ApiRetriesProofs` proves `UnattendedFailuresBounded` for any caps and numbers of
turns (`RetriesAssumption`) and however many 429s come in between. It is the bound
the code keeps, not the one its comment promises (`EndsAtTheCap`, which a run
refutes). The invariant `RetriesInv` counts what failed so far in a background
task: the retries of the loop that count (`counted` of the item), those of the
current request (of `attempt`), and what the requests before the loop's retries can have
failed (`Room`). A request starts its own count at the item's count, so after m
retries of the loop it may fail MaxRetries - m times more; the bound is the sum
of these, (MaxRetries + 1)(MaxRetries + 2) / 2. `Room` depends on all the retries
of the loop and not on the counted ones, because a retry after a 429 also starts
the next request with a higher count.
`RequestsAreComplete` proves `RequestsComplete` for the same constants; of a
resumed task it leaves out the first content, which `result_lost_on_retry` shows
to get lost. "Each
content is in one message, in order" is not inductive: it says nothing of where
the next message goes. The invariant `Conversation` is arithmetic instead: a turn
is two messages, so content c is in message 2c - 1 or nowhere (`InTurn`), all of
the finished turns are there (`AllHeld`), and the length tells whether the
message of this turn is in or was taken out (`Missing`, from the phase and the
item that the loop puts back on its stack). A retry that added its message a
second time, or a pop of a message that is not this turn's, would break the
length at once.

`AssistantTurnProofs` proves `PresentedInOrder` and `EveryCallAnswered` for any
number of blocks and of failing streams (`TurnAssumption`). The invariant
`TurnInv` has a part that always holds and one for turns that no request
overtook:

* always: blocks are numbered in order (`Numbered`); the saved calls are those
  of the answer, each once (`CallsSaved`); and `Room`, that the index with the
  presentations under way never passes the blocks that arrived. `Room` is what
  keeps the index in its type even when presentations of an old answer move the
  index of the new one: each of them moves it once and stands for a block that
  is not in the new answer.
* not overtaken: a presentation holds the lock and stands at the index (`Alone`),
  unless the cut behind `new_task` took its block away; calls before the index
  have their own result, or are a completion that ran, and the others have none
  (`Answering`); what ran comes before the block at the index or is it
  (`Ordered`) and contains what runs (`Recorded`); and before the cut the index does not pass the end (`OnTrack`). "One presentation at a time" alone is
  not inductive because the lock is released by whoever ends last.

Whatever asks for a presentation, of a chunk, the end of the stream, the last
presentation or the saved answer, changes the turn in one of two ways: it starts
one, or there is one or nothing to present (`Presents`), and one lemma per part
of the invariant says that this keeps it. `RepairedAnswers` is about
`Repaired` alone: for any results and any calls without repetition, the repaired
results name each call once and nothing else.

That lemma, `PushedElements` (what `Cut` pushes) and `AmongElements` (the calls
picked from an answer) say what functions defined by recursion compute for every
input. The library's induction theorems cannot be used, since they take an
operator as a parameter, but a set can take its place: `Least` finds the least
counterexample of a set of numbers by the well-foundedness of `<` (`WFMin`),
`UpTo` is induction below a bound, and `Recursion` shows that a function with
the equations of the definition exists, so that the CHOOSE behind `f[n \in S] ==
...` satisfies them. `Among`, `Cut` and `Repaired` are recursive functions for
that reason, and `ToolCallsEnd` is written in closed form: after the first open
call is presented, presenting the others one by one does what presenting once
does.

Only model-checked: the liveness properties, which rest on fairness and are out
of the prover's reach. The four properties of the runs that expect a violation
are false. Every other property of a run, and both refinements, are theorems.

## 7. Not modelled, and why

The contents of conversations, prompts, files and requests; token and cost
accounting; formatting. Files are not torn: a write is a rename. The modules meet
at the abstractions each names: `Delegation` takes the atomic item of
`HistoryItems`, `ApiRetries` an answer of `AssistantTurn` as one step; they
are not composed in one instance. The lock file of the memory consolidation
(`core/memory/consolidationLock.ts`) is planned. Memory and processor limits of the host are not modelled. The list of components in
`PROJECT.json` names what remains and what of it is planned.
