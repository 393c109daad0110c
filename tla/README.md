# A verification project for mini-py-nanoclaw

NanoClaw (`nanoclaw/`, about 4,000 lines of Python) connects chats to an agent.
Channels bring messages in, a dispatcher starts at most one agent run per chat
group and a limited number in all, agents answer and may ask for scheduled
tasks, and everything that has to survive a restart is in a SQLite database.
The program is a single asyncio process with a few helper threads, plus one
child process per agent run. This directory holds TLA+ models of its core, the
TLC configurations that check them, and machine-checked proofs of their safety
properties and of the refinements between them.

## 1. Inventory

| Component | Code | State | Operations |
|---|---|---|---|
| Dispatcher | `group_queue.py` | `GroupState` per group, `_active_count`, `_waiting_groups`, `_shutting_down`, background coroutines | `enqueue_message_check`, `enqueue_task`, `notify_idle`, `close_stdin`, `_run_for_group`, `_run_task`, `_schedule_retry`, `_drain_group`, `_drain_waiting`, `shutdown` |
| Message turns | `app.py`, `db.py` | `messages`, `router_state`, `last_agent_timestamp` | `_on_inbound_message`, `process_group_messages`, `save_state`, `load_state`, `recover_pending_messages` |
| Scheduled tasks | `task_scheduler.py`, `ipc.py`, `db.py` | `scheduled_tasks`, closures in the dispatcher | `run_once`, `_run_and_record`, `compute_next_run`, `_compute_first_run`, schedule/pause/resume/cancel |
| IPC watcher and tools | `ipc.py`, `mcp_stdio.py` | files in `ipc/<folder>/messages` and `tasks`, the loop's task | `_write_ipc_file`, `run_once`, `_process_messages`, `_process_tasks`, `start`, `stop` |
| Agent run | `container_runner.py`, `agent_runner.py`, `ipc_io.py` | a child process, `ipc/<folder>/input`, the `_close` sentinel | `run_container_agent`, `main`, `_should_close`, `_drain_ipc_inputs` |
| Inbound channels | `channels/local_file.py`, `cli_stdio.py`, `webhook_http.py`, `sender_allowlist.py` | inbox directory, queues between threads, allowlist cache | `poll`, `_read_loop`, `do_POST`, `poll_channels`, `load_sender_allowlist` |
| Registry and sessions | `db.py`, `app.py`, `__main__.py`, `setup/register.py` | `registered_groups`, `sessions`, `last_agent_timestamp`, each also in memory | `register_group`, `set_registered_group`, `load_state`, `save_state` with its pruning, `set_session` |
| Credential proxy, container check, mounts, formatting, setup | the other files | none that matters to the rest | |

How they interact:

- Channels call `_on_inbound_message`, which stores the message and calls
  `enqueue_message_check`. The dispatcher calls back
  `process_group_messages`, which reads the database, runs the agent and moves
  the group's cursor.
- The agent's tools write request files. The watcher turns them into messages
  to channels or into rows of `scheduled_tasks`. The scheduler polls the rows
  and hands each due one to the dispatcher, whose run records the result and
  the next due time in the row.
- Outputs of a run call `notify_idle`; the dispatcher answers with
  `close_stdin`, a sentinel file that the agent process looks for.
- Memory and database are two copies of the cursors, the sessions and the
  registered groups; at start memory is loaded from the database and nothing
  else survives. The setup program writes into the same database.

What makes each part correct:

- *Dispatcher*: one run per group, a slot count that is right on every way a
  run can end, and no work that is pending without anyone to start it.
- *Message turns*: the cursor passes only what was answered, and no row that
  was answered is given to a turn again, whatever is stored meanwhile.
- *Scheduled tasks*: an occurrence executes to its end once, the schedule keeps
  its phase, and what is due is taken up.
- *IPC watcher*: requests take effect in the order they were written, and once
  unless a crash repeats one.
- *Agent run*: one agent per group, one conversation over all its runs, no
  answer told twice by a retry, and an end to every wait.
- *Inbound channels*: what was handed in is stored or refused by current rules,
  not lost and not doubled.
- *Registry and sessions*: a restart finds what the process worked with, and
  pruning spares what is still needed.

What is hard about it: the dispatcher's handlers interleave at every `await`;
a snapshot of a row is used long after it was taken; the process can crash
between any two database writes; a cancellation can strike a coroutine before
its first statement; agents are processes of their own. `PROJECT.json` lists
the hazards with their lines and the properties that cover them.

## 2. Modules

| Module | Models | Used by |
|---|---|---|
| `GroupQueue` | the dispatcher | `MessageFlow`, `TaskFlow`, `AgentRun` (INSTANCE), `MCGroupQueue` |
| `Dispatcher` | what the dispatcher promises its callers | `GroupQueue` (`Dispatches`) |
| `MessageFlow` | channel, `messages` table, turns, cursor, crashes, recovery; composed with `GroupQueue` | `MCMessageFlow` |
| `Answering` | what becomes of a chat's messages | `MessageFlow` (`Answers`) |
| `TaskFlow` | `scheduled_tasks`, requests, poll, runs, recording; composed with `GroupQueue` | `MCTaskFlow` |
| `Scheduling` | what becomes of a scheduled task | `TaskFlow` (`Schedules`) |
| `AgentRun` | the agent's process, its outputs and end, sessions, the close sentinel; composed with `GroupQueue` | `MCAgentRun` |
| `IpcWatcher` | agents' request files and the watcher | `MCIpcWatcher` |
| `Inbound` | the inbox directory, the queues of the command line and the webhook, the allowlist cache | `MCInbound` |
| `Registry` | registered chats, cursors and sessions in memory and database | |
| `GroupQueueProofs`, `GroupQueueRefinement` | theorems about `GroupQueue` | the first: the proofs of `MessageFlow`, `TaskFlow` and `AgentRun` |
| `MessageFlowProofs`, `TaskFlowProofs`, `AgentRunProofs`, `IpcWatcherProofs`, `InboundProofs`, `RegistryProofs` | theorems about the module of the name | |

The `MC` modules give the constants that are functions or sequences their
values. Definitions marked "Mutant" are slips that could be made in the code;
each property fails when the definition below the mutant is replaced by it.

### GroupQueue

`groups[g]` is the `GroupState` record with the names of the code;
`activeCount`, `waitingGroups` and `shuttingDown` are the queue's attributes.
`runs[g]` is the sequence of coroutines `_run_for_group` and `_run_task` that
exist for the group, each *created* (its first statement has not been reached),
*running*, *cancelling*, or *stillborn* (cancelled before its first statement:
asyncio then never enters the `try`, and the `finally` clause does not run).
`timers[g]` counts sleeping `_retry` coroutines, `closeFile[g]` is the sentinel.

One action stands for the code between two suspensions. None of the
dispatcher's own code suspends: `_drain_group` and `_drain_waiting` are
coroutines but await nothing that waits, so the ending of a run, with its
decrement, its drain and the start of the next runs, is one action (`EndRun`,
`DrainGroup`, `DrainWaiting`, `Launch`). `DrainWaiting` states the loop as the
number of groups it pops.

### Dispatcher

The abstract specification: jobs that wait (`todo`), the job each group does
(`doing`), the groups that found no slot in the order they came (`line`).
A job starts at once (`StartNow`) or is put off (`Defer`); a group that ends
one goes on with its own next job, or gives the slot to the first of the line,
or rests. There are no flags, counters or coroutines. `GroupQueue` implements
it under the mapping `Todo` (pending flag and queued ids), `Doing` (the jobs of
the group's live coroutines) and the line as it is: the property `Dispatches`
is `D!Spec`. It says what the flags amount to: nothing waits while it could
start, a job that was accepted is not dropped but by shutdown, the line is
served in order, and tasks come before messages.

### MessageFlow

`time[m]` is the row of message `m` (its timestamp, 0 if it is not stored). A
message is a chat and an id, the key of the row; a payload without an id gets a
new one at each delivery and so is another message each time. `Deliver` takes
any message at any time, also one that is stored, answered, or in the running
turn: `db.py:167` replaces the row, and its timestamp may be any, for a payload
without one is stamped when it is read (`local_file.py:69`). `repeats` counts
these deliveries. A replaced row is a new one to `answered` and `excused`, and
not the one the running turn was given (`Renewed`). `owned` are the chats an
enabled channel owns; each start may choose others (`Settings`). A check of a
chat that is not owned is an `EmptyTurn`, as is one that finds nothing to do or
no trigger. `cursor` and `dbCursor` are the two copies of `last_agent_timestamp`; `turn[g]`
holds what `process_group_messages` keeps over its awaits. Timestamps are
numbers of a small range and are chosen freely, so equal, late and early ones
occur. `Batches` is the SELECT with `ORDER BY timestamp DESC LIMIT`: any of the
answers SQLite may give when timestamps are equal. A turn is `StartTurn` (or
`EmptyTurn`), any number of `Output`, and `CommitTurn`, `ErrTurn`, `RaiseTurn`
or `CancelTurn`, each together with the dispatcher's own action for that
ending. `CrashInDeliver` and `CrashInCommit` are the crashes inside a handler,
after the first of its database writes; all other writes are single.

### Answering

The abstract specification of the message flow: messages that wait, that were
answered, that were left behind, and a turn per group. A message that comes in
waits, is late, or falls among those the running turn will pass (`Arrive`); one
that comes again takes the place of its earlier copy, and if that was answered
it is to be answered again. A turn takes over all that waits of its group and answers as much of it as `Limit`
allows (`Begin`); it is settled in one step (`Settle`) or given up without a
trace (`Abandon`, `Die`). There are no timestamps, no cursors, no dispatcher, no
retries and no recovery. `MessageFlow` implements it under the mapping
`Waiting` (rows beyond the *durable* cursor), `LeftBehind` (rows the cursor has
passed that nobody answered) and `Turns` (the batch, and what else lies below
its last timestamp). The property `Answers` is `A!Spec`. It says that the single
number the code keeps is as good as the sets: a crash between cursor and
session, or a message that is stored or replaced while the agent runs, never
settles half a turn; a message is left behind in the two ways of `Arrive` and
`Begin` only; and an answered one waits again only if it came again with another
timestamp. A repeated delivery with the same timestamp is a stutter.

### TaskFlow

`row[t]` is the row of task `t`; `snapshot[t]` the row as it was when the
scheduler made the closure that the dispatcher holds. A calendar is a period
and, for cron, the offset between UTC and `TIMEZONE`: the first time is
computed in UTC (`ipc.py:217`), the later ones in `TIMEZONE`
(`task_scheduler.py:35`). `Poll` and `PollOne` are `run_once`: the SELECT, then
one round of its loop per due row. `gen` counts the lives of a task id, since
an id can be cancelled and created again. An id keeps its chat and its calendar
over its lives. The code would let the second life be another chat's, whose
guards (`group_queue.py:87-91`) do not see a closure of the first that is still
held for the old chat; the properties say nothing of that.

### Scheduling

The abstract specification of the scheduled tasks: each task's row, the number
of its lives, the one occurrence of it that is in hand, and those recorded. An
occurrence is taken up when it is due and nothing of the task is in hand
(`Take`), begins once (`Begin`) and is recorded together with the next due time
(`Record`); before that it can be lost, and is due again (`Lose`). A request
(`Create`, `Change`) changes the row and nothing that is in hand; so an
occurrence may begin unwanted, and `Begin` says how often. There are no polls,
queues, coroutines or restarts. `TaskFlow` implements it: `Hands` makes the
occurrence in hand from the snapshot, and whether its run has begun from the
coroutines. The property `Schedules` is `Sch!Spec`. A row that stays due
through many polls, while the dispatcher queues, starts and ends runs of the
task and of other tasks of the chat, is one `Take`.

### AgentRun

`agent[g]` is the child process of the group's newest run: *working*, *waiting*
in the loop that `NANOCLAW_AGENT_ENABLE_IPC_LOOP` switches on (`ipcLoop`, read
from the environment at each start), *leaving* and *exited*; `out` is what is
in its pipe. `host[g]` holds the local variables of `run_container_agent` and
of its caller: *talking* (`communicate`), *killing* (`wait` after `kill`),
*handling* (`on_output`, one output per action). Outputs are collected when the
child has exited, and dropped by a timeout. `CommitTurn`, `FailTurn`,
`RaiseTurn`, `EndTask` and `CancelRun` are the ends of a run, each with the
dispatcher's action for it. A cancelled run, and the end of the process, leave
the child alive (`orphans`). Messages are reduced to `ahead[g]`, whether there
are any beyond the cursor; `MessageFlow` has them in full, and a check that ends
without an agent (`NoAgentStarts`) may leave them there. An agent may go on
in the session it was given or make up a new one; the repository's own agent
never makes one up, so that with it the `sessions` table stays empty.

The model gives host and agent one sentinel. It is the same file only where the
agent's command mounts the group's folder at `/workspace/ipc`; without that
the agent never finds it.

### IpcWatcher

`dirs[f]` holds the files of a folder in the order of their names, which
begin with the time. The watcher's `pc`, `todo`, `stage` and `left` are its
place in the round (folders in order, messages before tasks, a listing taken
once per directory). `fate` is what follows the `finally: unlink` of the file
in hand: go on, or let an exception end the loop (`dead`), or be cancelled
(`down`). A shutdown can strike at the two awaits, the sleep and the sending.
`askers` and `asked` are history: who has asked for something of a task, and what
a folder's requests make of it by themselves.

### Inbound

`inbox[f]` is a file of the inbox: *none*, *partial* (created and not yet
filled) or *whole*. `cliQueue` and `webQueue` are the queues that the reader
thread of the command line and the HTTP threads fill. `pc`, `left` and `msg`
are the main loop's place in `poll_channels` (files, then lines, then posts),
down to the single file operations of `load_sender_allowlist` (`Stat`,
`ReadConfig`, `Stamp`): writers, threads and the editor of the allowlist come
in between, and a crash at every one of them. `edits` is the allowlist's mtime.
`lost`, `halfRead`, `refused`, `repeats` and `raced` are history: what the code
gives up, and why.

The chats of the model are registered. The chat `cli:main` of the example in
`README.md:149` is registered by nothing but a test; unless a row for it is put
into the database, `app.py:192` drops its messages.

### Registry

`row` is the table `registered_groups` as a function from chats to folders,
`registered` the map in memory; `dbCursor` and `cursor`, `dbSession` and
`sessions` are the other two pairs. `Register` is `register_group`: memory
first, then `INSERT OR REPLACE`, which the UNIQUE folder turns into the
deletion of another chat's row (`Evicts`), or a `ValueError` for a folder that
is not valid. The program calls it only for the main chat (`__main__.py`); as a
method of the application it is open to any chat, and the tests use it so.
`SetupRegister` is the setup program, which writes whether the process runs or
not. `Pruned` and `PrunedSessions` are the pruning in `save_state`, by the
chats in memory. `behind` is history: the chats whose row was refused or
changed by another.

## 3. What TLC checks

| Run | Bounds | Distinct states |
|---|---|---|
| `group_queue` | 3 groups, 2 slots, 1 task, 1 retry, 4 calls | 144,439 |
| `message_flow` | 2 groups (one with or without a channel), 1 slot, 3 messages, 2 timestamps, LIMIT 1, 1 stop, 1 repeated delivery | 231,751 |
| `message_flow_live` | 2 groups (as above), 2 messages, 2 timestamps, LIMIT 1, 1 stop, 2 repeated deliveries | 99,370 |
| `task_flow` | 1 chat, interval and once task, 2 lives each, 5 instants, 1 stop | 2,531,316 |
| `task_flow_live` | 2 chats, cron and once task, invalid folder, 1 stop | 109,086 |
| `ipc_watcher` | 2 folders, 2 tasks, 2 task requests, 2 texts, 1 stop | 173,153 |
| `agent_run` | 1 chat, 2 tasks, 4 messages or due tasks, 2 sessions, 1 retry, 1 stop | 422,581 |
| `inbound` | 3 files, 1 line, 1 post, 2 contents of the allowlist or none, 2 edits, 1 stop | 604,446 |
| `registry` | 3 chats, 3 folders (one invalid), 3 turns, 3 registrations, 2 stops | 1,173,019 |
| `ipc_malformed`, `task_cancel`, `inbound_lost` | violations, see section 5 | |

The type invariants are in no run: they are theorems (section 4).

- **group_queue.** With three groups for two slots there is a running group, a
  waiting one and one that comes in between; four calls fill every flag and the
  line. `SerialExecution` (one run per group), `ConcurrencyLimit`,
  `SlotAccounting` (the counter is the number of active groups, on every way a
  run can end), `NoLostWakeup` (pending work has a live run or a place in the
  line), `WorkConserving` (nobody waits beside a free slot; no stale places),
  `TaskOnce`, `NoStartAfterShutdown`, `IdleRunIsAsked`, `Dispatches` (every
  step is one of `Dispatcher`), and two liveness properties, with every run
  free to fail: `PendingIsServed` and `ComesToRest`. `WorkRunsOut`: a step the
  dispatcher takes by itself (a run begins or ends, a retry wakes up) leaves its
  group with fewer jobs, or with the same jobs nearer to their end, and gives
  no other group work.
- **message_flow.** `PassedWasAnswered`: what the durable cursor has passed was
  part of a committed turn, or is one of the rows the code knowingly leaves
  behind (see below). `AnsweredIsFinal`: no row of a committed turn is given to
  a later turn; a delivery with another timestamp makes another row of it, which
  is the one way in which a chat is answered twice after a commit.
  `NoMessageStranded`: what is ahead of the cursor, in a chat that a channel
  owns, is in someone's hands. `CursorIsDurable`: never back, and memory equals
  database. `Answers`: every step is one of `Answering`. A `LIMIT` of 1 makes
  every turn with two messages set one aside; the repeated delivery meets every
  state of a message, before, in and after its turn and around the stop, with
  an older, the same, or a newer timestamp.
- **message_flow_live.** `EventuallyAnswered`, through a crash or shutdown and
  deliveries that bring an answered message back. The bound on these is needed:
  deliveries that never end, of one chat, keep its group in the slot and can
  starve the other (see Fairness below).
- **task_flow.** `OccurrenceOnce`, `AtMostOneLateStart`, `KeepsPhase`,
  `DueTimeMoves`. Two lives of an id are the smallest number
  with a stale recording (`crossed`); five instants let a run be late by more
  than a period of 2.
- **task_flow_live.** `DueIsServed`, and `KeepsPhase` for a cron task whose
  offset is not a multiple of its period. `Schedules`: every step is one of
  `Scheduling`. Each id has one life in this run; the proof of `Schedules` has no
  such bound.
- **ipc_watcher.** `DrainedMeansDone`: when a folder has no task request left,
  the tasks that only its agent could change are as it asked, in order, also
  when a crash made the watcher carry one out twice. `SentOncePerCrash`: a
  second sending needs a crash in the window between sending and removal; a
  shutdown does not do it. `RequestsAreRead`: every file is read, unless the
  loop has died.
- **agent_run.** `OneAgent`: no two agents of one process work for a group.
  `CloseComesLate`: outputs are handled when the agent has exited, so
  `close_stdin` always addresses a later run than the one it means; an agent
  that waits for a sentinel is ended by one left over from an earlier run, or by
  its timeout. `ConversationGoesOn`: a run resumes the session that the last
  successful one left, but for a crash between cursor and session (`cut`).
  `NotToldTwice`: after part of an answer was sent, an error brings no second
  telling, unless something else asked for a turn: a new message, a restart, or
  a check or retry that was pending by then (a retry an *earlier* failure had
  scheduled does repeat the answer). `RunsEnd`: a waiting agent does not keep its
  slot. One chat suffices, for the chats share nothing here but the slots, which
  `group_queue` covers; four calls let a failed turn, a task and two more
  messages meet.
- **inbound.** `NoDuplicates`: a second row needs a crash and a message without
  an id of its own. `NothingVanishes`: what was written, typed, or answered with
  202, is in sight, but for what was in memory when the process ended (`lost`)
  and files read before they were whole (`halfRead`). `JudgedByCurrentRules`: the
  rules applied were in the allowlist at some moment since the message was taken,
  but for an edit between reading the file and taking its mtime (`raced`), which
  then stays unread until the next edit. `AllIsRead`: only files behind one that
  is not UTF-8 wait for ever; lines and posts are read. Two edits are what
  `raced` and its repair need.
- **registry.** `RestartFindsTheSame`: chats, cursors and sessions in memory are
  those of the database, but for the chats in `behind` and sessions pruned from
  memory. `OneTurnPerFolder`: two turns in one folder (and so in one session)
  need a chat that is behind its row, or whose folder changed in mid-turn.
  `CursorIsKept`: no cursor that is still needed is pruned, also when the row of
  a served chat was deleted by another. Three chats for two valid folders make a
  chain of displacements; three registrations and two stops let a displaced chat
  be served, displace in turn, and be forgotten by a restart.

What the code knowingly leaves behind, and the models record as history
(`excused`, `gaveUp`): a message stored with a timestamp the cursor or the
batch of the running turn has already reached; what `LIMIT` cuts off; and a
group whose retries are spent, or whose turn failed after part of its answer
was sent, until its next message or the next start. A chat that no enabled
channel owns is not answered at all (`app.py:275-278`): its messages wait for a
start with other settings, which takes them up (`NoMessageStranded` holds of it
from that start on). So does a group that nobody triggered, for its trigger.

### Fairness

The safety runs use none, except that `group_queue`, `ipc_watcher`, `agent_run`
and `inbound` share one specification with their liveness properties. For
liveness: the event loop resumes every coroutine that can run (weak fairness
per group of beginning and ending runs, of retries, of the poll, of the watcher,
of the main loop and of a run that waits for its agent); an agent run ends, for
`run_container_agent` has a timeout; a retry's sleep is bounded; the process is
started again after it ended, which is the service manager's part
(`deploy/`). `TaskFlow` uses strong fairness for a run's step because its model
does not let a run's step come between the rounds of one poll, which `asyncio`
does not either: polls come again and again, and the event loop's queue still
gives the run its turn. No fairness is assumed of channels, agents, their
requests or stops.

`PendingIsServed` speaks of finitely many calls. With a steady flow of work for
one group the others can wait for ever, since a group that ends a run goes on
with its own next one (`group_queue.py:177`); nothing in the repository promises
otherwise.

## 4. What TLAPS proves

Every invariant, action property and refinement the passing runs check is proved
for all values of the constants: any finite set of groups, any tasks, messages,
limits, retry budgets, periods and bounds on stops and calls, from the modules'
`...Assumption` alone. So the bounds of section 3 matter for the liveness
properties only.

| Theorems | Module | Properties |
|---|---|---|
| `Serial`, `Limited`, `SlotsAccounted`, `NoWakeupIsLost`, `WorkIsConserved`, `TaskIsHeldOnce`, `TypeCorrect` | `GroupQueueProofs` | `SerialExecution`, `ConcurrencyLimit`, `SlotAccounting`, `NoLostWakeup`, `WorkConserving`, `TaskOnce`, `TypeOK` |
| `Implements`, `NothingStartsAfterShutdown`, `IdleRunsAreAsked`, `WorkRunsOutOnItsOwn` | `GroupQueueRefinement` | `Dispatches`, `NoStartAfterShutdown`, `IdleRunIsAsked`, `WorkRunsOut` |
| `NothingIsPassed`, `AnsweredStays`, `CursorStays`, `NothingIsStranded`, `ImplementsAnswering`, `TypeCorrect`, `DispatcherKeepsItsWord` | `MessageFlowProofs` | `PassedWasAnswered`, `AnsweredIsFinal`, `CursorIsDurable`, `NoMessageStranded`, `Answers`, `TypeOK`, the dispatcher's |
| `Once`, `LateOnce`, `PhaseIsKept`, `DueTimesMove`, `ImplementsScheduling`, `CompletedRan`, `TypeCorrect`, `DispatcherKeepsItsWord` | `TaskFlowProofs` | `OccurrenceOnce`, `AtMostOneLateStart`, `KeepsPhase`, `DueTimeMoves`, `Schedules`, `CompletedHasRun` (in no run), `TypeOK`, the dispatcher's |
| `AgentsAreAlone`, `CloseIsLate`, `ConversationIsOne`, `NothingIsToldTwice`, `TypeCorrect`, `DispatcherKeepsItsWord` | `AgentRunProofs` | `OneAgent`, `CloseComesLate`, `ConversationGoesOn`, `NotToldTwice`, `TypeOK`, the dispatcher's |
| `DrainedIsDone`, `SentOnce`, `TypeCorrect` | `IpcWatcherProofs` | `DrainedMeansDone`, `SentOncePerCrash`, `TypeOK` |
| `StoredOnce`, `NothingIsLost`, `CurrentRules`, `TypeCorrect` | `InboundProofs` | `NoDuplicates`, `NothingVanishes`, `JudgedByCurrentRules`, `TypeOK` |
| `MemoryIsDurable`, `FoldersAreApart`, `CursorStays`, `TypeCorrect` | `RegistryProofs` | `RestartFindsTheSame`, `OneTurnPerFolder`, `CursorIsKept`, `TypeOK` |

**The dispatcher.** None of its invariants is inductive alone. A slot is safely
given back only if the run that ends is the group's only one and the group is
marked active; a wakeup is not lost only if an idle group is in the line
whenever it has work, and then every slot is taken, or nobody would come to
drain it. `IInv` says so in parts: `GroupOK` of one group's record and
coroutines (at most one coroutine, which implies active and carries the running
task's id; no id left between runs; no id queued twice or queued while it runs),
`AwakeOK` for the time before shutdown (active implies a coroutine, none
cancelled), the counter as a cardinality, and `LineOK` of the line (not empty
only when every slot is used, no group twice, only idle groups with work, and
all of those). The proof first shows what each building block does to one group
(`StartOK`, `StartMessagesOK`, ...), then how many slots a set of starts uses,
then the drain, then each action.

**The dispatcher as a `Dispatcher`.** `Implements` shows each handler to be a step of `Dispatcher`
or a stutter, under `IInv`: the line is empty when a slot is free and every
busy group has exactly one coroutine, so a call that launches is `StartNow`, one
that only sets a flag or parks is `Defer`, and an ending is `Finish` with the
one of its three outcomes that `DrainGroup` takes. A drain hands over at most
one slot, for one has become free.

**Work runs out.** `WorkRunsOutOnItsOwn` is a measure argument. Of each group it
counts the jobs (sleeping retries, queued tasks, a pending check, the runs) and
the effort these can still cause: a retry left in the budget is worth more than
a sleeping one, that more than something queued, that more than a run that has
not begun. Every step the dispatcher takes by itself lowers the pair of the two,
in the order of pairs, for one group, and leaves it alone or lowers it for the
others: a drain that hands a slot over turns a queued job into a run. That needs
`IInv` (what ends is the group's only run) and that `retryCount` stays within
the budget. The pairs are natural numbers and the groups finitely many, so after
the last call only finitely many steps can follow; this is the safety part of
`ComesToRest`, for any budget and any mixture of failures. That the steps are
taken at all is fairness, and left to TLC.

**Composition.** `MessageFlow`, `TaskFlow` and `AgentRun` instantiate
`GroupQueue`; their proofs instantiate `GroupQueueProofs` (as `QP`) and show that
every step of the composition is a step of the dispatcher, leaves it alone, or
is the end of the process, after which it is as in `Init`. So `IInv` and all that
follows from it hold in the composition without being proved again.

- `MessageFlow`: `FlowInv` adds what lies between cursor and batch. A turn's
  batch is newer than the cursor and not beyond `last`, and whatever else lies
  there is in `missed` (`TurnOK`); what was answered is stored and behind the
  durable cursor (`CursorOK`). `ServedInv` says of every group that recovery
  has looked at that each message ahead of its cursor is covered: held by the
  dispatcher, in the turn's range, given up, waiting for a trigger, or of a
  group that no channel owns. What waits for a trigger stays so when the process
  restarts or more is stored. A delivery that replaces a row takes the message
  out of the batch, and into `missed` if the turn will pass it, which is what
  keeps `TurnOK`.
- `TaskFlow`: `TaskInv` speaks of one task. What the dispatcher holds of it was
  due, is of one of its lives and not recorded (`ClosureOK`); what is recorded
  was due, and what is to come is not recorded (`RecordOK`); a task that started
  late is not about to do so again (`LateOK`); due times and the snapshots they
  are computed from are in phase with the creation (`PhaseOK`), by the
  arithmetic of multiples.
- `AgentRun`: `AgentInv` speaks of one group. A run that has a host has begun,
  and while its agent is alive it is not counted as idle and there is no sentinel
  the agent has not met (`SeatOK`); the database has the newest session and runs
  were given it (`SessionOK`); a group that has heard its answer has no flag,
  timer or run that leads to a turn (`HeardOK`). The other groups of a step are
  bystanders that at most get a slot.

In each of them `DispatcherKeepsItsWord` states the dispatcher's properties once
more, of the composition.

**The message flow as `Answering`.** `ImplementsAnswering` uses `AllInv` (all of
the above) and one more fact, that a shutdown leaves no run that has yet to begin
(`NoneCreated`); before it the run that begins is its group's only one, so the
start of a turn finds no other turn. Between turns the
rows beyond the durable cursor are what waits; `TurnOK` makes a commit, which
only moves a number, the step that settles the batch and what was set aside, for
both are just the rows between the old cursor and the new one. A delivery, first
or repeated, is `Arrive`, and a stutter if it repeats the timestamp too. The
crash inside a commit is the same step with the process dying at once; the crash
inside a delivery is `Arrive` with it, or `Die` if the row was the same. What a
restart and the recovery do is a stutter.

**The task flow as `Scheduling`.** What the mapping shows of a task depends on
the dispatcher's queue and coroutines, so the proof first settles how those
move. A task that is *under way* (queued, or with a run) is left as it was by
every step of the dispatcher but the beginning and the ending of its own run:
starts and drains take it from the queue into a run that has not begun
(`StartLeaves`, `LaunchLeaves`, `RunEndLeaves` and the others of
`GroupQueueProofs`). From there each action of `TaskFlow` is one step of
`Scheduling` for one task, and leaves the others in hand or not. `TaskInv`
supplies the guards: what is taken up is not recorded (`RecordOK`), what begins
late does so once (`LateOK`), and the next due time lies ahead and in phase
(`ComputeNextRun`). A poll that finds the task in hand is a stutter, since
`enqueue_task` refuses what is under way.

**The other modules.** `WatcherInv` of `IpcWatcher`: the place in the round is at
a file that exists (`PlaceOK`), a text has one file in its author's folder
(`FilesOK`), and the sendings of a text are bounded by the crashes plus one,
which is spent only when its file is at work or gone (`SentOK`). For the requests
about tasks, `RequestsOK` says that a folder's files, carried out one after the
other, lead from the row of a task to what the folder has asked for (`Leads`, with
the statuses on the way as its witness, so that a file more or less needs no
induction); that the request in hand would change nothing a second time is what
makes a crash harmless (`DoneOK`). `InboundInv` of `Inbound`: the message in hand
is where the poll says and in no queue (`HandOK`), queues hold what was put in,
once (`QueuesOK`), the rows of a message that can still come are one fewer
(`CountOK`), where everything is (`FatesOK`), and what the cache holds when its
mtime is current (`CacheOK`). `RegistryInv` of `Registry`: rows have different
folders, and whoever has a row is served while the process is up, whether the
row is behind or not.

Only model-checked: the liveness properties (`PendingIsServed`, `ComesToRest`,
`EventuallyAnswered`, `DueIsServed`, `RequestsAreRead`, `RunsEnd`, `AllIsRead`),
which are out of the prover's reach.

## 5. Where code and text disagree

- **task_cancel.** "Cancel a task" and "Pause a task" (`mcp_stdio.py`) do not
  reach a task that already waits in the dispatcher's queue: the closure runs a
  snapshot and nothing looks at the row again. It starts, once
  (`AtMostOneLateStart` holds).
- **ipc_malformed.** `tests/test_ipc_watcher.py` says that a malformed message
  must not crash. A message file with valid JSON that is not an object raises
  `AttributeError`, which is not caught and ends the watcher's loop until the
  process is restarted. (The test has an object with a wrong field, which is
  handled.)
- **inbound_lost.** `README.md` shows how to send a message with
  `cat > .../inbound/hello.json`. The shell creates the file before `cat` fills
  it; a poll in between takes it for invalid JSON and removes it, and the
  message is lost. (The program's own writers rename a complete file.)

## 6. Not modelled

- Message texts, prompts, outbound formatting, logs, and the snapshot files
  written for agents: no state depends on them.
- `get_new_messages` and `last_timestamp`: nothing in the program uses them to
  decide anything. `migrate_json_state` (`db.py:431-475`): nothing calls it.
- The credential proxy: it passes requests through and keeps nothing.
- The container runtime check: it asks the runtime and keeps the answer for
  30 s. A run that finds no runtime where one is required, or trusts an answer
  that is out of date, ends like an agent that dies without output, which
  `AgentRun` has. `cleanup_orphans` stops containers called `nanoclaw-...`, a name
  the program gives to none of those it starts.
- Mount validation: `container_runner.py:148` calls it for a group whose
  `container_config` names mounts and discards the result. Nothing in the
  program writes a `container_config`.
- Settings, environment, and the setup steps other than `register`: read or
  written once, by one process.
- Channel registry: a dictionary filled at import.
- Processes that an agent starts (the `claude` CLI): `kill` ends the agent
  alone. `AgentRun` takes `wait` to return when the agent is dead.
- Follow-up inputs to a waiting agent: nothing in the program writes one.
- Senders' addresses, triggers and other fields of a payload: a message is
  valid or not, and allowed or not. `MessageFlow` takes the copies of a message
  to say the same, so that a second one does not add or remove a trigger.
- Chats that are not registered: those of `MessageFlow` are, so a check never
  ends at `app.py:271-273`.
- The log of task runs (`log_task_run`): nothing reads it. Its row is committed
  before `update_task_after_run`; a crash between the two is, for the task, the
  same as one before both, which `TaskFlow` has.
- A task id that is given to another chat in a later life (see `TaskFlow`).

## 7. What is left

1. A larger composition: `TaskFlow` under `IpcWatcher`, in place of the
   requests `TaskFlow` takes from anywhere, so that a crash that repeats a
   request meets a task that runs.
2. Abstract specifications of the agent run, the watcher, the channels and the
   registry, and the refinements that go with them: what a conversation, a
   request, a message handed in and a registration amount to.
3. Larger instances for the liveness properties, which the proofs do not cover:
   two chats in `agent_run`, three requests in `ipc_watcher`.
