----------------------------- MODULE GroupQueue -----------------------------
(***************************************************************************)
(* nanoclaw/group_queue.py: the in-memory dispatcher.  Every chat group    *)
(* has at most one agent run at a time, at most MaxConcurrent groups run   *)
(* at once, and work that cannot start is remembered: as a flag            *)
(* (pending_messages) or in a deque of tasks (pending_tasks) of the group, *)
(* and, when no slot is free, by the group's place in _waiting_groups.     *)
(*                                                                         *)
(* asyncio runs one piece of code between two awaits at a time, and none   *)
(* of the dispatcher's own code awaits anything that suspends, so one      *)
(* handler (or the part of a coroutine up to the next suspension) is one   *)
(* action here.  A background coroutine is an element of runs[g] or a unit *)
(* of timers[g].                                                           *)
(***************************************************************************)
EXTENDS Integers, Sequences, FiniteSets

CONSTANTS
  Groups,          \* chat jids
  Tasks,           \* scheduled task ids
  NoTask,          \* running_task_id = None; also marks a message run
  MaxConcurrent,   \* _max_concurrent
  MaxRetries       \* _max_retries

\* __init__ takes max(1, ...) of the configured limit.
ASSUME GroupQueueAssumption ==
  /\ IsFiniteSet(Groups)
  /\ NoTask \notin Tasks
  /\ MaxConcurrent \in Nat \ {0}
  /\ MaxRetries \in Nat

VARIABLES
  groups,          \* _groups: the GroupState of each group
  activeCount,     \* _active_count
  waitingGroups,   \* _waiting_groups
  shuttingDown,    \* _shutting_down
  runs,            \* the live _run_for_group and _run_task coroutines
  timers,          \* how many _retry coroutines are sleeping
  closeFile        \* the group's _close sentinel, written by close_stdin

queueVars == <<groups, activeCount, waitingGroups, runs>>
vars == <<groups, activeCount, waitingGroups, shuttingDown, runs, timers, closeFile>>

-----------------------------------------------------------------------------
(* Data.                                                                   *)

GroupState ==
  [active : BOOLEAN, idleWaiting : BOOLEAN, isTaskContainer : BOOLEAN,
   runningTask : Tasks \cup {NoTask}, pendingMessages : BOOLEAN,
   pendingTasks : Seq(Tasks), retryCount : Nat]

FreshGroup ==
  [active |-> FALSE, idleWaiting |-> FALSE, isTaskContainer |-> FALSE,
   runningTask |-> NoTask, pendingMessages |-> FALSE,
   pendingTasks |-> <<>>, retryCount |-> 0]

(* A created coroutine has not reached its first statement; stillborn, it   *)
(* was cancelled before it did.                                            *)
Run == [task : Tasks \cup {NoTask}, phase : {"created", "running", "cancelling", "stillborn"}]

Begun(r) == r.phase \in {"running", "cancelling"}

Waits(g) == \E i \in DOMAIN waitingGroups : waitingGroups[i] = g
Pends(s, t) == \E i \in DOMAIN s.pendingTasks : s.pendingTasks[i] = t
HasPending(s) == s.pendingTasks # <<>> \/ s.pendingMessages

WithoutRun(g, i) ==
  [runs EXCEPT ![g] = SubSeq(@, 1, i - 1) \o SubSeq(@, i + 1, Len(@))]

-----------------------------------------------------------------------------
(* Starting a run.                                                         *)

NewRun(t) == [task |-> t, phase |-> "created"]

StartedMessages(s) ==
  [s EXCEPT !.active = TRUE, !.idleWaiting = FALSE, !.isTaskContainer = FALSE,
            !.pendingMessages = FALSE]

\* Mutant: a task's start forgets its id.
StartedTaskUnnamed(s, t) ==
  [s EXCEPT !.active = TRUE, !.idleWaiting = FALSE, !.isTaskContainer = TRUE]

StartedTask(s, t) ==
  [s EXCEPT !.active = TRUE, !.idleWaiting = FALSE, !.isTaskContainer = TRUE,
            !.runningTask = t]

\* A queued task goes before queued messages.
NextTask(s) == IF s.pendingTasks # <<>> THEN Head(s.pendingTasks) ELSE NoTask

StartedNext(s) ==
  IF s.pendingTasks # <<>>
    THEN StartedTask([s EXCEPT !.pendingTasks = Tail(@)], Head(s.pendingTasks))
    ELSE StartedMessages(s)

(* The groups of S start what they have pending.  gs, count and rs are the *)
(* group states, the slot count and the coroutines at that point of the    *)
(* handler.                                                                *)
Launch(S, gs, count, rs) ==
  /\ groups' = [h \in Groups |-> IF h \in S THEN StartedNext(gs[h]) ELSE gs[h]]
  /\ runs' = [h \in Groups |->
                IF h \in S THEN Append(rs[h], NewRun(NextTask(gs[h]))) ELSE rs[h]]
  /\ activeCount' = count + Cardinality(S)

\* Mutant: the slot is not counted.
StartOneUncounted(g, s, t) ==
  /\ groups' = [groups EXCEPT ![g] = s]
  /\ runs' = [runs EXCEPT ![g] = Append(@, NewRun(t))]
  /\ UNCHANGED <<activeCount, waitingGroups>>

StartOne(g, s, t) ==
  /\ groups' = [groups EXCEPT ![g] = s]
  /\ runs' = [runs EXCEPT ![g] = Append(@, NewRun(t))]
  /\ activeCount' = activeCount + 1
  /\ UNCHANGED waitingGroups

\* Mutants: the group takes no place in the line; a group may stand there twice.
ParkOffLine(g, s) ==
  /\ groups' = [groups EXCEPT ![g] = s]
  /\ UNCHANGED <<activeCount, runs, waitingGroups>>

ParkAgain(g, s) ==
  /\ groups' = [groups EXCEPT ![g] = s]
  /\ waitingGroups' = Append(waitingGroups, g)
  /\ UNCHANGED <<activeCount, runs>>

(* No slot is free: the group keeps its pending work and takes a place in  *)
(* the waiting line, unless it has one.                                    *)
Park(g, s) ==
  /\ groups' = [groups EXCEPT ![g] = s]
  /\ waitingGroups' = IF Waits(g) THEN waitingGroups ELSE Append(waitingGroups, g)
  /\ UNCHANGED <<activeCount, runs>>

-----------------------------------------------------------------------------
(* Draining, when a run has ended.                                         *)

(* The loop pops the first n waiting groups: it stops when no slot is left *)
(* or nobody waits, and a popped group starts if it has pending work.  A   *)
(* group is in the line at most once.                                      *)
DrainWaiting(gs, count, rs) ==
  \E n \in 0 .. Len(waitingGroups) :
    LET started(k) ==
          {h \in {waitingGroups[i] : i \in 1 .. k} : HasPending(gs[h])}
    IN  /\ \A k \in 0 .. n - 1 : count + Cardinality(started(k)) < MaxConcurrent
        /\ n = Len(waitingGroups) \/ count + Cardinality(started(n)) >= MaxConcurrent
        /\ waitingGroups' = SubSeq(waitingGroups, n + 1, Len(waitingGroups))
        /\ Launch(started(n), gs, count, rs)

\* Mutants: those that wait are never served; the shutdown flag is not read.
DrainOwnOnly(g, gs, count, rs) ==
  /\ Launch(IF ~shuttingDown /\ HasPending(gs[g]) THEN {g} ELSE {}, gs, count, rs)
  /\ UNCHANGED waitingGroups

DrainRegardless(g, gs, count, rs) ==
  \/ HasPending(gs[g]) /\ Launch({g}, gs, count, rs) /\ UNCHANGED waitingGroups
  \/ ~HasPending(gs[g]) /\ DrainWaiting(gs, count, rs)

\* Mutant: the group that has just ended takes a place at the end of the line.
DrainInTurn(g, gs, count, rs) ==
  LET line == IF HasPending(gs[g]) THEN Append(waitingGroups, g) ELSE waitingGroups
      next == IF shuttingDown \/ line = <<>> THEN {} ELSE {Head(line)}
  IN  /\ Launch(next, gs, count, rs)
      /\ waitingGroups' = IF next = {} THEN waitingGroups ELSE Tail(line)

\* The group that has just ended comes first, before those that wait.
DrainGroup(g, gs, count, rs) ==
  \/ /\ shuttingDown
     /\ Launch({}, gs, count, rs)
     /\ UNCHANGED waitingGroups
  \/ /\ ~shuttingDown
     /\ HasPending(gs[g])
     /\ Launch({g}, gs, count, rs)
     /\ UNCHANGED waitingGroups
  \/ /\ ~shuttingDown
     /\ ~HasPending(gs[g])
     /\ DrainWaiting(gs, count, rs)

\* Mutant: the slot is never given back.
EndRunKeepsSlot(g, i, s) ==
  DrainGroup(g, [groups EXCEPT ![g] = s], activeCount, WithoutRun(g, i))

\* The common end of both finally clauses; s is the group's state by then.
EndRun(g, i, s) ==
  DrainGroup(g, [groups EXCEPT ![g] = s], activeCount - 1, WithoutRun(g, i))

-----------------------------------------------------------------------------
(* The entry points.                                                       *)

CheckMessages(g) ==
  \/ /\ shuttingDown
     /\ UNCHANGED queueVars
  \/ /\ ~shuttingDown
     /\ groups[g].active
     /\ groups' = [groups EXCEPT ![g].pendingMessages = TRUE]
     /\ UNCHANGED <<activeCount, waitingGroups, runs>>
  \/ /\ ~shuttingDown
     /\ ~groups[g].active
     /\ activeCount >= MaxConcurrent
     /\ Park(g, [groups[g] EXCEPT !.pendingMessages = TRUE])
  \/ /\ ~shuttingDown
     /\ ~groups[g].active
     /\ activeCount < MaxConcurrent
     /\ StartOne(g, StartedMessages(groups[g]), NoTask)

EnqueueMessageCheck(g) ==
  /\ CheckMessages(g)
  /\ UNCHANGED <<shuttingDown, timers, closeFile>>

CloseStdin(g) == closeFile' = [closeFile EXCEPT ![g] = TRUE]

QueuedTask(s, t) == [s EXCEPT !.pendingTasks = Append(@, t)]

EnqueueTask(g, t) ==
  /\ \/ /\ \/ shuttingDown
           \/ groups[g].runningTask = t
           \/ Pends(groups[g], t)
        /\ UNCHANGED <<queueVars, closeFile>>
     \/ /\ ~shuttingDown
        /\ groups[g].runningTask # t
        /\ ~Pends(groups[g], t)
        /\ \/ /\ groups[g].active
              /\ groups' = [groups EXCEPT ![g] = QueuedTask(@, t)]
              /\ IF groups[g].idleWaiting THEN CloseStdin(g) ELSE UNCHANGED closeFile
              /\ UNCHANGED <<activeCount, waitingGroups, runs>>
           \/ /\ ~groups[g].active
              /\ activeCount >= MaxConcurrent
              /\ Park(g, QueuedTask(groups[g], t))
              /\ UNCHANGED closeFile
           \/ /\ ~groups[g].active
              /\ activeCount < MaxConcurrent
              /\ StartOne(g, StartedTask(groups[g], t), t)
              /\ UNCHANGED closeFile
  /\ UNCHANGED <<shuttingDown, timers>>

\* Mutant: the callback only sets the flag.
NotifyIdleQuietly(g) ==
  /\ \E i \in DOMAIN runs[g] : Begun(runs[g][i])
  /\ groups' = [groups EXCEPT ![g].idleWaiting = TRUE]
  /\ UNCHANGED <<activeCount, waitingGroups, shuttingDown, runs, timers, closeFile>>

\* Called by the output callback of a run of g, never by anyone else.
NotifyIdle(g) ==
  /\ \E i \in DOMAIN runs[g] : Begun(runs[g][i])
  /\ groups' = [groups EXCEPT ![g].idleWaiting = TRUE]
  /\ IF groups[g].pendingTasks # <<>> THEN CloseStdin(g) ELSE UNCHANGED closeFile
  /\ UNCHANGED <<activeCount, waitingGroups, shuttingDown, runs, timers>>

\* The agent process of a run finds the sentinel and removes it.
AgentReadsClose(g) ==
  /\ \E i \in DOMAIN runs[g] : Begun(runs[g][i])
  /\ closeFile[g]
  /\ closeFile' = [closeFile EXCEPT ![g] = FALSE]
  /\ UNCHANGED <<queueVars, shuttingDown, timers>>

-----------------------------------------------------------------------------
(* The coroutines.                                                         *)

BeginRun(g, i) ==
  /\ runs[g][i].phase = "created"
  /\ runs' = [runs EXCEPT ![g][i].phase = "running"]
  /\ UNCHANGED <<groups, activeCount, waitingGroups, shuttingDown, timers, closeFile>>

\* Past its budget the count starts again from zero and nothing is scheduled.
ScheduledRetry(s) ==
  [s EXCEPT !.retryCount = IF @ + 1 > MaxRetries THEN 0 ELSE @ + 1]

\* Mutant: no return after the budget is spent.
ScheduleTimerAlways(g) == timers' = [timers EXCEPT ![g] = @ + 1]

ScheduleTimer(g) ==
  timers' = IF groups[g].retryCount + 1 > MaxRetries
              THEN timers
              ELSE [timers EXCEPT ![g] = @ + 1]

(* A coroutine may reach its end without ever suspending, hence "created". *)
(* One that was cancelled while it awaited may still end like any other:   *)
(* the awaited result can be there before the cancellation is delivered.   *)
MayEnd(r) == r.phase # "stillborn"
RunIsMessages(g, i) == runs[g][i].task = NoTask /\ MayEnd(runs[g][i])

MessagesSucceed(g, i) ==
  /\ RunIsMessages(g, i)
  /\ EndRun(g, i, [groups[g] EXCEPT !.retryCount = 0, !.active = FALSE])
  /\ UNCHANGED <<shuttingDown, timers, closeFile>>

\* process_group_messages returned False or raised.
MessagesFail(g, i) ==
  /\ RunIsMessages(g, i)
  /\ ScheduleTimer(g)
  /\ EndRun(g, i, [ScheduledRetry(groups[g]) EXCEPT !.active = FALSE])
  /\ UNCHANGED <<shuttingDown, closeFile>>

MessagesCancelled(g, i) ==
  /\ RunIsMessages(g, i)
  /\ runs[g][i].phase = "cancelling"
  /\ EndRun(g, i, [groups[g] EXCEPT !.active = FALSE])
  /\ UNCHANGED <<shuttingDown, timers, closeFile>>

\* Returning, raising and being cancelled all pass through the finally clause.
TaskEnds(g, i) ==
  /\ runs[g][i].task # NoTask
  /\ MayEnd(runs[g][i])
  /\ EndRun(g, i, [groups[g] EXCEPT !.active = FALSE, !.idleWaiting = FALSE,
                                    !.isTaskContainer = FALSE, !.runningTask = NoTask])
  /\ UNCHANGED <<shuttingDown, timers, closeFile>>

RetryFires(g) ==
  /\ timers[g] > 0
  /\ timers' = [timers EXCEPT ![g] = @ - 1]
  /\ CheckMessages(g)
  /\ UNCHANGED <<shuttingDown, closeFile>>

(* A coroutine cancelled before its first statement ends without running   *)
(* its finally clause: the group stays active and its slot taken, for good. *)
RunNeverBegins(g, i) ==
  /\ runs[g][i].phase = "stillborn"
  /\ runs' = WithoutRun(g, i)
  /\ UNCHANGED <<groups, activeCount, waitingGroups, shuttingDown, timers, closeFile>>

\* Every background coroutine is cancelled, the sleeping retries included.
Cancelled(r) ==
  [r EXCEPT !.phase = IF @ = "created" THEN "stillborn" ELSE "cancelling"]

Shutdown ==
  /\ ~shuttingDown
  /\ shuttingDown' = TRUE
  /\ runs' = [g \in Groups |-> [i \in DOMAIN runs[g] |-> Cancelled(runs[g][i])]]
  /\ timers' = [g \in Groups |-> 0]
  /\ UNCHANGED <<groups, activeCount, waitingGroups, closeFile>>

-----------------------------------------------------------------------------
Init ==
  /\ groups = [g \in Groups |-> FreshGroup]
  /\ activeCount = 0
  /\ waitingGroups = <<>>
  /\ shuttingDown = FALSE
  /\ runs = [g \in Groups |-> <<>>]
  /\ timers = [g \in Groups |-> 0]
  /\ closeFile = [g \in Groups |-> FALSE]

RunEnds(g, i) ==
  \/ MessagesSucceed(g, i)
  \/ MessagesFail(g, i)
  \/ MessagesCancelled(g, i)
  \/ TaskEnds(g, i)
  \/ RunNeverBegins(g, i)

Next ==
  \/ \E g \in Groups : EnqueueMessageCheck(g)
  \/ \E g \in Groups, t \in Tasks : EnqueueTask(g, t)
  \/ \E g \in Groups : NotifyIdle(g)
  \/ \E g \in Groups : AgentReadsClose(g)
  \/ \E g \in Groups : \E i \in DOMAIN runs[g] : BeginRun(g, i)
  \/ \E g \in Groups : \E i \in DOMAIN runs[g] : RunEnds(g, i)
  \/ \E g \in Groups : RetryFires(g)
  \/ Shutdown

Spec == Init /\ [][Next]_vars

-----------------------------------------------------------------------------
(* Properties.                                                             *)

TypeOK ==
  /\ groups \in [Groups -> GroupState]
  /\ activeCount \in 0 .. MaxConcurrent
  /\ waitingGroups \in Seq(Groups)
  /\ shuttingDown \in BOOLEAN
  /\ runs \in [Groups -> Seq(Run)]
  /\ timers \in [Groups -> Nat]
  /\ closeFile \in [Groups -> BOOLEAN]

Live(g) == runs[g] # <<>>

(* A group never has two runs at once, whether of messages or of tasks     *)
(* (its runs share a working directory, a session and an inbox).           *)
SerialExecution == \A g \in Groups : Len(runs[g]) <= 1

(* No more than MaxConcurrent groups run at once.                          *)
ConcurrencyLimit == Cardinality({g \in Groups : Live(g)}) <= MaxConcurrent

(* The slot counter is exactly the number of groups marked active, and     *)
(* until shutdown a group is marked active exactly while a run of it is    *)
(* alive: no ending of a run leaks a slot or frees one twice.              *)
SlotAccounting ==
  /\ activeCount = Cardinality({g \in Groups : groups[g].active})
  /\ ~shuttingDown => \A g \in Groups : groups[g].active <=> Live(g)

(* Until shutdown, pending work always has someone who will look at it: a  *)
(* live run of the group, which drains when it ends, or the group's place  *)
(* in the waiting line.                                                    *)
NoLostWakeup ==
  ~shuttingDown =>
    \A g \in Groups : HasPending(groups[g]) => Live(g) \/ Waits(g)

(* Until shutdown, a group waits in the line only while every slot is      *)
(* really used, only once, and only when it is idle and has work to do.    *)
WorkConserving ==
  ~shuttingDown =>
    /\ waitingGroups # <<>> => Cardinality({g \in Groups : Live(g)}) = MaxConcurrent
    /\ \A i, j \in DOMAIN waitingGroups : waitingGroups[i] = waitingGroups[j] => i = j
    /\ \A g \in Groups : Waits(g) => ~Live(g) /\ HasPending(groups[g])

(* A task id is in the hands of its group at most once: queued, or run,    *)
(* which is what enqueue_task's two guards are for, however often the      *)
(* scheduler finds the task due meanwhile.                                 *)
TaskOnce ==
  \A g \in Groups :
    /\ \A i, j \in DOMAIN groups[g].pendingTasks :
         groups[g].pendingTasks[i] = groups[g].pendingTasks[j] => i = j
    /\ \A r \in DOMAIN runs[g] : runs[g][r].task # NoTask =>
         ~Pends(groups[g], runs[g][r].task)

(* After shutdown no coroutine of a run is ever created again, whichever   *)
(* way the cancelled ones end and whatever is enqueued meanwhile.          *)
NoStartAfterShutdown ==
  [][shuttingDown => \A g \in Groups : Len(runs'[g]) <= Len(runs[g])]_vars

(* A task never queues up behind an idle run in silence: whichever of      *)
(* notify_idle and enqueue_task comes second writes the close sentinel.    *)
BehindIdle(g) ==
  Live(g) /\ groups[g].idleWaiting /\ groups[g].pendingTasks # <<>>

IdleRunIsAsked ==
  [][\A g \in Groups : BehindIdle(g)' /\ ~BehindIdle(g) => closeFile'[g]]_vars

(* What is left to do for a group: its jobs (a sleeping retry, a queued    *)
(* task, a queued message check, a run), and how many more steps of the    *)
(* dispatcher those jobs can take without one of them coming to its end.   *)
Count(b) == IF b THEN 1 ELSE 0
Queued(s) == Len(s.pendingTasks) + Count(s.pendingMessages)
Unbegun(r) == Count(\E i \in DOMAIN r : r[i].phase = "created")

Jobs(g) == timers[g] + Queued(groups[g]) + Len(runs[g])

Effort(g) ==
  4 * (MaxRetries - groups[g].retryCount) + 3 * timers[g]
  + 2 * Queued(groups[g]) + Unbegun(runs[g])

NothingAdded(g) == Jobs(g)' = Jobs(g) /\ Effort(g)' = Effort(g)
NearerToRest(g) ==
  \/ Jobs(g)' < Jobs(g)
  \/ Jobs(g)' = Jobs(g) /\ Effort(g)' < Effort(g)

OwnStep ==
  \E g \in Groups :
    \/ RetryFires(g)
    \/ \E i \in DOMAIN runs[g] : BeginRun(g, i) \/ RunEnds(g, i)

(* Whatever the dispatcher does by itself uses work up: a step of it that  *)
(* was not called for brings some group nearer to rest and makes no work   *)
(* for any other, so between two calls it takes finitely many steps, even  *)
(* if every run fails and every retry finds the group busy again.          *)
WorkRunsOut ==
  [][OwnStep =>
       /\ \A h \in Groups : NothingAdded(h) \/ NearerToRest(h)
       /\ \E h \in Groups : NearerToRest(h)]_vars

(* The dispatcher implements Dispatcher: every handler, and every way a    *)
(* coroutine can end, is one of its steps or changes nothing it shows.  In *)
(* particular nobody overtakes in the waiting line: the first of it gets   *)
(* the slot, unless the group that has just ended has more to do.          *)
PendingJobs(s) ==
  {s.pendingTasks[i] : i \in DOMAIN s.pendingTasks} \cup
  (IF s.pendingMessages THEN {NoTask} ELSE {})
RunJobs(r) == {r[i].task : i \in DOMAIN r}

Todo == [g \in Groups |-> PendingJobs(groups[g])]
Doing == [g \in Groups |-> RunJobs(runs[g])]

D == INSTANCE Dispatcher WITH
       Messages <- NoTask, todo <- Todo, doing <- Doing,
       line <- waitingGroups, stopped <- shuttingDown

Dispatches == D!Spec

=============================================================================
