------------------------------ MODULE TaskFlow ------------------------------
(***************************************************************************)
(* The way of a scheduled task: an agent's request reaches ipc.py, which   *)
(* writes the scheduled_tasks table of db.py; task_scheduler.py polls the  *)
(* table for due rows and gives each to the dispatcher (GroupQueue) with a *)
(* snapshot of its row; the run that comes of it records its result and    *)
(* the next due time.  Pausing, resuming, cancelling and creating a task   *)
(* can happen between any two of these steps, and so can a crash.  An id   *)
(* has one chat, one schedule type and one period in all its lives; in the *)
(* code an agent may create a cancelled id again for another chat, where   *)
(* enqueue_task does not see what the first chat still has of it, and the  *)
(* properties say nothing of that.                                         *)
(***************************************************************************)
EXTENDS Integers, Sequences, FiniteSets

CONSTANTS
  Groups, Tasks, NoTask, MaxConcurrent,   \* of the dispatcher
  ChatOf,          \* chat_jid of a task
  Kind,            \* its schedule_type: once, interval or cron
  MaxPeriod,       \* bound: the interval or cycle of a task
  Period,          \* the interval; a cron task is due once every Period,
  CronOffset,      \* at this offset in TIMEZONE, and at 0 in UTC
  BadFolder,       \* tasks whose group folder is not a valid name
  MaxClock,        \* bound: the clock
  MaxGens,         \* bound: how often a task id is created
  MaxChats,        \* bound: message checks
  MaxStops         \* bound: crashes and shutdowns

ASSUME TaskFlowAssumption ==
  /\ IsFiniteSet(Groups) /\ NoTask \notin Tasks /\ MaxConcurrent \in Nat \ {0}
  /\ ChatOf \in [Tasks -> Groups]
  /\ Kind \in [Tasks -> {"once", "interval", "cron"}]
  /\ Period \in [Tasks -> 1 .. MaxPeriod]
  /\ BadFolder \subseteq Tasks
  /\ {MaxPeriod, CronOffset, MaxClock, MaxGens, MaxChats, MaxStops} \subseteq Nat

VARIABLES
  groups, activeCount, waitingGroups, shuttingDown, runs, timers, closeFile,
  clock,
  row,             \* scheduled_tasks: status, and next_run or 0 for NULL
  snapshot,        \* the row a queued or running closure has captured
  up,              \* the process is running
  watching,        \* the IPC watcher's loop is alive
  polling,         \* due rows that run_once has yet to enqueue
  chats, stops,    \* calls of enqueue_message_check; crashes and shutdowns
  gen,             \* history: how often the id was created
  first,           \* history: next_run at creation
  recorded,        \* history: the occurrences whose run was recorded
  late,            \* history: starts while not active, since the last request
  crossed          \* history: ids whose row a run of an older row has written

Q == INSTANCE GroupQueue WITH MaxRetries <- 0

queue == <<groups, activeCount, waitingGroups, shuttingDown, runs, timers, closeFile>>
bounds == <<chats, stops>>
history == <<gen, first, recorded, late, crossed>>
vars == <<queue, clock, row, snapshot, up, watching, polling, bounds, history>>

-----------------------------------------------------------------------------
(* Times.  What computes one is the set of its results: one element.       *)

Times == 1 .. MaxClock + MaxPeriod
Earliest(S) == {x \in S : \A y \in S : x <= y}

NextCron(t, offset) == Earliest({x \in Times : x > clock /\ (x - offset) % Period[t] = 0})

\* compute_next_run: an interval keeps its phase and skips what was missed.
NextInterval(t, scheduled) ==
  Earliest({x \in Times : x > clock /\ x >= scheduled /\ (x - scheduled) % Period[t] = 0})

\* Mutants: the interval counts from now, or is added just once; the cron
\* expression is always read in UTC.
ComputeFromNow(t, scheduled) ==
  CASE Kind[t] = "once" -> {0}
    [] Kind[t] = "interval" -> {clock + Period[t]}
    [] Kind[t] = "cron" -> NextCron(t, CronOffset)

ComputeNoCatchUp(t, scheduled) ==
  CASE Kind[t] = "once" -> {0}
    [] Kind[t] = "interval" -> {scheduled + Period[t]}
    [] Kind[t] = "cron" -> NextCron(t, CronOffset)

ComputeInUtc(t, scheduled) ==
  CASE Kind[t] = "once" -> {0}
    [] Kind[t] = "interval" -> NextInterval(t, scheduled)
    [] Kind[t] = "cron" -> NextCron(t, 0)

ComputeNextRun(t, scheduled) ==
  CASE Kind[t] = "once" -> {0}
    [] Kind[t] = "interval" -> NextInterval(t, scheduled)
    [] Kind[t] = "cron" -> NextCron(t, CronOffset)

\* _compute_first_run; a once task may well lie in the past, and the first
\* time of a cron task is found in UTC.
FirstRuns(t) ==
  CASE Kind[t] = "once" -> 1 .. MaxClock
    [] Kind[t] = "interval" -> {clock + Period[t]}
    [] Kind[t] = "cron" -> NextCron(t, 0)

Row == [status : {"none", "active", "paused", "completed"}, next : {0} \cup Times]
NoClosure == [next |-> 0, gen |-> 0]
NoRow == [status |-> "none", next |-> 0]
Exists(t) == row[t].status # "none"

\* Mutant: the status is not asked for.
DueAnyStatus(t) == row[t].next # 0 /\ row[t].next <= clock

Due(t) == row[t].status = "active" /\ row[t].next # 0 /\ row[t].next <= clock

Serving == up /\ polling = {}

-----------------------------------------------------------------------------
(* Requests of agents, read by the IPC watcher.                            *)

ipcFrame == <<queue, clock, snapshot, up, polling, bounds>>

Schedule(t) ==
  /\ Serving /\ watching
  /\ ~Exists(t) /\ gen[t] < MaxGens
  /\ \E n \in FirstRuns(t) :
       /\ row' = [row EXCEPT ![t] = [status |-> "active", next |-> n]]
       /\ first' = [first EXCEPT ![t] = n]
  /\ gen' = [gen EXCEPT ![t] = @ + 1]
  /\ late' = [late EXCEPT ![t] = 0]
  /\ crossed' = crossed \ {t}
  /\ UNCHANGED <<ipcFrame, watching, recorded>>

\* The INSERT of an id that exists raises, and nobody catches it.
ScheduleAgain(t) ==
  /\ Serving /\ watching
  /\ Exists(t)
  /\ watching' = FALSE
  /\ UNCHANGED <<ipcFrame, row, history>>

SetStatus(t, status) ==
  /\ Serving /\ watching
  /\ Exists(t)
  /\ row' = [row EXCEPT ![t].status = status]
  /\ late' = [late EXCEPT ![t] = 0]
  /\ UNCHANGED <<ipcFrame, watching, gen, first, recorded, crossed>>

Pause(t) == SetStatus(t, "paused")
Resume(t) == SetStatus(t, "active")

Cancel(t) ==
  /\ Serving /\ watching
  /\ Exists(t)
  /\ row' = [row EXCEPT ![t] = NoRow]
  /\ late' = [late EXCEPT ![t] = 0]
  /\ UNCHANGED <<ipcFrame, watching, gen, first, recorded, crossed>>

-----------------------------------------------------------------------------
(* The scheduler.                                                          *)

\* run_once enqueues all that is due without an await, in order of next_run.
Poll ==
  /\ Serving
  /\ polling' = {t \in Tasks : Due(t)}
  /\ polling' # {}
  /\ UNCHANGED <<queue, clock, row, snapshot, up, watching, bounds, history>>

\* The closure is dropped when the dispatcher already has the task.
Accepts(t) ==
  ~shuttingDown /\ groups[ChatOf[t]].runningTask # t /\ ~Q!Pends(groups[ChatOf[t]], t)

PollOne(t) ==
  /\ t \in polling
  /\ \A u \in polling : row[t].next <= row[u].next
  /\ polling' = polling \ {t}
  /\ Q!EnqueueTask(ChatOf[t], t)
  /\ snapshot' = IF Accepts(t)
                   THEN [snapshot EXCEPT ![t] = [next |-> row[t].next, gen |-> gen[t]]]
                   ELSE snapshot
  /\ UNCHANGED <<clock, row, up, watching, bounds, history>>

-----------------------------------------------------------------------------
(* The run: _run_and_record inside _run_task.                              *)

runFrame == <<clock, up, watching, polling, bounds>>

\* The closure is gone, unless another one of the same task is queued.
Released(t) ==
  IF Q!Pends(groups[ChatOf[t]], t) THEN snapshot ELSE [snapshot EXCEPT ![t] = NoClosure]
Occurrence(t) == <<t, snapshot[t].gen, snapshot[t].next>>

\* The row is not looked at again: the snapshot decides.
BeginTask(g, i) ==
  LET t == runs[g][i].task
  IN  /\ Serving
      /\ t \in Tasks \ BadFolder
      /\ Q!BeginRun(g, i)
      /\ late' = IF row[t].status = "active" /\ gen[t] = snapshot[t].gen
                   THEN late ELSE [late EXCEPT ![t] = @ + 1]
      /\ UNCHANGED <<runFrame, snapshot, row, gen, first, recorded, crossed>>

RejectTask(g, i) ==
  LET t == runs[g][i].task
  IN  /\ Serving
      /\ t \in BadFolder
      /\ runs[g][i].phase = "created"
      /\ row' = IF Exists(t) THEN [row EXCEPT ![t].status = "paused"] ELSE row
      /\ snapshot' = Released(t)
      /\ Q!TaskEnds(g, i)
      /\ UNCHANGED <<runFrame, history>>

\* Mutant: the due time is left as it was.
AfterRunStillDue(t, next) ==
  [status |-> IF next = 0 THEN "completed" ELSE row[t].status, next |-> row[t].next]

AfterRun(t, next) ==
  [status |-> IF next = 0 THEN "completed" ELSE row[t].status, next |-> next]

\* Success and error alike are logged and scheduled on.  The log's row is a
\* commit before that of update_task_after_run; it is left out, and a crash
\* between the two is, to the table of tasks, a crash before both.
FinishTask(g, i) ==
  LET t == runs[g][i].task
  IN  /\ Serving
      /\ t \in Tasks \ BadFolder
      /\ Q!Begun(runs[g][i])
      /\ \E next \in ComputeNextRun(t, snapshot[t].next) :
           row' = IF Exists(t) THEN [row EXCEPT ![t] = AfterRun(t, next)] ELSE row
      /\ recorded' = recorded \cup {Occurrence(t)}
      /\ crossed' = IF Exists(t) /\ gen[t] # snapshot[t].gen THEN crossed \cup {t} ELSE crossed
      /\ snapshot' = Released(t)
      /\ Q!TaskEnds(g, i)
      /\ UNCHANGED <<runFrame, gen, first, late>>

\* CancelledError passes through _run_and_record: nothing is recorded.
CancelTask(g, i) ==
  /\ Serving
  /\ runs[g][i].task \in Tasks
  /\ \/ runs[g][i].phase = "cancelling" /\ Q!TaskEnds(g, i)
     \/ Q!RunNeverBegins(g, i)
  /\ snapshot' = Released(runs[g][i].task)
  /\ UNCHANGED <<runFrame, row, history>>

-----------------------------------------------------------------------------
(* Everything else: message runs in the same groups, time, stops.          *)

otherFrame == <<row, snapshot, watching, polling, history>>

Chat(g) ==
  /\ Serving
  /\ chats < MaxChats /\ chats' = chats + 1
  /\ Q!EnqueueMessageCheck(g)
  /\ UNCHANGED <<otherFrame, clock, up, stops>>

MessageRun(g, i) ==
  /\ Serving
  /\ runs[g][i].task = NoTask
  /\ Q!BeginRun(g, i) \/ Q!MessagesSucceed(g, i) \/ Q!RunNeverBegins(g, i)
  /\ UNCHANGED <<otherFrame, clock, up, bounds>>

Tick ==
  /\ polling = {}
  /\ clock < MaxClock
  /\ clock' = clock + 1
  /\ UNCHANGED <<otherFrame, queue, up, bounds>>

StopSome == stops < MaxStops /\ stops' = stops + 1

Shutdown ==
  /\ Serving
  /\ StopSome
  /\ Q!Shutdown
  /\ UNCHANGED <<otherFrame, clock, up, chats>>

MemoryLost ==
  /\ groups' = [g \in Groups |-> Q!FreshGroup]
  /\ activeCount' = 0 /\ waitingGroups' = <<>> /\ shuttingDown' = FALSE
  /\ runs' = [g \in Groups |-> <<>>] /\ timers' = [g \in Groups |-> 0]
  /\ closeFile' = [g \in Groups |-> FALSE]
  /\ snapshot' = [t \in Tasks |-> NoClosure]
  /\ up' = FALSE
  /\ polling' = {}

Crash ==
  /\ up
  /\ StopSome
  /\ MemoryLost
  /\ UNCHANGED <<clock, row, watching, chats, history>>

Exit ==
  /\ up /\ shuttingDown
  /\ \A g \in Groups : runs[g] = <<>>
  /\ MemoryLost
  /\ UNCHANGED <<clock, row, watching, bounds, history>>

Start ==
  /\ ~up
  /\ up' = TRUE /\ watching' = TRUE
  /\ UNCHANGED <<queue, clock, row, snapshot, polling, bounds, history>>

-----------------------------------------------------------------------------
Init ==
  /\ Q!Init
  /\ clock = 0
  /\ row = [t \in Tasks |-> NoRow]
  /\ snapshot = [t \in Tasks |-> NoClosure]
  /\ up = FALSE /\ watching = FALSE /\ polling = {}
  /\ chats = 0 /\ stops = 0
  /\ gen = [t \in Tasks |-> 0] /\ first = [t \in Tasks |-> 0]
  /\ recorded = {} /\ late = [t \in Tasks |-> 0] /\ crossed = {}

Step(g, i) ==
  BeginTask(g, i) \/ RejectTask(g, i) \/ FinishTask(g, i) \/ CancelTask(g, i) \/ MessageRun(g, i)
Runs(g) == \E i \in DOMAIN runs[g] : Step(g, i)
Requests(t) == Schedule(t) \/ ScheduleAgain(t) \/ Pause(t) \/ Resume(t) \/ Cancel(t)

Next ==
  \/ \E t \in Tasks : Requests(t) \/ PollOne(t)
  \/ \E g \in Groups : Runs(g) \/ Chat(g)
  \/ Poll \/ Tick \/ Shutdown \/ Crash \/ Exit \/ Start

Spec == Init /\ [][Next]_vars

(* The scheduler's loop polls for ever, agents end, and a service manager  *)
(* restarts the process.  The event loop resumes ready coroutines in turn, *)
(* so polls that come in between do not keep a run from going on: strong   *)
(* fairness, for a run's step is not enabled in the midst of a poll.       *)
Fairness ==
  /\ \A g \in Groups : SF_vars(Runs(g))
  /\ \A t \in Tasks : WF_vars(PollOne(t))
  /\ WF_vars(Poll) /\ WF_vars(Start) /\ WF_vars(Exit)

FairSpec == Spec /\ Fairness
-----------------------------------------------------------------------------
(* Properties.                                                             *)

TypeOK ==
  /\ Q!TypeOK
  /\ clock \in 0 .. MaxClock
  /\ row \in [Tasks -> Row]
  /\ snapshot \in [Tasks -> [next : {0} \cup Times, gen : 0 .. MaxGens]]
  /\ up \in BOOLEAN /\ watching \in BOOLEAN /\ polling \subseteq Tasks
  /\ chats \in 0 .. MaxChats /\ stops \in 0 .. MaxStops
  /\ gen \in [Tasks -> 0 .. MaxGens] /\ first \in [Tasks -> {0} \cup Times]
  /\ recorded \subseteq (Tasks \X (1 .. MaxGens) \X Times)
  /\ late \in [Tasks -> Nat] /\ crossed \subseteq Tasks

(* An occurrence of a task whose run was recorded is never held by a run   *)
(* or by the dispatcher's queue again: however many polls find the row due *)
(* while the agent is still at work, and whatever is paused, resumed or    *)
(* restarted, it executes to its end once.                                 *)
Held(t) ==
  \/ Q!Pends(groups[ChatOf[t]], t)
  \/ \E i \in DOMAIN runs[ChatOf[t]] : runs[ChatOf[t]][i].task = t

OccurrenceOnce == \A t \in Tasks : Held(t) => Occurrence(t) \notin recorded

(* A task that was paused or cancelled can still start from the            *)
(* dispatcher's queue, which is not told of it, but only once: polls,      *)
(* crashes and other tasks' runs do not start it a second time.            *)
AtMostOneLateStart == \A t \in Tasks : late[t] <= 1

(* The due times of an interval task keep the phase of its creation over   *)
(* late, failed and missed runs; those of a cron task keep the phase of    *)
(* TIMEZONE after its first run, and that of UTC until then.  A run of an  *)
(* earlier task of the same id is the one thing that can disturb them.     *)
RanOnce(t) == \E n \in Times : <<t, gen[t], n>> \in recorded

KeepsPhase ==
  \A t \in Tasks : row[t].next # 0 /\ t \notin crossed =>
    /\ Kind[t] = "interval" => (row[t].next - first[t]) % Period[t] = 0
    /\ Kind[t] = "cron" =>
         (row[t].next - (IF RanOnce(t) THEN CronOffset ELSE 0)) % Period[t] = 0

(* A task is marked completed by its own run only, unless a run of an      *)
(* earlier task of the same id was still under way.                        *)
CompletedHasRun ==
  \A t \in Tasks : row[t].status = "completed" /\ t \notin crossed => RanOnce(t)

(* The due time of a row changes only when a run is recorded, and then it  *)
(* is out of reach of the next poll, or gone for good.                     *)
DueTimeMoves ==
  [][ \A t \in Tasks : Exists(t) /\ Exists(t)' /\ row'[t].next # row[t].next =>
        /\ Occurrence(t) \in recorded'
        /\ row'[t].next = 0 \/ row'[t].next > clock ]_vars

(* A task that is due is taken up: its row does not stay as it is for      *)
(* ever, whatever its group is busy with and through a crash.  (The        *)
(* dispatcher serves it; the run records it or rejects it.)                *)
DueIsServed == \A t \in Tasks : Due(t) ~> ~Due(t)

(* Cancelling or pausing a task that has not started keeps it from running.*)
InactiveNeverStarts == \A t \in Tasks : late[t] = 0

(* The task flow implements Scheduling: whatever the poll, the dispatcher, *)
(* message runs in the same group, requests and crashes do between them,   *)
(* seen from a task each step takes up a due occurrence, begins it, ends   *)
(* it with its next due time, loses it, or does not show.                  *)
HasBegun(t) ==
  \E i \in DOMAIN runs[ChatOf[t]] :
    runs[ChatOf[t]][i].task = t /\ Q!Begun(runs[ChatOf[t]][i])
InHand(t) == [next |-> snapshot[t].next, gen |-> snapshot[t].gen, begun |-> HasBegun(t)]
Hands == [t \in Tasks |-> IF Held(t) THEN {InHand(t)} ELSE {}]

Sch == INSTANCE Scheduling WITH hand <- Hands

Schedules == Sch!Spec
=============================================================================
