--------------------------- MODULE TaskFlowProofs ---------------------------
(***************************************************************************)
(* Theorems about TaskFlow, for any tasks, schedules and bounds, through   *)
(* crashes and restarts: an occurrence executes to its end once, a task    *)
(* starts late once at most, it is completed by its own run, and all that  *)
(* happens to it is what Scheduling allows.                                *)
(*                                                                         *)
(* QP is the dispatcher with its theorems.  The invariant speaks of one    *)
(* task at a time (TaskOK), so that a step has to be looked at for the     *)
(* task it is about, and leaves the others as they were.                   *)
(***************************************************************************)
EXTENDS TaskFlow, TLAPS

QP == INSTANCE GroupQueueProofs WITH MaxRetries <- 0

(* The constants are such as the dispatcher needs.                         *)
LEMMA ConstantsFit == QP!GroupQueueAssumption
BY TaskFlowAssumption DEF QP!GroupQueueAssumption, QP!IsFiniteSet, IsFiniteSet

-----------------------------------------------------------------------------
(* The dispatcher of TaskFlow, Q, is the one of the proofs.                *)

(* The entry points, the beginning of a run, and the shutdown.             *)
LEMMA SameSmall ==
  ASSUME NEW g, NEW t, NEW i
  PROVE  /\ Q!EnqueueMessageCheck(g) <=> QP!EnqueueMessageCheck(g)
         /\ Q!EnqueueTask(g, t) <=> QP!EnqueueTask(g, t)
         /\ Q!BeginRun(g, i) <=> QP!BeginRun(g, i)
         /\ Q!RunNeverBegins(g, i) <=> QP!RunNeverBegins(g, i)
         /\ Q!Shutdown <=> QP!Shutdown
BY DEF Q!EnqueueMessageCheck, QP!EnqueueMessageCheck, Q!CheckMessages, QP!CheckMessages,
       Q!EnqueueTask, QP!EnqueueTask, Q!QueuedTask, QP!QueuedTask, Q!Pends, QP!Pends,
       Q!CloseStdin, QP!CloseStdin, Q!StartOne, QP!StartOne, Q!Park, QP!Park, Q!Waits, QP!Waits,
       Q!StartedMessages, QP!StartedMessages, Q!StartedTask, QP!StartedTask, Q!NewRun, QP!NewRun,
       Q!queueVars, QP!queueVars, Q!BeginRun, QP!BeginRun, Q!RunNeverBegins, QP!RunNeverBegins,
       Q!WithoutRun, QP!WithoutRun, Q!Shutdown, QP!Shutdown, Q!Cancelled, QP!Cancelled

(* The endings of a run.                                                   *)
LEMMA SameEnds ==
  ASSUME NEW g, NEW i
  PROVE  /\ Q!MessagesSucceed(g, i) <=> QP!MessagesSucceed(g, i)
         /\ Q!TaskEnds(g, i) <=> QP!TaskEnds(g, i)
<1>1. ASSUME NEW S PROVE Q!Cardinality(S) = QP!Cardinality(S)
  BY DEF Q!Cardinality, QP!Cardinality
<1>2. ASSUME NEW s PROVE Q!EndRun(g, i, s) <=> QP!EndRun(g, i, s)
  BY <1>1 DEF Q!EndRun, QP!EndRun, Q!DrainGroup, QP!DrainGroup, Q!DrainWaiting, QP!DrainWaiting,
       Q!Launch, QP!Launch, Q!HasPending, QP!HasPending, Q!WithoutRun, QP!WithoutRun,
       Q!NewRun, QP!NewRun, Q!NextTask, QP!NextTask, Q!StartedNext, QP!StartedNext,
       Q!StartedTask, QP!StartedTask, Q!StartedMessages, QP!StartedMessages
<1>3. QED
  BY <1>2 DEF Q!MessagesSucceed, QP!MessagesSucceed, Q!TaskEnds, QP!TaskEnds,
       Q!RunIsMessages, QP!RunIsMessages, Q!MayEnd, QP!MayEnd

-----------------------------------------------------------------------------
(* Every step is one of the dispatcher, or leaves it alone, or is the end  *)
(* of the process, after which it starts afresh.                           *)
LEMMA StepsOfQueue ==
  ASSUME [Next]_vars
  PROVE  QP!Next \/ UNCHANGED queue \/ MemoryLost
<1>1. CASE UNCHANGED vars
  BY <1>1 DEF vars
<1>2. ASSUME NEW t \in Tasks, Requests(t) PROVE UNCHANGED queue
  BY <1>2 DEF Requests, Schedule, ScheduleAgain, Pause, Resume, SetStatus, Cancel, ipcFrame
<1>3. ASSUME NEW t \in Tasks, PollOne(t) PROVE QP!Next
  BY <1>3, SameSmall, TaskFlowAssumption DEF PollOne, QP!Next
<1>4. ASSUME NEW g \in Groups, NEW i \in DOMAIN runs[g], Step(g, i) PROVE QP!Next
  BY <1>4, SameSmall, SameEnds
     DEF Step, BeginTask, RejectTask, FinishTask, CancelTask, MessageRun, QP!Next, QP!RunEnds
<1>5. ASSUME NEW g \in Groups, Chat(g) PROVE QP!Next
  BY <1>5, SameSmall DEF Chat, QP!Next
<1>6. Poll \/ Tick \/ Start => UNCHANGED queue
  BY DEF Poll, Tick, Start
<1>7. Shutdown => QP!Next
  BY SameSmall DEF Shutdown, QP!Next
<1>8. Crash \/ Exit => MemoryLost
  BY DEF Crash, Exit
<1>9. QED
  BY <1>1, <1>2, <1>3, <1>4, <1>5, <1>6, <1>7, <1>8 DEF Next, Runs

(* The end of the process leaves a fresh dispatcher behind.                *)
LEMMA LostIsFresh == QP!IInv /\ MemoryLost => QP!IInv'
<1>1. MemoryLost => QP!Fresh'
  BY DEF MemoryLost, QP!Fresh, Q!FreshGroup, QP!FreshGroup
<1>2. QP!Fresh' => QP!QueueInv'
  BY QP!FreshOK, ConstantsFit, PTL
<1>3. QP!IInv /\ MemoryLost => /\ shuttingDown' \in BOOLEAN
                               /\ timers' \in [Groups -> Nat]
                               /\ closeFile' \in [Groups -> BOOLEAN]
  <2>1. 0 \in Nat
    OBVIOUS
  <2>2. QED
    BY <2>1 DEF QP!IInv, MemoryLost
<1>4. QED
  BY <1>1, <1>2, <1>3 DEF QP!IInv

(* So the dispatcher's invariant is kept by every step.                    *)
LEMMA QueueKeeps == QP!IInv /\ [Next]_vars => QP!IInv'
<1> SUFFICES ASSUME QP!IInv, [Next]_vars PROVE QP!IInv'
  OBVIOUS
<1>1. CASE QP!Next \/ UNCHANGED queue
  <2>1. QP!Next \/ UNCHANGED QP!vars
    BY <1>1 DEF queue, QP!vars
  <2>2. QP!IInv /\ [QP!Next]_(QP!vars) => QP!IInv'
    BY QP!NextIInv, ConstantsFit
  <2>3. QED
    BY <2>1, <2>2
<1>2. QED
  BY <1>1, StepsOfQueue, LostIsFresh

-----------------------------------------------------------------------------
(* The invariant.                                                          *)

DataOK ==
  /\ clock \in 0 .. MaxClock
  /\ row \in [Tasks -> Row]
  /\ snapshot \in [Tasks -> [next : {0} \cup Times, gen : 0 .. MaxGens]]
  /\ up \in BOOLEAN /\ watching \in BOOLEAN /\ polling \subseteq Tasks
  /\ chats \in 0 .. MaxChats /\ stops \in 0 .. MaxStops
  /\ gen \in [Tasks -> 0 .. MaxGens] /\ first \in [Tasks -> {0} \cup Times]
  /\ recorded \subseteq (Tasks \X (1 .. MaxGens) \X Times)
  /\ late \in [Tasks -> Nat] /\ crossed \subseteq Tasks

(* What the dispatcher holds of a task was due, is of one of its lives,    *)
(* and is not recorded yet.                                                *)
ClosureOK(t) ==
  /\ \A g \in Groups : QP!AtHand(g, t) => g = ChatOf[t]
  /\ QP!AtHand(ChatOf[t], t) =>
       /\ snapshot[t].next \in 1 .. clock
       /\ snapshot[t].gen \in 1 .. gen[t]
       /\ Occurrence(t) \notin recorded

(* What is recorded was due, and what is to come is not recorded.          *)
RecordOK(t) ==
  /\ \A k, n : <<t, k, n>> \in recorded => k <= gen[t] /\ n <= clock
  /\ Exists(t) => gen[t] >= 1
  /\ Exists(t) /\ row[t].next # 0 => <<t, gen[t], row[t].next>> \notin recorded

(* A task that has started late is not about to do so again.               *)
LateOK(t) ==
  /\ late[t] <= 1
  /\ late[t] >= 1 /\ QP!ToBegin(ChatOf[t], t) =>
       row[t].status = "active" /\ gen[t] = snapshot[t].gen

(* Due times, of rows and of closures, are in phase with the creation of   *)
(* the task they are of.                                                   *)
InPhase(t) ==
  /\ Kind[t] = "interval" => (row[t].next - first[t]) % Period[t] = 0
  /\ Kind[t] = "cron" =>
       (row[t].next - (IF RanOnce(t) THEN CronOffset ELSE 0)) % Period[t] = 0

PhaseOK(t) ==
  /\ ~Exists(t) => row[t].next = 0
  /\ row[t].next # 0 /\ t \notin crossed => InPhase(t)
  /\ QP!AtHand(ChatOf[t], t) /\ snapshot[t].gen = gen[t] /\ t \notin crossed =>
       (Kind[t] = "interval" => (snapshot[t].next - first[t]) % Period[t] = 0)

TaskOK(t) ==
  /\ ClosureOK(t) /\ RecordOK(t) /\ LateOK(t) /\ PhaseOK(t)
  /\ t \in polling => Due(t)
  /\ row[t].status = "completed" /\ t \notin crossed => RanOnce(t)

TaskInv == QP!IInv /\ DataOK /\ \A t \in Tasks : TaskOK(t)

(* A task that a step is not about: what it may do to it.                  *)
Untouched(t) ==
  /\ row'[t] = row[t] /\ gen'[t] = gen[t] /\ snapshot'[t] = snapshot[t] /\ late'[t] = late[t]
  /\ first'[t] = first[t]
  /\ t \in crossed => t \in crossed'
  /\ t \in polling' => t \in polling
  /\ recorded \subseteq recorded'
  /\ \A k, n : <<t, k, n>> \in recorded' => <<t, k, n>> \in recorded

(* What holds of a task goes on holding if the step is not about it.       *)
LEMMA UntouchedOK ==
  ASSUME DataOK, DataOK', clock <= clock', NEW t \in Tasks, TaskOK(t), Untouched(t),
         \A g \in Groups : QP!AtHand(g, t)' => QP!AtHand(g, t),
         QP!ToBegin(ChatOf[t], t)' => QP!ToBegin(ChatOf[t], t)
  PROVE  TaskOK(t)'
<1>1. ChatOf[t] \in Groups
  BY TaskFlowAssumption
<1>2. clock \in Nat /\ clock' \in Nat /\ gen[t] \in Nat
  BY DEF DataOK
<1>3. ClosureOK(t)'
  BY <1>1, <1>2 DEF TaskOK, Untouched, ClosureOK, Occurrence
<1>4. RecordOK(t)'
  <2>1. \A k, n : <<t, k, n>> \in recorded => n \in Nat
    BY DEF DataOK, Times
  <2>2. QED
    BY <1>2, <2>1 DEF TaskOK, Untouched, RecordOK, Exists
<1>5. LateOK(t)'
  BY DEF TaskOK, Untouched, LateOK
<1>6. t \in polling' => Due(t)'
  <2>1. row[t].next \in Nat
    BY DEF DataOK, Row, Times
  <2>2. QED
    BY <1>2, <2>1 DEF TaskOK, Untouched, Due
<1>7. row'[t].status = "completed" /\ t \notin crossed' => RanOnce(t)'
  BY DEF TaskOK, Untouched, RanOnce
<1>8. PhaseOK(t)'
  <2>1. RanOnce(t)' <=> RanOnce(t)
    BY DEF Untouched, RanOnce
  <2>2. QED
    BY <1>1, <2>1 DEF TaskOK, Untouched, PhaseOK, InPhase, Exists
<1>9. QED
  BY <1>3, <1>4, <1>5, <1>6, <1>7, <1>8 DEF TaskOK

(* A step that concerns no task.                                           *)
LEMMA NobodyTouched ==
  ASSUME TaskInv, QP!IInv', DataOK', clock <= clock', polling' \subseteq polling,
         UNCHANGED <<row, snapshot, history>>,
         QP!NoneComes
  PROVE  TaskInv'
<1>1. ASSUME NEW t \in Tasks PROVE TaskOK(t)'
  <2>1. Untouched(t)
    BY DEF Untouched, history
  <2>2. \A g \in Groups : QP!AtHand(g, t)' => QP!AtHand(g, t)
    BY DEF QP!NoneComes
  <2>3. QP!ToBegin(ChatOf[t], t)' => QP!ToBegin(ChatOf[t], t)
    BY TaskFlowAssumption DEF QP!NoneComes
  <2>4. QED
    BY <2>1, <2>2, <2>3, UntouchedOK DEF TaskInv
<1>2. QED
  BY <1>1 DEF TaskInv

(* A step that concerns one task: it is left to show what becomes of that. *)
LEMMA OneTouched ==
  ASSUME TaskInv, QP!IInv', DataOK', clock' = clock, NEW t \in Tasks,
         \A u \in Tasks \ {t} : Untouched(u) /\ \A g \in Groups :
           /\ QP!AtHand(g, u)' => QP!AtHand(g, u)
           /\ QP!ToBegin(g, u)' => QP!ToBegin(g, u),
         TaskOK(t)'
  PROVE  TaskInv'
<1>1. clock \in Nat /\ clock <= clock'
  BY DEF TaskInv, DataOK
<1>2. ASSUME NEW u \in Tasks \ {t} PROVE TaskOK(u)'
  <2>1. QP!ToBegin(ChatOf[u], u)' => QP!ToBegin(ChatOf[u], u)
    BY TaskFlowAssumption
  <2>2. QED
    BY <1>1, <2>1, UntouchedOK DEF TaskInv
<1>3. QED
  BY <1>2 DEF TaskInv

(* Nothing moves when the queue is left alone.                             *)
LEMMA QueueStays == UNCHANGED queue => QP!NoneComes
BY DEF queue, QP!NoneComes, QP!AtHand, QP!ToBegin

-----------------------------------------------------------------------------
(* Steps that concern no task.                                             *)

(* Messages, time, a start, a shutdown, and the request the watcher dies of. *)
LEMMA OthersKeep ==
  ASSUME TaskInv, QP!IInv',
         \/ \E g \in Groups : Chat(g) \/ \E i \in DOMAIN runs[g] : MessageRun(g, i)
         \/ \E t \in Tasks : ScheduleAgain(t)
         \/ Tick \/ Start \/ Shutdown
  PROVE  TaskInv'
<1>1. clock \in Nat /\ MaxClock \in Nat
  BY TaskFlowAssumption DEF TaskInv, DataOK
<1>2. /\ UNCHANGED <<row, snapshot, history>> /\ polling' = polling
      /\ clock' \in {clock, clock + 1} /\ clock' \in 0 .. MaxClock
      /\ up' \in BOOLEAN /\ watching' \in BOOLEAN
      /\ chats' \in 0 .. MaxChats /\ stops' \in 0 .. MaxStops
  <2>1. ASSUME NEW g \in Groups, Chat(g)
        PROVE  /\ UNCHANGED <<otherFrame, clock, up, stops>>
               /\ chats' \in 0 .. MaxChats
    BY <2>1, TaskFlowAssumption DEF Chat, TaskInv, DataOK
  <2>2. ASSUME NEW g \in Groups, NEW i \in DOMAIN runs[g], MessageRun(g, i)
        PROVE  UNCHANGED <<otherFrame, clock, up, bounds>>
    BY <2>2 DEF MessageRun
  <2>3. ASSUME NEW t \in Tasks, ScheduleAgain(t)
        PROVE  UNCHANGED <<row, history, clock, snapshot, up, polling, bounds>> /\ watching' = FALSE
    BY <2>3 DEF ScheduleAgain, ipcFrame
  <2>4. Tick => /\ UNCHANGED <<otherFrame, up, bounds>>
                /\ clock' = clock + 1 /\ clock' \in 0 .. MaxClock
    BY <1>1 DEF Tick
  <2>5. Start => UNCHANGED <<clock, row, snapshot, polling, bounds, history>> /\ up' /\ watching'
    BY DEF Start
  <2>6. Shutdown => UNCHANGED <<otherFrame, clock, up, chats>> /\ stops' \in 0 .. MaxStops
    BY TaskFlowAssumption DEF Shutdown, StopSome, TaskInv, DataOK
  <2>7. QED
    BY <2>1, <2>2, <2>3, <2>4, <2>5, <2>6 DEF otherFrame, bounds, TaskInv, DataOK
<1>3. DataOK'
  BY <1>2 DEF TaskInv, DataOK, history
<1>4. QP!NoneComes
  <2>1. QP!QueueInv
    BY DEF TaskInv, QP!IInv
  <2>2. ASSUME NEW g \in Groups, Chat(g) PROVE QP!NoneComes
    BY <2>1, <2>2, SameSmall, QP!CheckTakes, ConstantsFit DEF Chat, QP!EnqueueMessageCheck
  <2>3. ASSUME NEW g \in Groups, NEW i \in DOMAIN runs[g], MessageRun(g, i) PROVE QP!NoneComes
    <3>1. QP!BeginRun(g, i) \/ QP!RunEnds(g, i)
      BY <2>3, SameSmall, SameEnds DEF MessageRun, QP!RunEnds
    <3>2. QED
      BY <2>1, <3>1, QP!BeginTakes, QP!RunEndTakes, ConstantsFit
  <2>4. Shutdown => QP!NoneComes
    BY <2>1, SameSmall, QP!ShutdownTakes, ConstantsFit DEF Shutdown
  <2>5. Tick \/ Start \/ (\E t \in Tasks : ScheduleAgain(t)) => QP!NoneComes
    BY QueueStays DEF Tick, Start, ScheduleAgain, ipcFrame
  <2>6. QED
    BY <2>2, <2>3, <2>4, <2>5
<1>5. QED
  BY <1>1, <1>2, <1>3, <1>4, NobodyTouched

(* A poll finds due rows.                                                  *)
LEMMA PollKeeps ==
  ASSUME TaskInv, QP!IInv', Poll
  PROVE  TaskInv'
<1>1. /\ UNCHANGED <<queue, clock, row, snapshot, up, watching, bounds, history>>
      /\ polling' = {t \in Tasks : Due(t)}
  BY DEF Poll
<1>2. DataOK'
  BY <1>1 DEF TaskInv, DataOK, bounds, history
<1>3. ASSUME NEW t \in Tasks PROVE TaskOK(t)'
  <2>1. TaskOK(t)
    BY DEF TaskInv
  <2>2. ClosureOK(t)' /\ LateOK(t)' /\ PhaseOK(t)'
    <3>1. \A g : (QP!AtHand(g, t)' <=> QP!AtHand(g, t)) /\ (QP!ToBegin(g, t)' <=> QP!ToBegin(g, t))
      BY <1>1 DEF queue, QP!AtHand, QP!ToBegin
    <3>2. ClosureOK(t)' /\ LateOK(t)'
      BY <1>1, <2>1, <3>1 DEF TaskOK, ClosureOK, LateOK, Occurrence, history
    <3>3. PhaseOK(t)'
      BY <1>1, <2>1, <3>1 DEF TaskOK, PhaseOK, InPhase, RanOnce, Exists, history
    <3>4. QED
      BY <3>2, <3>3
  <2>3. RecordOK(t)'
    BY <1>1, <2>1 DEF TaskOK, RecordOK, Exists, history
  <2>4. t \in polling' => Due(t)'
    BY <1>1 DEF Due
  <2>5. row'[t].status = "completed" /\ t \notin crossed' => RanOnce(t)'
    BY <1>1, <2>1 DEF TaskOK, RanOnce, history
  <2>6. QED
    BY <2>2, <2>3, <2>4, <2>5 DEF TaskOK
<1>4. QED
  BY <1>2, <1>3 DEF TaskInv

(* The end of the process: the dispatcher holds nothing any more.          *)
LEMMA LostKeeps ==
  ASSUME TaskInv, QP!IInv', Crash \/ Exit
  PROVE  TaskInv'
<1>1. MemoryLost /\ UNCHANGED <<clock, row, watching, chats, history>> /\ stops' \in 0 .. MaxStops
  BY TaskFlowAssumption DEF Crash, Exit, StopSome, bounds, TaskInv, DataOK
<1>2. DataOK'
  <2>1. NoClosure \in [next : {0} \cup Times, gen : 0 .. MaxGens]
    BY TaskFlowAssumption DEF NoClosure
  <2>2. QED
    BY <1>1, <2>1 DEF MemoryLost, TaskInv, DataOK, history
<1>3. ASSUME NEW t \in Tasks PROVE TaskOK(t)'
  <2>1. TaskOK(t) /\ ChatOf[t] \in Groups
    BY TaskFlowAssumption DEF TaskInv
  <2>2. \A g \in Groups : ~QP!AtHand(g, t)' /\ ~QP!ToBegin(g, t)'
    BY <1>1 DEF MemoryLost, Q!FreshGroup, QP!AtHand, QP!ToBegin, QP!Pends
  <2>3. ClosureOK(t)' /\ LateOK(t)' /\ PhaseOK(t)'
    <3>1. ClosureOK(t)' /\ LateOK(t)'
      BY <1>1, <2>1, <2>2 DEF TaskOK, ClosureOK, LateOK, history
    <3>2. PhaseOK(t)'
      BY <1>1, <2>1, <2>2 DEF TaskOK, PhaseOK, InPhase, RanOnce, Exists, history
    <3>3. QED
      BY <3>1, <3>2
  <2>4. RecordOK(t)'
    BY <1>1, <2>1 DEF TaskOK, RecordOK, Exists, history
  <2>5. t \notin polling'
    BY <1>1 DEF MemoryLost
  <2>6. row'[t].status = "completed" /\ t \notin crossed' => RanOnce(t)'
    BY <1>1, <2>1 DEF TaskOK, RanOnce, history
  <2>7. QED
    BY <2>3, <2>4, <2>5, <2>6 DEF TaskOK
<1>4. QED
  BY <1>2, <1>3 DEF TaskInv

-----------------------------------------------------------------------------
(* Requests.                                                               *)

(* A due time is a time, and a next one lies ahead.                        *)
LEMMA TimesFit ==
  ASSUME DataOK, NEW t \in Tasks
  PROVE  /\ FirstRuns(t) \subseteq Times
         /\ \A s : \A n \in ComputeNextRun(t, s) : n \in {0} \cup Times /\ (n = 0 \/ n > clock)
         /\ \A n \in Times : n # 0
<1>1. \A S : Earliest(S) \subseteq S
  BY DEF Earliest
<1>2. clock \in 0 .. MaxClock /\ MaxClock \in Nat /\ Period[t] \in 1 .. MaxPeriod /\ MaxPeriod \in Nat
  BY TaskFlowAssumption DEF DataOK
<1>3. clock + Period[t] \in Times /\ 1 .. MaxClock \subseteq Times /\ \A n \in Times : n # 0
  BY <1>2 DEF Times
<1>4. \A o : \A n \in NextCron(t, o) : n \in Times /\ n > clock
  BY <1>1 DEF NextCron
<1>5. \A s : \A n \in NextInterval(t, s) : n \in Times /\ n > clock
  BY <1>1 DEF NextInterval
<1>6. Kind[t] \in {"once", "interval", "cron"}
  BY TaskFlowAssumption
<1>7. FirstRuns(t) \subseteq Times
  BY <1>3, <1>4, <1>6 DEF FirstRuns
<1>8. \A s : \A n \in ComputeNextRun(t, s) : n \in {0} \cup Times /\ (n = 0 \/ n > clock)
  BY <1>4, <1>5, <1>6 DEF ComputeNextRun
<1>9. QED
  BY <1>3, <1>7, <1>8

(* A request touches its own task alone, and the queue not at all.         *)
LEMMA RequestTouches ==
  ASSUME TaskInv, NEW t \in Tasks, Schedule(t) \/ Pause(t) \/ Resume(t) \/ Cancel(t)
  PROVE  /\ QP!NoneComes /\ clock' = clock /\ polling = {} /\ polling' = {} /\ late'[t] = 0
         /\ snapshot' = snapshot /\ recorded' = recorded
         /\ \A u : QP!AtHand(ChatOf[u], u)' <=> QP!AtHand(ChatOf[u], u)
         /\ \A u \in Tasks \ {t} : Untouched(u)
<1>1. /\ UNCHANGED <<queue, clock, snapshot, polling, recorded>> /\ polling = {}
      /\ late' = [late EXCEPT ![t] = 0]
      /\ crossed' = crossed \/ crossed' = crossed \ {t}
      /\ gen' = gen \/ gen' = [gen EXCEPT ![t] = @ + 1]
      /\ \A u \in Tasks \ {t} : row'[u] = row[u] /\ first'[u] = first[u]
  BY DEF Schedule, Pause, Resume, SetStatus, Cancel, ipcFrame, Serving, TaskInv, DataOK
<1>2. QP!NoneComes /\ \A u : QP!AtHand(ChatOf[u], u)' <=> QP!AtHand(ChatOf[u], u)
  BY <1>1, QueueStays DEF queue, QP!AtHand
<1>3. late'[t] = 0
  BY <1>1 DEF TaskInv, DataOK
<1>4. \A u \in Tasks \ {t} : Untouched(u)
  BY <1>1 DEF Untouched, TaskInv, DataOK
<1>5. QED
  BY <1>1, <1>2, <1>3, <1>4

(* Creating a task.                                                        *)
LEMMA ScheduleKeeps ==
  ASSUME TaskInv, QP!IInv', NEW t \in Tasks, Schedule(t)
  PROVE  TaskInv'
<1>1. PICK n \in FirstRuns(t) :
        /\ row' = [row EXCEPT ![t] = [status |-> "active", next |-> n]]
        /\ first' = [first EXCEPT ![t] = n]
  BY DEF Schedule
<1>2. n \in Times /\ n # 0
  BY TimesFit DEF TaskInv
<1>3. gen' = [gen EXCEPT ![t] = gen[t] + 1] /\ gen[t] \in 0 .. MaxGens /\ gen[t] + 1 \in 0 .. MaxGens
  BY TaskFlowAssumption DEF Schedule, TaskInv, DataOK
<1>4. DataOK'
  BY <1>1, <1>2, <1>3 DEF Schedule, ipcFrame, bounds, TaskInv, DataOK, Row
<1>5. /\ row'[t] = [status |-> "active", next |-> n] /\ gen'[t] = gen[t] + 1
      /\ TaskOK(t)
  BY <1>1, <1>3 DEF TaskInv, DataOK
<1>6. TaskOK(t)'
  <2>1. ClosureOK(t)'
    <3>1. \A g \in Groups : QP!AtHand(g, t)' => QP!AtHand(g, t)
      BY RequestTouches DEF QP!NoneComes
    <3>2. \A k \in 1 .. gen[t] : k \in 1 .. gen[t] + 1
      BY <1>3
    <3>3. QED
      BY <1>5, <3>1, <3>2, RequestTouches DEF TaskOK, ClosureOK, Occurrence
  <2>2. RecordOK(t)'
    <3>1. \A k, m : <<t, k, m>> \in recorded => k \in Nat /\ k <= gen[t] /\ m <= clock
      BY <1>5 DEF TaskOK, RecordOK, TaskInv, DataOK
    <3>2. \A k \in Nat : k <= gen[t] => k <= gen[t] + 1 /\ k # gen[t] + 1
      BY <1>3
    <3>3. gen[t] + 1 >= 1
      BY <1>3
    <3>4. QED
      BY <1>5, <3>1, <3>2, <3>3, RequestTouches DEF RecordOK
  <2>3. LateOK(t)' /\ (t \in polling' => Due(t)')
    BY RequestTouches DEF LateOK
  <2>4. row'[t].status # "completed"
    BY <1>5
  <2>5. PhaseOK(t)'
    <3>1. Exists(t)' /\ row'[t].next = n /\ first'[t] = n
      BY <1>1, <1>5 DEF Exists, TaskInv, DataOK
    <3>2. ~RanOnce(t)'
      <4>1. \A m : <<t, gen[t] + 1, m>> \notin recorded
        <5>1. \A m : <<t, gen[t] + 1, m>> \in recorded => gen[t] + 1 <= gen[t]
          BY <1>5 DEF TaskOK, RecordOK
        <5>2. QED
          BY <1>3, <5>1
      <4>2. QED
        BY <1>5, <4>1, RequestTouches DEF RanOnce
    <3>3. Kind[t] = "cron" => n % Period[t] = 0
      <4>1. Kind[t] = "cron" => (n - 0) % Period[t] = 0
        BY <1>1 DEF FirstRuns, NextCron, Earliest
      <4>2. n \in Int /\ n - 0 = n
        BY <1>2, TaskFlowAssumption DEF Times
      <4>3. QED
        BY <4>1, <4>2
    <3>4. InPhase(t)'
      <4>1. Period[t] \in Nat \ {0} /\ n \in Int /\ n - n = 0 /\ n - 0 = n
        BY <1>2, TaskFlowAssumption DEF Times
      <4>2. 0 % Period[t] = 0
        BY <4>1
      <4>3. QED
        BY <3>1, <3>2, <3>3, <4>1, <4>2 DEF InPhase
    <3>5. QP!AtHand(ChatOf[t], t)' => snapshot'[t].gen # gen'[t]
      <4>1. QP!AtHand(ChatOf[t], t) => snapshot[t].gen \in 1 .. gen[t]
        BY <1>5 DEF TaskOK, ClosureOK
      <4>2. gen[t] + 1 \notin 1 .. gen[t]
        BY <1>3
      <4>3. QED
        BY <1>5, <4>1, <4>2, RequestTouches
    <3>6. QED
      BY <3>1, <3>4, <3>5 DEF PhaseOK
  <2>6. QED
    BY <2>1, <2>2, <2>3, <2>4, <2>5 DEF TaskOK
<1>7. QED
  BY <1>4, <1>6, RequestTouches, OneTouched DEF QP!NoneComes

(* Pausing, resuming and cancelling one.                                   *)
LEMMA StatusKeeps ==
  ASSUME TaskInv, QP!IInv', NEW t \in Tasks, Pause(t) \/ Resume(t) \/ Cancel(t)
  PROVE  TaskInv'
<1>1. /\ UNCHANGED <<clock, snapshot, up, polling, bounds, watching, gen, first, recorded, crossed>>
      /\ late' = [late EXCEPT ![t] = 0]
      /\ Exists(t)
  BY DEF Pause, Resume, SetStatus, Cancel, ipcFrame
<1>2. PICK s \in {"paused", "active", "none"} :
        \/ s # "none" /\ row' = [row EXCEPT ![t].status = s]
        \/ s = "none" /\ row' = [row EXCEPT ![t] = NoRow]
  BY DEF Pause, Resume, SetStatus, Cancel
<1>3. /\ row' \in [Tasks -> Row] /\ row'[t].status = s
      /\ s # "none" => row'[t].next = row[t].next
      /\ s = "none" => row'[t].next = 0
  <2>1. row[t] \in Row /\ row \in [Tasks -> Row] /\ NoRow \in Row
    BY DEF TaskInv, DataOK, Row, NoRow
  <2> DEFINE r == row[t]
  <2>2. CASE s # "none"
    <3>1. row' = [row EXCEPT ![t] = [r EXCEPT !.status = s]]
      BY <1>2, <2>2
    <3>2. r \in Row
      BY <2>1
    <3> HIDE DEF r
    <3>3. [r EXCEPT !.status = s] \in Row /\ [r EXCEPT !.status = s].next = r.next
          /\ [r EXCEPT !.status = s].status = s
      BY <2>2, <3>2 DEF Row
    <3>4. QED
      BY <2>1, <2>2, <3>1, <3>3 DEF r
  <2>3. CASE s = "none"
    BY <1>2, <2>1, <2>3 DEF NoRow
  <2>4. QED
    BY <2>2, <2>3
<1>4. DataOK'
  BY <1>1, <1>3 DEF bounds, TaskInv, DataOK
<1>5. TaskOK(t)'
  <2>1. TaskOK(t)
    BY DEF TaskInv
  <2>2. ClosureOK(t)'
    <3>1. \A g \in Groups : QP!AtHand(g, t)' => QP!AtHand(g, t)
      BY RequestTouches DEF QP!NoneComes
    <3>2. QED
      BY <1>1, <2>1, <3>1, RequestTouches DEF TaskOK, ClosureOK, Occurrence
  <2>3. RecordOK(t)'
    BY <1>1, <1>3, <2>1 DEF TaskOK, RecordOK, Exists
  <2>4. LateOK(t)' /\ (t \in polling' => Due(t)')
    BY RequestTouches DEF LateOK
  <2>5. row'[t].status # "completed"
    BY <1>3
  <2>6. PhaseOK(t)'
    <3>1. RanOnce(t)' <=> RanOnce(t)
      BY <1>1 DEF RanOnce
    <3>2. QED
      BY <1>1, <1>3, <2>1, <3>1, RequestTouches DEF TaskOK, PhaseOK, InPhase, Exists
  <2>7. QED
    BY <2>2, <2>3, <2>4, <2>5, <2>6 DEF TaskOK
<1>6. QED
  BY <1>4, <1>5, RequestTouches, OneTouched DEF QP!NoneComes

-----------------------------------------------------------------------------
(* The scheduler's poll and the runs.                                      *)

(* A due row is enqueued, or dropped when the dispatcher has the task.     *)
LEMMA PollOneKeeps ==
  ASSUME TaskInv, QP!IInv', NEW t \in Tasks, PollOne(t)
  PROVE  TaskInv'
<1> DEFINE h == ChatOf[t]
           fresh == [next |-> row[t].next, gen |-> gen[t]]
<1>1. /\ UNCHANGED <<clock, row, up, watching, bounds, history>>
      /\ polling' = polling \ {t} /\ t \in polling
      /\ \/ snapshot' = snapshot
         \/ Accepts(t) /\ snapshot' = [snapshot EXCEPT ![t] = fresh]
      /\ ~Accepts(t) => snapshot' = snapshot
      /\ h \in Groups
  BY TaskFlowAssumption DEF PollOne
<1>2. /\ TaskOK(t) /\ Due(t) /\ gen[t] \in 0 .. MaxGens /\ row[t].next \in {0} \cup Times
      /\ clock \in Nat /\ MaxGens \in Nat
  BY <1>1, TaskFlowAssumption DEF TaskInv, DataOK, TaskOK, Row
<1>3. /\ gen[t] \in 1 .. gen[t] /\ row[t].next \in 1 .. clock
      /\ <<t, gen[t], row[t].next>> \notin recorded
  <2>1. Exists(t) /\ gen[t] >= 1
    BY <1>2 DEF TaskOK, RecordOK, Due, Exists
  <2>2. row[t].next \in 1 .. clock
    BY <1>2, TaskFlowAssumption DEF Due, Times
  <2>3. QED
    BY <1>2, <2>1, <2>2 DEF TaskOK, RecordOK, Due
<1>4. fresh \in [next : {0} \cup Times, gen : 0 .. MaxGens]
  BY <1>2
<1>5. DataOK'
  BY <1>1, <1>4 DEF TaskInv, DataOK, bounds, history
<1>6. \A g \in Groups, u \in Tasks :
        \/ /\ QP!AtHand(g, u)' => QP!AtHand(g, u)
           /\ QP!ToBegin(g, u)' => QP!ToBegin(g, u)
        \/ g = h /\ u = t /\ Accepts(t)
  <2>1. QP!QueueInv /\ QP!EnqueueTask(h, t)
    BY SameSmall DEF TaskInv, QP!IInv, PollOne
  <2>2. Q!Pends(groups[h], t) <=> QP!Pends(groups[h], t)
    BY DEF Q!Pends, QP!Pends
  <2>3. QED
    BY <1>1, <2>1, <2>2, QP!TaskTakes, ConstantsFit DEF Accepts
<1>7. ASSUME NEW u \in Tasks \ {t}
      PROVE  Untouched(u) /\ \A g \in Groups : /\ QP!AtHand(g, u)' => QP!AtHand(g, u)
                                               /\ QP!ToBegin(g, u)' => QP!ToBegin(g, u)
  <2>1. snapshot'[u] = snapshot[u]
    BY <1>1, <1>4 DEF TaskInv, DataOK
  <2>2. Untouched(u)
    BY <1>1, <2>1 DEF Untouched, history
  <2>3. QED
    BY <1>6, <2>2
<1>8. TaskOK(t)'
  <2>1. CASE ~Accepts(t)
    <3>1. /\ \A g \in Groups : QP!AtHand(g, t)' => QP!AtHand(g, t)
          /\ QP!ToBegin(h, t)' => QP!ToBegin(h, t)
      BY <1>1, <1>6, <2>1
    <3>2. Untouched(t)
      BY <1>1, <2>1 DEF Untouched, history
    <3>3. clock <= clock'
      BY <1>1, <1>2
    <3>4. QED
      BY <1>2, <1>5, <3>1, <3>2, <3>3, UntouchedOK DEF TaskInv
  <2>2. CASE Accepts(t)
    <3>1. snapshot'[t] = fresh
      BY <1>1, <1>2, <2>2, <1>4 DEF TaskInv, DataOK, PollOne
    <3>2. ClosureOK(t)'
      <4>1. \A g \in Groups : QP!AtHand(g, t)' => g = h
        BY <1>2, <1>6 DEF TaskOK, ClosureOK
      <4>2. /\ snapshot'[t].next = row[t].next /\ snapshot'[t].gen = gen[t]
            /\ Occurrence(t)' = <<t, gen[t], row[t].next>>
        BY <3>1 DEF Occurrence
      <4>3. QED
        BY <1>1, <1>3, <4>1, <4>2 DEF ClosureOK, history
    <3>3. RecordOK(t)'
      BY <1>1, <1>2 DEF TaskOK, RecordOK, Exists, history
    <3>4. LateOK(t)'
      BY <1>1, <1>2, <3>1 DEF TaskOK, LateOK, Due, history
    <3>5. t \notin polling'
      BY <1>1
    <3>6. row'[t].status # "completed"
      BY <1>1, <1>2 DEF Due
    <3>7. PhaseOK(t)'
      <4>1. row[t].next # 0 /\ Exists(t) /\ Exists(t)' /\ (RanOnce(t)' <=> RanOnce(t))
        BY <1>1, <1>2 DEF Due, Exists, RanOnce, history
      <4>2. QED
        BY <1>1, <1>2, <3>1, <4>1 DEF TaskOK, PhaseOK, InPhase, history
    <3>8. QED
      BY <3>2, <3>3, <3>4, <3>5, <3>6, <3>7 DEF TaskOK
  <2>3. QED
    BY <2>1, <2>2
<1>9. QED
  BY <1>1, <1>5, <1>7, <1>8, OneTouched

(* A run begins: the dispatcher has no other closure of its task.          *)
LEMMA BeginKeeps ==
  ASSUME TaskInv, QP!IInv', NEW g \in Groups, NEW i \in DOMAIN runs[g], BeginTask(g, i)
  PROVE  TaskInv'
<1>1. PICK t \in Tasks : t = runs[g][i].task
  BY DEF BeginTask
<1>2. /\ UNCHANGED <<clock, up, watching, polling, bounds, snapshot, row, gen, first, recorded, crossed>>
      /\ \/ late' = late /\ row[t].status = "active" /\ gen[t] = snapshot[t].gen
         \/ /\ late' = [late EXCEPT ![t] = late[t] + 1]
            /\ ~(row[t].status = "active" /\ gen[t] = snapshot[t].gen)
  BY <1>1 DEF BeginTask, runFrame
<1>3. QP!NoneComes /\ QP!ToBegin(g, t) /\ ~QP!ToBegin(g, t)'
  <2>1. QP!QueueInv /\ QP!BeginRun(g, i)
    BY SameSmall DEF TaskInv, QP!IInv, BeginTask
  <2>2. QED
    BY <1>1, <2>1, QP!BeginTakes, ConstantsFit
<1>4. g = ChatOf[t] /\ TaskOK(t) /\ late[t] \in Nat
  <2>1. QP!AtHand(g, t)
    BY <1>1 DEF QP!AtHand
  <2>2. QED
    BY <2>1 DEF TaskInv, TaskOK, ClosureOK, DataOK
<1>5. DataOK'
  <2>1. late' \in [Tasks -> Nat]
    BY <1>2, <1>4 DEF TaskInv, DataOK
  <2>2. QED
    BY <1>2, <2>1 DEF TaskInv, DataOK, bounds
<1>6. ASSUME NEW u \in Tasks \ {t} PROVE Untouched(u)
  BY <1>2 DEF Untouched, TaskInv, DataOK
<1>7. TaskOK(t)'
  <2>1. ClosureOK(t)'
    BY <1>2, <1>3, <1>4, TaskFlowAssumption DEF TaskOK, ClosureOK, Occurrence, QP!NoneComes
  <2>2. RecordOK(t)'
    BY <1>2, <1>4 DEF TaskOK, RecordOK, Exists
  <2>3. late'[t] <= 1
    BY <1>2, <1>3, <1>4 DEF TaskOK, LateOK, TaskInv, DataOK
  <2>4. LateOK(t)'
    BY <1>3, <1>4, <2>3 DEF LateOK
  <2>5. /\ t \in polling' => Due(t)'
        /\ row'[t].status = "completed" /\ t \notin crossed' => RanOnce(t)'
    BY <1>2, <1>4 DEF TaskOK, Due, RanOnce
  <2>6. PhaseOK(t)'
    <3>1. QP!AtHand(ChatOf[t], t)' => QP!AtHand(ChatOf[t], t)
      BY <1>3, <1>4 DEF QP!NoneComes
    <3>2. RanOnce(t)' <=> RanOnce(t)
      BY <1>2 DEF RanOnce
    <3>3. QED
      BY <1>2, <1>4, <3>1, <3>2 DEF TaskOK, PhaseOK, InPhase, Exists
  <2>7. QED
    BY <2>1, <2>2, <2>4, <2>5, <2>6 DEF TaskOK
<1>8. QED
  BY <1>2, <1>3, <1>5, <1>6, <1>7, OneTouched DEF QP!NoneComes

(* However a task's run ends, the dispatcher is rid of the task.           *)
LEMMA RunIsOver ==
  ASSUME TaskInv, NEW g \in Groups, NEW i \in DOMAIN runs[g],
         NEW t \in Tasks, t = runs[g][i].task,
         Q!TaskEnds(g, i) \/ Q!RunNeverBegins(g, i), snapshot' = Released(t)
  PROVE  /\ QP!NoneComes
         /\ ChatOf[t] = g /\ QP!AtHand(ChatOf[t], t)
         /\ \A h \in Groups : ~QP!AtHand(h, t)' /\ ~QP!ToBegin(h, t)'
         /\ snapshot' \in [Tasks -> [next : {0} \cup Times, gen : 0 .. MaxGens]]
         /\ \A u \in Tasks \ {t} : snapshot'[u] = snapshot[u]
<1>1. QP!NoneComes /\ ~QP!AtHand(g, t)'
  <2>1. QP!QueueInv /\ QP!RunEnds(g, i)
    BY SameSmall, SameEnds DEF TaskInv, QP!IInv, QP!RunEnds
  <2>2. QED
    BY <2>1, QP!RunEndTakes, ConstantsFit
<1>2. ChatOf[t] = g /\ QP!AtHand(ChatOf[t], t)
  <2>1. QP!AtHand(g, t)
    BY DEF QP!AtHand
  <2>2. QED
    BY <2>1 DEF TaskInv, TaskOK, ClosureOK
<1>3. ASSUME NEW h \in Groups PROVE ~QP!AtHand(h, t)'
  <2>1. QP!AtHand(h, t) => h = g
    BY <1>2 DEF TaskInv, TaskOK, ClosureOK
  <2>2. QED
    BY <1>1, <2>1 DEF QP!NoneComes
<1>4. ASSUME NEW h \in Groups PROVE ~QP!ToBegin(h, t)'
  BY <1>3 DEF QP!AtHand, QP!ToBegin
<1>5. snapshot' = snapshot \/ snapshot' = [snapshot EXCEPT ![t] = NoClosure]
  BY DEF Released
<1>6. NoClosure \in [next : {0} \cup Times, gen : 0 .. MaxGens]
  BY TaskFlowAssumption DEF NoClosure
<1>7. /\ snapshot' \in [Tasks -> [next : {0} \cup Times, gen : 0 .. MaxGens]]
      /\ \A u \in Tasks \ {t} : snapshot'[u] = snapshot[u]
  <2> DEFINE C == [next : {0} \cup Times, gen : 0 .. MaxGens]
             n == NoClosure
  <2>1. snapshot \in [Tasks -> C] /\ n \in C
    BY <1>6 DEF TaskInv, DataOK
  <2>2. snapshot' = snapshot \/ snapshot' = [snapshot EXCEPT ![t] = n]
    BY <1>5
  <2> HIDE DEF C, n
  <2>3. snapshot' \in [Tasks -> C] /\ \A u \in Tasks \ {t} : snapshot'[u] = snapshot[u]
    BY <2>1, <2>2
  <2>4. QED
    BY <2>3 DEF C
<1>8. QED
  BY <1>1, <1>2, <1>3, <1>4, <1>7

(* A run that is cancelled records nothing; one that is rejected pauses    *)
(* its row.                                                                *)
LEMMA UnrecordedKeeps ==
  ASSUME TaskInv, QP!IInv', NEW g \in Groups, NEW i \in DOMAIN runs[g],
         RejectTask(g, i) \/ CancelTask(g, i)
  PROVE  TaskInv'
<1>1. PICK t \in Tasks : t = runs[g][i].task
  BY TaskFlowAssumption DEF RejectTask, CancelTask
<1>2. /\ UNCHANGED <<clock, up, watching, polling, bounds, history>>
      /\ polling = {}
      /\ row' \in {row, [row EXCEPT ![t].status = "paused"]}
      /\ row' # row => Exists(t)
      /\ snapshot' = Released(t)
      /\ Q!TaskEnds(g, i) \/ Q!RunNeverBegins(g, i)
  BY <1>1 DEF RejectTask, CancelTask, runFrame, Serving
<1>3. /\ row' \in [Tasks -> Row] /\ row'[t].next = row[t].next
      /\ row'[t].status \in {row[t].status, "paused"} /\ (Exists(t)' => Exists(t))
      /\ \A u \in Tasks \ {t} : row'[u] = row[u]
  <2> DEFINE r == row[t]
             p == [r EXCEPT !.status = "paused"]
  <2>1. r \in Row /\ row \in [Tasks -> Row] /\ row' \in {row, [row EXCEPT ![t] = p]} /\ row[t] = r
        /\ (row' # row => r.status # "none")
    BY <1>2 DEF TaskInv, DataOK, Exists
  <2> HIDE DEF r
  <2>2. p \in Row /\ p.next = r.next /\ p.status = "paused"
    BY <2>1 DEF Row
  <2> HIDE DEF p
  <2>3. QED
    BY <2>1, <2>2 DEF Exists
<1>4. DataOK'
  BY <1>1, <1>2, <1>3, RunIsOver DEF TaskInv, DataOK, bounds, history
<1>5. ASSUME NEW u \in Tasks \ {t} PROVE Untouched(u)
  BY <1>1, <1>2, <1>3, RunIsOver DEF Untouched, history
<1>6. TaskOK(t)'
  <2>1. TaskOK(t) /\ ChatOf[t] \in Groups
    BY TaskFlowAssumption DEF TaskInv
  <2>2. ClosureOK(t)' /\ LateOK(t)'
    BY <1>1, <1>2, <2>1, RunIsOver DEF TaskOK, ClosureOK, LateOK, history
  <2>3. RecordOK(t)'
    BY <1>2, <1>3, <2>1 DEF TaskOK, RecordOK, history
  <2>4. t \notin polling'
    BY <1>2
  <2>5. row'[t].status = "completed" /\ t \notin crossed' => RanOnce(t)'
    BY <1>2, <1>3, <2>1 DEF TaskOK, RanOnce, history
  <2>6. PhaseOK(t)'
    <3>1. RanOnce(t)' <=> RanOnce(t)
      BY <1>2 DEF RanOnce, history
    <3>2. ~Exists(t)' => ~Exists(t)
      BY <1>2, <1>3 DEF Exists
    <3>3. ~QP!AtHand(ChatOf[t], t)'
      BY <1>1, <1>2, <2>1, RunIsOver
    <3>4. QED
      BY <1>2, <1>3, <2>1, <3>1, <3>2, <3>3 DEF TaskOK, PhaseOK, InPhase, history
  <2>7. QED
    BY <2>2, <2>3, <2>4, <2>5, <2>6 DEF TaskOK
<1>7. QED
  BY <1>1, <1>2, <1>4, <1>5, <1>6, RunIsOver, OneTouched DEF QP!NoneComes

(* Multiples.                                                              *)
LEMMA ZeroIsMultiple ==
  ASSUME NEW a \in Int, NEW p \in Nat \ {0}, a % p = 0
  PROVE  \E k \in Int : a = p * k
<1>1. a = p * (a \div p)
  BY SMT
<1>2. a \div p \in Int
  BY SMT
<1>3. QED
  BY <1>1, <1>2

(* The sum of two is one.                                                  *)
LEMMA MultiplesAdd ==
  ASSUME NEW a \in Int, NEW b \in Int, NEW p \in Nat \ {0}, a % p = 0, b % p = 0
  PROVE  (a + b) % p = 0
<1>1. PICK k \in Int : a = p * k
  BY ZeroIsMultiple
<1>2. PICK l \in Int : b = p * l
  BY ZeroIsMultiple
<1>3. a + b = p * (k + l) /\ k + l \in Int
  <2>1. p * k + p * l = p * (k + l)
    BY SMT
  <2>2. QED
    BY <1>1, <1>2, <2>1
<1>4. (p * (k + l)) % p = 0
  <2>1. ASSUME NEW m \in Int PROVE (p * m) % p = 0
    BY SMT
  <2>2. QED
    BY <1>3, <2>1
<1>5. QED
  BY <1>3, <1>4

(* The next time after one in phase is in phase.                           *)
LEMMA NextInPhase ==
  ASSUME DataOK, NEW t \in Tasks, NEW n \in ComputeNextRun(t, snapshot[t].next), n # 0,
         Kind[t] = "interval" => (snapshot[t].next - first[t]) % Period[t] = 0
  PROVE  /\ Kind[t] = "interval" => (n - first[t]) % Period[t] = 0
         /\ Kind[t] = "cron" => (n - CronOffset) % Period[t] = 0
<1>1. ASSUME Kind[t] = "interval" PROVE (n - first[t]) % Period[t] = 0
  <2>1. n \in Times /\ (n - snapshot[t].next) % Period[t] = 0
    BY <1>1 DEF ComputeNextRun, NextInterval, Earliest
  <2>2. /\ n \in Int /\ snapshot[t].next \in Int /\ first[t] \in Int
        /\ Period[t] \in Nat \ {0}
    BY <2>1, TaskFlowAssumption DEF DataOK, Times
  <2> DEFINE a == n - snapshot[t].next
             b == snapshot[t].next - first[t]
  <2>3. a \in Int /\ b \in Int /\ a + b = n - first[t]
    BY <2>2
  <2>4. a % Period[t] = 0 /\ b % Period[t] = 0
    BY <1>1, <2>1
  <2> HIDE DEF a, b
  <2>5. (a + b) % Period[t] = 0
    BY <2>2, <2>3, <2>4, MultiplesAdd
  <2>6. QED
    BY <2>3, <2>5
<1>2. Kind[t] = "cron" => (n - CronOffset) % Period[t] = 0
  BY DEF ComputeNextRun, NextCron, Earliest
<1>3. QED
  BY <1>1, <1>2

(* What the end of a run writes.                                           *)
LEMMA FinishWrites ==
  ASSUME TaskInv, NEW g \in Groups, NEW i \in DOMAIN runs[g], FinishTask(g, i),
         NEW t \in Tasks, t = runs[g][i].task
  PROVE  /\ UNCHANGED <<clock, up, watching, polling, bounds, gen, first, late>>
         /\ polling = {} /\ snapshot' = Released(t) /\ Q!TaskEnds(g, i)
         /\ recorded' = recorded \cup {Occurrence(t)}
         /\ crossed' = IF Exists(t) /\ gen[t] # snapshot[t].gen THEN crossed \cup {t} ELSE crossed
         /\ row' \in [Tasks -> Row] /\ (Exists(t)' <=> Exists(t))
         /\ \A u \in Tasks \ {t} : row'[u] = row[u]
         /\ Exists(t) => row'[t].next = 0 \/ row'[t].next > clock
         /\ Exists(t) => row'[t].next \in ComputeNextRun(t, snapshot[t].next)
         /\ ~Exists(t) => row' = row
<1>1. PICK next \in ComputeNextRun(t, snapshot[t].next) :
        row' = IF Exists(t) THEN [row EXCEPT ![t] = AfterRun(t, next)] ELSE row
  BY DEF FinishTask
<1>2. next \in {0} \cup Times /\ (next = 0 \/ next > clock)
  BY TimesFit DEF TaskInv
<1>3. row \in [Tasks -> Row] /\ row[t].status \in {"none", "active", "paused", "completed"}
  BY DEF TaskInv, DataOK, Row
<1>4. /\ AfterRun(t, next) \in Row /\ AfterRun(t, next).next = next
      /\ Exists(t) => AfterRun(t, next).status # "none"
  BY <1>2, <1>3 DEF AfterRun, Row, Exists
<1>5. /\ row' \in [Tasks -> Row] /\ (Exists(t)' <=> Exists(t))
      /\ \A u \in Tasks \ {t} : row'[u] = row[u]
      /\ Exists(t) => row'[t].next = 0 \/ row'[t].next > clock
      /\ Exists(t) => row'[t].next \in ComputeNextRun(t, snapshot[t].next)
      /\ ~Exists(t) => row' = row
  BY <1>1, <1>2, <1>3, <1>4 DEF Exists
<1>6. QED
  BY <1>5 DEF FinishTask, runFrame, Serving

(* A run that ends records its occurrence, and its row moves on.           *)
LEMMA FinishKeeps ==
  ASSUME TaskInv, QP!IInv', NEW g \in Groups, NEW i \in DOMAIN runs[g], FinishTask(g, i)
  PROVE  TaskInv'
<1>1. PICK t \in Tasks : t = runs[g][i].task
  BY DEF FinishTask
<1>2. /\ UNCHANGED <<clock, up, watching, polling, bounds, gen, first, late>>
      /\ polling = {} /\ snapshot' = Released(t) /\ Q!TaskEnds(g, i)
      /\ recorded' = recorded \cup {Occurrence(t)}
      /\ crossed' = IF Exists(t) /\ gen[t] # snapshot[t].gen THEN crossed \cup {t} ELSE crossed
      /\ row' \in [Tasks -> Row] /\ (Exists(t)' <=> Exists(t))
      /\ \A u \in Tasks \ {t} : row'[u] = row[u]
      /\ Exists(t) => row'[t].next = 0 \/ row'[t].next > clock
      /\ Exists(t) => row'[t].next \in ComputeNextRun(t, snapshot[t].next)
      /\ ~Exists(t) => row' = row
  BY <1>1, FinishWrites
<1>3. /\ TaskOK(t) /\ ChatOf[t] = g /\ QP!AtHand(ChatOf[t], t)
      /\ QP!NoneComes
      /\ \A h \in Groups : ~QP!AtHand(h, t)' /\ ~QP!ToBegin(h, t)'
      /\ snapshot' \in [Tasks -> [next : {0} \cup Times, gen : 0 .. MaxGens]]
      /\ \A u \in Tasks \ {t} : snapshot'[u] = snapshot[u]
  BY <1>1, <1>2, RunIsOver DEF TaskInv
<1>4. /\ snapshot[t].next \in 1 .. clock /\ snapshot[t].gen \in 1 .. gen[t]
      /\ Occurrence(t) = <<t, snapshot[t].gen, snapshot[t].next>>
  BY <1>3 DEF TaskOK, ClosureOK, Occurrence
<1>5. snapshot[t].next \in Times /\ snapshot[t].gen \in 1 .. MaxGens
  <2>1. snapshot[t].next \in {0} \cup Times /\ snapshot[t].gen \in 0 .. MaxGens
    BY DEF TaskInv, DataOK
  <2>2. QED
    BY <1>4, <2>1
<1>6. DataOK'
  <2>1. recorded' \subseteq (Tasks \X (1 .. MaxGens) \X Times)
    BY <1>2, <1>4, <1>5 DEF TaskInv, DataOK
  <2>2. crossed' \subseteq Tasks
    BY <1>2 DEF TaskInv, DataOK
  <2>3. QED
    BY <1>2, <1>3, <2>1, <2>2 DEF TaskInv, DataOK, bounds
<1>7. ASSUME NEW u \in Tasks \ {t} PROVE Untouched(u)
  BY <1>2, <1>3, <1>4 DEF Untouched
<1>8. TaskOK(t)'
  <2>1. ClosureOK(t)' /\ LateOK(t)'
    BY <1>2, <1>3 DEF TaskOK, ClosureOK, LateOK
  <2>2. RecordOK(t)'
    <3>1. ASSUME NEW k, NEW n, <<t, k, n>> \in recorded' PROVE k <= gen'[t] /\ n <= clock'
      <4>1. CASE <<t, k, n>> \in recorded
        BY <1>2, <1>3, <4>1 DEF TaskOK, RecordOK
      <4>2. CASE <<t, k, n>> = Occurrence(t)
        BY <1>2, <1>4, <4>2
      <4>3. QED
        BY <1>2, <3>1, <4>1, <4>2
    <3>2. Exists(t)' => gen'[t] >= 1
      BY <1>2, <1>3 DEF TaskOK, RecordOK
    <3>3. ASSUME Exists(t)', row'[t].next # 0 PROVE <<t, gen'[t], row'[t].next>> \notin recorded'
      <4>1. row'[t].next > clock /\ row'[t].next \in Nat /\ clock \in Nat
        BY <1>2, <3>3, TaskFlowAssumption DEF TaskInv, DataOK, Row, Times
      <4>2. ~(row'[t].next <= clock')
        BY <1>2, <4>1
      <4>3. QED
        BY <3>1, <4>2
    <3>4. QED
      BY <3>1, <3>2, <3>3 DEF RecordOK
  <2>3. t \notin polling'
    BY <1>2
  <2>4. ASSUME row'[t].status = "completed", t \notin crossed' PROVE RanOnce(t)'
    <3>1. Exists(t)
      BY <1>2, <2>4 DEF Exists
    <3>2. gen[t] = snapshot[t].gen
      BY <1>2, <2>4, <3>1
    <3>3. <<t, gen'[t], snapshot[t].next>> \in recorded'
      BY <1>2, <1>4, <3>2
    <3>4. QED
      BY <1>5, <3>3 DEF RanOnce
  <2>5. PhaseOK(t)'
    <3>1. ~Exists(t)' => row'[t].next = 0
      BY <1>2, <1>3 DEF TaskOK, PhaseOK
    <3>2. ~QP!AtHand(ChatOf[t], t)'
      BY <1>3, TaskFlowAssumption
    <3>3. ASSUME row'[t].next # 0, t \notin crossed' PROVE InPhase(t)'
      <4>1. Exists(t)
        BY <1>2, <3>1, <3>3
      <4>2. gen[t] = snapshot[t].gen /\ t \notin crossed /\ first' = first
        BY <1>2, <3>3, <4>1
      <4>3. Kind[t] = "interval" => (snapshot[t].next - first[t]) % Period[t] = 0
        BY <1>3, <4>2 DEF TaskOK, PhaseOK
      <4>4. RanOnce(t)'
        BY <1>2, <1>4, <1>5, <4>2 DEF RanOnce
      <4>5. row'[t].next \in ComputeNextRun(t, snapshot[t].next)
        BY <1>2, <4>1
      <4>6. QED
        BY <3>3, <4>2, <4>3, <4>4, <4>5, NextInPhase DEF TaskInv, DataOK, InPhase
    <3>4. QED
      BY <3>1, <3>2, <3>3 DEF PhaseOK
  <2>6. QED
    BY <2>1, <2>2, <2>3, <2>4, <2>5 DEF TaskOK
<1>9. QED
  BY <1>2, <1>3, <1>6, <1>7, <1>8, OneTouched DEF QP!NoneComes

-----------------------------------------------------------------------------
(* All of it.                                                              *)

(* The invariant holds at first, when there is no task.                    *)
LEMMA InitHolds == Init => TaskInv
<1> SUFFICES ASSUME Init PROVE TaskInv
  OBVIOUS
<1>1. QP!IInv
  <2>1. QP!Init
    BY DEF Init, Q!Init, QP!Init, Q!FreshGroup, QP!FreshGroup
  <2>2. QED
    BY <2>1, QP!InitIInv, ConstantsFit
<1>2. DataOK
  <2>1. NoRow \in Row /\ NoClosure \in [next : {0} \cup Times, gen : 0 .. MaxGens]
    BY TaskFlowAssumption DEF NoRow, Row, NoClosure
  <2>2. 0 \in 0 .. MaxClock /\ 0 \in 0 .. MaxChats /\ 0 \in 0 .. MaxStops /\ 0 \in 0 .. MaxGens
    BY TaskFlowAssumption
  <2>3. QED
    BY <2>1, <2>2 DEF Init, DataOK
<1>3. ASSUME NEW t \in Tasks PROVE TaskOK(t)
  <2>1. \A g \in Groups : ~QP!AtHand(g, t) /\ ~QP!ToBegin(g, t)
    BY DEF Init, Q!Init, Q!FreshGroup, QP!AtHand, QP!ToBegin, QP!Pends
  <2>2. row[t] = NoRow /\ late[t] = 0 /\ polling = {} /\ recorded = {}
    BY DEF Init
  <2>3. ClosureOK(t) /\ RecordOK(t) /\ LateOK(t)
    BY <2>1, <2>2, TaskFlowAssumption DEF ClosureOK, RecordOK, LateOK, NoRow, Exists
  <2>4. PhaseOK(t)
    BY <2>1, <2>2, TaskFlowAssumption DEF PhaseOK, NoRow
  <2>5. QED
    BY <2>2, <2>3, <2>4 DEF TaskOK, NoRow
<1>4. QED
  BY <1>1, <1>2, <1>3 DEF TaskInv

(* Every step keeps it.                                                    *)
LEMMA NextKeeps == TaskInv /\ [Next]_vars => TaskInv'
<1> SUFFICES ASSUME TaskInv, [Next]_vars PROVE TaskInv'
  OBVIOUS
<1>1. QP!IInv'
  BY QueueKeeps DEF TaskInv
<1>2. CASE UNCHANGED vars
  BY <1>1, <1>2, QueueStays, NobodyTouched DEF vars, bounds, history, TaskInv, DataOK
<1>3. ASSUME NEW t \in Tasks, Requests(t) PROVE TaskInv'
  BY <1>1, <1>3, ScheduleKeeps, StatusKeeps, OthersKeep DEF Requests
<1>4. ASSUME NEW t \in Tasks, PollOne(t) PROVE TaskInv'
  BY <1>1, <1>4, PollOneKeeps
<1>5. ASSUME NEW g \in Groups, NEW i \in DOMAIN runs[g], Step(g, i) PROVE TaskInv'
  BY <1>1, <1>5, BeginKeeps, UnrecordedKeeps, FinishKeeps, OthersKeep DEF Step
<1>6. ASSUME NEW g \in Groups, Chat(g) PROVE TaskInv'
  BY <1>1, <1>6, OthersKeep
<1>7. Poll => TaskInv'
  BY <1>1, PollKeeps
<1>8. Tick \/ Start \/ Shutdown => TaskInv'
  BY <1>1, OthersKeep
<1>9. Crash \/ Exit => TaskInv'
  BY <1>1, LostKeeps
<1>10. QED
  BY <1>2, <1>3, <1>4, <1>5, <1>6, <1>7, <1>8, <1>9 DEF Next, Runs

(* What the proofs rest on holds in every state.                           *)
THEOREM Invariance == Spec => []TaskInv
<1>1. Init => TaskInv
  BY InitHolds
<1>2. TaskInv /\ [Next]_vars => TaskInv'
  BY NextKeeps
<1>3. QED
  BY <1>1, <1>2, PTL DEF Spec

(* Type correctness of the task flow and of the dispatcher in it.          *)
THEOREM TypeCorrect == Spec => []TypeOK
<1>1. QP!IInv => Q!TypeOK
  <2>1. QP!IInv => QP!TypeOK
    BY QP!TypeHolds, ConstantsFit
  <2>2. QP!TypeOK => Q!TypeOK
    BY DEF QP!TypeOK, Q!TypeOK, QP!GroupState, Q!GroupState, QP!Run, Q!Run
  <2>3. QED
    BY <2>1, <2>2
<1>2. TaskInv => TypeOK
  BY <1>1 DEF TaskInv, DataOK, TypeOK
<1>3. QED
  BY <1>2, Invariance, PTL

(* The dispatcher's promises stand while tasks and messages share its      *)
(* groups, through polls, requests, crashes and restarts.                  *)
THEOREM DispatcherKeepsItsWord ==
  Spec => [](/\ QP!SerialExecution /\ QP!ConcurrencyLimit /\ QP!SlotAccounting
             /\ QP!NoLostWakeup /\ QP!WorkConserving /\ QP!TaskOnce)
<1>1. QP!IInv => /\ QP!SerialExecution /\ QP!ConcurrencyLimit /\ QP!SlotAccounting
                 /\ QP!NoLostWakeup /\ QP!WorkConserving /\ QP!TaskOnce
  BY ConstantsFit, QP!SerialHolds, QP!LimitHolds, QP!SlotsHold, QP!WakeupsHold, QP!WorkHolds,
     QP!TaskHolds
<1>2. QED
  BY <1>1, Invariance, PTL DEF TaskInv

(* An occurrence whose run was recorded is never held by a run or by the   *)
(* queue again.                                                            *)
THEOREM Once == Spec => []OccurrenceOnce
<1>1. TaskInv => OccurrenceOnce
  <2> SUFFICES ASSUME TaskInv, NEW t \in Tasks, Held(t) PROVE Occurrence(t) \notin recorded
    BY DEF OccurrenceOnce
  <2>1. QP!AtHand(ChatOf[t], t)
    BY DEF Held, QP!AtHand, Q!Pends, QP!Pends
  <2>2. QED
    BY <2>1 DEF TaskInv, TaskOK, ClosureOK
<1>2. QED
  BY <1>1, Invariance, PTL

(* A task that is no longer active starts from the queue once at most.     *)
THEOREM LateOnce == Spec => []AtMostOneLateStart
<1>1. TaskInv => AtMostOneLateStart
  BY DEF TaskInv, TaskOK, LateOK, AtMostOneLateStart
<1>2. QED
  BY <1>1, Invariance, PTL

(* A task that is marked completed has run.                                *)
THEOREM CompletedRan == Spec => []CompletedHasRun
<1>1. TaskInv => CompletedHasRun
  BY DEF TaskInv, TaskOK, CompletedHasRun
<1>2. QED
  BY <1>1, Invariance, PTL

(* Due times keep the phase of the task's creation.                        *)
THEOREM PhaseIsKept == Spec => []KeepsPhase
<1>1. TaskInv => KeepsPhase
  BY DEF TaskInv, TaskOK, PhaseOK, InPhase, KeepsPhase
<1>2. QED
  BY <1>1, Invariance, PTL

(* A due time changes only when a run is recorded, and then for one that   *)
(* lies ahead, or for none.                                                *)
THEOREM DueTimesMove == Spec => DueTimeMoves
<1> DEFINE Moves ==
      \A t \in Tasks : Exists(t) /\ Exists(t)' /\ row'[t].next # row[t].next =>
        /\ Occurrence(t) \in recorded'
        /\ row'[t].next = 0 \/ row'[t].next > clock
<1>1. ASSUME TaskInv, [Next]_vars PROVE Moves
  <2> SUFFICES ASSUME NEW t \in Tasks, Exists(t), Exists(t)', row'[t].next # row[t].next
               PROVE  /\ Occurrence(t) \in recorded'
                      /\ row'[t].next = 0 \/ row'[t].next > clock
    OBVIOUS
  <2>1. row \in [Tasks -> Row]
    BY <1>1 DEF TaskInv, DataOK
  <2>2. ASSUME NEW u \in Tasks, Requests(u) PROVE FALSE
    <3>1. CASE Schedule(u)
      BY <2>1, <3>1 DEF Schedule, Exists
    <3>2. CASE ScheduleAgain(u)
      BY <3>2 DEF ScheduleAgain
    <3>3. CASE Pause(u) \/ Resume(u)
      <4>1. PICK s \in {"paused", "active"} : row' = [row EXCEPT ![u].status = s]
        BY <3>3 DEF Pause, Resume, SetStatus
      <4>2. row'[t].next = row[t].next
        <5> DEFINE r == row[u]
                   p == [r EXCEPT !.status = s]
        <5>1. r \in Row /\ row' = [row EXCEPT ![u] = p] /\ row[u] = r
          BY <2>1, <4>1
        <5> HIDE DEF r
        <5>2. p.next = r.next
          BY <5>1 DEF Row
        <5> HIDE DEF p
        <5>3. QED
          BY <2>1, <5>1, <5>2
      <4>3. QED
        BY <4>2
    <3>4. CASE Cancel(u)
      BY <2>1, <3>4 DEF Cancel, Exists, NoRow
    <3>5. QED
      BY <2>2, <3>1, <3>2, <3>3, <3>4 DEF Requests
  <2>3. ASSUME NEW g \in Groups, NEW i \in DOMAIN runs[g], RejectTask(g, i) PROVE FALSE
    <3>1. PICK u \in Tasks : u = runs[g][i].task
      BY <2>3, TaskFlowAssumption DEF RejectTask
    <3>2. row' = row \/ row' = [row EXCEPT ![u].status = "paused"]
      BY <2>3, <3>1 DEF RejectTask
    <3> DEFINE r == row[u]
               p == [r EXCEPT !.status = "paused"]
    <3>3. r \in Row /\ (row' = row \/ row' = [row EXCEPT ![u] = p]) /\ row[u] = r
      BY <2>1, <3>2
    <3> HIDE DEF r
    <3>4. p.next = r.next
      BY <3>3 DEF Row
    <3> HIDE DEF p
    <3>5. QED
      BY <2>1, <3>3, <3>4
  <2>4. ASSUME NEW g \in Groups, NEW i \in DOMAIN runs[g], FinishTask(g, i)
        PROVE  /\ Occurrence(t) \in recorded'
               /\ row'[t].next = 0 \/ row'[t].next > clock
    <3>1. PICK u \in Tasks : u = runs[g][i].task
      BY <2>4 DEF FinishTask
    <3>2. /\ recorded' = recorded \cup {Occurrence(u)}
          /\ \A v \in Tasks \ {u} : row'[v] = row[v]
          /\ Exists(u) => row'[u].next = 0 \/ row'[u].next > clock
      BY <1>1, <2>4, <3>1, FinishWrites
    <3>3. QED
      BY <3>2
  <2>5. ASSUME row' = row PROVE FALSE
    BY <2>5
  <2>6. ASSUME NEW g \in Groups, NEW i \in DOMAIN runs[g],
               BeginTask(g, i) \/ CancelTask(g, i) \/ MessageRun(g, i)
        PROVE  row' = row
    BY <2>6 DEF BeginTask, CancelTask, MessageRun, otherFrame
  <2>7. ASSUME \/ UNCHANGED vars
               \/ \E u \in Tasks : PollOne(u)
               \/ \E g \in Groups : Chat(g)
               \/ Poll \/ Tick \/ Shutdown \/ Crash \/ Exit \/ Start
        PROVE  row' = row
    BY <2>7 DEF vars, PollOne, Chat, Poll, Tick, Shutdown, Crash, Exit, Start, otherFrame
  <2>8. QED
    BY <1>1, <2>2, <2>3, <2>4, <2>5, <2>6, <2>7 DEF Next, Runs, Step
<1>2. QED
  BY <1>1, Invariance, PTL DEF Spec, DueTimeMoves

-----------------------------------------------------------------------------
(* The task flow implements Scheduling.                                    *)

(* What is in hand of a task is what the dispatcher has of it.             *)
LEMMA InDispatcher ==
  ASSUME NEW t
  PROVE  /\ Held(t) <=> QP!AtHand(ChatOf[t], t)
         /\ Held(t)' <=> QP!AtHand(ChatOf[t], t)'
         /\ HasBegun(t) <=> QP!UnderWay(ChatOf[t], t)
         /\ HasBegun(t)' <=> QP!UnderWay(ChatOf[t], t)'
BY DEF Held, HasBegun, QP!AtHand, QP!UnderWay, Q!Pends, QP!Pends, Q!Begun, QP!Begun

(* Nothing, an occurrence that has begun, or one that has not.             *)
LEMMA HandNow ==
  ASSUME NEW t \in Tasks
  PROVE  LET n == snapshot[t].next
             k == snapshot[t].gen
         IN  /\ ~QP!AtHand(ChatOf[t], t) => Hands[t] = {}
             /\ QP!AtHand(ChatOf[t], t) /\ QP!UnderWay(ChatOf[t], t) =>
                  Hands[t] = {[next |-> n, gen |-> k, begun |-> TRUE]}
             /\ QP!AtHand(ChatOf[t], t) /\ ~QP!UnderWay(ChatOf[t], t) =>
                  Hands[t] = {[next |-> n, gen |-> k, begun |-> FALSE]}
<1>1. Hands[t] = IF Held(t) THEN {InHand(t)} ELSE {}
  BY DEF Hands
<1>2. /\ HasBegun(t) => HasBegun(t) = TRUE
      /\ ~HasBegun(t) => HasBegun(t) = FALSE
  BY DEF HasBegun
<1>3. QED
  BY <1>1, <1>2, InDispatcher DEF InHand

(* The same after a step.                                                  *)
LEMMA HandNext ==
  ASSUME NEW t \in Tasks
  PROVE  LET n == snapshot'[t].next
             k == snapshot'[t].gen
         IN  /\ ~QP!AtHand(ChatOf[t], t)' => Hands'[t] = {}
             /\ QP!AtHand(ChatOf[t], t)' /\ QP!UnderWay(ChatOf[t], t)' =>
                  Hands'[t] = {[next |-> n, gen |-> k, begun |-> TRUE]}
             /\ QP!AtHand(ChatOf[t], t)' /\ ~QP!UnderWay(ChatOf[t], t)' =>
                  Hands'[t] = {[next |-> n, gen |-> k, begun |-> FALSE]}
<1>1. Hands'[t] = IF Held(t)' THEN {InHand(t)'} ELSE {}
  BY DEF Hands
<1>2. /\ HasBegun(t)' => HasBegun(t)' = TRUE
      /\ ~HasBegun(t)' => HasBegun(t)' = FALSE
  BY DEF HasBegun
<1>3. QED
  BY <1>1, <1>2, InDispatcher DEF InHand

(* It changes with the task's place in the dispatcher, or its closure.     *)
LEMMA SameHand ==
  ASSUME NEW t \in Tasks, QP!AsItWas(ChatOf[t], t),
         QP!AtHand(ChatOf[t], t) => snapshot'[t] = snapshot[t]
  PROVE  Hands'[t] = Hands[t]
<1>1. CASE ~QP!AtHand(ChatOf[t], t)
  BY <1>1, HandNow, HandNext DEF QP!AsItWas
<1>2. CASE QP!AtHand(ChatOf[t], t) /\ QP!UnderWay(ChatOf[t], t)
  BY <1>2, HandNow, HandNext DEF QP!AsItWas
<1>3. CASE QP!AtHand(ChatOf[t], t) /\ ~QP!UnderWay(ChatOf[t], t)
  BY <1>3, HandNow, HandNext DEF QP!AsItWas
<1>4. QED
  BY <1>1, <1>2, <1>3

(* The hands of all of them, when none or one changes.                     *)
LEMMA AllHands ==
  /\ (\A u \in Tasks : Hands'[u] = Hands[u]) => Hands' = Hands
  /\ \A t \in Tasks : (\A u \in Tasks \ {t} : Hands'[u] = Hands[u]) =>
       Hands' = [Hands EXCEPT ![t] = Hands'[t]]
<1>1. DOMAIN Hands = Tasks /\ Hands = [u \in Tasks |-> Hands[u]]
  BY DEF Hands
<1>2. DOMAIN Hands' = Tasks /\ Hands' = [u \in Tasks |-> Hands'[u]]
  BY DEF Hands
<1> DEFINE H == Hands
           I == Hands'
<1>3. /\ DOMAIN H = Tasks /\ H = [u \in Tasks |-> H[u]]
      /\ DOMAIN I = Tasks /\ I = [u \in Tasks |-> I[u]]
  BY <1>1, <1>2
<1>4. SUFFICES /\ (\A u \in Tasks : I[u] = H[u]) => I = H
               /\ \A t \in Tasks : (\A u \in Tasks \ {t} : I[u] = H[u]) => I = [H EXCEPT ![t] = I[t]]
  OBVIOUS
<1> HIDE DEF H, I
<1>5. QED
  BY <1>3

(* A step that the dispatcher does not show in any task.                   *)
LEMMA HandsStay ==
  ASSUME snapshot' = snapshot,
         \A g \in Groups, t \in Tasks : QP!AsItWas(g, t)
  PROVE  Hands' = Hands
<1>1. ASSUME NEW t \in Tasks PROVE Hands'[t] = Hands[t]
  BY SameHand, TaskFlowAssumption
<1>2. QED
  BY <1>1, AllHands

(* Leaving the queue alone is one.                                         *)
LEMMA QueueStaysAsItWas == UNCHANGED queue => \A g \in Groups, t \in Tasks : QP!AsItWas(g, t)
BY DEF queue, QP!AsItWas, QP!AtHand, QP!UnderWay

(* Messages, a poll, a start and a shutdown do not show.                   *)
LEMMA OthersDoNotShow ==
  ASSUME TaskInv,
         \/ \E g \in Groups : Chat(g) \/ \E i \in DOMAIN runs[g] : MessageRun(g, i)
         \/ \E t \in Tasks : ScheduleAgain(t)
         \/ Poll \/ Start \/ Shutdown
  PROVE  UNCHANGED Sch!vars
<1>0. QP!QueueInv
  BY DEF TaskInv, QP!IInv
<1>1. UNCHANGED <<clock, row, gen, late, recorded, snapshot>>
  BY DEF Chat, MessageRun, ScheduleAgain, Poll, Start, Shutdown, otherFrame, ipcFrame, history
<1>2. \A h \in Groups, t \in Tasks : QP!AsItWas(h, t)
  <2>1. ASSUME NEW g \in Groups, Chat(g) PROVE \A h \in Groups, t \in Tasks : QP!AsItWas(h, t)
    BY <1>0, <2>1, SameSmall, QP!CheckLeaves, ConstantsFit DEF Chat, QP!EnqueueMessageCheck
  <2>2. ASSUME NEW g \in Groups, NEW i \in DOMAIN runs[g], MessageRun(g, i)
        PROVE  \A h \in Groups, t \in Tasks : QP!AsItWas(h, t)
    <3>1. \A t \in Tasks : t # runs[g][i].task
      BY <2>2, TaskFlowAssumption DEF MessageRun
    <3>2. QP!BeginRun(g, i) \/ QP!RunEnds(g, i)
      BY <2>2, SameSmall, SameEnds DEF MessageRun, QP!RunEnds
    <3>3. CASE QP!BeginRun(g, i)
      BY <1>0, <3>1, <3>3, QP!BeginLeaves, ConstantsFit
    <3>4. CASE QP!RunEnds(g, i)
      BY <1>0, <3>1, <3>4, QP!RunEndLeaves, ConstantsFit
    <3>5. QED
      BY <3>2, <3>3, <3>4
  <2>3. Shutdown => \A h \in Groups, t \in Tasks : QP!AsItWas(h, t)
    BY <1>0, SameSmall, QP!ShutdownLeaves, ConstantsFit DEF Shutdown
  <2>4. Poll \/ Start \/ (\E t \in Tasks : ScheduleAgain(t)) =>
          \A h \in Groups, t \in Tasks : QP!AsItWas(h, t)
    BY QueueStaysAsItWas DEF Poll, Start, ScheduleAgain, ipcFrame
  <2>5. QED
    BY <2>1, <2>2, <2>3, <2>4
<1>3. Hands' = Hands
  BY <1>1, <1>2, HandsStay
<1>4. QED
  BY <1>1, <1>3 DEF Sch!vars

(* A request creates its task, or changes it and nothing that is in hand.  *)
LEMMA RequestsShow ==
  ASSUME TaskInv, NEW t \in Tasks, Schedule(t) \/ Pause(t) \/ Resume(t) \/ Cancel(t)
  PROVE  Sch!Create(t) \/ Sch!Change(t)
<1>1. UNCHANGED <<queue, clock, snapshot, recorded>>
  BY DEF Schedule, Pause, Resume, SetStatus, Cancel, ipcFrame
<1>2. Hands' = Hands
  BY <1>1, QueueStaysAsItWas, HandsStay
<1>3. CASE Schedule(t)
  <2>1. PICK n \in FirstRuns(t) : row' = [row EXCEPT ![t] = [status |-> "active", next |-> n]]
    BY <1>3 DEF Schedule
  <2>2. n \in Times
    BY TimesFit DEF TaskInv
  <2>3. QED
    BY <1>1, <1>2, <1>3, <2>1, <2>2 DEF Schedule, Sch!Create, Sch!Exists, Exists
<1>4. CASE Pause(t) \/ Resume(t)
  <2>1. /\ \E s \in {"active", "paused"} : row' = [row EXCEPT ![t].status = s]
        /\ Exists(t) /\ late' = [late EXCEPT ![t] = 0] /\ gen' = gen
    BY <1>4 DEF Pause, Resume, SetStatus
  <2>2. QED
    BY <1>1, <1>2, <2>1 DEF Sch!Change, Sch!Exists, Exists
<1>5. CASE Cancel(t)
  BY <1>1, <1>2, <1>5 DEF Cancel, Sch!Change, Sch!Exists, Exists, Sch!NoRow, NoRow
<1>6. QED
  BY <1>3, <1>4, <1>5

(* Time passes.                                                            *)
LEMMA TickShows == Tick => Sch!Tick
<1> SUFFICES ASSUME Tick PROVE Sch!Tick
  OBVIOUS
<1>1. UNCHANGED <<queue, row, snapshot, history>> /\ clock' = clock + 1
  BY DEF Tick, otherFrame
<1>2. Hands' = Hands
  BY <1>1, QueueStaysAsItWas, HandsStay
<1>3. QED
  BY <1>1, <1>2 DEF Sch!Tick, history

(* A due occurrence is taken up, unless one of the task is in hand or the  *)
(* dispatcher is shutting down.                                            *)
LEMMA PollOneTakes ==
  ASSUME TaskInv, NEW t \in Tasks, PollOne(t)
  PROVE  Sch!Take(t) \/ UNCHANGED Sch!vars
<1> DEFINE h == ChatOf[t]
           fresh == [next |-> row[t].next, gen |-> gen[t]]
<1>1. /\ UNCHANGED <<clock, row, gen, late, recorded>> /\ h \in Groups
      /\ snapshot' = IF Accepts(t) THEN [snapshot EXCEPT ![t] = fresh] ELSE snapshot
  BY TaskFlowAssumption DEF PollOne, history
<1>2. snapshot \in [Tasks -> [next : {0} \cup Times, gen : 0 .. MaxGens]]
  BY DEF TaskInv, DataOK
<1>3. /\ \A g \in Groups, u \in Tasks : ~(g = h /\ u = t) => QP!AsItWas(g, u)
      /\ ~Accepts(t) => QP!AsItWas(h, t)
      /\ Accepts(t) => ~QP!AtHand(h, t) /\ QP!AtHand(h, t)' /\ ~QP!UnderWay(h, t)'
  <2>1. QP!QueueInv /\ QP!EnqueueTask(h, t)
    BY SameSmall DEF TaskInv, QP!IInv, PollOne
  <2>2. Q!Pends(groups[h], t) <=> QP!Pends(groups[h], t)
    BY DEF Q!Pends, QP!Pends
  <2> HIDE DEF h
  <2>3. /\ \A g \in Groups, u \in Tasks : ~(g = h /\ u = t) => QP!AsItWas(g, u)
        /\ shuttingDown \/ groups[h].runningTask = t \/ QP!Pends(groups[h], t) => QP!AsItWas(h, t)
        /\ ~shuttingDown /\ groups[h].runningTask # t /\ ~QP!Pends(groups[h], t) =>
             ~QP!AtHand(h, t) /\ QP!AtHand(h, t)' /\ ~QP!UnderWay(h, t)'
    BY <1>1, <2>1, QP!TaskLeaves, ConstantsFit
  <2>4. Accepts(t) <=> ~shuttingDown /\ groups[h].runningTask # t /\ ~QP!Pends(groups[h], t)
    BY <2>2 DEF Accepts, h
  <2>5. QED
    BY <2>3, <2>4
<1>4. ASSUME NEW u \in Tasks \ {t} PROVE Hands'[u] = Hands[u]
  <2>1. snapshot'[u] = snapshot[u] /\ QP!AsItWas(ChatOf[u], u)
    BY <1>1, <1>2, <1>3, TaskFlowAssumption
  <2>2. QED
    BY <2>1, SameHand
<1>5. CASE ~Accepts(t)
  <2>1. Hands'[t] = Hands[t]
    BY <1>1, <1>3, <1>5, SameHand
  <2>2. Hands' = Hands
    BY <1>4, <2>1, AllHands
  <2>3. QED
    BY <1>1, <2>2 DEF Sch!vars
<1>6. CASE Accepts(t)
  <2>1. snapshot'[t] = fresh
    BY <1>1, <1>2, <1>6
  <2>2. snapshot'[t].next = row[t].next /\ snapshot'[t].gen = gen[t]
    BY <2>1
  <2>3. /\ Hands[t] = {}
        /\ Hands'[t] = {[next |-> row[t].next, gen |-> gen[t], begun |-> FALSE]}
    BY <1>3, <1>6, <2>2, HandNow, HandNext
  <2>4. Hands' = [Hands EXCEPT ![t] = {[next |-> row[t].next, gen |-> gen[t], begun |-> FALSE]}]
    BY <1>4, <2>3, AllHands
  <2>5. Due(t) /\ <<t, gen[t], row[t].next>> \notin recorded
    BY DEF PollOne, TaskInv, TaskOK, RecordOK, Due, Exists
  <2>6. QED
    BY <1>1, <2>3, <2>4, <2>5 DEF Sch!Take, Sch!Due, Due
<1>7. QED
  BY <1>5, <1>6

(* A run of a task: the task is at hand, and the hand shows how far it is. *)
LEMMA RunInHand ==
  ASSUME TaskInv, NEW g \in Groups, NEW i \in DOMAIN runs[g],
         NEW t \in Tasks, t = runs[g][i].task
  PROVE  /\ g = ChatOf[t] /\ TaskOK(t) /\ QP!AtHand(ChatOf[t], t)
         /\ Q!Begun(runs[g][i]) =>
              Hands[t] = {[next |-> snapshot[t].next, gen |-> snapshot[t].gen, begun |-> TRUE]}
         /\ ~Q!Begun(runs[g][i]) =>
              Hands[t] = {[next |-> snapshot[t].next, gen |-> snapshot[t].gen, begun |-> FALSE]}
<1>1. QP!AtHand(g, t)
  BY DEF QP!AtHand
<1>2. g = ChatOf[t] /\ TaskOK(t)
  BY <1>1 DEF TaskInv, TaskOK, ClosureOK
<1>3. QP!UnderWay(g, t) <=> Q!Begun(runs[g][i])
  <2>1. \A k \in DOMAIN runs[g] : k = i
    BY QP!LiveRun, ConstantsFit DEF TaskInv, QP!IInv
  <2>2. QED
    BY <2>1 DEF QP!UnderWay, QP!Begun, Q!Begun
<1>4. QED
  BY <1>1, <1>2, <1>3, HandNow

(* A run begins, wanted or not.                                            *)
LEMMA BeginShows ==
  ASSUME TaskInv, NEW g \in Groups, NEW i \in DOMAIN runs[g], BeginTask(g, i)
  PROVE  \E t \in Tasks : Sch!Begin(t)
<1>1. PICK t \in Tasks : t = runs[g][i].task /\ t \notin BadFolder
  BY DEF BeginTask
<1>2. /\ UNCHANGED <<clock, snapshot, row, gen, recorded>>
      /\ \/ late' = late /\ row[t].status = "active" /\ gen[t] = snapshot[t].gen
         \/ /\ late' = [late EXCEPT ![t] = late[t] + 1]
            /\ ~(row[t].status = "active" /\ gen[t] = snapshot[t].gen)
  BY <1>1 DEF BeginTask, runFrame
<1>3. QP!QueueInv /\ QP!BeginRun(g, i) /\ g = ChatOf[t] /\ TaskOK(t)
  BY <1>1, SameSmall, RunInHand DEF TaskInv, QP!IInv, BeginTask
<1> DEFINE n == snapshot[t].next
           k == snapshot[t].gen
           before == [next |-> n, gen |-> k, begun |-> FALSE]
           after == [next |-> n, gen |-> k, begun |-> TRUE]
<1>4. /\ \A u \in Tasks \ {t} : QP!AsItWas(ChatOf[u], u)
      /\ QP!AtHand(g, t) /\ QP!AtHand(g, t)' /\ ~QP!UnderWay(g, t) /\ QP!UnderWay(g, t)'
  <2>1. \A h \in Groups, u \in Tasks :
          \/ ~(h = g /\ u = runs[g][i].task) /\ QP!AsItWas(h, u)
          \/ /\ h = g /\ u = runs[g][i].task
             /\ QP!AtHand(h, u) /\ QP!AtHand(h, u)' /\ ~QP!UnderWay(h, u) /\ QP!UnderWay(h, u)'
    BY <1>3, QP!BeginLeaves, ConstantsFit
  <2>2. \A u \in Tasks \ {t} : QP!AsItWas(ChatOf[u], u)
    BY <1>1, <2>1, TaskFlowAssumption
  <2>3. QP!AtHand(g, t) /\ QP!AtHand(g, t)' /\ ~QP!UnderWay(g, t) /\ QP!UnderWay(g, t)'
    BY <1>1, <2>1
  <2>4. QED
    BY <2>2, <2>3
<1>5. Hands[t] = {before} /\ Hands'[t] = {after}
  BY <1>2, <1>3, <1>4, HandNow, HandNext
<1>6. Hands' = [Hands EXCEPT ![t] = {after}]
  <2>1. ASSUME NEW u \in Tasks \ {t} PROVE Hands'[u] = Hands[u]
    BY <1>2, <1>4, SameHand
  <2>2. QED
    BY <1>5, <2>1, AllHands
<1>7. ASSUME late' = [late EXCEPT ![t] = late[t] + 1],
             ~(row[t].status = "active" /\ gen[t] = snapshot[t].gen)
      PROVE  late[t] = 0 /\ late' = [late EXCEPT ![t] = 1]
  <2>1. QP!ToBegin(ChatOf[t], t)
    BY <1>1, <1>3, QP!BeginTakes, ConstantsFit
  <2>2. late[t] \in Nat /\ ~(late[t] >= 1)
    BY <1>3, <1>7, <2>1 DEF TaskOK, LateOK, TaskInv, DataOK
  <2>3. late[t] = 0
    BY <2>2
  <2>4. QED
    BY <1>7, <2>3
<1>8. \/ Sch!Wanted(t, before) /\ UNCHANGED late
      \/ ~Sch!Wanted(t, before) /\ late[t] = 0 /\ late' = [late EXCEPT ![t] = 1]
  BY <1>2, <1>7 DEF Sch!Wanted
<1>9. ~before.begun /\ before.next = n /\ before.gen = k
  OBVIOUS
<1>10. Sch!Begin(t)
  <2> HIDE DEF before
  <2>1. before \in Hands[t]
    BY <1>5
  <2>2. Hands' = [Hands EXCEPT ![t] = {[next |-> before.next, gen |-> before.gen, begun |-> TRUE]}]
    BY <1>6, <1>9
  <2>3. QED
    BY <1>1, <1>2, <1>8, <1>9, <2>1, <2>2 DEF Sch!Begin
<1>11. QED
  BY <1>10

(* However a task's run ends, nothing of the task is in hand any more, and *)
(* of the others what was before.                                          *)
LEMMA HandIsEmptied ==
  ASSUME TaskInv, NEW g \in Groups, NEW i \in DOMAIN runs[g],
         NEW t \in Tasks, t = runs[g][i].task,
         Q!TaskEnds(g, i) \/ Q!RunNeverBegins(g, i), snapshot' = Released(t)
  PROVE  Hands' = [Hands EXCEPT ![t] = {}]
<1>1. /\ \A h \in Groups : ~QP!AtHand(h, t)'
      /\ \A u \in Tasks \ {t} : snapshot'[u] = snapshot[u]
  BY RunIsOver
<1>2. QP!QueueInv /\ QP!RunEnds(g, i)
  BY SameSmall, SameEnds DEF TaskInv, QP!IInv, QP!RunEnds
<1>3. \A u \in Tasks \ {t} : QP!AsItWas(ChatOf[u], u)
  BY <1>2, QP!RunEndLeaves, ConstantsFit, TaskFlowAssumption
<1>4. Hands'[t] = {}
  BY <1>1, HandNext, TaskFlowAssumption
<1>5. ASSUME NEW u \in Tasks \ {t} PROVE Hands'[u] = Hands[u]
  BY <1>1, <1>3, SameHand
<1>6. QED
  BY <1>4, <1>5, AllHands

(* A run that is rejected, or cancelled.                                   *)
LEMMA UnrecordedShows ==
  ASSUME TaskInv, NEW g \in Groups, NEW i \in DOMAIN runs[g],
         RejectTask(g, i) \/ CancelTask(g, i)
  PROVE  \E t \in Tasks : Sch!Refuse(t) \/ Sch!Lose({t})
<1>1. PICK t \in Tasks : t = runs[g][i].task
  BY TaskFlowAssumption DEF RejectTask, CancelTask
<1>2. /\ UNCHANGED <<clock, gen, late, recorded>>
      /\ snapshot' = Released(t)
      /\ Q!TaskEnds(g, i) \/ Q!RunNeverBegins(g, i)
  BY <1>1 DEF RejectTask, CancelTask, runFrame, history
<1>3. Hands' = [Hands EXCEPT ![t] = {}]
  BY <1>1, <1>2, HandIsEmptied
<1>4. CASE RejectTask(g, i)
  <2>1. /\ t \in BadFolder /\ runs[g][i].phase = "created"
        /\ row' = IF Exists(t) THEN [row EXCEPT ![t].status = "paused"] ELSE row
    BY <1>1, <1>4 DEF RejectTask
  <2>2. \E o \in Hands[t] : ~o.begun
    <3>1. ~Q!Begun(runs[g][i])
      BY <2>1 DEF Q!Begun
    <3> DEFINE o == [next |-> snapshot[t].next, gen |-> snapshot[t].gen, begun |-> FALSE]
    <3>2. Hands[t] = {o} /\ ~o.begun
      BY <1>1, <3>1, RunInHand
    <3> HIDE DEF o
    <3>3. QED
      BY <3>2
  <2>3. QED
    BY <1>2, <1>3, <2>1, <2>2 DEF Sch!Refuse, Sch!Exists, Exists
<1>5. CASE CancelTask(g, i)
  <2>1. row' = row
    BY <1>5 DEF CancelTask
  <2>2. Hands' = [u \in Tasks |-> IF u \in {t} THEN {} ELSE Hands[u]]
    BY <1>3 DEF Hands
  <2>3. QED
    BY <1>2, <2>1, <2>2 DEF Sch!Lose
<1>6. QED
  BY <1>4, <1>5

(* A run that ends is recorded, with what follows it.                      *)
LEMMA FinishShows ==
  ASSUME TaskInv, NEW g \in Groups, NEW i \in DOMAIN runs[g], FinishTask(g, i)
  PROVE  \E t \in Tasks : Sch!Record(t)
<1>1. PICK t \in Tasks : t = runs[g][i].task
  BY DEF FinishTask
<1>2. /\ UNCHANGED <<clock, gen, late>> /\ snapshot' = Released(t) /\ Q!TaskEnds(g, i)
      /\ recorded' = recorded \cup {Occurrence(t)} /\ Q!Begun(runs[g][i])
  BY <1>1 DEF FinishTask, runFrame
<1> DEFINE o == [next |-> snapshot[t].next, gen |-> snapshot[t].gen, begun |-> TRUE]
<1>3. Hands' = [Hands EXCEPT ![t] = {}]
  BY <1>1, <1>2, HandIsEmptied
<1>4. o \in Hands[t] /\ TaskOK(t) /\ QP!AtHand(ChatOf[t], t)
  <2>1. Hands[t] = {o} /\ TaskOK(t) /\ QP!AtHand(ChatOf[t], t)
    BY <1>1, <1>2, RunInHand
  <2>2. QED
    BY <2>1
<1>5. <<t, o.gen, o.next>> = Occurrence(t) /\ Occurrence(t) \notin recorded
  BY <1>4 DEF TaskOK, ClosureOK, Occurrence
<1>6. PICK n \in ComputeNextRun(t, snapshot[t].next) :
        row' = IF Exists(t) THEN [row EXCEPT ![t] = AfterRun(t, n)] ELSE row
  BY <1>1 DEF FinishTask
<1>7. n \in Times \cup {0} /\ Sch!Follows(t, o, n)
  <2>1. n \in {0} \cup Times
    BY TimesFit DEF TaskInv
  <2>2. CASE Kind[t] = "once"
    BY <1>6, <2>2 DEF ComputeNextRun, Sch!Follows
  <2>3. CASE Kind[t] = "interval"
    BY <1>6, <2>3 DEF ComputeNextRun, NextInterval, Earliest, Sch!Follows
  <2>4. CASE Kind[t] = "cron"
    BY <1>6, <2>4 DEF ComputeNextRun, NextCron, Earliest, Sch!Follows
  <2>5. QED
    BY <2>1, <2>2, <2>3, <2>4, TaskFlowAssumption
<1>8. \/ ~Exists(t) /\ UNCHANGED row
      \/ /\ Exists(t)
         /\ row' = [row EXCEPT ![t] = [status |-> IF n = 0 THEN "completed" ELSE row[t].status,
                                       next |-> n]]
  BY <1>6 DEF AfterRun
<1> HIDE DEF o
<1>9. o.begun
  BY DEF o
<1>10. Sch!Record(t)
  BY <1>2, <1>3, <1>4, <1>5, <1>7, <1>8, <1>9 DEF Sch!Record, Sch!Exists, Exists
<1>11. QED
  BY <1>10

(* With the process all that was in hand is lost.                          *)
LEMMA StopShows ==
  ASSUME Crash \/ Exit
  PROVE  Sch!Lose(Tasks)
<1>1. MemoryLost /\ UNCHANGED <<clock, row, history>>
  BY DEF Crash, Exit
<1>2. ASSUME NEW t \in Tasks PROVE Hands'[t] = {}
  <2>1. ~QP!AtHand(ChatOf[t], t)'
    BY <1>1, TaskFlowAssumption DEF MemoryLost, Q!FreshGroup, QP!AtHand, QP!Pends
  <2>2. QED
    BY <2>1, HandNext
<1>3. Hands' = [t \in Tasks |-> Hands'[t]]
  BY DEF Hands
<1>4. Hands' = [t \in Tasks |-> IF t \in Tasks THEN {} ELSE Hands[t]]
  BY <1>2, <1>3
<1>5. QED
  BY <1>1, <1>4 DEF Sch!Lose, history

(* Each step is one of Scheduling, or does not show.                       *)
LEMMA StepSchedules ==
  ASSUME TaskInv, [Next]_vars
  PROVE  [Sch!Next]_(Sch!vars)
<1>1. CASE UNCHANGED vars
  <2>1. Hands' = Hands
    BY <1>1, QueueStaysAsItWas, HandsStay DEF vars
  <2>2. QED
    BY <1>1, <2>1 DEF vars, history, Sch!vars
<1>2. ASSUME NEW t \in Tasks, Requests(t) PROVE Sch!Next \/ UNCHANGED Sch!vars
  BY <1>2, RequestsShow, OthersDoNotShow DEF Requests, Sch!Next
<1>3. ASSUME NEW t \in Tasks, PollOne(t) PROVE Sch!Next \/ UNCHANGED Sch!vars
  BY <1>3, PollOneTakes DEF Sch!Next
<1>4. ASSUME NEW g \in Groups, NEW i \in DOMAIN runs[g], Step(g, i)
      PROVE  Sch!Next \/ UNCHANGED Sch!vars
  BY <1>4, BeginShows, UnrecordedShows, FinishShows, OthersDoNotShow DEF Step, Sch!Next
<1>5. ASSUME NEW g \in Groups, Chat(g) PROVE UNCHANGED Sch!vars
  BY <1>5, OthersDoNotShow
<1>6. Poll \/ Start \/ Shutdown => UNCHANGED Sch!vars
  BY OthersDoNotShow
<1>7. Tick => Sch!Next
  BY TickShows DEF Sch!Next
<1>8. Crash \/ Exit => Sch!Next
  BY StopShows DEF Sch!Next
<1>9. QED
  BY <1>1, <1>2, <1>3, <1>4, <1>5, <1>6, <1>7, <1>8 DEF Next, Runs

(* Seen from its tasks, the flow takes up what is due, begins it, records  *)
(* it with its next due time or loses it, and does nothing else, whatever  *)
(* requests, polls, messages, shutdowns and crashes come in between.       *)
THEOREM ImplementsScheduling == Spec => Schedules
<1>1. Init => Sch!Init
  <2> SUFFICES ASSUME Init PROVE Sch!Init
    OBVIOUS
  <2>1. ASSUME NEW t \in Tasks PROVE Hands[t] = {}
    <3>1. ~QP!AtHand(ChatOf[t], t)
      BY TaskFlowAssumption DEF Init, Q!Init, Q!FreshGroup, QP!AtHand, QP!Pends
    <3>2. QED
      BY <3>1, HandNow
  <2>2. Hands = [t \in Tasks |-> {}]
    BY <2>1 DEF Hands
  <2>3. QED
    BY <2>2 DEF Init, Sch!Init, NoRow, Sch!NoRow
<1>2. TaskInv /\ [Next]_vars => [Sch!Next]_(Sch!vars)
  BY StepSchedules
<1>3. QED
  BY <1>1, <1>2, Invariance, PTL DEF Spec, Schedules, Sch!Spec
=============================================================================
