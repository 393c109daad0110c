------------------------ MODULE GroupQueueRefinement ------------------------
(***************************************************************************)
(* GroupQueue implements Dispatcher: its initial state and each of its     *)
(* steps, seen through Todo and Doing, is one of Dispatcher or a stutter.  *)
(* The invariant of GroupQueueProofs is what makes it so: a live run is    *)
(* the only one of its group, the counter counts the groups that have one, *)
(* and who stands in the line is idle and has something to do.             *)
(***************************************************************************)
EXTENDS GroupQueueProofs

TodoOf(gs) == [g \in Groups |-> PendingJobs(gs[g])]
DoingOf(rs) == [g \in Groups |-> RunJobs(rs[g])]

(* A sequence is empty exactly when it has no length.                      *)
LEMMA NonEmpty ==
  ASSUME NEW S, NEW q \in Seq(S)
  PROVE  /\ Len(q) \in Nat /\ DOMAIN q = 1 .. Len(q)
         /\ q # <<>> <=> Len(q) >= 1
         /\ q # <<>> <=> DOMAIN q # {}
<1>1. Len(q) \in Nat /\ DOMAIN q = 1 .. Len(q)
  OBVIOUS
<1>2. q # <<>> <=> Len(q) # 0
  BY EmptySeq
<1>3. QED
  BY <1>1, <1>2

-----------------------------------------------------------------------------
(* What the mapping shows of the work that waits with one group.           *)
LEMMA OneTodo ==
  ASSUME NEW gs, NEW gt, NEW h \in Groups, \A g \in Groups \ {h} : gt[g] = gs[g]
  PROVE  TodoOf(gt) = [TodoOf(gs) EXCEPT ![h] = PendingJobs(gt[h])]
BY DEF TodoOf

(* What the mapping shows of the runs of one group.                        *)
LEMMA OneDoing ==
  ASSUME NEW rs, NEW rt, NEW h \in Groups, \A g \in Groups \ {h} : rt[g] = rs[g]
  PROVE  DoingOf(rt) = [DoingOf(rs) EXCEPT ![h] = RunJobs(rt[h])]
BY DEF DoingOf

(* A group does the job it names as its running task, if it has a run.     *)
LEMMA JobsOfRun ==
  ASSUME NEW s, NEW r, GroupOK(s, r)
  PROVE  RunJobs(r) = IF r = <<>> THEN {} ELSE {s.runningTask}
<1>1. r \in Seq(Run) /\ Len(r) \in Nat /\ Len(r) <= 1
  BY DEF GroupOK
<1>2. CASE r = <<>>
  BY <1>2 DEF RunJobs
<1>3. CASE r # <<>>
  <2>1. Len(r) = 1 /\ DOMAIN r = {1}
    <3>1. Len(r) >= 1 /\ DOMAIN r = 1 .. Len(r)
      BY <1>1, <1>3, NonEmpty
    <3> DEFINE n == Len(r)
    <3>2. n = 1
      BY <1>1, <3>1
    <3>3. QED
      BY <3>1, <3>2
  <2>2. RunJobs(r) = {r[1].task}
    BY <2>1 DEF RunJobs
  <2>3. QED
    BY <1>3, <2>2 DEF GroupOK
<1>4. QED
  BY <1>2, <1>3

(* A run that has just been created shows its one job.                     *)
LEMMA JobsOfNewRun ==
  ASSUME NEW t \in Tasks \cup {NoTask}
  PROVE  RunJobs(Append(<<>>, NewRun(t))) = {t}
<1> DEFINE q == Append(<<>>, NewRun(t))
<1>1. DOMAIN q = {1} /\ q[1] = NewRun(t)
  OBVIOUS
<1>2. NewRun(t).task = t
  BY DEF NewRun
<1>3. QED
  BY <1>1, <1>2 DEF RunJobs

(* The flag and the list of a group say pending exactly when the mapping   *)
(* shows a job that waits.                                                 *)
LEMMA PendingMeansTodo ==
  ASSUME NEW s \in GroupState
  PROVE  /\ HasPending(s) <=> PendingJobs(s) # {}
         /\ PendingJobs(s) \subseteq Tasks \cup {NoTask}
         /\ s.pendingTasks # <<>> <=> PendingJobs(s) \cap Tasks # {}
<1> DEFINE p == s.pendingTasks
<1>1. p \in Seq(Tasks) /\ s.pendingMessages \in BOOLEAN
  BY DEF GroupState
<1>2. p # <<>> <=> DOMAIN p # {}
  BY <1>1, NonEmpty
<1>3. \A i \in DOMAIN p : p[i] \in Tasks
  BY <1>1
<1> HIDE DEF p
<1>4. PendingJobs(s) = {p[i] : i \in DOMAIN p} \cup (IF s.pendingMessages THEN {NoTask} ELSE {})
  BY DEF PendingJobs, p
<1>5. HasPending(s) <=> p # <<>> \/ s.pendingMessages
  BY DEF HasPending, p
<1>6. QED
  BY <1>1, <1>2, <1>3, <1>4, <1>5, GroupQueueAssumption DEF p

(* Starting the next job takes just that job off the pending ones.         *)
LEMMA StartedNextTakesOne ==
  ASSUME NEW s, NEW r, GroupOK(s, r), HasPending(s)
  PROVE  /\ NextTask(s) \in PendingJobs(s)
         /\ PendingJobs(s) \cap Tasks # {} => NextTask(s) \in Tasks
         /\ PendingJobs(StartedNext(s)) = PendingJobs(s) \ {NextTask(s)}
<1> DEFINE p == s.pendingTasks
<1>1. s \in GroupState /\ p \in Seq(Tasks) /\ s.pendingMessages \in BOOLEAN
  BY DEF GroupOK, GroupState
<1>2. \A i, j \in DOMAIN p : p[i] = p[j] => i = j
  BY DEF GroupOK
<1>3. p # <<>> <=> PendingJobs(s) \cap Tasks # {}
  BY <1>1, PendingMeansTodo
<1>4. CASE p = <<>>
  <2>1. s.pendingMessages = TRUE
    BY <1>1, <1>4 DEF HasPending
  <2>2. StartedNext(s) = StartedMessages(s) /\ NextTask(s) = NoTask
    BY <1>4 DEF StartedNext, NextTask
  <2>3. StartedMessages(s).pendingTasks = p /\ ~StartedMessages(s).pendingMessages
    BY <1>1 DEF StartedMessages, GroupState
  <2>4. DOMAIN p = {}
    BY <1>4
  <2>5. QED
    BY <1>3, <1>4, <2>1, <2>2, <2>3, <2>4 DEF PendingJobs
<1>5. CASE p # <<>>
  <2> DEFINE q == Tail(p)
             u == [s EXCEPT !.pendingTasks = q]
             v == StartedTask(u, Head(p))
  <2>1. StartedNext(s) = v /\ NextTask(s) = Head(p)
    BY <1>5 DEF StartedNext, NextTask
  <2>2. /\ Head(p) = p[1] /\ Head(p) \in Tasks /\ Len(p) \in Nat /\ Len(p) >= 1
        /\ DOMAIN p = 1 .. Len(p) /\ DOMAIN q = 1 .. Len(p) - 1
        /\ \A i \in 1 .. Len(p) - 1 : q[i] = p[i + 1]
        /\ q \in Seq(Tasks)
    BY <1>1, <1>5
  <2>3. v.pendingTasks = q /\ v.pendingMessages = s.pendingMessages
    <3>1. u \in GroupState /\ u.pendingTasks = q /\ u.pendingMessages = s.pendingMessages
      BY <1>1, <2>2 DEF GroupState
    <3> HIDE DEF u, q
    <3>2. QED
      BY <3>1 DEF StartedTask, GroupState
  <2> HIDE DEF v, q, p
  <2>4. {q[i] : i \in DOMAIN q} = {p[i] : i \in DOMAIN p} \ {p[1]}
    <3>1. ASSUME NEW i \in DOMAIN q PROVE q[i] \in {p[j] : j \in DOMAIN p} \ {p[1]}
      <4>1. i + 1 \in DOMAIN p /\ i + 1 # 1 /\ q[i] = p[i + 1] /\ 1 \in DOMAIN p
        BY <2>2, <3>1
      <4>2. QED
        BY <1>2, <4>1
    <3>2. ASSUME NEW j \in DOMAIN p, p[j] # p[1] PROVE p[j] \in {q[i] : i \in DOMAIN q}
      <4>1. j # 1
        BY <3>2
      <4>2. j - 1 \in DOMAIN q /\ q[j - 1] = p[j]
        BY <2>2, <3>2, <4>1
      <4>3. QED
        BY <4>2
    <3>3. QED
      BY <3>1, <3>2
  <2>5. PendingJobs(s) = {p[i] : i \in DOMAIN p} \cup (IF s.pendingMessages THEN {NoTask} ELSE {})
    BY DEF PendingJobs, p
  <2>6. PendingJobs(v) = {q[i] : i \in DOMAIN q} \cup (IF s.pendingMessages THEN {NoTask} ELSE {})
    BY <2>3 DEF PendingJobs
  <2>7. p[1] # NoTask /\ p[1] \in {p[i] : i \in DOMAIN p}
    BY <2>2, GroupQueueAssumption
  <2>8. PendingJobs(v) = PendingJobs(s) \ {p[1]}
    BY <2>4, <2>5, <2>6, <2>7
  <2>9. QED
    BY <2>1, <2>2, <2>5, <2>7, <2>8
<1>6. QED
  BY <1>4, <1>5

-----------------------------------------------------------------------------
(* What the mapping shows of the whole dispatcher.                         *)

(* Dispatcher counts as this module does.                                  *)
LEMMA SameCardinality ==
  ASSUME NEW S
  PROVE  D!Cardinality(S) = Cardinality(S)
BY DEF D!Cardinality, Cardinality

(* Until shutdown the busy groups are the active ones, all counted.        *)
LEMMA BusyIsActive ==
  ASSUME QueueInv, ~shuttingDown
  PROVE  /\ \A g \in Groups : g \in D!Busy <=> groups[g].active
         /\ D!Cardinality(D!Busy) = activeCount
         /\ activeCount \in Nat /\ activeCount <= MaxConcurrent
<1>1. ASSUME NEW g \in Groups
      PROVE  Doing[g] # {} <=> groups[g].active
  <2>1. GroupOK(groups[g], runs[g]) /\ AwakeOK(groups[g], runs[g])
    BY DEF QueueInv, GroupsOK, AllAwake
  <2>2. Doing[g] = IF runs[g] = <<>> THEN {} ELSE {groups[g].runningTask}
    BY <2>1, JobsOfRun DEF Doing
  <2>3. QED
    BY <2>1, <2>2 DEF GroupOK, AwakeOK
<1>2. D!Busy = ActiveOf(groups)
  BY <1>1 DEF D!Busy, ActiveOf
<1>3. QED
  BY <1>2, CountSame, SameCardinality DEF QueueInv, GroupsOK, ActiveOf

(* An idle group that can start a run has nothing pending, and no run.     *)
LEMMA IdleWithSlot ==
  ASSUME QueueInv, NEW g \in Groups, ~shuttingDown, ~groups[g].active,
         activeCount < MaxConcurrent
  PROVE  /\ ~HasPending(groups[g]) /\ PendingJobs(groups[g]) = {}
         /\ runs[g] = <<>>
<1>1. LineOK(groups, activeCount, waitingGroups) /\ activeCount \in Nat
      /\ GroupOK(groups[g], runs[g])
  BY CountSame DEF QueueInv, GroupsOK
<1>2. waitingGroups = <<>>
  BY <1>1, GroupQueueAssumption DEF LineOK
<1>3. ~HasPending(groups[g])
  BY <1>1, <1>2 DEF LineOK
<1>4. QED
  BY <1>1, <1>3, PendingMeansTodo DEF GroupOK

(* StartOne is StartNow.                                                   *)
LEMMA StartOneMaps ==
  ASSUME QueueInv, NEW g \in Groups, ~shuttingDown, ~groups[g].active,
         activeCount < MaxConcurrent, NEW t \in Tasks \cup {NoTask},
         NEW u, PendingJobs(u) = {},
         StartOne(g, u, t), UNCHANGED shuttingDown
  PROVE  D!Next
<1>1. groups \in [Groups -> GroupState] /\ runs \in [Groups -> Seq(Run)]
  BY DEF QueueInv, GroupsOK
<1>2. PendingJobs(groups[g]) = {} /\ runs[g] = <<>>
  BY IdleWithSlot
<1>3. /\ groups'[g] = u /\ \A h \in Groups \ {g} : groups'[h] = groups[h]
      /\ runs'[g] = Append(<<>>, NewRun(t)) /\ \A h \in Groups \ {g} : runs'[h] = runs[h]
      /\ waitingGroups' = waitingGroups
  BY <1>1, <1>2 DEF StartOne
<1>4. Todo' = Todo
  BY <1>2, <1>3 DEF Todo
<1>5. Doing' = [Doing EXCEPT ![g] = {t}]
  BY <1>3, JobsOfNewRun DEF Doing
<1>6. g \notin D!Busy /\ D!Cardinality(D!Busy) < MaxConcurrent
  BY BusyIsActive
<1>7. Doing[g] = {}
  BY <1>6 DEF D!Busy
<1>8. D!StartNow(g, t)
  BY <1>3, <1>4, <1>5, <1>6, <1>7 DEF D!StartNow, D!Accepted
<1>9. QED
  BY <1>8 DEF D!Next, D!Jobs

(* A busy group that takes on a job, and Park, are Defer.                  *)
LEMMA DeferMaps ==
  ASSUME QueueInv, NEW g \in Groups, ~shuttingDown,
         NEW t \in Tasks \cup {NoTask}, t \in Tasks => groups[g].runningTask # t,
         NEW u, PendingJobs(u) = PendingJobs(groups[g]) \cup {t},
         groups' = [groups EXCEPT ![g] = u], UNCHANGED <<runs, shuttingDown>>,
         groups[g].active \/ activeCount >= MaxConcurrent,
         waitingGroups' = IF groups[g].active \/ Waits(g)
                            THEN waitingGroups ELSE Append(waitingGroups, g)
  PROVE  D!Next
<1>1. groups \in [Groups -> GroupState] /\ GroupOK(groups[g], runs[g])
  BY DEF QueueInv, GroupsOK
<1>2. Todo' = [Todo EXCEPT ![g] = @ \cup {t}]
  BY <1>1 DEF Todo
<1>3. Doing' = Doing
  BY DEF Doing
<1>4. /\ g \in D!Busy <=> groups[g].active
      /\ groups[g].active \/ D!Cardinality(D!Busy) = MaxConcurrent
  BY BusyIsActive, GroupQueueAssumption
<1>5. t \in Tasks => t \notin Doing[g]
  BY <1>1, JobsOfRun DEF Doing
<1>6. D!Defer(g, t)
  BY <1>2, <1>3, <1>4, <1>5 DEF D!Defer, D!Accepted, Waits
<1>7. QED
  BY <1>6 DEF D!Next, D!Jobs

-----------------------------------------------------------------------------
(* The entry points.                                                       *)

(* enqueue_message_check is StartNow, Defer or nothing that shows.         *)
LEMMA CheckMessagesMaps ==
  ASSUME QueueInv, NEW g \in Groups, CheckMessages(g), UNCHANGED shuttingDown
  PROVE  [D!Next]_(D!vars)
<1> DEFINE s == groups[g]
           u == [s EXCEPT !.pendingMessages = TRUE]
<1>1. /\ s \in GroupState /\ groups \in [Groups -> GroupState]
      /\ activeCount \in Nat /\ MaxConcurrent \in Nat
  BY CountSame, GroupQueueAssumption DEF QueueInv, GroupsOK
<1>2. PendingJobs(u) = PendingJobs(s) \cup {NoTask}
  BY <1>1 DEF GroupState, PendingJobs
<1>3. CASE shuttingDown
  BY <1>3 DEF CheckMessages, queueVars, D!vars, Todo, Doing
<1>4. CASE ~shuttingDown /\ s.active
  BY <1>1, <1>2, <1>4, DeferMaps, GroupQueueAssumption DEF CheckMessages
<1>5. CASE ~shuttingDown /\ ~s.active /\ activeCount >= MaxConcurrent
  <2>1. Park(g, u)
    BY <1>1, <1>5 DEF CheckMessages
  <2>2. QED
    BY <1>1, <1>2, <1>5, <2>1, DeferMaps, GroupQueueAssumption DEF Park
<1>6. CASE ~shuttingDown /\ ~s.active /\ activeCount < MaxConcurrent
  <2>1. StartOne(g, StartedMessages(s), NoTask)
    BY <1>1, <1>6 DEF CheckMessages
  <2>2. ~HasPending(s)
    BY <1>6, IdleWithSlot
  <2>3. StartedMessages(s).pendingTasks = <<>> /\ ~StartedMessages(s).pendingMessages
    BY <1>1, <2>2 DEF StartedMessages, GroupState, HasPending
  <2>4. PendingJobs(StartedMessages(s)) = {}
    BY <2>3 DEF PendingJobs
  <2>5. QED
    BY <1>6, <2>1, <2>4, StartOneMaps
<1>7. QED
  BY <1>3, <1>4, <1>5, <1>6 DEF CheckMessages

(* Appending a task to the list adds one job to those that wait.           *)
LEMMA QueuedTaskAddsOne ==
  ASSUME NEW s \in GroupState, NEW t \in Tasks
  PROVE  PendingJobs(QueuedTask(s, t)) = PendingJobs(s) \cup {t}
<1> DEFINE p == s.pendingTasks
           q == Append(p, t)
<1>1. p \in Seq(Tasks)
  BY DEF GroupState
<1>2. /\ Len(p) \in Nat /\ DOMAIN p = 1 .. Len(p) /\ DOMAIN q = 1 .. Len(p) + 1
      /\ \A i \in 1 .. Len(p) : q[i] = p[i]
      /\ q[Len(p) + 1] = t
  BY <1>1
<1>3. QueuedTask(s, t).pendingTasks = q /\ QueuedTask(s, t).pendingMessages = s.pendingMessages
  BY DEF QueuedTask, GroupState
<1> HIDE DEF p, q
<1>4. \A i \in DOMAIN q : i \in DOMAIN p \/ i = Len(p) + 1
  BY <1>2
<1>5. DOMAIN p \subseteq DOMAIN q /\ Len(p) + 1 \in DOMAIN q
  BY <1>2
<1>6. {q[i] : i \in DOMAIN q} = {p[i] : i \in DOMAIN p} \cup {t}
  BY <1>2, <1>4, <1>5
<1>7. QED
  BY <1>3, <1>6 DEF PendingJobs, p

(* enqueue_task is StartNow, Defer or nothing that shows.                  *)
LEMMA EnqueueTaskMaps ==
  ASSUME QueueInv, NEW g \in Groups, NEW t \in Tasks, EnqueueTask(g, t)
  PROVE  [D!Next]_(D!vars)
<1> DEFINE s == groups[g]
           u == QueuedTask(s, t)
<1>1. /\ s \in GroupState /\ groups \in [Groups -> GroupState] /\ UNCHANGED shuttingDown
      /\ activeCount \in Nat /\ MaxConcurrent \in Nat
  BY CountSame, GroupQueueAssumption DEF QueueInv, GroupsOK, EnqueueTask
<1>2. PendingJobs(u) = PendingJobs(s) \cup {t}
  BY <1>1, QueuedTaskAddsOne
<1>3. CASE UNCHANGED queueVars
  BY <1>1, <1>3 DEF queueVars, D!vars, Todo, Doing
<1>4. ASSUME ~shuttingDown, s.runningTask # t, s.active,
             groups' = [groups EXCEPT ![g] = QueuedTask(@, t)],
             UNCHANGED <<activeCount, waitingGroups, runs>>
      PROVE  D!Next
  BY <1>1, <1>2, <1>4, DeferMaps
<1>5. ASSUME ~shuttingDown, s.runningTask # t, ~s.active,
             activeCount >= MaxConcurrent, Park(g, u)
      PROVE  D!Next
  BY <1>1, <1>2, <1>5, DeferMaps DEF Park
<1>6. ASSUME ~shuttingDown, ~s.active, activeCount < MaxConcurrent,
             StartOne(g, StartedTask(s, t), t)
      PROVE  D!Next
  <2>1. PendingJobs(s) = {}
    BY <1>6, IdleWithSlot
  <2>2. /\ StartedTask(s, t).pendingTasks = s.pendingTasks
        /\ StartedTask(s, t).pendingMessages = s.pendingMessages
    BY <1>1 DEF StartedTask, GroupState
  <2>3. PendingJobs(StartedTask(s, t)) = {}
    BY <2>1, <2>2 DEF PendingJobs
  <2>4. QED
    BY <1>1, <1>6, <2>3, StartOneMaps
<1>7. QED
  BY <1>3, <1>4, <1>5, <1>6 DEF EnqueueTask

-----------------------------------------------------------------------------
(* The end of a run.                                                       *)

(* One group starts its next job, and the mapping shows just that.         *)
LEMMA LaunchOneShows ==
  ASSUME NEW gs, NEW rs, NEW count, GroupsOK(gs, rs, count), count \in Nat,
         NEW h \in Groups, ~gs[h].active, rs[h] = <<>>, HasPending(gs[h]),
         Launch({h}, gs, count, rs)
  PROVE  LET j == NextTask(gs[h])
         IN  /\ j \in PendingJobs(gs[h]) /\ j \in D!Jobs
             /\ PendingJobs(gs[h]) \cap Tasks # {} => j \in Tasks
             /\ Todo' = [TodoOf(gs) EXCEPT ![h] = @ \ {j}]
             /\ Doing' = [DoingOf(rs) EXCEPT ![h] = {j}]
<1> DEFINE j == NextTask(gs[h])
<1>1. /\ gs \in [Groups -> GroupState] /\ rs \in [Groups -> Seq(Run)]
      /\ GroupOK(gs[h], rs[h])
  BY DEF GroupsOK
<1>2. /\ j \in PendingJobs(gs[h])
      /\ PendingJobs(gs[h]) \cap Tasks # {} => j \in Tasks
      /\ PendingJobs(StartedNext(gs[h])) = PendingJobs(gs[h]) \ {j}
  BY <1>1, StartedNextTakesOne
<1>3. j \in Tasks \cup {NoTask}
  BY <1>1, <1>2, PendingMeansTodo
<1>4. /\ groups' = [gs EXCEPT ![h] = StartedNext(gs[h])]
      /\ runs' = [rs EXCEPT ![h] = Append(<<>>, NewRun(j))]
  <2>1. /\ groups' = [gs EXCEPT ![h] = StartedNext(gs[h])]
        /\ runs' = [rs EXCEPT ![h] = Append(rs[h], NewRun(NextTask(gs[h])))]
    BY <1>1, FS_Singleton DEF Launch
  <2>2. QED
    BY <1>1, <2>1
<1> HIDE DEF j
<1>5. Todo' = [TodoOf(gs) EXCEPT ![h] = @ \ {j}]
  BY <1>1, <1>2, <1>4 DEF Todo, TodoOf
<1>6. Doing' = [DoingOf(rs) EXCEPT ![h] = {j}]
  BY <1>1, <1>3, <1>4, JobsOfNewRun DEF Doing, DoingOf
<1>7. QED
  BY <1>2, <1>3, <1>5, <1>6 DEF D!Jobs, j

(* EndRun is Finish: it goes on, hands over or rests.                      *)
LEMMA EndRunMaps ==
  ASSUME QueueInv, NEW g \in Groups, NEW i \in DOMAIN runs[g],
         NEW s \in GroupState, ~s.active, s.runningTask = NoTask,
         s.pendingTasks = groups[g].pendingTasks,
         s.pendingMessages = groups[g].pendingMessages,
         EndRun(g, i, s), UNCHANGED shuttingDown
  PROVE  D!Next
<1> DEFINE gt == [groups EXCEPT ![g] = s]
           rt == WithoutRun(g, i)
           n == activeCount - 1
           w == waitingGroups
<1>1. Freed(g, gt, rt, n)
  BY EndFrees
<1>2. GroupsOK(gt, rt, n) /\ rt[g] = <<>> /\ n \in Nat
  BY OneEnds
<1>3. DrainGroup(g, gt, n, rt)
  BY DEF EndRun
<1>4. /\ GroupOK(groups[g], runs[g]) /\ runs[g] # <<>>
      /\ groups \in [Groups -> GroupState] /\ runs \in [Groups -> Seq(Run)]
  BY LiveRun
<1>5. g \in D!Busy
  <2>1. RunJobs(runs[g]) = {groups[g].runningTask}
    BY <1>4, JobsOfRun
  <2>2. QED
    BY <2>1 DEF D!Busy, Doing
<1>6. gt[g] = s /\ gt \in [Groups -> GroupState]
  BY <1>4
<1>7. TodoOf(gt) = Todo
  BY <1>4 DEF TodoOf, Todo, PendingJobs
<1>8. DoingOf(rt) = [Doing EXCEPT ![g] = {}]
  <2>1. \A h \in Groups \ {g} : rt[h] = runs[h]
    BY <1>4 DEF WithoutRun
  <2>2. RunJobs(rt[g]) = {}
    BY <1>2 DEF RunJobs
  <2> HIDE DEF rt
  <2>3. DoingOf(runs) = Doing
    BY DEF DoingOf, Doing
  <2>4. QED
    BY <2>1, <2>2, <2>3, OneDoing
<1>9. HasPending(s) <=> Todo[g] # {}
  <2>1. PendingJobs(s) = Todo[g]
    BY DEF Todo, PendingJobs
  <2>2. QED
    BY <2>1, PendingMeansTodo
<1> HIDE DEF gt, rt, n
<1>10. CASE shuttingDown \/ (~HasPending(s) /\ w = <<>> /\ w' = <<>> /\ Launch({}, gt, n, rt))
  <2>1. Launch({}, gt, n, rt) /\ w' = w
    BY <1>3, <1>10 DEF DrainGroup
  <2>2. groups' = gt /\ runs' = rt
    BY <1>2, <2>1, LaunchNobody DEF GroupsOK
  <2>3. Todo' = Todo /\ Doing' = [Doing EXCEPT ![g] = {}]
    BY <1>7, <1>8, <2>2 DEF Todo, TodoOf, Doing, DoingOf
  <2>4. D!Rest(g)
    BY <1>9, <1>10, <2>1, <2>3 DEF D!Rest
  <2>5. QED
    BY <1>5, <2>4 DEF D!Next, D!Finish
<1>11. CASE ~shuttingDown /\ HasPending(s)
  <2> DEFINE j == NextTask(gt[g])
  <2>1. Launch({g}, gt, n, rt) /\ w' = w
    BY <1>3, <1>6, <1>11 DEF DrainGroup
  <2>2. /\ j \in PendingJobs(gt[g]) /\ j \in D!Jobs
        /\ PendingJobs(gt[g]) \cap Tasks # {} => j \in Tasks
        /\ Todo' = [TodoOf(gt) EXCEPT ![g] = @ \ {j}]
        /\ Doing' = [DoingOf(rt) EXCEPT ![g] = {j}]
    BY <1>2, <1>6, <1>11, <2>1, LaunchOneShows
  <2> HIDE DEF j
  <2>3. PendingJobs(gt[g]) = Todo[g]
    BY <1>7 DEF TodoOf
  <2>4. Doing' = [Doing EXCEPT ![g] = {j}]
    BY <1>8, <2>2 DEF Doing
  <2>5. D!GoOn(g)
    BY <1>7, <1>11, <2>1, <2>2, <2>3, <2>4 DEF D!GoOn, D!Begins
  <2>6. QED
    BY <1>5, <2>5 DEF D!Next, D!Finish
<1>12. CASE ~shuttingDown /\ ~HasPending(s) /\ w # <<>> /\ w' = Tail(w) /\ Launch({Head(w)}, gt, n, rt)
  <2> DEFINE h == Head(w)
             j == NextTask(gt[h])
  <2>1. h \in Groups /\ h = w[1] /\ 1 \in DOMAIN w
    BY <1>12 DEF QueueInv
  <2>2. h # g /\ ~gt[h].active /\ HasPending(gt[h])
    BY <1>1, <1>12, <2>1 DEF Freed
  <2>3. rt[h] = <<>>
    BY <1>2, <2>1, <2>2 DEF GroupsOK, GroupOK
  <2>4. /\ j \in PendingJobs(gt[h]) /\ j \in D!Jobs
        /\ PendingJobs(gt[h]) \cap Tasks # {} => j \in Tasks
        /\ Todo' = [TodoOf(gt) EXCEPT ![h] = @ \ {j}]
        /\ Doing' = [DoingOf(rt) EXCEPT ![h] = {j}]
    BY <1>2, <1>12, <2>1, <2>2, <2>3, LaunchOneShows
  <2> HIDE DEF j
  <2>5. PendingJobs(gt[h]) = Todo[h]
    BY <1>7, <2>1 DEF TodoOf
  <2>6. Doing' = [Doing EXCEPT ![g] = {}, ![h] = {j}]
    BY <1>8, <2>4
  <2>7. D!HandOver(g)
    BY <1>7, <1>9, <1>12, <2>4, <2>5, <2>6 DEF D!HandOver, D!Begins
  <2>8. QED
    BY <1>5, <2>7 DEF D!Next, D!Finish
<1>13. QED
  BY <1>1, <1>3, <1>6, <1>10, <1>11, <1>12, DrainWaitingTakesFirst DEF DrainGroup

(* Every end of a run is Finish, also that of a run that never began.      *)
LEMMA RunEndsMaps ==
  ASSUME QueueInv, NEW g \in Groups, NEW i \in DOMAIN runs[g], RunEnds(g, i)
  PROVE  D!Next
<1>1. CASE ~RunNeverBegins(g, i)
  BY <1>1, RunEndsInEndRun, EndRunMaps
<1>2. CASE RunNeverBegins(g, i)
  <2>1. /\ GroupOK(groups[g], runs[g]) /\ runs[g] # <<>> /\ i = 1
        /\ groups[g].active = TRUE /\ groups[g].runningTask = runs[g][i].task
        /\ groups \in [Groups -> GroupState] /\ runs \in [Groups -> Seq(Run)]
    BY LiveRun
  <2>2. /\ runs[g][i].phase = "stillborn" /\ runs' = WithoutRun(g, i)
        /\ UNCHANGED <<groups, waitingGroups, shuttingDown>>
    BY <1>2 DEF RunNeverBegins
  <2>3. shuttingDown
    BY <2>1, <2>2 DEF QueueInv, AllAwake, AwakeOK
  <2>4. RunJobs(runs[g]) = {groups[g].runningTask}
    BY <2>1, JobsOfRun
  <2>5. g \in D!Busy
    BY <2>4 DEF D!Busy, Doing
  <2>6. Todo' = Todo
    BY <2>2 DEF Todo
  <2> DEFINE u == [groups[g] EXCEPT !.active = FALSE, !.runningTask = NoTask]
  <2>7. /\ u \in GroupState /\ ~u.active /\ u.runningTask = NoTask
        /\ u.pendingTasks = groups[g].pendingTasks
    BY <2>1 DEF GroupState
  <2>8. WithoutRun(g, i)[g] = <<>>
    BY <2>7, OneEnds
  <2>9. runs'[g] = <<>> /\ \A h \in Groups \ {g} : runs'[h] = runs[h]
    BY <2>1, <2>2, <2>8 DEF WithoutRun
  <2>10. Doing' = [Doing EXCEPT ![g] = {}]
    <3>1. RunJobs(runs'[g]) = {}
      BY <2>9 DEF RunJobs
    <3>2. QED
      BY <2>9, <3>1 DEF Doing
  <2>11. D!Rest(g)
    BY <2>2, <2>3, <2>6, <2>10 DEF D!Rest
  <2>12. QED
    BY <2>2, <2>5, <2>11 DEF D!Next, D!Finish
<1>3. QED
  BY <1>1, <1>2

-----------------------------------------------------------------------------
(* Steps the mapping does not show.                                        *)

(* A coroutine's phase is not shown, nor is an idle run.                   *)
LEMMA PhasesAreHidden ==
  ASSUME NEW rt,
         \A g \in Groups : /\ DOMAIN rt[g] = DOMAIN runs[g]
                           /\ \A i \in DOMAIN runs[g] : rt[g][i].task = runs[g][i].task
  PROVE  DoingOf(rt) = Doing
<1>1. ASSUME NEW g \in Groups PROVE RunJobs(rt[g]) = RunJobs(runs[g])
  BY DEF RunJobs
<1>2. QED
  BY <1>1 DEF DoingOf, Doing

(* notify_idle and the reading of the sentinel do not show.                *)
LEMMA HiddenSteps ==
  ASSUME QueueInv, NEW g \in Groups,
         \/ NotifyIdle(g)
         \/ AgentReadsClose(g)
         \/ \E i \in DOMAIN runs[g] : BeginRun(g, i)
  PROVE  UNCHANGED D!vars
<1>1. groups \in [Groups -> GroupState] /\ runs \in [Groups -> Seq(Run)]
  BY DEF QueueInv, GroupsOK
<1>2. CASE NotifyIdle(g)
  <2>1. \A h \in Groups : /\ groups'[h].pendingTasks = groups[h].pendingTasks
                          /\ groups'[h].pendingMessages = groups[h].pendingMessages
    BY <1>1, <1>2 DEF NotifyIdle, GroupState
  <2>2. Todo' = Todo
    BY <2>1 DEF Todo, PendingJobs
  <2>3. QED
    BY <1>2, <2>2 DEF NotifyIdle, D!vars, Doing
<1>3. CASE AgentReadsClose(g)
  BY <1>3 DEF AgentReadsClose, queueVars, D!vars, Todo, Doing
<1>4. ASSUME NEW i \in DOMAIN runs[g], BeginRun(g, i) PROVE UNCHANGED D!vars
  <2>1. /\ runs' = [runs EXCEPT ![g][i].phase = "running"]
        /\ UNCHANGED <<groups, waitingGroups, shuttingDown>>
    BY <1>4 DEF BeginRun
  <2>2. \A h \in Groups : /\ DOMAIN runs'[h] = DOMAIN runs[h]
                          /\ \A j \in DOMAIN runs[h] : runs'[h][j].task = runs[h][j].task
    <3>1. runs[g][i] \in Run
      BY <1>1
    <3>2. QED
      BY <1>1, <2>1, <3>1 DEF Run
  <2>3. DoingOf(runs') = Doing
    BY <2>2, PhasesAreHidden
  <2>4. QED
    BY <2>1, <2>3 DEF D!vars, Todo, Doing, DoingOf
<1>5. QED
  BY <1>2, <1>3, <1>4

(* shutdown is Stop.                                                       *)
LEMMA ShutdownMaps ==
  ASSUME QueueInv, Shutdown
  PROVE  D!Next
<1>1. /\ ~shuttingDown /\ shuttingDown' = TRUE
      /\ runs' = [g \in Groups |-> [i \in DOMAIN runs[g] |-> Cancelled(runs[g][i])]]
      /\ UNCHANGED <<groups, waitingGroups>>
  BY DEF Shutdown
<1>2. runs \in [Groups -> Seq(Run)]
  BY DEF QueueInv, GroupsOK
<1>3. ASSUME NEW g \in Groups
      PROVE  /\ DOMAIN runs'[g] = DOMAIN runs[g]
             /\ \A i \in DOMAIN runs[g] : runs'[g][i].task = runs[g][i].task
  <2>1. \A i \in DOMAIN runs[g] : runs[g][i] \in Run
    BY <1>2
  <2>2. \A r \in Run : Cancelled(r).task = r.task
    BY DEF Cancelled, Run
  <2>3. QED
    BY <1>1, <2>1, <2>2
<1>4. DoingOf(runs') = Doing
  BY <1>3, PhasesAreHidden
<1>5. D!Stop
  BY <1>1, <1>4 DEF D!Stop, Todo, Doing, DoingOf
<1>6. QED
  BY <1>5 DEF D!Next

-----------------------------------------------------------------------------
(* The refinement.                                                         *)

(* GroupQueue starts as Dispatcher does, with nothing to do.               *)
LEMMA InitMaps == Init => D!Init
<1>1. SUFFICES ASSUME Init PROVE D!Init
  OBVIOUS
<1>2. PendingJobs(FreshGroup) = {} /\ RunJobs(<<>>) = {}
  BY DEF PendingJobs, FreshGroup, RunJobs
<1>3. QED
  BY <1>1, <1>2 DEF Init, D!Init, Todo, Doing

(* Every step of GroupQueue is one of Dispatcher, or shows nothing.        *)
LEMMA NextMaps == QueueInv /\ [Next]_vars => [D!Next]_(D!vars)
<1>1. SUFFICES ASSUME QueueInv, [Next]_vars PROVE [D!Next]_(D!vars)
  OBVIOUS
<1>2. CASE UNCHANGED vars
  BY <1>2 DEF vars, D!vars, Todo, Doing
<1>3. ASSUME NEW g \in Groups, EnqueueMessageCheck(g) PROVE [D!Next]_(D!vars)
  BY <1>1, <1>3, CheckMessagesMaps DEF EnqueueMessageCheck
<1>4. ASSUME NEW g \in Groups, NEW t \in Tasks, EnqueueTask(g, t) PROVE [D!Next]_(D!vars)
  BY <1>1, <1>4, EnqueueTaskMaps
<1>5. ASSUME NEW g \in Groups,
             NotifyIdle(g) \/ AgentReadsClose(g) \/ \E i \in DOMAIN runs[g] : BeginRun(g, i)
      PROVE  [D!Next]_(D!vars)
  BY <1>1, <1>5, HiddenSteps
<1>6. ASSUME NEW g \in Groups, NEW i \in DOMAIN runs[g], RunEnds(g, i) PROVE D!Next
  BY <1>1, <1>6, RunEndsMaps
<1>7. ASSUME NEW g \in Groups, RetryFires(g) PROVE [D!Next]_(D!vars)
  BY <1>1, <1>7, CheckMessagesMaps DEF RetryFires
<1>8. ASSUME Shutdown PROVE D!Next
  BY <1>1, <1>8, ShutdownMaps
<1>9. QED
  BY <1>1, <1>2, <1>3, <1>4, <1>5, <1>6, <1>7, <1>8 DEF Next

(* The dispatcher implements its abstract specification, for any groups,   *)
(* tasks, limit and retry budget: one job of a group at a time, at most    *)
(* MaxConcurrent groups at once, nothing forgotten, and a waiting line     *)
(* that only its first may leave.                                          *)
THEOREM Implements == Spec => Dispatches
<1>1. Init => D!Init
  BY InitMaps
<1>2. QueueInv /\ [Next]_vars => [D!Next]_(D!vars)
  BY NextMaps
<1>3. IInv => QueueInv
  BY DEF IInv
<1>4. QED
  BY <1>1, <1>2, <1>3, Invariance, PTL DEF Spec, Dispatches, D!Spec

-----------------------------------------------------------------------------
(* Promises about steps.                                                   *)

(* After shutdown no step gives a group another coroutine: neither the     *)
(* entry points, nor retries, nor the drains of the runs that still end.   *)
THEOREM NothingStartsAfterShutdown == Spec => NoStartAfterShutdown
<1> DEFINE Calm == shuttingDown => \A g \in Groups : Len(runs'[g]) <= Len(runs[g])
<1>1. QueueInv /\ [Next]_vars => [Calm]_vars
  <2>1. SUFFICES ASSUME QueueInv, Next, shuttingDown, NEW h \in Groups
                 PROVE  Len(runs'[h]) <= Len(runs[h])
    BY DEF Calm
  <2>2. runs \in [Groups -> Seq(Run)] /\ groups \in [Groups -> GroupState]
    BY <2>1 DEF QueueInv, GroupsOK
  <2>3. Len(runs[h]) \in Nat /\ 0 <= Len(runs[h])
    BY <2>2
  <2>4. CASE UNCHANGED runs
    BY <2>3, <2>4
  <2>5. ASSUME NEW g \in Groups, NEW i \in DOMAIN runs[g], BeginRun(g, i)
        PROVE  Len(runs'[h]) <= Len(runs[h])
    <3>1. runs' = [runs EXCEPT ![g][i].phase = "running"]
      BY <2>5 DEF BeginRun
    <3>2. runs'[h] = runs[h] \/ (h = g /\ runs'[h] = [runs[g] EXCEPT ![i].phase = "running"])
      BY <2>2, <3>1
    <3>3. DOMAIN runs'[h] = DOMAIN runs[h]
      BY <3>2
    <3>4. Len(runs'[h]) = Len(runs[h])
      BY <2>2, <3>2
    <3>5. QED
      BY <2>3, <3>4
  <2>6. ASSUME NEW g \in Groups, NEW i \in DOMAIN runs[g], runs' = WithoutRun(g, i)
        PROVE  Len(runs'[h]) <= Len(runs[h])
    <3> DEFINE u == [groups[g] EXCEPT !.active = FALSE, !.runningTask = NoTask]
    <3>1. /\ u \in GroupState /\ ~u.active /\ u.runningTask = NoTask
          /\ u.pendingTasks = groups[g].pendingTasks
      BY <2>2 DEF GroupState
    <3>2. WithoutRun(g, i)[g] = <<>>
      BY <2>1, <3>1, OneEnds
    <3>3. runs'[h] = <<>> \/ runs'[h] = runs[h]
      BY <2>2, <2>6, <3>2 DEF WithoutRun
    <3>4. QED
      BY <2>3, <3>3
  <2>7. ASSUME NEW g \in Groups, NEW i \in DOMAIN runs[g], RunEnds(g, i), ~RunNeverBegins(g, i)
        PROVE  runs' = WithoutRun(g, i)
    <3>1. PICK u \in GroupState : /\ ~u.active /\ u.runningTask = NoTask
                                  /\ u.pendingTasks = groups[g].pendingTasks
                                  /\ EndRun(g, i, u)
      BY <2>1, <2>7, RunEndsInEndRun
    <3> DEFINE gt == [groups EXCEPT ![g] = u]
    <3>2. GroupsOK(gt, WithoutRun(g, i), activeCount - 1) /\ activeCount - 1 \in Nat
      BY <2>1, <3>1, OneEnds
    <3>3. Launch({}, gt, activeCount - 1, WithoutRun(g, i))
      BY <2>1, <3>1 DEF EndRun, DrainGroup
    <3>4. QED
      BY <3>2, <3>3, LaunchNobody DEF GroupsOK
  <2>8. ASSUME Shutdown PROVE FALSE
    BY <2>1, <2>8 DEF Shutdown
  <2>9. QED
    BY <2>1, <2>4, <2>5, <2>6, <2>7, <2>8 DEF Next, EnqueueMessageCheck, CheckMessages,
       EnqueueTask, NotifyIdle, AgentReadsClose, RetryFires, RunNeverBegins, queueVars
<1>2. IInv => QueueInv
  BY DEF IInv
<1>3. QED
  BY <1>1, <1>2, Invariance, PTL DEF Spec, NoStartAfterShutdown

(* A started run is not idle yet.                                          *)
LEMMA StartedIsNotIdle ==
  ASSUME NEW s \in GroupState
  PROVE  /\ ~StartedNext(s).idleWaiting /\ ~StartedMessages(s).idleWaiting
         /\ \A t \in Tasks : ~StartedTask(s, t).idleWaiting
<1>1. ~StartedMessages(s).idleWaiting
  BY DEF StartedMessages, GroupState
<1>2. \A v \in GroupState, t \in Tasks : ~StartedTask(v, t).idleWaiting
  BY DEF StartedTask, GroupState
<1>3. CASE s.pendingTasks = <<>>
  BY <1>1, <1>2, <1>3 DEF StartedNext
<1>4. CASE s.pendingTasks # <<>>
  <2> DEFINE v == [s EXCEPT !.pendingTasks = Tail(@)]
  <2>1. s.pendingTasks \in Seq(Tasks)
    BY DEF GroupState
  <2>2. Head(s.pendingTasks) \in Tasks /\ Tail(s.pendingTasks) \in Seq(Tasks)
    BY <1>4, <2>1
  <2>3. v \in GroupState
    BY <2>2 DEF GroupState
  <2>4. StartedNext(s) = StartedTask(v, Head(s.pendingTasks))
    BY <1>4 DEF StartedNext
  <2> HIDE DEF v
  <2>5. QED
    BY <1>1, <1>2, <2>2, <2>3, <2>4
<1>5. QED
  BY <1>3, <1>4

(* A step that starts no run behind an idle one asks nobody.               *)
Asks(h) == BehindIdle(h)' /\ ~BehindIdle(h) => closeFile'[h]

(* Ending a run never leaves a task behind an idle run.                    *)
LEMMA EndRunAsksNobody ==
  ASSUME QueueInv, NEW g \in Groups, NEW i \in DOMAIN runs[g], NEW h \in Groups,
         NEW u \in GroupState, ~u.active, u.runningTask = NoTask,
         u.pendingTasks = groups[g].pendingTasks,
         EndRun(g, i, u)
  PROVE  Asks(h)
<1> DEFINE gt == [groups EXCEPT ![g] = u]
           rt == WithoutRun(g, i)
<1>1. GroupsOK(gt, rt, activeCount - 1) /\ rt[g] = <<>>
  BY OneEnds
<1>2. groups \in [Groups -> GroupState] /\ runs \in [Groups -> Seq(Run)]
  BY DEF QueueInv, GroupsOK
<1>3. h = g \/ (gt[h] = groups[h] /\ rt[h] = runs[h])
  BY <1>2 DEF WithoutRun
<1>4. gt[h] \in GroupState
  BY <1>2
<1>5. PICK S : Launch(S, gt, activeCount - 1, rt)
  BY DEF EndRun, DrainGroup, DrainWaiting
<1> HIDE DEF gt, rt
<1>6. CASE h \in S
  <2>1. groups'[h] = StartedNext(gt[h])
    BY <1>5, <1>6 DEF Launch
  <2>2. ~groups'[h].idleWaiting
    BY <1>4, <2>1, StartedIsNotIdle
  <2>3. QED
    BY <2>2 DEF Asks, BehindIdle
<1>7. CASE h \notin S
  <2>1. groups'[h] = gt[h] /\ runs'[h] = rt[h]
    BY <1>5, <1>7 DEF Launch
  <2>2. QED
    BY <1>1, <1>3, <2>1 DEF Asks, BehindIdle, Live
<1>8. QED
  BY <1>6, <1>7

(* A message check puts no task behind an idle run.                        *)
LEMMA CheckMessagesAsksNobody ==
  ASSUME QueueInv, NEW g \in Groups, NEW h \in Groups, CheckMessages(g)
  PROVE  Asks(h)
<1>1. /\ groups \in [Groups -> GroupState] /\ runs \in [Groups -> Seq(Run)]
      /\ activeCount \in Nat /\ MaxConcurrent \in Nat
  BY CountSame, GroupQueueAssumption DEF QueueInv, GroupsOK
<1>2. CASE UNCHANGED queueVars
  BY <1>2 DEF queueVars, Asks, BehindIdle, Live
<1>3. CASE /\ groups' = [groups EXCEPT ![g] = [groups[g] EXCEPT !.pendingMessages = TRUE]]
           /\ UNCHANGED runs
  <2>1. /\ groups'[h].idleWaiting = groups[h].idleWaiting
        /\ groups'[h].pendingTasks = groups[h].pendingTasks
    BY <1>1, <1>3 DEF GroupState
  <2>2. QED
    BY <1>3, <2>1 DEF Asks, BehindIdle, Live
<1>4. CASE StartOne(g, StartedMessages(groups[g]), NoTask)
  <2>1. ~StartedMessages(groups[g]).idleWaiting
    BY <1>1, StartedIsNotIdle
  <2>2. \/ ~groups'[h].idleWaiting
        \/ groups'[h] = groups[h] /\ runs'[h] = runs[h]
    BY <1>1, <1>4, <2>1 DEF StartOne
  <2>3. QED
    BY <2>2 DEF Asks, BehindIdle, Live
<1>5. QED
  BY <1>1, <1>2, <1>3, <1>4 DEF CheckMessages, Park

(* enqueue_task asks the idle run behind which it queues the task.         *)
LEMMA EnqueueTaskAsks ==
  ASSUME IInv, NEW g \in Groups, NEW t \in Tasks, NEW h \in Groups, EnqueueTask(g, t)
  PROVE  Asks(h)
<1> DEFINE s == groups[g]
<1>1. /\ groups \in [Groups -> GroupState] /\ runs \in [Groups -> Seq(Run)]
      /\ closeFile \in [Groups -> BOOLEAN]
      /\ \A x \in Groups : GroupOK(groups[x], runs[x])
      /\ activeCount \in Nat /\ MaxConcurrent \in Nat
  BY CountSame, GroupQueueAssumption DEF IInv, QueueInv, GroupsOK
<1>2. CASE UNCHANGED queueVars
  BY <1>2 DEF queueVars, Asks, BehindIdle, Live
<1>3. ASSUME groups' = [groups EXCEPT ![g] = QueuedTask(@, t)], UNCHANGED runs,
             ~s.active \/ (IF s.idleWaiting THEN CloseStdin(g) ELSE UNCHANGED closeFile)
      PROVE  Asks(h)
  <2>1. QueuedTask(s, t).idleWaiting = s.idleWaiting
    BY <1>1 DEF QueuedTask, GroupState
  <2>2. CASE h # g
    BY <1>1, <1>3, <2>2 DEF Asks, BehindIdle, Live
  <2>3. CASE h = g /\ ~s.active
    BY <1>1, <1>3, <2>3 DEF Asks, BehindIdle, Live, GroupOK
  <2>4. CASE h = g /\ s.active
    <3>1. groups'[g].idleWaiting = s.idleWaiting
      BY <1>1, <1>3, <2>1
    <3>2. s.idleWaiting => closeFile'[g]
      BY <1>1, <1>3, <2>4 DEF CloseStdin
    <3>3. QED
      BY <2>4, <3>1, <3>2 DEF Asks, BehindIdle
  <2>5. QED
    BY <2>2, <2>3, <2>4
<1>4. CASE StartOne(g, StartedTask(s, t), t)
  <2>1. ~StartedTask(s, t).idleWaiting
    BY <1>1, StartedIsNotIdle
  <2>2. \/ ~groups'[h].idleWaiting
        \/ groups'[h] = groups[h] /\ runs'[h] = runs[h]
    BY <1>1, <1>4, <2>1 DEF StartOne
  <2>3. QED
    BY <2>2 DEF Asks, BehindIdle, Live
<1>5. QED
  BY <1>1, <1>2, <1>3, <1>4 DEF EnqueueTask, Park

(* notify_idle asks when tasks wait; the other steps give no cause to ask. *)
LEMMA OthersAsk ==
  ASSUME IInv, NEW g \in Groups, NEW h \in Groups,
         \/ NotifyIdle(g)
         \/ AgentReadsClose(g)
         \/ \E i \in DOMAIN runs[g] : BeginRun(g, i) \/ RunNeverBegins(g, i)
  PROVE  Asks(h)
<1>1. /\ groups \in [Groups -> GroupState] /\ runs \in [Groups -> Seq(Run)]
      /\ closeFile \in [Groups -> BOOLEAN]
  BY DEF IInv, QueueInv, GroupsOK
<1>2. CASE NotifyIdle(g)
  <2>1. CASE h # g
    BY <1>1, <1>2, <2>1 DEF NotifyIdle, Asks, BehindIdle, Live
  <2>2. CASE h = g
    <3>1. groups'[g].pendingTasks = groups[g].pendingTasks
      BY <1>1, <1>2 DEF NotifyIdle, GroupState
    <3>2. groups[g].pendingTasks # <<>> => closeFile'[g]
      BY <1>1, <1>2 DEF NotifyIdle, CloseStdin
    <3>3. QED
      BY <2>2, <3>1, <3>2 DEF Asks, BehindIdle
  <2>3. QED
    BY <2>1, <2>2
<1>3. CASE AgentReadsClose(g)
  BY <1>3 DEF AgentReadsClose, queueVars, Asks, BehindIdle, Live
<1>4. ASSUME NEW i \in DOMAIN runs[g], BeginRun(g, i) \/ RunNeverBegins(g, i)
      PROVE  Asks(h)
  <2>1. runs[h] = <<>> => runs'[h] = <<>>
    <3>1. runs[g] # <<>>
      BY <1>1, <1>4
    <3>2. h = g \/ runs'[h] = runs[h]
      BY <1>1, <1>4 DEF BeginRun, RunNeverBegins, WithoutRun
    <3>3. QED
      BY <3>1, <3>2
  <2>2. UNCHANGED groups
    BY <1>4 DEF BeginRun, RunNeverBegins
  <2>3. QED
    BY <2>1, <2>2 DEF Asks, BehindIdle, Live
<1>5. QED
  BY <1>2, <1>3, <1>4

(* Shutdown changes neither a list of tasks nor who is idle.               *)
LEMMA ShutdownAsksNobody ==
  ASSUME IInv, Shutdown, NEW h \in Groups
  PROVE  Asks(h)
<1>1. runs' = [g \in Groups |-> [i \in DOMAIN runs[g] |-> Cancelled(runs[g][i])]]
      /\ UNCHANGED groups /\ runs \in [Groups -> Seq(Run)]
  BY DEF Shutdown, IInv, QueueInv, GroupsOK
<1>2. runs[h] = <<>> => runs'[h] = <<>>
  BY <1>1
<1>3. QED
  BY <1>1, <1>2 DEF Asks, BehindIdle, Live

(* A task that comes to stand behind an idle run, or a run that goes idle  *)
(* before a queued task, always leaves the close sentinel behind.          *)
THEOREM IdleRunsAreAsked == Spec => IdleRunIsAsked
<1> DEFINE Asking == \A g \in Groups : BehindIdle(g)' /\ ~BehindIdle(g) => closeFile'[g]
<1>1. IInv /\ [Next]_vars => [Asking]_vars
  <2>1. SUFFICES ASSUME IInv, Next, NEW h \in Groups PROVE Asks(h)
    BY DEF Asks
  <2>2. QueueInv
    BY <2>1 DEF IInv
  <2>3. ASSUME NEW g \in Groups, NEW i \in DOMAIN runs[g], RunEnds(g, i), ~RunNeverBegins(g, i)
        PROVE  Asks(h)
    <3>1. PICK u \in GroupState : /\ ~u.active /\ u.runningTask = NoTask
                                  /\ u.pendingTasks = groups[g].pendingTasks
                                  /\ EndRun(g, i, u)
      BY <2>2, <2>3, RunEndsInEndRun
    <3>2. QED
      BY <2>1, <2>2, <3>1, EndRunAsksNobody
  <2>4. ASSUME NEW g \in Groups, CheckMessages(g) PROVE Asks(h)
    BY <2>1, <2>2, <2>4, CheckMessagesAsksNobody
  <2>5. ASSUME NEW g \in Groups, NEW t \in Tasks, EnqueueTask(g, t) PROVE Asks(h)
    BY <2>1, <2>5, EnqueueTaskAsks
  <2>6. ASSUME NEW g \in Groups,
               \/ NotifyIdle(g)
               \/ AgentReadsClose(g)
               \/ \E i \in DOMAIN runs[g] : BeginRun(g, i) \/ RunNeverBegins(g, i)
        PROVE  Asks(h)
    BY <2>1, <2>6, OthersAsk
  <2>7. ASSUME Shutdown PROVE Asks(h)
    BY <2>1, <2>7, ShutdownAsksNobody
  <2>8. QED
    BY <2>1, <2>3, <2>4, <2>5, <2>6, <2>7 DEF Next, EnqueueMessageCheck, RetryFires
<1>2. QED
  BY <1>1, Invariance, PTL DEF Spec, IdleRunIsAsked

-----------------------------------------------------------------------------
(* The dispatcher runs out of work.                                        *)

(* The parts of the measure are numbers.                                   *)
LEMMA CountsAreNumbers ==
  ASSUME NEW s \in GroupState, NEW r
  PROVE  /\ Queued(s) \in Nat /\ s.retryCount \in Nat
         /\ Unbegun(r) \in 0 .. 1
         /\ Unbegun(<<>>) = 0
<1>1. s.pendingTasks \in Seq(Tasks) /\ s.retryCount \in Nat
  BY DEF GroupState
<1>2. Len(s.pendingTasks) \in Nat
  BY <1>1
<1>3. \A b : Count(b) \in 0 .. 1
  BY DEF Count
<1>4. ~ \E i \in DOMAIN << >> : << >>[i].phase = "created"
  OBVIOUS
<1>5. Unbegun(<<>>) = 0
  BY <1>4 DEF Unbegun, Count
<1>6. Queued(s) \in Nat
  BY <1>2, <1>3 DEF Queued
<1>7. Unbegun(r) \in 0 .. 1
  BY <1>3 DEF Unbegun
<1>8. QED
  BY <1>1, <1>5, <1>6, <1>7

(* A run just created has not begun.                                       *)
LEMMA NewRunIsUnbegun ==
  ASSUME NEW t
  PROVE  LET r == Append(<<>>, NewRun(t)) IN Len(r) = 1 /\ Unbegun(r) = 1
<1> DEFINE r == Append(<<>>, NewRun(t))
<1>1. Len(r) = 1 /\ DOMAIN r = {1} /\ r[1] = NewRun(t)
  OBVIOUS
<1>2. r[1].phase = "created"
  BY <1>1 DEF NewRun
<1>3. \E i \in DOMAIN r : r[i].phase = "created"
  BY <1>1, <1>2
<1> HIDE DEF r
<1>4. Unbegun(r) = 1
  BY <1>3 DEF Unbegun, Count
<1>5. QED
  BY <1>1, <1>4 DEF r

(* Starting what a group has pending takes one off its list.               *)
LEMMA StartTakesOne ==
  ASSUME NEW s \in GroupState
  PROVE  /\ HasPending(s) => /\ Queued(StartedNext(s)) = Queued(s) - 1
                             /\ StartedNext(s).retryCount = s.retryCount
         /\ Queued(StartedMessages(s)) <= Queued(s)
         /\ StartedMessages(s).retryCount = s.retryCount
         /\ \A t \in Tasks : /\ Queued(StartedTask(s, t)) = Queued(s)
                             /\ StartedTask(s, t).retryCount = s.retryCount
<1> DEFINE p == s.pendingTasks
<1>1. p \in Seq(Tasks) /\ Len(p) \in Nat /\ s.pendingMessages \in BOOLEAN
  BY DEF GroupState
<1>2. /\ StartedMessages(s).pendingTasks = p /\ ~StartedMessages(s).pendingMessages
      /\ StartedMessages(s).retryCount = s.retryCount
  BY DEF StartedMessages, GroupState
<1>3. \A v \in GroupState, t \in Tasks :
        /\ StartedTask(v, t).pendingTasks = v.pendingTasks
        /\ StartedTask(v, t).pendingMessages = v.pendingMessages
        /\ StartedTask(v, t).retryCount = v.retryCount
  BY DEF StartedTask, GroupState
<1>4. \A b : Count(b) \in 0 .. 1
  BY DEF Count
<1>5. /\ Count(s.pendingMessages) \in 0 .. 1 /\ Count(FALSE) = 0
      /\ s.pendingMessages => Count(s.pendingMessages) = 1
      /\ Count(StartedMessages(s).pendingMessages) = 0
  BY <1>2, <1>4 DEF Count
<1> DEFINE n == Len(p)
           c == Count(s.pendingMessages)
<1>6. /\ Queued(s) = n + c /\ Queued(StartedMessages(s)) = n + 0
      /\ n \in Nat /\ c \in 0 .. 1
  BY <1>1, <1>2, <1>5 DEF Queued
<1>7. \A t \in Tasks : Queued(StartedTask(s, t)) = Queued(s)
  BY <1>3 DEF Queued
<1>8. ASSUME HasPending(s)
      PROVE  Queued(StartedNext(s)) = Queued(s) - 1 /\ StartedNext(s).retryCount = s.retryCount
  <2>1. CASE p = <<>>
    <3>1. StartedNext(s) = StartedMessages(s) /\ s.pendingMessages
      BY <1>8, <2>1 DEF StartedNext, HasPending
    <3>2. c = 1
      BY <1>5, <3>1
    <3> HIDE DEF n, c
    <3>3. QED
      BY <1>2, <1>6, <3>1, <3>2
  <2>2. CASE p # <<>>
    <3> DEFINE v == [s EXCEPT !.pendingTasks = Tail(p)]
    <3>1. Head(p) \in Tasks /\ Tail(p) \in Seq(Tasks) /\ Len(Tail(p)) = n - 1
      BY <1>1, <2>2
    <3>2. /\ v \in GroupState /\ v.pendingMessages = s.pendingMessages
          /\ v.pendingTasks = Tail(p) /\ v.retryCount = s.retryCount
      BY <3>1 DEF GroupState
    <3>3. StartedNext(s) = StartedTask(v, Head(p))
      BY <2>2 DEF StartedNext
    <3> HIDE DEF v
    <3>4. /\ StartedNext(s).pendingTasks = Tail(p)
          /\ StartedNext(s).pendingMessages = s.pendingMessages
          /\ StartedNext(s).retryCount = s.retryCount
      BY <1>3, <3>1, <3>2, <3>3
    <3>5. Queued(StartedNext(s)) = (n - 1) + c
      BY <3>1, <3>4 DEF Queued
    <3> HIDE DEF n, c
    <3>6. QED
      BY <1>6, <3>4, <3>5
  <2>3. QED
    BY <2>1, <2>2
<1> HIDE DEF n, c
<1>9. Queued(StartedMessages(s)) <= Queued(s)
  BY <1>6
<1>10. QED
  BY <1>2, <1>3, <1>7, <1>8, <1>9

(* A run that ends makes room for groups with work pending and no run.     *)
LEMMA EndLaunches ==
  ASSUME QueueInv, NEW g \in Groups, NEW i \in DOMAIN runs[g],
         NEW u \in GroupState, ~u.active, u.runningTask = NoTask,
         u.pendingTasks = groups[g].pendingTasks,
         u.pendingMessages = groups[g].pendingMessages,
         EndRun(g, i, u)
  PROVE  \E S : /\ Launch(S, [groups EXCEPT ![g] = u], activeCount - 1, WithoutRun(g, i))
                /\ \A h \in S : /\ HasPending([groups EXCEPT ![g] = u][h])
                                /\ WithoutRun(g, i)[h] = <<>>
<1> DEFINE gs == [groups EXCEPT ![g] = u]
           rs == WithoutRun(g, i)
           n == activeCount - 1
<1>1. /\ Freed(g, gs, rs, n)
      /\ rs[g] = <<>>
  BY EndFrees, OneEnds
<1>2. DrainGroup(g, gs, n, rs)
  BY DEF EndRun
<1> HIDE DEF gs, rs, n
<1>3. CASE shuttingDown
  BY <1>2, <1>3 DEF DrainGroup, gs, rs, n
<1>4. CASE ~shuttingDown /\ HasPending(gs[g])
  BY <1>1, <1>2, <1>4 DEF DrainGroup, gs, rs, n
<1>5. CASE ~shuttingDown /\ ~HasPending(gs[g])
  <2>1. \/ Launch({}, gs, n, rs)
        \/ waitingGroups # <<>> /\ Launch({Head(waitingGroups)}, gs, n, rs)
    BY <1>1, <1>2, <1>5, DrainWaitingTakesFirst DEF DrainGroup
  <2>2. ASSUME waitingGroups # <<>>
        PROVE  HasPending(gs[Head(waitingGroups)]) /\ rs[Head(waitingGroups)] = <<>>
    <3>1. waitingGroups \in Seq(Groups)
      BY DEF QueueInv
    <3>2. Head(waitingGroups) = waitingGroups[1] /\ 1 \in DOMAIN waitingGroups
          /\ waitingGroups[1] \in Groups
      BY <2>2, <3>1
    <3>3. ~gs[waitingGroups[1]].active /\ HasPending(gs[waitingGroups[1]])
      BY <1>1, <1>5, <3>2 DEF Freed
    <3>4. GroupOK(gs[waitingGroups[1]], rs[waitingGroups[1]])
      BY <1>1, <3>2 DEF Freed, GroupsOK
    <3>5. QED
      BY <3>2, <3>3, <3>4 DEF GroupOK
  <2>3. QED
    BY <2>1, <2>2 DEF gs, rs, n
<1>6. QED
  BY <1>3, <1>4, <1>5

(* The retries taken stay within the budget: what is left of it is a       *)
(* number, and part of the effort.                                         *)
RetriesBounded == \A g \in Groups : groups[g].retryCount <= MaxRetries

(* What a drain does to a group: nothing to its work, or it takes up a job *)
(* it had queued; and what is left of the group whose run ended.           *)
SameWork(h) ==
  /\ Queued(groups'[h]) = Queued(groups[h]) /\ groups'[h].retryCount = groups[h].retryCount
  /\ Len(runs'[h]) = Len(runs[h]) /\ Unbegun(runs'[h]) = Unbegun(runs[h])

TakesUp(h) ==
  /\ Queued(groups'[h]) = Queued(groups[h]) - 1 /\ groups'[h].retryCount = groups[h].retryCount
  /\ Len(runs[h]) = 0 /\ Len(runs'[h]) = 1
  /\ Unbegun(runs[h]) = 0 /\ Unbegun(runs'[h]) = 1

GivesBack(g) ==
  \/ /\ Queued(groups'[g]) = Queued(groups[g])
     /\ Len(runs'[g]) = 0 /\ Unbegun(runs'[g]) = 0
  \/ /\ Queued(groups'[g]) = Queued(groups[g]) - 1
     /\ Len(runs'[g]) = 1 /\ Unbegun(runs'[g]) = 1

(* A run that ends takes its job away, unless it fails within the budget;  *)
(* its group, or another, may begin what it had queued.                    *)
LEMMA EndUsesWorkUp ==
  ASSUME QueueInv, NEW g \in Groups, NEW i \in DOMAIN runs[g],
         NEW u \in GroupState, ~u.active, u.runningTask = NoTask,
         u.pendingTasks = groups[g].pendingTasks,
         u.pendingMessages = groups[g].pendingMessages,
         EndRun(g, i, u)
  PROVE  /\ GivesBack(g) /\ groups'[g].retryCount = u.retryCount
         /\ \A h \in Groups \ {g} : SameWork(h) \/ TakesUp(h)
<1> DEFINE gs == [groups EXCEPT ![g] = u]
           rs == WithoutRun(g, i)
<1>1. PICK S : /\ Launch(S, gs, activeCount - 1, rs)
               /\ \A h \in S : HasPending(gs[h]) /\ rs[h] = <<>>
  BY EndLaunches
<1>2. groups \in [Groups -> GroupState]
  BY DEF QueueInv, GroupsOK
<1>3. /\ gs[g] = u /\ rs[g] = <<>>
      /\ \A h \in Groups \ {g} : gs[h] = groups[h] /\ rs[h] = runs[h]
      /\ \A h \in Groups : gs[h] \in GroupState
  BY <1>2, OnlyRun
<1>4. Queued(u) = Queued(groups[g])
  BY DEF Queued
<1> HIDE DEF gs, rs
<1>5. ASSUME NEW h \in Groups, h \in S
      PROVE  /\ Queued(groups'[h]) = Queued(gs[h]) - 1
             /\ groups'[h].retryCount = gs[h].retryCount
             /\ rs[h] = <<>> /\ Len(runs'[h]) = 1 /\ Unbegun(runs'[h]) = 1
  <2>1. /\ groups'[h] = StartedNext(gs[h])
        /\ runs'[h] = Append(rs[h], NewRun(NextTask(gs[h])))
    BY <1>1, <1>5 DEF Launch
  <2>2. HasPending(gs[h]) /\ rs[h] = <<>>
    BY <1>1, <1>5
  <2>3. Len(runs'[h]) = 1 /\ Unbegun(runs'[h]) = 1
    BY <2>1, <2>2, NewRunIsUnbegun
  <2>4. QED
    BY <1>3, <2>1, <2>2, <2>3, StartTakesOne
<1>6. ASSUME NEW h \in Groups, h \notin S PROVE groups'[h] = gs[h] /\ runs'[h] = rs[h]
  BY <1>1, <1>6 DEF Launch
<1>7. Len(<<>>) = 0 /\ Unbegun(<<>>) = 0
  BY <1>3, CountsAreNumbers
<1>8. GivesBack(g) /\ groups'[g].retryCount = u.retryCount
  <2>1. CASE g \in S
    BY <1>3, <1>4, <1>5, <2>1 DEF GivesBack
  <2>2. CASE g \notin S
    BY <1>3, <1>4, <1>6, <1>7, <2>2 DEF GivesBack
  <2>3. QED
    BY <2>1, <2>2
<1>9. ASSUME NEW h \in Groups \ {g} PROVE SameWork(h) \/ TakesUp(h)
  <2>1. CASE h \in S
    <3>1. runs[h] = <<>> /\ gs[h] = groups[h]
      BY <1>3, <1>5, <2>1
    <3>2. QED
      BY <1>5, <1>7, <2>1, <3>1 DEF TakesUp
  <2>2. CASE h \notin S
    BY <1>3, <1>6, <2>2 DEF SameWork
  <2>3. QED
    BY <2>1, <2>2
<1>10. QED
  BY <1>8, <1>9

(* What the parts of the measure are, before and after a step.             *)
LEMMA Measured ==
  ASSUME IInv, RetriesBounded, NEW h \in Groups
  PROVE  /\ timers[h] \in Nat /\ MaxRetries \in Nat /\ Queued(groups[h]) \in Nat
         /\ groups[h].retryCount \in 0 .. MaxRetries
         /\ Len(runs[h]) \in Nat /\ Unbegun(runs[h]) \in 0 .. 1
<1> DEFINE c == groups[h].retryCount
<1>1. groups[h] \in GroupState /\ runs[h] \in Seq(Run) /\ timers[h] \in Nat
  BY DEF IInv, QueueInv, GroupsOK
<1>2. c \in Nat /\ Queued(groups[h]) \in Nat /\ Unbegun(runs[h]) \in 0 .. 1
  BY <1>1, CountsAreNumbers
<1>3. c <= MaxRetries /\ MaxRetries \in Nat
  BY GroupQueueAssumption DEF RetriesBounded
<1>4. Len(runs[h]) \in Nat
  BY <1>1
<1> HIDE DEF c
<1>5. c \in 0 .. MaxRetries
  BY <1>2, <1>3
<1>6. QED
  BY <1>1, <1>2, <1>3, <1>4, <1>5 DEF c

(* Taking up what was queued brings a group nearer to rest; what keeps all *)
(* its parts adds nothing.                                                 *)
LEMMA SameOrNearer ==
  ASSUME IInv, RetriesBounded, NEW h \in Groups, timers'[h] = timers[h]
  PROVE  /\ SameWork(h) => NothingAdded(h)
         /\ TakesUp(h) => NearerToRest(h)
<1> DEFINE t == timers[h]
           q == Queued(groups[h])
           c == groups[h].retryCount
           n == Len(runs[h])
           b == Unbegun(runs[h])
<1>1. t \in Nat /\ MaxRetries \in Nat /\ q \in Nat /\ c \in 0 .. MaxRetries
      /\ n \in Nat /\ b \in 0 .. 1
  BY Measured
<1>2. ASSUME SameWork(h) PROVE NothingAdded(h)
  BY <1>2 DEF SameWork, NothingAdded, Jobs, Effort
<1>3. ASSUME TakesUp(h) PROVE NearerToRest(h)
  <2>1. Jobs(h) = t + q + n /\ Effort(h) = 4 * (MaxRetries - c) + 3 * t + 2 * q + b
    BY DEF Jobs, Effort
  <2>2. /\ Jobs(h)' = t + (q - 1) + 1
        /\ Effort(h)' = 4 * (MaxRetries - c) + 3 * t + 2 * (q - 1) + 1
        /\ n = 0 /\ b = 0
    BY <1>3 DEF TakesUp, Jobs, Effort
  <2> HIDE DEF t, q, c, n, b
  <2>3. Jobs(h)' = Jobs(h) /\ Effort(h)' < Effort(h)
    BY SMTT(30), <1>1, <2>1, <2>2
  <2>4. QED
    BY <2>3 DEF NearerToRest
<1>4. QED
  BY <1>2, <1>3

(* The group whose run ends is nearer to rest, even if a retry is          *)
(* scheduled: the count of retries that goes up outweighs the timer.       *)
LEMMA EndIsNearer ==
  ASSUME IInv, RetriesBounded, NEW g \in Groups, NEW u, Len(runs[g]) = 1,
         GivesBack(g), groups'[g].retryCount = u.retryCount, CountsRetry(g, u)
  PROVE  NearerToRest(g)
<1> DEFINE t == timers[g]
           q == Queued(groups[g])
           c == groups[g].retryCount
           b == Unbegun(runs[g])
<1>1. t \in Nat /\ MaxRetries \in Nat /\ q \in Nat /\ c \in 0 .. MaxRetries /\ b \in 0 .. 1
  BY Measured
<1>2. Jobs(g) = t + q + 1 /\ Effort(g) = 4 * (MaxRetries - c) + 3 * t + 2 * q + b
  BY DEF Jobs, Effort
<1>3. timers \in [Groups -> Nat]
  BY DEF IInv
<1>4. CASE UNCHANGED timers
  <2>1. \/ Jobs(g)' = t + q + 0
        \/ Jobs(g)' = t + (q - 1) + 1
    BY <1>4 DEF GivesBack, Jobs
  <2> HIDE DEF t, q, c, b
  <2>2. Jobs(g)' < Jobs(g)
    BY <1>1, <1>2, <2>1
  <2>3. QED
    BY <2>2 DEF NearerToRest
<1>5. CASE timers' = [timers EXCEPT ![g] = @ + 1] /\ u.retryCount = c + 1
  <2>1. timers'[g] = t + 1 /\ groups'[g].retryCount = c + 1
    BY <1>3, <1>5
  <2>2. \/ /\ Jobs(g)' = (t + 1) + q + 0
           /\ Effort(g)' = 4 * (MaxRetries - (c + 1)) + 3 * (t + 1) + 2 * q + 0
        \/ /\ Jobs(g)' = (t + 1) + (q - 1) + 1
           /\ Effort(g)' = 4 * (MaxRetries - (c + 1)) + 3 * (t + 1) + 2 * (q - 1) + 1
    BY <2>1 DEF GivesBack, Jobs, Effort
  <2> HIDE DEF t, q, c, b
  <2>3. Jobs(g)' <= Jobs(g) /\ Effort(g)' < Effort(g) /\ Jobs(g)' \in Int
    BY SMTT(30), <1>1, <1>2, <2>2
  <2>4. QED
    BY <1>1, <1>2, <2>3 DEF NearerToRest
<1>6. QED
  BY <1>4, <1>5 DEF CountsRetry

(* A retry that fires leaves at most a check, queued or begun, in its      *)
(* place, and that is a step further.                                      *)
LEMMA RetryIsNearer ==
  ASSUME IInv, RetriesBounded, NEW g \in Groups, RetryFires(g)
  PROVE  /\ NearerToRest(g)
         /\ \A h \in Groups \ {g} : NothingAdded(h)
<1> DEFINE t == timers[g]
           q == Queued(groups[g])
           c == groups[g].retryCount
           n == Len(runs[g])
           b == Unbegun(runs[g])
           s == groups[g]
           v == [groups[g] EXCEPT !.pendingMessages = TRUE]
<1>1. t \in Nat /\ MaxRetries \in Nat /\ q \in Nat /\ c \in 0 .. MaxRetries
      /\ n \in Nat /\ b \in 0 .. 1
  BY Measured
<1>2. Jobs(g) = t + q + n /\ Effort(g) = 4 * (MaxRetries - c) + 3 * t + 2 * q + b
  BY DEF Jobs, Effort
<1>3. /\ timers \in [Groups -> Nat] /\ groups \in [Groups -> GroupState]
      /\ runs \in [Groups -> Seq(Run)] /\ \A h \in Groups : GroupOK(groups[h], runs[h])
  BY DEF IInv, QueueInv, GroupsOK
<1>4. t > 0 /\ timers'[g] = t - 1 /\ \A h \in Groups \ {g} : timers'[h] = timers[h]
  BY <1>3 DEF RetryFires
<1>5. ASSUME Queued(groups'[g]) = q \/ Queued(groups'[g]) = q + 1,
             groups'[g].retryCount = c, runs'[g] = runs[g]
      PROVE  NearerToRest(g)
  <2>1. \/ /\ Jobs(g)' = (t - 1) + q + n
           /\ Effort(g)' = 4 * (MaxRetries - c) + 3 * (t - 1) + 2 * q + b
        \/ /\ Jobs(g)' = (t - 1) + (q + 1) + n
           /\ Effort(g)' = 4 * (MaxRetries - c) + 3 * (t - 1) + 2 * (q + 1) + b
    BY <1>4, <1>5 DEF Jobs, Effort
  <2> HIDE DEF t, q, c, n, b
  <2>2. Jobs(g)' < Jobs(g) \/ (Jobs(g)' = Jobs(g) /\ Effort(g)' < Effort(g))
    BY SMTT(30), <1>1, <1>2, <1>4, <2>1
  <2>3. QED
    BY <2>2 DEF NearerToRest
<1>6. /\ v.retryCount = c /\ v.pendingTasks = s.pendingTasks /\ v.pendingMessages = TRUE
      /\ (Queued(v) = q \/ Queued(v) = q + 1)
  <2>1. v.retryCount = c /\ v.pendingTasks = s.pendingTasks /\ v.pendingMessages = TRUE
    BY <1>3 DEF GroupState
  <2>2. s.pendingTasks \in Seq(Tasks) /\ Len(s.pendingTasks) \in Nat
    BY <1>3 DEF GroupState
  <2>3. Count(s.pendingMessages) \in 0 .. 1 /\ Count(TRUE) = 1
    BY DEF Count
  <2> DEFINE d == Count(s.pendingMessages)
             l == Len(s.pendingTasks)
  <2>4. Queued(v) = l + 1 /\ q = l + d
    BY <2>1, <2>3 DEF Queued
  <2> HIDE DEF d, l, v
  <2>5. Queued(v) = q \/ Queued(v) = q + 1
    <3>1. l \in Nat /\ d \in 0 .. 1
      BY <2>2, <2>3 DEF l, d
    <3> HIDE DEF q
    <3>2. QED
      BY <2>4, <3>1
  <2>6. QED
    BY <2>1, <2>5
<1> HIDE DEF v
<1>7. CASE UNCHANGED queueVars
  <2>1. groups' = groups /\ runs' = runs
    BY <1>7 DEF queueVars
  <2>2. NearerToRest(g)
    BY <1>5, <2>1
  <2>3. \A h \in Groups \ {g} : SameWork(h)
    BY <2>1 DEF SameWork
  <2>4. QED
    BY <1>4, <2>2, <2>3, SameOrNearer
<1>8. CASE groups' = [groups EXCEPT ![g] = v] /\ UNCHANGED runs
  <2>1. groups'[g] = v /\ \A h \in Groups \ {g} : groups'[h] = groups[h]
    BY <1>3, <1>8
  <2>2. NearerToRest(g)
    BY <1>5, <1>6, <1>8, <2>1
  <2>3. \A h \in Groups \ {g} : SameWork(h)
    BY <1>8, <2>1 DEF SameWork
  <2>4. QED
    BY <1>4, <2>2, <2>3, SameOrNearer
<1>9. CASE ~s.active /\ StartOne(g, StartedMessages(s), NoTask)
  <2>1. /\ groups'[g] = StartedMessages(s) /\ runs'[g] = Append(runs[g], NewRun(NoTask))
        /\ \A h \in Groups \ {g} : groups'[h] = groups[h] /\ runs'[h] = runs[h]
    BY <1>3, <1>9 DEF StartOne
  <2>2. runs[g] = <<>> /\ n = 0
    BY <1>3, <1>9 DEF GroupOK
  <2>3. Len(runs'[g]) = 1 /\ Unbegun(runs'[g]) = 1
    BY <2>1, <2>2, NewRunIsUnbegun
  <2>4. groups'[g] \in GroupState
    BY <1>3, <2>1, StartOK DEF StartedMessages, GroupState
  <2>5. Queued(groups'[g]) <= q /\ groups'[g].retryCount = c
    BY <1>3, <2>1, StartTakesOne
  <2> DEFINE r == Queued(groups'[g])
  <2>6. r \in Nat
    BY <2>4, CountsAreNumbers
  <2>7. /\ Jobs(g)' = (t - 1) + r + 1
        /\ Effort(g)' = 4 * (MaxRetries - c) + 3 * (t - 1) + 2 * r + 1
    BY <1>4, <2>3, <2>5 DEF Jobs, Effort
  <2>8. r <= q
    BY <2>5
  <2> DEFINE e == 4 * (MaxRetries - c)
  <2>9. Jobs(g)' < Jobs(g) \/ (Jobs(g)' = Jobs(g) /\ Effort(g)' < Effort(g))
    <3>1. e \in Int
      BY <1>1
    <3>2. Effort(g) = e + 3 * t + 2 * q + b /\ Effort(g)' = e + 3 * (t - 1) + 2 * r + 1
      BY <1>2, <2>7
    <3> HIDE DEF t, q, c, n, b, r, e
    <3>3. Effort(g)' < Effort(g)
      BY <1>1, <2>6, <2>8, <3>1, <3>2
    <3>4. Jobs(g)' <= Jobs(g) /\ Jobs(g) \in Int /\ Jobs(g)' \in Int
      BY <1>1, <1>2, <2>2, <2>6, <2>7, <2>8
    <3>5. QED
      BY <3>3, <3>4
  <2>10. NearerToRest(g)
    BY <2>9 DEF NearerToRest
  <2>11. \A h \in Groups \ {g} : SameWork(h)
    BY <2>1 DEF SameWork
  <2>12. QED
    BY <1>4, <2>10, <2>11, SameOrNearer
<1>10. CheckMessages(g)
  BY DEF RetryFires
<1>11. QED
  <2>1. groups' = [groups EXCEPT ![g].pendingMessages = TRUE] => groups' = [groups EXCEPT ![g] = v]
    BY <1>3 DEF v
  <2>2. Park(g, v) => groups' = [groups EXCEPT ![g] = v] /\ UNCHANGED runs
    BY DEF Park
  <2>3. QED
    BY <1>7, <1>8, <1>9, <1>10, <2>1, <2>2 DEF CheckMessages, v

(* A coroutine that reaches its first statement, or was cancelled before,  *)
(* has a step less to go.                                                  *)
LEMMA BeginIsNearer ==
  ASSUME IInv, RetriesBounded, NEW g \in Groups, NEW i \in DOMAIN runs[g],
         BeginRun(g, i) \/ RunNeverBegins(g, i)
  PROVE  /\ NearerToRest(g)
         /\ \A h \in Groups \ {g} : NothingAdded(h)
<1> DEFINE t == timers[g]
           q == Queued(groups[g])
           c == groups[g].retryCount
           b == Unbegun(runs[g])
<1>1. t \in Nat /\ MaxRetries \in Nat /\ q \in Nat /\ c \in 0 .. MaxRetries
      /\ b \in 0 .. 1
  BY Measured
<1>2. /\ runs \in [Groups -> Seq(Run)] /\ runs[g] \in Seq(Run) /\ i = 1 /\ Len(runs[g]) = 1
      /\ WithoutRun(g, i)[g] = <<>>
      /\ \A h \in Groups \ {g} : WithoutRun(g, i)[h] = runs[h]
  BY OnlyRun DEF IInv
<1>3. Jobs(g) = t + q + 1 /\ Effort(g) = 4 * (MaxRetries - c) + 3 * t + 2 * q + b
  BY <1>2 DEF Jobs, Effort
<1>4. UNCHANGED groups /\ UNCHANGED timers
  BY DEF BeginRun, RunNeverBegins
<1>5. CASE RunNeverBegins(g, i)
  <2>1. runs'[g] = <<>> /\ \A h \in Groups \ {g} : runs'[h] = runs[h]
    BY <1>2, <1>5 DEF RunNeverBegins
  <2>2. Jobs(g)' = t + q + 0
    BY <1>4, <2>1 DEF Jobs
  <2> HIDE DEF t, q, c, b
  <2>3. NearerToRest(g)
    BY <1>1, <1>3, <2>2 DEF NearerToRest
  <2>4. \A h \in Groups \ {g} : SameWork(h)
    BY <1>4, <2>1 DEF SameWork
  <2>5. QED
    BY <1>4, <2>3, <2>4, SameOrNearer
<1>6. CASE BeginRun(g, i)
  <2>1. /\ runs[g][1].phase = "created"
        /\ runs'[g] = [runs[g] EXCEPT ![1].phase = "running"]
        /\ \A h \in Groups \ {g} : runs'[h] = runs[h]
    BY <1>2, <1>6 DEF BeginRun
  <2>2. DOMAIN runs[g] = {1} /\ runs[g][1] \in Run
    <3>1. DOMAIN runs[g] = 1 .. Len(runs[g])
      BY <1>2
    <3>2. QED
      BY <1>2, <3>1, OnlyRun DEF IInv
  <2>3. DOMAIN runs'[g] = {1} /\ runs'[g][1].phase = "running"
    BY <2>1, <2>2 DEF Run
  <2>4. Len(runs'[g]) = 1
    BY <1>2, <2>1
  <2>5. b = 1
    BY <2>1, <2>2 DEF Unbegun, Count
  <2>6. Unbegun(runs'[g]) = 0
    BY <2>3 DEF Unbegun, Count
  <2>7. /\ Jobs(g)' = t + q + 1
        /\ Effort(g)' = 4 * (MaxRetries - c) + 3 * t + 2 * q + 0
    BY <1>4, <2>4, <2>6 DEF Jobs, Effort
  <2> HIDE DEF t, q, c, b
  <2>8. NearerToRest(g)
    BY <1>1, <1>3, <2>5, <2>7 DEF NearerToRest
  <2>9. \A h \in Groups \ {g} : SameWork(h)
    BY <1>4, <2>1 DEF SameWork
  <2>10. QED
    BY <1>4, <2>8, <2>9, SameOrNearer
<1>7. QED
  BY <1>5, <1>6

-----------------------------------------------------------------------------
(* The retry budget is kept.                                               *)

(* Starting and queueing leave the count of retries alone.                 *)
LEMMA CheckKeepsRetries ==
  ASSUME IInv, RetriesBounded, NEW g \in Groups, CheckMessages(g)
  PROVE  RetriesBounded'
<1>1. groups \in [Groups -> GroupState]
  BY DEF IInv, QueueInv, GroupsOK
<1> DEFINE s == groups[g]
           v == [s EXCEPT !.pendingMessages = TRUE]
<1>2. v.retryCount = s.retryCount /\ StartedMessages(s).retryCount = s.retryCount
  BY <1>1, StartTakesOne DEF GroupState
<1>3. CASE UNCHANGED queueVars
  BY <1>3 DEF RetriesBounded, queueVars
<1>4. CASE groups' = [groups EXCEPT ![g] = v] \/ groups' = [groups EXCEPT ![g] = StartedMessages(s)]
  <2>1. groups'[g].retryCount = s.retryCount /\ \A h \in Groups \ {g} : groups'[h] = groups[h]
    BY <1>1, <1>2, <1>4
  <2>2. QED
    BY <2>1 DEF RetriesBounded
<1>5. QED
  BY <1>3, <1>4 DEF CheckMessages, Park, StartOne

(* So does a task that is queued or started.                               *)
LEMMA TaskKeepsRetries ==
  ASSUME IInv, RetriesBounded, NEW g \in Groups, NEW t \in Tasks, EnqueueTask(g, t)
  PROVE  RetriesBounded'
<1>1. groups \in [Groups -> GroupState]
  BY DEF IInv, QueueInv, GroupsOK
<1> DEFINE s == groups[g]
<1>2. QueuedTask(s, t).retryCount = s.retryCount /\ StartedTask(s, t).retryCount = s.retryCount
  BY <1>1, StartTakesOne DEF GroupState, QueuedTask
<1>3. CASE UNCHANGED queueVars
  BY <1>3 DEF RetriesBounded, queueVars
<1>4. CASE \/ groups' = [groups EXCEPT ![g] = QueuedTask(s, t)]
           \/ groups' = [groups EXCEPT ![g] = StartedTask(s, t)]
  <2>1. groups'[g].retryCount = s.retryCount /\ \A h \in Groups \ {g} : groups'[h] = groups[h]
    BY <1>1, <1>2, <1>4
  <2>2. QED
    BY <2>1 DEF RetriesBounded
<1>5. QED
  BY <1>3, <1>4 DEF EnqueueTask, Park, StartOne

(* No group ever counts more retries than its budget: only a run that      *)
(* fails counts one, and the one past the budget starts again from zero.   *)
LEMMA NextKeepsRetries ==
  IInv /\ RetriesBounded /\ [Next]_vars => RetriesBounded'
<1>1. SUFFICES ASSUME IInv, RetriesBounded, [Next]_vars PROVE RetriesBounded'
  OBVIOUS
<1>2. groups \in [Groups -> GroupState] /\ QueueInv
  BY <1>1 DEF IInv, QueueInv, GroupsOK
<1>3. CASE UNCHANGED groups
  BY <1>1, <1>3 DEF RetriesBounded
<1>4. ASSUME NEW g \in Groups, NotifyIdle(g) PROVE RetriesBounded'
  <2>1. \A h \in Groups : groups'[h].retryCount = groups[h].retryCount
    BY <1>2, <1>4 DEF NotifyIdle, GroupState
  <2>2. QED
    BY <1>1, <2>1 DEF RetriesBounded
<1>5. ASSUME NEW g \in Groups, NEW i \in DOMAIN runs[g], RunEnds(g, i), ~RunNeverBegins(g, i)
      PROVE  RetriesBounded'
  <2>1. PICK u \in GroupState :
          /\ ~u.active /\ u.runningTask = NoTask
          /\ u.pendingTasks = groups[g].pendingTasks
          /\ u.pendingMessages = groups[g].pendingMessages
          /\ EndRun(g, i, u) /\ CountsRetry(g, u)
    BY <1>2, <1>5, RunEndsInEndRun
  <2>2. groups'[g].retryCount = u.retryCount
        /\ \A h \in Groups \ {g} : SameWork(h) \/ TakesUp(h)
    BY <1>2, <2>1, EndUsesWorkUp
  <2>3. u.retryCount <= MaxRetries
    BY <1>1, <2>1 DEF CountsRetry, RetriesBounded
  <2>4. QED
    BY <1>1, <2>2, <2>3 DEF SameWork, TakesUp, RetriesBounded
<1>6. ASSUME NEW g \in Groups, CheckMessages(g) PROVE RetriesBounded'
  BY <1>1, <1>6, CheckKeepsRetries
<1>7. ASSUME NEW g \in Groups, NEW t \in Tasks, EnqueueTask(g, t) PROVE RetriesBounded'
  BY <1>1, <1>7, TaskKeepsRetries
<1>8. QED
  BY <1>1, <1>3, <1>4, <1>5, <1>6, <1>7 DEF Next, EnqueueMessageCheck, AgentReadsClose,
     BeginRun, RetryFires, RunNeverBegins, Shutdown, queueVars, vars

(* Nothing the dispatcher does by itself, not even a chain of failing runs *)
(* and retries, goes on for ever: each such step lowers the measure of a   *)
(* group, a pair of numbers in lexical order, and raises that of none.     *)
THEOREM WorkRunsOutOnItsOwn == Spec => WorkRunsOut
<1> DEFINE Nearer == OwnStep => /\ \A h \in Groups : NothingAdded(h) \/ NearerToRest(h)
                                /\ \E h \in Groups : NearerToRest(h)
<1>1. Init => RetriesBounded
  BY GroupQueueAssumption DEF Init, RetriesBounded, FreshGroup
<1>2. IInv /\ RetriesBounded => [Nearer]_vars
  <2>1. SUFFICES ASSUME IInv, RetriesBounded, OwnStep
                 PROVE  \E g \in Groups :
                          /\ NearerToRest(g)
                          /\ \A h \in Groups \ {g} : NothingAdded(h) \/ NearerToRest(h)
    BY DEF Nearer
  <2>2. ASSUME NEW g \in Groups, NEW i \in DOMAIN runs[g], RunEnds(g, i), ~RunNeverBegins(g, i)
        PROVE  /\ NearerToRest(g)
               /\ \A h \in Groups \ {g} : NothingAdded(h) \/ NearerToRest(h)
    <3>1. QueueInv /\ timers \in [Groups -> Nat]
      BY <2>1 DEF IInv
    <3>2. PICK u \in GroupState :
            /\ ~u.active /\ u.runningTask = NoTask
            /\ u.pendingTasks = groups[g].pendingTasks
            /\ u.pendingMessages = groups[g].pendingMessages
            /\ EndRun(g, i, u) /\ CountsRetry(g, u)
      BY <2>2, <3>1, RunEndsInEndRun
    <3>3. /\ GivesBack(g) /\ groups'[g].retryCount = u.retryCount
          /\ \A h \in Groups \ {g} : SameWork(h) \/ TakesUp(h)
      BY <3>1, <3>2, EndUsesWorkUp
    <3>4. Len(runs[g]) = 1
      BY <2>2, <3>1, OnlyRun
    <3>5. \A h \in Groups \ {g} : timers'[h] = timers[h]
      BY <3>1, <3>2 DEF CountsRetry
    <3>6. NearerToRest(g)
      BY <2>1, <3>2, <3>3, <3>4, EndIsNearer
    <3>7. QED
      BY <2>1, <3>3, <3>5, <3>6, SameOrNearer
  <2>3. ASSUME NEW g \in Groups, RetryFires(g)
        PROVE  NearerToRest(g) /\ \A h \in Groups \ {g} : NothingAdded(h)
    BY <2>1, <2>3, RetryIsNearer
  <2>4. ASSUME NEW g \in Groups, NEW i \in DOMAIN runs[g], BeginRun(g, i) \/ RunNeverBegins(g, i)
        PROVE  NearerToRest(g) /\ \A h \in Groups \ {g} : NothingAdded(h)
    BY <2>1, <2>4, BeginIsNearer
  <2>5. QED
    BY <2>1, <2>2, <2>3, <2>4 DEF OwnStep
<1>3. QED
  BY <1>1, <1>2, Invariance, NextKeepsRetries, PTL DEF Spec, WorkRunsOut
=============================================================================
