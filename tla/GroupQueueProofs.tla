-------------------------- MODULE GroupQueueProofs --------------------------
(***************************************************************************)
(* The dispatcher is correct for any set of groups, any limit and any      *)
(* retry budget.  One inductive invariant, IInv, carries all the safety    *)
(* invariants of GroupQueue; it speaks of one group at a time (GroupOK,    *)
(* AwakeOK), of the slot counter, and of the waiting line (LineOK).        *)
(***************************************************************************)
EXTENDS GroupQueue, FiniteSetTheorems, SequenceTheorems, TLAPS

ActiveOf(gs) == {g \in Groups : gs[g].active}

(* What holds of the state s and the coroutines r of a group at all times. *)
(* Between runs no task id is left over, or enqueue_task would refuse it.  *)
GroupOK(s, r) ==
  /\ s \in GroupState
  /\ r \in Seq(Run)
  /\ Len(r) <= 1
  /\ r # <<>> => s.active /\ s.runningTask = r[1].task
  /\ ~s.active => s.runningTask = NoTask
  /\ \A i, j \in DOMAIN s.pendingTasks :
       s.pendingTasks[i] = s.pendingTasks[j] => i = j
  /\ ~Pends(s, s.runningTask)

(* What holds besides until shutdown: afterwards a group may stay active   *)
(* without a coroutine, and coroutines may be cancelled.                   *)
AwakeOK(s, r) ==
  /\ s.active => r # <<>>
  /\ \A i \in DOMAIN r : r[i].phase \in {"created", "running"}

LineOK(gs, count, w) ==
  /\ w # <<>> => count = MaxConcurrent
  /\ \A i, j \in DOMAIN w : w[i] = w[j] => i = j
  /\ \A i \in DOMAIN w : ~gs[w[i]].active /\ HasPending(gs[w[i]])
  /\ \A g \in Groups :
       HasPending(gs[g]) => gs[g].active \/ \E i \in DOMAIN w : w[i] = g

GroupsOK(gs, rs, count) ==
  /\ gs \in [Groups -> GroupState]
  /\ rs \in [Groups -> Seq(Run)]
  /\ \A g \in Groups : GroupOK(gs[g], rs[g])
  /\ count = Cardinality(ActiveOf(gs))

AllAwake(gs, rs) == \A g \in Groups : AwakeOK(gs[g], rs[g])

QueueInv ==
  /\ GroupsOK(groups, runs, activeCount)
  /\ activeCount <= MaxConcurrent
  /\ waitingGroups \in Seq(Groups)
  /\ ~shuttingDown => AllAwake(groups, runs) /\ LineOK(groups, activeCount, waitingGroups)

IInv ==
  /\ QueueInv
  /\ shuttingDown \in BOOLEAN
  /\ timers \in [Groups -> Nat]
  /\ closeFile \in [Groups -> BOOLEAN]

-----------------------------------------------------------------------------
(* Counting active groups.                                                 *)

(* A group that becomes active raises the number of active groups by one.  *)
LEMMA CountUp ==
  ASSUME NEW gs, NEW gt, NEW h \in Groups,
         ~gs[h].active, gt[h].active = TRUE,
         \A g \in Groups \ {h} : gt[g].active = gs[g].active
  PROVE  /\ Cardinality(ActiveOf(gt)) = Cardinality(ActiveOf(gs)) + 1
         /\ Cardinality(ActiveOf(gs)) \in Nat
<1>1. ActiveOf(gs) \subseteq Groups /\ h \notin ActiveOf(gs)
  BY DEF ActiveOf
<1>2. ActiveOf(gt) = ActiveOf(gs) \cup {h}
  BY DEF ActiveOf
<1>3. IsFiniteSet(ActiveOf(gs))
  BY <1>1, FS_Subset, GroupQueueAssumption
<1>4. QED
  BY <1>1, <1>2, <1>3, FS_AddElement, FS_CardinalityType

(* A group that ceases to be active lowers it by one.                      *)
LEMMA CountDown ==
  ASSUME NEW gs, NEW gt, NEW h \in Groups,
         gs[h].active = TRUE, ~gt[h].active,
         \A g \in Groups \ {h} : gt[g].active = gs[g].active
  PROVE  /\ Cardinality(ActiveOf(gt)) = Cardinality(ActiveOf(gs)) - 1
         /\ Cardinality(ActiveOf(gs)) \in Nat
         /\ Cardinality(ActiveOf(gt)) \in Nat
<1>1. \A g \in Groups \ {h} : gs[g].active = gt[g].active
  OBVIOUS
<1>2. Cardinality(ActiveOf(gs)) = Cardinality(ActiveOf(gt)) + 1
  BY <1>1, CountUp
<1>3. Cardinality(ActiveOf(gt)) \in Nat
  BY <1>1, CountUp
<1>4. QED
  BY <1>2, <1>3

(* When no group changes its active flag the number stays.                 *)
LEMMA CountSame ==
  ASSUME NEW gs, NEW gt,
         \A g \in Groups : gt[g].active = gs[g].active
  PROVE  /\ Cardinality(ActiveOf(gt)) = Cardinality(ActiveOf(gs))
         /\ Cardinality(ActiveOf(gs)) \in Nat
<1>1. ActiveOf(gt) = ActiveOf(gs)
  BY DEF ActiveOf
<1>2. ActiveOf(gs) \subseteq Groups
  BY DEF ActiveOf
<1>3. QED
  BY <1>1, <1>2, FS_Subset, FS_CardinalityType, GroupQueueAssumption

-----------------------------------------------------------------------------
(* Starting a run in a group that is idle.                                 *)

(* What a start has to achieve for the group to be sound and awake.        *)
LEMMA StartOK ==
  ASSUME NEW s, NEW r, GroupOK(s, r), ~s.active,
         NEW t \in Tasks \cup {NoTask},
         NEW u \in GroupState, u.active, u.runningTask = t, ~Pends(u, t),
         \A i, j \in DOMAIN u.pendingTasks :
            u.pendingTasks[i] = u.pendingTasks[j] => i = j
  PROVE  GroupOK(u, Append(r, NewRun(t))) /\ AwakeOK(u, Append(r, NewRun(t)))
<1>1. r = <<>>
  BY DEF GroupOK
<1>2. NewRun(t) \in Run /\ NewRun(t).task = t /\ NewRun(t).phase = "created"
  BY DEF NewRun, Run
<1> DEFINE q == Append(r, NewRun(t))
<1>3. q \in Seq(Run) /\ Len(q) = 1 /\ q[1] = NewRun(t) /\ q # <<>> /\ DOMAIN q = 1 .. 1
  BY <1>1, <1>2
<1> HIDE DEF q
<1>4. GroupOK(u, q)
  BY <1>2, <1>3 DEF GroupOK, Pends
<1>5. AwakeOK(u, q)
  BY <1>2, <1>3 DEF AwakeOK
<1>6. QED
  BY <1>4, <1>5 DEF q

(* A message run can start in any idle group.                              *)
LEMMA StartMessagesOK ==
  ASSUME NEW s, NEW r, GroupOK(s, r), ~s.active
  PROVE  /\ StartedMessages(s).active
         /\ GroupOK(StartedMessages(s), Append(r, NewRun(NoTask)))
         /\ AwakeOK(StartedMessages(s), Append(r, NewRun(NoTask)))
<1> DEFINE u == StartedMessages(s)
<1>1. u \in GroupState /\ u.active /\ u.runningTask = s.runningTask
      /\ u.pendingTasks = s.pendingTasks
  BY DEF StartedMessages, GroupOK, GroupState
<1>2. s.runningTask = NoTask
  BY DEF GroupOK
<1> HIDE DEF u
<1>3. ~Pends(u, NoTask)
  BY <1>1, <1>2 DEF GroupOK, Pends
<1>4. \A i, j \in DOMAIN u.pendingTasks : u.pendingTasks[i] = u.pendingTasks[j] => i = j
  BY <1>1 DEF GroupOK
<1>5. GroupOK(u, Append(r, NewRun(NoTask))) /\ AwakeOK(u, Append(r, NewRun(NoTask)))
  BY <1>1, <1>2, <1>3, <1>4, StartOK
<1>6. QED
  BY <1>1, <1>5 DEF u

(* A task that is not queued can start in any idle group.                  *)
LEMMA StartTaskOK ==
  ASSUME NEW s, NEW r, GroupOK(s, r), ~s.active, NEW t \in Tasks, ~Pends(s, t)
  PROVE  /\ StartedTask(s, t).active
         /\ GroupOK(StartedTask(s, t), Append(r, NewRun(t)))
         /\ AwakeOK(StartedTask(s, t), Append(r, NewRun(t)))
<1> DEFINE u == StartedTask(s, t)
<1>1. u \in GroupState /\ u.active /\ u.runningTask = t
      /\ u.pendingTasks = s.pendingTasks
  BY DEF StartedTask, GroupOK, GroupState
<1> HIDE DEF u
<1>2. ~Pends(u, t)
  BY <1>1 DEF Pends
<1>3. \A i, j \in DOMAIN u.pendingTasks : u.pendingTasks[i] = u.pendingTasks[j] => i = j
  BY <1>1 DEF GroupOK
<1>4. GroupOK(u, Append(r, NewRun(t))) /\ AwakeOK(u, Append(r, NewRun(t)))
  BY <1>1, <1>2, <1>3, StartOK
<1>5. QED
  BY <1>1, <1>4 DEF u

(* Taking the first task off the queue leaves a sound group that no longer *)
(* queues that task.                                                       *)
LEMMA PopTaskOK ==
  ASSUME NEW s, NEW r, GroupOK(s, r), ~s.active, s.pendingTasks # <<>>
  PROVE  LET u == [s EXCEPT !.pendingTasks = Tail(@)]
         IN  /\ GroupOK(u, r) /\ ~u.active
             /\ Head(s.pendingTasks) \in Tasks
             /\ ~Pends(u, Head(s.pendingTasks))
<1> DEFINE u == [s EXCEPT !.pendingTasks = Tail(@)]
<1> DEFINE p == s.pendingTasks
<1>1. s \in GroupState /\ p \in Seq(Tasks) /\ Len(p) >= 1
  BY DEF GroupOK, GroupState
<1>2. /\ Tail(p) \in Seq(Tasks) /\ Head(p) \in Tasks /\ Head(p) = p[1]
      /\ DOMAIN Tail(p) = 1 .. Len(p) - 1
      /\ DOMAIN p = 1 .. Len(p)
      /\ \A i \in 1 .. Len(p) - 1 : Tail(p)[i] = p[i + 1]
  BY <1>1
<1>3. u \in GroupState /\ u.pendingTasks = Tail(p) /\ u.active = s.active
      /\ u.runningTask = s.runningTask
  BY <1>1, <1>2 DEF GroupState
<1> HIDE DEF u
<1>4. \A i, j \in DOMAIN p : p[i] = p[j] => i = j
  BY DEF GroupOK
<1>5. \A i \in DOMAIN p : p[i] # s.runningTask
  BY DEF GroupOK, Pends
<1> HIDE DEF p
<1>6. \A i, j \in DOMAIN u.pendingTasks : u.pendingTasks[i] = u.pendingTasks[j] => i = j
  BY <1>1, <1>2, <1>3, <1>4
<1>7. ~Pends(u, u.runningTask)
  BY <1>1, <1>2, <1>3, <1>5 DEF Pends
<1>8. ~Pends(u, Head(p))
  BY <1>1, <1>2, <1>3, <1>4 DEF Pends
<1>9. GroupOK(u, r)
  BY <1>3, <1>6, <1>7 DEF GroupOK
<1>10. QED
  BY <1>2, <1>3, <1>8, <1>9 DEF p, u

(* So an idle group can always start what it has pending.                  *)
LEMMA StartNextOK ==
  ASSUME NEW s, NEW r, GroupOK(s, r), ~s.active
  PROVE  /\ StartedNext(s).active
         /\ GroupOK(StartedNext(s), Append(r, NewRun(NextTask(s))))
         /\ AwakeOK(StartedNext(s), Append(r, NewRun(NextTask(s))))
<1>1. CASE s.pendingTasks = <<>>
  BY <1>1, StartMessagesOK DEF StartedNext, NextTask
<1>2. CASE s.pendingTasks # <<>>
  <2> DEFINE u == [s EXCEPT !.pendingTasks = Tail(@)]
  <2>1. GroupOK(u, r) /\ ~u.active /\ Head(s.pendingTasks) \in Tasks
        /\ ~Pends(u, Head(s.pendingTasks))
    BY <1>2, PopTaskOK
  <2> HIDE DEF u
  <2>2. /\ StartedTask(u, Head(s.pendingTasks)).active
        /\ GroupOK(StartedTask(u, Head(s.pendingTasks)),
                   Append(r, NewRun(Head(s.pendingTasks))))
        /\ AwakeOK(StartedTask(u, Head(s.pendingTasks)),
                   Append(r, NewRun(Head(s.pendingTasks))))
    BY <2>1, StartTaskOK
  <2>3. QED
    BY <1>2, <2>2 DEF StartedNext, NextTask, u
<1>3. QED
  BY <1>1, <1>2

-----------------------------------------------------------------------------
(* Starting and ending a run, seen from the whole dispatcher.              *)

(* An idle group is given the state u and the coroutines q of a new run.   *)
LEMMA OneStarts ==
  ASSUME NEW gs, NEW rs, NEW count, GroupsOK(gs, rs, count),
         NEW h \in Groups, ~gs[h].active,
         NEW u, NEW q, GroupOK(u, q), AwakeOK(u, q), u.active
  PROVE  LET gt == [gs EXCEPT ![h] = u]
             rt == [rs EXCEPT ![h] = q]
         IN  /\ GroupsOK(gt, rt, count + 1)
             /\ AllAwake(gs, rs) => AllAwake(gt, rt)
             /\ count \in Nat
<1> DEFINE gt == [gs EXCEPT ![h] = u]
           rt == [rs EXCEPT ![h] = q]
<1>1. u \in GroupState /\ q \in Seq(Run) /\ gs \in [Groups -> GroupState]
      /\ rs \in [Groups -> Seq(Run)]
  BY DEF GroupOK, GroupsOK
<1>2. /\ gt \in [Groups -> GroupState] /\ rt \in [Groups -> Seq(Run)]
      /\ gt[h] = u /\ rt[h] = q
      /\ \A g \in Groups \ {h} : gt[g] = gs[g] /\ rt[g] = rs[g]
  BY <1>1
<1> HIDE DEF gt, rt
<1>3. \A g \in Groups : GroupOK(gt[g], rt[g])
  BY <1>2 DEF GroupsOK
<1>4. u.active = TRUE
  BY <1>1 DEF GroupState
<1>5. Cardinality(ActiveOf(gt)) = Cardinality(ActiveOf(gs)) + 1
      /\ Cardinality(ActiveOf(gs)) \in Nat
  BY <1>2, <1>4, CountUp
<1>6. AllAwake(gs, rs) => AllAwake(gt, rt)
  BY <1>2 DEF AllAwake
<1>7. QED
  BY <1>2, <1>3, <1>5, <1>6 DEF GroupsOK, gt, rt

(* The only run of a group ends and leaves it idle, its queues untouched.  *)
LEMMA OneEnds ==
  ASSUME QueueInv, NEW g \in Groups, NEW i \in DOMAIN runs[g],
         NEW s \in GroupState, ~s.active, s.runningTask = NoTask,
         s.pendingTasks = groups[g].pendingTasks
  PROVE  LET gt == [groups EXCEPT ![g] = s]
         IN  /\ GroupsOK(gt, WithoutRun(g, i), activeCount - 1)
             /\ WithoutRun(g, i)[g] = <<>>
             /\ groups[g].active
             /\ ~shuttingDown => AllAwake(gt, WithoutRun(g, i))
             /\ activeCount \in Nat /\ activeCount - 1 \in Nat
<1> DEFINE gt == [groups EXCEPT ![g] = s]
           rt == WithoutRun(g, i)
<1>1. /\ groups \in [Groups -> GroupState] /\ runs \in [Groups -> Seq(Run)]
      /\ \A h \in Groups : GroupOK(groups[h], runs[h])
      /\ activeCount = Cardinality(ActiveOf(groups))
  BY DEF QueueInv, GroupsOK
<1>2. runs[g] \in Seq(Run) /\ Len(runs[g]) = 1 /\ i = 1 /\ runs[g] # <<>>
  <2>1. runs[g] \in Seq(Run) /\ Len(runs[g]) <= 1
    BY <1>1 DEF GroupOK
  <2>2. i \in 1 .. Len(runs[g]) /\ Len(runs[g]) \in Nat
    BY <2>1
  <2> DEFINE n == Len(runs[g])
  <2>3. i \in 1 .. n /\ n \in Nat /\ n <= 1
    BY <2>1, <2>2
  <2> HIDE DEF n
  <2>4. i \in Nat /\ 1 <= i /\ i <= n
    BY <2>3
  <2>5. n = 1 /\ i = 1
    BY <2>3, <2>4
  <2>6. Len(runs[g]) = 1
    BY <2>5 DEF n
  <2>7. runs[g] # <<>>
    BY <2>6
  <2>8. QED
    BY <2>1, <2>5, <2>6, <2>7
<1>3. groups[g].active = TRUE
  BY <1>1, <1>2 DEF GroupOK, GroupState
<1>4. SubSeq(runs[g], 1, i - 1) \o SubSeq(runs[g], i + 1, Len(runs[g])) = <<>>
  BY <1>2
<1>5. /\ rt \in [Groups -> Seq(Run)] /\ rt[g] = <<>>
      /\ \A h \in Groups \ {g} : rt[h] = runs[h]
  BY <1>1, <1>4 DEF WithoutRun
<1>6. /\ gt \in [Groups -> GroupState] /\ gt[g] = s
      /\ \A h \in Groups \ {g} : gt[h] = groups[h]
  BY <1>1
<1> HIDE DEF gt, rt
<1>7. GroupOK(groups[g], runs[g])
  BY <1>1
<1>8. \A j \in DOMAIN s.pendingTasks : s.pendingTasks[j] # NoTask
  BY GroupQueueAssumption DEF GroupState
<1>9. GroupOK(s, <<>>)
  BY <1>7, <1>8 DEF GroupOK, Pends
<1>10. \A h \in Groups : GroupOK(gt[h], rt[h])
  BY <1>1, <1>5, <1>6, <1>9
<1>11. /\ Cardinality(ActiveOf(gt)) = activeCount - 1
       /\ activeCount \in Nat /\ activeCount - 1 \in Nat
  BY <1>1, <1>3, <1>6, CountDown
<1>12. AwakeOK(s, <<>>)
  BY DEF AwakeOK
<1>13. ~shuttingDown => AllAwake(gt, rt)
  BY <1>5, <1>6, <1>12 DEF QueueInv, AllAwake
<1>14. QED
  BY <1>3, <1>5, <1>6, <1>10, <1>11, <1>13 DEF GroupsOK, gt, rt

(* What Launch does when it starts nobody.                                 *)
LEMMA LaunchNobody ==
  ASSUME NEW gs \in [Groups -> GroupState], NEW rs \in [Groups -> Seq(Run)],
         NEW count \in Nat, Launch({}, gs, count, rs)
  PROVE  groups' = gs /\ runs' = rs /\ activeCount' = count
BY FS_EmptySet DEF Launch

(* What it does when it starts one group.                                  *)
LEMMA LaunchOne ==
  ASSUME NEW gs \in [Groups -> GroupState], NEW rs \in [Groups -> Seq(Run)],
         NEW count \in Nat, NEW h \in Groups, Launch({h}, gs, count, rs)
  PROVE  /\ groups' = [gs EXCEPT ![h] = StartedNext(gs[h])]
         /\ runs' = [rs EXCEPT ![h] = Append(rs[h], NewRun(NextTask(gs[h])))]
         /\ activeCount' = count + 1
BY FS_Singleton DEF Launch

(* The same, group by group.                                               *)
LEMMA LaunchOneAt ==
  ASSUME NEW gs \in [Groups -> GroupState], NEW rs \in [Groups -> Seq(Run)],
         NEW count \in Nat, NEW h \in Groups, Launch({h}, gs, count, rs)
  PROVE  /\ runs'[h] = Append(rs[h], NewRun(NextTask(gs[h])))
         /\ \A g \in Groups \ {h} : groups'[g] = gs[g] /\ runs'[g] = rs[g]
<1>1. /\ groups' = [gs EXCEPT ![h] = StartedNext(gs[h])]
      /\ runs' = [rs EXCEPT ![h] = Append(rs[h], NewRun(NextTask(gs[h])))]
  BY LaunchOne
<1>2. QED
  BY <1>1

(* Groups that are idle start what they have pending.                      *)
LEMMA LaunchOneOK ==
  ASSUME NEW gs, NEW rs, NEW count, GroupsOK(gs, rs, count),
         NEW h \in Groups, ~gs[h].active, Launch({h}, gs, count, rs)
  PROVE  /\ GroupsOK(groups', runs', activeCount')
         /\ AllAwake(gs, rs) => AllAwake(groups', runs')
         /\ activeCount' = count + 1 /\ count \in Nat
         /\ groups'[h].active
         /\ \A g \in Groups \ {h} : groups'[g] = gs[g]
<1> DEFINE u == StartedNext(gs[h])
           q == Append(rs[h], NewRun(NextTask(gs[h])))
<1>1. /\ gs \in [Groups -> GroupState] /\ rs \in [Groups -> Seq(Run)]
      /\ GroupOK(gs[h], rs[h])
  BY DEF GroupsOK
<1>2. GroupOK(u, q) /\ AwakeOK(u, q) /\ u.active
  BY <1>1, StartNextOK
<1> HIDE DEF u, q
<1>3. /\ GroupsOK([gs EXCEPT ![h] = u], [rs EXCEPT ![h] = q], count + 1)
      /\ AllAwake(gs, rs) => AllAwake([gs EXCEPT ![h] = u], [rs EXCEPT ![h] = q])
      /\ count \in Nat
  BY <1>2, OneStarts
<1>4. /\ groups' = [gs EXCEPT ![h] = u]
      /\ runs' = [rs EXCEPT ![h] = q]
      /\ activeCount' = count + 1
  BY <1>1, <1>3, LaunchOne DEF u, q
<1>5. groups'[h] = u /\ \A g \in Groups \ {h} : groups'[g] = gs[g]
  BY <1>1, <1>4
<1>6. QED
  BY <1>2, <1>3, <1>4, <1>5

-----------------------------------------------------------------------------
(* Draining.                                                               *)

(* What is left when a run of g has ended and its slot is free: g is idle, *)
(* the others wait as before, and whoever waits finds exactly one slot.    *)
Freed(g, gs, rs, count) ==
  /\ GroupsOK(gs, rs, count)
  /\ count \in Nat /\ count + 1 <= MaxConcurrent
  /\ ~gs[g].active
  /\ waitingGroups \in Seq(Groups)
  /\ ~shuttingDown =>
       /\ AllAwake(gs, rs)
       /\ waitingGroups # <<>> => count + 1 = MaxConcurrent
       /\ \A i, j \in DOMAIN waitingGroups : waitingGroups[i] = waitingGroups[j] => i = j
       /\ \A i \in DOMAIN waitingGroups :
            /\ waitingGroups[i] # g
            /\ ~gs[waitingGroups[i]].active /\ HasPending(gs[waitingGroups[i]])
       /\ \A h \in Groups \ {g} :
            HasPending(gs[h]) => gs[h].active \/ \E i \in DOMAIN waitingGroups : waitingGroups[i] = h

(* The loop of _drain_waiting finds nobody, or starts the first in line.   *)
LEMMA DrainWaitingTakesFirst ==
  ASSUME NEW g \in Groups, NEW gs, NEW rs, NEW count, Freed(g, gs, rs, count),
         ~shuttingDown, DrainWaiting(gs, count, rs)
  PROVE  \/ /\ waitingGroups = <<>> /\ waitingGroups' = <<>>
            /\ Launch({}, gs, count, rs)
         \/ /\ waitingGroups # <<>> /\ waitingGroups' = Tail(waitingGroups)
            /\ Launch({Head(waitingGroups)}, gs, count, rs)
<1> DEFINE w == waitingGroups
           started(k) == {h \in {waitingGroups[i] : i \in 1 .. k} : HasPending(gs[h])}
<1>1. PICK n \in 0 .. Len(w) :
        /\ \A k \in 0 .. n - 1 : count + Cardinality(started(k)) < MaxConcurrent
        /\ n = Len(w) \/ count + Cardinality(started(n)) >= MaxConcurrent
        /\ w' = SubSeq(w, n + 1, Len(w))
        /\ Launch(started(n), gs, count, rs)
  BY DEF DrainWaiting
<1>2. count \in Nat /\ w \in Seq(Groups) /\ Len(w) \in Nat /\ MaxConcurrent \in Nat
  BY GroupQueueAssumption DEF Freed
<1>3. started(0) = {} /\ Cardinality(started(0)) = 0
  BY FS_EmptySet
<1>4. CASE w = <<>>
  <2>1. Len(w) = 0
    BY <1>4
  <2>2. n = 0
    BY <1>1, <2>1
  <2>3. w' = <<>>
    BY <1>1, <1>4, <2>1, <2>2
  <2>4. QED
    BY <1>1, <1>3, <1>4, <2>2, <2>3
<1>5. CASE w # <<>>
  <2>1. Len(w) >= 1 /\ Head(w) = w[1] /\ 1 \in DOMAIN w
    BY <1>2, <1>5
  <2>2. count + 1 = MaxConcurrent /\ HasPending(gs[w[1]])
    BY <1>5, <2>1 DEF Freed
  <2>3. started(1) = {w[1]} /\ Cardinality(started(1)) = 1
    <3>1. {waitingGroups[i] : i \in 1 .. 1} = {waitingGroups[1]}
      OBVIOUS
    <3>2. started(1) = {w[1]}
      BY <2>2, <3>1
    <3>3. QED
      BY <3>2, FS_Singleton
  <2> HIDE DEF started
  <2>4. n # 0
    BY <1>1, <1>2, <1>3, <2>1, <2>2
  <2>5. ~(n > 1)
    <3>1. SUFFICES ASSUME n > 1 PROVE FALSE
      OBVIOUS
    <3>2. 1 \in 0 .. n - 1
      BY <1>1, <3>1
    <3>3. count + Cardinality(started(1)) < MaxConcurrent
      BY <1>1, <3>2
    <3>4. QED
      BY <1>2, <2>2, <2>3, <3>3
  <2>6. n = 1
    BY <1>1, <1>2, <2>4, <2>5
  <2>7. w' = Tail(w)
    BY <1>1, <1>2, <1>5, <2>6, TailIsSubSeq
  <2>8. QED
    BY <1>1, <1>5, <2>1, <2>3, <2>6, <2>7
<1>6. QED
  BY <1>4, <1>5

(* A run of g that ends leaves the dispatcher with one free slot.          *)
LEMMA EndFrees ==
  ASSUME QueueInv, NEW g \in Groups, NEW i \in DOMAIN runs[g],
         NEW s \in GroupState, ~s.active, s.runningTask = NoTask,
         s.pendingTasks = groups[g].pendingTasks,
         s.pendingMessages = groups[g].pendingMessages
  PROVE  Freed(g, [groups EXCEPT ![g] = s], WithoutRun(g, i), activeCount - 1)
<1> DEFINE gt == [groups EXCEPT ![g] = s]
           rt == WithoutRun(g, i)
           w == waitingGroups
<1>1. /\ GroupsOK(gt, rt, activeCount - 1)
      /\ groups[g].active
      /\ ~shuttingDown => AllAwake(gt, rt)
      /\ activeCount \in Nat /\ activeCount - 1 \in Nat
  BY OneEnds
<1>2. groups \in [Groups -> GroupState] /\ activeCount <= MaxConcurrent /\ w \in Seq(Groups)
  BY DEF QueueInv, GroupsOK
<1>3. gt[g] = s /\ \A h \in Groups \ {g} : gt[h] = groups[h]
  BY <1>2
<1> HIDE DEF gt, rt
<1>4. ASSUME ~shuttingDown
      PROVE  /\ w # <<>> => activeCount = MaxConcurrent
             /\ \A j, k \in DOMAIN w : w[j] = w[k] => j = k
             /\ \A j \in DOMAIN w : w[j] # g /\ ~gt[w[j]].active /\ HasPending(gt[w[j]])
             /\ \A h \in Groups \ {g} :
                  HasPending(gt[h]) => gt[h].active \/ \E j \in DOMAIN w : w[j] = h
  <2>1. LineOK(groups, activeCount, w)
    BY <1>4 DEF QueueInv
  <2>2. \A j \in DOMAIN w : w[j] \in Groups /\ w[j] # g
    BY <1>1, <1>2, <2>1 DEF LineOK
  <2>3. QED
    BY <1>3, <2>1, <2>2 DEF LineOK
<1>5. MaxConcurrent \in Nat
  BY GroupQueueAssumption
<1>6. activeCount - 1 + 1 <= MaxConcurrent /\ (activeCount = MaxConcurrent => activeCount - 1 + 1 = MaxConcurrent)
  BY <1>1, <1>2, <1>5
<1>7. ~gt[g].active
  BY <1>3
<1>8. Freed(g, gt, rt, activeCount - 1)
  BY <1>1, <1>2, <1>4, <1>6, <1>7 DEF Freed
<1>9. QED
  BY <1>8 DEF gt, rt

(* Draining hands the freed slot on, or leaves nobody waiting.             *)
LEMMA DrainKeeps ==
  ASSUME NEW g \in Groups, NEW gs, NEW rs, NEW count, Freed(g, gs, rs, count),
         DrainGroup(g, gs, count, rs), UNCHANGED shuttingDown
  PROVE  QueueInv'
<1> DEFINE w == waitingGroups
<1>1. /\ GroupsOK(gs, rs, count) /\ count \in Nat /\ count + 1 <= MaxConcurrent
      /\ ~gs[g].active /\ w \in Seq(Groups)
      /\ gs \in [Groups -> GroupState] /\ rs \in [Groups -> Seq(Run)]
  BY DEF Freed, GroupsOK
<1>2. count <= MaxConcurrent
  BY <1>1, GroupQueueAssumption
<1>3. CASE shuttingDown
  <2>1. Launch({}, gs, count, rs) /\ w' = w
    BY <1>3 DEF DrainGroup
  <2>2. groups' = gs /\ runs' = rs /\ activeCount' = count
    BY <1>1, <2>1, LaunchNobody
  <2>3. QED
    BY <1>1, <1>2, <1>3, <2>1, <2>2 DEF QueueInv
<1>4. CASE ~shuttingDown /\ HasPending(gs[g])
  <2>1. Launch({g}, gs, count, rs) /\ w' = w
    BY <1>4 DEF DrainGroup
  <2>2. /\ GroupsOK(groups', runs', activeCount')
        /\ AllAwake(gs, rs) => AllAwake(groups', runs')
        /\ activeCount' = count + 1
        /\ groups'[g].active
        /\ \A h \in Groups \ {g} : groups'[h] = gs[h]
    BY <1>1, <2>1, LaunchOneOK
  <2>3. AllAwake(groups', runs')
    BY <1>4, <2>2 DEF Freed
  <2>4. \A i \in DOMAIN w : w[i] \in Groups \ {g} /\ groups'[w[i]] = gs[w[i]]
    BY <1>1, <1>4, <2>2 DEF Freed
  <2>5. LineOK(groups', activeCount', w)
    BY <1>1, <1>4, <2>2, <2>4 DEF LineOK, Freed
  <2>6. QED
    BY <1>1, <1>4, <2>1, <2>2, <2>3, <2>5 DEF QueueInv
<1>5. CASE ~shuttingDown /\ ~HasPending(gs[g])
  <2>1. DrainWaiting(gs, count, rs)
    BY <1>5 DEF DrainGroup
  <2>2. AllAwake(gs, rs)
    BY <1>5 DEF Freed
  <2>3. CASE w = <<>> /\ w' = <<>> /\ Launch({}, gs, count, rs)
    <3>1. groups' = gs /\ runs' = rs /\ activeCount' = count
      BY <1>1, <2>3, LaunchNobody
    <3>2. LineOK(gs, count, w')
      BY <1>5, <2>3 DEF LineOK, Freed
    <3>3. QED
      BY <1>1, <1>2, <2>2, <2>3, <3>1, <3>2 DEF QueueInv
  <2>4. CASE w # <<>> /\ w' = Tail(w) /\ Launch({Head(w)}, gs, count, rs)
    <3> DEFINE first == Head(w)
    <3>1. /\ first \in Groups /\ first = w[1] /\ 1 \in DOMAIN w
          /\ w' \in Seq(Groups) /\ Len(w) \in Nat /\ DOMAIN w = 1 .. Len(w)
          /\ DOMAIN w' = 1 .. Len(w) - 1
          /\ \A i \in 1 .. Len(w) - 1 : w'[i] = w[i + 1]
      BY <1>1, <2>4
    <3>2. first # g /\ ~gs[first].active /\ count + 1 = MaxConcurrent
      BY <1>5, <2>4, <3>1 DEF Freed
    <3>3. /\ GroupsOK(groups', runs', activeCount')
          /\ AllAwake(groups', runs')
          /\ activeCount' = count + 1
          /\ groups'[first].active
          /\ \A h \in Groups \ {first} : groups'[h] = gs[h]
      BY <1>1, <2>2, <2>4, <3>1, <3>2, LaunchOneOK
    <3> HIDE DEF first
    <3>4. \A i, j \in DOMAIN w : w[i] = w[j] => i = j
      BY <1>5 DEF Freed
    <3>5. \A i, j \in DOMAIN w' : w'[i] = w'[j] => i = j
      BY <3>1, <3>4
    <3>6. \A i \in DOMAIN w' : i + 1 \in DOMAIN w /\ w'[i] = w[i + 1] /\ i + 1 # 1
      BY <3>1
    <3>7. \A i \in DOMAIN w' : w'[i] \in Groups \ {first}
      <4>1. TAKE i \in DOMAIN w'
      <4>2. w[i + 1] # w[1]
        BY <3>1, <3>4, <3>6
      <4>3. w'[i] \in Groups
        BY <3>1
      <4>4. QED
        BY <3>1, <3>6, <4>2, <4>3
    <3>8. \A i \in DOMAIN w' : ~groups'[w'[i]].active /\ HasPending(groups'[w'[i]])
      BY <1>5, <3>3, <3>6, <3>7 DEF Freed
    <3>9. ASSUME NEW h \in Groups, HasPending(groups'[h]), ~groups'[h].active
          PROVE  \E i \in DOMAIN w' : w'[i] = h
      <4>1. h # first /\ groups'[h] = gs[h]
        BY <3>3, <3>9
      <4>2. h # g
        BY <1>5, <3>9, <4>1
      <4>3. PICK i \in DOMAIN w : w[i] = h
        BY <1>5, <3>9, <4>1, <4>2 DEF Freed
      <4>4. i # 1
        BY <3>1, <4>1, <4>3
      <4>5. i - 1 \in DOMAIN w' /\ w'[i - 1] = w[i]
        BY <3>1, <4>3, <4>4
      <4>6. QED
        BY <4>3, <4>5
    <3>10. LineOK(groups', activeCount', w')
      BY <3>2, <3>3, <3>5, <3>8, <3>9 DEF LineOK
    <3>11. QED
      BY <1>1, <3>1, <3>3, <3>10 DEF QueueInv
  <2>5. QED
    BY <1>5, <2>1, <2>3, <2>4, DrainWaitingTakesFirst
<1>6. QED
  BY <1>3, <1>4, <1>5

-----------------------------------------------------------------------------
(* The entry points, and the rest of what changes one group.               *)

(* With a slot free nobody waits, so a group may simply start.             *)
LEMMA StartOneKeeps ==
  ASSUME QueueInv, NEW g \in Groups, ~shuttingDown, ~groups[g].active,
         activeCount < MaxConcurrent,
         NEW u, NEW t, u.active,
         GroupOK(u, Append(runs[g], NewRun(t))), AwakeOK(u, Append(runs[g], NewRun(t))),
         StartOne(g, u, t), UNCHANGED shuttingDown
  PROVE  QueueInv'
<1> DEFINE q == Append(runs[g], NewRun(t))
<1>1. GroupsOK(groups, runs, activeCount) /\ AllAwake(groups, runs)
      /\ LineOK(groups, activeCount, waitingGroups)
  BY DEF QueueInv
<1>2. GroupOK(u, q) /\ AwakeOK(u, q)
  OBVIOUS
<1>3. groups \in [Groups -> GroupState] /\ runs \in [Groups -> Seq(Run)]
  BY <1>1 DEF GroupsOK
<1>4. /\ groups' = [groups EXCEPT ![g] = u]
      /\ runs' = [runs EXCEPT ![g] = q]
      /\ activeCount' = activeCount + 1 /\ waitingGroups' = waitingGroups
  BY <1>3 DEF StartOne
<1> HIDE DEF q
<1>5. GroupsOK(groups', runs', activeCount') /\ AllAwake(groups', runs') /\ activeCount \in Nat
  BY <1>1, <1>2, <1>4, OneStarts
<1>6. waitingGroups = <<>> /\ DOMAIN waitingGroups = {}
  BY <1>1, <1>5, GroupQueueAssumption DEF LineOK
<1>7. \A h \in Groups : groups'[h] = groups[h] \/ groups'[h].active
  BY <1>3, <1>4
<1>8. LineOK(groups', activeCount', waitingGroups')
  BY <1>1, <1>4, <1>6, <1>7 DEF LineOK
<1>9. activeCount' <= MaxConcurrent
  BY <1>4, <1>5, GroupQueueAssumption
<1>10. QED
  BY <1>4, <1>5, <1>8, <1>9 DEF QueueInv

(* A group that changes neither its coroutines nor its active flag keeps   *)
(* the counter and the other groups as they are.                           *)
LEMMA OneChanges ==
  ASSUME QueueInv, NEW g \in Groups, NEW u, GroupOK(u, runs[g]),
         u.active = groups[g].active
  PROVE  /\ GroupsOK([groups EXCEPT ![g] = u], runs, activeCount)
         /\ ~shuttingDown => AllAwake([groups EXCEPT ![g] = u], runs)
<1> DEFINE gt == [groups EXCEPT ![g] = u]
<1>1. GroupsOK(groups, runs, activeCount) /\ groups \in [Groups -> GroupState]
  BY DEF QueueInv, GroupsOK
<1>2. gt \in [Groups -> GroupState] /\ gt[g] = u /\ \A h \in Groups \ {g} : gt[h] = groups[h]
  BY <1>1 DEF GroupOK
<1> HIDE DEF gt
<1>3. \A h \in Groups : gt[h].active = groups[h].active
  BY <1>2
<1>4. Cardinality(ActiveOf(gt)) = Cardinality(ActiveOf(groups))
  BY <1>3, CountSame
<1>5. \A h \in Groups : GroupOK(gt[h], runs[h])
  BY <1>1, <1>2 DEF GroupsOK
<1>6. GroupsOK(gt, runs, activeCount)
  BY <1>1, <1>2, <1>4, <1>5 DEF GroupsOK
<1>7. ~shuttingDown => AllAwake(gt, runs)
  BY <1>2 DEF QueueInv, AllAwake, AwakeOK
<1>8. QED
  BY <1>6, <1>7 DEF gt

(* An active group may take on work: it drains when its run ends.          *)
LEMMA BusyKeeps ==
  ASSUME QueueInv, NEW g \in Groups, groups[g].active,
         NEW u, GroupOK(u, runs[g]), u.active = groups[g].active,
         groups' = [groups EXCEPT ![g] = u],
         UNCHANGED <<activeCount, waitingGroups, runs, shuttingDown>>
  PROVE  QueueInv'
<1> DEFINE w == waitingGroups
<1>1. /\ GroupsOK(groups', runs, activeCount)
      /\ ~shuttingDown => AllAwake(groups', runs)
  BY OneChanges
<1>2. groups \in [Groups -> GroupState] /\ w \in Seq(Groups) /\ activeCount <= MaxConcurrent
  BY DEF QueueInv, GroupsOK
<1>3. groups'[g] = u /\ \A h \in Groups \ {g} : groups'[h] = groups[h]
  BY <1>2
<1>4. ASSUME ~shuttingDown PROVE LineOK(groups', activeCount, w)
  <2>1. LineOK(groups, activeCount, w)
    BY <1>4 DEF QueueInv
  <2>2. \A i \in DOMAIN w : w[i] \in Groups /\ w[i] # g
    BY <1>2, <2>1 DEF LineOK
  <2>3. QED
    BY <1>3, <2>1, <2>2 DEF LineOK
<1>5. QED
  BY <1>1, <1>2, <1>4 DEF QueueInv

(* With no slot free an idle group with work takes its place in the line.  *)
LEMMA ParkKeeps ==
  ASSUME QueueInv, NEW g \in Groups, ~shuttingDown, ~groups[g].active,
         activeCount >= MaxConcurrent,
         NEW u, GroupOK(u, runs[g]), u.active = groups[g].active, HasPending(u),
         Park(g, u), UNCHANGED shuttingDown
  PROVE  QueueInv'
<1> DEFINE w == waitingGroups
<1>1. groups \in [Groups -> GroupState] /\ w \in Seq(Groups) /\ activeCount <= MaxConcurrent
      /\ LineOK(groups, activeCount, w) /\ activeCount \in Nat
  BY CountSame DEF QueueInv, GroupsOK
<1>2. activeCount = MaxConcurrent
  BY <1>1, GroupQueueAssumption
<1>3. /\ groups' = [groups EXCEPT ![g] = u]
      /\ activeCount' = activeCount /\ runs' = runs
      /\ w' = IF Waits(g) THEN w ELSE Append(w, g)
  BY DEF Park
<1>4. GroupsOK(groups', runs, activeCount) /\ AllAwake(groups', runs)
  BY <1>3, OneChanges
<1>5. groups'[g] = u /\ \A h \in Groups \ {g} : groups'[h] = groups[h]
  BY <1>1, <1>3
<1>6. \A i \in DOMAIN w : ~groups'[w[i]].active /\ HasPending(groups'[w[i]])
  BY <1>1, <1>5 DEF LineOK
<1>7. CASE Waits(g)
  <2>1. w' = w
    BY <1>3, <1>7
  <2>2. LineOK(groups', activeCount, w)
    BY <1>1, <1>2, <1>5, <1>6, <1>7 DEF LineOK, Waits
  <2>3. QED
    BY <1>1, <1>3, <1>4, <2>1, <2>2 DEF QueueInv
<1>8. CASE ~Waits(g)
  <2>1. w' = Append(w, g)
    BY <1>3, <1>8
  <2>2. /\ w' \in Seq(Groups) /\ Len(w) \in Nat /\ DOMAIN w = 1 .. Len(w)
        /\ DOMAIN w' = 1 .. Len(w) + 1
        /\ \A i \in 1 .. Len(w) : w'[i] = w[i]
        /\ w'[Len(w) + 1] = g
    BY <1>1, <2>1
  <2>3. \A i \in DOMAIN w : w[i] # g
    BY <1>8 DEF Waits
  <2>4. \A i, j \in DOMAIN w : w[i] = w[j] => i = j
    BY <1>1 DEF LineOK
  <2>5. \A i \in DOMAIN w' : i \in DOMAIN w \/ i = Len(w) + 1
    BY <2>2
  <2>6. \A i, j \in DOMAIN w' : w'[i] = w'[j] => i = j
    BY <2>2, <2>3, <2>4, <2>5
  <2>7. \A i \in DOMAIN w' : ~groups'[w'[i]].active /\ HasPending(groups'[w'[i]])
    BY <1>5, <1>6, <2>2, <2>5
  <2>8. \A h \in Groups :
          HasPending(groups'[h]) => groups'[h].active \/ \E i \in DOMAIN w' : w'[i] = h
    <3>1. Len(w) + 1 \in DOMAIN w' /\ DOMAIN w \subseteq DOMAIN w'
      BY <2>2
    <3>2. QED
      BY <1>1, <1>5, <2>2, <3>1 DEF LineOK
  <2>9. LineOK(groups', activeCount, w')
    BY <1>2, <2>6, <2>7, <2>8 DEF LineOK
  <2>10. QED
    BY <1>1, <1>3, <1>4, <2>2, <2>9 DEF QueueInv
<1>9. QED
  BY <1>7, <1>8

(* The body of enqueue_message_check, also run by a retry.                 *)
LEMMA CheckMessagesKeeps ==
  ASSUME QueueInv, NEW g \in Groups, CheckMessages(g), UNCHANGED shuttingDown
  PROVE  QueueInv'
<1> DEFINE u == [groups[g] EXCEPT !.pendingMessages = TRUE]
<1>1. GroupOK(groups[g], runs[g]) /\ groups \in [Groups -> GroupState]
  BY DEF QueueInv, GroupsOK
<1>2. /\ u \in GroupState /\ u.active = groups[g].active /\ u.pendingMessages
      /\ u.pendingTasks = groups[g].pendingTasks /\ u.runningTask = groups[g].runningTask
  BY <1>1 DEF GroupState
<1> HIDE DEF u
<1>3. GroupOK(u, runs[g])
  BY <1>1, <1>2 DEF GroupOK, Pends
<1>4. CASE shuttingDown
  BY <1>4 DEF CheckMessages, queueVars, QueueInv
<1>5. CASE ~shuttingDown /\ groups[g].active
  <2>1. groups' = [groups EXCEPT ![g] = u] /\ UNCHANGED <<activeCount, waitingGroups, runs>>
    BY <1>1, <1>5 DEF CheckMessages, u
  <2>2. QED
    BY <1>2, <1>3, <1>5, <2>1, BusyKeeps
<1>6. CASE ~shuttingDown /\ ~groups[g].active /\ activeCount >= MaxConcurrent
  <2>1. activeCount \in Nat /\ MaxConcurrent \in Nat
    BY CountSame, GroupQueueAssumption DEF QueueInv, GroupsOK
  <2>2. Park(g, u)
    BY <1>6, <2>1 DEF CheckMessages, u
  <2>3. HasPending(u)
    BY <1>2 DEF HasPending
  <2>4. QED
    BY <1>2, <1>3, <1>6, <2>2, <2>3, ParkKeeps
<1>7. CASE ~shuttingDown /\ ~groups[g].active /\ activeCount < MaxConcurrent
  <2>1. activeCount \in Nat /\ MaxConcurrent \in Nat
    BY CountSame, GroupQueueAssumption DEF QueueInv, GroupsOK
  <2>2. StartOne(g, StartedMessages(groups[g]), NoTask)
    BY <1>7, <2>1 DEF CheckMessages
  <2>3. QED
    BY <1>1, <1>7, <2>2, StartMessagesOK, StartOneKeeps
<1>8. QED
  BY <1>4, <1>5, <1>6, <1>7 DEF CheckMessages

(* Appending a task that is neither queued nor running keeps a group sound. *)
LEMMA QueuedTaskOK ==
  ASSUME NEW s, NEW r, GroupOK(s, r), NEW t \in Tasks, s.runningTask # t, ~Pends(s, t)
  PROVE  /\ GroupOK(QueuedTask(s, t), r)
         /\ QueuedTask(s, t).active = s.active
         /\ HasPending(QueuedTask(s, t))
<1> DEFINE u == QueuedTask(s, t)
           p == s.pendingTasks
<1>1. s \in GroupState /\ p \in Seq(Tasks)
  BY DEF GroupOK, GroupState
<1>2. /\ u \in GroupState /\ u.pendingTasks = Append(p, t) /\ u.active = s.active
      /\ u.runningTask = s.runningTask
  BY <1>1 DEF QueuedTask, GroupState
<1> DEFINE q == Append(p, t)
<1>3. /\ Len(p) \in Nat /\ DOMAIN p = 1 .. Len(p) /\ DOMAIN q = 1 .. Len(p) + 1
      /\ \A i \in 1 .. Len(p) : q[i] = p[i]
      /\ q[Len(p) + 1] = t /\ q # <<>>
  BY <1>1
<1>4. \A i, j \in DOMAIN p : p[i] = p[j] => i = j
  BY DEF GroupOK
<1>5. \A i \in DOMAIN p : p[i] # t /\ p[i] # s.runningTask
  BY DEF GroupOK, Pends
<1> HIDE DEF u, p, q
<1>6. \A i \in DOMAIN q : i \in DOMAIN p \/ i = Len(p) + 1
  BY <1>3
<1>7. \A i, j \in DOMAIN q : q[i] = q[j] => i = j
  BY <1>3, <1>4, <1>5, <1>6
<1>8. \A i \in DOMAIN q : q[i] # s.runningTask
  BY <1>3, <1>5, <1>6
<1>9. u.pendingTasks = q
  BY <1>2 DEF q
<1>10. GroupOK(u, r)
  BY <1>2, <1>7, <1>8, <1>9 DEF GroupOK, Pends
<1>11. HasPending(u)
  BY <1>3, <1>9 DEF HasPending
<1>12. QED
  BY <1>2, <1>10, <1>11 DEF u

(* The body of enqueue_task.                                               *)
LEMMA EnqueueTaskKeeps ==
  ASSUME QueueInv, NEW g \in Groups, NEW t \in Tasks, EnqueueTask(g, t)
  PROVE  QueueInv'
<1> DEFINE u == QueuedTask(groups[g], t)
<1>1. /\ GroupOK(groups[g], runs[g]) /\ groups \in [Groups -> GroupState]
      /\ UNCHANGED shuttingDown
      /\ activeCount \in Nat /\ MaxConcurrent \in Nat
  BY CountSame, GroupQueueAssumption DEF QueueInv, GroupsOK, EnqueueTask
<1>2. CASE UNCHANGED queueVars
  BY <1>1, <1>2 DEF queueVars, QueueInv
<1>3. ASSUME ~shuttingDown, groups[g].runningTask # t, ~Pends(groups[g], t),
             groups[g].active,
             groups' = [groups EXCEPT ![g] = QueuedTask(@, t)],
             UNCHANGED <<activeCount, waitingGroups, runs>>
      PROVE  QueueInv'
  <2>1. GroupOK(u, runs[g]) /\ u.active = groups[g].active
    BY <1>1, <1>3, QueuedTaskOK
  <2>2. groups' = [groups EXCEPT ![g] = u]
    BY <1>1, <1>3
  <2>3. QED
    BY <1>1, <1>3, <2>1, <2>2, BusyKeeps
<1>4. ASSUME ~shuttingDown, groups[g].runningTask # t, ~Pends(groups[g], t),
             ~groups[g].active, activeCount >= MaxConcurrent, Park(g, u)
      PROVE  QueueInv'
  <2>1. GroupOK(u, runs[g]) /\ u.active = groups[g].active /\ HasPending(u)
    BY <1>1, <1>4, QueuedTaskOK
  <2>2. QED
    BY <1>1, <1>4, <2>1, ParkKeeps
<1>5. ASSUME ~shuttingDown, ~Pends(groups[g], t), ~groups[g].active,
             activeCount < MaxConcurrent, StartOne(g, StartedTask(groups[g], t), t)
      PROVE  QueueInv'
  BY <1>1, <1>5, StartTaskOK, StartOneKeeps
<1>6. QED
  BY <1>2, <1>3, <1>4, <1>5 DEF EnqueueTask

-----------------------------------------------------------------------------
(* The coroutines.                                                         *)

(* A group with a live run is active and its id is that of the run.        *)
LEMMA LiveRun ==
  ASSUME QueueInv, NEW g \in Groups, NEW i \in DOMAIN runs[g]
  PROVE  /\ GroupOK(groups[g], runs[g]) /\ runs[g] # <<>> /\ i = 1
         /\ groups[g].active = TRUE /\ groups[g].runningTask = runs[g][i].task
         /\ groups \in [Groups -> GroupState] /\ runs \in [Groups -> Seq(Run)]
<1>1. /\ GroupOK(groups[g], runs[g]) /\ groups \in [Groups -> GroupState]
      /\ runs \in [Groups -> Seq(Run)]
  BY DEF QueueInv, GroupsOK
<1> DEFINE n == Len(runs[g])
<1>2. n \in Nat /\ n <= 1 /\ i \in 1 .. n
  BY <1>1 DEF GroupOK
<1>3. runs[g] # <<>>
  BY <1>2
<1> HIDE DEF n
<1>4. i = 1
  BY <1>2
<1>5. QED
  BY <1>1, <1>3, <1>4 DEF GroupOK, GroupState

(* A retry is scheduled, and counted, only within the budget.              *)
CountsRetry(g, u) ==
  \/ /\ UNCHANGED timers
     /\ groups[g].retryCount <= MaxRetries => u.retryCount <= MaxRetries
  \/ /\ timers' = [timers EXCEPT ![g] = @ + 1]
     /\ u.retryCount = groups[g].retryCount + 1 /\ u.retryCount <= MaxRetries

(* Every run that began ends in EndRun, with its group idle and its queues *)
(* as they were.                                                           *)
LEMMA RunEndsInEndRun ==
  ASSUME QueueInv, NEW g \in Groups, NEW i \in DOMAIN runs[g], RunEnds(g, i),
         ~RunNeverBegins(g, i)
  PROVE  \E u \in GroupState :
           /\ ~u.active /\ u.runningTask = NoTask
           /\ u.pendingTasks = groups[g].pendingTasks
           /\ u.pendingMessages = groups[g].pendingMessages
           /\ u.idleWaiting => groups[g].idleWaiting
           /\ EndRun(g, i, u) /\ UNCHANGED shuttingDown
           /\ CountsRetry(g, u)
<1> DEFINE s == groups[g]
<1>1. /\ GroupOK(s, runs[g]) /\ runs[g] # <<>> /\ i = 1 /\ s.active = TRUE
      /\ s.runningTask = runs[g][i].task /\ s \in GroupState
      /\ groups \in [Groups -> GroupState] /\ runs \in [Groups -> Seq(Run)]
  BY LiveRun
<1>3. CASE MessagesSucceed(g, i)
  <2> DEFINE u == [s EXCEPT !.retryCount = 0, !.active = FALSE]
  <2>1. /\ u \in GroupState /\ ~u.active /\ u.runningTask = NoTask
        /\ u.pendingTasks = s.pendingTasks /\ u.pendingMessages = s.pendingMessages
        /\ u.idleWaiting => s.idleWaiting
    BY <1>1, <1>3 DEF GroupState, MessagesSucceed, RunIsMessages
  <2>2. EndRun(g, i, u) /\ UNCHANGED <<shuttingDown, timers>>
    BY <1>3 DEF MessagesSucceed
  <2>3. u.retryCount = 0 /\ 0 <= MaxRetries
    BY <1>1, GroupQueueAssumption DEF GroupState
  <2> HIDE DEF u
  <2>4. QED
    BY <2>1, <2>2, <2>3 DEF CountsRetry
<1>4. CASE MessagesFail(g, i)
  <2> DEFINE u == [ScheduledRetry(s) EXCEPT !.active = FALSE]
  <2>1. /\ u \in GroupState /\ ~u.active /\ u.runningTask = NoTask
        /\ u.pendingTasks = s.pendingTasks /\ u.pendingMessages = s.pendingMessages
        /\ u.idleWaiting => s.idleWaiting
        /\ u.retryCount = IF s.retryCount + 1 > MaxRetries THEN 0 ELSE s.retryCount + 1
    <3> DEFINE v == ScheduledRetry(s)
    <3>1. /\ v \in GroupState /\ v.runningTask = s.runningTask
          /\ v.retryCount = IF s.retryCount + 1 > MaxRetries THEN 0 ELSE s.retryCount + 1
          /\ v.pendingTasks = s.pendingTasks /\ v.pendingMessages = s.pendingMessages
          /\ v.idleWaiting = s.idleWaiting
      <4>1. s.retryCount \in Nat /\ s.retryCount + 1 \in Nat
        BY <1>1 DEF GroupState
      <4> DEFINE n == IF s.retryCount + 1 > MaxRetries THEN 0 ELSE s.retryCount + 1
      <4>2. n \in Nat /\ v = [s EXCEPT !.retryCount = n]
        BY <4>1 DEF ScheduledRetry
      <4> HIDE DEF n, v
      <4>3. /\ v \in GroupState /\ v.retryCount = n /\ v.runningTask = s.runningTask
            /\ v.pendingTasks = s.pendingTasks /\ v.pendingMessages = s.pendingMessages
            /\ v.idleWaiting = s.idleWaiting
        BY <1>1, <4>2 DEF GroupState
      <4>4. QED
        BY <4>3 DEF n
    <3>2. s.runningTask = NoTask
      BY <1>1, <1>4 DEF MessagesFail, RunIsMessages
    <3>3. u = [v EXCEPT !.active = FALSE]
      OBVIOUS
    <3> HIDE DEF u, v
    <3>4. QED
      BY <3>1, <3>2, <3>3 DEF GroupState
  <2>2. EndRun(g, i, u) /\ UNCHANGED shuttingDown
    BY <1>4 DEF MessagesFail
  <2>3. s.retryCount \in Nat /\ MaxRetries \in Nat
    BY <1>1, GroupQueueAssumption DEF GroupState
  <2>4. timers' = IF s.retryCount + 1 > MaxRetries THEN timers ELSE [timers EXCEPT ![g] = @ + 1]
    BY <1>4 DEF MessagesFail, ScheduleTimer
  <2> HIDE DEF u
  <2>5. CountsRetry(g, u)
    BY <2>1, <2>3, <2>4 DEF CountsRetry
  <2>6. QED
    BY <2>1, <2>2, <2>5
<1>5. CASE MessagesCancelled(g, i)
  <2> DEFINE u == [s EXCEPT !.active = FALSE]
  <2>1. /\ u \in GroupState /\ ~u.active /\ u.runningTask = NoTask
        /\ u.pendingTasks = s.pendingTasks /\ u.pendingMessages = s.pendingMessages
        /\ u.idleWaiting => s.idleWaiting
    BY <1>1, <1>5 DEF GroupState, MessagesCancelled, RunIsMessages
  <2>2. EndRun(g, i, u) /\ UNCHANGED <<shuttingDown, timers>>
    BY <1>5 DEF MessagesCancelled
  <2>3. u.retryCount = s.retryCount
    BY <1>1 DEF GroupState
  <2> HIDE DEF u
  <2>4. QED
    BY <2>1, <2>2, <2>3 DEF CountsRetry
<1>6. CASE TaskEnds(g, i)
  <2> DEFINE u == [s EXCEPT !.active = FALSE, !.idleWaiting = FALSE,
                            !.isTaskContainer = FALSE, !.runningTask = NoTask]
  <2>1. /\ u \in GroupState /\ ~u.active /\ u.runningTask = NoTask
        /\ u.pendingTasks = s.pendingTasks /\ u.pendingMessages = s.pendingMessages
        /\ u.idleWaiting => s.idleWaiting
    <3> DEFINE v == [s EXCEPT !.active = FALSE, !.idleWaiting = FALSE]
    <3>1. /\ v \in GroupState /\ ~v.active /\ ~v.idleWaiting
          /\ v.pendingTasks = s.pendingTasks /\ v.pendingMessages = s.pendingMessages
      BY <1>1 DEF GroupState
    <3>2. u = [v EXCEPT !.isTaskContainer = FALSE, !.runningTask = NoTask]
      BY <1>1 DEF GroupState
    <3> HIDE DEF u, v
    <3>3. QED
      BY <3>1, <3>2 DEF GroupState
  <2>2. EndRun(g, i, u) /\ UNCHANGED <<shuttingDown, timers>>
    BY <1>6 DEF TaskEnds
  <2>3. u.retryCount = s.retryCount
    BY <1>1 DEF GroupState
  <2> HIDE DEF u
  <2>4. QED
    BY <2>1, <2>2, <2>3 DEF CountsRetry
<1>7. QED
  BY <1>3, <1>4, <1>5, <1>6 DEF RunEnds

(* Every way in which a run can end keeps the invariant.                   *)
LEMMA RunEndsKeeps ==
  ASSUME QueueInv, NEW g \in Groups, NEW i \in DOMAIN runs[g], RunEnds(g, i)
  PROVE  QueueInv'
<1> DEFINE s == groups[g]
<1>1. /\ GroupOK(s, runs[g]) /\ runs[g] # <<>> /\ i = 1 /\ s.active = TRUE
      /\ s.runningTask = runs[g][i].task /\ s \in GroupState
      /\ groups \in [Groups -> GroupState] /\ runs \in [Groups -> Seq(Run)]
  BY LiveRun
<1>2. CASE ~RunNeverBegins(g, i)
  <2>1. PICK u \in GroupState :
          /\ ~u.active /\ u.runningTask = NoTask
          /\ u.pendingTasks = groups[g].pendingTasks
          /\ u.pendingMessages = groups[g].pendingMessages
          /\ EndRun(g, i, u) /\ UNCHANGED shuttingDown
    BY <1>2, RunEndsInEndRun
  <2>2. Freed(g, [groups EXCEPT ![g] = u], WithoutRun(g, i), activeCount - 1)
    BY <2>1, EndFrees
  <2>3. QED
    BY <2>1, <2>2, DrainKeeps DEF EndRun
<1>3. CASE RunNeverBegins(g, i)
  <2>1. /\ runs[g][i].phase = "stillborn" /\ runs' = WithoutRun(g, i)
        /\ UNCHANGED <<groups, activeCount, waitingGroups, shuttingDown>>
    BY <1>3 DEF RunNeverBegins
  <2>2. shuttingDown
    BY <1>1, <2>1 DEF QueueInv, AllAwake, AwakeOK
  <2> DEFINE u == [s EXCEPT !.active = FALSE, !.runningTask = NoTask]
  <2>3. /\ u \in GroupState /\ ~u.active /\ u.runningTask = NoTask
        /\ u.pendingTasks = s.pendingTasks /\ u.pendingMessages = s.pendingMessages
    BY <1>1 DEF GroupState
  <2> HIDE DEF u
  <2>4. Freed(g, [groups EXCEPT ![g] = u], WithoutRun(g, i), activeCount - 1)
    BY <2>3, EndFrees
  <2>5. /\ runs' \in [Groups -> Seq(Run)] /\ runs'[g] = <<>>
        /\ \A h \in Groups \ {g} : runs'[h] = runs[h]
    <3>1. /\ GroupsOK([groups EXCEPT ![g] = u], WithoutRun(g, i), activeCount - 1)
          /\ WithoutRun(g, i)[g] = <<>>
      BY <2>3, OneEnds
    <3>2. QED
      BY <1>1, <2>1, <3>1 DEF GroupsOK, WithoutRun
  <2>6. GroupOK(s, <<>>)
    BY <1>1 DEF GroupOK
  <2>7. \A h \in Groups : GroupOK(groups[h], runs'[h])
    BY <2>5, <2>6 DEF QueueInv, GroupsOK
  <2>8. QED
    BY <2>1, <2>2, <2>5, <2>7 DEF QueueInv, GroupsOK
<1>4. QED
  BY <1>2, <1>3

(* A coroutine that changes phase, but not its task, disturbs nothing else. *)
LEMMA PhasesKeep ==
  ASSUME QueueInv, NEW rt \in [Groups -> Seq(Run)],
         \A g \in Groups : /\ Len(rt[g]) = Len(runs[g])
                           /\ \A i \in DOMAIN runs[g] : rt[g][i].task = runs[g][i].task
  PROVE  GroupsOK(groups, rt, activeCount)
<1>1. ASSUME NEW g \in Groups PROVE GroupOK(groups[g], rt[g])
  <2>1. GroupOK(groups[g], runs[g]) /\ Len(rt[g]) = Len(runs[g]) /\ rt[g] \in Seq(Run)
    BY DEF QueueInv, GroupsOK
  <2>2. rt[g] # <<>> => runs[g] # <<>> /\ 1 \in DOMAIN runs[g]
    BY <2>1 DEF GroupOK
  <2>3. QED
    BY <2>1, <2>2 DEF GroupOK
<1>2. QED
  BY <1>1 DEF QueueInv, GroupsOK

(* A coroutine reaches its first statement.                                *)
LEMMA BeginRunKeeps ==
  ASSUME QueueInv, NEW g \in Groups, NEW i \in DOMAIN runs[g], BeginRun(g, i)
  PROVE  QueueInv'
<1>1. /\ runs' = [runs EXCEPT ![g][i].phase = "running"]
      /\ UNCHANGED <<groups, activeCount, waitingGroups, shuttingDown>>
      /\ runs \in [Groups -> Seq(Run)]
      /\ i = 1
  BY LiveRun DEF BeginRun
<1> DEFINE q == [runs[g] EXCEPT ![i].phase = "running"]
<1>2. /\ q \in Seq(Run) /\ Len(q) = Len(runs[g]) /\ DOMAIN q = DOMAIN runs[g]
      /\ \A j \in DOMAIN runs[g] : q[j].task = runs[g][j].task
      /\ \A j \in DOMAIN runs[g] : q[j].phase \in {"running", runs[g][j].phase}
  <2>1. runs[g] \in Seq(Run)
    BY <1>1
  <2>2. \A r \in Run : [r EXCEPT !.phase = "running"] \in Run
    BY DEF Run
  <2> DEFINE r == [runs[g][i] EXCEPT !.phase = "running"]
  <2>3. runs[g][i] \in Run
    BY <2>1
  <2>4. r \in Run /\ r.task = runs[g][i].task /\ r.phase = "running"
    BY <2>2, <2>3 DEF Run
  <2>5. q = [runs[g] EXCEPT ![i] = r]
    OBVIOUS
  <2> HIDE DEF r, q
  <2>6. /\ q \in Seq(Run) /\ Len(q) = Len(runs[g]) /\ DOMAIN q = DOMAIN runs[g]
        /\ \A j \in DOMAIN runs[g] : q[j] = IF j = i THEN r ELSE runs[g][j]
    BY <2>1, <2>4, <2>5
  <2>7. QED
    BY <2>4, <2>6
<1>3. /\ runs' \in [Groups -> Seq(Run)] /\ runs'[g] = q
      /\ \A h \in Groups \ {g} : runs'[h] = runs[h]
  BY <1>1, <1>2
<1> HIDE DEF q
<1>4. GroupsOK(groups, runs', activeCount)
  BY <1>2, <1>3, PhasesKeep
<1>5. AllAwake(groups, runs) => AllAwake(groups, runs')
  <2>1. q # <<>> <=> runs[g] # <<>>
    BY <1>1, <1>2
  <2>2. AwakeOK(groups[g], runs[g]) => AwakeOK(groups[g], q)
    BY <1>2, <2>1 DEF AwakeOK
  <2>3. QED
    BY <1>3, <2>2 DEF AllAwake
<1>6. QED
  BY <1>1, <1>4, <1>5 DEF QueueInv

(* An idle run is reported while it lives.                                 *)
LEMMA NotifyIdleKeeps ==
  ASSUME QueueInv, NEW g \in Groups, NotifyIdle(g)
  PROVE  QueueInv'
<1>1. PICK i \in DOMAIN runs[g] : Begun(runs[g][i])
  BY DEF NotifyIdle
<1>2. GroupOK(groups[g], runs[g]) /\ groups[g].active = TRUE
      /\ groups \in [Groups -> GroupState]
  BY <1>1, LiveRun
<1> DEFINE u == [groups[g] EXCEPT !.idleWaiting = TRUE]
<1>3. groups' = [groups EXCEPT ![g] = u]
      /\ UNCHANGED <<activeCount, waitingGroups, runs, shuttingDown>>
  BY <1>2 DEF NotifyIdle
<1>4. /\ u \in GroupState /\ u.active = groups[g].active
      /\ u.pendingTasks = groups[g].pendingTasks /\ u.runningTask = groups[g].runningTask
  BY <1>2 DEF GroupState
<1> HIDE DEF u
<1>5. GroupOK(u, runs[g])
  BY <1>2, <1>4 DEF GroupOK, Pends
<1>6. QED
  BY <1>2, <1>3, <1>4, <1>5, BusyKeeps

(* Shutdown cancels, and takes nothing away.                               *)
LEMMA ShutdownKeeps ==
  ASSUME QueueInv, Shutdown
  PROVE  QueueInv'
<1>1. /\ shuttingDown' = TRUE
      /\ runs' = [g \in Groups |-> [i \in DOMAIN runs[g] |-> Cancelled(runs[g][i])]]
      /\ UNCHANGED <<groups, activeCount, waitingGroups>>
  BY DEF Shutdown
<1>2. runs \in [Groups -> Seq(Run)]
  BY DEF QueueInv, GroupsOK
<1>3. ASSUME NEW g \in Groups
      PROVE  /\ runs'[g] \in Seq(Run) /\ Len(runs'[g]) = Len(runs[g])
             /\ \A i \in DOMAIN runs[g] : runs'[g][i].task = runs[g][i].task
  <2>1. runs[g] \in Seq(Run) /\ runs'[g] = [i \in 1 .. Len(runs[g]) |-> Cancelled(runs[g][i])]
    BY <1>1, <1>2
  <2>2. \A r \in Run : Cancelled(r) \in Run /\ Cancelled(r).task = r.task
    BY DEF Cancelled, Run
  <2> DEFINE n == Len(runs[g])
  <2>3. n \in Nat
    BY <2>1
  <2>4. QED
    BY <2>1, <2>2, <2>3
<1>4. runs' \in [Groups -> Seq(Run)]
  BY <1>1, <1>3
<1>5. GroupsOK(groups, runs', activeCount)
  BY <1>3, <1>4, PhasesKeep
<1>6. QED
  BY <1>1, <1>5 DEF QueueInv

-----------------------------------------------------------------------------
(* The invariant and what follows from it.                                 *)

(* A dispatcher without runs, pending work or a waiting line.              *)
Fresh ==
  /\ groups = [g \in Groups |-> FreshGroup] /\ runs = [g \in Groups |-> <<>>]
  /\ activeCount = 0 /\ waitingGroups = <<>> /\ shuttingDown = FALSE

(* It is sound.                                                            *)
LEMMA FreshOK == Fresh => QueueInv
<1>1. SUFFICES ASSUME Fresh PROVE QueueInv
  OBVIOUS
<1>2. /\ groups = [g \in Groups |-> FreshGroup] /\ runs = [g \in Groups |-> <<>>]
      /\ activeCount = 0 /\ waitingGroups = <<>> /\ shuttingDown = FALSE
  BY <1>1 DEF Fresh
<1>3. GroupOK(FreshGroup, <<>>) /\ ~FreshGroup.active /\ ~HasPending(FreshGroup)
      /\ AwakeOK(FreshGroup, <<>>)
  BY DEF GroupOK, AwakeOK, FreshGroup, GroupState, Pends, HasPending
<1>4. FreshGroup \in GroupState
  BY <1>3 DEF GroupOK
<1>5. ActiveOf(groups) = {} /\ Cardinality(ActiveOf(groups)) = 0
  BY <1>2, <1>3, FS_EmptySet DEF ActiveOf
<1>6. GroupsOK(groups, runs, activeCount)
  BY <1>2, <1>3, <1>4, <1>5 DEF GroupsOK
<1>7. AllAwake(groups, runs) /\ LineOK(groups, activeCount, waitingGroups)
  BY <1>2, <1>3 DEF AllAwake, LineOK
<1>8. activeCount <= MaxConcurrent /\ waitingGroups \in Seq(Groups)
  BY <1>2, GroupQueueAssumption
<1>9. QED
  BY <1>6, <1>7, <1>8 DEF QueueInv

(* The dispatcher starts with nothing running and nothing pending.         *)
LEMMA InitIInv == Init => IInv
<1>1. SUFFICES ASSUME Init PROVE IInv
  OBVIOUS
<1>2. Fresh
  BY <1>1 DEF Init, Fresh
<1>3. shuttingDown \in BOOLEAN /\ closeFile \in [Groups -> BOOLEAN]
  BY <1>1 DEF Init
<1>4. 0 \in Nat
  OBVIOUS
<1>5. timers \in [Groups -> Nat]
  BY <1>1, <1>4 DEF Init
<1>6. QueueInv
  BY <1>2, FreshOK
<1>7. QED
  BY <1>3, <1>5, <1>6 DEF IInv

(* The three variables IInv only types.                                    *)
LEMMA OthersKeep ==
  ASSUME IInv, Next
  PROVE  /\ shuttingDown' \in BOOLEAN
         /\ timers' \in [Groups -> Nat]
         /\ closeFile' \in [Groups -> BOOLEAN]
<1>1. shuttingDown \in BOOLEAN /\ timers \in [Groups -> Nat] /\ closeFile \in [Groups -> BOOLEAN]
  BY DEF IInv
<1>2. shuttingDown' \in BOOLEAN
  BY <1>1 DEF Next, EnqueueMessageCheck, EnqueueTask, NotifyIdle, AgentReadsClose, BeginRun,
       RunEnds, MessagesSucceed, MessagesFail, MessagesCancelled, TaskEnds, RunNeverBegins,
       RetryFires, Shutdown
<1>3. timers' \in [Groups -> Nat]
  <2>1. ASSUME NEW g \in Groups, RetryFires(g) PROVE timers' \in [Groups -> Nat]
    BY <1>1, <2>1 DEF RetryFires
  <2>2. ASSUME NEW g \in Groups, ScheduleTimer(g) PROVE timers' \in [Groups -> Nat]
    BY <1>1, <2>2 DEF ScheduleTimer
  <2>3. CASE Shutdown
    BY <2>3 DEF Shutdown
  <2>4. QED
    BY <1>1, <2>1, <2>2, <2>3 DEF Next, EnqueueMessageCheck, EnqueueTask, NotifyIdle,
         AgentReadsClose, BeginRun, RunEnds, MessagesSucceed, MessagesFail,
         MessagesCancelled, TaskEnds, RunNeverBegins
<1>4. closeFile' \in [Groups -> BOOLEAN]
  <2>1. ASSUME NEW g \in Groups, CloseStdin(g) PROVE closeFile' \in [Groups -> BOOLEAN]
    BY <1>1, <2>1 DEF CloseStdin
  <2>2. ASSUME NEW g \in Groups, AgentReadsClose(g) PROVE closeFile' \in [Groups -> BOOLEAN]
    BY <1>1, <2>2 DEF AgentReadsClose
  <2>3. QED
    BY <1>1, <2>1, <2>2 DEF Next, EnqueueMessageCheck, EnqueueTask, NotifyIdle, BeginRun,
         RunEnds, MessagesSucceed, MessagesFail, MessagesCancelled, TaskEnds,
         RunNeverBegins, RetryFires, Shutdown
<1>5. QED
  BY <1>2, <1>3, <1>4

(* Every step keeps the invariant: one case per action.                    *)
LEMMA NextIInv == IInv /\ [Next]_vars => IInv'
<1>1. SUFFICES ASSUME IInv, [Next]_vars PROVE IInv'
  OBVIOUS
<1>2. QueueInv
  BY <1>1 DEF IInv
<1>3. CASE UNCHANGED vars
  BY <1>1, <1>3 DEF vars, IInv, QueueInv
<1>4. CASE Next
  <2>1. ASSUME NEW g \in Groups, EnqueueMessageCheck(g) PROVE QueueInv'
    BY <1>2, <2>1, CheckMessagesKeeps DEF EnqueueMessageCheck
  <2>2. ASSUME NEW g \in Groups, NEW t \in Tasks, EnqueueTask(g, t) PROVE QueueInv'
    BY <1>2, <2>2, EnqueueTaskKeeps
  <2>3. ASSUME NEW g \in Groups, NotifyIdle(g) PROVE QueueInv'
    BY <1>2, <2>3, NotifyIdleKeeps
  <2>4. ASSUME NEW g \in Groups, AgentReadsClose(g) PROVE QueueInv'
    BY <1>2, <2>4 DEF AgentReadsClose, queueVars, QueueInv
  <2>5. ASSUME NEW g \in Groups, NEW i \in DOMAIN runs[g], BeginRun(g, i) PROVE QueueInv'
    BY <1>2, <2>5, BeginRunKeeps
  <2>6. ASSUME NEW g \in Groups, NEW i \in DOMAIN runs[g], RunEnds(g, i) PROVE QueueInv'
    BY <1>2, <2>6, RunEndsKeeps
  <2>7. ASSUME NEW g \in Groups, RetryFires(g) PROVE QueueInv'
    BY <1>2, <2>7, CheckMessagesKeeps DEF RetryFires
  <2>8. ASSUME Shutdown PROVE QueueInv'
    BY <1>2, <2>8, ShutdownKeeps
  <2>9. QueueInv'
    BY <1>4, <2>1, <2>2, <2>3, <2>4, <2>5, <2>6, <2>7, <2>8 DEF Next
  <2>10. QED
    BY <1>1, <1>4, <2>9, OthersKeep DEF IInv
<1>5. QED
  BY <1>1, <1>3, <1>4

-----------------------------------------------------------------------------
(* Who looks at the messages of a group: for a module that knows what the  *)
(* runs do.                                                                *)

(* Somebody will: a waiting place, a sleeping retry, a run that has yet to *)
(* begin, or one that drains when it ends.                                 *)
Held(g) ==
  \/ Waits(g) \/ timers[g] > 0
  \/ \E i \in DOMAIN runs[g] : runs[g][i].phase = "created"
  \/ Live(g) /\ groups[g].pendingMessages

InRun(g) == \E i \in DOMAIN runs[g] : Begun(runs[g][i])

(* A run that is appended is a created one, and those before it stay.      *)
LEMMA AppendedRun ==
  ASSUME NEW r \in Seq(Run), NEW t
  PROVE  LET q == Append(r, NewRun(t))
         IN  /\ \E i \in DOMAIN q : q[i].phase = "created"
             /\ \A i \in DOMAIN r : i \in DOMAIN q /\ q[i] = r[i]
<1> DEFINE q == Append(r, NewRun(t))
<1>1. /\ Len(q) = Len(r) + 1 /\ DOMAIN q = 1 .. Len(r) + 1 /\ q[Len(r) + 1] = NewRun(t)
      /\ Len(r) \in Nat /\ DOMAIN r = 1 .. Len(r)
      /\ \A i \in 1 .. Len(r) : q[i] = r[i]
  OBVIOUS
<1> HIDE DEF q
<1>2. NewRun(t).phase = "created" /\ Len(r) + 1 \in DOMAIN q
  BY <1>1 DEF NewRun
<1>3. QED
  BY <1>1, <1>2 DEF q

(* enqueue_message_check puts the group's messages into somebody's hands   *)
(* and takes no other group's out of them.                                 *)
LEMMA CheckHolds ==
  ASSUME QueueInv, NEW g \in Groups, CheckMessages(g), ~shuttingDown,
         \A h \in Groups \ {g} : timers'[h] = timers[h]
  PROVE  /\ Held(g)'
         /\ \A h \in Groups \ {g} : Held(h) => Held(h)'
         /\ \A h \in Groups : InRun(h) => InRun(h)'
<1>1. /\ groups \in [Groups -> GroupState] /\ runs \in [Groups -> Seq(Run)]
      /\ waitingGroups \in Seq(Groups) /\ AwakeOK(groups[g], runs[g])
  BY DEF QueueInv, GroupsOK, AllAwake
<1>2. activeCount \in Nat /\ MaxConcurrent \in Nat
  BY CountSame, GroupQueueAssumption DEF QueueInv, GroupsOK
<1>3. CASE groups[g].active
  <2>1. /\ groups' = [groups EXCEPT ![g].pendingMessages = TRUE]
        /\ UNCHANGED <<activeCount, waitingGroups, runs>>
    BY <1>3 DEF CheckMessages
  <2>2. groups'[g].pendingMessages = TRUE /\ \A h \in Groups \ {g} : groups'[h] = groups[h]
    BY <1>1, <2>1 DEF GroupState
  <2>3. runs[g] # <<>>
    BY <1>1, <1>3 DEF AwakeOK
  <2>4. QED
    BY <2>1, <2>2, <2>3 DEF Held, InRun, Waits, Live
<1>4. CASE ~groups[g].active /\ activeCount >= MaxConcurrent
  <2>1. Park(g, [groups[g] EXCEPT !.pendingMessages = TRUE])
    BY <1>2, <1>4 DEF CheckMessages
  <2>2. /\ waitingGroups' = IF Waits(g) THEN waitingGroups ELSE Append(waitingGroups, g)
        /\ runs' = runs /\ \A h \in Groups \ {g} : groups'[h] = groups[h]
    BY <1>1, <2>1 DEF Park
  <2>3. Waits(g)' /\ \A h \in Groups : Waits(h) => Waits(h)'
    <3>1. CASE Waits(g)
      BY <2>2, <3>1 DEF Waits
    <3>2. CASE ~Waits(g)
      <4> DEFINE w == waitingGroups
                 v == Append(w, g)
      <4>1. /\ Len(w) + 1 \in DOMAIN v /\ v[Len(w) + 1] = g
            /\ \A k \in DOMAIN w : k \in DOMAIN v /\ v[k] = w[k]
        BY <1>1
      <4>2. w' = v
        BY <2>2, <3>2
      <4> HIDE DEF v
      <4>3. QED
        BY <4>1, <4>2 DEF Waits
    <3>3. QED
      BY <3>1, <3>2
  <2>4. QED
    BY <2>2, <2>3 DEF Held, InRun, Live
<1>5. CASE ~groups[g].active /\ activeCount < MaxConcurrent
  <2>1. StartOne(g, StartedMessages(groups[g]), NoTask)
    BY <1>2, <1>5 DEF CheckMessages
  <2>2. /\ runs'[g] = Append(runs[g], NewRun(NoTask)) /\ waitingGroups' = waitingGroups
        /\ \A h \in Groups \ {g} : groups'[h] = groups[h] /\ runs'[h] = runs[h]
    BY <1>1, <2>1 DEF StartOne
  <2>3. /\ \E i \in DOMAIN runs'[g] : runs'[g][i].phase = "created"
        /\ \A i \in DOMAIN runs[g] : i \in DOMAIN runs'[g] /\ runs'[g][i] = runs[g][i]
    <3> DEFINE q == runs[g]
    <3>1. q \in Seq(Run) /\ runs'[g] = Append(q, NewRun(NoTask))
      BY <1>1, <2>2
    <3> HIDE DEF q
    <3>2. /\ \E i \in DOMAIN runs'[g] : runs'[g][i].phase = "created"
          /\ \A i \in DOMAIN q : i \in DOMAIN runs'[g] /\ runs'[g][i] = q[i]
      BY <3>1, AppendedRun
    <3>3. QED
      BY <3>2 DEF q
  <2>4. QED
    BY <2>2, <2>3 DEF Held, InRun, Waits, Live
<1>6. QED
  BY <1>2, <1>3, <1>4, <1>5

(* The end of a run serves what is pending in its group, and whoever is    *)
(* popped from the line starts.                                            *)
LEMMA EndHolds ==
  ASSUME QueueInv, NEW g \in Groups, NEW i \in DOMAIN runs[g],
         NEW u \in GroupState, ~u.active, u.runningTask = NoTask,
         u.pendingTasks = groups[g].pendingTasks,
         u.pendingMessages = groups[g].pendingMessages,
         EndRun(g, i, u), ~shuttingDown
  PROVE  /\ groups[g].pendingMessages => Held(g)'
         /\ \A h \in Groups \ {g} : timers'[h] = timers[h] /\ Held(h) => Held(h)'
         /\ \A h \in Groups \ {g} : InRun(h) => InRun(h)'
<1> DEFINE gs == [groups EXCEPT ![g] = u]
           rs == WithoutRun(g, i)
           n == activeCount - 1
           w == waitingGroups
<1>1. Freed(g, gs, rs, n) /\ DrainGroup(g, gs, n, rs)
  BY EndFrees DEF EndRun
<1>2. /\ gs[g] = u /\ \A h \in Groups \ {g} : gs[h] = groups[h] /\ rs[h] = runs[h]
  BY DEF QueueInv, GroupsOK, WithoutRun
<1> HIDE DEF gs, rs, n
<1>3. /\ gs \in [Groups -> GroupState] /\ rs \in [Groups -> Seq(Run)] /\ n \in Nat
      /\ w \in Seq(Groups)
  BY <1>1 DEF Freed, GroupsOK
<1>4. CASE HasPending(gs[g])
  <2>1. Launch({g}, gs, n, rs) /\ w' = w
    BY <1>1, <1>4 DEF DrainGroup
  <2>2. /\ runs'[g] = Append(rs[g], NewRun(NextTask(gs[g])))
        /\ \A h \in Groups \ {g} : groups'[h] = gs[h] /\ runs'[h] = rs[h]
    BY <1>3, <2>1, LaunchOneAt
  <2>3. rs[g] \in Seq(Run)
    BY <1>3
  <2>4. \E k \in DOMAIN runs'[g] : runs'[g][k].phase = "created"
    BY <2>2, <2>3, AppendedRun
  <2>5. QED
    BY <1>2, <2>1, <2>2, <2>4 DEF Held, InRun, Waits, Live
<1>5. CASE ~HasPending(gs[g])
  <2>1. ~groups[g].pendingMessages
    BY <1>2, <1>5 DEF HasPending
  <2>2. DrainWaiting(gs, n, rs)
    BY <1>1, <1>5 DEF DrainGroup
  <2>3. CASE w = <<>> /\ w' = <<>> /\ Launch({}, gs, n, rs)
    <3>1. \A h \in Groups \ {g} : groups'[h] = groups[h] /\ runs'[h] = runs[h]
      BY <1>2, <1>3, <2>3, LaunchNobody
    <3>2. \A h \in Groups : ~Waits(h)
      BY <2>3 DEF Waits
    <3>3. QED
      BY <2>1, <3>1, <3>2 DEF Held, InRun, Live
  <2>4. CASE w # <<>> /\ w' = Tail(w) /\ Launch({Head(w)}, gs, n, rs)
    <3> DEFINE first == Head(w)
    <3>1. /\ first \in Groups /\ first = w[1] /\ 1 \in DOMAIN w
          /\ Len(w) \in Nat /\ DOMAIN w = 1 .. Len(w)
          /\ DOMAIN w' = 1 .. Len(w) - 1
          /\ \A k \in 1 .. Len(w) - 1 : w'[k] = w[k + 1]
      BY <1>3, <2>4
    <3>2. first \in Groups /\ Launch({first}, gs, n, rs)
      BY <2>4, <3>1
    <3> HIDE DEF first
    <3>3. gs \in [Groups -> GroupState] /\ rs \in [Groups -> Seq(Run)] /\ n \in Nat
      BY <1>3
    <3>4. /\ runs'[first] = Append(rs[first], NewRun(NextTask(gs[first])))
          /\ \A h \in Groups \ {first} : groups'[h] = gs[h] /\ runs'[h] = rs[h]
      BY <3>2, <3>3, LaunchOneAt
    <3> DEFINE q == rs[first]
    <3>5. q \in Seq(Run)
      BY <1>3, <3>1
    <3> HIDE DEF q
    <3>6. runs'[first] = Append(q, NewRun(NextTask(gs[first])))
      BY <3>4 DEF q
    <3>7. /\ \E k \in DOMAIN runs'[first] : runs'[first][k].phase = "created"
          /\ \A k \in DOMAIN q : k \in DOMAIN runs'[first] /\ runs'[first][k] = q[k]
      BY <3>5, <3>6, AppendedRun
    <3>8. /\ \E k \in DOMAIN runs'[first] : runs'[first][k].phase = "created"
          /\ \A k \in DOMAIN rs[first] : k \in DOMAIN runs'[first] /\ runs'[first][k] = rs[first][k]
      BY <3>7 DEF q
    <3>9. ASSUME NEW h \in Groups, Waits(h), h # first PROVE Waits(h)'
      <4>1. PICK k \in DOMAIN w : w[k] = h
        BY <3>9 DEF Waits
      <4>2. k - 1 \in DOMAIN w' /\ w'[k - 1] = h
        BY <3>1, <3>9, <4>1
      <4>3. QED
        BY <4>2 DEF Waits
    <3>10. ASSUME NEW h \in Groups \ {g}, timers'[h] = timers[h], Held(h) PROVE Held(h)'
      <4>1. CASE h = first
        BY <3>8, <4>1 DEF Held
      <4>2. CASE h # first
        BY <1>2, <3>4, <3>9, <3>10, <4>2 DEF Held, Live
      <4>3. QED
        BY <4>1, <4>2
    <3>11. ASSUME NEW h \in Groups \ {g}, InRun(h) PROVE InRun(h)'
      <4>1. CASE h = first
        BY <1>2, <3>8, <3>11, <4>1 DEF InRun
      <4>2. CASE h # first
        BY <1>2, <3>4, <3>11, <4>2 DEF InRun
      <4>3. QED
        BY <4>1, <4>2
    <3>12. QED
      BY <2>1, <3>10, <3>11
  <2>5. QED
    BY <1>1, <2>2, <2>3, <2>4, DrainWaitingTakesFirst
<1>6. QED
  BY <1>4, <1>5

(* A live run means no place in the line, and it is the only run.          *)
LEMMA BusyGroup ==
  ASSUME QueueInv, ~shuttingDown, NEW g \in Groups, NEW i \in DOMAIN runs[g]
  PROVE  /\ ~Waits(g) /\ Live(g)
         /\ runs[g][i].phase \in {"created", "running"}
         /\ (\E k \in DOMAIN runs[g] : runs[g][k].phase = "created") => runs[g][i].phase = "created"
         /\ InRun(g) <=> runs[g][i].phase = "running"
<1>1. /\ groups[g].active = TRUE /\ i = 1 /\ runs[g] # <<>>
      /\ \A k \in DOMAIN runs[g] : k = 1
  BY LiveRun
<1>2. ~Waits(g)
  BY <1>1 DEF QueueInv, LineOK, Waits
<1>3. runs[g][i].phase \in {"created", "running"}
  BY DEF QueueInv, AllAwake, AwakeOK
<1>4. QED
  BY <1>1, <1>2, <1>3 DEF InRun, Begun, Live

(* A run that begins is in hand, and nobody else is concerned.             *)
LEMMA BeginHolds ==
  ASSUME QueueInv, NEW g \in Groups, NEW i \in DOMAIN runs[g], BeginRun(g, i)
  PROVE  /\ InRun(g)'
         /\ \A h \in Groups \ {g} : (Held(h) => Held(h)') /\ (InRun(h) => InRun(h)')
<1>1. /\ runs \in [Groups -> Seq(Run)] /\ i = 1
      /\ runs' = [runs EXCEPT ![g][i].phase = "running"]
      /\ UNCHANGED <<groups, waitingGroups, timers>>
  BY LiveRun DEF BeginRun
<1>2. i \in DOMAIN runs'[g] /\ runs'[g][i].phase = "running"
  <2> DEFINE q == runs[g]
             r == q[i]
  <2>1. r \in Run /\ q \in Seq(Run)
    BY <1>1
  <2>2. runs'[g] = [q EXCEPT ![i] = [r EXCEPT !.phase = "running"]]
    BY <1>1
  <2> HIDE DEF r
  <2>3. [r EXCEPT !.phase = "running"].phase = "running"
    BY <2>1 DEF Run
  <2>4. QED
    BY <2>2, <2>3
<1>3. \A h \in Groups \ {g} : runs'[h] = runs[h]
  BY <1>1
<1>4. QED
  BY <1>1, <1>2, <1>3 DEF Held, InRun, Begun, Waits, Live

(* However a run ends, until shutdown: it is neither cancelled nor         *)
(* stillborn, and what EndHolds says is true.                              *)
LEMMA RunEndHolds ==
  ASSUME QueueInv, NEW g \in Groups, NEW i \in DOMAIN runs[g], RunEnds(g, i), ~shuttingDown
  PROVE  /\ ~RunNeverBegins(g, i) /\ ~MessagesCancelled(g, i)
         /\ groups[g].pendingMessages => Held(g)'
         /\ \A h \in Groups \ {g} : timers'[h] = timers[h] /\ Held(h) => Held(h)'
         /\ \A h \in Groups \ {g} : InRun(h) => InRun(h)'
<1>1. ~RunNeverBegins(g, i) /\ ~MessagesCancelled(g, i)
  BY BusyGroup DEF RunNeverBegins, MessagesCancelled
<1>2. PICK u \in GroupState :
        /\ ~u.active /\ u.runningTask = NoTask
        /\ u.pendingTasks = groups[g].pendingTasks
        /\ u.pendingMessages = groups[g].pendingMessages
        /\ EndRun(g, i, u)
  BY <1>1, RunEndsInEndRun
<1>3. QED
  BY <1>1, <1>2, EndHolds

-----------------------------------------------------------------------------
(* Where a task is, for those who build on the dispatcher: nothing but     *)
(* enqueue_task brings one in, and it begins at most once.                 *)

AtHand(g, t) ==
  Pends(groups[g], t) \/ \E i \in DOMAIN runs[g] : runs[g][i].task = t

ToBegin(g, t) ==
  \/ Pends(groups[g], t)
  \/ \E i \in DOMAIN runs[g] : runs[g][i].task = t /\ runs[g][i].phase = "created"

NoneComes ==
  \A g \in Groups, t \in Tasks :
    (AtHand(g, t)' => AtHand(g, t)) /\ (ToBegin(g, t)' => ToBegin(g, t))

(* A start takes its task from the queue.                                  *)
LEMMA StartTakes ==
  ASSUME NEW s \in GroupState, NEW r \in Seq(Run), NEW t \in Tasks
  PROVE  LET q == Append(r, NewRun(NextTask(s)))
         IN  /\ Pends(StartedNext(s), t) => Pends(s, t)
             /\ \A k \in DOMAIN q : q[k].task = t =>
                  Pends(s, t) \/ \E l \in DOMAIN r : r[l] = q[k]
<1> DEFINE p == s.pendingTasks
           q == Append(r, NewRun(NextTask(s)))
<1>1. p \in Seq(Tasks)
  BY DEF GroupState
<1>2. Pends(StartedNext(s), t) => Pends(s, t)
  <2>1. CASE p = <<>>
    <3>1. StartedNext(s).pendingTasks = p
      BY <2>1 DEF StartedNext, StartedMessages, GroupState
    <3>2. QED
      BY <3>1 DEF Pends
  <2>2. CASE p # <<>>
    <3> DEFINE v == [s EXCEPT !.pendingTasks = Tail(p)]
    <3>1. v.pendingTasks = Tail(p) /\ v \in GroupState
      BY <1>1, <2>2 DEF GroupState
    <3>2. StartedNext(s) = StartedTask(v, Head(p))
      BY <2>2 DEF StartedNext
    <3> HIDE DEF v
    <3>3. StartedNext(s).pendingTasks = Tail(p)
      BY <3>1, <3>2 DEF StartedTask, GroupState
    <3>4. \A k \in DOMAIN Tail(p) : k + 1 \in DOMAIN p /\ Tail(p)[k] = p[k + 1]
      BY <1>1, <2>2
    <3>5. QED
      BY <3>3, <3>4 DEF Pends
  <2>3. QED
    BY <2>1, <2>2
<1>3. ASSUME NEW k \in DOMAIN q, q[k].task = t
      PROVE  Pends(s, t) \/ \E l \in DOMAIN r : r[l] = q[k]
  <2>1. \/ k \in DOMAIN r /\ q[k] = r[k]
        \/ q[k] = NewRun(NextTask(s))
    OBVIOUS
  <2>2. CASE q[k] = NewRun(NextTask(s))
    <3>1. NextTask(s) = t
      BY <1>3, <2>2 DEF NewRun
    <3>2. p # <<>> /\ t = p[1] /\ 1 \in DOMAIN p
      BY <1>1, <3>1, GroupQueueAssumption DEF NextTask
    <3>3. QED
      BY <3>2 DEF Pends
  <2>3. QED
    BY <2>1, <2>2
<1>4. QED
  BY <1>2, <1>3

(* The end of a run brings in no task, and its own is gone.                *)
LEMMA EndTakes ==
  ASSUME QueueInv, NEW g \in Groups, NEW i \in DOMAIN runs[g],
         NEW u \in GroupState, ~u.active, u.runningTask = NoTask,
         u.pendingTasks = groups[g].pendingTasks,
         u.pendingMessages = groups[g].pendingMessages,
         EndRun(g, i, u)
  PROVE  NoneComes /\ \A t \in Tasks : t = runs[g][i].task => ~AtHand(g, t)'
<1> DEFINE gs == [groups EXCEPT ![g] = u]
           rs == WithoutRun(g, i)
           n == activeCount - 1
<1>1. /\ gs \in [Groups -> GroupState] /\ rs \in [Groups -> Seq(Run)]
      /\ rs[g] = <<>>
      /\ groups \in [Groups -> GroupState] /\ runs \in [Groups -> Seq(Run)]
  BY OneEnds DEF GroupsOK, QueueInv
<1>2. /\ \A h \in Groups : \A t : Pends(gs[h], t) <=> Pends(groups[h], t)
      /\ \A h \in Groups \ {g} : rs[h] = runs[h]
  BY <1>1 DEF Pends, WithoutRun
<1>3. PICK S : Launch(S, gs, n, rs)
  BY DEF EndRun, DrainGroup, DrainWaiting
<1> HIDE DEF gs, rs, n
<1>4. ASSUME NEW h \in Groups, NEW t \in Tasks
      PROVE  /\ Pends(groups'[h], t) => Pends(groups[h], t)
             /\ \A k \in DOMAIN runs'[h] : runs'[h][k].task = t =>
                  Pends(groups[h], t) \/ \E l \in DOMAIN rs[h] : rs[h][l] = runs'[h][k]
  <2>1. CASE h \in S
    <3>1. gs[h] \in GroupState /\ rs[h] \in Seq(Run)
      BY <1>1
    <3> DEFINE s == gs[h]
               r == rs[h]
    <3>2. groups'[h] = StartedNext(s) /\ runs'[h] = Append(r, NewRun(NextTask(s)))
      BY <1>3, <2>1 DEF Launch
    <3>3. s \in GroupState /\ r \in Seq(Run)
      BY <3>1
    <3> HIDE DEF s, r
    <3>4. /\ Pends(groups'[h], t) => Pends(s, t)
          /\ \A k \in DOMAIN runs'[h] : runs'[h][k].task = t =>
               Pends(s, t) \/ \E l \in DOMAIN r : r[l] = runs'[h][k]
      BY <3>2, <3>3, StartTakes
    <3>5. QED
      BY <1>2, <3>4 DEF s, r
  <2>2. CASE h \notin S
    BY <1>2, <1>3, <2>2 DEF Launch
  <2>3. QED
    BY <2>1, <2>2
<1>5. NoneComes
  <2> SUFFICES ASSUME NEW h \in Groups, NEW t \in Tasks
               PROVE  (AtHand(h, t)' => AtHand(h, t)) /\ (ToBegin(h, t)' => ToBegin(h, t))
    BY DEF NoneComes
  <2>1. CASE h = g
    BY <1>1, <1>4, <2>1 DEF AtHand, ToBegin
  <2>2. CASE h # g
    BY <1>2, <1>4, <2>2 DEF AtHand, ToBegin
  <2>3. QED
    BY <2>1, <2>2
<1>6. ASSUME NEW t \in Tasks, t = runs[g][i].task PROVE ~AtHand(g, t)'
  <2>1. ~Pends(groups[g], t)
    BY <1>6, LiveRun DEF GroupOK
  <2>2. QED
    BY <1>1, <1>4, <2>1 DEF AtHand
<1>7. QED
  BY <1>5, <1>6

(* Every way a run can end.                                                *)
LEMMA RunEndTakes ==
  ASSUME QueueInv, NEW g \in Groups, NEW i \in DOMAIN runs[g], RunEnds(g, i)
  PROVE  NoneComes /\ \A t \in Tasks : t = runs[g][i].task => ~AtHand(g, t)'
<1>1. CASE ~RunNeverBegins(g, i)
  BY <1>1, RunEndsInEndRun, EndTakes
<1>2. CASE RunNeverBegins(g, i)
  <2>1. /\ groups \in [Groups -> GroupState] /\ runs \in [Groups -> Seq(Run)]
        /\ GroupOK(groups[g], runs[g]) /\ i = 1
        /\ groups[g].runningTask = runs[g][i].task
    BY LiveRun
  <2>2. Len(runs[g]) = 1
    <3> DEFINE n == Len(runs[g])
    <3>1. n \in Nat /\ n <= 1 /\ i \in 1 .. n
      BY <2>1 DEF GroupOK
    <3> HIDE DEF n
    <3>2. n = 1
      BY <2>1, <3>1
    <3>3. QED
      BY <3>2 DEF n
  <2>3. SubSeq(runs[g], 1, i - 1) \o SubSeq(runs[g], i + 1, Len(runs[g])) = <<>>
    BY <2>1, <2>2
  <2>4. groups' = groups /\ runs' = [runs EXCEPT ![g] = <<>>]
    BY <1>2, <2>3 DEF RunNeverBegins, WithoutRun
  <2>5. runs'[g] = <<>> /\ \A h \in Groups \ {g} : runs'[h] = runs[h]
    BY <2>1, <2>4
  <2>6. NoneComes
    BY <2>4, <2>5 DEF NoneComes, AtHand, ToBegin
  <2>7. ASSUME NEW t \in Tasks, t = runs[g][i].task PROVE ~AtHand(g, t)'
    BY <2>1, <2>4, <2>5, <2>7 DEF AtHand, GroupOK
  <2>8. QED
    BY <2>6, <2>7
<1>3. QED
  BY <1>1, <1>2

(* A run that begins has no other run of its task behind it.               *)
LEMMA BeginTakes ==
  ASSUME QueueInv, NEW g \in Groups, NEW i \in DOMAIN runs[g], BeginRun(g, i)
  PROVE  NoneComes /\ \A t \in Tasks : t = runs[g][i].task => ToBegin(g, t) /\ ~ToBegin(g, t)'
<1>1. /\ groups \in [Groups -> GroupState] /\ runs \in [Groups -> Seq(Run)]
      /\ GroupOK(groups[g], runs[g]) /\ groups[g].runningTask = runs[g][i].task
  BY LiveRun
<1>2. \A k \in DOMAIN runs[g] : k = i
  BY LiveRun
<1>3. groups' = groups /\ runs[g][i].phase = "created"
      /\ runs' = [runs EXCEPT ![g][i].phase = "running"]
  BY DEF BeginRun
<1>4. /\ DOMAIN runs'[g] = DOMAIN runs[g]
      /\ runs'[g][i].task = runs[g][i].task /\ runs'[g][i].phase = "running"
      /\ \A h \in Groups \ {g} : runs'[h] = runs[h]
  <2> DEFINE q == runs[g]
             r == q[i]
  <2>1. r \in Run /\ q \in Seq(Run)
    BY <1>1
  <2>2. /\ runs'[g] = [q EXCEPT ![i] = [r EXCEPT !.phase = "running"]]
        /\ \A h \in Groups \ {g} : runs'[h] = runs[h]
    BY <1>1, <1>3
  <2> HIDE DEF r
  <2>3. [r EXCEPT !.phase = "running"].phase = "running" /\ [r EXCEPT !.phase = "running"].task = r.task
    BY <2>1 DEF Run
  <2>4. /\ DOMAIN runs'[g] = DOMAIN q
        /\ runs'[g][i].task = r.task /\ runs'[g][i].phase = "running"
    BY <2>2, <2>3
  <2>5. QED
    BY <2>2, <2>4 DEF r
<1>5. \A t : Pends(groups[g], t)' <=> Pends(groups[g], t)
  BY <1>3 DEF Pends
<1>6. NoneComes
  <2> SUFFICES ASSUME NEW h \in Groups, NEW t \in Tasks
               PROVE  (AtHand(h, t)' => AtHand(h, t)) /\ (ToBegin(h, t)' => ToBegin(h, t))
    BY DEF NoneComes
  <2>1. CASE h = g
    BY <1>2, <1>3, <1>4, <2>1 DEF AtHand, ToBegin
  <2>2. CASE h # g
    BY <1>3, <1>4, <2>2 DEF AtHand, ToBegin
  <2>3. QED
    BY <2>1, <2>2
<1>7. ASSUME NEW t \in Tasks, t = runs[g][i].task PROVE ToBegin(g, t) /\ ~ToBegin(g, t)'
  <2>1. ~Pends(groups[g], t)
    BY <1>1, <1>7 DEF GroupOK
  <2>2. QED
    BY <1>2, <1>3, <1>4, <1>7, <2>1 DEF ToBegin
<1>8. QED
  BY <1>6, <1>7

(* A check of messages brings in no task.                                  *)
LEMMA CheckTakes ==
  ASSUME QueueInv, NEW g \in Groups, CheckMessages(g)
  PROVE  NoneComes
<1>1. groups \in [Groups -> GroupState] /\ runs \in [Groups -> Seq(Run)]
  BY DEF QueueInv, GroupsOK
<1>2. \A h \in Groups : groups'[h].pendingTasks = groups[h].pendingTasks
  <2> DEFINE s == groups[g]
             v == [s EXCEPT !.pendingMessages = TRUE]
  <2>1. s \in GroupState /\ groups[g] = s
    BY <1>1
  <2> HIDE DEF s
  <2>2. v.pendingTasks = s.pendingTasks /\ StartedMessages(s).pendingTasks = s.pendingTasks
    BY <2>1 DEF StartedMessages, GroupState
  <2>3. \/ groups' = groups
        \/ groups' = [groups EXCEPT ![g] = v]
        \/ groups' = [groups EXCEPT ![g] = StartedMessages(s)]
    BY <2>1 DEF CheckMessages, Park, StartOne, queueVars
  <2> HIDE DEF v
  <2>4. QED
    BY <1>1, <2>1, <2>2, <2>3
<1>3. ASSUME NEW h \in Groups
      PROVE  \/ runs'[h] = runs[h]
             \/ runs'[h] = Append(runs[h], NewRun(NoTask))
  BY <1>1 DEF CheckMessages, Park, StartOne, queueVars
<1>4. ASSUME NEW h \in Groups, NEW t \in Tasks, NEW k \in DOMAIN runs'[h], runs'[h][k].task = t
      PROVE  k \in DOMAIN runs[h] /\ runs'[h][k] = runs[h][k]
  <2> DEFINE r == runs[h]
  <2>1. r \in Seq(Run)
    BY <1>1
  <2>2. CASE runs'[h] = r
    BY <2>2
  <2>3. CASE runs'[h] = Append(r, NewRun(NoTask))
    <3> HIDE DEF r
    <3>1. \/ k \in DOMAIN r /\ runs'[h][k] = r[k]
          \/ runs'[h][k] = NewRun(NoTask)
      BY <2>1, <2>3
    <3>2. runs'[h][k] # NewRun(NoTask)
      BY <1>4, GroupQueueAssumption DEF NewRun
    <3>3. QED
      BY <3>1, <3>2 DEF r
  <2>4. QED
    BY <1>3, <2>2, <2>3
<1>5. QED
  BY <1>2, <1>4 DEF NoneComes, AtHand, ToBegin, Pends

(* enqueue_task brings in the one it accepts.                              *)
LEMMA TaskTakes ==
  ASSUME QueueInv, NEW g \in Groups, NEW t \in Tasks, EnqueueTask(g, t)
  PROVE  \A h \in Groups, u \in Tasks :
           \/ /\ AtHand(h, u)' => AtHand(h, u)
              /\ ToBegin(h, u)' => ToBegin(h, u)
           \/ /\ h = g /\ u = t
              /\ ~shuttingDown /\ groups[g].runningTask # t /\ ~Pends(groups[g], t)
<1>1. groups \in [Groups -> GroupState] /\ runs \in [Groups -> Seq(Run)]
  BY DEF QueueInv, GroupsOK
<1>2. CASE UNCHANGED <<groups, runs>>
  BY <1>2 DEF AtHand, ToBegin
<1>3. CASE /\ ~shuttingDown /\ groups[g].runningTask # t /\ ~Pends(groups[g], t)
           /\ UNCHANGED runs
           /\ groups' = [groups EXCEPT ![g] = QueuedTask(groups[g], t)]
  <2>1. ASSUME NEW u, Pends(groups'[g], u), u # t PROVE Pends(groups[g], u)
    <3>1. groups'[g].pendingTasks = Append(groups[g].pendingTasks, t)
          /\ groups[g].pendingTasks \in Seq(Tasks)
      BY <1>1, <1>3 DEF QueuedTask, GroupState
    <3>2. QED
      BY <2>1, <3>1 DEF Pends
  <2>2. \A h \in Groups \ {g} : groups'[h] = groups[h]
    BY <1>1, <1>3
  <2>3. QED
    BY <1>3, <2>1, <2>2 DEF AtHand, ToBegin
<1>4. CASE /\ ~shuttingDown /\ groups[g].runningTask # t /\ ~Pends(groups[g], t)
           /\ StartOne(g, StartedTask(groups[g], t), t)
  <2>1. /\ runs'[g] = Append(runs[g], NewRun(t))
        /\ groups'[g].pendingTasks = groups[g].pendingTasks
        /\ \A h \in Groups \ {g} : groups'[h] = groups[h] /\ runs'[h] = runs[h]
    BY <1>1, <1>4 DEF StartOne, StartedTask, GroupState
  <2>2. ASSUME NEW u, u # t, NEW k \in DOMAIN runs'[g], runs'[g][k].task = u
        PROVE  k \in DOMAIN runs[g] /\ runs'[g][k] = runs[g][k]
    <3> DEFINE r == runs[g]
    <3>1. r \in Seq(Run) /\ runs'[g] = Append(r, NewRun(t))
      BY <1>1, <2>1
    <3> HIDE DEF r
    <3>2. \/ k \in DOMAIN r /\ runs'[g][k] = r[k]
          \/ runs'[g][k] = NewRun(t)
      BY <2>2, <3>1
    <3>3. runs'[g][k] # NewRun(t)
      BY <2>2 DEF NewRun
    <3>4. QED
      BY <3>2, <3>3 DEF r
  <2>3. ASSUME NEW h \in Groups, NEW u \in Tasks, ~(h = g /\ u = t)
        PROVE  (AtHand(h, u)' => AtHand(h, u)) /\ (ToBegin(h, u)' => ToBegin(h, u))
    <3>1. CASE h # g
      BY <2>1, <3>1 DEF AtHand, ToBegin
    <3>2. CASE h = g /\ u # t
      BY <2>1, <2>2, <3>2 DEF AtHand, ToBegin, Pends
    <3>3. QED
      BY <2>3, <3>1, <3>2
  <2>4. QED
    BY <1>4, <2>3
<1>5. QED
  BY <1>2, <1>3, <1>4 DEF EnqueueTask, Park, queueVars

(* A shutdown brings in none.                                              *)
LEMMA ShutdownTakes ==
  ASSUME QueueInv, Shutdown
  PROVE  NoneComes
<1>1. \A g \in Groups : /\ groups'[g] = groups[g]
                        /\ runs'[g] = [i \in DOMAIN runs[g] |-> Cancelled(runs[g][i])]
  BY DEF Shutdown
<1>2. ASSUME NEW r \in Run
      PROVE  Cancelled(r).task = r.task /\ Cancelled(r).phase # "created"
  BY DEF Cancelled, Run
<1>3. \A g \in Groups : \A i \in DOMAIN runs[g] : runs[g][i] \in Run
  BY DEF QueueInv, GroupsOK
<1>4. ASSUME NEW g \in Groups
      PROVE  /\ DOMAIN runs'[g] = DOMAIN runs[g]
             /\ \A i \in DOMAIN runs[g] : /\ runs'[g][i].task = runs[g][i].task
                                         /\ runs'[g][i].phase # "created"
  <2>1. ASSUME NEW i \in DOMAIN runs[g]
        PROVE  runs'[g][i].task = runs[g][i].task /\ runs'[g][i].phase # "created"
    <3>1. runs[g][i] \in Run /\ runs'[g][i] = Cancelled(runs[g][i])
      BY <1>1, <1>3
    <3>2. QED
      BY <1>2, <3>1
  <2>2. QED
    BY <1>1, <2>1
<1>5. QED
  BY <1>1, <1>4 DEF NoneComes, AtHand, ToBegin

-----------------------------------------------------------------------------
(* What becomes of a group's run and of its pending messages, for those    *)
(* who build on the dispatcher.                                            *)

NoMessageComes(h) == groups'[h].pendingMessages => groups[h].pendingMessages
SameRun(h) == runs'[h] = runs[h] /\ groups'[h].idleWaiting = groups[h].idleWaiting
Stays(h) == SameRun(h) /\ NoMessageComes(h)
Rests(h) ==
  /\ runs'[h] = <<>> /\ NoMessageComes(h)
  /\ groups'[h].idleWaiting => groups[h].idleWaiting
Starts(h, t) ==
  /\ ~shuttingDown
  /\ runs'[h] = Append(<<>>, NewRun(t)) /\ ~groups'[h].idleWaiting /\ NoMessageComes(h)

(* A start clears the flag of the idle, and adds no message.               *)
LEMMA StartMoves ==
  ASSUME NEW s \in GroupState, HasPending(s)
  PROVE  /\ NextTask(s) \in Tasks \cup {NoTask}
         /\ NextTask(s) = NoTask => s.pendingMessages
         /\ ~StartedNext(s).idleWaiting
         /\ StartedNext(s).pendingMessages => s.pendingMessages
<1> DEFINE p == s.pendingTasks
<1>1. p \in Seq(Tasks) /\ s.pendingMessages \in BOOLEAN
  BY DEF GroupState
<1>2. CASE p = <<>>
  <2>1. NextTask(s) = NoTask /\ StartedNext(s) = StartedMessages(s) /\ s.pendingMessages
    BY <1>2 DEF NextTask, StartedNext, HasPending
  <2>2. ~StartedMessages(s).idleWaiting /\ ~StartedMessages(s).pendingMessages
    BY DEF StartedMessages, GroupState
  <2>3. QED
    BY <2>1, <2>2
<1>3. CASE p # <<>>
  <2> DEFINE v == [s EXCEPT !.pendingTasks = Tail(p)]
  <2>1. Head(p) \in Tasks /\ Tail(p) \in Seq(Tasks)
    BY <1>1, <1>3
  <2>2. v \in GroupState /\ v.pendingMessages = s.pendingMessages
    BY <2>1 DEF GroupState
  <2>3. NextTask(s) = Head(p) /\ StartedNext(s) = StartedTask(v, Head(p))
    BY <1>3 DEF NextTask, StartedNext
  <2> HIDE DEF v
  <2>4. /\ ~StartedTask(v, Head(p)).idleWaiting
        /\ StartedTask(v, Head(p)).pendingMessages = v.pendingMessages
    BY <2>2 DEF StartedTask, GroupState
  <2>5. NextTask(s) # NoTask
    BY <2>1, <2>3, GroupQueueAssumption
  <2>6. QED
    BY <2>1, <2>2, <2>3, <2>4, <2>5
<1>4. QED
  BY <1>2, <1>3

(* A run is its group's only one, and leaves nothing behind.               *)
LEMMA OnlyRun ==
  ASSUME QueueInv, NEW g \in Groups, NEW i \in DOMAIN runs[g]
  PROVE  /\ runs \in [Groups -> Seq(Run)] /\ runs[g] \in Seq(Run)
         /\ i = 1 /\ Len(runs[g]) = 1 /\ runs[g][1] \in Run
         /\ WithoutRun(g, i)[g] = <<>>
         /\ \A h \in Groups \ {g} : WithoutRun(g, i)[h] = runs[h]
<1>1. /\ runs \in [Groups -> Seq(Run)] /\ GroupOK(groups[g], runs[g])
      /\ i = 1 /\ runs[g] # <<>>
  BY LiveRun
<1> DEFINE n == Len(runs[g])
<1>2. n \in Nat /\ n <= 1 /\ i \in 1 .. n /\ runs[g] \in Seq(Run)
  BY <1>1 DEF GroupOK
<1> HIDE DEF n
<1>3. n = 1
  BY <1>1, <1>2
<1>4. Len(runs[g]) = 1
  BY <1>3 DEF n
<1>5. runs[g][1] \in Run
  BY <1>2, <1>4
<1>6. SubSeq(runs[g], 1, i - 1) \o SubSeq(runs[g], i + 1, Len(runs[g])) = <<>>
  BY <1>1, <1>2, <1>4
<1>7. WithoutRun(g, i)[g] = <<>> /\ \A h \in Groups \ {g} : WithoutRun(g, i)[h] = runs[h]
  BY <1>1, <1>6 DEF WithoutRun
<1>8. QED
  BY <1>1, <1>2, <1>4, <1>5, <1>7

(* A run that ends: others stay, or begin when they were waiting.          *)
LEMMA EndMoves ==
  ASSUME QueueInv, NEW g \in Groups, NEW i \in DOMAIN runs[g], RunEnds(g, i)
  PROVE  \A h \in Groups :
           \/ h # g /\ Stays(h)
           \/ h = g /\ Rests(h)
           \/ /\ h = g \/ runs[h] = <<>>
              /\ \E t \in Tasks \cup {NoTask} :
                   Starts(h, t) /\ (t = NoTask => groups[h].pendingMessages)
<1>0. /\ groups \in [Groups -> GroupState] /\ runs \in [Groups -> Seq(Run)]
      /\ \A h \in Groups : GroupOK(groups[h], runs[h])
  BY DEF QueueInv, GroupsOK
<1>1. CASE ~RunNeverBegins(g, i)
  <2>1. PICK u \in GroupState :
          /\ ~u.active /\ u.runningTask = NoTask
          /\ u.pendingTasks = groups[g].pendingTasks
          /\ u.pendingMessages = groups[g].pendingMessages
          /\ u.idleWaiting => groups[g].idleWaiting
          /\ EndRun(g, i, u)
    BY <1>1, RunEndsInEndRun
  <2> DEFINE gs == [groups EXCEPT ![g] = u]
             rs == WithoutRun(g, i)
             n == activeCount - 1
  <2>2. /\ gs \in [Groups -> GroupState] /\ rs[g] = <<>> /\ gs[g] = u
        /\ \A h \in Groups \ {g} : rs[h] = runs[h] /\ gs[h] = groups[h]
        /\ \A h \in Groups : gs[h].pendingMessages = groups[h].pendingMessages
        /\ u.idleWaiting => groups[g].idleWaiting
    <3>1. rs[g] = <<>>
      BY <2>1, OneEnds
    <3>2. QED
      BY <1>0, <2>1, <3>1 DEF WithoutRun
  <2>3. PICK S : /\ Launch(S, gs, n, rs)
                 /\ \A h \in S : ~shuttingDown /\ HasPending(gs[h]) /\ (h = g \/ runs[h] = <<>>)
    <3>1. CASE shuttingDown
      BY <2>1, <3>1 DEF EndRun, DrainGroup
    <3>2. CASE ~shuttingDown /\ HasPending(gs[g])
      BY <2>1, <3>2 DEF EndRun, DrainGroup
    <3>3. CASE ~shuttingDown /\ ~HasPending(gs[g])
      <4>1. DrainWaiting(gs, n, rs)
        BY <2>1, <3>3 DEF EndRun, DrainGroup
      <4>2. PICK k \in 0 .. Len(waitingGroups) :
              Launch({h \in {waitingGroups[j] : j \in 1 .. k} : HasPending(gs[h])}, gs, n, rs)
        BY <4>1 DEF DrainWaiting
      <4>3. ASSUME NEW j \in 1 .. k PROVE runs[waitingGroups[j]] = <<>>
        <5>1. waitingGroups \in Seq(Groups) /\ j \in DOMAIN waitingGroups
          BY DEF QueueInv
        <5>2. waitingGroups[j] \in Groups /\ ~groups[waitingGroups[j]].active
          BY <3>3, <5>1 DEF QueueInv, LineOK
        <5>3. QED
          BY <1>0, <5>2 DEF GroupOK
      <4>4. QED
        BY <3>3, <4>2, <4>3
    <3>4. QED
      BY <3>1, <3>2, <3>3
  <2> HIDE DEF gs, rs, n
  <2>4. ASSUME NEW h \in Groups, h \in S
        PROVE  \E t \in Tasks \cup {NoTask} :
                 Starts(h, t) /\ (t = NoTask => groups[h].pendingMessages)
    <3> DEFINE s == gs[h]
    <3>1. s \in GroupState /\ HasPending(s) /\ ~shuttingDown
      BY <2>2, <2>3, <2>4
    <3>2. groups'[h] = StartedNext(s) /\ runs'[h] = Append(<<>>, NewRun(NextTask(s)))
      BY <2>2, <2>3, <2>4 DEF Launch
    <3>3. s.pendingMessages = groups[h].pendingMessages
      BY <2>2
    <3> HIDE DEF s
    <3>4. /\ NextTask(s) \in Tasks \cup {NoTask}
          /\ NextTask(s) = NoTask => groups[h].pendingMessages
          /\ Starts(h, NextTask(s))
      BY <3>1, <3>2, <3>3, StartMoves DEF Starts, NoMessageComes
    <3>5. QED
      BY <3>4
  <2>5. ASSUME NEW h \in Groups, h \notin S
        PROVE  (h # g /\ Stays(h)) \/ (h = g /\ Rests(h))
    <3>1. groups'[h] = gs[h] /\ runs'[h] = rs[h]
      BY <2>3, <2>5 DEF Launch
    <3>2. QED
      BY <2>2, <3>1 DEF Stays, SameRun, Rests, NoMessageComes
  <2>6. QED
    BY <2>3, <2>4, <2>5
<1>2. CASE RunNeverBegins(g, i)
  <2>1. runs'[g] = <<>> /\ groups' = groups
    BY <1>2, OnlyRun DEF RunNeverBegins
  <2>2. \A h \in Groups \ {g} : runs'[h] = runs[h]
    BY <1>2, OnlyRun DEF RunNeverBegins
  <2>3. QED
    BY <2>1, <2>2 DEF Stays, SameRun, Rests, NoMessageComes
<1>3. QED
  BY <1>1, <1>2

(* A check of messages disturbs no run.                                    *)
LEMMA CheckMoves ==
  ASSUME QueueInv, NEW g \in Groups, CheckMessages(g)
  PROVE  \A h \in Groups :
           \/ Stays(h)
           \/ h = g /\ SameRun(h)
           \/ h = g /\ runs[h] = <<>> /\ Starts(h, NoTask)
<1>1. /\ groups \in [Groups -> GroupState] /\ runs \in [Groups -> Seq(Run)]
      /\ GroupOK(groups[g], runs[g])
  BY DEF QueueInv, GroupsOK
<1> DEFINE s == groups[g]
           v == [s EXCEPT !.pendingMessages = TRUE]
<1>2. s \in GroupState /\ v.idleWaiting = s.idleWaiting
  BY <1>1 DEF GroupState
<1>3. CASE UNCHANGED queueVars
  BY <1>3 DEF queueVars, Stays, SameRun, NoMessageComes
<1>4. CASE groups' = [groups EXCEPT ![g] = v] /\ UNCHANGED runs
  BY <1>1, <1>2, <1>4 DEF Stays, SameRun, NoMessageComes
<1>5. CASE ~shuttingDown /\ ~s.active /\ StartOne(g, StartedMessages(s), NoTask)
  <2>1. ~StartedMessages(s).idleWaiting /\ ~StartedMessages(s).pendingMessages
    BY <1>2 DEF StartedMessages, GroupState
  <2>2. runs[g] = <<>>
    BY <1>1, <1>5 DEF GroupOK
  <2>3. /\ groups'[g] = StartedMessages(s) /\ runs'[g] = Append(<<>>, NewRun(NoTask))
        /\ \A h \in Groups \ {g} : groups'[h] = groups[h] /\ runs'[h] = runs[h]
    BY <1>1, <1>5, <2>2 DEF StartOne
  <2>4. Starts(g, NoTask)
    BY <1>5, <2>1, <2>3 DEF Starts, NoMessageComes
  <2>5. QED
    BY <2>2, <2>3, <2>4 DEF Stays, SameRun, NoMessageComes
<1>6. QED
  BY <1>3, <1>4, <1>5 DEF CheckMessages, Park

(* Nor does a task that is enqueued, and it asks only an idle agent to     *)
(* close.                                                                  *)
LEMMA TaskMoves ==
  ASSUME QueueInv, closeFile \in [Groups -> BOOLEAN],
         NEW g \in Groups, NEW t \in Tasks, EnqueueTask(g, t)
  PROVE  /\ \A h \in Groups : Stays(h) \/ (h = g /\ runs[h] = <<>> /\ Starts(h, t))
         /\ \A h \in Groups : closeFile'[h] => closeFile[h] \/ groups[h].idleWaiting
<1>1. /\ groups \in [Groups -> GroupState] /\ runs \in [Groups -> Seq(Run)]
      /\ GroupOK(groups[g], runs[g])
  BY DEF QueueInv, GroupsOK
<1> DEFINE s == groups[g]
           v == QueuedTask(s, t)
<1>2. /\ s \in GroupState /\ v.idleWaiting = s.idleWaiting
      /\ v.pendingMessages = s.pendingMessages
  BY <1>1 DEF QueuedTask, GroupState
<1>3. CASE UNCHANGED <<queueVars, closeFile>>
  BY <1>3 DEF queueVars, Stays, SameRun, NoMessageComes
<1>4. CASE groups' = [groups EXCEPT ![g] = v] /\ UNCHANGED runs
           /\ closeFile' = IF s.idleWaiting /\ closeFile' # closeFile
                             THEN [closeFile EXCEPT ![g] = TRUE] ELSE closeFile
  BY <1>1, <1>2, <1>4 DEF Stays, SameRun, NoMessageComes
<1>5. CASE /\ ~shuttingDown /\ ~s.active /\ StartOne(g, StartedTask(s, t), t)
           /\ UNCHANGED closeFile
  <2>1. ~StartedTask(s, t).idleWaiting /\ StartedTask(s, t).pendingMessages = s.pendingMessages
    BY <1>2 DEF StartedTask, GroupState
  <2>2. runs[g] = <<>>
    BY <1>1, <1>5 DEF GroupOK
  <2>3. /\ groups'[g] = StartedTask(s, t) /\ runs'[g] = Append(<<>>, NewRun(t))
        /\ \A h \in Groups \ {g} : groups'[h] = groups[h] /\ runs'[h] = runs[h]
    BY <1>1, <1>5, <2>2 DEF StartOne
  <2>4. Starts(g, t)
    BY <1>5, <2>1, <2>3 DEF Starts, NoMessageComes
  <2>5. QED
    BY <1>5, <2>2, <2>3, <2>4 DEF Stays, SameRun, NoMessageComes
<1>6. QED
  BY <1>3, <1>4, <1>5 DEF EnqueueTask, Park, CloseStdin

(* A run begins where it stands.                                           *)
LEMMA BeginMoves ==
  ASSUME QueueInv, NEW g \in Groups, NEW i \in DOMAIN runs[g], BeginRun(g, i)
  PROVE  /\ groups' = groups /\ runs[g][i].phase = "created"
         /\ \A h \in Groups \ {g} : runs'[h] = runs[h]
         /\ runs'[g] = Append(<<>>, [task |-> runs[g][i].task, phase |-> "running"])
<1> DEFINE q == runs[g]
           x == q[1]
           r == [task |-> q[i].task, phase |-> "running"]
<1>1. /\ runs \in [Groups -> Seq(Run)] /\ q \in Seq(Run) /\ i = 1 /\ Len(q) = 1 /\ x \in Run
  BY OnlyRun
<1>2. /\ groups' = groups /\ q[i].phase = "created"
      /\ \A h \in Groups \ {g} : runs'[h] = runs[h]
      /\ runs'[g] = [q EXCEPT ![1] = [x EXCEPT !.phase = "running"]]
  BY <1>1 DEF BeginRun
<1>3. [x EXCEPT !.phase = "running"] = r
  BY <1>1 DEF Run
<1> HIDE DEF x, r, q
<1>4. [q EXCEPT ![1] = r] = Append(<<>>, r)
  BY <1>1
<1>5. QED
  BY <1>2, <1>3, <1>4 DEF q, r

(* A notice that the agent is idle.                                        *)
LEMMA IdleMoves ==
  ASSUME QueueInv, closeFile \in [Groups -> BOOLEAN], NEW g \in Groups, NotifyIdle(g)
  PROVE  /\ \E i \in DOMAIN runs[g] : Begun(runs[g][i])
         /\ runs' = runs
         /\ \A h \in Groups \ {g} : groups'[h] = groups[h] /\ closeFile'[h] = closeFile[h]
         /\ groups'[g].pendingMessages = groups[g].pendingMessages
<1>1. groups \in [Groups -> GroupState]
  BY DEF QueueInv, GroupsOK
<1>2. groups[g] \in GroupState
  BY <1>1
<1>3. groups'[g].pendingMessages = groups[g].pendingMessages
  BY <1>1, <1>2 DEF NotifyIdle, GroupState
<1>4. QED
  BY <1>1, <1>3 DEF NotifyIdle, CloseStdin

(* A shutdown keeps the runs, none of which can begin any more.            *)
LEMMA ShutdownMoves ==
  ASSUME QueueInv, Shutdown
  PROVE  /\ shuttingDown' /\ groups' = groups /\ closeFile' = closeFile
         /\ \A g \in Groups : /\ DOMAIN runs'[g] = DOMAIN runs[g]
                              /\ \A i \in DOMAIN runs[g] :
                                   /\ runs'[g][i].task = runs[g][i].task
                                   /\ runs'[g][i].phase # "created"
                                   /\ Begun(runs[g][i]) => Begun(runs'[g][i])
         /\ timers' = [g \in Groups |-> 0]
<1>1. ASSUME NEW r \in Run
      PROVE  /\ Cancelled(r).task = r.task /\ Cancelled(r).phase # "created"
             /\ Begun(r) => Begun(Cancelled(r))
  BY DEF Cancelled, Run, Begun
<1>2. \A g \in Groups : \A i \in DOMAIN runs[g] : runs[g][i] \in Run
  BY DEF QueueInv, GroupsOK
<1>3. \A g \in Groups : runs'[g] = [i \in DOMAIN runs[g] |-> Cancelled(runs[g][i])]
  BY DEF Shutdown
<1>4. ASSUME NEW g \in Groups, NEW i \in DOMAIN runs[g]
      PROVE  /\ runs'[g][i].task = runs[g][i].task /\ runs'[g][i].phase # "created"
             /\ Begun(runs[g][i]) => Begun(runs'[g][i])
  <2>1. runs[g][i] \in Run /\ runs'[g][i] = Cancelled(runs[g][i])
    BY <1>2, <1>3
  <2>2. QED
    BY <1>1, <2>1
<1>5. \A g \in Groups : DOMAIN runs'[g] = DOMAIN runs[g]
  BY <1>3
<1>6. QED
  BY <1>4, <1>5 DEF Shutdown

(* After a shutdown no coroutine is left that has yet to begin.            *)
NoneCreated ==
  shuttingDown => \A g \in Groups : \A i \in DOMAIN runs[g] : runs[g][i].phase # "created"

(* The shutdown cancels them all, and nothing starts after it.             *)
LEMMA NoneCreatedStays ==
  ASSUME IInv, NoneCreated, Next
  PROVE  NoneCreated'
<1>1. QueueInv /\ closeFile \in [Groups -> BOOLEAN]
  BY DEF IInv
<1>2. CASE Shutdown
  BY <1>1, <1>2, ShutdownMoves DEF NoneCreated
<1>3. ASSUME UNCHANGED shuttingDown,
             \A h \in Groups : \/ runs'[h] = runs[h] \/ runs'[h] = <<>>
                               \/ \E t : Starts(h, t)
      PROVE  NoneCreated'
  BY <1>3 DEF NoneCreated, Starts
<1>4. ASSUME NEW g \in Groups, EnqueueMessageCheck(g) \/ RetryFires(g) PROVE NoneCreated'
  <2>1. CheckMessages(g) /\ UNCHANGED shuttingDown
    BY <1>4 DEF EnqueueMessageCheck, RetryFires
  <2>2. QED
    BY <1>1, <1>3, <2>1, CheckMoves DEF Stays, SameRun
<1>5. ASSUME NEW g \in Groups, NEW t \in Tasks, EnqueueTask(g, t) PROVE NoneCreated'
  <2>1. UNCHANGED shuttingDown
    BY <1>5 DEF EnqueueTask
  <2>2. QED
    BY <1>1, <1>3, <1>5, <2>1, TaskMoves DEF Stays, SameRun
<1>6. ASSUME NEW g \in Groups, NotifyIdle(g) \/ AgentReadsClose(g) PROVE NoneCreated'
  BY <1>3, <1>6 DEF NotifyIdle, AgentReadsClose, queueVars
<1>7. ASSUME NEW g \in Groups, NEW i \in DOMAIN runs[g], BeginRun(g, i) PROVE NoneCreated'
  <2>1. ~shuttingDown /\ UNCHANGED shuttingDown
    BY <1>7 DEF BeginRun, NoneCreated
  <2>2. QED
    BY <2>1 DEF NoneCreated
<1>8. ASSUME NEW g \in Groups, NEW i \in DOMAIN runs[g], RunEnds(g, i) PROVE NoneCreated'
  <2>1. UNCHANGED shuttingDown
    BY <1>8 DEF RunEnds, MessagesSucceed, MessagesFail, MessagesCancelled, TaskEnds, RunNeverBegins
  <2>2. QED
    BY <1>1, <1>3, <1>8, <2>1, EndMoves DEF Stays, SameRun, Rests
<1>9. QED
  BY <1>2, <1>4, <1>5, <1>6, <1>7, <1>8 DEF Next
-----------------------------------------------------------------------------
(* And it stays where it is until its own run begins or ends.              *)

UnderWay(g, t) == \E i \in DOMAIN runs[g] : runs[g][i].task = t /\ Begun(runs[g][i])

AsItWas(g, t) ==
  (AtHand(g, t)' <=> AtHand(g, t)) /\ (UnderWay(g, t)' <=> UnderWay(g, t))

(* A start drops no task: the one that leaves the queue gets the run.      *)
LEMMA StartLeaves ==
  ASSUME NEW s \in GroupState, NEW t \in Tasks, Pends(s, t)
  PROVE  Pends(StartedNext(s), t) \/ NextTask(s) = t
<1> DEFINE p == s.pendingTasks
           v == [s EXCEPT !.pendingTasks = Tail(p)]
<1>1. PICK k \in DOMAIN p : p[k] = t
  BY DEF Pends
<1>2. p \in Seq(Tasks) /\ p # <<>>
  BY <1>1 DEF GroupState
<1>3. v.pendingTasks = Tail(p) /\ v \in GroupState
  BY <1>2 DEF GroupState
<1>4. NextTask(s) = Head(p) /\ StartedNext(s) = StartedTask(v, Head(p))
  BY <1>2 DEF NextTask, StartedNext
<1> HIDE DEF v
<1>5. StartedNext(s).pendingTasks = Tail(p)
  BY <1>3, <1>4 DEF StartedTask, GroupState
<1>6. CASE k = 1
  BY <1>1, <1>2, <1>4, <1>6
<1>7. CASE k # 1
  <2>1. k - 1 \in DOMAIN Tail(p) /\ Tail(p)[k - 1] = p[k]
    BY <1>1, <1>2, <1>7
  <2>2. QED
    BY <1>1, <1>5, <2>1 DEF Pends
<1>8. QED
  BY <1>6, <1>7

(* What a group that starts its next job has at hand.                      *)
LEMMA LaunchLeaves ==
  ASSUME NEW s \in GroupState, NEW t \in Tasks, NEW h \in Groups,
         groups'[h] = StartedNext(s), runs'[h] = Append(<<>>, NewRun(NextTask(s)))
  PROVE  (Pends(s, t) => AtHand(h, t)') /\ ~UnderWay(h, t)'
<1> DEFINE n == NewRun(NextTask(s))
<1>1. DOMAIN runs'[h] = {1} /\ runs'[h][1] = n
  OBVIOUS
<1>2. n.task = NextTask(s) /\ n.phase = "created"
  BY DEF NewRun
<1> HIDE DEF n
<1>3. ~UnderWay(h, t)'
  BY <1>1, <1>2 DEF UnderWay, Begun
<1>4. ASSUME Pends(s, t) PROVE AtHand(h, t)'
  BY <1>1, <1>2, <1>4, StartLeaves DEF AtHand
<1>5. QED
  BY <1>3, <1>4

(* The end of a run takes away its own task alone.                         *)
LEMMA RunEndLeaves ==
  ASSUME QueueInv, NEW g \in Groups, NEW i \in DOMAIN runs[g], RunEnds(g, i)
  PROVE  \A h \in Groups, t \in Tasks : ~(h = g /\ t = runs[g][i].task) => AsItWas(h, t)
<1>0. /\ groups \in [Groups -> GroupState] /\ runs \in [Groups -> Seq(Run)]
      /\ \A h \in Groups : GroupOK(groups[h], runs[h])
  BY DEF QueueInv, GroupsOK
<1>1. \A k \in DOMAIN runs[g] : k = i
  BY LiveRun
<1>2. NoneComes
  BY RunEndTakes
<1>3. CASE ~RunNeverBegins(g, i)
  <2>1. PICK u \in GroupState :
          /\ ~u.active /\ u.runningTask = NoTask
          /\ u.pendingTasks = groups[g].pendingTasks
          /\ u.pendingMessages = groups[g].pendingMessages
          /\ EndRun(g, i, u)
    BY <1>3, RunEndsInEndRun
  <2> DEFINE gs == [groups EXCEPT ![g] = u]
             rs == WithoutRun(g, i)
             n == activeCount - 1
  <2>2. /\ gs \in [Groups -> GroupState] /\ rs[g] = <<>> /\ gs[g] = u
        /\ \A h \in Groups \ {g} : rs[h] = runs[h] /\ gs[h] = groups[h]
        /\ \A h \in Groups : \A t : Pends(gs[h], t) <=> Pends(groups[h], t)
    <3>1. rs[g] = <<>>
      BY <2>1, OneEnds
    <3>2. gs[g] = u /\ gs \in [Groups -> GroupState]
          /\ \A h \in Groups \ {g} : rs[h] = runs[h] /\ gs[h] = groups[h]
      BY <1>0, <2>1 DEF WithoutRun
    <3> HIDE DEF gs, rs
    <3>3. QED
      BY <2>1, <3>1, <3>2 DEF Pends
  <2>3. PICK S : /\ Launch(S, gs, n, rs)
                 /\ \A h \in S : h = g \/ runs[h] = <<>>
    <3>1. CASE shuttingDown \/ HasPending(gs[g])
      BY <2>1, <3>1 DEF EndRun, DrainGroup
    <3>2. CASE ~shuttingDown /\ ~HasPending(gs[g])
      <4>1. DrainWaiting(gs, n, rs)
        BY <2>1, <3>2 DEF EndRun, DrainGroup
      <4>2. PICK k \in 0 .. Len(waitingGroups) :
              Launch({h \in {waitingGroups[j] : j \in 1 .. k} : HasPending(gs[h])}, gs, n, rs)
        BY <4>1 DEF DrainWaiting
      <4>3. ASSUME NEW j \in 1 .. k PROVE runs[waitingGroups[j]] = <<>>
        <5>1. waitingGroups \in Seq(Groups) /\ j \in DOMAIN waitingGroups
          BY DEF QueueInv
        <5>2. waitingGroups[j] \in Groups /\ ~groups[waitingGroups[j]].active
          BY <3>2, <5>1 DEF QueueInv, LineOK
        <5>3. QED
          BY <1>0, <5>2 DEF GroupOK
      <4>4. QED
        BY <4>2, <4>3
    <3>3. QED
      BY <3>1, <3>2
  <2> HIDE DEF gs, rs, n
  <2>4. ASSUME NEW h \in Groups, NEW t \in Tasks, ~(h = g /\ t = runs[g][i].task), h \in S
        PROVE  AsItWas(h, t)
    <3> DEFINE s == gs[h]
    <3>1. s \in GroupState /\ rs[h] = <<>>
      BY <2>2, <2>3, <2>4
    <3>2. groups'[h] = StartedNext(s) /\ runs'[h] = Append(<<>>, NewRun(NextTask(s)))
      BY <2>3, <2>4, <3>1 DEF Launch
    <3>3. Pends(s, t) <=> Pends(groups[h], t)
      BY <2>2
    <3> HIDE DEF s
    <3>4. (Pends(s, t) => AtHand(h, t)') /\ ~UnderWay(h, t)'
      BY <3>1, <3>2, LaunchLeaves
    <3>5. ~\E k \in DOMAIN runs[h] : runs[h][k].task = t
      BY <1>1, <2>3, <2>4
    <3>6. ~UnderWay(h, t) /\ (AtHand(h, t) <=> Pends(groups[h], t))
      BY <3>5 DEF UnderWay, AtHand
    <3>7. QED
      BY <1>2, <3>3, <3>4, <3>6 DEF NoneComes, AsItWas
  <2>5. ASSUME NEW h \in Groups, NEW t \in Tasks, ~(h = g /\ t = runs[g][i].task), h \notin S
        PROVE  AsItWas(h, t)
    <3>1. groups'[h] = gs[h] /\ runs'[h] = rs[h] /\ (Pends(gs[h], t) <=> Pends(groups[h], t))
      BY <2>2, <2>3, <2>5 DEF Launch
    <3>2. CASE h = g
      <4>1. ~\E k \in DOMAIN runs[h] : runs[h][k].task = t
        BY <1>1, <2>5, <3>2
      <4>2. QED
        BY <2>2, <3>1, <3>2, <4>1 DEF AsItWas, AtHand, UnderWay
    <3>3. CASE h # g
      BY <2>2, <3>1, <3>3 DEF AsItWas, AtHand, UnderWay
    <3>4. QED
      BY <3>2, <3>3
  <2>6. QED
    BY <2>4, <2>5
<1>4. CASE RunNeverBegins(g, i)
  <2>1. /\ runs'[g] = <<>> /\ groups' = groups
        /\ \A h \in Groups \ {g} : runs'[h] = runs[h]
    BY <1>4, OnlyRun DEF RunNeverBegins
  <2>2. ASSUME NEW h \in Groups, NEW t \in Tasks, ~(h = g /\ t = runs[g][i].task)
        PROVE  AsItWas(h, t)
    <3>1. CASE h = g
      <4>1. ~\E k \in DOMAIN runs[h] : runs[h][k].task = t
        BY <1>1, <2>2, <3>1
      <4>2. QED
        BY <2>1, <3>1, <4>1 DEF AsItWas, AtHand, UnderWay
    <3>2. CASE h # g
      BY <2>1, <3>2 DEF AsItWas, AtHand, UnderWay
    <3>3. QED
      BY <3>1, <3>2
  <2>3. QED
    BY <2>2
<1>5. QED
  BY <1>3, <1>4

(* The beginning of a run shows in its own task alone.                     *)
LEMMA BeginLeaves ==
  ASSUME QueueInv, NEW g \in Groups, NEW i \in DOMAIN runs[g], BeginRun(g, i)
  PROVE  \A h \in Groups, t \in Tasks :
           \/ ~(h = g /\ t = runs[g][i].task) /\ AsItWas(h, t)
           \/ /\ h = g /\ t = runs[g][i].task
              /\ AtHand(h, t) /\ AtHand(h, t)' /\ ~UnderWay(h, t) /\ UnderWay(h, t)'
<1>1. /\ groups \in [Groups -> GroupState] /\ runs \in [Groups -> Seq(Run)]
      /\ \A k \in DOMAIN runs[g] : k = i
  BY LiveRun
<1>2. groups' = groups /\ runs[g][i].phase = "created"
      /\ runs' = [runs EXCEPT ![g][i].phase = "running"]
  BY DEF BeginRun
<1>3. /\ DOMAIN runs'[g] = DOMAIN runs[g]
      /\ runs'[g][i].task = runs[g][i].task /\ runs'[g][i].phase = "running"
      /\ \A h \in Groups \ {g} : runs'[h] = runs[h]
  <2> DEFINE q == runs[g]
             r == q[i]
  <2>1. r \in Run /\ q \in Seq(Run)
    BY <1>1
  <2>2. /\ runs'[g] = [q EXCEPT ![i] = [r EXCEPT !.phase = "running"]]
        /\ \A h \in Groups \ {g} : runs'[h] = runs[h]
    BY <1>1, <1>2
  <2> HIDE DEF r
  <2>3. [r EXCEPT !.phase = "running"].phase = "running" /\ [r EXCEPT !.phase = "running"].task = r.task
    BY <2>1 DEF Run
  <2>4. /\ DOMAIN runs'[g] = DOMAIN q
        /\ runs'[g][i].task = r.task /\ runs'[g][i].phase = "running"
    BY <2>2, <2>3
  <2>5. QED
    BY <2>2, <2>4 DEF r
<1>4. ASSUME NEW h \in Groups, NEW t \in Tasks
      PROVE  \/ ~(h = g /\ t = runs[g][i].task) /\ AsItWas(h, t)
             \/ /\ h = g /\ t = runs[g][i].task
                /\ AtHand(h, t) /\ AtHand(h, t)' /\ ~UnderWay(h, t) /\ UnderWay(h, t)'
  <2>1. CASE h # g
    BY <1>2, <1>3, <2>1 DEF AsItWas, AtHand, UnderWay
  <2>2. CASE h = g /\ t # runs[g][i].task
    BY <1>1, <1>2, <1>3, <2>2 DEF AsItWas, AtHand, UnderWay
  <2>3. CASE h = g /\ t = runs[g][i].task
    BY <1>1, <1>2, <1>3, <2>3 DEF AtHand, UnderWay, Begun
  <2>4. QED
    BY <2>1, <2>2, <2>3
<1>5. QED
  BY <1>4

(* A task stays where it is while its group's queue of tasks is the same   *)
(* and no run of the task is added to the group's runs.                    *)
LEMMA QueuedLeaves ==
  ASSUME NEW h \in Groups, NEW t,
         groups'[h].pendingTasks = groups[h].pendingTasks,
         \/ runs'[h] = runs[h]
         \/ \E u : u # t /\ runs[h] \in Seq(Run) /\ runs'[h] = Append(runs[h], NewRun(u))
  PROVE  AsItWas(h, t)
<1> DEFINE r == runs[h]
<1>1. Pends(groups[h], t)' <=> Pends(groups[h], t)
  BY DEF Pends
<1>2. CASE runs'[h] = r
  BY <1>1, <1>2 DEF AsItWas, AtHand, UnderWay
<1>3. ASSUME NEW u, u # t, r \in Seq(Run), runs'[h] = Append(r, NewRun(u))
      PROVE  AsItWas(h, t)
  <2> DEFINE n == NewRun(u)
  <2>1. n.task # t
    BY <1>3 DEF NewRun
  <2> HIDE DEF n
  <2>2. /\ \A k \in DOMAIN r : k \in DOMAIN runs'[h] /\ runs'[h][k] = r[k]
        /\ \A k \in DOMAIN runs'[h] : (k \in DOMAIN r /\ runs'[h][k] = r[k]) \/ runs'[h][k] = n
    BY <1>3 DEF n
  <2>3. QED
    BY <1>1, <2>1, <2>2 DEF AsItWas, AtHand, UnderWay
<1>4. QED
  BY <1>2, <1>3

(* A check of messages shows in no task.                                   *)
LEMMA CheckLeaves ==
  ASSUME QueueInv, NEW g \in Groups, CheckMessages(g)
  PROVE  \A h \in Groups, t \in Tasks : AsItWas(h, t)
<1>1. groups \in [Groups -> GroupState] /\ runs \in [Groups -> Seq(Run)]
  BY DEF QueueInv, GroupsOK
<1>2. \A h \in Groups : groups'[h].pendingTasks = groups[h].pendingTasks
  <2> DEFINE s == groups[g]
             v == [s EXCEPT !.pendingMessages = TRUE]
  <2>1. s \in GroupState /\ groups[g] = s
    BY <1>1
  <2> HIDE DEF s
  <2>2. v.pendingTasks = s.pendingTasks /\ StartedMessages(s).pendingTasks = s.pendingTasks
    BY <2>1 DEF StartedMessages, GroupState
  <2>3. \/ groups' = groups
        \/ groups' = [groups EXCEPT ![g] = v]
        \/ groups' = [groups EXCEPT ![g] = StartedMessages(s)]
    BY <2>1 DEF CheckMessages, Park, StartOne, queueVars
  <2> HIDE DEF v
  <2>4. QED
    BY <1>1, <2>1, <2>2, <2>3
<1>3. ASSUME NEW h \in Groups
      PROVE  runs'[h] = runs[h] \/ runs'[h] = Append(runs[h], NewRun(NoTask))
  BY <1>1 DEF CheckMessages, Park, StartOne, queueVars
<1>4. ASSUME NEW h \in Groups, NEW t \in Tasks PROVE AsItWas(h, t)
  <2>1. NoTask # t /\ runs[h] \in Seq(Run)
    BY <1>1, GroupQueueAssumption
  <2>2. QED
    BY <1>2, <1>3, <2>1, QueuedLeaves
<1>5. QED
  BY <1>4

(* enqueue_task shows in the task it accepts, which was not at hand.       *)
LEMMA TaskLeaves ==
  ASSUME QueueInv, NEW g \in Groups, NEW t \in Tasks, EnqueueTask(g, t)
  PROVE  /\ \A h \in Groups, u \in Tasks : ~(h = g /\ u = t) => AsItWas(h, u)
         /\ shuttingDown \/ groups[g].runningTask = t \/ Pends(groups[g], t) => AsItWas(g, t)
         /\ ~shuttingDown /\ groups[g].runningTask # t /\ ~Pends(groups[g], t) =>
              ~AtHand(g, t) /\ AtHand(g, t)' /\ ~UnderWay(g, t)'
<1>1. /\ groups \in [Groups -> GroupState] /\ runs \in [Groups -> Seq(Run)]
      /\ GroupOK(groups[g], runs[g])
  BY DEF QueueInv, GroupsOK
<1> DEFINE s == groups[g]
           r == runs[g]
           p == s.pendingTasks
<1>2. s \in GroupState /\ r \in Seq(Run) /\ p \in Seq(Tasks)
  BY <1>1 DEF GroupState
<1>3. ASSUME groups[g].runningTask # t
      PROVE  ~\E k \in DOMAIN runs[g] : runs[g][k].task = t
  BY <1>3, LiveRun
<1>4. CASE UNCHANGED <<groups, runs>> /\ (shuttingDown \/ s.runningTask = t \/ Pends(s, t))
  BY <1>4 DEF AsItWas, AtHand, UnderWay
<1>5. CASE /\ ~shuttingDown /\ s.runningTask # t /\ ~Pends(s, t)
           /\ UNCHANGED runs
           /\ groups' = [groups EXCEPT ![g] = QueuedTask(s, t)]
  <2>1. groups'[g].pendingTasks = Append(p, t) /\ \A h \in Groups \ {g} : groups'[h] = groups[h]
    BY <1>1, <1>2, <1>5 DEF QueuedTask, GroupState
  <2> HIDE DEF p, s, r
  <2>2. /\ \A k \in DOMAIN p : k \in DOMAIN Append(p, t) /\ Append(p, t)[k] = p[k]
        /\ \A k \in DOMAIN Append(p, t) : (k \in DOMAIN p /\ Append(p, t)[k] = p[k]) \/ Append(p, t)[k] = t
        /\ Len(p) + 1 \in DOMAIN Append(p, t) /\ Append(p, t)[Len(p) + 1] = t
    BY <1>2
  <2>3. ASSUME NEW u, u # t PROVE Pends(groups[g], u)' <=> Pends(groups[g], u)
    BY <2>1, <2>2, <2>3 DEF Pends, p, s
  <2>4. Pends(groups[g], t)'
    BY <2>1, <2>2 DEF Pends
  <2>5. ASSUME NEW h \in Groups, NEW u \in Tasks, ~(h = g /\ u = t) PROVE AsItWas(h, u)
    BY <1>5, <2>1, <2>3, <2>5 DEF AsItWas, AtHand, UnderWay
  <2>6. ~AtHand(g, t) /\ AtHand(g, t)' /\ ~UnderWay(g, t)'
    BY <1>3, <1>5, <2>4 DEF AtHand, UnderWay, s
  <2>7. QED
    BY <1>5, <2>5, <2>6 DEF s
<1>6. CASE /\ ~shuttingDown /\ s.runningTask # t /\ ~Pends(s, t)
           /\ StartOne(g, StartedTask(s, t), t)
  <2>1. /\ runs'[g] = Append(r, NewRun(t))
        /\ groups'[g].pendingTasks = p
        /\ \A h \in Groups \ {g} : groups'[h] = groups[h] /\ runs'[h] = runs[h]
    BY <1>1, <1>2, <1>6 DEF StartOne, StartedTask, GroupState
  <2>2. ASSUME NEW h \in Groups, NEW u \in Tasks, ~(h = g /\ u = t) PROVE AsItWas(h, u)
    <3>1. CASE h # g
      BY <2>1, <3>1, QueuedLeaves
    <3>2. CASE h = g /\ u # t
      BY <1>2, <2>1, <3>2, QueuedLeaves
    <3>3. QED
      BY <2>2, <3>1, <3>2
  <2> DEFINE n == NewRun(t)
  <2>3. n.task = t /\ n.phase = "created"
    BY DEF NewRun
  <2>4. /\ Len(r) + 1 \in DOMAIN runs'[g] /\ runs'[g][Len(r) + 1] = n
        /\ \A k \in DOMAIN runs'[g] : (k \in DOMAIN r /\ runs'[g][k] = r[k]) \/ runs'[g][k] = n
    <3> HIDE DEF n, r
    <3>1. QED
      BY <1>2, <2>1 DEF n
  <2> HIDE DEF n
  <2>5. ~AtHand(g, t)
    BY <1>3, <1>6 DEF AtHand
  <2>6. AtHand(g, t)'
    BY <2>3, <2>4 DEF AtHand
  <2>7. ~UnderWay(g, t)'
    BY <1>3, <1>6, <2>3, <2>4 DEF UnderWay, Begun
  <2>8. QED
    BY <1>6, <2>2, <2>5, <2>6, <2>7
<1>7. QED
  BY <1>4, <1>5, <1>6 DEF EnqueueTask, Park, queueVars

(* A shutdown cancels what is under way, and that goes on to its end.      *)
LEMMA ShutdownLeaves ==
  ASSUME QueueInv, Shutdown
  PROVE  \A h \in Groups, t \in Tasks : AsItWas(h, t)
<1>1. \A g \in Groups : /\ groups'[g] = groups[g]
                        /\ runs'[g] = [i \in DOMAIN runs[g] |-> Cancelled(runs[g][i])]
  BY DEF Shutdown
<1>2. ASSUME NEW r \in Run, r.phase \in {"created", "running"}
      PROVE  Cancelled(r).task = r.task /\ (Begun(Cancelled(r)) <=> Begun(r))
  BY <1>2 DEF Cancelled, Run, Begun
<1>3. \A g \in Groups : \A i \in DOMAIN runs[g] :
        runs[g][i] \in Run /\ runs[g][i].phase \in {"created", "running"}
  BY DEF QueueInv, GroupsOK, AllAwake, AwakeOK, Shutdown
<1>4. ASSUME NEW g \in Groups
      PROVE  /\ DOMAIN runs'[g] = DOMAIN runs[g]
             /\ \A i \in DOMAIN runs[g] :
                  /\ runs'[g][i].task = runs[g][i].task
                  /\ Begun(runs'[g][i]) <=> Begun(runs[g][i])
  <2>1. ASSUME NEW i \in DOMAIN runs[g]
        PROVE  runs'[g][i].task = runs[g][i].task /\ (Begun(runs'[g][i]) <=> Begun(runs[g][i]))
    <3>1. /\ runs[g][i] \in Run /\ runs[g][i].phase \in {"created", "running"}
          /\ runs'[g][i] = Cancelled(runs[g][i])
      BY <1>1, <1>3
    <3>2. QED
      BY <1>2, <3>1
  <2>2. QED
    BY <1>1, <2>1
<1>5. QED
  BY <1>1, <1>4 DEF AsItWas, AtHand, UnderWay, Begun

-----------------------------------------------------------------------------
(* What the invariant implies, in any state.                               *)

(* Type correctness: the group states, and the counter within its bounds.  *)
LEMMA TypeHolds == IInv => TypeOK
BY CountSame DEF IInv, QueueInv, GroupsOK, TypeOK

(* No group has two runs.                                                  *)
LEMMA SerialHolds == IInv => SerialExecution
BY DEF IInv, QueueInv, GroupsOK, GroupOK, SerialExecution

(* The groups with a live run are among the active ones.                   *)
LEMMA LimitHolds == IInv => ConcurrencyLimit
<1>1. SUFFICES ASSUME IInv PROVE ConcurrencyLimit
  OBVIOUS
<1> DEFINE L == {g \in Groups : Live(g)}
<1>2. L \subseteq ActiveOf(groups) /\ ActiveOf(groups) \subseteq Groups
  BY <1>1 DEF IInv, QueueInv, GroupsOK, GroupOK, ActiveOf, Live
<1>3. IsFiniteSet(ActiveOf(groups))
  BY <1>2, FS_Subset, GroupQueueAssumption
<1>4. Cardinality(L) <= Cardinality(ActiveOf(groups)) /\ IsFiniteSet(L)
  BY <1>2, <1>3, FS_Subset
<1>5. Cardinality(ActiveOf(groups)) <= MaxConcurrent
  BY <1>1 DEF IInv, QueueInv, GroupsOK
<1>6. Cardinality(L) \in Nat /\ Cardinality(ActiveOf(groups)) \in Nat /\ MaxConcurrent \in Nat
  BY <1>3, <1>4, FS_CardinalityType, GroupQueueAssumption
<1> HIDE DEF L
<1>7. Cardinality(L) <= MaxConcurrent
  BY <1>4, <1>5, <1>6
<1>8. QED
  BY <1>7 DEF ConcurrencyLimit, L

(* Slots and active groups agree, and until shutdown live ones.            *)
LEMMA SlotsHold == IInv => SlotAccounting
<1>1. SUFFICES ASSUME IInv PROVE SlotAccounting
  OBVIOUS
<1>2. activeCount = Cardinality({g \in Groups : groups[g].active})
  BY <1>1 DEF IInv, QueueInv, GroupsOK, ActiveOf
<1>3. ~shuttingDown => \A g \in Groups : groups[g].active <=> Live(g)
  BY <1>1 DEF IInv, QueueInv, GroupsOK, GroupOK, AllAwake, AwakeOK, Live
<1>4. QED
  BY <1>2, <1>3 DEF SlotAccounting

(* Pending work has a live run or a waiting place.                         *)
LEMMA WakeupsHold == IInv => NoLostWakeup
BY DEF IInv, QueueInv, LineOK, AllAwake, AwakeOK, NoLostWakeup, Live, Waits

(* Nobody waits for a slot that is free.                                   *)
LEMMA WorkHolds == IInv => WorkConserving
<1>1. SUFFICES ASSUME IInv, ~shuttingDown PROVE WorkConserving
  BY DEF WorkConserving
<1>2. LineOK(groups, activeCount, waitingGroups) /\ waitingGroups \in Seq(Groups)
  BY <1>1 DEF IInv, QueueInv
<1>3. \A g \in Groups : groups[g].active <=> Live(g)
  BY <1>1 DEF IInv, QueueInv, GroupsOK, GroupOK, AllAwake, AwakeOK, Live
<1>4. {g \in Groups : Live(g)} = ActiveOf(groups)
  BY <1>3 DEF ActiveOf
<1>5. waitingGroups # <<>> => Cardinality({g \in Groups : Live(g)}) = MaxConcurrent
  BY <1>1, <1>2, <1>4 DEF IInv, QueueInv, GroupsOK, LineOK
<1>6. \A i, j \in DOMAIN waitingGroups : waitingGroups[i] = waitingGroups[j] => i = j
  BY <1>2 DEF LineOK
<1>7. \A g \in Groups : Waits(g) => ~Live(g) /\ HasPending(groups[g])
  BY <1>2, <1>3 DEF LineOK, Waits
<1>8. QED
  BY <1>5, <1>6, <1>7 DEF WorkConserving

(* A task id is in hand once.                                              *)
LEMMA TaskHolds == IInv => TaskOnce
<1>1. SUFFICES ASSUME IInv PROVE TaskOnce
  OBVIOUS
<1>2. QueueInv
  BY <1>1 DEF IInv
<1>3. ASSUME NEW g \in Groups, NEW r \in DOMAIN runs[g]
      PROVE  ~Pends(groups[g], runs[g][r].task)
  <2>1. GroupOK(groups[g], runs[g]) /\ groups[g].runningTask = runs[g][r].task
    BY <1>2, LiveRun
  <2>2. QED
    BY <2>1 DEF GroupOK
<1>4. QED
  BY <1>2, <1>3 DEF TaskOnce, QueueInv, GroupsOK, GroupOK

-----------------------------------------------------------------------------
(* The inductive invariant holds in every reachable state.                 *)
THEOREM Invariance == Spec => []IInv
<1>1. Init => IInv
  BY InitIInv
<1>2. IInv /\ [Next]_vars => IInv'
  BY NextIInv
<1>3. QED
  BY <1>1, <1>2, PTL DEF Spec

(* The dispatcher's state is always of its type: in particular the slot    *)
(* counter never leaves 0 .. MaxConcurrent.                                *)
THEOREM TypeCorrect == Spec => []TypeOK
BY TypeHolds, Invariance, PTL

(* A group never has two runs at once, for any number of groups, tasks and *)
(* slots: enqueue_message_check, enqueue_task and both drains start a run  *)
(* only where none is.                                                     *)
THEOREM Serial == Spec => []SerialExecution
BY SerialHolds, Invariance, PTL

(* At most MaxConcurrent groups have a live run.                           *)
THEOREM Limited == Spec => []ConcurrencyLimit
BY LimitHolds, Invariance, PTL

(* The counter is exact, and until shutdown active means a live run.       *)
THEOREM SlotsAccounted == Spec => []SlotAccounting
BY SlotsHold, Invariance, PTL

(* No wakeup is lost: pending work always has a live run of its group or   *)
(* the group's place in the waiting line to look at it.                    *)
THEOREM NoWakeupIsLost == Spec => []NoLostWakeup
BY WakeupsHold, Invariance, PTL

(* No slot is idle while a group waits for one, and the line holds only    *)
(* idle groups with work, each once.                                       *)
THEOREM WorkIsConserved == Spec => []WorkConserving
BY WorkHolds, Invariance, PTL

(* A task id is queued at most once, and not while its run is alive.       *)
THEOREM TaskIsHeldOnce == Spec => []TaskOnce
BY TaskHolds, Invariance, PTL
=============================================================================
