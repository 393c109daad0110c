--------------------------- MODULE AgentRunProofs ---------------------------
(***************************************************************************)
(* Theorems about AgentRun, for any groups, tasks and bounds, with agents  *)
(* that answer, fail, hang and outlive their runs, through timeouts,       *)
(* shutdowns and crashes: one agent works for a group, it is told to close *)
(* before it starts or not at all, it goes on in the group's session, and  *)
(* what was told in part is not told again by a retry.                     *)
(*                                                                         *)
(* QP is the dispatcher with its theorems.  The invariant speaks of one    *)
(* group at a time; a group a step is not about is a bystander, which at   *)
(* most gets a slot.                                                       *)
(***************************************************************************)
EXTENDS AgentRun, TLAPS

QP == INSTANCE GroupQueueProofs

(* The constants are such as the dispatcher needs.                         *)
LEMMA ConstantsFit == QP!GroupQueueAssumption
BY AgentRunAssumption DEF QP!GroupQueueAssumption, QP!IsFiniteSet, IsFiniteSet

-----------------------------------------------------------------------------
(* The dispatcher of AgentRun, Q, is the one of the proofs.                *)

(* The entry points, the beginning of a run, and the shutdown.             *)
LEMMA SameSmall ==
  ASSUME NEW g, NEW t, NEW i
  PROVE  /\ Q!EnqueueMessageCheck(g) <=> QP!EnqueueMessageCheck(g)
         /\ Q!EnqueueTask(g, t) <=> QP!EnqueueTask(g, t)
         /\ Q!NotifyIdle(g) <=> QP!NotifyIdle(g)
         /\ Q!RetryFires(g) <=> QP!RetryFires(g)
         /\ Q!BeginRun(g, i) <=> QP!BeginRun(g, i)
         /\ Q!RunNeverBegins(g, i) <=> QP!RunNeverBegins(g, i)
         /\ Q!Shutdown <=> QP!Shutdown
BY DEF Q!EnqueueMessageCheck, QP!EnqueueMessageCheck, Q!CheckMessages, QP!CheckMessages,
       Q!EnqueueTask, QP!EnqueueTask, Q!QueuedTask, QP!QueuedTask, Q!Pends, QP!Pends,
       Q!NotifyIdle, QP!NotifyIdle, Q!Begun, QP!Begun, Q!RetryFires, QP!RetryFires,
       Q!CloseStdin, QP!CloseStdin, Q!StartOne, QP!StartOne, Q!Park, QP!Park, Q!Waits, QP!Waits,
       Q!StartedMessages, QP!StartedMessages, Q!StartedTask, QP!StartedTask, Q!NewRun, QP!NewRun,
       Q!queueVars, QP!queueVars, Q!BeginRun, QP!BeginRun, Q!RunNeverBegins, QP!RunNeverBegins,
       Q!WithoutRun, QP!WithoutRun, Q!Shutdown, QP!Shutdown, Q!Cancelled, QP!Cancelled

(* The endings of a run.                                                   *)
LEMMA SameEnds ==
  ASSUME NEW g, NEW i
  PROVE  /\ Q!MessagesSucceed(g, i) <=> QP!MessagesSucceed(g, i)
         /\ Q!MessagesFail(g, i) <=> QP!MessagesFail(g, i)
         /\ Q!MessagesCancelled(g, i) <=> QP!MessagesCancelled(g, i)
         /\ Q!TaskEnds(g, i) <=> QP!TaskEnds(g, i)
<1>1. ASSUME NEW S PROVE Q!Cardinality(S) = QP!Cardinality(S)
  BY DEF Q!Cardinality, QP!Cardinality
<1>2. ASSUME NEW s PROVE Q!EndRun(g, i, s) <=> QP!EndRun(g, i, s)
  BY <1>1 DEF Q!EndRun, QP!EndRun, Q!DrainGroup, QP!DrainGroup, Q!DrainWaiting, QP!DrainWaiting,
       Q!Launch, QP!Launch, Q!HasPending, QP!HasPending, Q!WithoutRun, QP!WithoutRun,
       Q!NewRun, QP!NewRun, Q!NextTask, QP!NextTask, Q!StartedNext, QP!StartedNext,
       Q!StartedTask, QP!StartedTask, Q!StartedMessages, QP!StartedMessages
<1>3. QED
  BY <1>2 DEF Q!MessagesSucceed, QP!MessagesSucceed, Q!MessagesFail, QP!MessagesFail,
       Q!MessagesCancelled, QP!MessagesCancelled, Q!TaskEnds, QP!TaskEnds,
       Q!ScheduleTimer, QP!ScheduleTimer, Q!ScheduledRetry, QP!ScheduledRetry,
       Q!RunIsMessages, QP!RunIsMessages, Q!MayEnd, QP!MayEnd

(* The ends of a run, told apart by what becomes of the retries.           *)
LEMMA EndsOfRuns ==
  ASSUME NEW g \in Groups, NEW i \in DOMAIN runs[g]
  PROVE  /\ NoAgentStarts(g, i) \/ RunEnds(g, i) => QP!RunEnds(g, i)
         /\ RunBegins(g, i) => QP!BeginRun(g, i) \/ NoAgentStarts(g, i)
<1>1. RunBegins(g, i) => QP!BeginRun(g, i) \/ NoAgentStarts(g, i)
  BY SameSmall DEF RunBegins, StartTurn, StartTask
<1>2. NoAgentStarts(g, i) => QP!RunEnds(g, i)
  BY SameEnds DEF NoAgentStarts, QP!RunEnds
<1>3. CommitTurn(g, i) \/ FailTurn(g, i) \/ RaiseTurn(g, i) => QP!RunEnds(g, i)
  BY SameEnds DEF CommitTurn, FailTurn, RaiseTurn, QP!RunEnds
<1>4. EndTask(g, i) \/ CancelRun(g, i) => QP!RunEnds(g, i)
  BY SameSmall, SameEnds DEF EndTask, CancelRun, QP!RunEnds
<1>5. QED
  BY <1>1, <1>2, <1>3, <1>4 DEF RunEnds

-----------------------------------------------------------------------------
(* Only a sentinel goes, when an agent reads it.                           *)
SentinelRead(g) ==
  /\ closeFile' \in {closeFile, [closeFile EXCEPT ![g] = FALSE]}
  /\ UNCHANGED <<groups, activeCount, waitingGroups, shuttingDown, runs, timers>>

(* Every step is one of the dispatcher, or leaves it alone but for a       *)
(* sentinel, or is the end of the process, after which it starts afresh.   *)
LEMMA StepsOfQueue ==
  ASSUME [Next]_vars
  PROVE  QP!Next \/ UNCHANGED queue \/ (\E g \in Groups : SentinelRead(g)) \/ MemoryLost
<1>1. CASE UNCHANGED vars
  BY <1>1 DEF vars
<1>2. ASSUME NEW g \in Groups, AgentStep(g) PROVE UNCHANGED queue \/ SentinelRead(g)
  BY <1>2 DEF AgentStep, AgentAnswers, AgentErrs, AgentCloses, AgentExits, AgentDies, OrphanEnds,
       SentinelRead
<1>3. ASSUME NEW g \in Groups, HostStep(g) PROVE QP!Next \/ UNCHANGED queue
  <2>1. Collect(g) \/ Timeout(g) => UNCHANGED queue
    BY DEF Collect, Timeout
  <2>2. Output(g) => QP!Next \/ UNCHANGED queue
    BY SameSmall DEF Output, QP!Next
  <2>3. ASSUME NEW i \in DOMAIN runs[g], RunBegins(g, i) \/ RunEnds(g, i) PROVE QP!Next
    BY <2>3, EndsOfRuns DEF QP!Next
  <2>4. QED
    BY <1>3, <2>1, <2>2, <2>3 DEF HostStep
<1>4. ASSUME NEW g \in Groups, Deliver(g) \/ Retry(g) \/ Recover(g) PROVE QP!Next \/ UNCHANGED queue
  BY <1>4, SameSmall DEF Deliver, Retry, Recover, QP!Next
<1>5. ASSUME NEW t \in Tasks, DueTask(t) PROVE QP!Next
  BY <1>5, SameSmall, AgentRunAssumption DEF DueTask, QP!Next
<1>6. Shutdown => QP!Next
  BY SameSmall DEF Shutdown, QP!Next
<1>7. Crash \/ Exit \/ (\E g \in Groups : CrashInCommit(g)) => MemoryLost
  BY DEF Crash, Exit, CrashInCommit
<1>8. Start => UNCHANGED queue
  BY DEF Start
<1>9. QED
  BY <1>1, <1>2, <1>3, <1>4, <1>5, <1>6, <1>7, <1>8 DEF Next

(* The end of the process leaves a fresh dispatcher behind.                *)
LEMMA LostIsFresh == QP!IInv /\ MemoryLost => QP!IInv'
<1>1. MemoryLost => QP!Fresh'
  BY DEF MemoryLost, QP!Fresh, Q!FreshGroup, QP!FreshGroup
<1>2. QP!Fresh' => QP!QueueInv'
  BY QP!FreshOK, ConstantsFit, PTL
<1>3. QP!IInv /\ MemoryLost => /\ shuttingDown' \in BOOLEAN
                               /\ timers' \in [Groups -> Nat]
                               /\ closeFile' \in [Groups -> BOOLEAN]
  <2>1. 0 \in Nat
    OBVIOUS
  <2>2. QED
    BY <2>1 DEF QP!IInv, MemoryLost
<1>4. QED
  BY <1>1, <1>2, <1>3 DEF QP!IInv

(* So the dispatcher's invariant is kept by every step.                    *)
LEMMA QueueKeeps == QP!IInv /\ [Next]_vars => QP!IInv'
<1> SUFFICES ASSUME QP!IInv, [Next]_vars PROVE QP!IInv'
  OBVIOUS
<1>1. CASE QP!Next \/ UNCHANGED queue
  <2>1. QP!Next \/ UNCHANGED QP!vars
    BY <1>1 DEF queue, QP!vars
  <2>2. QP!IInv /\ [QP!Next]_(QP!vars) => QP!IInv'
    BY QP!NextIInv, ConstantsFit
  <2>3. QED
    BY <2>1, <2>2
<1>2. ASSUME NEW g \in Groups, SentinelRead(g) PROVE QP!IInv'
  <2>1. closeFile' \in [Groups -> BOOLEAN]
    BY <1>2 DEF SentinelRead, QP!IInv
  <2>2. QP!QueueInv'
    BY <1>2 DEF SentinelRead, QP!IInv, QP!QueueInv
  <2>3. QED
    BY <1>2, <2>1, <2>2 DEF SentinelRead, QP!IInv
<1>3. QED
  BY <1>1, <1>2, StepsOfQueue, LostIsFresh

-----------------------------------------------------------------------------
(* The invariant.                                                          *)

(* A shutdown may leave one more child of a group behind, at the end of    *)
(* the process, and has been counted as a stop by then.                    *)
StopsOK == \A g \in Groups : IF shuttingDown THEN orphans[g] < stops ELSE orphans[g] <= stops

DataOK ==
  /\ ahead \in [Groups -> BOOLEAN]
  /\ sessions \in [Groups -> SessionIds] /\ dbSessions \in [Groups -> SessionIds]
  /\ latest \in [Groups -> SessionIds]
  /\ host \in [Groups -> HostState] /\ agent \in [Groups -> AgentState]
  /\ orphans \in [Groups -> Nat] /\ StopsOK
  /\ up \in BOOLEAN /\ ipcLoop \in BOOLEAN /\ recovering \subseteq Groups
  /\ cut \subseteq Groups /\ heard \subseteq Groups
  /\ issued \in 0 .. MaxSessions /\ calls \in 0 .. MaxCalls /\ stops \in 0 .. MaxStops
  /\ up => sessions = dbSessions

(* A run that has a host has begun.  One that has yet to begin is not      *)
(* counted as idle, and neither is one whose agent is alive.               *)
SeatOK(g) ==
  /\ host[g].pc # "none" =>
       runs[g] # <<>> /\ \A i \in DOMAIN runs[g] : QP!Begun(runs[g][i])
  /\ \A i \in DOMAIN runs[g] : runs[g][i].phase = "created" => ~groups[g].idleWaiting
  /\ Alive(g) =>
       /\ host[g].pc = "talking" \/ (host[g].pc = "none" /\ shuttingDown)
       /\ ~groups[g].idleWaiting /\ (closeFile[g] => agent[g].met)
  /\ agent[g].phase = "waiting" => agent[g].out # <<>>

(* The database has the group's newest session, and a run that goes on in  *)
(* it was given that.                                                      *)
Conversing(g) == \E i \in DOMAIN runs[g] : runs[g][i].task \in Shared \cup {NoTask}

SessionOK(g) ==
  g \notin cut =>
    /\ dbSessions[g] = latest[g]
    /\ host[g].pc # "none" /\ Conversing(g) => host[g].given = latest[g]

(* A group that has heard its answer has nothing that leads to a turn.     *)
HeardOK(g) ==
  g \in heard =>
    /\ up /\ recovering = {}
    /\ ~groups[g].pendingMessages /\ timers[g] = 0
    /\ \A i \in DOMAIN runs[g] : runs[g][i].task # NoTask

GroupInv(g) == SeatOK(g) /\ SessionOK(g) /\ HeardOK(g)

AgentInv == QP!IInv /\ DataOK /\ \A g \in Groups : GroupInv(g)

(* A sequence of one run.                                                  *)
LEMMA OneRun ==
  ASSUME NEW r
  PROVE  LET q == Append(<<>>, r) IN q # <<>> /\ DOMAIN q = {1} /\ q[1] = r
OBVIOUS

(* A group that a step is not about: its run stays, or it gets a slot.     *)
Bystander(h) ==
  /\ host'[h] = host[h] /\ agent'[h] = agent[h]
  /\ dbSessions'[h] = dbSessions[h] /\ latest'[h] = latest[h] /\ (h \in cut' <=> h \in cut)
  /\ closeFile'[h] => closeFile[h] \/ groups[h].idleWaiting
  /\ h \in heard' => h \in heard /\ up' /\ recovering' = {}
  /\ timers'[h] = timers[h] \/ timers'[h] = 0
  /\ shuttingDown' = shuttingDown
  /\ \/ QP!Stays(h)
     \/ /\ runs[h] = <<>>
        /\ \E t \in Tasks \cup {NoTask} :
             QP!Starts(h, t) /\ (t = NoTask => groups[h].pendingMessages)

(* What holds of it goes on holding.                                       *)
LEMMA BystanderOK ==
  ASSUME NEW h \in Groups, GroupInv(h), Bystander(h)
  PROVE  GroupInv(h)'
<1>1. Alive(h)' <=> Alive(h)
  BY DEF Bystander, Alive
<1>2. CASE QP!Stays(h)
  <2>1. SeatOK(h)'
    BY <1>1, <1>2 DEF GroupInv, SeatOK, Bystander, QP!Stays, QP!SameRun
  <2>2. SessionOK(h)'
    BY <1>2 DEF GroupInv, SessionOK, Conversing, Bystander, QP!Stays, QP!SameRun
  <2>3. HeardOK(h)'
    BY <1>2 DEF GroupInv, HeardOK, Bystander, QP!Stays, QP!SameRun, QP!NoMessageComes
  <2>4. QED
    BY <2>1, <2>2, <2>3 DEF GroupInv
<1>3. ASSUME runs[h] = <<>>, NEW t \in Tasks \cup {NoTask}, QP!Starts(h, t),
             t = NoTask => groups[h].pendingMessages
      PROVE  GroupInv(h)'
  <2>1. /\ runs'[h] # <<>> /\ DOMAIN runs'[h] = {1} /\ runs'[h][1] = QP!NewRun(t)
        /\ ~groups'[h].idleWaiting /\ ~shuttingDown
        /\ groups'[h].pendingMessages => groups[h].pendingMessages
    BY <1>3, OneRun DEF QP!Starts, QP!NoMessageComes
  <2>2. host[h].pc = "none" /\ ~Alive(h)
    BY <1>3, <2>1 DEF GroupInv, SeatOK
  <2>3. SeatOK(h)'
    BY <1>1, <2>1, <2>2 DEF GroupInv, SeatOK, Bystander
  <2>4. SessionOK(h)'
    BY <2>2 DEF GroupInv, SessionOK, Bystander
  <2>5. HeardOK(h)'
    BY <1>3, <2>1 DEF GroupInv, HeardOK, Bystander, QP!NewRun
  <2>6. QED
    BY <2>3, <2>4, <2>5 DEF GroupInv
<1>4. QED
  BY <1>2, <1>3 DEF Bystander

(* A step that leaves runs, sessions and the history alone: it is left to  *)
(* show what becomes of the group it is about.                             *)
LEMMA QuietStep ==
  ASSUME AgentInv, QP!IInv', DataOK', NEW g \in Groups,
         UNCHANGED <<runs, timers, shuttingDown, up, recovering, conversation, heard>>,
         \A h \in Groups \ {g} : /\ host'[h] = host[h] /\ agent'[h] = agent[h]
                                 /\ closeFile'[h] = closeFile[h] /\ groups'[h] = groups[h],
         groups'[g].pendingMessages => groups[g].pendingMessages,
         SeatOK(g)',
         host'[g].pc # "none" => host[g].pc # "none" /\ host'[g].given = host[g].given
  PROVE  AgentInv'
<1>1. ASSUME NEW h \in Groups \ {g} PROVE GroupInv(h)'
  <2>1. Bystander(h)
    BY DEF Bystander, conversation, QP!Stays, QP!SameRun, QP!NoMessageComes, AgentInv, GroupInv,
         HeardOK
  <2>2. QED
    BY <2>1, BystanderOK DEF AgentInv
<1>2. GroupInv(g)'
  <2>1. GroupInv(g)
    BY DEF AgentInv
  <2>2. SessionOK(g)'
    BY <2>1 DEF GroupInv, SessionOK, Conversing, conversation
  <2>3. HeardOK(g)'
    BY <2>1 DEF GroupInv, HeardOK
  <2>4. QED
    BY <2>2, <2>3 DEF GroupInv
<1>3. QED
  BY <1>1, <1>2 DEF AgentInv

-----------------------------------------------------------------------------
(* The agent's own steps.                                                  *)

(* An agent and a host that are not there.                                 *)
LEMMA PartsFit == Failure \in Outcome /\ NoHost \in HostState /\ NoAgent \in AgentState
<1>1. 0 \in SessionIds
  BY AgentRunAssumption DEF SessionIds
<1>2. Failure \in Outcome
  BY <1>1 DEF Failure, Outcome
<1>3. <<>> \in Seq(Outcome)
  OBVIOUS
<1>4. QED
  BY <1>1, <1>2, <1>3 DEF NoHost, NoAgent, HostState, AgentState

(* An agent that speaks.                                                   *)
LEMMA SaysOK ==
  ASSUME agent \in [Groups -> AgentState], NEW g \in Groups, NEW o \in Outcome,
         NEW p \in {"waiting", "leaving"}, Says(g, o, p)
  PROVE  /\ agent' \in [Groups -> AgentState]
         /\ \A h \in Groups \ {g} : agent'[h] = agent[h]
         /\ agent'[g].phase = p /\ agent'[g].out # <<>> /\ agent'[g].met = agent[g].met
<1> DEFINE a == agent[g]
           said == a.out
           out == Append(said, o)
           b == [a EXCEPT !.out = out, !.phase = p]
<1>1. a \in AgentState
  OBVIOUS
<1>2. out \in Seq(Outcome) /\ out # <<>>
  <2>1. said \in Seq(Outcome)
    BY <1>1 DEF AgentState
  <2> HIDE DEF said
  <2>2. QED
    BY <2>1
<1>3. agent' = [agent EXCEPT ![g] = b]
  BY DEF Says
<1> HIDE DEF out
<1>4. b \in AgentState /\ b.phase = p /\ b.out = out /\ b.met = a.met
  BY <1>1, <1>2 DEF AgentState
<1> HIDE DEF b, a
<1>5. QED
  BY <1>2, <1>3, <1>4 DEF a

(* Whatever an agent does by itself.                                       *)
LEMMA AgentKeeps ==
  ASSUME AgentInv, QP!IInv', NEW g \in Groups, AgentStep(g)
  PROVE  AgentInv'
<1>1. GroupInv(g) /\ agent \in [Groups -> AgentState] /\ agent[g] \in AgentState
  BY DEF AgentInv, DataOK
<1>2. CASE \E text \in BOOLEAN : AgentAnswers(g, text)
  <2>1. PICK text \in BOOLEAN, s \in NextSession(g) :
          /\ agent[g].phase = "working"
          /\ Says(g, [ok |-> TRUE, text |-> text, session |-> s],
                  IF ipcLoop THEN "waiting" ELSE "leaving")
          /\ issued' = IF s > issued THEN s ELSE issued
          /\ UNCHANGED <<queue, agentFrame>>
    BY <1>2 DEF AgentAnswers
  <2>2. s \in SessionIds /\ issued \in 0 .. MaxSessions
    BY <1>1, <2>1, AgentRunAssumption DEF NextSession, AgentState, SessionIds, AgentInv, DataOK
  <2>3. issued' \in 0 .. MaxSessions
    BY <2>1, <2>2 DEF SessionIds
  <2>4. [ok |-> TRUE, text |-> text, session |-> s] \in Outcome
    BY <2>2 DEF Outcome
  <2>5. /\ agent' \in [Groups -> AgentState]
        /\ \A h \in Groups \ {g} : agent'[h] = agent[h]
        /\ agent'[g].phase \in {"waiting", "leaving"}
        /\ agent'[g].out # <<>> /\ agent'[g].met = agent[g].met
    BY <1>1, <2>1, <2>4, SaysOK
  <2>6. DataOK'
    BY <2>1, <2>3, <2>5 DEF AgentInv, DataOK, StopsOK, agentFrame, conversation, process, queue
  <2>7. SeatOK(g)'
    BY <1>1, <2>1, <2>5 DEF GroupInv, SeatOK, Alive, agentFrame, queue
  <2>8. QED
    BY <2>1, <2>5, <2>6, <2>7, QuietStep DEF agentFrame, process, queue
<1>3. CASE AgentErrs(g)
  <2>1. /\ agent' \in [Groups -> AgentState]
        /\ \A h \in Groups \ {g} : agent'[h] = agent[h]
        /\ agent'[g].phase = "leaving" /\ agent'[g].met = agent[g].met
    BY <1>1, <1>3, SaysOK, PartsFit DEF AgentErrs
  <2>2. agent[g].phase = "working" /\ UNCHANGED <<queue, issued, agentFrame>>
    BY <1>3 DEF AgentErrs
  <2>3. DataOK'
    BY <2>1, <2>2 DEF AgentInv, DataOK, StopsOK, agentFrame, conversation, process, queue
  <2>4. SeatOK(g)'
    BY <1>1, <2>1, <2>2 DEF GroupInv, SeatOK, Alive, agentFrame, queue
  <2>5. QED
    BY <2>1, <2>2, <2>3, <2>4, QuietStep DEF agentFrame, process, queue
<1>4. CASE AgentCloses(g)
  <2> DEFINE o == Last(agent[g].out)
  <2>1. /\ agent[g].phase = "waiting" /\ closeFile' = [closeFile EXCEPT ![g] = FALSE]
        /\ Says(g, [ok |-> TRUE, text |-> FALSE, session |-> o.session], "leaving")
        /\ UNCHANGED <<groups, activeCount, waitingGroups, shuttingDown, runs, timers, issued,
                       agentFrame>>
    BY <1>4 DEF AgentCloses
  <2>2. o \in Outcome
    BY <1>1, <2>1 DEF Last, GroupInv, SeatOK, AgentState
  <2> HIDE DEF o
  <2>3. [ok |-> TRUE, text |-> FALSE, session |-> o.session] \in Outcome
    BY <2>2 DEF Outcome
  <2>4. /\ agent' \in [Groups -> AgentState]
        /\ \A h \in Groups \ {g} : agent'[h] = agent[h]
        /\ agent'[g].phase = "leaving" /\ agent'[g].met = agent[g].met
    BY <1>1, <2>1, <2>3, SaysOK
  <2>5. DataOK'
    BY <2>1, <2>4 DEF AgentInv, DataOK, StopsOK, agentFrame, conversation, process
  <2>6. closeFile'[g] = FALSE /\ \A h \in Groups \ {g} : closeFile'[h] = closeFile[h]
    BY <2>1 DEF AgentInv, QP!IInv
  <2>7. SeatOK(g)'
    BY <1>1, <2>1, <2>4, <2>6 DEF GroupInv, SeatOK, Alive, agentFrame
  <2>8. QED
    BY <2>1, <2>4, <2>5, <2>6, <2>7, QuietStep DEF agentFrame, process
<1>5. CASE AgentExits(g) \/ AgentDies(g)
  <2>1. /\ UNCHANGED <<queue, issued, agentFrame>>
        /\ agent' = [agent EXCEPT ![g].phase = "exited"]
           \/ agent' = [agent EXCEPT ![g].phase = "exited", ![g].clean = FALSE]
    BY <1>5 DEF AgentExits, AgentDies
  <2>2. /\ agent' \in [Groups -> AgentState] /\ agent'[g].phase = "exited"
        /\ \A h \in Groups \ {g} : agent'[h] = agent[h]
    <3> DEFINE a == agent[g]
               b == [a EXCEPT !.phase = "exited"]
               c == [a EXCEPT !.phase = "exited", !.clean = FALSE]
    <3>1. b \in AgentState /\ b.phase = "exited" /\ c \in AgentState /\ c.phase = "exited"
      BY <1>1 DEF AgentState
    <3>2. agent' = [agent EXCEPT ![g] = b] \/ agent' = [agent EXCEPT ![g] = c]
      BY <2>1
    <3> HIDE DEF b, c
    <3>3. QED
      BY <1>1, <3>1, <3>2
  <2>3. DataOK'
    BY <2>1, <2>2 DEF AgentInv, DataOK, StopsOK, agentFrame, conversation, process, queue
  <2>4. SeatOK(g)'
    BY <1>1, <2>1, <2>2 DEF GroupInv, SeatOK, Alive, agentFrame, queue
  <2>5. QED
    BY <2>1, <2>2, <2>3, <2>4, QuietStep DEF agentFrame, process, queue
<1>6. CASE OrphanEnds(g)
  <2>1. /\ orphans[g] > 0 /\ orphans' = [orphans EXCEPT ![g] = @ - 1]
        /\ closeFile' \in {closeFile, [closeFile EXCEPT ![g] = FALSE]}
        /\ UNCHANGED <<groups, activeCount, waitingGroups, shuttingDown, runs, timers, ahead,
                       conversation, host, agent, process, bounds, heard>>
    BY <1>6 DEF OrphanEnds
  <2>2. orphans' \in [Groups -> Nat] /\ StopsOK'
    BY <2>1 DEF AgentInv, DataOK, StopsOK, bounds
  <2>3. DataOK'
    BY <2>1, <2>2 DEF AgentInv, DataOK, conversation, process, bounds
  <2>4. /\ closeFile'[g] => closeFile[g]
        /\ \A h \in Groups \ {g} : closeFile'[h] = closeFile[h]
    BY <2>1 DEF AgentInv, QP!IInv
  <2>5. SeatOK(g)'
    BY <1>1, <2>1, <2>4 DEF GroupInv, SeatOK, Alive
  <2>6. QED
    BY <2>1, <2>3, <2>4, <2>5, QuietStep DEF process
<1>7. QED
  BY <1>2, <1>3, <1>4, <1>5, <1>6 DEF AgentStep

-----------------------------------------------------------------------------
(* The run's steps between its beginning and its end.                      *)

(* The agent's outputs are taken over, or it is killed.                    *)
LEMMA WaitKeeps ==
  ASSUME AgentInv, QP!IInv', NEW g \in Groups, Collect(g) \/ Timeout(g)
  PROVE  AgentInv'
<1> DEFINE a == agent[g]
           k == host[g]
           r == IF a.clean /\ a.out # <<>> THEN Last(a.out) ELSE Failure
           c == [k EXCEPT !.pc = "handling", !.left = a.out, !.result = r]
           d == [k EXCEPT !.pc = "killing"]
<1>1. /\ GroupInv(g) /\ a \in AgentState /\ k \in HostState
      /\ agent \in [Groups -> AgentState] /\ host \in [Groups -> HostState]
  BY DEF AgentInv, DataOK
<1>2. /\ k.pc = "talking" /\ agent' = [agent EXCEPT ![g] = NoAgent]
      /\ host' = [host EXCEPT ![g] = c] \/ host' = [host EXCEPT ![g] = d]
      /\ UNCHANGED <<queue, hostFrame, heard>>
  BY DEF Collect, Timeout
<1>3. r \in Outcome
  <2>1. a.out \in Seq(Outcome)
    BY <1>1 DEF AgentState
  <2>2. a.out # <<>> => Last(a.out) \in Outcome
    BY <2>1 DEF Last
  <2>3. QED
    BY <2>2, PartsFit
<1> HIDE DEF r
<1>4. /\ c \in HostState /\ c.pc = "handling" /\ c.given = k.given
      /\ d \in HostState /\ d.pc = "killing" /\ d.given = k.given
  BY <1>1, <1>3 DEF AgentState, HostState
<1> HIDE DEF c, d
<1>5. /\ host' \in [Groups -> HostState] /\ host'[g] \in {c, d}
      /\ \A h \in Groups \ {g} : host'[h] = host[h]
  BY <1>1, <1>2, <1>4
<1>6. /\ agent' \in [Groups -> AgentState] /\ agent'[g] = NoAgent
      /\ \A h \in Groups \ {g} : agent'[h] = agent[h]
  BY <1>1, <1>2, PartsFit
<1>7. DataOK'
  BY <1>2, <1>5, <1>6 DEF AgentInv, DataOK, StopsOK, hostFrame, conversation, process, bounds, queue
<1>8. SeatOK(g)'
  BY <1>1, <1>2, <1>5, <1>6 DEF GroupInv, SeatOK, Alive, NoAgent, hostFrame, queue
<1>9. QED
  BY <1>2, <1>4, <1>5, <1>6, <1>7, <1>8, QuietStep DEF hostFrame, process, queue

(* An output is handled; the group may be counted as idle, as its agent is *)
(* not alive.                                                              *)
LEMMA OutputKeeps ==
  ASSUME AgentInv, QP!IInv', NEW g \in Groups, Output(g)
  PROVE  AgentInv'
<1> DEFINE k == host[g]
           l == k.left
           o == Head(l)
           c == [k EXCEPT !.left = Tail(l), !.sent = k.sent \/ o.text, !.failed = k.failed \/ ~o.ok]
<1>1. /\ GroupInv(g) /\ k \in HostState /\ host \in [Groups -> HostState]
      /\ QP!QueueInv /\ closeFile \in [Groups -> BOOLEAN]
  BY DEF AgentInv, DataOK, QP!IInv
<1>2. /\ k.pc = "handling" /\ l # <<>> /\ host' = [host EXCEPT ![g] = c]
      /\ QP!NotifyIdle(g) \/ UNCHANGED queue
      /\ UNCHANGED <<hostFrame, agent, heard>>
  BY SameSmall DEF Output
<1>3. l \in Seq(Outcome) /\ k.sent \in BOOLEAN /\ k.failed \in BOOLEAN
  BY <1>1 DEF HostState
<1> HIDE DEF l
<1>4. o \in Outcome /\ Tail(l) \in Seq(Outcome)
  BY <1>2, <1>3
<1> HIDE DEF o
<1>6. c \in HostState /\ c.pc = "handling" /\ c.given = k.given
  <2> DEFINE s == (k.sent \/ o.text)
             f == (k.failed \/ ~o.ok)
  <2>1. s \in BOOLEAN /\ f \in BOOLEAN
    OBVIOUS
  <2> HIDE DEF s, f
  <2>2. [k EXCEPT !.left = Tail(l), !.sent = s, !.failed = f] \in HostState
    BY <1>1, <1>4, <2>1 DEF HostState
  <2>3. QED
    BY <1>1, <1>2, <2>2 DEF HostState, s, f
<1> HIDE DEF c
<1>7. /\ host' \in [Groups -> HostState] /\ host'[g] = c
      /\ \A h \in Groups \ {g} : host'[h] = host[h]
  BY <1>1, <1>2, <1>6
<1>8. /\ runs' = runs /\ timers' = timers /\ shuttingDown' = shuttingDown
      /\ \A h \in Groups \ {g} : closeFile'[h] = closeFile[h] /\ groups'[h] = groups[h]
      /\ groups'[g].pendingMessages = groups[g].pendingMessages
  <2>1. CASE QP!NotifyIdle(g)
    BY <1>1, <2>1, QP!IdleMoves, ConstantsFit DEF QP!NotifyIdle
  <2>2. CASE UNCHANGED queue
    BY <2>2 DEF queue
  <2>3. QED
    BY <1>2, <2>1, <2>2
<1>9. DataOK'
  BY <1>2, <1>7, <1>8 DEF AgentInv, DataOK, StopsOK, hostFrame, conversation, process, bounds
<1>10. SeatOK(g)'
  BY <1>1, <1>2, <1>6, <1>7, <1>8 DEF GroupInv, SeatOK, Alive, QP!Begun
<1>11. QED
  BY <1>2, <1>6, <1>7, <1>8, <1>9, <1>10, QuietStep DEF hostFrame, process

-----------------------------------------------------------------------------
(* The beginning of a run with an agent.                                   *)
LEMMA SpawnKeeps ==
  ASSUME AgentInv, QP!IInv', NEW g \in Groups, NEW i \in DOMAIN runs[g], NEW s \in SessionIds,
         Serving, QP!BeginRun(g, i), Spawn(g, s), UNCHANGED <<startFrame, heard>>,
         runs[g][i].task \in Shared \cup {NoTask} => s = sessions[g]
  PROVE  AgentInv'
<1>1. /\ GroupInv(g) /\ QP!QueueInv
      /\ agent \in [Groups -> AgentState] /\ host \in [Groups -> HostState]
      /\ closeFile \in [Groups -> BOOLEAN] /\ sessions = dbSessions
  BY DEF AgentInv, DataOK, QP!IInv, Serving
<1>2. /\ groups' = groups /\ runs[g][i].phase = "created"
      /\ \A h \in Groups \ {g} : runs'[h] = runs[h]
      /\ runs'[g] = Append(<<>>, [task |-> runs[g][i].task, phase |-> "running"])
      /\ UNCHANGED <<shuttingDown, timers, closeFile>>
  BY <1>1, QP!BeginMoves, ConstantsFit DEF QP!BeginRun
<1>3. /\ runs'[g] # <<>> /\ DOMAIN runs'[g] = {1}
      /\ runs'[g][1].task = runs[g][i].task /\ runs'[g][1].phase = "running"
  BY <1>2, OneRun
<1> DEFINE c == [NoHost EXCEPT !.pc = "talking", !.given = s]
           b == [NoAgent EXCEPT !.phase = "working", !.given = s, !.met = closeFile[g]]
<1>4. c \in HostState /\ c.pc = "talking" /\ c.given = s
  <2>1. NoHost \in HostState
    BY PartsFit
  <2>2. QED
    BY <2>1 DEF HostState
<1>5. b \in AgentState /\ b.phase = "working" /\ b.met = closeFile[g]
  <2>1. NoAgent \in AgentState /\ closeFile[g] \in BOOLEAN
    BY <1>1, PartsFit
  <2>2. QED
    BY <2>1 DEF AgentState
<1>6. host' = [host EXCEPT ![g] = c] /\ agent' = [agent EXCEPT ![g] = b]
  BY DEF Spawn
<1> HIDE DEF c, b
<1>7. /\ host' \in [Groups -> HostState] /\ agent' \in [Groups -> AgentState]
      /\ host'[g] = c /\ agent'[g] = b
      /\ \A h \in Groups \ {g} : host'[h] = host[h] /\ agent'[h] = agent[h]
  BY <1>1, <1>4, <1>5, <1>6
<1>8. DataOK'
  BY <1>2, <1>7 DEF AgentInv, DataOK, StopsOK, startFrame, conversation, process, bounds
<1>9. ASSUME NEW h \in Groups \ {g} PROVE GroupInv(h)'
  <2>1. GroupInv(h)
    BY DEF AgentInv
  <2>2. Bystander(h)
    BY <1>2, <1>7, <2>1 DEF Bystander, startFrame, conversation, process, QP!Stays, QP!SameRun,
         QP!NoMessageComes, GroupInv, HeardOK
  <2>3. QED
    BY <2>1, <2>2, BystanderOK
<1>10. SeatOK(g)'
  BY <1>1, <1>2, <1>3, <1>4, <1>5, <1>7 DEF GroupInv, SeatOK, Alive, QP!Begun
<1>11. SessionOK(g)'
  BY <1>1, <1>2, <1>3, <1>4, <1>7 DEF GroupInv, SessionOK, Conversing, startFrame, conversation
<1>12. HeardOK(g)'
  BY <1>1, <1>2, <1>3 DEF GroupInv, HeardOK, startFrame, process
<1>13. QED
  BY <1>8, <1>9, <1>10, <1>11, <1>12 DEF AgentInv, GroupInv

(* A turn, or a task, begins.                                              *)
LEMMA StartsKeep ==
  ASSUME AgentInv, QP!IInv', NEW g \in Groups, NEW i \in DOMAIN runs[g],
         StartTurn(g, i) \/ StartTask(g, i)
  PROVE  AgentInv'
<1>1. sessions[g] \in SessionIds /\ 0 \in SessionIds
  BY AgentRunAssumption DEF AgentInv, DataOK, SessionIds
<1>2. CASE StartTurn(g, i)
  BY <1>1, <1>2, SameSmall, SpawnKeeps DEF StartTurn
<1>3. CASE StartTask(g, i)
  <2>1. /\ Serving /\ QP!BeginRun(g, i) /\ runs[g][i].task # NoTask
        /\ Spawn(g, IF runs[g][i].task \in Shared THEN sessions[g] ELSE 0)
        /\ UNCHANGED <<startFrame, heard>>
    BY <1>3, SameSmall DEF StartTask, IsTurn
  <2>2. QED
    BY <1>1, <2>1, SpawnKeeps
<1>4. QED
  BY <1>2, <1>3

-----------------------------------------------------------------------------
(* The end of a run.                                                       *)

(* Nobody but the group is concerned: it is left to show what becomes of   *)
(* its session.                                                            *)
LEMMA EndKeeps ==
  ASSUME AgentInv, QP!IInv', DataOK', NEW g \in Groups, NEW i \in DOMAIN runs[g],
         QP!RunEnds(g, i), up, recovering = {},
         \A h \in Groups \ {g} : host'[h] = host[h] /\ timers'[h] = timers[h],
         host'[g].pc = "none",
         UNCHANGED <<agent, closeFile, shuttingDown, process>>,
         Alive(g) => shuttingDown,
         \A h \in Groups \ {g} : /\ dbSessions'[h] = dbSessions[h] /\ latest'[h] = latest[h]
                                 /\ (h \in cut' <=> h \in cut) /\ (h \in heard' => h \in heard),
         g \notin cut' => dbSessions'[g] = latest'[g],
         g \in heard' => ~groups[g].pendingMessages /\ timers'[g] = 0
  PROVE  AgentInv'
<1>1. QP!QueueInv /\ GroupInv(g)
  BY DEF AgentInv, QP!IInv
<1>2. \A h \in Groups :
        \/ h # g /\ QP!Stays(h)
        \/ h = g /\ QP!Rests(h)
        \/ /\ h = g \/ runs[h] = <<>>
           /\ \E t \in Tasks \cup {NoTask} :
                QP!Starts(h, t) /\ (t = NoTask => groups[h].pendingMessages)
  BY <1>1, QP!EndMoves, ConstantsFit
<1>3. ASSUME NEW h \in Groups \ {g} PROVE GroupInv(h)'
  <2>1. GroupInv(h)
    BY DEF AgentInv
  <2>2. Bystander(h)
    BY <1>2, <2>1 DEF Bystander, process, GroupInv, HeardOK
  <2>3. QED
    BY <2>1, <2>2, BystanderOK
<1>4. Alive(g)' <=> Alive(g)
  BY DEF Alive
<1>5. SessionOK(g)'
  BY DEF SessionOK
<1>6. CASE QP!Rests(g)
  <2>1. SeatOK(g)'
    BY <1>1, <1>4, <1>6 DEF GroupInv, SeatOK, QP!Rests
  <2>2. HeardOK(g)'
    BY <1>6 DEF HeardOK, QP!Rests, QP!NoMessageComes, process
  <2>3. QED
    BY <1>3, <1>5, <2>1, <2>2 DEF AgentInv, GroupInv
<1>7. ASSUME NEW t \in Tasks \cup {NoTask}, QP!Starts(g, t), t = NoTask => groups[g].pendingMessages
      PROVE  AgentInv'
  <2>1. /\ runs'[g] # <<>> /\ DOMAIN runs'[g] = {1} /\ runs'[g][1] = QP!NewRun(t)
        /\ ~groups'[g].idleWaiting /\ ~shuttingDown
        /\ groups'[g].pendingMessages => groups[g].pendingMessages
    BY <1>7, OneRun DEF QP!Starts, QP!NoMessageComes
  <2>2. SeatOK(g)'
    BY <1>1, <1>4, <2>1 DEF GroupInv, SeatOK
  <2>3. HeardOK(g)'
    BY <1>7, <2>1 DEF HeardOK, process, QP!NewRun
  <2>4. QED
    BY <1>3, <1>5, <2>2, <2>3 DEF AgentInv, GroupInv
<1>8. QED
  BY <1>2, <1>6, <1>7

(* Every ending of a run that had no agent, or is over.                    *)
LEMMA EndsKeep ==
  ASSUME AgentInv, QP!IInv', NEW g \in Groups, NEW i \in DOMAIN runs[g],
         NoAgentStarts(g, i) \/ RunEnds(g, i)
  PROVE  AgentInv'
<1>1. /\ GroupInv(g) /\ QP!QueueInv /\ host \in [Groups -> HostState] /\ host[g] \in HostState
      /\ timers \in [Groups -> Nat]
      /\ ~shuttingDown => QP!AllAwake(groups, runs)
  BY DEF AgentInv, DataOK, QP!IInv, QP!QueueInv
<1>2. i = 1 /\ DOMAIN runs[g] = {1}
  <2>1. i = 1 /\ Len(runs[g]) = 1 /\ runs[g] \in Seq(QP!Run)
    BY <1>1, QP!OnlyRun, ConstantsFit
  <2>2. QED
    BY <2>1
<1>3. QP!RunEnds(g, i) /\ up /\ recovering = {}
  BY EndsOfRuns DEF NoAgentStarts, RunEnds, CommitTurn, FailTurn, RaiseTurn, EndTask, CancelRun,
     Serving
<1>4. UNCHANGED <<agent, orphans, process, bounds, closeFile, shuttingDown>>
  BY <1>3 DEF NoAgentStarts, RunEnds, CommitTurn, FailTurn, RaiseTurn, EndTask, CancelRun, endFrame,
     startFrame, QP!RunEnds, QP!MessagesSucceed, QP!MessagesFail, QP!MessagesCancelled,
     QP!TaskEnds, QP!RunNeverBegins
<1>5. host' \in [Groups -> HostState] /\ host'[g].pc = "none"
      /\ \A h \in Groups \ {g} : host'[h] = host[h]
  <2>1. CASE NoAgentStarts(g, i)
    <3>1. host' = host /\ runs[g][i].phase = "created"
      BY <2>1 DEF NoAgentStarts
    <3>2. host[g].pc = "none"
      BY <1>1, <3>1 DEF GroupInv, SeatOK, QP!Begun
    <3>3. QED
      BY <1>1, <3>1, <3>2
  <2>2. CASE RunEnds(g, i)
    <3>1. host' = [host EXCEPT ![g] = NoHost]
      BY <2>2 DEF RunEnds, CommitTurn, FailTurn, RaiseTurn, EndTask, CancelRun, Over
    <3>2. NoHost.pc = "none" /\ NoHost \in HostState
      BY PartsFit DEF NoHost
    <3>3. QED
      BY <1>1, <3>1, <3>2
  <2>3. QED
    BY <2>1, <2>2
<1>6. \A h \in Groups \ {g} : timers'[h] = timers[h]
  BY <1>1, <1>3 DEF QP!RunEnds, QP!MessagesSucceed, QP!MessagesFail, QP!ScheduleTimer,
     QP!MessagesCancelled, QP!TaskEnds, QP!RunNeverBegins
<1>7. Alive(g) => shuttingDown
  <2>1. CASE host[g].pc \in {"killing", "handling", "none"}
    BY <1>1, <2>1 DEF GroupInv, SeatOK
  <2>2. CASE NoAgentStarts(g, i)
    BY <1>1, <2>2 DEF NoAgentStarts, GroupInv, SeatOK, QP!Begun
  <2>3. CASE CommitTurn(g, i) \/ FailTurn(g, i) \/ RaiseTurn(g, i) \/ EndTask(g, i)
    <3>1. host[g].pc \in {"killing", "handling"}
      BY <2>3 DEF CommitTurn, FailTurn, RaiseTurn, EndTask, Returned, TimedOut, SendRaises
    <3>2. QED
      BY <2>1, <3>1
  <2>4. CASE CancelRun(g, i)
    <3>1. runs[g][i].phase \in {"cancelling", "stillborn"}
      BY <2>4, SameSmall, SameEnds DEF CancelRun, QP!MessagesCancelled, QP!RunNeverBegins
    <3>2. QED
      BY <1>1, <3>1 DEF QP!AllAwake, QP!AwakeOK
  <2>5. QED
    BY <2>2, <2>3, <2>4 DEF RunEnds
<1> DEFINE same == UNCHANGED <<sessions, dbSessions, latest, cut>>
           newer == \E s \in SessionIds : Remember(g, s)
<1>8. same \/ newer
  <2>1. CASE CommitTurn(g, i) \/ EndTask(g, i)
    <3>1. host[g].result.session \in SessionIds
      BY <1>1 DEF HostState, Outcome
    <3>2. QED
      BY <2>1, <3>1 DEF CommitTurn, EndTask, conversation
  <2>2. CASE ~(CommitTurn(g, i) \/ EndTask(g, i))
    BY <2>2 DEF NoAgentStarts, RunEnds, FailTurn, RaiseTurn, CancelRun, startFrame, conversation
  <2>3. QED
    BY <2>1, <2>2
<1>9. /\ {sessions', dbSessions', latest'} \subseteq [Groups -> SessionIds]
      /\ cut' \subseteq Groups /\ sessions' = dbSessions'
      /\ \A h \in Groups \ {g} : /\ dbSessions'[h] = dbSessions[h] /\ latest'[h] = latest[h]
                                 /\ (h \in cut' <=> h \in cut)
      /\ g \notin cut' => dbSessions'[g] = latest'[g]
  <2>1. /\ sessions = dbSessions /\ dbSessions \in [Groups -> SessionIds]
        /\ latest \in [Groups -> SessionIds] /\ cut \subseteq Groups
        /\ g \notin cut => dbSessions[g] = latest[g]
    BY <1>1, <1>3 DEF AgentInv, DataOK, GroupInv, SessionOK
  <2>2. CASE same
    BY <2>1, <2>2
  <2>3. ASSUME NEW s \in SessionIds, Remember(g, s), s = 0 PROVE same
    BY <2>3 DEF Remember, KeepSession
  <2>4. ASSUME NEW s \in SessionIds, Remember(g, s), s # 0
        PROVE  /\ sessions' = [sessions EXCEPT ![g] = s]
               /\ dbSessions' = [dbSessions EXCEPT ![g] = s]
               /\ latest' = [latest EXCEPT ![g] = s] /\ cut' = cut \ {g}
    BY <2>4 DEF Remember, KeepSession
  <2> HIDE DEF same
  <2>5. QED
    BY <1>8, <2>1, <2>2, <2>3, <2>4
<1>10. /\ \A h \in Groups \ {g} : h \in heard' => h \in heard
       /\ heard' \subseteq Groups
       /\ g \in heard' => ~groups[g].pendingMessages /\ timers'[g] = 0
  <2>1. heard \subseteq Groups
    BY DEF AgentInv, DataOK
  <2>2. CASE heard' = heard
    <3>1. g \in heard => runs[g][i].task # NoTask
      BY <1>1 DEF GroupInv, HeardOK
    <3>2. runs[g][i].task # NoTask => timers' = timers
      BY <1>3 DEF QP!RunEnds, QP!MessagesSucceed, QP!MessagesFail, QP!MessagesCancelled,
         QP!TaskEnds, QP!RunNeverBegins, QP!RunIsMessages
    <3>3. QED
      BY <1>1, <2>1, <2>2, <3>1, <3>2 DEF GroupInv, HeardOK
  <2>3. CASE FailTurn(g, i)
    <3>1. CASE host[g].sent /\ ~groups[g].pendingMessages /\ timers[g] = 0
      <4>1. heard' = heard \cup {g} /\ timers' = timers
        BY <2>3, <3>1, SameEnds DEF FailTurn, QP!MessagesSucceed
      <4>2. QED
        BY <2>1, <3>1, <4>1
    <3>2. CASE ~(host[g].sent /\ ~groups[g].pendingMessages /\ timers[g] = 0)
      BY <2>2, <2>3, <3>2 DEF FailTurn
    <3>3. QED
      BY <3>1, <3>2
  <2>4. QED
    BY <2>2, <2>3 DEF NoAgentStarts, RunEnds, CommitTurn, RaiseTurn, EndTask, CancelRun
<1>11. ahead' \in [Groups -> BOOLEAN]
  <2>1. ahead \in [Groups -> BOOLEAN] /\ host[g].newer \in BOOLEAN
    BY <1>1 DEF AgentInv, DataOK, HostState
  <2>2. ahead' = ahead \/ ahead' = [ahead EXCEPT ![g] = host[g].newer]
    BY DEF NoAgentStarts, RunEnds, CommitTurn, FailTurn, RaiseTurn, EndTask, CancelRun, startFrame
  <2>3. QED
    BY <2>1, <2>2
<1> HIDE DEF same, newer
<1>12. DataOK'
  BY <1>4, <1>5, <1>9, <1>10, <1>11 DEF AgentInv, DataOK, StopsOK, process, bounds
<1>13. QED
  BY <1>3, <1>4, <1>5, <1>6, <1>7, <1>9, <1>10, <1>12, EndKeeps

-----------------------------------------------------------------------------
(* Everything else.                                                        *)

(* A check of a group's messages, for whatever reason.                     *)
LEMMA CheckKeeps ==
  ASSUME AgentInv, QP!IInv', DataOK', NEW g \in Groups, QP!CheckMessages(g),
         UNCHANGED <<agent, closeFile, shuttingDown, conversation>>,
         \A h \in Groups \ {g} : host'[h] = host[h] /\ timers'[h] = timers[h],
         host'[g].pc = host[g].pc, host'[g].given = host[g].given,
         g \notin heard', heard' \subseteq heard, heard' # {} => up' /\ recovering' = {}
  PROVE  AgentInv'
<1>1. QP!QueueInv /\ GroupInv(g)
  BY DEF AgentInv, QP!IInv
<1>2. \A h \in Groups :
        \/ QP!Stays(h)
        \/ h = g /\ QP!SameRun(h)
        \/ h = g /\ runs[h] = <<>> /\ QP!Starts(h, NoTask)
  BY <1>1, QP!CheckMoves, ConstantsFit
<1>3. ASSUME NEW h \in Groups \ {g} PROVE GroupInv(h)'
  <2>1. GroupInv(h)
    BY DEF AgentInv
  <2>2. Bystander(h)
    BY <1>2, <2>1 DEF Bystander, conversation
  <2>3. QED
    BY <2>1, <2>2, BystanderOK
<1>4. Alive(g)' <=> Alive(g)
  BY DEF Alive
<1>5. HeardOK(g)'
  BY DEF HeardOK
<1>6. CASE QP!Stays(g) \/ QP!SameRun(g)
  <2>1. runs'[g] = runs[g] /\ groups'[g].idleWaiting = groups[g].idleWaiting
    BY <1>6 DEF QP!Stays, QP!SameRun
  <2>2. SeatOK(g)'
    BY <1>1, <1>4, <2>1 DEF GroupInv, SeatOK
  <2>3. SessionOK(g)'
    BY <1>1, <2>1 DEF GroupInv, SessionOK, Conversing, conversation
  <2>4. QED
    BY <1>3, <1>5, <2>2, <2>3 DEF AgentInv, GroupInv
<1>7. CASE runs[g] = <<>> /\ QP!Starts(g, NoTask)
  <2>1. /\ runs'[g] # <<>> /\ DOMAIN runs'[g] = {1} /\ runs'[g][1] = QP!NewRun(NoTask)
        /\ ~groups'[g].idleWaiting /\ ~shuttingDown
    BY <1>7, OneRun DEF QP!Starts
  <2>2. host[g].pc = "none" /\ ~Alive(g)
    BY <1>1, <1>7, <2>1 DEF GroupInv, SeatOK
  <2>3. SeatOK(g)'
    BY <1>1, <1>4, <2>1, <2>2 DEF GroupInv, SeatOK
  <2>4. SessionOK(g)'
    BY <1>1, <2>2 DEF GroupInv, SessionOK, conversation
  <2>5. QED
    BY <1>3, <1>5, <2>3, <2>4 DEF AgentInv, GroupInv
<1>8. QED
  BY <1>2, <1>6, <1>7

(* Messages, retries and the recovery check.                               *)
LEMMA ChecksKeep ==
  ASSUME AgentInv, QP!IInv', NEW g \in Groups, Deliver(g) \/ Retry(g) \/ Recover(g)
  PROVE  AgentInv'
<1>1. /\ GroupInv(g) /\ host \in [Groups -> HostState] /\ host[g] \in HostState
      /\ ahead \in [Groups -> BOOLEAN] /\ timers \in [Groups -> Nat]
  BY DEF AgentInv, DataOK, QP!IInv
<1>2. CASE Deliver(g)
  <2> DEFINE k == host[g]
             c == [k EXCEPT !.newer = TRUE]
  <2>1. /\ QP!CheckMessages(g) /\ UNCHANGED <<shuttingDown, timers, closeFile, otherFrame>>
        /\ calls < MaxCalls /\ calls' = calls + 1 /\ ahead' = [ahead EXCEPT ![g] = TRUE]
        /\ heard' = heard \ {g} /\ up /\ recovering = {}
        /\ host' = host \/ host' = [host EXCEPT ![g] = c]
    BY <1>2, SameSmall DEF Deliver, CallSome, QP!EnqueueMessageCheck, Serving
  <2>2. c \in HostState /\ c.pc = k.pc /\ c.given = k.given
    BY <1>1 DEF HostState
  <2> HIDE DEF c
  <2>3. /\ host' \in [Groups -> HostState] /\ host'[g].pc = k.pc /\ host'[g].given = k.given
        /\ \A h \in Groups \ {g} : host'[h] = host[h]
    BY <1>1, <2>1, <2>2
  <2>4. calls' \in 0 .. MaxCalls /\ ahead' \in [Groups -> BOOLEAN]
    BY <1>1, <2>1, AgentRunAssumption DEF AgentInv, DataOK
  <2>5. DataOK'
    BY <2>1, <2>3, <2>4 DEF AgentInv, DataOK, StopsOK, otherFrame, conversation, process
  <2>6. QED
    BY <2>1, <2>3, <2>5, CheckKeeps DEF otherFrame, process
<1>3. CASE Retry(g)
  <2>1. /\ QP!CheckMessages(g) /\ timers[g] > 0 /\ timers' = [timers EXCEPT ![g] = @ - 1]
        /\ UNCHANGED <<shuttingDown, closeFile, otherFrame, calls, ahead, host, heard>>
        /\ up /\ recovering = {}
    BY <1>3, SameSmall DEF Retry, QP!RetryFires, Serving
  <2>2. g \notin heard
    BY <1>1, <2>1 DEF GroupInv, HeardOK
  <2>3. DataOK'
    BY <2>1 DEF AgentInv, DataOK, StopsOK, otherFrame, conversation, process
  <2>4. \A h \in Groups \ {g} : timers'[h] = timers[h]
    BY <1>1, <2>1
  <2>5. QED
    BY <2>1, <2>2, <2>3, <2>4, CheckKeeps DEF otherFrame, process
<1>4. CASE Recover(g)
  <2>1. /\ g \in recovering /\ recovering' = recovering \ {g}
        /\ QP!EnqueueMessageCheck(g) \/ UNCHANGED queue
        /\ UNCHANGED <<ahead, conversation, host, agent, orphans, up, ipcLoop, bounds, heard>>
    BY <1>4, SameSmall DEF Recover
  <2>2. heard = {}
    BY <2>1 DEF AgentInv, DataOK, GroupInv, HeardOK
  <2>3. shuttingDown' = shuttingDown
    BY <2>1 DEF QP!EnqueueMessageCheck, queue
  <2>4. DataOK'
    BY <2>1, <2>3 DEF AgentInv, DataOK, StopsOK, conversation, bounds
  <2>5. CASE QP!EnqueueMessageCheck(g)
    BY <2>1, <2>2, <2>4, <2>5, CheckKeeps DEF QP!EnqueueMessageCheck
  <2>6. CASE UNCHANGED queue
    <3>1. ASSUME NEW h \in Groups PROVE GroupInv(h)'
      <4>1. GroupInv(h)
        BY DEF AgentInv
      <4>2. Bystander(h)
        BY <2>1, <2>2, <2>6 DEF Bystander, queue, conversation, QP!Stays, QP!SameRun,
             QP!NoMessageComes
      <4>3. QED
        BY <4>1, <4>2, BystanderOK
    <3>2. QED
      BY <2>4, <3>1 DEF AgentInv
  <2>7. QED
    BY <2>1, <2>5, <2>6
<1>5. QED
  BY <1>2, <1>3, <1>4

(* A due task.                                                             *)
LEMMA DueKeeps ==
  ASSUME AgentInv, QP!IInv', NEW t \in Tasks, DueTask(t)
  PROVE  AgentInv'
<1> DEFINE g == ChatOf[t]
<1>1. /\ g \in Groups /\ QP!QueueInv /\ closeFile \in [Groups -> BOOLEAN] /\ t # NoTask
  BY AgentRunAssumption DEF AgentInv, QP!IInv
<1>2. /\ QP!EnqueueTask(g, t) /\ UNCHANGED <<otherFrame, ahead, host, heard>>
      /\ calls < MaxCalls /\ calls' = calls + 1
  BY SameSmall DEF DueTask, CallSome
<1> HIDE DEF g
<1>3. /\ \A h \in Groups : QP!Stays(h) \/ (h = g /\ runs[h] = <<>> /\ QP!Starts(h, t))
      /\ \A h \in Groups : closeFile'[h] => closeFile[h] \/ groups[h].idleWaiting
  BY <1>1, <1>2, QP!TaskMoves, ConstantsFit
<1>4. UNCHANGED <<shuttingDown, timers>>
  BY <1>2 DEF QP!EnqueueTask
<1>5. DataOK'
  <2>1. calls' \in 0 .. MaxCalls
    BY <1>2, AgentRunAssumption DEF AgentInv, DataOK
  <2>2. QED
    BY <1>2, <1>4, <2>1 DEF AgentInv, DataOK, StopsOK, otherFrame, conversation, process
<1>6. ASSUME NEW h \in Groups PROVE GroupInv(h)'
  <2>1. GroupInv(h)
    BY DEF AgentInv
  <2>2. Bystander(h)
    BY <1>1, <1>2, <1>3, <1>4, <2>1 DEF Bystander, otherFrame, conversation, process, GroupInv,
       HeardOK
  <2>3. QED
    BY <2>1, <2>2, BystanderOK
<1>7. QED
  BY <1>5, <1>6 DEF AgentInv

(* A shutdown cancels the runs, and leaves their agents alive.             *)
LEMMA ShutdownKeeps ==
  ASSUME AgentInv, QP!IInv', Shutdown
  PROVE  AgentInv'
<1>1. /\ stops < MaxStops /\ stops' = stops + 1 /\ QP!Shutdown
      /\ UNCHANGED <<ahead, conversation, host, agent, orphans, process, issued, calls, heard>>
  BY SameSmall DEF Shutdown, StopSome
<1>2. QP!QueueInv
  BY DEF AgentInv, QP!IInv
<1>3. /\ shuttingDown' /\ groups' = groups /\ closeFile' = closeFile
      /\ \A g \in Groups : /\ DOMAIN runs'[g] = DOMAIN runs[g]
                           /\ \A i \in DOMAIN runs[g] :
                                /\ runs'[g][i].task = runs[g][i].task
                                /\ runs'[g][i].phase # "created"
                                /\ QP!Begun(runs[g][i]) => QP!Begun(runs'[g][i])
      /\ timers' = [g \in Groups |-> 0]
  BY <1>1, <1>2, QP!ShutdownMoves, ConstantsFit
<1>4. ~shuttingDown
  BY <1>1 DEF QP!Shutdown
<1>5. DataOK'
  <2>1. stops' \in 0 .. MaxStops /\ StopsOK'
    BY <1>1, <1>3, <1>4, AgentRunAssumption DEF AgentInv, DataOK, StopsOK
  <2>2. QED
    BY <1>1, <2>1 DEF AgentInv, DataOK, conversation, process
<1>6. ASSUME NEW g \in Groups PROVE GroupInv(g)'
  <2>1. GroupInv(g) /\ (runs[g] # <<>> => runs'[g] # <<>>)
    BY <1>2, <1>3 DEF AgentInv, QP!QueueInv, QP!GroupsOK
  <2>2. SeatOK(g)'
    BY <1>1, <1>3, <2>1 DEF GroupInv, SeatOK, Alive
  <2>3. SessionOK(g)'
    BY <1>1, <1>3, <2>1 DEF GroupInv, SessionOK, Conversing, conversation
  <2>4. HeardOK(g)'
    BY <1>1, <1>3, <2>1 DEF GroupInv, HeardOK, process
  <2>5. QED
    BY <2>2, <2>3, <2>4 DEF GroupInv
<1>7. QED
  BY <1>5, <1>6 DEF AgentInv

(* The end of the process: nothing runs any more; children may go on.      *)
LEMMA LostKeeps ==
  ASSUME AgentInv, QP!IInv', MemoryLost,
         ahead' \in [Groups -> BOOLEAN], latest' \in [Groups -> SessionIds], cut' \subseteq Groups,
         \A g \in Groups : g \notin cut' => g \notin cut /\ latest'[g] = latest[g],
         stops' \in 0 .. MaxStops, stops <= stops', shuttingDown \/ stops < stops'
  PROVE  AgentInv'
<1>1. /\ runs' = [g \in Groups |-> <<>>] /\ timers' = [g \in Groups |-> 0] /\ ~shuttingDown'
      /\ host' = [g \in Groups |-> NoHost] /\ agent' = [g \in Groups |-> NoAgent]
      /\ sessions' = [g \in Groups |-> 0] /\ ~up' /\ recovering' = {} /\ heard' = {}
      /\ UNCHANGED <<closeFile, ipcLoop, dbSessions, issued, calls>> /\ up' \in BOOLEAN
  BY DEF MemoryLost
<1>2. orphans' \in [Groups -> Nat] /\ StopsOK'
  <2>1. PICK S : orphans' = [g \in Groups |-> IF g \in S THEN orphans[g] + 1 ELSE orphans[g]]
    BY DEF MemoryLost
  <2>2. orphans \in [Groups -> Nat] /\ stops \in Nat /\ stops' \in Nat
    BY AgentRunAssumption DEF AgentInv, DataOK
  <2>3. orphans' \in [Groups -> Nat]
    BY <2>1, <2>2
  <2>4. ASSUME NEW g \in Groups PROVE orphans'[g] <= stops'
    <3>1. orphans'[g] <= orphans[g] + 1 /\ orphans[g] \in Nat
      BY <2>1, <2>2
    <3>2. IF shuttingDown THEN orphans[g] < stops ELSE orphans[g] <= stops
      BY DEF AgentInv, DataOK, StopsOK
    <3>3. orphans'[g] \in Nat
      BY <2>3
    <3>4. QED
      BY <2>2, <3>1, <3>2, <3>3
  <2>5. QED
    BY <1>1, <2>3, <2>4 DEF StopsOK
<1>3. DataOK'
  <2>1. /\ host' \in [Groups -> HostState] /\ agent' \in [Groups -> AgentState]
        /\ sessions' \in [Groups -> SessionIds]
    <3>1. 0 \in SessionIds
      BY AgentRunAssumption DEF SessionIds
    <3>2. QED
      BY <1>1, <3>1, PartsFit
  <2>2. QED
    BY <1>1, <1>2, <2>1 DEF AgentInv, DataOK
<1>4. ASSUME NEW g \in Groups PROVE GroupInv(g)'
  <2>1. /\ GroupInv(g) /\ runs'[g] = <<>> /\ host'[g].pc = "none" /\ agent'[g].phase = "none"
    BY <1>1 DEF AgentInv, NoHost, NoAgent
  <2>2. SeatOK(g)'
    BY <2>1 DEF SeatOK, Alive
  <2>3. SessionOK(g)'
    BY <1>1, <2>1 DEF GroupInv, SessionOK
  <2>4. HeardOK(g)'
    BY <1>1 DEF HeardOK
  <2>5. QED
    BY <2>2, <2>3, <2>4 DEF GroupInv
<1>5. QED
  BY <1>3, <1>4 DEF AgentInv

(* A crash, between two transactions too, and the end after a shutdown.    *)
LEMMA StopsKeep ==
  ASSUME AgentInv, QP!IInv', Crash \/ Exit \/ \E g \in Groups : CrashInCommit(g)
  PROVE  AgentInv'
<1>1. /\ ahead \in [Groups -> BOOLEAN] /\ latest \in [Groups -> SessionIds] /\ cut \subseteq Groups
      /\ stops \in 0 .. MaxStops /\ MaxStops \in Nat
  BY AgentRunAssumption DEF AgentInv, DataOK
<1>2. CASE Crash
  <2>1. MemoryLost /\ UNCHANGED <<ahead, latest, cut>> /\ stops < MaxStops /\ stops' = stops + 1
    BY <1>2 DEF Crash, StopSome
  <2>2. QED
    BY <1>1, <2>1, LostKeeps
<1>3. CASE Exit
  <2>1. MemoryLost /\ UNCHANGED <<ahead, latest, cut, stops>> /\ shuttingDown
    BY <1>3 DEF Exit
  <2>2. QED
    BY <1>1, <2>1, LostKeeps
<1>4. ASSUME NEW g \in Groups, CrashInCommit(g) PROVE AgentInv'
  <2> DEFINE s == host[g].result.session
  <2>1. /\ MemoryLost /\ stops < MaxStops /\ stops' = stops + 1
        /\ ahead' = [ahead EXCEPT ![g] = host[g].newer]
        /\ latest' = KeepSession(latest, g, s)
        /\ cut' = IF s = 0 THEN cut ELSE cut \cup {g}
    BY <1>4 DEF CrashInCommit, StopSome
  <2>2. s \in SessionIds /\ host[g].newer \in BOOLEAN
    BY DEF AgentInv, DataOK, HostState, Outcome
  <2> HIDE DEF s
  <2>3. ahead' \in [Groups -> BOOLEAN]
    BY <1>1, <2>1, <2>2
  <2>4. /\ latest' \in [Groups -> SessionIds] /\ cut' \subseteq Groups
        /\ \A h \in Groups : h \notin cut' => h \notin cut /\ latest'[h] = latest[h]
    BY <1>1, <2>1, <2>2 DEF KeepSession
  <2>5. QED
    BY <1>1, <2>1, <2>3, <2>4, LostKeeps
<1>5. QED
  BY <1>2, <1>3, <1>4

(* A start.                                                                *)
LEMMA StartKeeps ==
  ASSUME AgentInv, QP!IInv', Start
  PROVE  AgentInv'
<1>1. /\ ~up /\ up' = TRUE /\ recovering' = Groups /\ ipcLoop' \in BOOLEAN
      /\ sessions' = dbSessions
      /\ UNCHANGED <<queue, ahead, dbSessions, latest, cut, host, agent, orphans, bounds, heard>>
  BY DEF Start
<1>2. DataOK'
  BY <1>1 DEF AgentInv, DataOK, StopsOK, bounds, queue
<1>3. ASSUME NEW h \in Groups PROVE GroupInv(h)'
  <2>1. GroupInv(h) /\ h \notin heard
    BY <1>1 DEF AgentInv, GroupInv, HeardOK
  <2>2. Bystander(h)
    BY <1>1, <2>1 DEF Bystander, queue, QP!Stays, QP!SameRun, QP!NoMessageComes
  <2>3. QED
    BY <2>1, <2>2, BystanderOK
<1>4. QED
  BY <1>2, <1>3 DEF AgentInv

-----------------------------------------------------------------------------
(* The invariant holds.                                                    *)

(* Nothing has run yet.                                                    *)
LEMMA InitAgent == Init => AgentInv
<1> SUFFICES ASSUME Init PROVE AgentInv
  OBVIOUS
<1>1. QP!IInv
  <2>1. QP!Init
    BY DEF Init, Q!Init, QP!Init, Q!FreshGroup, QP!FreshGroup
  <2>2. QED
    BY <2>1, QP!InitIInv, ConstantsFit
<1>2. /\ runs = [g \in Groups |-> <<>>] /\ shuttingDown = FALSE
      /\ sessions = [g \in Groups |-> 0] /\ dbSessions = sessions /\ latest = sessions
      /\ cut = {} /\ heard = {} /\ host = [g \in Groups |-> NoHost]
      /\ agent = [g \in Groups |-> NoAgent] /\ orphans = [g \in Groups |-> 0]
      /\ ahead = [g \in Groups |-> FALSE] /\ up = FALSE /\ recovering = {} /\ ipcLoop = FALSE
      /\ issued = 0 /\ calls = 0 /\ stops = 0
  BY DEF Init, Q!Init
<1>3. DataOK
  <2>1. 0 \in SessionIds /\ 0 \in Nat /\ 0 \in 0 .. MaxSessions /\ 0 \in 0 .. MaxCalls
        /\ 0 \in 0 .. MaxStops
    BY AgentRunAssumption DEF SessionIds
  <2>2. StopsOK
    BY <1>2 DEF StopsOK
  <2>3. QED
    BY <1>2, <2>1, <2>2, PartsFit DEF DataOK
<1>4. ASSUME NEW g \in Groups PROVE GroupInv(g)
  BY <1>2 DEF GroupInv, SeatOK, SessionOK, HeardOK, Alive, NoHost, NoAgent
<1>5. QED
  BY <1>1, <1>3, <1>4 DEF AgentInv

(* Every step keeps it: one case per action, or family of actions.         *)
LEMMA NextAgent == AgentInv /\ [Next]_vars => AgentInv'
<1> SUFFICES ASSUME AgentInv, [Next]_vars PROVE AgentInv'
  OBVIOUS
<1>1. QP!IInv'
  BY QueueKeeps DEF AgentInv
<1>2. CASE UNCHANGED vars
  <2>1. DataOK'
    BY <1>2 DEF AgentInv, DataOK, StopsOK, vars, queue, conversation, process, bounds
  <2>2. ASSUME NEW h \in Groups PROVE GroupInv(h)'
    <3>1. GroupInv(h)
      BY DEF AgentInv
    <3>2. Bystander(h)
      BY <1>2, <3>1 DEF Bystander, vars, queue, conversation, process, QP!Stays, QP!SameRun,
           QP!NoMessageComes, GroupInv, HeardOK
    <3>3. QED
      BY <3>1, <3>2, BystanderOK
  <2>3. QED
    BY <1>1, <2>1, <2>2 DEF AgentInv
<1>3. ASSUME NEW g \in Groups, HostStep(g) PROVE AgentInv'
  <2>1. ASSUME NEW i \in DOMAIN runs[g], RunBegins(g, i) \/ RunEnds(g, i) PROVE AgentInv'
    BY <1>1, <2>1, StartsKeep, EndsKeep DEF RunBegins
  <2>2. QED
    BY <1>1, <1>3, <2>1, WaitKeeps, OutputKeeps DEF HostStep
<1>4. CASE Next
  BY <1>1, <1>3, <1>4, AgentKeeps, ChecksKeep, DueKeeps, ShutdownKeeps, StopsKeep, StartKeeps DEF Next
<1>5. QED
  BY <1>2, <1>4

-----------------------------------------------------------------------------
(* The theorems.                                                           *)

(* The invariant, in every state.                                          *)
THEOREM Invariance == Spec => []AgentInv
<1>1. Init => AgentInv
  BY InitAgent
<1>2. AgentInv /\ [Next]_vars => AgentInv'
  BY NextAgent
<1>3. QED
  BY <1>1, <1>2, PTL DEF Spec

(* Every variable keeps its type; no more children outlive their process   *)
(* than there were crashes and shutdowns.                                  *)
THEOREM TypeCorrect == Spec => []TypeOK
<1>1. AgentInv => TypeOK
  <2> SUFFICES ASSUME AgentInv PROVE TypeOK
    OBVIOUS
  <2>1. Q!TypeOK
    <3>1. QP!TypeOK
      BY QP!TypeHolds, ConstantsFit DEF AgentInv
    <3>2. QED
      BY <3>1 DEF Q!TypeOK, QP!TypeOK, Q!GroupState, QP!GroupState, Q!Run, QP!Run
  <2>2. orphans \in [Groups -> 0 .. MaxStops]
    <3>1. orphans \in [Groups -> Nat] /\ stops \in 0 .. MaxStops /\ MaxStops \in Nat
      BY AgentRunAssumption DEF AgentInv, DataOK
    <3>2. \A g \in Groups : orphans[g] \in Nat /\ orphans[g] <= stops
      BY <3>1 DEF AgentInv, DataOK, StopsOK
    <3>3. QED
      BY <3>1, <3>2
  <2>3. QED
    BY <2>1, <2>2 DEF AgentInv, DataOK, TypeOK
<1>2. QED
  BY <1>1, Invariance, PTL

(* The dispatcher's promises stand whatever its agents do: answer, fail,   *)
(* hang until their timeout, or outlive the process.                       *)
THEOREM DispatcherKeepsItsWord ==
  Spec => [](/\ QP!SerialExecution /\ QP!ConcurrencyLimit /\ QP!SlotAccounting
             /\ QP!NoLostWakeup /\ QP!WorkConserving /\ QP!TaskOnce)
<1>1. QP!IInv => /\ QP!SerialExecution /\ QP!ConcurrencyLimit /\ QP!SlotAccounting
                 /\ QP!NoLostWakeup /\ QP!WorkConserving /\ QP!TaskOnce
  BY ConstantsFit, QP!SerialHolds, QP!LimitHolds, QP!SlotsHold, QP!WakeupsHold, QP!WorkHolds,
     QP!TaskHolds
<1>2. QED
  BY <1>1, Invariance, PTL DEF AgentInv

(* Until shutdown, an agent that is alive belongs to the group's only run, *)
(* which waits for it.                                                     *)
THEOREM AgentsAreAlone == Spec => []OneAgent
<1>1. AgentInv => OneAgent
  BY DEF AgentInv, GroupInv, SeatOK, OneAgent, Q!Begun, QP!Begun
<1>2. QED
  BY <1>1, Invariance, PTL

(* An agent finds no sentinel but one that was there when it started.      *)
THEOREM CloseIsLate == Spec => []CloseComesLate
<1>1. AgentInv => CloseComesLate
  BY DEF AgentInv, GroupInv, SeatOK, CloseComesLate
<1>2. QED
  BY <1>1, Invariance, PTL

(* A conversation is taken up where the last successful run left it.       *)
THEOREM ConversationIsOne == Spec => []ConversationGoesOn
<1>1. AgentInv => ConversationGoesOn
  BY DEF AgentInv, GroupInv, SessionOK, Conversing, ConversationGoesOn, InContext
<1>2. QED
  BY <1>1, Invariance, PTL

(* What was told in part is not told again by a retry.                     *)
THEOREM NothingIsToldTwice == Spec => []NotToldTwice
<1>1. AgentInv => NotToldTwice
  BY DEF AgentInv, GroupInv, HeardOK, NotToldTwice, IsTurn
<1>2. QED
  BY <1>1, Invariance, PTL
=============================================================================
