------------------------------ MODULE AgentRun ------------------------------
(***************************************************************************)
(* A run's agent: run_container_agent starts a child process, waits until  *)
(* it has exited or its time is over, and only then hands its outputs to   *)
(* the callback of process_group_messages or _run_scheduled_task, which    *)
(* sends the texts and calls notify_idle.  A run that succeeds leaves the  *)
(* session in which the group's next run goes on.  The child is            *)
(* nanoclaw/agent_runner.py; it outlives a cancelled run, and the process  *)
(* that started it.  Composed with the dispatcher (GroupQueue), whose      *)
(* close_stdin writes the sentinel that the child looks for.               *)
(***************************************************************************)
EXTENDS Integers, Sequences, FiniteSets, SequencesExt

CONSTANTS
  Groups, Tasks, NoTask, MaxConcurrent, MaxRetries,   \* of the dispatcher
  ChatOf,          \* the chat of a task
  Shared,          \* tasks with context_mode "group"
  MaxSessions,     \* bound: session ids are 1 .. MaxSessions
  MaxCalls,        \* bound: messages and due tasks
  MaxStops         \* bound: crashes and shutdowns

ASSUME AgentRunAssumption ==
  /\ IsFiniteSet(Groups) /\ NoTask \notin Tasks
  /\ MaxConcurrent \in Nat \ {0} /\ MaxRetries \in Nat
  /\ ChatOf \in [Tasks -> Groups] /\ Shared \subseteq Tasks
  /\ MaxSessions \in Nat /\ MaxCalls \in Nat /\ MaxStops \in Nat

VARIABLES
  groups, activeCount, waitingGroups, shuttingDown, runs, timers, closeFile,
  ahead,           \* the database has messages newer than the group's cursor
  sessions,        \* App.sessions: the session of a group, 0 if it has none
  dbSessions,      \* the sessions table
  host,            \* the local variables of run_container_agent and its caller
  agent,           \* the child process of the group's newest run
  orphans,         \* how many children of earlier processes are alive
  up, recovering,  \* as in MessageFlow
  ipcLoop,         \* ENABLE_IPC_LOOP, from the environment the agents inherit
  issued,          \* how many session ids agents have made up
  calls, stops,    \* messages and due tasks, crashes and shutdowns so far
  latest,          \* history: the session of the group's last successful run
  cut,             \* history: groups whose last commit a crash cut off
  heard            \* history: groups that had an answer and ask for no other

Q == INSTANCE GroupQueue

queue == <<groups, activeCount, waitingGroups, shuttingDown, runs, timers, closeFile>>
process == <<up, recovering, ipcLoop>>
bounds == <<issued, calls, stops>>
conversation == <<sessions, dbSessions, latest, cut>>
vars == <<queue, ahead, conversation, host, agent, orphans, process, bounds, heard>>

-----------------------------------------------------------------------------
(* Data.                                                                   *)

SessionIds == 0 .. MaxSessions
Outcome == [ok : BOOLEAN, text : BOOLEAN, session : SessionIds]
Failure == [ok |-> FALSE, text |-> FALSE, session |-> 0]

(* talking: communicate(), until the child has exited and its output is    *)
(* read; killing: wait() after kill(); handling: on_output for what is     *)
(* left of the outputs.  newer: messages came after the turn's were read.  *)
NoHost == [pc |-> "none", given |-> 0, left |-> <<>>, result |-> Failure,
           sent |-> FALSE, failed |-> FALSE, newer |-> FALSE]

NoAgent == [phase |-> "none", given |-> 0, out |-> <<>>, clean |-> TRUE, met |-> FALSE]
Alive(g) == agent[g].phase \in {"working", "waiting", "leaving"}

IsTurn(g, i) == runs[g][i].task = NoTask
Serving == up /\ recovering = {}

-----------------------------------------------------------------------------
(* The child process: main of agent_runner.py.                             *)

agentFrame == <<ahead, conversation, host, orphans, process, calls, stops, heard>>

\* A session goes on, or the agent begins a new one.
NextSession(g) ==
  {agent[g].given} \cup (IF issued < MaxSessions THEN {issued + 1} ELSE {})

Says(g, outcome, phase) ==
  agent' = [agent EXCEPT ![g].out = Append(@, outcome), ![g].phase = phase]

AgentAnswers(g, text) ==
  /\ agent[g].phase = "working"
  /\ \E s \in NextSession(g) :
       /\ Says(g, [ok |-> TRUE, text |-> text, session |-> s],
               IF ipcLoop THEN "waiting" ELSE "leaving")
       /\ issued' = IF s > issued THEN s ELSE issued
  /\ UNCHANGED <<queue, agentFrame>>

AgentErrs(g) ==
  /\ agent[g].phase = "working"
  /\ Says(g, Failure, "leaving")
  /\ UNCHANGED <<queue, issued, agentFrame>>

\* The loop; nothing in the program writes follow-up inputs.
AgentCloses(g) ==
  /\ agent[g].phase = "waiting"
  /\ closeFile[g]
  /\ closeFile' = [closeFile EXCEPT ![g] = FALSE]
  /\ Says(g, [ok |-> TRUE, text |-> FALSE, session |-> Last(agent[g].out).session], "leaving")
  /\ UNCHANGED <<groups, activeCount, waitingGroups, shuttingDown, runs, timers, issued,
                 agentFrame>>

AgentExits(g) ==
  /\ agent[g].phase = "leaving"
  /\ agent' = [agent EXCEPT ![g].phase = "exited"]
  /\ UNCHANGED <<queue, issued, agentFrame>>

\* It fails or is killed at any point; what it has flushed stays in the pipe.
AgentDies(g) ==
  /\ Alive(g)
  /\ agent' = [agent EXCEPT ![g].phase = "exited", ![g].clean = FALSE]
  /\ UNCHANGED <<queue, issued, agentFrame>>

\* A child nobody reads from, which may find a sentinel on its way out.
OrphanEnds(g) ==
  /\ orphans[g] > 0
  /\ orphans' = [orphans EXCEPT ![g] = @ - 1]
  /\ closeFile' \in {closeFile, [closeFile EXCEPT ![g] = FALSE]}
  /\ UNCHANGED <<groups, activeCount, waitingGroups, shuttingDown, runs, timers, ahead,
                 conversation, host, agent, process, bounds, heard>>

-----------------------------------------------------------------------------
(* Starting a run.                                                         *)

Spawn(g, session) ==
  /\ host' = [host EXCEPT ![g] = [NoHost EXCEPT !.pc = "talking", !.given = session]]
  /\ agent' = [agent EXCEPT ![g] = [NoAgent EXCEPT !.phase = "working", !.given = session,
                                                   !.met = closeFile[g]]]

startFrame == <<ahead, conversation, orphans, process, bounds>>

StartTurn(g, i) ==
  /\ Serving
  /\ IsTurn(g, i)
  /\ Q!BeginRun(g, i)
  /\ ahead[g]
  /\ Spawn(g, sessions[g])
  /\ UNCHANGED <<startFrame, heard>>

StartTask(g, i) ==
  /\ Serving
  /\ ~IsTurn(g, i)
  /\ Q!BeginRun(g, i)
  /\ Spawn(g, IF runs[g][i].task \in Shared THEN sessions[g] ELSE 0)
  /\ UNCHANGED <<startFrame, heard>>

\* No messages, no trigger or no channel, which is a success and leaves what is
\* ahead ahead; or no process can be started, which is an error status.
NoAgentStarts(g, i) ==
  /\ Serving
  /\ runs[g][i].phase = "created"
  /\ \/ IsTurn(g, i) /\ Q!MessagesSucceed(g, i)
     \/ IsTurn(g, i) /\ ahead[g] /\ Q!MessagesFail(g, i)
     \/ Q!TaskEnds(g, i)
  /\ UNCHANGED <<startFrame, host, agent, heard>>

-----------------------------------------------------------------------------
(* Waiting for the agent and handling its outputs.                         *)

hostFrame == <<ahead, conversation, orphans, process, bounds>>

\* Mutant: outputs are handled as the agent writes them.
CollectStreaming(g) ==
  /\ host[g].pc = "talking"
  /\ agent[g].out # <<>>
  /\ host' = [host EXCEPT ![g].pc = "handling", ![g].left = agent[g].out,
                          ![g].result = Last(agent[g].out)]
  /\ UNCHANGED <<queue, hostFrame, agent, heard>>

Collect(g) ==
  /\ host[g].pc = "talking"
  /\ agent[g].phase = "exited"
  /\ host' = [host EXCEPT ![g].pc = "handling", ![g].left = agent[g].out,
       ![g].result = IF agent[g].clean /\ agent[g].out # <<>> THEN Last(agent[g].out)
                                                              ELSE Failure]
  /\ agent' = [agent EXCEPT ![g] = NoAgent]
  /\ UNCHANGED <<queue, hostFrame, heard>>

\* Mutants: an agent that has answered is waited for; nobody is killed.
TimeoutUnlessAnswered(g) ==
  /\ host[g].pc = "talking" /\ agent[g].out = <<>>
  /\ host' = [host EXCEPT ![g].pc = "killing"]
  /\ agent' = [agent EXCEPT ![g] = NoAgent]
  /\ UNCHANGED <<queue, hostFrame, heard>>

TimeoutSpares(g) ==
  /\ host[g].pc = "talking"
  /\ host' = [host EXCEPT ![g].pc = "killing"]
  /\ UNCHANGED <<queue, hostFrame, agent, heard>>

\* The agent may have answered, or exited, but communicate is not through.
Timeout(g) ==
  /\ host[g].pc = "talking"
  /\ host' = [host EXCEPT ![g].pc = "killing"]
  /\ agent' = [agent EXCEPT ![g] = NoAgent]
  /\ UNCHANGED <<queue, hostFrame, heard>>

\* on_output: send the text, then notify_idle on success.
Output(g) ==
  /\ host[g].pc = "handling" /\ host[g].left # <<>>
  /\ LET o == Head(host[g].left)
     IN  /\ host' = [host EXCEPT ![g].left = Tail(@), ![g].sent = @ \/ o.text,
                                 ![g].failed = @ \/ ~o.ok]
         /\ IF o.ok THEN Q!NotifyIdle(g) ELSE UNCHANGED queue
  /\ UNCHANGED <<hostFrame, agent, heard>>

-----------------------------------------------------------------------------
(* The end of a run.                                                       *)

endFrame == <<agent, orphans, process, bounds>>
Over(g) == host' = [host EXCEPT ![g] = NoHost]

TimedOut(g) == host[g].pc = "killing"
Returned(g) == host[g].pc = "handling" /\ host[g].left = <<>>
Errs(g) == host[g].failed \/ ~host[g].result.ok
SendRaises(g) == host[g].pc = "handling" /\ host[g].left # <<>> /\ Head(host[g].left).text

KeepSession(table, g, s) == IF s = 0 THEN table ELSE [table EXCEPT ![g] = s]

\* Mutant: the session is kept in memory only.
RememberInMemory(g, s) ==
  /\ sessions' = KeepSession(sessions, g, s)
  /\ latest' = KeepSession(latest, g, s)
  /\ cut' = IF s = 0 THEN cut ELSE cut \ {g}
  /\ UNCHANGED dbSessions

Remember(g, s) ==
  /\ sessions' = KeepSession(sessions, g, s)
  /\ dbSessions' = KeepSession(dbSessions, g, s)
  /\ latest' = KeepSession(latest, g, s)
  /\ cut' = IF s = 0 THEN cut ELSE cut \ {g}

CommitTurn(g, i) ==
  /\ Serving
  /\ Returned(g) /\ ~Errs(g)
  /\ Q!MessagesSucceed(g, i)
  /\ ahead' = [ahead EXCEPT ![g] = host[g].newer]
  /\ Remember(g, host[g].result.session)
  /\ Over(g)
  /\ UNCHANGED <<endFrame, heard>>

\* Mutant: the error is reported whatever was sent.
FailTurnAlways(g, i) ==
  /\ Serving
  /\ TimedOut(g) \/ (Returned(g) /\ Errs(g))
  /\ Q!MessagesFail(g, i)
  /\ heard' = IF host[g].sent /\ ~groups[g].pendingMessages /\ timers[g] = 0
                THEN heard \cup {g} ELSE heard
  /\ Over(g)
  /\ UNCHANGED <<endFrame, ahead, conversation>>

\* An error is no reason for a retry once something has been sent.
FailTurn(g, i) ==
  /\ Serving
  /\ TimedOut(g) \/ (Returned(g) /\ Errs(g))
  /\ IF host[g].sent THEN Q!MessagesSucceed(g, i) ELSE Q!MessagesFail(g, i)
  /\ heard' = IF host[g].sent /\ ~groups[g].pendingMessages /\ timers[g] = 0
                THEN heard \cup {g} ELSE heard
  /\ Over(g)
  /\ UNCHANGED <<endFrame, ahead, conversation>>

RaiseTurn(g, i) ==
  /\ Serving
  /\ SendRaises(g)
  /\ Q!MessagesFail(g, i)
  /\ Over(g)
  /\ UNCHANGED <<endFrame, ahead, conversation, heard>>

\* A task asks only for the status of the agent's last output.
EndTask(g, i) ==
  /\ Serving
  /\ TimedOut(g) \/ Returned(g) \/ SendRaises(g)
  /\ IF Returned(g) /\ host[g].result.ok /\ runs[g][i].task \in Shared
       THEN Remember(g, host[g].result.session) ELSE UNCHANGED conversation
  /\ Q!TaskEnds(g, i)
  /\ Over(g)
  /\ UNCHANGED <<endFrame, ahead, heard>>

\* The child is not told.
CancelRun(g, i) ==
  /\ Serving
  /\ \/ Q!MessagesCancelled(g, i)
     \/ runs[g][i].phase = "cancelling" /\ Q!TaskEnds(g, i)
     \/ Q!RunNeverBegins(g, i)
  /\ Over(g)
  /\ UNCHANGED <<endFrame, ahead, conversation, heard>>

-----------------------------------------------------------------------------
(* Everything else: messages and due tasks, stops and starts.              *)

otherFrame == <<conversation, agent, orphans, process, issued, stops>>
CallSome == calls < MaxCalls /\ calls' = calls + 1

Deliver(g) ==
  /\ Serving /\ ~shuttingDown
  /\ CallSome
  /\ ahead' = [ahead EXCEPT ![g] = TRUE]
  /\ host' = IF host[g].pc = "none" THEN host ELSE [host EXCEPT ![g].newer = TRUE]
  /\ heard' = heard \ {g}
  /\ Q!EnqueueMessageCheck(g)
  /\ UNCHANGED otherFrame

DueTask(t) ==
  /\ Serving
  /\ CallSome
  /\ Q!EnqueueTask(ChatOf[t], t)
  /\ UNCHANGED <<otherFrame, ahead, host, heard>>

Retry(g) ==
  /\ Serving
  /\ Q!RetryFires(g)
  /\ UNCHANGED <<otherFrame, calls, ahead, host, heard>>

StopSome == stops < MaxStops /\ stops' = stops + 1

\* A child is left to itself, unless the event loop's end takes it along.
MemoryLost ==
  /\ groups' = [g \in Groups |-> Q!FreshGroup]
  /\ activeCount' = 0 /\ waitingGroups' = <<>> /\ shuttingDown' = FALSE
  /\ runs' = [g \in Groups |-> <<>>] /\ timers' = [g \in Groups |-> 0]
  /\ sessions' = [g \in Groups |-> 0]
  /\ host' = [g \in Groups |-> NoHost]
  /\ agent' = [g \in Groups |-> NoAgent]
  /\ \E S \in SUBSET {g \in Groups : Alive(g)} :
       orphans' = [g \in Groups |-> IF g \in S THEN orphans[g] + 1 ELSE orphans[g]]
  /\ up' = FALSE /\ recovering' = {}
  /\ heard' = {}
  /\ UNCHANGED <<closeFile, ipcLoop, dbSessions, issued, calls>>

Crash ==
  /\ up
  /\ StopSome
  /\ MemoryLost
  /\ UNCHANGED <<ahead, latest, cut>>

\* save_state has written the cursor, and set_session never ran.
CrashInCommit(g) ==
  /\ Serving
  /\ StopSome
  /\ \E i \in DOMAIN runs[g] : IsTurn(g, i)
  /\ Returned(g) /\ ~Errs(g)
  /\ ahead' = [ahead EXCEPT ![g] = host[g].newer]
  /\ latest' = KeepSession(latest, g, host[g].result.session)
  /\ cut' = IF host[g].result.session = 0 THEN cut ELSE cut \cup {g}
  /\ MemoryLost

Shutdown ==
  /\ Serving
  /\ StopSome
  /\ Q!Shutdown
  /\ UNCHANGED <<ahead, conversation, host, agent, orphans, process, issued, calls, heard>>

Exit ==
  /\ up /\ shuttingDown
  /\ \A g \in Groups : runs[g] = <<>>
  /\ MemoryLost
  /\ UNCHANGED <<ahead, latest, cut, stops>>

Start ==
  /\ ~up
  /\ up' = TRUE /\ recovering' = Groups
  /\ ipcLoop' \in BOOLEAN
  /\ sessions' = dbSessions
  /\ UNCHANGED <<queue, ahead, dbSessions, latest, cut, host, agent, orphans, bounds, heard>>

Recover(g) ==
  /\ g \in recovering
  /\ recovering' = recovering \ {g}
  /\ IF ahead[g] THEN Q!EnqueueMessageCheck(g) ELSE UNCHANGED queue
  /\ UNCHANGED <<ahead, conversation, host, agent, orphans, up, ipcLoop, bounds, heard>>

-----------------------------------------------------------------------------
Init ==
  /\ Q!Init
  /\ ahead = [g \in Groups |-> FALSE]
  /\ sessions = [g \in Groups |-> 0] /\ dbSessions = sessions /\ latest = sessions
  /\ cut = {} /\ heard = {}
  /\ host = [g \in Groups |-> NoHost]
  /\ agent = [g \in Groups |-> NoAgent]
  /\ orphans = [g \in Groups |-> 0]
  /\ up = FALSE /\ recovering = {} /\ ipcLoop = FALSE
  /\ issued = 0 /\ calls = 0 /\ stops = 0

AgentStep(g) ==
  \/ \E text \in BOOLEAN : AgentAnswers(g, text)
  \/ AgentErrs(g) \/ AgentCloses(g) \/ AgentExits(g) \/ AgentDies(g) \/ OrphanEnds(g)

RunBegins(g, i) == StartTurn(g, i) \/ StartTask(g, i) \/ NoAgentStarts(g, i)
RunEnds(g, i) ==
  CommitTurn(g, i) \/ FailTurn(g, i) \/ RaiseTurn(g, i) \/ EndTask(g, i) \/ CancelRun(g, i)

HostStep(g) ==
  \/ Collect(g) \/ Timeout(g) \/ Output(g)
  \/ \E i \in DOMAIN runs[g] : RunBegins(g, i) \/ RunEnds(g, i)

Next ==
  \/ \E g \in Groups : AgentStep(g) \/ HostStep(g) \/ Deliver(g) \/ Retry(g)
  \/ \E g \in Groups : Recover(g) \/ CrashInCommit(g)
  \/ \E t \in Tasks : DueTask(t)
  \/ Crash \/ Shutdown \/ Exit \/ Start

Spec == Init /\ [][Next]_vars

\* wait_for ends each wait for an agent; nothing is assumed of the agents.
FairSpec == Spec /\ \A g \in Groups : WF_vars(HostStep(g))

-----------------------------------------------------------------------------
(* Properties.                                                             *)

HostState ==
  [pc : {"none", "talking", "killing", "handling"}, given : SessionIds, left : Seq(Outcome),
   result : Outcome, sent : BOOLEAN, failed : BOOLEAN, newer : BOOLEAN]
AgentState ==
  [phase : {"none", "working", "waiting", "leaving", "exited"}, given : SessionIds,
   out : Seq(Outcome), clean : BOOLEAN, met : BOOLEAN]

TypeOK ==
  /\ Q!TypeOK
  /\ ahead \in [Groups -> BOOLEAN]
  /\ {sessions, dbSessions, latest} \subseteq [Groups -> SessionIds]
  /\ host \in [Groups -> HostState] /\ agent \in [Groups -> AgentState]
  /\ orphans \in [Groups -> 0 .. MaxStops]
  /\ {up, ipcLoop} \subseteq BOOLEAN /\ recovering \subseteq Groups /\ cut \cup heard \subseteq Groups
  /\ issued \in 0 .. MaxSessions /\ calls \in 0 .. MaxCalls /\ stops \in 0 .. MaxStops

(* Until shutdown, an agent that the process has started and that is still *)
(* alive belongs to a run that waits for it, and no other run of the group *)
(* has been created meanwhile, so that no two agents of the process work   *)
(* for a group: a timeout kills, and a cancelled run's agent is left alive *)
(* only when no run will follow.                                           *)
OneAgent ==
  ~shuttingDown =>
    \A g \in Groups : Alive(g) =>
      /\ host[g].pc # "none"
      /\ runs[g] # <<>> /\ \A i \in DOMAIN runs[g] : Q!Begun(runs[g][i])

(* Outputs are handled when the agent has exited.  So a run is never       *)
(* counted as idle while its agent could still be told, and a sentinel     *)
(* that an agent can find was there before it: close_stdin always speaks   *)
(* to a later run than the one it means.                                   *)
CloseComesLate ==
  \A g \in Groups : Alive(g) => ~groups[g].idleWaiting /\ (closeFile[g] => agent[g].met)

(* A turn, or a task of the group's context, goes on in the session that   *)
(* the group's last successful run left, also after a restart, unless a    *)
(* crash cut that run off between its cursor and its session.              *)
InContext(g) ==
  \E i \in DOMAIN runs[g] : Q!Begun(runs[g][i]) /\ runs[g][i].task \in Shared \cup {NoTask}

ConversationGoesOn ==
  \A g \in Groups : host[g].pc = "talking" /\ InContext(g) =>
    host[g].given = latest[g] \/ g \in cut

(* A turn whose agent failed after part of the answer was sent is not      *)
(* tried again, unless there is another reason for a turn: a new message,  *)
(* a check or a retry that was pending by then, a restart.                 *)
NotToldTwice ==
  \A g \in Groups : host[g].pc = "talking" /\ (\E i \in DOMAIN runs[g] : IsTurn(g, i)) =>
    g \notin heard

(* However long the agent takes, the run that waits for it comes to its    *)
(* end: an agent that waits for a sentinel does not keep the slot.         *)
RunsEnd == \A g \in Groups : host[g].pc # "none" ~> host[g].pc = "none"
=============================================================================
