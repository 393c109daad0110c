---------------------------- MODULE MCGroupQueue ----------------------------
(***************************************************************************)
(* GroupQueue for TLC.  The callers of the dispatcher (channels, scheduler)*)
(* make at most Budget calls in a behaviour: a run that keeps failing      *)
(* while messages keep arriving could otherwise leave any number of retry  *)
(* coroutines asleep.                                                      *)
(***************************************************************************)
EXTENDS GroupQueue

CONSTANT Budget
VARIABLE calls   \* calls of enqueue_message_check and enqueue_task so far

MCInit == Init /\ calls = 0

Call ==
  /\ calls < Budget
  /\ calls' = calls + 1
  /\ \/ \E g \in Groups : EnqueueMessageCheck(g)
     \/ \E g \in Groups, t \in Tasks : EnqueueTask(g, t)

Begins(g) == \E i \in DOMAIN runs[g] : BeginRun(g, i)
Ends(g) == \E i \in DOMAIN runs[g] : RunEnds(g, i)
Retries(g) == RetryFires(g)

Internal ==
  /\ UNCHANGED calls
  /\ \E g \in Groups : Begins(g) \/ Ends(g) \/ Retries(g) \/ NotifyIdle(g) \/ AgentReadsClose(g)

Stop == Shutdown /\ UNCHANGED calls

MCNext == Call \/ Internal \/ Stop

mcVars == <<vars, calls>>

MCSpec == MCInit /\ [][MCNext]_mcVars

(* The event loop resumes every coroutine that can run.  Runs end: the     *)
(* agent has CONTAINER_TIMEOUT.  Retry delays are bounded.                 *)
Fairness ==
  \A g \in Groups :
    /\ WF_mcVars(Begins(g) /\ UNCHANGED calls)
    /\ WF_mcVars(Ends(g) /\ UNCHANGED calls)
    /\ WF_mcVars(Retries(g) /\ UNCHANGED calls)

FairSpec == MCSpec /\ Fairness

(* A group that has work pending gets to run it: its queued tasks and its  *)
(* queued message check are all taken up, or the process is shut down.     *)
PendingIsServed ==
  \A g \in Groups : HasPending(groups[g]) ~> ~HasPending(groups[g]) \/ shuttingDown

(* Once nobody calls the dispatcher any more it comes to rest, even if     *)
(* every run fails: the retry budget ends the chain of retries.            *)
ComesToRest == <>[](\A g \in Groups : ~Live(g) /\ timers[g] = 0)
=============================================================================
