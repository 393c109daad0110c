----------------------------- MODULE Dispatcher -----------------------------
(***************************************************************************)
(* What a caller of nanoclaw/group_queue.py may rely on, without the       *)
(* flags, counters and coroutines that achieve it: jobs wait with their    *)
(* group, a group does one job at a time, at most MaxConcurrent groups     *)
(* work at once, and groups that found no slot are served in the order in  *)
(* which they came.  GroupQueue implements this module.                    *)
(***************************************************************************)
EXTENDS Integers, Sequences, FiniteSets

CONSTANTS Groups, Tasks, MaxConcurrent,
          Messages   \* the job of looking for new messages

VARIABLES
  todo,      \* the jobs that wait, of each group
  doing,     \* the job a group does, as a set of at most one
  line,      \* the groups that wait for a slot
  stopped

vars == <<todo, doing, line, stopped>>

Jobs == Tasks \cup {Messages}
Busy == {g \in Groups : doing[g] # {}}

Init ==
  /\ todo = [g \in Groups |-> {}]
  /\ doing = [g \in Groups |-> {}]
  /\ line = <<>>
  /\ stopped = FALSE

(* A task that its group is doing is not accepted again; messages that     *)
(* come while the group answers earlier ones are.                          *)
Accepted(g, j) == ~stopped /\ (j \in Tasks => j \notin doing[g])

StartNow(g, j) ==
  /\ Accepted(g, j)
  /\ g \notin Busy /\ Cardinality(Busy) < MaxConcurrent
  /\ doing' = [doing EXCEPT ![g] = {j}]
  /\ UNCHANGED <<todo, line, stopped>>

Defer(g, j) ==
  /\ Accepted(g, j)
  /\ g \in Busy \/ Cardinality(Busy) = MaxConcurrent
  /\ todo' = [todo EXCEPT ![g] = @ \cup {j}]
  /\ line' = IF g \in Busy \/ \E i \in DOMAIN line : line[i] = g
               THEN line ELSE Append(line, g)
  /\ UNCHANGED <<doing, stopped>>

\* Tasks come before messages.
Begins(g, j) == j \in todo[g] /\ (todo[g] \cap Tasks # {} => j \in Tasks)

(* The group that ends a job goes on with its own next one.                *)
GoOn(g) ==
  /\ ~stopped
  /\ \E j \in Jobs :
       /\ Begins(g, j)
       /\ doing' = [doing EXCEPT ![g] = {j}]
       /\ todo' = [todo EXCEPT ![g] = @ \ {j}]
  /\ UNCHANGED line

(* With nothing left to do it gives its slot to the first of the line.     *)
HandOver(g) ==
  /\ ~stopped
  /\ todo[g] = {} /\ line # <<>>
  /\ \E j \in Jobs :
       /\ Begins(Head(line), j)
       /\ doing' = [doing EXCEPT ![g] = {}, ![Head(line)] = {j}]
       /\ todo' = [todo EXCEPT ![Head(line)] = @ \ {j}]
  /\ line' = Tail(line)

Rest(g) ==
  /\ stopped \/ (todo[g] = {} /\ line = <<>>)
  /\ doing' = [doing EXCEPT ![g] = {}]
  /\ UNCHANGED <<todo, line>>

Finish(g) ==
  /\ g \in Busy
  /\ GoOn(g) \/ HandOver(g) \/ Rest(g)
  /\ UNCHANGED stopped

Stop ==
  /\ ~stopped /\ stopped' = TRUE
  /\ UNCHANGED <<todo, doing, line>>

Next ==
  \/ \E g \in Groups, j \in Jobs : StartNow(g, j) \/ Defer(g, j)
  \/ \E g \in Groups : Finish(g)
  \/ Stop

Spec == Init /\ [][Next]_vars
=============================================================================
