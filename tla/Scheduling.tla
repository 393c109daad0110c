----------------------------- MODULE Scheduling -----------------------------
(***************************************************************************)
(* What becomes of a scheduled task, without the polls, the dispatcher,    *)
(* the watcher's loop and the process that bring it about: an occurrence   *)
(* that is due is taken up once, begins, and is recorded together with the *)
(* next due time, or is lost before that and due again.  A request changes *)
(* the row and nothing that is in hand.  TaskFlow implements this module.  *)
(***************************************************************************)
EXTENDS Integers

CONSTANTS Tasks, Kind, Period, BadFolder, Times

VARIABLES
  clock,
  row,        \* status and due time of a task
  gen,        \* how often the task was created
  hand,       \* the occurrence of a task that is in hand, as a set
  late,       \* starts that nobody wanted, since the last request
  recorded    \* the occurrences that ran to their end

vars == <<clock, row, gen, hand, late, recorded>>

NoRow == [status |-> "none", next |-> 0]
Exists(t) == row[t].status # "none"
Due(t) == row[t].status = "active" /\ row[t].next # 0 /\ row[t].next <= clock

\* The task of the occurrence is still there and active.
Wanted(t, o) == row[t].status = "active" /\ gen[t] = o.gen

Init ==
  /\ clock = 0
  /\ row = [t \in Tasks |-> NoRow]
  /\ gen = [t \in Tasks |-> 0]
  /\ hand = [t \in Tasks |-> {}]
  /\ late = [t \in Tasks |-> 0]
  /\ recorded = {}

Create(t) ==
  /\ ~Exists(t)
  /\ \E n \in Times : row' = [row EXCEPT ![t] = [status |-> "active", next |-> n]]
  /\ gen' = [gen EXCEPT ![t] = @ + 1]
  /\ late' = [late EXCEPT ![t] = 0]
  /\ UNCHANGED <<clock, hand, recorded>>

(* Pausing, resuming, cancelling: what is in hand stays there.             *)
Change(t) ==
  /\ Exists(t)
  /\ \/ \E s \in {"active", "paused"} : row' = [row EXCEPT ![t].status = s]
     \/ row' = [row EXCEPT ![t] = NoRow]
  /\ late' = [late EXCEPT ![t] = 0]
  /\ UNCHANGED <<clock, gen, hand, recorded>>

(* An occurrence is taken up when it is due, nothing of the task is in     *)
(* hand, and it has not been recorded.                                     *)
Take(t) ==
  /\ Due(t)
  /\ hand[t] = {}
  /\ <<t, gen[t], row[t].next>> \notin recorded
  /\ hand' = [hand EXCEPT ![t] = {[next |-> row[t].next, gen |-> gen[t], begun |-> FALSE]}]
  /\ UNCHANGED <<clock, row, gen, late, recorded>>

(* It begins even if the task has meanwhile been paused, cancelled or      *)
(* replaced, but between two requests only once.                           *)
Begin(t) ==
  /\ t \notin BadFolder
  /\ \E o \in hand[t] :
       /\ ~o.begun
       /\ hand' = [hand EXCEPT ![t] = {[next |-> o.next, gen |-> o.gen, begun |-> TRUE]}]
       /\ \/ Wanted(t, o) /\ UNCHANGED late
          \/ ~Wanted(t, o) /\ late[t] = 0 /\ late' = [late EXCEPT ![t] = 1]
  /\ UNCHANGED <<clock, row, gen, recorded>>

Refuse(t) ==
  /\ t \in BadFolder
  /\ \E o \in hand[t] : ~o.begun
  /\ hand' = [hand EXCEPT ![t] = {}]
  /\ row' = IF Exists(t) THEN [row EXCEPT ![t].status = "paused"] ELSE row
  /\ UNCHANGED <<clock, gen, late, recorded>>

(* The next occurrence lies ahead and, for an interval, in phase; a task   *)
(* that runs once has none.                                                *)
Follows(t, o, n) ==
  IF Kind[t] = "once" THEN n = 0
    ELSE n > clock /\ (Kind[t] = "interval" => (n - o.next) % Period[t] = 0)

(* The result and the next due time are written in one step.               *)
Record(t) ==
  /\ \E o \in hand[t] :
       /\ o.begun
       /\ <<t, o.gen, o.next>> \notin recorded
       /\ recorded' = recorded \cup {<<t, o.gen, o.next>>}
       /\ \/ ~Exists(t) /\ UNCHANGED row
          \/ \E n \in Times \cup {0} :
               /\ Exists(t) /\ Follows(t, o, n)
               /\ row' = [row EXCEPT ![t] =
                            [status |-> IF n = 0 THEN "completed" ELSE @.status, next |-> n]]
  /\ hand' = [hand EXCEPT ![t] = {}]
  /\ UNCHANGED <<clock, gen, late>>

\* A cancelled run, a crash: the row stays as it is.
Lose(lost) ==
  /\ hand' = [t \in Tasks |-> IF t \in lost THEN {} ELSE hand[t]]
  /\ UNCHANGED <<clock, row, gen, late, recorded>>

Tick == clock' = clock + 1 /\ UNCHANGED <<row, gen, hand, late, recorded>>

Next ==
  \/ \E t \in Tasks :
       Create(t) \/ Change(t) \/ Take(t) \/ Begin(t) \/ Refuse(t) \/ Record(t) \/ Lose({t})
  \/ Lose(Tasks) \/ Tick

Spec == Init /\ [][Next]_vars
=============================================================================
