------------------------------ MODULE Answering ------------------------------
(***************************************************************************)
(* What becomes of a chat's messages, without the timestamps, the cursor   *)
(* in memory and in the database, the dispatcher, the retries and the      *)
(* recovery of nanoclaw/app.py that bring it about: a turn takes over      *)
(* everything that waits, answers as much of it as LIMIT allows, and       *)
(* either all of that is settled in one step or none of it, whatever       *)
(* arrives meanwhile and however the process dies.  A message that comes   *)
(* again takes the place of its earlier copy.  MessageFlow implements this *)
(* module.                                                                 *)
(***************************************************************************)
EXTENDS Integers, FiniteSets

CONSTANTS Msgs, Groups, GroupOf, Triggering, TriggerGroups, Limit

VARIABLES
  waiting,    \* messages a turn has yet to settle
  answered,   \* messages an agent was given, in a turn that was settled
  left,       \* messages left behind: set aside by a settled turn, or late
  turn        \* of each group, whether it has a turn, what of the messages
              \* the turn answers, and what it sets aside

vars == <<waiting, answered, left, turn>>

NoTurn == [on |-> FALSE, batch |-> {}, aside |-> {}]
NoTurns == [g \in Groups |-> NoTurn]
Running(g) == turn[g].on
WaitingOf(g) == {m \in waiting : GroupOf[m] = g}

\* The process may die before it does anything else.
Unless(died, turns) == IF died THEN NoTurns ELSE turns

Init ==
  /\ waiting = {} /\ answered = {} /\ left = {}
  /\ turn = NoTurns

\* A turn whose message m has come again, into those it sets aside or not.
Without(t, m, passed) ==
  [on |-> t.on, batch |-> t.batch \ {m},
   aside |-> IF passed THEN t.aside \cup {m} ELSE t.aside \ {m}]

(* A message that comes in, or comes again, waits; if a turn runs, its     *)
(* timestamp may be one the turn will pass, or one the group's cursor has  *)
(* passed already.                                                         *)
Arrive(m, died) ==
  /\ answered' = answered \ {m}
  /\ \/ waiting' = waiting \cup {m} /\ left' = left \ {m}
     \/ waiting' = waiting \ {m} /\ left' = left \cup {m}
  /\ \E passed \in BOOLEAN :
       /\ passed => m \in waiting' /\ Running(GroupOf[m])
       /\ turn' = Unless(died, [turn EXCEPT ![GroupOf[m]] = Without(@, m, passed)])

Begin(g) ==
  /\ ~Running(g)
  /\ \E batch \in SUBSET WaitingOf(g) :
       /\ batch # {} /\ Cardinality(batch) <= Limit
       /\ Cardinality(batch) < Limit => batch = WaitingOf(g)
       /\ g \in TriggerGroups => batch \cap Triggering # {}
       /\ turn' = [turn EXCEPT ![g] = [on |-> TRUE, batch |-> batch,
                                             aside |-> WaitingOf(g) \ batch]]
  /\ UNCHANGED <<waiting, answered, left>>

Settle(g, died) ==
  /\ Running(g)
  /\ answered' = answered \cup turn[g].batch
  /\ left' = left \cup turn[g].aside
  /\ waiting' = waiting \ (turn[g].batch \cup turn[g].aside)
  /\ turn' = Unless(died, [turn EXCEPT ![g] = NoTurn])

\* An error, a cancellation: the messages wait for another turn.
Abandon(g) ==
  /\ Running(g)
  /\ turn' = [turn EXCEPT ![g] = NoTurn]
  /\ UNCHANGED <<waiting, answered, left>>

Die ==
  /\ turn' = NoTurns
  /\ UNCHANGED <<waiting, answered, left>>

Next ==
  \/ \E m \in Msgs, died \in BOOLEAN : Arrive(m, died)
  \/ \E g \in Groups : Begin(g) \/ Abandon(g)
  \/ \E g \in Groups, died \in BOOLEAN : Settle(g, died)
  \/ Die

Spec == Init /\ [][Next]_vars
=============================================================================
