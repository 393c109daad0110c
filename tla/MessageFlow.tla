----------------------------- MODULE MessageFlow -----------------------------
(***************************************************************************)
(* The way of a message through nanoclaw/app.py: a channel hands it over,  *)
(* it is stored (db.py), the dispatcher (GroupQueue) starts a turn of its  *)
(* group, the turn reads every message newer than the group's cursor, runs *)
(* the agent on them, sends its outputs and commits the cursor.  A message *)
(* can be delivered again under its id, by the file a crash left behind or *)
(* by another file or POST; its row is then replaced, with a timestamp of  *)
(* its own if the payload has none.  A message is a (chat, id) pair, which *)
(* is the key of its row, and its copies are taken to say the same.  The   *)
(* process may crash at any point, also inside a handler after the first   *)
(* of its writes to the database, and recovers from the database alone.    *)
(***************************************************************************)
EXTENDS Integers, Sequences, FiniteSets

CONSTANTS
  Groups, NoTask, MaxConcurrent, MaxRetries,   \* of the dispatcher
  Msgs,            \* message ids
  GroupOf,         \* the chat of a message
  Triggering,      \* the messages with the trigger word
  TriggerGroups,   \* the groups that answer only when triggered
  Settings,        \* the sets of groups some enabled channel may own
  MaxTime,         \* timestamps are 1 .. MaxTime
  Limit,           \* LIMIT of get_messages_since
  MaxStops,        \* bound: crashes and shutdowns in a behaviour
  MaxRepeats       \* bound: deliveries of messages that were stored before

ASSUME MessageFlowAssumption ==
  /\ IsFiniteSet(Groups) /\ IsFiniteSet(Msgs)
  /\ MaxConcurrent \in Nat \ {0} /\ MaxRetries \in Nat
  /\ GroupOf \in [Msgs -> Groups]
  /\ Triggering \subseteq Msgs /\ TriggerGroups \subseteq Groups
  /\ Settings \subseteq SUBSET Groups
  /\ MaxTime \in Nat \ {0} /\ Limit \in Nat \ {0} /\ MaxStops \in Nat
  /\ MaxRepeats \in Nat

VARIABLES
  groups, activeCount, waitingGroups, shuttingDown, runs, timers, closeFile,
  time,            \* the messages table: timestamp of a message, 0 if not stored
  dbCursor,        \* router_state: last_agent_timestamp
  cursor,          \* App.last_agent_timestamp
  turn,            \* the local variables of process_group_messages
  up,              \* the process is running
  owned,           \* App.channels: the groups whose chat one of them owns
  recovering,      \* the groups recover_pending_messages has yet to look at
  stops, repeats,  \* crashes and shutdowns, and repeated deliveries, so far
  answered,        \* history: messages whose row was part of a committed turn
  excused,         \* history: messages whose row the cursor passed without a turn
  gaveUp           \* history: groups whose last turn failed for good

Q == INSTANCE GroupQueue WITH Tasks <- {}

queue == <<groups, activeCount, waitingGroups, shuttingDown, runs, timers, closeFile>>
history == <<answered, excused, gaveUp>>
bounds == <<stops, repeats>>
vars == <<queue, time, dbCursor, cursor, turn, up, owned, recovering, bounds, history>>

-----------------------------------------------------------------------------
(* Reading.                                                                *)

Stored(m) == time[m] # 0

\* Mutant: the cursor's own timestamp is read again.
SinceInclusive(g) == {m \in Msgs : GroupOf[m] = g /\ Stored(m) /\ time[m] >= cursor[g]}

Since(g) == {m \in Msgs : GroupOf[m] = g /\ time[m] > cursor[g]}

\* The newest Limit rows; rows of equal timestamp in any order.
Batches(g) ==
  {b \in SUBSET Since(g) :
     /\ Cardinality(b) = IF Cardinality(Since(g)) > Limit
                           THEN Limit ELSE Cardinality(Since(g))
     /\ \A m \in b, n \in Since(g) \ b : time[n] <= time[m]}

\* The timestamp of the last of the rows.
IsLast(b, t) == (\E m \in b : time[m] = t) /\ \A m \in b : time[m] <= t

Triggered(g, b) == g \notin TriggerGroups \/ b \cap Triggering # {}

\* What process_group_messages keeps across its awaits; missed is history.
NoTurn == [batch |-> {}, last |-> 0, spoke |-> FALSE, sent |-> FALSE, failed |-> FALSE, missed |-> {}]
TurnOn(g, b, t) ==
  [NoTurn EXCEPT !.batch = b, !.last = t,
                 !.missed = {m \in Since(g) \ b : time[m] <= t}]

Serving == up /\ recovering = {}

-----------------------------------------------------------------------------
(* A channel delivers.                                                     *)

\* INSERT OR REPLACE: a row with another timestamp is a new one.
StoreRow(m, t) ==
  /\ repeats' = IF Stored(m) THEN repeats + 1 ELSE repeats
  /\ repeats' <= MaxRepeats
  /\ time' = [time EXCEPT ![m] = t]
  /\ IF t = time[m]
       THEN UNCHANGED <<answered, excused>>
       ELSE /\ answered' = answered \ {m}
            /\ excused' = IF t <= cursor[GroupOf[m]] THEN excused \cup {m} ELSE excused \ {m}

\* The running turn was not given the new row, but it may pass it.
Renewed(u, m, t) ==
  [u EXCEPT !.batch = @ \ {m}, !.missed = IF t <= u.last THEN @ \cup {m} ELSE @ \ {m}]

Store(m, t) ==
  /\ StoreRow(m, t)
  /\ turn' = IF t = time[m] THEN turn ELSE [turn EXCEPT ![GroupOf[m]] = Renewed(@, m, t)]

(* on_message returned, and with it store_message and the message check;   *)
(* the main loop polls the channels until a shutdown ends it.  A channel   *)
(* takes messages of chats it does not own, and takes a message again when *)
(* its file is still there or another one has its id.                      *)
Deliver(m) ==
  /\ Serving /\ ~shuttingDown
  /\ \E t \in 1 .. MaxTime : Store(m, t)
  /\ Q!EnqueueMessageCheck(GroupOf[m])
  /\ UNCHANGED <<dbCursor, cursor, up, owned, recovering, stops, gaveUp>>

-----------------------------------------------------------------------------
(* A turn: process_group_messages inside _run_for_group.                   *)

turnFrame == <<time, up, owned, recovering, bounds>>

InTurn(g) == turn[g].last # 0

\* No channel for the chat, nothing to do, or nobody asked: True at once,
\* and the cursor stays.
EmptyTurn(g, i) ==
  /\ Serving
  /\ runs[g][i].phase = "created"
  /\ g \notin owned \/ \E b \in Batches(g) : b = {} \/ ~Triggered(g, b)
  /\ Q!MessagesSucceed(g, i)
  /\ gaveUp' = gaveUp \ {g}
  /\ UNCHANGED <<turnFrame, dbCursor, cursor, turn, answered, excused>>

StartTurn(g, i) ==
  /\ Serving
  /\ Q!BeginRun(g, i)
  /\ g \in owned
  /\ \E b \in Batches(g), t \in 1 .. MaxTime :
       Triggered(g, b) /\ IsLast(b, t) /\ turn' = [turn EXCEPT ![g] = TurnOn(g, b, t)]
  /\ gaveUp' = gaveUp \ {g}
  /\ UNCHANGED <<turnFrame, dbCursor, cursor, answered, excused>>

\* _on_output; outputs come when the agent process has exited.
Output(g, text, ok) ==
  /\ Serving
  /\ InTurn(g)
  /\ turn' = [turn EXCEPT ![g].spoke = TRUE, ![g].sent = @ \/ text,
                          ![g].failed = @ \/ ~ok]
  /\ IF ok THEN Q!NotifyIdle(g) ELSE UNCHANGED queue
  /\ UNCHANGED <<turnFrame, dbCursor, cursor, history>>

\* Mutant: the cursor moves to the newest stored message.
AdvancedToNewest(g) ==
  [cursor EXCEPT ![g] =
     CHOOSE t \in 1 .. MaxTime : IsLast({m \in Msgs : GroupOf[m] = g /\ Stored(m)}, t)]

\* Mutant: only the memory is updated.
SaveStateLater == UNCHANGED dbCursor

\* The cursor moves in memory and, by save_state, in the database.
Advanced(g) == [cursor EXCEPT ![g] = turn[g].last]
SaveState == dbCursor' = cursor'

CommitTurn(g, i) ==
  /\ Serving
  /\ InTurn(g) /\ turn[g].spoke /\ ~turn[g].failed
  /\ Q!MessagesSucceed(g, i)
  /\ cursor' = Advanced(g)
  /\ SaveState
  /\ turn' = [turn EXCEPT ![g] = NoTurn]
  /\ answered' = answered \cup turn[g].batch
  /\ excused' = excused \cup turn[g].missed
  /\ UNCHANGED <<turnFrame, gaveUp>>

(* An error status.  After an output the run counts as a success, so that  *)
(* nothing is sent twice; the cursor stays behind.                         *)
NoMoreRetries(g) == groups[g].retryCount + 1 > MaxRetries

ErrTurn(g, i) ==
  /\ Serving
  /\ InTurn(g)
  /\ IF turn[g].sent THEN Q!MessagesSucceed(g, i) ELSE Q!MessagesFail(g, i)
  /\ gaveUp' = IF turn[g].sent \/ NoMoreRetries(g) THEN gaveUp \cup {g} ELSE gaveUp
  /\ turn' = [turn EXCEPT ![g] = NoTurn]
  /\ UNCHANGED <<turnFrame, dbCursor, cursor, answered, excused>>

\* The agent runner or a channel's send_message raised.
RaiseTurn(g, i) ==
  /\ Serving
  /\ InTurn(g)
  /\ Q!MessagesFail(g, i)
  /\ gaveUp' = IF NoMoreRetries(g) THEN gaveUp \cup {g} ELSE gaveUp
  /\ turn' = [turn EXCEPT ![g] = NoTurn]
  /\ UNCHANGED <<turnFrame, dbCursor, cursor, answered, excused>>

CancelTurn(g, i) ==
  /\ Serving
  /\ Q!MessagesCancelled(g, i) \/ Q!RunNeverBegins(g, i)
  /\ turn' = [turn EXCEPT ![g] = NoTurn]
  /\ UNCHANGED <<turnFrame, dbCursor, cursor, history>>

Retry(g) ==
  /\ Serving
  /\ Q!RetryFires(g)
  /\ UNCHANGED <<turnFrame, dbCursor, cursor, turn, history>>

-----------------------------------------------------------------------------
(* Stopping and starting.                                                  *)

MemoryLost ==
  /\ groups' = [g \in Groups |-> Q!FreshGroup]
  /\ activeCount' = 0 /\ waitingGroups' = <<>> /\ shuttingDown' = FALSE
  /\ runs' = [g \in Groups |-> <<>>] /\ timers' = [g \in Groups |-> 0]
  /\ closeFile' = closeFile
  /\ up' = FALSE
  /\ turn' = [g \in Groups |-> NoTurn]
  /\ cursor' = [g \in Groups |-> 0]
  /\ owned' = {} /\ recovering' = {}

StopSome == stops < MaxStops /\ stops' = stops + 1

Crash ==
  /\ up
  /\ StopSome
  /\ MemoryLost
  /\ UNCHANGED <<time, dbCursor, repeats, history>>

\* The row is committed, nobody was told, and the message may come again.
CrashInDeliver(m) ==
  /\ Serving /\ ~shuttingDown
  /\ StopSome
  /\ \E t \in 1 .. MaxTime : StoreRow(m, t)
  /\ MemoryLost
  /\ UNCHANGED <<dbCursor, gaveUp>>

\* save_state has written the cursor; set_session and the queue never ran.
CrashInCommit(g) ==
  /\ Serving
  /\ StopSome
  /\ InTurn(g) /\ turn[g].spoke /\ ~turn[g].failed
  /\ dbCursor' = Advanced(g)
  /\ answered' = answered \cup turn[g].batch
  /\ excused' = excused \cup turn[g].missed
  /\ MemoryLost
  /\ UNCHANGED <<time, repeats, gaveUp>>

Shutdown ==
  /\ Serving
  /\ StopSome
  /\ Q!Shutdown
  /\ UNCHANGED <<time, dbCursor, cursor, turn, up, owned, recovering, repeats, history>>

\* App.shutdown has waited for the cancelled coroutines; the process ends.
Exit ==
  /\ up
  /\ shuttingDown
  /\ \A g \in Groups : runs[g] = <<>>
  /\ MemoryLost
  /\ UNCHANGED <<time, dbCursor, bounds, history>>

\* load_state, and setup_channels as the settings now are.
Start ==
  /\ ~up
  /\ up' = TRUE
  /\ owned' \in Settings
  /\ cursor' = dbCursor
  /\ recovering' = Groups
  /\ UNCHANGED <<queue, time, dbCursor, turn, bounds, history>>

\* Mutant: the round looks and does not enqueue.
RecoverNothing(g) ==
  /\ g \in recovering
  /\ recovering' = recovering \ {g}
  /\ UNCHANGED <<queue, time, dbCursor, cursor, turn, up, owned, bounds, history>>

\* One round of recover_pending_messages, which no await interrupts.
Recover(g) ==
  /\ g \in recovering
  /\ recovering' = recovering \ {g}
  /\ IF Since(g) # {} THEN Q!EnqueueMessageCheck(g) ELSE UNCHANGED queue
  /\ UNCHANGED <<time, dbCursor, cursor, turn, up, owned, bounds, history>>

-----------------------------------------------------------------------------
Init ==
  /\ Q!Init
  /\ time = [m \in Msgs |-> 0]
  /\ dbCursor = [g \in Groups |-> 0]
  /\ cursor = [g \in Groups |-> 0]
  /\ turn = [g \in Groups |-> NoTurn]
  /\ up = FALSE
  /\ owned = {} /\ recovering = {}
  /\ stops = 0 /\ repeats = 0
  /\ answered = {} /\ excused = {} /\ gaveUp = {}

Begins(g) == \E i \in DOMAIN runs[g] : EmptyTurn(g, i) \/ StartTurn(g, i)
TurnEnds(g, i) == CommitTurn(g, i) \/ ErrTurn(g, i) \/ RaiseTurn(g, i) \/ CancelTurn(g, i)
Ends(g) == \E i \in DOMAIN runs[g] : TurnEnds(g, i)

Next ==
  \/ \E m \in Msgs : Deliver(m) \/ CrashInDeliver(m)
  \/ \E g \in Groups : Begins(g) \/ Ends(g) \/ Retry(g) \/ Recover(g) \/ CrashInCommit(g)
  \/ \E g \in Groups, text, ok \in BOOLEAN : Output(g, text, ok)
  \/ Crash \/ Shutdown \/ Exit \/ Start

Spec == Init /\ [][Next]_vars

(* The event loop resumes what can run; an agent ends within its timeout;  *)
(* a sleeping retry wakes up; a service manager restarts the process.      *)
Fairness ==
  /\ \A g \in Groups :
       WF_vars(Begins(g)) /\ WF_vars(Ends(g)) /\ WF_vars(Retry(g)) /\ WF_vars(Recover(g))
  /\ WF_vars(Start) /\ WF_vars(Exit)

FairSpec == Spec /\ Fairness
-----------------------------------------------------------------------------
(* Properties.                                                             *)

TurnState ==
  [batch : SUBSET Msgs, last : 0 .. MaxTime, spoke : BOOLEAN, sent : BOOLEAN,
   failed : BOOLEAN, missed : SUBSET Msgs]

TypeOK ==
  /\ Q!TypeOK
  /\ time \in [Msgs -> 0 .. MaxTime]
  /\ dbCursor \in [Groups -> 0 .. MaxTime] /\ cursor \in [Groups -> 0 .. MaxTime]
  /\ turn \in [Groups -> TurnState]
  /\ up \in BOOLEAN /\ owned \subseteq Groups /\ recovering \subseteq Groups
  /\ stops \in 0 .. MaxStops /\ repeats \in 0 .. MaxRepeats
  /\ answered \subseteq Msgs /\ excused \subseteq Msgs /\ gaveUp \subseteq Groups

(* A row the cursor has passed was part of a committed turn, unless it is  *)
(* one the code knowingly leaves behind: it arrived, or arrived again,     *)
(* with a timestamp the cursor or the running turn had already reached, or *)
(* the turn's LIMIT cut it off.  In particular, a message that arrives     *)
(* while the agent runs is not passed over by the commit, and no crash     *)
(* makes one disappear.                                                    *)
PassedWasAnswered ==
  \A m \in Msgs : Stored(m) /\ time[m] <= dbCursor[GroupOf[m]] =>
                     m \in answered \cup excused

(* A committed turn is final: no later turn, not even after a crash at the *)
(* worst moment, is given its rows.  Only a delivery that replaces a row   *)
(* with another timestamp makes it one to answer again: a repeated payload *)
(* with its own timestamp does not, one without does (local_file.py:69).   *)
AnsweredIsFinal == \A g \in Groups : turn[g].batch \cap answered = {}

(* While the process serves, every message newer than its group's cursor   *)
(* is in someone's hands: a run that has still to read it or has read it,  *)
(* a queued check, a place in the waiting line, or a sleeping retry.  The  *)
(* exceptions are the code's own: nobody triggered the group, its last run *)
(* gave up (retries spent, or an error after part of the answer), or no    *)
(* enabled channel owns the chat.                                          *)
InHands(g, m) ==
  \/ Q!Waits(g)
  \/ timers[g] > 0
  \/ \E i \in DOMAIN runs[g] : runs[g][i].phase = "created"
  \/ Q!Live(g) /\ groups[g].pendingMessages
  \/ time[m] <= turn[g].last

NoMessageStranded ==
  Serving /\ ~shuttingDown =>
    \A g \in owned : \A m \in Since(g) :
      \/ InHands(g, m)
      \/ g \in gaveUp
      \/ \E b \in Batches(g) : ~Triggered(g, b)

(* The durable cursor of a group never moves back, and what the running    *)
(* process believes is what it will find after a crash.                    *)
CursorIsDurable ==
  [][ /\ \A g \in Groups : dbCursor'[g] >= dbCursor[g]
      /\ up' => cursor' = dbCursor' ]_vars

(* Every stored message is eventually part of a committed turn or left     *)
(* behind knowingly, as above, through crashes, restarts, retries and      *)
(* deliveries that make it a new one.                                      *)
EventuallyAnswered ==
  \A m \in Msgs :
    Stored(m) ~> \/ m \in answered \cup excused
                 \/ GroupOf[m] \in gaveUp
                 \/ up /\ GroupOf[m] \notin owned
                 \/ \E b \in Batches(GroupOf[m]) : ~Triggered(GroupOf[m], b)

(* The message flow implements Answering: each of its steps, the delivery, *)
(* the commit, the crashes inside them and the recovery included, either   *)
(* settles a whole turn at once or changes nothing that matters to a       *)
(* message.  In particular a message is left behind only if it was late or *)
(* a turn that was settled had set it aside, and never for a crash, a      *)
(* retry, or because it came while the agent ran; and one that was         *)
(* answered waits again only if it came again.                             *)
Waiting == {m \in Msgs : time[m] > dbCursor[GroupOf[m]]}
LeftBehind == {m \in Msgs \ answered : Stored(m) /\ time[m] <= dbCursor[GroupOf[m]]}
Aside(g) == {m \in Waiting \ turn[g].batch : GroupOf[m] = g /\ time[m] <= turn[g].last}
Turns == [g \in Groups |-> [on |-> InTurn(g), batch |-> turn[g].batch, aside |-> Aside(g)]]

A == INSTANCE Answering WITH waiting <- Waiting, left <- LeftBehind, turn <- Turns

Answers == A!Spec
=============================================================================
