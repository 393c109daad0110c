-------------------------- MODULE MessageFlowProofs --------------------------
(***************************************************************************)
(* Theorems about MessageFlow, for any groups, messages, timestamps and    *)
(* LIMIT, and any number of crashes: the cursor passes nothing that was    *)
(* not answered or knowingly left behind, what was answered stays so, no   *)
(* message is stranded, and the whole implements Answering.                *)
(***************************************************************************)
EXTENDS MessageFlow, FiniteSetTheorems, TLAPS

DataOK ==
  /\ time \in [Msgs -> 0 .. MaxTime]
  /\ dbCursor \in [Groups -> 0 .. MaxTime] /\ cursor \in [Groups -> 0 .. MaxTime]
  /\ turn \in [Groups -> TurnState]
  /\ up \in BOOLEAN /\ owned \subseteq Groups /\ recovering \subseteq Groups
  /\ stops \in 0 .. MaxStops /\ repeats \in 0 .. MaxRepeats
  /\ answered \subseteq Msgs /\ excused \subseteq Msgs /\ gaveUp \subseteq Groups

(* A turn and its cursor: the batch lies between the cursor and last, and  *)
(* so does nothing else but what is in missed, be it there because LIMIT   *)
(* cut it off or because its row was stored, or replaced, meanwhile.       *)
TurnOK(g) ==
  LET t == turn[g]
  IN  /\ t.last = 0 => t = NoTurn
      /\ t.last # 0 => up /\ t.last > cursor[g]
      /\ \A m \in t.batch : GroupOf[m] = g /\ time[m] > cursor[g] /\ time[m] <= t.last
      /\ \A m \in Msgs :
           GroupOf[m] = g /\ time[m] > cursor[g] /\ time[m] <= t.last =>
             m \in t.batch \cup t.missed

(* What was answered lies behind the durable cursor; what the process      *)
(* believes is what it would find.                                         *)
CursorOK ==
  /\ up => cursor = dbCursor
  /\ \A m \in answered : Stored(m) /\ time[m] <= dbCursor[GroupOf[m]]

FlowInv ==
  /\ DataOK /\ CursorOK /\ PassedWasAnswered
  /\ \A g \in Groups : TurnOK(g)

-----------------------------------------------------------------------------
(* No turn is sound whatever the cursor is.                                *)
LEMMA NoTurnOK ==
  NoTurn \in TurnState /\ NoTurn.batch = {} /\ NoTurn.last = 0
BY MessageFlowAssumption DEF NoTurn, TurnState

(* The row of a message is written, for the first time or in place of an   *)
(* earlier one, with the same timestamp or another.                        *)
LEMMA RowKeeps ==
  ASSUME FlowInv, up, NEW m \in Msgs, NEW t \in 1 .. MaxTime, StoreRow(m, t), UNCHANGED dbCursor
  PROVE  /\ time' = [time EXCEPT ![m] = t]
         /\ time' \in [Msgs -> 0 .. MaxTime] /\ repeats' \in 0 .. MaxRepeats
         /\ answered' \subseteq answered /\ excused' \subseteq Msgs
         /\ time'[m] = t /\ \A n \in Msgs \ {m} : time'[n] = time[n]
         /\ \A n \in answered' : Stored(n)' /\ time'[n] <= dbCursor'[GroupOf[n]]
         /\ PassedWasAnswered'
<1>1. DataOK /\ CursorOK /\ PassedWasAnswered /\ cursor = dbCursor /\ GroupOf[m] \in Groups
  BY MessageFlowAssumption DEF FlowInv, CursorOK
<1>2. /\ time' = [time EXCEPT ![m] = t]
      /\ time' \in [Msgs -> 0 .. MaxTime] /\ time'[m] = t
      /\ \A n \in Msgs \ {m} : time'[n] = time[n]
  BY <1>1, MessageFlowAssumption DEF StoreRow, DataOK
<1>3. repeats' \in 0 .. MaxRepeats
  BY <1>1, MessageFlowAssumption DEF StoreRow, DataOK
<1>4. CASE t = time[m]
  <2>1. time' = time /\ answered' = answered /\ excused' = excused
    BY <1>1, <1>2, <1>4 DEF StoreRow, DataOK
  <2>2. QED
    BY <1>1, <1>2, <1>3, <2>1 DEF DataOK, CursorOK, PassedWasAnswered, Stored
<1>5. CASE t # time[m]
  <2>1. /\ answered' = answered \ {m}
        /\ excused' = IF t <= cursor[GroupOf[m]] THEN excused \cup {m} ELSE excused \ {m}
    BY <1>5 DEF StoreRow
  <2>2. \A n \in answered' : Stored(n)' /\ time'[n] <= dbCursor'[GroupOf[n]]
    BY <1>1, <1>2, <2>1 DEF CursorOK, DataOK, Stored
  <2>3. PassedWasAnswered'
    <3> SUFFICES ASSUME NEW n \in Msgs, Stored(n)', time'[n] <= dbCursor[GroupOf[n]]
                 PROVE  n \in answered' \cup excused'
      BY DEF PassedWasAnswered
    <3>1. CASE n = m
      BY <1>1, <1>2, <2>1, <3>1
    <3>2. CASE n # m
      BY <1>1, <1>2, <2>1, <3>2 DEF PassedWasAnswered, Stored
    <3>3. QED
      BY <3>1, <3>2
  <2>4. answered' \subseteq answered /\ excused' \subseteq Msgs
    BY <1>1, <2>1 DEF DataOK
  <2>5. QED
    BY <1>2, <1>3, <2>2, <2>3, <2>4
<1>6. QED
  BY <1>4, <1>5

(* What a delivery does to a turn: it keeps its end, and a row that is     *)
(* replaced under it is none of its batch any more.                        *)
LEMMA TurnRenewed ==
  ASSUME DataOK, NEW m \in Msgs, NEW t \in 1 .. MaxTime, t # time[m], Store(m, t)
  PROVE  /\ turn' \in [Groups -> TurnState]
         /\ \A h \in Groups \ {GroupOf[m]} : turn'[h] = turn[h]
         /\ LET u == turn[GroupOf[m]]
                v == turn'[GroupOf[m]]
            IN  /\ v = Renewed(u, m, t) /\ v.last = u.last /\ v.batch = u.batch \ {m}
                /\ v.missed = IF t <= u.last THEN u.missed \cup {m} ELSE u.missed \ {m}
<1> DEFINE g == GroupOf[m]
           b == turn[g].batch \ {m}
           d == IF t <= turn[g].last THEN turn[g].missed \cup {m} ELSE turn[g].missed \ {m}
           v == [turn[g] EXCEPT !.batch = b, !.missed = d]
<1>1. turn[g] \in TurnState /\ g \in Groups /\ turn \in [Groups -> TurnState]
  BY MessageFlowAssumption DEF DataOK
<1>2. b \subseteq Msgs /\ d \subseteq Msgs
  BY <1>1 DEF TurnState
<1>3. Renewed(turn[g], m, t) = v
  BY <1>1 DEF Renewed, TurnState
<1>4. v.batch = b /\ v.missed = d /\ v.last = turn[g].last
  BY <1>1 DEF TurnState
<1>5. v \in TurnState
  <2> HIDE DEF b, d
  <2>1. QED
    BY <1>1, <1>2 DEF TurnState
<1>6. turn' = [turn EXCEPT ![g] = v]
  BY <1>1, <1>3 DEF Store
<1> HIDE DEF v
<1>7. turn'[g] = v /\ turn' \in [Groups -> TurnState] /\ \A h \in Groups \ {g} : turn'[h] = turn[h]
  BY <1>1, <1>5, <1>6
<1>8. QED
  BY <1>3, <1>4, <1>7

(* A channel hands a message over, for the first time or again.            *)
LEMMA DeliverKeeps ==
  ASSUME FlowInv, NEW m \in Msgs, Deliver(m)
  PROVE  FlowInv'
<1> DEFINE g == GroupOf[m]
<1>1. /\ DataOK /\ CursorOK /\ up /\ g \in Groups /\ \A h \in Groups : TurnOK(h)
      /\ UNCHANGED <<dbCursor, cursor, up, owned, recovering, stops, gaveUp>>
  BY MessageFlowAssumption DEF FlowInv, Deliver, Serving
<1>2. PICK t \in 1 .. MaxTime : Store(m, t)
  BY DEF Deliver
<1>3. /\ time' = [time EXCEPT ![m] = t]
      /\ time' \in [Msgs -> 0 .. MaxTime] /\ repeats' \in 0 .. MaxRepeats
      /\ answered' \subseteq answered /\ excused' \subseteq Msgs
      /\ time'[m] = t /\ \A n \in Msgs \ {m} : time'[n] = time[n]
      /\ \A n \in answered' : Stored(n)' /\ time'[n] <= dbCursor'[GroupOf[n]]
      /\ PassedWasAnswered'
  BY <1>1, <1>2, RowKeeps DEF Store
<1>4. turn' \in [Groups -> TurnState] /\ \A h \in Groups : TurnOK(h)'
  <2>1. CASE t = time[m]
    <3>1. time' = time /\ turn' = turn
      BY <1>1, <1>2, <1>3, <2>1 DEF Store, DataOK
    <3>2. QED
      BY <1>1, <3>1 DEF TurnOK, DataOK
  <2>2. CASE t # time[m]
    <3>1. /\ turn' \in [Groups -> TurnState]
          /\ \A h \in Groups \ {g} : turn'[h] = turn[h]
          /\ turn'[g] = Renewed(turn[g], m, t)
          /\ turn'[g].last = turn[g].last /\ turn'[g].batch = turn[g].batch \ {m}
          /\ turn'[g].missed = IF t <= turn[g].last THEN turn[g].missed \cup {m}
                                                    ELSE turn[g].missed \ {m}
      BY <1>1, <1>2, <2>2, TurnRenewed
    <3>2. ASSUME NEW h \in Groups, h # g PROVE TurnOK(h)'
      <4>1. \A n \in Msgs : GroupOf[n] = h => time'[n] = time[n]
        BY <1>3, <3>2
      <4>2. turn'[h] = turn[h] /\ turn[h].batch \subseteq Msgs
        BY <1>1, <3>1, <3>2 DEF DataOK, TurnState
      <4>3. QED
        BY <1>1, <4>1, <4>2 DEF TurnOK
    <3>3. TurnOK(g)'
      <4>1. ASSUME turn[g].last = 0 PROVE turn'[g] = NoTurn
        <5>1. turn[g] = NoTurn /\ ~(t <= 0)
          BY <1>1, <4>1 DEF TurnOK
        <5>2. Renewed(NoTurn, m, t) = [NoTurn EXCEPT !.batch = {} \ {m}, !.missed = {} \ {m}]
          BY <5>1 DEF Renewed, NoTurn
        <5>3. {} \ {m} = {}
          OBVIOUS
        <5>4. [NoTurn EXCEPT !.batch = {}, !.missed = {}] = NoTurn
          <6>1. \A u \in TurnState : [u EXCEPT !.batch = u.batch, !.missed = u.missed] = u
            BY DEF TurnState
          <6>2. NoTurn.missed = {}
            BY DEF NoTurn
          <6>3. QED
            BY <6>1, <6>2, NoTurnOK
        <5>5. QED
          BY <3>1, <5>1, <5>2, <5>3, <5>4
      <4>2. \A n \in turn'[g].batch : GroupOf[n] = g /\ time'[n] > cursor[g] /\ time'[n] <= turn[g].last
        <5>1. turn[g].batch \subseteq Msgs
          BY <1>1 DEF DataOK, TurnState
        <5>2. QED
          BY <1>1, <1>3, <3>1, <5>1 DEF TurnOK
      <4>3. ASSUME NEW n \in Msgs, GroupOf[n] = g, time'[n] > cursor[g], time'[n] <= turn[g].last
            PROVE  n \in turn'[g].batch \cup turn'[g].missed
        <5>1. CASE n = m
          BY <1>3, <3>1, <4>3, <5>1
        <5>2. CASE n # m
          BY <1>1, <1>3, <3>1, <4>3, <5>2 DEF TurnOK
        <5>3. QED
          BY <5>1, <5>2
      <4>4. turn[g].last # 0 => up /\ turn[g].last > cursor[g]
        BY <1>1 DEF TurnOK
      <4>5. QED
        BY <1>1, <3>1, <4>1, <4>2, <4>3, <4>4 DEF TurnOK
    <3>4. QED
      BY <3>1, <3>2, <3>3
  <2>3. QED
    BY <2>1, <2>2
<1>5. DataOK' /\ CursorOK'
  BY <1>1, <1>3, <1>4 DEF DataOK, CursorOK
<1>6. QED
  BY <1>3, <1>4, <1>5 DEF FlowInv

(* The batch of a new turn is read from behind the cursor, and what LIMIT  *)
(* cuts off is noted.                                                      *)
LEMMA StartTurnKeeps ==
  ASSUME FlowInv, NEW g \in Groups, NEW i, StartTurn(g, i)
  PROVE  FlowInv'
<1>1. /\ DataOK /\ CursorOK /\ PassedWasAnswered /\ \A h \in Groups : TurnOK(h)
      /\ up
      /\ gaveUp' = gaveUp \ {g}
      /\ UNCHANGED <<time, up, owned, recovering, bounds, dbCursor, cursor, answered, excused>>
  BY DEF FlowInv, StartTurn, Serving, turnFrame
<1>2. PICK b \in Batches(g), t \in 1 .. MaxTime :
        IsLast(b, t) /\ turn' = [turn EXCEPT ![g] = TurnOn(g, b, t)]
  BY DEF StartTurn
<1>3. b \subseteq Msgs /\ \A m \in b : GroupOf[m] = g /\ time[m] > cursor[g] /\ time[m] <= t
  BY <1>2 DEF Batches, Since, IsLast
<1>4. t > cursor[g] /\ t \in 0 .. MaxTime /\ b # {}
  BY <1>2, <1>3, MessageFlowAssumption DEF IsLast
<1> DEFINE u == TurnOn(g, b, t)
<1>5. /\ u \in TurnState /\ u.batch = b /\ u.last = t
      /\ u.missed = {m \in Since(g) \ b : time[m] <= t}
  <2>1. {m \in Since(g) \ b : time[m] <= t} \subseteq Msgs
    BY DEF Since
  <2>2. QED
    BY <1>3, <1>4, <2>1 DEF TurnOn, NoTurn, TurnState
<1>6. turn' \in [Groups -> TurnState] /\ turn'[g] = u /\ \A h \in Groups \ {g} : turn'[h] = turn[h]
  BY <1>1, <1>2, <1>5 DEF DataOK
<1> HIDE DEF u
<1>7. DataOK' /\ CursorOK' /\ PassedWasAnswered'
  BY <1>1, <1>6 DEF DataOK, CursorOK, PassedWasAnswered, Stored, bounds
<1>8. TurnOK(g)'
  <2>1. \A m \in Msgs : GroupOf[m] = g /\ time[m] > cursor[g] /\ time[m] <= t =>
          m \in u.batch \cup u.missed
    BY <1>5 DEF Since
  <2>2. QED
    BY <1>1, <1>3, <1>4, <1>5, <1>6, <2>1 DEF TurnOK
<1>9. ASSUME NEW h \in Groups, h # g PROVE TurnOK(h)'
  BY <1>1, <1>6, <1>9 DEF TurnOK
<1>10. QED
  BY <1>7, <1>8, <1>9 DEF FlowInv

(* Outputs change what the turn knows of its answer, and nothing else.     *)
LEMMA OutputKeeps ==
  ASSUME FlowInv, NEW g \in Groups, NEW text \in BOOLEAN, NEW ok \in BOOLEAN,
         Output(g, text, ok)
  PROVE  FlowInv'
<1>1. /\ DataOK /\ CursorOK /\ PassedWasAnswered /\ \A h \in Groups : TurnOK(h)
      /\ InTurn(g)
      /\ turn' = [turn EXCEPT ![g].spoke = TRUE, ![g].sent = @ \/ text, ![g].failed = @ \/ ~ok]
      /\ UNCHANGED <<time, up, owned, recovering, bounds, dbCursor, cursor, answered,
                     excused, gaveUp>>
  BY DEF FlowInv, Output, turnFrame, history
<1>2. /\ turn' \in [Groups -> TurnState]
      /\ \A h \in Groups : /\ turn'[h].batch = turn[h].batch /\ turn'[h].last = turn[h].last
                           /\ turn'[h].missed = turn[h].missed
                           /\ h # g => turn'[h] = turn[h]
  <2> DEFINE s == turn[g].sent \/ text
             f == turn[g].failed \/ ~ok
             u == [turn[g] EXCEPT !.spoke = TRUE, !.sent = s, !.failed = f]
  <2>1. turn[g] \in TurnState
    BY <1>1 DEF DataOK
  <2>2. s \in BOOLEAN /\ f \in BOOLEAN
    OBVIOUS
  <2> HIDE DEF s, f
  <2>3. /\ u \in TurnState /\ u.batch = turn[g].batch /\ u.last = turn[g].last
        /\ u.missed = turn[g].missed
    BY <2>1, <2>2 DEF TurnState
  <2>4. turn' = [turn EXCEPT ![g] = u]
    BY <1>1, <2>1 DEF s, f, TurnState, DataOK
  <2> HIDE DEF u
  <2>5. turn \in [Groups -> TurnState]
    BY <1>1 DEF DataOK
  <2>6. turn'[g] = u /\ \A h \in Groups \ {g} : turn'[h] = turn[h]
    BY <2>4, <2>5
  <2>7. turn' \in [Groups -> TurnState]
    BY <2>3, <2>4, <2>5
  <2>8. QED
    BY <2>3, <2>6, <2>7
<1>3. DataOK' /\ CursorOK' /\ PassedWasAnswered'
  BY <1>1, <1>2 DEF DataOK, CursorOK, PassedWasAnswered, Stored, bounds
<1>4. \A h \in Groups : TurnOK(h)'
  BY <1>1, <1>2 DEF TurnOK, InTurn
<1>5. QED
  BY <1>3, <1>4 DEF FlowInv

(* The cursor moves to the end of the batch: in memory and in the          *)
(* database, or, if the process dies in between, in the database alone.    *)
LEMMA AdvanceKeeps ==
  ASSUME FlowInv, NEW g \in Groups, up, InTurn(g),
         dbCursor' = Advanced(g),
         answered' = answered \cup turn[g].batch,
         excused' = excused \cup turn[g].missed,
         UNCHANGED time
  PROVE  /\ dbCursor' \in [Groups -> 0 .. MaxTime]
         /\ dbCursor'[g] = turn[g].last /\ \A h \in Groups \ {g} : dbCursor'[h] = cursor[h]
         /\ \A h \in Groups : dbCursor'[h] >= dbCursor[h]
         /\ answered' \subseteq Msgs /\ excused' \subseteq Msgs
         /\ \A m \in answered' : Stored(m) /\ time[m] <= dbCursor'[GroupOf[m]]
         /\ PassedWasAnswered'
<1>1. DataOK /\ CursorOK /\ PassedWasAnswered /\ TurnOK(g) /\ cursor = dbCursor
  BY DEF FlowInv, CursorOK
<1>2. turn[g] \in TurnState
  BY <1>1 DEF DataOK
<1>3. /\ dbCursor' \in [Groups -> 0 .. MaxTime]
      /\ dbCursor'[g] = turn[g].last /\ \A h \in Groups \ {g} : dbCursor'[h] = cursor[h]
  BY <1>1, <1>2 DEF Advanced, DataOK, TurnState
<1>4. \A h \in Groups : dbCursor'[h] >= dbCursor[h]
  <2>1. turn[g].last > dbCursor[g]
    BY <1>1 DEF TurnOK, InTurn
  <2>2. \A h \in Groups : dbCursor[h] \in Nat /\ dbCursor'[h] \in Nat
    BY <1>1, <1>3 DEF DataOK
  <2>3. QED
    BY <1>1, <1>3, <2>1, <2>2
<1>5. answered' \subseteq Msgs /\ excused' \subseteq Msgs
  BY <1>1, <1>2 DEF DataOK, TurnState
<1>6. ASSUME NEW m \in answered' PROVE Stored(m) /\ time[m] <= dbCursor'[GroupOf[m]]
  <2>1. CASE m \in answered
    <3>1. /\ m \in Msgs /\ GroupOf[m] \in Groups /\ Stored(m) /\ time[m] <= dbCursor[GroupOf[m]]
          /\ time[m] \in Nat
      BY <1>1, <2>1, MessageFlowAssumption DEF CursorOK, DataOK
    <3>2. dbCursor[GroupOf[m]] \in Nat /\ dbCursor'[GroupOf[m]] \in Nat
      BY <1>1, <1>3, <3>1 DEF DataOK
    <3>3. QED
      BY <1>4, <3>1, <3>2
  <2>2. CASE m \in turn[g].batch
    <3>1. m \in Msgs /\ GroupOf[m] = g /\ time[m] > cursor[g]
      BY <1>1, <1>2, <2>2 DEF TurnOK, TurnState
    <3>2. time[m] <= turn[g].last
      BY <1>1, <2>2 DEF TurnOK
    <3>3. QED
      BY <1>1, <1>3, <3>1, <3>2 DEF Stored, DataOK
  <2>3. QED
    BY <1>6, <2>1, <2>2
<1>7. PassedWasAnswered'
  <2> SUFFICES ASSUME NEW m \in Msgs, Stored(m), time[m] <= dbCursor'[GroupOf[m]]
               PROVE  m \in answered' \cup excused'
    BY DEF PassedWasAnswered, Stored
  <2>1. CASE GroupOf[m] = g /\ time[m] > cursor[g]
    BY <1>1, <1>3, <2>1 DEF TurnOK
  <2>2. CASE ~(GroupOf[m] = g /\ time[m] > cursor[g])
    <3>1. time[m] <= dbCursor[GroupOf[m]]
      BY <1>1, <1>3, <2>2, MessageFlowAssumption DEF DataOK
    <3>2. QED
      BY <1>1, <3>1 DEF PassedWasAnswered
  <2>3. QED
    BY <2>1, <2>2
<1>8. QED
  BY <1>3, <1>4, <1>5, <1>6, <1>7

(* A successful turn: its messages are answered, those it knowingly missed *)
(* are excused, and no other lies behind the new cursor.                   *)
LEMMA CommitKeeps ==
  ASSUME FlowInv, NEW g \in Groups, NEW i, CommitTurn(g, i)
  PROVE  FlowInv'
<1>1. /\ DataOK /\ CursorOK /\ \A h \in Groups : TurnOK(h)
      /\ up /\ InTurn(g)
      /\ cursor' = Advanced(g) /\ dbCursor' = cursor'
      /\ turn' = [turn EXCEPT ![g] = NoTurn]
      /\ answered' = answered \cup turn[g].batch
      /\ excused' = excused \cup turn[g].missed
      /\ UNCHANGED <<time, up, owned, recovering, bounds, gaveUp>>
  BY DEF FlowInv, CommitTurn, SaveState, Serving, turnFrame
<1>2. /\ dbCursor' \in [Groups -> 0 .. MaxTime]
      /\ \A h \in Groups \ {g} : dbCursor'[h] = cursor[h]
      /\ answered' \subseteq Msgs /\ excused' \subseteq Msgs
      /\ \A m \in answered' : Stored(m) /\ time[m] <= dbCursor'[GroupOf[m]]
      /\ PassedWasAnswered'
  BY <1>1, AdvanceKeeps
<1>3. turn' \in [Groups -> TurnState] /\ turn'[g] = NoTurn /\ \A h \in Groups \ {g} : turn'[h] = turn[h]
  BY <1>1, NoTurnOK DEF DataOK
<1>4. DataOK' /\ CursorOK'
  BY <1>1, <1>2, <1>3 DEF DataOK, CursorOK, Stored, bounds
<1>5. TurnOK(g)'
  BY <1>1, <1>2, <1>3, NoTurnOK DEF TurnOK, DataOK
<1>6. ASSUME NEW h \in Groups, h # g PROVE TurnOK(h)'
  BY <1>1, <1>2, <1>3, <1>6 DEF TurnOK
<1>7. QED
  BY <1>2, <1>4, <1>5, <1>6 DEF FlowInv

(* A turn that fails or is cancelled leaves the cursor where it was.       *)
LEMMA TurnDropped ==
  ASSUME FlowInv, NEW g \in Groups,
         turn' = [turn EXCEPT ![g] = NoTurn],
         gaveUp' \subseteq Groups,
         UNCHANGED <<time, up, owned, recovering, bounds, dbCursor, cursor, answered, excused>>
  PROVE  FlowInv'
<1>1. DataOK /\ CursorOK /\ PassedWasAnswered /\ \A h \in Groups : TurnOK(h)
  BY DEF FlowInv
<1>2. turn' \in [Groups -> TurnState] /\ turn'[g] = NoTurn /\ \A h \in Groups \ {g} : turn'[h] = turn[h]
  BY <1>1, NoTurnOK DEF DataOK
<1>3. DataOK' /\ CursorOK' /\ PassedWasAnswered'
  BY <1>1, <1>2 DEF DataOK, CursorOK, PassedWasAnswered, Stored, bounds
<1>4. TurnOK(g)'
  BY <1>1, <1>2, NoTurnOK DEF TurnOK, DataOK
<1>5. ASSUME NEW h \in Groups, h # g PROVE TurnOK(h)'
  BY <1>1, <1>2, <1>5 DEF TurnOK
<1>6. QED
  BY <1>3, <1>4, <1>5 DEF FlowInv

(* Steps of the dispatcher that touch neither messages nor cursors.        *)
LEMMA FlowUntouched ==
  ASSUME FlowInv,
         gaveUp' \subseteq Groups, recovering' \subseteq Groups, stops' \in 0 .. MaxStops,
         UNCHANGED <<time, up, owned, repeats, dbCursor, cursor, turn, answered, excused>>
  PROVE  FlowInv'
BY DEF FlowInv, DataOK, CursorOK, PassedWasAnswered, TurnOK, Stored

(* The process ends, at whatever point: only the tables count.             *)
LEMMA MemoryLostKeeps ==
  ASSUME DataOK, MemoryLost,
         time' \in [Msgs -> 0 .. MaxTime], dbCursor' \in [Groups -> 0 .. MaxTime],
         stops' \in 0 .. MaxStops, repeats' \in 0 .. MaxRepeats,
         answered' \subseteq Msgs, excused' \subseteq Msgs, gaveUp' \subseteq Groups,
         \A m \in answered' : Stored(m)' /\ time'[m] <= dbCursor'[GroupOf[m]],
         PassedWasAnswered'
  PROVE  FlowInv'
<1>1. /\ ~up' /\ up' \in BOOLEAN /\ owned' = {} /\ recovering' = {}
      /\ turn' = [g \in Groups |-> NoTurn] /\ cursor' = [g \in Groups |-> 0]
  BY DEF MemoryLost
<1>2. turn' \in [Groups -> TurnState] /\ cursor' \in [Groups -> 0 .. MaxTime]
  <2>1. 0 \in 0 .. MaxTime
    BY MessageFlowAssumption
  <2>2. QED
    BY <1>1, <2>1, NoTurnOK
<1>3. DataOK' /\ CursorOK'
  BY <1>1, <1>2 DEF DataOK, CursorOK
<1>4. ASSUME NEW g \in Groups PROVE TurnOK(g)'
  BY <1>1, NoTurnOK DEF TurnOK
<1>5. QED
  BY <1>3, <1>4 DEF FlowInv

(* The five ways to go down: between two steps, after the row of a message *)
(* or the cursor of a turn was written, and after a shutdown.              *)
LEMMA StopKeeps ==
  ASSUME FlowInv,
         \/ Crash \/ Exit
         \/ \E m \in Msgs : CrashInDeliver(m)
         \/ \E g \in Groups : CrashInCommit(g)
  PROVE  FlowInv'
<1>1. DataOK /\ CursorOK /\ PassedWasAnswered /\ \A g \in Groups : TurnOK(g)
  BY DEF FlowInv
<1>2. CASE Crash \/ Exit
  <2>1. MemoryLost /\ stops' \in 0 .. MaxStops
        /\ UNCHANGED <<time, dbCursor, repeats, answered, excused, gaveUp>>
    BY <1>1, <1>2, MessageFlowAssumption DEF Crash, Exit, StopSome, bounds, history, DataOK
  <2>2. QED
    BY <1>1, <2>1, MemoryLostKeeps DEF DataOK, CursorOK, PassedWasAnswered, Stored
<1>3. ASSUME NEW m \in Msgs, CrashInDeliver(m) PROVE FlowInv'
  <2>1. MemoryLost /\ up /\ UNCHANGED <<dbCursor, gaveUp>>
    BY <1>3 DEF CrashInDeliver, Serving
  <2>2. stops' \in 0 .. MaxStops
    BY <1>1, <1>3, MessageFlowAssumption DEF CrashInDeliver, StopSome, DataOK
  <2>3. PICK t \in 1 .. MaxTime : StoreRow(m, t)
    BY <1>3 DEF CrashInDeliver
  <2>4. /\ time' \in [Msgs -> 0 .. MaxTime] /\ repeats' \in 0 .. MaxRepeats
        /\ answered' \subseteq answered /\ excused' \subseteq Msgs
        /\ \A n \in answered' : Stored(n)' /\ time'[n] <= dbCursor'[GroupOf[n]]
        /\ PassedWasAnswered'
    BY <2>1, <2>3, RowKeeps
  <2>5. QED
    BY <1>1, <2>1, <2>2, <2>4, MemoryLostKeeps DEF DataOK
<1>4. ASSUME NEW g \in Groups, CrashInCommit(g) PROVE FlowInv'
  <2>1. /\ MemoryLost /\ up /\ InTurn(g)
        /\ dbCursor' = Advanced(g)
        /\ answered' = answered \cup turn[g].batch
        /\ excused' = excused \cup turn[g].missed
        /\ UNCHANGED <<time, repeats, gaveUp>>
    BY <1>4 DEF CrashInCommit, Serving
  <2>2. stops' \in 0 .. MaxStops
    BY <1>1, <1>4, MessageFlowAssumption DEF CrashInCommit, StopSome, DataOK
  <2>3. /\ dbCursor' \in [Groups -> 0 .. MaxTime]
        /\ answered' \subseteq Msgs /\ excused' \subseteq Msgs
        /\ \A m \in answered' : Stored(m) /\ time[m] <= dbCursor'[GroupOf[m]]
        /\ PassedWasAnswered'
    BY <2>1, AdvanceKeeps
  <2>4. QED
    BY <1>1, <2>1, <2>2, <2>3, MemoryLostKeeps DEF DataOK, CursorOK, Stored
<1>5. QED
  BY <1>2, <1>3, <1>4

(* load_state: the process believes what it finds.                         *)
LEMMA StartKeeps ==
  ASSUME FlowInv, Start
  PROVE  FlowInv'
<1>1. /\ DataOK /\ CursorOK /\ PassedWasAnswered /\ \A g \in Groups : TurnOK(g)
      /\ ~up /\ up' = TRUE /\ owned' \subseteq Groups
      /\ cursor' = dbCursor /\ recovering' = Groups
      /\ UNCHANGED <<time, dbCursor, turn, stops, repeats, answered, excused, gaveUp>>
  BY MessageFlowAssumption DEF FlowInv, Start, bounds, history
<1>2. DataOK' /\ CursorOK' /\ PassedWasAnswered'
  BY <1>1 DEF DataOK, CursorOK, PassedWasAnswered, Stored
<1>3. ASSUME NEW g \in Groups PROVE TurnOK(g)'
  <2>1. turn[g] = NoTurn
    BY <1>1 DEF TurnOK
  <2>2. QED
    BY <1>1, <1>2, <2>1, NoTurnOK DEF TurnOK, DataOK
<1>4. QED
  BY <1>2, <1>3 DEF FlowInv

-----------------------------------------------------------------------------
(* An empty database, and no process.                                      *)
LEMMA InitOK == Init => FlowInv
<1> SUFFICES ASSUME Init PROVE FlowInv
  OBVIOUS
<1>1. 0 \in 0 .. MaxTime /\ 0 \in 0 .. MaxStops /\ 0 \in 0 .. MaxRepeats
  BY MessageFlowAssumption
<1>2. DataOK
  BY <1>1, NoTurnOK DEF Init, DataOK
<1>3. CursorOK /\ PassedWasAnswered
  BY DEF Init, CursorOK, PassedWasAnswered, Stored
<1>4. \A g \in Groups : TurnOK(g)
  BY NoTurnOK DEF Init, TurnOK
<1>5. QED
  BY <1>2, <1>3, <1>4 DEF FlowInv

(* Every step of the channels, the turns, the dispatcher and the process.  *)
LEMMA NextKeeps == FlowInv /\ [Next]_vars => FlowInv'
<1> SUFFICES ASSUME FlowInv, [Next]_vars PROVE FlowInv'
  OBVIOUS
<1>1. DataOK
  BY DEF FlowInv
<1>2. CASE UNCHANGED vars
  BY <1>1, <1>2, FlowUntouched DEF vars, bounds, history, DataOK
<1>3. ASSUME NEW m \in Msgs, Deliver(m) PROVE FlowInv'
  BY <1>3, DeliverKeeps
<1>4. ASSUME NEW g \in Groups, NEW i \in DOMAIN runs[g], EmptyTurn(g, i) PROVE FlowInv'
  BY <1>1, <1>4, FlowUntouched DEF EmptyTurn, turnFrame, bounds, DataOK
<1>5. ASSUME NEW g \in Groups, NEW i \in DOMAIN runs[g], StartTurn(g, i) PROVE FlowInv'
  BY <1>5, StartTurnKeeps
<1>6. ASSUME NEW g \in Groups, NEW i \in DOMAIN runs[g],
             ErrTurn(g, i) \/ RaiseTurn(g, i) \/ CancelTurn(g, i)
      PROVE  FlowInv'
  <2>1. gaveUp' \subseteq Groups
    BY <1>1, <1>6 DEF ErrTurn, RaiseTurn, CancelTurn, history, DataOK
  <2>2. QED
    BY <1>6, <2>1, TurnDropped DEF ErrTurn, RaiseTurn, CancelTurn, turnFrame, history
<1>7. ASSUME NEW g \in Groups, Retry(g) \/ Recover(g) PROVE FlowInv'
  BY <1>1, <1>7, FlowUntouched DEF Retry, Recover, turnFrame, bounds, history, DataOK
<1>8. CASE Shutdown
  BY <1>1, <1>8, MessageFlowAssumption, FlowUntouched DEF Shutdown, StopSome, history, DataOK
<1>9. QED
  BY <1>2, <1>3, <1>4, <1>5, <1>6, <1>7, <1>8, OutputKeeps, CommitKeeps, StopKeeps, StartKeeps
     DEF Next, Begins, Ends, TurnEnds

(* The inductive invariant of the message flow.                            *)
THEOREM InvariantHolds == Spec => []FlowInv
BY InitOK, NextKeeps, PTL DEF Spec

(* The commit of a turn, minutes after its batch was read, passes no       *)
(* message that arrived meanwhile, and a crash at any point hides none.    *)
THEOREM NothingIsPassed == Spec => []PassedWasAnswered
BY InvariantHolds, PTL DEF FlowInv

(* No turn is given a row of a committed turn again, whatever is retried,  *)
(* recovered or delivered: only a delivery that moves the row to another   *)
(* timestamp makes it one to answer (db.py, INSERT OR REPLACE).            *)
THEOREM AnsweredStays == Spec => []AnsweredIsFinal
<1>1. FlowInv => AnsweredIsFinal
  <2> SUFFICES ASSUME FlowInv, NEW g \in Groups, NEW m \in turn[g].batch, m \in answered
               PROVE  FALSE
    BY DEF AnsweredIsFinal
  <2>1. DataOK /\ CursorOK /\ TurnOK(g)
    BY DEF FlowInv
  <2>2. turn[g].last # 0
    BY <2>1, NoTurnOK DEF TurnOK
  <2>3. /\ cursor = dbCursor /\ GroupOf[m] = g
        /\ time[m] > cursor[g] /\ time[m] <= dbCursor[g]
    BY <2>1, <2>2 DEF CursorOK, TurnOK
  <2>4. m \in Msgs /\ time[m] \in Nat /\ dbCursor[g] \in Nat
    BY <2>1 DEF DataOK
  <2>5. QED
    BY <2>3, <2>4
<1>2. QED
  BY <1>1, InvariantHolds, PTL

(* The cursor in the database only ever moves forward, and a running       *)
(* process believes what is in it.                                         *)
THEOREM CursorStays == Spec => CursorIsDurable
<1>1. FlowInv /\ FlowInv' /\ [Next]_vars =>
        [ /\ \A g \in Groups : dbCursor'[g] >= dbCursor[g]
          /\ up' => cursor' = dbCursor' ]_vars
  <2> SUFFICES ASSUME FlowInv, FlowInv', Next
               PROVE  /\ \A g \in Groups : dbCursor'[g] >= dbCursor[g]
                      /\ up' => cursor' = dbCursor'
    OBVIOUS
  <2>1. up' => cursor' = dbCursor'
    BY DEF FlowInv, CursorOK
  <2>2. CASE UNCHANGED dbCursor
    BY <2>1, <2>2 DEF FlowInv, DataOK
  <2>3. ASSUME NEW g \in Groups, up, InTurn(g), dbCursor' = Advanced(g),
               answered' = answered \cup turn[g].batch,
               excused' = excused \cup turn[g].missed, UNCHANGED time
        PROVE  \A h \in Groups : dbCursor'[h] >= dbCursor[h]
    BY <2>3, AdvanceKeeps
  <2>4. \/ UNCHANGED dbCursor
        \/ \E g \in Groups :
             /\ up /\ InTurn(g) /\ dbCursor' = Advanced(g) /\ UNCHANGED time
             /\ answered' = answered \cup turn[g].batch
             /\ excused' = excused \cup turn[g].missed
    BY DEF Next, Deliver, CrashInDeliver, Begins, EmptyTurn, StartTurn, Ends, TurnEnds, CommitTurn,
           SaveState, ErrTurn, RaiseTurn, CancelTurn, Retry, Recover, CrashInCommit, Output, Crash,
           Shutdown, Exit, Start, Serving, turnFrame, history
  <2>5. QED
    BY <2>1, <2>2, <2>3, <2>4
<1>2. QED
  BY <1>1, InvariantHolds, PTL DEF Spec, CursorIsDurable

-----------------------------------------------------------------------------
(* The dispatcher under the message flow: what is proved of GroupQueue     *)
(* holds of it through crashes and restarts too, and, on top of it, no     *)
(* message newer than its group's cursor is ever left lying.               *)
(*                                                                         *)
(* QP is the dispatcher with its theorems; it has no tasks here.           *)

QP == INSTANCE GroupQueueProofs WITH Tasks <- {}

(* The constants are such as the dispatcher needs.                         *)
LEMMA ConstantsFit == QP!GroupQueueAssumption
BY MessageFlowAssumption DEF QP!GroupQueueAssumption, QP!IsFiniteSet, IsFiniteSet

-----------------------------------------------------------------------------
(* The dispatcher of MessageFlow, Q, is the one of the proofs.             *)

(* The entry points.                                                       *)
LEMMA SameCheck ==
  ASSUME NEW g
  PROVE  /\ Q!EnqueueMessageCheck(g) <=> QP!EnqueueMessageCheck(g)
         /\ Q!RetryFires(g) <=> QP!RetryFires(g)
BY DEF Q!EnqueueMessageCheck, QP!EnqueueMessageCheck, Q!RetryFires, QP!RetryFires,
       Q!CheckMessages, QP!CheckMessages, Q!StartOne, QP!StartOne,
       Q!StartedMessages, QP!StartedMessages, Q!NewRun, QP!NewRun, Q!Park, QP!Park,
       Q!Waits, QP!Waits, Q!queueVars, QP!queueVars

(* What begins, speaks, or is stillborn; and the shutdown.                 *)
LEMMA SameSmall ==
  ASSUME NEW g, NEW i
  PROVE  /\ Q!NotifyIdle(g) <=> QP!NotifyIdle(g)
         /\ Q!BeginRun(g, i) <=> QP!BeginRun(g, i)
         /\ Q!RunNeverBegins(g, i) <=> QP!RunNeverBegins(g, i)
         /\ Q!Shutdown <=> QP!Shutdown
BY DEF Q!NotifyIdle, QP!NotifyIdle, Q!CloseStdin, QP!CloseStdin, Q!Begun, QP!Begun,
       Q!BeginRun, QP!BeginRun, Q!RunNeverBegins, QP!RunNeverBegins,
       Q!WithoutRun, QP!WithoutRun, Q!Shutdown, QP!Shutdown, Q!Cancelled, QP!Cancelled

(* The endings of a message run.                                           *)
LEMMA SameEnds ==
  ASSUME NEW g, NEW i
  PROVE  /\ Q!MessagesSucceed(g, i) <=> QP!MessagesSucceed(g, i)
         /\ Q!MessagesFail(g, i) <=> QP!MessagesFail(g, i)
         /\ Q!MessagesCancelled(g, i) <=> QP!MessagesCancelled(g, i)
<1>1. ASSUME NEW S PROVE Q!Cardinality(S) = QP!Cardinality(S)
  BY DEF Q!Cardinality, QP!Cardinality
<1>2. ASSUME NEW s PROVE Q!EndRun(g, i, s) <=> QP!EndRun(g, i, s)
  BY <1>1 DEF Q!EndRun, QP!EndRun, Q!DrainGroup, QP!DrainGroup, Q!DrainWaiting, QP!DrainWaiting,
       Q!Launch, QP!Launch, Q!HasPending, QP!HasPending, Q!WithoutRun, QP!WithoutRun,
       Q!NewRun, QP!NewRun, Q!NextTask, QP!NextTask, Q!StartedNext, QP!StartedNext,
       Q!StartedTask, QP!StartedTask, Q!StartedMessages, QP!StartedMessages
<1>3. QED
  BY <1>2 DEF Q!MessagesSucceed, QP!MessagesSucceed, Q!MessagesFail, QP!MessagesFail,
       Q!MessagesCancelled, QP!MessagesCancelled, Q!RunIsMessages, QP!RunIsMessages,
       Q!MayEnd, QP!MayEnd, Q!ScheduledRetry, QP!ScheduledRetry,
       Q!ScheduleTimer, QP!ScheduleTimer

-----------------------------------------------------------------------------
(* A step of the message flow is a step of the dispatcher, or leaves it    *)
(* alone, or is the end of the process, after which it starts afresh.      *)
LEMMA StepsOfQueue ==
  ASSUME [Next]_vars
  PROVE  QP!Next \/ UNCHANGED queue \/ MemoryLost
<1>1. CASE UNCHANGED vars
  BY <1>1 DEF vars
<1>2. ASSUME NEW m \in Msgs, Deliver(m) PROVE QP!Next
  BY <1>2, SameCheck, MessageFlowAssumption DEF Deliver, QP!Next
<1>3. ASSUME NEW g \in Groups, NEW i \in DOMAIN runs[g], EmptyTurn(g, i) \/ StartTurn(g, i)
      PROVE  QP!Next
  BY <1>3, SameEnds, SameSmall DEF EmptyTurn, StartTurn, QP!Next, QP!RunEnds
<1>4. ASSUME NEW g \in Groups, NEW i \in DOMAIN runs[g], TurnEnds(g, i) PROVE QP!Next
  BY <1>4, SameEnds, SameSmall
     DEF TurnEnds, CommitTurn, ErrTurn, RaiseTurn, CancelTurn, QP!Next, QP!RunEnds
<1>5. ASSUME NEW g \in Groups, Retry(g) \/ Recover(g) PROVE QP!Next \/ UNCHANGED queue
  BY <1>5, SameCheck DEF Retry, Recover, QP!Next
<1>6. ASSUME NEW g \in Groups, NEW text \in BOOLEAN, NEW ok \in BOOLEAN, Output(g, text, ok)
      PROVE  QP!Next \/ UNCHANGED queue
  BY <1>6, SameSmall DEF Output, QP!Next
<1>7. Shutdown => QP!Next
  BY SameSmall DEF Shutdown, QP!Next
<1>8. Start => UNCHANGED queue
  BY DEF Start
<1>9. (\E m \in Msgs : CrashInDeliver(m)) \/ (\E g \in Groups : CrashInCommit(g)) \/ Crash \/ Exit => MemoryLost
  BY DEF CrashInDeliver, CrashInCommit, Crash, Exit
<1>10. QED
  BY <1>1, <1>2, <1>3, <1>4, <1>5, <1>6, <1>7, <1>8, <1>9 DEF Next, Begins, Ends

(* The end of the process leaves a fresh dispatcher behind.                *)
LEMMA LostIsFresh == QP!IInv /\ MemoryLost => QP!IInv'
<1>1. MemoryLost => QP!Fresh'
  BY DEF MemoryLost, QP!Fresh, Q!FreshGroup, QP!FreshGroup
<1>2. QP!Fresh' => QP!QueueInv'
  BY QP!FreshOK, ConstantsFit, PTL
<1>3. QP!IInv /\ MemoryLost => /\ shuttingDown' \in BOOLEAN
                               /\ timers' \in [Groups -> Nat]
                               /\ closeFile' \in [Groups -> BOOLEAN]
  <2>1. 0 \in Nat
    OBVIOUS
  <2>2. QED
    BY <2>1 DEF QP!IInv, MemoryLost
<1>4. QED
  BY <1>1, <1>2, <1>3 DEF QP!IInv

(* So the dispatcher's invariant is kept by every step.                    *)
LEMMA QueueKeeps == QP!IInv /\ [Next]_vars => QP!IInv'
<1> SUFFICES ASSUME QP!IInv, [Next]_vars PROVE QP!IInv'
  OBVIOUS
<1>1. CASE QP!Next \/ UNCHANGED queue
  <2>1. QP!Next \/ UNCHANGED QP!vars
    BY <1>1 DEF queue, QP!vars
  <2>2. QP!IInv /\ [QP!Next]_(QP!vars) => QP!IInv'
    BY QP!NextIInv, ConstantsFit
  <2>3. QED
    BY <2>1, <2>2
<1>2. QED
  BY <1>1, StepsOfQueue, LostIsFresh

(* The invariant of the dispatcher, through crashes and restarts.          *)
THEOREM QueueStaysSound == Spec => []QP!IInv
<1>1. Init => QP!IInv
  <2> SUFFICES ASSUME Init PROVE QP!IInv
    OBVIOUS
  <2>1. QP!Init
    BY DEF Init, Q!Init, QP!Init, Q!FreshGroup, QP!FreshGroup
  <2>2. QED
    BY <2>1, QP!InitIInv, ConstantsFit
<1>2. QED
  BY <1>1, QueueKeeps, PTL DEF Spec

(* Type correctness of the message flow and of the dispatcher in it.       *)
THEOREM TypeCorrect == Spec => []TypeOK
<1>1. QP!IInv => Q!TypeOK
  <2>1. QP!IInv => QP!TypeOK
    BY QP!TypeHolds, ConstantsFit
  <2>2. QP!TypeOK => Q!TypeOK
    BY DEF QP!TypeOK, Q!TypeOK, QP!GroupState, Q!GroupState, QP!Run, Q!Run
  <2>3. QED
    BY <2>1, <2>2
<1>2. FlowInv /\ QP!IInv => TypeOK
  BY <1>1 DEF FlowInv, DataOK, TypeOK
<1>3. QED
  BY <1>2, QueueStaysSound, InvariantHolds, PTL

(* Crashes and restarts leave the dispatcher's promises standing.          *)
THEOREM DispatcherKeepsItsWord ==
  Spec => [](/\ QP!SerialExecution /\ QP!ConcurrencyLimit /\ QP!SlotAccounting
             /\ QP!NoLostWakeup /\ QP!WorkConserving)
<1>1. QP!IInv => /\ QP!SerialExecution /\ QP!ConcurrencyLimit /\ QP!SlotAccounting
                 /\ QP!NoLostWakeup /\ QP!WorkConserving
  BY ConstantsFit, QP!SerialHolds, QP!LimitHolds, QP!SlotsHold, QP!WakeupsHold, QP!WorkHolds
<1>2. QED
  BY <1>1, QueueStaysSound, PTL

-----------------------------------------------------------------------------
(* No message is stranded.                                                 *)

(* In hand, or left behind by the code's own rules.                        *)
Covered(g, m) ==
  \/ QP!Held(g) \/ time[m] <= turn[g].last
  \/ g \in gaveUp \/ g \notin owned \/ \E b \in Batches(g) : ~Triggered(g, b)

Kept(g) == \A m \in Since(g) : Covered(g, m)

(* From the moment recovery has looked at a group its messages are         *)
(* covered, and a turn runs only inside a run.                             *)
ServedInv ==
  up /\ ~shuttingDown =>
    \A g \in Groups : /\ g \in recovering \/ Kept(g)
                      /\ InTurn(g) => QP!InRun(g)

AllInv == FlowInv /\ QP!IInv /\ ServedInv

(* A group whose messages, cursor and turn a step leaves alone stays       *)
(* covered, unless it was let go.                                          *)
LEMMA KeptStays ==
  ASSUME NEW g \in Groups, Kept(g), cursor'[g] = cursor[g], turn'[g].last = turn[g].last,
         \A m \in Msgs : GroupOf[m] = g => time'[m] = time[m],
         QP!Held(g) => QP!Held(g)', g \in gaveUp => g \in gaveUp', UNCHANGED owned
  PROVE  Kept(g)'
<1>1. Since(g)' = Since(g) /\ \A m \in Since(g) : time'[m] = time[m]
  BY DEF Since
<1>2. ASSUME NEW b \in Batches(g) PROVE b \in Batches(g)'
  BY <1>1 DEF Batches
<1>3. \A b : Triggered(g, b)' = Triggered(g, b)
  BY DEF Triggered
<1>4. QED
  BY <1>1, <1>2, <1>3 DEF Kept, Covered

(* The group that acts may change as it likes; what the others see.        *)
LEMMA OthersServed ==
  ASSUME ServedInv, up, ~shuttingDown, NEW g \in Groups,
         \A h \in Groups \ {g} :
           /\ cursor'[h] = cursor[h] /\ turn'[h] = turn[h]
           /\ h \in gaveUp => h \in gaveUp'
           /\ h \in recovering => h \in recovering'
           /\ QP!Held(h) => QP!Held(h)'
           /\ QP!InRun(h) => QP!InRun(h)',
         \A m \in Msgs : GroupOf[m] # g => time'[m] = time[m],
         UNCHANGED owned, Kept(g)', InTurn(g)' => QP!InRun(g)'
  PROVE  ServedInv'
<1>1. ASSUME NEW h \in Groups, h # g, h \notin recovering PROVE Kept(h)'
  <2>1. Kept(h)
    BY <1>1 DEF ServedInv
  <2>2. QED
    BY <1>1, <2>1, KeptStays
<1>2. QED
  BY <1>1 DEF ServedInv, InTurn

(* Held messages are covered.                                              *)
LEMMA HeldIsKept == ASSUME NEW g, QP!Held(g) PROVE Kept(g)
BY DEF Kept, Covered

-----------------------------------------------------------------------------
(* Batches.                                                                *)

(* There are finitely many messages to read.                               *)
LEMMA SinceIsFinite ==
  ASSUME NEW g PROVE /\ IsFiniteSet(Since(g)) /\ Cardinality(Since(g)) \in Nat
                     /\ Since(g) \subseteq Msgs
BY MessageFlowAssumption, FS_Subset, FS_CardinalityType DEF Since

(* An empty batch means that there is nothing to read.                     *)
LEMMA EmptyBatch ==
  ASSUME NEW g, {} \in Batches(g) PROVE Since(g) = {}
<1>1. Cardinality({}) = 0
  BY FS_EmptySet
<1>2. Cardinality({}) = IF Cardinality(Since(g)) > Limit THEN Limit ELSE Cardinality(Since(g))
  BY DEF Batches
<1>3. Cardinality(Since(g)) = 0
  BY <1>1, <1>2, SinceIsFinite, MessageFlowAssumption
<1>4. QED
  BY <1>3, SinceIsFinite, FS_EmptySet

(* The batch that begins a turn reaches to the newest message.             *)
LEMMA BatchReachesLast ==
  ASSUME DataOK, NEW g, NEW b \in Batches(g), NEW t \in 1 .. MaxTime, IsLast(b, t),
         NEW m \in Since(g)
  PROVE  time[m] <= t
<1>1. PICK n \in b : time[n] = t
  BY DEF IsLast
<1>2. m \in Msgs /\ n \in Msgs
  BY DEF Batches, Since
<1>3. CASE m \in b
  BY <1>3 DEF IsLast
<1>4. CASE m \notin b
  BY <1>1, <1>4 DEF Batches
<1>5. QED
  BY <1>3, <1>4

(* When the cursor moves on and nobody had triggered the group, nobody     *)
(* has yet: the newest messages were not triggering, and they stay the     *)
(* newest.                                                                 *)
LEMMA UntriggeredStays ==
  ASSUME DataOK, NEW g \in Groups, NEW b \in Batches(g), ~Triggered(g, b),
         NEW t \in 0 .. MaxTime, t >= cursor[g],
         cursor' = [cursor EXCEPT ![g] = t], UNCHANGED time
  PROVE  \E c \in Batches(g)' : ~Triggered(g, c)
<1> DEFINE S == Since(g)
           R == Since(g)'
<1>1. R = {m \in S : time[m] > t} /\ S \subseteq Msgs
  <2>1. cursor'[g] = t /\ cursor[g] \in Nat
    BY DEF DataOK
  <2>2. R = {m \in Msgs : GroupOf[m] = g /\ time[m] > t}
    BY <2>1 DEF Since
  <2>3. \A m \in Msgs : time[m] \in Nat
    BY DEF DataOK
  <2>4. QED
    BY <2>1, <2>2, <2>3 DEF Since
<1>2. /\ IsFiniteSet(S) /\ Cardinality(S) \in Nat /\ b \subseteq S
      /\ Cardinality(b) = IF Cardinality(S) > Limit THEN Limit ELSE Cardinality(S)
      /\ \A m \in b, n \in S \ b : time[n] <= time[m]
  BY SinceIsFinite DEF Batches
<1>3. /\ IsFiniteSet(R) /\ R \subseteq S /\ IsFiniteSet(b)
      /\ Cardinality(R) \in Nat /\ Cardinality(b) \in Nat
  BY <1>1, <1>2, FS_Subset, FS_CardinalityType
<1>4. \A m \in S : time[m] \in Nat
  BY <1>1 DEF DataOK
<1>5. \A c : c \in Batches(g)' <=>
              /\ c \subseteq R
              /\ Cardinality(c) = IF Cardinality(R) > Limit THEN Limit ELSE Cardinality(R)
              /\ \A m \in c, n \in R \ c : time[n] <= time[m]
  BY DEF Batches
<1>6. g \in TriggerGroups /\ b \cap Triggering = {}
  BY DEF Triggered
<1>7. b \subseteq R \/ R \subseteq b
  BY <1>1, <1>2, <1>4
<1> HIDE DEF S, R
<1>8. CASE Cardinality(R) > Limit
  <2>1. Cardinality(S) >= Cardinality(R)
    BY <1>2, <1>3, FS_Subset
  <2>2. Cardinality(b) = Limit
    BY <1>2, <1>3, <1>8, <2>1, MessageFlowAssumption
  <2>3. ~(R \subseteq b)
    BY <1>3, <1>8, <2>2, FS_Subset, MessageFlowAssumption
  <2>4. b \in Batches(g)'
    BY <1>2, <1>3, <1>5, <1>7, <1>8, <2>2, <2>3
  <2>5. QED
    BY <1>6, <2>4 DEF Triggered
<1>9. CASE Cardinality(R) <= Limit
  <2>1. R \subseteq b
    <3>1. CASE Cardinality(S) <= Limit
      <4>1. Cardinality(b) = Cardinality(S)
        BY <1>2, <3>1, MessageFlowAssumption
      <4>2. b = S
        BY <1>2, <4>1, FS_Subset
      <4>3. QED
        BY <1>3, <4>2
    <3>2. CASE Cardinality(S) > Limit /\ b \subseteq R
      <4>1. Cardinality(b) = Limit /\ Cardinality(b) <= Cardinality(R)
        BY <1>2, <1>3, <3>2, FS_Subset
      <4>2. Cardinality(b) = Cardinality(R)
        BY <1>3, <1>9, <4>1, MessageFlowAssumption
      <4>3. QED
        BY <1>3, <3>2, <4>2, FS_Subset
    <3>3. QED
      BY <1>2, <1>7, <3>1, <3>2, MessageFlowAssumption
  <2>2. R \in Batches(g)'
    BY <1>3, <1>5, <1>9, MessageFlowAssumption
  <2>3. QED
    BY <1>6, <2>1, <2>2 DEF Triggered
<1>10. QED
  BY <1>3, <1>8, <1>9, MessageFlowAssumption

-----------------------------------------------------------------------------
(* The steps.                                                              *)

(* A check is enqueued: on delivery, by a retry, by the recovery.          *)
LEMMA CheckServes ==
  ASSUME AllInv, up, ~shuttingDown, NEW g \in Groups, QP!CheckMessages(g),
         \A h \in Groups \ {g} : timers'[h] = timers[h],
         \A h \in Groups \ {g} : turn'[h] = turn[h],
         turn'[g].last = turn[g].last,
         \A h \in Groups \ {g} : h \in recovering => h \in recovering',
         \A m \in Msgs : GroupOf[m] # g => time'[m] = time[m],
         UNCHANGED <<cursor, gaveUp, owned>>
  PROVE  ServedInv'
<1>1. QP!QueueInv /\ ServedInv
  BY DEF AllInv, QP!IInv
<1>2. /\ QP!Held(g)'
      /\ \A h \in Groups \ {g} : QP!Held(h) => QP!Held(h)'
      /\ \A h \in Groups : QP!InRun(h) => QP!InRun(h)'
  BY <1>1, QP!CheckHolds, ConstantsFit
<1>3. Kept(g)'
  BY <1>2 DEF Kept, Covered
<1>4. InTurn(g)' => QP!InRun(g)'
  BY <1>1, <1>2 DEF ServedInv, InTurn
<1>5. QED
  BY <1>1, <1>2, <1>3, <1>4, OthersServed

(* A delivery.                                                             *)
LEMMA DeliverServes ==
  ASSUME AllInv, NEW m \in Msgs, Deliver(m)
  PROVE  ServedInv'
<1> DEFINE g == GroupOf[m]
<1>1. /\ g \in Groups /\ up /\ ~shuttingDown
      /\ UNCHANGED <<cursor, gaveUp, owned, recovering, timers>>
  BY MessageFlowAssumption DEF Deliver, Serving, Q!EnqueueMessageCheck
<1>2. QP!CheckMessages(g)
  BY SameCheck DEF Deliver, QP!EnqueueMessageCheck
<1>3. PICK t \in 1 .. MaxTime : Store(m, t)
  BY DEF Deliver
<1>4. /\ \A h \in Groups \ {g} : turn'[h] = turn[h]
      /\ turn'[g].last = turn[g].last
  <2>1. CASE t = time[m]
    BY <1>3, <2>1 DEF Store
  <2>2. CASE t # time[m]
    BY <1>1, <1>3, <2>2, TurnRenewed DEF AllInv, FlowInv
  <2>3. QED
    BY <2>1, <2>2
<1>5. \A n \in Msgs : GroupOf[n] # g => time'[n] = time[n]
  BY <1>3 DEF Store, StoreRow, AllInv, FlowInv, DataOK
<1> HIDE DEF g
<1>6. QED
  BY <1>1, <1>2, <1>4, <1>5, CheckServes

(* A retry, or a round of the recovery.                                    *)
LEMMA RetryServes ==
  ASSUME AllInv, up, ~shuttingDown, NEW g \in Groups, Retry(g) \/ Recover(g)
  PROVE  ServedInv'
<1>1. timers \in [Groups -> Nat] /\ ServedInv
  BY DEF AllInv, QP!IInv
<1>2. CASE Retry(g)
  <2>1. /\ QP!CheckMessages(g) /\ timers' = [timers EXCEPT ![g] = @ - 1]
        /\ UNCHANGED <<turn, owned, recovering, time, cursor, gaveUp>>
    BY <1>2, SameCheck DEF Retry, QP!RetryFires, turnFrame, history
  <2>2. QED
    BY <1>1, <2>1, CheckServes
<1>3. CASE Recover(g) /\ Since(g) # {}
  <2>1. /\ QP!CheckMessages(g) /\ timers' = timers /\ recovering' = recovering \ {g}
        /\ UNCHANGED <<turn, owned, time, cursor, gaveUp>>
    BY <1>3, SameCheck DEF Recover, QP!EnqueueMessageCheck, history
  <2>2. QED
    BY <2>1, CheckServes
<1>4. CASE Recover(g) /\ Since(g) = {}
  <2>1. UNCHANGED <<queue, turn, owned, time, cursor, gaveUp>> /\ recovering' = recovering \ {g}
    BY <1>4 DEF Recover, history
  <2>2. Kept(g)'
    BY <1>4, <2>1 DEF Kept, Since
  <2>3. \A h : (QP!Held(h) <=> QP!Held(h)') /\ (QP!InRun(h) <=> QP!InRun(h)')
    BY <2>1 DEF queue, QP!Held, QP!InRun, QP!Waits, QP!Live
  <2>4. InTurn(g)' => QP!InRun(g)'
    BY <1>1, <2>1, <2>3 DEF ServedInv, InTurn
  <2>5. QED
    BY <1>1, <2>1, <2>2, <2>3, <2>4, OthersServed
<1>5. QED
  BY <1>2, <1>3, <1>4

(* A turn begins: its batch reaches to the newest message there is.        *)
LEMMA StartServes ==
  ASSUME AllInv, ~shuttingDown, NEW g \in Groups, NEW i \in DOMAIN runs[g], StartTurn(g, i)
  PROVE  ServedInv'
<1>1. /\ QP!QueueInv /\ ServedInv /\ DataOK /\ up /\ gaveUp' = gaveUp \ {g}
      /\ UNCHANGED <<time, owned, cursor, recovering>>
  BY DEF AllInv, FlowInv, QP!IInv, StartTurn, Serving, turnFrame
<1>2. QP!BeginRun(g, i)
  BY SameSmall DEF StartTurn
<1>3. /\ QP!InRun(g)'
      /\ \A h \in Groups \ {g} : (QP!Held(h) => QP!Held(h)') /\ (QP!InRun(h) => QP!InRun(h)')
  BY <1>1, <1>2, QP!BeginHolds, ConstantsFit
<1>4. PICK b \in Batches(g), t \in 1 .. MaxTime :
        IsLast(b, t) /\ turn' = [turn EXCEPT ![g] = TurnOn(g, b, t)]
  BY DEF StartTurn
<1>5. turn'[g].last = t /\ \A h \in Groups \ {g} : turn'[h] = turn[h]
  BY <1>1, <1>4 DEF DataOK, TurnOn, NoTurn
<1>6. Kept(g)'
  <2>1. Since(g)' = Since(g)
    BY <1>1 DEF Since
  <2>2. \A m \in Since(g) : time[m] <= t
    BY <1>1, <1>4, BatchReachesLast
  <2>3. QED
    BY <1>1, <1>5, <2>1, <2>2 DEF Kept, Covered
<1>7. QED
  BY <1>1, <1>3, <1>5, <1>6, OthersServed

(* A turn that finds nothing, or nobody who asked.                         *)
LEMMA EmptyServes ==
  ASSUME AllInv, ~shuttingDown, NEW g \in Groups, NEW i \in DOMAIN runs[g], EmptyTurn(g, i)
  PROVE  ServedInv'
<1>1. /\ QP!QueueInv /\ ServedInv /\ up /\ gaveUp' = gaveUp \ {g}
      /\ timers \in [Groups -> Nat]
      /\ runs[g][i].phase = "created"
      /\ UNCHANGED <<time, owned, cursor, turn, recovering, timers>>
  BY DEF AllInv, QP!IInv, EmptyTurn, Serving, turnFrame, Q!MessagesSucceed
<1>2. QP!RunEnds(g, i)
  BY SameEnds DEF EmptyTurn, QP!RunEnds
<1>3. \A h \in Groups \ {g} :
        (QP!Held(h) => QP!Held(h)') /\ (QP!InRun(h) => QP!InRun(h)')
  BY <1>1, <1>2, QP!RunEndHolds, ConstantsFit
<1>4. ~InTurn(g) /\ ~InTurn(g)'
  BY <1>1, QP!BusyGroup, ConstantsFit DEF ServedInv, InTurn
<1>5. Kept(g)'
  <2>1. Since(g)' = Since(g) /\ Batches(g)' = Batches(g)
    BY <1>1 DEF Since, Batches
  <2>2. CASE {} \in Batches(g)
    BY <2>1, <2>2, EmptyBatch DEF Kept
  <2>3. CASE \E b \in Batches(g) : ~Triggered(g, b)
    BY <2>1, <2>3 DEF Kept, Covered, Triggered
  <2>4. CASE g \notin owned
    BY <1>1, <2>4 DEF Kept, Covered
  <2>5. QED
    BY <2>2, <2>3, <2>4 DEF EmptyTurn
<1>6. QED
  BY <1>1, <1>3, <1>4, <1>5, OthersServed

(* A turn commits: what arrived while the agent ran was noted and is in    *)
(* hand, for the run that ends looks at it.                                *)
LEMMA CommitServes ==
  ASSUME AllInv, ~shuttingDown, NEW g \in Groups, NEW i \in DOMAIN runs[g], CommitTurn(g, i)
  PROVE  ServedInv'
<1>1. /\ QP!QueueInv /\ ServedInv /\ DataOK /\ TurnOK(g) /\ up /\ recovering = {}
      /\ timers \in [Groups -> Nat]
      /\ InTurn(g)
      /\ cursor' = [cursor EXCEPT ![g] = turn[g].last]
      /\ turn' = [turn EXCEPT ![g] = NoTurn]
      /\ UNCHANGED <<time, owned, recovering, timers, gaveUp>>
  BY DEF AllInv, FlowInv, QP!IInv, CommitTurn, Advanced, Serving, turnFrame, Q!MessagesSucceed
<1>2. QP!RunEnds(g, i)
  BY SameEnds DEF CommitTurn, QP!RunEnds
<1>3. /\ groups[g].pendingMessages => QP!Held(g)'
      /\ \A h \in Groups \ {g} :
           (QP!Held(h) => QP!Held(h)') /\ (QP!InRun(h) => QP!InRun(h)')
  BY <1>1, <1>2, QP!RunEndHolds, ConstantsFit
<1>4. /\ ~InTurn(g)' /\ \A h \in Groups \ {g} : turn'[h] = turn[h]
      /\ \A h \in Groups \ {g} : cursor'[h] = cursor[h]
  BY <1>1, NoTurnOK DEF DataOK, InTurn
<1>5. /\ turn[g].last \in 0 .. MaxTime /\ turn[g].last >= cursor[g]
      /\ Since(g)' = {m \in Since(g) : time[m] > turn[g].last}
  <2>1. turn[g].last \in 0 .. MaxTime /\ turn[g].last > cursor[g] /\ cursor[g] \in Nat
    BY <1>1 DEF DataOK, TurnState, TurnOK, InTurn
  <2>2. cursor'[g] = turn[g].last
    BY <1>1 DEF DataOK
  <2>3. \A m \in Msgs : time[m] \in Nat
    BY <1>1 DEF DataOK
  <2>4. QED
    BY <1>1, <2>1, <2>2, <2>3 DEF Since
<1>6. Kept(g)'
  <2> SUFFICES ASSUME NEW m \in Since(g), time[m] > turn[g].last PROVE Covered(g, m)'
    BY <1>5 DEF Kept
  <2>1. Covered(g, m) /\ ~(time[m] <= turn[g].last)
    <3>1. time[m] \in Nat /\ turn[g].last \in Nat
      BY <1>1, <1>5 DEF DataOK, Since
    <3>2. QED
      BY <1>1, <3>1 DEF ServedInv, Kept
  <2>2. CASE QP!Held(g)
    <3>1. QP!InRun(g)
      BY <1>1 DEF ServedInv
    <3>2. timers[g] > 0 \/ groups[g].pendingMessages
      BY <1>1, <2>2, <3>1, QP!BusyGroup, ConstantsFit DEF QP!Held
    <3>3. QP!Held(g)'
      BY <1>1, <1>3, <3>2 DEF QP!Held
    <3>4. QED
      BY <3>3 DEF Covered
  <2>3. CASE g \in gaveUp
    BY <1>1, <2>3 DEF Covered
  <2>4. CASE \E b \in Batches(g) : ~Triggered(g, b)
    <3>1. \E b \in Batches(g)' : ~Triggered(g, b)
      BY <1>1, <1>5, <2>4, UntriggeredStays
    <3>2. QED
      BY <3>1 DEF Covered, Triggered
  <2>5. CASE g \notin owned
    BY <1>1, <2>5 DEF Covered
  <2>6. QED
    BY <2>1, <2>2, <2>3, <2>4, <2>5 DEF Covered
<1>7. QED
  BY <1>1, <1>3, <1>4, <1>6, OthersServed

(* A turn fails: a retry sleeps, or the group is let go.                   *)
LEMMA FailureServes ==
  ASSUME AllInv, ~shuttingDown, NEW g \in Groups, NEW i \in DOMAIN runs[g],
         ErrTurn(g, i) \/ RaiseTurn(g, i)
  PROVE  ServedInv'
<1>1. /\ QP!QueueInv /\ ServedInv /\ DataOK /\ up /\ timers \in [Groups -> Nat]
      /\ turn' = [turn EXCEPT ![g] = NoTurn]
      /\ UNCHANGED <<time, owned, cursor, recovering>>
  BY DEF AllInv, FlowInv, QP!IInv, ErrTurn, RaiseTurn, Serving, turnFrame
<1>2. QP!RunEnds(g, i)
  BY SameEnds DEF ErrTurn, RaiseTurn, QP!RunEnds
<1>3. /\ \A h \in Groups \ {g} : timers'[h] = timers[h] /\ (h \in gaveUp => h \in gaveUp')
      /\ g \in gaveUp' \/ timers'[g] > 0
  <2>1. CASE Q!MessagesSucceed(g, i) /\ gaveUp' = gaveUp \cup {g}
    BY <2>1 DEF Q!MessagesSucceed
  <2>2. CASE /\ Q!MessagesFail(g, i)
             /\ gaveUp' = IF NoMoreRetries(g) THEN gaveUp \cup {g} ELSE gaveUp
    <3>1. timers' = IF NoMoreRetries(g) THEN timers ELSE [timers EXCEPT ![g] = @ + 1]
      BY <2>2 DEF Q!MessagesFail, Q!ScheduleTimer, NoMoreRetries
    <3>2. QED
      BY <1>1, <2>2, <3>1
  <2>3. QED
    BY <2>1, <2>2 DEF ErrTurn, RaiseTurn
<1>4. \A h \in Groups \ {g} :
        (QP!Held(h) => QP!Held(h)') /\ (QP!InRun(h) => QP!InRun(h)')
  BY <1>1, <1>2, <1>3, QP!RunEndHolds, ConstantsFit
<1>5. ~InTurn(g)' /\ \A h \in Groups \ {g} : turn'[h] = turn[h]
  BY <1>1, NoTurnOK DEF DataOK, InTurn
<1>6. Kept(g)'
  BY <1>3 DEF Kept, Covered, QP!Held
<1>7. QED
  BY <1>1, <1>3, <1>4, <1>5, <1>6, OthersServed

(* The agent speaks.                                                       *)
LEMMA OutputServes ==
  ASSUME AllInv, ~shuttingDown, NEW g \in Groups, NEW text \in BOOLEAN, NEW ok \in BOOLEAN,
         Output(g, text, ok)
  PROVE  ServedInv'
<1>1. /\ ServedInv /\ DataOK /\ up /\ recovering = {} /\ groups \in [Groups -> QP!GroupState]
      /\ turn' = [turn EXCEPT ![g].spoke = TRUE, ![g].sent = @ \/ text, ![g].failed = @ \/ ~ok]
      /\ UNCHANGED <<time, owned, cursor, recovering, gaveUp>>
  BY DEF AllInv, FlowInv, QP!IInv, QP!QueueInv, QP!GroupsOK, Output, Serving, turnFrame, history
<1>2. \A h \in Groups : turn'[h].batch = turn[h].batch /\ turn'[h].last = turn[h].last
  BY <1>1 DEF DataOK, TurnState
<1>3. /\ \A h \in Groups : groups'[h].pendingMessages = groups[h].pendingMessages
      /\ UNCHANGED <<waitingGroups, runs, timers>>
  <2>1. CASE UNCHANGED queue
    BY <2>1 DEF queue
  <2>2. CASE QP!NotifyIdle(g)
    BY <1>1, <2>2 DEF QP!NotifyIdle, QP!GroupState
  <2>3. QED
    BY <2>1, <2>2, SameSmall DEF Output
<1>4. \A h \in Groups : (QP!Held(h) => QP!Held(h)') /\ (QP!InRun(h) => QP!InRun(h)')
  BY <1>3 DEF QP!Held, QP!InRun, QP!Waits, QP!Live
<1>5. \A h \in Groups : Kept(h)'
  BY <1>1, <1>2, <1>4, KeptStays DEF ServedInv
<1>6. QED
  BY <1>1, <1>2, <1>4, <1>5 DEF ServedInv, InTurn

(* A cancelled turn belongs to a shutdown.                                 *)
LEMMA NobodyIsCancelled ==
  ASSUME AllInv, ~shuttingDown, NEW g \in Groups, NEW i \in DOMAIN runs[g]
  PROVE  ~CancelTurn(g, i)
<1>1. QP!QueueInv
  BY DEF AllInv, QP!IInv
<1>2. runs[g][i].phase \in {"created", "running"}
  BY <1>1, QP!BusyGroup, ConstantsFit
<1>3. QED
  BY <1>2 DEF CancelTurn, Q!MessagesCancelled, Q!RunNeverBegins

(* load_state: every group is yet to be looked at.                         *)
LEMMA StartUpServes ==
  ASSUME AllInv, Start PROVE ServedInv'
<1>1. \A g \in Groups : turn[g] = NoTurn
  BY DEF AllInv, FlowInv, TurnOK, Start
<1>2. QED
  BY <1>1, NoTurnOK DEF Start, ServedInv, InTurn

(* Every step keeps the messages covered.                                  *)
LEMMA ServedKeeps == AllInv /\ [Next]_vars => ServedInv'
<1> SUFFICES ASSUME AllInv, [Next]_vars, up', ~shuttingDown' PROVE ServedInv'
  BY DEF ServedInv
<1>1. CASE UNCHANGED vars
  <2>1. UNCHANGED <<groups, shuttingDown, waitingGroups, runs, timers, time, cursor, turn, up,
                    owned, recovering, gaveUp>>
    BY <1>1 DEF vars, queue, history
  <2>2. \A g : (QP!Held(g) => QP!Held(g)') /\ (QP!InRun(g) => QP!InRun(g)')
    BY <2>1 DEF QP!Held, QP!InRun, QP!Waits, QP!Live
  <2>3. QED
    BY <2>1, <2>2, KeptStays DEF AllInv, ServedInv, InTurn
<1>2. CASE Start
  BY <1>2, StartUpServes
<1>3. ASSUME Next, ~Start PROVE up /\ ~shuttingDown
  <2>1. ~MemoryLost /\ ~Shutdown
    BY DEF MemoryLost, Shutdown, Q!Shutdown
  <2>2. ASSUME NEW m \in Msgs, Deliver(m) \/ CrashInDeliver(m) PROVE up /\ ~shuttingDown
    BY <2>2 DEF Deliver, CrashInDeliver, Serving
  <2>3. ASSUME NEW g \in Groups, NEW i \in DOMAIN runs[g],
               EmptyTurn(g, i) \/ StartTurn(g, i) \/ TurnEnds(g, i)
        PROVE  up /\ ~shuttingDown
    BY <2>3 DEF EmptyTurn, StartTurn, TurnEnds, CommitTurn, ErrTurn, RaiseTurn, CancelTurn, Serving,
       Q!MessagesSucceed, Q!MessagesFail, Q!MessagesCancelled, Q!RunNeverBegins, Q!BeginRun
  <2>4. ASSUME NEW g \in Groups, Retry(g) \/ Recover(g) PROVE up /\ ~shuttingDown
    BY <2>4 DEF Retry, Recover, Serving, turnFrame, queue, Q!RetryFires, Q!EnqueueMessageCheck
  <2>5. ASSUME NEW g \in Groups, NEW text \in BOOLEAN, NEW ok \in BOOLEAN, Output(g, text, ok)
        PROVE  up /\ ~shuttingDown
    BY <2>5 DEF Output, Serving, queue, Q!NotifyIdle
  <2>6. QED
    BY <1>3, <2>1, <2>2, <2>3, <2>4, <2>5
       DEF Next, Begins, Ends, CrashInCommit, Crash, Exit
<1>4. CASE Next /\ ~Start
  <2>1. up /\ ~shuttingDown
    BY <1>3, <1>4
  <2>2. ~Crash /\ ~Exit /\ ~Shutdown
        /\ (\A m \in Msgs : ~CrashInDeliver(m)) /\ (\A g \in Groups : ~CrashInCommit(g))
    BY DEF Crash, Exit, Shutdown, Q!Shutdown, CrashInDeliver, CrashInCommit, MemoryLost
  <2>3. QED
    BY <1>4, <2>1, <2>2, DeliverServes, RetryServes, StartServes, EmptyServes, CommitServes,
       FailureServes, OutputServes, NobodyIsCancelled
       DEF Next, Begins, Ends, TurnEnds
<1>5. QED
  BY <1>1, <1>2, <1>4

(* The messages, the dispatcher and the recovery together.                 *)
THEOREM Invariance == Spec => []AllInv
<1>1. Init => ServedInv
  BY DEF Init, ServedInv
<1>2. AllInv /\ [Next]_vars => AllInv'
  BY NextKeeps, QueueKeeps, ServedKeeps DEF AllInv
<1>3. QED
  BY <1>1, <1>2, QueueStaysSound, InvariantHolds, ServedKeeps, PTL DEF Spec, AllInv

(* No message of a chat that an enabled channel owns is stranded, whatever *)
(* the sizes, the crashes and the settings of each start: the retry, the   *)
(* waiting line, the flag a busy group keeps, the end of a run and the     *)
(* recovery of a start leave no gap between them.                          *)
THEOREM NothingIsStranded == Spec => []NoMessageStranded
<1>1. AllInv => NoMessageStranded
  BY DEF AllInv, FlowInv, DataOK, ServedInv, Kept, Covered, NoMessageStranded, InHands, Serving,
     QP!Held, QP!Waits, Q!Waits, QP!Live, Q!Live
<1>2. QED
  BY <1>1, Invariance, PTL

-----------------------------------------------------------------------------
(* The message flow implements Answering.                                  *)
(*                                                                         *)
(* Of the timestamps and cursors only this is left: a message waits while  *)
(* the durable cursor of its group is behind it, and a turn will pass its  *)
(* batch and what lies between the cursor and its end.                     *)

(* A turn begins only where none runs: before a shutdown for the run that  *)
(* is being begun, after it because nothing is left to begin.              *)
MapInv == AllInv /\ QP!NoneCreated

(* A crash or an exit leaves no run at all behind.                         *)
LEMMA NoneCreatedKeeps == QP!IInv /\ QP!NoneCreated /\ [Next]_vars => QP!NoneCreated'
<1> SUFFICES ASSUME QP!IInv, QP!NoneCreated, [Next]_vars PROVE QP!NoneCreated'
  OBVIOUS
<1>1. CASE QP!Next
  BY <1>1, QP!NoneCreatedStays, ConstantsFit
<1>2. CASE UNCHANGED queue
  BY <1>2 DEF queue, QP!NoneCreated
<1>3. CASE MemoryLost
  BY <1>3 DEF MemoryLost, QP!NoneCreated
<1>4. QED
  BY <1>1, <1>2, <1>3, StepsOfQueue

(* What the mapping of the turns rests on, in every reachable state.       *)
LEMMA MapInvHolds == Spec => []MapInv
<1>1. Init => QP!NoneCreated
  BY DEF Init, Q!Init, QP!NoneCreated
<1>2. AllInv /\ QP!NoneCreated /\ [Next]_vars => QP!NoneCreated'
  BY NoneCreatedKeeps DEF AllInv
<1>3. QED
  BY <1>1, <1>2, Invariance, PTL DEF Spec, MapInv

-----------------------------------------------------------------------------
(* What the abstract variables are made of.                                *)

(* Stored, and how the timestamps and cursors compare.                     *)
LEMMA NumbersOfFlow ==
  ASSUME FlowInv
  PROVE  /\ \A m \in Msgs : /\ GroupOf[m] \in Groups /\ time[m] \in 0 .. MaxTime
                            /\ Stored(m) <=> time[m] > 0
         /\ \A g \in Groups : /\ dbCursor[g] \in 0 .. MaxTime /\ turn[g].last \in 0 .. MaxTime
                              /\ turn[g].batch \subseteq Msgs
BY MessageFlowAssumption DEF FlowInv, DataOK, TurnState, Stored

(* A turn passes its batch, all of which waits, and what it sets aside.    *)
LEMMA TurnPasses ==
  ASSUME FlowInv, NEW g \in Groups
  PROVE  /\ turn[g].batch \subseteq Waiting
         /\ \A m \in turn[g].batch : GroupOf[m] = g
         /\ turn[g].batch \cup Aside(g)
              = {m \in Waiting : GroupOf[m] = g /\ time[m] <= turn[g].last}
         /\ Aside(g) = {m \in Waiting : GroupOf[m] = g /\ time[m] <= turn[g].last} \ turn[g].batch
         /\ Turns[g] = [on |-> InTurn(g), batch |-> turn[g].batch, aside |-> Aside(g)]
         /\ ~InTurn(g) => turn[g] = NoTurn /\ Turns[g] = A!NoTurn
<1>1. /\ TurnOK(g) /\ turn[g].batch \subseteq Msgs
      /\ InTurn(g) => cursor[g] = dbCursor[g]
      /\ ~InTurn(g) => turn[g] = NoTurn
  BY NumbersOfFlow DEF FlowInv, TurnOK, CursorOK, InTurn
<1>2. ASSUME NEW m \in turn[g].batch
      PROVE  m \in Waiting /\ GroupOf[m] = g /\ time[m] <= turn[g].last
  <2>1. InTurn(g)
    BY <1>1, <1>2, NoTurnOK
  <2>2. QED
    BY <1>1, <1>2, <2>1 DEF TurnOK, Waiting
<1>3. ASSUME ~InTurn(g) PROVE turn[g].batch = {} /\ Aside(g) = {}
  <2>1. turn[g].batch = {} /\ turn[g].last = 0
    BY <1>1, <1>3, NoTurnOK
  <2>2. QED
    BY <2>1, NumbersOfFlow DEF Aside, Waiting
<1>4. Turns[g] = [on |-> InTurn(g), batch |-> turn[g].batch, aside |-> Aside(g)]
  BY DEF Turns
<1>5. ~InTurn(g) => Turns[g] = A!NoTurn
  <2> SUFFICES ASSUME ~InTurn(g) PROVE Turns[g] = A!NoTurn
    OBVIOUS
  <2>1. turn[g].last = 0 /\ turn[g].batch = {} /\ Aside(g) = {}
    BY <1>3 DEF InTurn
  <2>2. QED
    BY <2>1 DEF Turns, InTurn, A!NoTurn
<1>6. QED
  BY <1>1, <1>2, <1>4, <1>5 DEF Aside

(* When every turn is lost there is none in the abstract either.           *)
LEMMA TurnsAreLost ==
  ASSUME FlowInv', turn' = [g \in Groups |-> NoTurn] PROVE Turns' = A!NoTurns
<1>1. \A m \in Msgs : time'[m] \in Nat /\ dbCursor'[GroupOf[m]] \in Nat
  BY MessageFlowAssumption DEF FlowInv, DataOK
<1>2. \A g \in Groups : turn'[g].batch = {} /\ turn'[g].last = 0
  BY NoTurnOK
<1>3. \A g \in Groups : Aside(g)' = {}
  BY <1>1, <1>2 DEF Aside, Waiting
<1>4. QED
  BY <1>2, <1>3 DEF Turns, InTurn, A!NoTurns, A!NoTurn

(* Nothing that matters to a message has changed.                          *)
LEMMA Unmoved ==
  ASSUME UNCHANGED <<time, dbCursor, answered>>,
         \A g \in Groups : turn'[g].batch = turn[g].batch /\ turn'[g].last = turn[g].last
  PROVE  UNCHANGED A!vars
<1>1. Waiting' = Waiting /\ LeftBehind' = LeftBehind
  BY DEF Waiting, LeftBehind, Stored
<1>2. \A g \in Groups : Aside(g)' = Aside(g)
  BY <1>1 DEF Aside
<1>3. Turns' = Turns
  BY <1>2 DEF Turns, InTurn
<1>4. QED
  BY <1>1, <1>3 DEF A!vars

(* The turn of one group changes, and those of the others do not.          *)
LEMMA OneTurn ==
  ASSUME NEW g \in Groups, \A h \in Groups \ {g} : Turns'[h] = Turns[h]
  PROVE  Turns' = [Turns EXCEPT ![g] = Turns'[g]]
<1>1. Turns = [h \in Groups |-> Turns[h]] /\ Turns' = [h \in Groups |-> Turns'[h]]
  BY DEF Turns
<1>2. QED
  BY <1>1

-----------------------------------------------------------------------------
(* Arrivals.                                                               *)

(* A row that is new, or takes the place of another, waits, unless the     *)
(* durable cursor has passed it.                                           *)
LEMMA RowAppears ==
  ASSUME FlowInv, NEW m \in Msgs, NEW t \in 1 .. MaxTime,
         time' = [time EXCEPT ![m] = t], answered' = answered \ {m}, UNCHANGED dbCursor
  PROVE  /\ t > dbCursor[GroupOf[m]] => Waiting' = Waiting \cup {m} /\ LeftBehind' = LeftBehind \ {m}
         /\ t <= dbCursor[GroupOf[m]] => Waiting' = Waiting \ {m} /\ LeftBehind' = LeftBehind \cup {m}
<1>1. time'[m] = t /\ \A n \in Msgs \ {m} : time'[n] = time[n]
  BY DEF FlowInv, DataOK
<1>2. Stored(m)' /\ \A n \in Msgs \ {m} : Stored(n)' <=> Stored(n)
  BY <1>1 DEF Stored
<1>3. \A n \in Msgs \ {m} : /\ n \in Waiting' <=> n \in Waiting
                            /\ n \in LeftBehind' <=> n \in LeftBehind
  BY <1>1, <1>2 DEF Waiting, LeftBehind
<1>4. Waiting' \subseteq Msgs /\ Waiting \subseteq Msgs /\ LeftBehind' \subseteq Msgs /\ LeftBehind \subseteq Msgs
  BY DEF Waiting, LeftBehind
<1>5. /\ t > dbCursor[GroupOf[m]] => m \in Waiting' /\ m \notin LeftBehind'
      /\ t <= dbCursor[GroupOf[m]] => m \notin Waiting' /\ m \in LeftBehind'
  BY <1>1, <1>2, NumbersOfFlow DEF Waiting, LeftBehind
<1>6. QED
  BY <1>3, <1>4, <1>5

(* A message that is delivered waits, or is too late; so does one that is  *)
(* delivered again with another timestamp, whatever had become of it.  The *)
(* running turn may set it aside.                                          *)
LEMMA NewArrives ==
  ASSUME MapInv, NEW m \in Msgs, Deliver(m), NEW t \in 1 .. MaxTime, Store(m, t), t # time[m]
  PROVE  A!Arrive(m, FALSE)
<1> DEFINE g == GroupOf[m]
           passed == t > dbCursor[g] /\ t <= turn[g].last
<1>1. FlowInv /\ DataOK /\ g \in Groups /\ UNCHANGED dbCursor
  BY MessageFlowAssumption DEF MapInv, AllInv, FlowInv, Deliver
<1>2. time' = [time EXCEPT ![m] = t] /\ answered' = answered \ {m}
  BY DEF Store, StoreRow
<1>3. /\ t > dbCursor[g] => Waiting' = Waiting \cup {m} /\ LeftBehind' = LeftBehind \ {m}
      /\ t <= dbCursor[g] => Waiting' = Waiting \ {m} /\ LeftBehind' = LeftBehind \cup {m}
  BY <1>1, <1>2, RowAppears
<1>4. time'[m] = t /\ \A n \in Msgs \ {m} : time'[n] = time[n]
  BY <1>1, <1>2 DEF DataOK
<1>5. /\ \A h \in Groups \ {g} : turn'[h] = turn[h]
      /\ turn'[g].last = turn[g].last /\ turn'[g].batch = turn[g].batch \ {m}
  BY <1>1, TurnRenewed
<1>6. /\ t > dbCursor[g] \/ t <= dbCursor[g]
      /\ m \in Waiting' <=> t > dbCursor[g]
  <2>1. t > dbCursor[g] \/ t <= dbCursor[g]
    BY <1>1, NumbersOfFlow
  <2>2. ~(t > dbCursor[g] /\ t <= dbCursor[g])
    BY <1>1, NumbersOfFlow
  <2>3. QED
    BY <1>3, <2>1, <2>2
<1>7. \A n : n # m => (n \in Waiting' <=> n \in Waiting)
  BY <1>3, <1>6
<1>8. ASSUME NEW h \in Groups, h # g PROVE Turns'[h] = Turns[h]
  <2>1. \A n : n \in Aside(h)' <=> n \in Aside(h)
    <3>1. Waiting \subseteq Msgs /\ Waiting' \subseteq Msgs
      BY DEF Waiting
    <3>2. turn'[h] = turn[h]
      BY <1>5, <1>8
    <3>3. QED
      BY <1>4, <1>7, <1>8, <3>1, <3>2 DEF Aside
  <2>2. Aside(h)' = Aside(h)
    BY <2>1
  <2>3. turn'[h] = turn[h]
    BY <1>5, <1>8
  <2>4. QED
    BY <2>2, <2>3 DEF Turns, InTurn
<1>9. Aside(g)' = IF passed THEN Aside(g) \cup {m} ELSE Aside(g) \ {m}
  <2>1. \A n : n \in Aside(g)' <=> /\ n \in Waiting' /\ n \notin turn[g].batch \ {m}
                                   /\ GroupOf[n] = g /\ time'[n] <= turn[g].last
    BY <1>5 DEF Aside
  <2>2. \A n : n \in Aside(g) <=> /\ n \in Waiting /\ n \notin turn[g].batch
                                  /\ GroupOf[n] = g /\ time[n] <= turn[g].last
    BY DEF Aside
  <2>3. Waiting \subseteq Msgs /\ Waiting' \subseteq Msgs
    BY DEF Waiting
  <2>4. \A n : n # m => (n \in Aside(g)' <=> n \in Aside(g))
    BY <1>4, <1>7, <2>1, <2>2, <2>3
  <2>5. m \in Aside(g)' <=> passed
    BY <1>4, <1>6, <2>1
  <2>6. QED
    BY <2>4, <2>5
<1>10. passed => m \in Waiting' /\ A!Running(g)
  <2>1. passed => InTurn(g)
    BY DEF InTurn
  <2>2. QED
    BY <1>1, <1>6, <2>1 DEF A!Running, Turns
<1>11. Turns' = [Turns EXCEPT ![g] = A!Without(@, m, passed)]
  <2>1. Turns[g] = [on |-> InTurn(g), batch |-> turn[g].batch, aside |-> Aside(g)]
    BY <1>1 DEF Turns
  <2>2. Turns'[g] = [on |-> InTurn(g), batch |-> turn[g].batch \ {m}, aside |-> Aside(g)']
    BY <1>1, <1>5 DEF Turns, InTurn
  <2>3. Turns'[g] = A!Without(Turns[g], m, passed)
    <3>1. Turns[g].on = InTurn(g) /\ Turns[g].batch = turn[g].batch /\ Turns[g].aside = Aside(g)
      BY <2>1
    <3> HIDE DEF passed
    <3>2. QED
      BY <1>9, <2>2, <3>1 DEF A!Without
  <2>4. Turns' = [Turns EXCEPT ![g] = Turns'[g]]
    BY <1>1, <1>8, OneTurn
  <2>5. Turns[g] = Turns[g] /\ g \in DOMAIN Turns
    BY <1>1 DEF Turns
  <2> HIDE DEF g, passed
  <2>6. QED
    BY <2>3, <2>4, <2>5
<1>12. passed \in BOOLEAN
  OBVIOUS
<1> HIDE DEF passed
<1>13. QED
  BY <1>2, <1>3, <1>6, <1>10, <1>11, <1>12 DEF A!Arrive, A!Unless

(* A delivery that leaves the row as it is changes nothing.                *)
LEMMA AgainIsNothing ==
  ASSUME FlowInv, NEW m \in Msgs, Deliver(m), NEW t, Store(m, t), t = time[m]
  PROVE  UNCHANGED A!vars
<1>1. time' = time /\ turn' = turn /\ UNCHANGED <<dbCursor, answered>>
  BY DEF Store, StoreRow, Deliver, FlowInv, DataOK
<1>2. QED
  BY <1>1, Unmoved

(* The process dies with the row written: the message waits, and no turn   *)
(* is left.                                                                *)
LEMMA CrashArrives ==
  ASSUME MapInv, MapInv', NEW m \in Msgs, CrashInDeliver(m)
  PROVE  A!Arrive(m, TRUE) \/ A!Die
<1>1. FlowInv /\ FlowInv' /\ DataOK /\ GroupOf[m] \in Groups
  BY MessageFlowAssumption DEF MapInv, AllInv, FlowInv
<1>2. UNCHANGED dbCursor /\ turn' = [g \in Groups |-> NoTurn]
  BY DEF CrashInDeliver, MemoryLost
<1>3. PICK t \in 1 .. MaxTime : StoreRow(m, t)
  BY DEF CrashInDeliver
<1>4. Turns' = A!NoTurns
  BY <1>1, <1>2, TurnsAreLost
<1>5. CASE t = time[m]
  <2>1. time' = time /\ answered' = answered
    BY <1>1, <1>3, <1>5 DEF StoreRow, DataOK
  <2>2. Waiting' = Waiting /\ LeftBehind' = LeftBehind
    BY <1>2, <2>1 DEF Waiting, LeftBehind, Stored
  <2>3. QED
    BY <1>4, <2>1, <2>2 DEF A!Die
<1>6. CASE t # time[m]
  <2>1. time' = [time EXCEPT ![m] = t] /\ answered' = answered \ {m}
    BY <1>3, <1>6 DEF StoreRow
  <2>2. /\ t > dbCursor[GroupOf[m]] => Waiting' = Waiting \cup {m} /\ LeftBehind' = LeftBehind \ {m}
        /\ t <= dbCursor[GroupOf[m]] => Waiting' = Waiting \ {m} /\ LeftBehind' = LeftBehind \cup {m}
    BY <1>1, <1>2, <2>1, RowAppears
  <2>3. t > dbCursor[GroupOf[m]] \/ t <= dbCursor[GroupOf[m]]
    BY <1>1, NumbersOfFlow
  <2>4. QED
    BY <1>4, <2>1, <2>2, <2>3 DEF A!Arrive, A!Unless
<1>7. QED
  BY <1>5, <1>6

-----------------------------------------------------------------------------
(* Turns.                                                                  *)

(* A turn that begins takes over everything that waits.                    *)
LEMMA StartBegins ==
  ASSUME MapInv, NEW g \in Groups, NEW i \in DOMAIN runs[g], StartTurn(g, i)
  PROVE  A!Begin(g)
<1>1. /\ FlowInv /\ DataOK /\ QP!QueueInv /\ ServedInv /\ QP!NoneCreated /\ up /\ cursor = dbCursor
      /\ UNCHANGED <<time, dbCursor, answered>>
  BY DEF MapInv, AllInv, FlowInv, CursorOK, QP!IInv, StartTurn, Serving, turnFrame
<1>2. ~InTurn(g)
  <2>1. runs[g][i].phase = "created"
    BY DEF StartTurn, Q!BeginRun
  <2>2. ~shuttingDown
    BY <1>1, <2>1 DEF QP!NoneCreated
  <2>3. ~QP!InRun(g)
    BY <1>1, <2>1, <2>2, QP!BusyGroup, ConstantsFit
  <2>4. QED
    BY <1>1, <2>2, <2>3 DEF ServedInv
<1>3. PICK b \in Batches(g), t \in 1 .. MaxTime :
        Triggered(g, b) /\ IsLast(b, t) /\ turn' = [turn EXCEPT ![g] = TurnOn(g, b, t)]
  BY DEF StartTurn
<1>4. Waiting' = Waiting /\ LeftBehind' = LeftBehind
  BY <1>1 DEF Waiting, LeftBehind, Stored
<1>5. A!WaitingOf(g) = Since(g)
  BY <1>1 DEF A!WaitingOf, Waiting, Since
<1>6. /\ b \subseteq Since(g) /\ b # {}
      /\ Cardinality(b) = IF Cardinality(Since(g)) > Limit THEN Limit ELSE Cardinality(Since(g))
  BY <1>3 DEF Batches, IsLast
<1>7. Cardinality(b) <= Limit /\ (Cardinality(b) < Limit => b = Since(g))
  <2>1. IsFiniteSet(Since(g)) /\ Cardinality(Since(g)) \in Nat /\ Limit \in Nat
    BY SinceIsFinite, MessageFlowAssumption
  <2>2. Cardinality(b) = Cardinality(Since(g)) => b = Since(g)
    BY <1>6, <2>1, FS_Subset
  <2>3. QED
    BY <1>6, <2>1, <2>2
<1>8. /\ turn'[g].batch = b /\ turn'[g].last = t
      /\ \A h \in Groups \ {g} : turn'[h] = turn[h]
  BY <1>1, <1>3 DEF DataOK, TurnOn, NoTurn
<1>9. Aside(g)' = Since(g) \ b /\ \A h \in Groups \ {g} : Aside(h)' = Aside(h)
  <2>1. \A m \in Since(g) : time[m] <= t
    BY <1>1, <1>3, BatchReachesLast
  <2>2. Aside(g)' = {m \in Waiting \ b : GroupOf[m] = g /\ time[m] <= t}
    BY <1>1, <1>4, <1>8 DEF Aside
  <2>3. Since(g) = {m \in Waiting : GroupOf[m] = g}
    BY <1>5 DEF A!WaitingOf
  <2>4. QED
    BY <1>1, <1>4, <1>8, <2>1, <2>2, <2>3 DEF Aside
<1>10. Turns' = [Turns EXCEPT ![g] = [on |-> TRUE, batch |-> b, aside |-> Since(g) \ b]]
  <2>1. \A h \in Groups \ {g} : Turns'[h] = Turns[h]
    BY <1>8, <1>9 DEF Turns, InTurn
  <2>2. Turns'[g] = [on |-> TRUE, batch |-> b, aside |-> Since(g) \ b]
    <3>1. t # 0
      OBVIOUS
    <3>2. QED
      BY <1>8, <1>9, <3>1 DEF Turns, InTurn
  <2>3. QED
    BY <2>1, <2>2, OneTurn
<1>11. ~A!Running(g)
  BY <1>2 DEF A!Running, Turns
<1>12. g \in TriggerGroups => b \cap Triggering # {}
  BY <1>3 DEF Triggered
<1>13. A!Cardinality(b) = Cardinality(b)
  BY DEF A!Cardinality, Cardinality
<1>14. QED
  BY <1>1, <1>4, <1>5, <1>6, <1>7, <1>10, <1>11, <1>12, <1>13 DEF A!Begin

(* The cursor advances: the batch is answered, what the turn had set aside *)
(* is left behind, and nothing else is touched.                            *)
LEMMA AdvanceSettles ==
  ASSUME FlowInv, NEW g \in Groups, up, InTurn(g),
         dbCursor' = Advanced(g), answered' = answered \cup turn[g].batch, UNCHANGED time
  PROVE  /\ Waiting' = Waiting \ (turn[g].batch \cup Aside(g))
         /\ LeftBehind' = LeftBehind \cup Aside(g)
         /\ A!Running(g)
         /\ Turns[g].batch = turn[g].batch /\ Turns[g].aside = Aside(g)
<1>1. DataOK /\ CursorOK /\ TurnOK(g) /\ cursor = dbCursor
  BY DEF FlowInv, CursorOK
<1>2. dbCursor'[g] = turn[g].last /\ \A h \in Groups \ {g} : dbCursor'[h] = dbCursor[h]
  BY <1>1 DEF Advanced, DataOK
<1>3. turn[g].last > dbCursor[g]
  BY <1>1 DEF TurnOK, InTurn
<1> DEFINE P == turn[g].batch \cup Aside(g)
<1>4. /\ turn[g].batch \subseteq Waiting
      /\ P = {m \in Waiting : GroupOf[m] = g /\ time[m] <= turn[g].last}
      /\ Turns[g] = [on |-> InTurn(g), batch |-> turn[g].batch, aside |-> Aside(g)]
      /\ Aside(g) = P \ turn[g].batch
  BY TurnPasses
<1> HIDE DEF P
<1>5. \A m \in Msgs :
        time[m] > dbCursor'[GroupOf[m]] <=> time[m] > dbCursor[GroupOf[m]] /\ m \notin P
  <2> TAKE m \in Msgs
  <2>1. CASE GroupOf[m] # g
    BY <1>2, <1>4, <2>1, NumbersOfFlow
  <2>2. CASE GroupOf[m] = g
    BY <1>2, <1>3, <1>4, <2>2, NumbersOfFlow DEF Waiting
  <2>3. QED
    BY <2>1, <2>2
<1>6. Waiting' = Waiting \ P
  BY <1>5 DEF Waiting
<1>7. LeftBehind' = LeftBehind \cup Aside(g)
  <2>1. \A m \in Msgs : /\ m \in Waiting <=> time[m] > dbCursor[GroupOf[m]]
                        /\ m \in Waiting <=> ~(time[m] <= dbCursor[GroupOf[m]])
                        /\ m \in Waiting' <=> ~(time[m] <= dbCursor'[GroupOf[m]])
    <3>1. dbCursor'[g] \in 0 .. MaxTime
      BY <1>2, NumbersOfFlow
    <3>2. \A m \in Msgs : dbCursor'[GroupOf[m]] \in 0 .. MaxTime
      BY <1>2, <3>1, NumbersOfFlow
    <3>3. QED
      BY <3>2, NumbersOfFlow DEF Waiting
  <2>2. \A m \in Waiting : Stored(m) /\ m \notin answered
    BY <1>1, <2>1, NumbersOfFlow DEF Waiting, CursorOK
  <2>3. /\ \A m : m \in LeftBehind <=> m \in Msgs /\ m \notin answered /\ Stored(m) /\ m \notin Waiting
        /\ \A m : m \in LeftBehind' <=>
                    m \in Msgs /\ m \notin answered' /\ Stored(m) /\ m \notin Waiting'
    BY <2>1 DEF LeftBehind, Stored
  <2>4. P \subseteq Waiting /\ Waiting \subseteq Msgs
    BY <1>4 DEF Waiting
  <2>5. QED
    BY <1>4, <1>6, <2>2, <2>3, <2>4
<1>8. QED
  BY <1>4, <1>6, <1>7 DEF P, A!Running

(* A commit settles the turn.                                              *)
LEMMA CommitSettles ==
  ASSUME MapInv, MapInv', NEW g \in Groups, NEW i \in DOMAIN runs[g], CommitTurn(g, i)
  PROVE  A!Settle(g, FALSE)
<1>1. /\ FlowInv /\ FlowInv' /\ DataOK /\ up /\ InTurn(g)
      /\ dbCursor' = Advanced(g) /\ answered' = answered \cup turn[g].batch /\ UNCHANGED time
      /\ turn' = [turn EXCEPT ![g] = NoTurn]
  BY DEF MapInv, AllInv, FlowInv, CommitTurn, SaveState, Serving, turnFrame
<1>2. /\ Waiting' = Waiting \ (turn[g].batch \cup Aside(g))
      /\ LeftBehind' = LeftBehind \cup Aside(g)
      /\ A!Running(g)
      /\ Turns[g].batch = turn[g].batch /\ Turns[g].aside = Aside(g)
  BY <1>1, AdvanceSettles
<1>3. turn'[g] = NoTurn /\ \A h \in Groups \ {g} : turn'[h] = turn[h]
  BY <1>1, NoTurnOK DEF DataOK
<1>4. Aside(g)' = {}
  <2>1. \A m \in Msgs : time'[m] \in Nat /\ dbCursor'[GroupOf[m]] \in Nat
    BY <1>1, MessageFlowAssumption DEF FlowInv, DataOK
  <2>2. QED
    BY <1>3, <2>1, NoTurnOK DEF Aside, Waiting
<1>5. \A h \in Groups \ {g} : Aside(h)' = Aside(h)
  <2> TAKE h \in Groups \ {g}
  <2>1. \A m \in turn[g].batch \cup Aside(g) : GroupOf[m] = g
    BY <1>1, TurnPasses DEF Aside
  <2>2. QED
    BY <1>1, <1>2, <1>3, <2>1 DEF Aside
<1>6. Turns' = [Turns EXCEPT ![g] = A!NoTurn]
  <2>1. Turns'[g] = A!NoTurn
    BY <1>3, <1>4, NoTurnOK DEF Turns, InTurn, A!NoTurn
  <2>2. \A h \in Groups \ {g} : Turns'[h] = Turns[h]
    BY <1>3, <1>5 DEF Turns, InTurn
  <2>3. QED
    BY <2>1, <2>2, OneTurn
<1>7. QED
  BY <1>1, <1>2, <1>6 DEF A!Settle, A!Unless

(* So does a commit that the process does not survive.                     *)
LEMMA CrashSettles ==
  ASSUME MapInv, MapInv', NEW g \in Groups, CrashInCommit(g)
  PROVE  A!Settle(g, TRUE)
<1>1. /\ FlowInv /\ FlowInv' /\ up /\ InTurn(g)
      /\ dbCursor' = Advanced(g) /\ answered' = answered \cup turn[g].batch /\ UNCHANGED time
      /\ turn' = [h \in Groups |-> NoTurn]
  BY DEF MapInv, AllInv, CrashInCommit, MemoryLost, Serving
<1>2. Turns' = A!NoTurns
  BY <1>1, TurnsAreLost
<1>3. QED
  BY <1>1, <1>2, AdvanceSettles DEF A!Settle, A!Unless

(* An error, an exception, a cancellation: the turn is given up, if there  *)
(* is one.                                                                 *)
LEMMA DropAbandons ==
  ASSUME FlowInv, NEW g \in Groups, turn' = [turn EXCEPT ![g] = NoTurn],
         UNCHANGED <<time, dbCursor, answered>>
  PROVE  A!Abandon(g) \/ UNCHANGED A!vars
<1>1. DataOK
  BY DEF FlowInv
<1>2. turn'[g] = NoTurn /\ \A h \in Groups \ {g} : turn'[h] = turn[h]
  BY <1>1, NoTurnOK DEF DataOK
<1>3. CASE ~InTurn(g)
  <2>1. turn'[g] = turn[g]
    BY <1>2, <1>3, TurnPasses
  <2>2. QED
    BY <1>2, <2>1, Unmoved
<1>4. CASE InTurn(g)
  <2>1. Waiting' = Waiting /\ LeftBehind' = LeftBehind
    BY DEF Waiting, LeftBehind, Stored
  <2>2. Aside(g)' = {} /\ \A h \in Groups \ {g} : Aside(h)' = Aside(h)
    BY <1>2, <2>1, NoTurnOK, NumbersOfFlow DEF Aside, Waiting
  <2>3. Turns'[g] = A!NoTurn /\ \A h \in Groups \ {g} : Turns'[h] = Turns[h]
    BY <1>2, <2>2, NoTurnOK DEF Turns, InTurn, A!NoTurn
  <2>4. Turns' = [Turns EXCEPT ![g] = A!NoTurn]
    BY <2>3, OneTurn
  <2>5. A!Running(g)
    BY <1>4 DEF A!Running, Turns
  <2>6. QED
    BY <2>1, <2>4, <2>5 DEF A!Abandon
<1>5. QED
  BY <1>3, <1>4

-----------------------------------------------------------------------------
(* Every step of the message flow, its crashes and restarts included, is   *)
(* one of Answering or stutters.                                           *)
LEMMA StepAnswers == MapInv /\ MapInv' /\ [Next]_vars => [A!Next]_(A!vars)
<1> SUFFICES ASSUME MapInv, MapInv', [Next]_vars PROVE A!Next \/ UNCHANGED A!vars
  OBVIOUS
<1>1. FlowInv /\ FlowInv'
  BY DEF MapInv, AllInv
<1>2. CASE UNCHANGED vars
  BY <1>2, Unmoved DEF vars, history
<1>3. ASSUME NEW m \in Msgs, Deliver(m) \/ CrashInDeliver(m) PROVE A!Next \/ UNCHANGED A!vars
  <2>1. CASE Deliver(m)
    <3>1. PICK t \in 1 .. MaxTime : Store(m, t)
      BY <2>1 DEF Deliver
    <3>2. QED
      BY <1>1, <2>1, <3>1, NewArrives, AgainIsNothing DEF A!Next
  <2>2. CASE CrashInDeliver(m)
    BY <2>2, CrashArrives DEF A!Next
  <2>3. QED
    BY <1>3, <2>1, <2>2
<1>4. ASSUME NEW g \in Groups, NEW i \in DOMAIN runs[g], EmptyTurn(g, i) PROVE UNCHANGED A!vars
  BY <1>4, Unmoved DEF EmptyTurn, turnFrame
<1>5. ASSUME NEW g \in Groups, NEW i \in DOMAIN runs[g], StartTurn(g, i) PROVE A!Next
  BY <1>5, StartBegins DEF A!Next
<1>6. ASSUME NEW g \in Groups, NEW i \in DOMAIN runs[g], CommitTurn(g, i) PROVE A!Next
  BY <1>6, CommitSettles DEF A!Next
<1>7. ASSUME NEW g \in Groups, NEW i \in DOMAIN runs[g],
             ErrTurn(g, i) \/ RaiseTurn(g, i) \/ CancelTurn(g, i)
      PROVE  A!Next \/ UNCHANGED A!vars
  <2>1. turn' = [turn EXCEPT ![g] = NoTurn] /\ UNCHANGED <<time, dbCursor, answered>>
    BY <1>7 DEF ErrTurn, RaiseTurn, CancelTurn, turnFrame, history
  <2>2. QED
    BY <1>1, <2>1, DropAbandons DEF A!Next
<1>8. ASSUME NEW g \in Groups, Retry(g) \/ Recover(g) PROVE UNCHANGED A!vars
  BY <1>8, Unmoved DEF Retry, Recover, turnFrame, history
<1>9. ASSUME NEW g \in Groups, CrashInCommit(g) PROVE A!Next
  BY <1>9, CrashSettles DEF A!Next
<1>10. ASSUME NEW g \in Groups, NEW text \in BOOLEAN, NEW ok \in BOOLEAN, Output(g, text, ok)
       PROVE  UNCHANGED A!vars
  <2>1. \A h \in Groups : turn'[h].batch = turn[h].batch /\ turn'[h].last = turn[h].last
    BY <1>1, <1>10 DEF Output, FlowInv, DataOK, TurnState
  <2>2. QED
    BY <1>10, <2>1, Unmoved DEF Output, turnFrame, history
<1>11. CASE Crash \/ Exit
  <2>1. turn' = [g \in Groups |-> NoTurn] /\ UNCHANGED <<time, dbCursor, answered>>
    BY <1>11 DEF Crash, Exit, MemoryLost, history
  <2>2. Waiting' = Waiting /\ LeftBehind' = LeftBehind
    BY <2>1 DEF Waiting, LeftBehind, Stored
  <2>3. QED
    BY <1>1, <2>1, <2>2, TurnsAreLost DEF A!Next, A!Die
<1>12. CASE Shutdown \/ Start
  BY <1>12, Unmoved DEF Shutdown, Start, history
<1>13. QED
  BY <1>2, <1>3, <1>4, <1>5, <1>6, <1>7, <1>8, <1>9, <1>10, <1>11, <1>12
     DEF Next, Begins, Ends, TurnEnds

(* Whatever the numbers of groups, messages, deliveries and crashes: a     *)
(* turn is settled as a whole or not at all, a message is left behind only *)
(* because it was late or a settled turn had set it aside, and one that    *)
(* was answered waits again only if it came again.                         *)
THEOREM ImplementsAnswering == Spec => Answers
<1>1. Init => A!Init
  <2> SUFFICES ASSUME Init PROVE A!Init
    OBVIOUS
  <2>1. Waiting = {} /\ LeftBehind = {} /\ answered = {}
    BY MessageFlowAssumption DEF Init, Waiting, LeftBehind, Stored
  <2>2. Turns = A!NoTurns
    <3>1. \A g \in Groups : turn[g].last = 0 /\ turn[g].batch = {} /\ Aside(g) = {}
      BY <2>1, NoTurnOK DEF Init, Aside
    <3>2. QED
      BY <3>1 DEF Turns, InTurn, A!NoTurns, A!NoTurn
  <2>3. QED
    BY <2>1, <2>2 DEF A!Init
<1>2. QED
  BY <1>1, StepAnswers, MapInvHolds, PTL DEF Spec, Answers, A!Spec
=============================================================================
