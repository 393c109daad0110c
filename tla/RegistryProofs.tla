--------------------------- MODULE RegistryProofs ---------------------------
(***************************************************************************)
(* Theorems about Registry, for any chats, folders and bounds.             *)
(***************************************************************************)
EXTENDS Registry, TLAPS

(* The table never holds a folder twice.                                   *)
UniqueFolders == \A j, k \in Jids : row[j] # None /\ row[j] = row[k] => j = k

(* Whoever has a row is served while the process is up, the main group     *)
(* always, and there is no turn without a process.                         *)
RowsAreServed ==
  /\ up => registered[Main] # None
  /\ up => \A j \in Jids : row[j] # None => registered[j] # None
  /\ ~up => \A j \in Jids : turn[j] = None /\ registered[j] = None

RegistryInv == TypeOK /\ UniqueFolders /\ RowsAreServed /\ RestartFindsTheSame

-----------------------------------------------------------------------------
(* INSERT OR REPLACE keeps the table's type and the folders apart, and     *)
(* takes a row only from those it evicts.                                  *)
LEMMA ReplacedOK ==
  ASSUME TypeOK, UniqueFolders, NEW j \in Jids, NEW f \in Valid
  PROVE  /\ Replaced(j, f) \in [Jids -> Valid \cup {None}]
         /\ \A i, k \in Jids : Replaced(j, f)[i] # None /\ Replaced(j, f)[i] = Replaced(j, f)[k] => i = k
         /\ Replaced(j, f)[j] = f
         /\ \A k \in Jids \ {j} : k \notin Evicts(j, f) => Replaced(j, f)[k] = row[k]
         /\ \A k \in Jids \ {j} : Replaced(j, f)[k] \in {row[k], None}
BY RegistryAssumption DEF Replaced, Evicts, TypeOK, UniqueFolders

(* What save_state keeps is a part of what was there.                      *)
LEMMA PrunedOK ==
  ASSUME TypeOK, NEW j \in Jids
  PROVE  LET c == Pruned([cursor EXCEPT ![j] = turns + 1])
         IN  /\ c \in [Jids -> 0 .. turns + 1]
             /\ \A k \in Jids : registered[k] # None => c[k] >= cursor[k]
<1> DEFINE c == Pruned([cursor EXCEPT ![j] = turns + 1])
<1>1. ASSUME NEW k \in Jids
      PROVE  /\ c[k] \in 0 .. turns + 1
             /\ registered[k] # None => c[k] >= cursor[k]
  <2>1. cursor[k] \in 0 .. turns /\ turns \in Nat
    BY DEF TypeOK
  <2>2. [cursor EXCEPT ![j] = turns + 1][k] = IF k = j THEN turns + 1 ELSE cursor[k]
    BY DEF TypeOK
  <2>3. QED
    BY <2>1, <2>2 DEF Pruned
<1>2. DOMAIN c = Jids /\ c = [k \in Jids |-> c[k]]
  BY DEF Pruned
<1>3. QED
  BY <1>1, <1>2

-----------------------------------------------------------------------------
(* The main group gets its row at the first start, and at any start at     *)
(* which another chat has taken it.                                        *)
LEMMA StartKeeps ==
  ASSUME RegistryInv, Start
  PROVE  RegistryInv'
<1>1. TypeOK /\ UniqueFolders /\ ~up /\ up' = TRUE
      /\ cursor' = dbCursor /\ sessions' = dbSession
      /\ UNCHANGED <<dbCursor, dbSession, turn, turns, changes, stops>>
  BY DEF Start, RegistryInv
<1>2. Loaded = row
  BY <1>1, RegistryAssumption DEF Loaded, TypeOK
<1>3. CASE row[Main] = None
  <2>1. /\ registered' = [row EXCEPT ![Main] = MainFolder]
        /\ row' = Replaced(Main, MainFolder)
        /\ behind' = Evicts(Main, MainFolder)
    BY <1>2, <1>3 DEF Start
  <2>2. /\ row' \in [Jids -> Valid \cup {None}] /\ UniqueFolders'
        /\ row'[Main] = MainFolder
        /\ \A k \in Jids \ {Main} : k \notin behind' => row'[k] = row[k]
        /\ \A k \in Jids \ {Main} : row'[k] \in {row[k], None}
    BY <1>1, <2>1, ReplacedOK, RegistryAssumption DEF UniqueFolders
  <2>3. registered' \in [Jids -> Folders \cup {None}]
    BY <1>1, <2>1, RegistryAssumption DEF TypeOK
  <2>4. behind' \subseteq Jids
    BY <2>1 DEF Evicts
  <2>5. TypeOK'
    BY <1>1, <2>2, <2>3, <2>4 DEF TypeOK
  <2>6. /\ registered'[Main] = MainFolder
        /\ \A k \in Jids \ {Main} : registered'[k] = row[k]
    BY <1>1, <2>1, RegistryAssumption DEF TypeOK
  <2>7. RowsAreServed'
    BY <1>1, <2>2, <2>6, RegistryAssumption DEF RowsAreServed
  <2>8. RestartFindsTheSame'
    BY <1>1, <2>2, <2>6 DEF RestartFindsTheSame
  <2>9. QED
    BY <2>2, <2>5, <2>7, <2>8 DEF RegistryInv
<1>4. CASE row[Main] # None
  <2>1. registered' = row /\ behind' = {} /\ row' = row
    BY <1>2, <1>4 DEF Start
  <2>2. TypeOK'
    BY <1>1, <2>1, RegistryAssumption DEF TypeOK
  <2>3. UniqueFolders' /\ RowsAreServed' /\ RestartFindsTheSame'
    BY <1>1, <1>4, <2>1 DEF UniqueFolders, RowsAreServed, RestartFindsTheSame
  <2>4. QED
    BY <2>2, <2>3 DEF RegistryInv
<1>5. QED
  BY <1>3, <1>4

(* register_group, with a valid folder or an invalid one.                  *)
LEMMA RegisterKeeps ==
  ASSUME RegistryInv, NEW j \in Jids, NEW f \in Folders, RegisterGroup(j, f)
  PROVE  RegistryInv'
<1>1. /\ TypeOK /\ UniqueFolders /\ RowsAreServed /\ RestartFindsTheSame
      /\ up /\ changes' = changes + 1
      /\ registered' = [registered EXCEPT ![j] = f]
      /\ UNCHANGED <<dbCursor, dbSession, up, cursor, sessions, turn, turns, stops>>
  BY DEF RegisterGroup, Register, ChangeSome, RegistryInv
<1>2. /\ registered' \in [Jids -> Folders \cup {None}]
      /\ registered'[j] = f /\ f # None
      /\ \A k \in Jids \ {j} : registered'[k] = registered[k]
  BY <1>1, RegistryAssumption DEF TypeOK
<1>3. CASE f \in Valid
  <2>1. row' = Replaced(j, f) /\ behind' = (behind \ {j}) \cup Evicts(j, f)
    BY <1>3 DEF RegisterGroup, Register
  <2>2. /\ row' \in [Jids -> Valid \cup {None}] /\ UniqueFolders'
        /\ row'[j] = f
        /\ \A k \in Jids \ {j} : k \notin behind' => row'[k] = row[k]
        /\ \A k \in Jids \ {j} : row'[k] \in {row[k], None}
    BY <1>1, <1>3, <2>1, ReplacedOK DEF UniqueFolders
  <2>3. behind' \subseteq Jids /\ \A k \in Jids \ {j} : k \in behind => k \in behind'
    BY <1>1, <2>1 DEF Evicts, TypeOK
  <2>4. TypeOK'
    BY <1>1, <1>2, <2>2, <2>3 DEF TypeOK
  <2>5. RowsAreServed'
    BY <1>1, <1>2, <2>2, RegistryAssumption DEF RowsAreServed
  <2>6. RestartFindsTheSame'
    BY <1>1, <1>2, <2>2, <2>3 DEF RestartFindsTheSame
  <2>7. QED
    BY <2>2, <2>4, <2>5, <2>6 DEF RegistryInv
<1>4. CASE f \notin Valid
  <2>1. behind' = behind \cup {j} /\ row' = row
    BY <1>4 DEF RegisterGroup, Register
  <2>2. TypeOK'
    BY <1>1, <1>2, <2>1 DEF TypeOK
  <2>3. UniqueFolders' /\ RowsAreServed' /\ RestartFindsTheSame'
    BY <1>1, <1>2, <2>1, RegistryAssumption
       DEF UniqueFolders, RowsAreServed, RestartFindsTheSame
  <2>4. QED
    BY <2>2, <2>3 DEF RegistryInv
<1>5. QED
  BY <1>3, <1>4

(* The setup program changes the table under a process that may be up.     *)
LEMMA SetupKeeps ==
  ASSUME RegistryInv, SetupRegister
  PROVE  RegistryInv'
<1>1. /\ TypeOK /\ UniqueFolders /\ RowsAreServed /\ RestartFindsTheSame
      /\ changes' = changes + 1
      /\ row' = Replaced(Main, MainFolder)
      /\ UNCHANGED <<dbCursor, dbSession, up, registered, cursor, sessions, turn, turns, stops>>
  BY DEF SetupRegister, ChangeSome, RegistryInv, memory
<1>2. behind' = Evicts(Main, MainFolder) \cup
                  (IF registered[Main] = MainFolder THEN behind \ {Main} ELSE behind \cup {Main})
  BY DEF SetupRegister
<1>3. /\ row' \in [Jids -> Valid \cup {None}] /\ UniqueFolders' /\ row'[Main] = MainFolder
      /\ \A k \in Jids \ {Main} : k \notin behind' => row'[k] = row[k]
      /\ \A k \in Jids \ {Main} : row'[k] \in {row[k], None}
  BY <1>1, <1>2, ReplacedOK, RegistryAssumption DEF UniqueFolders
<1>4. /\ behind' \subseteq Jids
      /\ Main \notin behind' => registered[Main] = MainFolder
      /\ \A k \in Jids \ {Main} : k \in behind => k \in behind'
  BY <1>1, <1>2, RegistryAssumption DEF Evicts, TypeOK
<1>5. TypeOK'
  BY <1>1, <1>3, <1>4 DEF TypeOK
<1>6. RowsAreServed' /\ RestartFindsTheSame'
  BY <1>1, <1>3, <1>4 DEF RowsAreServed, RestartFindsTheSame
<1>7. QED
  BY <1>3, <1>5, <1>6 DEF RegistryInv

(* A turn that begins or fails touches nothing that is kept.               *)
LEMMA TurnKeeps ==
  ASSUME RegistryInv, NEW j \in Jids, BeginTurn(j) \/ FailTurn(j)
  PROVE  RegistryInv'
<1>1. /\ up /\ turn' \in [Jids -> Folders \cup {None}]
      /\ UNCHANGED <<row, dbCursor, dbSession, up, registered, cursor, sessions,
                     turns, changes, stops, behind>>
  BY DEF BeginTurn, FailTurn, RegistryInv, TypeOK, tables, memory
<1>2. QED
  BY <1>1 DEF RegistryInv, TypeOK, UniqueFolders, RowsAreServed, RestartFindsTheSame

(* save_state and set_session leave memory and tables alike.               *)
LEMMA CommitKeeps ==
  ASSUME RegistryInv, NEW j \in Jids, CommitTurn(j)
  PROVE  RegistryInv'
<1>1. /\ TypeOK /\ UniqueFolders /\ RowsAreServed /\ RestartFindsTheSame
      /\ up /\ turn[j] \in Folders /\ turns' = turns + 1
      /\ cursor' = Pruned([cursor EXCEPT ![j] = turns + 1]) /\ dbCursor' = cursor'
      /\ turn' = [turn EXCEPT ![j] = None]
      /\ UNCHANGED <<row, up, registered, changes, stops, behind>>
  BY DEF CommitTurn, RegistryInv, TypeOK
<1>2. cursor' \in [Jids -> 0 .. turns'] /\ dbCursor' \in [Jids -> 0 .. turns']
  BY <1>1, PrunedOK
<1>3. /\ sessions' \in [Folders -> 0 .. turns'] /\ dbSession' \in [Folders -> 0 .. turns']
      /\ \A f \in Folders : sessions'[f] \in {dbSession'[f], 0}
  <2>1. /\ PrunedSessions \in [Folders -> 0 .. turns + 1]
        /\ \A f \in Folders : PrunedSessions[f] \in {dbSession[f], 0}
    BY <1>1 DEF PrunedSessions, TypeOK, RestartFindsTheSame
  <2>2. dbSession \in [Folders -> 0 .. turns + 1] /\ turns + 1 \in 0 .. turns + 1
    BY <1>1 DEF TypeOK
  <2>3. CASE Remember(turn[j], turns + 1)
    BY <1>1, <2>1, <2>2, <2>3 DEF Remember
  <2>4. CASE sessions' = PrunedSessions /\ UNCHANGED dbSession
    BY <1>1, <2>1, <2>2, <2>4
  <2>5. QED
    BY <2>3, <2>4 DEF CommitTurn
<1>4. TypeOK'
  <2>1. turn' \in [Jids -> Folders \cup {None}] /\ turns' \in Nat
    BY <1>1 DEF TypeOK
  <2>2. QED
    BY <1>1, <1>2, <1>3, <2>1 DEF TypeOK
<1>5. UniqueFolders' /\ RowsAreServed' /\ RestartFindsTheSame'
  BY <1>1, <1>3 DEF UniqueFolders, RowsAreServed, RestartFindsTheSame
<1>6. QED
  BY <1>4, <1>5 DEF RegistryInv

(* A crash, also one between the cursors and the session.                  *)
LEMMA CrashKeeps ==
  ASSUME RegistryInv, Crash \/ \E j \in Jids : CrashInCommit(j)
  PROVE  RegistryInv'
<1>1. /\ TypeOK /\ UniqueFolders /\ MemoryLost
      /\ stops' = stops + 1
      /\ UNCHANGED <<row, dbSession, changes, behind>>
  BY DEF Crash, CrashInCommit, StopSome, RegistryInv, tables
<1>2. /\ turns' \in Nat /\ turns' >= turns
      /\ dbCursor' \in [Jids -> 0 .. turns']
  <2>1. CASE Crash
    <3>1. turns' = turns /\ dbCursor' = dbCursor
      BY <2>1 DEF Crash, tables
    <3>2. QED
      BY <1>1, <3>1 DEF TypeOK
  <2>2. ASSUME NEW j \in Jids, CrashInCommit(j)
        PROVE  turns' = turns + 1 /\ dbCursor' \in [Jids -> 0 .. turns + 1]
    BY <1>1, <2>2, PrunedOK DEF CrashInCommit
  <2>3. turns \in Nat
    BY <1>1 DEF TypeOK
  <2>4. QED
    BY <2>1, <2>2, <2>3
<1>3. dbSession' \in [Folders -> 0 .. turns']
  <2>1. \A f \in Folders : dbSession[f] \in 0 .. turns'
    BY <1>1, <1>2 DEF TypeOK
  <2>2. QED
    BY <1>1, <2>1 DEF TypeOK
<1>4. /\ ~up' /\ registered' = [j \in Jids |-> None] /\ turn' = [j \in Jids |-> None]
      /\ cursor' = [j \in Jids |-> 0] /\ sessions' = [f \in Folders |-> 0]
  BY <1>1 DEF MemoryLost
<1>5. TypeOK'
  <2>1. cursor' \in [Jids -> 0 .. turns'] /\ sessions' \in [Folders -> 0 .. turns']
    <3>1. 0 \in 0 .. turns'
      BY <1>2
    <3>2. QED
      BY <1>4, <3>1
  <2>2. /\ registered' \in [Jids -> Folders \cup {None}]
        /\ turn' \in [Jids -> Folders \cup {None}]
    BY <1>4
  <2>3. /\ row' \in [Jids -> Valid \cup {None}]
        /\ changes' \in Nat /\ stops' \in Nat /\ behind' \subseteq Jids
    BY <1>1 DEF TypeOK
  <2>4. up' \in BOOLEAN
    BY <1>1 DEF MemoryLost
  <2>5. QED
    BY <1>2, <1>3, <2>1, <2>2, <2>3, <2>4 DEF TypeOK
<1>6. UniqueFolders' /\ RowsAreServed' /\ RestartFindsTheSame'
  BY <1>1, <1>4 DEF UniqueFolders, RowsAreServed, RestartFindsTheSame
<1>7. QED
  BY <1>5, <1>6 DEF RegistryInv

-----------------------------------------------------------------------------
(* With empty tables and no process there is nothing to disagree.          *)
LEMMA InitOK == Init => RegistryInv
<1> SUFFICES ASSUME Init PROVE RegistryInv
  OBVIOUS
<1>1. TypeOK
  <2>1. 0 \in 0 .. 0 /\ 0 \in Nat
    OBVIOUS
  <2>2. /\ dbCursor \in [Jids -> 0 .. turns] /\ cursor \in [Jids -> 0 .. turns]
        /\ dbSession \in [Folders -> 0 .. turns] /\ sessions \in [Folders -> 0 .. turns]
    BY <2>1 DEF Init
  <2>3. QED
    BY <2>1, <2>2 DEF Init, TypeOK
<1>2. UniqueFolders /\ RowsAreServed /\ RestartFindsTheSame
  BY DEF Init, UniqueFolders, RowsAreServed, RestartFindsTheSame
<1>3. QED
  BY <1>1, <1>2 DEF RegistryInv

(* Every step of the process, of the setup program and of a crash.         *)
LEMMA NextKeeps == RegistryInv /\ [Next]_vars => RegistryInv'
<1> SUFFICES ASSUME RegistryInv, [Next]_vars PROVE RegistryInv'
  OBVIOUS
<1>1. CASE UNCHANGED vars
  BY <1>1 DEF vars, tables, memory, RegistryInv, TypeOK, UniqueFolders, RowsAreServed,
              RestartFindsTheSame
<1>2. CASE Next
  BY <1>2, StartKeeps, RegisterKeeps, SetupKeeps, TurnKeeps, CommitKeeps, CrashKeeps DEF Next
<1>3. QED
  BY <1>1, <1>2

(* The inductive invariant of the registry.                                *)
THEOREM InvariantHolds == Spec => []RegistryInv
BY InitOK, NextKeeps, PTL DEF Spec

(* The tables and the memory keep their types for any number of chats,     *)
(* folders, turns, registrations and crashes.                              *)
THEOREM TypeCorrect == Spec => []TypeOK
BY InvariantHolds, PTL DEF RegistryInv

(* What the process works with is what load_state would find, but for the  *)
(* chats that are behind their row and for pruned sessions.                *)
THEOREM MemoryIsDurable == Spec => []RestartFindsTheSame
BY InvariantHolds, PTL DEF RegistryInv

(* Turns meet in a folder only for chats whose row was taken from them or  *)
(* refused, or who moved in the middle of a turn.                          *)
THEOREM FoldersAreApart == Spec => []OneTurnPerFolder
<1>1. RegistryInv => OneTurnPerFolder
  <2> SUFFICES ASSUME RegistryInv, NEW j \in Jids, NEW k \in Jids,
                      j # k, turn[j] # None, turn[j] = turn[k],
                      j \notin behind, k \notin behind,
                      registered[j] = turn[j], registered[k] = turn[k]
               PROVE  FALSE
    BY DEF OneTurnPerFolder
  <2>1. up
    BY DEF RegistryInv, RowsAreServed
  <2>2. row[j] = turn[j] /\ row[k] = turn[k]
    BY <2>1 DEF RegistryInv, RestartFindsTheSame
  <2>3. QED
    BY <2>2 DEF RegistryInv, UniqueFolders
<1>2. QED
  BY <1>1, InvariantHolds, PTL

(* No step, neither the pruning of save_state nor a crash at the worst     *)
(* moment, takes the cursor of a chat that is served or has a row back.    *)
THEOREM CursorStays == Spec => CursorIsKept
<1>1. RegistryInv /\ [Next]_vars =>
        [\A j \in Jids : row[j] # None \/ registered[j] # None => dbCursor'[j] >= dbCursor[j]]_vars
  <2> SUFFICES ASSUME RegistryInv, Next, NEW k \in Jids, row[k] # None \/ registered[k] # None
               PROVE  dbCursor'[k] >= dbCursor[k]
    OBVIOUS
  <2>1. CASE UNCHANGED dbCursor
    BY <2>1 DEF RegistryInv, TypeOK
  <2>2. ASSUME NEW j \in Jids, up, dbCursor' = Pruned([cursor EXCEPT ![j] = turns + 1])
        PROVE  dbCursor'[k] >= dbCursor[k]
    <3>1. registered[k] # None
      BY <2>2 DEF RegistryInv, RowsAreServed
    <3>2. cursor = dbCursor
      BY <2>2 DEF RegistryInv, RestartFindsTheSame
    <3>3. QED
      BY <2>2, <3>1, <3>2, PrunedOK DEF RegistryInv
  <2>3. \/ UNCHANGED dbCursor
        \/ up /\ \E j \in Jids : dbCursor' = Pruned([cursor EXCEPT ![j] = turns + 1])
    BY DEF Next, BeginTurn, FailTurn, CommitTurn, CrashInCommit, RegisterGroup, SetupRegister,
           Crash, Start, tables
  <2>4. QED
    BY <2>1, <2>2, <2>3
<1>2. QED
  BY <1>1, InvariantHolds, PTL DEF Spec, CursorIsKept
=============================================================================
