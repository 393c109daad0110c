------------------------------ MODULE Registry ------------------------------
(***************************************************************************)
(* Which chats are served, from which folder, and what is kept about them. *)
(* NanoClawApp keeps registered_groups, the cursors and the sessions in    *)
(* memory; db.py keeps a table of each.  Chats are registered while the    *)
(* process serves (register_group), by its start (__main__.py) and by the  *)
(* setup program, another process.  A turn reads its chat's entry when it  *)
(* starts and writes a cursor and a session when it ends, and every        *)
(* save_state prunes the maps by the chats in memory.                      *)
(***************************************************************************)
EXTENDS Integers

CONSTANTS
  Jids, Main,              \* chats; the one called local:main
  Folders, MainFolder,
  Valid,                   \* the folders is_valid_group_folder accepts
  None,
  MaxTurns,                \* bound: committed turns
  MaxChanges,              \* bound: calls of register_group and of setup
  MaxStops                 \* bound: crashes and shutdowns

ASSUME RegistryAssumption ==
  /\ Main \in Jids
  /\ MainFolder \in Valid /\ Valid \subseteq Folders /\ None \notin Folders
  /\ MaxTurns \in Nat /\ MaxChanges \in Nat /\ MaxStops \in Nat

VARIABLES
  row,                     \* registered_groups in the database: a chat's folder
  dbCursor, dbSession,     \* last_agent_timestamp in router_state; sessions
  up,
  registered,              \* NanoClawApp.registered_groups: a chat's folder
  cursor, sessions,        \* last_agent_timestamp and sessions in memory, 0 for none
  turn,                    \* the folder of the turn a chat is in
  turns, changes, stops,   \* how many so far
  behind                   \* history: chats whose row was refused, or changed by another

tables == <<row, dbCursor, dbSession>>
memory == <<registered, cursor, sessions>>
vars == <<tables, up, memory, turn, turns, changes, stops, behind>>

-----------------------------------------------------------------------------
(* Registering.                                                            *)

\* Mutant: without the UNIQUE constraint.
ReplacedOnly(j, f) == [row EXCEPT ![j] = f]

(* INSERT OR REPLACE with a UNIQUE folder: the row of any other chat that  *)
(* has the folder is deleted.                                              *)
Evicts(j, f) == {k \in Jids \ {j} : row[k] = f}
Replaced(j, f) == [[k \in Jids |-> IF k \in Evicts(j, f) THEN None ELSE row[k]] EXCEPT ![j] = f]

\* Mutant: a chat that is known already is not written again.
RegisterNew(j, f) ==
  /\ registered' = [registered EXCEPT ![j] = f]
  /\ IF f \in Valid /\ registered[j] = None
       THEN row' = Replaced(j, f) /\ behind' = (behind \ {j}) \cup Evicts(j, f)
       ELSE UNCHANGED <<row, behind>>

(* The memory is changed first; for an invalid folder the database then    *)
(* raises ValueError, and nobody takes the change of the memory back.      *)
Register(j, f) ==
  /\ registered' = [registered EXCEPT ![j] = f]
  /\ IF f \in Valid
       THEN row' = Replaced(j, f) /\ behind' = (behind \ {j}) \cup Evicts(j, f)
       ELSE behind' = behind \cup {j} /\ UNCHANGED row

ChangeSome == changes < MaxChanges /\ changes' = changes + 1

RegisterGroup(j, f) ==
  /\ up /\ ChangeSome
  /\ Register(j, f)
  /\ UNCHANGED <<dbCursor, dbSession, up, cursor, sessions, turn, turns, stops>>

\* The setup program writes into the database, whether the process runs or not;
\* the main chat is behind its row if it is served from another folder.
SetupRegister ==
  /\ ChangeSome
  /\ row' = Replaced(Main, MainFolder)
  /\ behind' = Evicts(Main, MainFolder) \cup
                 (IF registered[Main] = MainFolder THEN behind \ {Main} ELSE behind \cup {Main})
  /\ UNCHANGED <<dbCursor, dbSession, up, memory, turn, turns, stops>>

-----------------------------------------------------------------------------
(* Turns.                                                                  *)

BeginTurn(j) ==
  /\ up /\ turn[j] = None
  /\ registered[j] # None
  /\ turn' = [turn EXCEPT ![j] = registered[j]]
  /\ UNCHANGED <<tables, up, memory, turns, changes, stops, behind>>

FailTurn(j) ==
  /\ up /\ turn[j] # None
  /\ turn' = [turn EXCEPT ![j] = None]
  /\ UNCHANGED <<tables, up, memory, turns, changes, stops, behind>>

\* Mutant: the chats of the database are taken for the registered ones.
PrunedByRows(c) == [j \in Jids |-> IF row[j] # None THEN c[j] ELSE 0]

(* save_state keeps what belongs to a chat, or to a folder of a chat, that *)
(* is registered in memory, and writes the cursors; sessions stay in their *)
(* table.                                                                  *)
Pruned(c) == [j \in Jids |-> IF registered[j] # None THEN c[j] ELSE 0]
PrunedSessions ==
  [f \in Folders |-> IF \E j \in Jids : registered[j] = f THEN sessions[f] ELSE 0]

Remember(f, s) ==
  /\ sessions' = [PrunedSessions EXCEPT ![f] = s]
  /\ dbSession' = [dbSession EXCEPT ![f] = s]

\* A turn has timestamps of its own; its agent may report a new session.
CommitTurn(j) ==
  /\ up /\ turn[j] # None /\ turns < MaxTurns
  /\ turns' = turns + 1
  /\ cursor' = Pruned([cursor EXCEPT ![j] = turns + 1])
  /\ dbCursor' = cursor'
  /\ \/ Remember(turn[j], turns + 1)
     \/ sessions' = PrunedSessions /\ UNCHANGED dbSession
  /\ turn' = [turn EXCEPT ![j] = None]
  /\ UNCHANGED <<row, up, registered, changes, stops, behind>>

-----------------------------------------------------------------------------
(* Stopping and starting.                                                  *)

StopSome == stops < MaxStops /\ stops' = stops + 1

MemoryLost ==
  /\ up' = FALSE
  /\ registered' = [j \in Jids |-> None]
  /\ cursor' = [j \in Jids |-> 0] /\ sessions' = [f \in Folders |-> 0]
  /\ turn' = [j \in Jids |-> None]

Crash ==
  /\ up /\ StopSome
  /\ MemoryLost
  /\ UNCHANGED <<tables, turns, changes, behind>>

\* The cursors are written, the session is not.
CrashInCommit(j) ==
  /\ up /\ StopSome
  /\ turn[j] # None /\ turns < MaxTurns
  /\ turns' = turns + 1
  /\ dbCursor' = Pruned([cursor EXCEPT ![j] = turns + 1])
  /\ MemoryLost
  /\ UNCHANGED <<row, dbSession, changes, behind>>

(* load_state, and the main group if no valid row has it.                  *)
Loaded == [j \in Jids |-> IF row[j] \in Valid THEN row[j] ELSE None]

Start ==
  /\ ~up /\ up' = TRUE
  /\ IF Loaded[Main] = None
       THEN /\ registered' = [Loaded EXCEPT ![Main] = MainFolder]
            /\ row' = Replaced(Main, MainFolder)
            /\ behind' = Evicts(Main, MainFolder)
       ELSE /\ registered' = Loaded
            /\ behind' = {}
            /\ UNCHANGED row
  /\ cursor' = dbCursor /\ sessions' = dbSession
  /\ UNCHANGED <<dbCursor, dbSession, turn, turns, changes, stops>>

-----------------------------------------------------------------------------
Init ==
  /\ row = [j \in Jids |-> None]
  /\ dbCursor = [j \in Jids |-> 0] /\ dbSession = [f \in Folders |-> 0]
  /\ up = FALSE
  /\ registered = [j \in Jids |-> None]
  /\ cursor = [j \in Jids |-> 0] /\ sessions = [f \in Folders |-> 0]
  /\ turn = [j \in Jids |-> None]
  /\ turns = 0 /\ changes = 0 /\ stops = 0
  /\ behind = {}

Next ==
  \/ \E j \in Jids : BeginTurn(j) \/ FailTurn(j) \/ CommitTurn(j) \/ CrashInCommit(j)
  \/ \E j \in Jids, f \in Folders : RegisterGroup(j, f)
  \/ SetupRegister \/ Crash \/ Start

Spec == Init /\ [][Next]_vars

-----------------------------------------------------------------------------
(* Properties.                                                             *)

TypeOK ==
  /\ row \in [Jids -> Valid \cup {None}]
  /\ dbCursor \in [Jids -> 0 .. turns] /\ dbSession \in [Folders -> 0 .. turns]
  /\ up \in BOOLEAN
  /\ registered \in [Jids -> Folders \cup {None}]
  /\ cursor \in [Jids -> 0 .. turns] /\ sessions \in [Folders -> 0 .. turns]
  /\ turn \in [Jids -> Folders \cup {None}]
  /\ turns \in Nat /\ changes \in Nat /\ stops \in Nat
  /\ behind \subseteq Jids

(* A restart would find what the process works with: each chat in the      *)
(* folder it is served from, the cursors, and the sessions.  The           *)
(* exceptions are the code's own: a chat whose folder was refused, or      *)
(* whose row another chat or the setup program changed; a session that was *)
(* pruned from memory, which comes back with the restart.                  *)
RestartFindsTheSame ==
  up => /\ \A j \in Jids : registered[j] = row[j] \/ j \in behind
        /\ cursor = dbCursor
        /\ \A f \in Folders : sessions[f] \in {dbSession[f], 0}

(* Two turns share a folder, and with it a session, a working directory    *)
(* and an inbox, only if one of the two chats is behind its row as above,  *)
(* or was given another folder in the middle of its turn: the dispatcher   *)
(* keeps chats apart, and nothing else keeps folders apart.                *)
OneTurnPerFolder ==
  \A j, k \in Jids :
    j # k /\ turn[j] # None /\ turn[j] = turn[k] =>
      \E i \in {j, k} : i \in behind \/ registered[i] # turn[i]

(* The durable cursor of a chat that is served, or that has a row, never   *)
(* moves back: save_state prunes, but not what is still needed, also when  *)
(* the row of a chat that is served has been deleted by another.           *)
CursorIsKept ==
  [][\A j \in Jids :
       row[j] # None \/ registered[j] # None => dbCursor'[j] >= dbCursor[j]]_vars
=============================================================================
