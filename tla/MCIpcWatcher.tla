---------------------------- MODULE MCIpcWatcher ----------------------------
(***************************************************************************)
(* IpcWatcher for TLC: the main group and another one, a task of each, a   *)
(* text of the main group for the other's chat, and a garbled one.         *)
(***************************************************************************)
EXTENDS IpcWatcher, TLC

CONSTANTS main, team, mine, theirs, hello, junk

MCFolders == <<main, team>>
MCOwnerOf == [t \in TaskIds |-> IF t = mine THEN main ELSE team]
MCAuthorOf == [m \in Texts |-> IF m = hello THEN main ELSE team]
MCTargetOf == [m \in Texts |-> team]
=============================================================================
