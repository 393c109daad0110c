----------------------------- MODULE MCTaskFlow -----------------------------
(***************************************************************************)
(* TaskFlow for TLC: three task ids over two chats.                        *)
(***************************************************************************)
EXTENDS TaskFlow, TLC

CONSTANTS a, b, beat, shot, daily

MCChatOf == [t \in Tasks |-> IF t = daily THEN b ELSE a]
MCKind ==
  [t \in Tasks |-> CASE t = beat -> "interval" [] t = shot -> "once" [] t = daily -> "cron"]
MCPeriod == [t \in Tasks |-> IF t = daily THEN 3 ELSE 2]
=============================================================================
