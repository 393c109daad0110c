---------------------------- MODULE MCMessageFlow ----------------------------
(***************************************************************************)
(* MessageFlow for TLC: a main group, which an enabled channel may own or  *)
(* not, and a group that answers only when triggered, which gets the       *)
(* message n1.                                                             *)
(***************************************************************************)
EXTENDS MessageFlow, TLC

CONSTANTS main, team, n1

MCGroupOf == [m \in Msgs |-> IF m = n1 THEN team ELSE main]
=============================================================================
