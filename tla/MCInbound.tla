----------------------------- MODULE MCInbound -----------------------------
(***************************************************************************)
(* Inbound for TLC: a note without an id that is written in place, a file  *)
(* that is not UTF-8, and junk that is no message; a line without an id;   *)
(* a post with one; an allowlist that may deny the sender of the note.     *)
(***************************************************************************)
EXTENDS Inbound, TLC

CONSTANTS note, bad, junk, line, p1, open, strict

MCNames == <<note, bad, junk>>
MCDenied == [v \in Versions \cup {NoFile} |-> IF v = strict THEN {note} ELSE {}]
=============================================================================
