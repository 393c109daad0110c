------------------------------ MODULE Inbound ------------------------------
(***************************************************************************)
(* How a message gets in.  Users drop JSON files into the inbox of the     *)
(* local-file channel, by a rename or, as with a shell redirection, by     *)
(* creating a file and filling it; they type lines, which the reader       *)
(* thread of the cli channel puts into a queue in memory; clients post to  *)
(* the webhook channel, whose HTTP threads do the same with payloads.  The *)
(* main loop polls one channel after the other and hands each message to   *)
(* NanoClawApp._on_inbound_message, which asks the sender allowlist, a     *)
(* file that its owner edits at any time and sender_allowlist.py caches.   *)
(* Chats are registered ones and messages are users'.                      *)
(***************************************************************************)
EXTENDS Integers, Sequences, FiniteSets, SequencesExt

CONSTANTS
  Names,           \* the files of the inbox in the order of their names
  Renamed,         \* files that appear complete
  Void,            \* files and lines that are no message: bad JSON, no content
  Poison,          \* files that are not UTF-8
  Lines,           \* lines typed on the standard input
  Posts,           \* payloads posted to the webhook
  HasId,           \* messages with an id of their own
  Versions,        \* contents of the allowlist
  NoFile,          \* ... when it does not exist
  Denied,          \* the messages a content makes the app drop
  None,
  MaxEdits,        \* bound: changes of the allowlist
  MaxStops         \* bound: crashes and shutdowns

Files == ToSet(Names)
Msgs == Files \cup Lines \cup Posts

ASSUME InboundAssumption ==
  /\ IsInjective(Names) /\ None \notin Msgs \cup Versions \cup {NoFile}
  /\ Files \cap Posts = {} /\ Files \cap Lines = {} /\ Lines \cap Posts = {}
  /\ Renamed \cup Poison \subseteq Files /\ Void \subseteq (Files \ Poison) \cup Lines
  /\ HasId \subseteq Msgs
  /\ NoFile \notin Versions
  /\ Denied \in [Versions \cup {NoFile} -> SUBSET Msgs] /\ Denied[NoFile] = {}
  /\ MaxEdits \in Nat \ {0} /\ MaxStops \in Nat

VARIABLES
  inbox,           \* a file of the inbox: none, partial or whole
  post,            \* a payload's request: new, put (into the queue), accepted (202)
  typed,           \* the lines the reader thread has read
  cliQueue,        \* CliStdioChannel._queue
  webQueue,        \* WebhookHttpChannel._queue
  rows,            \* the messages table: how many rows a message has
  config, edits,   \* the allowlist file: its content; its mtime
  cache, mtime,    \* _allowlist_cache, _allowlist_mtime
  pc, left, msg,   \* poll: where it is, files listed and not done, message in hand
  stops,           \* crashes and shutdowns so far
  completed,       \* history: files whose writer is done
  refused,         \* history: messages that were judged and not stored
  halfRead,        \* history: files that were removed before they were whole
  lost,            \* history: messages that were in memory when the process ended
  repeats,         \* history: how often a message was delivered anew by a crash
  seen,            \* history: contents of the allowlist since msg was taken to be judged
  raced            \* history: an edit hit between the reading of cache and mtime

allowlist == <<config, edits, cache, mtime, seen, raced>>
poll == <<pc, left, msg>>
queues == <<cliQueue, webQueue>>
fates == <<completed, refused, halfRead, lost, repeats>>
vars == <<inbox, post, typed, queues, rows, allowlist, poll, stops, fates>>

-----------------------------------------------------------------------------
(* The world outside.                                                      *)

outside == <<typed, queues, rows, allowlist, poll, stops, refused, halfRead, lost, repeats>>

Drop(f) ==
  /\ inbox[f] = "none" /\ f \notin completed \cup halfRead
  /\ \/ /\ f \in Renamed
        /\ inbox' = [inbox EXCEPT ![f] = "whole"] /\ completed' = completed \cup {f}
     \/ /\ f \notin Renamed
        /\ inbox' = [inbox EXCEPT ![f] = "partial"] /\ UNCHANGED completed
  /\ UNCHANGED <<post, outside>>

\* The writer of a file that is gone by then notices nothing.
Complete(f) ==
  /\ inbox[f] = "partial" \/ f \in halfRead \ completed
  /\ inbox' = IF inbox[f] = "partial" THEN [inbox EXCEPT ![f] = "whole"] ELSE inbox
  /\ completed' = completed \cup {f}
  /\ UNCHANGED <<post, outside>>

Edit(v) ==
  /\ edits < MaxEdits /\ edits' = edits + 1
  /\ v # config /\ config' = v
  /\ seen' = IF seen = {} THEN {} ELSE seen \cup {v}
  /\ raced' = (raced \/ pc = "stamp")
  /\ UNCHANGED <<inbox, post, typed, queues, rows, cache, mtime, poll, stops, fates>>

\* do_POST of a valid payload; the server listens until disconnect.
Post(p) ==
  /\ pc # "down"
  /\ post[p] = "new"
  /\ post' = [post EXCEPT ![p] = "put"]
  /\ webQueue' = Append(webQueue, p)
  /\ UNCHANGED <<inbox, typed, cliQueue, rows, allowlist, poll, stops, fates>>

Answer(p) ==
  /\ pc # "down"
  /\ post[p] = "put"
  /\ post' = [post EXCEPT ![p] = "accepted"]
  /\ UNCHANGED <<inbox, typed, queues, rows, allowlist, poll, stops, fates>>

\* _read_loop, which goes on until the process ends.
Type(l) ==
  /\ pc # "down"
  /\ l \notin typed /\ typed' = typed \cup {l}
  /\ cliQueue' = Append(cliQueue, l)
  /\ UNCHANGED <<inbox, post, webQueue, rows, allowlist, poll, stops, fates>>

-----------------------------------------------------------------------------
(* The main loop polls the local-file channel ...                          *)

pollFrame == <<post, typed, allowlist, stops>>

BeginPoll ==
  /\ pc = "sleep"
  /\ pc' = "files"
  /\ left' = {f \in Files : inbox[f] # "none"}
  /\ UNCHANGED <<inbox, queues, rows, msg, pollFrame, fates>>

\* The next one of those that were listed, in the order of their names.
Reading(f) ==
  /\ pc = "files" /\ f \in left
  /\ \A i, j \in DOMAIN Names : Names[i] \in left /\ Names[j] = f => j <= i

\* A partial file is bad JSON.
ReadVoid(f) ==
  /\ Reading(f)
  /\ f \in Void \/ inbox[f] = "partial"
  /\ inbox' = [inbox EXCEPT ![f] = "none"]
  /\ left' = left \ {f}
  /\ IF inbox[f] = "partial"
       THEN halfRead' = halfRead \cup {f} /\ UNCHANGED refused
       ELSE refused' = refused \cup {f} /\ UNCHANGED halfRead
  /\ UNCHANGED <<queues, rows, pc, msg, pollFrame, completed, lost, repeats>>

\* Mutant: the exception ends the whole round.
ReadPoisonEndsRound(f) ==
  /\ Reading(f)
  /\ f \in Poison /\ inbox[f] = "whole"
  /\ pc' = "sleep" /\ left' = {}
  /\ UNCHANGED <<inbox, queues, rows, msg, pollFrame, fates>>

\* UnicodeDecodeError leaves poll; poll_channels goes on to the next channel.
ReadPoison(f) ==
  /\ Reading(f)
  /\ f \in Poison /\ inbox[f] = "whole"
  /\ pc' = "lines" /\ left' = {}
  /\ UNCHANGED <<inbox, queues, rows, msg, pollFrame, fates>>

Take(m) ==
  /\ msg' = m /\ pc' = "stat"
  /\ seen' = {config}
  /\ UNCHANGED <<post, typed, rows, config, edits, cache, mtime, raced, stops, fates>>

\* Mutant: the file is removed before its message is handed over.
ReadFileUnlinks(f) ==
  /\ Reading(f)
  /\ f \notin Void \cup Poison /\ inbox[f] = "whole"
  /\ Take(f)
  /\ inbox' = [inbox EXCEPT ![f] = "none"]
  /\ UNCHANGED <<queues, left>>

ReadFile(f) ==
  /\ Reading(f)
  /\ f \notin Void \cup Poison /\ inbox[f] = "whole"
  /\ Take(f)
  /\ UNCHANGED <<inbox, queues, left>>

EndOfFiles ==
  /\ pc = "files" /\ left = {}
  /\ pc' = "lines"
  /\ UNCHANGED <<inbox, queues, rows, left, msg, pollFrame, fates>>

(* ... then the lines that were typed ...                                  *)

ReadLine ==
  /\ pc = "lines" /\ cliQueue # <<>>
  /\ cliQueue' = Tail(cliQueue)
  /\ IF Head(cliQueue) \in Void
       THEN /\ refused' = refused \cup {Head(cliQueue)}
            /\ UNCHANGED <<rows, pc, msg, pollFrame, completed, halfRead, lost, repeats>>
       ELSE Take(Head(cliQueue))
  /\ UNCHANGED <<inbox, webQueue, left>>

EndOfLines ==
  /\ pc = "lines" /\ cliQueue = <<>>
  /\ pc' = "posts"
  /\ UNCHANGED <<inbox, queues, rows, left, msg, pollFrame, fates>>

(* ... and then the webhook channel.                                       *)

ReadPost ==
  /\ pc = "posts" /\ webQueue # <<>>
  /\ Take(Head(webQueue))
  /\ webQueue' = Tail(webQueue)
  /\ UNCHANGED <<inbox, cliQueue, left>>

EndOfPosts ==
  /\ pc = "posts" /\ webQueue = <<>>
  /\ pc' = "sleep"
  /\ UNCHANGED <<inbox, queues, rows, left, msg, pollFrame, fates>>

-----------------------------------------------------------------------------
(* _on_inbound_message: load_sender_allowlist, then store or drop.         *)

loadFrame == <<inbox, post, typed, queues, rows, config, edits, left, msg, stops, fates>>

\* Mutant: once loaded, the cache is good for ever.
StatNever ==
  /\ pc = "stat"
  /\ pc' = IF cache # None THEN "decide" ELSE "read"
  /\ UNCHANGED <<loadFrame, cache, mtime, seen, raced>>

\* A file that cannot be looked at leaves the cache as it is.
Stat ==
  /\ pc = "stat"
  /\ pc' = IF cache # None /\ (config = NoFile \/ mtime = edits) THEN "decide" ELSE "read"
  /\ UNCHANGED <<loadFrame, cache, mtime, seen, raced>>

ReadConfig ==
  /\ pc = "read"
  /\ cache' = config
  /\ raced' = FALSE
  /\ pc' = "stamp"
  /\ UNCHANGED <<loadFrame, mtime, seen>>

Stamp ==
  /\ pc = "stamp"
  /\ mtime' = IF config = NoFile THEN mtime ELSE edits
  /\ pc' = "decide"
  /\ UNCHANGED <<loadFrame, cache, seen, raced>>

\* INSERT OR REPLACE; without an id of its own a delivery is a new row.
Stored(m) == [rows EXCEPT ![m] = IF m \in HasId THEN 1 ELSE @ + 1]

Decide ==
  /\ pc = "decide"
  /\ IF msg \in Denied[cache]
       THEN refused' = refused \cup {msg} /\ UNCHANGED rows
       ELSE rows' = Stored(msg) /\ UNCHANGED refused
  /\ IF msg \in Files
       THEN pc' = "unlink" /\ UNCHANGED msg
       ELSE pc' = (IF msg \in Lines THEN "lines" ELSE "posts") /\ msg' = None
  /\ seen' = {}
  /\ UNCHANGED <<inbox, post, typed, queues, config, edits, cache, mtime, raced, left, stops,
                 completed, halfRead, lost, repeats>>

\* Mutant: a message that was stored keeps its file.
UnlinkRefused ==
  /\ pc = "unlink"
  /\ inbox' = IF msg \in refused THEN [inbox EXCEPT ![msg] = "none"] ELSE inbox
  /\ left' = left \ {msg} /\ msg' = None /\ pc' = "files"
  /\ UNCHANGED <<queues, rows, pollFrame, fates>>

Unlink ==
  /\ pc = "unlink"
  /\ inbox' = [inbox EXCEPT ![msg] = "none"]
  /\ left' = left \ {msg} /\ msg' = None /\ pc' = "files"
  /\ UNCHANGED <<queues, rows, pollFrame, fates>>

-----------------------------------------------------------------------------
(* Stopping and starting.                                                  *)

StopSome == stops < MaxStops /\ stops' = stops + 1

(* What was in memory is gone, and clients without an answer try again.    *)
MemoryLost ==
  /\ pc' = "down" /\ left' = {} /\ msg' = None
  /\ cache' = None /\ mtime' = 0 /\ raced' = FALSE /\ seen' = {}
  /\ cliQueue' = <<>> /\ webQueue' = <<>>
  /\ lost' = lost \cup ToSet(cliQueue) \cup ToSet(webQueue) \cup ({msg} \cap (Lines \cup Posts))
  /\ post' = [p \in Posts |-> IF post[p] = "put" THEN "new" ELSE post[p]]
  /\ repeats' = [m \in Msgs |->
       IF \/ m \in Posts /\ post[m] = "put"
          \/ pc = "unlink" /\ m = msg
         THEN repeats[m] + 1 ELSE repeats[m]]
  /\ UNCHANGED <<inbox, typed, rows, config, edits, completed, refused, halfRead>>

Crash == pc # "down" /\ StopSome /\ MemoryLost

(* A shutdown strikes at the loop's sleep.  While the dispatcher is waited *)
(* for nobody polls, and the HTTP server still listens.                    *)
Shutdown ==
  /\ pc = "sleep"
  /\ StopSome
  /\ pc' = "stopping"
  /\ UNCHANGED <<inbox, post, typed, queues, rows, allowlist, left, msg, fates>>

Exit == pc = "stopping" /\ MemoryLost /\ UNCHANGED stops

Start ==
  /\ pc = "down"
  /\ pc' = "sleep"
  /\ UNCHANGED <<inbox, queues, rows, left, msg, pollFrame, fates>>

-----------------------------------------------------------------------------
Init ==
  /\ inbox = [f \in Files |-> "none"]
  /\ post = [p \in Posts |-> "new"]
  /\ typed = {} /\ cliQueue = <<>> /\ webQueue = <<>>
  /\ rows = [m \in Msgs |-> 0]
  /\ config \in Versions \cup {NoFile} /\ edits = 1
  /\ cache = None /\ mtime = 0
  /\ pc = "sleep" /\ left = {} /\ msg = None
  /\ stops = 0
  /\ completed = {} /\ refused = {} /\ halfRead = {} /\ lost = {}
  /\ repeats = [m \in Msgs |-> 0]
  /\ seen = {} /\ raced = FALSE

Loop ==
  \/ BeginPoll \/ EndOfFiles
  \/ \E f \in Files : ReadVoid(f) \/ ReadPoison(f) \/ ReadFile(f)
  \/ ReadLine \/ EndOfLines \/ ReadPost \/ EndOfPosts
  \/ Stat \/ ReadConfig \/ Stamp \/ Decide \/ Unlink

Next ==
  \/ \E f \in Files : Drop(f) \/ Complete(f)
  \/ \E p \in Posts : Post(p) \/ Answer(p)
  \/ \E l \in Lines : Type(l)
  \/ \E v \in Versions \cup {NoFile} : Edit(v)
  \/ Loop \/ Crash \/ Shutdown \/ Exit \/ Start

Spec == Init /\ [][Next]_vars

\* The loop goes on, and a service manager starts the process again.
FairSpec == Spec /\ WF_vars(Loop) /\ WF_vars(Exit) /\ WF_vars(Start)

-----------------------------------------------------------------------------
(* Properties.                                                             *)

TypeOK ==
  /\ inbox \in [Files -> {"none", "partial", "whole"}]
  /\ post \in [Posts -> {"new", "put", "accepted"}]
  /\ typed \subseteq Lines /\ cliQueue \in Seq(Lines) /\ webQueue \in Seq(Posts)
  /\ rows \in [Msgs -> Nat] /\ repeats \in [Msgs -> Nat]
  /\ config \in Versions \cup {NoFile} /\ edits \in 1 .. MaxEdits
  /\ cache \in Versions \cup {NoFile, None} /\ mtime \in 0 .. MaxEdits
  /\ pc \in {"sleep", "files", "lines", "posts", "stat", "read", "stamp", "decide", "unlink",
             "stopping", "down"}
  /\ left \subseteq Files /\ msg \in Msgs \cup {None}
  /\ stops \in 0 .. MaxStops
  /\ completed \cup halfRead \subseteq Files /\ refused \cup lost \subseteq Msgs
  /\ seen \subseteq Versions \cup {NoFile} /\ raced \in BOOLEAN

(* A message with an id has one row however often it is delivered; any     *)
(* other has one for its first delivery and one more at most for each that *)
(* a crash repeated: a crash between storing and removing its file, or     *)
(* before the client had its answer.                                       *)
NoDuplicates ==
  \A m \in Msgs : rows[m] <= 1 + (IF m \in HasId THEN 0 ELSE repeats[m])

(* A file that was written, a line that was read, and a payload that was   *)
(* answered with 202 is still to be judged, in hand, stored or refused; a  *)
(* crash loses no file at any moment.  The exceptions are the code's own:  *)
(* what was in memory when the process ended, and a file that was read     *)
(* before its writer was done.                                             *)
InSight(m) ==
  \/ rows[m] > 0 \/ m \in refused
  \/ m \in ToSet(cliQueue) \/ m \in ToSet(webQueue) \/ m = msg
  \/ m \in Files /\ inbox[m] = "whole"

NothingVanishes ==
  \A m \in completed \cup typed \cup {p \in Posts : post[p] = "accepted"} :
    InSight(m) \/ m \in (lost \ Files) \cup halfRead

(* A message is judged by what the allowlist said at some moment since the *)
(* message was taken, unless the file does not exist (the cache then       *)
(* stands), or was edited in the moment between its reading and its mtime. *)
JudgedByCurrentRules ==
  pc = "decide" => cache \in seen \/ NoFile \in seen \/ raced

(* Every file, line and payload is read in the end; only files behind one  *)
(* that is not UTF-8 wait for ever, and they do not hold up the others.    *)
Blocked(f) ==
  \E i, j \in DOMAIN Names :
    i <= j /\ Names[j] = f /\ Names[i] \in Poison /\ inbox[Names[i]] # "none"

AllIsRead ==
  /\ \A f \in Files : inbox[f] # "none" ~> inbox[f] = "none" \/ Blocked(f)
  /\ \A l \in Lines : l \in ToSet(cliQueue) ~> l \notin ToSet(cliQueue)
  /\ \A p \in Posts : p \in ToSet(webQueue) ~> p \notin ToSet(webQueue)

(* A file that a user wrote into the inbox is not lost.                    *)
WrittenIsNotLost == \A f \in completed : InSight(f)
=============================================================================
