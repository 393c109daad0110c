----------------------------- MODULE IpcWatcher -----------------------------
(***************************************************************************)
(* Requests of the agents: an agent process drops a JSON file into its     *)
(* group's messages or tasks directory (mcp_stdio.py), and the watcher of  *)
(* ipc.py goes through the directories in rounds, carries out each file    *)
(* and removes it.  Agents are processes of their own and write between    *)
(* any two steps; the watcher can crash between an effect and the removal  *)
(* of its file, is cancelled by a shutdown while it awaits a channel, and  *)
(* ends for good at the first exception it does not expect.                *)
(***************************************************************************)
EXTENDS Integers, Sequences, FiniteSets, SequencesExt

CONSTANTS
  Folders,         \* the groups' IPC directories, in the order of their names
  MainFolder,      \* the folder of the main group
  TaskIds,
  OwnerOf,         \* the group whose chat a task id is scheduled for
  Texts,           \* message requests
  Garbled,         \* those whose JSON document is not an object
  AuthorOf,        \* the folder a text is written in
  TargetOf,        \* the folder of the group a text is addressed to
  MaxWrites,       \* bound: task requests in a behaviour
  MaxStops         \* bound: crashes and shutdowns

F == ToSet(Folders)

ASSUME IpcWatcherAssumption ==
  /\ Folders \in Seq(F) /\ Folders # <<>> /\ IsInjective(Folders)
  /\ MainFolder \in F
  /\ OwnerOf \in [TaskIds -> F]
  /\ Garbled \subseteq Texts
  /\ {AuthorOf, TargetOf} \subseteq [Texts -> F]
  /\ MaxWrites \in Nat /\ MaxStops \in Nat

VARIABLES
  dirs,            \* the files of a folder, by name: messages and tasks
  row,             \* scheduled_tasks: the status of a task
  pc,              \* where the watcher is
  todo,            \* folders left in this round
  stage,           \* the directory it is in
  left,            \* files it listed there and has not removed yet
  fate,            \* what follows the removal of the file it works on
  stops,           \* crashes and shutdowns so far
  writes,          \* history: how many task requests were written
  askers,          \* history: the folders that have asked for something of a task
  asked,           \* history: what the requests of a folder make of a task
  written,         \* history: the texts that were written
  sent,            \* history: how often a text was handed to a channel
  torn             \* history: crashes between a text's sending and removal

watcher == <<pc, todo, stage, left, fate>>
requests == <<writes, askers, asked>>
history == <<requests, written, sent, torn>>
vars == <<dirs, row, watcher, stops, history>>

-----------------------------------------------------------------------------
(* Requests.                                                               *)

Request == [op : {"schedule", "pause", "resume", "cancel"}, task : TaskIds]
Status == {"none", "active", "paused"}

\* Mutant: whoever asks is obeyed.
MayAlways(f, owner) == TRUE

May(f, owner) == f = MainFolder \/ f = owner

\* What a request makes of a task's status.
Outcome(f, r, status) ==
  IF ~May(f, OwnerOf[r.task]) THEN status
  ELSE CASE r.op = "schedule" -> IF status = "none" THEN "active" ELSE status
         [] r.op = "pause" -> IF status = "none" THEN "none" ELSE "paused"
         [] r.op = "resume" -> IF status = "none" THEN "none" ELSE "active"
         [] r.op = "cancel" -> "none"

(* A second row with the same id raises sqlite3.IntegrityError, and a      *)
(* document that is not an object AttributeError; neither is caught.       *)
IsDuplicate(f, r) ==
  r.op = "schedule" /\ May(f, OwnerOf[r.task]) /\ row[r.task] # "none"

-----------------------------------------------------------------------------
(* Agents.  A file gets its final name when it is complete; names carry    *)
(* the time, so they sort in the order of writing.                         *)

WriteMessage(m) ==
  /\ m \notin written
  /\ written' = written \cup {m}
  /\ dirs' = [dirs EXCEPT ![AuthorOf[m]].messages = Append(@, m)]
  /\ UNCHANGED <<row, watcher, stops, requests, sent, torn>>

WriteTask(f, r) ==
  /\ writes < MaxWrites /\ writes' = writes + 1
  /\ askers' = [askers EXCEPT ![r.task] = @ \cup {f}]
  /\ asked' = [asked EXCEPT ![f][r.task] = Outcome(f, r, @)]
  /\ dirs' = [dirs EXCEPT ![f].tasks = Append(@, r)]
  /\ UNCHANGED <<row, watcher, stops, written, sent, torn>>

-----------------------------------------------------------------------------
(* The watcher.                                                            *)

Folder == Head(todo)
File == Head(dirs[Folder][stage])

\* run_once lists the base directory; then each directory is listed in turn.
BeginRound ==
  /\ pc = "sleep"
  /\ pc' = "list" /\ stage' = "messages" /\ todo' = Folders
  /\ UNCHANGED <<dirs, row, left, fate, stops, history>>

List ==
  /\ pc = "list"
  /\ pc' = "file"
  /\ left' = Len(dirs[Folder][stage])
  /\ UNCHANGED <<dirs, row, todo, stage, fate, stops, history>>

\* Mutant: the round goes on to the next folder after the messages.
EndOfListingEarly ==
  /\ pc = "file" /\ left = 0
  /\ stage' = "messages" /\ todo' = Tail(todo)
  /\ pc' = IF todo' = <<>> THEN "sleep" ELSE "list"
  /\ UNCHANGED <<dirs, row, left, fate, stops, history>>

\* The messages of a folder, then its tasks, then the next folder.
EndOfListing ==
  /\ pc = "file" /\ left = 0
  /\ \/ /\ stage = "messages"
        /\ stage' = "tasks" /\ pc' = "list" /\ UNCHANGED todo
     \/ /\ stage = "tasks"
        /\ stage' = "messages" /\ todo' = Tail(todo)
        /\ pc' = IF todo' = <<>> THEN "sleep" ELSE "list"
  /\ UNCHANGED <<dirs, row, left, fate, stops, history>>

\* send_message hands the text to the channel before it awaits anything.
SendText ==
  /\ pc = "file" /\ left > 0 /\ stage = "messages"
  /\ File \notin Garbled
  /\ May(Folder, TargetOf[File])
  /\ sent' = [sent EXCEPT ![File] = @ + 1]
  /\ pc' = "sending"
  /\ UNCHANGED <<dirs, row, todo, stage, left, fate, stops, requests, written, torn>>

\* The channel has answered, or raised one of the errors that are caught.
Answered ==
  /\ pc = "sending"
  /\ pc' = "remove"
  /\ UNCHANGED <<dirs, row, todo, stage, left, fate, stops, history>>

\* Not for this author to send, or the channel took nothing.
SkipText ==
  /\ pc = "file" /\ left > 0 /\ stage = "messages"
  /\ File \notin Garbled
  /\ pc' = "remove"
  /\ UNCHANGED <<dirs, row, todo, stage, left, fate, stops, history>>

TakeGarbled ==
  /\ pc = "file" /\ left > 0 /\ stage = "messages"
  /\ File \in Garbled
  /\ pc' = "remove" /\ fate' = "dead"
  /\ UNCHANGED <<dirs, row, todo, stage, left, stops, history>>

\* _process_task_payload awaits nothing.
TakeTask ==
  /\ pc = "file" /\ left > 0 /\ stage = "tasks"
  /\ row' = [row EXCEPT ![File.task] = Outcome(Folder, File, @)]
  /\ pc' = "remove"
  /\ fate' = IF IsDuplicate(Folder, File) THEN "dead" ELSE fate
  /\ UNCHANGED <<dirs, todo, stage, left, stops, history>>

\* Mutant: a file that failed is kept.
UnlinkOnSuccess ==
  /\ pc = "remove"
  /\ dirs' = IF fate = "run" THEN [dirs EXCEPT ![Folder][stage] = Tail(@)] ELSE dirs
  /\ left' = left - 1
  /\ pc' = IF fate = "run" THEN "file" ELSE fate
  /\ fate' = "run"
  /\ UNCHANGED <<row, todo, stage, stops, history>>

\* finally: unlink, whatever happened.  An exception then ends the loop.
Unlink ==
  /\ pc = "remove"
  /\ dirs' = [dirs EXCEPT ![Folder][stage] = Tail(@)]
  /\ left' = left - 1
  /\ pc' = IF fate = "run" THEN "file" ELSE fate
  /\ fate' = "run"
  /\ UNCHANGED <<row, todo, stage, stops, history>>

-----------------------------------------------------------------------------
(* Stopping and starting.                                                  *)

StopSome == stops < MaxStops /\ stops' = stops + 1

Crash ==
  /\ pc # "down"
  /\ StopSome
  /\ torn' = IF pc \in {"sending", "remove"} /\ stage = "messages"
               THEN [torn EXCEPT ![File] = @ + 1] ELSE torn
  /\ pc' = "down" /\ fate' = "run" /\ todo' = <<>> /\ stage' = "messages" /\ left' = 0
  /\ UNCHANGED <<dirs, row, requests, written, sent>>

(* stop() leaves the loop a second; what still awaits a channel then is    *)
(* cancelled, and its finally clause runs.                                 *)
Shutdown ==
  /\ StopSome
  /\ \/ pc \in {"sleep", "dead"} /\ pc' = "down" /\ UNCHANGED fate
     \/ pc = "sending" /\ pc' = "remove" /\ fate' = "down"
  /\ UNCHANGED <<dirs, row, todo, stage, left, history>>

Start ==
  /\ pc = "down"
  /\ pc' = "sleep"
  /\ UNCHANGED <<dirs, row, todo, stage, left, fate, stops, history>>

-----------------------------------------------------------------------------
Init ==
  /\ dirs = [f \in F |-> [messages |-> <<>>, tasks |-> <<>>]]
  /\ row = [t \in TaskIds |-> "none"]
  /\ pc = "sleep" /\ todo = <<>> /\ stage = "messages" /\ left = 0 /\ fate = "run"
  /\ stops = 0
  /\ writes = 0 /\ written = {}
  /\ askers = [t \in TaskIds |-> {}]
  /\ asked = [f \in F |-> [t \in TaskIds |-> "none"]]
  /\ sent = [m \in Texts |-> 0] /\ torn = [m \in Texts |-> 0]

Watch ==
  \/ BeginRound \/ List \/ EndOfListing
  \/ SendText \/ Answered \/ SkipText \/ TakeGarbled \/ TakeTask \/ Unlink

Next ==
  \/ \E m \in Texts : WriteMessage(m)
  \/ \E f \in F, r \in Request : WriteTask(f, r)
  \/ Watch \/ Crash \/ Shutdown \/ Start

Spec == Init /\ [][Next]_vars

(* The loop sleeps a poll interval and goes on; a service manager restarts *)
(* a process that ended.  Nobody restarts the loop alone.                  *)
FairSpec == Spec /\ WF_vars(Watch) /\ WF_vars(Start)

-----------------------------------------------------------------------------
(* Properties.                                                             *)

TypeOK ==
  /\ dirs \in [F -> [messages : Seq(Texts), tasks : Seq(Request)]]
  /\ row \in [TaskIds -> Status]
  /\ pc \in {"sleep", "list", "file", "sending", "remove", "dead", "down"}
  /\ todo \in Seq(F) /\ stage \in {"messages", "tasks"}
  /\ left \in Nat /\ fate \in {"run", "dead", "down"} /\ stops \in 0 .. MaxStops
  /\ writes \in 0 .. MaxWrites /\ written \subseteq Texts
  /\ askers \in [TaskIds -> SUBSET F] /\ asked \in [F -> [TaskIds -> Status]]
  /\ sent \in [Texts -> Nat] /\ torn \in [Texts -> Nat]

(* When a folder has no task request left, the tasks that only its agent   *)
(* was entitled to change are as it asked, in the order it asked: nothing  *)
(* is lost, overtaken or undone by others, and a request that a crash has  *)
(* carried out twice does no harm.                                         *)
SoleAuthor(f, t) == askers[t] \cap {MainFolder, OwnerOf[t]} \subseteq {f}

DrainedMeansDone ==
  \A f \in F, t \in TaskIds :
    dirs[f].tasks = <<>> /\ SoleAuthor(f, t) => row[t] = asked[f][t]

(* A text is sent a second time only if the process was killed between its *)
(* sending and the removal of its file; an orderly shutdown, which cancels *)
(* the wait for the channel, does not repeat it.                           *)
SentOncePerCrash ==
  \A m \in Texts : sent[m] <= 1 + torn[m]

(* Every request is read and removed, unless the loop has died.            *)
Pending(f) == dirs[f].messages # <<>> \/ dirs[f].tasks # <<>>
RequestsAreRead == \A f \in F : Pending(f) ~> ~Pending(f) \/ pc = "dead"

(* A malformed file does not end the watcher.                              *)
MalformedIsSurvived == pc # "dead"
=============================================================================
