-------------------------- MODULE IpcWatcherProofs --------------------------
(***************************************************************************)
(* Theorems about IpcWatcher, for any folders, tasks and texts, and any    *)
(* number of crashes and shutdowns: a text is sent once, and once more at  *)
(* most for each crash between its sending and the removal of its file;    *)
(* tasks are in the end what was asked of them.                            *)
(***************************************************************************)
EXTENDS IpcWatcher, TLAPS

-----------------------------------------------------------------------------
(* The directories' listings, in which every file is different.            *)

(* What is put into a queue is in it, behind the rest.                     *)
LEMMA PutKeeps ==
  ASSUME NEW S, NEW q \in Seq(S), NEW x \in S, x \notin ToSet(q), IsInjective(q)
  PROVE  /\ Append(q, x) \in Seq(S)
         /\ ToSet(Append(q, x)) = ToSet(q) \cup {x}
         /\ IsInjective(Append(q, x))
<1>1. /\ Append(q, x) \in Seq(S) /\ Len(q) \in Nat
      /\ DOMAIN q = 1 .. Len(q) /\ DOMAIN Append(q, x) = 1 .. Len(q) + 1
      /\ \A i \in 1 .. Len(q) : Append(q, x)[i] = q[i]
      /\ Append(q, x)[Len(q) + 1] = x
  OBVIOUS
<1>2. ToSet(Append(q, x)) = ToSet(q) \cup {x}
  BY <1>1 DEF ToSet
<1>3. IsInjective(Append(q, x))
  BY <1>1 DEF ToSet, IsInjective
<1>4. QED
  BY <1>1, <1>2, <1>3

(* What is taken from a queue is not in it any more.                       *)
LEMMA GetKeeps ==
  ASSUME NEW S, NEW q \in Seq(S), q # <<>>, IsInjective(q)
  PROVE  /\ Head(q) \in ToSet(q) /\ Head(q) \in S
         /\ Tail(q) \in Seq(S)
         /\ ToSet(Tail(q)) = ToSet(q) \ {Head(q)}
         /\ IsInjective(Tail(q))
<1>1. /\ Tail(q) \in Seq(S) /\ Len(q) \in Nat \ {0} /\ Head(q) = q[1] /\ q[1] \in S
      /\ DOMAIN q = 1 .. Len(q) /\ DOMAIN Tail(q) = 1 .. Len(q) - 1
      /\ \A i \in 1 .. Len(q) - 1 : Tail(q)[i] = q[i + 1]
  OBVIOUS
<1>2. \A i \in 1 .. Len(q) : i = 1 \/ (i - 1 \in 1 .. Len(q) - 1 /\ Tail(q)[i - 1] = q[i])
  BY <1>1
<1>3. ToSet(Tail(q)) = ToSet(q) \ {Head(q)}
  <2>1. ToSet(Tail(q)) \subseteq ToSet(q) \ {Head(q)}
    BY <1>1 DEF ToSet, IsInjective
  <2>2. ASSUME NEW i \in 1 .. Len(q), q[i] # Head(q) PROVE q[i] \in ToSet(Tail(q))
    <3>1. i - 1 \in DOMAIN Tail(q) /\ Tail(q)[i - 1] = q[i]
      BY <1>1, <1>2, <2>2
    <3>2. QED
      BY <3>1 DEF ToSet
  <2>3. QED
    BY <1>1, <2>1, <2>2 DEF ToSet
<1>4. IsInjective(Tail(q))
  <2>1. \A i, j \in 1 .. Len(q) - 1 : q[i + 1] = q[j + 1] => i = j
    BY <1>1 DEF IsInjective
  <2>2. QED
    BY <1>1, <2>1 DEF IsInjective
<1>5. Head(q) \in ToSet(q)
  <2>1. 1 \in DOMAIN q /\ Head(q) = q[1]
    BY <1>1
  <2>2. QED
    BY <2>1 DEF ToSet
<1>6. QED
  BY <1>1, <1>3, <1>4, <1>5

(* An empty queue.                                                         *)
LEMMA EmptyQueue ==
  ToSet(<<>>) = {} /\ IsInjective(<<>>) /\ \A S : <<>> \in Seq(S)
BY DEF ToSet, IsInjective

-----------------------------------------------------------------------------
(* The invariant.                                                          *)

(* The watcher is in a folder while it lists and works, and at a file that *)
(* is there while it works on one.                                         *)
PlaceOK ==
  /\ pc \in {"list", "file", "sending", "remove"} => todo # <<>>
  /\ pc \in {"file", "sending", "remove"} => left <= Len(dirs[Folder][stage])
  /\ pc \in {"sending", "remove"} => left > 0
  /\ pc = "sending" => stage = "messages"

(* A text has one file at most, in the folder of its author.               *)
FilesOK ==
  \A f \in F :
    /\ IsInjective(dirs[f].messages)
    /\ \A m \in ToSet(dirs[f].messages) : AuthorOf[m] = f /\ m \in written

(* The text that is being sent, or was and still has its file.             *)
AtWork(m) == pc \in {"sending", "remove"} /\ stage = "messages" /\ m = File

(* A text that can still be sent for the first time since the last crash.  *)
ToBeSent(m) ==
  m \notin written \/ (m \in ToSet(dirs[AuthorOf[m]].messages) /\ ~AtWork(m))

SentOK ==
  \A m \in Texts : sent[m] <= (IF ToBeSent(m) THEN 0 ELSE 1) + torn[m]

WatcherInv == TypeOK /\ PlaceOK /\ FilesOK /\ SentOK

-----------------------------------------------------------------------------
(* A request makes a status of a status, and the same one if it is carried *)
(* out twice.                                                              *)
LEMMA OutcomeTyped ==
  ASSUME NEW f, NEW r \in Request, NEW s \in Status
  PROVE  /\ Outcome(f, r, s) \in Status
         /\ Outcome(f, r, Outcome(f, r, s)) = Outcome(f, r, s)
BY DEF Outcome, Request, Status

(* What the directories hold.                                              *)
LEMMA DirsTyped ==
  ASSUME WatcherInv, NEW f \in F
  PROVE  /\ dirs[f].messages \in Seq(Texts) /\ dirs[f].tasks \in Seq(Request)
         /\ dirs[f] = [messages |-> dirs[f].messages, tasks |-> dirs[f].tasks]
BY DEF WatcherInv, TypeOK

(* A listing has a length.                                                 *)
LEMMA ListingFits ==
  ASSUME WatcherInv, NEW f \in F
  PROVE  /\ stage \in {"messages", "tasks"}
         /\ Len(dirs[f].messages) \in Nat /\ Len(dirs[f].tasks) \in Nat
         /\ Len(dirs[f][stage]) \in Nat
<1> DEFINE p == dirs[f].messages
           t == dirs[f].tasks
<1>1. p \in Seq(Texts) /\ t \in Seq(Request)
  BY DirsTyped
<1>2. stage \in {"messages", "tasks"}
  BY DEF WatcherInv, TypeOK
<1>3. dirs[f][stage] = p \/ dirs[f][stage] = t
  BY <1>2
<1> HIDE DEF p, t
<1>4. Len(p) \in Nat /\ Len(t) \in Nat
  BY <1>1
<1>5. QED
  BY <1>2, <1>3, <1>4 DEF p, t

(* One of the two directories of a folder, written anew.                   *)
LEMMA OneDirChanges ==
  ASSUME NEW e \in [messages : Seq(Texts), tasks : Seq(Request)], NEW x
  PROVE  /\ [e EXCEPT !.messages = x] = [messages |-> x, tasks |-> e.tasks]
         /\ [e EXCEPT !.tasks = x] = [messages |-> e.messages, tasks |-> x]
OBVIOUS

(* The file that the watcher works on.                                     *)
LEMMA AtAFile ==
  ASSUME WatcherInv, pc \in {"file", "sending", "remove"}, left > 0
  PROVE  /\ Folder \in F /\ dirs[Folder][stage] # <<>>
         /\ stage = "messages" =>
              /\ File \in Texts /\ File \in ToSet(dirs[Folder].messages)
              /\ AuthorOf[File] = Folder /\ File \in written
         /\ stage = "tasks" => File \in Request
<1>1. Folder \in F
  BY DEF WatcherInv, TypeOK, PlaceOK, Folder
<1>2. /\ dirs[Folder].messages \in Seq(Texts) /\ dirs[Folder].tasks \in Seq(Request)
      /\ stage \in {"messages", "tasks"} /\ left \in Nat
      /\ left <= Len(dirs[Folder][stage])
  BY <1>1, DirsTyped DEF WatcherInv, TypeOK, PlaceOK
<1>3. dirs[Folder][stage] # <<>>
  BY <1>2
<1>4. CASE stage = "messages"
  <2>1. /\ dirs[Folder].messages # <<>> /\ File = Head(dirs[Folder].messages)
        /\ IsInjective(dirs[Folder].messages)
    BY <1>1, <1>3, <1>4 DEF File, WatcherInv, FilesOK
  <2>2. File \in Texts /\ File \in ToSet(dirs[Folder].messages)
    BY <1>2, <2>1, GetKeeps
  <2>3. QED
    BY <1>1, <1>3, <1>4, <2>2 DEF WatcherInv, FilesOK
<1>5. CASE stage = "tasks"
  BY <1>1, <1>2, <1>3, <1>5 DEF File
<1>6. QED
  BY <1>1, <1>2, <1>3, <1>4, <1>5

(* While neither sending nor crashing, a text is at most taken off the     *)
(* list of those that can still be sent.                                   *)
LEMMA SentStays ==
  ASSUME WatcherInv, UNCHANGED <<sent, torn>>,
         \A m \in Texts : ToBeSent(m)' => ToBeSent(m)
  PROVE  SentOK'
BY DEF WatcherInv, TypeOK, SentOK

-----------------------------------------------------------------------------
(* A text is written behind the others; the file at work stays the first.  *)
LEMMA WriteMessageKeeps ==
  ASSUME WatcherInv, NEW m \in Texts, WriteMessage(m)
  PROVE  WatcherInv'
<1> DEFINE a == AuthorOf[m]
           q == dirs[a].messages
<1>1. /\ a \in F /\ q \in Seq(Texts) /\ IsInjective(q) /\ m \notin ToSet(q)
  <2>1. a \in F
    BY IpcWatcherAssumption
  <2>2. QED
    BY <2>1, DirsTyped DEF WatcherInv, FilesOK, WriteMessage
<1>2. /\ Append(q, m) \in Seq(Texts) /\ IsInjective(Append(q, m))
      /\ ToSet(Append(q, m)) = ToSet(q) \cup {m}
      /\ Len(Append(q, m)) = Len(q) + 1 /\ q # <<>> => Head(Append(q, m)) = Head(q)
  BY <1>1, PutKeeps
<1>3. /\ dirs' = [dirs EXCEPT ![a] = [messages |-> Append(q, m), tasks |-> dirs[a].tasks]]
      /\ dirs'[a] = [messages |-> Append(q, m), tasks |-> dirs[a].tasks]
      /\ \A f \in F \ {a} : dirs'[f] = dirs[f]
      /\ UNCHANGED <<row, pc, todo, stage, left, fate, stops, requests, sent, torn>>
      /\ written' = written \cup {m}
  <2>1. dirs \in [F -> [messages : Seq(Texts), tasks : Seq(Request)]]
    BY DEF WatcherInv, TypeOK
  <2>2. dirs' = [dirs EXCEPT ![a] = [dirs[a] EXCEPT !.messages = Append(q, m)]]
    BY DEF WriteMessage
  <2>3. [dirs[a] EXCEPT !.messages = Append(q, m)] = [messages |-> Append(q, m), tasks |-> dirs[a].tasks]
    <3>1. dirs[a] \in [messages : Seq(Texts), tasks : Seq(Request)]
      BY <1>1, <2>1
    <3>2. QED
      BY <3>1, OneDirChanges
  <2>4. /\ UNCHANGED <<row, pc, todo, stage, left, fate, stops, requests, sent, torn>>
        /\ written' = written \cup {m}
    BY DEF WriteMessage, watcher
  <2>5. QED
    BY <1>1, <2>1, <2>2, <2>3, <2>4
<1> HIDE DEF a, q
<1>4. TypeOK'
  <2>1. dirs' \in [F -> [messages : Seq(Texts), tasks : Seq(Request)]]
    <3>1. dirs[a].tasks \in Seq(Request)
      BY <1>1, DirsTyped
    <3>2. [messages |-> Append(q, m), tasks |-> dirs[a].tasks]
            \in [messages : Seq(Texts), tasks : Seq(Request)]
      BY <1>2, <3>1
    <3>3. dirs \in [F -> [messages : Seq(Texts), tasks : Seq(Request)]]
      BY DEF WatcherInv, TypeOK
    <3>4. QED
      BY <1>1, <1>3, <3>2, <3>3
  <2>2. QED
    BY <1>3, <2>1 DEF WatcherInv, TypeOK, requests
<1>5. PlaceOK'
  <2>1. pc \in {"file", "sending", "remove"} => Folder \in F
    BY DEF WatcherInv, TypeOK, PlaceOK, Folder
  <2>2. ASSUME NEW f \in F
        PROVE  /\ Len(dirs[f][stage]) \in Nat /\ Len(dirs'[f][stage]) \in Nat
               /\ Len(dirs[f][stage]) <= Len(dirs'[f][stage])
    <3>1. Len(dirs[f][stage]) \in Nat /\ stage \in {"messages", "tasks"}
      BY ListingFits
    <3>2. CASE f = a
      <4>1. /\ dirs'[f].messages = Append(q, m) /\ dirs'[f].tasks = dirs[f].tasks
            /\ dirs[f].messages = q
        BY <1>3, <3>2 DEF q
      <4>2. Len(q) \in Nat /\ Len(dirs[f].tasks) \in Nat
        BY <4>1, ListingFits
      <4>3. QED
        BY <1>2, <3>1, <4>1, <4>2
    <3>3. CASE f # a
      BY <1>3, <3>1, <3>3
    <3>4. QED
      BY <3>2, <3>3
  <2>3. left \in Nat
    BY DEF WatcherInv, TypeOK
  <2>4. UNCHANGED <<Folder, todo, pc, stage, left>>
    BY <1>3 DEF Folder
  <2>5. QED
    BY <2>1, <2>2, <2>3, <2>4 DEF WatcherInv, PlaceOK
<1>6. FilesOK'
  BY <1>1, <1>2, <1>3 DEF WatcherInv, FilesOK, a, q
<1>7. SentOK'
  <2>1. \A f \in F : ToSet(dirs'[f].messages) \subseteq ToSet(dirs[f].messages) \cup {m}
    BY <1>1, <1>2, <1>3 DEF q
  <2>2. ASSUME NEW n \in Texts, AtWork(n) PROVE AtWork(n)'
    <3>1. /\ Folder \in F /\ stage = "messages" /\ dirs[Folder].messages # <<>>
          /\ n = Head(dirs[Folder].messages)
      BY <2>2, AtAFile DEF AtWork, File, WatcherInv, PlaceOK
    <3>2. Head(dirs'[Folder].messages) = Head(dirs[Folder].messages)
      BY <1>2, <1>3, <3>1 DEF q
    <3>3. QED
      BY <1>3, <2>2, <3>1, <3>2 DEF AtWork, File, Folder
  <2>3. \A n \in Texts : ToBeSent(n)' => ToBeSent(n)
    BY <1>3, <2>1, <2>2, IpcWatcherAssumption DEF ToBeSent, WriteMessage
  <2>4. QED
    BY <1>3, <2>3, SentStays
<1>8. QED
  BY <1>4, <1>5, <1>6, <1>7 DEF WatcherInv

(* A request is written behind the others; the texts stay as they are.     *)
LEMMA WriteTaskKeeps ==
  ASSUME WatcherInv, NEW a \in F, NEW r \in Request, WriteTask(a, r)
  PROVE  WatcherInv'
<1> DEFINE q == dirs[a].tasks
<1>1. /\ q \in Seq(Request) /\ Append(q, r) \in Seq(Request)
      /\ Len(Append(q, r)) = Len(q) + 1 /\ Len(q) \in Nat
  <2>1. dirs[a].tasks \in Seq(Request)
    BY DirsTyped
  <2>2. QED
    BY <2>1
<1>2. /\ dirs' = [dirs EXCEPT ![a] = [messages |-> dirs[a].messages, tasks |-> Append(q, r)]]
      /\ dirs'[a] = [messages |-> dirs[a].messages, tasks |-> Append(q, r)]
      /\ \A f \in F \ {a} : dirs'[f] = dirs[f]
      /\ UNCHANGED <<row, pc, todo, stage, left, fate, stops, written, sent, torn>>
  <2>1. dirs \in [F -> [messages : Seq(Texts), tasks : Seq(Request)]]
    BY DEF WatcherInv, TypeOK
  <2>2. dirs' = [dirs EXCEPT ![a] = [dirs[a] EXCEPT !.tasks = Append(q, r)]]
    BY DEF WriteTask
  <2>3. [dirs[a] EXCEPT !.tasks = Append(q, r)] = [messages |-> dirs[a].messages, tasks |-> Append(q, r)]
    <3>1. dirs[a] \in [messages : Seq(Texts), tasks : Seq(Request)]
      BY <2>1
    <3>2. QED
      BY <3>1, OneDirChanges
  <2>4. UNCHANGED <<row, pc, todo, stage, left, fate, stops, written, sent, torn>>
    BY DEF WriteTask, watcher
  <2>5. QED
    BY <2>1, <2>2, <2>3, <2>4
<1> HIDE DEF q
<1>3. \A f \in F : dirs'[f].messages = dirs[f].messages
  BY <1>2
<1>4. TypeOK'
  <2>1. /\ writes' \in 0 .. MaxWrites
        /\ askers' \in [TaskIds -> SUBSET F]
    <3>1. r.task \in TaskIds /\ writes \in 0 .. MaxWrites /\ askers \in [TaskIds -> SUBSET F]
      BY DEF Request, WatcherInv, TypeOK
    <3>2. QED
      BY <3>1, IpcWatcherAssumption DEF WriteTask
  <2>2. asked' \in [F -> [TaskIds -> Status]]
    <3>1. r.task \in TaskIds /\ asked \in [F -> [TaskIds -> Status]]
      BY DEF Request, WatcherInv, TypeOK
    <3>2. Outcome(a, r, asked[a][r.task]) \in Status
      BY <3>1, OutcomeTyped
    <3>3. QED
      BY <3>1, <3>2 DEF WriteTask
  <2>3. dirs' \in [F -> [messages : Seq(Texts), tasks : Seq(Request)]]
    BY <1>1, <1>2, DirsTyped DEF WatcherInv, TypeOK
  <2>4. QED
    BY <1>2, <2>1, <2>2, <2>3 DEF WatcherInv, TypeOK
<1>5. PlaceOK'
  <2>1. pc \in {"file", "sending", "remove"} => Folder \in F
    BY DEF WatcherInv, TypeOK, PlaceOK, Folder
  <2>2. \A f \in F :
          /\ Len(dirs[f][stage]) \in Nat /\ Len(dirs'[f][stage]) \in Nat
          /\ Len(dirs[f][stage]) <= Len(dirs'[f][stage])
    <3>1. /\ \A f \in F : Len(dirs[f].messages) \in Nat /\ Len(dirs[f].tasks) \in Nat
          /\ q = dirs[a].tasks /\ stage \in {"messages", "tasks"}
      BY ListingFits DEF q
    <3>2. QED
      BY <1>1, <1>2, <3>1
  <2>3. left \in Nat
    BY DEF WatcherInv, TypeOK
  <2>4. UNCHANGED <<Folder, todo, pc, stage, left>>
    BY <1>2 DEF Folder
  <2>5. QED
    BY <2>1, <2>2, <2>3, <2>4 DEF WatcherInv, PlaceOK
<1>6. FilesOK'
  BY <1>2, <1>3 DEF WatcherInv, FilesOK
<1>7. SentOK'
  <2>1. ASSUME NEW n \in Texts, AtWork(n) PROVE AtWork(n)'
    <3>1. Folder \in F /\ stage = "messages"
      BY <2>1, AtAFile DEF AtWork, WatcherInv, PlaceOK
    <3>2. QED
      BY <1>2, <1>3, <2>1, <3>1 DEF AtWork, File, Folder
  <2>2. \A n \in Texts : ToBeSent(n)' => ToBeSent(n)
    BY <1>2, <1>3, <2>1, IpcWatcherAssumption DEF ToBeSent
  <2>3. QED
    BY <1>2, <2>2, SentStays
<1>8. QED
  BY <1>4, <1>5, <1>6, <1>7 DEF WatcherInv

(* Steps that touch neither files nor texts, outside a file.               *)
LEMMA MoveKeeps ==
  ASSUME WatcherInv, UNCHANGED <<dirs, written, sent, torn>>,
         pc \notin {"sending", "remove"}
  PROVE  FilesOK' /\ SentOK'
<1>1. \A m \in Texts : ToBeSent(m)' => ToBeSent(m)
  BY DEF ToBeSent, AtWork
<1>2. QED
  BY <1>1, SentStays DEF WatcherInv, FilesOK

(* A round begins.                                                         *)
LEMMA BeginRoundKeeps ==
  ASSUME WatcherInv, BeginRound
  PROVE  WatcherInv'
<1>1. TypeOK'
  BY IpcWatcherAssumption DEF WatcherInv, TypeOK, BeginRound, history, requests
<1>2. PlaceOK'
  BY IpcWatcherAssumption DEF PlaceOK, BeginRound
<1>3. QED
  BY <1>1, <1>2, MoveKeeps DEF WatcherInv, BeginRound, history, requests

(* A directory is listed: what is left is what is there.                   *)
LEMMA ListKeeps ==
  ASSUME WatcherInv, List
  PROVE  WatcherInv'
<1>1. Folder \in F /\ stage \in {"messages", "tasks"} /\ todo # <<>>
  BY DEF WatcherInv, TypeOK, PlaceOK, Folder, List
<1>2. Len(dirs[Folder][stage]) \in Nat
  BY <1>1, DirsTyped
<1>3. TypeOK'
  BY <1>2 DEF WatcherInv, TypeOK, List, history, requests
<1>4. PlaceOK'
  BY <1>1, <1>2 DEF PlaceOK, Folder, List
<1>5. QED
  BY <1>3, <1>4, MoveKeeps DEF WatcherInv, List, history, requests

(* The listing is done, and the next directory's turn comes.               *)
LEMMA EndOfListingKeeps ==
  ASSUME WatcherInv, EndOfListing
  PROVE  WatcherInv'
<1>1. todo \in Seq(F) /\ todo # <<>> /\ Tail(todo) \in Seq(F)
  BY DEF WatcherInv, TypeOK, PlaceOK, EndOfListing
<1>2. /\ todo' \in Seq(F) /\ stage' \in {"messages", "tasks"} /\ pc' \in {"list", "sleep"}
      /\ pc' = "list" => todo' # <<>>
      /\ UNCHANGED <<dirs, row, left, fate, stops, requests, written, sent, torn>>
      /\ pc = "file"
  BY <1>1 DEF EndOfListing, history, requests
<1>3. TypeOK'
  BY <1>2 DEF WatcherInv, TypeOK, requests
<1>4. PlaceOK'
  BY <1>2 DEF PlaceOK
<1>5. QED
  BY <1>2, <1>3, <1>4, MoveKeeps DEF WatcherInv

-----------------------------------------------------------------------------
(* The text is sent, and cannot be sent again while its file is at work.   *)
LEMMA SendTextKeeps ==
  ASSUME WatcherInv, SendText
  PROVE  WatcherInv'
<1>1. /\ Folder \in F /\ File \in Texts /\ File \in ToSet(dirs[Folder].messages)
      /\ AuthorOf[File] = Folder /\ File \in written
  BY AtAFile DEF SendText
<1>2. /\ pc = "file" /\ pc' = "sending" /\ stage = "messages" /\ left > 0
      /\ sent' = [sent EXCEPT ![File] = @ + 1]
      /\ UNCHANGED <<dirs, row, todo, stage, left, fate, stops, requests, written, torn>>
  BY DEF SendText
<1>3. TypeOK'
  <2>1. sent' \in [Texts -> Nat]
    <3>1. sent \in [Texts -> Nat] /\ sent[File] + 1 \in Nat
      BY <1>1 DEF WatcherInv, TypeOK
    <3>2. QED
      BY <1>2, <3>1
  <2>2. QED
    BY <1>2, <2>1 DEF WatcherInv, TypeOK, requests
<1>4. PlaceOK' /\ FilesOK'
  BY <1>2 DEF WatcherInv, PlaceOK, FilesOK, Folder
<1>5. SentOK'
  <2>1. \A m \in Texts : sent[m] \in Nat /\ torn[m] \in Nat
    BY DEF WatcherInv, TypeOK
  <2>2. sent[File] <= torn[File] /\ sent'[File] = sent[File] + 1
    <3>1. ToBeSent(File)
      BY <1>1, <1>2 DEF ToBeSent, AtWork
    <3>2. sent[File] <= 0 + torn[File]
      BY <1>1, <3>1 DEF WatcherInv, SentOK
    <3>3. sent'[File] = sent[File] + 1
      BY <1>1, <1>2 DEF WatcherInv, TypeOK
    <3>4. QED
      BY <1>1, <2>1, <3>2, <3>3
  <2>3. \A m \in Texts : m = File => ~ToBeSent(m)'
    BY <1>1, <1>2 DEF ToBeSent, AtWork, File, Folder
  <2>4. ASSUME NEW m \in Texts, m # File
        PROVE  sent'[m] = sent[m] /\ (ToBeSent(m) => ToBeSent(m)')
    BY <1>2, <2>4 DEF ToBeSent, AtWork, File, Folder, WatcherInv, TypeOK
  <2>5. \A m \in Texts : sent'[m] \in Nat /\ torn'[m] = torn[m]
    BY <1>2, <1>3 DEF TypeOK
  <2>6. ASSUME NEW m \in Texts
        PROVE  sent'[m] <= (IF ToBeSent(m)' THEN 0 ELSE 1) + torn'[m]
    <3>1. CASE m = File
      BY <2>1, <2>2, <2>3, <2>5, <3>1
    <3>2. CASE m # File /\ ToBeSent(m)
      BY <2>1, <2>4, <2>5, <3>2 DEF WatcherInv, SentOK
    <3>3. CASE m # File /\ ~ToBeSent(m)
      <4>1. ~ToBeSent(m)'
        BY <1>2, <3>3 DEF ToBeSent, AtWork
      <4>2. QED
        BY <2>1, <2>4, <2>5, <3>3, <4>1 DEF WatcherInv, SentOK
    <3>4. QED
      BY <3>1, <3>2, <3>3
  <2>7. QED
    BY <2>6 DEF SentOK
<1>6. QED
  BY <1>3, <1>4, <1>5 DEF WatcherInv

(* The file at work stays the one it is, or is taken to be removed.        *)
LEMMA FileStays ==
  ASSUME WatcherInv, UNCHANGED <<dirs, todo, stage, left, written, sent, torn>>,
         pc \in {"file", "sending"}, left > 0, pc' = "remove"
  PROVE  PlaceOK' /\ FilesOK' /\ SentOK'
<1>1. PlaceOK' /\ FilesOK'
  BY DEF WatcherInv, PlaceOK, FilesOK, Folder
<1>2. \A m \in Texts : ToBeSent(m)' => ToBeSent(m)
  BY DEF ToBeSent, AtWork, File, Folder
<1>3. QED
  BY <1>1, <1>2, SentStays

(* The channel has taken the text: the file is to be removed.              *)
LEMMA AnsweredKeeps ==
  ASSUME WatcherInv, Answered
  PROVE  WatcherInv'
<1>1. TypeOK'
  BY DEF WatcherInv, TypeOK, Answered, history, requests
<1>2. left > 0
  BY DEF WatcherInv, PlaceOK, Answered
<1>3. QED
  BY <1>1, <1>2, FileStays DEF WatcherInv, Answered, history, requests

(* A text that may not be sent is left at that.                            *)
LEMMA SkipTextKeeps ==
  ASSUME WatcherInv, SkipText
  PROVE  WatcherInv'
<1>1. TypeOK'
  BY DEF WatcherInv, TypeOK, SkipText, history, requests
<1>2. QED
  BY <1>1, FileStays DEF WatcherInv, SkipText, history, requests

(* A malformed file, which the watcher dies of.                            *)
LEMMA TakeGarbledKeeps ==
  ASSUME WatcherInv, TakeGarbled
  PROVE  WatcherInv'
<1>1. TypeOK'
  BY DEF WatcherInv, TypeOK, TakeGarbled, history, requests
<1>2. QED
  BY <1>1, FileStays DEF WatcherInv, TakeGarbled, history, requests

(* A request takes effect, or is refused.                                  *)
LEMMA TakeTaskKeeps ==
  ASSUME WatcherInv, TakeTask
  PROVE  WatcherInv'
<1>1. File \in Request
  BY AtAFile DEF TakeTask
<1>2. File.task \in TaskIds /\ row[File.task] \in Status
  BY <1>1 DEF Request, WatcherInv, TypeOK
<1>3. Outcome(Folder, File, row[File.task]) \in Status
  BY <1>1, <1>2, OutcomeTyped
<1>4. row' \in [TaskIds -> Status]
  BY <1>2, <1>3 DEF TakeTask, WatcherInv, TypeOK
<1>5. TypeOK'
  BY <1>4 DEF WatcherInv, TypeOK, TakeTask, history, requests
<1>6. QED
  BY <1>5, FileStays DEF WatcherInv, TakeTask, history, requests

(* The file at work is removed: the next one is another text.              *)
LEMMA UnlinkKeeps ==
  ASSUME WatcherInv, Unlink
  PROVE  WatcherInv'
<1> DEFINE a == Folder
           e == dirs[a]
           q == dirs[a][stage]
<1>1. /\ a \in F /\ q # <<>> /\ left \in Nat /\ left > 0 /\ left <= Len(q)
      /\ stage \in {"messages", "tasks"}
      /\ dirs \in [F -> [messages : Seq(Texts), tasks : Seq(Request)]]
  BY AtAFile DEF WatcherInv, TypeOK, PlaceOK, Unlink
<1>2. e \in [messages : Seq(Texts), tasks : Seq(Request)]
  BY <1>1
<1>3. /\ dirs' = [dirs EXCEPT ![a] = [e EXCEPT ![stage] = Tail(q)]]
      /\ left' = left - 1 /\ pc' \in {"file", "dead", "down"} /\ fate' = "run" /\ pc = "remove"
      /\ UNCHANGED <<row, todo, stage, stops, requests, written, sent, torn>>
  BY DEF Unlink, history, requests, WatcherInv, TypeOK
<1>4. /\ stage = "messages" => q \in Seq(Texts) /\ IsInjective(q) /\ File = Head(q)
      /\ stage = "tasks" => q \in Seq(Request)
  BY <1>1, <1>2 DEF WatcherInv, FilesOK, File
<1>5. /\ stage = "messages" => Tail(q) \in Seq(Texts) /\ Len(Tail(q)) = Len(q) - 1
      /\ stage = "tasks" => Tail(q) \in Seq(Request) /\ Len(Tail(q)) = Len(q) - 1
      /\ Len(q) \in Nat
  BY <1>1, <1>4
<1>6. CASE stage = "messages"
  <2>1. dirs'[a] = [messages |-> Tail(q), tasks |-> e.tasks]
    BY <1>1, <1>2, <1>3, <1>6, OneDirChanges
  <2>2. \A f \in F \ {a} : dirs'[f] = dirs[f]
    BY <1>1, <1>3
  <2>3. /\ IsInjective(Tail(q)) /\ ToSet(Tail(q)) = ToSet(q) \ {File}
    BY <1>1, <1>4, <1>6, GetKeeps
  <2>4. TypeOK'
    <3>1. dirs' \in [F -> [messages : Seq(Texts), tasks : Seq(Request)]]
      BY <1>1, <1>2, <1>3, <1>5, <1>6, <2>1
    <3>2. QED
      BY <1>1, <1>3, <3>1 DEF WatcherInv, TypeOK, requests
  <2>5. PlaceOK'
    BY <1>1, <1>3, <1>5, <1>6, <2>1 DEF WatcherInv, TypeOK, PlaceOK, Folder
  <2>6. FilesOK'
    <3>1. q = dirs[a].messages /\ dirs'[a].messages = Tail(q)
      BY <1>6, <2>1
    <3>2. \A m \in ToSet(Tail(q)) : AuthorOf[m] = a /\ m \in written
      BY <1>1, <2>3, <3>1 DEF WatcherInv, FilesOK
    <3>3. QED
      BY <1>3, <2>2, <2>3, <3>1, <3>2 DEF WatcherInv, FilesOK
  <2>7. SentOK'
    <3>1. \A m \in Texts : AtWork(m) <=> m = File
      BY <1>3, <1>6 DEF AtWork
    <3>2. \A f \in F : ToSet(dirs'[f].messages) \subseteq ToSet(dirs[f].messages)
      <4>1. q = dirs[a].messages /\ dirs'[a].messages = Tail(q)
        BY <1>6, <2>1
      <4>2. QED
        BY <2>2, <2>3, <4>1
    <3>3. File \in written /\ AuthorOf[File] = a
      BY <1>1, <1>6, AtAFile DEF Unlink
    <3>4. File \notin ToSet(dirs'[a].messages)
      BY <2>1, <2>3
    <3>5. \A m \in Texts : ToBeSent(m)' => ToBeSent(m)
      BY <1>3, <3>1, <3>2, <3>3, <3>4, IpcWatcherAssumption DEF ToBeSent
    <3>6. QED
      BY <1>3, <3>5, SentStays
  <2>8. QED
    BY <2>4, <2>5, <2>6, <2>7 DEF WatcherInv
<1>7. CASE stage = "tasks"
  <2>1. dirs'[a] = [messages |-> e.messages, tasks |-> Tail(q)]
    BY <1>1, <1>2, <1>3, <1>7, OneDirChanges
  <2>2. \A f \in F \ {a} : dirs'[f] = dirs[f]
    BY <1>1, <1>3
  <2>3. \A f \in F : dirs'[f].messages = dirs[f].messages
    BY <2>1, <2>2
  <2>4. TypeOK'
    <3>1. dirs' \in [F -> [messages : Seq(Texts), tasks : Seq(Request)]]
      BY <1>1, <1>2, <1>3, <1>5, <1>7, <2>1
    <3>2. QED
      BY <1>1, <1>3, <3>1 DEF WatcherInv, TypeOK, requests
  <2>5. PlaceOK'
    BY <1>1, <1>3, <1>5, <1>7, <2>1 DEF WatcherInv, TypeOK, PlaceOK, Folder
  <2>6. FilesOK'
    BY <1>3, <2>3 DEF WatcherInv, FilesOK
  <2>7. SentOK'
    <3>1. \A m \in Texts : ToBeSent(m)' => ToBeSent(m)
      BY <1>3, <1>7, <2>3, IpcWatcherAssumption DEF ToBeSent, AtWork
    <3>2. QED
      BY <1>3, <3>1, SentStays
  <2>8. QED
    BY <2>4, <2>5, <2>6, <2>7 DEF WatcherInv
<1>8. QED
  BY <1>1, <1>6, <1>7

-----------------------------------------------------------------------------
(* A crash may leave the file of a text that was sent.                     *)
LEMMA CrashKeeps ==
  ASSUME WatcherInv, Crash
  PROVE  WatcherInv'
<1>1. /\ \A m \in Texts : sent[m] \in Nat /\ torn[m] \in Nat
      /\ \A m \in Texts : torn'[m] = IF AtWork(m) THEN torn[m] + 1 ELSE torn[m]
      /\ torn' \in [Texts -> Nat]
  <2>1. torn \in [Texts -> Nat] /\ sent \in [Texts -> Nat]
    BY DEF WatcherInv, TypeOK
  <2>2. CASE pc \in {"sending", "remove"} /\ stage = "messages"
    <3>1. File \in Texts /\ torn' = [torn EXCEPT ![File] = @ + 1]
      BY <2>2, AtAFile DEF Crash, WatcherInv, PlaceOK
    <3>2. QED
      BY <2>1, <2>2, <3>1 DEF AtWork
  <2>3. CASE ~(pc \in {"sending", "remove"} /\ stage = "messages")
    BY <2>1, <2>3 DEF Crash, AtWork
  <2>4. QED
    BY <2>2, <2>3
<1>2. /\ UNCHANGED <<dirs, row, requests, written, sent>>
      /\ pc' = "down" /\ todo' = <<>> /\ stage' = "messages" /\ left' = 0 /\ fate' = "run"
      /\ stops' \in 0 .. MaxStops
  BY IpcWatcherAssumption DEF Crash, StopSome, WatcherInv, TypeOK
<1>3. TypeOK'
  <2>1. todo' \in Seq(F) /\ left' \in Nat
    BY <1>2
  <2>2. QED
    BY <1>1, <1>2, <2>1 DEF WatcherInv, TypeOK, requests
<1>4. PlaceOK' /\ FilesOK'
  BY <1>2 DEF WatcherInv, PlaceOK, FilesOK
<1>5. SentOK'
  <2>1. ASSUME NEW m \in Texts
        PROVE  sent[m] <= (IF ToBeSent(m)' THEN 0 ELSE 1) + torn'[m]
    <3>1. sent[m] \in Nat /\ torn[m] \in Nat
      BY <1>1
    <3>2. CASE AtWork(m)
      BY <1>1, <3>1, <3>2 DEF WatcherInv, SentOK
    <3>3. CASE ~AtWork(m)
      <4>1. ToBeSent(m)' => ToBeSent(m)
        BY <1>2, <3>3 DEF ToBeSent
      <4>2. torn'[m] = torn[m]
        BY <1>1, <3>3
      <4>3. QED
        BY <3>1, <4>1, <4>2 DEF WatcherInv, SentOK
    <3>4. QED
      BY <3>2, <3>3
  <2>2. QED
    BY <1>2, <2>1 DEF SentOK
<1>6. QED
  BY <1>3, <1>4, <1>5 DEF WatcherInv

(* An orderly shutdown lets the file at work be removed.                   *)
LEMMA ShutdownKeeps ==
  ASSUME WatcherInv, Shutdown
  PROVE  WatcherInv'
<1>1. stops' \in 0 .. MaxStops
  BY IpcWatcherAssumption DEF Shutdown, StopSome, WatcherInv, TypeOK
<1>2. TypeOK'
  BY <1>1 DEF WatcherInv, TypeOK, Shutdown, history, requests
<1>3. CASE pc \in {"sleep", "dead"} /\ pc' = "down"
  BY <1>2, <1>3, MoveKeeps DEF WatcherInv, PlaceOK, Shutdown, history, requests
<1>4. CASE pc = "sending" /\ pc' = "remove"
  <2>1. left > 0
    BY <1>4 DEF WatcherInv, PlaceOK
  <2>2. QED
    BY <1>2, <1>4, <2>1, FileStays DEF WatcherInv, Shutdown, history, requests
<1>5. QED
  BY <1>3, <1>4 DEF Shutdown

(* A restart.                                                              *)
LEMMA StartKeeps ==
  ASSUME WatcherInv, Start
  PROVE  WatcherInv'
<1>1. TypeOK' /\ PlaceOK'
  BY DEF WatcherInv, TypeOK, PlaceOK, Start, history, requests
<1>2. QED
  BY <1>1, MoveKeeps DEF WatcherInv, Start, history, requests

-----------------------------------------------------------------------------
(* The invariant holds at first.                                           *)
LEMMA InitHolds ==
  Init => WatcherInv
<1> SUFFICES ASSUME Init PROVE WatcherInv
  OBVIOUS
<1>1. TypeOK
  <2>1. 0 \in 0 .. MaxStops /\ 0 \in 0 .. MaxWrites /\ \A S : <<>> \in Seq(S)
    BY IpcWatcherAssumption
  <2>2. dirs \in [F -> [messages : Seq(Texts), tasks : Seq(Request)]]
    BY <2>1 DEF Init
  <2>3. /\ askers \in [TaskIds -> SUBSET F] /\ asked \in [F -> [TaskIds -> Status]]
        /\ row \in [TaskIds -> Status]
    BY DEF Init, Status
  <2>4. QED
    BY <2>1, <2>2, <2>3 DEF Init, TypeOK
<1>2. PlaceOK /\ FilesOK
  BY EmptyQueue DEF Init, PlaceOK, FilesOK
<1>3. SentOK
  BY DEF Init, SentOK
<1>4. QED
  BY <1>1, <1>2, <1>3 DEF WatcherInv

(* The invariant is inductive.                                             *)
LEMMA NextKeeps ==
  WatcherInv /\ [Next]_vars => WatcherInv'
<1> SUFFICES ASSUME WatcherInv, [Next]_vars PROVE WatcherInv'
  OBVIOUS
<1>1. CASE \E m \in Texts : WriteMessage(m)
  BY <1>1, WriteMessageKeeps
<1>2. CASE \E f \in F, r \in Request : WriteTask(f, r)
  BY <1>2, WriteTaskKeeps
<1>3. CASE Watch
  BY <1>3, BeginRoundKeeps, ListKeeps, EndOfListingKeeps, SendTextKeeps, AnsweredKeeps,
     SkipTextKeeps, TakeGarbledKeeps, TakeTaskKeeps, UnlinkKeeps DEF Watch
<1>4. CASE Crash \/ Shutdown \/ Start
  BY <1>4, CrashKeeps, ShutdownKeeps, StartKeeps
<1>5. CASE UNCHANGED vars
  BY <1>5
    DEF vars, watcher, requests, history, WatcherInv, TypeOK, PlaceOK, FilesOK, SentOK, ToBeSent, AtWork,
        File, Folder
<1>6. QED
  BY <1>1, <1>2, <1>3, <1>4, <1>5 DEF Next

-----------------------------------------------------------------------------
(* The requests about tasks.                                               *)

(* What a request makes of the status of task t.                           *)
Step(f, r, t, s) == IF r.task = t THEN Outcome(f, r, s) ELSE s

(* The requests q of f, carried out one after the other, lead from one     *)
(* status of t to another: h has the statuses on the way.                  *)
Leads(q, f, t, from, to) ==
  \E h \in [Nat -> Status] :
    /\ h[0] = from /\ h[Len(q)] = to
    /\ \A i \in 1 .. Len(q) : h[i] = Step(f, q[i], t, h[i - 1])

ChainsOK ==
  \A f \in F, t \in TaskIds :
    SoleAuthor(f, t) => Leads(dirs[f].tasks, f, t, row[t], asked[f][t])

(* Who has a file about a task has asked for something.                    *)
AskersOK ==
  \A f \in F : \A i \in 1 .. Len(dirs[f].tasks) : f \in askers[dirs[f].tasks[i].task]

(* The request that is to be removed has taken effect: it would change     *)
(* nothing, if a crash brought it back.                                    *)
DoneOK ==
  pc = "remove" /\ stage = "tasks" =>
    Outcome(Folder, File, row[File.task]) = row[File.task]

RequestsOK == ChainsOK /\ AskersOK /\ DoneOK

(* A step makes a status of a status.                                      *)
LEMMA StepTyped ==
  ASSUME NEW f, NEW r \in Request, NEW t, NEW s \in Status
  PROVE  /\ Step(f, r, t, s) \in Status
         /\ Step(f, r, t, Step(f, r, t, s)) = Step(f, r, t, s)
BY OutcomeTyped DEF Step

(* One more request.                                                       *)
LEMMA ChainGrows ==
  ASSUME NEW q \in Seq(Request), NEW r \in Request, NEW f, NEW t, NEW from, NEW to,
         Leads(q, f, t, from, to)
  PROVE  Leads(Append(q, r), f, t, from, Step(f, r, t, to))
<1> DEFINE n == Len(q)
<1>1. /\ n \in Nat /\ Len(Append(q, r)) = n + 1 /\ Append(q, r)[n + 1] = r
      /\ \A i \in 1 .. n : Append(q, r)[i] = q[i]
  OBVIOUS
<1>2. PICK h \in [Nat -> Status] :
        /\ h[0] = from /\ h[n] = to
        /\ \A i \in 1 .. n : h[i] = Step(f, q[i], t, h[i - 1])
  BY DEF Leads
<1> HIDE DEF n
<1>3. to \in Status /\ Step(f, r, t, to) \in Status
  BY <1>1, <1>2, StepTyped
<1> DEFINE k == [h EXCEPT ![n + 1] = Step(f, r, t, to)]
<1>4. /\ k \in [Nat -> Status] /\ k[n + 1] = Step(f, r, t, to)
      /\ \A i \in 0 .. n : k[i] = h[i]
  BY <1>1, <1>2, <1>3
<1> HIDE DEF k
<1>5. ASSUME NEW i \in 1 .. n + 1 PROVE k[i] = Step(f, Append(q, r)[i], t, k[i - 1])
  <2>1. CASE i = n + 1
    <3>1. i - 1 = n /\ n \in 0 .. n
      BY <1>1, <2>1
    <3>2. QED
      BY <1>1, <1>2, <1>4, <2>1, <3>1
  <2>2. CASE i # n + 1
    <3>1. i \in 1 .. n /\ i \in 0 .. n /\ i - 1 \in 0 .. n
      BY <1>1, <2>2
    <3>2. QED
      BY <1>1, <1>2, <1>4, <3>1
  <2>3. QED
    BY <2>1, <2>2
<1>6. k[0] = from
  <2>1. 0 \in 0 .. n
    BY <1>1
  <2>2. QED
    BY <1>2, <1>4, <2>1
<1>7. QED
  BY <1>1, <1>4, <1>5, <1>6 DEF Leads

(* The first request is carried out, and once more with the others.        *)
LEMMA ChainLoops ==
  ASSUME NEW q \in Seq(Request), q # <<>>, NEW f, NEW t, NEW from, NEW to,
         Leads(q, f, t, from, to)
  PROVE  Leads(q, f, t, Step(f, q[1], t, from), to)
<1> DEFINE n == Len(q)
<1>1. n \in Nat \ {0} /\ q[1] \in Request
  OBVIOUS
<1>2. PICK h \in [Nat -> Status] :
        /\ h[0] = from /\ h[n] = to
        /\ \A i \in 1 .. n : h[i] = Step(f, q[i], t, h[i - 1])
  BY DEF Leads
<1> HIDE DEF n
<1>3. h[1] = Step(f, q[1], t, from) /\ Step(f, q[1], t, h[1]) = h[1]
  <2>1. 1 \in 1 .. n /\ 1 - 1 = 0 /\ from \in Status
    BY <1>1, <1>2
  <2>2. h[1] = Step(f, q[1], t, h[1 - 1])
    BY <1>2, <2>1
  <2>3. QED
    BY <1>1, <1>2, <2>1, <2>2, StepTyped
<1> DEFINE k == [h EXCEPT ![0] = h[1]]
<1>4. k \in [Nat -> Status] /\ k[0] = h[1] /\ \A i \in 1 .. n : k[i] = h[i]
  BY <1>1, <1>2
<1> HIDE DEF k
<1>5. ASSUME NEW i \in 1 .. n PROVE k[i] = Step(f, q[i], t, k[i - 1])
  <2>1. CASE i = 1
    <3>1. i - 1 = 0 /\ k[1] = h[1]
      BY <1>4, <2>1
    <3>2. QED
      BY <1>3, <1>4, <2>1, <3>1
  <2>2. CASE i # 1
    <3>1. i - 1 \in 1 .. n
      BY <1>1, <2>2
    <3>2. QED
      BY <1>2, <1>4, <3>1
  <2>3. QED
    BY <2>1, <2>2
<1>6. k[n] = to
  <2>1. n \in 1 .. n
    BY <1>1
  <2>2. QED
    BY <1>2, <1>4, <2>1
<1>7. QED
  BY <1>3, <1>4, <1>5, <1>6 DEF Leads, n

(* A first request that changes nothing can go.                            *)
LEMMA ChainShrinks ==
  ASSUME NEW q \in Seq(Request), q # <<>>, NEW f, NEW t, NEW from, NEW to,
         Leads(q, f, t, from, to), Step(f, q[1], t, from) = from
  PROVE  Leads(Tail(q), f, t, from, to)
<1> DEFINE n == Len(q)
<1>1. /\ n \in Nat \ {0} /\ Len(Tail(q)) = n - 1
      /\ \A i \in 1 .. n - 1 : Tail(q)[i] = q[i + 1]
  OBVIOUS
<1>2. PICK h \in [Nat -> Status] :
        /\ h[0] = from /\ h[n] = to
        /\ \A i \in 1 .. n : h[i] = Step(f, q[i], t, h[i - 1])
  BY DEF Leads
<1> HIDE DEF n
<1>3. h[1] = from
  <2>1. 1 \in 1 .. n /\ 1 - 1 = 0
    BY <1>1
  <2>2. h[1] = Step(f, q[1], t, h[1 - 1])
    BY <1>2, <2>1
  <2>3. QED
    BY <1>2, <2>1, <2>2
<1> DEFINE k == [i \in Nat |-> h[i + 1]]
<1>4. k \in [Nat -> Status] /\ \A i \in Nat : k[i] = h[i + 1]
  BY <1>2
<1> HIDE DEF k
<1>5. ASSUME NEW i \in 1 .. n - 1 PROVE k[i] = Step(f, Tail(q)[i], t, k[i - 1])
  <2>1. i \in Nat /\ i - 1 \in Nat /\ i + 1 \in 1 .. n /\ (i + 1) - 1 = (i - 1) + 1
    BY <1>1
  <2>2. h[i + 1] = Step(f, q[i + 1], t, h[(i + 1) - 1])
    BY <1>2, <2>1
  <2>3. k[i] = h[i + 1] /\ k[i - 1] = h[(i - 1) + 1]
    BY <1>4, <2>1
  <2>4. QED
    BY <1>1, <2>1, <2>2, <2>3
<1>6. k[0] = from /\ k[n - 1] = to
  <2>1. n - 1 \in Nat /\ (n - 1) + 1 = n /\ 0 \in Nat /\ 0 + 1 = 1
    BY <1>1
  <2>2. k[0] = h[0 + 1] /\ k[n - 1] = h[(n - 1) + 1]
    BY <1>4, <2>1
  <2>3. QED
    BY <1>2, <1>3, <2>1, <2>2
<1>7. QED
  BY <1>1, <1>4, <1>5, <1>6 DEF Leads

(* The first request of a directory.                                       *)
LEMMA AtARequest ==
  ASSUME WatcherInv, pc \in {"file", "remove"}, left > 0, stage = "tasks"
  PROVE  /\ Folder \in F /\ File \in Request /\ File.task \in TaskIds
         /\ dirs[Folder].tasks \in Seq(Request) /\ Len(dirs[Folder].tasks) \in Nat \ {0}
         /\ File = dirs[Folder].tasks[1] /\ row[File.task] \in Status
<1>1. /\ Folder \in F /\ File \in Request /\ dirs[Folder].tasks # <<>>
      /\ File = Head(dirs[Folder].tasks)
  BY AtAFile DEF File
<1>2. dirs[Folder].tasks \in Seq(Request)
  BY <1>1, DirsTyped
<1>3. File.task \in TaskIds
  BY <1>1 DEF Request
<1>4. QED
  BY <1>1, <1>2, <1>3 DEF WatcherInv, TypeOK

(* Nothing but the watcher's place changes, and no request is being taken. *)
LEMMA RequestsStay ==
  ASSUME WatcherInv, RequestsOK, UNCHANGED <<row, askers, asked>>,
         \A f \in F : dirs'[f].tasks = dirs[f].tasks,
         pc' = "remove" /\ stage' = "tasks" =>
           pc = "remove" /\ stage = "tasks" /\ todo' = todo
  PROVE  RequestsOK'
<1>1. ChainsOK' /\ AskersOK'
  BY DEF RequestsOK, ChainsOK, SoleAuthor, AskersOK
<1>2. DoneOK'
  <2>1. SUFFICES ASSUME pc' = "remove", stage' = "tasks" PROVE DoneOK'
    BY DEF DoneOK
  <2>2. pc = "remove" /\ stage = "tasks" /\ Folder' = Folder /\ Folder \in F
    BY <2>1 DEF Folder, WatcherInv, TypeOK, PlaceOK
  <2>3. File' = File
    BY <2>1, <2>2 DEF File
  <2>4. QED
    BY <2>2, <2>3 DEF DoneOK, RequestsOK
<1>3. QED
  BY <1>1, <1>2 DEF RequestsOK

(* A request is written: the chain of its author gets one more link, and   *)
(* its author is sole author no longer of what another has asked for.      *)
LEMMA WriteTaskLinks ==
  ASSUME WatcherInv, RequestsOK, NEW a \in F, NEW r \in Request, WriteTask(a, r)
  PROVE  RequestsOK'
<1> DEFINE q == dirs[a].tasks
<1>1. /\ q \in Seq(Request) /\ Len(q) \in Nat /\ Append(q, r) \in Seq(Request)
      /\ Len(Append(q, r)) = Len(q) + 1 /\ Append(q, r)[Len(q) + 1] = r
      /\ \A i \in 1 .. Len(q) : Append(q, r)[i] = q[i]
  <2>1. q \in Seq(Request)
    BY DirsTyped
  <2>2. QED
    BY <2>1
<1>2. /\ dirs'[a].tasks = Append(q, r)
      /\ \A f \in F \ {a} : dirs'[f] = dirs[f]
      /\ UNCHANGED <<row, pc, todo, stage>>
  <2>1. /\ dirs \in [F -> [messages : Seq(Texts), tasks : Seq(Request)]]
        /\ dirs[a] \in [messages : Seq(Texts), tasks : Seq(Request)]
    BY DEF WatcherInv, TypeOK
  <2>2. dirs' = [dirs EXCEPT ![a] = [dirs[a] EXCEPT !.tasks = Append(q, r)]]
    BY DEF WriteTask
  <2>3. [dirs[a] EXCEPT !.tasks = Append(q, r)] = [messages |-> dirs[a].messages, tasks |-> Append(q, r)]
    BY <2>1, OneDirChanges
  <2>4. UNCHANGED <<row, pc, todo, stage>>
    BY DEF WriteTask, watcher
  <2>5. QED
    BY <2>1, <2>2, <2>3, <2>4
<1>3. /\ r.task \in TaskIds
      /\ askers \in [TaskIds -> SUBSET F] /\ asked \in [F -> [TaskIds -> Status]]
      /\ askers' = [askers EXCEPT ![r.task] = @ \cup {a}]
      /\ asked' = [asked EXCEPT ![a][r.task] = Outcome(a, r, @)]
  BY DEF Request, WatcherInv, TypeOK, WriteTask
<1>4. /\ \A t \in TaskIds : askers[t] \subseteq askers'[t]
      /\ a \in askers'[r.task]
      /\ \A f \in F \ {a} : asked'[f] = asked[f]
      /\ \A t \in TaskIds : asked'[a][t] = Step(a, r, t, asked[a][t])
  BY <1>3 DEF Step
<1> HIDE DEF q
<1>5. ChainsOK'
  <2>1. SUFFICES ASSUME NEW f \in F, NEW t \in TaskIds, SoleAuthor(f, t)'
                 PROVE  Leads(dirs'[f].tasks, f, t, row'[t], asked'[f][t])
    BY DEF ChainsOK
  <2>2. Leads(dirs[f].tasks, f, t, row[t], asked[f][t])
    BY <1>4, <2>1 DEF SoleAuthor, RequestsOK, ChainsOK
  <2>3. CASE f = a
    <3>1. Leads(q, a, t, row[t], asked[a][t])
      BY <2>2, <2>3 DEF q
    <3>2. Leads(Append(q, r), a, t, row[t], Step(a, r, t, asked[a][t]))
      BY <1>1, <3>1, ChainGrows
    <3>3. QED
      BY <1>2, <1>4, <2>3, <3>2
  <2>4. CASE f # a
    BY <1>2, <1>4, <2>2, <2>4
  <2>5. QED
    BY <2>3, <2>4
<1>6. AskersOK'
  <2>1. SUFFICES ASSUME NEW f \in F, NEW i \in 1 .. Len(dirs'[f].tasks)
                 PROVE  f \in askers'[dirs'[f].tasks[i].task]
    BY DEF AskersOK
  <2>2. CASE f = a /\ i = Len(q) + 1
    BY <1>1, <1>2, <1>4, <2>2
  <2>3. CASE f = a /\ i # Len(q) + 1
    <3>1. i \in 1 .. Len(q) /\ dirs'[f].tasks[i] = q[i]
      BY <1>1, <1>2, <2>3
    <3>2. q[i] \in Request
      BY <1>1, <3>1
    <3>3. a \in askers[q[i].task]
      BY <3>1 DEF RequestsOK, AskersOK, q
    <3>4. q[i].task \in TaskIds
      BY <3>2 DEF Request
    <3>5. QED
      BY <1>4, <2>3, <3>1, <3>3, <3>4
  <2>4. CASE f # a
    <3>1. i \in 1 .. Len(dirs[f].tasks) /\ dirs'[f].tasks = dirs[f].tasks
      BY <1>2, <2>4
    <3>2. dirs[f].tasks[i] \in Request
      <4>1. dirs[f].tasks \in Seq(Request)
        BY DirsTyped
      <4>2. QED
        BY <3>1, <4>1
    <3>3. dirs[f].tasks[i].task \in TaskIds
      BY <3>2 DEF Request
    <3>4. QED
      BY <1>4, <3>1, <3>3 DEF RequestsOK, AskersOK
  <2>5. QED
    BY <2>2, <2>3, <2>4
<1>7. DoneOK'
  <2>1. SUFFICES ASSUME pc' = "remove", stage' = "tasks" PROVE DoneOK'
    BY DEF DoneOK
  <2>2. pc = "remove" /\ stage = "tasks" /\ Folder' = Folder
    BY <1>2, <2>1 DEF Folder
  <2>3. left > 0
    BY <2>2 DEF WatcherInv, PlaceOK
  <2>4. /\ Folder \in F /\ dirs[Folder].tasks \in Seq(Request) /\ dirs[Folder].tasks # <<>>
    BY <2>2, <2>3, AtARequest
  <2>5. Head(dirs'[Folder].tasks) = Head(dirs[Folder].tasks)
    <3>1. CASE Folder = a
      BY <1>1, <1>2, <2>4, <3>1 DEF q
    <3>2. CASE Folder # a
      BY <1>2, <2>4, <3>2
    <3>3. QED
      BY <3>1, <3>2
  <2>6. File' = File
    BY <2>1, <2>2, <2>5 DEF File
  <2>7. QED
    BY <1>2, <2>2, <2>6 DEF DoneOK, RequestsOK
<1>8. QED
  BY <1>5, <1>6, <1>7 DEF RequestsOK

(* A request takes effect: its link becomes a loop at the start.           *)
LEMMA TakeTaskLinks ==
  ASSUME WatcherInv, RequestsOK, TakeTask
  PROVE  RequestsOK'
<1> DEFINE a == Folder
           r == File
           q == dirs[a].tasks
<1>1. /\ pc = "file" /\ pc' = "remove" /\ stage = "tasks" /\ left > 0
      /\ row' = [row EXCEPT ![r.task] = Outcome(a, r, @)]
      /\ UNCHANGED <<dirs, todo, stage, askers, asked>>
  BY DEF TakeTask, history, requests
<1>2. /\ a \in F /\ r \in Request /\ r.task \in TaskIds
      /\ q \in Seq(Request) /\ Len(q) \in Nat \ {0} /\ r = q[1] /\ row[r.task] \in Status
  BY <1>1, AtARequest
<1>3. /\ row \in [TaskIds -> Status]
      /\ \A t \in TaskIds : row'[t] = Step(a, r, t, row[t])
  BY <1>1, <1>2 DEF WatcherInv, TypeOK, Step
<1>4. a \in askers[r.task]
  BY <1>2 DEF RequestsOK, AskersOK
<1>5. UNCHANGED <<Folder, File>>
  BY <1>1 DEF Folder, File
<1> HIDE DEF a, r, q
<1>6. ChainsOK'
  <2>1. SUFFICES ASSUME NEW f \in F, NEW t \in TaskIds, SoleAuthor(f, t)'
                 PROVE  Leads(dirs'[f].tasks, f, t, row'[t], asked'[f][t])
    BY DEF ChainsOK
  <2>2. SoleAuthor(f, t)
    BY <1>1, <2>1 DEF SoleAuthor
  <2>3. Leads(dirs[f].tasks, f, t, row[t], asked[f][t])
    BY <2>2 DEF RequestsOK, ChainsOK
  <2>4. CASE f = a
    BY <1>1, <1>2, <1>3, <2>3, <2>4, ChainLoops DEF q
  <2>5. CASE f # a
    <3>1. row'[t] = row[t]
      BY <1>2, <1>3, <1>4, <2>2, <2>5 DEF Step, Outcome, May, SoleAuthor
    <3>2. QED
      BY <1>1, <2>3, <3>1
  <2>6. QED
    BY <2>4, <2>5
<1>7. AskersOK'
  BY <1>1 DEF RequestsOK, AskersOK
<1>8. DoneOK'
  <2>1. row'[r.task] = Outcome(a, r, row[r.task])
    BY <1>2, <1>3 DEF Step
  <2>2. Outcome(a, r, row'[r.task]) = row'[r.task]
    BY <1>2, <2>1, OutcomeTyped
  <2>3. Folder' = a /\ File' = r
    BY <1>5 DEF a, r
  <2>4. QED
    BY <2>2, <2>3 DEF DoneOK
<1>9. QED
  BY <1>6, <1>7, <1>8 DEF RequestsOK

(* A request is removed: the loop at the start goes with it.               *)
LEMMA UnlinkLinks ==
  ASSUME WatcherInv, RequestsOK, Unlink
  PROVE  RequestsOK'
<1> DEFINE a == Folder
           r == File
           q == dirs[a].tasks
<1>1. /\ pc = "remove" /\ pc' # "remove" /\ left > 0
      /\ dirs \in [F -> [messages : Seq(Texts), tasks : Seq(Request)]]
      /\ a \in F /\ stage \in {"messages", "tasks"}
      /\ dirs' = [dirs EXCEPT ![a] = [dirs[a] EXCEPT ![stage] = Tail(dirs[a][stage])]]
      /\ UNCHANGED <<row, askers, asked>>
  BY AtAFile DEF WatcherInv, TypeOK, PlaceOK, Unlink, history, requests
<1>2. CASE stage = "messages"
  <2>1. \A f \in F : dirs'[f].tasks = dirs[f].tasks
    <3>1. dirs[a] \in [messages : Seq(Texts), tasks : Seq(Request)]
      BY <1>1
    <3>2. dirs'[a] = [messages |-> Tail(dirs[a].messages), tasks |-> dirs[a].tasks]
      BY <1>1, <1>2, <3>1, OneDirChanges
    <3>3. QED
      BY <1>1, <3>2
  <2>2. QED
    BY <1>1, <2>1, RequestsStay
<1>3. CASE stage = "tasks"
  <2>1. /\ r \in Request /\ r.task \in TaskIds /\ r = q[1]
        /\ q \in Seq(Request) /\ Len(q) \in Nat \ {0}
    BY <1>1, <1>3, AtARequest
  <2>2. /\ dirs'[a].tasks = Tail(q) /\ \A f \in F \ {a} : dirs'[f] = dirs[f]
    <3>1. dirs[a] \in [messages : Seq(Texts), tasks : Seq(Request)]
      BY <1>1
    <3>2. dirs'[a] = [messages |-> dirs[a].messages, tasks |-> Tail(q)]
      BY <1>1, <1>3, <3>1, OneDirChanges
    <3>3. QED
      BY <1>1, <3>2
  <2>3. /\ Tail(q) \in Seq(Request) /\ Len(Tail(q)) = Len(q) - 1
        /\ \A i \in 1 .. Len(q) - 1 : Tail(q)[i] = q[i + 1]
    BY <2>1
  <2>4. Outcome(a, r, row[r.task]) = row[r.task]
    BY <1>1, <1>3 DEF RequestsOK, DoneOK
  <2> HIDE DEF a, r, q
  <2>5. ChainsOK'
    <3>1. SUFFICES ASSUME NEW f \in F, NEW t \in TaskIds, SoleAuthor(f, t)'
                   PROVE  Leads(dirs'[f].tasks, f, t, row'[t], asked'[f][t])
      BY DEF ChainsOK
    <3>2. Leads(dirs[f].tasks, f, t, row[t], asked[f][t])
      BY <1>1, <3>1 DEF SoleAuthor, RequestsOK, ChainsOK
    <3>3. CASE f = a
      <4>1. Step(a, q[1], t, row[t]) = row[t]
        BY <2>1, <2>4 DEF Step
      <4>2. Leads(q, a, t, row[t], asked[a][t])
        BY <3>2, <3>3 DEF q
      <4>3. Leads(Tail(q), a, t, row[t], asked[a][t])
        BY <2>1, <4>1, <4>2, ChainShrinks
      <4>4. QED
        BY <1>1, <2>2, <3>3, <4>3
    <3>4. CASE f # a
      BY <1>1, <2>2, <3>2, <3>4
    <3>5. QED
      BY <3>3, <3>4
  <2>6. AskersOK'
    <3>1. SUFFICES ASSUME NEW f \in F, NEW i \in 1 .. Len(dirs'[f].tasks)
                   PROVE  f \in askers'[dirs'[f].tasks[i].task]
      BY DEF AskersOK
    <3>2. CASE f = a
      <4>1. i + 1 \in 1 .. Len(q) /\ dirs'[f].tasks[i] = q[i + 1]
        BY <2>1, <2>2, <2>3, <3>2
      <4>2. QED
        BY <1>1, <3>2, <4>1 DEF RequestsOK, AskersOK, q
    <3>3. CASE f # a
      BY <1>1, <2>2, <3>3 DEF RequestsOK, AskersOK
    <3>4. QED
      BY <3>2, <3>3
  <2>7. DoneOK'
    BY <1>1 DEF DoneOK
  <2>8. QED
    BY <2>5, <2>6, <2>7 DEF RequestsOK
<1>4. QED
  BY <1>1, <1>2, <1>3

(* A text is written: the requests stay as they are.                       *)
LEMMA WriteMessageLinks ==
  ASSUME WatcherInv, RequestsOK, NEW m \in Texts, WriteMessage(m)
  PROVE  RequestsOK'
<1>1. \A f \in F : dirs'[f].tasks = dirs[f].tasks
  <2>1. /\ dirs \in [F -> [messages : Seq(Texts), tasks : Seq(Request)]] /\ AuthorOf[m] \in F
    BY IpcWatcherAssumption DEF WatcherInv, TypeOK
  <2>2. dirs' = [dirs EXCEPT ![AuthorOf[m]] =
                   [dirs[AuthorOf[m]] EXCEPT !.messages = Append(dirs[AuthorOf[m]].messages, m)]]
    BY DEF WriteMessage
  <2>3. dirs'[AuthorOf[m]].tasks = dirs[AuthorOf[m]].tasks
    BY <2>1, <2>2, OneDirChanges
  <2>4. QED
    BY <2>1, <2>2, <2>3
<1>2. UNCHANGED <<row, askers, asked, pc, stage, todo>>
  BY DEF WriteMessage, watcher, requests
<1>3. QED
  BY <1>1, <1>2, RequestsStay

(* The requests hold through every step.                                   *)
LEMMA LinksHold ==
  WatcherInv /\ RequestsOK /\ [Next]_vars => RequestsOK'
<1> SUFFICES ASSUME WatcherInv, RequestsOK, [Next]_vars PROVE RequestsOK'
  OBVIOUS
<1>1. CASE \E m \in Texts : WriteMessage(m)
  BY <1>1, WriteMessageLinks
<1>2. CASE \E f \in F, r \in Request : WriteTask(f, r)
  BY <1>2, WriteTaskLinks
<1>3. CASE TakeTask \/ Unlink
  BY <1>3, TakeTaskLinks, UnlinkLinks
<1>4. CASE \/ BeginRound \/ List \/ EndOfListing \/ SendText \/ Answered \/ SkipText
           \/ TakeGarbled \/ Crash \/ Shutdown \/ Start \/ UNCHANGED vars
  <2>1. UNCHANGED <<dirs, row, askers, asked>>
    BY <1>4 DEF BeginRound, List, EndOfListing, SendText, Answered, SkipText, TakeGarbled, Crash,
         Shutdown, Start, vars, history, requests
  <2>2. pc' = "remove" /\ stage' = "tasks" => pc = "remove" /\ stage = "tasks" /\ todo' = todo
    BY <1>4 DEF BeginRound, List, EndOfListing, SendText, Answered, SkipText, TakeGarbled, Crash,
         Shutdown, Start, vars, watcher, WatcherInv, TypeOK, PlaceOK
  <2>3. QED
    BY <2>1, <2>2, RequestsStay
<1>5. QED
  BY <1>1, <1>2, <1>3, <1>4 DEF Next, Watch

(* And at first: nobody has asked for anything.                            *)
LEMMA LinksBegin ==
  Init => RequestsOK
<1> SUFFICES ASSUME Init PROVE RequestsOK
  OBVIOUS
<1>1. /\ \A f \in F : dirs[f].tasks = <<>> /\ Len(dirs[f].tasks) = 0
      /\ \A t \in TaskIds : row[t] = "none"
      /\ \A f \in F, t \in TaskIds : asked[f][t] = "none"
  BY DEF Init
<1>2. ASSUME NEW f \in F, NEW t \in TaskIds PROVE Leads(<<>>, f, t, "none", "none")
  <2> DEFINE h == [i \in Nat |-> "none"]
  <2>1. /\ h \in [Nat -> Status] /\ h[0] = "none" /\ Len(<<>>) = 0
        /\ \A i \in 1 .. 0 : FALSE
    BY DEF Status
  <2>2. QED
    BY <2>1 DEF Leads
<1>3. ChainsOK
  BY <1>1, <1>2 DEF ChainsOK
<1>4. AskersOK
  BY <1>1 DEF AskersOK
<1>5. DoneOK
  BY DEF Init, DoneOK
<1>6. QED
  BY <1>3, <1>4, <1>5 DEF RequestsOK

-----------------------------------------------------------------------------
(* So it holds for ever.                                                   *)
THEOREM Invariance == Spec => []WatcherInv
BY InitHolds, NextKeeps, PTL DEF Spec

(* Every variable keeps its type.                                          *)
THEOREM TypeCorrect == Spec => []TypeOK
<1>1. WatcherInv => TypeOK
  BY DEF WatcherInv
<1>2. QED
  BY <1>1, Invariance, PTL

(* A text is sent once, and once more at most for each crash that hit      *)
(* between its sending and the removal of its file; orderly shutdowns, and *)
(* whatever agents write meanwhile, repeat nothing.                        *)
THEOREM SentOnce == Spec => []SentOncePerCrash
<1>1. WatcherInv => SentOncePerCrash
  BY DEF WatcherInv, TypeOK, SentOK, SentOncePerCrash
<1>2. QED
  BY <1>1, Invariance, PTL

(* When a folder has no request left, the tasks that only its agent was    *)
(* entitled to change are as it asked, in the order it asked, whatever     *)
(* others asked for, and though a crash may have carried some out twice.   *)
THEOREM DrainedIsDone == Spec => []DrainedMeansDone
<1>1. RequestsOK => DrainedMeansDone
  <2>1. SUFFICES ASSUME RequestsOK, NEW f \in F, NEW t \in TaskIds,
                        dirs[f].tasks = <<>>, SoleAuthor(f, t)
                 PROVE  row[t] = asked[f][t]
    BY DEF DrainedMeansDone
  <2>2. Leads(<<>>, f, t, row[t], asked[f][t])
    BY <2>1 DEF RequestsOK, ChainsOK
  <2>3. QED
    BY <2>2 DEF Leads
<1>2. QED
  BY <1>1, LinksBegin, LinksHold, Invariance, PTL DEF Spec
=============================================================================
