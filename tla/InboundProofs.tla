--------------------------- MODULE InboundProofs ---------------------------
(***************************************************************************)
(* Theorems about Inbound, for any files, lines, posts and contents of the *)
(* allowlist, and any number of edits and crashes: nothing is stored twice *)
(* without cause, nothing vanishes, and every message is judged by rules   *)
(* that held while it was being judged.                                    *)
(***************************************************************************)
EXTENDS Inbound, TLAPS

-----------------------------------------------------------------------------
(* The channels' queues, in which everything is different.                 *)

(* What is put into a queue is in it, behind the rest.                     *)
LEMMA PutKeeps ==
  ASSUME NEW S, NEW q \in Seq(S), NEW x \in S, x \notin ToSet(q), IsInjective(q)
  PROVE  /\ Append(q, x) \in Seq(S)
         /\ ToSet(Append(q, x)) = ToSet(q) \cup {x}
         /\ IsInjective(Append(q, x))
<1>1. /\ Append(q, x) \in Seq(S) /\ Len(q) \in Nat
      /\ DOMAIN q = 1 .. Len(q) /\ DOMAIN Append(q, x) = 1 .. Len(q) + 1
      /\ \A i \in 1 .. Len(q) : Append(q, x)[i] = q[i]
      /\ Append(q, x)[Len(q) + 1] = x
  OBVIOUS
<1>2. ToSet(Append(q, x)) = ToSet(q) \cup {x}
  BY <1>1 DEF ToSet
<1>3. IsInjective(Append(q, x))
  BY <1>1 DEF ToSet, IsInjective
<1>4. QED
  BY <1>1, <1>2, <1>3

(* What is taken from a queue is not in it any more.                       *)
LEMMA GetKeeps ==
  ASSUME NEW S, NEW q \in Seq(S), q # <<>>, IsInjective(q)
  PROVE  /\ Head(q) \in ToSet(q) /\ Head(q) \in S
         /\ Tail(q) \in Seq(S)
         /\ ToSet(Tail(q)) = ToSet(q) \ {Head(q)}
         /\ IsInjective(Tail(q))
<1>1. /\ Tail(q) \in Seq(S) /\ Len(q) \in Nat \ {0} /\ Head(q) = q[1] /\ q[1] \in S
      /\ DOMAIN q = 1 .. Len(q) /\ DOMAIN Tail(q) = 1 .. Len(q) - 1
      /\ \A i \in 1 .. Len(q) - 1 : Tail(q)[i] = q[i + 1]
  OBVIOUS
<1>2. \A i \in 1 .. Len(q) : i = 1 \/ (i - 1 \in 1 .. Len(q) - 1 /\ Tail(q)[i - 1] = q[i])
  BY <1>1
<1>3. ToSet(Tail(q)) = ToSet(q) \ {Head(q)}
  <2>1. ToSet(Tail(q)) \subseteq ToSet(q) \ {Head(q)}
    BY <1>1 DEF ToSet, IsInjective
  <2>2. ASSUME NEW i \in 1 .. Len(q), q[i] # Head(q) PROVE q[i] \in ToSet(Tail(q))
    <3>1. i - 1 \in DOMAIN Tail(q) /\ Tail(q)[i - 1] = q[i]
      BY <1>1, <1>2, <2>2
    <3>2. QED
      BY <3>1 DEF ToSet
  <2>3. QED
    BY <1>1, <2>1, <2>2 DEF ToSet
<1>4. IsInjective(Tail(q))
  <2>1. \A i, j \in 1 .. Len(q) - 1 : q[i + 1] = q[j + 1] => i = j
    BY <1>1 DEF IsInjective
  <2>2. QED
    BY <1>1, <2>1 DEF IsInjective
<1>5. Head(q) \in ToSet(q)
  <2>1. 1 \in DOMAIN q /\ Head(q) = q[1]
    BY <1>1
  <2>2. QED
    BY <2>1 DEF ToSet
<1>6. QED
  BY <1>1, <1>3, <1>4, <1>5

(* An empty queue.                                                         *)
LEMMA EmptyQueue ==
  ToSet(<<>>) = {} /\ IsInjective(<<>>) /\ \A S : <<>> \in Seq(S)
BY DEF ToSet, IsInjective

-----------------------------------------------------------------------------
(* The invariant.                                                          *)

Loading == {"stat", "read", "stamp", "decide"}
InHand == Loading \cup {"unlink"}

(* A message is in hand while it is judged, and a file's until the file is *)
(* removed; it is not in its queue any more.                               *)
HandOK ==
  /\ msg # None <=> pc \in InHand
  /\ pc = "unlink" => msg \in Files
  /\ msg \in Files => inbox[msg] = "whole"
  /\ msg \in Lines => msg \in typed /\ msg \notin ToSet(cliQueue)
  /\ msg \in Posts => post[msg] # "new" /\ msg \notin ToSet(webQueue)

(* A queue holds what was put into it, once.                               *)
QueuesOK ==
  /\ IsInjective(cliQueue) /\ ToSet(cliQueue) \subseteq typed
  /\ IsInjective(webQueue) /\ \A p \in ToSet(webQueue) : post[p] # "new"

(* What can still be delivered.                                            *)
Pending(m) ==
  \/ m \in Files /\ inbox[m] # "none" /\ ~(pc = "unlink" /\ msg = m)
  \/ m \in Files \ (completed \cup halfRead)
  \/ m \in Lines \ typed
  \/ m \in Posts /\ post[m] = "new"
  \/ m \in ToSet(cliQueue) \cup ToSet(webQueue)
  \/ m \in Lines \cup Posts /\ m = msg

CountOK ==
  \A m \in Msgs :
    /\ m \in HasId => rows[m] <= 1
    /\ m \notin HasId => rows[m] <= 1 + repeats[m]
    /\ m \notin HasId /\ Pending(m) => rows[m] <= repeats[m]

Settled(m) == rows[m] > 0 \/ m \in refused

(* Where everything is that has come in.                                   *)
FatesOK ==
  /\ \A f \in Files : inbox[f] = "whole" => f \in completed
  /\ pc = "unlink" => Settled(msg)
  /\ \A f \in completed : inbox[f] = "whole" \/ f \in halfRead \/ Settled(f)
  /\ \A l \in typed : l \in ToSet(cliQueue) \/ l = msg \/ l \in lost \/ Settled(l)
  /\ \A p \in Posts : post[p] # "new" =>
       p \in ToSet(webQueue) \/ p = msg \/ p \in lost \/ Settled(p)

(* A cache with the file's mtime has the file's content, but for an edit   *)
(* that hit between the two readings.                                      *)
CacheOK ==
  /\ pc \in Loading => config \in seen
  /\ pc = "stamp" => cache \in seen /\ cache # None
  /\ pc = "stamp" \/ (cache # None /\ mtime = edits) => cache = config \/ raced
  /\ pc = "decide" => cache # None
  /\ mtime <= edits
  /\ JudgedByCurrentRules

InboundInv == TypeOK /\ HandOK /\ QueuesOK /\ CountOK /\ FatesOK /\ CacheOK

-----------------------------------------------------------------------------
(* A file appears, whole or in part.                                       *)
LEMMA DropKeeps ==
  ASSUME InboundInv, NEW f \in Files, Drop(f)
  PROVE  InboundInv'
<1>1. TypeOK'
  <2>1. /\ inbox' \in [Files -> {"none", "partial", "whole"}]
        /\ completed' \subseteq Files
    BY InboundAssumption DEF InboundInv, TypeOK, Drop
  <2>2. QED
    BY <2>1 DEF InboundInv, TypeOK, Drop, outside, vars, allowlist, poll, queues, fates
<1>2. HandOK'
  BY DEF InboundInv, TypeOK, HandOK, Loading, Drop, outside, Msgs, allowlist, poll, queues
<1>3. QueuesOK'
  BY DEF InboundInv, QueuesOK, Drop, outside, Msgs, allowlist, poll, queues
<1>4. CountOK'
  BY DEF InboundInv, TypeOK, CountOK, Pending, Loading, Drop, outside, Msgs, allowlist, poll, queues
<1>5. FatesOK'
  BY DEF InboundInv, TypeOK, FatesOK, Settled, Loading, Drop, outside, Msgs, allowlist, poll, queues
<1>6. CacheOK'
  BY DEF InboundInv, CacheOK, JudgedByCurrentRules, Loading, Drop, outside, Msgs, allowlist, poll, queues
<1>7. QED
  BY <1>1, <1>2, <1>3, <1>4, <1>5, <1>6 DEF InboundInv

(* The rest of a file arrives.                                             *)
LEMMA CompleteKeeps ==
  ASSUME InboundInv, NEW f \in Files, Complete(f)
  PROVE  InboundInv'
<1>1. TypeOK'
  BY DEF InboundInv, TypeOK, Complete, outside, Msgs, allowlist, poll, queues
<1>2. HandOK'
  BY DEF InboundInv, HandOK, Loading, Complete, outside, Msgs, allowlist, poll, queues
<1>3. QueuesOK'
  BY DEF InboundInv, QueuesOK, Complete, outside, Msgs, allowlist, poll, queues
<1>4. CountOK'
  BY DEF InboundInv, CountOK, Pending, Loading, Complete, outside, Msgs, allowlist, poll, queues
<1>5. FatesOK'
  BY DEF InboundInv, TypeOK, FatesOK, Settled, Loading, Complete, outside, Msgs, allowlist, poll, queues
<1>6. CacheOK'
  BY DEF InboundInv, CacheOK, JudgedByCurrentRules, Loading, Complete, outside, Msgs, allowlist, poll, queues
<1>7. QED
  BY <1>1, <1>2, <1>3, <1>4, <1>5, <1>6 DEF InboundInv

(* The allowlist is edited.                                                *)
LEMMA EditKeeps ==
  ASSUME InboundInv, NEW v \in Versions \cup {NoFile}, Edit(v)
  PROVE  InboundInv'
<1>1. TypeOK'
  BY InboundAssumption DEF InboundInv, TypeOK, Edit, Msgs, poll, queues, fates
<1>2. HandOK'
  BY DEF InboundInv, HandOK, Loading, Edit, Msgs, poll, queues, fates
<1>3. QueuesOK'
  BY DEF InboundInv, QueuesOK, Edit, Msgs, poll, queues, fates
<1>4. CountOK'
  BY DEF InboundInv, CountOK, Pending, Loading, Edit, Msgs, poll, queues, fates
<1>5. FatesOK'
  BY DEF InboundInv, FatesOK, Settled, Loading, Edit, Msgs, poll, queues, fates
<1>6. CacheOK'
  <2>1. edits' # mtime
    BY DEF InboundInv, TypeOK, CacheOK, Edit
  <2>2. pc \in Loading => seen' = seen \cup {v} /\ config' = v
    BY DEF InboundInv, CacheOK, Edit
  <2>3. seen \subseteq seen' /\ (raced => raced') /\ (pc = "stamp" => raced')
    BY DEF Edit
  <2>4. UNCHANGED <<pc, cache, mtime>>
    BY DEF Edit, poll
  <2>5. mtime' <= edits'
    BY <2>4 DEF InboundInv, TypeOK, CacheOK, Edit
  <2>6. QED
    BY <2>1, <2>2, <2>3, <2>4, <2>5 DEF InboundInv, CacheOK, JudgedByCurrentRules, Loading
<1>7. QED
  BY <1>1, <1>2, <1>3, <1>4, <1>5, <1>6 DEF InboundInv

(* A post reaches the webhook.                                             *)
LEMMA PostKeeps ==
  ASSUME InboundInv, NEW p \in Posts, Post(p)
  PROVE  InboundInv'
<1>1. TypeOK'
  BY PutKeeps DEF InboundInv, TypeOK, Post, Msgs, allowlist, poll, fates
<1>2. HandOK'
  BY PutKeeps DEF InboundInv, TypeOK, HandOK, QueuesOK, Loading, Post, Msgs, allowlist, poll, fates
<1>3. QueuesOK'
  BY PutKeeps DEF InboundInv, TypeOK, QueuesOK, Post, Msgs, allowlist, poll, fates
<1>4. CountOK'
  BY PutKeeps DEF InboundInv, TypeOK, QueuesOK, CountOK, Pending, Loading, Post, Msgs, allowlist, poll, fates
<1>5. FatesOK'
  BY PutKeeps DEF InboundInv, TypeOK, QueuesOK, FatesOK, Settled, Loading, Post, Msgs, allowlist, poll, fates
<1>6. CacheOK'
  BY PutKeeps DEF InboundInv, CacheOK, JudgedByCurrentRules, Loading, Post, Msgs, allowlist, poll, fates
<1>7. QED
  BY <1>1, <1>2, <1>3, <1>4, <1>5, <1>6 DEF InboundInv

(* The webhook answers a post it has queued.                               *)
LEMMA AnswerKeeps ==
  ASSUME InboundInv, NEW p \in Posts, Answer(p)
  PROVE  InboundInv'
<1>1. TypeOK'
  BY DEF InboundInv, TypeOK, Answer, Msgs, allowlist, poll, queues, fates
<1>2. HandOK'
  BY DEF InboundInv, HandOK, Loading, Answer, Msgs, allowlist, poll, queues, fates
<1>3. QueuesOK'
  BY DEF InboundInv, QueuesOK, Answer, Msgs, allowlist, poll, queues, fates
<1>4. CountOK'
  BY DEF InboundInv, CountOK, Pending, Loading, Answer, Msgs, allowlist, poll, queues, fates
<1>5. FatesOK'
  BY DEF InboundInv, FatesOK, Settled, Loading, Answer, Msgs, allowlist, poll, queues, fates
<1>6. CacheOK'
  BY DEF InboundInv, CacheOK, JudgedByCurrentRules, Loading, Answer, Msgs, allowlist, poll, queues, fates
<1>7. QED
  BY <1>1, <1>2, <1>3, <1>4, <1>5, <1>6 DEF InboundInv

(* A line is typed.                                                        *)
LEMMA TypeKeeps ==
  ASSUME InboundInv, NEW l \in Lines, Type(l)
  PROVE  InboundInv'
<1>1. TypeOK'
  BY PutKeeps DEF InboundInv, TypeOK, Type, Msgs, allowlist, poll, fates
<1>2. HandOK'
  BY PutKeeps DEF InboundInv, TypeOK, HandOK, QueuesOK, Loading, Type, Msgs, allowlist, poll, fates
<1>3. QueuesOK'
  BY PutKeeps DEF InboundInv, TypeOK, QueuesOK, Type, Msgs, allowlist, poll, fates
<1>4. CountOK'
  BY PutKeeps DEF InboundInv, TypeOK, QueuesOK, CountOK, Pending, Loading, Type, Msgs, allowlist, poll, fates
<1>5. FatesOK'
  BY PutKeeps DEF InboundInv, TypeOK, QueuesOK, FatesOK, Settled, Loading, Type, Msgs, allowlist, poll, fates
<1>6. CacheOK'
  BY PutKeeps DEF InboundInv, CacheOK, JudgedByCurrentRules, Loading, Type, Msgs, allowlist, poll, fates
<1>7. QED
  BY <1>1, <1>2, <1>3, <1>4, <1>5, <1>6 DEF InboundInv

(* A poll begins.                                                          *)
LEMMA BeginPollKeeps ==
  ASSUME InboundInv, BeginPoll
  PROVE  InboundInv'
<1>1. TypeOK'
  BY DEF InboundInv, TypeOK, BeginPoll, pollFrame, Msgs, allowlist, queues, fates
<1>2. HandOK'
  BY DEF InboundInv, HandOK, InHand, Loading, BeginPoll, pollFrame, Msgs, allowlist, queues, fates
<1>3. QueuesOK'
  BY DEF InboundInv, QueuesOK, BeginPoll, pollFrame, Msgs, allowlist, queues, fates
<1>4. CountOK'
  BY DEF InboundInv, CountOK, Pending, Loading, BeginPoll, pollFrame, Msgs, allowlist, queues, fates
<1>5. FatesOK'
  BY DEF InboundInv, FatesOK, Settled, Loading, BeginPoll, pollFrame, Msgs, allowlist, queues, fates
<1>6. CacheOK'
  BY DEF InboundInv, CacheOK, JudgedByCurrentRules, Loading, BeginPoll, pollFrame, Msgs, allowlist, queues, fates
<1>7. QED
  BY <1>1, <1>2, <1>3, <1>4, <1>5, <1>6 DEF InboundInv

(* A file that cannot be read, or has no message.                          *)
LEMMA ReadVoidKeeps ==
  ASSUME InboundInv, NEW f \in Files, ReadVoid(f)
  PROVE  InboundInv'
<1>1. TypeOK'
  BY DEF InboundInv, TypeOK, ReadVoid, Reading, pollFrame, Msgs, allowlist, queues
<1>2. HandOK'
  BY InboundAssumption DEF InboundInv, HandOK, InHand, Loading, ReadVoid, Reading, pollFrame, Msgs, allowlist, queues
<1>3. QueuesOK'
  BY DEF InboundInv, QueuesOK, ReadVoid, Reading, pollFrame, Msgs, allowlist, queues
<1>4. CountOK'
  BY DEF InboundInv, CountOK, Pending, Loading, ReadVoid, Reading, pollFrame, Msgs, allowlist, queues
<1>5. FatesOK'
  BY DEF InboundInv, FatesOK, Settled, Loading, ReadVoid, Reading, pollFrame, Msgs, allowlist, queues
<1>6. CacheOK'
  BY DEF InboundInv, CacheOK, JudgedByCurrentRules, Loading, ReadVoid, Reading, pollFrame, Msgs, allowlist, queues
<1>7. QED
  BY <1>1, <1>2, <1>3, <1>4, <1>5, <1>6 DEF InboundInv

(* A file at which the poll dies.                                          *)
LEMMA ReadPoisonKeeps ==
  ASSUME InboundInv, NEW f \in Files, ReadPoison(f)
  PROVE  InboundInv'
<1>1. TypeOK'
  BY DEF InboundInv, TypeOK, ReadPoison, Reading, pollFrame, Msgs, allowlist, queues, fates
<1>2. HandOK'
  BY DEF InboundInv, HandOK, InHand, Loading, ReadPoison, Reading, pollFrame, Msgs, allowlist, queues, fates
<1>3. QueuesOK'
  BY DEF InboundInv, QueuesOK, ReadPoison, Reading, pollFrame, Msgs, allowlist, queues, fates
<1>4. CountOK'
  BY DEF InboundInv, CountOK, Pending, Loading, ReadPoison, Reading, pollFrame, Msgs, allowlist, queues, fates
<1>5. FatesOK'
  BY DEF InboundInv, FatesOK, Settled, Loading, ReadPoison, Reading, pollFrame, Msgs, allowlist, queues, fates
<1>6. CacheOK'
  BY DEF InboundInv, CacheOK, JudgedByCurrentRules, Loading, ReadPoison, Reading, pollFrame, Msgs, allowlist, queues, fates
<1>7. QED
  BY <1>1, <1>2, <1>3, <1>4, <1>5, <1>6 DEF InboundInv

(* A file's message is taken in hand.                                      *)
LEMMA ReadFileKeeps ==
  ASSUME InboundInv, NEW f \in Files, ReadFile(f)
  PROVE  InboundInv'
<1>1. TypeOK'
  BY DEF InboundInv, TypeOK, ReadFile, Reading, Take, Msgs, queues, fates
<1>2. HandOK'
  BY InboundAssumption DEF InboundInv, HandOK, InHand, Loading, ReadFile, Reading, Take, Msgs, queues, fates
<1>3. QueuesOK'
  BY DEF InboundInv, QueuesOK, ReadFile, Reading, Take, Msgs, queues, fates
<1>4. CountOK'
  BY DEF InboundInv, CountOK, Pending, Loading, ReadFile, Reading, Take, Msgs, queues, fates
<1>5. FatesOK'
  BY InboundAssumption DEF InboundInv, TypeOK, HandOK, FatesOK, Settled, InHand, Loading, ReadFile, Reading, Take, Msgs, queues, fates
<1>6. CacheOK'
  BY DEF InboundInv, CacheOK, JudgedByCurrentRules, Loading, ReadFile, Reading, Take, Msgs, queues, fates
<1>7. QED
  BY <1>1, <1>2, <1>3, <1>4, <1>5, <1>6 DEF InboundInv

(* The poll goes on to the command line.                                   *)
LEMMA EndOfFilesKeeps ==
  ASSUME InboundInv, EndOfFiles
  PROVE  InboundInv'
<1>1. TypeOK'
  BY DEF InboundInv, TypeOK, EndOfFiles, pollFrame, Msgs, allowlist, queues, fates
<1>2. HandOK'
  BY DEF InboundInv, HandOK, InHand, Loading, EndOfFiles, pollFrame, Msgs, allowlist, queues, fates
<1>3. QueuesOK'
  BY DEF InboundInv, QueuesOK, EndOfFiles, pollFrame, Msgs, allowlist, queues, fates
<1>4. CountOK'
  BY DEF InboundInv, CountOK, Pending, Loading, EndOfFiles, pollFrame, Msgs, allowlist, queues, fates
<1>5. FatesOK'
  BY DEF InboundInv, FatesOK, Settled, Loading, EndOfFiles, pollFrame, Msgs, allowlist, queues, fates
<1>6. CacheOK'
  BY DEF InboundInv, CacheOK, JudgedByCurrentRules, Loading, EndOfFiles, pollFrame, Msgs, allowlist, queues, fates
<1>7. QED
  BY <1>1, <1>2, <1>3, <1>4, <1>5, <1>6 DEF InboundInv

(* A line is taken from its queue.                                         *)
LEMMA ReadLineKeeps ==
  ASSUME InboundInv, ReadLine
  PROVE  InboundInv'
<1> DEFINE x == Head(cliQueue)
<1>0. /\ cliQueue \in Seq(Lines) /\ cliQueue # <<>> /\ IsInjective(cliQueue)
      /\ x \in ToSet(cliQueue) /\ x \in Lines /\ cliQueue' = Tail(cliQueue) /\ cliQueue' \in Seq(Lines)
      /\ ToSet(cliQueue') = ToSet(cliQueue) \ {x} /\ IsInjective(cliQueue')
  BY GetKeeps DEF InboundInv, TypeOK, QueuesOK, ReadLine
<1>1. TypeOK'
  <2>1. CASE x \in Void
    BY <1>0, <2>1, InboundAssumption
      DEF InboundInv, TypeOK, ReadLine, pollFrame, Msgs, allowlist
  <2>2. CASE x \notin Void
    BY <1>0, <2>2, InboundAssumption
      DEF InboundInv, TypeOK, ReadLine, Take, Msgs, fates
  <2>3. QED
    BY <2>1, <2>2
<1>2. HandOK'
  BY <1>0, InboundAssumption DEF InboundInv, HandOK, QueuesOK, InHand, Loading, ReadLine, Take, pollFrame, Msgs, allowlist, fates
<1>3. QueuesOK'
  BY <1>0 DEF InboundInv, QueuesOK, ReadLine, Take, pollFrame, Msgs, allowlist, fates
<1>4. CountOK'
  BY <1>0 DEF InboundInv, CountOK, Pending, Loading, ReadLine, Take, pollFrame, Msgs, allowlist, fates
<1>5. FatesOK'
  BY <1>0, InboundAssumption DEF InboundInv, TypeOK, HandOK, FatesOK, Settled, InHand, Loading, ReadLine, Take, pollFrame, Msgs, allowlist, fates
<1>6. CacheOK'
  BY <1>0 DEF InboundInv, CacheOK, JudgedByCurrentRules, Loading, ReadLine, Take, pollFrame, Msgs, allowlist, fates
<1>7. QED
  BY <1>1, <1>2, <1>3, <1>4, <1>5, <1>6 DEF InboundInv

(* The poll goes on to the webhook.                                        *)
LEMMA EndOfLinesKeeps ==
  ASSUME InboundInv, EndOfLines
  PROVE  InboundInv'
<1>1. TypeOK'
  BY DEF InboundInv, TypeOK, EndOfLines, pollFrame, Msgs, allowlist, queues, fates
<1>2. HandOK'
  BY DEF InboundInv, HandOK, InHand, Loading, EndOfLines, pollFrame, Msgs, allowlist, queues, fates
<1>3. QueuesOK'
  BY DEF InboundInv, QueuesOK, EndOfLines, pollFrame, Msgs, allowlist, queues, fates
<1>4. CountOK'
  BY DEF InboundInv, CountOK, Pending, Loading, EndOfLines, pollFrame, Msgs, allowlist, queues, fates
<1>5. FatesOK'
  BY DEF InboundInv, FatesOK, Settled, Loading, EndOfLines, pollFrame, Msgs, allowlist, queues, fates
<1>6. CacheOK'
  BY DEF InboundInv, CacheOK, JudgedByCurrentRules, Loading, EndOfLines, pollFrame, Msgs, allowlist, queues, fates
<1>7. QED
  BY <1>1, <1>2, <1>3, <1>4, <1>5, <1>6 DEF InboundInv

(* A post is taken from its queue.                                         *)
LEMMA ReadPostKeeps ==
  ASSUME InboundInv, ReadPost
  PROVE  InboundInv'
<1> DEFINE x == Head(webQueue)
<1>0. /\ webQueue \in Seq(Posts) /\ webQueue # <<>> /\ IsInjective(webQueue)
      /\ x \in ToSet(webQueue) /\ x \in Posts /\ webQueue' = Tail(webQueue) /\ webQueue' \in Seq(Posts)
      /\ ToSet(webQueue') = ToSet(webQueue) \ {x} /\ IsInjective(webQueue')
  BY GetKeeps DEF InboundInv, TypeOK, QueuesOK, ReadPost
<1>1. TypeOK'
  BY <1>0 DEF InboundInv, TypeOK, ReadPost, Take, Msgs, fates
<1>2. HandOK'
  BY <1>0, InboundAssumption DEF InboundInv, HandOK, QueuesOK, InHand, Loading, ReadPost, Take, Msgs, fates
<1>3. QueuesOK'
  BY <1>0 DEF InboundInv, QueuesOK, ReadPost, Take, Msgs, fates
<1>4. CountOK'
  BY <1>0 DEF InboundInv, CountOK, Pending, Loading, ReadPost, Take, Msgs, fates
<1>5. FatesOK'
  BY <1>0, InboundAssumption DEF InboundInv, TypeOK, HandOK, FatesOK, Settled, InHand, Loading, ReadPost, Take, Msgs, fates
<1>6. CacheOK'
  BY <1>0 DEF InboundInv, CacheOK, JudgedByCurrentRules, Loading, ReadPost, Take, Msgs, fates
<1>7. QED
  BY <1>1, <1>2, <1>3, <1>4, <1>5, <1>6 DEF InboundInv

(* The poll is over.                                                       *)
LEMMA EndOfPostsKeeps ==
  ASSUME InboundInv, EndOfPosts
  PROVE  InboundInv'
<1>1. TypeOK'
  BY DEF InboundInv, TypeOK, EndOfPosts, pollFrame, Msgs, allowlist, queues, fates
<1>2. HandOK'
  BY DEF InboundInv, HandOK, InHand, Loading, EndOfPosts, pollFrame, Msgs, allowlist, queues, fates
<1>3. QueuesOK'
  BY DEF InboundInv, QueuesOK, EndOfPosts, pollFrame, Msgs, allowlist, queues, fates
<1>4. CountOK'
  BY DEF InboundInv, CountOK, Pending, Loading, EndOfPosts, pollFrame, Msgs, allowlist, queues, fates
<1>5. FatesOK'
  BY DEF InboundInv, FatesOK, Settled, Loading, EndOfPosts, pollFrame, Msgs, allowlist, queues, fates
<1>6. CacheOK'
  BY DEF InboundInv, CacheOK, JudgedByCurrentRules, Loading, EndOfPosts, pollFrame, Msgs, allowlist, queues, fates
<1>7. QED
  BY <1>1, <1>2, <1>3, <1>4, <1>5, <1>6 DEF InboundInv

(* The allowlist's mtime is read.                                          *)
LEMMA StatKeeps ==
  ASSUME InboundInv, Stat
  PROVE  InboundInv'
<1>1. TypeOK'
  BY DEF InboundInv, TypeOK, Stat, loadFrame, Msgs, queues, fates
<1>2. HandOK'
  BY DEF InboundInv, HandOK, InHand, Loading, Stat, loadFrame, Msgs, queues, fates
<1>3. QueuesOK'
  BY DEF InboundInv, QueuesOK, Stat, loadFrame, Msgs, queues, fates
<1>4. CountOK'
  BY DEF InboundInv, CountOK, Pending, Loading, Stat, loadFrame, Msgs, queues, fates
<1>5. FatesOK'
  BY DEF InboundInv, FatesOK, Settled, Loading, Stat, loadFrame, Msgs, queues, fates
<1>6. CacheOK'
  BY DEF InboundInv, CacheOK, JudgedByCurrentRules, Loading, Stat, loadFrame, Msgs, queues, fates
<1>7. QED
  BY <1>1, <1>2, <1>3, <1>4, <1>5, <1>6 DEF InboundInv

(* The allowlist itself is read.                                           *)
LEMMA ReadConfigKeeps ==
  ASSUME InboundInv, ReadConfig
  PROVE  InboundInv'
<1>1. TypeOK'
  BY DEF InboundInv, TypeOK, ReadConfig, loadFrame, Msgs, queues, fates
<1>2. HandOK'
  BY DEF InboundInv, HandOK, InHand, Loading, ReadConfig, loadFrame, Msgs, queues, fates
<1>3. QueuesOK'
  BY DEF InboundInv, QueuesOK, ReadConfig, loadFrame, Msgs, queues, fates
<1>4. CountOK'
  BY DEF InboundInv, CountOK, Pending, Loading, ReadConfig, loadFrame, Msgs, queues, fates
<1>5. FatesOK'
  BY DEF InboundInv, FatesOK, Settled, Loading, ReadConfig, loadFrame, Msgs, queues, fates
<1>6. CacheOK'
  BY InboundAssumption DEF InboundInv, TypeOK, CacheOK, JudgedByCurrentRules, Loading, ReadConfig, loadFrame, Msgs, queues, fates
<1>7. QED
  BY <1>1, <1>2, <1>3, <1>4, <1>5, <1>6 DEF InboundInv

(* The cache gets its mtime.                                               *)
LEMMA StampKeeps ==
  ASSUME InboundInv, Stamp
  PROVE  InboundInv'
<1>1. TypeOK'
  BY DEF InboundInv, TypeOK, Stamp, loadFrame, Msgs, queues, fates
<1>2. HandOK'
  BY DEF InboundInv, HandOK, InHand, Loading, Stamp, loadFrame, Msgs, queues, fates
<1>3. QueuesOK'
  BY DEF InboundInv, QueuesOK, Stamp, loadFrame, Msgs, queues, fates
<1>4. CountOK'
  BY DEF InboundInv, CountOK, Pending, Loading, Stamp, loadFrame, Msgs, queues, fates
<1>5. FatesOK'
  BY DEF InboundInv, FatesOK, Settled, Loading, Stamp, loadFrame, Msgs, queues, fates
<1>6. CacheOK'
  BY DEF InboundInv, TypeOK, CacheOK, JudgedByCurrentRules, Loading, Stamp, loadFrame, Msgs, queues, fates
<1>7. QED
  BY <1>1, <1>2, <1>3, <1>4, <1>5, <1>6 DEF InboundInv

(* The message in hand is judged, and stored or refused.                   *)
LEMMA DecideKeeps ==
  ASSUME InboundInv, Decide
  PROVE  InboundInv'
<1>m. PICK m \in Msgs : m = msg
  BY DEF InboundInv, TypeOK, HandOK, InHand, Loading, Decide
<1>0. /\ m = msg /\ rows[m] \in Nat /\ repeats[m] \in Nat
      /\ Stored(m) \in [Msgs -> Nat]
      /\ Stored(m)[m] = IF m \in HasId THEN 1 ELSE rows[m] + 1
      /\ \A n \in Msgs \ {m} : Stored(m)[n] = rows[n]
      /\ rows' \in {rows, Stored(m)}
  <2>1. m \in Msgs /\ rows \in [Msgs -> Nat] /\ repeats \in [Msgs -> Nat]
    BY DEF InboundInv, TypeOK
  <2>2. QED
    BY <1>m, <2>1 DEF Stored, Decide
<1>d. /\ UNCHANGED <<inbox, post, typed, cliQueue, webQueue, completed, halfRead, lost, repeats>>
      /\ pc = "decide" /\ refused \subseteq refused'
      /\ m \in Files => pc' = "unlink" /\ msg' = m
      /\ m \notin Files => pc' \in {"lines", "posts"} /\ msg' = None
  BY <1>0 DEF Decide, queues
<1>1. TypeOK'
  <2>1. refused' \subseteq Msgs /\ rows' \in [Msgs -> Nat]
    BY <1>0 DEF InboundInv, TypeOK, Decide
  <2>2. QED
    BY <1>0, <2>1, InboundAssumption DEF InboundInv, TypeOK, Decide, queues
<1>2. HandOK'
  BY InboundAssumption DEF InboundInv, HandOK, InHand, Loading, Decide, Stored, Msgs, queues
<1>3. QueuesOK'
  BY DEF InboundInv, QueuesOK, Decide, Stored, Msgs, queues
<1>4. CountOK'
  <2>1. ~Pending(m)'
    <3>1. m \notin ToSet(cliQueue) \cup ToSet(webQueue)
      BY <1>0, InboundAssumption DEF InboundInv, TypeOK, HandOK, QueuesOK, Msgs, ToSet
    <3>2. CASE m \in Files
      BY <1>0, <1>d, <3>1, <3>2, InboundAssumption DEF InboundInv, HandOK, FatesOK, Pending
    <3>3. CASE m \in Lines \cup Posts
      BY <1>0, <1>d, <3>1, <3>3, InboundAssumption DEF InboundInv, HandOK, Pending, Msgs
    <3>4. QED
      BY <3>2, <3>3 DEF Msgs
  <2>2. Pending(m)
    BY <1>0, InboundAssumption DEF InboundInv, HandOK, Pending, Decide, Msgs
  <2>3. \A n \in Msgs \ {m} : Pending(n)' => Pending(n)
    BY <1>0, <1>d, InboundAssumption DEF Pending
  <2>4. UNCHANGED repeats
    BY DEF Decide
  <2>5. /\ m \in HasId => rows'[m] <= 1
        /\ m \notin HasId => rows'[m] <= 1 + repeats[m]
    BY <1>0, <2>2 DEF InboundInv, CountOK
  <2>6. \A n \in Msgs \ {m} : rows'[n] = rows[n]
    BY <1>0
  <2>7. QED
    BY <2>1, <2>3, <2>4, <2>5, <2>6 DEF InboundInv, CountOK
<1>5. FatesOK'
  <2>1. Settled(m)'
    BY <1>0 DEF Settled, Decide
  <2>2. \A n \in Msgs : Settled(n) => Settled(n)'
    <3>1. ASSUME NEW n \in Msgs, rows[n] > 0 PROVE rows'[n] > 0
      <4>1. rows[n] \in Nat
        BY DEF InboundInv, TypeOK
      <4>2. CASE n = m
        BY <1>0, <3>1, <4>1, <4>2
      <4>3. CASE n # m
        BY <1>0, <3>1, <4>3
      <4>4. QED
        BY <4>2, <4>3
    <3>2. QED
      BY <1>d, <3>1 DEF Settled
  <2>3. UNCHANGED <<inbox, completed, halfRead, typed, queues, lost, post>>
    BY DEF Decide
  <2>4. msg' \in {m, None} /\ (pc' = "unlink" => msg' = m)
    BY <1>d
  <2>5. Files \cup Lines \cup Posts \subseteq Msgs /\ completed \subseteq Files /\ typed \subseteq Lines
    BY DEF InboundInv, TypeOK, Msgs, HandOK, Decide, InHand, Loading
  <2>6. QED
    BY <1>0, <2>1, <2>2, <2>3, <2>4, <2>5, InboundAssumption DEF InboundInv, FatesOK, queues
<1>6. CacheOK'
  BY DEF InboundInv, CacheOK, JudgedByCurrentRules, Loading, Decide, Stored, Msgs, queues
<1>7. QED
  BY <1>1, <1>2, <1>3, <1>4, <1>5, <1>6 DEF InboundInv

(* The file of the message is removed.                                     *)
LEMMA UnlinkKeeps ==
  ASSUME InboundInv, Unlink
  PROVE  InboundInv'
<1>1. TypeOK'
  BY DEF InboundInv, TypeOK, Unlink, pollFrame, Msgs, allowlist, queues, fates
<1>2. HandOK'
  BY InboundAssumption DEF InboundInv, HandOK, InHand, Loading, Unlink, pollFrame, Msgs, allowlist, queues, fates
<1>3. QueuesOK'
  BY DEF InboundInv, QueuesOK, Unlink, pollFrame, Msgs, allowlist, queues, fates
<1>4. CountOK'
  BY InboundAssumption DEF InboundInv, TypeOK, CountOK, Pending, Loading, Unlink, pollFrame, Msgs, allowlist, queues, fates
<1>5. FatesOK'
  BY DEF InboundInv, FatesOK, Settled, Loading, Unlink, pollFrame, Msgs, allowlist, queues, fates
<1>6. CacheOK'
  BY DEF InboundInv, CacheOK, JudgedByCurrentRules, Loading, Unlink, pollFrame, Msgs, allowlist, queues, fates
<1>7. QED
  BY <1>1, <1>2, <1>3, <1>4, <1>5, <1>6 DEF InboundInv

(* The process is gone, with its queues and what it had in hand.           *)
LEMMA MemoryLostKeeps ==
  ASSUME InboundInv, MemoryLost, stops' \in 0 .. MaxStops
  PROVE  InboundInv'
<1>1. TypeOK'
  <2>1. repeats' \in [Msgs -> Nat] /\ post' \in [Posts -> {"new", "put", "accepted"}]
    BY DEF InboundInv, TypeOK, MemoryLost
  <2>2. /\ lost' \subseteq Msgs /\ cliQueue' \in Seq(Lines) /\ webQueue' \in Seq(Posts)
    BY EmptyQueue DEF InboundInv, TypeOK, MemoryLost, Msgs, ToSet
  <2>3. mtime' \in 0 .. MaxEdits
    BY InboundAssumption DEF MemoryLost
  <2>4. QED
    BY <2>1, <2>2, <2>3, InboundAssumption DEF InboundInv, TypeOK, MemoryLost
<1>2. HandOK'
  BY InboundAssumption, EmptyQueue DEF InboundInv, HandOK, InHand, Loading, MemoryLost, Msgs
<1>3. QueuesOK'
  BY EmptyQueue DEF InboundInv, QueuesOK, MemoryLost, Msgs
<1>4. CountOK'
  BY InboundAssumption, EmptyQueue DEF InboundInv, TypeOK, CountOK, Pending, Loading, MemoryLost, Msgs
<1>5. FatesOK'
  BY EmptyQueue DEF InboundInv, TypeOK, FatesOK, Settled, Loading, MemoryLost, Msgs
<1>6. CacheOK'
  BY EmptyQueue DEF InboundInv, TypeOK, CacheOK, JudgedByCurrentRules, Loading, MemoryLost, Msgs
<1>7. QED
  BY <1>1, <1>2, <1>3, <1>4, <1>5, <1>6 DEF InboundInv

(* A shutdown.                                                             *)
LEMMA ShutdownKeeps ==
  ASSUME InboundInv, Shutdown
  PROVE  InboundInv'
<1>1. TypeOK'
  BY InboundAssumption DEF InboundInv, TypeOK, Shutdown, StopSome, Msgs, allowlist, queues, fates
<1>2. HandOK'
  BY DEF InboundInv, HandOK, InHand, Loading, Shutdown, StopSome, Msgs, allowlist, queues, fates
<1>3. QueuesOK'
  BY DEF InboundInv, QueuesOK, Shutdown, StopSome, Msgs, allowlist, queues, fates
<1>4. CountOK'
  BY DEF InboundInv, CountOK, Pending, Loading, Shutdown, StopSome, Msgs, allowlist, queues, fates
<1>5. FatesOK'
  BY DEF InboundInv, FatesOK, Settled, Loading, Shutdown, StopSome, Msgs, allowlist, queues, fates
<1>6. CacheOK'
  BY DEF InboundInv, CacheOK, JudgedByCurrentRules, Loading, Shutdown, StopSome, Msgs, allowlist, queues, fates
<1>7. QED
  BY <1>1, <1>2, <1>3, <1>4, <1>5, <1>6 DEF InboundInv

(* A start.                                                                *)
LEMMA StartKeeps ==
  ASSUME InboundInv, Start
  PROVE  InboundInv'
<1>1. TypeOK'
  BY DEF InboundInv, TypeOK, Start, pollFrame, Msgs, allowlist, queues, fates
<1>2. HandOK'
  BY DEF InboundInv, HandOK, InHand, Loading, Start, pollFrame, Msgs, allowlist, queues, fates
<1>3. QueuesOK'
  BY DEF InboundInv, QueuesOK, Start, pollFrame, Msgs, allowlist, queues, fates
<1>4. CountOK'
  BY DEF InboundInv, CountOK, Pending, Loading, Start, pollFrame, Msgs, allowlist, queues, fates
<1>5. FatesOK'
  BY DEF InboundInv, FatesOK, Settled, Loading, Start, pollFrame, Msgs, allowlist, queues, fates
<1>6. CacheOK'
  BY DEF InboundInv, CacheOK, JudgedByCurrentRules, Loading, Start, pollFrame, Msgs, allowlist, queues, fates
<1>7. QED
  BY <1>1, <1>2, <1>3, <1>4, <1>5, <1>6 DEF InboundInv

-----------------------------------------------------------------------------
(* Nothing has come in yet.                                                *)
LEMMA InitHolds ==
  Init => InboundInv
<1> SUFFICES ASSUME Init PROVE InboundInv
  OBVIOUS
<1>1. TypeOK /\ QueuesOK
  <2>1. /\ cliQueue \in Seq(Lines) /\ webQueue \in Seq(Posts)
        /\ ToSet(cliQueue) = {} /\ ToSet(webQueue) = {} /\ QueuesOK
    BY EmptyQueue DEF Init, QueuesOK
  <2>2. 0 \in 0 .. MaxStops /\ 1 \in 1 .. MaxEdits /\ 0 \in 0 .. MaxEdits
    BY InboundAssumption
  <2>3. QED
    BY <2>1, <2>2 DEF Init, TypeOK
<1>2. HandOK /\ CountOK /\ FatesOK /\ CacheOK
  BY EmptyQueue, InboundAssumption
    DEF Init, HandOK, CountOK, FatesOK, CacheOK, JudgedByCurrentRules, InHand, Loading, Msgs
<1>3. QED
  BY <1>1, <1>2 DEF InboundInv

(* The invariant is inductive.                                             *)
LEMMA NextKeeps ==
  InboundInv /\ [Next]_vars => InboundInv'
<1> SUFFICES ASSUME InboundInv, [Next]_vars PROVE InboundInv'
  OBVIOUS
<1>1. CASE \E f \in Files : Drop(f) \/ Complete(f)
  BY <1>1, DropKeeps, CompleteKeeps
<1>2. CASE \E p \in Posts : Post(p) \/ Answer(p)
  BY <1>2, PostKeeps, AnswerKeeps
<1>3. CASE \E l \in Lines : Type(l)
  BY <1>3, TypeKeeps
<1>4. CASE \E v \in Versions \cup {NoFile} : Edit(v)
  BY <1>4, EditKeeps
<1>5. CASE Loop
  BY <1>5, BeginPollKeeps, EndOfFilesKeeps, ReadVoidKeeps, ReadPoisonKeeps, ReadFileKeeps,
     ReadLineKeeps, EndOfLinesKeeps, ReadPostKeeps, EndOfPostsKeeps,
     StatKeeps, ReadConfigKeeps, StampKeeps, DecideKeeps, UnlinkKeeps DEF Loop
<1>6. CASE Crash \/ Exit
  <2>1. MemoryLost /\ stops' \in 0 .. MaxStops
    BY <1>6, InboundAssumption DEF Crash, Exit, StopSome, InboundInv, TypeOK
  <2>2. QED
    BY <2>1, MemoryLostKeeps
<1>7. CASE Shutdown
  BY <1>7, ShutdownKeeps
<1>8. CASE Start
  BY <1>8, StartKeeps
<1>9. CASE UNCHANGED vars
  BY <1>9
    DEF vars, queues, allowlist, poll, fates, InboundInv, TypeOK, HandOK, QueuesOK,
        CountOK, Pending, FatesOK, Settled, CacheOK, JudgedByCurrentRules
<1>10. QED
  BY <1>1, <1>2, <1>3, <1>4, <1>5, <1>6, <1>7, <1>8, <1>9 DEF Next

-----------------------------------------------------------------------------
(* All of it.                                                              *)
THEOREM Invariance == Spec => []InboundInv
BY InitHolds, NextKeeps, PTL DEF Spec

(* Every variable keeps its type.                                          *)
THEOREM TypeCorrect == Spec => []TypeOK
<1>1. InboundInv => TypeOK
  BY DEF InboundInv
<1>2. QED
  BY <1>1, Invariance, PTL

(* A message with an id is stored once; any other once more at most for    *)
(* each crash that hit between its storing and the removal of its file, or *)
(* before its client had the answer.                                       *)
THEOREM StoredOnce == Spec => []NoDuplicates
<1>1. InboundInv => NoDuplicates
  BY DEF InboundInv, CountOK, NoDuplicates
<1>2. QED
  BY <1>1, Invariance, PTL

(* What came in is somewhere: in its file, in a queue, in hand, stored or  *)
(* refused, unless the process ended with it in memory or its file was     *)
(* read too early.                                                         *)
THEOREM NothingIsLost == Spec => []NothingVanishes
<1>1. InboundInv => NothingVanishes
  <2> SUFFICES ASSUME InboundInv,
                      NEW m \in completed \cup typed \cup {p \in Posts : post[p] = "accepted"}
               PROVE  InSight(m) \/ m \in (lost \ Files) \cup halfRead
    BY DEF NothingVanishes
  <2>1. completed \subseteq Files /\ typed \subseteq Lines
    BY DEF InboundInv, TypeOK
  <2>2. CASE m \in completed
    BY <2>1, <2>2 DEF InboundInv, FatesOK, Settled, InSight
  <2>3. CASE m \in typed
    BY <2>1, <2>3, InboundAssumption DEF InboundInv, FatesOK, Settled, InSight
  <2>4. CASE m \in Posts /\ post[m] = "accepted"
    BY <2>4, InboundAssumption DEF InboundInv, FatesOK, Settled, InSight
  <2>5. QED
    BY <2>2, <2>3, <2>4
<1>2. QED
  BY <1>1, Invariance, PTL

(* A message is judged by rules that held since it was taken, but for the  *)
(* two exceptions of the cache: no file, and an edit between the reading   *)
(* of the file and that of its mtime.                                      *)
THEOREM CurrentRules == Spec => []JudgedByCurrentRules
<1>1. InboundInv => JudgedByCurrentRules
  BY DEF InboundInv, CacheOK
<1>2. QED
  BY <1>1, Invariance, PTL
=============================================================================
