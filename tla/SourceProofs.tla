---------------------------- MODULE SourceProofs ----------------------------
(***************************************************************************)
(* Proofs about Source, for every set of partitions, every log length and  *)
(* every setting of the other constants.                                   *)
(***************************************************************************)
EXTENDS Source, FiniteSetTheorems, SequenceTheorems, TLAPS

(***************************************************************************)
(* The operators on the producer's queues.                                 *)
(***************************************************************************)

\* A record handed to the producer makes a well-formed entry.
LEMMA NewEntryType ==
    ASSUME NEW o \in Offsets, NEW isRetry \in BOOLEAN
    PROVE  NewEntry(o, isRetry) \in Entries
BY DEF NewEntry, Entries

\* Settling an entry of a queue changes that entry's result and nothing else.
LEMMA SettleFacts ==
    ASSUME NEW q \in Seq(Entries), NEW i \in DOMAIN q,
           NEW res \in {"ok", "err"}, NEW at \in Nat
    PROVE  /\ Settle(q, i, res, at) \in Seq(Entries)
           /\ DOMAIN Settle(q, i, res, at) = DOMAIN q
           /\ \A j \in DOMAIN q : j # i => Settle(q, i, res, at)[j] = q[j]
           /\ Settle(q, i, res, at)[i].off = q[i].off
           /\ Settle(q, i, res, at)[i].retry = q[i].retry
           /\ Settle(q, i, res, at)[i].res = res
           /\ Settle(q, i, res, at)[i].at = at
<1>1. q[i] \in Entries
  BY ElementOfSeq
<1> DEFINE e == [q[i] EXCEPT !.res = res, !.at = at]
<1>2. /\ e \in Entries
      /\ e.off = q[i].off /\ e.retry = q[i].retry /\ e.res = res /\ e.at = at
  BY <1>1 DEF Entries
<1>3. Settle(q, i, res, at) = [q EXCEPT ![i] = e]
  BY DEF Settle
<1> HIDE DEF e
<1> QED
  BY <1>2, <1>3, ExceptSeq

\* The head of a non-empty queue is an entry of a record of that partition.
LEMMA HeadFacts ==
    ASSUME TypeOK, NEW p \in Partitions, buffer[p] # <<>>
    PROVE  /\ buffer[p] \in Seq(Entries)
           /\ Head(buffer[p]) \in Entries
           /\ Head(buffer[p]) = buffer[p][1]
           /\ 1 \in DOMAIN buffer[p]
           /\ Tail(buffer[p]) \in Seq(Entries)
           /\ \A j \in DOMAIN Tail(buffer[p]) :
                 j + 1 \in DOMAIN buffer[p] /\ Tail(buffer[p])[j] = buffer[p][j + 1]
           /\ <<p, Head(buffer[p]).off>> \in Records
<1>1. buffer[p] \in Seq(Entries)
  BY DEF TypeOK
<1>2. Head(buffer[p]) \in Entries /\ Tail(buffer[p]) \in Seq(Entries)
  BY <1>1, HeadTailProperties
<1>3. Head(buffer[p]).off \in Offsets
  BY <1>2 DEF Entries
<1> QED
  BY <1>1, <1>2, <1>3, HeadTailProperties, LenProperties DEF Records

\* The number of records a poll returns is a number.
LEMMA PolledFinite ==
    ASSUME NEW next
    PROVE  Cardinality(Polled(next)) \in Nat
<1>1. IsFiniteSet(Offsets)
  BY SourceAssumption, FS_Interval DEF Offsets
<1>2. IsFiniteSet(Records)
  BY <1>1, SourceAssumption, FS_Product DEF Records
<1>3. IsFiniteSet(Polled(next))
  BY <1>2, FS_Subset DEF Polled
<1> QED
  BY <1>3, FS_CardinalityType

\* The entries a poll adds to the queue of a partition.
LEMMA PolledEntries ==
    ASSUME TypeOK, NEW next \in [Partitions -> 0 .. LogEnd], NEW p \in Partitions,
           position[p] <= next[p]
    PROVE  [i \in 1 .. next[p] - position[p] |-> NewEntry(position[p] + i - 1, FALSE)]
               \in Seq(Entries)
<1>1. position[p] \in 0 .. LogEnd /\ next[p] \in 0 .. LogEnd
  BY DEF TypeOK
<1>2. next[p] - position[p] \in Nat
  BY <1>1, SourceAssumption
<1>3. \A i \in 1 .. next[p] - position[p] : NewEntry(position[p] + i - 1, FALSE) \in Entries
  <2> TAKE i \in 1 .. next[p] - position[p]
  <2>1. position[p] + i - 1 \in Offsets
    BY <1>1, SourceAssumption DEF Offsets
  <2> QED
    BY <2>1, NewEntryType
<1> DEFINE n == next[p] - position[p]
           new == [i \in 1 .. n |-> NewEntry(position[p] + i - 1, FALSE)]
<1>4. new \in [1 .. n -> Entries]
  BY <1>3
<1>5. n \in Nat
  BY <1>2
<1> HIDE DEF n, new
<1>6. new \in Seq(Entries)
  BY <1>4, <1>5
<1> QED
  BY <1>6 DEF n, new

(***************************************************************************)
(* Type correctness.                                                       *)
(***************************************************************************)

\* The initial state is well typed.
LEMMA TypeInit == Init => TypeOK
<1> SUFFICES ASSUME Init PROVE TypeOK
  OBVIOUS
<1>1. /\ committed \in [Partitions -> 0 .. LogEnd]
      /\ position \in [Partitions -> 0 .. LogEnd]
      /\ sinceSync \in 0 .. SyncInterval - 1
      /\ starts \in 0 .. MaxStarts
  BY SourceAssumption DEF Init
<1>2. /\ target \in [Partitions -> Seq(Offsets)]
      /\ buffer \in [Partitions -> Seq(Entries)]
  <2>1. <<>> \in Seq(Offsets) /\ <<>> \in Seq(Entries)
    BY EmptySeq
  <2> QED
    BY <2>1 DEF Init
<1> QED
  BY <1>1, <1>2 DEF Init, TypeOK

\* GiveUp changes its five variables within their types.
LEMMA GiveUpType ==
    ASSUME TypeOK, NEW r \in Records, GiveUp(r)
    PROVE  /\ produceErrors' \in Nat
           /\ gaveUp' \subseteq Records
           /\ dlqPending' \subseteq Records
           /\ inflight' \subseteq Records
           /\ retrying' \in [Records -> {"no", "waiting", "backoff"}]
BY DEF GiveUp, TypeOK

\* Every promise keeps the variables of the producer within their types.
LEMMA PromiseType ==
    ASSUME TypeOK, Promise
    PROVE  TypeOK'
<1>1. PICK p \in Partitions :
        /\ buffer[p] # <<>>
        /\ Acked(p) \/ FirstFailed(p) \/ RetryAcked(p) \/ RetryFailed(p)
  BY DEF Promise
<1> DEFINE e == Head(buffer[p])
           r == <<p, e.off>>
<1>2. /\ e \in Entries
      /\ Tail(buffer[p]) \in Seq(Entries)
      /\ r \in Records
  BY <1>1, HeadFacts
<1>3. e.off \in Offsets /\ e.at \in Nat
  BY <1>2 DEF Entries
<1>4. [part |-> p, up |-> e.off, down |-> e.at] \in Syncs
  BY <1>3 DEF Syncs
<1>5. HandleSync(p, e) => lastSync' \in [Partitions -> Syncs \cup {NoSync}]
  BY <1>4 DEF HandleSync, TypeOK
<1>6. CountSync(p, e) => /\ sinceSync' \in 0 .. SyncInterval - 1
                         /\ syncWrites' \subseteq Syncs
  BY <1>4, SourceAssumption DEF CountSync, TypeOK
<1>7. GiveUp(r) => /\ produceErrors' \in Nat
                   /\ gaveUp' \subseteq Records
                   /\ dlqPending' \subseteq Records
                   /\ inflight' \subseteq Records
                   /\ retrying' \in [Records -> {"no", "waiting", "backoff"}]
  BY <1>2, GiveUpType
<1>8. [buffer EXCEPT ![p] = Tail(@)] \in [Partitions -> Seq(Entries)]
  BY <1>2 DEF TypeOK
<1>9. Append(Tail(buffer[p]), NewEntry(e.off, TRUE)) \in Seq(Entries)
  BY <1>2, <1>3, NewEntryType, AppendProperties
<1>10. [buffer EXCEPT ![p] = Append(Tail(@), NewEntry(e.off, TRUE))]
          \in [Partitions -> Seq(Entries)]
  BY <1>9 DEF TypeOK
<1>11. UNCHANGED <<clusterVars, procVars, loopVars>>
  BY DEF Promise
<1> HIDE DEF e, r
<1>12. CASE Acked(p)
  <2>1. /\ buffer' = [buffer EXCEPT ![p] = Tail(@)]
        /\ HandleSync(p, e)
        /\ CountSync(p, e)
        /\ inflight' = inflight \ {r}
        /\ UNCHANGED <<produceErrors, retrying, attempt, dlqPending, gaveUp>>
    BY <1>12 DEF Acked, e, r
  <2> QED
    BY <2>1, <1>5, <1>6, <1>8, <1>11 DEF TypeOK, clusterVars, procVars, loopVars
<1>13. CASE FirstFailed(p)
  <2>1. CASE cancelled \/ MaxRetries < 0
    <3>1. /\ buffer' = [buffer EXCEPT ![p] = Tail(@)]
          /\ GiveUp(r)
          /\ UNCHANGED <<attempt, syncWrites, sinceSync, lastSync>>
      BY <1>13, <2>1 DEF FirstFailed, e, r
    <3> QED
      BY <3>1, <1>7, <1>8, <1>11 DEF TypeOK, clusterVars, procVars, loopVars
  <2>2. CASE ~(cancelled \/ MaxRetries < 0)
    <3>1. /\ buffer' = [buffer EXCEPT ![p] = Append(Tail(@), NewEntry(e.off, TRUE))]
          /\ retrying' = [retrying EXCEPT ![r] = "waiting"]
          /\ attempt' = [attempt EXCEPT ![r] = 0]
          /\ UNCHANGED <<produceErrors, gaveUp, dlqPending, inflight,
                         syncWrites, sinceSync, lastSync>>
      BY <1>13, <2>2 DEF FirstFailed, e, r
    <3> QED
      BY <3>1, <1>2, <1>10, <1>11 DEF TypeOK, clusterVars, procVars, loopVars
  <2> QED
    BY <2>1, <2>2
<1>14. CASE RetryAcked(p)
  <2>1. /\ buffer' = [buffer EXCEPT ![p] = Tail(@)]
        /\ HandleSync(p, e)
        /\ inflight' = inflight \ {r}
        /\ retrying' = [retrying EXCEPT ![r] = "no"]
        /\ UNCHANGED <<produceErrors, syncWrites, sinceSync, attempt, dlqPending, gaveUp>>
    BY <1>14 DEF RetryAcked, e, r
  <2> QED
    BY <2>1, <1>5, <1>8, <1>11 DEF TypeOK, clusterVars, procVars, loopVars
<1>15. CASE RetryFailed(p)
  <2>1. /\ buffer' = [buffer EXCEPT ![p] = Tail(@)]
        /\ \/ GiveUp(r)
           \/ /\ retrying' = [retrying EXCEPT ![r] = "backoff"]
              /\ UNCHANGED <<produceErrors, gaveUp, dlqPending, inflight>>
        /\ UNCHANGED <<syncWrites, sinceSync, lastSync, attempt>>
    BY <1>15 DEF RetryFailed, e, r
  <2> QED
    BY <2>1, <1>7, <1>8, <1>11 DEF TypeOK, clusterVars, procVars, loopVars
<1> QED
  BY <1>1, <1>12, <1>13, <1>14, <1>15

\* A broker step keeps the queues and the target logs within their types.
LEMMA BrokerType ==
    ASSUME TypeOK, Broker
    PROVE  TypeOK'
<1>0. PICK p \in Partitions :
        \E i \in DOMAIN buffer[p] : BrokerWrite(p, i) \/ BrokerReject(p, i)
  BY DEF Broker
<1>1. PICK i \in DOMAIN buffer[p] : BrokerWrite(p, i) \/ BrokerReject(p, i)
  BY <1>0
<1>2. buffer[p] \in Seq(Entries) /\ target[p] \in Seq(Offsets)
  BY DEF TypeOK
<1>3. buffer[p][i].off \in Offsets
  <2>1. buffer[p][i] \in Entries
    BY <1>2, ElementOfSeq, LenProperties
  <2> QED
    BY <2>1 DEF Entries
<1>4. Len(target[p]) \in Nat /\ Append(target[p], buffer[p][i].off) \in Seq(Offsets)
  BY <1>2, <1>3, AppendProperties, LenProperties
<1>5. \A res \in {"ok", "err"}, at \in Nat : Settle(buffer[p], i, res, at) \in Seq(Entries)
  BY <1>2, SettleFacts
<1>6. UNCHANGED <<committed, deadLetters, syncTopic, procVars, loopVars,
                  produceErrors, inflight, syncWrites, sinceSync, lastSync,
                  retrying, attempt, dlqPending, gaveUp>>
  BY DEF Broker
<1>7. target' \in [Partitions -> Seq(Offsets)] /\ buffer' \in [Partitions -> Seq(Entries)]
  <2>1. CASE BrokerWrite(p, i)
    <3>1. PICK res \in {"ok", "err"} :
            buffer' = [buffer EXCEPT ![p] = Settle(@, i, res, Len(target[p]))]
      BY <2>1 DEF BrokerWrite
    <3>2. target' = [target EXCEPT ![p] = Append(@, buffer[p][i].off)]
      BY <2>1 DEF BrokerWrite
    <3> QED
      BY <3>1, <3>2, <1>4, <1>5 DEF TypeOK
  <2>2. CASE BrokerReject(p, i)
    <3>1. buffer' = [buffer EXCEPT ![p] = Settle(@, i, "err", 0)] /\ target' = target
      BY <2>2 DEF BrokerReject
    <3> QED
      BY <3>1, <1>5 DEF TypeOK
  <2> QED
    BY <1>1, <2>1, <2>2
<1> QED
  BY <1>6, <1>7 DEF TypeOK, procVars, loopVars

\* Every step keeps the variables within their types.
LEMMA TypeStep == TypeOK /\ [Next]_vars => TypeOK'
<1> SUFFICES ASSUME TypeOK, [Next]_vars PROVE TypeOK'
  OBVIOUS
<1> USE DEF clusterVars, procVars, loopVars, prodVars
<1>1. CASE Start
  <2>1. ResumeOffset \in [Partitions -> 0 .. LogEnd]
    BY DEF TypeOK, ResumeOffset
  <2>2. starts' \in 0 .. MaxStarts /\ sinceSync' \in 0 .. SyncInterval - 1
    BY <1>1, SourceAssumption DEF Start, TypeOK
  <2>3. buffer' \in [Partitions -> Seq(Entries)]
    <3>1. <<>> \in Seq(Entries)
      BY EmptySeq
    <3> QED
      BY <1>1, <3>1 DEF Start
  <2> QED
    BY <1>1, <2>1, <2>2, <2>3 DEF Start, TypeOK
<1>2. CASE Crash
  BY <1>2 DEF Crash, TypeOK
<1>3. CASE UpdateTopics
  BY <1>3 DEF UpdateTopics, TypeOK
<1>4. CASE Select
  BY <1>4 DEF Select, TypeOK
<1>5. CASE PollNothing
  BY <1>5 DEF PollNothing, TypeOK
<1>6. CASE PollAndProduce
  <2>1. PICK next \in [Partitions -> 0 .. LogEnd] :
          /\ \A p \in Partitions : next[p] \in position[p] .. position[p] + MaxPoll
          /\ position' = next
          /\ inflight' = inflight \cup Polled(next)
          /\ buffer' = [p \in Partitions |->
                          buffer[p] \o [i \in 1 .. next[p] - position[p] |->
                                          NewEntry(position[p] + i - 1, FALSE)]]
          /\ sinceCommit' = sinceCommit + Cardinality(Polled(next))
    BY <1>6 DEF PollAndProduce, Batch
  <2>2. buffer' \in [Partitions -> Seq(Entries)]
    <3> SUFFICES ASSUME NEW p \in Partitions
                 PROVE  buffer[p] \o [i \in 1 .. next[p] - position[p] |->
                                         NewEntry(position[p] + i - 1, FALSE)]
                            \in Seq(Entries)
      BY <2>1
    <3>1. position[p] <= next[p]
      BY <2>1, SourceAssumption DEF TypeOK
    <3>2. buffer[p] \in Seq(Entries)
      BY DEF TypeOK
    <3> QED
      BY <3>1, <3>2, PolledEntries, ConcatProperties
  <2>3. sinceCommit' \in Nat
    BY <2>1, PolledFinite DEF TypeOK
  <2>4. inflight' \subseteq Records
    BY <2>1 DEF TypeOK, Polled
  <2> QED
    BY <1>6, <2>1, <2>2, <2>3, <2>4 DEF PollAndProduce, TypeOK
<1>7. CASE FlushAndCheck
  BY <1>7 DEF FlushAndCheck, TypeOK
<1>8. CASE DrainAndSwap
  BY <1>8 DEF DrainAndSwap, TypeOK
<1>9. CASE Commit
  BY <1>9 DEF Commit, TypeOK
<1>10. CASE Broker
  BY <1>10, BrokerType
<1>11. CASE Promise
  BY <1>11, PromiseType
<1>12. CASE Backoff
  <2>1. PICK r \in Records :
          /\ retrying[r] = "backoff"
          /\ IF cancelled
             THEN /\ GiveUp(r)
                  /\ UNCHANGED <<buffer, attempt>>
             ELSE /\ buffer' = [buffer EXCEPT ![r[1]] = Append(@, NewEntry(r[2], TRUE))]
                  /\ attempt' = [attempt EXCEPT ![r] = @ + 1]
                  /\ retrying' = [retrying EXCEPT ![r] = "waiting"]
                  /\ UNCHANGED <<produceErrors, gaveUp, dlqPending, inflight>>
    BY <1>12 DEF Backoff
  <2>2. r[1] \in Partitions /\ r[2] \in Offsets
    BY DEF Records
  <2>3. Append(buffer[r[1]], NewEntry(r[2], TRUE)) \in Seq(Entries)
    BY <2>2, NewEntryType, AppendProperties DEF TypeOK
  <2>4. CASE cancelled
    BY <1>12, <2>1, <2>4, GiveUpType DEF Backoff, TypeOK
  <2>5. CASE ~cancelled
    <3>0. /\ buffer' = [buffer EXCEPT ![r[1]] = Append(buffer[r[1]], NewEntry(r[2], TRUE))]
          /\ attempt' = [attempt EXCEPT ![r] = attempt[r] + 1]
          /\ retrying' = [retrying EXCEPT ![r] = "waiting"]
          /\ UNCHANGED <<produceErrors, gaveUp, dlqPending, inflight>>
      BY <2>1, <2>5
    <3>1. buffer' \in [Partitions -> Seq(Entries)]
      <4> DEFINE q == Append(buffer[r[1]], NewEntry(r[2], TRUE))
      <4>1. buffer' = [buffer EXCEPT ![r[1]] = q]
        BY <3>0
      <4>2. q \in Seq(Entries)
        BY <2>3
      <4> HIDE DEF q
      <4> QED
        BY <4>1, <4>2, <2>2 DEF TypeOK
    <3>2. /\ attempt' \in [Records -> Nat]
          /\ retrying' \in [Records -> {"no", "waiting", "backoff"}]
      BY <3>0 DEF TypeOK
    <3>3. UNCHANGED <<clusterVars, procVars, loopVars, syncWrites, sinceSync, lastSync>>
      BY <1>12 DEF Backoff
    <3> QED
      BY <3>0, <3>1, <3>2, <3>3 DEF TypeOK
  <2> QED
    BY <2>4, <2>5
<1>13. CASE SyncWritten
  BY <1>13 DEF SyncWritten, TypeOK
<1>14. CASE DLQProduced
  BY <1>14 DEF DLQProduced, TypeOK
<1>15. CASE StopBegin
  BY <1>15 DEF StopBegin, TypeOK
<1>16. CASE StopEnd
  BY <1>16 DEF StopEnd, TypeOK
<1>17. CASE UNCHANGED vars
  BY <1>17 DEF vars, TypeOK
<1> QED
  BY <1>1, <1>2, <1>3, <1>4, <1>5, <1>6, <1>7, <1>8, <1>9, <1>10, <1>11, <1>12,
     <1>13, <1>14, <1>15, <1>16, <1>17 DEF Next

\* The replicator is type correct: in particular recordsSinceSync stays below its
\* interval, and no callback puts a record in a queue that is not its own.
THEOREM TypeCorrect == Spec => []TypeOK
BY TypeInit, TypeStep, PTL DEF Spec

(***************************************************************************)
(* Nothing is committed that is merely in flight.                          *)
(*                                                                         *)
(* CommittedIsSettled is not inductive: what makes a commit safe is what   *)
(* held when inflight.Wait() returned, and what the callbacks did before.  *)
(* The four conditions below say so.                                       *)
(***************************************************************************)

\* The consumer of a live process is never behind the group's offsets.
NeverBehind == proc = "up" => \A p \in Partitions : committed[p] <= position[p]

\* An acknowledgement in a producer queue has its copy on the target.
AckedIsCopied ==
    \A p \in Partitions : \A i \in DOMAIN buffer[p] :
        buffer[p][i].res = "ok" => OnTarget(p, buffer[p][i].off)

\* Every record consumed is copied, given up or in flight.
ConsumedIsHandled ==
    proc = "up" => \A p \in Partitions : \A o \in 0 .. position[p] - 1 :
        OnTarget(p, o) \/ <<p, o>> \in gaveUp \/ <<p, o>> \in inflight

\* Nothing is in flight between the swap and the commit.
QuietAtCommit == proc = "up" /\ loop = "commit" => inflight = {}

SettledInv ==
    /\ TypeOK
    /\ NeverBehind
    /\ CommittedIsSettled
    /\ AckedIsCopied
    /\ ConsumedIsHandled
    /\ QuietAtCommit

\* The target only grows: a copy stays.
LEMMA CopiesStay ==
    ASSUME TypeOK, [Next]_vars, NEW p \in Partitions, NEW o, OnTarget(p, o)
    PROVE  OnTarget(p, o)'
<1>1. CASE UNCHANGED target
  BY <1>1 DEF OnTarget
<1>2. CASE Broker
  <2>0. PICK q \in Partitions :
          \E i \in DOMAIN buffer[q] : BrokerWrite(q, i) \/ BrokerReject(q, i)
    BY <1>2 DEF Broker
  <2>1. PICK i \in DOMAIN buffer[q] : BrokerWrite(q, i) \/ BrokerReject(q, i)
    BY <2>0
  <2>2. CASE BrokerReject(q, i)
    BY <2>2, <1>1 DEF BrokerReject
  <2>3. CASE BrokerWrite(q, i)
    <3>1. target' = [target EXCEPT ![q] = Append(target[q], buffer[q][i].off)]
      BY <2>3 DEF BrokerWrite
    <3>2. PICK k \in DOMAIN target[p] : target[p][k] = o
      BY DEF OnTarget
    <3>3. target[p] \in Seq(Offsets)
      BY DEF TypeOK
    <3>4. buffer[q][i].off \in Offsets
      <4>1. buffer[q] \in Seq(Entries)
        BY DEF TypeOK
      <4>2. buffer[q][i] \in Entries
        BY <4>1, ElementOfSeq, LenProperties
      <4> QED
        BY <4>2 DEF Entries
    <3>5. k \in DOMAIN Append(target[p], buffer[q][i].off)
          /\ Append(target[p], buffer[q][i].off)[k] = o
      BY <3>2, <3>3, <3>4, AppendProperties, LenProperties
    <3>6. target'[p] = target[p] \/ target'[p] = Append(target[p], buffer[q][i].off)
      BY <3>1 DEF TypeOK
    <3> QED
      BY <3>2, <3>5, <3>6 DEF OnTarget
  <2> QED
    BY <2>1, <2>2, <2>3
<1>3. Broker \/ UNCHANGED target
  BY DEF Next, vars, clusterVars, Start, Crash, UpdateTopics, Select, PollNothing,
         PollAndProduce, FlushAndCheck, DrainAndSwap, Commit, Promise, Backoff,
         SyncWritten, DLQProduced, StopBegin, StopEnd
<1> QED
  BY <1>1, <1>2, <1>3

\* A step that leaves alone what SettledInv speaks of preserves it.
LEMMA SettledFrame ==
    ASSUME SettledInv, TypeOK',
           UNCHANGED <<committed, target, gaveUp, position, inflight, buffer>>,
           proc' = "up" => proc = "up", loop' = "commit" => loop = "commit"
    PROVE  SettledInv'
<1>1. NeverBehind'
  BY DEF SettledInv, NeverBehind
<1>2. CommittedIsSettled' /\ AckedIsCopied' /\ ConsumedIsHandled'
  BY DEF SettledInv, CommittedIsSettled, AckedIsCopied, ConsumedIsHandled, OnTarget
<1>3. QuietAtCommit'
  BY DEF SettledInv, QuietAtCommit
<1> QED
  BY <1>1, <1>2, <1>3 DEF SettledInv

\* A queue that gains one entry without a result: where it reports an
\* acknowledgement, the old queue did too.
LEMMA AppendNew ==
    ASSUME NEW q \in Seq(Entries), NEW o \in Offsets, NEW i,
           i \in DOMAIN Append(q, NewEntry(o, TRUE))
    PROVE  \/ i \in DOMAIN q /\ Append(q, NewEntry(o, TRUE))[i] = q[i]
           \/ i = Len(q) + 1 /\ Append(q, NewEntry(o, TRUE))[i] = NewEntry(o, TRUE)
<1> DEFINE e == NewEntry(o, TRUE)
           q2 == Append(q, e)
<1>1. e \in Entries
  BY NewEntryType
<1> HIDE DEF e
<1>2. /\ q2 \in Seq(Entries)
      /\ Len(q2) = Len(q) + 1
      /\ \A j \in 1 .. Len(q) : q2[j] = q[j]
      /\ q2[Len(q) + 1] = e
  BY <1>1, AppendProperties
<1>3. i \in DOMAIN q2
  BY DEF e
<1> HIDE DEF q2
<1>4. Len(q) \in Nat /\ DOMAIN q = 1 .. Len(q) /\ DOMAIN q2 = 1 .. Len(q2)
  BY <1>2, LenProperties
<1>5. i \in 1 .. Len(q) \/ i = Len(q) + 1
  BY <1>2, <1>3, <1>4
<1> QED
  BY <1>2, <1>4, <1>5 DEF q2, e

\* What a promise of p does: it takes the head off its queue, or replaces it by
\* a retry at the end; its record stays in flight, or leaves it copied or given up.
LEMMA PromiseEffect ==
    ASSUME TypeOK, NEW p \in Partitions, buffer[p] # <<>>,
           Acked(p) \/ FirstFailed(p) \/ RetryAcked(p) \/ RetryFailed(p)
    PROVE  /\ \A q \in Partitions \ {p} : buffer'[q] = buffer[q]
           /\ \/ buffer'[p] = Tail(buffer[p])
              \/ /\ buffer'[p] = Append(Tail(buffer[p]), NewEntry(Head(buffer[p]).off, TRUE))
                 /\ inflight' = inflight
           /\ gaveUp \subseteq gaveUp'
           /\ \/ inflight' = inflight
              \/ /\ inflight' = inflight \ {<<p, Head(buffer[p]).off>>}
                 /\ \/ Head(buffer[p]).res = "ok"
                    \/ <<p, Head(buffer[p]).off>> \in gaveUp'
<1> DEFINE e == Head(buffer[p])
           r == <<p, e.off>>
<1>1. r \in Records
  BY HeadFacts
<1>2. buffer \in [Partitions -> Seq(Entries)]
  BY DEF TypeOK
<1> HIDE DEF e, r
<1>3. CASE Acked(p)
  <2>1. /\ buffer' = [buffer EXCEPT ![p] = Tail(@)]
        /\ e.res = "ok" /\ inflight' = inflight \ {r} /\ gaveUp' = gaveUp
    BY <1>3 DEF Acked, e, r
  <2> QED
    BY <2>1, <1>2 DEF e, r
<1>4. CASE RetryAcked(p)
  <2>1. /\ buffer' = [buffer EXCEPT ![p] = Tail(@)]
        /\ e.res = "ok" /\ inflight' = inflight \ {r} /\ gaveUp' = gaveUp
    BY <1>4 DEF RetryAcked, e, r
  <2> QED
    BY <2>1, <1>2 DEF e, r
<1>5. CASE FirstFailed(p)
  <2>1. CASE cancelled \/ MaxRetries < 0
    <3>1. buffer' = [buffer EXCEPT ![p] = Tail(@)] /\ GiveUp(r)
      BY <1>5, <2>1 DEF FirstFailed, e, r
    <3> QED
      BY <3>1, <1>2 DEF GiveUp, e, r
  <2>2. CASE ~(cancelled \/ MaxRetries < 0)
    <3>1. /\ buffer' = [buffer EXCEPT ![p] = Append(Tail(@), NewEntry(e.off, TRUE))]
          /\ gaveUp' = gaveUp /\ inflight' = inflight
      BY <1>5, <2>2 DEF FirstFailed, e
    <3> QED
      BY <3>1, <1>2 DEF e, r
  <2> QED
    BY <2>1, <2>2
<1>6. CASE RetryFailed(p)
  <2>1. buffer' = [buffer EXCEPT ![p] = Tail(@)]
    BY <1>6 DEF RetryFailed
  <2>2. GiveUp(r) \/ (gaveUp' = gaveUp /\ inflight' = inflight)
    BY <1>6 DEF RetryFailed, e, r
  <2> QED
    BY <2>1, <2>2, <1>2 DEF GiveUp, e, r
<1> QED
  BY <1>3, <1>4, <1>5, <1>6

\* Promises preserve SettledInv: a callback calls inflight.Done only for a
\* record whose copy is acknowledged or that was given up.
LEMMA SettledPromise ==
    ASSUME SettledInv, Promise, [Next]_vars, TypeOK'
    PROVE  SettledInv'
<1>1. PICK p \in Partitions :
        /\ buffer[p] # <<>>
        /\ Acked(p) \/ FirstFailed(p) \/ RetryAcked(p) \/ RetryFailed(p)
  BY DEF Promise
<1>2. TypeOK /\ proc = "up"
  BY DEF SettledInv, Promise
<1> DEFINE e == Head(buffer[p])
           r == <<p, e.off>>
<1>3. /\ \A q \in Partitions \ {p} : buffer'[q] = buffer[q]
      /\ \/ buffer'[p] = Tail(buffer[p])
         \/ buffer'[p] = Append(Tail(buffer[p]), NewEntry(e.off, TRUE))
      /\ gaveUp \subseteq gaveUp'
      /\ \/ inflight' = inflight
         \/ inflight' = inflight \ {r} /\ (e.res = "ok" \/ r \in gaveUp')
  BY <1>1, <1>2, PromiseEffect
<1>4. UNCHANGED <<committed, target, position, loop, proc>>
  BY DEF Promise, clusterVars, procVars, loopVars
<1>5. \A q \in Partitions : \A o : OnTarget(q, o)' <=> OnTarget(q, o)
  BY <1>4 DEF OnTarget
<1>6. NeverBehind' /\ CommittedIsSettled'
  BY <1>3, <1>4, <1>5 DEF SettledInv, NeverBehind, CommittedIsSettled
<1>7. QuietAtCommit'
  BY <1>3, <1>4 DEF SettledInv, QuietAtCommit
<1>8. AckedIsCopied'
  <2> SUFFICES ASSUME NEW q \in Partitions, NEW i \in DOMAIN buffer'[q],
                      buffer'[q][i].res = "ok"
               PROVE  OnTarget(q, buffer'[q][i].off)
    BY <1>5 DEF AckedIsCopied
  <2>1. CASE q # p
    BY <2>1, <1>3 DEF SettledInv, AckedIsCopied
  <2>2. CASE q = p
    <3>1. e \in Entries /\ e.off \in Offsets /\ Tail(buffer[p]) \in Seq(Entries)
      BY <1>1, <1>2, HeadFacts DEF Entries
    <3>2. CASE i \in DOMAIN Tail(buffer[p]) /\ buffer'[p][i] = Tail(buffer[p])[i]
      <4>1. i + 1 \in DOMAIN buffer[p] /\ buffer'[p][i] = buffer[p][i + 1]
        BY <3>2, <1>1, <1>2, HeadFacts
      <4> QED
        BY <4>1, <2>2 DEF SettledInv, AckedIsCopied
    <3>3. CASE buffer'[p][i] = NewEntry(e.off, TRUE)
      BY <3>3, <2>2 DEF NewEntry
    <3>4. \/ i \in DOMAIN Tail(buffer[p]) /\ buffer'[p][i] = Tail(buffer[p])[i]
          \/ buffer'[p][i] = NewEntry(e.off, TRUE)
      <4>1. CASE buffer'[p] = Tail(buffer[p])
        BY <4>1, <2>2
      <4>2. CASE buffer'[p] = Append(Tail(buffer[p]), NewEntry(e.off, TRUE))
        <5>1. i \in DOMAIN Append(Tail(buffer[p]), NewEntry(e.off, TRUE))
          BY <4>2, <2>2
        <5> HIDE DEF e
        <5> QED
          BY <4>2, <5>1, <3>1, AppendNew
      <4> QED
        BY <1>3, <4>1, <4>2
    <3> QED
      BY <3>2, <3>3, <3>4
  <2> QED
    BY <2>1, <2>2
<1>9. ConsumedIsHandled'
  <2>1. e.res = "ok" => OnTarget(p, e.off)
    BY <1>1, <1>2, HeadFacts DEF SettledInv, AckedIsCopied
  <2> SUFFICES ASSUME NEW q \in Partitions, NEW o \in 0 .. position[q] - 1
               PROVE  OnTarget(q, o) \/ <<q, o>> \in gaveUp' \/ <<q, o>> \in inflight'
    BY <1>4, <1>5 DEF ConsumedIsHandled
  <2>2. OnTarget(q, o) \/ <<q, o>> \in gaveUp \/ <<q, o>> \in inflight
    BY <1>2 DEF SettledInv, ConsumedIsHandled
  <2>3. CASE <<q, o>> = r
    BY <2>1, <2>2, <2>3, <1>3
  <2>4. CASE <<q, o>> # r
    BY <2>2, <2>4, <1>3
  <2> QED
    BY <2>3, <2>4
<1> QED
  BY <1>6, <1>7, <1>8, <1>9 DEF SettledInv

\* Broker steps preserve SettledInv: the client reports an acknowledgement only
\* of a record the broker wrote.
LEMMA SettledBroker ==
    ASSUME SettledInv, Broker, [Next]_vars, TypeOK'
    PROVE  SettledInv'
<1>0. PICK p \in Partitions :
        \E i \in DOMAIN buffer[p] : BrokerWrite(p, i) \/ BrokerReject(p, i)
  BY DEF Broker
<1>1. PICK i \in DOMAIN buffer[p] : BrokerWrite(p, i) \/ BrokerReject(p, i)
  BY <1>0
<1>2. TypeOK /\ UNCHANGED <<committed, position, proc, loop, inflight, gaveUp>>
  BY DEF SettledInv, Broker, procVars, loopVars
<1> DEFINE CopiedNext(q, o) == \E k \in DOMAIN target'[q] : target'[q][k] = o
<1>3. \A q \in Partitions : \A o : OnTarget(q, o) => CopiedNext(q, o)
  <2> TAKE q \in Partitions
  <2> TAKE o
  <2>1. OnTarget(q, o) => OnTarget(q, o)'
    BY <1>2, CopiesStay
  <2> QED
    BY <2>1 DEF OnTarget
<1>4. NeverBehind' /\ CommittedIsSettled' /\ ConsumedIsHandled' /\ QuietAtCommit'
  <2>1. NeverBehind' /\ QuietAtCommit'
    BY <1>2 DEF SettledInv, NeverBehind, QuietAtCommit
  <2>2. CommittedIsSettled'
    BY <1>2, <1>3 DEF SettledInv, CommittedIsSettled, OnTarget
  <2>3. ConsumedIsHandled'
    BY <1>2, <1>3 DEF SettledInv, ConsumedIsHandled, OnTarget
  <2> QED
    BY <2>1, <2>2, <2>3
<1>5. buffer[p] \in Seq(Entries) /\ target[p] \in Seq(Offsets)
  BY <1>2 DEF TypeOK
<1>6. buffer[p][i].off \in Offsets /\ Len(target[p]) \in Nat
  <2>1. buffer[p][i] \in Entries
    BY <1>5, ElementOfSeq, LenProperties
  <2> QED
    BY <2>1, <1>5, LenProperties DEF Entries
<1>7. PICK res \in {"ok", "err"} : \E at \in Nat :
        /\ buffer' = [buffer EXCEPT ![p] = Settle(buffer[p], i, res, at)]
        /\ res = "ok" => target' = [target EXCEPT ![p] = Append(target[p], buffer[p][i].off)]
  <2>1. CASE BrokerWrite(p, i)
    BY <2>1, <1>6 DEF BrokerWrite
  <2>2. CASE BrokerReject(p, i)
    BY <2>2 DEF BrokerReject
  <2> QED
    BY <1>1, <2>1, <2>2
<1>8. PICK at \in Nat : buffer' = [buffer EXCEPT ![p] = Settle(buffer[p], i, res, at)]
  BY <1>7
<1>9. res = "ok" => CopiedNext(p, buffer[p][i].off)
  <2> DEFINE o == buffer[p][i].off
             log == Append(target[p], o)
  <2> SUFFICES ASSUME res = "ok" PROVE CopiedNext(p, o)
    OBVIOUS
  <2>1. target'[p] = log
    BY <1>7, <1>2 DEF TypeOK
  <2> HIDE DEF o
  <2>2. o \in Offsets
    BY <1>6 DEF o
  <2>3. log \in Seq(Offsets) /\ Len(log) = Len(target[p]) + 1 /\ log[Len(target[p]) + 1] = o
    BY <1>5, <2>2, AppendProperties
  <2> HIDE DEF log
  <2>4. Len(target[p]) + 1 \in DOMAIN log
    BY <1>6, <2>3, LenProperties
  <2> QED
    BY <2>1, <2>3, <2>4
<1>10. AckedIsCopied'
  <2> SUFFICES ASSUME NEW q \in Partitions, NEW j \in DOMAIN buffer'[q],
                      buffer'[q][j].res = "ok"
               PROVE  CopiedNext(q, buffer'[q][j].off)
    BY DEF AckedIsCopied, OnTarget
  <2>1. CASE q # p
    <3>1. buffer'[q] = buffer[q]
      BY <2>1, <1>8, <1>2 DEF TypeOK
    <3> QED
      BY <3>1, <1>3 DEF SettledInv, AckedIsCopied
  <2>2. CASE q = p
    <3>1. buffer'[p] = Settle(buffer[p], i, res, at)
      BY <1>8, <1>2 DEF TypeOK
    <3>2. /\ DOMAIN buffer'[p] = DOMAIN buffer[p]
          /\ \A k \in DOMAIN buffer[p] : k # i => buffer'[p][k] = buffer[p][k]
          /\ buffer'[p][i].off = buffer[p][i].off
          /\ buffer'[p][i].res = res
      BY <3>1, <1>5, SettleFacts
    <3>3. CASE j = i
      BY <2>2, <3>2, <3>3, <1>9
    <3>4. CASE j # i
      BY <2>2, <3>2, <3>4, <1>3 DEF SettledInv, AckedIsCopied
    <3> QED
      BY <3>3, <3>4
  <2> QED
    BY <2>1, <2>2
<1> QED
  BY <1>4, <1>10 DEF SettledInv

\* The end of a backoff preserves SettledInv.
LEMMA SettledBackoff ==
    ASSUME SettledInv, Backoff, TypeOK'
    PROVE  SettledInv'
<1>1. PICK r \in Records :
        \/ GiveUp(r) /\ UNCHANGED buffer
        \/ /\ buffer' = [buffer EXCEPT ![r[1]] = Append(buffer[r[1]], NewEntry(r[2], TRUE))]
           /\ UNCHANGED <<gaveUp, inflight>>
  BY DEF Backoff
<1>2. TypeOK /\ UNCHANGED <<committed, target, position, proc, loop>>
  BY DEF SettledInv, Backoff, clusterVars, procVars, loopVars
<1>3. \A q \in Partitions : \A o : OnTarget(q, o)' <=> OnTarget(q, o)
  BY <1>2 DEF OnTarget
<1>4. gaveUp \subseteq gaveUp' /\ \A r2 \in inflight : r2 \in inflight' \/ r2 \in gaveUp'
  BY <1>1 DEF GiveUp
<1>5. inflight = {} => inflight' = {}
  BY <1>1 DEF GiveUp
<1>6. NeverBehind' /\ CommittedIsSettled' /\ ConsumedIsHandled' /\ QuietAtCommit'
  BY <1>2, <1>3, <1>4, <1>5 DEF SettledInv, NeverBehind, CommittedIsSettled,
                                ConsumedIsHandled, QuietAtCommit
<1>7. AckedIsCopied'
  <2> SUFFICES ASSUME NEW q \in Partitions, NEW i \in DOMAIN buffer'[q],
                      buffer'[q][i].res = "ok"
               PROVE  OnTarget(q, buffer'[q][i].off)
    BY <1>3 DEF AckedIsCopied
  <2>1. CASE buffer'[q] = buffer[q]
    BY <2>1 DEF SettledInv, AckedIsCopied
  <2>2. CASE buffer'[q] # buffer[q]
    <3>1. r[1] \in Partitions /\ r[2] \in Offsets
      BY DEF Records
    <3>2. q = r[1] /\ buffer'[q] = Append(buffer[q], NewEntry(r[2], TRUE))
      BY <1>1, <1>2, <2>2, <3>1 DEF TypeOK
    <3>3. buffer[q] \in Seq(Entries)
      BY <1>2 DEF TypeOK
    <3>4. \/ i \in DOMAIN buffer[q] /\ buffer'[q][i] = buffer[q][i]
          \/ buffer'[q][i] = NewEntry(r[2], TRUE)
      BY <3>1, <3>2, <3>3, AppendNew
    <3> QED
      BY <3>4 DEF SettledInv, AckedIsCopied, NewEntry
  <2> QED
    BY <2>1, <2>2
<1> QED
  BY <1>6, <1>7 DEF SettledInv

\* A poll preserves SettledInv: what it returns is in flight at once.
LEMMA SettledPoll ==
    ASSUME SettledInv, PollAndProduce, TypeOK'
    PROVE  SettledInv'
<1>1. PICK next \in [Partitions -> 0 .. LogEnd] :
        /\ \A p \in Partitions : next[p] \in position[p] .. position[p] + MaxPoll
        /\ position' = next
        /\ inflight' = inflight \cup Polled(next)
        /\ buffer' = [p \in Partitions |->
                        buffer[p] \o [i \in 1 .. next[p] - position[p] |->
                                        NewEntry(position[p] + i - 1, FALSE)]]
  BY DEF PollAndProduce, Batch
<1>2. /\ TypeOK
      /\ proc = "up" /\ proc' = "up"
      /\ loop' = "flush"
      /\ UNCHANGED <<committed, target, gaveUp>>
  BY DEF SettledInv, PollAndProduce, clusterVars, procVars
<1>3. \A q \in Partitions : /\ position[q] \in 0 .. LogEnd /\ next[q] \in 0 .. LogEnd
                            /\ committed[q] \in 0 .. LogEnd
                            /\ position[q] <= next[q]
  BY <1>1, <1>2, SourceAssumption DEF TypeOK
<1>4. \A q \in Partitions : \A o : OnTarget(q, o)' <=> OnTarget(q, o)
  BY <1>2 DEF OnTarget
<1>5. NeverBehind'
  BY <1>1, <1>2, <1>3, SourceAssumption DEF SettledInv, NeverBehind
<1>6. CommittedIsSettled' /\ QuietAtCommit'
  BY <1>2, <1>4 DEF SettledInv, CommittedIsSettled, QuietAtCommit
<1>7. AckedIsCopied'
  <2> SUFFICES ASSUME NEW q \in Partitions, NEW i \in DOMAIN buffer'[q],
                      buffer'[q][i].res = "ok"
               PROVE  OnTarget(q, buffer'[q][i].off)
    BY <1>4 DEF AckedIsCopied
  <2> DEFINE n == next[q] - position[q]
             new == [k \in 1 .. n |-> NewEntry(position[q] + k - 1, FALSE)]
  <2>1. n \in Nat
    BY <1>3, SourceAssumption
  <2>2. new \in Seq(Entries)
    BY <1>2, <1>3, PolledEntries
  <2>3. buffer[q] \in Seq(Entries) /\ buffer'[q] = buffer[q] \o new
    BY <1>1, <1>2 DEF TypeOK
  <2>4. \A k \in DOMAIN new : new[k].res = "sent"
    BY DEF NewEntry
  <2> HIDE DEF new
  <2>5. \/ i \in DOMAIN buffer[q] /\ buffer'[q][i] = buffer[q][i]
        \/ i - Len(buffer[q]) \in DOMAIN new /\ buffer'[q][i] = new[i - Len(buffer[q])]
    BY <2>2, <2>3, ConcatProperties, LenProperties
  <2> QED
    BY <2>4, <2>5 DEF SettledInv, AckedIsCopied
<1>8. ConsumedIsHandled'
  <2> SUFFICES ASSUME NEW q \in Partitions, NEW o \in 0 .. next[q] - 1
               PROVE  OnTarget(q, o) \/ <<q, o>> \in gaveUp \/ <<q, o>> \in inflight'
    BY <1>1, <1>2, <1>4 DEF ConsumedIsHandled
  <2>1. CASE o < position[q]
    <3>1. o \in 0 .. position[q] - 1
      BY <2>1, <1>3, SourceAssumption
    <3> QED
      BY <3>1, <1>1, <1>2 DEF SettledInv, ConsumedIsHandled
  <2>2. CASE ~(o < position[q])
    <3>1. <<q, o>> \in Records /\ position[q] <= o /\ o < next[q]
      BY <2>2, <1>3, SourceAssumption DEF Records, Offsets
    <3>2. <<q, o>> \in Polled(next)
      BY <3>1 DEF Polled
    <3> QED
      BY <3>2, <1>1
  <2> QED
    BY <2>1, <2>2
<1> QED
  BY <1>5, <1>6, <1>7, <1>8 DEF SettledInv

\* A commit of the loop and the final one of Stop preserve SettledInv: nothing
\* is in flight, so everything consumed is settled.
LEMMA SettledCommit ==
    ASSUME SettledInv, proc = "up", inflight = {}, TypeOK',
           \A p \in Partitions : committed'[p] \in {committed[p], position[p]},
           UNCHANGED <<target, gaveUp, position, inflight, buffer>>
    PROVE  SettledInv'
<1>1. TypeOK
  BY DEF SettledInv
<1>2. \A q \in Partitions : committed[q] \in 0 .. LogEnd /\ position[q] \in 0 .. LogEnd
  BY <1>1 DEF TypeOK
<1>3. \A q \in Partitions : \A o : OnTarget(q, o)' <=> OnTarget(q, o)
  BY DEF OnTarget
<1>4. NeverBehind'
  BY <1>2, SourceAssumption DEF SettledInv, NeverBehind
<1>5. CommittedIsSettled'
  <2> SUFFICES ASSUME NEW q \in Partitions, NEW o \in 0 .. committed'[q] - 1
               PROVE  OnTarget(q, o) \/ <<q, o>> \in gaveUp
    BY <1>3 DEF CommittedIsSettled
  <2>1. CASE committed'[q] = committed[q]
    BY <2>1 DEF SettledInv, CommittedIsSettled
  <2>2. CASE committed'[q] = position[q]
    BY <2>2 DEF SettledInv, ConsumedIsHandled
  <2> QED
    BY <2>1, <2>2
<1>6. AckedIsCopied' /\ ConsumedIsHandled' /\ QuietAtCommit'
  BY <1>3 DEF SettledInv, AckedIsCopied, ConsumedIsHandled, QuietAtCommit
<1> QED
  BY <1>4, <1>5, <1>6 DEF SettledInv

\* A restart preserves SettledInv: the new process owes everything from the
\* committed offsets on, and nothing below them.
LEMMA SettledStart ==
    ASSUME SettledInv, Start, TypeOK'
    PROVE  SettledInv'
<1>1. /\ position' = committed
      /\ loop' = "select"
      /\ buffer' = [p \in Partitions |-> <<>>]
      /\ gaveUp' = {r \in gaveUp : r[2] < committed[r[1]]}
      /\ UNCHANGED <<committed, target>>
  BY DEF Start, ResumeOffset, clusterVars
<1>2. \A q \in Partitions : committed[q] \in 0 .. LogEnd
  BY DEF SettledInv, TypeOK
<1>3. \A q \in Partitions : \A o : OnTarget(q, o)' <=> OnTarget(q, o)
  BY <1>1 DEF OnTarget
<1>4. NeverBehind' /\ QuietAtCommit'
  BY <1>1, <1>2, SourceAssumption DEF NeverBehind, QuietAtCommit
<1>5. \A q \in Partitions : \A o \in 0 .. committed[q] - 1 :
         OnTarget(q, o) \/ <<q, o>> \in gaveUp'
  <2> TAKE q \in Partitions
  <2> TAKE o \in 0 .. committed[q] - 1
  <2>1. OnTarget(q, o) \/ <<q, o>> \in gaveUp
    BY DEF SettledInv, CommittedIsSettled
  <2>2. o < committed[q]
    BY <1>2, SourceAssumption
  <2> QED
    BY <2>1, <2>2, <1>1
<1>6. CommittedIsSettled' /\ ConsumedIsHandled'
  BY <1>1, <1>3, <1>5 DEF CommittedIsSettled, ConsumedIsHandled
<1>7. AckedIsCopied'
  BY <1>1 DEF AckedIsCopied
<1> QED
  BY <1>4, <1>6, <1>7 DEF SettledInv

\* SettledInv is inductive.
LEMMA SettledStep == SettledInv /\ [Next]_vars => SettledInv'
<1> SUFFICES ASSUME SettledInv, [Next]_vars PROVE SettledInv'
  OBVIOUS
<1>0. TypeOK /\ TypeOK'
  BY TypeStep DEF SettledInv
<1> USE DEF clusterVars, procVars, loopVars, prodVars
<1>1. CASE Start
  BY <1>1, <1>0, SettledStart
<1>2. CASE Crash
  BY <1>2, <1>0, SettledFrame DEF Crash
<1>3. CASE UpdateTopics
  BY <1>3, <1>0, SettledFrame DEF UpdateTopics
<1>4. CASE Select
  BY <1>4, <1>0, SettledFrame DEF Select
<1>5. CASE PollNothing
  BY <1>5, <1>0, SettledFrame DEF PollNothing
<1>6. CASE PollAndProduce
  BY <1>6, <1>0, SettledPoll
<1>7. CASE FlushAndCheck
  BY <1>7, <1>0, SettledFrame DEF FlushAndCheck
<1>8. CASE DrainAndSwap
  <2>1. /\ proc = "up" /\ inflight = {} /\ committed' = committed
        /\ UNCHANGED <<target, gaveUp, position, inflight, buffer>>
    BY <1>8 DEF DrainAndSwap, Drained
  <2> QED
    BY <2>1, <1>0, SettledCommit
<1>9. CASE Commit
  <2>1. /\ proc = "up" /\ loop = "commit"
        /\ committed' = committed \/ committed' = position
        /\ UNCHANGED <<target, gaveUp, position, inflight, buffer>>
    BY <1>9 DEF Commit
  <2>2. inflight = {}
    BY <2>1 DEF SettledInv, QuietAtCommit
  <2> QED
    BY <2>1, <2>2, <1>0, SettledCommit
<1>10. CASE Broker
  BY <1>10, <1>0, SettledBroker
<1>11. CASE Promise
  BY <1>11, <1>0, SettledPromise
<1>12. CASE Backoff
  BY <1>12, <1>0, SettledBackoff
<1>13. CASE SyncWritten
  BY <1>13, <1>0, SettledFrame DEF SyncWritten
<1>14. CASE DLQProduced
  BY <1>14, <1>0, SettledFrame DEF DLQProduced
<1>15. CASE StopBegin
  BY <1>15, <1>0, SettledFrame DEF StopBegin
<1>16. CASE StopEnd
  <2>1. /\ proc = "up" /\ inflight = {}
        /\ committed' = committed \/ committed' = position
        /\ UNCHANGED <<target, gaveUp, position, inflight, buffer>>
    BY <1>16 DEF StopEnd, Drained
  <2> QED
    BY <2>1, <1>0, SettledCommit
<1>17. CASE UNCHANGED vars
  BY <1>17, <1>0, SettledFrame DEF vars
<1> QED
  BY <1>1, <1>2, <1>3, <1>4, <1>5, <1>6, <1>7, <1>8, <1>9, <1>10, <1>11, <1>12,
     <1>13, <1>14, <1>15, <1>16, <1>17 DEF Next

\* SettledInv holds initially.
LEMMA SettledInit == Init => SettledInv
<1> SUFFICES ASSUME Init PROVE SettledInv
  OBVIOUS
<1>1. TypeOK
  BY TypeInit
<1>2. CommittedIsSettled
  BY DEF Init, CommittedIsSettled
<1>3. NeverBehind /\ AckedIsCopied /\ ConsumedIsHandled /\ QuietAtCommit
  BY DEF Init, NeverBehind, AckedIsCopied, ConsumedIsHandled, QuietAtCommit
<1> QED
  BY <1>1, <1>2, <1>3 DEF SettledInv

\* SettledInv holds throughout.
LEMMA AlwaysSettled == Spec => []SettledInv
BY SettledInit, SettledStep, PTL DEF Spec

\* An offset below the committed one was copied to the target or given up by
\* Retry, for any number of partitions, records, retries, crashes and restarts
\* and any order of acknowledgements: the commits of replicationLoop and Stop
\* never cover a record that is still in flight.
THEOREM CommitsAreSettled == Spec => []CommittedIsSettled
<1>1. SettledInv => CommittedIsSettled
  BY DEF SettledInv
<1> QED
  BY <1>1, AlwaysSettled, PTL

\* The committed offsets of the group never move back.
THEOREM CommitsOnlyAdvance == Spec => CommitsAdvance
<1>1. SettledInv /\ [Next]_vars
        => [\A p \in Partitions : committed'[p] >= committed[p]]_vars
  <2> SUFFICES ASSUME SettledInv, Next
               PROVE  \A p \in Partitions : committed'[p] >= committed[p]
    OBVIOUS
  <2>1. \A p \in Partitions : committed[p] \in 0 .. LogEnd /\ position[p] \in 0 .. LogEnd
    BY DEF SettledInv, TypeOK
  <2>2. \/ committed' = committed
        \/ proc = "up" /\ committed' = position
    BY DEF Next, clusterVars, Start, Crash, UpdateTopics, Select, PollNothing,
           PollAndProduce, FlushAndCheck, DrainAndSwap, Commit, Broker, Promise, Backoff,
           SyncWritten, DLQProduced, StopBegin, StopEnd
  <2> QED
    BY <2>1, <2>2, SourceAssumption DEF SettledInv, NeverBehind
<1> QED
  BY <1>1, AlwaysSettled, PTL DEF Spec, CommitsAdvance
=============================================================================
