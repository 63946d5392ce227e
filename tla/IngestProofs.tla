---------------------------- MODULE IngestProofs ----------------------------
(***************************************************************************)
(* Proofs about Ingest and the modules under it: subscriptions implement   *)
(* EventStream, and three invariants of mutations that overlap, for any    *)
(* number of iterators, mutations, calls and failures.                     *)
(***************************************************************************)
EXTENDS Ingest, FiniteSetTheorems, SequenceTheorems, TLAPS

(***************************************************************************)
(* The stream.  What is on its way to an iterator, in its queue and after  *)
(* it on the wire, are the events that follow the one it was handed last,  *)
(* without a gap.                                                          *)
(***************************************************************************)

Resolved(i) ==
    /\ con[i] = "resolving"
    /\ con' = [con EXCEPT ![i] = "ready"]
    /\ UNCHANGED <<transport, published, sub, wire, queue, last, end>>

\* What a step of the API and its callers may do to the topic.
BusStep ==
    \/ Publish \/ AllEnd
    \/ \E i \in Iterators : Subscribe(i) \/ IteratorStep(i) \/ Resolved(i) \/ Return(i)
    \/ UNCHANGED busVars

LEMMA NextIsBusStep == [Next]_vars => BusStep
<1> SUFFICES ASSUME [Next]_vars PROVE BusStep
  OBVIOUS
<1> USE DEF BusStep
<1>1. ASSUME NEW j \in Jobs, BeginImprove(j) \/ JobStep(j) \/ \E kind \in {"tracks",
     "rss"} : Begin(j, kind)
      PROVE  UNCHANGED busVars
  BY <1>1
  DEF BeginImprove, JobStep, Begin, SendEntryInVain, Answer, Timeout, End, SendTrack, SendEntry,
      SendAgain, Upsert, Refuse, RecordTags, Arrives, Counts
<1>2. ASSUME NEW q \in Requests, MutationStep(q) PROVE Publish \/ UNCHANGED busVars
  BY <1>2
  DEF MutationStep, Find, Update, CreateWork, CreateRecording, IsrcTaken, TellRecording, TellWork,
      DeleteTags, InsertTags, ReadTags, Rest
<1>3. ASSUME NEW q \in Requests, StatementFails(q) PROVE UNCHANGED busVars
  BY <1>3 DEF StatementFails
<1>4. ASSUME NEW i \in Iterators, SubscribeToWork(i) \/ Deliver(i) \/ Resolve(i) \/ Complete(i)
      PROVE  Subscribe(i) \/ IteratorStep(i) \/ Resolved(i) \/ Return(i)
  BY <1>4 DEF SubscribeToWork, Deliver, Resolve, Complete, Resolved
<1>5. CASE ProcessStep
  BY <1>5 DEF ProcessStep, Crash, Stop, Drained, Exit
<1>6. CASE UNCHANGED vars
  BY <1>6 DEF vars
<1> QED BY <1>1, <1>2, <1>3, <1>4, <1>5, <1>6 DEF Next

InOrder(s, n) == \A k \in 1 .. Len(s) : s[k] = n + k

LEMMA AppendInOrder ==
    ASSUME NEW s \in Seq(Nat), NEW n \in Nat, InOrder(s, n), NEW e, e = n + Len(s) + 1
    PROVE  /\ Append(s, e) \in Seq(Nat) /\ Len(Append(s, e)) = Len(s) + 1
           /\ InOrder(Append(s, e), n)
BY DEF InOrder

LEMMA TailInOrder ==
    ASSUME NEW s \in Seq(Nat), NEW n \in Nat, InOrder(s, n), s # <<>>
    PROVE  /\ Tail(s) \in Seq(Nat) /\ Len(Tail(s)) = Len(s) - 1 /\ Len(s) > 0
           /\ Head(s) = n + 1 /\ InOrder(Tail(s), n + 1)
BY DEF InOrder

BusTypes ==
    /\ transport \in {"memory", "redis"} /\ published \in Nat
    /\ sub \in [Iterators -> {"none", "connecting", "live", "closing", "closed"}]
    /\ wire \in [Iterators -> Seq(Nat)] /\ queue \in [Iterators -> Seq(Nat)]
    /\ con \in [Iterators -> {"none", "ready", "waiting", "resolving", "ended"}]
    /\ last \in [Iterators -> Nat] /\ end \in [Iterators -> Nat]

\* A waiting consumer has an empty queue, so it is right to hand it the next event.
Gapless(i) ==
    /\ InOrder(queue[i], last[i])
    /\ InOrder(wire[i], last[i] + Len(queue[i]))
    /\ sub[i] \in {"none", "connecting"} => queue[i] = <<>> /\ wire[i] = <<>>
    /\ sub[i] = "live" => last[i] + Len(queue[i]) + Len(wire[i]) = published
    /\ Inactive(i) => wire[i] = <<>> /\ last[i] + Len(queue[i]) <= end[i]
    /\ con[i] = "waiting" => queue[i] = <<>>
    /\ transport = "memory" => wire[i] = <<>>

BusInv == BusTypes /\ \A i \in Iterators : Gapless(i)

LEMMA BusStart == BusInit => BusInv /\ Stream!Init
<1> SUFFICES ASSUME BusInit PROVE BusInv /\ Stream!Init
  OBVIOUS
<1>1. BusInv
  BY DEF BusInit, BusInv, BusTypes, Gapless, InOrder, Inactive
<1>2. Stream!Init
  BY DEF BusInit, Stream!Init, Phase
<1> QED BY <1>1, <1>2

\* What the steps of one iterator leave to the others.
LEMMA OthersGapless ==
    ASSUME BusInv, BusTypes', NEW i \in Iterators, Gapless(i)', UNCHANGED <<transport, published>>,
           \A j \in Iterators \ {i} : /\ sub'[j] = sub[j] /\ wire'[j] = wire[j] /\ queue'[j] = queue[j]
                                      /\ con'[j] = con[j] /\ last'[j] = last[j] /\ end'[j] = end[j]
    PROVE  BusInv'
<1>1. ASSUME NEW j \in Iterators \ {i} PROVE Gapless(j)'
  BY <1>1 DEF BusInv, Gapless, InOrder, Inactive
<1> QED BY <1>1 DEF BusInv

LEMMA PhaseIs ==
    \A i \in Iterators : Phase[i] = CASE sub[i] \in {"none", "connecting"} -> "new"
                                      [] sub[i] = "live" -> "live"
                                      [] OTHER -> "over"
BY DEF Phase

\* publish() hands the event to those who wait, and they have had all before it.
LEMMA PublishKeeps == BusInv /\ Publish => BusInv' /\ Stream!Next
<1> SUFFICES ASSUME BusInv, Publish PROVE BusInv' /\ Stream!Next
  OBVIOUS
<1>0. BusTypes /\ \A i \in Iterators : Gapless(i)
  BY DEF BusInv
<1>1. CASE PublishInMemory
  <2> DEFINE woken == {i \in Iterators : sub[i] = "live" /\ con[i] = "waiting"}
  <2>1. /\ transport = "memory" /\ published' = published + 1
        /\ UNCHANGED <<transport, sub, wire, end>>
        /\ con' = [i \in Iterators |-> IF i \in woken THEN "resolving" ELSE con[i]]
        /\ last' = [i \in Iterators |-> IF i \in woken THEN published + 1 ELSE last[i]]
        /\ queue' = [i \in Iterators |-> IF sub[i] = "live" /\ i \notin woken
                                         THEN Append(queue[i], published + 1) ELSE queue[i]]
    BY <1>1 DEF PublishInMemory, Push
  <2>2. \A i \in woken : queue[i] = <<>> /\ wire[i] = <<>> /\ last[i] = published
    BY <1>0, <2>1 DEF Gapless, BusTypes
  <2>3. BusTypes'
    BY <1>0, <2>1 DEF BusTypes
  <2>4. ASSUME NEW i \in Iterators PROVE Gapless(i)'
    <3>1. CASE i \in woken
      BY <1>0, <2>1, <2>2, <3>1 DEF Gapless, InOrder, Inactive, BusTypes
    <3>2. CASE sub[i] = "live" /\ i \notin woken
      <4>1. queue[i] \in Seq(Nat) /\ last[i] \in Nat /\ wire[i] = <<>> /\ con[i] # "waiting"
        BY <1>0, <2>1, <3>2 DEF BusTypes, Gapless
      <4>2. InOrder(queue[i], last[i]) /\ last[i] + Len(queue[i]) = published
        BY <1>0, <3>2, <4>1 DEF Gapless, BusTypes
      <4>3. /\ Len(queue'[i]) = Len(queue[i]) + 1 /\ InOrder(queue'[i], last[i])
        BY <2>1, <3>2, <4>1, <4>2, AppendInOrder DEF BusTypes
      <4>4. last'[i] = last[i] /\ con'[i] = con[i] /\ wire'[i] = <<>> /\ sub'[i] = "live"
        BY <2>1, <3>2, <4>1
      <4> QED BY <2>1, <4>1, <4>2, <4>3, <4>4 DEF Gapless, InOrder, Inactive
    <3>3. CASE sub[i] # "live"
      BY <1>0, <2>1, <3>3 DEF Gapless, InOrder, Inactive, BusTypes
    <3> QED BY <3>1, <3>2, <3>3
  <2>5. Stream!PublishTo(woken)
    BY <2>1, <2>2, PhaseIs DEF Stream!PublishTo, Phase
  <2>6. woken \in SUBSET Iterators
    OBVIOUS
  <2> QED BY <2>3, <2>4, <2>5, <2>6 DEF BusInv, Stream!Next
<1>2. CASE PublishOnRedis
  <2>1. /\ transport = "redis" /\ published' = published + 1
        /\ UNCHANGED <<transport, sub, queue, con, last, end>>
        /\ wire' = [i \in Iterators |-> IF sub[i] = "live" THEN Append(wire[i], published + 1)
                                                          ELSE wire[i]]
    BY <1>2 DEF PublishOnRedis
  <2>2. BusTypes'
    BY <1>0, <2>1 DEF BusTypes
  <2>3. ASSUME NEW i \in Iterators PROVE Gapless(i)'
    <3>1. CASE sub[i] = "live"
      <4>1. wire[i] \in Seq(Nat) /\ queue[i] \in Seq(Nat) /\ last[i] \in Nat
        BY <1>0 DEF BusTypes
      <4>2. /\ InOrder(wire[i], last[i] + Len(queue[i]))
            /\ last[i] + Len(queue[i]) + Len(wire[i]) = published
        BY <1>0, <3>1 DEF Gapless
      <4>3. Len(wire'[i]) = Len(wire[i]) + 1 /\ InOrder(wire'[i], last[i] + Len(queue[i]))
        <5>1. /\ last[i] + Len(queue[i]) \in Nat
              /\ published + 1 = last[i] + Len(queue[i]) + Len(wire[i]) + 1
              /\ wire'[i] = Append(wire[i], published + 1)
          BY <2>1, <3>1, <4>1, <4>2
        <5> QED BY <4>1, <4>2, <5>1, AppendInOrder
      <4>4. last'[i] = last[i] /\ queue'[i] = queue[i] /\ con'[i] = con[i] /\ sub'[i] = "live"
        BY <2>1, <3>1
      <4>5. last'[i] + Len(queue'[i]) + Len(wire'[i]) = published'
        <5>1. last[i] + Len(queue[i]) \in Nat /\ Len(wire[i]) \in Nat
          BY <4>1
        <5>2. last[i] + Len(queue[i]) + (Len(wire[i]) + 1) = published + 1
          BY <4>2, <5>1
        <5>3. published' = published + 1
          BY <2>1
        <5> QED BY <4>3, <4>4, <5>2, <5>3
      <4>6. InOrder(queue'[i], last'[i]) /\ InOrder(wire'[i], last'[i] + Len(queue'[i]))
        BY <1>0, <4>3, <4>4 DEF Gapless
      <4>7. con'[i] = "waiting" => queue'[i] = <<>>
        BY <1>0, <4>4 DEF Gapless
      <4> QED BY <2>1, <4>4, <4>5, <4>6, <4>7 DEF Gapless, Inactive
    <3>2. CASE sub[i] # "live"
      BY <1>0, <2>1, <3>2 DEF Gapless, InOrder, Inactive, BusTypes
    <3> QED BY <3>1, <3>2
  <2>4. Stream!Publish
    BY <2>1 DEF Stream!Publish, Phase
  <2> QED BY <2>2, <2>3, <2>4 DEF BusInv, Stream!Next
<1> QED BY <1>1, <1>2 DEF Publish

LEMMA OnMessageKeeps ==
    ASSUME BusInv, NEW i \in Iterators, OnMessage(i)
    PROVE  BusInv' /\ (Stream!Next \/ UNCHANGED Stream!vars)
<1>0. BusTypes /\ Gapless(i) /\ \A j \in Iterators : Gapless(j)
  BY DEF BusInv
<1>1. /\ wire[i] # <<>> /\ wire' = [wire EXCEPT ![i] = Tail(@)] /\ sub[i] = "live"
      /\ UNCHANGED <<transport, published, sub, end>> /\ transport # "memory"
  BY <1>0 DEF OnMessage, Inactive, Gapless, BusTypes
<1>2. /\ wire[i] \in Seq(Nat) /\ queue[i] \in Seq(Nat) /\ last[i] \in Nat /\ published \in Nat
      /\ InOrder(queue[i], last[i]) /\ InOrder(wire[i], last[i] + Len(queue[i]))
      /\ last[i] + Len(queue[i]) + Len(wire[i]) = published
  BY <1>0, <1>1 DEF BusTypes, Gapless
<1>3. /\ Head(wire[i]) = last[i] + Len(queue[i]) + 1
      /\ wire'[i] \in Seq(Nat) /\ Len(wire'[i]) = Len(wire[i]) - 1 /\ Len(wire[i]) > 0
      /\ InOrder(wire'[i], last[i] + Len(queue[i]) + 1)
  <2>1. last[i] + Len(queue[i]) \in Nat /\ wire'[i] = Tail(wire[i])
    BY <1>0, <1>1, <1>2 DEF BusTypes
  <2> QED BY <1>1, <1>2, <2>1, TailInOrder
<1>4. \A j \in Iterators \ {i} : /\ sub'[j] = sub[j] /\ wire'[j] = wire[j] /\ queue'[j] = queue[j]
                                 /\ con'[j] = con[j] /\ last'[j] = last[j] /\ end'[j] = end[j]
  BY <1>0, <1>1 DEF OnMessage, Push, BusTypes
<1>5. CASE con[i] = "waiting"
  <2>1. queue[i] = <<>> /\ Head(wire[i]) = last[i] + 1
    BY <1>0, <1>2, <1>3, <1>5 DEF Gapless
  <2>2. /\ con' = [con EXCEPT ![i] = "resolving"] /\ queue' = queue
        /\ last' = [last EXCEPT ![i] = last[i] + 1]
    BY <1>0, <1>5, <2>1 DEF OnMessage, Push, BusTypes
  <2>3. BusTypes'
    BY <1>0, <1>1, <1>2, <1>3, <2>2 DEF BusTypes
  <2>4. Gapless(i)'
    <3>1. /\ last'[i] = last[i] + 1 /\ queue'[i] = <<>> /\ con'[i] = "resolving"
          /\ sub'[i] = "live" /\ transport' # "memory"
      BY <1>0, <1>1, <2>1, <2>2 DEF BusTypes
    <3>2. last[i] + Len(queue[i]) + 1 = last'[i] + Len(queue'[i])
      BY <1>2, <2>1, <3>1
    <3>3. InOrder(queue'[i], last'[i]) /\ InOrder(wire'[i], last'[i] + Len(queue'[i]))
      BY <1>3, <3>1, <3>2 DEF InOrder
    <3>4. last'[i] + Len(queue'[i]) + Len(wire'[i]) = published'
      <4>1. last[i] + Len(queue[i]) \in Nat /\ Len(wire[i]) \in Nat
        BY <1>2
      <4>2. published' = published /\ Len(wire'[i]) = Len(wire[i]) - 1
        BY <1>1, <1>3
      <4>3. (last[i] + Len(queue[i]) + 1) + (Len(wire[i]) - 1) = published
        BY <1>2, <4>1
      <4> QED BY <3>2, <4>2, <4>3
    <3> QED BY <3>1, <3>3, <3>4 DEF Gapless, Inactive
  <2>5. Stream!Hand(i)
    BY <1>1, <1>2, <1>3, <2>1, <2>2, PhaseIs DEF Stream!Hand, Phase
  <2> QED BY <1>1, <1>4, <2>3, <2>4, <2>5, OthersGapless DEF Stream!Next
<1>6. CASE con[i] # "waiting"
  <2>1. /\ con' = con /\ last' = last
        /\ queue' = [queue EXCEPT ![i] = Append(@, Head(wire[i]))]
    BY <1>0, <1>6 DEF OnMessage, Push, BusTypes
  <2>2. /\ queue'[i] \in Seq(Nat) /\ Len(queue'[i]) = Len(queue[i]) + 1
        /\ InOrder(queue'[i], last[i])
    BY <1>0, <1>2, <1>3, <2>1, AppendInOrder DEF BusTypes
  <2>3. BusTypes'
    BY <1>0, <1>1, <1>2, <1>3, <2>1, <2>2 DEF BusTypes
  <2>4. Gapless(i)'
    <3>1. /\ last'[i] = last[i] /\ con'[i] # "waiting"
          /\ sub'[i] = "live" /\ transport' # "memory"
      BY <1>0, <1>1, <1>6, <2>1 DEF BusTypes
    <3>2. last[i] + Len(queue[i]) + 1 = last'[i] + Len(queue'[i])
      BY <1>2, <2>2, <3>1
    <3>3. InOrder(queue'[i], last'[i]) /\ InOrder(wire'[i], last'[i] + Len(queue'[i]))
      BY <1>3, <2>2, <3>1, <3>2
    <3>4. last'[i] + Len(queue'[i]) + Len(wire'[i]) = published'
      <4>1. last[i] + Len(queue[i]) \in Nat /\ Len(wire[i]) \in Nat
        BY <1>2
      <4>2. published' = published /\ Len(wire'[i]) = Len(wire[i]) - 1
        BY <1>1, <1>3
      <4>3. (last[i] + Len(queue[i]) + 1) + (Len(wire[i]) - 1) = published
        BY <1>2, <4>1
      <4> QED BY <3>2, <4>2, <4>3
    <3> QED BY <3>1, <3>3, <3>4 DEF Gapless, Inactive
  <2>5. UNCHANGED Stream!vars
    BY <1>1, <2>1 DEF Stream!vars, Phase
  <2> QED BY <1>1, <1>4, <2>3, <2>4, <2>5, OthersGapless
<1> QED BY <1>5, <1>6

\* Nothing is on its way to an iterator that is not live yet.
LEMMA JoinKeeps ==
    ASSUME BusInv, NEW i \in Iterators, Subscribe(i) \/ Established(i)
    PROVE  BusInv' /\ (Stream!Next \/ UNCHANGED Stream!vars)
<1>0. BusTypes /\ Gapless(i)
  BY DEF BusInv
<1>1. /\ sub[i] \in {"none", "connecting"} /\ queue[i] = <<>> /\ wire[i] = <<>>
      /\ UNCHANGED <<transport, published, wire, queue, end>>
  BY <1>0 DEF Subscribe, Established, Gapless
<1>2. BusTypes'
  BY <1>0, <1>1 DEF BusTypes, Subscribe, Established
<1>3. \A j \in Iterators \ {i} : /\ sub'[j] = sub[j] /\ wire'[j] = wire[j] /\ queue'[j] = queue[j]
                                 /\ con'[j] = con[j] /\ last'[j] = last[j] /\ end'[j] = end[j]
  BY <1>0, <1>1 DEF BusTypes, Subscribe, Established
<1>4. \/ sub' = [sub EXCEPT ![i] = "live"] /\ last' = [last EXCEPT ![i] = published]
      \/ sub' = [sub EXCEPT ![i] = "connecting"] /\ last' = last
  BY <1>0 DEF Subscribe, Established, BusTypes
<1>5. Gapless(i)'
  BY <1>0, <1>1, <1>4 DEF Gapless, InOrder, Inactive, BusTypes
<1>6. CASE sub' = [sub EXCEPT ![i] = "live"] /\ last' = [last EXCEPT ![i] = published]
  <2>1. Stream!Join(i)
    BY <1>0, <1>1, <1>6, PhaseIs DEF Stream!Join, Phase, BusTypes
  <2> QED BY <1>1, <1>2, <1>3, <1>5, <2>1, OthersGapless DEF Stream!Next
<1>7. CASE sub' = [sub EXCEPT ![i] = "connecting"] /\ last' = last
  <2>1. UNCHANGED Stream!vars
    BY <1>0, <1>1, <1>7 DEF Stream!vars, Phase, BusTypes
  <2> QED BY <1>1, <1>2, <1>3, <1>5, <2>1, OthersGapless
<1> QED BY <1>4, <1>6, <1>7

\* The head of the queue is the event after the last.
LEMMA NextQueuedKeeps ==
    ASSUME BusInv, NEW i \in Iterators, NextQueued(i)
    PROVE  BusInv' /\ Stream!Next
<1>0. BusTypes /\ Gapless(i)
  BY DEF BusInv
<1>1. /\ queue[i] # <<>> /\ con' = [con EXCEPT ![i] = "resolving"]
      /\ last' = [last EXCEPT ![i] = Head(queue[i])] /\ queue' = [queue EXCEPT ![i] = Tail(@)]
      /\ UNCHANGED <<transport, published, sub, wire, end>>
  BY DEF NextQueued
<1>2. /\ queue[i] \in Seq(Nat) /\ wire[i] \in Seq(Nat) /\ last[i] \in Nat
      /\ published \in Nat /\ end[i] \in Nat
  BY <1>0 DEF BusTypes
<1>3. /\ queue'[i] \in Seq(Nat) /\ Len(queue'[i]) = Len(queue[i]) - 1 /\ Len(queue[i]) > 0
      /\ last'[i] = last[i] + 1 /\ InOrder(queue'[i], last'[i])
  <2>1. InOrder(queue[i], last[i]) /\ queue'[i] = Tail(queue[i]) /\ last'[i] = Head(queue[i])
    BY <1>0, <1>1 DEF Gapless, BusTypes
  <2> QED BY <1>1, <1>2, <2>1, TailInOrder
<1>4. last'[i] + Len(queue'[i]) = last[i] + Len(queue[i])
  BY <1>2, <1>3
<1>5. BusTypes'
  BY <1>0, <1>1, <1>2, <1>3 DEF BusTypes
<1>6. Gapless(i)'
  <2>1. InOrder(wire'[i], last'[i] + Len(queue'[i]))
    BY <1>0, <1>1, <1>4 DEF Gapless
  <2>2. con'[i] = "resolving" /\ sub'[i] = sub[i] /\ sub[i] \notin {"none", "connecting"}
    BY <1>0, <1>1 DEF Gapless, BusTypes
  <2>3. sub[i] = "live" => last'[i] + Len(queue'[i]) + Len(wire'[i]) = published'
    BY <1>0, <1>1, <1>4 DEF Gapless
  <2>4. Inactive(i) => wire'[i] = <<>> /\ last'[i] + Len(queue'[i]) <= end'[i]
    BY <1>0, <1>1, <1>4 DEF Gapless
  <2>5. transport' = "memory" => wire'[i] = <<>>
    BY <1>0, <1>1 DEF Gapless
  <2> QED BY <1>3, <2>1, <2>2, <2>3, <2>4, <2>5 DEF Gapless, Inactive
<1>7. \A j \in Iterators \ {i} : /\ sub'[j] = sub[j] /\ wire'[j] = wire[j] /\ queue'[j] = queue[j]
                                 /\ con'[j] = con[j] /\ last'[j] = last[j] /\ end'[j] = end[j]
  BY <1>0, <1>1 DEF BusTypes
<1>8. \/ sub[i] = "live" /\ last[i] < published
      \/ sub[i] \in {"closing", "closed"} /\ last[i] < end[i]
  <2>1. sub[i] \in {"live", "closing", "closed"}
    BY <1>0, <1>1 DEF Gapless, BusTypes
  <2>2. last[i] + Len(queue[i]) > last[i] /\ Len(wire[i]) >= 0
    BY <1>2, <1>3
  <2>3. CASE sub[i] = "live"
    <3>1. last[i] + Len(queue[i]) + Len(wire[i]) = published
      BY <1>0, <2>3 DEF Gapless
    <3> QED BY <1>2, <2>2, <2>3, <3>1
  <2>4. CASE sub[i] \in {"closing", "closed"}
    BY <1>0, <1>2, <2>2, <2>4 DEF Gapless, Inactive
  <2> QED BY <2>1, <2>3, <2>4
<1>9. Stream!Hand(i)
  <2>1. \/ Phase[i] = "live" /\ last[i] < published
        \/ Phase[i] = "over" /\ last[i] < end[i]
    BY <1>8, PhaseIs
  <2>2. last' = [last EXCEPT ![i] = @ + 1] /\ UNCHANGED <<published, Phase, end>>
    BY <1>0, <1>1, <1>3 DEF BusTypes, Phase
  <2> QED BY <2>1, <2>2 DEF Stream!Hand
<1> QED BY <1>1, <1>5, <1>6, <1>7, <1>9, OthersGapless DEF Stream!Next

LEMMA ConsumerKeeps ==
    ASSUME BusInv, NEW i \in Iterators, NextDone(i) \/ NextWaits(i) \/ CleanedUp(i) \/ Resolved(i)
    PROVE  BusInv' /\ UNCHANGED Stream!vars
<1>0. BusTypes /\ Gapless(i)
  BY DEF BusInv
<1>1. /\ UNCHANGED <<transport, published, wire, queue, last, end>>
      /\ sub' = sub \/ (sub[i] = "closing" /\ sub' = [sub EXCEPT ![i] = "closed"])
  BY DEF NextDone, NextWaits, CleanedUp, Resolved
<1>2. BusTypes'
  BY <1>0, <1>1 DEF BusTypes, NextDone, NextWaits, CleanedUp, Resolved, Wake
<1>3. \A j \in Iterators \ {i} : /\ sub'[j] = sub[j] /\ wire'[j] = wire[j] /\ queue'[j] = queue[j]
                                 /\ con'[j] = con[j] /\ last'[j] = last[j] /\ end'[j] = end[j]
  BY <1>0, <1>1 DEF BusTypes, NextDone, NextWaits, CleanedUp, Resolved, Wake
<1>4. con'[i] = "waiting" => queue[i] = <<>>
  BY <1>0 DEF BusTypes, Gapless, NextDone, NextWaits, CleanedUp, Resolved, Wake
<1>5. Gapless(i)'
  BY <1>0, <1>1, <1>4 DEF Gapless, Inactive, BusTypes
<1>6. UNCHANGED Stream!vars
  BY <1>0, <1>1 DEF Stream!vars, Phase, BusTypes
<1> QED BY <1>1, <1>2, <1>3, <1>5, <1>6, OthersGapless

LEMMA ReturnKeeps ==
    ASSUME BusInv, NEW i \in Iterators, Return(i)
    PROVE  BusInv' /\ Stream!Next
<1>0. BusTypes /\ Gapless(i)
  BY DEF BusInv
<1>1. /\ sub[i] \in {"connecting", "live"} /\ UNCHANGED <<transport, published, queue, last>>
      /\ end' = [end EXCEPT ![i] = IF sub[i] = "live" THEN published ELSE last[i]]
      /\ sub' = [sub EXCEPT ![i] = "closed"] \/ sub' = [sub EXCEPT ![i] = "closing"]
  BY DEF Return, ReturnInMemory, ReturnOnRedis
<1>2. BusTypes'
  <2>1. con' \in [Iterators -> {"none", "ready", "waiting", "resolving", "ended"}]
    BY <1>0 DEF BusTypes, Return, ReturnInMemory, ReturnOnRedis, Wake
  <2>2. wire' \in [Iterators -> Seq(Nat)]
    <3>1. <<>> \in Seq(Nat)
      OBVIOUS
    <3>2. wire' = wire \/ wire' = [wire EXCEPT ![i] = <<>>]
      BY DEF Return, ReturnInMemory, ReturnOnRedis
    <3>3. wire \in [Iterators -> Seq(Nat)]
      BY <1>0 DEF BusTypes
    <3> QED BY <3>1, <3>2, <3>3
  <2>3. end' \in [Iterators -> Nat]
    BY <1>0, <1>1 DEF BusTypes
  <2>4. sub' \in [Iterators -> {"none", "connecting", "live", "closing", "closed"}]
    BY <1>0, <1>1 DEF BusTypes
  <2> QED BY <1>0, <1>1, <2>1, <2>2, <2>3, <2>4 DEF BusTypes
<1>3. \A j \in Iterators \ {i} : /\ sub'[j] = sub[j] /\ wire'[j] = wire[j] /\ queue'[j] = queue[j]
                                 /\ con'[j] = con[j] /\ last'[j] = last[j] /\ end'[j] = end[j]
  BY <1>0, <1>1 DEF BusTypes, Return, ReturnInMemory, ReturnOnRedis, Wake
<1>4. wire'[i] = <<>> /\ (con'[i] = "waiting" => queue[i] = <<>>)
  BY <1>0 DEF BusTypes, Gapless, Return, ReturnInMemory, ReturnOnRedis, Wake
<1>5. Gapless(i)'
  <2>1. last[i] \in Nat /\ queue[i] \in Seq(Nat) /\ wire[i] \in Seq(Nat) /\ published \in Nat
    BY <1>0 DEF BusTypes
  <2>2. last[i] + Len(queue[i]) <= end'[i]
    <3>1. CASE sub[i] = "live"
      BY <1>0, <1>1, <2>1, <3>1 DEF Gapless, BusTypes
    <3>2. CASE sub[i] = "connecting"
      BY <1>0, <1>1, <2>1, <3>2 DEF Gapless, BusTypes
    <3> QED BY <1>1, <3>1, <3>2
  <2>3. sub'[i] \in {"closing", "closed"}
    BY <1>0, <1>1 DEF BusTypes
  <2>4. InOrder(wire'[i], last'[i] + Len(queue'[i]))
    BY <1>4 DEF InOrder
  <2> QED BY <1>0, <1>1, <1>4, <2>2, <2>3, <2>4 DEF Gapless, Inactive
<1>6. Stream!Leave({i})
  <2>1. Phase[i] # "over"
    BY <1>1, PhaseIs
  <2>2. Phase' = [j \in Iterators |-> IF j \in {i} THEN "over" ELSE Phase[j]]
    BY <1>0, <1>1 DEF Phase, BusTypes
  <2>3. Phase[i] = "live" <=> sub[i] = "live"
    BY <1>1, PhaseIs
  <2>4. end' = [j \in Iterators |-> IF j \in {i}
                                    THEN (IF Phase[j] = "live" THEN published ELSE last[j])
                                    ELSE end[j]]
    BY <1>0, <1>1, <2>3 DEF BusTypes
  <2> QED BY <1>1, <2>1, <2>2, <2>4 DEF Stream!Leave
<1> QED BY <1>1, <1>2, <1>3, <1>5, <1>6, OthersGapless DEF Stream!Next

LEMMA AllEndKeeps == BusInv /\ AllEnd => BusInv' /\ Stream!Next
<1> SUFFICES ASSUME BusInv, AllEnd PROVE BusInv' /\ Stream!Next
  OBVIOUS
<1>0. BusTypes /\ \A i \in Iterators : Gapless(i)
  BY DEF BusInv
<1> DEFINE S == {i \in Iterators : sub[i] \in {"connecting", "live"}}
<1>1. BusTypes'
  BY <1>0 DEF BusTypes, AllEnd
<1>2. ASSUME NEW i \in Iterators PROVE Gapless(i)'
  <2>1. /\ last[i] \in Nat /\ queue[i] \in Seq(Nat) /\ wire[i] \in Seq(Nat) /\ published \in Nat
        /\ end[i] \in Nat
    BY <1>0 DEF BusTypes
  <2>2. /\ queue'[i] = <<>> /\ wire'[i] = <<>> /\ last'[i] = last[i] /\ con'[i] # "waiting"
        /\ sub'[i] \in {"none", "closed"}
    BY DEF AllEnd
  <2>3. sub'[i] = "closed" => last[i] <= end'[i]
    <3>1. last[i] <= last[i] + Len(queue[i]) /\ Len(wire[i]) >= 0
      BY <2>1
    <3>2. CASE sub[i] = "live"
      <4>1. last[i] + Len(queue[i]) + Len(wire[i]) = published /\ end'[i] = published
        BY <1>0, <3>2 DEF Gapless, AllEnd
      <4> QED BY <2>1, <3>1, <4>1
    <3>3. CASE sub[i] = "connecting"
      BY <2>1, <3>3 DEF AllEnd
    <3>4. CASE sub[i] \in {"closing", "closed"}
      <4>1. last[i] + Len(queue[i]) <= end[i] /\ end'[i] = end[i]
        BY <1>0, <3>4 DEF Gapless, Inactive, AllEnd
      <4> QED BY <2>1, <3>1, <4>1
    <3>5. CASE sub[i] = "none"
      BY <3>5 DEF AllEnd
    <3> QED BY <1>0, <3>2, <3>3, <3>4, <3>5 DEF BusTypes
  <2>4. last'[i] + Len(queue'[i]) = last[i]
    BY <2>1, <2>2
  <2> QED BY <2>2, <2>3, <2>4 DEF Gapless, Inactive, InOrder
<1>3. Stream!Leave(S)
  <2>1. \A i \in S : Phase[i] # "over"
    BY PhaseIs
  <2>2. Phase' = [i \in Iterators |-> IF i \in S THEN "over" ELSE Phase[i]]
    BY <1>0 DEF Phase, AllEnd, BusTypes
  <2>3. \A i \in Iterators : Phase[i] = "live" <=> sub[i] = "live"
    BY <1>0, PhaseIs DEF BusTypes
  <2>4. end' = [i \in Iterators |-> IF i \in S
                                    THEN (IF Phase[i] = "live" THEN published ELSE last[i])
                                    ELSE end[i]]
    BY <1>0, <2>3 DEF AllEnd, BusTypes
  <2> QED BY <2>1, <2>2, <2>4 DEF Stream!Leave, AllEnd
<1>4. S \in SUBSET Iterators
  OBVIOUS
<1> QED BY <1>1, <1>2, <1>3, <1>4 DEF BusInv, Stream!Next

LEMMA BusKeeps == BusInv /\ BusStep => BusInv' /\ [Stream!Next]_(Stream!vars)
<1> SUFFICES ASSUME BusInv, BusStep PROVE BusInv' /\ [Stream!Next]_(Stream!vars)
  OBVIOUS
<1>1. ASSUME NEW i \in Iterators, IteratorStep(i) PROVE BusInv' /\ [Stream!Next]_(Stream!vars)
  BY <1>1, OnMessageKeeps, JoinKeeps, NextQueuedKeeps, ConsumerKeeps DEF IteratorStep
<1>2. CASE UNCHANGED busVars
  BY <1>2 DEF busVars, BusInv, BusTypes, Gapless, Inactive, Stream!vars, Phase
<1> QED BY <1>1, <1>2, PublishKeeps, AllEndKeeps, JoinKeeps, ConsumerKeeps,
     ReturnKeeps DEF BusStep

\* Subscriptions implement EventStream: whichever transport carries them, and
\* whatever ends them, events are handed out without loss, repetition or
\* reordering.
THEOREM StreamImplemented == Spec => ImplementsStream
<1>1. Init => BusInv /\ Stream!Init
  BY BusStart DEF Init, ApiInit
<1>2. BusInv /\ [Next]_vars => BusInv' /\ [Stream!Next]_(Stream!vars)
  BY NextIsBusStep, BusKeeps
<1> QED BY <1>1, <1>2, PTL DEF Spec, ImplementsStream, Stream!Spec

(***************************************************************************)
(* Mutations and calls.  A call sends its next mutation when it has had an *)
(* answer to the one before or has given it up, so that of the mutations   *)
(* of one call that are not given up only the last may still run.          *)
(***************************************************************************)

MutationTypes ==
    /\ rpc \in [Requests -> {"none"} \cup Upserting \cup Tagging \cup Over]
    /\ batch \in [Requests -> BatchKinds \cup {"none"}]
    /\ gone \in SUBSET Requests
    /\ row \in Requests \cup {NoRequest} /\ workOf \in Requests \cup {NoRequest}
    /\ works \in SUBSET Requests /\ tags \in SUBSET Requests
    /\ overlap \in SUBSET (Requests \X Requests)
    /\ call \in [Jobs -> Requests \cup {NoRequest}]
    /\ by \in [Requests -> Jobs \cup {NoJob}]
    /\ outcome \in [Requests -> {"none", "accepted", "rejected"}]

Sent(q) == rpc[q] # "none"

Calls ==
    /\ \A q \in Requests : ~Sent(q) => by[q] = NoJob /\ outcome[q] = "none"
    /\ \A q \in Requests : Sent(q) => by[q] \in Jobs
    /\ \A j \in Jobs : call[j] # NoRequest => Sent(call[j]) /\ by[call[j]] = j
    /\ \A j \in Jobs, q \in Requests : by[q] = j /\ q # call[j] => rpc[q] \in Over \/ q \in gone
    /\ \A j \in Jobs, q \in Requests : call[j] # NoRequest /\ by[q] = j => q <= call[j]
    /\ \A q \in Requests : outcome[q] = "accepted" => rpc[q] = "done"
    /\ \A q \in Requests : rpc[q] \in Tagging => batch[q] # "none"

\* A mutation that has written the recording stays ahead of the older ones of
\* its call, those aside that were given up.
LateWrites ==
    row # NoRequest =>
        /\ Sent(row)
        /\ \A q \in Requests :
              row < q /\ by[q] = by[row] /\ batch[q] = "none"
                      /\ rpc[q] \in {"tellRecording", "tellWork", "done"}
                  => row \in gone

Works ==
    /\ row = NoRequest <=> workOf = NoRequest
    /\ \A q \in Requests : rpc[q] = "update" => row # NoRequest
    /\ OrphansExplained

\* Whoever is about to insert tags overlapped with whoever has inserted some
\* since its own deletion.
Mixed ==
    /\ \A p, q \in Running : p # q => <<p, q>> \in overlap
    /\ \A p \in tags, q \in Requests :
          rpc[q] = "insert" /\ p # q => <<p, q>> \in overlap /\ <<q, p>> \in overlap
    /\ MixOnlyFromOverlap

MutationInv == MutationTypes /\ Calls /\ LateWrites /\ Works /\ Mixed

LEMMA NoRequestIsNone == NoRequest \notin Requests /\ Requests \subseteq Nat
BY RequestsAssumption DEF Requests, NoRequest

LEMMA NoJobIsNone == NoJob \notin Jobs
BY IngestAssumption DEF Jobs, NoJob

LEMMA MutationsStart == Init => MutationInv
BY NoRequestIsNone, NoJobIsNone
DEF Init, ApiInit, MutationInv, MutationTypes, Calls, LateWrites, Works, Mixed, Running, Sent,
    Upserting, Tagging, Over, OrphansExplained, MixOnlyFromOverlap, BatchKinds

mutationVars == <<rpc, batch, gone, row, workOf, works, tags, overlap, call, by, outcome>>

\* A mutation comes.
Comes(j, q) ==
    /\ rpc[q] = "none" /\ call[j] = NoRequest
    /\ \A p \in Requests : p < q <=> rpc[p] # "none"
    /\ \/ rpc' = [rpc EXCEPT ![q] = "find"] /\ UNCHANGED batch
       \/ rpc' = [rpc EXCEPT ![q] = "failed"] /\ UNCHANGED batch
       \/ rpc' = [rpc EXCEPT ![q] = "delete"] /\ \E b \in BatchKinds : batch' = [batch EXCEPT ![q] = b]
    /\ overlap' = overlap \cup (Running \X {q}) \cup ({q} \X Running)
    /\ call' = [call EXCEPT ![j] = q]
    /\ by' = [by EXCEPT ![q] = j]
    /\ UNCHANGED <<gone, row, workOf, works, tags, outcome>>

\* It goes from one statement to another.
Moves(q, to) ==
    /\ rpc[q] \in Upserting \cup Tagging
    /\ rpc' = [rpc EXCEPT ![q] = to]
    /\ UNCHANGED <<batch, gone, overlap, call, by, outcome>>

Writes(q) ==
    /\ Moves(q, "tellRecording") \/ Moves(q, "failed")
    /\ row' = q /\ UNCHANGED <<works, tags>>
    /\ \/ rpc[q] = "update" /\ UNCHANGED workOf
       \/ rpc[q] = "create" /\ row = NoRequest /\ workOf' = q

Advances(q) ==
    /\ \/ rpc[q] = "find" /\ Moves(q, "update") /\ row # NoRequest
       \/ rpc[q] = "find" /\ Moves(q, "work")
       \/ rpc[q] = "tellRecording" /\ Moves(q, "tellWork")
       \/ rpc[q] = "tellWork" /\ Moves(q, "done")
       \/ rpc[q] = "read" /\ Moves(q, "done")
       \/ Moves(q, "failed")
    /\ UNCHANGED dbVars

CreatesWork(q) ==
    /\ rpc[q] = "work"
    /\ Moves(q, "create") \/ Moves(q, "failed")
    /\ works' = works \cup {q} /\ UNCHANGED <<row, workOf, tags>>

DeletesTags(q) ==
    /\ rpc[q] = "delete"
    /\ Moves(q, "done") \/ Moves(q, "failed") \/ Moves(q, "insert")
    /\ tags' = {} /\ UNCHANGED <<row, workOf, works>>

InsertsTags(q) ==
    /\ rpc[q] = "insert"
    /\ Moves(q, "read") \/ Moves(q, "failed")
    /\ tags' = tags \cup {q} /\ UNCHANGED <<row, workOf, works>>

\* A call counts its mutation, and may have given it up.
Counted(j) ==
    /\ call[j] # NoRequest
    /\ \/ outcome' = [outcome EXCEPT ![call[j]] = "rejected"]
       \/ outcome' = [outcome EXCEPT ![call[j]] = "accepted"] /\ rpc[call[j]] = "done"
    /\ \/ rpc[call[j]] \in Over /\ UNCHANGED gone
       \/ gone' = gone \cup {call[j]}
    /\ call' = [call EXCEPT ![j] = NoRequest]
    /\ UNCHANGED <<rpc, batch, dbVars, overlap, by>>

CutOff ==
    /\ rpc' = Cut
    /\ UNCHANGED <<batch, gone, dbVars, overlap, call, by, outcome>>

MutationMoves ==
    \/ \E j \in Jobs : Counted(j) \/ \E q \in Requests : Comes(j, q)
    \/ \E q \in Requests : Writes(q) \/ Advances(q) \/ CreatesWork(q) \/ DeletesTags(q) \/ InsertsTags(q)
    \/ CutOff
    \/ UNCHANGED mutationVars

LEMMA NextMoves == MutationTypes /\ [Next]_vars => MutationMoves
<1> SUFFICES ASSUME MutationTypes, [Next]_vars PROVE MutationMoves
  OBVIOUS
<1> USE DEF MutationMoves, mutationVars, dbVars
<1>1. ASSUME NEW j \in Jobs, NEW q \in Requests,
             SendTrack(j, q) \/ \E b \in Batches : SendEntry(j, q, b) \/ SendAgain(j, q, b)
      PROVE  Comes(j, q)
  BY <1>1, ApiAssumption
  DEF SendTrack, SendEntry, SendAgain, Sends, Upsert, Refuse, RecordTags, Arrives, Goto, Comes
<1>2. ASSUME NEW j \in Jobs, Answer(j) \/ Timeout(j) PROVE Counted(j)
  BY <1>2 DEF Answer, Timeout, Counts, Counted
<1>3. ASSUME NEW j \in Jobs,
             \/ BeginImprove(j) \/ SendEntryInVain(j) \/ End(j)
             \/ \E kind \in {"tracks", "rss"} : Begin(j, kind)
      PROVE  UNCHANGED mutationVars
  BY <1>3 DEF BeginImprove, SendEntryInVain, End, Begin, apiVars
<1>4. ASSUME NEW q \in Requests, MutationStep(q), UNCHANGED ingestVars
      PROVE  Writes(q) \/ Advances(q) \/ CreatesWork(q) \/ DeletesTags(q) \/ InsertsTags(q)
  <2> USE <1>4 DEF ingestVars, Goto, Rest, Moves, Upserting, Tagging
  <2>1. CASE Find(q)
    BY <2>1 DEF Find, Advances
  <2>2. CASE Update(q) \/ CreateRecording(q)
    BY <2>2 DEF Update, CreateRecording, Writes
  <2>3. CASE CreateWork(q)
    BY <2>3 DEF CreateWork, CreatesWork
  <2>4. CASE IsrcTaken(q) \/ TellRecording(q) \/ TellWork(q) \/ ReadTags(q)
    BY <2>4 DEF IsrcTaken, TellRecording, TellWork, ReadTags, Advances
  <2>5. CASE DeleteTags(q)
    BY <2>5 DEF DeleteTags, DeletesTags, MutationTypes
  <2>6. CASE InsertTags(q)
    BY <2>6 DEF InsertTags, InsertsTags
  <2> QED BY <2>1, <2>2, <2>3, <2>4, <2>5, <2>6 DEF MutationStep
<1>5. ASSUME NEW q \in Requests, StatementFails(q), UNCHANGED ingestVars
      PROVE  Writes(q) \/ Advances(q) \/ CreatesWork(q) \/ DeletesTags(q) \/ InsertsTags(q)
  <2>1. rpc[q] \in Upserting \cup Tagging /\ Moves(q, "failed")
    BY <1>5 DEF StatementFails, ThrowsInVain, ThrowsAfterWrite, ingestVars, Goto, Moves,
         Upserting,
                Tagging
  <2>2. CASE ThrowsInVain(q)
    BY <2>1, <2>2 DEF ThrowsInVain, Advances
  <2>3. CASE ThrowsAfterWrite(q)
    BY <2>1, <2>3 DEF ThrowsAfterWrite, Writes, CreatesWork, DeletesTags, InsertsTags
  <2> QED BY <1>5, <2>2, <2>3 DEF StatementFails
<1>6. ASSUME NEW i \in Iterators, SubscribeToWork(i) \/ Deliver(i) \/ Resolve(i) \/ Complete(i),
             UNCHANGED ingestVars
      PROVE  UNCHANGED mutationVars
  BY <1>6 DEF SubscribeToWork, Deliver, Resolve, Complete, apiVars, ingestVars
<1>7. CASE ProcessStep /\ UNCHANGED ingestVars
  BY <1>7 DEF ProcessStep, Crash, Stop, Drained, Exit, CutOff, ingestVars
<1>8. CASE UNCHANGED vars
  BY <1>8 DEF vars, apiVars, ingestVars
<1> QED BY <1>1, <1>2, <1>3, <1>4, <1>5, <1>6, <1>7, <1>8 DEF Next, JobStep

LEMMA TypesStep == MutationTypes /\ MutationMoves => MutationTypes'
<1> SUFFICES ASSUME MutationTypes, MutationMoves PROVE MutationTypes'
  OBVIOUS
<1> USE DEF MutationTypes, Upserting, Tagging, Over, dbVars
<1>1. ASSUME NEW j \in Jobs, Counted(j) PROVE MutationTypes'
  BY <1>1 DEF Counted
<1>2. ASSUME NEW j \in Jobs, NEW q \in Requests, Comes(j, q) PROVE MutationTypes'
  BY <1>2 DEF Comes, Running
<1>3. ASSUME NEW q \in Requests,
             Writes(q) \/ Advances(q) \/ CreatesWork(q) \/ DeletesTags(q) \/ InsertsTags(q)
      PROVE  MutationTypes'
  BY <1>3 DEF Writes, Advances, CreatesWork, DeletesTags, InsertsTags, Moves
<1>4. CASE CutOff
  BY <1>4 DEF CutOff, Cut, Running
<1>5. CASE UNCHANGED mutationVars
  BY <1>5 DEF mutationVars
<1> QED BY <1>1, <1>2, <1>3, <1>4, <1>5 DEF MutationMoves

\* What a move changes: one mutation goes from a running statement to another or ends.
LEMMA MovesOne ==
    ASSUME MutationTypes, NEW q \in Requests,
           Writes(q) \/ Advances(q) \/ CreatesWork(q) \/ DeletesTags(q) \/ InsertsTags(q)
    PROVE  /\ rpc[q] \in Upserting \cup Tagging /\ rpc'[q] # "none"
           /\ rpc'[q] \in Tagging => rpc[q] \in Tagging
           /\ \A p \in Requests \ {q} : rpc'[p] = rpc[p]
           /\ UNCHANGED <<batch, gone, overlap, call, by, outcome>>
BY DEF Writes, Advances, CreatesWork, DeletesTags, InsertsTags, Moves, MutationTypes,
Upserting, Tagging

LEMMA CutOne ==
    ASSUME MutationTypes, CutOff
    PROVE  \A q \in Requests : IF rpc[q] \in Upserting \cup Tagging THEN rpc'[q] = "cut"
                                                                   ELSE rpc'[q] = rpc[q]
BY DEF MutationTypes, CutOff, Cut, Running

\* Calls are as they were when mutations only go on or end.
LEMMA SameCalls ==
    ASSUME Calls, MutationTypes, UNCHANGED <<batch, gone, call, by, outcome>>,
           \A p \in Requests : \/ rpc'[p] = rpc[p]
                              \/ /\ rpc[p] \notin Over \cup {"none"} /\ rpc'[p] # "none"
                                 /\ rpc'[p] \in Tagging => rpc[p] \in Tagging
    PROVE  Calls'
<1>1. \A q \in Requests : /\ Sent(q)' <=> Sent(q)
                          /\ rpc[q] \in Over => rpc'[q] = rpc[q]
                          /\ rpc'[q] \in Tagging => rpc[q] \in Tagging
  BY DEF Sent
<1>2. \A q \in Requests : outcome[q] = "accepted" => rpc'[q] = "done"
  BY <1>1 DEF Calls, Over
<1>3. \A j \in Jobs, q \in Requests : by[q] = j /\ q # call[j] => rpc'[q] \in Over \/ q \in gone
  BY <1>1 DEF Calls
<1>4. \A j \in Jobs : call[j] # NoRequest => Sent(call[j])' /\ by[call[j]] = j
  BY <1>1 DEF Calls, MutationTypes
<1> QED BY <1>1, <1>2, <1>3, <1>4 DEF Calls

LEMMA CallsStep == MutationTypes /\ Calls /\ MutationMoves => Calls'
<1> SUFFICES ASSUME MutationTypes, Calls, MutationMoves PROVE Calls'
  OBVIOUS
<1> USE NoRequestIsNone, NoJobIsNone DEF MutationTypes, Calls, Sent, Over, Upserting, Tagging
<1>1. ASSUME NEW j \in Jobs, Counted(j) PROVE Calls'
  <2>1. /\ call[j] \in Requests /\ call' = [call EXCEPT ![j] = NoRequest]
        /\ UNCHANGED <<rpc, batch, by>> /\ gone \subseteq gone'
        /\ call[j] \in gone' \/ rpc[call[j]] \in Over
        /\ \A q \in Requests : outcome'[q] = "accepted" => rpc[q] = "done"
        /\ \A q \in Requests : ~Sent(q) => outcome'[q] = "none"
    BY <1>1 DEF Counted
  <2> QED BY <2>1
<1>2. ASSUME NEW j \in Jobs, NEW q \in Requests, Comes(j, q) PROVE Calls'
  <2>1. /\ rpc[q] = "none" /\ call[j] = NoRequest /\ rpc'[q] \in {"find", "failed", "delete"}
        /\ \A p \in Requests \ {q} : rpc'[p] = rpc[p] /\ batch'[p] = batch[p]
        /\ rpc'[q] = "delete" => batch'[q] \in BatchKinds
        /\ call' = [call EXCEPT ![j] = q] /\ by' = [by EXCEPT ![q] = j]
        /\ UNCHANGED <<gone, outcome>>
    BY <1>2 DEF Comes
  <2>2. \A p \in Requests : rpc[p] # "none" => p <= q
    BY <1>2 DEF Comes
  <2>3. \A p \in Requests \ {q} : by'[p] = by[p]
    BY <2>1
  <2>4. \A k \in Jobs \ {j} : call'[k] = call[k] /\ call[k] # q
    BY <2>1
  <2>5. call'[j] = q /\ by'[q] = j /\ by[q] = NoJob /\ outcome[q] = "none"
    BY <2>1
  <2>6. \A k \in Jobs, p \in Requests : by'[p] = k /\ p # call'[k] => rpc'[p] \in Over \/ p \in gone'
    BY <2>1, <2>3, <2>4, <2>5
  <2>7. \A k \in Jobs, p \in Requests : call'[k] # NoRequest /\ by'[p] = k => p <= call'[k]
    BY <2>1, <2>2, <2>3, <2>4, <2>5
  <2>8. \A p \in Requests : rpc'[p] \in Tagging => batch'[p] # "none"
    BY <2>1 DEF BatchKinds
  <2>9. \A p \in Requests : rpc'[p] = "none" => p # q /\ by'[p] = NoJob /\ outcome'[p] = "none"
    BY <2>1, <2>3
  <2>10. \A p \in Requests : rpc'[p] # "none" => by'[p] \in Jobs
    BY <2>1, <2>3, <2>5
  <2>11. \A k \in Jobs : call'[k] # NoRequest => rpc'[call'[k]] # "none" /\ by'[call'[k]] = k
    <3>1. ASSUME NEW k \in Jobs \ {j}, call[k] # NoRequest
          PROVE  rpc'[call[k]] # "none" /\ by'[call[k]] = k
      <4>1. call[k] \in Requests \ {q} /\ rpc[call[k]] # "none" /\ by[call[k]] = k
        BY <2>4, <3>1
      <4> QED BY <2>1, <2>3, <4>1
    <3> QED BY <2>1, <2>4, <2>5, <3>1
  <2>12. \A p \in Requests : outcome'[p] = "accepted" => rpc'[p] = "done"
    BY <2>1, <2>5
  <2> HIDE DEF MutationTypes
  <2> QED BY <2>6, <2>7, <2>8, <2>9, <2>10, <2>11, <2>12
<1>3. ASSUME NEW q \in Requests,
             Writes(q) \/ Advances(q) \/ CreatesWork(q) \/ DeletesTags(q) \/ InsertsTags(q)
      PROVE  Calls'
  <2>1. /\ rpc[q] \notin Over /\ rpc[q] # "none" /\ rpc'[q] # "none"
        /\ rpc'[q] \in Tagging => rpc[q] \in Tagging
        /\ \A p \in Requests \ {q} : rpc'[p] = rpc[p]
        /\ UNCHANGED <<batch, gone, call, by, outcome>>
    BY <1>3, MovesOne
  <2> QED BY <2>1, SameCalls
<1>4. CASE CutOff
  <2>1. UNCHANGED <<batch, gone, call, by, outcome>>
    BY <1>4 DEF CutOff
  <2>2. \A p \in Requests : rpc'[p] = rpc[p] \/ (rpc[p] \notin Over \cup {"none"} /\ rpc'[p] = "cut")
    BY <1>4, CutOne
  <2> QED BY <2>1, <2>2, SameCalls
<1>5. CASE UNCHANGED mutationVars
  BY <1>5 DEF mutationVars
<1> QED BY <1>1, <1>2, <1>3, <1>4, <1>5 DEF MutationMoves

LEMMA LateWritesStep == MutationTypes /\ Calls /\ LateWrites /\ MutationMoves => LateWrites'
<1> SUFFICES ASSUME MutationTypes, Calls, LateWrites, MutationMoves PROVE LateWrites'
  OBVIOUS
<1> USE NoRequestIsNone, NoJobIsNone DEF MutationTypes, LateWrites, Sent, Over, Upserting, Tagging
<1>1. ASSUME NEW j \in Jobs, Counted(j) PROVE LateWrites'
  BY <1>1 DEF Counted, dbVars
<1>2. ASSUME NEW j \in Jobs, NEW q \in Requests, Comes(j, q) PROVE LateWrites'
  <2>1. /\ rpc[q] = "none" /\ rpc'[q] \in {"find", "failed", "delete"}
        /\ \A p \in Requests \ {q} : rpc'[p] = rpc[p] /\ batch'[p] = batch[p] /\ by'[p] = by[p]
        /\ UNCHANGED <<gone, row>>
    BY <1>2 DEF Comes
  <2> QED BY <2>1
<1>3. ASSUME NEW q \in Requests, Writes(q) PROVE LateWrites'
  <2>1. row' = q /\ UNCHANGED <<batch, gone, by>> /\ rpc[q] \in {"update", "create"}
    BY <1>3 DEF Writes, Moves
  <2>2. /\ rpc'[q] # "none" /\ \A p \in Requests \ {q} : rpc'[p] = rpc[p]
    BY <1>3, MovesOne
  <2>3. ASSUME NEW p \in Requests, q < p, by[p] = by[q], rpc[p] # "none" PROVE q \in gone
    <3>1. by[q] \in Jobs /\ rpc[q] \notin Over
      BY <2>1 DEF Calls
    <3>2. call[by[q]] # q
      BY <2>3, <3>1 DEF Calls
    <3> QED BY <3>1, <3>2 DEF Calls
  <2> QED BY <2>1, <2>2, <2>3
<1>4. ASSUME NEW q \in Requests, Advances(q) \/ CreatesWork(q) \/ DeletesTags(q) \/ InsertsTags(q)
      PROVE  LateWrites'
  <2>1. UNCHANGED <<row, batch, gone, by>> /\ rpc'[q] # "none"
    BY <1>4, MovesOne DEF Advances, CreatesWork, DeletesTags, InsertsTags, dbVars
  <2>2. \A p \in Requests \ {q} : rpc'[p] = rpc[p]
    BY <1>4, MovesOne
  <2>3. rpc'[q] \in {"tellRecording", "tellWork", "done"} =>
          rpc[q] \in {"tellRecording", "tellWork"} \/ batch[q] # "none"
    BY <1>4 DEF Advances, CreatesWork, DeletesTags, InsertsTags, Moves, Calls
  <2> QED BY <2>1, <2>2, <2>3
<1>5. CASE CutOff
  <2>1. UNCHANGED <<row, batch, gone, by>>
    BY <1>5 DEF CutOff, dbVars
  <2> QED BY <1>5, <2>1, CutOne
<1>6. CASE UNCHANGED mutationVars
  BY <1>6 DEF mutationVars
<1> QED BY <1>1, <1>2, <1>3, <1>4, <1>5, <1>6 DEF MutationMoves

LEMMA WorksStep == MutationTypes /\ Works /\ MutationMoves => Works'
<1> SUFFICES ASSUME MutationTypes, Works, MutationMoves PROVE Works'
  OBVIOUS
<1> USE NoRequestIsNone DEF MutationTypes, Works, OrphansExplained, Upserting, Tagging
<1>1. ASSUME NEW j \in Jobs, Counted(j) PROVE Works'
  BY <1>1 DEF Counted, dbVars
<1>2. ASSUME NEW j \in Jobs, NEW q \in Requests, Comes(j, q) PROVE Works'
  BY <1>2 DEF Comes
<1>3. ASSUME NEW q \in Requests, Writes(q) PROVE Works'
  BY <1>3 DEF Writes, Moves
<1>4. ASSUME NEW q \in Requests, Advances(q) PROVE Works'
  BY <1>4 DEF Advances, Moves, dbVars
<1>5. ASSUME NEW q \in Requests, CreatesWork(q) PROVE Works'
  BY <1>5 DEF CreatesWork, Moves
<1>t. ASSUME NEW q \in Requests, DeletesTags(q) \/ InsertsTags(q) PROVE Works'
  <2>1. UNCHANGED <<row, workOf, works>> /\ rpc[q] \in {"delete", "insert"}
    BY <1>t DEF DeletesTags, InsertsTags
  <2>2. rpc'[q] # "update" /\ \A p \in Requests \ {q} : rpc'[p] = rpc[p]
    BY <1>t DEF DeletesTags, InsertsTags, Moves
  <2> QED BY <2>1, <2>2
<1>6. CASE CutOff
  BY <1>6, CutOne DEF CutOff, dbVars
<1>7. CASE UNCHANGED mutationVars
  BY <1>7 DEF mutationVars
<1> QED BY <1>1, <1>2, <1>3, <1>4, <1>5, <1>t, <1>6, <1>7 DEF MutationMoves

LEMMA MixedStep == MutationTypes /\ Mixed /\ MutationMoves => Mixed'
<1> SUFFICES ASSUME MutationTypes, Mixed, MutationMoves PROVE Mixed'
  OBVIOUS
<1> USE DEF MutationTypes, Mixed, MixOnlyFromOverlap, Running, Upserting, Tagging
<1>1. ASSUME NEW j \in Jobs, Counted(j) PROVE Mixed'
  BY <1>1 DEF Counted, dbVars
<1>2. ASSUME NEW j \in Jobs, NEW q \in Requests, Comes(j, q) PROVE Mixed'
  <2>1. /\ rpc[q] = "none" /\ rpc'[q] # "insert" /\ UNCHANGED tags
        /\ \A p \in Requests \ {q} : rpc'[p] = rpc[p]
        /\ overlap' = overlap \cup (Running \X {q}) \cup ({q} \X Running)
    BY <1>2 DEF Comes
  <2> QED BY <2>1
<1>3. ASSUME NEW q \in Requests, DeletesTags(q) PROVE Mixed'
  BY <1>3, MovesOne DEF DeletesTags
<1>4. ASSUME NEW q \in Requests, InsertsTags(q) PROVE Mixed'
  <2>1. /\ rpc[q] = "insert" /\ rpc'[q] # "insert" /\ tags' = tags \cup {q} /\ UNCHANGED overlap
        /\ \A p \in Requests \ {q} : rpc'[p] = rpc[p]
    BY <1>4 DEF InsertsTags, Moves
  <2> QED BY <2>1
<1>5. ASSUME NEW q \in Requests, Writes(q) \/ Advances(q) \/ CreatesWork(q) PROVE Mixed'
  <2>1. UNCHANGED <<tags, overlap>> /\ rpc'[q] # "insert"
    BY <1>5 DEF Writes, Advances, CreatesWork, Moves, dbVars
  <2> QED BY <1>5, <2>1, MovesOne
<1>6. CASE CutOff
  <2>1. UNCHANGED <<tags, overlap>>
    BY <1>6 DEF CutOff, dbVars
  <2> QED BY <1>6, <2>1, CutOne
<1>7. CASE UNCHANGED mutationVars
  BY <1>7 DEF mutationVars
<1> QED BY <1>1, <1>2, <1>3, <1>4, <1>5, <1>6, <1>7 DEF MutationMoves

LEMMA MutationsStep == MutationInv /\ [Next]_vars => MutationInv'
BY NextMoves, TypesStep, CallsStep, LateWritesStep, WorksStep, MixedStep DEF MutationInv

\* Mutations, the callers that wait for them or have given them up, and the rows
\* they have written keep in step.
THEOREM MutationsSound == Spec => []MutationInv
BY MutationsStart, MutationsStep, PTL DEF Spec

\* The recording keeps data older than what its call has had accepted since only
\* if the older mutation was given up and landed late.
THEOREM LateOverwrites == Spec => []OnlyLateOverwrites
<1>1. MutationInv => OnlyLateOverwrites
  BY NoRequestIsNone DEF MutationInv, MutationTypes, Calls, LateWrites, OnlyLateOverwrites
<1> QED BY <1>1, MutationsSound, PTL

\* A work without its recording is that of a mutation that has failed, was cut
\* off, or is about to create it.
THEOREM NoOtherOrphans == Spec => []OrphansExplained
<1>1. MutationInv => OrphansExplained
  BY DEF MutationInv, Works
<1> QED BY <1>1, MutationsSound, PTL

\* Tags of two mutations stand side by side only if the two overlapped.
THEOREM MixesExplained == Spec => []MixOnlyFromOverlap
<1>1. MutationInv => MixOnlyFromOverlap
  BY DEF MutationInv, Mixed
<1> QED BY <1>1, MutationsSound, PTL

(***************************************************************************)
(* What a subscriber has seen.  A row changes only under a mutation that   *)
(* will announce it or has failed, and the announcement puts every live    *)
(* subscription behind the log, or its consumer to work, until it has read *)
(* the row.                                                                *)
(***************************************************************************)

Unseen(i) == sub[i] \in {"none", "connecting"} => con[i] # "resolving" /\ seen[i] = NoRequest

Fresh(i) ==
    sub[i] = "live" /\ con[i] \in {"ready", "waiting"} /\ last[i] = published /\ seen[i] # NoRequest
        => Unannounced \/ seen[i] = row

SeenInv ==
    /\ seen \in [Iterators -> Requests \cup {NoRequest}]
    /\ \A i \in Iterators : Unseen(i) /\ Fresh(i)

LEMMA SeenStart == Init => SeenInv
BY DEF Init, ApiInit, BusInit, SeenInv, Unseen, Fresh

\* Steps that leave the topic alone and pass no row for announced.
LEMMA SameSeen ==
    ASSUME SeenInv, UNCHANGED <<busVars, seen>>,
           Unannounced' \/ (row' = row /\ ~Unannounced)
    PROVE  SeenInv'
BY DEF SeenInv, Unseen, Fresh, busVars

LEMMA PublishSeen ==
    ASSUME BusInv, SeenInv, Publish, UNCHANGED seen
    PROVE  SeenInv'
<1>1. ASSUME NEW i \in Iterators PROVE (Unseen(i) /\ Fresh(i))'
  <2>1. published' = published + 1 /\ published \in Nat /\ UNCHANGED <<sub, seen>>
    BY DEF BusInv, BusTypes, Publish, PublishInMemory, PublishOnRedis
  <2>2. CASE PublishOnRedis
    <3>1. UNCHANGED <<con, last>>
      BY <2>2 DEF PublishOnRedis
    <3>2. sub[i] = "live" => last[i] # published'
      <4>1. /\ sub[i] = "live" => last[i] + Len(queue[i]) + Len(wire[i]) = published
            /\ last[i] \in Nat /\ Len(queue[i]) \in Nat /\ Len(wire[i]) \in Nat
        BY DEF BusInv, BusTypes, Gapless
      <4> QED BY <2>1, <4>1
    <3> QED BY <2>1, <3>1, <3>2 DEF SeenInv, Unseen, Fresh
  <2>3. CASE PublishInMemory
    <3>1. CASE sub[i] = "live" /\ con[i] = "waiting"
      <4>1. con'[i] = "resolving"
        BY <2>3, <3>1 DEF PublishInMemory, Push
      <4> QED BY <2>1, <3>1, <4>1 DEF SeenInv, Unseen, Fresh
    <3>2. CASE ~(sub[i] = "live" /\ con[i] = "waiting")
      <4>1. con'[i] = con[i] /\ last'[i] = last[i]
        BY <2>3, <3>2 DEF PublishInMemory, Push
      <4>2. sub[i] = "live" => last[i] # published'
        <5>1. /\ sub[i] = "live" => last[i] + Len(queue[i]) + Len(wire[i]) = published
              /\ last[i] \in Nat /\ Len(queue[i]) \in Nat /\ Len(wire[i]) \in Nat
          BY DEF BusInv, BusTypes, Gapless
        <5> QED BY <2>1, <5>1
      <4> QED BY <2>1, <4>1, <4>2 DEF SeenInv, Unseen, Fresh
    <3> QED BY <3>1, <3>2
  <2> QED BY <2>2, <2>3 DEF Publish
<1> QED BY <1>1 DEF SeenInv

LEMMA IteratorSeen ==
    ASSUME BusInv, SeenInv, NEW i \in Iterators, UNCHANGED apiVars,
           Subscribe(i) \/ IteratorStep(i) \/ Return(i)
    PROVE  SeenInv'
<1>1. UNCHANGED <<published, seen, row, rpc>>
  BY DEF apiVars, dbVars, Subscribe, IteratorStep, Return, OnMessage, Established, NextQueued,
         NextDone, NextWaits, CleanedUp
<1>2. \A j \in Iterators \ {i} : sub'[j] = sub[j] /\ con'[j] = con[j] /\ last'[j] = last[j]
  BY DEF BusInv, BusTypes, Subscribe, IteratorStep, Return, OnMessage, Push, Established,
  NextQueued,
         NextDone, NextWaits, CleanedUp, Wake, ReturnInMemory, ReturnOnRedis
<1>3. Unannounced' = Unannounced
  BY <1>1 DEF Unannounced
<1>4. (Unseen(i) /\ Fresh(i))'
  <2> USE DEF BusInv, BusTypes, SeenInv, Unseen, Fresh
  <2>1. CASE Subscribe(i)
    BY <1>1, <1>3, <2>1 DEF Subscribe
  <2>2. CASE Established(i)
    BY <1>1, <1>3, <2>2 DEF Established
  <2>3. CASE OnMessage(i)
    <3>1. UNCHANGED sub /\ sub[i] \notin {"none", "connecting"}
      BY <2>3 DEF OnMessage, Gapless
    <3>2. CASE con[i] = "waiting"
      BY <3>1, <2>3, <3>2 DEF OnMessage, Push
    <3>3. CASE con[i] # "waiting"
      <4>1. con'[i] = con[i] /\ last'[i] = last[i]
        BY <2>3, <3>3 DEF OnMessage, Push
      <4> QED BY <1>1, <1>3, <3>1, <4>1
    <3> QED BY <3>2, <3>3
  <2>4. CASE NextQueued(i)
    BY <1>1, <1>3, <2>4 DEF NextQueued, Gapless
  <2>5. CASE NextDone(i) \/ NextWaits(i)
    BY <1>1, <1>3, <2>5 DEF NextDone, NextWaits
  <2>6. CASE CleanedUp(i) \/ Return(i)
    <3>1. sub'[i] \in {"closing", "closed"}
      BY <2>6 DEF CleanedUp, Return, ReturnInMemory, ReturnOnRedis
    <3> QED BY <3>1
  <2> QED BY <2>1, <2>2, <2>3, <2>4, <2>5, <2>6 DEF IteratorStep
<1> QED BY <1>1, <1>2, <1>3, <1>4 DEF SeenInv, Unseen, Fresh

LEMMA SeenStep == BusInv /\ MutationTypes /\ SeenInv /\ [Next]_vars => SeenInv'
<1> SUFFICES ASSUME BusInv, MutationTypes, SeenInv, [Next]_vars PROVE SeenInv'
  OBVIOUS
<1>1. ASSUME NEW j \in Jobs,
             BeginImprove(j) \/ JobStep(j) \/ \E kind \in {"tracks", "rss"} : Begin(j, kind)
      PROVE  SeenInv'
  <2>1. UNCHANGED <<busVars, seen, row>>
    BY <1>1
    DEF BeginImprove, JobStep, Begin, SendEntryInVain, Answer, Timeout, End, SendTrack, SendEntry,
        SendAgain, Upsert, Refuse, RecordTags, Arrives, Counts, apiVars, dbVars
  <2>2. UNCHANGED rpc \/ \E q \in Requests, to \in {"find", "failed", "delete"} : Goto(q, "none", to)
    BY <1>1
    DEF BeginImprove, JobStep, Begin, SendEntryInVain, Answer, Timeout, End, SendTrack, SendEntry,
        SendAgain, Upsert, Refuse, RecordTags, Arrives, Counts, apiVars
  <2>3. Unannounced => Unannounced'
    BY <2>1, <2>2 DEF Goto, Unannounced, MutationTypes
  <2> QED BY <2>1, <2>3, SameSeen
<1>2. ASSUME NEW q \in Requests, MutationStep(q) PROVE SeenInv'
  <2>1. CASE TellWork(q)
    BY <2>1, PublishSeen DEF TellWork
  <2>2. CASE Update(q) \/ CreateRecording(q)
    <3>1. Unannounced'
      BY <2>2 DEF Update, CreateRecording, Goto, Unannounced, MutationTypes
    <3> QED BY <2>2, <3>1, SameSeen DEF Update, CreateRecording, Rest
  <2>3. CASE \/ Find(q) \/ CreateWork(q) \/ IsrcTaken(q) \/ TellRecording(q) \/ DeleteTags(q)
             \/ InsertTags(q) \/ ReadTags(q)
    <3>1. UNCHANGED <<busVars, seen, row>>
      BY <2>3
      DEF Find, CreateWork, IsrcTaken, TellRecording, DeleteTags, InsertTags, ReadTags, Rest,
      dbVars
    <3>2. \A p \in Requests \ {q} : rpc'[p] = rpc[p]
      BY <2>3
      DEF Find, CreateWork, IsrcTaken, TellRecording, DeleteTags, InsertTags, ReadTags, Goto,
          MutationTypes
    <3>3. rpc[q] \in {"tellRecording", "tellWork", "failed"} => rpc'[q] = "tellWork"
      BY <2>3
      DEF Find, CreateWork, IsrcTaken, TellRecording, DeleteTags, InsertTags, ReadTags, Goto,
          MutationTypes
    <3>4. Unannounced => Unannounced'
      BY <3>1, <3>2, <3>3 DEF Unannounced
    <3> QED BY <3>1, <3>4, SameSeen
  <2> QED BY <1>2, <2>1, <2>2, <2>3 DEF MutationStep
<1>3. ASSUME NEW q \in Requests, StatementFails(q) PROVE SeenInv'
  <2>1. UNCHANGED <<busVars, seen>> /\ (row' = row \/ row' = q)
    BY <1>3 DEF StatementFails, ThrowsInVain, ThrowsAfterWrite, dbVars
  <2>2. rpc'[q] = "failed" /\ \A p \in Requests \ {q} : rpc'[p] = rpc[p]
    BY <1>3 DEF StatementFails, Goto, MutationTypes
  <2>3. row' = q => Unannounced'
    BY <2>2 DEF Unannounced
  <2>4. row' = row /\ row # q => Unannounced' = Unannounced
    BY <2>2 DEF Unannounced
  <2> QED BY <2>1, <2>3, <2>4, SameSeen
<1>4. ASSUME NEW i \in Iterators, SubscribeToWork(i) \/ Deliver(i) \/ Complete(i) PROVE SeenInv'
  BY <1>4, IteratorSeen DEF SubscribeToWork, Deliver, Complete
<1>5. ASSUME NEW i \in Iterators, Resolve(i) PROVE SeenInv'
  <2>1. Unannounced' = Unannounced /\ row' = row
    BY <1>5 DEF Resolve, Unannounced, dbVars
  <2> QED BY <1>5, <2>1 DEF Resolve, SeenInv, Unseen, Fresh, BusInv, BusTypes, MutationTypes
<1>6. CASE ProcessStep
  <2>1. CASE Crash
    BY <2>1 DEF Crash, AllEnd, SeenInv, Unseen, Fresh
  <2>2. CASE Stop \/ Drained
    BY <2>2, SameSeen DEF Stop, Drained, Unannounced, dbVars
  <2>3. CASE Exit
    BY <2>3 DEF Exit, Subscribed, SeenInv, Unseen, Fresh, busVars
  <2> QED BY <1>6, <2>1, <2>2, <2>3 DEF ProcessStep
<1>7. CASE UNCHANGED vars
  BY <1>7, SameSeen DEF vars, apiVars, dbVars, Unannounced
<1> QED BY <1>1, <1>2, <1>3, <1>4, <1>5, <1>6, <1>7 DEF Next

\* A subscriber that has dealt with the last event was sent the row as it is,
\* whatever mutations overlapped and whichever of them threw, unless the row's own
\* mutation has not published, or never will.
THEOREM SeenStaysCurrent == Spec => []SeenIsCurrent
<1>1. Init => BusInv /\ SeenInv
  BY BusStart, SeenStart DEF Init, ApiInit
<1>2. BusInv /\ MutationTypes /\ SeenInv /\ [Next]_vars => BusInv' /\ SeenInv'
  BY NextIsBusStep, BusKeeps, SeenStep
<1>3. MutationInv => MutationTypes
  BY DEF MutationInv
<1>4. SeenInv => SeenIsCurrent
  BY DEF SeenInv, Fresh, SeenIsCurrent
<1> QED BY <1>1, <1>2, <1>3, <1>4, MutationsSound, PTL DEF Spec

(***************************************************************************)
(* Types.  Each mutation that is done has published once at the most, so   *)
(* that the numbers of events stay within those of mutations.              *)
(***************************************************************************)

Done == {q \in Requests : rpc[q] = "done"}

Bounded ==
    /\ published <= Cardinality(Done)
    /\ \A i \in Iterators : last[i] <= published /\ end[i] <= published

RestTypes ==
    /\ server \in {"up", "draining", "disposing", "exited"} /\ upsets \in SUBSET Upsets
    /\ job \in [Jobs -> {"idle", "tracks", "rss", "improve", "improved", "over"}]
    /\ stored \in BOOLEAN

LEMMA DoneFinite == IsFiniteSet(Requests) /\ Cardinality(Requests) = MaxRequests /\ IsFiniteSet(Done)
<1>1. IsFiniteSet(Requests) /\ Cardinality(Requests) = MaxRequests
  BY RequestsAssumption, FS_Interval DEF Requests
<1> QED BY <1>1, FS_Subset DEF Done

LEMMA DoneStays ==
    ASSUME MutationTypes, MutationMoves
    PROVE  Done \subseteq Done'
<1>1. ASSUME NEW q \in Requests, rpc[q] = "done" PROVE rpc'[q] = "done"
  <2>1. ASSUME NEW p \in Requests,
               Writes(p) \/ Advances(p) \/ CreatesWork(p) \/ DeletesTags(p) \/ InsertsTags(p)
        PROVE  rpc'[q] = "done"
    BY <1>1, <2>1, MovesOne DEF Upserting, Tagging
  <2>2. ASSUME NEW j \in Jobs, NEW p \in Requests, Comes(j, p) PROVE rpc'[q] = "done"
    <3>1. p # q /\ rpc'[q] = rpc[q]
      BY <1>1, <2>2 DEF Comes, MutationTypes
    <3> QED BY <1>1, <3>1
  <2>3. CASE CutOff
    BY <1>1, <2>3, CutOne DEF Upserting, Tagging
  <2> QED BY <1>1, <2>1, <2>2, <2>3 DEF MutationMoves, mutationVars, Counted
<1> QED BY <1>1 DEF Done

LEMMA PublishedOnce ==
    ASSUME MutationTypes, BusTypes, [Next]_vars, published <= Cardinality(Done)
    PROVE  published' <= Cardinality(Done')
<1>1. IsFiniteSet(Done) /\ IsFiniteSet(Done') /\ Cardinality(Done) \in Nat /\ Cardinality(Done') \in Nat
  <2>1. IsFiniteSet(Requests) /\ Done' \subseteq Requests
    BY DoneFinite DEF Done
  <2> QED BY <2>1, DoneFinite, FS_Subset, FS_CardinalityType
<1>2. CASE published' = published
  BY <1>1, <1>2, NextMoves, DoneStays, FS_Subset DEF BusTypes
<1>3. ASSUME NEW q \in Requests, TellWork(q) PROVE published' <= Cardinality(Done')
  <2>1. published' = published + 1
    BY <1>3 DEF TellWork, Publish, PublishInMemory, PublishOnRedis
  <2>2. Done' = Done \cup {q} /\ q \notin Done
    BY <1>3 DEF TellWork, Goto, Done, MutationTypes
  <2>3. Cardinality(Done') = Cardinality(Done) + 1
    BY <1>1, <2>2, FS_AddElement
  <2> QED BY <1>1, <2>1, <2>3 DEF BusTypes
<1>4. published' = published \/ \E q \in Requests : TellWork(q)
  <2>1. ASSUME NEW j \in Jobs,
               BeginImprove(j) \/ JobStep(j) \/ \E kind \in {"tracks", "rss"} : Begin(j, kind)
        PROVE  published' = published
    BY <2>1
    DEF BeginImprove, JobStep, Begin, SendEntryInVain, Answer, Timeout, End, SendTrack, SendEntry,
        SendAgain, Upsert, Refuse, RecordTags, Arrives, Counts, busVars
  <2>2. ASSUME NEW q \in Requests, MutationStep(q) \/ StatementFails(q)
        PROVE  TellWork(q) \/ published' = published
    BY <2>2
    DEF MutationStep, Find, Update, CreateWork, CreateRecording, IsrcTaken, TellRecording,
        DeleteTags, InsertTags, ReadTags, StatementFails, Rest, busVars
  <2>3. ASSUME NEW i \in Iterators, SubscribeToWork(i) \/ Deliver(i) \/ Resolve(i) \/ Complete(i)
        PROVE  published' = published
    BY <2>3
    DEF SubscribeToWork, Deliver, Resolve, Complete, Subscribe, IteratorStep, Return, OnMessage,
        Established, NextQueued, NextDone, NextWaits, CleanedUp
  <2>4. CASE ProcessStep
    BY <2>4 DEF ProcessStep, Crash, Stop, Drained, Exit, AllEnd, busVars
  <2> QED BY <2>1, <2>2, <2>3, <2>4 DEF Next, vars, busVars
<1> QED BY <1>2, <1>3, <1>4

\* An iterator is handed nothing that was not published by its end.
LEMMA HandedBounded ==
    ASSUME BusInv, BusStep, \A i \in Iterators : last[i] <= published /\ end[i] <= published
    PROVE  \A i \in Iterators : last'[i] <= published' /\ end'[i] <= published'
<1>0. BusInv' /\ [Stream!Next]_(Stream!vars)
  BY BusKeeps
<1>1. published \in Nat /\ \A i \in Iterators : last[i] \in Nat /\ end[i] \in Nat
  BY DEF BusInv, BusTypes
<1>2. CASE UNCHANGED Stream!vars
  BY <1>2 DEF Stream!vars
<1>3. CASE Stream!Publish
  BY <1>1, <1>3 DEF Stream!Publish
<1>4. ASSUME NEW S \in SUBSET Iterators, Stream!PublishTo(S)
      PROVE  \A i \in Iterators : last'[i] <= published' /\ end'[i] <= published'
  BY <1>1, <1>4 DEF Stream!PublishTo
<1>5. ASSUME NEW S \in SUBSET Iterators, Stream!Leave(S)
      PROVE  \A i \in Iterators : last'[i] <= published' /\ end'[i] <= published'
  BY <1>1, <1>5 DEF Stream!Leave
<1>6. ASSUME NEW i \in Iterators, Stream!Join(i) \/ Stream!Hand(i)
      PROVE  \A j \in Iterators : last'[j] <= published' /\ end'[j] <= published'
  <2>1. last \in [Iterators -> Nat]
    BY DEF BusInv, BusTypes
  <2>2. UNCHANGED <<published, end>> /\ \A j \in Iterators \ {i} : last'[j] = last[j]
    BY <1>6, <2>1 DEF Stream!Join, Stream!Hand
  <2>3. last'[i] <= published
    BY <1>1, <1>6, <2>1 DEF Stream!Join, Stream!Hand
  <2> QED BY <2>2, <2>3
<1> QED BY <1>0, <1>2, <1>3, <1>4, <1>5, <1>6 DEF Stream!Next

LEMMA RestTypesStep == RestTypes /\ [Next]_vars => RestTypes'
<1> SUFFICES ASSUME RestTypes, [Next]_vars PROVE RestTypes'
  OBVIOUS
<1> USE DEF RestTypes, Upset, Upsets
<1>1. ASSUME NEW j \in Jobs,
             BeginImprove(j) \/ JobStep(j) \/ \E kind \in {"tracks", "rss"} : Begin(j, kind)
      PROVE  RestTypes'
  <2>1. CASE BeginImprove(j) \/ \E kind \in {"tracks", "rss"} : Begin(j, kind)
    BY <2>1 DEF BeginImprove, Begin, apiVars
  <2>2. CASE SendEntryInVain(j) \/ Answer(j) \/ Timeout(j) \/ End(j)
    BY <2>2 DEF SendEntryInVain, Answer, Timeout, End, Counts, apiVars
  <2>3. ASSUME NEW q \in Requests,
               SendTrack(j, q) \/ \E b \in Batches : SendEntry(j, q, b) \/ SendAgain(j, q, b)
        PROVE  RestTypes'
    BY <2>3 DEF SendTrack, SendEntry, SendAgain, Upsert, Refuse, RecordTags, Arrives
  <2> QED BY <1>1, <2>1, <2>2, <2>3 DEF JobStep
<1>2. ASSUME NEW q \in Requests, MutationStep(q) \/ StatementFails(q), UNCHANGED ingestVars
      PROVE  RestTypes'
  BY <1>2
  DEF MutationStep, Find, Update, CreateWork, CreateRecording, IsrcTaken, TellRecording, TellWork,
      DeleteTags, InsertTags, ReadTags, StatementFails, Rest, ingestVars
<1>3. ASSUME NEW i \in Iterators, SubscribeToWork(i) \/ Deliver(i) \/ Resolve(i) \/ Complete(i),
             UNCHANGED ingestVars
      PROVE  RestTypes'
  BY <1>3 DEF SubscribeToWork, Deliver, Resolve, Complete, apiVars, ingestVars
<1>4. CASE ProcessStep /\ UNCHANGED ingestVars
  BY <1>4 DEF ProcessStep, Crash, Stop, Drained, Exit, ingestVars
<1>5. CASE UNCHANGED vars
  BY <1>5 DEF vars, apiVars, ingestVars
<1> QED BY <1>1, <1>2, <1>3, <1>4, <1>5 DEF Next

LEMMA InOrderSeq ==
    ASSUME NEW s \in Seq(Nat), NEW n \in Nat, NEW m \in Nat, InOrder(s, n), n + Len(s) <= m
    PROVE  s \in Seq(0 .. m)
<1>1. s \in [1 .. Len(s) -> Nat] /\ Len(s) \in Nat
  BY LenProperties
<1>2. \A k \in 1 .. Len(s) : s[k] \in 0 .. m
  BY <1>1 DEF InOrder
<1>3. s \in [1 .. Len(s) -> 0 .. m]
  BY <1>1, <1>2
<1> QED BY <1>1, <1>3, SeqDef

LEMMA TypesFollow ==
    BusInv /\ MutationTypes /\ SeenInv /\ Bounded /\ RestTypes => TypeOK
<1> SUFFICES ASSUME BusInv, MutationTypes, SeenInv, Bounded, RestTypes PROVE TypeOK
  OBVIOUS
<1>1. published \in Nat /\ published <= MaxRequests /\ MaxRequests \in Nat
  <2>1. Cardinality(Done) <= MaxRequests /\ Cardinality(Done) \in Nat
    BY DoneFinite, FS_Subset, FS_CardinalityType DEF Done
  <2> QED BY <2>1, RequestsAssumption DEF Bounded, BusInv, BusTypes
<1>2. ASSUME NEW i \in Iterators
      PROVE  /\ queue[i] \in Seq(0 .. MaxRequests) /\ wire[i] \in Seq(0 .. MaxRequests)
             /\ last[i] \in 0 .. MaxRequests /\ end[i] \in 0 .. MaxRequests
  <2>1. /\ last[i] \in Nat /\ end[i] \in Nat /\ queue[i] \in Seq(Nat) /\ wire[i] \in Seq(Nat)
        /\ Len(queue[i]) \in Nat /\ Len(wire[i]) \in Nat
        /\ InOrder(queue[i], last[i]) /\ InOrder(wire[i], last[i] + Len(queue[i]))
        /\ last[i] <= published /\ end[i] <= published
    BY DEF BusInv, BusTypes, Gapless, Bounded
  <2>2. last[i] + Len(queue[i]) + Len(wire[i]) <= MaxRequests
    <3>1. CASE sub[i] = "live"
      BY <1>1, <2>1, <3>1 DEF BusInv, Gapless
    <3>2. CASE sub[i] \in {"none", "connecting"}
      BY <1>1, <2>1, <3>2 DEF BusInv, Gapless
    <3>3. CASE sub[i] \in {"closing", "closed"}
      <4>1. wire[i] = <<>> /\ last[i] + Len(queue[i]) <= end[i]
        BY <3>3 DEF BusInv, Gapless, Inactive
      <4>2. Len(wire[i]) = 0
        BY <4>1
      <4> QED BY <1>1, <2>1, <4>1, <4>2
    <3> QED BY <3>1, <3>2, <3>3 DEF BusInv, BusTypes
  <2>3. last[i] + Len(queue[i]) \in Nat /\ last[i] + Len(queue[i]) <= MaxRequests
    BY <1>1, <2>1, <2>2
  <2> QED BY <1>1, <2>1, <2>2, <2>3, InOrderSeq
<1>3. BusTypeOK(0 .. MaxRequests)
  BY <1>1, <1>2 DEF BusTypeOK, BusInv, BusTypes
<1> QED BY <1>3 DEF TypeOK, ApiTypeOK, MutationTypes, SeenInv, RestTypes

\* The state is of its type.
THEOREM TypeCorrect == Spec => []TypeOK
<1>1. Init => BusInv /\ SeenInv /\ Bounded /\ RestTypes
  <2> SUFFICES ASSUME Init PROVE BusInv /\ SeenInv /\ Bounded /\ RestTypes
    OBVIOUS
  <2>1. BusInv /\ SeenInv
    BY BusStart, SeenStart DEF Init, ApiInit
  <2>2. Cardinality(Done) \in Nat
    BY DoneFinite, FS_CardinalityType
  <2>3. Bounded
    BY <2>2 DEF Init, ApiInit, BusInit, Bounded
  <2>4. RestTypes
    BY DEF Init, ApiInit, RestTypes
  <2> QED BY <2>1, <2>3, <2>4
<1>2. BusInv /\ MutationTypes /\ SeenInv /\ Bounded /\ RestTypes /\ [Next]_vars
        => BusInv' /\ SeenInv' /\ Bounded' /\ RestTypes'
  <2> SUFFICES ASSUME BusInv, MutationTypes, SeenInv, Bounded, RestTypes, [Next]_vars
               PROVE  BusInv' /\ SeenInv' /\ Bounded' /\ RestTypes'
    OBVIOUS
  <2>1. BusStep
    BY NextIsBusStep
  <2>2. BusInv' /\ SeenInv' /\ RestTypes'
    BY <2>1, BusKeeps, SeenStep, RestTypesStep
  <2>3. Bounded'
    <3>1. published' <= Cardinality(Done')
      BY PublishedOnce DEF Bounded, BusInv
    <3>2. \A i \in Iterators : last'[i] <= published' /\ end'[i] <= published'
      BY <2>1, HandedBounded DEF Bounded
    <3> QED BY <3>1, <3>2 DEF Bounded
  <2> QED BY <2>2, <2>3
<1>3. MutationInv => MutationTypes
  BY DEF MutationInv
<1> QED BY <1>1, <1>2, <1>3, TypesFollow, MutationsSound, PTL DEF Spec
=============================================================================
