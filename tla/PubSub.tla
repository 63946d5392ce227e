------------------------------- MODULE PubSub -------------------------------
(***************************************************************************)
(* One topic of the pub/sub package and the iterators over it.  With the   *)
(* memory transport an iterator is registered at once and publish() hands  *)
(* the event to it directly; with Redis its connection is subscribed some  *)
(* time later, events travel, and return() waits for Redis before it wakes *)
(* whoever waits in next().  The consumer of an iterator asks for the next *)
(* event when it has dealt with the one before.                            *)
(***************************************************************************)
EXTENDS Naturals, Sequences

CONSTANT Iterators

VARIABLES
    transport,  \* memory or redis
    published,  \* events published on the topic; they are numbered
    sub,        \* of an iterator: none, connecting, live, closing, closed
    wire,       \* events Redis has sent to it and it has not received
    queue,      \* its queue
    con,        \* its consumer: none, ready, waiting (in resolvers), resolving, ended
    last,       \* the event it handed out last
    end         \* history: how many events there were when it was returned

busVars == <<transport, published, sub, wire, queue, con, last, end>>

BusTypeOK(Events) ==
    /\ transport \in {"memory", "redis"}
    /\ published \in Events
    /\ sub \in [Iterators -> {"none", "connecting", "live", "closing", "closed"}]
    /\ wire \in [Iterators -> Seq(Events)] /\ queue \in [Iterators -> Seq(Events)]
    /\ con \in [Iterators -> {"none", "ready", "waiting", "resolving", "ended"}]
    /\ last \in [Iterators -> Events] /\ end \in [Iterators -> Events]

BusInit ==
    /\ transport \in {"memory", "redis"}
    /\ published = 0
    /\ sub = [i \in Iterators |-> "none"]
    /\ wire = [i \in Iterators |-> <<>>] /\ queue = [i \in Iterators |-> <<>>]
    /\ con = [i \in Iterators |-> "none"]
    /\ last = [i \in Iterators |-> 0] /\ end = [i \in Iterators |-> 0]

Inactive(i) == sub[i] \in {"closing", "closed"}

-----------------------------------------------------------------------------
(* Publishing *)

\* (faulty) The event is queued for everybody, also for those who wait.
PushQueued(S, e) ==
    /\ queue' = [i \in Iterators |-> IF i \in S THEN Append(queue[i], e) ELSE queue[i]]
    /\ UNCHANGED <<con, last>>

\* push(): a waiting consumer gets the event, otherwise it is queued.
Push(S, e) ==
    LET woken == {i \in S : con[i] = "waiting"}
    IN /\ con' = [i \in Iterators |-> IF i \in woken THEN "resolving" ELSE con[i]]
       /\ last' = [i \in Iterators |-> IF i \in woken THEN e ELSE last[i]]
       /\ queue' = [i \in Iterators |-> IF i \in S \ woken THEN Append(queue[i], e) ELSE queue[i]]

\* publish() on the memory transport ...
PublishInMemory ==
    /\ transport = "memory"
    /\ published' = published + 1
    /\ Push({i \in Iterators : sub[i] = "live"}, published + 1)
    /\ UNCHANGED <<transport, sub, wire, end>>

\* ... and on Redis, which sends the event to every subscribed connection.
PublishOnRedis ==
    /\ transport = "redis"
    /\ published' = published + 1
    /\ wire' = [i \in Iterators |-> IF sub[i] = "live" THEN Append(wire[i], published + 1) ELSE wire[i]]
    /\ UNCHANGED <<transport, sub, queue, con, last, end>>

Publish == PublishInMemory \/ PublishOnRedis

\* The connection of an iterator receives an event.
OnMessage(i) ==
    /\ wire[i] # <<>>
    /\ ~Inactive(i)
    /\ wire' = [wire EXCEPT ![i] = Tail(@)]
    /\ Push({i}, Head(wire[i]))
    /\ UNCHANGED <<transport, published, sub, end>>

-----------------------------------------------------------------------------
(* Iterators *)

\* subscribe(): Redis is asked, and not waited for.
Subscribe(i) ==
    /\ sub[i] = "none"
    /\ sub' = [sub EXCEPT ![i] = IF transport = "memory" THEN "live" ELSE "connecting"]
    /\ con' = [con EXCEPT ![i] = "ready"]
    /\ last' = [last EXCEPT ![i] = IF transport = "memory" THEN published ELSE @]
    /\ UNCHANGED <<transport, published, wire, queue, end>>

\* Redis has subscribed the connection: events count from here on.
Established(i) ==
    /\ sub[i] = "connecting"
    /\ sub' = [sub EXCEPT ![i] = "live"]
    /\ last' = [last EXCEPT ![i] = published]
    /\ UNCHANGED <<transport, published, wire, queue, con, end>>

\* (faulty) The newest event is taken.
NextQueuedNewest(i) ==
    /\ con[i] = "ready"
    /\ queue[i] # <<>>
    /\ transport = "redis" => ~Inactive(i)
    /\ con' = [con EXCEPT ![i] = "resolving"]
    /\ last' = [last EXCEPT ![i] = queue[i][Len(queue[i])]]
    /\ queue' = [queue EXCEPT ![i] = SubSeq(@, 1, Len(@) - 1)]
    /\ UNCHANGED <<transport, published, sub, wire, end>>

\* next() finds an event in the queue; the Redis iterator looks there only
\* while it is active ...
NextQueued(i) ==
    /\ con[i] = "ready"
    /\ queue[i] # <<>>
    /\ transport = "redis" => ~Inactive(i)
    /\ con' = [con EXCEPT ![i] = "resolving"]
    /\ last' = [last EXCEPT ![i] = Head(queue[i])]
    /\ queue' = [queue EXCEPT ![i] = Tail(@)]
    /\ UNCHANGED <<transport, published, sub, wire, end>>

\* ... finds the iterator closed ...
NextDone(i) ==
    /\ con[i] = "ready"
    /\ Inactive(i)
    /\ transport = "memory" => queue[i] = <<>>
    /\ con' = [con EXCEPT ![i] = "ended"]
    /\ UNCHANGED <<transport, published, sub, wire, queue, last, end>>

\* ... or waits.
NextWaits(i) ==
    /\ con[i] = "ready"
    /\ ~Inactive(i)
    /\ queue[i] = <<>>
    /\ con' = [con EXCEPT ![i] = "waiting"]
    /\ UNCHANGED <<transport, published, sub, wire, queue, last, end>>

Wake(i) == [con EXCEPT ![i] = IF @ = "waiting" THEN "ended" ELSE @]

\* return() on the memory transport ends it at once ...
ReturnInMemory(i) ==
    /\ transport = "memory"
    /\ sub' = [sub EXCEPT ![i] = "closed"]
    /\ con' = Wake(i)
    /\ UNCHANGED wire

\* ... and on Redis first asks to unsubscribe and to quit; it takes no events any more.
ReturnOnRedis(i) ==
    /\ transport = "redis"
    /\ sub' = [sub EXCEPT ![i] = "closing"]
    /\ wire' = [wire EXCEPT ![i] = <<>>]
    /\ UNCHANGED con

Return(i) ==
    /\ sub[i] \in {"connecting", "live"}
    /\ end' = [end EXCEPT ![i] = IF sub[i] = "live" THEN published ELSE last[i]]
    /\ ReturnInMemory(i) \/ ReturnOnRedis(i)
    /\ UNCHANGED <<transport, published, queue, last>>

\* (faulty) Nobody is woken when Redis has answered.
CleanedUpOnly(i) ==
    /\ sub[i] = "closing"
    /\ sub' = [sub EXCEPT ![i] = "closed"]
    /\ UNCHANGED <<transport, published, wire, queue, con, last, end>>

\* Redis has answered, or failed, and whoever waits is woken.
CleanedUp(i) ==
    /\ sub[i] = "closing"
    /\ sub' = [sub EXCEPT ![i] = "closed"]
    /\ con' = Wake(i)
    /\ UNCHANGED <<transport, published, wire, queue, last, end>>

\* The process of the iterators is gone.
AllEnd ==
    /\ sub' = [i \in Iterators |-> IF sub[i] = "none" THEN "none" ELSE "closed"]
    /\ end' = [i \in Iterators |->
                 CASE sub[i] = "live" -> published
                   [] sub[i] = "connecting" -> last[i]
                   [] OTHER -> end[i]]
    /\ con' = [i \in Iterators |-> IF sub[i] = "none" THEN "none" ELSE "ended"]
    /\ wire' = [i \in Iterators |-> <<>>] /\ queue' = [i \in Iterators |-> <<>>]
    /\ UNCHANGED <<transport, published, last>>

IteratorStep(i) ==
    OnMessage(i) \/ Established(i) \/ NextQueued(i) \/ NextDone(i) \/ NextWaits(i) \/ CleanedUp(i)

-----------------------------------------------------------------------------
(* What the topic promises *)

Phase == [i \in Iterators |->
            CASE sub[i] \in {"none", "connecting"} -> "new"
              [] sub[i] = "live" -> "live"
              [] OTHER -> "over"]

Stream == INSTANCE EventStream WITH log <- published, phase <- Phase, cursor <- last, end <- end
=============================================================================
