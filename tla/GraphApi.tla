------------------------------ MODULE GraphApi ------------------------------
(***************************************************************************)
(* The graph API without its licences: upsertRecording, recordEntityTags,  *)
(* the workUpdated subscription over PubSub, and the shutdown.  A mutation *)
(* is a sequence of statements without a transaction, each a step of its   *)
(* own.  One ISRC, its work and one news item are followed: mutations of   *)
(* others touch none of their rows.  Rows are known by the mutation that   *)
(* wrote them, and mutations are numbered in the order they came.          *)
(***************************************************************************)
EXTENDS PubSub, FiniteSets

CONSTANTS
    MaxRequests,    \* bound: mutations
    Batches,        \* what a list of tags may be: empty, some, over the limit
    MaxUpsets       \* bound: how many of the Upsets happen, each of them once

Upsets == {"db", "crash", "timeout", "stop"}
BatchKinds == {"empty", "some", "over"}

ASSUME RequestsAssumption == MaxRequests \in Nat
ASSUME ApiAssumption == Batches \subseteq BatchKinds /\ MaxUpsets \in Nat

Requests == 1 .. MaxRequests
NoRequest == 0

VARIABLES
    server,     \* up, draining (httpServer.close), disposing (the sockets), exited
    rpc,        \* where a mutation stands
    batch,      \* the tags it brings
    gone,       \* mutations whose client has hung up
    row,        \* the mutation whose data the recording has, 0 while there is none
    workOf,     \* the mutation that created the work of the recording
    works,      \* mutations that created a work
    tags,       \* mutations whose tags the news item has
    seen,       \* the row that the client of a subscription was sent last
    overlap,    \* history: pairs of mutations that were under way together
    upsets      \* which of the Upsets there were

dbVars == <<row, workOf, works, tags>>
apiVars == <<server, rpc, batch, gone, dbVars, seen, overlap, upsets>>

Upserting == {"find", "update", "work", "create", "tellRecording", "tellWork"}
Tagging == {"delete", "insert", "read"}
Over == {"done", "failed", "cut"}

ApiTypeOK ==
    /\ BusTypeOK(0 .. MaxRequests)
    /\ server \in {"up", "draining", "disposing", "exited"}
    /\ rpc \in [Requests -> {"none"} \cup Upserting \cup Tagging \cup Over]
    /\ batch \in [Requests -> BatchKinds \cup {"none"}]
    /\ gone \in SUBSET Requests
    /\ row \in Requests \cup {NoRequest} /\ workOf \in Requests \cup {NoRequest}
    /\ works \in SUBSET Requests /\ tags \in SUBSET Requests
    /\ seen \in [Iterators -> Requests \cup {NoRequest}]
    /\ overlap \in SUBSET (Requests \X Requests)
    /\ upsets \in SUBSET Upsets

ApiInit ==
    /\ BusInit
    /\ server = "up"
    /\ rpc = [q \in Requests |-> "none"]
    /\ batch = [q \in Requests |-> "none"]
    /\ gone = {}
    /\ row = NoRequest /\ workOf = NoRequest
    /\ works = {} /\ tags = {}
    /\ seen = [i \in Iterators |-> NoRequest]
    /\ overlap = {}
    /\ upsets = {}

Running == {q \in Requests : rpc[q] \in Upserting \cup Tagging}

\* (bound) Something out of the ordinary happens.
Upset(kind) ==
    /\ kind \notin upsets
    /\ Cardinality(upsets) < MaxUpsets
    /\ upsets' = upsets \cup {kind}

-----------------------------------------------------------------------------
(* Mutations *)

Goto(q, from, to) ==
    /\ rpc[q] = from
    /\ rpc' = [rpc EXCEPT ![q] = to]

Arrives(q, to) ==
    /\ server = "up"
    /\ Goto(q, "none", to)
    /\ overlap' = overlap \cup (Running \X {q}) \cup ({q} \X Running)
    /\ UNCHANGED <<busVars, server, gone, dbVars, seen, upsets>>

\* upsertRecording with acceptable input ...
Upsert(q) == Arrives(q, "find") /\ UNCHANGED batch

\* ... or without a title or an artist.
Refuse(q) == Arrives(q, "failed") /\ UNCHANGED batch

\* recordEntityTags
RecordTags(q, b) ==
    /\ Arrives(q, "delete")
    /\ batch' = [batch EXCEPT ![q] = b]

Rest == <<busVars, server, batch, gone, seen, overlap, upsets>>

\* (faulty) The work is created first.
FindAfterWork(q) ==
    /\ Goto(q, "find", IF row # NoRequest THEN "update" ELSE "create")
    /\ works' = works \cup {q}
    /\ UNCHANGED <<Rest, row, workOf, tags>>

\* findUnique by ISRC
Find(q) ==
    /\ Goto(q, "find", IF row # NoRequest THEN "update" ELSE "work")
    /\ UNCHANGED <<Rest, dbVars>>

\* (faulty) Only the first write of a recording is announced.
UpdateQuietly(q) ==
    /\ Goto(q, "update", "done")
    /\ row' = q
    /\ UNCHANGED <<Rest, workOf, works, tags>>

Update(q) ==
    /\ Goto(q, "update", "tellRecording")
    /\ row' = q
    /\ UNCHANGED <<Rest, workOf, works, tags>>

\* No recording was found: a work for it ...
CreateWork(q) ==
    /\ Goto(q, "work", "create")
    /\ works' = works \cup {q}
    /\ UNCHANGED <<Rest, row, workOf, tags>>

\* ... and the recording, unless another mutation has created it meanwhile.
CreateRecording(q) ==
    /\ row = NoRequest
    /\ Goto(q, "create", "tellRecording")
    /\ row' = q
    /\ workOf' = q
    /\ UNCHANGED <<Rest, works, tags>>

IsrcTaken(q) ==
    /\ row # NoRequest
    /\ Goto(q, "create", "failed")
    /\ UNCHANGED <<Rest, dbVars>>

\* (faulty) Both events go to the topic of the work.
TellRecordingOnWork(q) ==
    /\ Goto(q, "tellRecording", "tellWork")
    /\ Publish
    /\ UNCHANGED <<server, batch, gone, dbVars, seen, overlap, upsets>>

\* publishRecordingUpdated, on a topic of its own
TellRecording(q) ==
    /\ Goto(q, "tellRecording", "tellWork")
    /\ UNCHANGED <<Rest, dbVars>>

\* publishWorkUpdated
TellWork(q) ==
    /\ Goto(q, "tellWork", "done")
    /\ Publish
    /\ UNCHANGED <<server, batch, gone, dbVars, seen, overlap, upsets>>

\* (faulty) Old tags are kept.
DeleteNoTags(q) ==
    /\ Goto(q, "delete", CASE batch[q] = "empty" -> "done" [] batch[q] = "over" -> "failed"
                           [] OTHER -> "insert")
    /\ UNCHANGED <<Rest, dbVars>>

\* deleteMany, and only then a look at the list.
DeleteTags(q) ==
    /\ Goto(q, "delete", CASE batch[q] = "empty" -> "done" [] batch[q] = "over" -> "failed"
                           [] OTHER -> "insert")
    /\ tags' = {}
    /\ UNCHANGED <<Rest, row, workOf, works>>

\* createMany
InsertTags(q) ==
    /\ Goto(q, "insert", "read")
    /\ tags' = tags \cup {q}
    /\ UNCHANGED <<Rest, row, workOf, works>>

\* findMany, for the answer
ReadTags(q) ==
    /\ Goto(q, "read", "done")
    /\ UNCHANGED <<Rest, dbVars>>

\* A statement or a publication throws and has changed nothing; what was written
\* before stays.
ThrowsInVain(q) ==
    /\ rpc[q] \in Upserting \cup Tagging
    /\ UNCHANGED dbVars

\* A write commits and throws all the same, its answer lost: nothing after it runs.
ThrowsAfterWrite(q) ==
    \/ /\ rpc[q] = "update"
       /\ row' = q
       /\ UNCHANGED <<workOf, works, tags>>
    \/ /\ rpc[q] = "work"
       /\ works' = works \cup {q}
       /\ UNCHANGED <<row, workOf, tags>>
    \/ /\ rpc[q] = "create" /\ row = NoRequest
       /\ row' = q /\ workOf' = q
       /\ UNCHANGED <<works, tags>>
    \/ /\ rpc[q] \in {"delete", "insert"}
       /\ tags' = IF rpc[q] = "delete" THEN {} ELSE tags \cup {q}
       /\ UNCHANGED <<row, workOf, works>>

StatementFails(q) ==
    /\ Upset("db")
    /\ Goto(q, rpc[q], "failed")
    /\ ThrowsInVain(q) \/ ThrowsAfterWrite(q)
    /\ UNCHANGED <<busVars, server, batch, gone, seen, overlap>>

MutationStep(q) ==
    \/ Find(q) \/ Update(q) \/ CreateWork(q) \/ CreateRecording(q) \/ IsrcTaken(q)
    \/ TellRecording(q) \/ TellWork(q) \/ DeleteTags(q) \/ InsertTags(q) \/ ReadTags(q)

-----------------------------------------------------------------------------
(* Subscriptions *)

\* A client subscribes to the work, whose id it has.
SubscribeToWork(i) ==
    /\ server \in {"up", "draining"}
    /\ row # NoRequest
    /\ Subscribe(i)
    /\ UNCHANGED apiVars

\* resolve: the event carries an id alone, and the work is read when its turn comes.
Resolve(i) ==
    /\ con[i] = "resolving"
    /\ con' = [con EXCEPT ![i] = "ready"]
    /\ seen' = [seen EXCEPT ![i] = row]
    /\ UNCHANGED <<transport, published, sub, wire, queue, last, end>>
    /\ UNCHANGED <<server, rpc, batch, gone, dbVars, overlap, upsets>>

\* The client completes the subscription or loses its socket.
Complete(i) == Return(i) /\ UNCHANGED apiVars

Deliver(i) == IteratorStep(i) /\ UNCHANGED apiVars

-----------------------------------------------------------------------------
(* The process *)

Cut == [q \in Requests |-> IF q \in Running THEN "cut" ELSE rpc[q]]

\* It dies and is started again, unless it had been told to stop.
Crash ==
    /\ server # "exited"
    /\ Upset("crash")
    /\ server' = IF server = "up" THEN "up" ELSE "exited"
    /\ rpc' = Cut
    /\ AllEnd
    /\ UNCHANGED <<batch, gone, dbVars, seen, overlap>>

\* A signal: no new connections.
Stop ==
    /\ server = "up"
    /\ Upset("stop")
    /\ server' = "draining"
    /\ UNCHANGED <<busVars, rpc, batch, gone, dbVars, seen, overlap>>

\* httpServer.close() waits for the requests whose client is still there.
Drained ==
    /\ server = "draining"
    /\ Running \subseteq gone
    /\ server' = "disposing"
    /\ UNCHANGED <<busVars, rpc, batch, gone, dbVars, seen, overlap, upsets>>

Subscribed == {i \in Iterators : sub[i] \in {"connecting", "live"}}

\* dispose() returns every subscription; then the bus is closed and the process ends.
Exit ==
    /\ server = "disposing"
    /\ Subscribed = {}
    /\ server' = "exited"
    /\ rpc' = Cut
    /\ UNCHANGED <<busVars, batch, gone, dbVars, seen, overlap, upsets>>

ProcessStep == Crash \/ Stop \/ Drained \/ Exit

\* Statements, publications and Redis answer, and a consumer asks for the next
\* event; dispose() returns the subscriptions that are left.
ApiFairness ==
    /\ \A q \in Requests : WF_<<busVars, apiVars>>(MutationStep(q))
    /\ \A i \in Iterators : /\ WF_<<busVars, apiVars>>(Deliver(i))
                            /\ WF_<<busVars, apiVars>>(Resolve(i))
                            /\ WF_<<busVars, apiVars>>(server = "disposing" /\ Complete(i))
    /\ WF_<<busVars, apiVars>>(Drained) /\ WF_<<busVars, apiVars>>(Exit)
=============================================================================
