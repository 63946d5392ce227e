--------------------------- MODULE ExportPipeline ---------------------------
(***************************************************************************)
(* The mixdown export pipeline: the POST /api/export handler of studio-web,*)
(* the BullMQ queue it feeds, the export worker's processJob, the Export   *)
(* table, the object storage and the Redis progress channel.               *)
(*                                                                         *)
(* An export is named by the POST that asks for it.  An execution of       *)
(* processJob is a pair <<e, a>>: attempt a at the job of export e.  BullMQ *)
(* hands a job out again when its lock expires, so two executions of the   *)
(* same export may run at once, one of them no longer owning the job.      *)
(*                                                                         *)
(* Every await of the code is a point where other actors may step, so the  *)
(* handler and processJob are cut into one action per awaited operation.   *)
(* Progress updates are fire-and-forget: each is on its way to the         *)
(* database (`sent`), then on its way to the channel (`written`).          *)
(***************************************************************************)
EXTENDS Integers, FiniteSets

CONSTANTS
    Exports,      \* POST /api/export requests, and the exports they create
    Sessions,     \* studio sessions
    SessionOf,    \* the session each request names
    Workers,      \* export-worker processes
    Concurrency,  \* EXPORT_WORKER_CONCURRENCY
    MaxActive,    \* EXPORT_MAX_ACTIVE
    MinDelta,     \* EXPORT_PROGRESS_MIN_DELTA
    RawPercents,  \* what FFmpeg reports as progress.percent, before clamping
    MaxStalls,    \* BullMQ's maxStalledCount
    MaxPosts,     \* bound: POSTs of a session between their count and create
    MaxCrashes,   \* bound: crashes of worker processes
    Faults        \* which faults of the environment may happen

\* "db": a database call throws and has changed nothing; "answer": it has taken
\* effect, and throws because its answer is lost.
FaultKinds == {"post", "db", "answer", "render", "storage", "publish", "crash", "stall"}

ASSUME ExportsAssumption == SessionOf \in [Exports -> Sessions]
ASSUME FiniteAssumption == IsFiniteSet(Exports)
ASSUME WorkersAssumption == Workers # {}
ASSUME BoundsAssumption ==
    /\ Concurrency \in Nat \ {0}
    /\ MaxActive \in Nat
    /\ MinDelta \in Nat \ {0}
    /\ RawPercents \subseteq Int
    /\ MaxStalls \in Nat
    /\ MaxPosts \in Nat \ {0}
    /\ MaxCrashes \in Nat
ASSUME FaultsAssumption == Faults \subseteq FaultKinds

VARIABLES
    post,         \* where the POST handler of each export stands
    status,       \* Export.status, "none" before the row exists
    progress,     \* Export.progress
    storageKey,   \* Export.storageKey is set
    errorMessage, \* Export.errorMessage is set
    objects,      \* exports whose object is in storage
    job,          \* state of the BullMQ job
    attempt,      \* how often the job was handed to a worker
    pc,           \* where each execution of processJob stands
    host,         \* the process an execution runs in
    last,         \* lastProgress of an execution
    sent,         \* its progress updates on their way to the database
    written,      \* its progress updates on their way to the channel
    told,         \* last status a listener of the progress channel heard
    ended,        \* history: exports whose row has once been terminal
    unanswered,   \* history: exports completed by a write whose answer was lost
    crashes       \* bound: crashes so far

rowVars == <<status, progress, storageKey, errorMessage, ended, unanswered>>
queueVars == <<job, attempt>>
execVars == <<pc, host, last, sent, written>>
vars == <<post, rowVars, objects, queueVars, execVars, told, crashes>>

Attempts == 1 .. (MaxStalls + 1)
Execs == Exports \X Attempts

Terminal == {"completed", "failed"}
InProgress == {"pending", "processing"}
Statuses == {"none"} \cup InProgress \cup Terminal
PostStates == {"idle", "counted", "created", "accepted", "rejected", "error"}
JobStates == {"none", "waiting", "active", "gone"}
\* The awaits of processJob; "off" before it starts, "done" after it settled,
\* "dead" when its process died under it.
PcStates == {"off", "load", "begin", "tellBegin", "render", "drain", "put",
             "finish", "tellFinish", "catch", "tellFailed", "settle",
             "done", "dead"}

Min2(a, b) == IF a <= b THEN a ELSE b
Max2(a, b) == IF a >= b THEN a ELSE b

\* (Variant with a mistake: no upper clamp.)
CappedBelowOnly(raw) == Max2(1, raw)

\* The percentage handed to onProgress.
Capped(raw) == Min2(95, Max2(1, raw))

Running(x) == pc[x] \notin {"off", "done", "dead"}

\* Exports of a session that the limit counts.
Active(s) == {e \in Exports : SessionOf[e] = s /\ status[e] \in InProgress}

\* POSTs of a session that passed the limit and have not created their row.
Counted(s) == {e \in Exports : SessionOf[e] = s /\ post[e] = "counted"}

TypeOK ==
    /\ post \in [Exports -> PostStates]
    /\ status \in [Exports -> Statuses]
    /\ progress \in [Exports -> 0 .. 100]
    /\ storageKey \in [Exports -> BOOLEAN]
    /\ errorMessage \in [Exports -> BOOLEAN]
    /\ objects \in SUBSET Exports
    /\ job \in [Exports -> JobStates]
    /\ attempt \in [Exports -> 0 .. (MaxStalls + 1)]
    /\ pc \in [Execs -> PcStates]
    /\ host \in [Execs -> Workers]
    /\ last \in [Execs -> 0 .. 100]
    /\ sent \in [Execs -> SUBSET (1 .. 95)]
    /\ written \in [Execs -> SUBSET (1 .. 95)]
    /\ told \in [Exports -> Statuses]
    /\ ended \in SUBSET Exports
    /\ unanswered \in SUBSET Exports
    /\ crashes \in 0 .. MaxCrashes

Init ==
    /\ post = [e \in Exports |-> "idle"]
    /\ status = [e \in Exports |-> "none"]
    /\ progress = [e \in Exports |-> 0]
    /\ storageKey = [e \in Exports |-> FALSE]
    /\ errorMessage = [e \in Exports |-> FALSE]
    /\ objects = {}
    /\ job = [e \in Exports |-> "none"]
    /\ attempt = [e \in Exports |-> 0]
    /\ pc = [x \in Execs |-> "off"]
    /\ host = [x \in Execs |-> CHOOSE w \in Workers : TRUE]
    /\ last = [x \in Execs |-> 0]
    /\ sent = [x \in Execs |-> {}]
    /\ written = [x \in Execs |-> {}]
    /\ told = [e \in Exports |-> "none"]
    /\ ended = {}
    /\ unanswered = {}
    /\ crashes = 0

-----------------------------------------------------------------------------
(* POST /api/export *)

\* (Variant with a mistake: the limit compared with > instead of >=.)
PostCountOffByOne(e) ==
    /\ post[e] = "idle"
    /\ Cardinality(Counted(SessionOf[e])) < MaxPosts
    /\ post' = [post EXCEPT ![e] =
           IF Cardinality(Active(SessionOf[e])) > MaxActive
           THEN "rejected" ELSE "counted"]
    /\ UNCHANGED <<rowVars, objects, queueVars, execVars, told, crashes>>

\* prisma.export.count and the comparison with the limit.
PostCount(e) ==
    /\ post[e] = "idle"
    /\ Cardinality(Counted(SessionOf[e])) < MaxPosts
    /\ post' = [post EXCEPT ![e] =
           IF Cardinality(Active(SessionOf[e])) >= MaxActive
           THEN "rejected" ELSE "counted"]
    /\ UNCHANGED <<rowVars, objects, queueVars, execVars, told, crashes>>

\* The row starts pending at progress 0.
InsertRow(e) == status' = [status EXCEPT ![e] = "pending"]

AddJob(e) == job' = [job EXCEPT ![e] = "waiting"]

\* prisma.export.create
PostCreate(e) ==
    /\ post[e] = "counted"
    /\ post' = [post EXCEPT ![e] = "created"]
    /\ InsertRow(e)
    /\ UNCHANGED <<progress, storageKey, errorMessage, ended, unanswered,
                   objects, queueVars, execVars, told, crashes>>

\* exportQueue.add, after which the handler answers 202.
PostEnqueue(e) ==
    /\ post[e] = "created"
    /\ post' = [post EXCEPT ![e] = "accepted"]
    /\ AddJob(e)
    /\ UNCHANGED <<rowVars, objects, attempt, execVars, told, crashes>>

\* The create or the add throws, having taken effect or not, or the web process
\* dies between them: nothing undoes what was done before.
PostFails(e) ==
    /\ "post" \in Faults
    /\ post[e] \in {"counted", "created"}
    /\ post' = [post EXCEPT ![e] = "error"]
    /\ \/ UNCHANGED <<status, job>>
       \/ post[e] = "counted" /\ InsertRow(e) /\ UNCHANGED job
       \/ post[e] = "created" /\ AddJob(e) /\ UNCHANGED status
    /\ UNCHANGED <<progress, storageKey, errorMessage, ended, unanswered,
                   objects, attempt, execVars, told, crashes>>

-----------------------------------------------------------------------------
(* BullMQ *)

\* A process with a free slot takes a waiting job and calls processJob.
Take(e, w) ==
    /\ job[e] = "waiting"
    /\ Cardinality({x \in Execs : host[x] = w /\ Running(x)}) < Concurrency
    /\ job' = [job EXCEPT ![e] = "active"]
    /\ attempt' = [attempt EXCEPT ![e] = @ + 1]
    /\ pc' = [pc EXCEPT ![<<e, attempt[e] + 1>>] = "load"]
    /\ host' = [host EXCEPT ![<<e, attempt[e] + 1>>] = w]
    /\ UNCHANGED <<post, rowVars, objects, last, sent, written, told, crashes>>

\* The stalled-job check finds an active job whose lock expired: back to the
\* queue, or failed for good once it has stalled more than MaxStalls times.
Requeue(e) ==
    /\ job[e] = "active"
    /\ job' = [job EXCEPT ![e] =
           IF attempt[e] <= MaxStalls THEN "waiting" ELSE "gone"]
    /\ UNCHANGED <<post, rowVars, objects, attempt, execVars, told, crashes>>

\* The lock expired because the process died.  The check runs half a minute
\* later: the statements the process had sent have landed or are lost by then.
Recover(e) ==
    /\ \E a \in Attempts : /\ attempt[e] = a
                           /\ pc[<<e, a>>] = "dead"
                           /\ sent[<<e, a>>] = {}
    /\ Requeue(e)

\* The lock expired although the process lives (a blocked event loop, a lost
\* Redis connection): its execution goes on, without owning the job.
LoseLock(e) ==
    /\ "stall" \in Faults
    /\ \E a \in Attempts : attempt[e] = a /\ Running(<<e, a>>)
    /\ Requeue(e)

-----------------------------------------------------------------------------
(* processJob *)

\* prisma.export.update of the status column.
WriteStatus(e, s) ==
    /\ status' = [status EXCEPT ![e] = s]
    /\ ended' = IF s \in Terminal THEN ended \cup {e} ELSE ended

\* What the three calls of setStatus write to the row.
WriteProcessing(x) ==
    /\ WriteStatus(x[1], "processing")
    /\ progress' = [progress EXCEPT ![x[1]] = Max2(last[x], 5)]
    /\ errorMessage' = [errorMessage EXCEPT ![x[1]] = FALSE]
    /\ UNCHANGED storageKey

WriteCompleted(x) ==
    /\ WriteStatus(x[1], "completed")
    /\ progress' = [progress EXCEPT ![x[1]] = 100]
    /\ storageKey' = [storageKey EXCEPT ![x[1]] = TRUE]
    /\ UNCHANGED errorMessage

WriteFailed(x) ==
    /\ WriteStatus(x[1], "failed")
    /\ errorMessage' = [errorMessage EXCEPT ![x[1]] = TRUE]
    /\ UNCHANGED <<progress, storageKey>>

\* publishProgress: errors are logged and swallowed, delivery is at most once.
Publish(e, s) ==
    \/ told' = [told EXCEPT ![e] = s]
    \/ "publish" \in Faults /\ UNCHANGED told

Goto(x, from, to) ==
    /\ pc[x] = from
    /\ pc' = [pc EXCEPT ![x] = to]

\* (Variant with a mistake: only a pending export is worked on.)
LoadPendingOnly(x) ==
    /\ Goto(x, "load", IF status[x[1]] = "pending" THEN "begin" ELSE "settle")
    /\ last' = [last EXCEPT ![x] = progress[x[1]]]
    /\ UNCHANGED <<post, rowVars, objects, queueVars, host, sent, written,
                   told, crashes>>

\* prisma.export.findUnique: lastProgress is the progress of the row as read.
\* (The row exists: it is created before the job, and nothing deletes it.)
Load(x) ==
    /\ Goto(x, "load", "begin")
    /\ last' = [last EXCEPT ![x] = progress[x[1]]]
    /\ UNCHANGED <<post, rowVars, objects, queueVars, host, sent, written,
                   told, crashes>>

\* (Variant with a mistake: errorMessage is not reset.)
BeginKeepsError(x) ==
    /\ Goto(x, "begin", "tellBegin")
    /\ WriteStatus(x[1], "processing")
    /\ progress' = [progress EXCEPT ![x[1]] = Max2(last[x], 5)]
    /\ UNCHANGED <<post, storageKey, errorMessage, unanswered, objects,
                   queueVars, host, last, sent, written, told, crashes>>

\* setStatus("processing"): the database write ...
Begin(x) ==
    /\ Goto(x, "begin", "tellBegin")
    /\ WriteProcessing(x)
    /\ UNCHANGED <<post, unanswered, objects, queueVars, host, last, sent,
                   written, told, crashes>>

\* ... and its event, after which the render starts.
TellBegin(x) ==
    /\ Goto(x, "tellBegin", "render")
    /\ Publish(x[1], "processing")
    /\ last' = [last EXCEPT ![x] = Max2(@, 5)]
    /\ UNCHANGED <<post, rowVars, objects, queueVars, host, sent, written,
                   crashes>>

\* FFmpeg reports progress: queueProgressUpdate issues an update and does not
\* wait for it, unless the progress is not new by at least MinDelta.
Report(x, raw) ==
    /\ pc[x] = "render"
    /\ Capped(raw) > last[x]
    /\ Capped(raw) - last[x] >= MinDelta
    /\ last' = [last EXCEPT ![x] = Capped(raw)]
    /\ sent' = [sent EXCEPT ![x] = @ \cup {Capped(raw)}]
    /\ UNCHANGED <<post, rowVars, objects, queueVars, pc, host, written, told,
                   crashes>>

\* (Variant with a mistake: the update leaves the status alone.)
ApplyProgressOnly(x, p) ==
    /\ sent' = [sent EXCEPT ![x] = @ \ {p}]
    /\ written' = [written EXCEPT ![x] =
           IF pc[x] = "dead" THEN @ ELSE @ \cup {p}]
    /\ progress' = [progress EXCEPT ![x[1]] = p]
    /\ UNCHANGED <<post, status, ended, unanswered, storageKey, errorMessage,
                   objects, queueVars, pc, host, last, told, crashes>>

\* An issued update reaches the database, in whatever order the connections
\* of the pool run them.  Nobody publishes for a process that died, nor when
\* the answer is lost: the error is swallowed.
ApplyUpdate(x, p) ==
    /\ sent' = [sent EXCEPT ![x] = @ \ {p}]
    /\ \/ pc[x] # "dead" /\ written' = [written EXCEPT ![x] = @ \cup {p}]
       \/ (pc[x] = "dead" \/ "answer" \in Faults) /\ UNCHANGED written
    /\ WriteStatus(x[1], "processing")
    /\ progress' = [progress EXCEPT ![x[1]] = p]
    /\ UNCHANGED <<post, storageKey, errorMessage, unanswered, objects,
                   queueVars, pc, host, last, told, crashes>>

\* An issued update fails, and its error is swallowed, or dies on the wire
\* with the process that sent it.
LoseUpdate(x, p) ==
    /\ pc[x] = "dead" \/ "db" \in Faults
    /\ sent' = [sent EXCEPT ![x] = @ \ {p}]
    /\ UNCHANGED <<post, rowVars, objects, queueVars, pc, host, last, written,
                   told, crashes>>

\* The event of an update that reached the database.
TellUpdate(x, p) ==
    /\ written' = [written EXCEPT ![x] = @ \ {p}]
    /\ Publish(x[1], "processing")
    /\ UNCHANGED <<post, rowVars, objects, queueVars, pc, host, last, sent,
                   crashes>>

\* FFmpeg ends and the output file is read back.
RenderEnd(x) ==
    /\ Goto(x, "render", "drain")
    /\ UNCHANGED <<post, rowVars, objects, queueVars, host, last, sent,
                   written, told, crashes>>

\* FFmpeg or the file system fails: straight to the catch block.
RenderFails(x) ==
    /\ "render" \in Faults
    /\ Goto(x, "render", "catch")
    /\ UNCHANGED <<post, rowVars, objects, queueVars, host, last, sent,
                   written, told, crashes>>

\* (Variant with a mistake: the updates are not awaited.)
DrainNothing(x) ==
    /\ Goto(x, "drain", "put")
    /\ UNCHANGED <<post, rowVars, objects, queueVars, host, last, sent,
                   written, told, crashes>>

\* await Promise.all(progressPromises)
Drain(x) ==
    /\ sent[x] = {} /\ written[x] = {}
    /\ Goto(x, "drain", "put")
    /\ UNCHANGED <<post, rowVars, objects, queueVars, host, last, sent,
                   written, told, crashes>>

\* putObject under a key that depends on the export alone; getDownloadUrl
\* never throws here.
Put(x) ==
    /\ Goto(x, "put", "finish")
    /\ objects' = objects \cup {x[1]}
    /\ UNCHANGED <<post, rowVars, queueVars, host, last, sent, written, told,
                   crashes>>

\* (Variant with a mistake: the error is swallowed.)
PutFailsQuietly(x) ==
    /\ "storage" \in Faults
    /\ Goto(x, "put", "finish")
    /\ UNCHANGED <<post, rowVars, objects, queueVars, host, last, sent,
                   written, told, crashes>>

\* The upload throws, having stored the object or not.
PutFails(x) ==
    /\ "storage" \in Faults
    /\ Goto(x, "put", "catch")
    /\ objects' \in {objects, objects \cup {x[1]}}
    /\ UNCHANGED <<post, rowVars, queueVars, host, last, sent, written, told,
                   crashes>>

\* setStatus("completed"), database write and event.
Finish(x) ==
    /\ Goto(x, "finish", "tellFinish")
    /\ WriteCompleted(x)
    /\ UNCHANGED <<post, unanswered, objects, queueVars, host, last, sent,
                   written, told, crashes>>

TellFinish(x) ==
    /\ Goto(x, "tellFinish", "settle")
    /\ Publish(x[1], "completed")
    /\ UNCHANGED <<post, rowVars, objects, queueVars, host, last, sent,
                   written, crashes>>

\* (Variant with a mistake: the failure is not announced.)
CatchSilently(x) ==
    /\ Goto(x, "catch", "settle")
    /\ WriteFailed(x)
    /\ UNCHANGED <<post, unanswered, objects, queueVars, host, last, sent,
                   written, told, crashes>>

\* The catch block: setStatus("failed"), database write and event.
Catch(x) ==
    /\ Goto(x, "catch", "tellFailed")
    /\ WriteFailed(x)
    /\ UNCHANGED <<post, unanswered, objects, queueVars, host, last, sent,
                   written, told, crashes>>

TellFailed(x) ==
    /\ Goto(x, "tellFailed", "settle")
    /\ Publish(x[1], "failed")
    /\ UNCHANGED <<post, rowVars, objects, queueVars, host, last, sent,
                   written, crashes>>

\* A database call of processJob throws and has changed nothing: the read before
\* the try rejects the job, a status write goes to the catch block, the one in
\* the catch block leaves through the finally.
DbFails(x) ==
    /\ "db" \in Faults
    /\ \/ Goto(x, "load", "settle")
       \/ Goto(x, "begin", "catch")
       \/ Goto(x, "finish", "catch")
       \/ Goto(x, "catch", "settle")
    /\ UNCHANGED <<post, rowVars, objects, queueVars, host, last, sent,
                   written, told, crashes>>

\* A status write commits and throws all the same: the code goes where a write
\* that failed leads it, and announces nothing.
AnswerLost(x) ==
    /\ "answer" \in Faults
    /\ \/ Goto(x, "begin", "catch") /\ WriteProcessing(x) /\ UNCHANGED unanswered
       \/ Goto(x, "finish", "catch") /\ WriteCompleted(x)
                                    /\ unanswered' = unanswered \cup {x[1]}
       \/ Goto(x, "catch", "settle") /\ WriteFailed(x) /\ UNCHANGED unanswered
    /\ UNCHANGED <<post, objects, queueVars, host, last, sent, written, told,
                   crashes>>

\* The finally block waits for every update; then BullMQ removes the job,
\* completed or failed, if this execution still owns it.
Settle(x) ==
    /\ sent[x] = {} /\ written[x] = {}
    /\ Goto(x, "settle", "done")
    /\ job' = IF job[x[1]] = "active" /\ attempt[x[1]] = x[2]
              THEN [job EXCEPT ![x[1]] = "gone"] ELSE job
    /\ UNCHANGED <<post, rowVars, objects, attempt, host, last, sent, written,
                   told, crashes>>

\* A worker process dies with everything it was doing, and is restarted.
Crash(w) ==
    /\ "crash" \in Faults
    /\ crashes < MaxCrashes
    /\ \E x \in Execs : host[x] = w /\ Running(x)
    /\ crashes' = crashes + 1
    /\ pc' = [x \in Execs |->
           IF host[x] = w /\ Running(x) THEN "dead" ELSE pc[x]]
    /\ written' = [x \in Execs |->
           IF host[x] = w /\ Running(x) THEN {} ELSE written[x]]
    /\ UNCHANGED <<post, rowVars, objects, queueVars, host, last, sent, told>>

-----------------------------------------------------------------------------
(* The specification *)

PostStep(e) == PostCreate(e) \/ PostEnqueue(e) \/ PostFails(e)

\* The awaited operations of an execution, in the order of the code.
Advance(x) ==
    \/ Load(x) \/ Begin(x) \/ TellBegin(x)
    \/ RenderEnd(x) \/ RenderFails(x) \/ Drain(x)
    \/ Put(x) \/ PutFails(x) \/ Finish(x) \/ TellFinish(x)
    \/ Catch(x) \/ TellFailed(x) \/ DbFails(x) \/ AnswerLost(x)
    \/ Settle(x)

UpdateStep(x) ==
    \/ \E p \in sent[x] : ApplyUpdate(x, p) \/ LoseUpdate(x, p)
    \/ \E p \in written[x] : TellUpdate(x, p)

\* Every POST answered, every job gone, nothing under way.
Quiet ==
    /\ \A e \in Exports : /\ post[e] \in {"accepted", "rejected", "error"}
                          /\ job[e] \in {"none", "gone"}
    /\ \A x \in Execs : ~Running(x) /\ sent[x] = {}
    /\ UNCHANGED vars

Next ==
    \/ \E e \in Exports : PostCount(e) \/ PostStep(e)
    \/ \E e \in Exports, w \in Workers : Take(e, w)
    \/ \E e \in Exports : Recover(e) \/ LoseLock(e)
    \/ \E x \in Execs : Advance(x)
    \/ \E x \in Execs, raw \in RawPercents : Report(x, raw)
    \/ \E x \in Execs : UpdateStep(x)
    \/ \E w \in Workers : Crash(w)
    \/ Quiet

Spec == Init /\ [][Next]_vars

\* Awaited operations return, FFmpeg ends, a free worker takes a waiting job,
\* and BullMQ's stalled-job check keeps running.  Nothing makes a client POST.
Fairness ==
    /\ \A e \in Exports : WF_vars(PostStep(e))
    /\ \A e \in Exports : WF_vars(\E w \in Workers : Take(e, w))
    /\ \A e \in Exports : WF_vars(Recover(e))
    /\ \A x \in Execs : WF_vars(Advance(x))
    /\ \A x \in Execs : WF_vars(UpdateStep(x))

FairSpec == Spec /\ Fairness

-----------------------------------------------------------------------------
(* Properties *)

\* A completed export can be downloaded: its object is in storage, its row
\* names the key the download route asks for, and it shows as done.  Holds
\* under every fault, with two executions of the same job writing the row.
CompletedIsStored ==
    \A e \in Exports : status[e] = "completed" =>
        e \in objects /\ storageKey[e] /\ progress[e] = 100

\* A listener that heard "completed" is not ahead of the database: the object
\* and the key were there before the event, whatever was published since.
EventAfterCommit ==
    \A e \in Exports : told[e] = "completed" => e \in objects /\ storageKey[e]

\* While the job was handed out only once, a completed row stays completed: no
\* progress update of the execution that completed it comes in late.  Only if the
\* execution was not told that it had completed the row does its catch block
\* turn the row failed.
CompletedIsFinal ==
    [][\A e \in Exports :
           status[e] = "completed" /\ attempt'[e] = 1
           => status'[e] = "completed" \/ (e \in unanswered /\ status'[e] = "failed")]_vars

\* A completed export carries no error message of an earlier, failed attempt
\* (as long as no execution outlives its claim to the job).
CompletedIsClean ==
    \A e \in Exports : status[e] = "completed" => ~errorMessage[e]

\* A job that is over has left its row terminal, so that the export no longer
\* takes one of the session's MaxActive places.
NoStuckRow ==
    \A e \in Exports :
        /\ job[e] = "gone"
        /\ \A a \in Attempts : ~Running(<<e, a>>) /\ sent[<<e, a>>] = {}
        => status[e] \in Terminal

\* Exports of a session that take a place for the first time.
FirstActive(s) == {e \in Active(s) : e \notin ended}

\* The limit is overshot by no more than the POSTs that were between their
\* count and their create together, leaving aside exports that were over and
\* that a repeated job or a late update reopened.
AdmissionBound ==
    \A s \in Sessions :
        Cardinality(FirstActive(s)) + Cardinality(Counted(s))
            <= MaxActive + MaxPosts - 1

\* README: EXPORT_MAX_ACTIVE is the most in-flight exports a session has.
AtMostMaxActive ==
    \A s \in Sessions : Cardinality(Active(s)) <= MaxActive

\* Every accepted export gets its final outcome, crashes of the worker
\* included, and its job leaves the queue.
EventuallyOver ==
    \A e \in Exports :
        post[e] = "accepted" ~> (job[e] = "gone" /\ [](status[e] \in Terminal))

\* When no event is lost, the listeners of the progress channel end up with
\* the status in the database.
ListenersCatchUp ==
    \A e \in Exports :
        post[e] = "accepted" ~> [](told[e] = status[e])

\* The pipeline keeps the promise of ExportPromise: a job is open from its
\* enqueue to its acknowledgement.
Promise == INSTANCE ExportPromise WITH
    delivered <- objects,
    open <- {e \in Exports : job[e] \in {"waiting", "active"}}

ImplementsPromise == Promise!Spec
=============================================================================
