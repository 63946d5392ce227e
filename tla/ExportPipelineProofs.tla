------------------------ MODULE ExportPipelineProofs ------------------------
(***************************************************************************)
(* Proofs about ExportPipeline, for every set of exports and workers, every *)
(* limit and every set of faults.                                          *)
(***************************************************************************)
EXTENDS ExportPipeline, TLAPS, FiniteSetTheorems

(***************************************************************************)
(* Lemmas about executions and percentages                                 *)
(***************************************************************************)

\* An execution is a pair of an export and an attempt.
LEMMA ExecParts ==
    ASSUME NEW x \in Execs
    PROVE  x[1] \in Exports /\ x[2] \in Attempts /\ x = <<x[1], x[2]>>
BY DEF Execs

LEMMA ExecPair ==
    ASSUME NEW e \in Exports, NEW a \in Attempts
    PROVE  <<e, a>> \in Execs /\ <<e, a>>[1] = e /\ <<e, a>>[2] = a
BY DEF Execs

\* Whatever FFmpeg reports, onProgress is handed a value in 1 .. 95.
LEMMA CappedRange ==
    ASSUME NEW raw \in RawPercents
    PROVE  Capped(raw) \in 1 .. 95
BY BoundsAssumption DEF Capped, Min2, Max2

(***************************************************************************)
(* Type correctness.  A job is handed out at most MaxStalls + 1 times       *)
(* because it waits only while it has stalled no more than that.           *)
(***************************************************************************)

WaitingLeft == \A e \in Exports : job[e] = "waiting" => attempt[e] <= MaxStalls
NoneUnused ==
    \A e \in Exports : post[e] \notin {"accepted", "error"} => attempt[e] = 0 /\ job[e] = "none"

TypeInv == TypeOK /\ WaitingLeft /\ NoneUnused

LEMMA TypeInit == Init => TypeInv
BY WorkersAssumption, BoundsAssumption
   DEF Init, TypeInv, TypeOK, WaitingLeft, NoneUnused, PostStates, Statuses,
       JobStates, PcStates, InProgress, Terminal

\* Each of the three status writes leaves a row of the right type.
LEMMA WriteTypes ==
    ASSUME TypeInv, NEW x \in Execs, WriteProcessing(x) \/ WriteCompleted(x) \/ WriteFailed(x)
    PROVE  /\ status' \in [Exports -> Statuses] /\ ended' \in SUBSET Exports
           /\ progress' \in [Exports -> 0 .. 100] /\ storageKey' \in [Exports -> BOOLEAN]
           /\ errorMessage' \in [Exports -> BOOLEAN]
<1> USE DEF TypeInv, TypeOK
<1>1. x[1] \in Exports /\ Max2(last[x], 5) \in 0 .. 100
  BY ExecParts DEF Max2
<1>2. \E t \in {"processing", "completed", "failed"} : WriteStatus(x[1], t)
  BY DEF WriteProcessing, WriteCompleted, WriteFailed
<1>3. status' \in [Exports -> Statuses] /\ ended' \in SUBSET Exports
  BY <1>1, <1>2 DEF WriteStatus, Statuses, InProgress, Terminal
<1>4. progress' \in [Exports -> 0 .. 100]
  BY <1>1 DEF WriteProcessing, WriteCompleted, WriteFailed
<1>5. storageKey' \in [Exports -> BOOLEAN]
  BY <1>1 DEF WriteProcessing, WriteCompleted, WriteFailed
<1>6. errorMessage' \in [Exports -> BOOLEAN]
  BY <1>1 DEF WriteProcessing, WriteCompleted, WriteFailed
<1> QED BY <1>3, <1>4, <1>5, <1>6

LEMMA TypeStep == TypeInv /\ [Next]_vars => TypeInv'
<1> SUFFICES ASSUME TypeInv, [Next]_vars PROVE TypeInv'
  OBVIOUS
<1> USE DEF TypeInv, TypeOK, WaitingLeft, NoneUnused
<1>1. ASSUME NEW e \in Exports, PostCount(e) \/ PostStep(e) PROVE TypeInv'
  BY <1>1, BoundsAssumption DEF PostCount, PostStep, PostCreate, InsertRow, PostEnqueue,
       AddJob, PostFails,
     PostStates, Statuses, InProgress, Terminal, JobStates, rowVars, queueVars, execVars
<1>2. ASSUME NEW e \in Exports, NEW w \in Workers, Take(e, w) PROVE TypeInv'
  <2>1. attempt[e] + 1 \in Attempts
    BY <1>2, BoundsAssumption DEF Take, Attempts
  <2>2. <<e, attempt[e] + 1>> \in Execs
    BY <2>1, ExecPair
  <2>3. post[e] \in {"accepted", "error"}
    BY <1>2 DEF Take
  <2> QED
    BY <1>2, <2>1, <2>2, <2>3, BoundsAssumption
       DEF Take, Attempts, PcStates, JobStates, rowVars
<1>3. ASSUME NEW e \in Exports, Recover(e) \/ LoseLock(e) PROVE TypeInv'
  BY <1>3, BoundsAssumption DEF Recover, LoseLock, Requeue, JobStates, rowVars, execVars
<1>4. ASSUME NEW x \in Execs, Advance(x) PROVE TypeInv'
  <2> USE ExecParts DEF Goto, WriteStatus, WriteProcessing, WriteCompleted, WriteFailed,
       Publish, rowVars, queueVars, PcStates, Statuses,
          InProgress, Terminal
  <2>0. Max2(last[x], 5) \in 0 .. 100
    BY DEF Max2
  <2>1. CASE Load(x)        BY <2>1 DEF Load
  <2>2. CASE Begin(x)       BY <2>0, <2>2 DEF Begin
  <2>3. CASE TellBegin(x)
    <3>1. last' \in [Execs -> 0 .. 100]
      BY <2>0, <2>3 DEF TellBegin
    <3>2. told' \in [Exports -> Statuses]
      BY <2>3 DEF TellBegin
    <3> QED BY <2>3, <3>1, <3>2 DEF TellBegin
  <2>4. CASE RenderEnd(x)   BY <2>4 DEF RenderEnd
  <2>5. CASE RenderFails(x) BY <2>5 DEF RenderFails
  <2>6. CASE Drain(x)       BY <2>6 DEF Drain
  <2>7. CASE Put(x)         BY <2>7 DEF Put
  <2>8. CASE PutFails(x)    BY <2>8 DEF PutFails
  <2>9. CASE Finish(x)      BY <2>9 DEF Finish
  <2>10. CASE TellFinish(x) BY <2>10 DEF TellFinish
  <2>11. CASE Catch(x)      BY <2>11 DEF Catch
  <2>12. CASE TellFailed(x) BY <2>12 DEF TellFailed
  <2>13. CASE DbFails(x)    BY <2>13 DEF DbFails
  <2>14. CASE AnswerLost(x)
    <3>1. UNCHANGED <<post, objects, job, attempt, host, last, sent, written, told, crashes>>
      BY <2>14 DEF AnswerLost
    <3>2. pc' \in [Execs -> PcStates] /\ unanswered' \in SUBSET Exports
      <4>1. \E to \in {"catch", "settle"} : pc' = [pc EXCEPT ![x] = to]
        BY <2>14 DEF AnswerLost
      <4>2. unanswered' = unanswered \/ unanswered' = unanswered \cup {x[1]}
        BY <2>14 DEF AnswerLost
      <4> QED BY <4>1, <4>2
    <3>3. WriteProcessing(x) \/ WriteCompleted(x) \/ WriteFailed(x)
      BY <2>14 DEF AnswerLost
    <3>4. /\ status' \in [Exports -> Statuses] /\ ended' \in SUBSET Exports
          /\ progress' \in [Exports -> 0 .. 100] /\ storageKey' \in [Exports -> BOOLEAN]
          /\ errorMessage' \in [Exports -> BOOLEAN]
      BY <3>3, WriteTypes
    <3> QED BY <3>1, <3>2, <3>4
  <2>15. CASE Settle(x)     BY <2>15 DEF Settle, JobStates
  <2> QED
    BY <1>4, <2>1, <2>2, <2>3, <2>4, <2>5, <2>6, <2>7, <2>8, <2>9, <2>10,
       <2>11, <2>12, <2>13, <2>14, <2>15 DEF Advance
<1>5. ASSUME NEW x \in Execs, NEW raw \in RawPercents, Report(x, raw) PROVE TypeInv'
  BY <1>5, CappedRange DEF Report, rowVars, queueVars
<1>6. ASSUME NEW x \in Execs, UpdateStep(x) PROVE TypeInv'
  <2> USE ExecParts DEF WriteStatus, WriteProcessing, WriteCompleted, WriteFailed, Publish,
       rowVars, queueVars, Statuses, InProgress, Terminal
  <2>1. ASSUME NEW p \in sent[x], ApplyUpdate(x, p) PROVE TypeInv'
    <3>1. p \in 1 .. 95 /\ x[1] \in Exports
      OBVIOUS
    <3>2. written' \in [Execs -> SUBSET (1 .. 95)]
      <4>1. written' = written \/ written' = [written EXCEPT ![x] = @ \cup {p}]
        BY <2>1 DEF ApplyUpdate
      <4> QED BY <3>1, <4>1
    <3>3. sent' \in [Execs -> SUBSET (1 .. 95)] /\ progress' \in [Exports -> 0 .. 100]
      BY <2>1, <3>1 DEF ApplyUpdate
    <3>4. status' \in [Exports -> Statuses] /\ ended' \in SUBSET Exports
      BY <2>1, <3>1 DEF ApplyUpdate
    <3>5. UNCHANGED <<post, storageKey, errorMessage, unanswered, objects, job, attempt, pc,
                      host, last, told, crashes>>
      BY <2>1 DEF ApplyUpdate
    <3> QED BY <3>2, <3>3, <3>4, <3>5
  <2>2. ASSUME NEW p \in sent[x], LoseUpdate(x, p) PROVE TypeInv'
    BY <2>2 DEF LoseUpdate
  <2>3. ASSUME NEW p \in written[x], TellUpdate(x, p) PROVE TypeInv'
    BY <2>3 DEF TellUpdate
  <2> QED BY <1>6, <2>1, <2>2, <2>3 DEF UpdateStep
<1>7. ASSUME NEW w \in Workers, Crash(w) PROVE TypeInv'
  BY <1>7, BoundsAssumption DEF Crash, PcStates, rowVars, queueVars
<1>8. CASE Quiet \/ UNCHANGED vars
  BY <1>8 DEF Quiet, vars, rowVars, queueVars, execVars
<1> QED
  BY <1>1, <1>2, <1>3, <1>4, <1>5, <1>6, <1>7, <1>8 DEF Next

\* Every variable of the pipeline keeps its type: in particular percentages
\* stay in range and no job is handed out more than MaxStalls + 1 times.
THEOREM TypeCorrect == Spec => []TypeOK
<1>1. Spec => []TypeInv
  BY TypeInit, TypeStep, PTL DEF Spec
<1> QED BY <1>1, PTL DEF TypeInv

(***************************************************************************)
(* What has been stored, and what has been announced.  The object is       *)
(* written before the row names it, and the row before the event, so a     *)
(* second execution of the job can at worst reopen the row.                *)
(***************************************************************************)

StoredInv ==
    /\ \A e \in Exports :
          /\ status[e] = "completed" => storageKey[e] /\ progress[e] = 100
          /\ told[e] = "completed" => storageKey[e]
          /\ storageKey[e] => e \in objects
    /\ \A x \in Execs :
          /\ pc[x] \in {"finish", "tellFinish"} => x[1] \in objects
          /\ pc[x] = "tellFinish" => storageKey[x[1]]

LEMMA StoredInit == Init => StoredInv
BY ExecParts DEF Init, StoredInv

LEMMA StoredStep == TypeInv /\ StoredInv /\ [Next]_vars => StoredInv'
<1> SUFFICES ASSUME TypeInv, StoredInv, [Next]_vars PROVE StoredInv'
  OBVIOUS
<1> USE DEF TypeInv, TypeOK, StoredInv
<1>1. ASSUME NEW e \in Exports, PostCount(e) \/ PostStep(e) PROVE StoredInv'
  BY <1>1, ExecParts DEF PostCount, PostStep, PostCreate, InsertRow, PostEnqueue, AddJob,
       PostFails,
     rowVars, queueVars, execVars
<1>2. ASSUME NEW e \in Exports, NEW w \in Workers, Take(e, w) PROVE StoredInv'
  BY <1>2, ExecParts DEF Take, rowVars
<1>3. ASSUME NEW e \in Exports, Recover(e) \/ LoseLock(e) PROVE StoredInv'
  BY <1>3, ExecParts DEF Recover, LoseLock, Requeue, rowVars, execVars
<1>4. ASSUME NEW x \in Execs, Advance(x) PROVE StoredInv'
  <2> USE ExecParts DEF Goto, WriteStatus, WriteProcessing, WriteCompleted, WriteFailed,
       Publish, rowVars, queueVars
  <2>1. CASE Load(x) \/ RenderEnd(x) \/ RenderFails(x) \/ Drain(x) \/ PutFails(x)
    BY <2>1 DEF Load, RenderEnd, RenderFails, Drain, PutFails
  <2>2. CASE Begin(x)       BY <2>2 DEF Begin
  <2>3. CASE TellBegin(x)   BY <2>3 DEF TellBegin
  <2>4. CASE Put(x)         BY <2>4 DEF Put
  <2>5. CASE Finish(x)      BY <2>5 DEF Finish
  <2>6. CASE TellFinish(x)  BY <2>6 DEF TellFinish
  <2>7. CASE Catch(x)       BY <2>7 DEF Catch
  <2>8. CASE TellFailed(x)  BY <2>8 DEF TellFailed
  <2>9. CASE DbFails(x)     BY <2>9 DEF DbFails
  <2>10. CASE AnswerLost(x) BY <2>10 DEF AnswerLost
  <2>11. CASE Settle(x)     BY <2>11 DEF Settle
  <2> QED
    BY <1>4, <2>1, <2>2, <2>3, <2>4, <2>5, <2>6, <2>7, <2>8, <2>9, <2>10, <2>11 DEF Advance
<1>5. ASSUME NEW x \in Execs, NEW raw \in RawPercents, Report(x, raw) PROVE StoredInv'
  BY <1>5 DEF Report, rowVars, queueVars
<1>6. ASSUME NEW x \in Execs, UpdateStep(x) PROVE StoredInv'
  <2> USE ExecParts DEF WriteStatus, WriteProcessing, WriteCompleted, WriteFailed, Publish,
       rowVars, queueVars
  <2>1. ASSUME NEW p \in sent[x], ApplyUpdate(x, p) PROVE StoredInv'
    BY <2>1 DEF ApplyUpdate
  <2>2. ASSUME NEW p \in sent[x], LoseUpdate(x, p) PROVE StoredInv'
    BY <2>2 DEF LoseUpdate
  <2>3. ASSUME NEW p \in written[x], TellUpdate(x, p) PROVE StoredInv'
    BY <2>3 DEF TellUpdate
  <2> QED BY <1>6, <2>1, <2>2, <2>3 DEF UpdateStep
<1>7. ASSUME NEW w \in Workers, Crash(w) PROVE StoredInv'
  BY <1>7 DEF Crash, rowVars, queueVars
<1>8. CASE Quiet \/ UNCHANGED vars
  BY <1>8 DEF Quiet, vars, rowVars, queueVars, execVars
<1> QED
  BY <1>1, <1>2, <1>3, <1>4, <1>5, <1>6, <1>7, <1>8 DEF Next

\* Under every fault, a completed export has its object in storage under the
\* key of its row, at progress 100.
THEOREM CompletedStored == Spec => []CompletedIsStored
<1>1. Spec => [](TypeInv /\ StoredInv)
  BY TypeInit, TypeStep, StoredInit, StoredStep, PTL DEF Spec
<1>2. TypeInv /\ StoredInv => CompletedIsStored
  BY DEF StoredInv, CompletedIsStored
<1> QED BY <1>1, <1>2, PTL

\* A listener told "completed" can download: the event follows the commit.
THEOREM EventsFollowCommits == Spec => []EventAfterCommit
<1>1. Spec => [](TypeInv /\ StoredInv)
  BY TypeInit, TypeStep, StoredInit, StoredStep, PTL DEF Spec
<1>2. TypeInv /\ StoredInv => EventAfterCommit
  BY DEF StoredInv, EventAfterCommit
<1> QED BY <1>1, <1>2, PTL

(***************************************************************************)
(* Where executions stand.  An attempt not handed out does nothing; past   *)
(* the drain no update of the execution is on its way; a row is touched by  *)
(* its executions alone; and an execution that completed the row of a job  *)
(* handed out once has nothing left to write, unless its catch block is    *)
(* next, because the answer of the completing write was lost.              *)
(***************************************************************************)

Unstarted == \A x \in Execs : x[2] > attempt[x[1]] => pc[x] = "off" /\ sent[x] = {}
Drained == \A x \in Execs : pc[x] \in {"put", "finish", "tellFinish"} => sent[x] = {}
Untouched == \A e \in Exports : attempt[e] = 0 => status[e] \in {"none", "pending"}
FinalOnce ==
    \A x \in Execs :
        attempt[x[1]] = 1 /\ status[x[1]] = "completed"
        => /\ \/ pc[x] \in {"off", "tellFinish", "settle", "done", "dead"}
              \/ pc[x] = "catch" /\ x[1] \in unanswered
           /\ sent[x] = {}
Recorded ==
    \A e \in Exports :
        /\ status[e] \in Terminal => e \in ended
        /\ post[e] = "created" \/ job[e] # "none" \/ attempt[e] # 0 => status[e] # "none"

RunInv == Unstarted /\ Drained /\ Untouched /\ FinalOnce /\ Recorded

LEMMA RunInit == Init => RunInv
BY ExecParts
   DEF Init, RunInv, Unstarted, Drained, Untouched, FinalOnce, Recorded, Terminal

\* An execution that takes a step belongs to an attempt handed out, so the POST
\* of its export is over and its row exists.
LEMMA ActiveExec ==
    ASSUME TypeInv, RunInv, NEW x \in Execs, pc[x] # "off" \/ sent[x] # {}
    PROVE  /\ x[1] \in Exports /\ x[2] \in Attempts /\ x = <<x[1], x[2]>>
           /\ attempt[x[1]] # 0
           /\ post[x[1]] \in {"accepted", "error"}
           /\ status[x[1]] # "none"
<1>1. x[1] \in Exports /\ x[2] \in Attempts /\ x = <<x[1], x[2]>>
  BY ExecParts
<1>2. attempt[x[1]] \in 0 .. (MaxStalls + 1) /\ x[2] \in 1 .. (MaxStalls + 1)
  BY <1>1 DEF TypeInv, TypeOK, Attempts
<1>3. ~(x[2] > attempt[x[1]])
  BY DEF RunInv, Unstarted
<1> QED
  BY <1>1, <1>2, <1>3, BoundsAssumption
     DEF TypeInv, TypeOK, NoneUnused, RunInv, Recorded

\* While a job was handed out once, its other executions have not started.
LEMMA OnlyAttempt ==
    ASSUME TypeInv, RunInv, NEW x \in Execs, pc[x] # "off",
           NEW y \in Execs, y # x, y[1] = x[1], attempt[x[1]] = 1
    PROVE  pc[y] = "off" /\ sent[y] = {}
<1>1. /\ x[2] \in Nat \ {0} /\ x = <<x[1], x[2]>>
      /\ y[2] \in Nat \ {0} /\ y = <<y[1], y[2]>>
  BY ExecParts, BoundsAssumption DEF Attempts
<1>2. ~(x[2] > attempt[x[1]])
  BY DEF RunInv, Unstarted
<1>3. x[2] = 1
  BY <1>1, <1>2
<1>4. y[2] # x[2]
  BY <1>1
<1>5. y[2] > attempt[y[1]]
  BY <1>1, <1>3, <1>4
<1> QED BY <1>5 DEF RunInv, Unstarted

\* An awaited operation moves one running execution on, and only the last one
\* touches the job.
LEMMA AdvanceMoves ==
    ASSUME NEW x \in Execs, Advance(x)
    PROVE  /\ Running(x)
           /\ \E to \in PcStates \ {"off", "dead"} : pc' = [pc EXCEPT ![x] = to]
           /\ UNCHANGED <<post, attempt, sent, crashes>>
           /\ Settle(x) \/ job' = job
BY DEF Advance, Goto, PcStates, Running, Load, Begin, TellBegin, RenderEnd, RenderFails, Drain,
   Put, PutFails, Finish, TellFinish, Catch, TellFailed, DbFails, AnswerLost, Settle, rowVars,
   queueVars

\* An awaited operation that moves execution x on to `to` and leaves its row at
\* status t keeps the invariant, if no update is on its way past the drain and x
\* stops writing once it has completed the row of a job handed out once.
LEMMA AwaitKeeps ==
    ASSUME TypeInv, RunInv, NEW x \in Execs, pc[x] # "off",
           NEW to \in PcStates \ {"off"}, pc' = [pc EXCEPT ![x] = to],
           NEW t \in Statuses \ {"none"}, status' = [status EXCEPT ![x[1]] = t],
           ended \subseteq ended', t \in Terminal => x[1] \in ended',
           unanswered \subseteq unanswered', UNCHANGED <<post, attempt, sent>>,
           \A e \in Exports : job'[e] = "none" => job[e] = "none",
           \A e \in Exports : job[e] = "none" => job'[e] = "none",
           to \in {"put", "finish", "tellFinish"} => sent[x] = {},
           t = "completed" /\ attempt[x[1]] = 1
           => /\ \/ to \in {"tellFinish", "settle", "done", "dead"}
                 \/ to = "catch" /\ x[1] \in unanswered'
              /\ sent[x] = {}
    PROVE  RunInv'
<1> USE DEF TypeInv, TypeOK
<1>1. x[1] \in Exports /\ attempt[x[1]] # 0 /\ status[x[1]] # "none"
  BY ActiveExec
<1>2. \A y \in Execs : y # x => pc'[y] = pc[y]
  OBVIOUS
<1>3. pc'[x] = to /\ status'[x[1]] = t
  BY <1>1
<1>4. \A e \in Exports : e # x[1] => status'[e] = status[e]
  OBVIOUS
<1>5. Unstarted'
  BY <1>2, <1>3, ExecParts DEF RunInv, Unstarted
<1>6. Drained'
  BY <1>2, <1>3 DEF RunInv, Drained
<1>7. Untouched'
  BY <1>1, <1>4 DEF RunInv, Untouched
<1>8. FinalOnce'
  <2> SUFFICES ASSUME NEW y \in Execs, attempt[y[1]] = 1, status'[y[1]] = "completed"
               PROVE  /\ \/ pc'[y] \in {"off", "tellFinish", "settle", "done", "dead"}
                         \/ pc'[y] = "catch" /\ y[1] \in unanswered'
                      /\ sent[y] = {}
    BY DEF FinalOnce
  <2>1. CASE y = x
    BY <1>3, <2>1
  <2>2. CASE y # x /\ y[1] = x[1]
    <3>1. pc[y] = "off" /\ sent[y] = {}
      BY <2>2, OnlyAttempt
    <3> QED BY <1>2, <2>2, <3>1
  <2>3. CASE y[1] # x[1]
    BY <1>2, <1>4, <2>3, ExecParts DEF RunInv, FinalOnce
  <2> QED BY <2>1, <2>2, <2>3
<1>9. Recorded'
  <2>1. \A e \in Exports : status'[e] \in Terminal => e \in ended'
    BY <1>3, <1>4 DEF RunInv, Recorded
  <2>2. \A e \in Exports : status'[e] = "none" => status[e] = "none"
    BY <1>3, <1>4
  <2>3. \A e \in Exports : post'[e] = "created" \/ job'[e] # "none" \/ attempt'[e] # 0
                           => post[e] = "created" \/ job[e] # "none" \/ attempt[e] # 0
    OBVIOUS
  <2> QED BY <2>1, <2>2, <2>3 DEF RunInv, Recorded
<1> QED BY <1>5, <1>6, <1>7, <1>8, <1>9 DEF RunInv

LEMMA RunStep == TypeInv /\ RunInv /\ [Next]_vars => RunInv'
<1> SUFFICES ASSUME TypeInv, RunInv, [Next]_vars PROVE RunInv'
  OBVIOUS
<1> USE DEF TypeInv, TypeOK, RunInv, Unstarted, Drained, Untouched, FinalOnce, Recorded, Terminal
<1>1. ASSUME NEW e \in Exports, PostCount(e) \/ PostStep(e) PROVE RunInv'
  <2> USE ExecParts DEF NoneUnused, rowVars, queueVars, execVars
  <2>1. CASE PostCount(e)   BY <2>1 DEF PostCount
  <2>2. CASE PostCreate(e)  BY <2>2 DEF PostCreate, InsertRow
  <2>3. CASE PostEnqueue(e) BY <2>3 DEF PostEnqueue, AddJob
  <2>4. CASE PostFails(e)   BY <2>4 DEF PostFails, InsertRow, AddJob
  <2> QED BY <1>1, <2>1, <2>2, <2>3, <2>4 DEF PostStep
<1>2. ASSUME NEW e \in Exports, NEW w \in Workers, Take(e, w) PROVE RunInv'
  <2> DEFINE y == <<e, attempt[e] + 1>>
  <2>1. attempt[e] + 1 \in Attempts /\ y \in Execs
    BY <1>2, ExecPair, BoundsAssumption DEF Take, Attempts, WaitingLeft
  <2>2. /\ attempt' = [attempt EXCEPT ![e] = @ + 1] /\ pc' = [pc EXCEPT ![y] = "load"]
        /\ job[e] = "waiting" /\ job' = [job EXCEPT ![e] = "active"]
        /\ UNCHANGED <<post, status, ended, unanswered, sent>>
    BY <1>2 DEF Take, rowVars
  <2>3. Unstarted'
    BY <2>1, <2>2, ExecParts DEF Attempts
  <2>4. Drained' /\ Untouched' /\ Recorded'
    BY <2>1, <2>2
  <2>5. FinalOnce'
    BY <2>1, <2>2
  <2> QED BY <2>3, <2>4, <2>5
<1>3. ASSUME NEW e \in Exports, Recover(e) \/ LoseLock(e) PROVE RunInv'
  BY <1>3, ExecParts DEF Recover, LoseLock, Requeue, rowVars, execVars
<1>4. ASSUME NEW x \in Execs, Advance(x) PROVE RunInv'
  <2>0. pc[x] # "off"
    BY <1>4 DEF Advance, Goto, Load, Begin, TellBegin, RenderEnd, RenderFails, Drain,
       Put, PutFails, Finish, TellFinish, Catch, TellFailed, DbFails, AnswerLost, Settle
  <2>1. /\ x[1] \in Exports /\ status[x[1]] \in Statuses \ {"none"}
        /\ pc[x] \in {"put", "finish", "tellFinish"} => sent[x] = {}
        /\ status[x[1]] \in Terminal => x[1] \in ended
        /\ status[x[1]] = "completed" /\ attempt[x[1]] = 1
           => /\ \/ pc[x] \in {"tellFinish", "settle", "done", "dead"}
                 \/ pc[x] = "catch" /\ x[1] \in unanswered
              /\ sent[x] = {}
    BY <2>0, ActiveExec
  <2>2. CASE UNCHANGED <<status, ended, unanswered>>
    <3>1. /\ UNCHANGED <<post, attempt, sent>>
          /\ job' = job \/ (Settle(x) /\ job' = [job EXCEPT ![x[1]] = "gone"] /\ job[x[1]] = "active")
      BY <1>4, <2>2 DEF Advance, Load, Begin, TellBegin, RenderEnd, RenderFails, Drain,
         Put, PutFails, Finish, TellFinish, Catch, TellFailed, DbFails, AnswerLost, Settle,
         rowVars, queueVars
    <3>2. \A e \in Exports : job'[e] = "none" <=> job[e] = "none"
      BY <3>1
    <3>3. PICK to \in PcStates \ {"off"} :
            /\ pc' = [pc EXCEPT ![x] = to]
            /\ to \in {"put", "finish", "tellFinish"} => sent[x] = {}
            /\ pc[x] \in {"tellFinish", "settle", "catch"} => to \in {"settle", "done", "tellFailed"}
            /\ pc[x] = "catch" => to = "settle" \/ (to = "tellFailed" /\ Catch(x))
            /\ to = "tellFailed" => Catch(x)
      BY <1>4, <2>1 DEF Advance, Goto, PcStates, Load, Begin, TellBegin, RenderEnd,
           RenderFails, Drain,
         Put, PutFails, Finish, TellFinish, Catch, TellFailed, DbFails, AnswerLost, Settle
    <3>4. Catch(x) => status'[x[1]] = "failed"
      BY <2>1 DEF Catch, WriteFailed, WriteStatus
    <3>5. status' = [status EXCEPT ![x[1]] = status[x[1]]]
      BY <2>2
    <3>6. pc[x] \notin {"done", "dead"}
      BY <1>4, AdvanceMoves DEF Running
    <3> QED
      BY <2>0, <2>1, <2>2, <3>1, <3>2, <3>3, <3>4, <3>5, <3>6, AwaitKeeps
  <2>3. CASE Begin(x) \/ Catch(x) \/ (AnswerLost(x) /\ pc[x] # "finish")
    <3>1. /\ UNCHANGED <<post, job, attempt, sent, unanswered>>
          /\ \E to \in {"tellBegin", "tellFailed", "catch", "settle"} : pc' = [pc EXCEPT ![x] = to]
          /\ WriteProcessing(x) \/ WriteFailed(x)
      BY <2>3 DEF Begin, Catch, AnswerLost, Goto, queueVars
    <3>2. \E t \in {"processing", "failed"} : WriteStatus(x[1], t)
      BY <3>1 DEF WriteProcessing, WriteFailed
    <3>3. PICK t \in {"processing", "failed"} : WriteStatus(x[1], t)
      BY <3>2
    <3>4. /\ t \in Statuses \ {"none"} /\ t # "completed"
          /\ status' = [status EXCEPT ![x[1]] = t]
          /\ ended \subseteq ended' /\ (t \in Terminal => x[1] \in ended')
      BY <3>3 DEF WriteStatus, Statuses, InProgress
    <3>5. PICK to \in {"tellBegin", "tellFailed", "catch", "settle"} : pc' = [pc EXCEPT ![x] = to]
      BY <3>1
    <3>6. to \in PcStates \ {"off"} /\ to \notin {"put", "finish", "tellFinish"}
      BY DEF PcStates
    <3> QED BY <2>0, <3>1, <3>4, <3>5, <3>6, AwaitKeeps
  <2>4. CASE Finish(x) \/ (AnswerLost(x) /\ pc[x] = "finish")
    <3>1. /\ UNCHANGED <<post, job, attempt, sent>> /\ pc[x] = "finish" /\ WriteCompleted(x)
          /\ \/ pc' = [pc EXCEPT ![x] = "tellFinish"] /\ unanswered' = unanswered
             \/ pc' = [pc EXCEPT ![x] = "catch"] /\ unanswered' = unanswered \cup {x[1]}
      BY <2>4 DEF Finish, AnswerLost, Goto, queueVars
    <3>2. /\ status' = [status EXCEPT ![x[1]] = "completed"]
          /\ ended \subseteq ended' /\ x[1] \in ended'
          /\ "completed" \in Statuses \ {"none"}
      BY <3>1 DEF WriteCompleted, WriteStatus, Statuses
    <3>3. sent[x] = {} /\ unanswered \subseteq unanswered'
      BY <2>1, <3>1
    <3>4. {"tellFinish", "catch"} \subseteq PcStates \ {"off"}
      BY DEF PcStates
    <3>5. CASE pc' = [pc EXCEPT ![x] = "tellFinish"]
      BY <2>0, <3>1, <3>2, <3>3, <3>4, <3>5, AwaitKeeps
    <3>6. CASE pc' = [pc EXCEPT ![x] = "catch"] /\ x[1] \in unanswered'
      BY <2>0, <3>1, <3>2, <3>3, <3>4, <3>6, AwaitKeeps
    <3> QED BY <3>1, <3>5, <3>6
  <2> QED
    BY <1>4, <2>2, <2>3, <2>4
       DEF Advance, Load, Begin, TellBegin, RenderEnd, RenderFails, Drain,
         Put, PutFails, Finish, TellFinish, Catch, TellFailed, DbFails, AnswerLost, Settle,
         rowVars
<1>5. ASSUME NEW x \in Execs, NEW raw \in RawPercents, Report(x, raw) PROVE RunInv'
  <2>1. pc[x] = "render"
    BY <1>5 DEF Report
  <2> QED BY <1>5, <2>1, ActiveExec, ExecParts DEF Report, rowVars, queueVars
<1>6. ASSUME NEW x \in Execs, UpdateStep(x) PROVE RunInv'
  <2> USE ExecParts DEF WriteStatus, WriteProcessing, WriteCompleted, WriteFailed, rowVars,
       queueVars
  <2>1. ASSUME NEW p \in sent[x], ApplyUpdate(x, p) PROVE RunInv'
    BY <2>1, ActiveExec DEF ApplyUpdate
  <2>2. ASSUME NEW p \in sent[x], LoseUpdate(x, p) PROVE RunInv'
    BY <2>2 DEF LoseUpdate
  <2>3. ASSUME NEW p \in written[x], TellUpdate(x, p) PROVE RunInv'
    BY <2>3 DEF TellUpdate
  <2> QED BY <1>6, <2>1, <2>2, <2>3 DEF UpdateStep
<1>7. ASSUME NEW w \in Workers, Crash(w) PROVE RunInv'
  BY <1>7, ExecParts DEF Crash, Running, rowVars, queueVars
<1>8. CASE Quiet \/ UNCHANGED vars
  BY <1>8 DEF Quiet, vars, rowVars, queueVars, execVars
<1> QED
  BY <1>1, <1>2, <1>3, <1>4, <1>5, <1>6, <1>7, <1>8 DEF Next

\* Under every fault, a completed row of a job handed out once stays completed:
\* the drain before the upload keeps the execution's own progress updates from
\* coming in late.  The one exception is an execution that was not told that it
\* had completed the row: its catch block turns the row failed.
THEOREM CompletedFinal == Spec => CompletedIsFinal
<1> DEFINE Final == \A e \in Exports :
        status[e] = "completed" /\ attempt'[e] = 1
        => status'[e] = "completed" \/ (e \in unanswered /\ status'[e] = "failed")
       Kept(e) == status'[e] = "completed" \/ (e \in unanswered /\ status'[e] = "failed")
<1>1. TypeInv /\ RunInv /\ [Next]_vars => [Final]_vars
  <2> SUFFICES ASSUME TypeInv, RunInv, Next,
                      NEW e \in Exports, status[e] = "completed", attempt'[e] = 1
               PROVE  Kept(e)
    BY DEF vars
  <2> USE DEF TypeInv, TypeOK, RunInv, Unstarted, FinalOnce, Untouched, rowVars, queueVars
  <2>1. ASSUME NEW f \in Exports, PostCount(f) \/ PostStep(f) PROVE Kept(e)
    BY <2>1 DEF PostCount, PostStep, PostCreate, InsertRow, PostEnqueue, AddJob, PostFails,
         NoneUnused
  <2>2. ASSUME NEW f \in Exports, NEW w \in Workers, Take(f, w) PROVE Kept(e)
    BY <2>2 DEF Take
  <2>3. ASSUME NEW f \in Exports, Recover(f) \/ LoseLock(f) PROVE Kept(e)
    BY <2>3 DEF Recover, LoseLock, Requeue
  <2>4. ASSUME NEW x \in Execs, Advance(x) PROVE Kept(e)
    <3>1. pc[x] # "off" /\ attempt' = attempt
      BY <2>4 DEF Advance, Goto, Load, Begin, TellBegin, RenderEnd, RenderFails, Drain,
         Put, PutFails, Finish, TellFinish, Catch, TellFailed, DbFails, AnswerLost, Settle
    <3>2. CASE x[1] = e
      <4>1. \/ pc[x] \in {"tellFinish", "settle", "done", "dead"}
            \/ pc[x] = "catch" /\ e \in unanswered
        <5>1. attempt[e] = 1
          BY <3>1
        <5> QED BY <3>1, <3>2, <5>1
      <4>2. CASE pc[x] \in {"tellFinish", "settle", "done", "dead"}
        BY <2>4, <4>2 DEF Advance, Goto, Load, Begin, TellBegin, RenderEnd, RenderFails,
           Drain, Put, PutFails, Finish, TellFinish, Catch, TellFailed, DbFails, AnswerLost,
           Settle
      <4>3. CASE pc[x] = "catch" /\ e \in unanswered
        BY <2>4, <3>2, <4>3 DEF Advance, Goto, WriteStatus, WriteFailed, Load, Begin, TellBegin,
           RenderEnd, RenderFails, Drain, Put, PutFails, Finish, TellFinish, Catch, TellFailed,
           DbFails, AnswerLost, Settle
      <4> QED BY <4>1, <4>2, <4>3
    <3>3. CASE x[1] # e
      BY <2>4, <3>3 DEF Advance, WriteStatus, WriteProcessing, WriteCompleted, WriteFailed,
           Load, Begin, TellBegin, RenderEnd,
         RenderFails, Drain, Put, PutFails, Finish, TellFinish, Catch, TellFailed,
         DbFails, AnswerLost, Settle
    <3> QED BY <3>2, <3>3
  <2>5. ASSUME NEW x \in Execs, NEW raw \in RawPercents, Report(x, raw)
        PROVE  Kept(e)
    BY <2>5 DEF Report
  <2>6. ASSUME NEW x \in Execs, UpdateStep(x) PROVE Kept(e)
    <3>1. ASSUME NEW p \in sent[x], ApplyUpdate(x, p) PROVE Kept(e)
      <4>1. x[1] # e
        BY <3>1, ActiveExec DEF ApplyUpdate
      <4> QED BY <3>1, <4>1 DEF ApplyUpdate, WriteStatus, WriteProcessing, WriteCompleted,
           WriteFailed
    <3>2. ASSUME NEW p \in sent[x], LoseUpdate(x, p) PROVE Kept(e)
      BY <3>2 DEF LoseUpdate
    <3>3. ASSUME NEW p \in written[x], TellUpdate(x, p) PROVE Kept(e)
      BY <3>3 DEF TellUpdate
    <3> QED BY <2>6, <3>1, <3>2, <3>3 DEF UpdateStep
  <2>7. ASSUME NEW w \in Workers, Crash(w) PROVE Kept(e)
    BY <2>7 DEF Crash
  <2>8. CASE Quiet
    BY <2>8 DEF Quiet, vars
  <2> QED
    BY <2>1, <2>2, <2>3, <2>4, <2>5, <2>6, <2>7, <2>8 DEF Next
<1>2. Spec => [](TypeInv /\ RunInv)
  BY TypeInit, TypeStep, RunInit, RunStep, PTL DEF Spec
<1>3. TypeInv /\ RunInv /\ [Next]_vars => [Final]_vars
  BY <1>1
<1> QED
  BY <1>2, <1>3, PTL DEF Spec, CompletedIsFinal

(***************************************************************************)
(* Admission.  Only the create of a POST that was counted makes a row take *)
(* a place for the first time, and such a POST was counted already.        *)
(***************************************************************************)

\* One more element makes a finite set larger by at most one.
LEMMA AddBound ==
    ASSUME NEW S, NEW x, IsFiniteSet(S)
    PROVE  /\ IsFiniteSet(S \cup {x})
           /\ Cardinality(S \cup {x}) \in Nat
           /\ Cardinality(S \cup {x}) <= Cardinality(S) + 1
<1>1. Cardinality(S) \in Nat
  BY FS_CardinalityType
<1>2. IsFiniteSet(S \cup {x}) /\ (Cardinality(S \cup {x}) = Cardinality(S)
                               \/ Cardinality(S \cup {x}) = Cardinality(S) + 1)
  BY FS_AddElement
<1> QED BY <1>1, <1>2

\* The sets the limit is about are finite, and their sizes are numbers.
LEMMA PlacesFinite ==
    ASSUME NEW s \in Sessions
    PROVE  /\ IsFiniteSet(Active(s)) /\ IsFiniteSet(FirstActive(s)) /\ IsFiniteSet(Counted(s))
           /\ Cardinality(FirstActive(s)) \in Nat /\ Cardinality(Counted(s)) \in Nat
           /\ Cardinality(Active(s)) \in Nat
           /\ Cardinality(FirstActive(s)) <= Cardinality(Active(s))
<1>1. /\ Active(s) \in SUBSET Exports /\ Counted(s) \in SUBSET Exports
      /\ FirstActive(s) \in SUBSET Active(s)
  BY DEF Active, Counted, FirstActive
<1>2. IsFiniteSet(Active(s)) /\ IsFiniteSet(Counted(s))
  BY <1>1, FiniteAssumption, FS_Subset
<1>3. IsFiniteSet(FirstActive(s)) /\ Cardinality(FirstActive(s)) <= Cardinality(Active(s))
  BY <1>1, <1>2, FS_Subset
<1> QED BY <1>2, <1>3, FS_CardinalityType

\* A step after which both sets are no larger keeps the bound.
LEMMA BoundKept ==
    ASSUME NEW s \in Sessions, AdmissionBound,
           FirstActive(s)' \subseteq FirstActive(s), Counted(s)' \subseteq Counted(s)
    PROVE  Cardinality(FirstActive(s))' + Cardinality(Counted(s))' <= MaxActive + MaxPosts - 1
<1> DEFINE F == FirstActive(s)' C == Counted(s)'
<1>1. /\ IsFiniteSet(F) /\ Cardinality(F) <= Cardinality(FirstActive(s)) /\ Cardinality(F) \in Nat
  BY PlacesFinite, FS_Subset, FS_CardinalityType
<1>2. /\ IsFiniteSet(C) /\ Cardinality(C) <= Cardinality(Counted(s)) /\ Cardinality(C) \in Nat
  BY PlacesFinite, FS_Subset, FS_CardinalityType
<1> QED
  BY <1>1, <1>2, PlacesFinite, BoundsAssumption DEF AdmissionBound

LEMMA AdmissionInit == Init => AdmissionBound
<1> SUFFICES ASSUME Init, NEW s \in Sessions
             PROVE  Cardinality(FirstActive(s)) + Cardinality(Counted(s)) <= MaxActive + MaxPosts - 1
  BY DEF AdmissionBound
<1>1. FirstActive(s) = {} /\ Counted(s) = {}
  BY DEF Init, FirstActive, Active, Counted, InProgress
<1> QED BY <1>1, FS_EmptySet, BoundsAssumption

LEMMA AdmissionStep == TypeInv /\ RunInv /\ AdmissionBound /\ [Next]_vars => AdmissionBound'
<1> SUFFICES ASSUME TypeInv, RunInv, AdmissionBound, [Next]_vars, NEW s \in Sessions
             PROVE  Cardinality(FirstActive(s))' + Cardinality(Counted(s))'
                        <= MaxActive + MaxPosts - 1
  BY DEF AdmissionBound
<1> DEFINE Kept == FirstActive(s)' \subseteq FirstActive(s) /\ Counted(s)' \subseteq Counted(s)
           Bound == Cardinality(FirstActive(s))' + Cardinality(Counted(s))'
                        <= MaxActive + MaxPosts - 1
<1>0. Kept => Bound
  BY BoundKept
<1> USE DEF TypeInv, TypeOK, FirstActive, Active, Counted, InProgress
<1>1. ASSUME NEW e \in Exports, PostCount(e) PROVE Bound
  <2>1. UNCHANGED <<status, ended>>
    BY <1>1 DEF PostCount, rowVars
  <2>2. FirstActive(s)' = FirstActive(s)
    BY <2>1
  <2>3. CASE Counted(s)' \subseteq Counted(s)
    BY <1>0, <2>2, <2>3
  <2>4. CASE ~(Counted(s)' \subseteq Counted(s))
    <3>1. /\ s = SessionOf[e] /\ post' = [post EXCEPT ![e] = "counted"]
          /\ ~(Cardinality(Active(s)) >= MaxActive)
          /\ Cardinality(Counted(s)) < MaxPosts
      BY <1>1, <2>4 DEF PostCount
    <3>2. Counted(s)' = Counted(s) \cup {e}
      BY <3>1
    <3>3. /\ Cardinality(Counted(s) \cup {e}) <= Cardinality(Counted(s)) + 1
          /\ Cardinality(Counted(s) \cup {e}) \in Nat
      <4> HIDE DEF FirstActive, Active, Counted
      <4> QED BY PlacesFinite, AddBound
    <3> HIDE DEF FirstActive, Active, Counted
    <3>4. Cardinality(FirstActive(s)) <= MaxActive - 1
      BY <3>1, PlacesFinite, BoundsAssumption
    <3> QED BY <2>2, <3>1, <3>2, <3>3, <3>4, PlacesFinite, BoundsAssumption
  <2> QED BY <2>3, <2>4
<1>2. ASSUME NEW e \in Exports, post[e] = "counted", InsertRow(e), ended' = ended,
             NEW to \in {"created", "error"}, post' = [post EXCEPT ![e] = to]
      PROVE  Bound
  <2>1. /\ post[e] = "counted" /\ post' = [post EXCEPT ![e] = to] /\ to # "counted"
        /\ status' = [status EXCEPT ![e] = "pending"] /\ ended' = ended
    BY <1>2 DEF InsertRow
  <2>2. CASE s = SessionOf[e]
    <3>1. /\ e \in Counted(s) /\ Counted(s)' = Counted(s) \ {e}
          /\ FirstActive(s)' \subseteq FirstActive(s) \cup {e}
      BY <2>1, <2>2
    <3> HIDE DEF FirstActive, Active, Counted
    <3>2. Cardinality(Counted(s)') = Cardinality(Counted(s)) - 1
      <4>1. IsFiniteSet(Counted(s))
        BY PlacesFinite
      <4>2. Cardinality(Counted(s) \ {e}) = Cardinality(Counted(s)) - 1
        BY <3>1, <4>1, FS_RemoveElement
      <4> QED BY <3>1, <4>2
    <3>3. /\ IsFiniteSet(FirstActive(s) \cup {e})
          /\ Cardinality(FirstActive(s) \cup {e}) <= Cardinality(FirstActive(s)) + 1
          /\ Cardinality(FirstActive(s) \cup {e}) \in Nat
      BY PlacesFinite, AddBound
    <3>4. /\ Cardinality(FirstActive(s)') <= Cardinality(FirstActive(s) \cup {e})
          /\ Cardinality(FirstActive(s)') \in Nat
      BY <3>1, <3>3, FS_Subset, FS_CardinalityType
    <3> QED
      BY <3>2, <3>3, <3>4, PlacesFinite, BoundsAssumption DEF AdmissionBound
  <2>3. CASE s # SessionOf[e]
    <3>1. Kept
      BY <2>1, <2>3
    <3> QED BY <1>0, <3>1
  <2> QED BY <2>2, <2>3
<1>3. ASSUME NEW e \in Exports, PostStep(e) PROVE Bound
  <2>1. CASE PostCreate(e)
    BY <1>2, <2>1 DEF PostCreate
  <2>2. CASE PostEnqueue(e)
    <3>1. Kept
      BY <2>2 DEF PostEnqueue, rowVars
    <3> QED BY <1>0, <3>1
  <2>3. CASE PostFails(e) /\ status' = status
    <3>1. Kept
      BY <2>3 DEF PostFails
    <3> QED BY <1>0, <3>1
  <2>4. CASE PostFails(e) /\ status' # status
    BY <1>2, <2>4 DEF PostFails
  <2> QED BY <1>3, <2>1, <2>2, <2>3, <2>4 DEF PostStep
<1>4. ASSUME NEW e \in Exports, NEW w \in Workers, Take(e, w) PROVE Kept
  BY <1>4 DEF Take, rowVars
<1>5. ASSUME NEW e \in Exports, Recover(e) \/ LoseLock(e) PROVE Kept
  BY <1>5 DEF Recover, LoseLock, Requeue, rowVars
<1>6. ASSUME NEW x \in Execs, Advance(x) PROVE Kept
  <2>1. pc[x] # "off" /\ post' = post
    BY <1>6 DEF Advance, Goto, Load, Begin, TellBegin, RenderEnd, RenderFails, Drain,
       Put, PutFails, Finish, TellFinish, Catch, TellFailed, DbFails, AnswerLost, Settle
  <2>2. x[1] \in Exports /\ status[x[1]] # "none"
    BY <2>1, ActiveExec
  <2>3. \/ UNCHANGED <<status, ended>>
        \/ \E t \in {"processing", "completed", "failed"} : WriteStatus(x[1], t)
    <3>1. \/ UNCHANGED <<status, ended>>
          \/ WriteProcessing(x) \/ WriteCompleted(x) \/ WriteFailed(x)
      BY <1>6 DEF Advance, Load, Begin, TellBegin, RenderEnd, RenderFails, Drain,
         Put, PutFails, Finish, TellFinish, Catch, TellFailed, DbFails, AnswerLost, Settle,
         rowVars
    <3> QED BY <3>1 DEF WriteProcessing, WriteCompleted, WriteFailed
  <2> QED
    BY <2>1, <2>2, <2>3 DEF WriteStatus, WriteProcessing, WriteCompleted, WriteFailed, RunInv,
         Recorded, Statuses, Terminal
<1>7. ASSUME NEW x \in Execs, NEW raw \in RawPercents, Report(x, raw) PROVE Kept
  BY <1>7 DEF Report, rowVars
<1>8. ASSUME NEW x \in Execs, UpdateStep(x) PROVE Kept
  <2>1. ASSUME NEW p \in sent[x], ApplyUpdate(x, p) PROVE Kept
    <3>1. x[1] \in Exports /\ status[x[1]] # "none"
      BY <2>1, ActiveExec
    <3> QED
      BY <2>1, <3>1 DEF ApplyUpdate, WriteStatus, WriteProcessing, WriteCompleted, WriteFailed,
           RunInv, Recorded, Statuses, Terminal
  <2>2. ASSUME NEW p \in sent[x], LoseUpdate(x, p) PROVE Kept
    BY <2>2 DEF LoseUpdate, rowVars
  <2>3. ASSUME NEW p \in written[x], TellUpdate(x, p) PROVE Kept
    BY <2>3 DEF TellUpdate, rowVars
  <2> QED BY <1>8, <2>1, <2>2, <2>3 DEF UpdateStep
<1>9. ASSUME NEW w \in Workers, Crash(w) PROVE Kept
  BY <1>9 DEF Crash, rowVars
<1>10. CASE Quiet \/ UNCHANGED vars
  BY <1>0, <1>10 DEF Quiet, vars, rowVars
<1> QED
  BY <1>0, <1>1, <1>2, <1>3, <1>4, <1>5, <1>6, <1>7, <1>8, <1>9, <1>10 DEF Next

\* The number of exports a session can bring in flight at once is the limit
\* plus the POSTs that can stand between their count and their create, less
\* one: the check and the create are not one transaction.
THEOREM AdmissionBounded == Spec => []AdmissionBound
<1>1. Spec => [](TypeInv /\ RunInv)
  BY TypeInit, TypeStep, RunInit, RunStep, PTL DEF Spec
<1> QED BY <1>1, AdmissionInit, AdmissionStep, PTL DEF Spec

(***************************************************************************)
(* One execution at a time.  When no lock is lost while its process lives  *)
(* (no "stall"), the execution of the attempt last handed out is the only  *)
(* one that runs or has updates on their way, because the stalled-job check *)
(* finds a dead process only after what it had sent has landed.            *)
(***************************************************************************)

NoStall == "stall" \notin Faults

Owns(x) == job[x[1]] = "active" /\ attempt[x[1]] = x[2]
Claimed == \A x \in Execs : Running(x) \/ sent[x] # {} => Owns(x)

\* No two executions of an export own its job.
LEMMA OneOwner ==
    ASSUME NEW x \in Execs, NEW y \in Execs, Owns(x), Owns(y), x[1] = y[1]
    PROVE  x = y
BY ExecParts DEF Owns

LEMMA ClaimStep == NoStall /\ TypeInv /\ RunInv /\ Claimed /\ [Next]_vars => Claimed'
<1> SUFFICES ASSUME NoStall, TypeInv, RunInv, Claimed, [Next]_vars PROVE Claimed'
  OBVIOUS
<1> USE DEF TypeInv, TypeOK, Claimed, Owns, Running
<1>1. ASSUME NEW e \in Exports, PostCount(e) \/ PostStep(e) PROVE Claimed'
  BY <1>1, ExecParts DEF PostCount, PostStep, PostCreate, InsertRow, PostEnqueue, AddJob,
       PostFails, NoneUnused,
     rowVars, queueVars, execVars
<1>2. ASSUME NEW e \in Exports, NEW w \in Workers, Take(e, w) PROVE Claimed'
  <2> DEFINE y == <<e, attempt[e] + 1>>
  <2>1. y \in Execs
    BY <1>2, ExecPair, BoundsAssumption DEF Take, Attempts, WaitingLeft
  <2>2. /\ attempt' = [attempt EXCEPT ![e] = @ + 1] /\ job' = [job EXCEPT ![e] = "active"]
        /\ pc' = [pc EXCEPT ![y] = "load"] /\ sent' = sent /\ job[e] = "waiting"
    BY <1>2 DEF Take
  <2>3. ASSUME NEW x \in Execs, Running(x)' \/ sent'[x] # {} PROVE Owns(x)'
    <3>1. CASE x = y
      BY <2>1, <2>2, <3>1, ExecPair
    <3>2. CASE x # y
      <4>1. Running(x) \/ sent[x] # {}
        BY <2>1, <2>2, <2>3, <3>2
      <4>2. x[1] # e /\ x[1] \in Exports
        BY <2>2, <4>1, ExecParts
      <4> QED BY <2>2, <4>1, <4>2
    <3> QED BY <3>1, <3>2
  <2> QED BY <2>3
<1>3. ASSUME NEW e \in Exports, Recover(e) \/ LoseLock(e) PROVE Claimed'
  <2>1. PICK a \in Attempts : attempt[e] = a /\ pc[<<e, a>>] = "dead" /\ sent[<<e, a>>] = {}
    BY <1>3 DEF Recover, LoseLock, NoStall
  <2>2. /\ \E s \in {"waiting", "gone"} : job' = [job EXCEPT ![e] = s]
        /\ UNCHANGED <<pc, sent, attempt>>
    BY <1>3 DEF Recover, LoseLock, Requeue, execVars
  <2>3. ASSUME NEW x \in Execs, Running(x) \/ sent[x] # {} PROVE x[1] # e
    <3>1. Owns(x) /\ x = <<x[1], x[2]>>
      BY <2>3, ExecParts
    <3> QED BY <2>1, <2>3, <3>1
  <2> QED BY <2>2, <2>3, ExecParts
<1>4. ASSUME NEW x \in Execs, Advance(x) PROVE Claimed'
  <2>1. PICK to \in PcStates : pc' = [pc EXCEPT ![x] = to]
    BY <1>4, AdvanceMoves
  <2>2. Running(x) /\ Owns(x) /\ UNCHANGED <<attempt, sent>>
    BY <1>4, AdvanceMoves
  <2>3. CASE job' = job
    BY <2>1, <2>2, <2>3
  <2>4. CASE Settle(x)
    <3>1. pc'[x] = "done" /\ sent[x] = {} /\ job' = [job EXCEPT ![x[1]] = "gone"]
      BY <2>2, <2>4 DEF Settle, Goto
    <3>2. ASSUME NEW y \in Execs, Running(y)' \/ sent'[y] # {} PROVE Owns(y)'
      <4>1. y # x
        BY <2>2, <3>1, <3>2
      <4>2. Owns(y)
        BY <2>1, <2>2, <3>2, <4>1
      <4>3. y[1] # x[1] /\ y[1] \in Exports
        BY <2>2, <4>1, <4>2, OneOwner, ExecParts
      <4> QED BY <2>2, <3>1, <4>2, <4>3
    <3> QED BY <3>2
  <2> QED BY <1>4, <2>3, <2>4, AdvanceMoves
<1>5. ASSUME NEW x \in Execs, NEW raw \in RawPercents, Report(x, raw) PROVE Claimed'
  BY <1>5 DEF Report, queueVars
<1>6. ASSUME NEW x \in Execs, UpdateStep(x) PROVE Claimed'
  BY <1>6 DEF UpdateStep, ApplyUpdate, LoseUpdate, TellUpdate, queueVars
<1>7. ASSUME NEW w \in Workers, Crash(w) PROVE Claimed'
  BY <1>7 DEF Crash, queueVars
<1>8. CASE Quiet \/ UNCHANGED vars
  BY <1>8 DEF Quiet, vars, queueVars, execVars
<1> QED
  BY <1>1, <1>2, <1>3, <1>4, <1>5, <1>6, <1>7, <1>8 DEF Next

LEMMA ClaimInvariance ==
    ASSUME NoStall
    PROVE  Spec => [](TypeInv /\ RunInv /\ Claimed)
<1>1. Init => Claimed
  BY DEF Init, Claimed, Running
<1>2. TypeInv /\ RunInv /\ Claimed /\ [Next]_vars => Claimed'
  BY ClaimStep
<1> QED
  BY <1>1, <1>2, TypeInit, TypeStep, RunInit, RunStep, PTL DEF Spec

(***************************************************************************)
(* The error message of an earlier attempt is wiped by the first write of  *)
(* the next one, and only the catch block of the running execution sets it. *)
(***************************************************************************)

CleanInv ==
    /\ CompletedIsClean
    /\ \A x \in Execs :
          pc[x] \in {"tellBegin", "render", "drain", "put", "finish", "tellFinish"}
          => ~errorMessage[x[1]]

LEMMA CleanStep == TypeInv /\ RunInv /\ Claimed /\ CleanInv /\ [Next]_vars => CleanInv'
<1> SUFFICES ASSUME TypeInv, RunInv, Claimed, CleanInv, [Next]_vars PROVE CleanInv'
  OBVIOUS
<1> USE DEF TypeInv, TypeOK, CleanInv, CompletedIsClean
<1>1. ASSUME NEW e \in Exports, PostCount(e) \/ PostStep(e) PROVE CleanInv'
  BY <1>1, ExecParts DEF PostCount, PostStep, PostCreate, InsertRow, PostEnqueue, AddJob,
       PostFails, rowVars,
     queueVars, execVars
<1>2. ASSUME NEW e \in Exports, NEW w \in Workers, Take(e, w) PROVE CleanInv'
  BY <1>2 DEF Take, rowVars
<1>3. ASSUME NEW e \in Exports, Recover(e) \/ LoseLock(e) PROVE CleanInv'
  BY <1>3 DEF Recover, LoseLock, Requeue, rowVars, execVars
<1>4. ASSUME NEW x \in Execs, Advance(x) PROVE CleanInv'
  <2>0. \A y \in Execs : Running(y) /\ y[1] = x[1] => y = x
    BY <1>4, AdvanceMoves, OneOwner DEF Claimed
  <2> USE ExecParts DEF Goto, WriteStatus, WriteProcessing, WriteCompleted, WriteFailed, rowVars
  <2>1. CASE \/ Load(x) \/ TellBegin(x) \/ RenderEnd(x) \/ RenderFails(x) \/ Drain(x) \/ Put(x)
             \/ PutFails(x) \/ TellFinish(x) \/ TellFailed(x) \/ DbFails(x) \/ Settle(x)
    BY <2>1 DEF Load, TellBegin, RenderEnd, RenderFails, Drain, Put, PutFails, TellFinish,
       TellFailed, DbFails, AnswerLost, Settle
  <2>2. CASE Begin(x)
    BY <2>2 DEF Begin
  <2>3. CASE Finish(x)
    BY <2>3 DEF Finish
  <2>4. CASE Catch(x)
    BY <2>0, <2>4 DEF Catch, Running
  <2>5. CASE AnswerLost(x)
    BY <2>0, <2>5 DEF AnswerLost, Running
  <2> QED BY <1>4, <2>1, <2>2, <2>3, <2>4, <2>5 DEF Advance
<1>5. ASSUME NEW x \in Execs, NEW raw \in RawPercents, Report(x, raw) PROVE CleanInv'
  BY <1>5 DEF Report, rowVars
<1>6. ASSUME NEW x \in Execs, UpdateStep(x) PROVE CleanInv'
  BY <1>6, ExecParts DEF UpdateStep, ApplyUpdate, LoseUpdate, TellUpdate, WriteStatus,
       WriteProcessing, WriteCompleted, WriteFailed, rowVars
<1>7. ASSUME NEW w \in Workers, Crash(w) PROVE CleanInv'
  BY <1>7 DEF Crash, rowVars
<1>8. CASE Quiet \/ UNCHANGED vars
  BY <1>8 DEF Quiet, vars, rowVars, execVars
<1> QED
  BY <1>1, <1>2, <1>3, <1>4, <1>5, <1>6, <1>7, <1>8 DEF Next

\* However often worker processes crash and whatever else fails, a completed
\* export shows no error of an earlier attempt, as long as BullMQ takes no job
\* from a process that lives (with "stall" an execution that lost its claim can
\* report its failure between the first and the last write of the next one).
THEOREM CompletedClean == "stall" \notin Faults => (Spec => []CompletedIsClean)
<1> SUFFICES ASSUME NoStall PROVE Spec => []CompletedIsClean
  BY DEF NoStall
<1>1. Init => CleanInv
  BY DEF Init, CleanInv, CompletedIsClean
<1>2. Spec => []CleanInv
  BY <1>1, CleanStep, ClaimInvariance, PTL DEF Spec
<1>3. CleanInv => CompletedIsClean
  BY DEF CleanInv
<1> QED BY <1>2, <1>3, PTL

(***************************************************************************)
(* No stuck row.  An execution writes a terminal status after its last      *)
(* progress update, so a row of a job handed out is terminal, or an         *)
(* execution has its final write before it, or the process died under the  *)
(* execution and the stalled-job check is still to requeue the job.         *)
(***************************************************************************)

\* What the theorems below need of the environment.  RenderFails reaches the
\* catch block past updates under way, which then reopen the row; a failed
\* status write leaves the row as it was, or is announced to nobody; and when locks are lost as well, the
\* updates of a process that died can land after another execution is over.
RendersEnd == Faults \cap {"db", "answer", "render"} = {}
OneTrouble == "crash" \notin Faults \/ NoStall

\* The job of e is not dropped for having lost too many processes: BullMQ takes
\* a job back MaxStalls times, then drops it without a word.
Spared(e) == "crash" \notin Faults \/ MaxCrashes <= MaxStalls \/ attempt[e] <= MaxStalls

\* The awaits before the last write of an execution.
BeforeLast == {"load", "begin", "tellBegin", "render", "drain", "put", "finish", "catch"}

Writers == \A x \in Execs : sent[x] # {} => pc[x] \in {"render", "drain", "dead"}
NobodyDead == "crash" \notin Faults => \A x \in Execs : pc[x] # "dead"
CrashesCounted ==
    NoStall =>
        \A e \in Exports :
            /\ job[e] = "waiting" => attempt[e] <= crashes
            /\ job[e] = "active" => attempt[e] <= crashes + 1
            /\ \A a \in Attempts :
                  job[e] = "active" /\ attempt[e] = a /\ pc[<<e, a>>] = "dead" => a <= crashes

Awaited(e) ==
    \E a \in Attempts :
        \/ pc[<<e, a>>] \in BeforeLast
        \/ NoStall /\ job[e] = "active" /\ attempt[e] = a /\ pc[<<e, a>>] = "dead"
Owed ==
    \A e \in Exports : Spared(e) /\ job[e] \in {"active", "gone"}
                      => status[e] \in Terminal \/ Awaited(e)

\* Under a stall two executions may run, but then no process dies.
ClaimedOr == NoStall => Claimed

OwedInv == Writers /\ NobodyDead /\ CrashesCounted /\ ClaimedOr /\ Owed

LEMMA WritersStep == RendersEnd /\ TypeInv /\ RunInv /\ Writers /\ [Next]_vars => Writers'
<1> SUFFICES ASSUME RendersEnd, TypeInv, RunInv, Writers, [Next]_vars PROVE Writers'
  OBVIOUS
<1> USE DEF TypeInv, TypeOK, Writers
<1>1. ASSUME NEW e \in Exports, PostCount(e) \/ PostStep(e) PROVE Writers'
  BY <1>1 DEF PostCount, PostStep, PostCreate, InsertRow, PostEnqueue, AddJob, PostFails, execVars
<1>2. ASSUME NEW e \in Exports, NEW w \in Workers, Take(e, w) PROVE Writers'
  <2> DEFINE y == <<e, attempt[e] + 1>>
  <2>1. y \in Execs /\ y[1] = e /\ y[2] = attempt[e] + 1
    BY <1>2, ExecPair, BoundsAssumption DEF Take, Attempts, WaitingLeft
  <2>2. sent[y] = {}
    BY <2>1, BoundsAssumption DEF RunInv, Unstarted
  <2> QED BY <1>2, <2>1, <2>2 DEF Take
<1>3. ASSUME NEW e \in Exports, Recover(e) \/ LoseLock(e) PROVE Writers'
  BY <1>3 DEF Recover, LoseLock, Requeue, execVars
<1>4. ASSUME NEW x \in Execs, Advance(x) PROVE Writers'
  BY <1>4 DEF Advance, Goto, Load, Begin, TellBegin, RenderEnd, RenderFails, Drain, Put, PutFails,
     Finish, TellFinish, Catch, TellFailed, DbFails, AnswerLost, Settle, RendersEnd
<1>5. ASSUME NEW x \in Execs, NEW raw \in RawPercents, Report(x, raw) PROVE Writers'
  BY <1>5 DEF Report
<1>6. ASSUME NEW x \in Execs, UpdateStep(x) PROVE Writers'
  BY <1>6 DEF UpdateStep, ApplyUpdate, LoseUpdate, TellUpdate
<1>7. ASSUME NEW w \in Workers, Crash(w) PROVE Writers'
  BY <1>7 DEF Crash
<1>8. CASE Quiet \/ UNCHANGED vars
  BY <1>8 DEF Quiet, vars, execVars
<1> QED
  BY <1>1, <1>2, <1>3, <1>4, <1>5, <1>6, <1>7, <1>8 DEF Next

\* Only a crash kills, and each crash of a worker can cost a job one attempt.
LEMMA CrashStep ==
    TypeInv /\ RunInv /\ (NoStall => Claimed) /\ NobodyDead /\ CrashesCounted /\ [Next]_vars
    => (NobodyDead /\ CrashesCounted)'
<1> SUFFICES ASSUME TypeInv, RunInv, NoStall => Claimed, NobodyDead, CrashesCounted, [Next]_vars
             PROVE  (NobodyDead /\ CrashesCounted)'
  OBVIOUS
<1> USE DEF TypeInv, TypeOK, NobodyDead, CrashesCounted
<1>0. crashes \in Nat /\ attempt \in [Exports -> Nat]
  BY BoundsAssumption
<1>1. ASSUME NEW e \in Exports, PostCount(e) \/ PostStep(e) PROVE (NobodyDead /\ CrashesCounted)'
  BY <1>0, <1>1 DEF PostCount, PostStep, PostCreate, InsertRow, PostEnqueue, AddJob, PostFails,
       NoneUnused, rowVars, queueVars,
     execVars
<1>2. ASSUME NEW e \in Exports, NEW w \in Workers, Take(e, w) PROVE (NobodyDead /\ CrashesCounted)'
  <2> DEFINE y == <<e, attempt[e] + 1>>
  <2>1. y \in Execs /\ y[1] = e /\ y[2] = attempt[e] + 1
    BY <1>2, ExecPair, BoundsAssumption DEF Take, Attempts, WaitingLeft
  <2>2. /\ attempt' = [attempt EXCEPT ![e] = @ + 1] /\ job' = [job EXCEPT ![e] = "active"]
        /\ pc' = [pc EXCEPT ![y] = "load"] /\ crashes' = crashes /\ job[e] = "waiting"
    BY <1>2 DEF Take
  <2>3. NobodyDead'
    BY <2>1, <2>2
  <2>4. ASSUME NoStall, NEW f \in Exports
        PROVE  /\ job'[f] = "waiting" => attempt'[f] <= crashes'
               /\ job'[f] = "active" => attempt'[f] <= crashes' + 1
               /\ \A a \in Attempts : job'[f] = "active" /\ attempt'[f] = a /\ pc'[<<f, a>>] = "dead"
                                      => a <= crashes'
    <3>1. CASE f = e
      <4>1. /\ job'[e] = "active" /\ attempt'[e] = attempt[e] + 1 /\ attempt[e] <= crashes
            /\ attempt[e] \in Nat /\ pc'[y] = "load"
        BY <1>0, <2>1, <2>2, <2>4
      <4>2. ASSUME NEW a \in Attempts, attempt'[e] = a PROVE pc'[<<e, a>>] # "dead"
        BY <4>1, <4>2
      <4> HIDE DEF y
      <4> QED BY <1>0, <2>2, <3>1, <4>1, <4>2
    <3>2. CASE f # e
      <4>1. \A a \in Attempts : <<f, a>> \in Execs /\ <<f, a>> # y
        BY <2>1, <3>2, ExecPair
      <4> QED BY <1>0, <2>1, <2>2, <2>4, <3>2, <4>1
    <3> QED BY <3>1, <3>2
  <2> QED BY <2>3, <2>4
<1>3. ASSUME NEW e \in Exports, Recover(e) \/ LoseLock(e) PROVE (NobodyDead /\ CrashesCounted)'
  <2>1. /\ job[e] = "active" /\ UNCHANGED <<attempt, pc, crashes>>
        /\ \E s \in {"waiting", "gone"} : job' = [job EXCEPT ![e] = s]
    BY <1>3 DEF Recover, LoseLock, Requeue, execVars
  <2>2. NobodyDead'
    BY <2>1
  <2>3. NoStall => attempt[e] <= crashes
    BY <1>0, <1>3, <2>1 DEF Recover, LoseLock, NoStall
  <2> QED BY <1>0, <2>1, <2>2, <2>3
<1>4. ASSUME NEW x \in Execs, Advance(x) PROVE (NobodyDead /\ CrashesCounted)'
  <2>1. PICK to \in PcStates \ {"off", "dead"} : pc' = [pc EXCEPT ![x] = to]
    BY <1>4, AdvanceMoves
  <2>2. UNCHANGED <<attempt, crashes>>
    BY <1>4, AdvanceMoves
  <2>3. \A f \in Exports : job'[f] # job[f] => job'[f] = "gone"
    <3>1. CASE job' = job BY <3>1
    <3>2. CASE Settle(x) BY <3>2, ExecParts DEF Settle
    <3> QED BY <1>4, <3>1, <3>2, AdvanceMoves
  <2>4. \A y \in Execs : pc'[y] = "dead" => pc[y] = "dead"
    BY <2>1
  <2>5. NobodyDead'
    BY <2>4
  <2>6. CrashesCounted'
    BY <1>0, <2>2, <2>3, <2>4, ExecPair
  <2> QED BY <2>5, <2>6
<1>5. ASSUME NEW x \in Execs, NEW raw \in RawPercents, Report(x, raw)
      PROVE (NobodyDead /\ CrashesCounted)'
  BY <1>5 DEF Report, queueVars
<1>6. ASSUME NEW x \in Execs, UpdateStep(x) PROVE (NobodyDead /\ CrashesCounted)'
  BY <1>6 DEF UpdateStep, ApplyUpdate, LoseUpdate, TellUpdate, queueVars
<1>7. ASSUME NEW w \in Workers, Crash(w) PROVE (NobodyDead /\ CrashesCounted)'
  <2>1. /\ "crash" \in Faults /\ UNCHANGED <<job, attempt>> /\ crashes' = crashes + 1
    BY <1>7 DEF Crash, queueVars
  <2>2. NobodyDead'
    BY <2>1
  <2>3. CrashesCounted'
    BY <1>0, <2>1
  <2> QED BY <2>2, <2>3
<1>8. CASE Quiet \/ UNCHANGED vars
  BY <1>8 DEF Quiet, vars, queueVars, execVars
<1> QED
  BY <1>1, <1>2, <1>3, <1>4, <1>5, <1>6, <1>7, <1>8 DEF Next

\* A job is never taken to have been handed out less often than it was.
LEMMA AttemptGrows ==
    ASSUME TypeInv, [Next]_vars, NEW e \in Exports
    PROVE  attempt'[e] >= attempt[e]
<1>0. attempt \in [Exports -> Nat]
  BY BoundsAssumption DEF TypeInv, TypeOK
<1>1. CASE \E f \in Exports, w \in Workers : Take(f, w)
  BY <1>0, <1>1 DEF Take
<1>2. CASE attempt' = attempt
  BY <1>0, <1>2
<1>3. CASE \E x \in Execs : Advance(x)
  BY <1>2, <1>3, AdvanceMoves
<1> QED
  BY <1>1, <1>2, <1>3 DEF Next, vars, PostCount, PostStep, PostCreate, InsertRow, PostEnqueue,
       AddJob, PostFails,
     Recover, LoseLock, Requeue, Report, UpdateStep, ApplyUpdate, LoseUpdate, TellUpdate, Crash,
     Quiet, queueVars

LEMMA OwedStep ==
    RendersEnd /\ OneTrouble /\ TypeInv /\ RunInv /\ OwedInv /\ [Next]_vars => Owed'
<1> SUFFICES ASSUME RendersEnd, OneTrouble, TypeInv, RunInv, OwedInv, [Next]_vars,
                    NEW e \in Exports, Spared(e)', job'[e] \in {"active", "gone"}
             PROVE  status'[e] \in Terminal \/ Awaited(e)'
  BY DEF Owed
<1> USE DEF TypeInv, TypeOK, OwedInv
<1>a. Spared(e)
  <2>1. attempt[e] \in Nat /\ attempt'[e] >= attempt[e]
    BY AttemptGrows, BoundsAssumption
  <2>2. attempt'[e] \in Nat
    BY TypeStep, BoundsAssumption
  <2> QED BY <2>1, <2>2, BoundsAssumption DEF Spared
<1>0. job[e] \in {"active", "gone"} => status[e] \in Terminal \/ Awaited(e)
  BY <1>a DEF Owed
<1>1. ASSUME NEW f \in Exports, PostCount(f) \/ PostStep(f)
      PROVE  status'[e] \in Terminal \/ Awaited(e)'
  <2>1. /\ job[e] = job'[e] /\ UNCHANGED <<attempt, pc>>
        /\ status'[e] = status[e] \/ (InsertRow(f) /\ e = f)
    BY <1>1 DEF PostCount, PostStep, PostCreate, InsertRow, PostEnqueue, AddJob, PostFails,
         rowVars, queueVars, execVars
  <2>2. ~(InsertRow(f) /\ e = f) \/ status'[e] = status[e]
    BY <1>1, <2>1 DEF PostCount, PostStep, PostCreate, PostEnqueue, PostFails, NoneUnused, rowVars
  <2> QED BY <1>0, <2>1, <2>2 DEF Awaited
<1>2. ASSUME NEW f \in Exports, NEW w \in Workers, Take(f, w)
      PROVE  status'[e] \in Terminal \/ Awaited(e)'
  <2> DEFINE a == attempt[f] + 1
             y == <<f, a>>
  <2>1. a \in Attempts /\ y \in Execs
    BY <1>2, ExecPair, BoundsAssumption DEF Take, Attempts, WaitingLeft
  <2>2. /\ attempt' = [attempt EXCEPT ![f] = @ + 1] /\ job' = [job EXCEPT ![f] = "active"]
        /\ pc' = [pc EXCEPT ![y] = "load"] /\ status' = status
    BY <1>2 DEF Take, rowVars
  <2>3. CASE e = f
    BY <2>1, <2>2, <2>3 DEF Awaited, BeforeLast
  <2>4. CASE e # f
    <3>1. \A b \in Attempts : <<e, b>> \in Execs /\ <<e, b>> # y
      BY <2>1, <2>4, ExecPair
    <3> QED BY <1>0, <2>1, <2>2, <2>4, <3>1 DEF Awaited
  <2> QED BY <2>3, <2>4
<1>3. ASSUME NEW f \in Exports, Recover(f) \/ LoseLock(f)
      PROVE  status'[e] \in Terminal \/ Awaited(e)'
  <2>1. /\ job[f] = "active" /\ UNCHANGED <<attempt, pc, status>>
        /\ job' = [job EXCEPT ![f] = IF attempt[f] <= MaxStalls THEN "waiting" ELSE "gone"]
    BY <1>3 DEF Recover, LoseLock, Requeue, rowVars, execVars
  <2>2. CASE e # f
    BY <1>0, <2>1, <2>2 DEF Awaited
  <2>3. CASE e = f
    <3>1. job'[e] = "gone" /\ ~(attempt[e] <= MaxStalls) /\ job[e] = "active"
      BY <2>1, <2>3
    <3>2. "crash" \notin Faults
      <4>1. ASSUME "crash" \in Faults PROVE FALSE
        <5>1. NoStall /\ attempt[e] <= crashes
          BY <1>3, <2>3, <3>1, <4>1 DEF Recover, LoseLock, OneTrouble, NoStall, CrashesCounted
        <5>2. MaxCrashes <= MaxStalls
          BY <1>a, <3>1, <4>1 DEF Spared
        <5> QED BY <3>1, <5>1, <5>2, BoundsAssumption
      <4> QED BY <4>1
    <3>3. \A a \in Attempts : pc[<<e, a>>] # "dead"
      BY <3>2, ExecPair DEF NobodyDead
    <3> QED BY <1>0, <2>1, <3>1, <3>3 DEF Awaited
  <2> QED BY <2>2, <2>3
<1>4. ASSUME NEW x \in Execs, Advance(x) PROVE status'[e] \in Terminal \/ Awaited(e)'
  <2>1. PICK to \in PcStates : pc' = [pc EXCEPT ![x] = to]
    BY <1>4, AdvanceMoves
  <2>2. UNCHANGED attempt /\ Running(x) /\ (Settle(x) \/ job' = job)
    BY <1>4, AdvanceMoves
  <2>3. x[1] \in Exports /\ x[2] \in Attempts /\ x = <<x[1], x[2]>>
    BY ExecParts
  <2>4. CASE x[1] # e
    <3>1. job'[e] = job[e] /\ status'[e] = status[e]
      BY <1>4, <2>4, ExecParts DEF Advance, WriteStatus, WriteProcessing, WriteCompleted,
           WriteFailed, Load, Begin, TellBegin, RenderEnd,
         RenderFails, Drain, Put, PutFails, Finish, TellFinish, Catch, TellFailed, DbFails,
         AnswerLost, Settle,
         rowVars, queueVars
    <3>2. \A a \in Attempts : <<e, a>> \in Execs /\ <<e, a>> # x
      BY <2>4, ExecPair
    <3> QED BY <1>0, <2>1, <2>2, <3>1, <3>2 DEF Awaited
  <2>5. ASSUME x[1] = e, UNCHANGED status, pc[x] \notin BeforeLast,
               job[e] \in {"active", "gone"}
        PROVE  status'[e] \in Terminal \/ Awaited(e)'
    <3>1. ASSUME NEW a \in Attempts, pc[<<e, a>>] \in BeforeLast PROVE Awaited(e)'
      BY <2>1, <2>5, <3>1, ExecPair DEF Awaited
    <3>2. ASSUME NEW a \in Attempts, NoStall, attempt[e] = a, pc[<<e, a>>] = "dead" PROVE FALSE
      BY <2>2, <2>3, <2>5, <3>2 DEF Claimed, Owns, ClaimedOr, Running
    <3> QED BY <1>0, <2>5, <3>1, <3>2 DEF Awaited
  <2>6. ASSUME x[1] = e, pc'[x] \in BeforeLast PROVE Awaited(e)'
    BY <2>3, <2>6 DEF Awaited
  <2>7. job[e] \in {"active", "gone"} \/ x[1] # e
    BY <2>2, <2>3 DEF Settle
  <2> USE DEF Goto
  <2>8. CASE x[1] = e /\ (Settle(x) \/ TellFinish(x) \/ TellFailed(x))
    BY <2>5, <2>7, <2>8 DEF Settle, TellFinish, TellFailed, rowVars, BeforeLast
  <2>9. CASE x[1] = e /\ (Finish(x) \/ Catch(x))
    BY <2>9, <2>3 DEF Finish, Catch, WriteStatus, WriteProcessing, WriteCompleted, WriteFailed,
         Terminal
  <2>10. CASE x[1] = e /\ (\/ Load(x) \/ Begin(x) \/ TellBegin(x) \/ RenderEnd(x) \/ Drain(x)
                           \/ Put(x) \/ PutFails(x))
    BY <2>6, <2>10 DEF Load, Begin, TellBegin, RenderEnd, Drain, Put, PutFails, BeforeLast
  <2>11. ~RenderFails(x) /\ ~DbFails(x) /\ ~AnswerLost(x)
    BY DEF RenderFails, DbFails, AnswerLost, RendersEnd
  <2> QED BY <1>4, <2>4, <2>8, <2>9, <2>10, <2>11 DEF Advance
<1>5. ASSUME NEW x \in Execs, NEW raw \in RawPercents, Report(x, raw)
      PROVE  status'[e] \in Terminal \/ Awaited(e)'
  BY <1>0, <1>5 DEF Report, Awaited, rowVars, queueVars
<1>6. ASSUME NEW x \in Execs, UpdateStep(x) PROVE status'[e] \in Terminal \/ Awaited(e)'
  <2>1. UNCHANGED <<job, attempt, pc>>
    BY <1>6 DEF UpdateStep, ApplyUpdate, LoseUpdate, TellUpdate, queueVars
  <2>2. Awaited(e)' = Awaited(e)
    BY <2>1 DEF Awaited
  <2>3. CASE status'[e] = status[e]
    BY <1>0, <2>1, <2>2, <2>3
  <2>4. CASE status'[e] # status[e]
    <3>1. sent[x] # {} /\ x[1] = e
      BY <1>6, <2>4, ExecParts
         DEF UpdateStep, ApplyUpdate, LoseUpdate, TellUpdate, WriteStatus, WriteProcessing,
         WriteCompleted, WriteFailed, rowVars
    <3>2. x = <<e, x[2]>> /\ x[2] \in Attempts
      BY <3>1, ExecParts
    <3>3. CASE pc[x] = "dead"
      <4>1. NoStall
        BY <3>3 DEF NobodyDead, OneTrouble
      <4>2. job[e] = "active" /\ attempt[e] = x[2]
        BY <3>1, <4>1 DEF ClaimedOr, Claimed, Owns
      <4> QED BY <2>2, <3>2, <3>3, <4>1, <4>2 DEF Awaited
    <3>4. CASE pc[x] \in {"render", "drain"}
      BY <2>2, <3>2, <3>4 DEF Awaited, BeforeLast
    <3> QED BY <3>1, <3>3, <3>4 DEF Writers
  <2> QED BY <2>3, <2>4
<1>7. ASSUME NEW w \in Workers, Crash(w) PROVE status'[e] \in Terminal \/ Awaited(e)'
  <2>1. /\ NoStall /\ UNCHANGED <<job, attempt, status>>
        /\ pc' = [x \in Execs |-> IF host[x] = w /\ Running(x) THEN "dead" ELSE pc[x]]
    BY <1>7 DEF Crash, OneTrouble, rowVars, queueVars
  <2>2. ASSUME NEW a \in Attempts, pc[<<e, a>>] \in BeforeLast PROVE Awaited(e)'
    <3>1. <<e, a>> \in Execs /\ Running(<<e, a>>)
      BY <2>2, ExecPair DEF Running, BeforeLast
    <3>2. job[e] = "active" /\ attempt[e] = a
      BY <2>1, <3>1, ExecPair DEF ClaimedOr, Claimed, Owns
    <3> QED BY <2>1, <2>2, <3>1, <3>2 DEF Awaited
  <2>3. ASSUME NEW a \in Attempts, pc[<<e, a>>] = "dead", job[e] = "active", attempt[e] = a
        PROVE  Awaited(e)'
    <3>1. <<e, a>> \in Execs /\ ~Running(<<e, a>>)
      BY <2>3, ExecPair DEF Running
    <3> QED BY <2>1, <2>3, <3>1 DEF Awaited
  <2> QED BY <1>0, <2>1, <2>2, <2>3 DEF Awaited
<1>8. CASE Quiet \/ UNCHANGED vars
  BY <1>0, <1>8 DEF Quiet, vars, rowVars, queueVars, execVars, Awaited
<1> QED
  BY <1>1, <1>2, <1>3, <1>4, <1>5, <1>6, <1>7, <1>8 DEF Next

LEMMA OwedInvariance ==
    ASSUME RendersEnd, OneTrouble
    PROVE  Spec => [](TypeInv /\ RunInv /\ OwedInv)
<1>1. Init => OwedInv
  BY BoundsAssumption, ExecPair
     DEF Init, OwedInv, Writers, NobodyDead, CrashesCounted, ClaimedOr, Claimed, Owed, Running
<1>2. TypeInv /\ RunInv /\ OwedInv /\ [Next]_vars => OwedInv'
  BY WritersStep, CrashStep, OwedStep, ClaimStep DEF OwedInv, ClaimedOr
<1> QED
  BY <1>1, <1>2, TypeInit, TypeStep, RunInit, RunStep, PTL DEF Spec

\* A job that was handed out no more than MaxStalls times and is over has left
\* its row terminal: no crash, however many there are, and no failure of the
\* storage or the channel leaves the export holding a place of its session, as
\* long as BullMQ has a hand-out left for it.
THEOREM StuckOnlyWhenDropped ==
    ASSUME RendersEnd, OneTrouble
    PROVE  Spec => [](\A e \in Exports :
                          /\ job[e] = "gone" /\ attempt[e] <= MaxStalls
                          /\ \A a \in Attempts : ~Running(<<e, a>>)
                          => status[e] \in Terminal)
<1> DEFINE Inv == \A e \in Exports :
                      /\ job[e] = "gone" /\ attempt[e] <= MaxStalls
                      /\ \A a \in Attempts : ~Running(<<e, a>>)
                      => status[e] \in Terminal
<1>1. OwedInv => Inv
  BY DEF OwedInv, Owed, Spared, Awaited, Running, BeforeLast
<1> QED BY <1>1, OwedInvariance, PTL

\* NoStuckRow itself, for every job: when no process dies, also if locks are
\* lost, or when BullMQ forgives every crash there is (MaxCrashes is then a
\* bound on the crashes of the run).
THEOREM NobodyStuck ==
    ASSUME RendersEnd, OneTrouble, "crash" \notin Faults \/ MaxCrashes <= MaxStalls
    PROVE  Spec => []NoStuckRow
<1>1. OwedInv => NoStuckRow
  BY DEF OwedInv, Owed, Spared, Awaited, NoStuckRow, Running, BeforeLast
<1> QED BY <1>1, OwedInvariance, PTL

(***************************************************************************)
(* The refinement of ExportPromise.  While one execution at a time runs,   *)
(* the row follows it: processing from its first write to its last, and     *)
(* terminal after that until the job is closed.                            *)
(***************************************************************************)

PostRow ==
    \A e \in Exports :
        /\ post[e] \in {"idle", "counted"} => status[e] = "none"
        /\ post[e] = "created" => status[e] = "pending"
Stage ==
    \A x \in Execs :
        /\ pc[x] \in {"tellBegin", "render", "drain", "put", "finish", "catch"}
           => status[x[1]] = "processing"
        /\ pc[x] \in {"tellFinish", "tellFailed", "settle"} => status[x[1]] \in Terminal

\* The state of the promise, as the refinement mapping gives it.
Open == {e \in Exports : job[e] \in {"waiting", "active"}}

LEMMA PostRowStep == TypeInv /\ RunInv /\ PostRow /\ [Next]_vars => PostRow'
<1> SUFFICES ASSUME TypeInv, RunInv, PostRow, [Next]_vars PROVE PostRow'
  OBVIOUS
<1> USE DEF TypeInv, TypeOK, PostRow
<1>1. ASSUME NEW e \in Exports, PostCount(e) \/ PostStep(e) PROVE PostRow'
  BY <1>1 DEF PostCount, PostStep, PostCreate, InsertRow, PostEnqueue, AddJob, PostFails, rowVars
<1>2. ASSUME NEW e \in Exports, NEW w \in Workers, Take(e, w) PROVE PostRow'
  BY <1>2 DEF Take, rowVars
<1>3. ASSUME NEW e \in Exports, Recover(e) \/ LoseLock(e) PROVE PostRow'
  BY <1>3 DEF Recover, LoseLock, Requeue, rowVars
<1>4. ASSUME NEW x \in Execs, Advance(x) PROVE PostRow'
  <2>1. post[x[1]] \in {"accepted", "error"} /\ x[1] \in Exports /\ post' = post
    BY <1>4, AdvanceMoves, ActiveExec DEF Running
  <2> QED
    BY <1>4, <2>1 DEF Advance, WriteStatus, WriteProcessing, WriteCompleted, WriteFailed, Load,
         Begin, TellBegin, RenderEnd, RenderFails, Drain,
       Put, PutFails, Finish, TellFinish, Catch, TellFailed, DbFails, AnswerLost, Settle, rowVars
<1>5. ASSUME NEW x \in Execs, NEW raw \in RawPercents, Report(x, raw) PROVE PostRow'
  BY <1>5 DEF Report, rowVars
<1>6. ASSUME NEW x \in Execs, UpdateStep(x) PROVE PostRow'
  <2>1. sent[x] # {} => post[x[1]] \in {"accepted", "error"} /\ x[1] \in Exports
    BY ActiveExec
  <2> QED
    BY <1>6, <2>1 DEF UpdateStep, ApplyUpdate, LoseUpdate, TellUpdate, WriteStatus,
         WriteProcessing, WriteCompleted, WriteFailed, rowVars
<1>7. ASSUME NEW w \in Workers, Crash(w) PROVE PostRow'
  BY <1>7 DEF Crash, rowVars
<1>8. CASE Quiet \/ UNCHANGED vars
  BY <1>8 DEF Quiet, vars, rowVars
<1> QED
  BY <1>1, <1>2, <1>3, <1>4, <1>5, <1>6, <1>7, <1>8 DEF Next

LEMMA StageStep ==
    RendersEnd /\ TypeInv /\ RunInv /\ Claimed /\ Writers /\ Stage /\ [Next]_vars => Stage'
<1> SUFFICES ASSUME RendersEnd, TypeInv, RunInv, Claimed, Writers, Stage, [Next]_vars
             PROVE  Stage'
  OBVIOUS
<1> USE DEF TypeInv, TypeOK, Stage
<1>1. ASSUME NEW e \in Exports, PostCount(e) \/ PostStep(e) PROVE Stage'
  <2>1. pc' = pc /\ (status' = status \/ (InsertRow(e) /\ post[e] = "counted"))
    BY <1>1 DEF PostCount, PostStep, PostCreate, InsertRow, PostEnqueue, AddJob, PostFails,
         rowVars, execVars
  <2>2. CASE InsertRow(e) /\ post[e] = "counted"
    <3>1. post[e] = "counted" /\ status' = [status EXCEPT ![e] = "pending"]
      BY <2>2 DEF InsertRow
    <3>2. \A x \in Execs : pc[x] # "off" => x[1] \in Exports /\ x[1] # e
      BY <3>1, ActiveExec
    <3> QED BY <2>1, <3>1, <3>2
  <2> QED BY <2>1, <2>2
<1>2. ASSUME NEW e \in Exports, NEW w \in Workers, Take(e, w) PROVE Stage'
  BY <1>2 DEF Take, rowVars
<1>3. ASSUME NEW e \in Exports, Recover(e) \/ LoseLock(e) PROVE Stage'
  BY <1>3 DEF Recover, LoseLock, Requeue, rowVars, execVars
<1>4. ASSUME NEW x \in Execs, Advance(x) PROVE Stage'
  <2>1. \A y \in Execs : Running(y) /\ y[1] = x[1] => y = x
    BY <1>4, AdvanceMoves, OneOwner DEF Claimed
  <2> USE ExecParts DEF Goto, WriteStatus, WriteProcessing, WriteCompleted, WriteFailed, rowVars
  <2>2. CASE \/ Load(x) \/ TellBegin(x) \/ RenderEnd(x) \/ Drain(x) \/ Put(x) \/ PutFails(x)
             \/ TellFinish(x) \/ TellFailed(x) \/ Settle(x)
    BY <2>2 DEF Load, TellBegin, RenderEnd, Drain, Put, PutFails, TellFinish, TellFailed, Settle
  <2>3. CASE Begin(x)
    BY <2>1, <2>3 DEF Begin, Running
  <2>4. CASE Finish(x) \/ Catch(x)
    BY <2>1, <2>4 DEF Finish, Catch, Running, Terminal
  <2>5. ~RenderFails(x) /\ ~DbFails(x) /\ ~AnswerLost(x)
    BY DEF RenderFails, DbFails, AnswerLost, RendersEnd
  <2> QED BY <1>4, <2>2, <2>3, <2>4, <2>5 DEF Advance
<1>5. ASSUME NEW x \in Execs, NEW raw \in RawPercents, Report(x, raw) PROVE Stage'
  BY <1>5 DEF Report, rowVars
<1>6. ASSUME NEW x \in Execs, UpdateStep(x) PROVE Stage'
  <2>1. CASE UNCHANGED status
    BY <1>6, <2>1 DEF UpdateStep, ApplyUpdate, LoseUpdate, TellUpdate
  <2>2. CASE ~UNCHANGED status
    <3>1. /\ sent[x] # {} /\ pc' = pc /\ x[1] \in Exports
          /\ status' = [status EXCEPT ![x[1]] = "processing"]
      BY <1>6, <2>2, ExecParts
         DEF UpdateStep, ApplyUpdate, LoseUpdate, TellUpdate, WriteStatus, WriteProcessing,
         WriteCompleted, WriteFailed, rowVars
    <3>2. \A y \in Execs : Running(y) /\ y[1] = x[1] => y = x
      BY <3>1, OneOwner DEF Claimed
    <3>3. pc[x] \in {"render", "drain", "dead"}
      BY <3>1 DEF Writers
    <3> QED BY <3>1, <3>2, <3>3, ExecParts DEF Running
  <2> QED BY <2>1, <2>2
<1>7. ASSUME NEW w \in Workers, Crash(w) PROVE Stage'
  BY <1>7 DEF Crash, rowVars
<1>8. CASE Quiet \/ UNCHANGED vars
  BY <1>8 DEF Quiet, vars, rowVars, execVars
<1> QED
  BY <1>1, <1>2, <1>3, <1>4, <1>5, <1>6, <1>7, <1>8 DEF Next

PromiseInv == TypeInv /\ RunInv /\ StoredInv /\ OwedInv /\ PostRow /\ Stage

LEMMA PromiseInvariance ==
    ASSUME RendersEnd, NoStall
    PROVE  Spec => []PromiseInv
<1>0. OneTrouble
  BY DEF OneTrouble
<1>1. Init => PostRow /\ Stage
  BY DEF Init, PostRow, Stage
<1>2. PromiseInv /\ [Next]_vars => (PostRow /\ Stage)'
  BY PostRowStep, StageStep DEF PromiseInv, OwedInv, ClaimedOr
<1>3. Spec => [](PostRow /\ Stage)
  BY <1>0, <1>1, <1>2, OwedInvariance, TypeInit, TypeStep, StoredInit, StoredStep, PTL
     DEF Spec, PromiseInv
<1> QED
  BY <1>0, <1>3, OwedInvariance, TypeInit, TypeStep, StoredInit, StoredStep, PTL DEF Spec,
       PromiseInv

\* Every step of the pipeline is a step of the promise or leaves it alone.
LEMMA PromiseStep ==
    ASSUME RendersEnd, NoStall, "crash" \notin Faults \/ MaxCrashes <= MaxStalls
    PROVE  PromiseInv /\ [Next]_vars => [Promise!Next]_(Promise!vars)
<1> SUFFICES ASSUME PromiseInv, [Next]_vars
             PROVE  Promise!Next \/ UNCHANGED <<status, objects, Open>>
  BY DEF Promise!vars, Open
<1> DEFINE Same == UNCHANGED <<status, objects, Open>>
<1> USE DEF PromiseInv, TypeInv, TypeOK
<1>1. ASSUME NEW e \in Exports, PostCount(e) \/ PostStep(e) PROVE Promise!Next \/ Same
  <2>1. CASE PostCount(e)
    BY <2>1 DEF PostCount, rowVars, queueVars, Open
  <2>2. ASSUME post[e] = "counted", InsertRow(e), UNCHANGED <<objects, job>> PROVE Promise!Next
    <3>1. Promise!Request(e)
      BY <2>2 DEF InsertRow, PostRow, Promise!Request
    <3> QED BY <3>1 DEF Promise!Next
  <2>3. ASSUME post[e] = "created", AddJob(e), UNCHANGED <<status, objects>> PROVE Promise!Next
    <3>1. Promise!Submit(e)
      BY <2>3 DEF AddJob, PostRow, NoneUnused, Promise!Submit
    <3> QED BY <3>1 DEF Promise!Next
  <2>4. CASE PostStep(e)
    BY <2>2, <2>3, <2>4 DEF PostStep, PostCreate, PostEnqueue, PostFails, rowVars, queueVars, Open
  <2> QED BY <1>1, <2>1, <2>4
<1>2. ASSUME NEW e \in Exports, NEW w \in Workers, Take(e, w) PROVE Same
  BY <1>2 DEF Take, rowVars, Open
<1>3. ASSUME NEW e \in Exports, Recover(e) \/ LoseLock(e) PROVE Same
  <2>1. Recover(e) /\ attempt[e] <= crashes
    BY <1>3 DEF Recover, LoseLock, NoStall, OwedInv, CrashesCounted, Requeue
  <2>2. attempt[e] <= MaxStalls
    <3>1. "crash" \in Faults
      BY <2>1 DEF Recover, OwedInv, NobodyDead, Execs
    <3> QED BY <2>1, <3>1, BoundsAssumption
  <2> QED BY <2>1, <2>2 DEF Recover, Requeue, rowVars, Open
<1>4. ASSUME NEW x \in Execs, Advance(x) PROVE Promise!Next \/ Same
  <2>0. x[1] \in Exports /\ job[x[1]] = "active" /\ attempt[x[1]] = x[2]
    BY <1>4, AdvanceMoves, ExecParts DEF OwedInv, ClaimedOr, Claimed, Owns
  <2> USE <2>0 DEF Goto, WriteStatus, WriteProcessing, WriteCompleted, WriteFailed
  <2>1. CASE \/ Load(x) \/ TellBegin(x) \/ RenderEnd(x) \/ RenderFails(x) \/ Drain(x)
             \/ TellFinish(x) \/ TellFailed(x)
    BY <2>1 DEF Load, TellBegin, RenderEnd, RenderFails, Drain, TellFinish, TellFailed,
       rowVars, queueVars, Open
  <2>2. CASE Begin(x)
    <3>1. Promise!Work(x[1])
      BY <2>2 DEF Begin, queueVars, Promise!Work
    <3> QED BY <3>1 DEF Promise!Next
  <2>3. CASE Put(x) \/ PutFails(x)
    <3>1. Promise!Deliver(x[1]) \/ Same
      BY <2>3 DEF Put, PutFails, rowVars, queueVars, Open, Promise!Deliver
    <3> QED BY <3>1 DEF Promise!Next
  <2>4. CASE Finish(x)
    <3>1. Promise!Complete(x[1])
      BY <2>4 DEF Finish, queueVars, StoredInv, Stage, Promise!Complete
    <3> QED BY <3>1 DEF Promise!Next
  <2>5. CASE Catch(x)
    <3>1. Promise!Fail(x[1])
      BY <2>5 DEF Catch, queueVars, Stage, Promise!Fail
    <3> QED BY <3>1 DEF Promise!Next
  <2>6. CASE Settle(x)
    <3>1. Promise!Close(x[1])
      BY <2>6 DEF Settle, rowVars, Stage, Terminal, Promise!Close
    <3> QED BY <3>1 DEF Promise!Next
  <2>7. ~DbFails(x) /\ ~AnswerLost(x)
    BY DEF DbFails, AnswerLost, RendersEnd
  <2> QED BY <1>4, <2>1, <2>2, <2>3, <2>4, <2>5, <2>6, <2>7 DEF Advance
<1>5. ASSUME NEW x \in Execs, NEW raw \in RawPercents, Report(x, raw) PROVE Same
  BY <1>5 DEF Report, rowVars, queueVars, Open
<1>6. ASSUME NEW x \in Execs, UpdateStep(x) PROVE Promise!Next \/ Same
  <2>1. ASSUME NEW p \in sent[x], ApplyUpdate(x, p) PROVE Promise!Next
    <3>1. x[1] \in Exports /\ job[x[1]] = "active"
      BY <2>1, ExecParts DEF OwedInv, ClaimedOr, Claimed, Owns
    <3>2. Promise!Work(x[1])
      BY <2>1, <3>1 DEF ApplyUpdate, WriteStatus, WriteProcessing, WriteCompleted, WriteFailed,
           queueVars, Promise!Work
    <3> QED BY <3>1, <3>2 DEF Promise!Next
  <2>2. ASSUME NEW p \in sent[x], LoseUpdate(x, p) PROVE Same
    BY <2>2 DEF LoseUpdate, rowVars, queueVars, Open
  <2>3. ASSUME NEW p \in written[x], TellUpdate(x, p) PROVE Same
    BY <2>3 DEF TellUpdate, rowVars, queueVars, Open
  <2> QED BY <1>6, <2>1, <2>2, <2>3 DEF UpdateStep
<1>7. ASSUME NEW w \in Workers, Crash(w) PROVE Same
  BY <1>7 DEF Crash, rowVars, queueVars, Open
<1>8. CASE Quiet \/ UNCHANGED vars
  BY <1>8 DEF Quiet, vars, rowVars, queueVars, Open
<1> QED
  BY <1>1, <1>2, <1>3, <1>4, <1>5, <1>6, <1>7, <1>8 DEF Next

\* The pipeline implements ExportPromise: while BullMQ takes no job from a
\* process that lives and forgives the crashes there are, work happens under an
\* open job only, a completed export has its object, and a closed job has an
\* outcome that nothing changes again.  The other faults may happen.
THEOREM PromiseKept ==
    ASSUME RendersEnd, NoStall, "crash" \notin Faults \/ MaxCrashes <= MaxStalls
    PROVE  Spec => ImplementsPromise
<1>1. Init => Promise!Init
  BY DEF Init, Promise!Init
<1> QED
  BY <1>1, PromiseInvariance, PromiseStep, PTL DEF Spec, ImplementsPromise, Promise!Spec
=============================================================================
